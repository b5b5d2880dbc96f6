------------------------- MODULE OrganizationProofs -------------------------
(***************************************************************************)
(* What an organization publishes, decides and overrides, on every number  *)
(* of requests, members and charters.                                      *)
(***************************************************************************)
EXTENDS Organization, SequenceTheorems, TLAPS

(* Publishing.  The charters are a sequence, requests have the fields that  *)
(* their step reads, who is between two answers of the engine has the turn, *)
(* and what is being put in force was made from the charter in force.       *)
Entries == {charters[n] : n \in Versions}

Chartered == charters \in Seq(Entries) /\ charters # <<>>

Shaped ==
  /\ DOMAIN job = Job
  /\ \A j \in Job :
       job[j].pc \in {"publish", "load", "append"} => DOMAIN job[j] = {"pc", "doc", "base"}

HasTurn == {"load", "append", "reload"}

Turns == \A j \in Job : job[j].pc \in HasTurn => lock = j

Built == \A j \in Job : job[j].pc \in {"load", "append"} => BuiltOnThis(job[j])

PublishInv == Chartered /\ Shaped /\ Turns /\ Built /\ PublishKeepsChanges

(* Deciding.  A charter that a request is judged by was published.          *)
Published(doc) == Since(doc) # {}

(* What the engine holds is of the charter in force, of one about to be, or *)
(* of one that failed since; or nothing.                                    *)
InUse ==
  {None, InForce.doc.rego}
  \cup {job[j].doc.rego : j \in {i \in Job : job[i].pc = "append"}}
  \cup {s.rego : s \in {t \in strays : t.over = Len(charters)}}

Backed(k, effect) ==
  effect # "refuse" =>
    \E rules \in RulesSince(k.doc) : Judged(k.doc, k.role, rules, k.fact).effect = effect

EngineInv ==
  /\ engine.custom \in InUse
  /\ DOMAIN engine = {"shipped", "custom"}
  /\ \A j \in Job : job[j].pc = "append" => engine.custom \in {None, job[j].doc.rego}

Settled(b) ==
  /\ b.pc \in {"ask", "judge", "reload", "answer"} => Published(b.key.doc)
  /\ b.pc = "judge" => b.held.custom \in {None} \cup RulesSince(b.key.doc)
  /\ b.pc = "answer" => Backed(b.key, b.effect)

DecidingInv == \A j \in Job : Settled(job[j])

Remembered(c) == Published(c.key.doc) /\ Backed(c.key, c.verdict.effect)

CacheInv == \A c \in cache : Remembered(c)

RulesInv == PublishInv /\ EngineInv /\ DecidingInv /\ CacheInv

(* Overrides.                                                               *)
Entry ==
  [request : Request, owner : Owner, spent : BOOLEAN, membership : Nat \ {0},
   told : BOOLEAN, handed : BOOLEAN, seen : BOOLEAN, used : Nat]

GlassInv ==
  /\ DOMAIN job = Job
  /\ \A j \in Job : job[j].pc = "directory" => job[j].request \in Request
  /\ left \in [DOMAIN Limit -> Nat]
  /\ DOMAIN members = Owner
  /\ \A o \in Owner : /\ DOMAIN members[o] = {"token", "role"}
                      /\ members[o].token \in Nat
                      /\ members[o] = NoMember \/ members[o].token # 0
  /\ glass \in Seq(Entry)
  /\ \A n \in DOMAIN glass : /\ glass[n].handed \/ glass[n].seen => glass[n].told
                             /\ glass[n].used # 0 => glass[n].spent
-----------------------------------------------------------------------------
(* The charters.                                                            *)

(* The charter in force is one of them.                                     *)
LEMMA ChartersCount ==
  ASSUME Chartered
  PROVE  Len(charters) \in Nat \ {0} /\ Versions = 1..Len(charters)
  BY EmptySeq, LenProperties DEF Chartered, Versions

(* One more charter leaves the others where they are.                       *)
LEMMA ChartersGrow ==
  ASSUME Chartered, NEW e, charters' = Append(charters, e)
  PROVE  /\ Chartered'
         /\ Len(charters') = Len(charters) + 1
         /\ charters'[Len(charters')] = e
         /\ \A n \in Versions : charters'[n] = charters[n]
         /\ Versions' = Versions \cup {Len(charters')}
<1> DEFINE S == Entries \cup {e}
<1>1. charters \in Seq(S)
  BY DEF Chartered, Entries, Versions
<1>2. /\ charters' \in Seq(S) /\ charters' # <<>>
      /\ Len(charters') = Len(charters) + 1
      /\ charters'[Len(charters')] = e
      /\ \A n \in 1..Len(charters) : charters'[n] = charters[n]
  BY <1>1, AppendProperties
<1>3. Len(charters) \in Nat /\ Versions = 1..Len(charters) /\ Versions' = 1..Len(charters')
  BY <1>1, <1>2, LenProperties DEF Versions
<1>4. Versions' = Versions \cup {Len(charters')}
  BY <1>2, <1>3
<1>5. \A n \in 1..Len(charters') : charters'[n] \in Entries'
  BY <1>3 DEF Entries
<1>6. charters' \in Seq(Entries')
  BY <1>2, <1>5, LenProperties, SeqDef
<1> QED
  BY <1>2, <1>3, <1>4, <1>6 DEF Chartered
-----------------------------------------------------------------------------
(* What most steps have in common: a request is at a step where it has no   *)
(* turn and nothing of the engine's answer.                                 *)

Calm(b) ==
  /\ b.pc \notin HasTurn
  /\ b.pc = "publish" => DOMAIN b = {"pc", "doc", "base"}

LEMMA CalmIdle == Calm(Idle) /\ Idle.pc = "idle"
  BY DEF Calm, Idle, HasTurn

LEMMA CalmKeeps ==
  ASSUME PublishInv, charters' = charters,
         lock' = lock, DOMAIN job' = Job,
         \A j \in Job : job'[j] = job[j] \/ Calm(job'[j])
  PROVE  PublishInv'
<1>1. Chartered' /\ Shaped' /\ Turns' /\ PublishKeepsChanges'
  BY DEF PublishInv, Chartered, Entries, Versions, Shaped, Turns, PublishKeepsChanges, Calm, HasTurn
<1>2. Built'
  BY DEF PublishInv, Built, BuiltOnThis, Calm, HasTurn
<1> QED
  BY <1>1, <1>2 DEF PublishInv

(* A request gives its turn back, if it had it.                             *)
LEMMA GivesBackKeeps ==
  ASSUME PublishInv, charters' = charters, NEW j \in Job, NEW to, Calm(to), Goes(j, to),
         lock' = IF lock = j THEN None ELSE lock
  PROVE  PublishInv'
<1>1. DOMAIN job' = Job /\ job'[j] = to /\ \A i \in Job \ {j} : job'[i] = job[i]
  BY DEF PublishInv, Shaped, Goes
<1>2. Chartered' /\ Shaped' /\ PublishKeepsChanges'
  BY <1>1 DEF PublishInv, Chartered, Entries, Versions, Shaped, PublishKeepsChanges, Calm, HasTurn
<1>3. Turns'
  BY <1>1 DEF PublishInv, Turns, Calm
<1>4. Built'
  BY <1>1 DEF PublishInv, Built, BuiltOnThis, Calm, HasTurn
<1> QED
  BY <1>2, <1>3, <1>4 DEF PublishInv

(* Nobody else is between two answers of the engine when the lock is free,  *)
(* and none but its holder ever is.                                         *)
LEMMA FreeLock ==
  ASSUME PublishInv, lock = None
  PROVE  \A j \in Job : job[j].pc \notin HasTurn
  BY OrganizationAssumption DEF PublishInv, Turns

LEMMA OneTurn ==
  ASSUME PublishInv, NEW j \in Job, job[j].pc \in HasTurn
  PROVE  lock = j /\ \A i \in Job \ {j} : job[i].pc \notin HasTurn
  BY DEF PublishInv, Turns

LEMMA PublishKeeps ==
  ASSUME PublishInv, NEW j \in Job, Publish(j)
  PROVE  PublishInv'
<1>1. DOMAIN job[j] = {"pc", "doc", "base"}
  BY DEF Publish, PublishInv, Shaped
<1>2. CASE BuiltOnThis(job[j]) /\ Valid(job[j].doc) /\ Kept(job[j].doc)
  <2> DEFINE to == [job[j] EXCEPT !.pc = "load"]
  <2>1. lock' = j /\ Goes(j, to) /\ charters' = charters
    BY <1>2 DEF Publish
  <2>2. to.pc = "load" /\ DOMAIN to = {"pc", "doc", "base"} /\ to.base = job[j].base
    BY <1>1
  <2>3. DOMAIN job' = Job /\ job'[j] = to /\ \A i \in Job \ {j} : job'[i] = job[i]
    BY <2>1 DEF PublishInv, Shaped, Goes
  <2>4. \A i \in Job : job[i].pc \notin HasTurn
    BY FreeLock DEF Publish
  <2> HIDE DEF to
  <2>5. Chartered' /\ Shaped' /\ PublishKeepsChanges'
    BY <2>1, <2>2, <2>3 DEF PublishInv, Chartered, Entries, Versions, Shaped, PublishKeepsChanges
  <2>6. Turns'
    BY <2>1, <2>2, <2>3, <2>4 DEF Turns
  <2>7. Built'
    BY <1>2, <2>1, <2>2, <2>3, <2>4 DEF Built, BuiltOnThis, HasTurn
  <2> QED
    BY <2>5, <2>6, <2>7 DEF PublishInv
<1>3. CASE ~(BuiltOnThis(job[j]) /\ Valid(job[j].doc) /\ Kept(job[j].doc))
  <2>1. Goes(j, Idle) /\ charters' = charters /\ lock' = lock
    BY <1>3 DEF Publish, Stops
  <2>2. DOMAIN job' = Job /\ \A i \in Job : job'[i] = job[i] \/ job'[i] = Idle
    BY <2>1 DEF PublishInv, Shaped, Goes
  <2> QED
    BY <2>1, <2>2, CalmIdle, CalmKeeps
<1> QED
  BY <1>2, <1>3

LEMMA LoadKeeps ==
  ASSUME PublishInv, NEW j \in Job, Load(j)
  PROVE  PublishInv'
<1> DEFINE to == [job[j] EXCEPT !.pc = "append"]
<1>1. DOMAIN job[j] = {"pc", "doc", "base"} /\ job[j].pc = "load"
  BY DEF Load, PublishInv, Shaped
<1>2. to.pc = "append" /\ DOMAIN to = {"pc", "doc", "base"} /\ to.base = job[j].base
  BY <1>1
<1>3. DOMAIN job' = Job /\ job'[j] = to /\ \A i \in Job \ {j} : job'[i] = job[i]
  BY DEF PublishInv, Shaped, Goes, Load
<1>4. lock' = lock /\ charters' = charters
  BY DEF Load
<1> HIDE DEF to
<1>5. Chartered' /\ Shaped' /\ PublishKeepsChanges'
  BY <1>2, <1>3, <1>4 DEF PublishInv, Chartered, Entries, Versions, Shaped, PublishKeepsChanges
<1>6. Turns'
  BY <1>1, <1>2, <1>3, <1>4 DEF PublishInv, Turns, HasTurn
<1>7. Built'
  BY <1>1, <1>2, <1>3, <1>4 DEF PublishInv, Built, BuiltOnThis
<1> QED
  BY <1>5, <1>6, <1>7 DEF PublishInv

LEMMA PutInForceKeeps ==
  ASSUME PublishInv, NEW j \in Job, PutInForce(j)
  PROVE  PublishInv'
<1> DEFINE e == [doc |-> job[j].doc, base |-> job[j].base]
<1>1. charters' = Append(charters, e) /\ lock' = None /\ Goes(j, Idle) /\ job[j].pc = "append"
  BY DEF PutInForce, Stops
<1>2. DOMAIN job' = Job /\ job'[j] = Idle /\ \A i \in Job \ {j} : job'[i] = job[i]
  BY <1>1 DEF PublishInv, Shaped, Goes
<1>3. \A i \in Job \ {j} : job[i].pc \notin HasTurn
  BY <1>1, OneTurn DEF HasTurn
<1>4. \A i \in Job : job'[i].pc \notin HasTurn
  BY <1>2, <1>3, CalmIdle DEF Calm
<1>5. Shaped'
  BY <1>2, CalmIdle DEF PublishInv, Shaped
<1>6. Turns' /\ Built'
  BY <1>4 DEF Turns, Built, HasTurn
<1>7. Len(charters) \in Nat /\ Versions = 1..Len(charters)
  BY ChartersCount DEF PublishInv
<1>8. e.base # None => e.base = Len(charters)
  BY <1>1 DEF PublishInv, Built, BuiltOnThis
<1> HIDE DEF e
<1>9. /\ Chartered'
      /\ Len(charters') = Len(charters) + 1
      /\ charters'[Len(charters')] = e
      /\ \A n \in Versions : charters'[n] = charters[n]
      /\ Versions' = Versions \cup {Len(charters')}
  BY <1>1, ChartersGrow DEF PublishInv
<1>10. PublishKeepsChanges'
  BY <1>7, <1>8, <1>9 DEF PublishInv, PublishKeepsChanges
<1> QED
  BY <1>5, <1>6, <1>9, <1>10 DEF PublishInv

LEMMA ReloadKeeps ==
  ASSUME PublishInv, NEW j \in Job, Reload(j)
  PROVE  PublishInv'
<1> DEFINE to == [pc |-> "reload", key |-> job[j].key]
<1>1. lock = None /\ lock' = j /\ Goes(j, to) /\ charters' = charters
  BY DEF Reload
<1>2. DOMAIN job' = Job /\ job'[j] = to /\ \A i \in Job \ {j} : job'[i] = job[i]
  BY <1>1 DEF PublishInv, Shaped, Goes
<1>3. \A i \in Job : job[i].pc \notin HasTurn
  BY <1>1, FreeLock
<1>4. Chartered' /\ Shaped' /\ PublishKeepsChanges'
  BY <1>1, <1>2 DEF PublishInv, Chartered, Entries, Versions, Shaped, PublishKeepsChanges
<1>5. Turns' /\ Built'
  BY <1>1, <1>2, <1>3 DEF Turns, Built, HasTurn
<1> QED
  BY <1>4, <1>5 DEF PublishInv
-----------------------------------------------------------------------------
(* What may have judged a request may always have.                          *)

Grows(doc) == Published(doc) => Published(doc)' /\ RulesSince(doc) \subseteq RulesSince(doc)'

(* A charter that was in force may have been judged by the rules of the one *)
(* that is, and by what the engine holds.                                   *)
LEMMA InForceIsSince ==
  ASSUME Chartered, NEW doc, Published(doc)
  PROVE  Len(charters) \in Since(doc) /\ InForce.doc.rego \in RulesSince(doc)
<1>1. Len(charters) \in Nat \ {0} /\ Versions = 1..Len(charters)
  BY ChartersCount
<1>2. PICK n \in Versions : \E k \in 1..n : charters[k].doc = doc
  BY DEF Published, Since
<1>3. \E k \in 1..Len(charters) : charters[k].doc = doc
  BY <1>1, <1>2
<1>4. Len(charters) \in Since(doc)
  BY <1>1, <1>3 DEF Since
<1> QED
  BY <1>4 DEF RulesSince, InForce

LEMMA InUseIsSince ==
  ASSUME Chartered, NEW doc, Published(doc)
  PROVE  InUse \subseteq {None} \cup RulesSince(doc)
  BY InForceIsSince DEF InUse, RulesSince

LEMMA StillGrows ==
  ASSUME charters' = charters, strays' = strays,
         \A j \in Job : job[j].pc = "append" => job'[j] = job[j],
         NEW doc
  PROVE  Grows(doc)
<1>1. Since(doc)' = Since(doc)
  BY DEF Since, Versions
<1> QED
  BY <1>1 DEF Grows, Published, RulesSince

LEMMA PutInForceGrows ==
  ASSUME PublishInv, NEW j \in Job, PutInForce(j), NEW doc
  PROVE  Grows(doc)
<1> SUFFICES ASSUME Published(doc) PROVE Published(doc)' /\ RulesSince(doc) \subseteq RulesSince(doc)'
  BY DEF Grows
<1> DEFINE e == [doc |-> job[j].doc, base |-> job[j].base]
           m == Len(charters')
<1>1. charters' = Append(charters, e) /\ Goes(j, Idle) /\ strays' = strays
  BY DEF PutInForce, Stops
<1>2. e.doc = job[j].doc
  OBVIOUS
<1>3. \A i \in Job \ {j} : job'[i] = job[i]
  BY <1>1 DEF PublishInv, Shaped, Goes
<1>4. Len(charters) \in Nat /\ Versions = 1..Len(charters)
  BY ChartersCount DEF PublishInv
<1> HIDE DEF e
<1>5. /\ m = Len(charters) + 1 /\ charters'[m] = e
      /\ \A n \in Versions : charters'[n] = charters[n]
      /\ Versions' = Versions \cup {m}
  BY <1>1, ChartersGrow DEF PublishInv
<1>6. PICK n \in Versions : \E k \in 1..n : charters[k].doc = doc
  BY DEF Published, Since
<1>7. \E k \in 1..m : charters'[k].doc = doc
  BY <1>4, <1>5, <1>6
<1>8. m \in Since(doc)'
  BY <1>5, <1>7 DEF Since
<1>9. Since(doc) \subseteq Since(doc)'
  BY <1>4, <1>5 DEF Since
<1>10. Published(doc)'
  BY <1>8 DEF Published
<1>11. job[j].doc.rego \in RulesSince(doc)'
  BY <1>2, <1>5, <1>8 DEF RulesSince
<1>12. \A v \in Since(doc) : charters[v].doc.rego \in RulesSince(doc)'
  BY <1>5, <1>9 DEF RulesSince, Since
<1>13. \A i \in Job : job[i].pc = "append" => job[i].doc.rego \in RulesSince(doc)'
  BY <1>3, <1>11 DEF RulesSince
<1>14. \A s \in strays : s.over \in Since(doc) => s.rego \in RulesSince(doc)'
  BY <1>1, <1>9 DEF RulesSince
<1> QED
  BY <1>10, <1>12, <1>13, <1>14 DEF RulesSince

LEMMA LoadFailsGrows ==
  ASSUME PublishInv, NEW j \in Job, LoadFails(j), NEW doc
  PROVE  Grows(doc)
<1> SUFFICES ASSUME Published(doc) PROVE Published(doc)' /\ RulesSince(doc) \subseteq RulesSince(doc)'
  BY DEF Grows
<1>1. Goes(j, Idle) /\ charters' = charters /\ strays \subseteq strays'
  BY DEF LoadFails, Stops
<1>2. \A i \in Job \ {j} : job'[i] = job[i]
  BY <1>1 DEF PublishInv, Shaped, Goes
<1>3. Since(doc)' = Since(doc)
  BY <1>1 DEF Since, Versions
<1>4. Len(charters) \in Since(doc)
  BY InForceIsSince DEF PublishInv
<1>5. job[j].pc = "append" => job[j].doc.rego \in RulesSince(doc)'
  <2> SUFFICES ASSUME job[j].pc = "append" PROVE job[j].doc.rego \in RulesSince(doc)'
    OBVIOUS
  <2>1. [rego |-> job[j].doc.rego, over |-> Len(charters)] \in strays'
    BY DEF LoadFails
  <2> QED
    BY <1>3, <1>4, <2>1 DEF RulesSince
<1>6. \A i \in Job : job[i].pc = "append" => job[i].doc.rego \in RulesSince(doc)'
  BY <1>2, <1>5 DEF RulesSince
<1> QED
  BY <1>1, <1>3, <1>6 DEF RulesSince, Published

LEMMA SettledStays ==
  ASSUME NEW b, Settled(b), \A doc : Grows(doc)
  PROVE  Settled(b)'
  BY DEF Settled, Grows, Backed

LEMMA RememberedStays ==
  ASSUME NEW c, Remembered(c), \A doc : Grows(doc)
  PROVE  Remembered(c)'
  BY DEF Remembered, Grows, Backed

(* A request that has nothing of the engine's is settled.                   *)
LEMMA AsideSettled ==
  ASSUME NEW b, b.pc \notin {"ask", "judge", "reload", "answer"}
  PROVE  Settled(b)'
  BY DEF Settled
-----------------------------------------------------------------------------
(* Most steps leave the engine, the charters and what is remembered alone.  *)

Aside(b) == Calm(b) /\ b.pc \notin {"ask", "judge", "answer"}

Ordinary ==
  /\ charters' = charters /\ lock' = lock /\ engine' = engine /\ strays' = strays
  /\ cache' \subseteq cache
  /\ DOMAIN job' = Job
  /\ \A j \in Job : job'[j] = job[j] \/ (job[j].pc \notin HasTurn /\ Aside(job'[j]))

LEMMA EngineStays ==
  ASSUME EngineInv, charters' = charters, strays' = strays, engine' = engine,
         \A j \in Job : /\ job[j].pc = "append" => job'[j] = job[j]
                        /\ job'[j].pc = "append" => job'[j] = job[j]
  PROVE  EngineInv'
<1>1. InUse \subseteq InUse'
  BY DEF InUse, InForce
<1> QED
  BY <1>1 DEF EngineInv

LEMMA OrdinaryKeeps ==
  ASSUME RulesInv, Ordinary
  PROVE  RulesInv'
<1>1. PublishInv'
  BY CalmKeeps DEF RulesInv, Ordinary, Aside
<1>2. \A j \in Job : /\ job[j].pc = "append" => job'[j] = job[j]
                     /\ job'[j].pc = "append" => job'[j] = job[j]
  BY DEF Ordinary, Aside, Calm, HasTurn
<1>3. \A doc : Grows(doc)
  BY <1>2, StillGrows DEF Ordinary
<1>4. EngineInv'
  BY <1>2, EngineStays DEF Ordinary, RulesInv
<1>5. \A j \in Job : Settled(job[j])'
  <2> TAKE j \in Job
  <2>1. CASE job'[j] = job[j]
    BY <1>3, <2>1, SettledStays DEF RulesInv, DecidingInv, Settled, Backed
  <2>2. CASE Aside(job'[j])
    BY <2>2, AsideSettled DEF Aside, Calm, Settled, HasTurn
  <2> QED
    BY <2>1, <2>2 DEF Ordinary
<1>6. CacheInv'
  BY <1>3, RememberedStays DEF Ordinary, RulesInv, CacheInv
<1> QED
  BY <1>1, <1>4, <1>5, <1>6 DEF RulesInv, DecidingInv

(* A request that goes from no turn to a step of no consequence.            *)
Untouched ==
  /\ charters' = charters /\ lock' = lock /\ engine' = engine /\ strays' = strays
  /\ cache' = cache

LEMMA GoesOrdinary ==
  ASSUME RulesInv, NEW j \in Job, NEW to, job[j].pc \notin HasTurn, Aside(to), Goes(j, to), Untouched
  PROVE  Ordinary
  BY DEF RulesInv, PublishInv, Shaped, Goes, Untouched, Ordinary

LEMMA StopsOrdinary ==
  ASSUME RulesInv, NEW j \in Job, job[j].pc \notin HasTurn, Stops(j), Untouched
  PROVE  Ordinary
<1>1. Aside(Idle)
  BY CalmIdle DEF Aside
<1> QED
  BY <1>1, GoesOrdinary DEF Stops

LEMMA StaysOrdinary ==
  ASSUME RulesInv, job' = job, cache' \subseteq cache, charters' = charters, lock' = lock,
         engine' = engine, strays' = strays
  PROVE  Ordinary
  BY DEF RulesInv, PublishInv, Shaped, Ordinary

LEMMA FreeHasNoTurn ==
  ASSUME NEW j \in Job, Free(j)
  PROVE  job[j].pc \notin HasTurn
  BY DEF Free, Idle, HasTurn

LEMMA SubmitOrdinary ==
  ASSUME RulesInv, NEW j \in Job, NEW doc, NEW base, Submit(j, doc, base)
  PROVE  Ordinary
<1> DEFINE to == [pc |-> "publish", doc |-> doc, base |-> base]
<1>1. Aside(to)
  BY DEF Aside, Calm, HasTurn
<1>2. Free(j) /\ Goes(j, to) /\ Untouched
  BY DEF Submit, Untouched
<1> QED
  BY <1>1, <1>2, FreeHasNoTurn, GoesOrdinary

LEMMA EditsOrdinary ==
  ASSUME RulesInv, NEW j \in Job,
         \/ PutCharter(j)
         \/ \E role \in Role, group \in Groups, default \in BOOLEAN :
              PutRole(j, role, group, default)
         \/ \E role \in Role : DeleteRole(j, role)
         \/ \E role \in Role \cup {None} : DefaultRole(j, role)
  PROVE  Ordinary
<1>1. PICK doc, base : Submit(j, doc, base)
  BY DEF PutCharter, PutRole, DeleteRole, DefaultRole
<1> QED
  BY <1>1, SubmitOrdinary

LEMMA OverridingOrdinary ==
  ASSUME RulesInv, NEW j \in Job, Overriding(j)
  PROVE  Ordinary
<1>1. ASSUME NEW o \in Owner, OpenVoucher(j, o) PROVE Ordinary
  <2> DEFINE to == [pc |-> "open", owner |-> o, number |-> left["voucher"]]
  <2>1. Aside(to)
    BY DEF Aside, Calm, HasTurn
  <2>2. Free(j) /\ Goes(j, to) /\ Untouched
    BY <1>1 DEF OpenVoucher, Untouched
  <2> QED
    BY <2>1, <2>2, FreeHasNoTurn, GoesOrdinary
<1>2. CASE VoucherOpened(j)
  <2>1. job[j].pc \notin HasTurn /\ Stops(j) /\ Untouched
    BY <1>2 DEF VoucherOpened, Untouched, HasTurn
  <2> QED
    BY <2>1, StopsOrdinary
<1>3. ASSUME NEW q \in Request, Issues(j, q), job[j].pc \notin HasTurn, Untouched PROVE Ordinary
  <2> DEFINE to == [pc |-> "tell", nr |-> Len(glass) + 1]
  <2>1. Aside(to)
    BY DEF Aside, Calm, HasTurn
  <2>2. Goes(j, to) \/ Stops(j)
    BY <1>3 DEF Issues
  <2> QED
    BY <1>3, <2>1, <2>2, GoesOrdinary, StopsOrdinary
<1>4. ASSUME NEW q \in Request, BreakGlass(j, q) PROVE Ordinary
  <2> DEFINE to == [pc |-> "directory", request |-> q]
  <2>1. Aside(to)
    BY DEF Aside, Calm, HasTurn
  <2>2. Free(j) /\ Untouched /\ (Issues(j, q) \/ Goes(j, to))
    BY <1>4 DEF BreakGlass, Untouched
  <2> QED
    BY <1>3, <2>1, <2>2, FreeHasNoTurn, GoesOrdinary
<1>5. CASE Looked(j)
  <2>1. job[j].pc \notin HasTurn /\ Untouched
    BY <1>5 DEF Looked, Untouched, HasTurn
  <2>2. Issues(j, job[j].request) \/ Stops(j)
    BY <1>5 DEF Looked
  <2>3. CASE Stops(j)
    BY <2>1, <2>3, StopsOrdinary
  <2>4. CASE Issues(j, job[j].request)
    <3> DEFINE to == [pc |-> "tell", nr |-> Len(glass) + 1]
    <3>1. Aside(to)
      BY DEF Aside, Calm, HasTurn
    <3>2. Goes(j, to) \/ Stops(j)
      BY <2>4 DEF Issues
    <3> QED
      BY <2>1, <3>1, <3>2, GoesOrdinary, StopsOrdinary
  <2> QED
    BY <2>2, <2>3, <2>4
<1>6. CASE Tell(j)
  <2>1. job[j].pc \notin HasTurn /\ Stops(j) /\ Untouched
    BY <1>6 DEF Tell, Untouched, HasTurn
  <2> QED
    BY <2>1, StopsOrdinary
<1> QED
  BY <1>1, <1>2, <1>4, <1>5, <1>6 DEF Overriding

LEMMA MembersOrdinary ==
  ASSUME RulesInv,
         \/ \E j \in Job : Removed(j)
         \/ \E j \in Job, o \in Owner : RemoveMember(j, o)
         \/ \E o \in Owner : Belonging(o)
         \/ \E v \in vouchers : VoucherExpires(v)
         \/ \E n \in DOMAIN glass : Introspect(n) \/ Consume(n) \/ OverrideExpires(n)
         \/ CacheAges
  PROVE  Ordinary
<1>1. ASSUME NEW j \in Job, Removed(j) PROVE Ordinary
  <2>1. job[j].pc \notin HasTurn /\ Stops(j) /\ Untouched
    BY <1>1 DEF Removed, Untouched, HasTurn
  <2> QED
    BY <2>1, StopsOrdinary
<1>2. ASSUME NEW j \in Job, NEW o \in Owner, RemoveMember(j, o) PROVE Ordinary
  <2> DEFINE to == [pc |-> "remove", owner |-> o]
  <2>1. Aside(to)
    BY DEF Aside, Calm, HasTurn
  <2>2. Free(j) /\ Goes(j, to) /\ Untouched
    BY <1>2 DEF RemoveMember, Untouched
  <2> QED
    BY <2>1, <2>2, FreeHasNoTurn, GoesOrdinary
<1>3. ASSUME NEW o \in Owner, Belonging(o) PROVE Ordinary
  BY <1>3, StaysOrdinary
     DEF Belonging, Invite, Decline, Withdraw, Preview, Join, Leave, SetRole
<1>4. CASE CacheAges
  BY <1>4, StaysOrdinary DEF CacheAges
<1>5. ASSUME NEW v \in vouchers, VoucherExpires(v) PROVE Ordinary
  BY <1>5, StaysOrdinary DEF VoucherExpires
<1>6. ASSUME NEW n \in DOMAIN glass, Introspect(n) \/ Consume(n) \/ OverrideExpires(n) PROVE Ordinary
  BY <1>6, StaysOrdinary DEF Introspect, Consume, OverrideExpires
<1> QED
  BY <1>1, <1>2, <1>3, <1>4, <1>5, <1>6
-----------------------------------------------------------------------------
(* Publishing, and asking the engine.                                       *)

LEMMA PublishRules ==
  ASSUME RulesInv, NEW j \in Job, Publish(j)
  PROVE  RulesInv'
<1>1. PublishInv'
  BY PublishKeeps DEF RulesInv
<1>2. /\ charters' = charters /\ engine' = engine /\ strays' = strays /\ cache' = cache
      /\ job[j].pc = "publish"
  BY DEF Publish
<1>3. /\ \A i \in Job \ {j} : job'[i] = job[i]
      /\ job'[j].pc \in {"load", "idle"}
  <2>1. DOMAIN job[j] = {"pc", "doc", "base"} /\ DOMAIN job = Job
    BY <1>2 DEF RulesInv, PublishInv, Shaped
  <2>2. [job[j] EXCEPT !.pc = "load"].pc = "load"
    BY <2>1
  <2> QED
    BY <2>1, <2>2 DEF Publish, Goes, Stops, Idle
<1>4. \A i \in Job : /\ job[i].pc = "append" => job'[i] = job[i]
                     /\ job'[i].pc = "append" => job'[i] = job[i]
  BY <1>2, <1>3
<1>5. \A doc : Grows(doc)
  BY <1>2, <1>4, StillGrows
<1>6. EngineInv'
  BY <1>2, <1>4, EngineStays DEF RulesInv
<1>7. DecidingInv'
  <2>1. ASSUME NEW i \in Job PROVE Settled(job[i])'
    <3>1. CASE job'[i] = job[i]
      BY <1>5, <3>1, SettledStays DEF RulesInv, DecidingInv, Settled, Backed
    <3>2. CASE job'[i] # job[i]
      BY <1>3, <3>2, AsideSettled DEF Settled
    <3> QED
      BY <3>1, <3>2
  <2> QED
    BY <2>1 DEF DecidingInv
<1>8. CacheInv'
  BY <1>2, <1>5, RememberedStays DEF RulesInv, CacheInv
<1> QED
  BY <1>1, <1>6, <1>7, <1>8 DEF RulesInv

(* What others have of the engine's answers stands while one moves.         *)
LEMMA OthersSettled ==
  ASSUME RulesInv, NEW j \in Job, \A i \in Job \ {j} : job'[i] = job[i], Settled(job[j])',
         \A doc : Grows(doc)
  PROVE  DecidingInv'
<1>1. ASSUME NEW i \in Job PROVE Settled(job[i])'
  <2>1. CASE i # j
    BY <2>1, SettledStays DEF RulesInv, DecidingInv, Settled, Backed
  <2> QED
    BY <2>1
<1> QED
  BY <1>1 DEF DecidingInv

LEMMA LoadRules ==
  ASSUME RulesInv, NEW j \in Job, Load(j)
  PROVE  RulesInv'
<1> DEFINE to == [job[j] EXCEPT !.pc = "append"]
<1>1. PublishInv'
  BY LoadKeeps DEF RulesInv
<1>2. /\ charters' = charters /\ strays' = strays /\ cache' = cache
      /\ engine' = [engine EXCEPT !.custom = job[j].doc.rego]
      /\ job[j].pc = "load"
  BY DEF Load
<1>3. to.pc = "append" /\ to.doc = job[j].doc
  BY <1>2 DEF RulesInv, PublishInv, Shaped
<1>4. DOMAIN job' = Job /\ job'[j] = to /\ \A i \in Job \ {j} : job'[i] = job[i]
  BY DEF RulesInv, PublishInv, Shaped, Goes, Load
<1>5. \A i \in Job \ {j} : job[i].pc \notin HasTurn
  BY <1>2, OneTurn DEF RulesInv, HasTurn
<1> HIDE DEF to
<1>6. \A doc : Grows(doc)
  BY <1>2, <1>4, StillGrows
<1>7. /\ engine'.custom = job[j].doc.rego /\ DOMAIN engine' = {"shipped", "custom"}
  BY <1>2 DEF RulesInv, EngineInv
<1>8. EngineInv'
  BY <1>3, <1>4, <1>5, <1>7 DEF EngineInv, InUse, HasTurn
<1>9. Settled(job[j])'
  BY <1>3, <1>4, AsideSettled DEF Settled
<1>10. DecidingInv'
  BY <1>4, <1>6, <1>9, OthersSettled
<1>11. CacheInv'
  BY <1>2, <1>6, RememberedStays DEF RulesInv, CacheInv
<1> QED
  BY <1>1, <1>8, <1>10, <1>11 DEF RulesInv

LEMMA PutInForceRules ==
  ASSUME RulesInv, NEW j \in Job, PutInForce(j)
  PROVE  RulesInv'
<1> DEFINE e == [doc |-> job[j].doc, base |-> job[j].base]
<1>1. PublishInv'
  BY PutInForceKeeps DEF RulesInv
<1>2. /\ charters' = Append(charters, e) /\ strays' = strays /\ cache' = cache
      /\ engine' = engine /\ Goes(j, Idle) /\ job[j].pc = "append"
  BY DEF PutInForce, Stops
<1>3. e.doc = job[j].doc
  OBVIOUS
<1>4. DOMAIN job' = Job /\ job'[j] = Idle /\ \A i \in Job \ {j} : job'[i] = job[i]
  BY <1>2 DEF RulesInv, PublishInv, Shaped, Goes
<1>5. \A i \in Job \ {j} : job[i].pc \notin HasTurn
  BY <1>2, OneTurn DEF RulesInv, HasTurn
<1>6. \A doc : Grows(doc)
  BY PutInForceGrows DEF RulesInv
<1> HIDE DEF e
<1>7. InForce'.doc.rego = job[j].doc.rego
  BY <1>2, <1>3, ChartersGrow DEF RulesInv, PublishInv, InForce
<1>8. \A i \in Job : job'[i].pc # "append"
  BY <1>4, <1>5, CalmIdle DEF HasTurn
<1>9. EngineInv'
  BY <1>2, <1>7, <1>8 DEF RulesInv, EngineInv, InUse
<1>10. Settled(job[j])'
  BY <1>4, CalmIdle, AsideSettled DEF Settled
<1>11. DecidingInv'
  BY <1>4, <1>6, <1>10, OthersSettled
<1>12. CacheInv'
  BY <1>2, <1>6, RememberedStays DEF RulesInv, CacheInv
<1> QED
  BY <1>1, <1>9, <1>11, <1>12 DEF RulesInv

LEMMA LoadFailsRules ==
  ASSUME RulesInv, NEW j \in Job, LoadFails(j)
  PROVE  RulesInv'
<1>1. /\ charters' = charters /\ strays \subseteq strays' /\ cache' = cache /\ lock' = None
      /\ engine' = engine /\ Goes(j, Idle) /\ job[j].pc \in {"load", "append"}
  BY DEF LoadFails, Stops
<1>2. lock = j /\ \A i \in Job \ {j} : job[i].pc \notin HasTurn
  BY <1>1, OneTurn DEF RulesInv, HasTurn
<1>3. PublishInv'
  BY <1>1, <1>2, CalmIdle, GivesBackKeeps DEF RulesInv
<1>4. DOMAIN job' = Job /\ job'[j] = Idle /\ \A i \in Job \ {j} : job'[i] = job[i]
  BY <1>1 DEF RulesInv, PublishInv, Shaped, Goes
<1>5. \A doc : Grows(doc)
  BY LoadFailsGrows DEF RulesInv
<1>6. \A i \in Job : job'[i].pc # "append"
  BY <1>2, <1>4, CalmIdle DEF HasTurn
<1>7. engine.custom \in InUse'
  <2>1. CASE job[j].pc = "append" /\ engine.custom = job[j].doc.rego
    <3>1. [rego |-> job[j].doc.rego, over |-> Len(charters)] \in strays'
      BY <2>1 DEF LoadFails
    <3>2. [rego |-> job[j].doc.rego, over |-> Len(charters)].over = Len(charters')
      BY <1>1
    <3>3. [rego |-> job[j].doc.rego, over |-> Len(charters)].rego = engine.custom
      BY <2>1
    <3> QED
      BY <3>1, <3>2, <3>3 DEF InUse
  <2>2. CASE job[j].pc = "append" /\ engine.custom = None
    BY <2>2 DEF InUse
  <2>3. CASE job[j].pc = "load"
    <3>1. \A i \in Job : job[i].pc # "append"
      BY <1>2, <2>3 DEF HasTurn
    <3> QED
      BY <1>1, <3>1 DEF RulesInv, EngineInv, InUse, InForce
  <2> QED
    BY <1>1, <2>1, <2>2, <2>3 DEF RulesInv, EngineInv
<1>8. EngineInv'
  BY <1>1, <1>6, <1>7 DEF RulesInv, EngineInv
<1>9. Settled(job[j])'
  BY <1>4, CalmIdle, AsideSettled DEF Settled
<1>10. DecidingInv'
  BY <1>4, <1>5, <1>9, OthersSettled
<1>11. CacheInv'
  BY <1>1, <1>5, RememberedStays DEF RulesInv, CacheInv
<1> QED
  BY <1>3, <1>8, <1>10, <1>11 DEF RulesInv

(* A request that has no turn moves, and only it; the engine, the charters  *)
(* and the lock are as they were.                                           *)
LEMMA AskingKeeps ==
  ASSUME RulesInv, NEW j \in Job, NEW to, Goes(j, to), Calm(to), job[j].pc \notin HasTurn,
         charters' = charters, lock' = lock, engine' = engine, strays' = strays
  PROVE  /\ PublishInv' /\ EngineInv' /\ job'[j] = to
         /\ \A i \in Job \ {j} : job'[i] = job[i]
         /\ \A doc : Grows(doc)
<1>1. DOMAIN job' = Job /\ job'[j] = to /\ \A i \in Job \ {j} : job'[i] = job[i]
  BY DEF RulesInv, PublishInv, Shaped, Goes
<1>2. PublishInv'
  BY <1>1, CalmKeeps DEF RulesInv
<1>3. \A i \in Job : /\ job[i].pc = "append" => job'[i] = job[i]
                     /\ job'[i].pc = "append" => job'[i] = job[i]
  BY <1>1 DEF Calm, HasTurn
<1>4. \A doc : Grows(doc)
  BY <1>3, StillGrows
<1>5. EngineInv'
  BY <1>3, EngineStays DEF RulesInv
<1> QED
  BY <1>1, <1>2, <1>4, <1>5

LEMMA DecideRules ==
  ASSUME RulesInv, NEW j \in Job, NEW o \in Owner, NEW fact \in Facts, Decide(j, o, fact)
  PROVE  RulesInv'
<1> DEFINE k == [doc |-> InForce.doc, role |-> members[o].role, owner |-> o, fact |-> fact]
           to == [pc |-> "ask", again |-> FALSE, key |-> k]
<1>1. /\ Goes(j, to) /\ charters' = charters /\ lock' = lock /\ engine' = engine
      /\ strays' = strays /\ cache' = cache /\ Free(j)
  BY DEF Decide
<1>2. Calm(to) /\ to.pc = "ask" /\ to.key.doc = InForce.doc
  BY DEF Calm, HasTurn
<1> HIDE DEF to
<1>3. /\ PublishInv' /\ EngineInv' /\ job'[j] = to
      /\ \A i \in Job \ {j} : job'[i] = job[i]
      /\ \A doc : Grows(doc)
  BY <1>1, <1>2, FreeHasNoTurn, AskingKeeps
<1>4. Published(InForce.doc)
  <2>1. Len(charters) \in Nat \ {0} /\ Versions = 1..Len(charters)
    BY ChartersCount DEF RulesInv, PublishInv
  <2>2. Len(charters) \in Since(InForce.doc)
    BY <2>1 DEF Since, InForce
  <2> QED
    BY <2>2 DEF Published
<1>5. Settled(job[j])'
  BY <1>2, <1>3, <1>4 DEF Settled, Grows
<1>6. DecidingInv'
  BY <1>3, <1>5, OthersSettled
<1>7. CacheInv'
  BY <1>1, <1>3, RememberedStays DEF RulesInv, CacheInv
<1> QED
  BY <1>3, <1>6, <1>7 DEF RulesInv

LEMMA EngineAnswersRules ==
  ASSUME RulesInv, NEW j \in Job, EngineAnswers(j)
  PROVE  RulesInv'
<1> DEFINE to == [pc |-> "judge", again |-> job[j].again, key |-> job[j].key, held |-> engine]
<1>1. /\ Goes(j, to) /\ charters' = charters /\ lock' = lock /\ engine' = engine
      /\ strays' = strays /\ cache' = cache /\ job[j].pc = "ask"
  BY DEF EngineAnswers
<1>3. to.pc = "judge" /\ to.key = job[j].key /\ to.held = engine
  OBVIOUS
<1> HIDE DEF to
<1>4. Calm(to) /\ job[j].pc \notin HasTurn
  BY <1>1, <1>3 DEF Calm, HasTurn
<1>5. /\ PublishInv' /\ EngineInv' /\ job'[j] = to
      /\ \A i \in Job \ {j} : job'[i] = job[i]
      /\ \A doc : Grows(doc)
  BY <1>1, <1>4, AskingKeeps
<1>6. Published(to.key.doc)
  BY <1>1, <1>3 DEF RulesInv, DecidingInv, Settled
<1>7. to.held.custom \in {None} \cup RulesSince(to.key.doc)
  BY <1>3, <1>6, InUseIsSince DEF RulesInv, PublishInv, EngineInv
<1>8. Settled(job[j])'
  BY <1>3, <1>5, <1>6, <1>7 DEF Settled, Grows
<1>9. DecidingInv'
  BY <1>5, <1>8, OthersSettled
<1>10. CacheInv'
  BY <1>1, <1>5, RememberedStays DEF RulesInv, CacheInv
<1> QED
  BY <1>5, <1>9, <1>10 DEF RulesInv
(* What the engine answered with is, if it lacks nothing, of a charter      *)
(* since the one that the request was judged by.                            *)
LEMMA HeldIsSince ==
  ASSUME RulesInv, NEW j \in Job, job[j].pc = "judge", ~Lacks(job[j].held)
  PROVE  job[j].held.custom \in RulesSince(job[j].key.doc)
<1>1. /\ Published(job[j].key.doc)
      /\ job[j].held.custom \in {None} \cup RulesSince(job[j].key.doc)
  BY DEF RulesInv, DecidingInv, Settled
<1>2. InForce.doc.rego \in RulesSince(job[j].key.doc)
  BY <1>1, InForceIsSince DEF RulesInv, PublishInv
<1>3. job[j].held.custom = None => InForce.doc.rego = None
  BY DEF Lacks
<1> QED
  BY <1>1, <1>2, <1>3

LEMMA JudgeRules ==
  ASSUME RulesInv, NEW j \in Job, Judge(j)
  PROVE  RulesInv'
<1> DEFINE k == job[j].key
           verdict == Judged(k.doc, k.role, job[j].held.custom, k.fact)
           to == [pc |-> "answer", key |-> k, effect |-> verdict.effect]
           c == [key |-> k, verdict |-> verdict]
<1>1. /\ charters' = charters /\ lock' = lock /\ engine' = engine /\ strays' = strays
      /\ job[j].pc = "judge" /\ ~Lacks(job[j].held)
      /\ Goes(j, to)
      /\ cache' = {d \in cache : d.key # k} \cup {c}
  BY DEF Judge, Answers
<1>2. job[j].held.custom \in RulesSince(k.doc) /\ Published(k.doc)
  BY <1>1, HeldIsSince DEF RulesInv, DecidingInv, Settled
<1>3. Backed(k, verdict.effect)
  BY <1>2 DEF Backed
<1>4. to.pc = "answer" /\ to.key = k /\ to.effect = verdict.effect
  OBVIOUS
<1>5. c.key = k /\ c.verdict = verdict
  OBVIOUS
<1> HIDE DEF to, c, verdict
<1>6. Calm(to) /\ job[j].pc \notin HasTurn
  BY <1>1, <1>4 DEF Calm, HasTurn
<1>7. /\ PublishInv' /\ EngineInv' /\ job'[j] = to
      /\ \A i \in Job \ {j} : job'[i] = job[i]
      /\ \A doc : Grows(doc)
  BY <1>1, <1>6, AskingKeeps
<1>8. Settled(to)
  BY <1>2, <1>3, <1>4 DEF Settled
<1>9. Settled(job[j])'
  BY <1>7, <1>8, SettledStays DEF Settled, Backed
<1>10. DecidingInv'
  BY <1>7, <1>9, OthersSettled
<1>11. Remembered(c)
  BY <1>2, <1>3, <1>5 DEF Remembered
<1>12. CacheInv'
  BY <1>1, <1>7, <1>11, RememberedStays DEF RulesInv, CacheInv
<1> QED
  BY <1>7, <1>10, <1>12 DEF RulesInv

LEMMA ReloadRules ==
  ASSUME RulesInv, NEW j \in Job, Reload(j)
  PROVE  RulesInv'
<1> DEFINE to == [pc |-> "reload", key |-> job[j].key]
<1>1. PublishInv'
  BY ReloadKeeps DEF RulesInv
<1>2. /\ Goes(j, to) /\ charters' = charters /\ strays' = strays /\ cache' = cache
      /\ engine' = [engine EXCEPT !.shipped = TRUE] /\ job[j].pc = "judge" /\ lock = None
  BY DEF Reload
<1>3. DOMAIN job' = Job /\ job'[j] = to /\ \A i \in Job \ {j} : job'[i] = job[i]
  BY <1>2 DEF RulesInv, PublishInv, Shaped, Goes
<1>4. to.pc = "reload" /\ to.key = job[j].key
  OBVIOUS
<1> HIDE DEF to
<1>5. \A i \in Job : job'[i].pc # "append" /\ job[i].pc # "append"
  BY <1>2, <1>3, <1>4, FreeLock DEF RulesInv, HasTurn
<1>6. \A doc : Grows(doc)
  BY <1>2, <1>5, StillGrows
<1>7. engine'.custom = engine.custom /\ DOMAIN engine' = {"shipped", "custom"}
  BY <1>2 DEF RulesInv, EngineInv
<1>8. EngineInv'
  BY <1>2, <1>5, <1>7 DEF RulesInv, EngineInv, InUse, InForce
<1>9. Settled(job[j])'
  BY <1>2, <1>3, <1>4, <1>6 DEF RulesInv, DecidingInv, Settled, Grows
<1>10. DecidingInv'
  BY <1>3, <1>6, <1>9, OthersSettled
<1>11. CacheInv'
  BY <1>2, <1>6, RememberedStays DEF RulesInv, CacheInv
<1> QED
  BY <1>1, <1>8, <1>10, <1>11 DEF RulesInv

LEMMA ReloadedRules ==
  ASSUME RulesInv, NEW j \in Job, Reloaded(j)
  PROVE  RulesInv'
<1> DEFINE to == [pc |-> "ask", again |-> TRUE, key |-> job[j].key]
<1>1. /\ Goes(j, to) /\ charters' = charters /\ strays' = strays /\ cache' = cache
      /\ engine' = [engine EXCEPT !.custom = InForce.doc.rego] /\ job[j].pc = "reload"
      /\ lock' = None
  BY DEF Reloaded
<1>2. DOMAIN job' = Job /\ job'[j] = to /\ \A i \in Job \ {j} : job'[i] = job[i]
  BY <1>1 DEF RulesInv, PublishInv, Shaped, Goes
<1>3. to.pc = "ask" /\ to.key = job[j].key
  OBVIOUS
<1> HIDE DEF to
<1>4. lock = j /\ \A i \in Job \ {j} : job[i].pc \notin HasTurn
  BY <1>1, OneTurn DEF RulesInv, HasTurn
<1>5. PublishInv'
  BY <1>1, <1>3, <1>4, GivesBackKeeps DEF RulesInv, Calm, HasTurn
<1>6. \A i \in Job : job'[i].pc # "append" /\ job[i].pc # "append"
  BY <1>1, <1>2, <1>3, <1>4 DEF HasTurn
<1>7. \A doc : Grows(doc)
  BY <1>1, <1>6, StillGrows
<1>8. EngineInv'
  BY <1>1, <1>6 DEF RulesInv, EngineInv, InUse, InForce
<1>9. Settled(job[j])'
  BY <1>1, <1>2, <1>3, <1>7 DEF RulesInv, DecidingInv, Settled, Grows
<1>10. DecidingInv'
  BY <1>2, <1>7, <1>9, OthersSettled
<1>11. CacheInv'
  BY <1>1, <1>7, RememberedStays DEF RulesInv, CacheInv
<1> QED
  BY <1>5, <1>8, <1>10, <1>11 DEF RulesInv

LEMMA FallBackRules ==
  ASSUME RulesInv, NEW j \in Job, FallBack(j)
  PROVE  RulesInv'
<1>1. /\ charters' = charters /\ strays' = strays /\ cache' = cache /\ engine' = engine
      /\ lock' = IF lock = j THEN None ELSE lock
      /\ job[j].pc \in {"ask", "reload", "judge"}
  BY DEF FallBack
<1>2. PICK effect : /\ Goes(j, [pc |-> "answer", key |-> job[j].key, effect |-> effect])
                    /\ Backed(job[j].key, effect)
  <2>1. CASE Answers(j, Refuse)
    BY <2>1 DEF Answers, Backed, Refuse
  <2>2. ASSUME NEW c \in cache, c.key = job[j].key, Answers(j, c.verdict)
        PROVE  \E effect :
                 /\ Goes(j, [pc |-> "answer", key |-> job[j].key, effect |-> effect])
                 /\ Backed(job[j].key, effect)
    BY <2>2 DEF Answers, RulesInv, CacheInv, Remembered
  <2> QED
    BY <2>1, <2>2 DEF FallBack
<1> DEFINE to == [pc |-> "answer", key |-> job[j].key, effect |-> effect]
<1>3. DOMAIN job' = Job /\ job'[j] = to /\ \A i \in Job \ {j} : job'[i] = job[i]
  BY <1>2 DEF RulesInv, PublishInv, Shaped, Goes
<1>4. to.pc = "answer" /\ to.key = job[j].key /\ to.effect = effect
  OBVIOUS
<1>5. Goes(j, to)
  BY <1>2
<1> HIDE DEF to
<1>6. PublishInv'
  BY <1>1, <1>4, <1>5, GivesBackKeeps DEF RulesInv, Calm, HasTurn
<1>7. \A i \in Job : /\ job[i].pc = "append" => job'[i] = job[i]
                     /\ job'[i].pc = "append" => job'[i] = job[i]
  BY <1>1, <1>3, <1>4
<1>8. \A doc : Grows(doc)
  BY <1>1, <1>7, StillGrows
<1>9. EngineInv'
  BY <1>1, <1>7, EngineStays DEF RulesInv
<1>10. Settled(to)
  BY <1>1, <1>2, <1>4 DEF RulesInv, DecidingInv, Settled
<1>11. Settled(job[j])'
  BY <1>3, <1>8, <1>10, SettledStays DEF Settled, Backed
<1>12. DecidingInv'
  BY <1>3, <1>8, <1>11, OthersSettled
<1>13. CacheInv'
  BY <1>1, <1>8, RememberedStays DEF RulesInv, CacheInv
<1> QED
  BY <1>6, <1>9, <1>12, <1>13 DEF RulesInv

LEMMA EngineRestartsRules ==
  ASSUME RulesInv, EngineRestarts
  PROVE  RulesInv'
<1>1. /\ charters' = charters /\ lock' = lock /\ strays' = strays /\ cache' = cache
      /\ job' = job /\ engine' = [shipped |-> FALSE, custom |-> None]
  BY DEF EngineRestarts
<1>2. PublishInv'
  BY <1>1, CalmKeeps DEF RulesInv, PublishInv, Shaped
<1>3. \A doc : Grows(doc)
  BY <1>1, StillGrows
<1>4. EngineInv'
  BY <1>1 DEF RulesInv, EngineInv, InUse
<1>5. DecidingInv'
  BY <1>1, <1>3, SettledStays DEF RulesInv, DecidingInv, Settled, Backed
<1>6. CacheInv'
  BY <1>1, <1>3, RememberedStays DEF RulesInv, CacheInv
<1> QED
  BY <1>2, <1>4, <1>5, <1>6 DEF RulesInv
-----------------------------------------------------------------------------
LEMMA RulesInit ==
  ASSUME Init
  PROVE  RulesInv
<1> DEFINE e == [doc |-> FirstCharter, base |-> None]
<1>1. charters = <<e>> /\ e.base = None /\ e.doc = FirstCharter
  BY DEF Init
<1> HIDE DEF e
<1>2. Versions = {1} /\ Len(charters) = 1 /\ charters[1] = e /\ Entries = {e}
  BY <1>1 DEF Versions, Entries
<1>3. Chartered
  BY <1>1, <1>2 DEF Chartered
<1>4. DOMAIN job = Job /\ \A j \in Job : job[j].pc = "idle"
  BY DEF Init, Idle
<1>5. PublishInv
  BY <1>1, <1>2, <1>3, <1>4
     DEF PublishInv, Shaped, Turns, HasTurn, Built, PublishKeepsChanges
<1>6. EngineInv
  BY <1>1, <1>2, <1>4 DEF Init, EngineInv, InUse, InForce
<1>7. DecidingInv /\ CacheInv
  BY <1>4 DEF Init, DecidingInv, Settled, CacheInv
<1> QED
  BY <1>5, <1>6, <1>7 DEF RulesInv

LEMMA RulesNext ==
  ASSUME RulesInv, [Next]_vars
  PROVE  RulesInv'
<1>1. CASE UNCHANGED vars
  BY <1>1, StaysOrdinary, OrdinaryKeeps DEF vars
<1>2. ASSUME NEW j \in Job, Publishing(j) PROVE RulesInv'
  BY <1>2, EditsOrdinary, OrdinaryKeeps, PublishRules, LoadRules, PutInForceRules, LoadFailsRules
     DEF Publishing
<1>3. ASSUME NEW j \in Job, Answered(j) PROVE RulesInv'
  <2>1. job[j].pc \notin HasTurn /\ Stops(j) /\ Untouched
    BY <1>3 DEF Answered, Untouched, HasTurn
  <2> QED
    BY <2>1, StopsOrdinary, OrdinaryKeeps
<1>4. ASSUME NEW j \in Job, Deciding(j) PROVE RulesInv'
  BY <1>3, <1>4, DecideRules, EngineAnswersRules, JudgeRules, ReloadRules, ReloadedRules,
     FallBackRules DEF Deciding
<1>5. ASSUME NEW j \in Job, Overriding(j) PROVE RulesInv'
  BY <1>5, OverridingOrdinary, OrdinaryKeeps
<1>6. CASE EngineRestarts
  BY <1>6, EngineRestartsRules
<1> QED
  BY <1>1, <1>2, <1>4, <1>5, <1>6, MembersOrdinary, OrdinaryKeeps DEF Next

(* What the engine holds, and what is remembered of it, is of a charter     *)
(* that was in force when it was loaded or after.                           *)
THEOREM RulesHold == Spec => []RulesInv
<1>1. Init => RulesInv
  BY RulesInit
<1>2. RulesInv /\ [Next]_vars => RulesInv'
  BY RulesNext
<1> QED
  BY <1>1, <1>2, PTL DEF Spec

(* No publication undoes another that its administrator had not seen: of    *)
(* requests that were all made from one charter, whoever gets the lock      *)
(* first wins and the others are refused (publish, under _PUBLISHING).      *)
THEOREM PublicationsAreKept == Spec => []PublishKeepsChanges
<1>1. RulesInv => PublishKeepsChanges
  BY DEF RulesInv, PublishInv
<1> QED
  BY <1>1, RulesHold, PTL

(* No yes and no question by rules older than the charter a request was     *)
(* judged by, however the engine restarts, fails and is reloaded while      *)
(* others publish (decide, reload_policy, publish in org-authority/app.py). *)
THEOREM AllowsAreOfACharter == Spec => []AllowIsOfACharter
<1>1. RulesInv => AllowIsOfACharter
  BY DEF RulesInv, DecidingInv, Settled, Backed, AllowIsOfACharter
<1> QED
  BY <1>1, RulesHold, PTL
-----------------------------------------------------------------------------
(* Overrides: what a step may do to requests, to what the bounds leave, to  *)
(* members and to the overrides there are.                                  *)

RequestsStay ==
  /\ DOMAIN job' = Job
  /\ \A j \in Job : job'[j].pc = "directory" => job'[j].request \in Request

BoundsStay == left' \in [DOMAIN Limit -> Nat]

MembersStay ==
  /\ DOMAIN members' = Owner
  /\ \A o \in Owner : /\ DOMAIN members'[o] = {"token", "role"}
                      /\ members'[o].token \in Nat
                      /\ members'[o] = NoMember \/ members'[o].token # 0

LEMMA GoesStays ==
  ASSUME GlassInv, NEW j \in Job, NEW to, Goes(j, to),
         to.pc # "directory" \/ to.request \in Request
  PROVE  RequestsStay
  BY DEF GlassInv, Goes, RequestsStay

LEMMA StopsStays ==
  ASSUME GlassInv, NEW j \in Job, Stops(j)
  PROVE  RequestsStay
  BY CalmIdle, GoesStays DEF Stops

Kinds == {"publish", "failure", "invite", "join", "role", "decide", "voucher", "override"}

LEMMA DoesStays ==
  ASSUME GlassInv, NEW kind \in Kinds, May(kind), Does(kind)
  PROVE  BoundsStay
<1>1. kind \in DOMAIN Limit /\ "all" \in DOMAIN Limit /\ kind # "all"
  BY OrganizationAssumption DEF Kinds
<1>2. left[kind] - 1 \in Nat /\ left["all"] - 1 \in Nat
  BY <1>1 DEF GlassInv, May
<1>3. left' = [left EXCEPT ![kind] = left[kind] - 1, !["all"] = left["all"] - 1]
  BY <1>1 DEF Does
<1> QED
  BY <1>1, <1>2, <1>3 DEF GlassInv, BoundsStay

(* The steps that leave the overrides as they are.                          *)
LEMMA GlassStays ==
  ASSUME GlassInv, glass' = glass, RequestsStay, MembersStay, BoundsStay
  PROVE  GlassInv'
  BY DEF GlassInv, RequestsStay, MembersStay, BoundsStay

Unmoved == glass' = glass /\ MembersStay /\ BoundsStay

LEMMA MembersAsTheyWere ==
  ASSUME GlassInv, members' = members
  PROVE  MembersStay
  BY DEF GlassInv, MembersStay

LEMMA BoundsAsTheyWere ==
  ASSUME GlassInv, left' = left
  PROVE  BoundsStay
  BY DEF GlassInv, BoundsStay

LEMMA RequestsAsTheyWere ==
  ASSUME GlassInv, job' = job
  PROVE  RequestsStay
  BY DEF GlassInv, RequestsStay

LEMMA PublishingGlass ==
  ASSUME GlassInv, PublishInv, NEW j \in Job, Publishing(j)
  PROVE  GlassInv' /\ glass' = glass
<1>1. ASSUME NEW doc, NEW base, Submit(j, doc, base) PROVE RequestsStay /\ Unmoved
  <2>1. "publish" \in Kinds
    BY DEF Kinds
  <2>2. BoundsStay
    BY <1>1, <2>1, DoesStays DEF Submit
  <2>3. RequestsStay
    <3> DEFINE to == [pc |-> "publish", doc |-> doc, base |-> base]
    <3>1. Goes(j, to) /\ to.pc # "directory"
      BY <1>1 DEF Submit
    <3> QED
      BY <3>1, GoesStays
  <2> QED
    BY <1>1, <2>2, <2>3, MembersAsTheyWere DEF Submit, Unmoved
<1>2. CASE Publish(j)
  <2>1. DOMAIN job[j] = {"pc", "doc", "base"}
    BY <1>2 DEF Publish, PublishInv, Shaped
  <2>2. [job[j] EXCEPT !.pc = "load"].pc = "load"
    BY <2>1
  <2>3. RequestsStay
    BY <1>2, <2>2, GoesStays, StopsStays DEF Publish
  <2> QED
    BY <1>2, <2>3, MembersAsTheyWere, BoundsAsTheyWere, GlassStays DEF Publish
<1>3. CASE Load(j)
  <2>1. DOMAIN job[j] = {"pc", "doc", "base"}
    BY <1>3 DEF Load, PublishInv, Shaped
  <2>2. [job[j] EXCEPT !.pc = "append"].pc = "append"
    BY <2>1
  <2>3. RequestsStay
    BY <1>3, <2>2, GoesStays DEF Load
  <2> QED
    BY <1>3, <2>3, MembersAsTheyWere, BoundsAsTheyWere, GlassStays DEF Load
<1>4. CASE PutInForce(j)
  BY <1>4, StopsStays, MembersAsTheyWere, BoundsAsTheyWere, GlassStays DEF PutInForce
<1>5. CASE LoadFails(j)
  <2>1. "failure" \in Kinds
    BY DEF Kinds
  <2>2. BoundsStay
    BY <1>5, <2>1, DoesStays DEF LoadFails
  <2> QED
    BY <1>5, <2>2, StopsStays, MembersAsTheyWere, GlassStays DEF LoadFails
<1>6. (\E doc, base : Submit(j, doc, base)) \/ Publish(j) \/ Load(j) \/ PutInForce(j) \/ LoadFails(j)
  BY DEF Publishing, PutCharter, PutRole, DeleteRole, DefaultRole
<1>7. glass' = glass
  BY <1>1, <1>6 DEF Unmoved, Publish, Load, PutInForce, LoadFails
<1> QED
  BY <1>1, <1>2, <1>3, <1>4, <1>5, <1>6, <1>7, GlassStays DEF Unmoved

LEMMA DecidingGlass ==
  ASSUME GlassInv, NEW j \in Job, Deciding(j)
  PROVE  GlassInv' /\ glass' = glass
<1>1. members' = members /\ glass' = glass
  BY DEF Deciding, Decide, EngineAnswers, Judge, Reload, Reloaded, FallBack, Answered
<1>2. BoundsStay
  <2>1. "decide" \in Kinds /\ "failure" \in Kinds
    BY DEF Kinds
  <2>2. \/ left' = left
        \/ May("decide") /\ Does("decide")
        \/ May("failure") /\ Does("failure")
    BY DEF Deciding, Decide, EngineAnswers, Judge, Reload, Reloaded, FallBack, Answered
  <2> QED
    BY <2>1, <2>2, DoesStays, BoundsAsTheyWere
<1>3. RequestsStay
  <2>1. \/ Stops(j)
        \/ \E key, again : Goes(j, [pc |-> "ask", again |-> again, key |-> key])
        \/ \E again, key, held :
             Goes(j, [pc |-> "judge", again |-> again, key |-> key, held |-> held])
        \/ \E key : Goes(j, [pc |-> "reload", key |-> key])
        \/ \E key, effect : Goes(j, [pc |-> "answer", key |-> key, effect |-> effect])
    <3>1. ASSUME NEW o \in Owner, NEW fact \in Facts, Decide(j, o, fact)
          PROVE  \E key, again : Goes(j, [pc |-> "ask", again |-> again, key |-> key])
      BY <3>1 DEF Decide
    <3>2. CASE EngineAnswers(j)
      BY <3>2 DEF EngineAnswers
    <3>3. CASE Judge(j)
      BY <3>3 DEF Judge, Answers
    <3>4. CASE FallBack(j)
      BY <3>4 DEF FallBack, Answers
    <3>5. CASE Reload(j) \/ Reloaded(j) \/ Answered(j)
      BY <3>5 DEF Reload, Reloaded, Answered
    <3> QED
      BY <3>1, <3>2, <3>3, <3>4, <3>5 DEF Deciding
  <2> QED
    BY <2>1, StopsStays, GoesStays
<1> QED
  BY <1>1, <1>2, <1>3, MembersAsTheyWere, GlassStays

LEMMA BelongingGlass ==
  ASSUME GlassInv, NEW o \in Owner, Belonging(o)
  PROVE  GlassInv' /\ glass' = glass
<1>1. NoMember.token = 0 /\ DOMAIN NoMember = {"token", "role"}
  BY DEF NoMember
<1>2. job' = job /\ glass' = glass
  BY DEF Belonging, Invite, Decline, Withdraw, Preview, Join, Leave, SetRole
<1>3. BoundsStay
  <2>1. "invite" \in Kinds /\ "join" \in Kinds /\ "role" \in Kinds
    BY DEF Kinds
  <2>2. \/ left' = left
        \/ \E kind \in {"invite", "join", "role"} : May(kind) /\ Does(kind)
    BY DEF Belonging, Invite, Decline, Withdraw, Preview, Join, Leave, SetRole
  <2> QED
    BY <2>1, <2>2, DoesStays, BoundsAsTheyWere
<1>4. MembersStay
  <2>1. CASE members' = members
    BY <2>1, MembersAsTheyWere
  <2>2. CASE Join(o)
    <3> DEFINE m == [token |-> left["join"], role |-> InForce.doc.default]
    <3>1. members' = [members EXCEPT ![o] = m]
      BY <2>2 DEF Join
    <3>2. m.token \in Nat /\ m.token # 0 /\ DOMAIN m = {"token", "role"}
      BY <2>2, OrganizationAssumption DEF Join, May, GlassInv
    <3> HIDE DEF m
    <3> QED
      BY <3>1, <3>2 DEF GlassInv, MembersStay
  <2>3. CASE Leave(o)
    BY <1>1, <2>3 DEF Leave, GlassInv, MembersStay
  <2>4. ASSUME NEW role, SetRole(o, role) PROVE MembersStay
    <3>1. /\ members' = [members EXCEPT ![o].role = role]
          /\ members[o].token # 0
      BY <2>4 DEF SetRole, Member, GlassInv
    <3> QED
      BY <3>1 DEF GlassInv, MembersStay
  <2> QED
    BY <2>1, <2>2, <2>3, <2>4 DEF Belonging, Invite, Decline, Withdraw, Preview
<1> QED
  BY <1>2, <1>3, <1>4, RequestsAsTheyWere, GlassStays

LEMMA RemovingGlass ==
  ASSUME GlassInv, NEW j \in Job,
         Removed(j) \/ (\E o \in Owner : RemoveMember(j, o) \/ OpenVoucher(j, o)) \/ VoucherOpened(j)
  PROVE  GlassInv' /\ glass' = glass
<1>1. NoMember.token = 0 /\ DOMAIN NoMember = {"token", "role"}
  BY DEF NoMember
<1>2. CASE Removed(j)
  <2>1. MembersStay
    BY <1>1, <1>2 DEF Removed, GlassInv, MembersStay
  <2> QED
    BY <1>2, <2>1, StopsStays, BoundsAsTheyWere, GlassStays DEF Removed
<1>3. ASSUME NEW o \in Owner, RemoveMember(j, o) PROVE GlassInv' /\ glass' = glass
  <2> DEFINE to == [pc |-> "remove", owner |-> o]
  <2>1. Goes(j, to) /\ to.pc # "directory"
    BY <1>3 DEF RemoveMember
  <2>2. RequestsStay
    BY <2>1, GoesStays
  <2> QED
    BY <1>3, <2>2, MembersAsTheyWere, BoundsAsTheyWere, GlassStays DEF RemoveMember
<1>4. ASSUME NEW o \in Owner, OpenVoucher(j, o) PROVE GlassInv' /\ glass' = glass
  <2> DEFINE to == [pc |-> "open", owner |-> o, number |-> left["voucher"]]
  <2>1. Goes(j, to) /\ to.pc # "directory"
    BY <1>4 DEF OpenVoucher
  <2>2. RequestsStay
    BY <2>1, GoesStays
  <2>3. BoundsStay
    BY <1>4, DoesStays DEF OpenVoucher, Kinds
  <2> QED
    BY <1>4, <2>2, <2>3, MembersAsTheyWere, GlassStays DEF OpenVoucher
<1>5. CASE VoucherOpened(j)
  BY <1>5, StopsStays, MembersAsTheyWere, BoundsAsTheyWere, GlassStays DEF VoucherOpened
<1> QED
  BY <1>2, <1>3, <1>4, <1>5
-----------------------------------------------------------------------------
(* One override issued, and one written.                                    *)

Fine(g) ==
  /\ g \in Entry
  /\ g.handed \/ g.seen => g.told
  /\ g.used # 0 => g.spent

LEMMA AllFine ==
  ASSUME GlassInv
  PROVE  \A n \in DOMAIN glass : Fine(glass[n])
  BY DEF GlassInv, Fine

LEMMA GlassGrows ==
  ASSUME GlassInv, NEW e, Fine(e), glass' = Append(glass, e)
  PROVE  /\ glass' \in Seq(Entry)
         /\ \A n \in DOMAIN glass' : Fine(glass'[n])
         /\ \A n \in DOMAIN glass : glass'[n] = glass[n]
<1>1. glass \in Seq(Entry) /\ e \in Entry
  BY DEF GlassInv, Fine
<1>2. /\ glass' \in Seq(Entry)
      /\ Len(glass') = Len(glass) + 1
      /\ glass'[Len(glass) + 1] = e
      /\ \A n \in 1..Len(glass) : glass'[n] = glass[n]
  BY <1>1, AppendProperties
<1>3. DOMAIN glass = 1..Len(glass) /\ DOMAIN glass' = 1..Len(glass') /\ Len(glass) \in Nat
  BY <1>1, <1>2, LenProperties
<1> QED
  BY <1>2, <1>3, AllFine

LEMMA GlassWritten ==
  ASSUME GlassInv, NEW n, NEW e, n \in DOMAIN glass => Fine(e), glass' = [glass EXCEPT ![n] = e]
  PROVE  /\ glass' \in Seq(Entry)
         /\ \A m \in DOMAIN glass' : Fine(glass'[m])
<1>1. glass \in Seq(Entry) /\ DOMAIN glass = 1..Len(glass)
  BY LenProperties DEF GlassInv
<1>2. CASE n \in DOMAIN glass
  <2>1. e \in Entry
    BY <1>2 DEF Fine
  <2>2. glass' \in Seq(Entry)
    BY <1>1, <1>2, <2>1, ExceptSeq
  <2>3. \A m \in DOMAIN glass' : Fine(glass'[m])
    BY <1>1, <1>2, AllFine
  <2> QED
    BY <2>2, <2>3
<1>3. CASE n \notin DOMAIN glass
  <2>1. glass' = glass
    BY <1>1, <1>3
  <2> QED
    BY <1>1, <2>1, AllFine
<1> QED
  BY <1>2, <1>3

LEMMA GlassMoves ==
  ASSUME GlassInv, RequestsStay, BoundsStay, members' = members,
         glass' \in Seq(Entry), \A n \in DOMAIN glass' : Fine(glass'[n])
  PROVE  GlassInv'
  BY DEF GlassInv, RequestsStay, BoundsStay, Fine

LEMMA IssuesGlass ==
  ASSUME GlassInv, NEW j \in Job, NEW q \in Request, Issues(j, q), BoundsStay, members' = members
  PROVE  GlassInv' /\ \A n \in DOMAIN glass : glass'[n] = glass[n]
<1> DEFINE o == SignedFor[q]
           e == [request |-> q, owner |-> o, spent |-> FALSE, membership |-> members[o].token,
                 told |-> FALSE, handed |-> FALSE, seen |-> FALSE, used |-> 0]
           to == [pc |-> "tell", nr |-> Len(glass) + 1]
<1>1. o \in Owner
  BY OrganizationAssumption
<1>2. CASE Member(o)
  <2>1. members[o].token \in Nat \ {0}
    BY <1>1, <1>2 DEF GlassInv, Member
  <2>2. Fine(e)
    BY <1>1, <2>1 DEF Fine, Entry
  <2>3. glass' = Append(glass, e) /\ Goes(j, to) /\ to.pc # "directory"
    BY <1>2 DEF Issues
  <2> HIDE DEF e, to
  <2>4. RequestsStay
    BY <2>3, GoesStays
  <2> QED
    BY <2>2, <2>3, <2>4, GlassGrows, GlassMoves
<1>3. CASE ~Member(o)
  BY <1>3, StopsStays, MembersAsTheyWere, GlassStays DEF Issues
<1> QED
  BY <1>2, <1>3

LEMMA BreakGlassGlass ==
  ASSUME GlassInv, NEW j \in Job, NEW q \in Request, BreakGlass(j, q)
  PROVE  GlassInv' /\ \A n \in DOMAIN glass : glass'[n] = glass[n]
<1>1. BoundsStay
  BY DoesStays DEF BreakGlass, Kinds
<1>2. members' = members
  BY DEF BreakGlass
<1>3. CASE Issues(j, q)
  BY <1>1, <1>2, <1>3, IssuesGlass
<1>4. CASE Goes(j, [pc |-> "directory", request |-> q]) /\ glass' = glass
  <2>1. RequestsStay
    BY <1>4, GoesStays
  <2> QED
    BY <1>1, <1>2, <1>4, <2>1, MembersAsTheyWere, GlassStays
<1> QED
  BY <1>3, <1>4 DEF BreakGlass

LEMMA LookedGlass ==
  ASSUME GlassInv, NEW j \in Job, Looked(j)
  PROVE  GlassInv' /\ \A n \in DOMAIN glass : glass'[n] = glass[n]
<1>1. job[j].request \in Request /\ members' = members /\ left' = left
  BY DEF Looked, GlassInv
<1>2. CASE Issues(j, job[j].request)
  BY <1>1, <1>2, IssuesGlass, BoundsAsTheyWere
<1>3. CASE Stops(j) /\ glass' = glass
  BY <1>1, <1>3, StopsStays, MembersAsTheyWere, BoundsAsTheyWere, GlassStays
<1> QED
  BY <1>2, <1>3 DEF Looked

(* She is told before it is handed out; and whoever was told stays told.    *)
LEMMA TellGlass ==
  ASSUME GlassInv, NEW j \in Job, Tell(j)
  PROVE  GlassInv' /\ \A n \in DOMAIN glass : glass'[n].used = glass[n].used
<1> DEFINE n == job[j].nr
<1>1. PICK heard \in BOOLEAN, known \in BOOLEAN :
        /\ known => heard
        /\ glass' = [glass EXCEPT ![n] =
                       HandedOut(IF heard THEN OrgNotice(glass[n]) ELSE glass[n], known)]
  BY DEF Tell
<1> DEFINE g == IF heard THEN OrgNotice(glass[n]) ELSE glass[n]
           e == HandedOut(g, known)
<1>2. ASSUME n \in DOMAIN glass PROVE Fine(e) /\ e.used = glass[n].used
  <2>1. Fine(glass[n])
    BY <1>2, AllFine
  <2>2. g \in Entry /\ g.used = glass[n].used /\ g.spent = glass[n].spent /\ g.seen = glass[n].seen
        /\ g.told = (glass[n].told \/ heard)
    BY <2>1 DEF OrgNotice, Fine, Entry
  <2> HIDE DEF g
  <2>3. /\ e \in Entry /\ e.used = g.used /\ e.spent = (g.spent \/ ~known)
        /\ e.seen = g.seen /\ e.told = g.told /\ e.handed = known
    BY <2>2 DEF HandedOut, Entry
  <2> HIDE DEF e
  <2> QED
    BY <1>1, <2>1, <2>2, <2>3 DEF Fine
<1> HIDE DEF e
<1>3. glass' = [glass EXCEPT ![n] = e]
  BY <1>1 DEF e
<1>4. glass' \in Seq(Entry) /\ \A m \in DOMAIN glass' : Fine(glass'[m])
  BY <1>2, <1>3, GlassWritten
<1>5. RequestsStay /\ BoundsStay /\ members' = members
  BY StopsStays, BoundsAsTheyWere DEF Tell
<1>6. \A m \in DOMAIN glass : glass'[m].used = glass[m].used
  BY <1>2, <1>3 DEF GlassInv
<1> QED
  BY <1>4, <1>5, <1>6, GlassMoves

LEMMA OverrideStepGlass ==
  ASSUME GlassInv, NEW n \in DOMAIN glass, Introspect(n) \/ Consume(n) \/ OverrideExpires(n)
  PROVE  /\ GlassInv'
         /\ \A m \in DOMAIN glass : glass'[m].used # glass[m].used => m = n /\ Consume(n)
<1> DEFINE g == glass[n]
           seen == [g EXCEPT !.seen = TRUE]
           used == [g EXCEPT !.spent = TRUE, !.used = @ + 1]
           gone == [g EXCEPT !.spent = TRUE]
<1>1. Fine(g)
  BY AllFine
<1>2. g.handed => Fine(seen)
  BY <1>1 DEF Fine, Entry
<1>3. Fine(used)
  <2>1. g \in Entry /\ g.used + 1 \in Nat
    BY <1>1 DEF Fine, Entry
  <2>2. used \in Entry /\ used.spent = TRUE
    BY <2>1 DEF Entry
  <2>3. used.handed = g.handed /\ used.seen = g.seen /\ used.told = g.told
    BY <2>1 DEF Entry
  <2> HIDE DEF used
  <2> QED
    BY <1>1, <2>2, <2>3 DEF Fine
<1>4. Fine(gone)
  BY <1>1 DEF Fine, Entry
<1>5. seen.used = g.used /\ gone.used = g.used
  BY <1>1 DEF Fine, Entry
<1>6. /\ Introspect(n) => glass' = [glass EXCEPT ![n] = seen] /\ g.handed
      /\ Consume(n) => glass' = [glass EXCEPT ![n] = used]
      /\ OverrideExpires(n) => glass' = [glass EXCEPT ![n] = gone]
  BY DEF Introspect, Consume, OverrideExpires
<1>7. job' = job /\ left' = left /\ members' = members
  BY DEF Introspect, Consume, OverrideExpires
<1> HIDE DEF seen, used, gone
<1>8. glass' \in Seq(Entry) /\ \A m \in DOMAIN glass' : Fine(glass'[m])
  BY <1>2, <1>3, <1>4, <1>6, GlassWritten
<1>9. GlassInv'
  BY <1>7, <1>8, RequestsAsTheyWere, BoundsAsTheyWere, GlassMoves
<1>10. \A m \in DOMAIN glass : glass'[m].used # glass[m].used => m = n /\ Consume(n)
  BY <1>5, <1>6 DEF GlassInv
<1> QED
  BY <1>9, <1>10
-----------------------------------------------------------------------------
(* The property of a step, and that every step has it.                      *)

BoundedStep ==
  \A n \in DOMAIN glass :
    glass'[n].used # glass[n].used =>
      /\ glass[n].used = 0 /\ glass[n].told
      /\ Member(glass[n].owner)
      /\ members[glass[n].owner].token = glass[n].membership

LEMMA ConsumeIsBounded ==
  ASSUME GlassInv, NEW n \in DOMAIN glass, Consume(n)
  PROVE  /\ glass[n].used = 0 /\ glass[n].told
         /\ Member(glass[n].owner)
         /\ members[glass[n].owner].token = glass[n].membership
<1>1. Fine(glass[n])
  BY AllFine
<1>2. glass[n].seen /\ ~glass[n].spent /\ SameMembership(glass[n])
  BY DEF Consume
<1>3. glass[n].membership # 0 /\ NoMember.token = 0
  BY <1>1 DEF Fine, Entry, NoMember
<1>4. members[glass[n].owner] # NoMember
  BY <1>2, <1>3 DEF SameMembership
<1> QED
  BY <1>1, <1>2, <1>4 DEF Fine, SameMembership, Member

LEMMA GlassNext ==
  ASSUME GlassInv, PublishInv, [Next]_vars
  PROVE  GlassInv' /\ BoundedStep
<1>1. CASE UNCHANGED vars
  <2>1. glass' = glass /\ job' = job /\ left' = left /\ members' = members
    BY <1>1 DEF vars
  <2> QED
    BY <2>1, RequestsAsTheyWere, BoundsAsTheyWere, MembersAsTheyWere, GlassStays DEF BoundedStep
<1>2. ASSUME NEW j \in Job, Publishing(j) \/ Deciding(j) PROVE GlassInv' /\ BoundedStep
  BY <1>2, PublishingGlass, DecidingGlass DEF BoundedStep
<1>3. ASSUME NEW j \in Job,
             Removed(j) \/ (\E o \in Owner : RemoveMember(j, o) \/ OpenVoucher(j, o)) \/ VoucherOpened(j)
      PROVE  GlassInv' /\ BoundedStep
  BY <1>3, RemovingGlass DEF BoundedStep
<1>4. ASSUME NEW j \in Job, NEW q \in Request, BreakGlass(j, q) PROVE GlassInv' /\ BoundedStep
  BY <1>4, BreakGlassGlass DEF BoundedStep
<1>5. ASSUME NEW j \in Job, Looked(j) PROVE GlassInv' /\ BoundedStep
  BY <1>5, LookedGlass DEF BoundedStep
<1>6. ASSUME NEW j \in Job, Tell(j) PROVE GlassInv' /\ BoundedStep
  BY <1>6, TellGlass DEF BoundedStep
<1>7. ASSUME NEW o \in Owner, Belonging(o) PROVE GlassInv' /\ BoundedStep
  BY <1>7, BelongingGlass DEF BoundedStep
<1>8. ASSUME NEW n \in DOMAIN glass, Introspect(n) \/ Consume(n) \/ OverrideExpires(n)
      PROVE  GlassInv' /\ BoundedStep
  BY <1>8, OverrideStepGlass, ConsumeIsBounded DEF BoundedStep
<1>9. ASSUME (\E v \in vouchers : VoucherExpires(v)) \/ CacheAges PROVE GlassInv' /\ BoundedStep
  <2>1. glass' = glass /\ job' = job /\ left' = left /\ members' = members
    BY <1>9 DEF VoucherExpires, CacheAges
  <2> QED
    BY <2>1, RequestsAsTheyWere, BoundsAsTheyWere, MembersAsTheyWere, GlassStays DEF BoundedStep
<1>10. CASE EngineRestarts
  <2>1. glass' = glass /\ job' = job /\ members' = members
    BY <1>10 DEF EngineRestarts
  <2>2. BoundsStay
    BY <1>10, DoesStays DEF EngineRestarts, Kinds
  <2> QED
    BY <2>1, <2>2, RequestsAsTheyWere, MembersAsTheyWere, GlassStays DEF BoundedStep
<1> QED
  BY <1>1, <1>2, <1>3, <1>4, <1>5, <1>6, <1>7, <1>8, <1>9, <1>10 DEF Next, Overriding

LEMMA GlassInit ==
  ASSUME Init
  PROVE  GlassInv
<1>1. DOMAIN job = Job /\ \A j \in Job : job[j].pc = "idle"
  BY DEF Init, Idle
<1>2. left \in [DOMAIN Limit -> Nat]
  BY OrganizationAssumption DEF Init
<1>3. DOMAIN members = Owner /\ \A o \in Owner : members[o] = NoMember
  BY DEF Init
<1>4. NoMember.token = 0 /\ DOMAIN NoMember = {"token", "role"}
  BY DEF NoMember
<1>5. glass = <<>> /\ glass \in Seq(Entry) /\ DOMAIN glass = {}
  BY EmptySeq DEF Init
<1> QED
  BY <1>1, <1>2, <1>3, <1>4, <1>5 DEF GlassInv

(* An override is used once, by nobody whom she was not told about first,   *)
(* and not once she left: what she joins again is another membership        *)
(* (break_glass, _org_notice, consume_break_glass in org-authority/app.py). *)
THEOREM OverridesHold == Spec => OverridesAreBounded
<1>1. Init => GlassInv
  BY GlassInit
<1>2. GlassInv /\ PublishInv /\ [Next]_vars => GlassInv'
  BY GlassNext
<1>3. GlassInv /\ PublishInv /\ [Next]_vars => [BoundedStep]_vars
  BY GlassNext
<1>4. [][BoundedStep]_vars => OverridesAreBounded
  BY PTL DEF BoundedStep, OverridesAreBounded
<1>5. RulesInv => PublishInv
  BY DEF RulesInv
<1> QED
  BY <1>1, <1>2, <1>3, <1>4, <1>5, RulesHold, PTL DEF Spec

=============================================================================
