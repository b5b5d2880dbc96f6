-------------------------- MODULE JointTallyProofs ---------------------------
(***************************************************************************)
(* A grant over a joint account is counted, on every number of holders,    *)
(* negotiations, requests and questions: every yes is to what its holder   *)
(* saw, unless what she had approved was overtaken, and a grant is backed  *)
(* by a quorum of them, and made once.  The terms that an agent signs are  *)
(* the meet of those that the holders quoted, and a grant passes at the    *)
(* enforcement point.                                                      *)
(***************************************************************************)
EXTENDS JointTally, FoldLemmas, SequenceTheorems, FiniteSetTheorems

(* The records have their fields, what is worked on is somebody's, and what *)
(* a holder agreed to is a mandate that she is a holder of.                 *)
Listens == {"idle", "arrive"}

Shaped ==
  /\ inForce \in Mandates
  /\ DOMAIN agent = Families
  /\ \A f \in Families : DOMAIN agent[f] = {"phase", "ticket", "via"}
  /\ DOMAIN neg = Families
  /\ \A f \in Families :
       /\ DOMAIN neg[f] = {"state", "template", "agreement", "verdicts", "signed", "over", "stale"}
       /\ DOMAIN neg[f].verdicts = Holders
  /\ DOMAIN req = Requests
  /\ \A w \in Requests :
       /\ DOMAIN req[w] = {"stage", "family", "at", "via", "quotes", "outdated"}
       /\ Idle(w) => req[w] = NoRequest
       /\ ~Idle(w) => req[w].family \in Families
       /\ req[w].stage = "wait" => req[w].via \in Questions
       /\ req[w].at \in Nat \ {0}

Asks ==
  /\ DOMAIN question = Questions
  /\ \A q \in Questions :
       /\ DOMAIN question[q] =
            {"stage", "holder", "family", "agreement", "mandate", "decision", "seen"}
       /\ At(q, "idle") => question[q].family = None
       /\ ~At(q, "idle") => /\ question[q].holder \in Holders
                            /\ question[q].family \in Families
                            /\ question[q].agreement \in Agreements
       /\ question[q].stage \notin Listens => /\ question[q].mandate \in Mandates
                                              /\ question[q].holder \in HoldersOf(question[q].mandate)
  /\ DOMAIN agreed = Holders
  /\ \A h \in Holders : agreed[h] # None => agreed[h] \in Mandates /\ h \in HoldersOf(agreed[h])

(* A negotiation is in one pair of hands, and in none that is over.         *)
HasTicket(f) == \E t \in tickets : t[1] = f
HasToken(f) == \E t \in tokens : t.family = f

Hands ==
  /\ \A t, u \in tickets : t[1] = u[1] => t = u
  /\ \A v, w \in Requests : ~Idle(v) /\ ~Idle(w) /\ req[v].family = req[w].family => v = w
  /\ \A w \in Requests : ~Idle(w) => ~HasTicket(req[w].family)
  /\ \A t \in tokens : ~HasTicket(t.family) /\ ~WorkedOn(t.family)
  /\ \A f \in Families :
       agent[f].phase = "none" => ~HasTicket(f) /\ ~WorkedOn(f) /\ ~HasToken(f)

HandsInv == Shaped /\ Hands

(* Until the agent commits to an agreement, nobody has answered.            *)
Quoting(f) == \E w \in Requests : req[w].stage = "quotes" /\ req[w].family = f

Uncommitted(f) == agent[f].phase \in {"none", "ready", "proffered"} \/ Quoting(f)

Uncounted ==
  \A f \in Families :
    Uncommitted(f) => /\ neg[f].agreement = None
                      /\ \A h \in Holders : neg[f].verdicts[h] = "none"

(* The agent's step and the tally's record of its negotiation agree.        *)
InStep ==
  /\ \A f \in Families :
       /\ agent[f].phase \in {"waiting", "polling"} =>
            neg[f].state = "none" \/ neg[f].agreement \in Agreements
       /\ neg[f].agreement \in Agreements \cup {None}
       /\ Quoting(f) => agent[f].phase \in {"calling", "gone"}
  /\ \A w \in Requests :
       /\ req[w].stage \in {"collect", "wait"} => neg[req[w].family].agreement \in Agreements
       /\ req[w].stage = "wait" => question[req[w].via].family = req[w].family

Rows ==
  /\ DOMAIN row = Holders
  /\ \A h \in Holders :
       /\ DOMAIN row[h] = Families
       /\ \A f \in Families : /\ DOMAIN row[h][f] = {"agreement", "decision", "seen"}
                              /\ row[h][f].agreement \in Agreements \cup {None}
                              /\ row[h][f].decision \in {"none", "approved", "denied"}

CommitInv == HandsInv /\ Asks /\ Rows /\ Uncounted /\ InStep

(* What a holder agrees to is inside terms of hers, and what she approved   *)
(* is what she was shown, or was saved over.                                *)
Covered(h, a) == \E tier \in had[h] \ {None} : Inside(Says[a], tier)

Approved(h, f, a) == <<a, "approved">> \in answers[h][f]

Backed(h, f, a) == Approved(h, f, a) \/ <<h, f, a>> \in overtaken

OfHolder(h) ==
  /\ terms[h] \in had[h]
  /\ DOMAIN standing[h] = {"status", "revocations", "blocked"}
  /\ standing[h].status = "active" => h \in Connected

OfRow(h, f) ==
  /\ row[h][f].agreement # None => Covered(h, row[h][f].agreement)
  /\ row[h][f].decision = "approved" =>
       row[h][f].agreement # None /\ Backed(h, f, row[h][f].agreement)

OfQuestion(q) ==
  LET s == question[q] IN
  /\ s.stage = "save" => Covered(s.holder, s.agreement)
  /\ s.stage = "withdrawn" => s.decision = "approved"
  /\ s.stage \in {"close", "withdrawn"} =>
       /\ s.decision \in {"approved", "denied"}
       /\ s.decision = "approved" =>
            Covered(s.holder, s.agreement) /\ Backed(s.holder, s.family, s.agreement)

OfYes(v) ==
  /\ \/ "permit" \in Rules[v.holder] /\ v.holder \in Connected
     \/ Backed(v.holder, v.family, v.agreement)
  /\ Covered(v.holder, v.agreement)
  /\ v.holder \in Holders /\ v.family \in Families

Books ==
  /\ DOMAIN answers = Holders /\ \A h \in Holders : DOMAIN answers[h] = Families
  /\ DOMAIN had = Holders /\ DOMAIN terms = Holders /\ DOMAIN standing = Holders

YesInv ==
  /\ Books
  /\ \A h \in Holders : OfHolder(h)
  /\ \A h \in Holders, f \in Families : OfRow(h, f)
  /\ \A q \in Questions : OfQuestion(q)
  /\ \A v \in verdicts : OfYes(v)

(* What is counted was signed, over the one agreement and under the mandate *)
(* that counts.                                                             *)
Yes(h, f, a, m) == [holder |-> h, family |-> f, agreement |-> a, mandate |-> m]

Counted ==
  \A f \in Families, h \in Holders :
    /\ neg[f].verdicts[h] = "allow" =>
         /\ h \in HoldersOf(inForce) /\ h \in neg[f].signed
         /\ Yes(h, f, neg[f].agreement, inForce) \in verdicts

Released(t) ==
  /\ t.family \in Families /\ t.agreement \in Agreements /\ t.mandate \in Mandates
  /\ \E Q \in SUBSET HoldersOf(t.mandate) :
       /\ Releases(t.mandate, Q)
       /\ \A h \in Q : Yes(h, t.family, t.agreement, t.mandate) \in verdicts

CountInv == Counted /\ \A t \in tokens : Released(t)

-----------------------------------------------------------------------------
(* The next holder to ask is a holder, who has not answered.                *)
LEMMA NextPlace ==
  ASSUME NEW f, NEW i \in Nat \ {0}
  PROVE  /\ NextToAsk(f, i) \in Nat \ {0}
         /\ NextToAsk(f, i) <= Len(Order) =>
              /\ Order[NextToAsk(f, i)] \in Holders
              /\ Order[NextToAsk(f, i)] \in HoldersOf(inForce)
              /\ neg[f].verdicts[Order[NextToAsk(f, i)]] = "none"
<1> DEFINE left == {k \in i..Len(Order) : /\ Order[k] \in HoldersOf(inForce)
                                          /\ neg[f].verdicts[Order[k]] = "none"}
<1>1. Order \in Seq(Holders) /\ Len(Order) \in Nat
  BY JointAssumption
<1>2. left \in SUBSET Nat
  BY <1>1
<1>3. NextToAsk(f, i) = IF left = {} THEN Len(Order) + 1 ELSE Min(left)
  BY DEF NextToAsk
<1>4. CASE left = {}
  BY <1>1, <1>3, <1>4
<1>5. CASE left # {}
  <2>1. NextToAsk(f, i) \in left
    BY <1>2, <1>3, <1>5, LeastIsOne
  <2>2. \A k \in 1..Len(Order) : Order[k] \in Holders
    BY <1>1
  <2> QED
    BY <1>1, <2>1, <2>2
<1> QED
  BY <1>4, <1>5
-----------------------------------------------------------------------------
(* The next holder to quote her terms, and nobody of the mandate between.   *)
LEMMA NextQuoter ==
  ASSUME NEW i \in Nat \ {0}
  PROVE  /\ NextHolder(i) \in Nat \ {0}
         /\ HasHolderAt(NextHolder(i)) =>
              /\ NextHolder(i) >= i
              /\ Order[NextHolder(i)] \in HoldersOf(inForce)
              /\ \A j \in i..(NextHolder(i) - 1) : Order[j] \notin HoldersOf(inForce)
         /\ ~HasHolderAt(NextHolder(i)) =>
              \A j \in i..Len(Order) : Order[j] \notin HoldersOf(inForce)
<1> DEFINE left == {k \in i..Len(Order) : Order[k] \in HoldersOf(inForce)}
<1>1. Len(Order) \in Nat
  BY JointAssumption
<1>2. left \in SUBSET Nat
  BY <1>1
<1>3. NextHolder(i) = IF left = {} THEN Len(Order) + 1 ELSE Min(left)
  BY DEF NextHolder
<1>4. CASE left = {}
  BY <1>1, <1>3, <1>4 DEF HasHolderAt
<1>5. CASE left # {}
  <2>1. Min(left) \in left /\ \A j \in left : Min(left) <= j
    BY <1>2, <1>5, HasLeast DEF Min
  <2> QED
    <3>1. /\ NextHolder(i) = Min(left) /\ Min(left) \in i..Len(Order)
          /\ Order[Min(left)] \in HoldersOf(inForce)
      BY <1>3, <1>5, <2>1
    <3>2. ASSUME NEW j \in i..(Min(left) - 1) PROVE Order[j] \notin HoldersOf(inForce)
      BY <1>1, <2>1, <3>1
    <3> HIDE DEF left
    <3> QED
      BY <1>1, <3>1, <3>2 DEF HasHolderAt
<1> QED
  BY <1>4, <1>5
-----------------------------------------------------------------------------
(* Hands.  Most steps hand nothing on: tickets go, requests end.            *)

Passes ==
  /\ tickets' \subseteq tickets /\ tokens' = tokens
  /\ \A f \in Families : agent'[f].phase = "none" => agent[f].phase = "none"
  /\ \A w \in Requests : ~Idle(w)' => ~Idle(w) /\ req'[w].family = req[w].family

LEMMA PassesKeeps ==
  ASSUME Hands, Passes
  PROVE  Hands'
<1>1. \A f : HasTicket(f)' => HasTicket(f)
  BY DEF HasTicket, Passes
<1>2. \A f : WorkedOn(f)' => WorkedOn(f)
  BY DEF WorkedOn, Passes
<1>3. \A f : HasToken(f)' => HasToken(f)
  BY DEF HasToken, Passes
<1> QED
  BY <1>1, <1>2, <1>3 DEF Hands, Passes

(* The agent's step, when a request of its ends or its reply is lost.       *)
AgentKept ==
  /\ DOMAIN agent' = Families
  /\ \A f \in Families : DOMAIN agent'[f] = {"phase", "ticket", "via"}

NegKept ==
  /\ DOMAIN neg' = Families
  /\ \A f \in Families :
       /\ DOMAIN neg'[f] = {"state", "template", "agreement", "verdicts", "signed", "over", "stale"}
       /\ DOMAIN neg'[f].verdicts = Holders

ReqKept ==
  /\ DOMAIN req' = Requests
  /\ \A w \in Requests :
       /\ DOMAIN req'[w] = {"stage", "family", "at", "via", "quotes", "outdated"}
       /\ Idle(w)' => req'[w] = NoRequest
       /\ ~Idle(w)' => req'[w].family \in Families
       /\ req'[w].stage = "wait" => req'[w].via \in Questions
       /\ req'[w].at \in Nat \ {0}

LEMMA ShapedKept ==
  ASSUME inForce' \in Mandates, AgentKept, NegKept, ReqKept
  PROVE  Shaped'
  BY DEF Shaped, AgentKept, NegKept, ReqKept

LEMMA AsTheyWere ==
  ASSUME Shaped
  PROVE  /\ agent' = agent => AgentKept
         /\ neg' = neg => NegKept
         /\ req' = req => ReqKept
  BY DEF Shaped, AgentKept, NegKept, ReqKept, Idle

LEMMA NoNegotiationShaped ==
  /\ DOMAIN NoNegotiation = {"state", "template", "agreement", "verdicts", "signed", "over", "stale"}
  /\ DOMAIN NoNegotiation.verdicts = Holders
  /\ NoNegotiation.state = "none" /\ NoNegotiation.agreement = None
  /\ \A h \in Holders : NoNegotiation.verdicts[h] = "none"
  BY DEF NoNegotiation

LEMMA NoRequestShaped ==
  /\ DOMAIN NoRequest = {"stage", "family", "at", "via", "quotes", "outdated"}
  /\ NoRequest.stage = "idle" /\ NoRequest.family = None /\ NoRequest.at \in Nat \ {0}
  BY DEF NoRequest

(* A reply reaches its agent or nobody.                                     *)
LEMMA Replies ==
  ASSUME Shaped, NEW w \in Requests, NEW phase, NEW n, ReplyTo(w, phase, n), ~Idle(w)
  PROVE  /\ AgentKept
         /\ \A f \in Families : \/ agent'[f] = agent[f]
                                \/ /\ f = req[w].family /\ agent'[f].phase = phase
                                   /\ agent[f].phase \in {"calling", "polling"}
<1>1. req[w].family \in Families
  BY DEF Shaped
<1> QED
  BY <1>1 DEF Shaped, ReplyTo, AgentKept, Awaits

(* A request ends.                                                          *)
LEMMA ReqEnds ==
  ASSUME Shaped, NEW w \in Requests, req' = [req EXCEPT ![w] = NoRequest]
  PROVE  /\ ReqKept /\ Idle(w)'
         /\ \A v \in Requests \ {w} : req'[v] = req[v]
  BY NoRequestShaped DEF Shaped, ReqKept, Idle

LEMMA NegReset ==
  ASSUME Shaped, NEW f \in Families, neg' = [neg EXCEPT ![f] = NoNegotiation]
  PROVE  NegKept
  BY NoNegotiationShaped DEF Shaped, NegKept

(* The ticket that the agent holds, when it is live, is the only one.       *)
LEMMA Taken ==
  ASSUME Hands, NEW f \in Families, Live(f), Take(f)
  PROVE  /\ tickets' \subseteq tickets
         /\ HasTicket(f) /\ ~HasTicket(f)' /\ ~WorkedOn(f) /\ ~HasToken(f)
         /\ agent[f].phase # "none"
<1>1. HeldTicket(f) \in tickets /\ HeldTicket(f)[1] = f
  BY DEF Live, HeldTicket
<1>2. HasTicket(f)
  BY <1>1 DEF HasTicket
<1>3. \A t \in tickets : t[1] = f => t = HeldTicket(f)
  BY <1>1 DEF Hands
<1> QED
  BY <1>2, <1>3 DEF Take, Hands, HasTicket, HasToken, WorkedOn
-----------------------------------------------------------------------------
(* The agent's steps.                                                       *)

LEMMA PermHands ==
  ASSUME HandsInv, NEW f \in Families, Perm(f)
  PROVE  HandsInv'
<1>1. /\ agent[f].phase = "none" /\ inForce' = inForce /\ req' = req /\ tokens' = tokens
      /\ agent' = [agent EXCEPT ![f].phase = "ready", ![f].ticket = 1]
      /\ neg' = [Swept EXCEPT ![f] = [NoNegotiation EXCEPT !.state = "new"]]
      /\ tickets' = {t \in tickets : ~neg[t[1]].stale} \cup {<<f, 1>>}
  BY DEF Perm
<1>2. NegKept
  BY <1>1, NoNegotiationShaped DEF HandsInv, Shaped, NegKept, Swept
<1>3. AgentKept /\ agent'[f].phase = "ready" /\ \A g \in Families \ {f} : agent'[g] = agent[g]
  BY <1>1 DEF HandsInv, Shaped, AgentKept
<1>4. Shaped'
  BY <1>1, <1>2, <1>3, AsTheyWere, ShapedKept DEF HandsInv, Shaped
<1>5. ~HasTicket(f) /\ ~WorkedOn(f) /\ ~HasToken(f)
  BY <1>1 DEF HandsInv, Hands
<1>6. \A t \in tickets' : t \in tickets \/ t = <<f, 1>>
  BY <1>1
<1>7. \A g : HasTicket(g)' => HasTicket(g) \/ g = f
  BY <1>6 DEF HasTicket
<1>8. \A t, u \in tickets' : t[1] = u[1] => t = u
  BY <1>5, <1>6 DEF HandsInv, Hands, HasTicket
<1>9. \A g : (WorkedOn(g)' <=> WorkedOn(g)) /\ (HasToken(g)' <=> HasToken(g))
  BY <1>1 DEF WorkedOn, HasToken, Idle
<1>10. \A w \in Requests : ~Idle(w) => req[w].family # f
  BY <1>5 DEF WorkedOn
<1>11. \A w \in Requests : ~Idle(w)' => ~HasTicket(req[w].family)'
  BY <1>1, <1>7, <1>10 DEF HandsInv, Hands, Idle
<1>12. \A t \in tokens' : ~HasTicket(t.family)' /\ ~WorkedOn(t.family)'
  BY <1>1, <1>5, <1>7, <1>9 DEF HandsInv, Hands, HasToken
<1>13. \A g \in Families : agent'[g].phase = "none" => g # f /\ agent[g].phase = "none"
  BY <1>3
<1>14. \A v, w \in Requests : ~Idle(v)' /\ ~Idle(w)' /\ req'[v].family = req'[w].family => v = w
  BY <1>1 DEF HandsInv, Hands, Idle
<1>15. \A g \in Families :
         agent'[g].phase = "none" => ~HasTicket(g)' /\ ~WorkedOn(g)' /\ ~HasToken(g)'
  BY <1>7, <1>9, <1>13 DEF HandsInv, Hands
<1>16. Hands'
  BY <1>8, <1>11, <1>12, <1>14, <1>15 DEF Hands
<1> QED
  BY <1>4, <1>16 DEF HandsInv

(* What is presented becomes the request that holds it.                     *)
LEMMA PresentsHands ==
  ASSUME HandsInv, NEW f \in Families, NEW w \in Requests, NEW stage, NEW phase,
         stage # "idle", stage # "wait", phase # "none",
         Live(f), Idle(w), Take(f),
         req' = [req EXCEPT ![w] = Holding(f, stage)], CallFrom(f, w, phase),
         inForce' = inForce, tokens' = tokens, NegKept
  PROVE  HandsInv'
<1> DEFINE r == Holding(f, stage)
<1>1. DOMAIN r = {"stage", "family", "at", "via", "quotes", "outdated"} /\ r.stage = stage /\ r.family = f
      /\ r.at \in Nat \ {0}
  BY NoRequestShaped DEF Holding
<1> HIDE DEF r
<1>2. DOMAIN req' = Requests /\ req'[w] = r /\ \A v \in Requests \ {w} : req'[v] = req[v]
  BY DEF HandsInv, Shaped, r
<1>3. ReqKept
  BY <1>1, <1>2 DEF HandsInv, Shaped, ReqKept, Idle
<1>4. AgentKept /\ agent'[f].phase = phase /\ \A g \in Families \ {f} : agent'[g] = agent[g]
  BY DEF HandsInv, Shaped, AgentKept, CallFrom
<1>5. Shaped'
  BY <1>3, <1>4, ShapedKept DEF HandsInv, Shaped
<1>6. /\ tickets' \subseteq tickets
      /\ HasTicket(f) /\ ~HasTicket(f)' /\ ~WorkedOn(f) /\ ~HasToken(f)
  BY Taken DEF HandsInv
<1>7. \A g : HasTicket(g)' => HasTicket(g) /\ g # f
  BY <1>6 DEF HasTicket
<1>8. \A v \in Requests : ~Idle(v)' => (v = w /\ req'[v].family = f) \/ (~Idle(v) /\ req'[v].family = req[v].family)
  BY <1>1, <1>2 DEF Idle
<1>9. \A g : WorkedOn(g)' => WorkedOn(g) \/ g = f
  BY <1>8 DEF WorkedOn
<1>10. \A g : HasToken(g)' <=> HasToken(g)
  BY DEF HasToken
<1>11. \A t \in tokens' : ~HasTicket(t.family)' /\ ~WorkedOn(t.family)'
  BY <1>6, <1>7, <1>9 DEF HandsInv, Hands, HasToken
<1>12. \A u, v \in Requests : ~Idle(u)' /\ ~Idle(v)' /\ req'[u].family = req'[v].family => u = v
  BY <1>6, <1>8 DEF HandsInv, Hands, WorkedOn
<1>13. \A v \in Requests : ~Idle(v)' => ~HasTicket(req[v].family)'
  BY <1>7, <1>8 DEF HandsInv, Hands
<1>14. \A g \in Families : agent'[g].phase = "none" => g # f /\ agent[g].phase = "none"
  BY <1>4
<1>15. \A g \in Families :
         agent'[g].phase = "none" => ~HasTicket(g)' /\ ~WorkedOn(g)' /\ ~HasToken(g)'
  BY <1>7, <1>9, <1>10, <1>14 DEF HandsInv, Hands
<1>16. \A t, u \in tickets' : t[1] = u[1] => t = u
  BY <1>6 DEF HandsInv, Hands
<1>17. Hands'
  BY <1>11, <1>12, <1>13, <1>15, <1>16 DEF Hands
<1> QED
  BY <1>5, <1>17 DEF HandsInv

LEMMA NegCommitted ==
  ASSUME Shaped, NEW f \in Families, NEW a,
         neg' = [neg EXCEPT ![f].state = "awaiting-holders", ![f].agreement = a]
  PROVE  NegKept
  BY DEF Shaped, NegKept

LEMMA AgentCallsHands ==
  ASSUME HandsInv, NEW f \in Families, NEW w \in Requests, AgentCalls(f, w)
  PROVE  HandsInv'
<1>1. CASE AskTerms(f, w)
  <2>1. /\ Live(f) /\ Idle(w) /\ Take(f) /\ CallFrom(f, w, "calling")
        /\ req' = [req EXCEPT ![w] = Holding(f, "quotes")]
        /\ inForce' = inForce /\ tokens' = tokens /\ neg' = neg
    BY <1>1 DEF AskTerms
  <2>2. NegKept
    BY <2>1, AsTheyWere DEF HandsInv
  <2>3. "quotes" # "idle" /\ "quotes" # "wait" /\ "collect" # "idle" /\ "collect" # "wait"
        /\ "calling" # "none" /\ "polling" # "none"
    OBVIOUS
  <2> QED
    BY <2>1, <2>2, <2>3, PresentsHands
<1>2. CASE Poll(f, w)
  <2>1. /\ Live(f) /\ Idle(w) /\ Take(f) /\ CallFrom(f, w, "polling")
        /\ req' = [req EXCEPT ![w] = Holding(f, "collect")]
        /\ inForce' = inForce /\ tokens' = tokens /\ neg' = neg
    BY <1>2 DEF Poll
  <2>2. NegKept
    BY <2>1, AsTheyWere DEF HandsInv
  <2>3. "quotes" # "idle" /\ "quotes" # "wait" /\ "collect" # "idle" /\ "collect" # "wait"
        /\ "calling" # "none" /\ "polling" # "none"
    OBVIOUS
  <2> QED
    BY <2>1, <2>2, <2>3, PresentsHands
<1>3. ASSUME NEW a \in Agreements, Commit(f, w, a) PROVE HandsInv'
  <2>1. /\ Live(f) /\ Idle(w) /\ Take(f) /\ CallFrom(f, w, "calling")
        /\ req' = [req EXCEPT ![w] = Holding(f, "collect")]
        /\ inForce' = inForce /\ tokens' = tokens
        /\ neg' = [neg EXCEPT ![f].state = "awaiting-holders", ![f].agreement = a]
    BY <1>3 DEF Commit
  <2>2. NegKept
    BY <2>1, NegCommitted DEF HandsInv
  <2>3. "collect" # "idle" /\ "collect" # "wait" /\ "calling" # "none"
    OBVIOUS
  <2> QED
    BY <2>1, <2>2, <2>3, PresentsHands
<1> QED
  BY <1>1, <1>2, <1>3 DEF AgentCalls

(* The agent goes no further with its ticket, or with its request.          *)
LEMMA AgentLeavesHands ==
  ASSUME HandsInv, NEW f \in Families,
         PresentDead(f) \/ Decline(f) \/ RejectClaim(f) \/ LoseReply(f) \/ GiveUp(f)
  PROVE  HandsInv'
<1>1. inForce' = inForce /\ req' = req /\ tokens' = tokens /\ tickets' \subseteq tickets
  BY DEF PresentDead, Decline, RejectClaim, LoseReply, GiveUp, tallyVars, Take
<1>2. neg' = neg \/ neg' = [neg EXCEPT ![f] = NoNegotiation]
  BY DEF PresentDead, Decline, RejectClaim, LoseReply, GiveUp, tallyVars
<1>3. AgentKept /\ agent'[f].phase # "none" /\ \A g \in Families \ {f} : agent'[g] = agent[g]
  BY DEF PresentDead, Decline, RejectClaim, LoseReply, GiveUp, HandsInv, Shaped, AgentKept
<1>4. Shaped'
  BY <1>1, <1>2, <1>3, AsTheyWere, NegReset, ShapedKept DEF HandsInv, Shaped
<1>5. Passes
  BY <1>1, <1>3 DEF Passes, Idle
<1> QED
  BY <1>4, <1>5, PassesKeeps DEF HandsInv
-----------------------------------------------------------------------------
(* The tally's steps, and a holder's.                                       *)

(* Requests go on with what they hold.                                      *)
GoesOn(w) ==
  /\ ~Idle(w) /\ req'[w].stage # "idle"
  /\ req'[w].family = req[w].family

LEMMA GoOnShaped ==
  ASSUME Shaped, NEW w \in Requests, ~Idle(w)
  PROVE  /\ DOMAIN GoOn(w) = {"stage", "family", "at", "via", "quotes", "outdated"}
         /\ GoOn(w).stage = "collect" /\ GoOn(w).family = req[w].family
         /\ GoOn(w).at \in Nat \ {0}
  BY DEF Shaped, GoOn

LEMMA RepliesGoOn ==
  ASSUME Shaped, NEW q \in Questions,
         req' = [w \in Requests |->
                   IF req[w].stage = "wait" /\ req[w].via = q THEN GoOn(w) ELSE req[w]]
  PROVE  /\ ReqKept
         /\ \A w \in Requests :
              \/ req'[w] = req[w] /\ ~(req[w].stage = "wait" /\ req[w].via = q)
              \/ /\ GoesOn(w) /\ req'[w].stage = "collect"
                 /\ req[w].stage = "wait" /\ req[w].via = q
<1>1. \A w \in Requests : req[w].stage = "wait" => ~Idle(w)
  BY DEF Idle
<1>2. \A w \in Requests :
        \/ req'[w] = req[w] /\ ~(req[w].stage = "wait" /\ req[w].via = q)
        \/ req'[w] = GoOn(w) /\ req[w].stage = "wait" /\ req[w].via = q
  OBVIOUS
<1>3. \A w \in Requests :
        \/ req'[w] = req[w] /\ ~(req[w].stage = "wait" /\ req[w].via = q)
        \/ /\ GoesOn(w) /\ req'[w].stage = "collect"
           /\ DOMAIN req'[w] = {"stage", "family", "at", "via", "quotes", "outdated"} /\ req'[w].at \in Nat \ {0}
           /\ req[w].stage = "wait" /\ req[w].via = q
  BY <1>1, <1>2, GoOnShaped DEF GoesOn
<1>4. ReqKept
  BY <1>3 DEF ReqKept, Shaped, GoesOn, Idle
<1> QED
  BY <1>3, <1>4

(* A step in which the tally keeps what it has given out.                   *)
LEMMA TallyKeepsHands ==
  ASSUME HandsInv, agent' = agent, inForce' = inForce, tickets' = tickets, tokens' = tokens,
         NegKept, ReqKept, \A w \in Requests : req'[w] = req[w] \/ GoesOn(w)
  PROVE  HandsInv'
<1>1. Shaped'
  BY AsTheyWere, ShapedKept DEF HandsInv, Shaped
<1>2. Passes
  BY DEF Passes, GoesOn, Idle
<1> QED
  BY <1>1, <1>2, PassesKeeps DEF HandsInv

(* What the tally learns from an authority.                                 *)
LEMMA Counts ==
  ASSUME Shaped, Asks, NEW q \in Questions, ~At(q, "idle"), NEW effect, NEW signed,
         ReplyCounted(q, effect, signed)
  PROVE  /\ NegKept /\ ReqKept
         /\ \A w \in Requests :
              \/ req'[w] = req[w] /\ ~(req[w].stage = "wait" /\ req[w].via = q)
              \/ /\ GoesOn(w) /\ req'[w].stage = "collect"
                 /\ req[w].stage = "wait" /\ req[w].via = q
         /\ \A f \in Families : /\ neg'[f].agreement = neg[f].agreement
                                /\ neg'[f].state = neg[f].state
         /\ neg' # neg => \E w \in Requests : req[w].stage = "wait" /\ req[w].via = q
         /\ \A f \in Families : f # question[q].family => neg'[f] = neg[f]
         /\ \A f \in Families, h \in Holders :
              \/ /\ neg'[f].verdicts[h] = neg[f].verdicts[h]
                 /\ h \in neg[f].signed => h \in neg'[f].signed
              \/ /\ f = question[q].family /\ h = question[q].holder
                 /\ neg'[f].verdicts[h] = effect /\ (signed => h \in neg'[f].signed)
<1> DEFINE g == question[q].family
           i == question[q].holder
<1>1. g \in Families /\ i \in Holders
  BY DEF Asks
<1>2. CASE ~\E w \in Requests : req[w].stage = "wait" /\ req[w].via = q
  <2>1. req' = req /\ neg' = neg
    BY <1>2 DEF ReplyCounted
  <2> QED
    BY <1>2, <2>1, AsTheyWere
<1>3. CASE \E w \in Requests : req[w].stage = "wait" /\ req[w].via = q
  <2>1. /\ req' = [w \in Requests |->
                     IF req[w].stage = "wait" /\ req[w].via = q THEN GoOn(w) ELSE req[w]]
        /\ neg' = [neg EXCEPT ![g].verdicts[i] = effect,
                              ![g].signed = IF signed THEN @ \cup {i} ELSE @]
    BY <1>3 DEF ReplyCounted
  <2>2. \A f \in Families \ {g} : neg'[f] = neg[f]
    BY <1>1, <2>1 DEF Shaped
  <2>3. /\ DOMAIN neg' = Families
        /\ DOMAIN neg'[g] = DOMAIN neg[g]
        /\ neg'[g].verdicts = [neg[g].verdicts EXCEPT ![i] = effect]
        /\ neg'[g].signed = IF signed THEN neg[g].signed \cup {i} ELSE neg[g].signed
        /\ neg'[g].agreement = neg[g].agreement /\ neg'[g].state = neg[g].state
    BY <1>1, <2>1 DEF Shaped
  <2>4. NegKept
    BY <1>1, <2>2, <2>3 DEF Shaped, NegKept
  <2>5. \A f \in Families : neg'[f].agreement = neg[f].agreement /\ neg'[f].state = neg[f].state
    BY <2>2, <2>3
  <2>6. ASSUME NEW f \in Families, NEW h \in Holders
        PROVE  \/ /\ neg'[f].verdicts[h] = neg[f].verdicts[h]
                  /\ h \in neg[f].signed => h \in neg'[f].signed
               \/ /\ f = g /\ h = i
                  /\ neg'[f].verdicts[h] = effect /\ (signed => h \in neg'[f].signed)
    <3>1. CASE f # g
      BY <2>2, <3>1
    <3>2. CASE f = g /\ h # i
      <4>1. neg'[f].verdicts[h] = neg[f].verdicts[h]
        BY <1>1, <2>3, <3>2 DEF Shaped
      <4>2. h \in neg[f].signed => h \in neg'[f].signed
        BY <2>3, <3>2
      <4> QED
        BY <4>1, <4>2
    <3>3. CASE f = g /\ h = i
      <4>1. neg'[f].verdicts[h] = effect
        BY <1>1, <2>3, <3>3 DEF Shaped
      <4>2. signed => h \in neg'[f].signed
        BY <2>3, <3>3
      <4> QED
        BY <3>3, <4>1, <4>2
    <3> QED
      BY <3>1, <3>2, <3>3
  <2>7. /\ ReqKept
        /\ \A w \in Requests :
              \/ req'[w] = req[w] /\ ~(req[w].stage = "wait" /\ req[w].via = q)
              \/ /\ GoesOn(w) /\ req'[w].stage = "collect"
                 /\ req[w].stage = "wait" /\ req[w].via = q
    BY <2>1, RepliesGoOn
  <2> QED
    BY <1>1, <1>3, <2>2, <2>4, <2>5, <2>6, <2>7
<1> QED
  BY <1>2, <1>3

(* The steps of an authority under a question: it goes on, or it replies.   *)
Apart == agent' = agent /\ inForce' = inForce /\ tickets' = tickets /\ tokens' = tokens

LEMMA CountedHands ==
  ASSUME HandsInv, Asks, NEW q \in Questions, ~At(q, "idle"), NEW effect, NEW signed,
         ReplyCounted(q, effect, signed), Apart
  PROVE  HandsInv'
  BY Counts, TallyKeepsHands DEF HandsInv, Apart

LEMMA UncountedHands ==
  ASSUME HandsInv, NEW q \in Questions, ReplyUncounted(q), Apart
  PROVE  HandsInv'
<1>1. neg' = neg /\ NegKept
  BY AsTheyWere DEF HandsInv, ReplyUncounted
<1>2. ReqKept /\ \A w \in Requests : req'[w] = req[w] \/ GoesOn(w)
  BY RepliesGoOn DEF HandsInv, ReplyUncounted
<1> QED
  BY <1>1, <1>2, TallyKeepsHands DEF Apart

LEMMA TallyStaysHands ==
  ASSUME HandsInv, Apart, neg' = neg, req' = req
  PROVE  HandsInv'
  BY AsTheyWere, TallyKeepsHands DEF HandsInv, Apart

(* What a question's step does to the tally: one of these.                  *)
Answering(q) ==
  \/ req' = req /\ neg' = neg
  \/ ReplyUncounted(q)
  \/ \E signed \in BOOLEAN : ReplyCounted(q, "refuse", signed)
  \/ ReplyCounted(q, "allow", TRUE) /\ Verifies(q, question[q].mandate)

LEMMA AnsweringHands ==
  ASSUME HandsInv, Asks, NEW q \in Questions, ~At(q, "idle"), Apart, Answering(q)
  PROVE  HandsInv'
  BY CountedHands, UncountedHands, TallyStaysHands DEF Answering

LEMMA QuestionAnswers ==
  ASSUME NEW q \in Questions, QuestionStep(q) \/ CannotReadMandate(q) \/ Die(q)
  PROVE  ~At(q, "idle") /\ Apart /\ Answering(q)
<1>1. CASE Arrive(q)
  BY <1>1 DEF Arrive, At, Apart, apartVars, authorVars, Answering
<1>2. CASE CheckMandate(q)
  BY <1>2 DEF CheckMandate, At, Apart, apartVars, authorVars, Answering, Refuse
<1>3. CASE ReadRow(q)
  BY <1>3 DEF ReadRow, At, Apart, apartVars, authorVars, Answering, Refuse
<1>4. CASE CloseRow(q)
  BY <1>4 DEF CloseRow, At, Apart, apartVars, authorVars, Answering, Refuse
<1>5. CASE CheckWithdrawn(q)
  BY <1>5 DEF CheckWithdrawn, At, Apart, apartVars, authorVars, Answering, Refuse, Allow
<1>6. CASE Evaluate(q)
  BY <1>6 DEF Evaluate, At, Apart, apartVars, authorVars, Answering, Refuse, Allow
<1>7. CASE Save(q)
  BY <1>7 DEF Save, At, Apart, apartVars, authorVars, Answering
<1>8. CASE CannotReadMandate(q)
  BY <1>8 DEF CannotReadMandate, At, Apart, authorVars, Answering, Refuse
<1>9. CASE Die(q)
  BY <1>9 DEF Die, At, Apart, authorVars, Answering
<1> QED
  BY <1>1, <1>2, <1>3, <1>4, <1>5, <1>6, <1>7, <1>8, <1>9 DEF QuestionStep

(* A request ends with nothing, with another ticket, or with a grant.       *)
LEMMA EndsHands ==
  ASSUME HandsInv, NEW w \in Requests, ~Idle(w),
         NEW f \in Families, req[w].family = f, req' = [req EXCEPT ![w] = NoRequest],
         inForce' = inForce, NegKept, NEW phase, NEW n, phase # "none", ReplyTo(w, phase, n),
         \/ tickets' = tickets /\ tokens' = tokens
         \/ \E k : tickets' = tickets \cup {<<f, k>>} /\ tokens' = tokens
         \/ \E t : t.family = f /\ tickets' = tickets /\ tokens' = tokens \cup {t}
  PROVE  HandsInv'
<1>1. /\ WorkedOn(f) /\ ~HasTicket(f) /\ ~HasToken(f)
      /\ agent[f].phase # "none"
  BY DEF HandsInv, Shaped, Hands, WorkedOn, HasToken
<1>2. /\ ReqKept /\ Idle(w)'
      /\ \A v \in Requests \ {w} : req'[v] = req[v]
  BY ReqEnds DEF HandsInv
<1>3. /\ AgentKept
      /\ \A g \in Families : agent'[g] = agent[g] \/ (g = f /\ agent'[g].phase = phase)
  BY Replies DEF HandsInv
<1>4. Shaped'
  BY <1>2, <1>3, ShapedKept DEF HandsInv, Shaped
<1>5. \A v \in Requests : ~Idle(v)' => v # w /\ ~Idle(v) /\ req'[v] = req[v]
  BY <1>2 DEF Idle
<1>6. \A v \in Requests : ~Idle(v) /\ v # w => req[v].family # f
  BY DEF HandsInv, Hands
<1>7. ~WorkedOn(f)'
  BY <1>5, <1>6 DEF WorkedOn
<1>8. \A g : WorkedOn(g)' => WorkedOn(g) /\ g # f
  BY <1>5, <1>7 DEF WorkedOn
<1>9. \A g : HasTicket(g)' => HasTicket(g) \/ g = f
  BY DEF HasTicket
<1>10. \A g : HasToken(g)' => HasToken(g) \/ g = f
  BY DEF HasToken
<1>11. ~HasTicket(f)' \/ ~HasToken(f)'
  BY <1>1 DEF HasTicket, HasToken
<1>12. \A t, u \in tickets' : t[1] = u[1] => t = u
  BY <1>1 DEF HandsInv, Hands, HasTicket
<1>13. \A u, v \in Requests : ~Idle(u)' /\ ~Idle(v)' /\ req'[u].family = req'[v].family => u = v
  BY <1>5 DEF HandsInv, Hands
<1>14. \A v \in Requests : ~Idle(v)' => ~HasTicket(req[v].family)'
  BY <1>5, <1>6, <1>9 DEF HandsInv, Hands
<1>15. \A g : HasToken(g) => ~HasTicket(g) /\ ~WorkedOn(g)
  BY DEF HandsInv, Hands, HasToken
<1>16. \A t \in tokens' : HasToken(t.family)'
  BY DEF HasToken
<1>17. \A t \in tokens' : ~HasTicket(t.family)' /\ ~WorkedOn(t.family)'
  BY <1>1, <1>7, <1>8, <1>9, <1>10, <1>11, <1>15, <1>16
<1>18. \A g \in Families : agent'[g].phase = "none" => g # f /\ agent[g].phase = "none"
  BY <1>1, <1>3
<1>19. \A g \in Families :
         agent'[g].phase = "none" => ~HasTicket(g)' /\ ~WorkedOn(g)' /\ ~HasToken(g)'
  BY <1>8, <1>9, <1>10, <1>18 DEF HandsInv, Hands
<1>20. Hands'
  BY <1>12, <1>13, <1>14, <1>17, <1>19, <1>5 DEF Hands
<1> QED
  BY <1>4, <1>20 DEF HandsInv

LEMMA NegDictated ==
  ASSUME Shaped, NEW f \in Families, NEW template,
         neg' = [neg EXCEPT ![f].state = "need_info", ![f].template = template]
  PROVE  NegKept
  BY DEF Shaped, NegKept

LEMMA DictateHands ==
  ASSUME HandsInv, NEW w \in Requests,
         Dictate(w) \/ QuotesRefused(w) \/ QuotesFail(w)
  PROVE  HandsInv'
<1> PICK f : f = req[w].family
  OBVIOUS
<1>1. ~Idle(w) /\ f \in Families
  BY DEF Dictate, QuotesRefused, QuotesFail, FailQuotes, Idle, HandsInv, Shaped
<1>2. "denied" # "none" /\ "proffered" # "none"
  OBVIOUS
<1>3. CASE FailQuotes(w)
  <2>1. /\ req' = [req EXCEPT ![w] = NoRequest] /\ inForce' = inForce /\ neg' = neg
        /\ ReplyTo(w, "denied", 0) /\ tickets' = tickets /\ tokens' = tokens
    BY <1>3 DEF FailQuotes
  <2>2. NegKept
    BY <2>1, AsTheyWere DEF HandsInv
  <2> QED
    BY <1>1, <1>2, <2>1, <2>2, EndsHands
<1>4. CASE Dictate(w) /\ req[w].quotes = <<>>
  <2>1. /\ req' = [req EXCEPT ![w] = NoRequest] /\ inForce' = inForce
        /\ neg' = [neg EXCEPT ![f] = NoNegotiation]
        /\ ReplyTo(w, "denied", 0) /\ tickets' = tickets /\ tokens' = tokens
    BY <1>4 DEF Dictate
  <2>2. NegKept
    BY <1>1, <2>1, NegReset DEF HandsInv
  <2> QED
    BY <1>1, <1>2, <2>1, <2>2, EndsHands
<1>5. CASE Dictate(w) /\ req[w].quotes # <<>>
  <2>1. /\ req' = [req EXCEPT ![w] = NoRequest] /\ inForce' = inForce
        /\ neg' = [neg EXCEPT ![f].state = "need_info",
                              ![f].template = Template(req[w].quotes, Account, Asked)]
        /\ ReplyTo(w, "proffered", Fresh(f)) /\ Mint(f) /\ tokens' = tokens
    BY <1>5 DEF Dictate
  <2>2. NegKept
    BY <1>1, <2>1, NegDictated DEF HandsInv
  <2>3. \E k : tickets' = tickets \cup {<<f, k>>}
    BY <2>1 DEF Mint
  <2> QED
    BY <1>1, <1>2, <2>1, <2>2, <2>3, EndsHands
<1> QED
  BY <1>3, <1>4, <1>5 DEF QuotesRefused, QuotesFail

LEMMA ConcludeHands ==
  ASSUME HandsInv, NEW w \in Requests, Conclude(w)
  PROVE  HandsInv'
<1> PICK f : f = req[w].family
  OBVIOUS
<1>1. /\ ~Idle(w) /\ f \in Families /\ inForce' = inForce
      /\ req' = [req EXCEPT ![w] = NoRequest]
  BY DEF Conclude, Idle, HandsInv, Shaped
<1>2. "denied" # "none" /\ "granted" # "none" /\ "waiting" # "none"
  OBVIOUS
<1>3. CASE Standing(f) = "allow"
  <2>1. /\ neg' = [neg EXCEPT ![f] = NoNegotiation] /\ ReplyTo(w, "granted", 0)
        /\ tickets' = tickets /\ tokens' = tokens \cup {GrantOf(f)}
    BY <1>3 DEF Conclude
  <2>2. NegKept
    BY <1>1, <2>1, NegReset DEF HandsInv
  <2>3. GrantOf(f).family = f
    BY DEF GrantOf
  <2> QED
    BY <1>1, <1>2, <2>1, <2>2, <2>3, EndsHands
<1>4. CASE Standing(f) = "refuse"
  <2>1. /\ neg' = [neg EXCEPT ![f] = NoNegotiation] /\ ReplyTo(w, "denied", 0)
        /\ tickets' = tickets /\ tokens' = tokens
    BY <1>4 DEF Conclude
  <2>2. NegKept
    BY <1>1, <2>1, NegReset DEF HandsInv
  <2> QED
    BY <1>1, <1>2, <2>1, <2>2, EndsHands
<1>5. CASE Standing(f) \notin {"allow", "refuse"}
  <2>1. neg' = neg /\ Mint(f) /\ ReplyTo(w, "waiting", Fresh(f)) /\ tokens' = tokens
    BY <1>5 DEF Conclude
  <2>2. NegKept
    BY <2>1, AsTheyWere DEF HandsInv
  <2>3. \E k : tickets' = tickets \cup {<<f, k>>}
    BY <2>1 DEF Mint
  <2> QED
    BY <1>1, <1>2, <2>1, <2>2, <2>3, EndsHands
<1> QED
  BY <1>3, <1>4, <1>5

(* A request asks a holder, or gives up on her.                             *)
LEMMA AskQuoteIs ==
  ASSUME Shaped, NEW w \in Requests, AskQuote(w), NEW k, k = NextHolder(req[w].at)
  PROVE  /\ k \in Nat \ {0} /\ k >= req[w].at /\ HasHolderAt(k)
         /\ Order[k] \in HoldersOf(inForce)
         /\ \A j \in req[w].at..(k - 1) : Order[j] \notin HoldersOf(inForce)
         /\ req[w].stage = "quotes" /\ ~Idle(w)
         /\ DOMAIN req' = Requests /\ DOMAIN req'[w] = DOMAIN req[w]
         /\ req'[w].stage = "quotes" /\ req'[w].family = req[w].family
         /\ req'[w].via = req[w].via /\ req'[w].outdated = req[w].outdated
         /\ req'[w].at = k + 1
         /\ req'[w].quotes = IF terms[Order[k]] = None THEN req[w].quotes
                             ELSE Append(req[w].quotes, QuoteOf(terms[Order[k]], Account))
         /\ \A v \in Requests \ {w} : req'[v] = req[v]
<1>1. req[w].at \in Nat \ {0}
  BY DEF Shaped
<1>2. /\ HasHolderAt(k) /\ req[w].stage = "quotes"
      /\ req' = [req EXCEPT ![w].at = k + 1,
            ![w].quotes = IF terms[Order[k]] = None THEN @
                          ELSE Append(@, QuoteOf(terms[Order[k]], Account))]
  BY DEF AskQuote
<1>3. /\ k \in Nat \ {0} /\ k >= req[w].at /\ Order[k] \in HoldersOf(inForce)
      /\ \A j \in req[w].at..(k - 1) : Order[j] \notin HoldersOf(inForce)
  BY <1>1, <1>2, NextQuoter
<1>4. DOMAIN req[w] = {"stage", "family", "at", "via", "quotes", "outdated"} /\ DOMAIN req = Requests
  BY DEF Shaped
<1> QED
  BY <1>2, <1>3, <1>4 DEF Idle

LEMMA AskHands ==
  ASSUME HandsInv, NEW w \in Requests,
         AskQuote(w) \/ Unreachable(w) \/ \E q \in Questions : AskHolder(w, q)
  PROVE  HandsInv'
<1>1. CASE Unreachable(w)
  <2>1. /\ req' = [req EXCEPT ![w] = GoOn(w)] /\ ~Idle(w) /\ neg' = neg /\ agent' = agent
        /\ inForce' = inForce /\ tickets' = tickets /\ tokens' = tokens
    BY <1>1 DEF Unreachable, Idle
  <2>2. ReqKept /\ \A v \in Requests : req'[v] = req[v] \/ GoesOn(v)
    BY <2>1, GoOnShaped DEF HandsInv, Shaped, ReqKept, GoesOn, Idle
  <2> QED
    BY <2>1, <2>2, AsTheyWere, TallyKeepsHands DEF HandsInv
<1>2. ASSUME NEW q \in Questions, AskHolder(w, q) PROVE HandsInv'
  <2> DEFINE k == NextToAsk(req[w].family, req[w].at)
  <2>1. /\ req' = [req EXCEPT ![w].stage = "wait", ![w].at = k, ![w].via = q]
        /\ ~Idle(w) /\ neg' = neg /\ agent' = agent
        /\ inForce' = inForce /\ tickets' = tickets /\ tokens' = tokens
    BY <1>2 DEF AskHolder, Asking, Idle, apartVars, authorVars
  <2>4. k \in Nat \ {0}
    BY NextPlace DEF HandsInv, Shaped
  <2> HIDE DEF k
  <2>2. ReqKept /\ \A v \in Requests : req'[v] = req[v] \/ GoesOn(v)
    BY <2>1, <2>4 DEF HandsInv, Shaped, ReqKept, GoesOn, Idle
  <2> QED
    BY <2>1, <2>2, AsTheyWere, TallyKeepsHands DEF HandsInv
<1>3. CASE AskQuote(w)
  <2>1. /\ neg' = neg /\ agent' = agent
        /\ inForce' = inForce /\ tickets' = tickets /\ tokens' = tokens
    BY <1>3 DEF AskQuote
  <2> PICK k : k = NextHolder(req[w].at)
    OBVIOUS
  <2>2. /\ k \in Nat \ {0} /\ ~Idle(w)
        /\ DOMAIN req' = Requests /\ DOMAIN req'[w] = DOMAIN req[w]
        /\ req'[w].stage = "quotes" /\ req'[w].family = req[w].family /\ req'[w].at = k + 1
        /\ \A v \in Requests \ {w} : req'[v] = req[v]
    BY <1>3, AskQuoteIs DEF HandsInv
  <2>3. k + 1 \in Nat \ {0}
    BY <2>2
  <2>4. ReqKept /\ \A v \in Requests : req'[v] = req[v] \/ GoesOn(v)
    BY <2>2, <2>3 DEF HandsInv, Shaped, ReqKept, GoesOn, Idle
  <2> QED
    BY <2>1, <2>4, AsTheyWere, TallyKeepsHands DEF HandsInv
<1> QED
  BY <1>1, <1>2, <1>3

(* Time passes over a negotiation, a grant is burned, the tally is deployed *)
(* again.                                                                   *)
LEMMA TimeHands ==
  ASSUME HandsInv, NEW f \in Families, Lapse(f) \/ Outlive(f) \/ Consume(f)
  PROVE  HandsInv'
<1>1. /\ agent' = agent /\ inForce' = inForce /\ tickets' = tickets /\ tokens' = tokens
      /\ req' = req
  BY DEF Lapse, Outlive, Consume
<1>2. neg' = neg \/ neg' = [neg EXCEPT ![f].stale = TRUE] \/ neg' = [neg EXCEPT ![f].over = TRUE]
  BY DEF Lapse, Outlive, Consume
<1>3. NegKept
  BY <1>2 DEF HandsInv, Shaped, NegKept
<1> QED
  BY <1>1, <1>3, AsTheyWere, TallyKeepsHands DEF HandsInv

LEMMA RestartHands ==
  ASSUME HandsInv, NEW m \in Mandates, Restart(m)
  PROVE  HandsInv'
<1>1. /\ inForce' = m /\ tickets' = {} /\ tokens' = tokens
      /\ neg' = [f \in Families |-> NoNegotiation]
      /\ req' = [w \in Requests |-> NoRequest]
  BY DEF Restart
<1>2. AgentKept /\ \A f \in Families : agent'[f].phase = "none" => agent[f].phase = "none"
  BY DEF Restart, HandsInv, Shaped, AgentKept
<1>3. NegKept
  BY <1>1, NoNegotiationShaped DEF NegKept
<1>4. ReqKept
  BY <1>1, NoRequestShaped DEF ReqKept, Idle
<1>5. Shaped'
  BY <1>1, <1>2, <1>3, <1>4, ShapedKept
<1>6. Passes
  BY <1>1, <1>2, NoRequestShaped DEF Passes, Idle
<1> QED
  BY <1>5, <1>6, PassesKeeps DEF HandsInv

(* What holders do, they do at their own authorities.                       *)
HolderActs(h) ==
  \/ \E f \in Families, d \in {"approved", "denied"} : Decide(h, f, d)
  \/ Withdraw(h) \/ Join(h) \/ Leave(h)
  \/ \E tier \in Written[h] : Edit(h, tier)

(* Whose terms were edited is all that a request learns of it.              *)
LEMMA HolderReq ==
  ASSUME Shaped, NEW h \in Holders, HolderActs(h)
  PROVE  /\ ReqKept
         /\ \A w \in Requests : req'[w] = req[w] \/ GoesOn(w)
         /\ \A w \in Requests :
              /\ req'[w].stage = req[w].stage /\ req'[w].family = req[w].family
              /\ req'[w].via = req[w].via /\ req'[w].at = req[w].at
              /\ req'[w].quotes = req[w].quotes
<1>1. CASE req' = req
  BY <1>1, AsTheyWere
<1>2. ASSUME NEW tier, Edit(h, tier)
      PROVE  /\ ReqKept
             /\ \A w \in Requests : req'[w] = req[w] \/ GoesOn(w)
             /\ \A w \in Requests :
                  /\ req'[w].stage = req[w].stage /\ req'[w].family = req[w].family
                  /\ req'[w].via = req[w].via /\ req'[w].at = req[w].at
                  /\ req'[w].quotes = req[w].quotes
  <2>1. req' = [w \in Requests |-> IF HasRead(w, h)
                                  THEN [req[w] EXCEPT !.outdated = @ \cup {h}] ELSE req[w]]
    BY <1>2 DEF Edit
  <2>2. DOMAIN req' = Requests
    BY <2>1
  <2>3. ASSUME NEW w \in Requests
        PROVE  /\ DOMAIN req'[w] = DOMAIN req[w]
               /\ req'[w].stage = req[w].stage /\ req'[w].family = req[w].family
               /\ req'[w].via = req[w].via /\ req'[w].at = req[w].at
               /\ req'[w].quotes = req[w].quotes
               /\ req'[w] = req[w] \/ req[w].stage = "quotes"
    <3>1. DOMAIN req[w] = {"stage", "family", "at", "via", "quotes", "outdated"}
      BY DEF Shaped
    <3> QED
      BY <2>1, <3>1 DEF HasRead
  <2>4. \A w \in Requests : req'[w] = req[w] \/ GoesOn(w)
    BY <2>3 DEF GoesOn, Idle
  <2>5. ReqKept
    BY <2>2, <2>3 DEF Shaped, ReqKept, Idle
  <2> QED
    BY <2>3, <2>4, <2>5
<1>3. req' = req \/ \E tier : Edit(h, tier)
  BY DEF HolderActs, Decide, Withdraw, Join, Leave, tallyVars
<1> QED
  BY <1>1, <1>2, <1>3

LEMMA HolderHands ==
  ASSUME HandsInv, NEW h \in Holders, HolderActs(h)
  PROVE  HandsInv'
<1>1. Apart /\ neg' = neg
  BY DEF HolderActs, Decide, Withdraw, Join, Leave, Edit, tallyVars, Apart
<1>2. ReqKept /\ \A w \in Requests : req'[w] = req[w] \/ GoesOn(w)
  BY HolderReq DEF HandsInv
<1> QED
  BY <1>1, <1>2, AsTheyWere, TallyKeepsHands DEF HandsInv, Apart

(* A question that no faithful tally would ask.                             *)
Strayed ==
  \E q \in Questions, h \in Holders, f \in Families, a \in Agreements : AskAbout(q, h, f, a)

LEMMA StrayHands ==
  ASSUME HandsInv, Strayed
  PROVE  HandsInv'
<1>1. Apart /\ neg' = neg /\ req' = req
  BY DEF Strayed, AskAbout, authorVars, Apart
<1> QED
  BY <1>1, TallyStaysHands

LEMMA HandsStep ==
  ASSUME HandsInv, Asks, Next
  PROVE  HandsInv'
<1>1. ASSUME NEW f \in Families,
             \/ Perm(f) \/ Lapse(f) \/ PresentDead(f) \/ Decline(f) \/ RejectClaim(f)
             \/ LoseReply(f) \/ GiveUp(f) \/ Consume(f) \/ Outlive(f)
             \/ \E w \in Requests : AgentCalls(f, w)
      PROVE HandsInv'
  BY <1>1, PermHands, TimeHands, AgentLeavesHands, AgentCallsHands
<1>2. ASSUME NEW w \in Requests, RequestStep(w) \/ QuotesFail(w) \/ Unreachable(w)
      PROVE HandsInv'
  BY <1>2, DictateHands, ConcludeHands, AskHands DEF RequestStep
<1>3. ASSUME NEW q \in Questions, QuestionStep(q) \/ CannotReadMandate(q) \/ Die(q)
      PROVE HandsInv'
  BY <1>3, QuestionAnswers, AnsweringHands
<1>4. ASSUME NEW h \in Holders, HolderActs(h) PROVE HandsInv'
  BY <1>4, HolderHands
<1>5. Next =>
        \/ \E f \in Families :
             \/ Perm(f) \/ Lapse(f) \/ PresentDead(f) \/ Decline(f) \/ RejectClaim(f)
             \/ LoseReply(f) \/ GiveUp(f) \/ Consume(f) \/ Outlive(f)
             \/ \E w \in Requests : AgentCalls(f, w)
        \/ \E w \in Requests : RequestStep(w) \/ QuotesFail(w) \/ Unreachable(w)
        \/ \E q \in Questions : QuestionStep(q) \/ CannotReadMandate(q) \/ Die(q)
        \/ Strayed
        \/ \E m \in Mandates : Restart(m)
        \/ \E h \in Holders : HolderActs(h)
  BY DEF Next, HolderActs, Strayed
<1> QED
  BY <1>1, <1>2, <1>3, <1>4, <1>5, RestartHands, StrayHands
-----------------------------------------------------------------------------
(* The records agree: nobody is counted before an agreement is committed to,*)
(* and the tally's record of a negotiation is in step with its agent.       *)

(* Nobody has answered where nothing was committed to.                      *)
Unanswered(f) ==
  \A h \in Holders : neg'[f].verdicts[h] = "none" \/ neg'[f].verdicts[h] = neg[f].verdicts[h]

LEMMA UncountedKept ==
  ASSUME Uncounted,
         \A f \in Families :
           Uncommitted(f)' => /\ Uncommitted(f) /\ Unanswered(f)
                              /\ neg'[f].agreement \in {neg[f].agreement, None}
  PROVE  Uncounted'
  BY DEF Uncounted, Unanswered

(* The holders' authorities are not concerned.                              *)
Elsewhere == question' = question /\ row' = row /\ agreed' = agreed

LEMMA AsksElsewhere ==
  ASSUME Asks, Rows, Elsewhere
  PROVE  Asks' /\ Rows'
  BY DEF Asks, Rows, Elsewhere, At

(* What the tally decides about its own records, and the agent about its    *)
(* own, when no agreement is committed to.                                  *)
LEMMA ElsewhereKeeps ==
  ASSUME CommitInv, Elsewhere, HandsInv', InStep',
         \A f \in Families :
           /\ neg'[f].agreement \in {neg[f].agreement, None}
           /\ Uncommitted(f)' => Uncommitted(f) /\ Unanswered(f)
  PROVE  CommitInv'
  BY AsksElsewhere, UncountedKept DEF CommitInv

LEMMA PermCommits ==
  ASSUME CommitInv, NEW f \in Families, Perm(f)
  PROVE  CommitInv'
<1>1. /\ agent[f].phase = "none" /\ inForce' = inForce /\ req' = req
      /\ agent' = [agent EXCEPT ![f].phase = "ready", ![f].ticket = 1]
      /\ neg' = [Swept EXCEPT ![f] = [NoNegotiation EXCEPT !.state = "new"]]
      /\ Elsewhere
  BY DEF Perm, holderVars, Elsewhere
<1>2. agent'[f].phase = "ready" /\ \A g \in Families \ {f} : agent'[g] = agent[g]
  BY <1>1 DEF CommitInv, HandsInv, Shaped
<1>3. /\ neg'[f].agreement = None /\ neg'[f].verdicts = NoNegotiation.verdicts
      /\ \A g \in Families \ {f} : neg'[g] = neg[g] \/ (neg'[g] = NoNegotiation /\ ~WorkedOn(g))
  BY <1>1, NoNegotiationShaped DEF Swept
<1>4. ~WorkedOn(f)
  BY <1>1 DEF CommitInv, HandsInv, Hands
<1>5. \A g \in Families : Quoting(g)' <=> Quoting(g)
  BY <1>1 DEF Quoting
<1>6. \A g \in Families : /\ neg'[g].agreement \in {neg[g].agreement, None}
                          /\ Uncommitted(g)' => Uncommitted(g) /\ Unanswered(g)
  <2>1. Uncommitted(f)
    BY <1>1 DEF Uncommitted
  <2>2. Unanswered(f) /\ neg'[f].agreement = None
    BY <1>3, NoNegotiationShaped DEF Unanswered
  <2>3. ASSUME NEW g \in Families \ {f}
        PROVE  /\ neg'[g].agreement \in {neg[g].agreement, None} /\ Unanswered(g)
               /\ Uncommitted(g)' => Uncommitted(g)
    BY <1>2, <1>3, <1>5, NoNegotiationShaped DEF Uncommitted, Unanswered
  <2> QED
    BY <2>1, <2>2, <2>3
<1>7. \A w \in Requests : req[w].stage \in {"collect", "wait"} =>
        /\ req[w].family # f /\ req[w].family \in Families /\ neg'[req[w].family] = neg[req[w].family]
  BY <1>3, <1>4 DEF WorkedOn, Idle, CommitInv, HandsInv, Shaped
<1>8. InStep'
  <2>1. ASSUME NEW g \in Families
        PROVE  /\ agent'[g].phase \in {"waiting", "polling"} =>
                    neg'[g].state = "none" \/ neg'[g].agreement \in Agreements
               /\ neg'[g].agreement \in Agreements \cup {None}
               /\ Quoting(g)' => agent'[g].phase \in {"calling", "gone"}
    <3>1. ~Quoting(f)
      BY <1>4 DEF Quoting, WorkedOn, Idle
    <3> QED
      BY <1>2, <1>3, <1>5, <3>1, NoNegotiationShaped DEF CommitInv, InStep
  <2>2. ASSUME NEW v \in Requests
        PROVE  /\ req'[v].stage \in {"collect", "wait"} => neg'[req'[v].family].agreement \in Agreements
               /\ req'[v].stage = "wait" => question'[req'[v].via].family = req'[v].family
    BY <1>1, <1>7 DEF CommitInv, InStep, Elsewhere
  <2> QED
    BY <2>1, <2>2 DEF InStep
<1>9. HandsInv'
  BY PermHands DEF CommitInv
<1> QED
  BY <1>1, <1>6, <1>8, <1>9, ElsewhereKeeps

LEMMA TimeCommits ==
  ASSUME CommitInv, NEW f \in Families, Lapse(f) \/ Outlive(f) \/ Consume(f)
  PROVE  CommitInv'
<1>1. agent' = agent /\ req' = req /\ Elsewhere
  BY DEF Lapse, Outlive, Consume, holderVars, Elsewhere
<1>2. neg' = neg \/ neg' = [neg EXCEPT ![f].stale = TRUE] \/ neg' = [neg EXCEPT ![f].over = TRUE]
  BY DEF Lapse, Outlive, Consume
<1>3. \A g \in Families : /\ neg'[g].agreement = neg[g].agreement
                          /\ neg'[g].state = neg[g].state
                          /\ neg'[g].verdicts = neg[g].verdicts
  BY <1>2 DEF CommitInv, HandsInv, Shaped
<1>4. \A g \in Families : (Quoting(g)' <=> Quoting(g)) /\ (Uncommitted(g)' <=> Uncommitted(g))
  BY <1>1 DEF Quoting, Uncommitted
<1>5. InStep'
  <2>1. \A w \in Requests : req[w].stage \in {"collect", "wait"} => req[w].family \in Families
    BY DEF Idle, CommitInv, HandsInv, Shaped
  <2> QED
    BY <1>1, <1>3, <1>4, <2>1 DEF CommitInv, InStep, Elsewhere
<1>6. HandsInv'
  BY TimeHands DEF CommitInv
<1> QED
  BY <1>1, <1>3, <1>4, <1>5, <1>6, ElsewhereKeeps DEF Unanswered

LEMMA LeavesCommits ==
  ASSUME CommitInv, NEW f \in Families,
         PresentDead(f) \/ Decline(f) \/ RejectClaim(f) \/ LoseReply(f) \/ GiveUp(f)
  PROVE  CommitInv'
<1>1. req' = req /\ Elsewhere
  BY DEF PresentDead, Decline, RejectClaim, LoseReply, GiveUp, tallyVars, holderVars, Elsewhere
<1>2. \/ neg' = neg
      \/ neg' = [neg EXCEPT ![f] = NoNegotiation] /\ ~WorkedOn(f)
  BY Taken DEF PresentDead, Decline, RejectClaim, LoseReply, GiveUp, tallyVars, CommitInv, HandsInv
<1>3. /\ \/ agent'[f].phase \in {"denied", "gone"}
         \/ agent'[f].phase = "waiting" /\ agent[f].phase = "polling"
      /\ \A g \in Families \ {f} : agent'[g] = agent[g]
  BY DEF PresentDead, Decline, RejectClaim, LoseReply, GiveUp, CommitInv, HandsInv, Shaped
<1>4. agent'[f].phase = "denied" => agent[f].phase \in {"ready", "proffered", "waiting"}
  BY DEF PresentDead, Decline, RejectClaim, LoseReply, GiveUp, CommitInv, HandsInv, Shaped
<1>5. \A g \in Families : neg'[g] = neg[g] \/ (neg'[g] = NoNegotiation /\ ~WorkedOn(g))
  BY <1>2 DEF CommitInv, HandsInv, Shaped
<1>6. \A g \in Families : Quoting(g)' <=> Quoting(g)
  BY <1>1 DEF Quoting
<1>7. \A g \in Families : /\ neg'[g].agreement \in {neg[g].agreement, None}
                          /\ Uncommitted(g)' => Uncommitted(g) /\ Unanswered(g)
  BY <1>3, <1>5, <1>6, NoNegotiationShaped DEF Uncommitted, Unanswered
<1>8. InStep'
  <2>1. \A w \in Requests : req[w].stage \in {"collect", "wait"} =>
          req[w].family \in Families /\ neg'[req[w].family] = neg[req[w].family]
    BY <1>5 DEF Idle, WorkedOn, CommitInv, HandsInv, Shaped
  <2> QED
    BY <1>1, <1>3, <1>4, <1>5, <1>6, <2>1, NoNegotiationShaped DEF CommitInv, InStep, Elsewhere
<1>9. HandsInv'
  BY AgentLeavesHands DEF CommitInv
<1> QED
  BY <1>1, <1>7, <1>8, <1>9, ElsewhereKeeps

(* The parts of InStep, for a negotiation and for a request.                *)
StepOf(f) ==
  /\ agent[f].phase \in {"waiting", "polling"} =>
       neg[f].state = "none" \/ neg[f].agreement \in Agreements
  /\ neg[f].agreement \in Agreements \cup {None}
  /\ Quoting(f) => agent[f].phase \in {"calling", "gone"}

Served(w) ==
  /\ req[w].stage \in {"collect", "wait"} => neg[req[w].family].agreement \in Agreements
  /\ req[w].stage = "wait" => question[req[w].via].family = req[w].family

LEMMA InSteps == InStep <=> /\ \A f \in Families : StepOf(f)
                            /\ \A w \in Requests : Served(w)
  BY DEF InStep, StepOf, Served

(* A ticket is presented: its request is the only one of the negotiation.   *)
LEMMA Presented ==
  ASSUME CommitInv, NEW f \in Families, NEW w \in Requests, NEW stage, NEW phase,
         stage # "idle",
         Live(f), Idle(w), Take(f),
         req' = [req EXCEPT ![w] = Holding(f, stage)], CallFrom(f, w, phase)
  PROVE  /\ agent'[f].phase = phase /\ \A g \in Families \ {f} : agent'[g] = agent[g]
         /\ req'[w].stage = stage /\ req'[w].family = f
         /\ \A v \in Requests \ {w} : req'[v] = req[v] /\ (~Idle(v) => req[v].family # f)
         /\ Quoting(f)' <=> stage = "quotes"
         /\ \A g \in Families \ {f} : Quoting(g)' <=> Quoting(g)
         /\ ~WorkedOn(f) /\ ~Quoting(f)
<1>1. agent'[f].phase = phase /\ \A g \in Families \ {f} : agent'[g] = agent[g]
  BY DEF CommitInv, HandsInv, Shaped, CallFrom
<1>2. req'[w].stage = stage /\ req'[w].family = f /\ \A v \in Requests \ {w} : req'[v] = req[v]
  BY NoRequestShaped DEF CommitInv, HandsInv, Shaped, Holding
<1>3. ~WorkedOn(f)
  BY Taken DEF CommitInv, HandsInv
<1>4. \A v \in Requests : ~Idle(v) => req[v].family # f
  BY <1>3 DEF WorkedOn
<1>5. \A v \in Requests : req[v].stage = "quotes" => ~Idle(v)
  BY DEF Idle
<1>6. ~Quoting(f)
  BY <1>4, <1>5 DEF Quoting
<1>7. Quoting(f)' <=> stage = "quotes"
  BY <1>2, <1>4, <1>5 DEF Quoting
<1>8. \A g \in Families \ {f} : Quoting(g)' <=> Quoting(g)
  BY <1>2 DEF Quoting, Idle
<1> QED
  BY <1>1, <1>2, <1>3, <1>4, <1>6, <1>7, <1>8

LEMMA AskTermsCommits ==
  ASSUME CommitInv, NEW f \in Families, NEW w \in Requests, AskTerms(f, w)
  PROVE  CommitInv'
<1>1. /\ agent[f].phase = "ready" /\ Live(f) /\ Idle(w) /\ Take(f) /\ CallFrom(f, w, "calling")
      /\ req' = [req EXCEPT ![w] = Holding(f, "quotes")]
      /\ neg' = neg /\ Elsewhere
  BY DEF AskTerms, holderVars, Elsewhere
<1>2. "quotes" # "idle"
  OBVIOUS
<1>3. /\ agent'[f].phase = "calling" /\ \A g \in Families \ {f} : agent'[g] = agent[g]
      /\ req'[w].stage = "quotes" /\ req'[w].family = f
      /\ \A v \in Requests \ {w} : req'[v] = req[v]
      /\ \A g \in Families \ {f} : Quoting(g)' <=> Quoting(g)
  BY <1>1, <1>2, Presented
<1>4. \A g \in Families : Uncommitted(g)' => Uncommitted(g)
  BY <1>1, <1>3 DEF Uncommitted
<1>5. \A g \in Families : StepOf(g)'
  BY <1>1, <1>3, InSteps DEF CommitInv, StepOf
<1>6. \A v \in Requests : Served(v)'
  BY <1>1, <1>3, InSteps DEF CommitInv, Served, Elsewhere
<1>7. HandsInv'
  BY AgentCallsHands DEF CommitInv, AgentCalls
<1>8. InStep'
  BY <1>5, <1>6 DEF InStep, StepOf, Served
<1> QED
  BY <1>1, <1>4, <1>7, <1>8, ElsewhereKeeps DEF Unanswered

LEMMA PollCommits ==
  ASSUME CommitInv, NEW f \in Families, NEW w \in Requests, Poll(f, w)
  PROVE  CommitInv'
<1>1. /\ agent[f].phase = "waiting" /\ Live(f) /\ Idle(w) /\ Take(f) /\ CallFrom(f, w, "polling")
      /\ req' = [req EXCEPT ![w] = Holding(f, "collect")]
      /\ neg' = neg /\ Elsewhere
  BY DEF Poll, holderVars, Elsewhere
<1>2. "collect" # "idle" /\ "collect" # "quotes" /\ "collect" # "wait"
  OBVIOUS
<1>14. Quoting(f)' <=> "collect" = "quotes"
  BY <1>1, <1>2, Presented
<1>15. ~Quoting(f)'
  BY <1>14
<1>3. /\ agent'[f].phase = "polling" /\ \A g \in Families \ {f} : agent'[g] = agent[g]
      /\ req'[w].stage = "collect" /\ req'[w].family = f
      /\ \A v \in Requests \ {w} : req'[v] = req[v]
      /\ \A g \in Families \ {f} : Quoting(g)' <=> Quoting(g)
  <2>1. agent'[f].phase = "polling" /\ \A g \in Families \ {f} : agent'[g] = agent[g]
    BY <1>1, <1>2, Presented
  <2>2. req'[w].stage = "collect" /\ req'[w].family = f
    BY <1>1, NoRequestShaped DEF CommitInv, HandsInv, Shaped, Holding
  <2>3. \A v \in Requests \ {w} : req'[v] = req[v]
    BY <1>1 DEF CommitInv, HandsInv, Shaped
  <2>4. \A g \in Families \ {f} : Quoting(g)' <=> Quoting(g)
    BY <1>1, <1>2, Presented
  <2> QED
    BY <2>1, <2>2, <2>3, <2>4
<1>4. \A g \in Families : Uncommitted(g)' => Uncommitted(g)
  BY <1>1, <1>3, <1>15 DEF Uncommitted
<1>5. neg[f].agreement \in Agreements
  BY <1>1 DEF CommitInv, InStep, Live
<1>6. \A g \in Families : StepOf(g)'
  BY <1>1, <1>3, <1>5, <1>15, InSteps DEF CommitInv, StepOf
<1>7. \A v \in Requests : Served(v)'
  BY <1>1, <1>2, <1>3, <1>5, InSteps DEF CommitInv, Served, Elsewhere
<1>8. HandsInv'
  BY AgentCallsHands DEF CommitInv, AgentCalls
<1>9. InStep'
  BY <1>6, <1>7 DEF InStep, StepOf, Served
<1> QED
  BY <1>1, <1>4, <1>8, <1>9, ElsewhereKeeps DEF Unanswered

(* The agreement that is committed to.                                      *)
LEMMA CommitCommits ==
  ASSUME CommitInv, NEW f \in Families, NEW w \in Requests, NEW a \in Agreements, Commit(f, w, a)
  PROVE  CommitInv'
<1>1. /\ agent[f].phase = "proffered" /\ Live(f) /\ Idle(w) /\ Take(f) /\ CallFrom(f, w, "calling")
      /\ req' = [req EXCEPT ![w] = Holding(f, "collect")]
      /\ neg' = [neg EXCEPT ![f].state = "awaiting-holders", ![f].agreement = a]
      /\ Elsewhere
  BY DEF Commit, holderVars, Elsewhere
<1>2. "collect" # "idle" /\ "collect" # "quotes" /\ "collect" # "wait"
  OBVIOUS
<1>14. Quoting(f)' <=> "collect" = "quotes"
  BY <1>1, <1>2, Presented
<1>15. ~Quoting(f)'
  BY <1>14
<1>3. /\ agent'[f].phase = "calling" /\ \A g \in Families \ {f} : agent'[g] = agent[g]
      /\ req'[w].stage = "collect" /\ req'[w].family = f
      /\ \A v \in Requests \ {w} : req'[v] = req[v] /\ (~Idle(v) => req[v].family # f)
      /\ \A g \in Families \ {f} : Quoting(g)' <=> Quoting(g)
  <2>1. agent'[f].phase = "calling" /\ \A g \in Families \ {f} : agent'[g] = agent[g]
    BY <1>1, <1>2, Presented
  <2>2. req'[w].stage = "collect" /\ req'[w].family = f
    BY <1>1, NoRequestShaped DEF CommitInv, HandsInv, Shaped, Holding
  <2>3. \A v \in Requests \ {w} : req'[v] = req[v] /\ (~Idle(v) => req[v].family # f)
    <3>1. \A v \in Requests \ {w} : req'[v] = req[v]
      BY <1>1 DEF CommitInv, HandsInv, Shaped
    <3>2. ~WorkedOn(f)
      BY <1>1, Taken DEF CommitInv, HandsInv
    <3> QED
      BY <3>1, <3>2 DEF WorkedOn
  <2>4. \A g \in Families \ {f} : Quoting(g)' <=> Quoting(g)
    BY <1>1, <1>2, Presented
  <2> QED
    BY <2>1, <2>2, <2>3, <2>4
<1>4. neg'[f].agreement = a /\ \A g \in Families \ {f} : neg'[g] = neg[g]
  BY <1>1 DEF CommitInv, HandsInv, Shaped
<1>5. \A g \in Families : StepOf(g)'
  BY <1>3, <1>4, <1>15, InSteps DEF CommitInv, StepOf
<1>6. \A v \in Requests : Served(v)'
  <2>1. Served(w)'
    BY <1>2, <1>3, <1>4 DEF Served
  <2>2. ASSUME NEW v \in Requests \ {w} PROVE Served(v)'
    <3>1. Served(v) /\ req'[v] = req[v] /\ question' = question
      BY <1>1, <1>3, InSteps DEF CommitInv, Elsewhere
    <3>2. req[v].stage \in {"collect", "wait"} => neg'[req[v].family] = neg[req[v].family]
      BY <1>3, <1>4 DEF Idle, CommitInv, HandsInv, Shaped
    <3> QED
      BY <3>1, <3>2 DEF Served
  <2> QED
    BY <2>1, <2>2
<1>7. HandsInv'
  BY AgentCallsHands DEF CommitInv, AgentCalls
<1>8. InStep'
  BY <1>5, <1>6 DEF InStep, StepOf, Served
<1>9. ~Uncommitted(f)'
  BY <1>3, <1>15 DEF Uncommitted
<1>10. \A g \in Families : Uncommitted(g)' => /\ g # f /\ Uncommitted(g) /\ neg'[g] = neg[g]
  BY <1>3, <1>4, <1>9 DEF Uncommitted
<1>12. Uncounted'
  BY <1>10 DEF CommitInv, Uncounted
<1>13. Asks' /\ Rows'
  BY <1>1, AsksElsewhere DEF CommitInv
<1> QED
  BY <1>7, <1>8, <1>12, <1>13 DEF CommitInv

(* A request ends, and its agent goes on or not.                            *)
LEMMA EndsCommits ==
  ASSUME CommitInv, HandsInv', NEW w \in Requests, ~Idle(w),
         NEW f \in Families, req[w].family = f, req' = [req EXCEPT ![w] = NoRequest],
         NEW phase, NEW n, ReplyTo(w, phase, n), Elsewhere,
         \A g \in Families \ {f} : neg'[g] = neg[g],
         \/ neg'[f] = NoNegotiation
         \/ /\ neg'[f].agreement = neg[f].agreement /\ neg'[f].verdicts = neg[f].verdicts
            /\ neg'[f].state = neg[f].state \/ Quoting(f),
         \/ phase \in {"denied", "granted"}
         \/ phase = "proffered" /\ Quoting(f)
         \/ phase = "waiting" /\ neg'[f].agreement \in Agreements
  PROVE  CommitInv'
<1>1. /\ Idle(w)' /\ \A v \in Requests \ {w} : req'[v] = req[v]
  BY ReqEnds DEF CommitInv, HandsInv
<1>2. \A g \in Families :
        \/ agent'[g] = agent[g]
        \/ g = f /\ agent'[g].phase = phase
  BY Replies DEF CommitInv, HandsInv
<1>3. \A v \in Requests \ {w} : ~Idle(v) => req[v].family # f
  BY DEF CommitInv, HandsInv, Hands
<1>4. \A v \in Requests \ {w} : req[v].stage = "quotes" => ~Idle(v)
  BY DEF Idle
<1>5. ~(req'[w].stage = "quotes")
  BY <1>1 DEF Idle
<1>6. ~Quoting(f)'
  BY <1>1, <1>3, <1>4, <1>5 DEF Quoting
<1>7. \A g \in Families : Quoting(g)' => Quoting(g)
  BY <1>1, <1>5 DEF Quoting
<1>8. ASSUME NEW g \in Families, Uncommitted(g)' PROVE Uncommitted(g)
  <2>1. agent'[g].phase \in {"none", "ready", "proffered"} \/ Quoting(g)
    BY <1>7, <1>8 DEF Uncommitted
  <2> QED
    BY <1>2, <2>1 DEF Uncommitted
<1>9. \A g \in Families : neg'[g].agreement \in {neg[g].agreement, None} /\ Unanswered(g)
  BY NoNegotiationShaped DEF Unanswered
<1>10. ASSUME NEW g \in Families PROVE StepOf(g)'
  <2>1. StepOf(g)
    BY InSteps DEF CommitInv
  <2>2. CASE g # f
    BY <1>2, <1>7, <2>1, <2>2 DEF StepOf
  <2>3. CASE g = f
    <3>1. neg'[f].agreement \in Agreements \cup {None}
      BY <2>1, <2>3, NoNegotiationShaped DEF StepOf
    <3>2. agent'[f].phase \in {"waiting", "polling"} =>
            neg'[f].state = "none" \/ neg'[f].agreement \in Agreements
      <4>1. CASE agent'[f] = agent[f]
        BY <2>1, <2>3, <4>1, NoNegotiationShaped DEF StepOf
      <4>2. CASE agent'[f].phase = phase
        BY <4>2
      <4> QED
        BY <1>2, <4>1, <4>2
    <3> QED
      BY <1>6, <2>3, <3>1, <3>2 DEF StepOf
  <2> QED
    BY <2>2, <2>3
<1>11. ASSUME NEW v \in Requests PROVE Served(v)'
  <2>1. CASE v = w
    BY <1>1, <2>1 DEF Served, Idle
  <2>2. CASE v # w
    <3>1. Served(v) /\ req'[v] = req[v] /\ question' = question
      BY <1>1, <2>2, InSteps DEF CommitInv, Elsewhere
    <3>2. req[v].stage \in {"collect", "wait"} => neg'[req[v].family] = neg[req[v].family]
      BY <1>3, <2>2 DEF Idle, CommitInv, HandsInv, Shaped
    <3> QED
      BY <3>1, <3>2 DEF Served
  <2> QED
    BY <2>1, <2>2
<1>12. InStep'
  BY <1>10, <1>11 DEF InStep, StepOf, Served
<1> QED
  BY <1>8, <1>9, <1>12, ElsewhereKeeps

LEMMA DictateCommits ==
  ASSUME CommitInv, NEW w \in Requests,
         Dictate(w) \/ QuotesRefused(w) \/ QuotesFail(w)
  PROVE  CommitInv'
<1> PICK f : f = req[w].family
  OBVIOUS
<1>1. /\ ~Idle(w) /\ f \in Families /\ Quoting(f)
  BY DEF Dictate, QuotesRefused, QuotesFail, FailQuotes, Idle, Quoting, CommitInv, HandsInv, Shaped
<1>2. HandsInv'
  BY DictateHands DEF CommitInv
<1>3. CASE FailQuotes(w)
  <2>1. /\ req' = [req EXCEPT ![w] = NoRequest] /\ neg' = neg
        /\ ReplyTo(w, "denied", 0) /\ Elsewhere
    BY <1>3 DEF FailQuotes, holderVars, Elsewhere
  <2> QED
    BY <1>1, <1>2, <2>1, EndsCommits
<1>4. CASE Dictate(w) /\ req[w].quotes = <<>>
  <2>1. /\ req' = [req EXCEPT ![w] = NoRequest]
        /\ neg' = [neg EXCEPT ![f] = NoNegotiation]
        /\ ReplyTo(w, "denied", 0) /\ Elsewhere
    BY <1>4 DEF Dictate, holderVars, Elsewhere
  <2>2. neg'[f] = NoNegotiation /\ \A g \in Families \ {f} : neg'[g] = neg[g]
    BY <1>1, <2>1 DEF CommitInv, HandsInv, Shaped
  <2> QED
    BY <1>1, <1>2, <2>1, <2>2, EndsCommits
<1>5. CASE Dictate(w) /\ req[w].quotes # <<>>
  <2>1. /\ req' = [req EXCEPT ![w] = NoRequest]
        /\ neg' = [neg EXCEPT ![f].state = "need_info",
                              ![f].template = Template(req[w].quotes, Account, Asked)]
        /\ ReplyTo(w, "proffered", Fresh(f)) /\ Elsewhere
    BY <1>5 DEF Dictate, holderVars, Elsewhere
  <2>2. /\ neg'[f].agreement = neg[f].agreement /\ neg'[f].verdicts = neg[f].verdicts
        /\ \A g \in Families \ {f} : neg'[g] = neg[g]
    BY <1>1, <2>1 DEF CommitInv, HandsInv, Shaped
  <2> QED
    BY <1>1, <1>2, <2>1, <2>2, EndsCommits
<1> QED
  BY <1>3, <1>4, <1>5 DEF QuotesRefused, QuotesFail

LEMMA ConcludeCommits ==
  ASSUME CommitInv, NEW w \in Requests, Conclude(w)
  PROVE  CommitInv'
<1> PICK f : f = req[w].family
  OBVIOUS
<1>1. /\ ~Idle(w) /\ f \in Families /\ Elsewhere
      /\ req' = [req EXCEPT ![w] = NoRequest] /\ req[w].stage = "collect"
  BY DEF Conclude, Idle, holderVars, Elsewhere, CommitInv, HandsInv, Shaped
<1>2. HandsInv'
  BY ConcludeHands DEF CommitInv
<1>3. ASSUME neg' = [neg EXCEPT ![f] = NoNegotiation]
      PROVE  neg'[f] = NoNegotiation /\ \A g \in Families \ {f} : neg'[g] = neg[g]
  BY <1>1, <1>3 DEF CommitInv, HandsInv, Shaped
<1>4. CASE Standing(f) = "allow"
  <2>1. /\ neg' = [neg EXCEPT ![f] = NoNegotiation] /\ ReplyTo(w, "granted", 0)
    BY <1>4 DEF Conclude
  <2> QED
    BY <1>1, <1>2, <1>3, <2>1, EndsCommits
<1>5. CASE Standing(f) = "refuse"
  <2>1. /\ neg' = [neg EXCEPT ![f] = NoNegotiation] /\ ReplyTo(w, "denied", 0)
    BY <1>5 DEF Conclude
  <2> QED
    BY <1>1, <1>2, <1>3, <2>1, EndsCommits
<1>6. CASE Standing(f) \notin {"allow", "refuse"}
  <2>1. neg' = neg /\ ReplyTo(w, "waiting", Fresh(f))
    BY <1>6 DEF Conclude
  <2>2. neg[f].agreement \in Agreements
    BY <1>1 DEF CommitInv, InStep
  <2> QED
    BY <1>1, <1>2, <2>1, <2>2, EndsCommits
<1> QED
  BY <1>4, <1>5, <1>6

LEMMA QuoteCommits ==
  ASSUME CommitInv, NEW w \in Requests, AskQuote(w)
  PROVE  CommitInv'
<1>1. neg' = neg /\ agent' = agent /\ Elsewhere
  BY DEF AskQuote, holderVars, Elsewhere
<1>2. /\ req[w].stage = "quotes" /\ req'[w].stage = "quotes" /\ req'[w].family = req[w].family
      /\ \A v \in Requests \ {w} : req'[v] = req[v]
  BY AskQuoteIs DEF CommitInv, HandsInv
<1>3. \A f \in Families : Quoting(f)' <=> Quoting(f)
  BY <1>2 DEF Quoting
<1>4. \A f \in Families : StepOf(f)'
  BY <1>1, <1>3, InSteps DEF CommitInv, StepOf
<1>5. \A v \in Requests : Served(v)'
  BY <1>1, <1>2, InSteps DEF CommitInv, Served, Elsewhere
<1>6. InStep'
  BY <1>4, <1>5 DEF InStep, StepOf, Served
<1>7. HandsInv'
  BY AskHands DEF CommitInv
<1> QED
  BY <1>1, <1>3, <1>6, <1>7, ElsewhereKeeps DEF Unanswered, Uncommitted

LEMMA UnreachableCommits ==
  ASSUME CommitInv, NEW w \in Requests, Unreachable(w)
  PROVE  CommitInv'
<1>1. /\ req' = [req EXCEPT ![w] = GoOn(w)] /\ ~Idle(w) /\ neg' = neg /\ agent' = agent
      /\ Elsewhere /\ req[w].stage = "wait"
  BY DEF Unreachable, Idle, holderVars, Elsewhere
<1>2. /\ req'[w].stage = "collect" /\ req'[w].family = req[w].family
      /\ \A v \in Requests \ {w} : req'[v] = req[v]
  BY <1>1, GoOnShaped DEF CommitInv, HandsInv, Shaped
<1>3. \A f \in Families : Quoting(f)' <=> Quoting(f)
  BY <1>1, <1>2 DEF Quoting
<1>4. \A f \in Families : StepOf(f)'
  BY <1>1, <1>3, InSteps DEF CommitInv, StepOf
<1>5. \A v \in Requests : Served(v)'
  BY <1>1, <1>2, InSteps DEF CommitInv, Served, Elsewhere
<1>6. InStep'
  BY <1>4, <1>5 DEF InStep, StepOf, Served
<1>7. HandsInv'
  BY AskHands DEF CommitInv
<1> QED
  BY <1>1, <1>3, <1>6, <1>7, ElsewhereKeeps DEF Unanswered, Uncommitted

LEMMA RestartCommits ==
  ASSUME CommitInv, NEW m \in Mandates, Restart(m)
  PROVE  CommitInv'
<1>1. /\ neg' = [f \in Families |-> NoNegotiation]
      /\ req' = [w \in Requests |-> NoRequest] /\ Elsewhere
  BY DEF Restart, holderVars, Elsewhere
<1>2. \A w \in Requests : req'[w].stage = "idle"
  BY <1>1, NoRequestShaped
<1>3. \A f \in Families : ~Quoting(f)'
  BY <1>2 DEF Quoting
<1>4. \A f \in Families : agent'[f].phase \in {"none", "ready", "proffered"} => agent'[f] = agent[f]
  BY DEF Restart, CommitInv, HandsInv, Shaped
<1>5. \A f \in Families : /\ neg'[f].agreement = None /\ neg'[f].state = "none"
                          /\ Unanswered(f) /\ (Uncommitted(f)' => Uncommitted(f))
  BY <1>1, <1>3, <1>4, NoNegotiationShaped DEF Unanswered, Uncommitted
<1>6. InStep'
  BY <1>2, <1>3, <1>5 DEF InStep
<1>7. HandsInv'
  BY RestartHands DEF CommitInv
<1> QED
  BY <1>1, <1>5, <1>6, <1>7, ElsewhereKeeps

(* Asking a holder.                                                         *)
LEMMA AskCommits ==
  ASSUME CommitInv, NEW w \in Requests, NEW q \in Questions, AskHolder(w, q)
  PROVE  CommitInv'
<1> PICK f : f = req[w].family
  OBVIOUS
<1> PICK k : k = NextToAsk(f, req[w].at)
  OBVIOUS
<1>1. /\ ~Idle(w) /\ req[w].stage = "collect" /\ f \in Families /\ k <= Len(Order)
      /\ question[q].stage = "idle"
      /\ question' = [question EXCEPT
           ![q] = [NoQuestion EXCEPT !.stage = "arrive", !.holder = Order[k],
                                     !.family = f, !.agreement = neg[f].agreement]]
      /\ req' = [req EXCEPT ![w].stage = "wait", ![w].at = k, ![w].via = q]
      /\ agent' = agent /\ neg' = neg /\ row' = row /\ agreed' = agreed
  BY DEF AskHolder, Asking, Idle, apartVars, authorVars, CommitInv, HandsInv, Shaped
<1>2. Order[k] \in Holders
  BY <1>1, NextPlace DEF CommitInv, HandsInv, Shaped
<1>3. neg[f].agreement \in Agreements
  BY <1>1 DEF CommitInv, InStep
<1>4. /\ DOMAIN question' = Questions
      /\ \A p \in Questions \ {q} : question'[p] = question[p]
      /\ DOMAIN question'[q] =
           {"stage", "holder", "family", "agreement", "mandate", "decision", "seen"}
      /\ question'[q].stage = "arrive" /\ question'[q].holder = Order[k]
      /\ question'[q].family = f /\ question'[q].agreement = neg[f].agreement
  BY <1>1 DEF CommitInv, Asks, NoQuestion
<1>5. Asks'
  BY <1>1, <1>2, <1>3, <1>4 DEF CommitInv, Asks, At, Listens
<1>6. Rows'
  BY <1>1 DEF CommitInv, Rows
<1>7. /\ req'[w].stage = "wait" /\ req'[w].via = q /\ req'[w].family = f
      /\ \A v \in Requests \ {w} : req'[v] = req[v]
  BY <1>1 DEF CommitInv, HandsInv, Shaped
<1>8. \A g \in Families : Quoting(g)' <=> Quoting(g)
  BY <1>1, <1>7 DEF Quoting
<1>9. \A g \in Families : StepOf(g)'
  BY <1>1, <1>8, InSteps DEF CommitInv, StepOf
<1>10. ASSUME NEW v \in Requests PROVE Served(v)'
  <2>1. CASE v = w
    BY <1>1, <1>3, <1>4, <1>7, <2>1 DEF Served
  <2>2. CASE v # w
    <3>1. Served(v) /\ req'[v] = req[v] /\ neg' = neg
      BY <1>1, <1>7, <2>2, InSteps DEF CommitInv
    <3>2. req[v].stage = "wait" => req[v].via # q
      <4>1. req[v].stage = "wait" =>
              question[req[v].via].family = req[v].family /\ req[v].family \in Families
        BY <3>1 DEF Served, Idle, CommitInv, HandsInv, Shaped
      <4>2. question[q].family = None
        BY <1>1 DEF CommitInv, Asks, At
      <4> QED
        BY <4>1, <4>2, JointAssumption
    <3>3. req[v].stage = "wait" => req[v].via \in Questions
      BY DEF CommitInv, HandsInv, Shaped
    <3> QED
      BY <1>4, <3>1, <3>2, <3>3 DEF Served
  <2> QED
    BY <2>1, <2>2
<1>11. InStep'
  BY <1>9, <1>10 DEF InStep, StepOf, Served
<1>12. Uncounted'
  BY <1>1, <1>8, UncountedKept DEF CommitInv, Unanswered, Uncommitted
<1>13. HandsInv'
  BY AskHands DEF CommitInv
<1> QED
  BY <1>5, <1>6, <1>11, <1>12, <1>13 DEF CommitInv

(* A question that nobody waits for.                                        *)
LEMMA StrayCommits ==
  ASSUME CommitInv, Strayed
  PROVE  CommitInv'
<1>1. PICK q \in Questions, h \in Holders, f \in Families, a \in Agreements : AskAbout(q, h, f, a)
  BY DEF Strayed
<1>2. /\ question[q].stage = "idle"
      /\ question' = [question EXCEPT
           ![q] = [NoQuestion EXCEPT !.stage = "arrive", !.holder = h,
                                     !.family = f, !.agreement = a]]
      /\ req' = req /\ agent' = agent /\ neg' = neg /\ row' = row /\ agreed' = agreed
  BY <1>1 DEF AskAbout, authorVars
<1>3. /\ DOMAIN question' = Questions
      /\ \A p \in Questions \ {q} : question'[p] = question[p]
      /\ DOMAIN question'[q] =
           {"stage", "holder", "family", "agreement", "mandate", "decision", "seen"}
      /\ question'[q].stage = "arrive" /\ question'[q].holder = h
      /\ question'[q].family = f /\ question'[q].agreement = a
  BY <1>2 DEF CommitInv, Asks, NoQuestion
<1>4. Asks'
  BY <1>2, <1>3 DEF CommitInv, Asks, At, Listens
<1>5. Rows'
  BY <1>2 DEF CommitInv, Rows
<1>6. \A g \in Families : (Quoting(g)' <=> Quoting(g)) /\ (Uncommitted(g)' <=> Uncommitted(g))
  BY <1>2 DEF Quoting, Uncommitted
<1>7. \A g \in Families : StepOf(g)'
  BY <1>2, <1>6, InSteps DEF CommitInv, StepOf
<1>8. ASSUME NEW v \in Requests PROVE Served(v)'
  <2>1. Served(v)
    BY InSteps DEF CommitInv
  <2>2. req[v].stage = "wait" => req[v].via \in Questions \ {q}
    <3>1. req[v].stage = "wait" =>
            /\ req[v].via \in Questions
            /\ question[req[v].via].family = req[v].family /\ req[v].family \in Families
      BY <2>1 DEF Served, Idle, CommitInv, HandsInv, Shaped
    <3>2. question[q].family = None
      BY <1>2 DEF CommitInv, Asks, At
    <3> QED
      BY <3>1, <3>2, JointAssumption
  <2> QED
    BY <1>2, <1>3, <2>1, <2>2 DEF Served
<1>9. InStep'
  BY <1>7, <1>8 DEF InStep, StepOf, Served
<1>10. Uncounted'
  BY <1>2, <1>6, UncountedKept DEF CommitInv, Unanswered
<1>11. HandsInv'
  BY StrayHands DEF CommitInv
<1> QED
  BY <1>4, <1>5, <1>9, <1>10, <1>11 DEF CommitInv

(* A step of an authority under a question: it goes on, with the question   *)
(* that it is, or it replies.                                               *)
Replied(q) ==
  \/ ReplyUncounted(q)
  \/ \E signed \in BOOLEAN : ReplyCounted(q, "refuse", signed)
  \/ ReplyCounted(q, "allow", TRUE) /\ Verifies(q, question[q].mandate)

Proceeds(q) ==
  /\ req' = req /\ neg' = neg
  /\ DOMAIN question'[q] = DOMAIN question[q]
  /\ question'[q].holder = question[q].holder /\ question'[q].family = question[q].family
  /\ question'[q].agreement = question[q].agreement
  /\ question'[q].stage \notin Listens
  /\ question'[q].mandate \in Mandates /\ question[q].holder \in HoldersOf(question'[q].mandate)

QuestionMoves(q) ==
  /\ DOMAIN question' = Questions
  /\ \A p \in Questions \ {q} : question'[p] = question[p]
  /\ \/ question'[q] = NoQuestion /\ Replied(q)
     \/ Proceeds(q)

LEMMA QuestionGoes ==
  ASSUME Asks, NEW q \in Questions, ~At(q, "idle"), question[q].stage \notin Listens,
         NEW stage, stage \notin Listens, GoTo(q, stage), req' = req, neg' = neg
  PROVE  QuestionMoves(q)
  BY DEF Asks, GoTo, QuestionMoves, Proceeds

LEMMA QuestionEnds ==
  ASSUME Asks, NEW q \in Questions, Done(q), Replied(q)
  PROVE  QuestionMoves(q)
  BY DEF Asks, Done, QuestionMoves

LEMMA QuestionsMove ==
  ASSUME Asks, NEW q \in Questions, QuestionStep(q) \/ CannotReadMandate(q) \/ Die(q)
  PROVE  QuestionMoves(q) /\ agreed' = agreed
<1>1. "mandate" \notin Listens /\ "read" \notin Listens /\ "close" \notin Listens
      /\ "withdrawn" \notin Listens /\ "evaluate" \notin Listens /\ "save" \notin Listens
  BY DEF Listens
<1>2. CASE Arrive(q)
  <2>1. agreed' = agreed /\ At(q, "arrive") /\ ~At(q, "idle")
    BY <1>2 DEF Arrive, apartVars, authorVars, At
  <2>2. CASE agreed[question[q].holder] = None
    <3>1. ReplyCounted(q, "refuse", FALSE) /\ Done(q)
      BY <1>2, <2>2 DEF Arrive
    <3> QED
      BY <2>1, <3>1, QuestionEnds DEF Replied
  <2>3. CASE agreed[question[q].holder] # None
    <3>1. /\ question' = [question EXCEPT ![q].mandate = agreed[question[q].holder],
                                          ![q].stage = "mandate"]
          /\ req' = req /\ neg' = neg
      BY <1>2, <2>3 DEF Arrive
    <3>2. Proceeds(q)
      BY <1>1, <2>1, <2>3, <3>1 DEF Asks, Proceeds
    <3> QED
      BY <2>1, <3>1, <3>2 DEF Asks, QuestionMoves
  <2> QED
    BY <2>2, <2>3
<1>3. CASE CheckMandate(q)
  BY <1>1, <1>3, QuestionGoes, QuestionEnds DEF CheckMandate, apartVars, authorVars, At, Listens, Refuse, Replied
<1>4. CASE ReadRow(q)
  <2>1. agreed' = agreed /\ At(q, "read") /\ ~At(q, "idle") /\ question[q].stage \notin Listens
    BY <1>4 DEF ReadRow, apartVars, authorVars, At, Listens
  <2>2. \/ GoTo(q, "evaluate") /\ req' = req /\ neg' = neg
        \/ ReplyUncounted(q) /\ Done(q)
        \/ Refuse(q)
        \/ /\ question' = [question EXCEPT ![q].stage = "close",
                            ![q].decision = MineIs(q).decision, ![q].seen = MineIs(q).seen]
           /\ req' = req /\ neg' = neg
    BY <1>4 DEF ReadRow
  <2>3. CASE question' = [question EXCEPT ![q].stage = "close",
                            ![q].decision = MineIs(q).decision, ![q].seen = MineIs(q).seen]
             /\ req' = req /\ neg' = neg
    BY <1>1, <2>1, <2>3 DEF Asks, QuestionMoves, Proceeds
  <2>4. CASE GoTo(q, "evaluate") /\ req' = req /\ neg' = neg
    BY <1>1, <2>1, <2>4, QuestionGoes
  <2> QED
    BY <2>1, <2>2, <2>3, <2>4, QuestionEnds DEF Refuse, Replied
<1>5. CASE CloseRow(q)
  BY <1>1, <1>5, QuestionGoes, QuestionEnds DEF CloseRow, apartVars, authorVars, At, Listens, Refuse, Replied
<1>6. CASE CheckWithdrawn(q)
  BY <1>1, <1>6, QuestionEnds DEF CheckWithdrawn, apartVars, authorVars, Refuse, Allow, Replied
<1>7. CASE Evaluate(q)
  <2>1. agreed' = agreed /\ At(q, "evaluate") /\ ~At(q, "idle") /\ question[q].stage \notin Listens
    BY <1>7 DEF Evaluate, apartVars, authorVars, At, Listens
  <2>2. \/ Refuse(q)
        \/ Allow(q, question[q].agreement)
        \/ /\ question' = [question EXCEPT ![q].stage = "save",
                            ![q].seen = standing[question[q].holder].revocations]
           /\ req' = req /\ neg' = neg
    BY <1>7 DEF Evaluate
  <2>3. CASE question' = [question EXCEPT ![q].stage = "save",
                            ![q].seen = standing[question[q].holder].revocations]
             /\ req' = req /\ neg' = neg
    BY <1>1, <2>1, <2>3 DEF Asks, QuestionMoves, Proceeds
  <2> QED
    BY <2>1, <2>2, <2>3, QuestionEnds DEF Refuse, Allow, Replied
<1>8. CASE Save(q)
  BY <1>8, QuestionEnds DEF Save, apartVars, authorVars, Replied
<1>9. CASE CannotReadMandate(q)
  BY <1>9, QuestionEnds DEF CannotReadMandate, authorVars, Refuse, Replied
<1>10. CASE Die(q)
  BY <1>10, QuestionEnds DEF Die, authorVars, Replied
<1> QED
  BY <1>2, <1>3, <1>4, <1>5, <1>6, <1>7, <1>8, <1>9, <1>10 DEF QuestionStep

(* What a reply leaves of the tally's records.                              *)
LEMMA Learned ==
  ASSUME HandsInv, Asks, NEW q \in Questions, ~At(q, "idle"), Replied(q)
  PROVE  /\ \A w \in Requests :
              \/ req'[w] = req[w] /\ ~(req[w].stage = "wait" /\ req[w].via = q)
              \/ /\ GoesOn(w) /\ req'[w].stage = "collect" /\ req[w].stage = "wait"
         /\ \A f \in Families : /\ neg'[f].agreement = neg[f].agreement
                                /\ neg'[f].state = neg[f].state
         /\ \A f \in Families : f # question[q].family => neg'[f] = neg[f]
         /\ neg' # neg => \E w \in Requests : req[w].stage = "wait" /\ req[w].via = q
<1>1. CASE ReplyUncounted(q)
  BY <1>1, RepliesGoOn DEF ReplyUncounted, HandsInv
<1>2. ASSUME NEW effect, NEW signed, ReplyCounted(q, effect, signed)
      PROVE  /\ \A w \in Requests :
                  \/ req'[w] = req[w] /\ ~(req[w].stage = "wait" /\ req[w].via = q)
                  \/ /\ GoesOn(w) /\ req'[w].stage = "collect" /\ req[w].stage = "wait"
             /\ \A f \in Families : /\ neg'[f].agreement = neg[f].agreement
                                    /\ neg'[f].state = neg[f].state
             /\ \A f \in Families : f # question[q].family => neg'[f] = neg[f]
             /\ neg' # neg => \E w \in Requests : req[w].stage = "wait" /\ req[w].via = q
  BY <1>2, Counts DEF HandsInv
<1> QED
  BY <1>1, <1>2 DEF Replied

LEMMA RowsMove ==
  ASSUME Asks, Rows, NEW q \in Questions, QuestionStep(q) \/ CannotReadMandate(q) \/ Die(q)
  PROVE  /\ Rows'
         /\ \A h \in Holders, f \in Families :
              \/ row'[h][f] = row[h][f]
              \/ /\ h = question[q].holder /\ f = question[q].family
                 /\ row'[h][f].agreement \in {None, question[q].agreement}
<1>1. ~At(q, "idle")
  BY QuestionAnswers
<1> DEFINE i == question[q].holder
           g == question[q].family
<1>2. i \in Holders /\ g \in Families /\ question[q].agreement \in Agreements
  BY <1>1 DEF Asks
<1>3. CASE row' = row
  BY <1>3 DEF Rows
<1>4. CASE CloseRow(q)
  <2>1. row' = [row EXCEPT ![i][g] = NoRow]
    BY <1>4 DEF CloseRow
  <2>2. /\ DOMAIN NoRow = {"agreement", "decision", "seen"}
        /\ NoRow.agreement = None /\ NoRow.decision = "none"
    BY DEF NoRow
  <2> QED
    BY <1>2, <2>1, <2>2 DEF Rows
<1>5. CASE Save(q)
  <2> DEFINE r == [agreement |-> question[q].agreement, decision |-> MineIs(q).decision,
                   seen |-> question[q].seen]
  <2>1. row' = [row EXCEPT ![i][g] = r]
    BY <1>5 DEF Save
  <2>2. /\ DOMAIN r = {"agreement", "decision", "seen"}
        /\ r.agreement = question[q].agreement
        /\ r.decision \in {"none", "approved", "denied"}
    BY <1>2 DEF Rows, MineIs
  <2> HIDE DEF r
  <2> QED
    BY <1>2, <2>1, <2>2 DEF Rows
<1>6. row' = row \/ CloseRow(q) \/ Save(q)
  BY DEF QuestionStep, Arrive, CheckMandate, ReadRow, CheckWithdrawn, Evaluate,
         CannotReadMandate, Die
<1> QED
  BY <1>3, <1>4, <1>5, <1>6

LEMMA QuestionCommits ==
  ASSUME CommitInv, NEW q \in Questions, QuestionStep(q) \/ CannotReadMandate(q) \/ Die(q)
  PROVE  CommitInv'
<1> PICK g : g = question[q].family
  OBVIOUS
<1>1. ~At(q, "idle") /\ agent' = agent /\ Answering(q)
  BY QuestionAnswers DEF Apart
<1>2. QuestionMoves(q) /\ agreed' = agreed
  BY QuestionsMove DEF CommitInv
<1>3. /\ g \in Families /\ question[q].holder \in Holders /\ question[q].agreement \in Agreements
  BY <1>1 DEF CommitInv, Asks
<1>4. /\ DOMAIN NoQuestion =
           {"stage", "holder", "family", "agreement", "mandate", "decision", "seen"}
      /\ NoQuestion.stage = "idle" /\ NoQuestion.family = None
  BY DEF NoQuestion
<1>5. Asks'
  BY <1>2, <1>3, <1>4 DEF CommitInv, Asks, At, Listens, QuestionMoves, Proceeds
<1>6. /\ Rows'
      /\ \A h \in Holders, f \in Families :
           \/ row'[h][f] = row[h][f]
           \/ f = g /\ row'[h][f].agreement \in {None, question[q].agreement}
  BY RowsMove DEF CommitInv
<1>7. HandsInv'
  BY <1>1, QuestionAnswers, AnsweringHands DEF CommitInv
<1>8. None \notin Families
  BY JointAssumption
<1>9. /\ \A w \in Requests :
           \/ req'[w] = req[w]
           \/ /\ GoesOn(w) /\ req'[w].stage = "collect" /\ req[w].stage = "wait"
      /\ \A f \in Families : /\ neg'[f].agreement = neg[f].agreement
                             /\ neg'[f].state = neg[f].state
      /\ \A f \in Families : f # g => neg'[f] = neg[f]
  BY <1>1, <1>2, Learned DEF CommitInv, QuestionMoves, Proceeds
<1>10. \A w \in Requests : req'[w].stage = "wait" =>
         /\ req'[w] = req[w]
         /\ question'[req[w].via].family = question[req[w].via].family
  <2>1. CASE Proceeds(q)
    BY <1>2, <2>1 DEF QuestionMoves, Proceeds, CommitInv, HandsInv, Shaped
  <2>2. CASE Replied(q)
    <3>1. \A w \in Requests :
            \/ req'[w] = req[w] /\ ~(req[w].stage = "wait" /\ req[w].via = q)
            \/ req'[w].stage = "collect"
      BY <1>1, <2>2, Learned DEF CommitInv
    <3>2. \A w \in Requests : req'[w].stage = "wait" => req'[w] = req[w] /\ req[w].via # q
      BY <3>1
    <3>3. \A w \in Requests : req[w].stage = "wait" => req[w].via \in Questions
      BY DEF CommitInv, HandsInv, Shaped
    <3> QED
      BY <1>2, <3>2, <3>3 DEF QuestionMoves
  <2> QED
    BY <1>2, <2>1, <2>2 DEF QuestionMoves
<1>11. \A f \in Families : Quoting(f)' => Quoting(f)
  BY <1>9 DEF Quoting
<1>12. \A f \in Families : StepOf(f)'
  BY <1>1, <1>9, <1>11, InSteps DEF CommitInv, StepOf
<1>13. ASSUME NEW w \in Requests PROVE Served(w)'
  <2>1. Served(w)
    BY InSteps DEF CommitInv
  <2>2. req[w].stage \in {"collect", "wait"} => req[w].family \in Families
    BY DEF Idle, CommitInv, HandsInv, Shaped
  <2>3. req'[w].stage \in {"collect", "wait"} =>
          req[w].stage \in {"collect", "wait"} /\ req'[w].family = req[w].family
    BY <1>9 DEF GoesOn
  <2>4. req'[w].stage \in {"collect", "wait"} => neg'[req'[w].family].agreement \in Agreements
    BY <1>9, <2>1, <2>2, <2>3 DEF Served
  <2>5. req'[w].stage = "wait" => question'[req'[w].via].family = req'[w].family
    BY <1>10, <2>1 DEF Served
  <2> QED
    BY <2>4, <2>5 DEF Served
<1>14. InStep'
  BY <1>12, <1>13 DEF InStep, StepOf, Served
<1>15. neg' # neg => ~Uncommitted(g)
  <2>1. neg' # neg => \E w \in Requests : req[w].stage = "wait" /\ req[w].via = q
    BY <1>1, <1>2, Learned DEF CommitInv, QuestionMoves, Proceeds
  <2>2. (\E w \in Requests : req[w].stage = "wait" /\ req[w].via = q) =>
          neg[g].agreement \in Agreements
    BY DEF CommitInv, InStep
  <2> QED
    BY <1>3, <2>1, <2>2, JointAssumption DEF CommitInv, Uncounted
<1>16. ASSUME NEW f \in Families, Uncommitted(f)' PROVE Uncommitted(f) /\ Unanswered(f)
  <2>1. Uncommitted(f)
    BY <1>1, <1>11, <1>16 DEF Uncommitted
  <2>2. f # g \/ neg' = neg
    BY <1>15, <2>1
  <2> QED
    BY <1>9, <2>1, <2>2 DEF Unanswered
<1>17. Uncounted'
  BY <1>9, <1>16, UncountedKept DEF CommitInv
<1> QED
  BY <1>5, <1>6, <1>7, <1>14, <1>17 DEF CommitInv

LEMMA HolderCommits ==
  ASSUME CommitInv, NEW h \in Holders, HolderActs(h)
  PROVE  CommitInv'
<1>1. agent' = agent /\ neg' = neg /\ question' = question /\ inForce' = inForce
  BY DEF HolderActs, Decide, Withdraw, Join, Leave, Edit, tallyVars
<1>10. \A w \in Requests : /\ req'[w].stage = req[w].stage /\ req'[w].family = req[w].family
                           /\ req'[w].via = req[w].via
  BY HolderReq DEF CommitInv, HandsInv
<1>2. \A f \in Families : /\ Quoting(f)' <=> Quoting(f)
                          /\ Uncommitted(f)' <=> Uncommitted(f)
  BY <1>1, <1>10 DEF Quoting, Uncommitted
<1>3. InStep'
  BY <1>1, <1>2, <1>10 DEF CommitInv, InStep
<1>4. HandsInv'
  BY HolderHands DEF CommitInv
<1>5. /\ DOMAIN agreed' = Holders
      /\ \A i \in Holders : agreed'[i] # None =>
           agreed'[i] \in Mandates /\ i \in HoldersOf(agreed'[i])
  <2>1. \/ agreed' = agreed
        \/ agreed' = [agreed EXCEPT ![h] = inForce] /\ h \in HoldersOf(inForce)
        \/ agreed' = [agreed EXCEPT ![h] = None]
    BY DEF HolderActs, Decide, Withdraw, Join, Leave, Edit
  <2> QED
    BY <2>1 DEF CommitInv, Asks, HandsInv, Shaped
<1>6. Asks'
  BY <1>1, <1>5 DEF CommitInv, Asks, At
<1>7. Rows'
  <2>1. CASE row' = row
    BY <2>1 DEF CommitInv, Rows
  <2>2. ASSUME NEW f \in Families, NEW d \in {"approved", "denied"}, Decide(h, f, d)
        PROVE  Rows'
    BY <2>2 DEF Decide, CommitInv, Rows
  <2>3. row' = row \/ \E f \in Families, d \in {"approved", "denied"} : Decide(h, f, d)
    BY DEF HolderActs, Withdraw, Join, Leave, Edit
  <2> QED
    BY <2>1, <2>2, <2>3
<1>9. Uncounted'
  BY <1>1, <1>2, UncountedKept DEF CommitInv, Unanswered
<1> QED
  BY <1>3, <1>4, <1>6, <1>7, <1>9 DEF CommitInv

LEMMA StepIs ==
  Next =>
    \/ \E f \in Families :
         \/ Perm(f) \/ Lapse(f) \/ PresentDead(f) \/ Decline(f) \/ RejectClaim(f)
         \/ LoseReply(f) \/ GiveUp(f) \/ Consume(f) \/ Outlive(f)
         \/ \E w \in Requests : AgentCalls(f, w)
    \/ \E w \in Requests : RequestStep(w) \/ QuotesFail(w) \/ Unreachable(w)
    \/ \E q \in Questions : QuestionStep(q) \/ CannotReadMandate(q) \/ Die(q)
    \/ Strayed
    \/ \E m \in Mandates : Restart(m)
    \/ \E h \in Holders : HolderActs(h)
  BY DEF Next, HolderActs, Strayed

LEMMA CommitInit ==
  ASSUME Init
  PROVE  CommitInv
<1>1. /\ inForce \in Mandates /\ tickets = {} /\ tokens = {}
      /\ agent = [f \in Families |-> [phase |-> "none", ticket |-> 0, via |-> None]]
      /\ neg = [f \in Families |-> NoNegotiation]
      /\ req = [w \in Requests |-> NoRequest]
      /\ question = [q \in Questions |-> NoQuestion]
      /\ row = [h \in Holders |-> [f \in Families |-> NoRow]]
      /\ agreed = [h \in Holders |-> IF h \in HoldersOf(inForce) THEN inForce ELSE None]
  BY DEF Init
<1>2. Shaped
  BY <1>1, NoNegotiationShaped, NoRequestShaped DEF Shaped, Idle
<1>3. \A w \in Requests : Idle(w)
  BY <1>1, NoRequestShaped DEF Idle
<1>4. Hands
  BY <1>1, <1>3 DEF Hands, HasTicket, WorkedOn, HasToken
<1>5. Asks
  BY <1>1 DEF Asks, At, Listens, NoQuestion
<1>6. Rows
  BY <1>1 DEF Rows, NoRow
<1>8. Uncounted
  BY <1>1, NoNegotiationShaped DEF Uncounted
<1>9. InStep
  BY <1>1, <1>3, NoNegotiationShaped DEF InStep, Quoting, Idle
<1> QED
  BY <1>2, <1>4, <1>5, <1>6, <1>8, <1>9 DEF CommitInv, HandsInv

LEMMA CommitStep ==
  ASSUME CommitInv, [Next]_vars
  PROVE  CommitInv'
<1>1. CASE UNCHANGED vars
  <2>1. /\ agent' = agent /\ neg' = neg /\ req' = req /\ Elsewhere
        /\ inForce' = inForce /\ tickets' = tickets /\ tokens' = tokens
    BY <1>1 DEF vars, tallyVars, holderVars, Elsewhere
  <2>2. HandsInv'
    BY <2>1, TallyStaysHands DEF CommitInv, Apart
  <2>3. \A f \in Families : /\ Quoting(f)' <=> Quoting(f)
                            /\ Uncommitted(f)' <=> Uncommitted(f)
    BY <2>1 DEF Quoting, Uncommitted
  <2>4. InStep'
    BY <2>1, <2>3 DEF CommitInv, InStep, Elsewhere
  <2> QED
    BY <2>1, <2>2, <2>3, <2>4, ElsewhereKeeps DEF Unanswered
<1>2. ASSUME NEW f \in Families,
             \/ Perm(f) \/ Lapse(f) \/ PresentDead(f) \/ Decline(f) \/ RejectClaim(f)
             \/ LoseReply(f) \/ GiveUp(f) \/ Consume(f) \/ Outlive(f)
             \/ \E w \in Requests : AgentCalls(f, w)
      PROVE CommitInv'
  BY <1>2, PermCommits, TimeCommits, LeavesCommits, AskTermsCommits, PollCommits, CommitCommits
     DEF AgentCalls
<1>3. ASSUME NEW w \in Requests, RequestStep(w) \/ QuotesFail(w) \/ Unreachable(w)
      PROVE CommitInv'
  BY <1>3, QuoteCommits, DictateCommits, ConcludeCommits, UnreachableCommits, AskCommits
     DEF RequestStep
<1> QED
  BY <1>1, <1>2, <1>3, StepIs, QuestionCommits, StrayCommits, RestartCommits, HolderCommits

(* Nobody's answer is counted in a negotiation before an agreement has been *)
(* committed to, and a request of the tally waits for a question about its  *)
(* own negotiation, while the tally and the holders' authorities work on it,*)
(* restart, and lose one another's replies.                                 *)
THEOREM CommitmentsHold == Spec => []CommitInv
<1>1. Init => CommitInv
  BY CommitInit
<1>2. CommitInv /\ [Next]_vars => CommitInv'
  BY CommitStep
<1> QED
  BY <1>1, <1>2, PTL DEF Spec

LEMMA AtMostOne ==
  ASSUME NEW S, \A x, y \in S : x = y
  PROVE  (S = {} /\ Cardinality(S) = 0) \/ (S # {} /\ Cardinality(S) = 1)
<1>1. CASE S = {}
  BY <1>1, FS_EmptySet
<1>2. CASE S # {}
  <2>1. PICK x : S = {x}
    BY <1>2
  <2> QED
    BY <2>1, FS_Singleton
<1> QED
  BY <1>1, <1>2

LEMMA HandsAreOne ==
  ASSUME HandsInv
  PROVE  OneHand
<1> SUFFICES ASSUME NEW f \in Families
             PROVE  /\ Cardinality({t \in tickets : t[1] = f}) +
                       Cardinality({w \in Requests : req[w].family = f}) <= 1
                    /\ (\E t \in tokens : t.family = f) => /\ \A u \in tickets : u[1] # f
                                                           /\ ~WorkedOn(f)
  BY DEF OneHand
<1> DEFINE T == {t \in tickets : t[1] = f}
           R == {w \in Requests : req[w].family = f}
<1>1. \A w \in R : ~Idle(w)
  BY NoRequestShaped, JointAssumption DEF HandsInv, Shaped
<1>2. \A x, y \in T : x = y
  BY DEF HandsInv, Hands
<1>3. \A x, y \in R : x = y
  BY <1>1 DEF HandsInv, Hands
<1>4. T = {} \/ R = {}
  BY <1>1 DEF HandsInv, Hands, HasTicket
<1>5. Cardinality(T) \in {0, 1} /\ (T = {} => Cardinality(T) = 0)
  BY <1>2, AtMostOne, FS_EmptySet
<1>6. Cardinality(R) \in {0, 1} /\ (R = {} => Cardinality(R) = 0)
  BY <1>3, AtMostOne, FS_EmptySet
<1>7. Cardinality(T) + Cardinality(R) <= 1
  BY <1>4, <1>5, <1>6
<1>8. (\E t \in tokens : t.family = f) => /\ \A u \in tickets : u[1] # f
                                          /\ ~WorkedOn(f)
  BY DEF HandsInv, Hands, HasTicket
<1> QED
  BY <1>7, <1>8

(* A negotiation is in one pair of hands: however many requests present its *)
(* ticket, one takes it, and once a grant has been made nobody holds it     *)
(* (take_ticket).                                                           *)
THEOREM NegotiationIsInOneHand == Spec => []OneHand
<1>1. CommitInv => OneHand
  BY HandsAreOne DEF CommitInv
<1> QED
  BY <1>1, CommitmentsHold, PTL
-----------------------------------------------------------------------------
(* Yeses.                                                                   *)

(* Terms she has had, and answers she has given, are not taken back.        *)
Grows ==
  /\ overtaken \subseteq overtaken'
  /\ \A h \in Holders : /\ had[h] \subseteq had'[h]
                        /\ \A f \in Families : answers[h][f] \subseteq answers'[h][f]

LEMMA StillSo ==
  ASSUME Grows, NEW h \in Holders, NEW f \in Families, NEW a
  PROVE  /\ Covered(h, a) => Covered(h, a)'
         /\ Backed(h, f, a) => Backed(h, f, a)'
  BY DEF Grows, Covered, Backed, Approved

(* Her books stay as they are.                                              *)
SameBooks ==
  /\ terms' = terms /\ had' = had /\ standing' = standing /\ answers' = answers
  /\ overtaken \subseteq overtaken'

LEMMA BooksStay ==
  ASSUME YesInv, SameBooks
  PROVE  Grows /\ Books' /\ \A h \in Holders : OfHolder(h)'
  BY DEF YesInv, SameBooks, Grows, Books, OfHolder

LEMMA RowStays ==
  ASSUME Grows, NEW h \in Holders, NEW f \in Families, OfRow(h, f), row'[h][f] = row[h][f]
  PROVE  OfRow(h, f)'
  BY StillSo DEF OfRow

LEMMA QuestionStays ==
  ASSUME Grows, Asks, NEW q \in Questions, OfQuestion(q), question'[q] = question[q]
  PROVE  OfQuestion(q)'
<1>1. question[q].stage \in {"save", "close", "withdrawn"} =>
        question[q].holder \in Holders /\ question[q].family \in Families
  BY DEF Asks, At
<1> QED
  BY <1>1, StillSo DEF OfQuestion

LEMMA YesStays ==
  ASSUME Grows, NEW v, OfYes(v)
  PROVE  OfYes(v)'
  BY StillSo DEF OfYes

(* The agent, the tally, and a restart.                                     *)
LEMMA ElsewhereYes ==
  ASSUME CommitInv, YesInv, Elsewhere, SameBooks, verdicts' = verdicts
  PROVE  YesInv'
<1>1. Grows /\ Books' /\ \A h \in Holders : OfHolder(h)'
  BY BooksStay
<1>2. \A h \in Holders, f \in Families : OfRow(h, f)'
  BY <1>1, RowStays DEF YesInv, Elsewhere
<1>3. \A q \in Questions : OfQuestion(q)'
  BY <1>1, QuestionStays DEF CommitInv, YesInv, Elsewhere
<1>4. \A v \in verdicts' : OfYes(v)'
  BY <1>1, YesStays DEF YesInv
<1> QED
  BY <1>1, <1>2, <1>3, <1>4 DEF YesInv

LEMMA AskYes ==
  ASSUME CommitInv, YesInv, NEW w \in Requests, NEW q \in Questions, AskHolder(w, q)
  PROVE  YesInv'
<1>1. /\ \A p \in Questions \ {q} : question'[p] = question[p]
      /\ question'[q].stage = "arrive"
      /\ row' = row /\ verdicts' = verdicts /\ SameBooks
  BY DEF AskHolder, apartVars, authorVars, SameBooks, CommitInv, Asks, NoQuestion
<1>2. Grows /\ Books' /\ \A h \in Holders : OfHolder(h)'
  BY <1>1, BooksStay
<1>3. \A h \in Holders, f \in Families : OfRow(h, f)'
  BY <1>1, <1>2, RowStays DEF YesInv
<1>4. \A p \in Questions \ {q} : OfQuestion(p)'
  BY <1>1, <1>2, QuestionStays DEF CommitInv, YesInv
<1>5. OfQuestion(q)'
  BY <1>1 DEF OfQuestion
<1>6. \A v \in verdicts' : OfYes(v)'
  BY <1>1, <1>2, YesStays DEF YesInv
<1> QED
  BY <1>2, <1>3, <1>4, <1>5, <1>6 DEF YesInv

LEMMA StrayYes ==
  ASSUME CommitInv, YesInv, Strayed
  PROVE  YesInv'
<1>1. PICK q \in Questions, h \in Holders, f \in Families, a \in Agreements : AskAbout(q, h, f, a)
  BY DEF Strayed
<1>2. /\ \A p \in Questions \ {q} : question'[p] = question[p]
      /\ question'[q].stage = "arrive"
      /\ row' = row /\ verdicts' = verdicts /\ SameBooks
  BY <1>1 DEF AskAbout, authorVars, SameBooks, CommitInv, Asks, NoQuestion
<1>3. Grows /\ Books' /\ \A i \in Holders : OfHolder(i)'
  BY <1>2, BooksStay
<1>4. \A i \in Holders, g \in Families : OfRow(i, g)'
  BY <1>2, <1>3, RowStays DEF YesInv
<1>5. \A p \in Questions \ {q} : OfQuestion(p)'
  BY <1>2, <1>3, QuestionStays DEF CommitInv, YesInv
<1>6. OfQuestion(q)'
  BY <1>2 DEF OfQuestion
<1>7. \A v \in verdicts' : OfYes(v)'
  BY <1>2, <1>3, YesStays DEF YesInv
<1> QED
  BY <1>3, <1>4, <1>5, <1>6, <1>7 DEF YesInv

(* A holder.                                                                *)
LEMMA HolderYes ==
  ASSUME CommitInv, YesInv, NEW h \in Holders, HolderActs(h)
  PROVE  YesInv'
<1>1. question' = question /\ verdicts' = verdicts
  BY DEF HolderActs, Decide, Withdraw, Join, Leave, Edit
<1>2. /\ Grows /\ Books' /\ \A i \in Holders : OfHolder(i)'
      /\ \A i \in Holders, f \in Families : OfRow(i, f)'
  <2>1. ASSUME NEW f \in Families, NEW d \in {"approved", "denied"}, Decide(h, f, d)
        PROVE  /\ Grows /\ Books' /\ \A i \in Holders : OfHolder(i)'
               /\ \A i \in Holders, e \in Families : OfRow(i, e)'
    <3>1. /\ row[h][f].agreement # None
          /\ row' = [row EXCEPT ![h][f].decision = d]
          /\ answers' = [answers EXCEPT ![h][f] = @ \cup {<<row[h][f].agreement, d>>}]
          /\ had' = had /\ terms' = terms /\ standing' = standing /\ overtaken' = overtaken
      BY <2>1 DEF Decide
    <3>2. Grows /\ Books'
      BY <3>1 DEF Grows, YesInv, Books
    <3>3. \A i \in Holders : OfHolder(i)'
      BY <3>1 DEF YesInv, OfHolder
    <3>4. /\ row'[h][f].agreement = row[h][f].agreement /\ row'[h][f].decision = d
          /\ \A i \in Holders, e \in Families : i # h \/ e # f => row'[i][e] = row[i][e]
      BY <3>1 DEF CommitInv, Rows
    <3>5. <<row[h][f].agreement, d>> \in answers'[h][f]
      BY <3>1 DEF YesInv, Books
    <3>6. Covered(h, row[h][f].agreement)'
      BY <3>1, <3>2, StillSo DEF YesInv, OfRow
    <3>7. OfRow(h, f)'
      BY <3>1, <3>4, <3>5, <3>6 DEF OfRow, Covered, Backed, Approved
    <3>8. \A i \in Holders, e \in Families : i # h \/ e # f => OfRow(i, e)'
      BY <3>2, <3>4, RowStays DEF YesInv
    <3> QED
      BY <3>2, <3>3, <3>7, <3>8
  <2>2. CASE Withdraw(h) \/ Join(h) \/ Leave(h) \/ \E tier \in Written[h] : Edit(h, tier)
    <3>1. /\ row' = row /\ answers' = answers /\ overtaken' = overtaken
          /\ \/ terms' = terms /\ had' = had
             \/ \E tier : /\ terms' = [terms EXCEPT ![h] = tier]
                          /\ had' = [had EXCEPT ![h] = @ \cup {tier}]
          /\ \/ standing' = standing
             \/ standing' = [standing EXCEPT ![h].status = "revoked", ![h].revocations = @ + 1]
             \/ standing' = [standing EXCEPT ![h].blocked = TRUE]
      BY <2>2 DEF Withdraw, Join, Leave, Edit
    <3>2. Grows /\ Books'
      BY <3>1 DEF Grows, YesInv, Books
    <3>3. \A i \in Holders : terms'[i] \in had'[i]
      BY <3>1 DEF YesInv, Books, OfHolder
    <3>4. \A i \in Holders : /\ DOMAIN standing'[i] = {"status", "revocations", "blocked"}
                             /\ standing'[i].status = "active" => standing[i].status = "active"
      BY <3>1 DEF YesInv, Books, OfHolder
    <3>5. \A i \in Holders : OfHolder(i)'
      BY <3>3, <3>4 DEF YesInv, OfHolder
    <3>6. \A i \in Holders, e \in Families : OfRow(i, e)'
      BY <3>1, <3>2, RowStays DEF YesInv
    <3> QED
      BY <3>2, <3>5, <3>6
  <2> QED
    BY <2>1, <2>2 DEF HolderActs
<1>3. \A q \in Questions : OfQuestion(q)'
  BY <1>1, <1>2, QuestionStays DEF CommitInv, YesInv
<1>4. \A v \in verdicts' : OfYes(v)'
  BY <1>1, <1>2, YesStays DEF YesInv
<1> QED
  BY <1>2, <1>3, <1>4 DEF YesInv

(* An authority under a question.                                           *)
LEMMA RowYes ==
  ASSUME CommitInv, YesInv, NEW q \in Questions, SameBooks,
         QuestionStep(q) \/ CannotReadMandate(q) \/ Die(q)
  PROVE  \A h \in Holders, f \in Families : OfRow(h, f)'
<1> PICK i, g, a : i = question[q].holder /\ g = question[q].family /\ a = question[q].agreement
  OBVIOUS
<1>1. i \in Holders /\ g \in Families /\ a \in Agreements
  BY QuestionAnswers DEF CommitInv, Asks
<1>2. Grows
  BY BooksStay
<1>3. CASE row' = row
  BY <1>2, <1>3, RowStays DEF YesInv
<1>4. CASE CloseRow(q)
  <2>1. row' = [row EXCEPT ![i][g] = NoRow]
    BY <1>4 DEF CloseRow
  <2>2. /\ row'[i][g].agreement = None /\ row'[i][g].decision = "none"
        /\ \A h \in Holders, f \in Families : h # i \/ f # g => row'[h][f] = row[h][f]
    BY <1>1, <2>1 DEF CommitInv, Rows, NoRow
  <2>3. OfRow(i, g)'
    BY <2>2 DEF OfRow
  <2>4. \A h \in Holders, f \in Families : h # i \/ f # g => OfRow(h, f)'
    BY <1>2, <2>2, RowStays DEF YesInv
  <2> QED
    BY <2>3, <2>4
<1>5. CASE Save(q)
  <2> DEFINE r == [agreement |-> a, decision |-> row[i][g].decision, seen |-> question[q].seen]
  <2>1. row' = [row EXCEPT ![i][g] = r] /\ question[q].stage = "save"
    BY <1>5 DEF Save, MineIs, At
  <2>2. r.agreement = a /\ r.decision = row[i][g].decision
    OBVIOUS
  <2> HIDE DEF r
  <2>3. /\ row'[i][g].agreement = a /\ row'[i][g].decision = row[i][g].decision
        /\ \A h \in Holders, f \in Families : h # i \/ f # g => row'[h][f] = row[h][f]
    BY <1>1, <2>1, <2>2 DEF CommitInv, Rows
  <2>4. row[i][g].decision = "approved" => Backed(i, g, a)'
    <3>1. CASE row[i][g].agreement = a
      <4>1. row[i][g].decision = "approved" => Backed(i, g, a)
        BY <1>1, <3>1 DEF YesInv, OfRow
      <4> QED
        BY <1>1, <1>2, <4>1, StillSo
    <3>2. CASE row[i][g].agreement # a
      <4>1. row[i][g].decision = "approved" => overtaken' = overtaken \cup {<<i, g, a>>}
        BY <1>5, <3>2 DEF Save, MineIs
      <4> QED
        BY <4>1 DEF Backed
    <3> QED
      BY <3>1, <3>2
  <2>5. Covered(i, a)
    BY <2>1 DEF YesInv, OfQuestion
  <2>6. Covered(i, a)'
    BY <1>1, <1>2, <2>5, StillSo
  <2>7. OfRow(i, g)'
    <3>1. a # None
      BY <1>1, JointAssumption
    <3> QED
      BY <2>3, <2>4, <2>6, <3>1 DEF OfRow, Covered, Backed, Approved
  <2>8. \A h \in Holders, f \in Families : h # i \/ f # g => OfRow(h, f)'
    BY <1>2, <2>3, RowStays DEF YesInv
  <2> QED
    BY <2>7, <2>8
<1>6. row' = row \/ CloseRow(q) \/ Save(q)
  BY DEF QuestionStep, Arrive, CheckMandate, ReadRow, CheckWithdrawn, Evaluate,
         CannotReadMandate, Die
<1> QED
  BY <1>3, <1>4, <1>5, <1>6

(* What it goes on with, in the last two steps before her yes.              *)
LEMMA NoneInHand ==
  ASSUME NEW q \in Questions, question[q].stage \notin {"save", "close", "withdrawn"}
  PROVE  OfQuestion(q)
  BY DEF OfQuestion

LEMMA NextIsOf ==
  ASSUME CommitInv, YesInv, NEW q \in Questions, SameBooks,
         QuestionStep(q) \/ CannotReadMandate(q) \/ Die(q)
  PROVE  OfQuestion(q)'
<1> PICK i, g, a : i = question[q].holder /\ g = question[q].family /\ a = question[q].agreement
  OBVIOUS
<1>1. i \in Holders /\ g \in Families /\ a \in Agreements /\ DOMAIN question = Questions
  BY QuestionAnswers DEF CommitInv, Asks
<1>2. DOMAIN question[q] =
        {"stage", "holder", "family", "agreement", "mandate", "decision", "seen"}
  BY DEF CommitInv, Asks
<1>3. Grows
  BY BooksStay
<1>4. ASSUME question'[q].stage \notin {"save", "close", "withdrawn"} PROVE OfQuestion(q)'
  BY <1>4 DEF OfQuestion
<1>5. CASE Done(q)
  BY <1>1, <1>4, <1>5 DEF Done, NoQuestion
<1>6. CASE Arrive(q)
  BY <1>1, <1>2, <1>4, <1>5, <1>6 DEF Arrive
<1>7. CASE CheckMandate(q)
  BY <1>1, <1>2, <1>4, <1>5, <1>7 DEF CheckMandate, Refuse, GoTo
<1>8. CASE ReadRow(q) /\ ~Done(q)
  <2> DEFINE n == MineIs(q)
  <2>1. \/ GoTo(q, "evaluate")
        \/ /\ n # NoRow /\ n.decision # "none"
           /\ ~(n.decision = "approved" /\ n.agreement # a)
           /\ question' = [question EXCEPT ![q].stage = "close",
                              ![q].decision = n.decision, ![q].seen = n.seen]
    BY <1>8 DEF ReadRow, Refuse
  <2>2. CASE GoTo(q, "evaluate")
    BY <1>1, <1>2, <1>4, <2>2 DEF GoTo
  <2>3. CASE /\ n # NoRow /\ n.decision # "none"
             /\ ~(n.decision = "approved" /\ n.agreement # a)
             /\ question' = [question EXCEPT ![q].stage = "close",
                                ![q].decision = n.decision, ![q].seen = n.seen]
    <3>1. n = row[i][g]
      BY DEF MineIs
    <3>2. n.decision \in {"approved", "denied"}
      BY <1>1, <2>3, <3>1 DEF CommitInv, Rows
    <3>3. n.decision = "approved" => Covered(i, a) /\ Backed(i, g, a)
      BY <1>1, <2>3, <3>1 DEF YesInv, OfRow
    <3> HIDE DEF n
    <3>4. /\ question'[q].stage = "close" /\ question'[q].decision = n.decision
          /\ question'[q].holder = i /\ question'[q].family = g /\ question'[q].agreement = a
      BY <1>1, <1>2, <2>3
    <3>5. n.decision = "approved" => Covered(i, a)' /\ Backed(i, g, a)'
      BY <1>1, <1>3, <3>3, StillSo
    <3> QED
      BY <3>2, <3>4, <3>5 DEF OfQuestion, Covered, Backed, Approved
  <2> QED
    BY <2>1, <2>2, <2>3
<1>9. CASE CloseRow(q) /\ ~Done(q)
  <2>1. /\ question[q].stage = "close" /\ question[q].decision # "denied"
        /\ GoTo(q, "withdrawn")
    BY <1>9 DEF CloseRow, Refuse, At
  <2>2. question[q].decision = "approved" /\ Covered(i, a) /\ Backed(i, g, a)
    BY <2>1 DEF YesInv, OfQuestion
  <2>3. Covered(i, a)' /\ Backed(i, g, a)'
    BY <1>1, <1>3, <2>2, StillSo
  <2>4. /\ question'[q].stage = "withdrawn" /\ question'[q].decision = "approved"
        /\ question'[q].holder = i /\ question'[q].family = g /\ question'[q].agreement = a
    BY <1>1, <1>2, <2>1, <2>2 DEF GoTo
  <2> QED
    BY <2>3, <2>4 DEF OfQuestion, Covered, Backed, Approved
<1>10. CASE CheckWithdrawn(q)
  BY <1>5, <1>10 DEF CheckWithdrawn, Refuse, Allow
<1>11. CASE Evaluate(q) /\ ~Done(q)
  <2>1. /\ AcceptableTo(i, a)
        /\ question' = [question EXCEPT ![q].stage = "save", ![q].seen = standing[i].revocations]
    BY <1>11 DEF Evaluate, Refuse, Allow
  <2>2. Covered(i, a)
    BY <1>1, <2>1, JointAssumption DEF AcceptableTo, YesInv, OfHolder, Covered
  <2>3. Covered(i, a)'
    BY <1>1, <1>3, <2>2, StillSo
  <2>4. /\ question'[q].stage = "save"
        /\ question'[q].holder = i /\ question'[q].agreement = a
    BY <1>1, <1>2, <2>1
  <2> QED
    BY <2>3, <2>4 DEF OfQuestion, Covered
<1>12. CASE Save(q) \/ CannotReadMandate(q) \/ Die(q)
  BY <1>5, <1>12 DEF Save, CannotReadMandate, Die, Refuse
<1> QED
  BY <1>5, <1>6, <1>7, <1>8, <1>9, <1>10, <1>11, <1>12 DEF QuestionStep

(* The yeses that a step of an authority signs.                             *)
LEMMA SignsOf ==
  ASSUME CommitInv, YesInv, NEW q \in Questions, SameBooks,
         QuestionStep(q) \/ CannotReadMandate(q) \/ Die(q)
  PROVE  \A v \in verdicts' : OfYes(v)'
<1> PICK i, g, a : i = question[q].holder /\ g = question[q].family /\ a = question[q].agreement
  OBVIOUS
<1>1. i \in Holders /\ g \in Families /\ a \in Agreements
  BY QuestionAnswers DEF CommitInv, Asks
<1>2. Grows
  BY BooksStay
<1>3. \A v \in verdicts : OfYes(v)'
  BY <1>2, YesStays DEF YesInv
<1>4. CASE verdicts' = verdicts
  BY <1>3, <1>4
<1>5. ASSUME Allow(q, a), Covered(i, a),
             ("permit" \in Rules[i] /\ i \in Connected) \/ Backed(i, g, a)
      PROVE  \A v \in verdicts' : OfYes(v)'
  <2> PICK y : y = Yes(i, g, a, question[q].mandate)
    OBVIOUS
  <2>1. verdicts' = verdicts \cup {y}
    BY <1>5 DEF Allow, Yes
  <2>2. y.holder = i /\ y.family = g /\ y.agreement = a
    BY DEF Yes
  <2>3. OfYes(y)
    BY <1>1, <1>5, <2>2 DEF OfYes
  <2>4. OfYes(y)'
    BY <1>2, <2>3, YesStays
  <2> QED
    BY <1>3, <2>1, <2>4
<1>6. CASE CheckWithdrawn(q)
  <2>1. question[q].stage = "withdrawn" /\ (verdicts' = verdicts \/ Allow(q, a))
    BY <1>6 DEF CheckWithdrawn, Refuse, At
  <2>2. Covered(i, a) /\ Backed(i, g, a)
    BY <2>1 DEF YesInv, OfQuestion
  <2> QED
    BY <1>4, <1>5, <2>1, <2>2
<1>7. CASE Evaluate(q)
  <2>1. \/ verdicts' = verdicts
        \/ /\ Allow(q, a) /\ AcceptableTo(i, a)
           /\ standing[i].status = "active" /\ "permit" \in Rules[i]
    BY <1>7 DEF Evaluate, Refuse
  <2>2. AcceptableTo(i, a) => Covered(i, a)
    BY <1>1 DEF AcceptableTo, YesInv, OfHolder, Covered
  <2>3. standing[i].status = "active" => i \in Connected
    BY <1>1 DEF YesInv, OfHolder
  <2> QED
    BY <1>4, <1>5, <2>1, <2>2, <2>3
<1>8. verdicts' = verdicts \/ CheckWithdrawn(q) \/ Evaluate(q)
  BY DEF QuestionStep, Arrive, CheckMandate, ReadRow, CloseRow, Save, CannotReadMandate, Die, Refuse
<1> QED
  BY <1>4, <1>6, <1>7, <1>8

LEMMA QuestionYes ==
  ASSUME CommitInv, YesInv, NEW q \in Questions,
         QuestionStep(q) \/ CannotReadMandate(q) \/ Die(q)
  PROVE  YesInv'
<1>1. SameBooks
  BY DEF QuestionStep, Arrive, CheckMandate, ReadRow, CloseRow, CheckWithdrawn, Evaluate, Save,
         CannotReadMandate, Die, apartVars, authorVars, SameBooks
<1>2. Grows /\ Books' /\ \A h \in Holders : OfHolder(h)'
  BY <1>1, BooksStay
<1>3. \A h \in Holders, f \in Families : OfRow(h, f)'
  BY <1>1, RowYes
<1>4. \A p \in Questions \ {q} : question'[p] = question[p]
  BY QuestionsMove DEF CommitInv, QuestionMoves
<1>5. \A p \in Questions \ {q} : OfQuestion(p)'
  BY <1>2, <1>4, QuestionStays DEF CommitInv, YesInv
<1>6. OfQuestion(q)'
  BY <1>1, NextIsOf
<1>7. \A v \in verdicts' : OfYes(v)'
  BY <1>1, SignsOf
<1> QED
  BY <1>2, <1>3, <1>5, <1>6, <1>7 DEF YesInv

LEMMA YesInit ==
  ASSUME Init
  PROVE  YesInv
<1>1. /\ question = [q \in Questions |-> NoQuestion] /\ verdicts = {}
      /\ row = [h \in Holders |-> [f \in Families |-> NoRow]]
      /\ answers = [h \in Holders |-> [f \in Families |-> {}]]
      /\ terms \in [Holders -> Tiers \cup {None}]
      /\ had = [h \in Holders |-> {terms[h]}]
      /\ standing = [h \in Holders |->
           [status |-> IF h \in Connected THEN "active" ELSE "none",
            revocations |-> 0, blocked |-> FALSE]]
  BY DEF Init
<1>2. Books
  BY <1>1 DEF Books
<1>3. \A h \in Holders : OfHolder(h)
  BY <1>1 DEF OfHolder
<1>4. \A h \in Holders, f \in Families : OfRow(h, f)
  BY <1>1 DEF OfRow, NoRow
<1>5. \A q \in Questions : OfQuestion(q)
  BY <1>1 DEF OfQuestion, NoQuestion
<1> QED
  BY <1>1, <1>2, <1>3, <1>4, <1>5 DEF YesInv

LEMMA YesStep ==
  ASSUME CommitInv, YesInv, [Next]_vars
  PROVE  YesInv'
<1>1. CASE UNCHANGED vars
  BY <1>1, ElsewhereYes DEF vars, holderVars, Elsewhere, SameBooks
<1>2. ASSUME NEW f \in Families,
             \/ Perm(f) \/ Lapse(f) \/ PresentDead(f) \/ Decline(f) \/ RejectClaim(f)
             \/ LoseReply(f) \/ GiveUp(f) \/ Consume(f) \/ Outlive(f)
             \/ \E w \in Requests : AgentCalls(f, w)
      PROVE YesInv'
  <2>1. UNCHANGED holderVars
    BY <1>2 DEF Perm, Lapse, PresentDead, Decline, RejectClaim, LoseReply, GiveUp, Consume,
       Outlive, AgentCalls, AskTerms, Poll, Commit
  <2> QED
    BY <2>1, ElsewhereYes DEF holderVars, Elsewhere, SameBooks
<1>3. ASSUME NEW w \in Requests, RequestStep(w) \/ QuotesFail(w) \/ Unreachable(w)
      PROVE YesInv'
  <2>1. UNCHANGED holderVars \/ \E q \in Questions : AskHolder(w, q)
    BY <1>3 DEF RequestStep, AskQuote, QuotesFail, Unreachable, Dictate, QuotesRefused,
       FailQuotes, Conclude
  <2>2. CASE UNCHANGED holderVars
    BY <2>2, ElsewhereYes DEF holderVars, Elsewhere, SameBooks
  <2> QED
    BY <2>1, <2>2, AskYes
<1>4. ASSUME NEW m \in Mandates, Restart(m) PROVE YesInv'
  BY <1>4, ElsewhereYes DEF Restart, holderVars, Elsewhere, SameBooks
<1> QED
  BY <1>1, <1>2, <1>3, <1>4, StepIs, QuestionYes, StrayYes, HolderYes

(* Every yes has a ground, and what holders keep of their answers has one.  *)
THEOREM YesesHold == Spec => [](CommitInv /\ YesInv)
<1>1. Init => CommitInv /\ YesInv
  BY CommitInit, YesInit
<1>2. CommitInv /\ YesInv /\ [Next]_vars => (CommitInv /\ YesInv)'
  BY CommitStep, YesStep
<1> QED
  BY <1>1, <1>2, PTL DEF Spec

(* A yes is signed for an agent its holder is connected with, or because    *)
(* she approved the very agreement it names, or because a question about    *)
(* that agreement was saved over the one she had approved by then, and what *)
(* it allows is no wider than terms of hers: whatever the tally asks about, *)
(* in whatever order, and whatever it makes of the answers, a restart of it,*)
(* and her own edits change none of this (joint_verdict).                   *)
THEOREM YesesAreToWhatTheySaw == Spec => []YesIsToWhatSheSaw
<1>1. YesInv => YesIsToWhatSheSaw
  BY DEF YesInv, OfYes, Covered, Backed, Approved, YesIsToWhatSheSaw
<1> QED
  BY <1>1, YesesHold, PTL
-----------------------------------------------------------------------------
(* The count.                                                               *)

LEMMA DigestTells ==
  ASSUME NEW m \in Mandates, NEW n \in Mandates, Digest(m) = Digest(n)
  PROVE  m = n
<1>1. m.weight = n.weight /\ m.kind = n.kind /\ m.threshold = n.threshold
  BY DEF Digest
<1>2. ASSUME NEW x \in Mandates
      PROVE  /\ DOMAIN x = {"weight", "kind", "threshold"}
             /\ x = [y \in DOMAIN x |-> x[y]]
  <2>1. PICK d \in Documents : x = Normalised(d)
    BY DEF Mandates
  <2>2. DOMAIN x = DOMAIN d /\ x = [y \in DOMAIN x |-> x[y]]
    BY <2>1 DEF Normalised
  <2> QED
    BY <2>2, JointAssumption
<1>3. \A y \in {"weight", "kind", "threshold"} : m[y] = n[y]
  BY <1>1
<1> QED
  BY <1>2, <1>3

(* What a set of holders carries is the sum of their weights.               *)
LEMMA CarriedIsASum ==
  ASSUME NEW m, IsFiniteSet(HoldersOf(m)), NEW Q \in SUBSET HoldersOf(m),
         NEW g, Sums(g, m.weight, HoldersOf(m))
  PROVE  Carried(m, Q) = g[Q]
<1>1. Carried(m, Q) = (CHOOSE f : Sums(f, m.weight, Q))[Q]
  BY DEF Carried, MapThenSumSet, MapThenFoldSet, Sums, Picked
<1> QED
  BY <1>1, SumIs

LEMMA HoldersAreFinite == IsFiniteSet(Holders)
<1>1. Len(Order) \in Nat /\ Order \in [1..Len(Order) -> Holders]
  BY JointAssumption
<1>2. Order \in Surjection(1..Len(Order), Holders)
  BY <1>1, JointAssumption DEF Surjection, ToSet
<1>3. IsFiniteSet(1..Len(Order))
  BY <1>1, FS_Interval
<1> QED
  BY <1>2, <1>3, FS_Surjection

(* The threshold of a document that was accepted is a number.               *)
LEMMA ThresholdIsANumber ==
  ASSUME NEW d \in Documents, Acceptable(d, Floor)
  PROVE  Normalised(d).threshold \in Nat
<1>1. IsFiniteSet(HoldersOf(d)) /\ d.weight \in [HoldersOf(d) -> Nat]
  BY HoldersAreFinite, FS_Subset, JointAssumption
<1>2. PICK g \in [SUBSET HoldersOf(d) -> Nat] : Sums(g, d.weight, HoldersOf(d))
  BY <1>1, SumExists
<1>3. Total(d) \in Nat
  <2>1. HoldersOf(d) \in SUBSET HoldersOf(d)
    OBVIOUS
  <2>2. Total(d) = g[HoldersOf(d)]
    BY <1>1, <1>2, <2>1, CarriedIsASum DEF Total
  <2> QED
    BY <1>2, <2>1, <2>2
<1>4. Min({d.weight[h] : h \in HoldersOf(d)}) \in Nat
  <2> DEFINE W == {d.weight[h] : h \in HoldersOf(d)}
  <2>1. W # {}
    <3>1. HoldersOf(d) # {}
      BY FS_EmptySet DEF Acceptable
    <3> QED
      BY <3>1
  <2>2. W \in SUBSET Nat
    BY <1>1
  <2> HIDE DEF W
  <2>3. Min(W) \in Nat
    BY <2>1, <2>2, LeastIsOne
  <2> QED
    BY <2>3 DEF W
<1>5. Normalised(d).threshold = CASE d.kind = "all" -> Total(d)
                                  [] d.kind = "any" -> Min({d.weight[h] : h \in HoldersOf(d)})
                                  [] OTHER -> d.threshold
  BY JointAssumption DEF Normalised
<1>6. d.kind = "threshold" => d.threshold \in Nat
  BY <1>3 DEF Acceptable
<1> QED
  BY <1>3, <1>4, <1>5, <1>6, JointAssumption

(* The heaviest holders are the fewest who carry the threshold, so if they  *)
(* are no fewer than the floor, no others are (the comment at the floor in  *)
(* validate_mandate).                                                       *)
THEOREM NoFewerCarry ==
  ASSUME NEW d \in Documents, Acceptable(d, Floor), NEW Q \in SUBSET HoldersOf(d),
         Carried(d, Q) >= Normalised(d).threshold
  PROVE  Cardinality(Q) >= Floor
<1> DEFINE H == HoldersOf(d)
           n == Normalised(d).threshold
           sizes == {Cardinality(L) : L \in {M \in SUBSET H : Heaviest(d, M) /\ Carried(d, M) >= n}}
<1>1. IsFiniteSet(H) /\ d.weight \in [H -> Nat]
  BY HoldersAreFinite, FS_Subset, JointAssumption
<1>2. PICK g \in [SUBSET H -> Nat] : Sums(g, d.weight, H)
  BY <1>1, SumExists
<1>3. \A M \in SUBSET H : Carried(d, M) = g[M]
  BY <1>1, <1>2, CarriedIsASum
<1>4. \A M \in SUBSET H : Cardinality(M) \in Nat /\ Cardinality(M) <= Cardinality(H)
  BY <1>1, FS_Subset, FS_CardinalityType
<1>5. PICK L \in SUBSET H : Cardinality(L) = Cardinality(Q) /\ Heaviest(d, L)
  <2>1. \E L \in SUBSET H : /\ Cardinality(L) = Cardinality(Q)
                            /\ \A x \in L, y \in H \ L : d.weight[x] >= d.weight[y]
    BY <1>1, <1>4, HeaviestExist
  <2> QED
    BY <2>1 DEF Heaviest
<1>6. g[L] >= g[Q]
  <2>1. \A x \in L, y \in Q \ L : d.weight[x] >= d.weight[y]
    BY <1>5 DEF Heaviest
  <2> QED
    BY <1>1, <1>2, <1>5, <2>1, SumOfTheHeavier
<1>7. Carried(d, L) >= n
  <2>1. n \in Nat /\ g[L] \in Nat /\ g[Q] \in Nat
    BY ThresholdIsANumber
  <2>2. g[Q] >= n
    BY <1>3
  <2>3. g[L] >= n
    <3> HIDE DEF n
    <3> QED
      BY <1>6, <2>1, <2>2
  <2> QED
    BY <1>3, <2>3
<1>8. Cardinality(Q) \in sizes /\ sizes \in SUBSET Nat
  BY <1>4, <1>5, <1>7
<1>9. Fewest(d) \in Nat /\ Fewest(d) <= Cardinality(Q)
  <2>1. PICK k \in sizes : \A o \in sizes : k <= o
    BY <1>8, HasLeast
  <2>2. Fewest(d) = Min(sizes)
    BY DEF Fewest
  <2> HIDE DEF sizes
  <2>3. Min(sizes) \in sizes /\ \A o \in sizes : Min(sizes) <= o
    BY <2>1 DEF Min
  <2> QED
    BY <1>8, <2>2, <2>3
<1>10. Floor \in Nat /\ Cardinality(Q) \in Nat
  BY <1>4, JointAssumption
<1>11. Floor > 0 => Fewest(d) >= Floor
  BY DEF Acceptable
<1> QED
  BY <1>9, <1>10, <1>11

(* Those who carry the threshold are no fewer than the floor.               *)
LEMMA CarryingReleases ==
  ASSUME NEW m \in Mandates, NEW Q \in SUBSET HoldersOf(m), Carried(m, Q) >= m.threshold
  PROVE  Releases(m, Q)
<1>1. PICK d \in Documents : Acceptable(d, Floor) /\ m = Normalised(d)
  BY DEF Mandates
<1>2. HoldersOf(d) = HoldersOf(m)
  BY <1>1 DEF HoldersOf, Normalised
<1>3. Carried(d, Q) = Carried(m, Q)
  BY <1>1 DEF Normalised, Carried, HoldersOf
<1>4. Cardinality(Q) >= Floor
  BY <1>1, <1>2, <1>3, NoFewerCarry
<1> QED
  BY <1>4 DEF Releases

(* A count that says yes was carried.                                       *)
LEMMA YesIsCarried ==
  ASSUME NEW f \in Families, Standing(f) = "allow"
  PROVE  Carried(inForce, {h \in HoldersOf(inForce) : neg[f].verdicts[h] = "allow"})
           >= inForce.threshold
<1> DEFINE Said(v) == {h \in HoldersOf(inForce) : neg[f].verdicts[h] = v}
           A == Carried(inForce, Said("allow")) >= inForce.threshold
           R == Carried(inForce, Said("allow") \cup Said("none")) < inForce.threshold
<1>1. Standing(f) = CASE A -> "allow" [] R -> "refuse" [] OTHER -> "pending"
  BY DEF Standing, Effect
<1>2. "allow" # "refuse" /\ "allow" # "pending"
  OBVIOUS
<1>3. A
  <2> HIDE DEF A, R
  <2> QED
    BY <1>1, <1>2
<1> QED
  BY <1>3

(* What was counted stays counted, or goes with its negotiation.            *)
CountedBefore(f, h) ==
  neg'[f].verdicts[h] = "allow" =>
    /\ neg[f].verdicts[h] = "allow" /\ neg'[f].agreement = neg[f].agreement
    /\ h \in neg[f].signed => h \in neg'[f].signed

LEMMA ReleasedStays ==
  ASSUME NEW t, Released(t), verdicts \subseteq verdicts'
  PROVE  Released(t)'
  BY DEF Released

LEMMA CountStays ==
  ASSUME CountInv, inForce' = inForce, tokens' = tokens, verdicts \subseteq verdicts',
         \A f \in Families, h \in Holders : CountedBefore(f, h)
  PROVE  CountInv'
<1>1. Counted'
  BY DEF CountInv, Counted, CountedBefore
<1>2. \A t \in tokens' : Released(t)'
  BY ReleasedStays DEF CountInv
<1> QED
  BY <1>1, <1>2 DEF CountInv

(* Whatever the tally does to a record but to count.                        *)
OrGone(f) ==
  \/ neg'[f] = neg[f]
  \/ neg'[f].verdicts = NoNegotiation.verdicts
  \/ /\ neg'[f].verdicts = neg[f].verdicts /\ neg'[f].signed = neg[f].signed
     /\ neg'[f].agreement = neg[f].agreement

LEMMA OrGoneCounts ==
  ASSUME CountInv, inForce' = inForce, tokens' = tokens, verdicts' = verdicts,
         \A f \in Families : OrGone(f)
  PROVE  CountInv'
<1>1. \A f \in Families, h \in Holders : CountedBefore(f, h)
  BY NoNegotiationShaped DEF OrGone, CountedBefore
<1> QED
  BY <1>1, CountStays

LEMMA FamilyCounts ==
  ASSUME CommitInv, CountInv, NEW f \in Families,
         \/ Perm(f) \/ Lapse(f) \/ PresentDead(f) \/ Decline(f) \/ RejectClaim(f)
         \/ LoseReply(f) \/ GiveUp(f) \/ Consume(f) \/ Outlive(f)
         \/ \E w \in Requests : AgentCalls(f, w)
  PROVE  CountInv'
<1>1. inForce' = inForce /\ tokens' = tokens /\ verdicts' = verdicts
  BY DEF Perm, Lapse, PresentDead, Decline, RejectClaim, LoseReply, GiveUp, Consume, Outlive,
     AgentCalls, AskTerms, Poll, Commit, tallyVars, holderVars
<1>2. CASE Perm(f)
  <2>1. neg' = [Swept EXCEPT ![f] = [NoNegotiation EXCEPT !.state = "new"]]
    BY <1>2 DEF Perm
  <2>2. \A g \in Families : OrGone(g)
    BY <2>1 DEF Swept, OrGone, NoNegotiation
  <2> QED
    BY <1>1, <2>2, OrGoneCounts
<1>3. ASSUME NEW w \in Requests, NEW a \in Agreements, Commit(f, w, a) PROVE CountInv'
  <2>1. /\ neg' = [neg EXCEPT ![f].state = "awaiting-holders", ![f].agreement = a]
        /\ agent[f].phase = "proffered"
    BY <1>3 DEF Commit
  <2>2. \A h \in Holders : neg[f].verdicts[h] = "none"
    BY <2>1 DEF CommitInv, Uncounted, Uncommitted
  <2>3. /\ neg'[f].verdicts = neg[f].verdicts
        /\ \A g \in Families \ {f} : neg'[g] = neg[g]
    BY <2>1 DEF CommitInv, HandsInv, Shaped
  <2>4. \A g \in Families, h \in Holders : CountedBefore(g, h)
    BY <2>2, <2>3 DEF CountedBefore
  <2> QED
    BY <1>1, <2>4, CountStays
<1>4. CASE /\ ~Perm(f) /\ ~\E w \in Requests, a \in Agreements : Commit(f, w, a)
  <2>1. \/ neg' = neg \/ neg' = [neg EXCEPT ![f] = NoNegotiation]
        \/ neg' = [neg EXCEPT ![f].stale = TRUE] \/ neg' = [neg EXCEPT ![f].over = TRUE]
    BY <1>4 DEF Lapse, PresentDead, Decline, RejectClaim, LoseReply, GiveUp, Consume, Outlive,
       AgentCalls, AskTerms, Poll, tallyVars
  <2>2. \A g \in Families : OrGone(g)
    BY <2>1 DEF OrGone, CommitInv, HandsInv, Shaped
  <2> QED
    BY <1>1, <2>2, OrGoneCounts
<1> QED
  BY <1>2, <1>3, <1>4

LEMMA RestartCounts ==
  ASSUME CountInv, NEW m \in Mandates, Restart(m)
  PROVE  CountInv'
<1>1. neg' = [f \in Families |-> NoNegotiation] /\ tokens' = tokens /\ verdicts' = verdicts
  BY DEF Restart, holderVars
<1>2. Counted'
  BY <1>1, NoNegotiationShaped DEF Counted
<1>3. \A t \in tokens' : Released(t)'
  BY <1>1, ReleasedStays DEF CountInv
<1> QED
  BY <1>2, <1>3 DEF CountInv

(* What a request that has a grant to make makes of its negotiation.        *)
LEMMA GrantIsReleased ==
  ASSUME CommitInv, CountInv, NEW f \in Families, Standing(f) = "allow",
         neg[f].agreement \in Agreements
  PROVE  Released(GrantOf(f))
<1> DEFINE t == GrantOf(f)
           Q == {h \in HoldersOf(inForce) : neg[f].verdicts[h] = "allow"}
<1>1. t.family = f /\ t.agreement = neg[f].agreement /\ t.mandate = inForce
  BY DEF GrantOf
<1>2. inForce \in Mandates /\ HoldersOf(inForce) \subseteq Holders
  <2>1. inForce \in Mandates
    BY DEF CommitInv, HandsInv, Shaped
  <2>2. PICK d \in Documents : inForce = Normalised(d)
    BY <2>1 DEF Mandates
  <2>3. HoldersOf(d) = HoldersOf(inForce)
    BY <2>2 DEF HoldersOf, Normalised
  <2> QED
    BY <2>1, <2>3, JointAssumption
<1>3. Releases(inForce, Q)
  BY <1>2, YesIsCarried, CarryingReleases
<1>4. \A h \in Q : Yes(h, f, neg[f].agreement, inForce) \in verdicts
  BY <1>2 DEF CountInv, Counted
<1> HIDE DEF t, Q
<1>5. Q \in SUBSET HoldersOf(inForce)
  BY DEF Q
<1>6. Released(t)
  BY <1>1, <1>2, <1>3, <1>4, <1>5 DEF Released
<1> QED
  BY <1>6 DEF t

LEMMA RequestCounts ==
  ASSUME CommitInv, CountInv, NEW w \in Requests,
         RequestStep(w) \/ QuotesFail(w) \/ Unreachable(w)
  PROVE  CountInv'
<1> PICK f : f = req[w].family
  OBVIOUS
<1>1. inForce' = inForce /\ verdicts' = verdicts
  BY DEF RequestStep, AskQuote, QuotesFail, Unreachable, Dictate, QuotesRefused, FailQuotes,
     Conclude, AskHolder, holderVars, apartVars, authorVars
<1>2. CASE Dictate(w)
  <2>1. /\ f \in Families /\ tokens' = tokens
        /\ \/ neg' = [neg EXCEPT ![f] = NoNegotiation]
           \/ neg' = [neg EXCEPT ![f].state = "need_info",
                                 ![f].template = Template(req[w].quotes, Account, Asked)]
    BY <1>2 DEF Dictate, Idle, CommitInv, HandsInv, Shaped
  <2>2. \A g \in Families : OrGone(g)
    BY <2>1 DEF OrGone, CommitInv, HandsInv, Shaped
  <2> QED
    BY <1>1, <2>1, <2>2, OrGoneCounts
<1>3. CASE Conclude(w)
  <2>1. /\ f \in Families /\ req[w].stage = "collect"
        /\ \/ neg' = [neg EXCEPT ![f] = NoNegotiation]
           \/ neg' = neg
    BY <1>3 DEF Conclude, Idle, CommitInv, HandsInv, Shaped
  <2>2. \A g \in Families : OrGone(g)
    BY <2>1 DEF OrGone, CommitInv, HandsInv, Shaped
  <2>3. CASE tokens' = tokens
    BY <1>1, <2>2, <2>3, OrGoneCounts
  <2>4. CASE Standing(f) = "allow"
    <3>1. tokens' = tokens \cup {GrantOf(f)}
      BY <1>3, <2>4 DEF Conclude
    <3>2. neg[f].agreement \in Agreements
      BY <2>1 DEF CommitInv, InStep
    <3> PICK t : t = GrantOf(f)
      OBVIOUS
    <3>3. Released(t)
      BY <2>1, <2>4, <3>2, GrantIsReleased
    <3>4. \A u \in tokens' : Released(u)'
      BY <1>1, <3>1, <3>3, ReleasedStays DEF CountInv
    <3>5. \A g \in Families, h \in Holders : CountedBefore(g, h)
      BY <2>2, NoNegotiationShaped DEF OrGone, CountedBefore
    <3>6. Counted'
      BY <1>1, <3>5 DEF CountInv, Counted, CountedBefore
    <3> QED
      BY <3>4, <3>6 DEF CountInv
  <2>5. tokens' = tokens \/ Standing(f) = "allow"
    BY <1>3 DEF Conclude
  <2> QED
    BY <2>3, <2>4, <2>5
<1>4. CASE ~Dictate(w) /\ ~Conclude(w)
  <2>1. neg' = neg /\ tokens' = tokens
    BY <1>4 DEF RequestStep, AskQuote, QuotesFail, Unreachable, QuotesRefused, FailQuotes,
       AskHolder, apartVars, authorVars
  <2> QED
    BY <1>1, <2>1, OrGoneCounts DEF OrGone
<1> QED
  BY <1>2, <1>3, <1>4

(* A yes that is counted is signed, over what was asked, under the mandate  *)
(* that counts.                                                             *)
LEMMA YesCounts ==
  ASSUME CommitInv, CountInv, NEW q \in Questions, ~At(q, "idle"),
         question[q].stage \notin Listens, Apart, Allow(q, question[q].agreement)
  PROVE  CountInv'
<1> PICK i, g, a, m : /\ i = question[q].holder /\ g = question[q].family
                      /\ a = question[q].agreement /\ m = question[q].mandate
  OBVIOUS
<1>1. /\ i \in Holders /\ g \in Families /\ m \in Mandates /\ i \in HoldersOf(m)
      /\ inForce \in Mandates /\ inForce' = inForce /\ tokens' = tokens
  BY DEF CommitInv, Asks, HandsInv, Shaped, Apart
<1>2. verdicts' = verdicts \cup {Yes(i, g, a, m)}
  BY DEF Allow, Yes
<1>3. CASE Verifies(q, m) /\ ReplyCounted(q, "allow", TRUE)
  <2>1. m = inForce /\ neg[g].agreement = a
    BY <1>1, <1>3, DigestTells DEF Verifies
  <2>2. /\ \A f \in Families : neg'[f].agreement = neg[f].agreement
        /\ \A f \in Families, h \in Holders :
             \/ /\ neg'[f].verdicts[h] = neg[f].verdicts[h]
                /\ h \in neg[f].signed => h \in neg'[f].signed
             \/ /\ f = g /\ h = i
                /\ neg'[f].verdicts[h] = "allow" /\ h \in neg'[f].signed
    <3>1. Shaped /\ Asks
      BY DEF CommitInv, HandsInv
    <3>2. \A f \in Families : neg'[f].agreement = neg[f].agreement
      BY <1>3, <3>1, Counts
    <3>3. \A f \in Families, h \in Holders :
             \/ /\ neg'[f].verdicts[h] = neg[f].verdicts[h]
                /\ h \in neg[f].signed => h \in neg'[f].signed
             \/ /\ f = question[q].family /\ h = question[q].holder
                /\ neg'[f].verdicts[h] = "allow" /\ (TRUE => h \in neg'[f].signed)
      BY <1>3, <3>1, Counts
    <3> QED
      BY <3>2, <3>3
  <2>3. ASSUME NEW f \in Families, NEW h \in Holders, neg'[f].verdicts[h] = "allow"
        PROVE  /\ h \in HoldersOf(inForce') /\ h \in neg'[f].signed
               /\ Yes(h, f, neg'[f].agreement, inForce') \in verdicts'
    <3>1. CASE f = g /\ h = i /\ h \in neg'[f].signed
      BY <1>1, <1>2, <2>1, <2>2, <3>1
    <3>2. CASE /\ neg'[f].verdicts[h] = neg[f].verdicts[h]
               /\ h \in neg[f].signed => h \in neg'[f].signed
      <4>1. neg[f].verdicts[h] = "allow"
        BY <2>3, <3>2
      <4>2. /\ h \in HoldersOf(inForce) /\ h \in neg[f].signed
            /\ Yes(h, f, neg[f].agreement, inForce) \in verdicts
        BY <4>1 DEF CountInv, Counted
      <4> QED
        BY <1>1, <1>2, <2>2, <3>2, <4>2
    <3> QED
      BY <2>2, <2>3, <3>1, <3>2
  <2>4. Counted'
    BY <2>3 DEF Counted, Yes
  <2>5. \A t \in tokens' : Released(t)'
    BY <1>1, <1>2, ReleasedStays DEF CountInv
  <2> QED
    BY <2>4, <2>5 DEF CountInv
<1>4. CASE ReplyUncounted(q)
  <2>1. neg' = neg
    BY <1>4 DEF ReplyUncounted
  <2>2. \A f \in Families, h \in Holders : CountedBefore(f, h)
    BY <2>1 DEF CountedBefore
  <2> QED
    BY <1>1, <1>2, <2>2, CountStays
<1> QED
  BY <1>3, <1>4 DEF Allow

LEMMA AnswerCounts ==
  ASSUME CommitInv, CountInv, NEW q \in Questions, ~At(q, "idle"), Apart, verdicts' = verdicts,
         \/ neg' = neg
         \/ \E signed \in BOOLEAN : ReplyCounted(q, "refuse", signed)
  PROVE  CountInv'
<1>1. \A f \in Families, h \in Holders : CountedBefore(f, h)
  <2>1. CASE neg' = neg
    BY <2>1 DEF CountedBefore
  <2>2. ASSUME NEW signed \in BOOLEAN, ReplyCounted(q, "refuse", signed)
        PROVE  \A f \in Families, h \in Holders : CountedBefore(f, h)
    <3>1. /\ \A f \in Families : neg'[f].agreement = neg[f].agreement
          /\ \A f \in Families, h \in Holders :
               \/ /\ neg'[f].verdicts[h] = neg[f].verdicts[h]
                  /\ h \in neg[f].signed => h \in neg'[f].signed
               \/ neg'[f].verdicts[h] = "refuse"
      BY <2>2, Counts DEF CommitInv, HandsInv
    <3>2. "refuse" # "allow"
      OBVIOUS
    <3> QED
      BY <3>1, <3>2 DEF CountedBefore
  <2> QED
    BY <2>1, <2>2
<1> QED
  BY <1>1, CountStays DEF Apart

(* What an authority does that signs no yes.                                *)
LEMMA OnlyYesesSign ==
  ASSUME NEW q \in Questions, QuestionStep(q) \/ CannotReadMandate(q) \/ Die(q)
  PROVE  \/ /\ verdicts' = verdicts
            /\ \/ neg' = neg
               \/ \E signed \in BOOLEAN : ReplyCounted(q, "refuse", signed)
         \/ /\ Allow(q, question[q].agreement) /\ question[q].stage \notin Listens
            /\ Done(q)
<1>1. CASE Arrive(q)
  BY <1>1 DEF Arrive
<1>2. CASE CheckMandate(q)
  BY <1>2 DEF CheckMandate, Refuse
<1>3. CASE ReadRow(q)
  BY <1>3 DEF ReadRow, Refuse, ReplyUncounted
<1>4. CASE CloseRow(q)
  BY <1>4 DEF CloseRow, Refuse
<1>5. CASE CheckWithdrawn(q)
  BY <1>5 DEF CheckWithdrawn, Refuse, Allow, At, Listens
<1>6. CASE Evaluate(q)
  BY <1>6 DEF Evaluate, Refuse, Allow, At, Listens
<1>7. CASE Save(q)
  BY <1>7 DEF Save, ReplyUncounted
<1>8. CASE CannotReadMandate(q)
  BY <1>8 DEF CannotReadMandate, Refuse
<1>9. CASE Die(q)
  BY <1>9 DEF Die, ReplyUncounted
<1> QED
  BY <1>1, <1>2, <1>3, <1>4, <1>5, <1>6, <1>7, <1>8, <1>9 DEF QuestionStep

LEMMA QuestionCounts ==
  ASSUME CommitInv, CountInv, NEW q \in Questions,
         QuestionStep(q) \/ CannotReadMandate(q) \/ Die(q)
  PROVE  CountInv'
<1>1. ~At(q, "idle") /\ Apart
  BY QuestionAnswers
<1> QED
  BY <1>1, OnlyYesesSign, YesCounts, AnswerCounts

LEMMA HolderCounts ==
  ASSUME CountInv, NEW h \in Holders, HolderActs(h)
  PROVE  CountInv'
<1>1. inForce' = inForce /\ tokens' = tokens /\ verdicts' = verdicts /\ neg' = neg
  BY DEF HolderActs, Decide, Withdraw, Join, Leave, Edit, tallyVars
<1> QED
  BY <1>1, OrGoneCounts DEF OrGone

LEMMA StrayCounts ==
  ASSUME CountInv, Strayed
  PROVE  CountInv'
<1>1. inForce' = inForce /\ tokens' = tokens /\ verdicts' = verdicts /\ neg' = neg
  BY DEF Strayed, AskAbout, authorVars
<1> QED
  BY <1>1, OrGoneCounts DEF OrGone

LEMMA CountInit ==
  ASSUME Init
  PROVE  CountInv
<1>1. neg = [f \in Families |-> NoNegotiation] /\ tokens = {}
  BY DEF Init
<1> QED
  BY <1>1, NoNegotiationShaped DEF CountInv, Counted

LEMMA CountStep ==
  ASSUME CommitInv, CountInv, [Next]_vars
  PROVE  CountInv'
<1>1. CASE UNCHANGED vars
  BY <1>1, OrGoneCounts DEF vars, tallyVars, holderVars, OrGone
<1> QED
  BY <1>1, StepIs, FamilyCounts, RequestCounts, QuestionCounts, StrayCounts, RestartCounts,
     HolderCounts

(* What is counted was signed under the mandate that counts, and every      *)
(* grant is released by holders who carry it.                               *)
THEOREM CountsHold == Spec => [](CommitInv /\ CountInv)
<1>1. Init => CommitInv /\ CountInv
  BY CommitInit, CountInit
<1>2. CommitInv /\ CountInv /\ [Next]_vars => (CommitInv /\ CountInv)'
  BY CommitStep, CountStep
<1> QED
  BY <1>1, <1>2, PTL DEF Spec
-----------------------------------------------------------------------------
(* The tally and the holders' authorities implement JointDecision.          *)

LEMMA MapsInit ==
  ASSUME Init
  PROVE  Decision!Init
<1>1. verdicts = {} /\ tokens = {}
  BY DEF Init
<1> QED
  BY <1>1 DEF Decision!Init

LEMMA MapsStutter ==
  ASSUME verdicts' = verdicts, tokens' = tokens
  PROVE  UNCHANGED Decision!vars
  BY DEF Decision!vars

LEMMA MapsAllow ==
  ASSUME CommitInv, NEW q \in Questions, ~At(q, "idle"), question[q].stage \notin Listens,
         Allow(q, question[q].agreement), tokens' = tokens
  PROVE  Decision!Next
<1> PICK i, g, a, m : /\ i = question[q].holder /\ g = question[q].family
                      /\ a = question[q].agreement /\ m = question[q].mandate
  OBVIOUS
<1>1. /\ g \in Families /\ a \in Agreements /\ m \in Mandates /\ i \in HoldersOf(m)
  BY DEF CommitInv, Asks
<1>2. verdicts' = verdicts \cup {[holder |-> i, family |-> g, agreement |-> a, mandate |-> m]}
  BY DEF Allow
<1>3. Decision!Allow(i, g, a, m)
  BY <1>2 DEF Decision!Allow
<1>4. i \in [n \in Mandates |-> HoldersOf(n)][m]
  BY <1>1
<1> QED
  BY <1>1, <1>3, <1>4 DEF Decision!Next

LEMMA MapsGrant ==
  ASSUME CommitInv, CountInv, NEW w \in Requests, Conclude(w), Standing(req[w].family) = "allow"
  PROVE  Decision!Next
<1> PICK f : f = req[w].family
  OBVIOUS
<1> PICK t : t = GrantOf(f)
  OBVIOUS
<1>1. /\ f \in Families /\ ~Idle(w) /\ req[w].stage = "collect"
      /\ tokens' = tokens \cup {t} /\ verdicts' = verdicts
  BY DEF Conclude, Idle, holderVars, CommitInv, HandsInv, Shaped
<1>2. neg[f].agreement \in Agreements
  BY <1>1 DEF CommitInv, InStep
<1>3. Released(t) /\ t.family = f
  BY <1>1, <1>2, GrantIsReleased DEF GrantOf
<1>4. PICK Q \in SUBSET HoldersOf(t.mandate) :
        /\ Releases(t.mandate, Q)
        /\ \A h \in Q : Yes(h, t.family, t.agreement, t.mandate) \in verdicts
  BY <1>3 DEF Released
<1>5. t.agreement \in Agreements /\ t.mandate \in Mandates
  BY <1>3 DEF Released
<1>6. Q \in [m \in Mandates |-> {S \in SUBSET HoldersOf(m) : Releases(m, S)}][t.mandate]
  BY <1>4, <1>5
<1>7. Decision!Backed(f, t.agreement, t.mandate)
  BY <1>3, <1>4, <1>6 DEF Decision!Backed, Yes
<1>8. \A u \in tokens : u.family # f
  BY <1>1 DEF CommitInv, HandsInv, Hands, WorkedOn
<1>9. Decision!Grant(f, t.agreement, t.mandate)
  BY <1>1, <1>3, <1>7, <1>8 DEF Decision!Grant
<1> QED
  BY <1>1, <1>5, <1>9 DEF Decision!Next

LEMMA MapsStep ==
  ASSUME CommitInv, CountInv, [Next]_vars
  PROVE  Decision!Next \/ UNCHANGED Decision!vars
<1>1. CASE UNCHANGED vars
  BY <1>1, MapsStutter DEF vars, tallyVars, holderVars
<1>2. ASSUME NEW f \in Families,
             \/ Perm(f) \/ Lapse(f) \/ PresentDead(f) \/ Decline(f) \/ RejectClaim(f)
             \/ LoseReply(f) \/ GiveUp(f) \/ Consume(f) \/ Outlive(f)
             \/ \E w \in Requests : AgentCalls(f, w)
      PROVE UNCHANGED Decision!vars
  <2>1. tokens' = tokens /\ verdicts' = verdicts
    BY <1>2 DEF Perm, Lapse, PresentDead, Decline, RejectClaim, LoseReply, GiveUp, Consume,
       Outlive, AgentCalls, AskTerms, Poll, Commit, tallyVars, holderVars
  <2> QED
    BY <2>1, MapsStutter
<1>3. ASSUME NEW w \in Requests, RequestStep(w) \/ QuotesFail(w) \/ Unreachable(w)
      PROVE Decision!Next \/ UNCHANGED Decision!vars
  <2>1. \/ Conclude(w) /\ Standing(req[w].family) = "allow"
        \/ tokens' = tokens /\ verdicts' = verdicts
    BY <1>3 DEF RequestStep, AskQuote, QuotesFail, Unreachable, Dictate, QuotesRefused,
       FailQuotes, Conclude, AskHolder, holderVars, apartVars, authorVars
  <2> QED
    BY <2>1, MapsGrant, MapsStutter
<1>4. ASSUME NEW q \in Questions, QuestionStep(q) \/ CannotReadMandate(q) \/ Die(q)
      PROVE Decision!Next \/ UNCHANGED Decision!vars
  <2>1. ~At(q, "idle") /\ tokens' = tokens
    BY <1>4, QuestionAnswers DEF Apart
  <2> QED
    BY <1>4, <2>1, OnlyYesesSign, MapsAllow, MapsStutter
<1>5. ASSUME NEW m \in Mandates, Restart(m) PROVE UNCHANGED Decision!vars
  BY <1>5, MapsStutter DEF Restart, holderVars
<1>6. ASSUME NEW h \in Holders, HolderActs(h) PROVE UNCHANGED Decision!vars
  <2>1. tokens' = tokens /\ verdicts' = verdicts
    BY <1>6 DEF HolderActs, Decide, Withdraw, Join, Leave, Edit, tallyVars
  <2> QED
    BY <2>1, MapsStutter
<1>7. CASE Strayed
  BY <1>7, MapsStutter DEF Strayed, AskAbout, authorVars
<1> QED
  BY <1>1, <1>2, <1>3, <1>4, <1>5, <1>6, <1>7, StepIs

(* A grant is made over the one agreement that holders who carry the        *)
(* threshold of the mandate have allowed, each under that mandate and no    *)
(* fewer than the floor, and once to a negotiation: the tally, with its     *)
(* restarts and its lost replies, implements JointDecision (settle).        *)
THEOREM TallyKeepsTheCount == Spec => KeepsTheCount
<1>1. Init => Decision!Init
  BY MapsInit
<1>2. CommitInv /\ CountInv /\ [Next]_vars => [Decision!Next]_(Decision!vars)
  BY MapsStep
<1> QED
  BY <1>1, <1>2, CountsHold, PTL DEF Spec, KeepsTheCount, Decision!Spec
-----------------------------------------------------------------------------
(* The holders' quotes.                                                     *)

(* What a quote, and what several of them fold to, is a record of.          *)
Scopes == UNION {t.scope : t \in Tiers}
Forbidden == UNION {t.prohibited : t \in Tiers}

Foldable ==
  [resources : {Account}, ask_me : BOOLEAN, expires_in : Nat,
   scope : SUBSET Scopes, prohibited : SUBSET Forbidden, clearance : [{} -> {}]]

LEMMA TierIsQuoted ==
  ASSUME NEW t \in Tiers
  PROVE  /\ QuoteOf(t, Account) \in Foldable
         /\ QuoteOf(t, Account).scope # AnyScope
         /\ \A signed : /\ Inside(signed, QuoteOf(t, Account)) <=> Inside(signed, t)
                        /\ NoWider(signed, QuoteOf(t, Account)) <=> NoWider(signed, t)
<1> PICK q : q = QuoteOf(t, Account)
  OBVIOUS
<1>1. /\ DOMAIN t = {"resources", "ask_me", "expires_in", "scope", "prohibited", "clearance"}
      /\ t.ask_me \in BOOLEAN /\ t.expires_in \in Nat /\ t.scope # AnyScope
  <2>1. PICK h \in Holders : t \in Written[h] /\ t # None
    BY DEF Tiers
  <2> QED
    BY <2>1, JointAssumption
<1>2. q = [field \in DOMAIN t |-> IF field = "resources" THEN Account
                                  ELSE IF field = "clearance" THEN NoPatch ELSE t[field]]
  BY DEF QuoteOf
<1>3. NoPatch \in [{} -> {}]
  BY DEF NoPatch
<1>4. t.scope \in SUBSET Scopes /\ t.prohibited \in SUBSET Forbidden
  BY DEF Scopes, Forbidden
<1>5. /\ q.resources = Account /\ q.clearance = NoPatch /\ q.ask_me = t.ask_me
      /\ q.expires_in = t.expires_in /\ q.scope = t.scope /\ q.prohibited = t.prohibited
  BY <1>1, <1>2
<1>6. q \in Foldable
  <2>1. q = [resources |-> q.resources, ask_me |-> q.ask_me, expires_in |-> q.expires_in,
             scope |-> q.scope, prohibited |-> q.prohibited, clearance |-> q.clearance]
    BY <1>1, <1>2
  <2> QED
    BY <2>1, <1>1, <1>3, <1>4, <1>5 DEF Foldable
<1> QED
  BY <1>1, <1>5, <1>6 DEF Inside, NoWider

(* One more quote narrows what was folded, to no wider than the quote; and  *)
(* what is inside both stays inside.                                        *)
LEMMA ClampMeets ==
  ASSUME NEW f \in Foldable, NEW q \in Foldable, q.scope # AnyScope
  PROVE  LET both == Clamp(f, AsCeiling(q, Account)) IN
         /\ both \in Foldable
         /\ Inside(both, f) /\ NoWider(both, q)
         /\ \A signed : signed.expires_in \in Int =>
              (Inside(signed, f) /\ Inside(signed, q) => Inside(signed, both))
<1> DEFINE e == AsCeiling(q, Account)
<1> PICK both : both = Clamp(f, e)
  OBVIOUS
<1>1. /\ e.claims = Account /\ e.excluded = {} /\ e.max_expires_in = q.expires_in
      /\ e.allowed_scopes = q.scope /\ e.require_prohibited = q.prohibited
      /\ e.require_clearance = NoPatch
  BY DEF AsCeiling
<1> HIDE DEF e
<1>2. Governs(f, e)
  BY <1>1, JointAssumption DEF Foldable, Governs, Reaches
<1> DEFINE ends == IF q.expires_in > 0 /\ f.expires_in > q.expires_in
                   THEN q.expires_in ELSE f.expires_in
           asks == f.ask_me \/ f.resources \cap e.always_ask # {}
           clear == Tighten(f.clearance, NoPatch)
<1>3. both = [f EXCEPT !.expires_in = ends, !.scope = f.scope \cap q.scope,
                       !.prohibited = f.prohibited \cup q.prohibited,
                       !.ask_me = asks, !.clearance = clear]
  BY <1>1, <1>2, q.scope # AnyScope DEF Clamp
<1>4. clear \in [{} -> {}]
  BY DEF Tighten, NoPatch, Foldable
<1>5. ends \in Nat /\ asks \in BOOLEAN
  BY DEF Foldable
<1>6. /\ both.expires_in = ends /\ both.scope = f.scope \cap q.scope
      /\ both.prohibited = f.prohibited \cup q.prohibited
  BY <1>3 DEF Foldable
<1>7. both \in Foldable
  BY <1>3, <1>4, <1>5 DEF Foldable
<1>8. ends <= f.expires_in /\ (q.expires_in > 0 => ends <= q.expires_in)
  BY DEF Foldable
<1>9. ASSUME NEW signed, signed.expires_in \in Int, Inside(signed, f), Inside(signed, q)
      PROVE  Inside(signed, both)
  <2>1. signed.expires_in <= ends
    BY <1>9 DEF Foldable, Inside
  <2> HIDE DEF ends
  <2> QED
    BY <1>6, <1>9, <2>1 DEF Inside
<1> HIDE DEF ends
<1>10. Inside(both, f) /\ NoWider(both, q)
  BY <1>6, <1>8 DEF Inside, NoWider
<1> QED
  BY <1>7, <1>9, <1>10 DEF e

LEMMA InsideIsPassedOn ==
  ASSUME NEW a \in Foldable, NEW b \in Foldable, NEW c \in Foldable, Inside(a, b)
  PROVE  /\ Inside(b, c) => Inside(a, c)
         /\ NoWider(b, c) => NoWider(a, c)
  BY DEF Foldable, Inside, NoWider

(* The fold, as the recursive function that it is.                          *)
FoldStep(rest, base, g) ==
  [s \in SUBSET DOMAIN rest |->
     IF s = {} THEN base ELSE Clamp(g[s \ {Max(s)}], AsCeiling(rest[Max(s)], Account))]

LEMMA FoldIs ==
  ASSUME NEW quotes
  PROVE  Fold(quotes, Account) =
           (CHOOSE g : g = FoldStep(Tail(quotes), Head(quotes), g))[DOMAIN Tail(quotes)]
  BY DEF Fold, FoldLeft, MapThenFoldSet, FoldStep

LEMMA RestMeets ==
  ASSUME NEW n \in Nat, NEW rest, DOMAIN rest = 1..n,
         \A i \in 1..n : rest[i] \in Foldable /\ rest[i].scope # AnyScope,
         NEW base \in Foldable
  PROVE  LET folded == (CHOOSE g : g = FoldStep(rest, base, g))[DOMAIN rest] IN
         /\ folded \in Foldable
         /\ Inside(folded, base) /\ \A i \in 1..n : NoWider(folded, rest[i])
         /\ \A signed : signed.expires_in \in Int =>
              (Inside(signed, base) /\ (\A i \in 1..n : Inside(signed, rest[i]))
                 => Inside(signed, folded))
<1> DEFINE step == [p \in Foldable \X (1..n) |-> Clamp(p[1], AsCeiling(rest[p[2]], Account))]
           h == CHOOSE g : g = FoldStep(rest, base, g)
<1>1. \E g : g = FoldStep(rest, base, g)
  <2>1. step \in [Foldable \X (1..n) -> Foldable]
    BY ClampMeets
  <2> HIDE DEF step
  <2>2. PICK g : FoldsTo(g, Foldable, base, n, step)
    BY <2>1, FoldExists
  <2>3. ASSUME NEW s \in SUBSET (1..n), s # {}
        PROVE  step[<<g[s \ {Max(s)}], Max(s)>>] =
                 Clamp(g[s \ {Max(s)}], AsCeiling(rest[Max(s)], Account))
    <3>1. Max(s) \in 1..n /\ s \ {Max(s)} \in SUBSET (1..n)
      BY <2>3, MaxIsOne
    <3> QED
      BY <2>2, <3>1 DEF step, FoldsTo
  <2>4. g = FoldStep(rest, base, g)
    <3>1. \A s \in SUBSET (1..n) : g[s] = FoldStep(rest, base, g)[s]
      BY <2>2, <2>3 DEF FoldsTo, FoldStep
    <3>2. DOMAIN g = SUBSET (1..n) /\ g = [s \in SUBSET (1..n) |-> g[s]]
      BY <2>2 DEF FoldsTo
    <3> QED
      BY <3>1, <3>2 DEF FoldStep
  <2> QED
    BY <2>4
<1>2. h = FoldStep(rest, base, h)
  BY <1>1
<1> HIDE DEF h, step
<1> DEFINE Keeps(k) == Inside(h[1..k], base) /\ \A i \in 1..k : NoWider(h[1..k], rest[i])
           Lets(k) ==
             \A signed : signed.expires_in \in Int =>
               (Inside(signed, base) /\ (\A i \in 1..k : Inside(signed, rest[i]))
                  => Inside(signed, h[1..k]))
           S == {k \in Nat : k <= n => h[1..k] \in Foldable /\ Keeps(k) /\ Lets(k)}
<1>3. 0 \in S
  <2>1. 1..0 = {}
    OBVIOUS
  <2>2. h[1..0] = base
    BY <1>2, <2>1 DEF FoldStep
  <2>3. Inside(base, base)
    BY DEF Inside, Foldable
  <2> QED
    BY <2>1, <2>2, <2>3
<1>4. ASSUME NEW k \in S PROVE k + 1 \in S
  <2>1. SUFFICES ASSUME k + 1 <= n
                 PROVE  h[1..(k + 1)] \in Foldable /\ Keeps(k + 1) /\ Lets(k + 1)
    BY k + 1 \in Nat
  <2>2. k \in Nat /\ k + 1 \in 1..n /\ k <= n /\ (k + 1) - 1 = k
    BY <2>1
  <2>3. /\ 1..(k + 1) \in SUBSET (1..n) /\ 1..(k + 1) # {}
        /\ Max(1..(k + 1)) = k + 1 /\ (1..(k + 1)) \ {k + 1} = 1..k
    BY <2>2, Prefix
  <2>4. h[1..(k + 1)] = Clamp(h[1..k], AsCeiling(rest[k + 1], Account))
    BY <1>2, <2>3 DEF FoldStep
  <2>5. h[1..k] \in Foldable /\ Keeps(k) /\ Lets(k)
    BY <2>2
  <2>6. /\ h[1..(k + 1)] \in Foldable
        /\ Inside(h[1..(k + 1)], h[1..k]) /\ NoWider(h[1..(k + 1)], rest[k + 1])
        /\ \A signed : signed.expires_in \in Int =>
             (Inside(signed, h[1..k]) /\ Inside(signed, rest[k + 1])
                => Inside(signed, h[1..(k + 1)]))
    BY <2>2, <2>4, <2>5, ClampMeets
  <2>7. 1..(k + 1) = (1..k) \cup {k + 1} /\ 1..k \subseteq 1..n
    BY <2>2
  <2>8. Keeps(k + 1)
    <3>1. Inside(h[1..(k + 1)], base)
      BY <2>5, <2>6, InsideIsPassedOn
    <3>2. \A i \in 1..k : NoWider(h[1..(k + 1)], rest[i])
      BY <2>5, <2>6, <2>7, InsideIsPassedOn
    <3> QED
      BY <2>6, <2>7, <3>1, <3>2
  <2>9. Lets(k + 1)
    BY <2>5, <2>6, <2>7
  <2> QED
    BY <2>6, <2>8, <2>9
<1> HIDE DEF S
<1>5. S = Nat
  <2>1. S \in SUBSET Nat
    BY DEF S
  <2> QED
    BY <1>3, <1>4, <2>1, Induction
<1>6. h[1..n] \in Foldable /\ Keeps(n) /\ Lets(n)
  BY <1>5 DEF S
<1> QED
  BY <1>6 DEF h

(* What quotes fold to is no wider than any of them, and lets through what  *)
(* all of them do.                                                          *)
LEMMA FoldMeets ==
  ASSUME NEW quotes \in Seq(Quotes), quotes # <<>>
  PROVE  /\ Fold(quotes, Account) \in Foldable
         /\ \A i \in 1..Len(quotes) : NoWider(Fold(quotes, Account), quotes[i])
         /\ \A signed : signed.expires_in \in Int =>
              ((\A i \in 1..Len(quotes) : Inside(signed, quotes[i]))
                 => Inside(signed, Fold(quotes, Account)))
<1> PICK n : n = Len(quotes) - 1
  OBVIOUS
<1>1. n \in Nat /\ Len(quotes) = n + 1 /\ DOMAIN quotes = 1..(n + 1)
  BY EmptySeq
<1>2. /\ Head(quotes) = quotes[1] /\ DOMAIN Tail(quotes) = 1..n
      /\ \A i \in 1..n : Tail(quotes)[i] = quotes[i + 1]
  BY <1>1, HeadTailProperties
<1>3. \A i \in 1..(n + 1) : quotes[i] \in Foldable /\ quotes[i].scope # AnyScope
  <2>1. \A i \in 1..(n + 1) : quotes[i] \in Quotes
    BY <1>1
  <2> QED
    BY <2>1, TierIsQuoted DEF Quotes
<1>4. \A i \in 1..n : i + 1 \in 1..(n + 1)
  BY <1>1
<1>5. 1 \in 1..(n + 1)
  BY <1>1
<1>6. \A i \in 1..(n + 1) : i = 1 \/ (i - 1 \in 1..n /\ (i - 1) + 1 = i)
  BY <1>1
<1> PICK folded : folded = Fold(quotes, Account)
  OBVIOUS
<1>7. /\ folded \in Foldable
      /\ Inside(folded, quotes[1]) /\ \A i \in 1..n : NoWider(folded, Tail(quotes)[i])
      /\ \A signed : signed.expires_in \in Int =>
           (Inside(signed, quotes[1]) /\ (\A i \in 1..n : Inside(signed, Tail(quotes)[i]))
              => Inside(signed, folded))
  <2>1. \A i \in 1..n : Tail(quotes)[i] \in Foldable /\ Tail(quotes)[i].scope # AnyScope
    BY <1>2, <1>3, <1>4
  <2>2. Head(quotes) \in Foldable
    BY <1>2, <1>3, <1>5
  <2>3. LET all == (CHOOSE g : g = FoldStep(Tail(quotes), Head(quotes), g))[DOMAIN Tail(quotes)] IN
        /\ all \in Foldable
        /\ Inside(all, Head(quotes)) /\ \A i \in 1..n : NoWider(all, Tail(quotes)[i])
        /\ \A signed : signed.expires_in \in Int =>
             (Inside(signed, Head(quotes)) /\ (\A i \in 1..n : Inside(signed, Tail(quotes)[i]))
                => Inside(signed, all))
    BY <1>1, <1>2, <2>1, <2>2, RestMeets
  <2> QED
    BY <1>2, <2>3, FoldIs
<1>8. ASSUME NEW i \in 1..(n + 1) PROVE NoWider(folded, quotes[i])
  <2>1. CASE i = 1
    BY <1>7, <2>1 DEF Inside, NoWider
  <2>2. CASE i # 1
    <3>1. i - 1 \in 1..n /\ (i - 1) + 1 = i
      BY <1>6, <2>2
    <3>2. Tail(quotes)[i - 1] = quotes[i]
      BY <1>2, <3>1
    <3> QED
      BY <1>7, <3>1, <3>2
  <2> QED
    BY <2>1, <2>2
<1>9. ASSUME NEW signed, signed.expires_in \in Int, \A i \in 1..(n + 1) : Inside(signed, quotes[i])
      PROVE  Inside(signed, folded)
  <2>1. Inside(signed, quotes[1]) /\ \A i \in 1..n : Inside(signed, Tail(quotes)[i])
    BY <1>2, <1>4, <1>5, <1>9
  <2> QED
    BY <1>7, <1>9, <2>1
<1> QED
  BY <1>1, <1>7, <1>8, <1>9

InSeq(seq) == {seq[i] : i \in 1..Len(seq)}

LEMMA AppendAdds ==
  ASSUME NEW S, NEW seq \in Seq(S), NEW e \in S
  PROVE  /\ Append(seq, e) \in Seq(S)
         /\ InSeq(Append(seq, e)) = InSeq(seq) \cup {e}
<1>1. /\ Append(seq, e) \in Seq(S) /\ Len(Append(seq, e)) = Len(seq) + 1 /\ Len(seq) \in Nat
      /\ \A i \in 1..Len(seq) : Append(seq, e)[i] = seq[i]
      /\ Append(seq, e)[Len(seq) + 1] = e
  BY AppendProperties, LenProperties
<1>2. 1..(Len(seq) + 1) = (1..Len(seq)) \cup {Len(seq) + 1}
  BY <1>1
<1> QED
  BY <1>1, <1>2 DEF InSeq

LEMMA MandateHolders ==
  ASSUME NEW m \in Mandates
  PROVE  HoldersOf(m) \subseteq Holders
<1>1. PICK d \in Documents : m = Normalised(d)
  BY DEF Mandates
<1>2. HoldersOf(d) = HoldersOf(m)
  BY <1>1 DEF HoldersOf, Normalised
<1> QED
  BY <1>2, JointAssumption

(* What an agent is asked to sign, next to the tiers that were quoted.      *)
LEMMA TemplateMeets ==
  ASSUME NEW quotes \in Seq(Quotes), quotes # <<>>, NEW quoted \in SUBSET Tiers,
         InSeq(quotes) = {QuoteOf(t, Account) : t \in quoted}
  PROVE  LET offered == Template(quotes, Account, Asked) IN
         /\ offered.expires_in \in Nat
         /\ \A t \in quoted : NoWider(offered, t)
         /\ \A signed :
              /\ signed.expires_in \in Int /\ (Asked = {} \/ signed.scope \subseteq Asked)
              /\ \A t \in quoted : Inside(signed, t)
              => Inside(signed, offered)
<1> PICK offered : offered = Template(quotes, Account, Asked)
  OBVIOUS
<1> PICK folded : folded = Fold(quotes, Account)
  OBVIOUS
<1>1. /\ folded \in Foldable
      /\ \A i \in 1..Len(quotes) : NoWider(folded, quotes[i])
      /\ \A signed : signed.expires_in \in Int =>
           ((\A i \in 1..Len(quotes) : Inside(signed, quotes[i])) => Inside(signed, folded))
  BY FoldMeets
<1>2. ASSUME NEW signed
      PROVE  (\A i \in 1..Len(quotes) : Inside(signed, quotes[i]))
               <=> \A t \in quoted : Inside(signed, t)
  <2>1. (\A i \in 1..Len(quotes) : Inside(signed, quotes[i]))
          <=> \A q \in InSeq(quotes) : Inside(signed, q)
    BY DEF InSeq
  <2> QED
    BY <2>1, TierIsQuoted
<1>3. /\ offered.expires_in = folded.expires_in /\ offered.prohibited = folded.prohibited
      /\ offered.scope = IF Asked = {} THEN folded.scope ELSE folded.scope \cap Asked
  BY DEF Template
<1>4. offered.expires_in \in Nat
  BY <1>1, <1>3 DEF Foldable
<1>5. ASSUME NEW t \in quoted PROVE NoWider(offered, t)
  <2>1. PICK i \in 1..Len(quotes) : quotes[i] = QuoteOf(t, Account)
    BY DEF InSeq
  <2>2. NoWider(folded, t)
    BY <1>1, <2>1, TierIsQuoted
  <2> QED
    BY <1>3, <2>2 DEF NoWider
<1>6. ASSUME NEW signed, signed.expires_in \in Int, Asked = {} \/ signed.scope \subseteq Asked,
             \A t \in quoted : Inside(signed, t)
      PROVE  Inside(signed, offered)
  <2>1. Inside(signed, folded)
    BY <1>1, <1>2, <1>6
  <2> QED
    BY <1>3, <1>6, <2>1 DEF Inside
<1> QED
  BY <1>4, <1>5, <1>6

-----------------------------------------------------------------------------
(* What a request has read.                                                 *)

TermsWritten ==
  /\ DOMAIN terms = Holders /\ DOMAIN had = Holders
  /\ \A h \in Holders : /\ terms[h] \in Written[h] /\ terms[h] \in had[h]
                        /\ had[h] \subseteq Written[h]

(* Its quotes are of what the holders that it has asked had for terms then: *)
(* of one who has edited hers since, some that she has had.                 *)
ReadsAs(w, read) ==
  /\ \A h \in HoldersOf(inForce) : HasRead(w, h) =>
       /\ read[h] \in had[h]
       /\ h \notin req[w].outdated => read[h] = terms[h]
  /\ InSeq(req[w].quotes) =
       {QuoteOf(read[h], Account) :
          h \in {g \in HoldersOf(inForce) : HasRead(w, g) /\ read[g] # None}}

Reads(w) ==
  req[w].stage = "quotes" =>
    /\ req[w].quotes \in Seq(Quotes)
    /\ \E read \in [Holders -> Tiers \cup {None}] : ReadsAs(w, read)

ReadInv == TermsWritten /\ \A w \in Requests : Reads(w)

LEMMA WrittenIsTier ==
  ASSUME NEW h \in Holders, NEW tier \in Written[h]
  PROVE  tier \in Tiers \cup {None}
  BY DEF Tiers

(* Nothing that a request reads has changed, or it is past reading.         *)
ReadKept ==
  /\ terms' = terms /\ had' = had /\ inForce' = inForce
  /\ \A w \in Requests : req'[w] = req[w] \/ req'[w].stage # "quotes"

LEMMA ReadStays ==
  ASSUME ReadInv, ReadKept
  PROVE  ReadInv'
<1>1. TermsWritten'
  BY DEF ReadInv, ReadKept, TermsWritten
<1>2. ASSUME NEW w \in Requests, req'[w].stage = "quotes"
      PROVE  Reads(w)'
  <2>1. /\ req'[w] = req[w] /\ terms' = terms /\ had' = had /\ inForce' = inForce
    BY <1>2 DEF ReadKept
  <2>2. Reads(w)
    BY DEF ReadInv
  <2> QED
    BY <2>1, <2>2 DEF Reads, ReadsAs, HasRead
<1>3. \A w \in Requests : Reads(w)'
  BY <1>2 DEF Reads
<1> QED
  BY <1>1, <1>3 DEF ReadInv

LEMMA AskTermsReads ==
  ASSUME CommitInv, ReadInv, NEW f \in Families, NEW v \in Requests, AskTerms(f, v)
  PROVE  ReadInv'
<1>1. /\ terms' = terms /\ had' = had /\ inForce' = inForce
      /\ req' = [req EXCEPT ![v] = Holding(f, "quotes")]
  BY DEF AskTerms, holderVars
<1>2. DOMAIN req = Requests
  BY DEF CommitInv, HandsInv, Shaped
<1>3. /\ req'[v].at = 1 /\ req'[v].quotes = <<>>
      /\ \A w \in Requests \ {v} : req'[w] = req[w]
  BY <1>1, <1>2 DEF Holding, NoRequest
<1>4. \A h : ~HasRead(v, h)'
  BY <1>3 DEF HasRead
<1>5. Reads(v)'
  <2>1. <<>> \in Seq(Quotes) /\ InSeq(<<>>) = {}
    BY EmptySeq DEF InSeq
  <2>2. PICK read : read = [h \in Holders |-> None]
    OBVIOUS
  <2>3. read \in [Holders -> Tiers \cup {None}]
    BY <2>2
  <2>4. ReadsAs(v, read)'
    BY <1>3, <1>4, <2>1 DEF ReadsAs
  <2> QED
    BY <1>3, <2>1, <2>3, <2>4 DEF Reads
<1>6. ASSUME NEW w \in Requests \ {v} PROVE Reads(w)'
  <2>1. req'[w] = req[w] /\ Reads(w)
    BY <1>3 DEF ReadInv
  <2> QED
    BY <1>1, <2>1 DEF Reads, ReadsAs, HasRead
<1>7. TermsWritten'
  BY <1>1 DEF ReadInv, TermsWritten
<1> QED
  BY <1>5, <1>6, <1>7 DEF ReadInv

LEMMA AskQuoteReads ==
  ASSUME CommitInv, ReadInv, NEW v \in Requests, AskQuote(v)
  PROVE  ReadInv'
<1> PICK k : k = NextHolder(req[v].at)
  OBVIOUS
<1> PICK g : g = Order[k]
  OBVIOUS
<1>1. /\ k \in Nat \ {0} /\ k >= req[v].at /\ HasHolderAt(k)
      /\ g \in HoldersOf(inForce)
      /\ \A j \in req[v].at..(k - 1) : Order[j] \notin HoldersOf(inForce)
      /\ req[v].stage = "quotes"
      /\ req'[v].stage = "quotes" /\ req'[v].outdated = req[v].outdated
      /\ req'[v].at = k + 1
      /\ req'[v].quotes = IF terms[g] = None THEN req[v].quotes
                          ELSE Append(req[v].quotes, QuoteOf(terms[g], Account))
      /\ \A w \in Requests \ {v} : req'[w] = req[w]
  BY AskQuoteIs DEF CommitInv, HandsInv
<1>2. terms' = terms /\ had' = had /\ inForce' = inForce
  BY DEF AskQuote, holderVars
<1>3. req[v].at \in Nat \ {0} /\ inForce \in Mandates
  BY DEF CommitInv, HandsInv, Shaped
<1>4. g \in Holders /\ HoldersOf(inForce) \subseteq Holders
  BY <1>1, <1>3, MandateHolders
<1>5. Len(Order) \in Nat /\ \A i, j \in 1..Len(Order) : Order[i] = Order[j] => i = j
  BY JointAssumption DEF IsInjective
<1>6. ~HasRead(v, g)
  <2>1. k \in 1..Len(Order)
    BY <1>1, <1>5 DEF HasHolderAt
  <2> QED
    BY <1>1, <1>3, <1>5, <2>1 DEF HasRead
<1>7. \A h \in HoldersOf(inForce) : HasRead(v, h)' <=> HasRead(v, h) \/ h = g
  <2>1. ASSUME NEW h \in HoldersOf(inForce), NEW i \in 1..k, Order[i] = h
        PROVE  i \in 1..(req[v].at - 1) \/ h = g
    <3>1. CASE i = k
      BY <2>1, <3>1
    <3>2. CASE i # k
      BY <1>1, <1>3, <2>1, <3>2
    <3> QED
      BY <3>1, <3>2
  <2>2. 1..((k + 1) - 1) = 1..k /\ k \in 1..k /\ 1..(req[v].at - 1) \subseteq 1..k
    BY <1>1, <1>3
  <2> QED
    BY <1>1, <2>1, <2>2 DEF HasRead
<1>8. PICK read \in [Holders -> Tiers \cup {None}] : ReadsAs(v, read)
  BY <1>1 DEF ReadInv, Reads
<1>9. req[v].quotes \in Seq(Quotes)
  BY <1>1 DEF ReadInv, Reads
<1>10. terms[g] \in Tiers \cup {None} /\ terms[g] \in had[g]
  BY <1>4, WrittenIsTier DEF ReadInv, TermsWritten
<1> PICK now : now = [read EXCEPT ![g] = terms[g]]
  OBVIOUS
<1>11. now \in [Holders -> Tiers \cup {None}]
  BY <1>10
<1>12. now[g] = terms[g] /\ \A h \in Holders \ {g} : now[h] = read[h]
  BY <1>4
<1> DEFINE before == {h \in HoldersOf(inForce) : HasRead(v, h) /\ read[h] # None}
           after  == {h \in HoldersOf(inForce) : HasRead(v, h)' /\ now[h] # None}
<1>13. after = before \cup (IF terms[g] = None THEN {} ELSE {g})
  BY <1>1, <1>4, <1>6, <1>7, <1>12
<1>14. \A h \in before : now[h] = read[h]
  BY <1>4, <1>6, <1>12
<1>15. g \notin before
  BY <1>6
<1>16. InSeq(req[v].quotes) = {QuoteOf(read[h], Account) : h \in before}
  BY <1>8 DEF ReadsAs
<1> HIDE DEF before, after
<1>17. /\ req'[v].quotes \in Seq(Quotes)
       /\ InSeq(req'[v].quotes) = {QuoteOf(now[h], Account) : h \in after}
  <2>1. CASE terms[g] = None
    BY <1>1, <1>9, <1>13, <1>14, <1>16, <2>1
  <2>2. CASE terms[g] # None
    <3>1. QuoteOf(terms[g], Account) \in Quotes
      BY <1>10, <2>2 DEF Quotes
    <3>2. /\ req'[v].quotes \in Seq(Quotes)
          /\ InSeq(req'[v].quotes) = InSeq(req[v].quotes) \cup {QuoteOf(terms[g], Account)}
      BY <1>1, <1>9, <2>2, <3>1, AppendAdds
    <3>3. after = before \cup {g}
      BY <1>13, <2>2
    <3> QED
      BY <1>12, <1>14, <1>16, <3>2, <3>3
  <2> QED
    BY <2>1, <2>2
<1>18. \A h \in HoldersOf(inForce) : HasRead(v, h)' =>
         now[h] \in had[h] /\ (h \notin req[v].outdated => now[h] = terms[h])
  BY <1>4, <1>7, <1>8, <1>10, <1>12 DEF ReadsAs
<1>19. ReadsAs(v, now)'
  <2>1. after = {h \in HoldersOf(inForce') : HasRead(v, h)' /\ now[h] # None}
    BY <1>2 DEF after
  <2> QED
    BY <1>1, <1>2, <1>17, <1>18, <2>1 DEF ReadsAs
<1>20. Reads(v)'
  BY <1>11, <1>17, <1>19 DEF Reads
<1>21. ASSUME NEW w \in Requests \ {v} PROVE Reads(w)'
  <2>1. req'[w] = req[w] /\ Reads(w)
    BY <1>1 DEF ReadInv
  <2> QED
    BY <1>2, <2>1 DEF Reads, ReadsAs, HasRead
<1>22. TermsWritten'
  BY <1>2 DEF ReadInv, TermsWritten
<1> QED
  BY <1>20, <1>21, <1>22 DEF ReadInv

LEMMA EditReads ==
  ASSUME CommitInv, ReadInv, NEW g \in Holders, NEW tier \in Written[g], Edit(g, tier)
  PROVE  ReadInv'
<1>1. /\ terms' = [terms EXCEPT ![g] = tier] /\ had' = [had EXCEPT ![g] = @ \cup {tier}]
      /\ inForce' = inForce
      /\ req' = [w \in Requests |-> IF HasRead(w, g)
                                   THEN [req[w] EXCEPT !.outdated = @ \cup {g}] ELSE req[w]]
  BY DEF Edit
<1>2. TermsWritten'
  BY <1>1 DEF ReadInv, TermsWritten
<1>3. ASSUME NEW w \in Requests, req'[w].stage = "quotes" PROVE Reads(w)'
  <2>1. DOMAIN req[w] = {"stage", "family", "at", "via", "quotes", "outdated"}
    BY DEF CommitInv, HandsInv, Shaped
  <2>2. /\ req'[w].stage = req[w].stage /\ req'[w].at = req[w].at
        /\ req'[w].quotes = req[w].quotes
        /\ req'[w].outdated = IF HasRead(w, g) THEN req[w].outdated \cup {g}
                                               ELSE req[w].outdated
    BY <1>1, <2>1 DEF HasRead
  <2>3. req[w].quotes \in Seq(Quotes)
    BY <1>3, <2>2 DEF ReadInv, Reads
  <2>4. PICK read \in [Holders -> Tiers \cup {None}] : ReadsAs(w, read)
    BY <1>3, <2>2 DEF ReadInv, Reads
  <2>5. \A h : HasRead(w, h)' <=> HasRead(w, h)
    BY <2>2 DEF HasRead
  <2>6. HoldersOf(inForce) \subseteq Holders
    BY MandateHolders DEF CommitInv, HandsInv, Shaped
  <2>7. \A h \in Holders : /\ had[h] \subseteq had'[h]
                           /\ h # g => terms'[h] = terms[h]
    BY <1>1 DEF ReadInv, TermsWritten
  <2>8. ASSUME NEW h \in HoldersOf(inForce), HasRead(w, h)
        PROVE  read[h] \in had'[h] /\ (h \notin req'[w].outdated => read[h] = terms'[h])
    <3>1. read[h] \in had[h] /\ (h \notin req[w].outdated => read[h] = terms[h])
      BY <2>4, <2>8 DEF ReadsAs
    <3>2. h \notin req'[w].outdated => h \notin req[w].outdated /\ h # g
      BY <2>2, <2>8
    <3> QED
      BY <2>6, <2>7, <3>1, <3>2
  <2>9. ReadsAs(w, read)'
    BY <1>1, <2>2, <2>4, <2>5, <2>8 DEF ReadsAs
  <2> QED
    BY <2>2, <2>3, <2>9 DEF Reads
<1>4. \A w \in Requests : Reads(w)'
  BY <1>3 DEF Reads
<1> QED
  BY <1>2, <1>4 DEF ReadInv

LEMMA ReadStep ==
  ASSUME CommitInv, ReadInv, [Next]_vars
  PROVE  ReadInv'
<1>0. DOMAIN req = Requests
  BY DEF CommitInv, HandsInv, Shaped
<1>1. CASE UNCHANGED vars
  BY <1>1, ReadStays DEF vars, tallyVars, holderVars, ReadKept
<1>2. ASSUME NEW f \in Families,
             \/ Perm(f) \/ Lapse(f) \/ PresentDead(f) \/ Decline(f) \/ RejectClaim(f)
             \/ LoseReply(f) \/ GiveUp(f) \/ Consume(f) \/ Outlive(f)
             \/ \E w \in Requests : AgentCalls(f, w)
      PROVE  ReadInv'
  <2>1. ASSUME NEW w \in Requests, AskTerms(f, w) PROVE ReadInv'
    BY <2>1, AskTermsReads
  <2>2. ASSUME ~\E w \in Requests : AskTerms(f, w) PROVE ReadInv'
    <3>1. /\ terms' = terms /\ had' = had /\ inForce' = inForce
          /\ \/ req' = req
             \/ \E w \in Requests : req' = [req EXCEPT ![w] = Holding(f, "collect")]
      BY <1>2, <2>2 DEF Perm, Lapse, PresentDead, Decline, RejectClaim, LoseReply, GiveUp,
         Consume, Outlive, AgentCalls, Poll, Commit, tallyVars, holderVars
    <3>2. ReadKept
      BY <1>0, <3>1 DEF ReadKept, Holding, NoRequest
    <3> QED
      BY <3>2, ReadStays
  <2> QED
    BY <2>1, <2>2
<1>3. ASSUME NEW w \in Requests, RequestStep(w) \/ QuotesFail(w) \/ Unreachable(w)
      PROVE  ReadInv'
  <2>1. CASE AskQuote(w)
    BY <2>1, AskQuoteReads
  <2>2. ASSUME ~AskQuote(w) PROVE ReadInv'
    <3>1. DOMAIN req[w] = {"stage", "family", "at", "via", "quotes", "outdated"}
      BY DEF CommitInv, HandsInv, Shaped
    <3>2. /\ terms' = terms /\ had' = had /\ inForce' = inForce
          /\ \/ req' = [req EXCEPT ![w] = NoRequest]
             \/ req' = [req EXCEPT ![w] = GoOn(w)]
             \/ \E q, k : req' = [req EXCEPT ![w].stage = "wait", ![w].at = k, ![w].via = q]
      BY <1>3, <2>2 DEF RequestStep, QuotesFail, Unreachable, Dictate, QuotesRefused, FailQuotes,
         Conclude, AskHolder, holderVars, apartVars, authorVars
    <3>3. NoRequest.stage = "idle" /\ GoOn(w).stage = "collect"
      BY <3>1 DEF NoRequest, GoOn
    <3>4. \A v \in Requests : req'[v] = req[v] \/ req'[v].stage # "quotes"
      <4>1. CASE req' = [req EXCEPT ![w] = NoRequest]
        BY <1>0, <3>3, <4>1
      <4>2. CASE req' = [req EXCEPT ![w] = GoOn(w)]
        BY <1>0, <3>3, <4>2
      <4>3. ASSUME NEW q, NEW k, req' = [req EXCEPT ![w].stage = "wait", ![w].at = k, ![w].via = q]
            PROVE  \A v \in Requests : req'[v] = req[v] \/ req'[v].stage # "quotes"
        BY <1>0, <3>1, <4>3
      <4> QED
        BY <3>2, <4>1, <4>2, <4>3
    <3>5. ReadKept
      BY <3>2, <3>4 DEF ReadKept
    <3> QED
      BY <3>5, ReadStays
  <2> QED
    BY <2>1, <2>2
<1>4. ASSUME NEW q \in Questions, QuestionStep(q) \/ CannotReadMandate(q) \/ Die(q)
      PROVE  ReadInv'
  <2>1. terms' = terms /\ had' = had /\ inForce' = inForce
    BY <1>4 DEF QuestionStep, Arrive, CheckMandate, ReadRow, CloseRow, CheckWithdrawn, Evaluate,
       Save, CannotReadMandate, Die, apartVars, authorVars
  <2>2. req' = req \/ req' = [w \in Requests |->
          IF req[w].stage = "wait" /\ req[w].via = q THEN GoOn(w) ELSE req[w]]
    BY <1>4, QuestionAnswers DEF Answering, ReplyUncounted, ReplyCounted
  <2>3. ASSUME NEW w \in Requests, req[w].stage = "wait" PROVE GoOn(w).stage = "collect"
    BY <2>3, GoOnShaped DEF CommitInv, HandsInv, Idle
  <2>4. ReadKept
    BY <2>1, <2>2, <2>3 DEF ReadKept
  <2> QED
    BY <2>4, ReadStays
<1>5. CASE Strayed
  BY <1>5, ReadStays DEF Strayed, AskAbout, authorVars, ReadKept
<1>6. ASSUME NEW m \in Mandates, Restart(m) PROVE ReadInv'
  <2>1. terms' = terms /\ had' = had /\ \A w \in Requests : req'[w].stage = "idle"
    BY <1>6 DEF Restart, holderVars, NoRequest
  <2> QED
    BY <2>1 DEF ReadInv, TermsWritten, Reads
<1>7. ASSUME NEW h \in Holders, HolderActs(h) PROVE ReadInv'
  <2>1. ASSUME NEW tier \in Written[h], Edit(h, tier) PROVE ReadInv'
    BY <2>1, EditReads
  <2>2. CASE ~\E tier \in Written[h] : Edit(h, tier)
    BY <1>7, <2>2, ReadStays DEF HolderActs, Decide, Withdraw, Join, Leave, tallyVars, ReadKept
  <2> QED
    BY <2>1, <2>2
<1> QED
  BY <1>1, <1>2, <1>3, <1>4, <1>5, <1>6, <1>7, StepIs

LEMMA ReadInit ==
  ASSUME Init
  PROVE  ReadInv
<1>1. TermsWritten
  BY DEF Init, TermsWritten
<1>2. \A w \in Requests : Reads(w)
  BY DEF Init, Reads, NoRequest
<1> QED
  BY <1>1, <1>2 DEF ReadInv

(* What it dictates is the meet of what it has read.                        *)
LEMMA DictatedMeets ==
  ASSUME CommitInv, ReadInv, NEW w \in Requests, Dictate(w), req[w].quotes # <<>>
  PROVE  LET offered == Template(req[w].quotes, Account, Asked) IN
         /\ offered.expires_in \in Nat
         /\ \E read \in Readings(w) :
              LET quoted == {read[h] : h \in HoldersOf(inForce)} \ {None} IN
              /\ \A tier \in quoted : NoWider(offered, tier)
              /\ \A a \in Agreements :
                   /\ Asked = {} \/ Says[a].scope \subseteq Asked
                   /\ \A tier \in quoted : Inside(Says[a], tier)
                   => Inside(Says[a], offered)
<1>1. req[w].stage = "quotes" /\ ~HasHolderAt(NextHolder(req[w].at))
  BY DEF Dictate
<1>2. req[w].at \in Nat \ {0} /\ HoldersOf(inForce) \subseteq Holders
  BY MandateHolders DEF CommitInv, HandsInv, Shaped
<1>3. Len(Order) \in Nat /\ \A h \in Holders : \E i \in 1..Len(Order) : Order[i] = h
  BY JointAssumption DEF ToSet
<1>4. \A j \in req[w].at..Len(Order) : Order[j] \notin HoldersOf(inForce)
  BY <1>1, <1>2, NextQuoter
<1>5. ASSUME NEW h \in HoldersOf(inForce) PROVE HasRead(w, h)
  <2>1. PICK i \in 1..Len(Order) : Order[i] = h
    BY <1>2, <1>3
  <2>2. i \in 1..(req[w].at - 1)
    BY <1>2, <1>3, <1>4, <2>1
  <2> QED
    BY <1>1, <2>1, <2>2 DEF HasRead
<1>6. req[w].quotes \in Seq(Quotes)
  BY <1>1 DEF ReadInv, Reads
<1>7. PICK all \in [Holders -> Tiers \cup {None}] : ReadsAs(w, all)
  BY <1>1 DEF ReadInv, Reads
<1> DEFINE read == [h \in HoldersOf(inForce) |-> all[h]]
           quoted == {read[h] : h \in HoldersOf(inForce)} \ {None}
<1>8. read \in Readings(w)
  <2>1. read \in [HoldersOf(inForce) -> Tiers \cup {None}]
    BY <1>2
  <2>2. \A h \in HoldersOf(inForce) :
          read[h] \in IF h \in req[w].outdated THEN had[h] ELSE {terms[h]}
    BY <1>5, <1>7 DEF ReadsAs
  <2> HIDE DEF read
  <2> QED
    BY <2>1, <2>2 DEF Readings
<1>9. quoted \in SUBSET Tiers
  BY <1>2
<1>10. InSeq(req[w].quotes) = {QuoteOf(t, Account) : t \in quoted}
  BY <1>5, <1>7 DEF ReadsAs
<1> HIDE DEF quoted
<1>11. LET offered == Template(req[w].quotes, Account, Asked) IN
       /\ offered.expires_in \in Nat
       /\ \A t \in quoted : NoWider(offered, t)
       /\ \A signed :
            /\ signed.expires_in \in Int /\ (Asked = {} \/ signed.scope \subseteq Asked)
            /\ \A t \in quoted : Inside(signed, t)
            => Inside(signed, offered)
  BY <1>6, <1>9, <1>10, TemplateMeets
<1>12. \A a \in Agreements : Says[a].expires_in \in Int
  BY JointAssumption
<1> QED
  BY <1>8, <1>11, <1>12 DEF quoted

-----------------------------------------------------------------------------
(* What is proffered.                                                       *)

(* A template changes when the holders' terms are folded into it, and goes  *)
(* with its negotiation.                                                    *)
Dictated(f) ==
  \E w \in Requests : /\ Dictate(w) /\ req[w].family = f /\ req[w].quotes # <<>>
                      /\ neg'[f].template = Template(req[w].quotes, Account, Asked)

SameOffer(f) == neg'[f].template = neg[f].template /\ neg'[f].state = neg[f].state

(* Nothing was proffered yet to an agent that is asking for terms.          *)
NotYet ==
  \A f \in Families :
    agent[f].phase = "ready" \/ Quoting(f) => neg[f].state # "need_info"

LEMMA FamilyOffers ==
  ASSUME CommitInv, NEW f \in Families,
         \/ Perm(f) \/ Lapse(f) \/ PresentDead(f) \/ Decline(f) \/ RejectClaim(f)
         \/ LoseReply(f) \/ GiveUp(f) \/ Consume(f) \/ Outlive(f)
         \/ \E w \in Requests : AgentCalls(f, w)
  PROVE  \A g \in Families : neg'[g].state = "need_info" => neg[g].state = "need_info"
<1>1. NoNegotiation.state = "none"
  BY DEF NoNegotiation
<1>2. CASE Perm(f)
  <2>1. neg' = [Swept EXCEPT ![f] = [NoNegotiation EXCEPT !.state = "new"]]
    BY <1>2 DEF Perm
  <2> QED
    BY <1>1, <2>1 DEF Swept, NoNegotiation
<1>3. CASE ~Perm(f)
  <2>1. \/ neg' = neg \/ neg' = [neg EXCEPT ![f] = NoNegotiation]
        \/ neg' = [neg EXCEPT ![f].stale = TRUE] \/ neg' = [neg EXCEPT ![f].over = TRUE]
        \/ \E a \in Agreements :
             neg' = [neg EXCEPT ![f].state = "awaiting-holders", ![f].agreement = a]
    BY <1>3 DEF Lapse, PresentDead, Decline, RejectClaim, LoseReply, GiveUp, Consume, Outlive,
       AgentCalls, AskTerms, Poll, Commit, tallyVars
  <2> QED
    BY <1>1, <2>1 DEF CommitInv, HandsInv, Shaped
<1> QED
  BY <1>2, <1>3

LEMMA CountedOffers ==
  ASSUME CommitInv, NEW q \in Questions, ~At(q, "idle"), Answering(q)
  PROVE  \A f \in Families : SameOffer(f) /\ neg'[f].agreement = neg[f].agreement
<1>1. \A f \in Families :
        DOMAIN neg[f] = {"state", "template", "agreement", "verdicts", "signed", "over", "stale"}
  BY DEF CommitInv, HandsInv, Shaped
<1>2. DOMAIN neg = Families
  BY DEF CommitInv, HandsInv, Shaped
<1>3. ASSUME NEW effect, NEW signed, ReplyCounted(q, effect, signed)
      PROVE  \A f \in Families : SameOffer(f) /\ neg'[f].agreement = neg[f].agreement
  <2> PICK g, i : g = question[q].family /\ i = question[q].holder
    OBVIOUS
  <2>1. \/ neg' = neg
        \/ neg' = [neg EXCEPT ![g].verdicts[i] = effect,
                              ![g].signed = IF signed THEN @ \cup {i} ELSE @]
    BY <1>3 DEF ReplyCounted
  <2>2. CASE neg' = neg
    BY <2>2 DEF SameOffer
  <2>3. CASE neg' = [neg EXCEPT ![g].verdicts[i] = effect,
                                ![g].signed = IF signed THEN @ \cup {i} ELSE @]
    BY <1>1, <1>2, <2>3 DEF SameOffer
  <2> QED
    BY <2>1, <2>2, <2>3
<1> QED
  BY <1>3 DEF Answering, ReplyUncounted, SameOffer

LEMMA OffersMove ==
  ASSUME CommitInv, [Next]_vars, NEW f \in Families, neg'[f].state = "need_info"
  PROVE  neg[f].state = "need_info" \/ Dictated(f)
<1>1. CASE UNCHANGED vars
  BY <1>1 DEF vars, tallyVars
<1>2. ASSUME NEW w \in Requests, RequestStep(w) \/ QuotesFail(w) \/ Unreachable(w)
      PROVE  neg[f].state = "need_info" \/ Dictated(f)
  <2> PICK g : g = req[w].family
    OBVIOUS
  <2>1. \/ neg' = neg \/ neg' = [neg EXCEPT ![g] = NoNegotiation]
        \/ /\ Dictate(w) /\ req[w].quotes # <<>>
           /\ neg' = [neg EXCEPT ![g].state = "need_info",
                                 ![g].template = Template(req[w].quotes, Account, Asked)]
    BY <1>2 DEF RequestStep, QuotesFail, Unreachable, QuotesRefused, FailQuotes, AskQuote, Dictate,
       Conclude, AskHolder, apartVars, authorVars
  <2> QED
    BY <2>1, NoNegotiationShaped DEF CommitInv, HandsInv, Shaped, Dictated
<1>3. ASSUME NEW q \in Questions, QuestionStep(q) \/ CannotReadMandate(q) \/ Die(q)
      PROVE  neg[f].state = "need_info"
  BY <1>3, QuestionAnswers, CountedOffers DEF SameOffer
<1>4. ASSUME NEW m \in Mandates, Restart(m) PROVE FALSE
  BY <1>4 DEF Restart, NoNegotiation
<1>5. ASSUME NEW h \in Holders, HolderActs(h) PROVE neg[f].state = "need_info"
  BY <1>5 DEF HolderActs, Decide, Withdraw, Join, Leave, Edit, tallyVars
<1>6. CASE Strayed
  BY <1>6 DEF Strayed, AskAbout
<1> QED
  BY <1>1, <1>2, <1>3, <1>4, <1>5, <1>6, StepIs, FamilyOffers

(* Nobody comes to ask for terms but by registering.                        *)
QuotingKept ==
  \A w \in Requests : req'[w].stage = "quotes" =>
    req[w].stage = "quotes" /\ req'[w].family = req[w].family

LEMMA ReadyMoves ==
  ASSUME CommitInv, [Next]_vars, NEW f \in Families, agent'[f].phase = "ready" \/ Quoting(f)'
  PROVE  agent[f].phase = "ready" \/ Quoting(f) \/ neg'[f].state = "new"
<1>0. /\ DOMAIN req = Requests /\ DOMAIN agent = Families /\ DOMAIN neg = Families
      /\ \A g \in Families : DOMAIN agent[g] = {"phase", "ticket", "via"}
      /\ \A w \in Requests : DOMAIN req[w] = {"stage", "family", "at", "via", "quotes", "outdated"}
  BY DEF CommitInv, HandsInv, Shaped
<1> DEFINE Kept == QuotingKept /\ (agent'[f].phase = "ready" => agent[f].phase = "ready")
<1>1. CASE UNCHANGED vars
  BY <1>1 DEF vars, tallyVars, Quoting
<1>2. CASE Kept
  BY <1>2 DEF QuotingKept, Quoting
<1>3. ASSUME NEW g \in Families,
             \/ Perm(g) \/ Lapse(g) \/ PresentDead(g) \/ Decline(g) \/ RejectClaim(g)
             \/ LoseReply(g) \/ GiveUp(g) \/ Consume(g) \/ Outlive(g)
             \/ \E w \in Requests : AgentCalls(g, w)
      PROVE  agent[f].phase = "ready" \/ Quoting(f) \/ neg'[f].state = "new"
  <2>1. CASE Perm(g)
    <3>1. /\ neg' = [Swept EXCEPT ![g] = [NoNegotiation EXCEPT !.state = "new"]]
          /\ agent' = [agent EXCEPT ![g].phase = "ready", ![g].ticket = 1]
          /\ req' = req
      BY <2>1 DEF Perm
    <3>2. f = g => neg'[f].state = "new"
      BY <3>1 DEF Swept, NoNegotiation
    <3>3. f # g => agent'[f] = agent[f]
      BY <1>0, <3>1
    <3>4. Quoting(f)' => Quoting(f)
      BY <3>1 DEF Quoting
    <3> QED
      BY <3>2, <3>3, <3>4
  <2>2. ASSUME NEW w \in Requests, AskTerms(g, w)
        PROVE  agent[f].phase = "ready" \/ Quoting(f)
    <3>1. /\ agent[g].phase = "ready" /\ req' = [req EXCEPT ![w] = Holding(g, "quotes")]
          /\ agent' = [agent EXCEPT ![g].phase = "calling", ![g].via = w]
      BY <2>2 DEF AskTerms, CallFrom
    <3>2. CASE f = g
      BY <3>1, <3>2
    <3>3. CASE f # g
      <4>1. agent'[f] = agent[f]
        BY <1>0, <3>1, <3>3
      <4>2. Holding(g, "quotes").family = g
        BY DEF Holding, NoRequest
      <4>3. Quoting(f)' => Quoting(f)
        BY <1>0, <3>1, <3>3, <4>2 DEF Quoting
      <4> QED
        BY <4>1, <4>3
    <3> QED
      BY <3>2, <3>3
  <2>3. CASE ~Perm(g) /\ ~\E w \in Requests : AskTerms(g, w)
    <3>1. \/ agent' = agent
          \/ \E phase \in {"denied", "calling", "gone", "polling", "waiting"} :
               \/ agent' = [agent EXCEPT ![g].phase = phase]
               \/ \E via : agent' = [agent EXCEPT ![g].phase = phase, ![g].via = via]
      BY <1>3, <2>3 DEF Lapse, PresentDead, Decline, RejectClaim, LoseReply, GiveUp, Consume,
         Outlive, AgentCalls, Poll, Commit, CallFrom
    <3>2. agent'[f].phase = "ready" => agent[f].phase = "ready"
      BY <1>0, <3>1
    <3>3. \/ req' = req
          \/ \E w \in Requests : req' = [req EXCEPT ![w] = Holding(g, "collect")]
      BY <1>3, <2>3 DEF Lapse, PresentDead, Decline, RejectClaim, LoseReply, GiveUp, Consume,
         Outlive, AgentCalls, Poll, Commit, tallyVars
    <3>4. QuotingKept
      BY <1>0, <3>3 DEF QuotingKept, Holding, NoRequest
    <3> QED
      BY <1>2, <3>2, <3>4
  <2> QED
    BY <2>1, <2>2, <2>3
<1>4. ASSUME NEW w \in Requests, RequestStep(w) \/ QuotesFail(w) \/ Unreachable(w)
      PROVE  Kept
  <2>1. \/ req' = [req EXCEPT ![w] = NoRequest]
        \/ req' = [req EXCEPT ![w] = GoOn(w)]
        \/ \E q, k : req' = [req EXCEPT ![w].stage = "wait", ![w].at = k, ![w].via = q]
        \/ AskQuote(w)
    BY <1>4 DEF RequestStep, QuotesFail, Unreachable, Dictate, QuotesRefused, FailQuotes,
       Conclude, AskHolder
  <2>2. NoRequest.stage = "idle" /\ GoOn(w).stage = "collect"
    BY <1>0 DEF NoRequest, GoOn
  <2>3. QuotingKept
    <3>1. CASE req' = [req EXCEPT ![w] = NoRequest]
      BY <1>0, <2>2, <3>1 DEF QuotingKept
    <3>2. CASE req' = [req EXCEPT ![w] = GoOn(w)]
      BY <1>0, <2>2, <3>2 DEF QuotingKept
    <3>3. ASSUME NEW q, NEW k, req' = [req EXCEPT ![w].stage = "wait", ![w].at = k, ![w].via = q]
          PROVE  QuotingKept
      BY <1>0, <3>3 DEF QuotingKept
    <3>4. CASE AskQuote(w)
      BY <3>4, AskQuoteIs DEF QuotingKept, CommitInv, HandsInv
    <3> QED
      BY <2>1, <3>1, <3>2, <3>3, <3>4
  <2>4. \/ agent' = agent
        \/ \E phase \in {"denied", "proffered", "waiting", "granted"} :
             \E n : ReplyTo(w, phase, n)
    BY <1>4 DEF RequestStep, QuotesFail, Unreachable, QuotesRefused, FailQuotes, AskQuote, Dictate,
       Conclude, AskHolder, apartVars, authorVars
  <2>5. agent'[f].phase = "ready" => agent[f].phase = "ready"
    <3>1. ASSUME NEW phase \in {"denied", "proffered", "waiting", "granted"}, NEW n,
                 ReplyTo(w, phase, n)
          PROVE  agent'[f] = agent[f] \/ agent'[f].phase # "ready"
      <4>1. \/ agent' = agent
            \/ agent' = [agent EXCEPT ![req[w].family] =
                           [phase |-> phase, ticket |-> n, via |-> None]]
        BY <3>1 DEF ReplyTo
      <4> QED
        BY <1>0, <3>1, <4>1
    <3> QED
      BY <2>4, <3>1
  <2> QED
    BY <2>3, <2>5
<1>5. ASSUME NEW q \in Questions, QuestionStep(q) \/ CannotReadMandate(q) \/ Die(q)
      PROVE  Kept
  <2>1. agent' = agent
    BY <1>5, QuestionAnswers DEF Apart
  <2>2. req' = req \/ req' = [w \in Requests |->
          IF req[w].stage = "wait" /\ req[w].via = q THEN GoOn(w) ELSE req[w]]
    BY <1>5, QuestionAnswers DEF Answering, ReplyUncounted, ReplyCounted
  <2>3. \A w \in Requests : GoOn(w).stage = "collect"
    BY <1>0 DEF GoOn
  <2>4. QuotingKept
    BY <2>2, <2>3 DEF QuotingKept
  <2> QED
    BY <2>1, <2>4
<1>6. CASE Strayed
  BY <1>2, <1>6 DEF Strayed, AskAbout, authorVars, QuotingKept
<1>7. ASSUME NEW m \in Mandates, Restart(m) PROVE Kept
  <2>1. \A w \in Requests : req'[w].stage = "idle"
    BY <1>7 DEF Restart, NoRequest
  <2>2. agent'[f] = CASE agent[f].phase = "polling" -> [agent[f] EXCEPT !.phase = "waiting", !.via = None]
                      [] agent[f].phase = "calling" -> [agent[f] EXCEPT !.phase = "gone", !.via = None]
                      [] OTHER -> agent[f]
    BY <1>7 DEF Restart
  <2>3. agent'[f].phase = "ready" => agent[f].phase = "ready"
    BY <1>0, <2>2
  <2> QED
    BY <2>1, <2>3 DEF QuotingKept
<1>8. ASSUME NEW h \in Holders, HolderActs(h) PROVE Kept
  <2>1. agent' = agent
    BY <1>8 DEF HolderActs, Decide, Withdraw, Join, Leave, Edit, tallyVars
  <2>2. QuotingKept
    BY <1>8, HolderReq DEF QuotingKept, CommitInv, HandsInv
  <2> QED
    BY <2>1, <2>2
<1> HIDE DEF Kept
<1> QED
  BY <1>1, <1>2, <1>3, <1>4, <1>5, <1>6, <1>7, <1>8, StepIs

LEMMA NotYetStep ==
  ASSUME CommitInv, NotYet, [Next]_vars
  PROVE  NotYet'
<1> SUFFICES ASSUME NEW f \in Families, agent'[f].phase = "ready" \/ Quoting(f)',
                    neg'[f].state = "need_info"
             PROVE  FALSE
  BY DEF NotYet
<1>1. Dictated(f)
  <2>1. agent[f].phase = "ready" \/ Quoting(f)
    BY ReadyMoves
  <2> QED
    BY <2>1, OffersMove DEF NotYet
<1>2. PICK w \in Requests : Dictate(w) /\ req[w].family = f /\ req[w].quotes # <<>>
  BY <1>1 DEF Dictated
<1>3. /\ req[w].stage = "quotes" /\ ~Idle(w) /\ Quoting(f)
      /\ req' = [req EXCEPT ![w] = NoRequest] /\ ReplyTo(w, "proffered", Fresh(f))
  BY <1>2 DEF Dictate, Idle, Quoting
<1>4. agent'[f].phase # "ready"
  <2>1. agent[f].phase \in {"calling", "gone"}
    BY <1>3 DEF CommitInv, InStep
  <2>2. agent'[f] = agent[f] \/ agent'[f].phase = "proffered"
    BY <1>2, <1>3, Replies DEF CommitInv, HandsInv
  <2> QED
    BY <2>1, <2>2
<1>5. ~Quoting(f)'
  <2>1. req'[w].stage = "idle" /\ \A v \in Requests \ {w} : req'[v] = req[v]
    BY <1>3, NoRequestShaped DEF CommitInv, HandsInv, Shaped
  <2>2. ASSUME NEW v \in Requests \ {w}, req[v].stage = "quotes" PROVE req[v].family # f
    BY <1>2, <1>3, <2>2 DEF CommitInv, HandsInv, Hands, Idle
  <2> QED
    BY <2>1, <2>2 DEF Quoting
<1> QED
  BY <1>4, <1>5

LEMMA DictatesStep ==
  ASSUME CommitInv, ReadInv, NotYet, [Next]_vars
  PROVE  [DictatesTheMeet]_vars
<1>1. ASSUME NEW w \in Requests, req[w].stage = "quotes",
             neg'[req[w].family].state = "need_info"
      PROVE  /\ Dictate(w) /\ req[w].quotes # <<>>
             /\ neg'[req[w].family].template = Template(req[w].quotes, Account, Asked)
  <2> PICK f : f = req[w].family
    OBVIOUS
  <2>1. f \in Families /\ ~Idle(w) /\ Quoting(f)
    BY <1>1 DEF CommitInv, HandsInv, Shaped, Idle, Quoting
  <2>2. Dictated(f)
    BY <1>1, <2>1, OffersMove DEF NotYet
  <2>3. PICK v \in Requests : /\ Dictate(v) /\ req[v].family = f /\ req[v].quotes # <<>>
                              /\ neg'[f].template = Template(req[v].quotes, Account, Asked)
    BY <2>2 DEF Dictated
  <2>4. ~Idle(v)
    BY <2>3 DEF Dictate, Idle
  <2>5. v = w
    BY <2>1, <2>3, <2>4 DEF CommitInv, HandsInv, Hands
  <2> QED
    BY <2>3, <2>5
<1>2. DictatesTheMeet
  BY <1>1, DictatedMeets DEF DictatesTheMeet
<1> QED
  BY <1>2

(* What an agent is asked to sign is the most that all who had terms when   *)
(* they were asked would let it sign, while they are asked one after the    *)
(* other and edit what they have said: inside the terms of each, and        *)
(* nothing that was asked for is held back that all of them offer, however  *)
(* many holders there are (quotes_for, fold).                               *)
THEOREM TallyFoldsFaithfully == Spec => FoldsFaithfully
<1>1. Init => ReadInv
  BY ReadInit
<1>2. Init => NotYet
  BY DEF Init, NotYet, NoNegotiation
<1>3. CommitInv /\ ReadInv /\ [Next]_vars => ReadInv'
  BY ReadStep
<1>4. CommitInv /\ NotYet /\ [Next]_vars => NotYet'
  BY NotYetStep
<1>5. CommitInv /\ ReadInv /\ NotYet /\ [Next]_vars => [DictatesTheMeet]_vars
  BY DictatesStep
<1> QED
  BY <1>1, <1>2, <1>3, <1>4, <1>5, CommitmentsHold, PTL DEF Spec, FoldsFaithfully

-----------------------------------------------------------------------------
(* What a grant carries.                                                    *)

(* What is agreed to was proffered, for a lifetime that is a number.        *)
States(f) == neg[f].template.expires_in \in Nat

OfferOf(f) ==
  /\ agent[f].phase = "proffered" => neg[f].state = "none" \/ States(f)
  /\ neg[f].agreement \in Agreements => States(f)

Offers == \A f \in Families : OfferOf(f)

OfferKept(f) ==
  /\ agent'[f].phase = "proffered" =>
       /\ agent[f].phase = "proffered"
       /\ neg'[f].state = "none" \/ SameOffer(f)
  /\ neg'[f].agreement \in Agreements =>
       neg[f].agreement \in Agreements /\ neg'[f].template = neg[f].template

LEMMA OfferStays ==
  ASSUME NEW f \in Families, OfferOf(f), OfferKept(f)
  PROVE  OfferOf(f)'
  BY DEF OfferOf, OfferKept, SameOffer, States

LEMMA NothingIsAgreed ==
  /\ NoNegotiation.agreement \notin Agreements /\ NoNegotiation.state = "none"
  /\ NoNegotiation.template = None
  BY JointAssumption DEF NoNegotiation

LEMMA FamilyKeepsOffers ==
  ASSUME CommitInv, Offers, NEW f \in Families,
         \/ Perm(f) \/ Lapse(f) \/ PresentDead(f) \/ Decline(f) \/ RejectClaim(f)
         \/ LoseReply(f) \/ GiveUp(f) \/ Consume(f) \/ Outlive(f)
         \/ \E w \in Requests : AgentCalls(f, w)
  PROVE  Offers'
<1>1. /\ DOMAIN agent = Families /\ DOMAIN agent[f] = {"phase", "ticket", "via"}
      /\ DOMAIN neg = Families
      /\ DOMAIN neg[f] = {"state", "template", "agreement", "verdicts", "signed", "over", "stale"}
  BY DEF CommitInv, HandsInv, Shaped
<1>2. CASE Perm(f)
  <2>1. /\ neg' = [Swept EXCEPT ![f] = [NoNegotiation EXCEPT !.state = "new"]]
        /\ agent' = [agent EXCEPT ![f].phase = "ready", ![f].ticket = 1]
    BY <1>2 DEF Perm
  <2>2. agent'[f].phase = "ready" /\ \A g \in Families \ {f} : agent'[g] = agent[g]
    BY <1>1, <2>1
  <2>3. /\ neg'[f].agreement \notin Agreements
        /\ \A g \in Families \ {f} : neg'[g] = NoNegotiation \/ neg'[g] = neg[g]
    BY <2>1, NothingIsAgreed DEF Swept, NoNegotiation
  <2>4. \A g \in Families : OfferKept(g)
    BY <2>2, <2>3, NothingIsAgreed DEF OfferKept, SameOffer
  <2> QED
    BY <2>4, OfferStays DEF Offers
<1>3. ASSUME NEW w \in Requests, NEW a \in Agreements, Commit(f, w, a) PROVE Offers'
  <2>1. /\ neg' = [neg EXCEPT ![f].state = "awaiting-holders", ![f].agreement = a]
        /\ agent' = [agent EXCEPT ![f].phase = "calling", ![f].via = w]
        /\ agent[f].phase = "proffered" /\ neg[f].state # "none"
    BY <1>3 DEF Commit, CallFrom, Live
  <2>2. \A g \in Families \ {f} : agent'[g] = agent[g] /\ neg'[g] = neg[g]
    BY <1>1, <2>1
  <2>3. agent'[f].phase = "calling" /\ neg'[f].template = neg[f].template
    BY <1>1, <2>1
  <2>4. States(f)
    BY <2>1 DEF Offers, OfferOf
  <2>5. OfferOf(f)'
    BY <2>3, <2>4 DEF OfferOf, States
  <2>6. \A g \in Families \ {f} : OfferOf(g)'
    BY <2>2, OfferStays DEF Offers, OfferKept, SameOffer
  <2> QED
    BY <2>5, <2>6 DEF Offers
<1>4. CASE /\ ~Perm(f) /\ ~\E w \in Requests, a \in Agreements : Commit(f, w, a)
  <2>1. \/ neg' = neg \/ neg' = [neg EXCEPT ![f] = NoNegotiation]
        \/ neg' = [neg EXCEPT ![f].stale = TRUE] \/ neg' = [neg EXCEPT ![f].over = TRUE]
    BY <1>4 DEF Lapse, PresentDead, Decline, RejectClaim, LoseReply, GiveUp, Consume, Outlive,
       AgentCalls, AskTerms, Poll, tallyVars
  <2>2. \/ agent' = agent
        \/ \E phase \in {"denied", "calling", "gone", "polling", "waiting"} :
             \/ agent' = [agent EXCEPT ![f].phase = phase]
             \/ \E via : agent' = [agent EXCEPT ![f].phase = phase, ![f].via = via]
    BY <1>4 DEF Lapse, PresentDead, Decline, RejectClaim, LoseReply, GiveUp, Consume, Outlive,
       AgentCalls, AskTerms, Poll, CallFrom
  <2>3. \A g \in Families :
          agent'[g].phase = "proffered" => agent[g].phase = "proffered"
    BY <1>1, <2>2
  <2>4. \A g \in Families : \/ neg'[g] = NoNegotiation
                            \/ SameOffer(g) /\ neg'[g].agreement = neg[g].agreement
    <3>1. CASE neg' = neg
      BY <3>1 DEF SameOffer
    <3>2. CASE neg' = [neg EXCEPT ![f] = NoNegotiation]
      BY <1>1, <3>2 DEF SameOffer
    <3>3. CASE neg' = [neg EXCEPT ![f].stale = TRUE]
      BY <1>1, <3>3 DEF SameOffer
    <3>4. CASE neg' = [neg EXCEPT ![f].over = TRUE]
      BY <1>1, <3>4 DEF SameOffer
    <3> QED
      BY <2>1, <3>1, <3>2, <3>3, <3>4
  <2>5. \A g \in Families : OfferKept(g)
    BY <2>3, <2>4, NothingIsAgreed DEF OfferKept, SameOffer
  <2> QED
    BY <2>5, OfferStays DEF Offers
<1> QED
  BY <1>2, <1>3, <1>4

LEMMA RequestKeepsOffers ==
  ASSUME CommitInv, ReadInv, Offers, NEW w \in Requests,
         RequestStep(w) \/ QuotesFail(w) \/ Unreachable(w)
  PROVE  Offers'
<1> PICK f : f = req[w].family
  OBVIOUS
<1>1. /\ DOMAIN agent = Families /\ DOMAIN neg = Families /\ inForce \in Mandates
      /\ \A g \in Families : DOMAIN neg[g] =
           {"state", "template", "agreement", "verdicts", "signed", "over", "stale"}
  BY DEF CommitInv, HandsInv, Shaped
<1>2. CASE Dictate(w) /\ req[w].quotes # <<>>
  <2>1. /\ neg' = [neg EXCEPT ![f].state = "need_info",
                              ![f].template = Template(req[w].quotes, Account, Asked)]
        /\ ReplyTo(w, "proffered", Fresh(f)) /\ ~Idle(w)
    BY <1>2 DEF Dictate, Idle
  <2>2. f \in Families
    BY <2>1 DEF CommitInv, HandsInv, Shaped
  <2>3. neg'[f].template.expires_in \in Nat
    <3>1. neg'[f].template = Template(req[w].quotes, Account, Asked)
      BY <1>1, <2>1, <2>2
    <3>2. Template(req[w].quotes, Account, Asked).expires_in \in Nat
      BY <1>2, DictatedMeets
    <3> QED
      BY <3>1, <3>2
  <2>4. OfferOf(f)'
    BY <2>3 DEF OfferOf, States
  <2>5. \A g \in Families \ {f} : agent'[g] = agent[g] /\ neg'[g] = neg[g]
    BY <1>1, <2>1, <2>2 DEF ReplyTo
  <2>6. \A g \in Families \ {f} : OfferOf(g)'
    BY <2>5, OfferStays DEF Offers, OfferKept, SameOffer
  <2> QED
    BY <2>4, <2>6 DEF Offers
<1>3. CASE ~(Dictate(w) /\ req[w].quotes # <<>>)
  <2>1. neg' = neg \/ neg' = [neg EXCEPT ![f] = NoNegotiation]
    BY <1>3 DEF RequestStep, QuotesFail, Unreachable, QuotesRefused, FailQuotes, AskQuote, Dictate,
       Conclude, AskHolder, apartVars, authorVars
  <2>2. \/ agent' = agent
        \/ \E phase \in {"denied", "waiting", "granted"} : \E n : ReplyTo(w, phase, n)
    BY <1>3 DEF RequestStep, QuotesFail, Unreachable, QuotesRefused, FailQuotes, AskQuote, Dictate,
       Conclude, AskHolder, apartVars, authorVars
  <2>3. \A g \in Families :
          agent'[g].phase = "proffered" => agent[g].phase = "proffered"
    <3>1. CASE agent' = agent
      BY <3>1
    <3>2. ASSUME NEW phase \in {"denied", "waiting", "granted"}, NEW n, ReplyTo(w, phase, n)
          PROVE  \A g \in Families :
                   agent'[g].phase = "proffered" => agent[g].phase = "proffered"
      <4>1. \/ agent' = agent
            \/ agent' = [agent EXCEPT ![f] = [phase |-> phase, ticket |-> n, via |-> None]]
        BY <3>2 DEF ReplyTo
      <4>2. phase # "proffered"
        OBVIOUS
      <4> QED
        BY <1>1, <4>1, <4>2
    <3> QED
      BY <2>2, <3>1, <3>2
  <2>4. \A g \in Families : neg'[g] = NoNegotiation \/ neg'[g] = neg[g]
    BY <1>1, <2>1
  <2>5. \A g \in Families : OfferKept(g)
    BY <2>3, <2>4, NothingIsAgreed DEF OfferKept, SameOffer
  <2> QED
    BY <2>5, OfferStays DEF Offers
<1> QED
  BY <1>2, <1>3

LEMMA OffersStay ==
  ASSUME CommitInv, ReadInv, Offers, [Next]_vars
  PROVE  Offers'
<1>1. CASE UNCHANGED vars
  BY <1>1, OfferStays DEF vars, tallyVars, Offers, OfferKept, SameOffer
<1>2. ASSUME NEW q \in Questions, QuestionStep(q) \/ CannotReadMandate(q) \/ Die(q)
      PROVE  Offers'
  <2>1. agent' = agent /\ \A f \in Families : SameOffer(f) /\ neg'[f].agreement = neg[f].agreement
    BY <1>2, QuestionAnswers, CountedOffers DEF Apart
  <2> QED
    BY <2>1, OfferStays DEF Offers, OfferKept, SameOffer
<1>3. ASSUME NEW m \in Mandates, Restart(m) PROVE Offers'
  <2>1. \A f \in Families : neg'[f] = NoNegotiation
    BY <1>3 DEF Restart
  <2> QED
    BY <2>1, NothingIsAgreed DEF Offers, OfferOf
<1>4. ASSUME NEW h \in Holders, HolderActs(h) PROVE Offers'
  <2>1. agent' = agent /\ neg' = neg
    BY <1>4 DEF HolderActs, Decide, Withdraw, Join, Leave, Edit, tallyVars
  <2> QED
    BY <2>1, OfferStays DEF Offers, OfferKept, SameOffer
<1>5. CASE Strayed
  BY <1>5, OfferStays DEF Strayed, AskAbout, authorVars, Offers, OfferKept, SameOffer
<1> QED
  BY <1>1, <1>2, <1>3, <1>4, <1>5, StepIs, FamilyKeepsOffers, RequestKeepsOffers

(* A grant carries yeses to its agreement under its mandate, from holders   *)
(* who carry the threshold of it, and is no more than they agreed to.       *)
Bearers(t) == t.verdicts \cap HoldersOf(t.mandate)

Carries(t) ==
  /\ t.agreement \in Agreements /\ t.mandate \in Mandates
  /\ \A h \in Bearers(t) : Yes(h, t.family, t.agreement, t.mandate) \in verdicts
  /\ Carried(t.mandate, Bearers(t)) >= t.mandate.threshold
  /\ Spelled(t) => CoveredBy(t, Says[t.agreement])

AllCarry == \A t \in tokens : Carries(t)

LEMMA GrantCarries ==
  ASSUME CommitInv, CountInv, Offers, NEW f \in Families, Standing(f) = "allow",
         neg[f].agreement \in Agreements
  PROVE  Carries(GrantOf(f))
<1> PICK t : t = GrantOf(f)
  OBVIOUS
<1> DEFINE a == neg[f].agreement
           offered == neg[f].template
           g == Granted(Says[a], offered, Unstated)
           most == IF offered.expires_in = 0 THEN Unstated ELSE offered.expires_in
           Q == {h \in HoldersOf(inForce) : neg[f].verdicts[h] = "allow"}
<1>1. /\ t.family = f /\ t.agreement = a /\ t.mandate = inForce
      /\ t.scope = g.scope /\ t.expires_in = IF neg[f].over THEN 0 ELSE g.expires_in
      /\ t.verdicts = {h \in neg[f].signed : neg[f].verdicts[h] = "allow"}
  BY DEF GrantOf
<1>2. inForce \in Mandates /\ HoldersOf(inForce) \subseteq Holders
  BY MandateHolders DEF CommitInv, HandsInv, Shaped
<1>3. Bearers(t) = Q
  BY <1>1, <1>2 DEF Bearers, CountInv, Counted
<1>4. Carried(inForce, Q) >= inForce.threshold
  BY YesIsCarried
<1>5. \A h \in Q : Yes(h, f, a, inForce) \in verdicts
  BY <1>2 DEF CountInv, Counted
<1>6. Spelled(t) => CoveredBy(t, Says[a])
  <2>1. SUFFICES ASSUME Says[a].scope # {}, Says[a].expires_in > 0
                 PROVE  CoveredBy(t, Says[a])
    BY <1>1 DEF Spelled
  <2>2. Says[a].expires_in \in Nat /\ most \in Nat \ {0}
    BY JointAssumption DEF Offers, OfferOf, States
  <2>3. g.scope = Says[a].scope \cap offered.scope
    BY <2>1 DEF Granted
  <2>4. g.expires_in = IF Says[a].expires_in \in 1..most THEN Says[a].expires_in ELSE most
    BY DEF Granted
  <2> HIDE DEF most
  <2>5. g.expires_in \in Nat /\ g.expires_in <= Says[a].expires_in
    BY <2>1, <2>2, <2>4
  <2>6. t.expires_in <= Says[a].expires_in
    BY <1>1, <2>2, <2>5
  <2> QED
    BY <1>1, <2>1, <2>3, <2>6 DEF CoveredBy
<1>7. Carries(t)
  BY <1>1, <1>2, <1>3, <1>4, <1>5, <1>6 DEF Carries
<1> QED
  BY <1>7

LEMMA CarryingStays ==
  ASSUME NEW t, Carries(t), verdicts \subseteq verdicts'
  PROVE  Carries(t)'
  BY DEF Carries, Bearers, Spelled

LEMMA TokensMove ==
  ASSUME CommitInv, CountInv, Offers, [Next]_vars
  PROVE  /\ verdicts \subseteq verdicts'
         /\ \A t \in tokens' \ tokens : Carries(t)
<1>1. CASE UNCHANGED vars
  BY <1>1 DEF vars, tallyVars, holderVars
<1>2. ASSUME NEW f \in Families,
             \/ Perm(f) \/ Lapse(f) \/ PresentDead(f) \/ Decline(f) \/ RejectClaim(f)
             \/ LoseReply(f) \/ GiveUp(f) \/ Consume(f) \/ Outlive(f)
             \/ \E w \in Requests : AgentCalls(f, w)
      PROVE  verdicts' = verdicts /\ tokens' = tokens
  BY <1>2 DEF Perm, Lapse, PresentDead, Decline, RejectClaim, LoseReply, GiveUp, Consume,
     Outlive, AgentCalls, AskTerms, Poll, Commit, tallyVars, holderVars
<1>3. ASSUME NEW w \in Requests, RequestStep(w) \/ QuotesFail(w) \/ Unreachable(w)
      PROVE  verdicts' = verdicts /\ \A t \in tokens' \ tokens : Carries(t)
  <2> PICK f : f = req[w].family
    OBVIOUS
  <2>1. /\ verdicts' = verdicts
        /\ \/ tokens' = tokens
           \/ /\ Standing(f) = "allow" /\ req[w].stage = "collect"
              /\ tokens' = tokens \cup {GrantOf(f)}
    BY <1>3 DEF RequestStep, QuotesFail, Unreachable, AskQuote, Dictate, QuotesRefused, FailQuotes,
       Conclude, AskHolder, holderVars, apartVars, authorVars
  <2>2. req[w].stage = "collect" => f \in Families /\ neg[f].agreement \in Agreements
    BY DEF CommitInv, HandsInv, Shaped, Idle, InStep
  <2> QED
    BY <2>1, <2>2, GrantCarries
<1>4. ASSUME NEW q \in Questions, QuestionStep(q) \/ CannotReadMandate(q) \/ Die(q)
      PROVE  verdicts \subseteq verdicts' /\ tokens' = tokens
  BY <1>4, QuestionAnswers, OnlyYesesSign DEF Apart, Allow
<1>5. ASSUME NEW m \in Mandates, Restart(m) PROVE verdicts' = verdicts /\ tokens' = tokens
  BY <1>5 DEF Restart, holderVars
<1>6. ASSUME NEW h \in Holders, HolderActs(h) PROVE verdicts' = verdicts /\ tokens' = tokens
  BY <1>6 DEF HolderActs, Decide, Withdraw, Join, Leave, Edit, tallyVars
<1>7. CASE Strayed
  BY <1>7 DEF Strayed, AskAbout, authorVars
<1> QED
  BY <1>1, <1>2, <1>3, <1>4, <1>5, <1>6, <1>7, StepIs

(* The door counts what the tally counted.                                  *)
LEMMA CarriersAreAdmitted ==
  ASSUME AllCarry, inForce \in Mandates
  PROVE  NobodyIsTurnedAway
<1> SUFFICES ASSUME NEW t \in tokens, t.mandate = inForce, Spelled(t) PROVE Admitted(t)
  BY DEF NobodyIsTurnedAway
<1>1. Carries(t)
  BY DEF AllCarry
<1>2. \A h \in Bearers(t) :
        \E v \in verdicts : /\ v.holder = h /\ v.family = t.family
                            /\ v.agreement = t.agreement
                            /\ Digest(v.mandate) = Digest(inForce)
                            /\ CoveredBy(t, Says[v.agreement])
  BY <1>1 DEF Carries, Yes
<1>3. {h \in t.verdicts \cap HoldersOf(inForce) :
         \E v \in verdicts : /\ v.holder = h /\ v.family = t.family
                             /\ v.agreement = t.agreement
                             /\ Digest(v.mandate) = Digest(inForce)
                             /\ CoveredBy(t, Says[v.agreement])} = Bearers(t)
  BY <1>2 DEF Bearers
<1> QED
  BY <1>1, <1>3 DEF Admitted, Carries

(* Nobody is told yes and then turned away: a grant under the mandate in    *)
(* force, of an agreement that spells out its terms, carries verdicts that  *)
(* make it pass at the enforcement point, whatever was lost, asked again,   *)
(* or restarted (the comment in verify_verdict).                            *)
THEOREM TheGrantedAreAdmitted == Spec => []NobodyIsTurnedAway
<1>1. Init => ReadInv /\ Offers /\ AllCarry
  <2> SUFFICES ASSUME Init PROVE ReadInv /\ Offers /\ AllCarry
    OBVIOUS
  <2>1. ReadInv
    BY ReadInit
  <2>2. Offers
    BY NothingIsAgreed DEF Init, Offers, OfferOf
  <2>3. AllCarry
    BY DEF Init, AllCarry
  <2> QED
    BY <2>1, <2>2, <2>3
<1>2. CommitInv /\ ReadInv /\ [Next]_vars => ReadInv'
  BY ReadStep
<1>3. CommitInv /\ ReadInv /\ Offers /\ [Next]_vars => Offers'
  BY OffersStay
<1>4. CommitInv /\ CountInv /\ Offers /\ AllCarry /\ [Next]_vars => AllCarry'
  <2> SUFFICES ASSUME CommitInv, CountInv, Offers, AllCarry, [Next]_vars, NEW t \in tokens'
               PROVE  Carries(t)'
    BY DEF AllCarry
  <2>1. Carries(t) /\ verdicts \subseteq verdicts'
    BY TokensMove DEF AllCarry
  <2> QED
    BY <2>1, CarryingStays
<1>5. CommitInv /\ AllCarry => NobodyIsTurnedAway
  BY CarriersAreAdmitted DEF CommitInv, HandsInv, Shaped
<1> QED
  BY <1>1, <1>2, <1>3, <1>4, <1>5, CountsHold, PTL DEF Spec
=============================================================================
