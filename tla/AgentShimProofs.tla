-------------------------- MODULE AgentShimProofs --------------------------
(***************************************************************************)
(* An agent's errand: her answer ends it, it rests on what the             *)
(* organization said lately, a new key is no forgery, and she has one      *)
(* question of it before her; for any number of calls, negotiations,       *)
(* enforcers, failures and changes.                                        *)
(***************************************************************************)
EXTENDS AgentShim, FoldLemmas, FiniteSetTheorems

Gate == {"share", "judge", "ceiling", "burn", "forward"}

Stages == Gate \cup Negotiating \cup {"resume"}

Ticket == [of : Negotiation \cup {0}, serial : Nat]

Row ==
  [state : {"none", "new", "need_identity", "need_info", "awaiting", "closed", "forged"},
   serial : Nat, live : BOOLEAN, asserted : BOOLEAN, terms : Nat,
   decision : {"none", "yes", "no"}, grant : {"none", "live", "spent", "ended"},
   headless : BOOLEAN]

Busy ==
  [pc : Stages, by : Enforcer \cup {None}, under : Documents \cup {None}, asked : BOOLEAN,
   grant : Negotiation \cup {0}, fresh : Ticket, ticket : Ticket, rounds : Nat,
   heard : {"nothing", "yes"},
   claim : {NoClaim} \cup [kind : {"assertion"}, by : {Home}, key : Nat]]

BookOK ==
  /\ standing \in Documents
  /\ copies \in [Enforcer -> [doc : Documents \cup {None}, age : 0..Old]]
  /\ shared \in Enforcer \cup {None}
  /\ ago \in [Documents -> 0..Old]

AuthorityOK ==
  /\ neg \in [Negotiation -> Row]
  /\ provider \in {None, Home, Elsewhere}
  /\ terms \in Nat /\ key \in Nat /\ known \in Nat \cup {None}
  /\ edge \in BOOLEAN

(* A call's step has in hand what it uses; whoever has her answer is on the *)
(* way to the tool with it.                                                 *)
Fit(c, b) ==
  b # Idle =>
    /\ b.pc \in Negotiating \cup {"resume"} => b.ticket.of \in Negotiation
    /\ b.pc \in {"ceiling", "burn", "forward"} => b.grant # 0
    /\ b.heard # "nothing" => b.grant # 0 /\ b.pc \in Gate
    /\ b.pc \in {"exchange", "vouch"} => c \in Headless
    /\ b.pc = "resume" => c \notin Headless
    /\ b.fresh = NoTicket \/ b.fresh.of \in Negotiation

ShimOK ==
  /\ call \in [Call -> {Idle} \cup Busy]
  /\ \A c \in Call : Fit(c, call[c])
  /\ held = None \/ (held \in Ticket /\ held.of \in Negotiation)
  /\ corroborated \in BOOLEAN /\ spilled \in BOOLEAN /\ left \in Nat

(* No more calls are in flight than may be.                                 *)
Few == IsFiniteSet(Running) /\ Cardinality(Running) <= InFlight

TypeOK == BookOK /\ AuthorityOK /\ ShimOK /\ Few

(* No copy is younger than the organization's word, and what it was asked   *)
(* for just now is what it says.                                            *)
Dated ==
  /\ ago[standing] = 0
  /\ \A e \in Enforcer : copies[e].doc # None => ago[copies[e].doc] <= copies[e].age
  /\ \A c \in Running : call[c].asked => call[c].under \in Documents /\ ago[call[c].under] = 0

(* The headless agent's negotiations are its own, and each is in one call.  *)
Apart ==
  \A c \in Running \cap Headless :
    LET n == call[c].ticket.of IN
    n # 0 =>
      /\ held # None => held.of # n
      /\ \A d \in Running \ {c} : call[d].ticket.of # n /\ call[d].fresh.of # n
      /\ neg[n].live => neg[n].headless
      /\ call[c].pc \in Negotiating => neg[n].state # "forged"

(* Where her question is: with the call that polls, or with what the shim   *)
(* holds.  Who negotiates holds nothing, and who comes back does so with    *)
(* what it holds.                                                           *)
Question(n) == Waiting(n) /\ ~neg[n].headless

IsOf(t, n) == t.of = n /\ t.serial = neg[n].serial

Followed(n) ==
  \/ held # None /\ IsOf(held, n)
  \/ \E c \in Shimmed : call[c].pc = "poll" /\ IsOf(call[c].ticket, n)

Asking ==
  /\ \A n \in Negotiation : neg[n].state = "awaiting" => neg[n].live
  /\ ~spilled =>
       /\ \A c, d \in Shimmed : c = d
       /\ \A c \in Shimmed : call[c].pc \in Negotiating => held = None
       /\ \A c \in Shimmed : call[c].pc = "resume" => call[c].ticket = held
       /\ \A n \in Negotiation : Question(n) => Followed(n)

ErrandInv == TypeOK /\ Dated /\ Apart /\ Asking
-----------------------------------------------------------------------------
(* Her authority's answers.                                                 *)

Claims ==
  {NoClaim, Declined} \cup [kind : {"assertion"}, by : {Home}, key : Nat]
  \cup [kind : {"agreement"}, terms : Nat]

(* What is answered to a ticket: a question stays where it was, or is asked *)
(* under the ticket that is returned; and forged is what was signed with    *)
(* another key.                                                             *)
Answers(t, claim, o) ==
  LET r == neg[t.of] IN
  /\ o.neg \in Row /\ o.known \in Nat \cup {None}
  /\ o.neg.live => r.live /\ o.neg.headless = r.headless
  /\ o.neg.state = "awaiting" =>
       \/ o.neg = r /\ (o.says = "submitted" \/ ~r.live \/ r.serial # t.serial)
       \/ o.says = "submitted" /\ o.neg.live /\ claim.kind = "agreement"
  /\ o.neg.state = "forged" =>
       \/ r.state = "forged"
       \/ o.says = "forged" /\ claim.kind = "assertion" /\ claim.key # key

(* What becomes of a row.                                                   *)
LEMMA RowsOf ==
  ASSUME NEW r \in Row, terms \in Nat
  PROVE  /\ Closed(r) \in Row /\ Closed(r).state = "closed" /\ ~Closed(r).live
         /\ Forged(r) \in Row /\ Forged(r).state = "forged" /\ ~Forged(r).live
         /\ Spent(r) \in Row /\ Spent(r).state = r.state /\ ~Spent(r).live
         /\ LET g == [Closed(r) EXCEPT !.grant = "live"]
            IN  g \in Row /\ g.state = "closed" /\ ~g.live
         /\ \A s \in {"need_identity", "awaiting"} :
              LET n == NewTicket([r EXCEPT !.state = s])
              IN  n \in Row /\ n.state = s /\ n.live /\ n.headless = r.headless
         /\ LET n == NewTicket([r EXCEPT !.state = "need_info", !.terms = terms])
            IN  n \in Row /\ n.state = "need_info" /\ n.live /\ n.headless = r.headless
         /\ LET a == [r EXCEPT !.asserted = TRUE]
                n == NewTicket([a EXCEPT !.state = "need_info", !.terms = terms])
            IN  n \in Row /\ n.state = "need_info" /\ n.live /\ n.headless = r.headless
<1>1. Closed(r) \in Row /\ Closed(r).state = "closed" /\ Closed(r).live = FALSE
  BY DEF Closed, NoNegotiation, Row
<1>2. Forged(r) \in Row /\ Forged(r).state = "forged" /\ Forged(r).live = FALSE
  BY DEF Forged, NoNegotiation, Row
<1>3. Spent(r) \in Row /\ Spent(r).state = r.state /\ Spent(r).live = FALSE
  BY DEF Spent, Row
<1>4. LET g == [Closed(r) EXCEPT !.grant = "live"]
      IN  g \in Row /\ g.state = "closed" /\ g.live = FALSE
  BY <1>1 DEF Row
<1>5. ASSUME NEW a \in Row
      PROVE  /\ NewTicket(a) \in Row /\ NewTicket(a).state = a.state
             /\ NewTicket(a).live = TRUE /\ NewTicket(a).headless = a.headless
  <2>1. a.serial + 1 \in Nat
    BY DEF Row
  <2> QED
    BY <2>1 DEF NewTicket, Row
<1>6. ASSUME NEW s \in {"need_identity", "awaiting"}
      PROVE  LET a == [r EXCEPT !.state = s]
             IN  a \in Row /\ a.state = s /\ a.headless = r.headless
  BY DEF Row
<1>7. ASSUME NEW b \in Row
      PROVE  LET a == [b EXCEPT !.state = "need_info", !.terms = terms]
             IN  a \in Row /\ a.state = "need_info" /\ a.headless = b.headless
  BY DEF Row
<1>8. LET a == [r EXCEPT !.asserted = TRUE] IN a \in Row /\ a.headless = r.headless
  BY DEF Row
<1>9. \A s \in {"need_identity", "awaiting"} :
        LET n == NewTicket([r EXCEPT !.state = s])
        IN  n \in Row /\ n.state = s /\ n.live /\ n.headless = r.headless
  BY <1>5, <1>6
<1>10. ASSUME NEW b \in Row
       PROVE  LET n == NewTicket([b EXCEPT !.state = "need_info", !.terms = terms])
              IN  n \in Row /\ n.state = "need_info" /\ n.live /\ n.headless = b.headless
  BY <1>5, <1>7
<1>11. LET a == [r EXCEPT !.asserted = TRUE]
           n == NewTicket([a EXCEPT !.state = "need_info", !.terms = terms])
       IN  n \in Row /\ n.state = "need_info" /\ n.live /\ n.headless = r.headless
  BY <1>8, <1>10
<1>12. LET n == NewTicket([r EXCEPT !.state = "need_info", !.terms = terms])
       IN  n \in Row /\ n.state = "need_info" /\ n.live /\ n.headless = r.headless
  BY <1>10
<1> QED
  BY <1>1, <1>2, <1>3, <1>4, <1>9, <1>11, <1>12

LEMMA AnswersOf ==
  ASSUME AuthorityOK, NEW t, t.of \in Negotiation, NEW claim, NEW r \in Row, NEW says,
         NEW keys \in Nat \cup {None}, r.live => neg[t.of].live /\ r.headless = neg[t.of].headless,
         r.state = "awaiting" => says = "submitted" /\ r.live /\ claim.kind = "agreement",
         r.state = "forged" =>
           \/ neg[t.of].state = "forged"
           \/ says = "forged" /\ claim.kind = "assertion" /\ claim.key # key
  PROVE  Answers(t, claim, Answer(r, says, keys))
  BY DEF Answers, Answer

LEMMA BeatAnswers ==
  ASSUME AuthorityOK, NEW t, t.of \in Negotiation, NEW claim,
         neg[t.of].live, neg[t.of].state # "awaiting",
         NEW o \in Beat(neg[t.of], claim)
  PROVE  Answers(t, claim, o)
<1> DEFINE r == neg[t.of]
<1>1. r \in Row /\ known \in Nat \cup {None} /\ key \in Nat /\ terms \in Nat
  BY DEF AuthorityOK
<1>2. Answers(t, claim, RequestDenied(r))
  BY <1>1, RowsOf, AnswersOf DEF RequestDenied, Says
<1>3. Answers(t, claim, Granted(r))
  BY <1>1, RowsOf, AnswersOf DEF Granted, Says
<1>4. Answers(t, claim, Says(Spent(r), "invalid"))
  <2>1. Spent(r) \in Row /\ Spent(r).state = r.state /\ ~Spent(r).live
    BY <1>1, RowsOf
  <2> QED
    BY <1>1, <2>1 DEF Answers, Says, Answer
<1>5. Answers(t, claim, NeedIdentity(r))
  BY <1>1, RowsOf, AnswersOf DEF NeedIdentity, Says
<1>6. Answers(t, claim, NeedInfo(r, known))
  BY <1>1, RowsOf, AnswersOf DEF NeedInfo
<1>7. claim.kind = "agreement" =>
        Answers(t, claim, Says(NewTicket([r EXCEPT !.state = "awaiting"]), "submitted"))
  BY <1>1, RowsOf, AnswersOf DEF Says
<1>8. CASE claim.kind = "agreement" /\ o \in Commit(r, claim)
  BY <1>2, <1>3, <1>4, <1>6, <1>7, <1>8 DEF Commit
<1>9. CASE claim.kind = "assertion" /\ o \in VerifyIdJag(r, claim)
  <2> DEFINE keys == ProviderKeys(claim.key)
  <2>1. keys \in Nat \cup {None}
    BY <1>1 DEF ProviderKeys
  <2>2. Answers(t, claim, NeedInfo([r EXCEPT !.asserted = TRUE], keys))
    BY <1>1, <2>1, RowsOf, AnswersOf DEF NeedInfo
  <2>3. keys # claim.key => Answers(t, claim, Answer(Forged(r), "forged", keys))
    <3>1. keys # claim.key => claim.key # key
      BY DEF ProviderKeys
    <3> QED
      BY <1>1, <1>9, <2>1, <3>1, RowsOf, AnswersOf
  <2> QED
    BY <1>2, <1>9, <2>2, <2>3 DEF VerifyIdJag
<1>10. CASE o \in FederatedIdentity(r, claim)
  BY <1>5, <1>9, <1>10 DEF FederatedIdentity
<1> QED
  BY <1>4, <1>6, <1>8, <1>10 DEF Beat

LEMMA TokenAnswers ==
  ASSUME AuthorityOK, NEW t, t.of \in Negotiation, NEW claim, NEW o \in Token(t, claim)
  PROVE  Answers(t, claim, o)
<1> DEFINE r == neg[t.of]
<1>1. r \in Row /\ known \in Nat \cup {None} /\ terms \in Nat
  BY DEF AuthorityOK
<1>2. Answers(t, claim, RequestDenied(r))
  BY <1>1, RowsOf, AnswersOf DEF RequestDenied, Says
<1>3. CASE ~r.live \/ r.serial # t.serial
  <2>1. o = [neg |-> r, says |-> "invalid", known |-> known]
    BY <1>3 DEF Token, Says, Answer
  <2> QED
    BY <1>1, <1>3, <2>1 DEF Answers
<1>4. CASE r.live /\ r.serial = t.serial /\ r.state = "awaiting"
  <2>1. o \in PendingPoll(r)
    BY <1>4 DEF Token
  <2>2. Answers(t, claim, Granted(r))
    BY <1>1, RowsOf, AnswersOf DEF Granted, Says
  <2>3. Answers(t, claim, Says(r, "submitted"))
    BY <1>1, <1>4 DEF Answers, Says, Answer
  <2>4. r.decision \in {"none", "yes", "no"}
    BY <1>1 DEF Row
  <2> QED
    BY <1>2, <2>1, <2>2, <2>3, <2>4 DEF PendingPoll
<1>5. CASE r.live /\ r.serial = t.serial /\ r.state # "awaiting"
  <2>1. o = RequestDenied(r) \/ o \in Beat(r, claim)
    BY <1>5 DEF Token
  <2> QED
    BY <1>2, <1>5, <2>1, BeatAnswers
<1> QED
  BY <1>3, <1>4, <1>5
-----------------------------------------------------------------------------
(* Types.  A call in flight takes a step that fits it, or ends.             *)

Takes(c, b) ==
  b \in {Idle} \cup Busy /\ Fit(c, b) /\ call' = [call EXCEPT ![c] = b]

Words ==
  /\ held' = None \/ (held' \in Ticket /\ held'.of \in Negotiation)
  /\ corroborated' \in BOOLEAN /\ spilled' \in BOOLEAN /\ left' \in Nat

LEMMA CallIs ==
  ASSUME ShimOK, NEW c \in Call
  PROVE  /\ c \in Running <=> call[c].pc # "idle"
         /\ c \in Running <=> call[c] \in Busy
         /\ Fit(c, call[c])
  BY DEF ShimOK, Running, Idle, Busy, Stages, Gate, Negotiating

LEMMA FewerAreFew ==
  ASSUME Few, Running' \subseteq Running
  PROVE  Few'
<1>1. IsFiniteSet(Running') /\ Cardinality(Running') <= Cardinality(Running)
  BY FS_Subset DEF Few
<1>2. Cardinality(Running') \in Nat /\ Cardinality(Running) \in Nat /\ InFlight \in Int
  BY <1>1, FS_CardinalityType, AgentShimAssumption DEF Few
<1> QED
  BY <1>1, <1>2 DEF Few

LEMMA StepTypes ==
  ASSUME TypeOK, NEW c \in Running, NEW b, Takes(c, b), Words
  PROVE  /\ ShimOK' /\ Few'
         /\ call'[c] = b /\ \A d \in Call \ {c} : call'[d] = call[d]
         /\ Running' = IF b = Idle THEN Running \ {c} ELSE Running
<1>1. c \in Call /\ call \in [Call -> {Idle} \cup Busy]
  BY DEF Running, TypeOK, ShimOK
<1>2. /\ call' \in [Call -> {Idle} \cup Busy]
      /\ call'[c] = b /\ \A d \in Call \ {c} : call'[d] = call[d]
  BY <1>1 DEF Takes
<1>3. \A d \in Call : Fit(d, call'[d])
  BY <1>2 DEF Takes, TypeOK, ShimOK
<1>4. Running' = IF b = Idle THEN Running \ {c} ELSE Running
  BY <1>1, <1>2 DEF Running
<1>5. Few'
  BY <1>4, FewerAreFew DEF TypeOK
<1>6. \A d \in Call : Fit(d, call[d])'
  BY <1>3 DEF Fit
<1> QED
  BY <1>2, <1>4, <1>5, <1>6 DEF ShimOK, Words

LEMMA NoWords ==
  ASSUME TypeOK, UNCHANGED <<held, corroborated, spilled>>,
         left' = left \/ (left > 0 /\ left' = left - 1)
  PROVE  Words
  BY DEF TypeOK, ShimOK, Words

(* A call that ends, and one that goes on at another step.                  *)
LEMMA EndTakes ==
  ASSUME TypeOK, NEW c, Ends(c)
  PROVE  Takes(c, Idle)
  BY DEF Ends, Goes, Takes, Fit

LEMMA RefusedTakes ==
  ASSUME TypeOK, NEW c \in Running, call[c].pc \in Gate, Refused(c)
  PROVE  \/ Takes(c, Idle)
         \/ /\ call[c].grant = 0 /\ c \notin Headless /\ held # None
            /\ Takes(c, [call[c] EXCEPT !.pc = "resume", !.by = None, !.asked = FALSE, !.ticket = held])
<1>1. c \in Call /\ call[c] \in Busy /\ Fit(c, call[c]) /\ call[c] # Idle
  BY CallIs DEF Running, TypeOK
<1>2. held = None \/ (held \in Ticket /\ held.of \in Negotiation)
  BY DEF TypeOK, ShimOK
<1>3. CASE Ends(c)
  BY <1>3, EndTakes
<1>4. CASE /\ call[c].grant = 0 /\ c \notin Headless /\ held # None
           /\ Goes(c, [call[c] EXCEPT !.pc = "resume", !.by = None, !.asked = FALSE, !.ticket = held])
  <2> DEFINE b == [call[c] EXCEPT !.pc = "resume", !.by = None, !.asked = FALSE, !.ticket = held]
  <2>1. b \in Busy
    BY <1>1, <1>2, <1>4 DEF Busy, Stages
  <2>2. /\ b.pc = "resume" /\ b.ticket = held /\ b.heard = call[c].heard
        /\ b.fresh = call[c].fresh /\ b.grant = call[c].grant
    BY <1>1 DEF Busy
  <2>3. Fit(c, b)
    BY <1>1, <1>2, <1>4, <2>2 DEF Fit
  <2> HIDE DEF b
  <2> QED
    BY <1>4, <2>1, <2>3 DEF Takes, Goes, b
<1> QED
  BY <1>3, <1>4 DEF Refused, Resumes

(* There is an enforcer for the call.                                       *)
LEMMA ByIs ==
  ASSUME TypeOK, NEW c \in Running
  PROVE  By(c) \in Enforcer
<1>1. call[c] \in Busy /\ shared \in Enforcer \cup {None} /\ c \in Call
  BY CallIs DEF TypeOK, BookOK, Running
<1>2. call[c].by \in Enforcer \cup {None}
  BY <1>1 DEF Busy
<1>3. CASE call[c].by = None /\ shared = None
  <2> DEFINE others == Running \ {c}
             theirs == {call[d].by : d \in others}
  <2>1. IsFiniteSet(Running) /\ Cardinality(Running) <= InFlight
    BY DEF TypeOK, Few
  <2>2. IsFiniteSet(others) /\ Cardinality(others) = Cardinality(Running) - 1
    BY <2>1, FS_RemoveElement
  <2>3. IsFiniteSet(theirs) /\ Cardinality(theirs) <= Cardinality(others)
    <3> DEFINE by == [d \in others |-> call[d].by]
    <3>1. by \in Surjection(others, theirs)
      BY DEF Surjection
    <3> QED
      BY <2>2, <3>1, FS_Surjection
  <2>4. /\ Cardinality(theirs) \in Nat /\ Cardinality(Running) \in Nat
        /\ Cardinality(Enforcer) \in Nat /\ InFlight \in 0..Cardinality(Enforcer)
    BY <2>1, <2>3, FS_CardinalityType, AgentShimAssumption
  <2>5. ~ (Enforcer \subseteq theirs)
    <3>1. Enforcer \subseteq theirs => Cardinality(Enforcer) <= Cardinality(theirs)
      BY <2>3, FS_Subset
    <3> QED
      BY <2>1, <2>2, <2>3, <2>4, <3>1
  <2>6. \E e \in Enforcer : e # shared /\ \A d \in Running : call[d].by # e
    BY <1>3, <2>5, AgentShimAssumption
  <2> QED
    BY <1>3, <2>6 DEF By, Free
<1> QED
  BY <1>1, <1>2, <1>3 DEF By
-----------------------------------------------------------------------------
(* The book: at the enforcement point a call is held to what is recent.     *)

Reading == [doc : Documents \cup {None}, age : 0..Old]

True(doc, age) == doc # None => ago[doc] <= age

(* What a call has asked of the organization goes on being what it said.    *)
Calm(c, b) ==
  b # Idle /\ b.asked => call[c].asked /\ b.under = call[c].under

LEMMA CalmIsDated ==
  ASSUME TypeOK, Dated, NEW c \in Running, NEW b, Takes(c, b), Calm(c, b), Words,
         UNCHANGED <<standing, copies, ago>>
  PROVE  Dated'
<1>1. /\ call'[c] = b /\ \A d \in Call \ {c} : call'[d] = call[d]
      /\ Running' = IF b = Idle THEN Running \ {c} ELSE Running
  BY StepTypes
<1>2. \A d \in Running' : call'[d].asked => call[d].asked /\ call'[d].under = call[d].under
  BY <1>1 DEF Calm, Running
<1>3. Running' \subseteq Running
  BY <1>1
<1> QED
  BY <1>2, <1>3 DEF Dated

(* What a call reads by is a copy that is no younger than it says.          *)
LEMMA CopyIs ==
  ASSUME TypeOK, Dated, NEW c \in Running
  PROVE  Copy(c) \in Reading /\ True(Copy(c).doc, Copy(c).age)
<1>1. By(c) \in Enforcer
  BY ByIs
<1>2. CASE call[c].by = None /\ shared = None
  BY <1>2 DEF Copy, NoCopy, Reading, True, Old
<1>3. CASE ~ (call[c].by = None /\ shared = None)
  <2>1. Copy(c) = copies[By(c)]
    BY <1>3 DEF Copy
  <2> QED
    BY <1>1, <2>1 DEF TypeOK, BookOK, Dated, Reading, True
<1> QED
  BY <1>2, <1>3

LEMMA UsesTypes ==
  ASSUME TypeOK, Dated, NEW c \in Running, NEW doc \in Documents, NEW reading \in Reading,
         True(reading.doc, reading.age), Reads(c), Uses(c, doc, reading),
         UNCHANGED <<standing, ago, authority, held, corroborated, spilled>>,
         left' = left \/ (left > 0 /\ left' = left - 1)
  PROVE  /\ TypeOK' /\ Dated'
         /\ \E b : /\ Takes(c, b)
                   /\ b = Idle \/ b.asked = FALSE
                   /\ b # Idle => \/ b.pc \in Gate /\ b.ticket = call[c].ticket
                                     /\ b.fresh = call[c].fresh /\ b.under = doc
                                  \/ b.pc = "resume" /\ c \notin Headless /\ held # None
                                     /\ b.ticket = held /\ b.fresh = call[c].fresh
<1> DEFINE judged == [call[c] EXCEPT !.pc = "judge", !.by = By(c), !.under = doc, !.asked = FALSE]
           burns == [call[c] EXCEPT !.pc = "burn", !.under = doc, !.asked = FALSE]
<1>1. c \in Call /\ call[c] \in Busy /\ Fit(c, call[c]) /\ call[c] # Idle
  BY CallIs DEF Running, TypeOK
<1>2. By(c) \in Enforcer
  BY ByIs
<1>3. call[c].pc \in {"share", "ceiling"}
  BY DEF Reads, At
<1>4. /\ judged \in Busy /\ judged.pc = "judge" /\ judged.asked = FALSE /\ judged.under = doc
      /\ judged.ticket = call[c].ticket /\ judged.fresh = call[c].fresh
      /\ judged.heard = call[c].heard /\ judged.grant = call[c].grant
  BY <1>1, <1>2 DEF Busy, Stages, Gate
<1>5. /\ burns \in Busy /\ burns.pc = "burn" /\ burns.asked = FALSE /\ burns.under = doc
      /\ burns.ticket = call[c].ticket /\ burns.fresh = call[c].fresh
      /\ burns.heard = call[c].heard /\ burns.grant = call[c].grant
  BY <1>1 DEF Busy, Stages, Gate
<1>6. Fit(c, judged)
  BY <1>1, <1>4 DEF Fit, Gate, Negotiating
<1>7. At(c, "ceiling") => Fit(c, burns)
  BY <1>1, <1>5 DEF Fit, Gate, Negotiating, At
<1> HIDE DEF judged, burns
<1>8. /\ \/ Refused(c)
         \/ Ends(c)
         \/ Goes(c, judged)
         \/ At(c, "ceiling") /\ Goes(c, burns)
      /\ shared' \in {shared, By(c), None}
  BY <1>3 DEF Uses, At, judged, burns
<1>9. PICK b : /\ Takes(c, b)
               /\ b = Idle \/ b.asked = FALSE
               /\ b # Idle => \/ b.pc \in Gate /\ b.ticket = call[c].ticket
                                 /\ b.fresh = call[c].fresh /\ b.under = doc
                              \/ b.pc = "resume" /\ c \notin Headless /\ held # None
                                 /\ b.ticket = held /\ b.fresh = call[c].fresh
  <2>1. CASE Refused(c)
    <3>1. call[c].pc \in Gate
      BY <1>3 DEF Gate
    <3> DEFINE b == [call[c] EXCEPT !.pc = "resume", !.by = None, !.asked = FALSE, !.ticket = held]
    <3>2. b.asked = FALSE /\ b.pc = "resume" /\ b.ticket = held /\ b.fresh = call[c].fresh
      BY <1>1 DEF Busy
    <3> HIDE DEF b
    <3>3. Takes(c, Idle) \/ (c \notin Headless /\ held # None /\ Takes(c, b))
      BY <2>1, <3>1, RefusedTakes DEF b
    <3> QED
      BY <3>2, <3>3
  <2>2. CASE Ends(c)
    BY <2>2, EndTakes
  <2>3. CASE Goes(c, judged)
    BY <1>4, <1>6, <2>3 DEF Takes, Goes, Gate
  <2>4. CASE At(c, "ceiling") /\ Goes(c, burns)
    BY <1>5, <1>7, <2>4 DEF Takes, Goes, Gate
  <2> QED
    BY <1>8, <2>1, <2>2, <2>3, <2>4
<1>10. Words
  BY NoWords
<1>11. ShimOK' /\ Few'
  BY <1>9, <1>10, StepTypes
<1>12. copies' = [copies EXCEPT ![By(c)] = reading]
  BY DEF Uses
<1>13. BookOK'
  BY <1>2, <1>8, <1>12 DEF TypeOK, BookOK, Reading
<1>14. AuthorityOK'
  BY DEF TypeOK, AuthorityOK, authority
<1>15. /\ call'[c] = b /\ \A d \in Call \ {c} : call'[d] = call[d]
       /\ Running' = IF b = Idle THEN Running \ {c} ELSE Running
  BY <1>9, <1>10, StepTypes
<1>16. \A d \in Running' : call'[d].asked => d \in Running /\ call'[d] = call[d]
  BY <1>9, <1>15 DEF Running
<1>17. \A e \in Enforcer : copies'[e].doc # None => ago[copies'[e].doc] <= copies'[e].age
  BY <1>2, <1>12 DEF TypeOK, BookOK, Dated, True
<1>18. Dated'
  BY <1>16, <1>17 DEF Dated
<1> QED
  BY <1>9, <1>11, <1>13, <1>14, <1>18 DEF TypeOK
-----------------------------------------------------------------------------
(* Steps at the enforcement point, and those of the library between two     *)
(* requests: no question comes or goes, nor what the shim holds.            *)

SameQuestions ==
  \A n \in Negotiation :
    /\ neg'[n].state = neg[n].state /\ neg'[n].decision = neg[n].decision
    /\ neg'[n].live = neg[n].live /\ neg'[n].serial = neg[n].serial
    /\ neg'[n].headless = neg[n].headless

Along(c, b) ==
  b # Idle =>
    /\ b.fresh = call[c].fresh /\ b.pc # "poll"
    /\ \/ /\ b.ticket = call[c].ticket
          /\ b.pc \in Gate \/ (call[c].pc \in Negotiating /\ b.pc \in Negotiating)
       \/ b.pc = "resume" /\ c \notin Headless /\ held # None /\ b.ticket = held

Walks(c) ==
  /\ call[c].pc # "poll" /\ UNCHANGED <<held, spilled>> /\ SameQuestions /\ Words
  /\ \E b : Takes(c, b) /\ Along(c, b)

Kept == TypeOK' /\ Dated'

LEMMA WalkOf ==
  ASSUME TypeOK, Dated, NEW c \in Running, NEW b, Takes(c, b), Along(c, b), Calm(c, b),
         call[c].pc # "poll", UNCHANGED <<held, spilled>>, UNCHANGED <<book, authority>>,
         corroborated' \in BOOLEAN, left' = left \/ (left > 0 /\ left' = left - 1)
  PROVE  Kept /\ Walks(c)
<1>1. Words
  BY DEF TypeOK, ShimOK, Words
<1>2. ShimOK' /\ Few'
  BY <1>1, StepTypes
<1>3. BookOK' /\ AuthorityOK'
  BY DEF TypeOK, BookOK, AuthorityOK, book, authority
<1>4. Dated'
  BY <1>1, CalmIsDated DEF book
<1>5. SameQuestions
  BY DEF SameQuestions, authority
<1> QED
  BY <1>1, <1>2, <1>3, <1>4, <1>5 DEF Kept, Walks, TypeOK

LEMMA EndAlong == \A c : Along(c, Idle) /\ Calm(c, Idle)
  BY DEF Along, Calm

LEMMA UsesWalk ==
  ASSUME TypeOK, Dated, NEW c \in Running, NEW doc \in Documents, NEW reading \in Reading,
         True(reading.doc, reading.age), Reads(c), Uses(c, doc, reading),
         UNCHANGED <<standing, ago, authority, held, corroborated, spilled>>,
         left' = left \/ (left > 0 /\ left' = left - 1)
  PROVE  Kept /\ Walks(c)
<1>1. Kept
  BY UsesTypes DEF Kept
<1>2. \E b : /\ Takes(c, b)
             /\ b # Idle => \/ b.pc \in Gate /\ b.ticket = call[c].ticket
                               /\ b.fresh = call[c].fresh
                            \/ b.pc = "resume" /\ c \notin Headless /\ held # None
                               /\ b.ticket = held /\ b.fresh = call[c].fresh
  BY UsesTypes
<1>3. \E b : Takes(c, b) /\ Along(c, b)
  BY <1>2 DEF Along, Gate
<1>4. Words /\ SameQuestions /\ call[c].pc # "poll"
  BY NoWords DEF SameQuestions, authority, Reads, At
<1> QED
  BY <1>1, <1>3, <1>4 DEF Walks

LEMMA UseCopyWalks ==
  ASSUME TypeOK, Dated, NEW c \in Call, UseCopy(c)
  PROVE  c \in Running /\ Kept /\ Walks(c)
<1>1. c \in Running
  BY CallIs DEF UseCopy, Reads, At, TypeOK
<1>2. Copy(c) \in Reading /\ True(Copy(c).doc, Copy(c).age)
  BY <1>1, CopyIs
<1>3. Copy(c).doc \in Documents
  BY <1>2 DEF UseCopy, Recent, Reading
<1> QED
  BY <1>1, <1>2, <1>3, UsesWalk DEF UseCopy

LEMMA UnreadableWalks ==
  ASSUME TypeOK, Dated, NEW c \in Call, MembershipUnreadable(c)
  PROVE  c \in Running /\ Kept /\ Walks(c)
<1>1. c \in Running /\ call[c].pc \in {"share", "ceiling"}
  BY CallIs DEF MembershipUnreadable, Reads, At, TypeOK
<1>2. Copy(c) \in Reading /\ True(Copy(c).doc, Copy(c).age)
  BY <1>1, CopyIs
<1>3. left > 0 /\ left' = left - 1
  BY DEF MembershipUnreadable, Fails, Happens
<1>4. CASE InGrace(Copy(c))
  <2>1. Copy(c).doc \in Documents /\ Uses(c, Copy(c).doc, Copy(c))
    BY <1>2, <1>4 DEF MembershipUnreadable, InGrace, Reading
  <2> QED
    BY <1>1, <1>2, <1>3, <2>1, UsesWalk DEF MembershipUnreadable
<1>5. CASE ~InGrace(Copy(c))
  <2> DEFINE b == [call[c] EXCEPT !.pc = "resume", !.by = None, !.asked = FALSE, !.ticket = held]
  <2>1. Refused(c) /\ UNCHANGED <<copies, shared>>
    BY <1>5 DEF MembershipUnreadable
  <2>2. call[c] \in Busy
    BY <1>1, CallIs DEF TypeOK, Running
  <2>3. b.asked = FALSE /\ b.pc = "resume" /\ b.ticket = held /\ b.fresh = call[c].fresh
    BY <2>2 DEF Busy
  <2> HIDE DEF b
  <2>4. Takes(c, Idle) \/ (c \notin Headless /\ held # None /\ Takes(c, b))
    BY <1>1, <2>1, RefusedTakes DEF Gate, b
  <2>5. PICK d : Takes(c, d) /\ Along(c, d) /\ Calm(c, d)
    BY <2>3, <2>4, EndAlong DEF Along, Calm, Gate
  <2> QED
    BY <1>1, <1>3, <2>1, <2>5, WalkOf DEF MembershipUnreadable, book, TypeOK, ShimOK
<1> QED
  BY <1>4, <1>5

LEMMA LearnWalks ==
  ASSUME TypeOK, Dated, NEW c \in Call, LearnMembership(c)
  PROVE  c \in Running /\ Kept /\ Walks(c)
<1>1. c \in Running
  BY CallIs DEF LearnMembership, Reads, At, TypeOK
<1>2. call[c].under \in Documents /\ ago[call[c].under] = 0
  BY <1>1 DEF Dated, LearnMembership
<1>3. LET r == Read(call[c].under) IN r \in Reading /\ True(r.doc, r.age)
  BY <1>2 DEF Read, Reading, True, Old
<1> QED
  BY <1>1, <1>2, <1>3, UsesWalk DEF LearnMembership

(* The answer is what the organization says when it is asked.               *)
LEMMA AskWalks ==
  ASSUME TypeOK, Dated, NEW c \in Call, AskMembership(c)
  PROVE  c \in Running /\ Kept /\ Walks(c)
<1> DEFINE b == [call[c] EXCEPT !.by = By(c), !.asked = TRUE, !.under = standing]
<1>1. c \in Running /\ call[c].pc \in {"share", "ceiling"}
  BY CallIs DEF AskMembership, Reads, At, TypeOK
<1>2. call[c] \in Busy /\ Fit(c, call[c])
  BY <1>1, CallIs DEF TypeOK
<1>3. By(c) \in Enforcer /\ Copy(c) \in Reading /\ True(Copy(c).doc, Copy(c).age)
  BY <1>1, ByIs, CopyIs
<1>4. /\ b \in Busy /\ b.pc = call[c].pc /\ b.under = standing
      /\ b.ticket = call[c].ticket /\ b.fresh = call[c].fresh
      /\ b.heard = call[c].heard /\ b.grant = call[c].grant
  BY <1>2, <1>3 DEF Busy, TypeOK, BookOK
<1>5. b # Idle /\ call[c] # Idle
  BY <1>2, <1>4 DEF Busy, Idle, Stages, Gate, Negotiating
<1>6. Fit(c, b)
  BY <1>2, <1>4, <1>5 DEF Fit
<1> HIDE DEF b
<1>7. Takes(c, b) /\ Along(c, b)
  BY <1>1, <1>4, <1>6 DEF AskMembership, Takes, Goes, Along, Gate, b
<1>8. Words
  BY NoWords DEF AskMembership
<1>9. /\ ShimOK' /\ Few' /\ call'[c] = b /\ \A d \in Call \ {c} : call'[d] = call[d]
      /\ Running' = Running
  BY <1>1, <1>5, <1>7, <1>8, StepTypes
<1>10. BookOK' /\ AuthorityOK'
  BY <1>3 DEF TypeOK, BookOK, AuthorityOK, authority, AskMembership, Reading
<1>11. \A e \in Enforcer : copies'[e].doc # None => ago[copies'[e].doc] <= copies'[e].age
  BY <1>3 DEF TypeOK, BookOK, Dated, True, AskMembership
<1>12. \A d \in Running : call'[d].asked => call'[d].under \in Documents /\ ago[call'[d].under] = 0
  BY <1>4, <1>9 DEF Dated, TypeOK, BookOK, Running
<1>13. Dated'
  BY <1>9, <1>11, <1>12 DEF Dated, AskMembership
<1>14. SameQuestions /\ call[c].pc # "poll"
  BY <1>1 DEF SameQuestions, AskMembership, authority
<1> QED
  BY <1>1, <1>7, <1>8, <1>9, <1>10, <1>13, <1>14 DEF Kept, Walks, TypeOK, AskMembership

LEMMA ChallengeFailsWalks ==
  ASSUME TypeOK, Dated, NEW c \in Call, ChallengeFails(c)
  PROVE  c \in Running /\ Kept /\ Walks(c)
<1> DEFINE b == [call[c] EXCEPT !.pc = "resume", !.by = None, !.asked = FALSE, !.ticket = held]
<1>1. c \in Running /\ call[c].pc = "judge" /\ call[c] \in Busy
  BY CallIs DEF ChallengeFails, At, TypeOK
<1>2. b.asked = FALSE /\ b.pc = "resume" /\ b.ticket = held /\ b.fresh = call[c].fresh
  BY <1>1 DEF Busy
<1> HIDE DEF b
<1>3. Takes(c, Idle) \/ (c \notin Headless /\ held # None /\ Takes(c, b))
  BY <1>1, RefusedTakes, EndTakes DEF ChallengeFails, Gate, b
<1>4. PICK d : Takes(c, d) /\ Along(c, d) /\ Calm(c, d)
  BY <1>2, <1>3, EndAlong DEF Along, Calm, Gate
<1> QED
  BY <1>1, <1>4, WalkOf DEF ChallengeFails, Fails, Happens, TypeOK, ShimOK

LEMMA IntrospectWalks ==
  ASSUME TypeOK, Dated, NEW c \in Call, Introspect(c)
  PROVE  c \in Running /\ Kept /\ Walks(c)
<1> DEFINE b == [call[c] EXCEPT !.pc = "ceiling"]
<1>1. c \in Running /\ call[c].pc = "judge" /\ call[c] \in Busy /\ Fit(c, call[c]) /\ call[c] # Idle
  BY CallIs DEF Introspect, At, TypeOK, Idle
<1>2. /\ b \in Busy /\ b.pc = "ceiling" /\ b.asked = call[c].asked /\ b.under = call[c].under
      /\ b.ticket = call[c].ticket /\ b.fresh = call[c].fresh
      /\ b.heard = call[c].heard /\ b.grant = call[c].grant
  BY <1>1 DEF Busy, Stages, Gate
<1>3. Fit(c, b)
  BY <1>1, <1>2 DEF Fit, Introspect, Gate, Negotiating
<1> HIDE DEF b
<1>4. Goes(c, b) \/ Ends(c)
  BY DEF Introspect, b
<1>5. PICK d : Takes(c, d) /\ Along(c, d) /\ Calm(c, d)
  BY <1>2, <1>3, <1>4, EndAlong, EndTakes DEF Along, Calm, Takes, Goes, Gate
<1> QED
  BY <1>1, <1>5, WalkOf DEF Introspect, Fails, Happens, TypeOK, ShimOK

LEMMA BurnWalks ==
  ASSUME TypeOK, Dated, NEW c \in Call, Burn(c)
  PROVE  c \in Running /\ Kept /\ Walks(c)
<1> DEFINE b == [call[c] EXCEPT !.pc = "forward"]
           n == call[c].grant
<1>1. c \in Running /\ call[c].pc = "burn" /\ call[c] \in Busy /\ Fit(c, call[c]) /\ call[c] # Idle
  BY CallIs DEF Burn, At, TypeOK, Idle
<1>2. n \in Negotiation
  BY <1>1 DEF Fit, Busy
<1>3. /\ b \in Busy /\ b.pc = "forward" /\ b.asked = call[c].asked /\ b.under = call[c].under
      /\ b.ticket = call[c].ticket /\ b.fresh = call[c].fresh
      /\ b.heard = call[c].heard /\ b.grant = call[c].grant
  BY <1>1 DEF Busy, Stages, Gate
<1>4. Fit(c, b)
  BY <1>1, <1>3 DEF Fit, Gate, Negotiating
<1> HIDE DEF b
<1>5. Goes(c, b) \/ Ends(c)
  BY DEF Burn, b
<1>6. PICK d : Takes(c, d) /\ Along(c, d) /\ Calm(c, d)
  BY <1>1, <1>3, <1>4, <1>5, EndAlong, EndTakes DEF Along, Calm, Takes, Goes, Gate
<1>7. left' = left \/ (left > 0 /\ left' = left - 1)
  BY DEF Burn, Fails, Happens
<1>8. Words
  BY <1>7, NoWords DEF Burn
<1>9. ShimOK' /\ Few'
  BY <1>1, <1>6, <1>8, StepTypes
<1>10. neg' = neg \/ neg' = [neg EXCEPT ![n].grant = "spent"]
  BY DEF Burn
<1>11. neg' \in [Negotiation -> Row] /\ SameQuestions
  <2>1. neg \in [Negotiation -> Row]
    BY DEF TypeOK, AuthorityOK
  <2>2. [neg[n] EXCEPT !.grant = "spent"] \in Row
    BY <1>2, <2>1 DEF Row
  <2> QED
    BY <1>2, <1>10, <2>1, <2>2 DEF SameQuestions, Row
<1>12. BookOK' /\ AuthorityOK'
  BY <1>11 DEF TypeOK, BookOK, AuthorityOK, Burn, book
<1>13. Dated'
  BY <1>1, <1>6, <1>8, CalmIsDated DEF Burn, book
<1> QED
  BY <1>1, <1>6, <1>8, <1>9, <1>11, <1>12, <1>13 DEF Kept, Walks, TypeOK, Burn

LEMMA ForwardWalks ==
  ASSUME TypeOK, Dated, NEW c \in Call, Forward(c)
  PROVE  c \in Running /\ Kept /\ Walks(c)
<1>1. c \in Running /\ call[c].pc = "forward"
  BY CallIs DEF Forward, At, TypeOK
<1>2. Takes(c, Idle) /\ Along(c, Idle) /\ Calm(c, Idle)
  BY EndTakes, EndAlong DEF Forward
<1> QED
  BY <1>1, <1>2, WalkOf DEF Forward, TypeOK, ShimOK

LEMMA CorroborateWalks ==
  ASSUME TypeOK, Dated, NEW c \in Call, Corroborate(c)
  PROVE  c \in Running /\ Kept /\ Walks(c)
<1> DEFINE b == [call[c] EXCEPT !.pc = "present"]
<1>1. /\ c \in Running /\ call[c].pc = "corroborate" /\ call[c] \in Busy
      /\ Fit(c, call[c]) /\ call[c] # Idle
  BY CallIs DEF Corroborate, At, TypeOK, Idle
<1>2. /\ b \in Busy /\ b.pc = "present" /\ b.asked = call[c].asked /\ b.under = call[c].under
      /\ b.ticket = call[c].ticket /\ b.fresh = call[c].fresh
      /\ b.heard = call[c].heard /\ b.grant = call[c].grant
  BY <1>1 DEF Busy, Stages, Negotiating
<1>3. Fit(c, b)
  BY <1>1, <1>2 DEF Fit, Gate, Negotiating
<1> HIDE DEF b
<1>4. Goes(c, b) \/ Ends(c)
  BY DEF Corroborate, b
<1>5. PICK d : Takes(c, d) /\ Along(c, d) /\ Calm(c, d)
  BY <1>1, <1>2, <1>3, <1>4, EndAlong, EndTakes DEF Along, Calm, Takes, Goes, Negotiating
<1> QED
  BY <1>1, <1>5, WalkOf DEF Corroborate, Fails, Happens, TypeOK, ShimOK

LEMMA ExchangeWalks ==
  ASSUME TypeOK, Dated, NEW c \in Call, Exchange(c)
  PROVE  c \in Running /\ Kept /\ Walks(c)
<1> DEFINE b == [call[c] EXCEPT !.pc = "vouch", !.claim = Assertion]
<1>1. /\ c \in Running /\ call[c].pc = "exchange" /\ call[c] \in Busy
      /\ Fit(c, call[c]) /\ call[c] # Idle
  BY CallIs DEF Exchange, At, TypeOK, Idle
<1>2. Assertion \in [kind : {"assertion"}, by : {Home}, key : Nat]
  BY DEF TypeOK, AuthorityOK, Assertion
<1>3. /\ b \in Busy /\ b.pc = "vouch" /\ b.asked = call[c].asked /\ b.under = call[c].under
      /\ b.ticket = call[c].ticket /\ b.fresh = call[c].fresh
      /\ b.heard = call[c].heard /\ b.grant = call[c].grant
  BY <1>1, <1>2 DEF Busy, Stages, Negotiating
<1>4. Fit(c, b)
  BY <1>1, <1>3 DEF Fit, Gate, Negotiating
<1> HIDE DEF b
<1>5. Goes(c, b) \/ Ends(c)
  BY DEF Exchange, b
<1>6. PICK d : Takes(c, d) /\ Along(c, d) /\ Calm(c, d)
  BY <1>1, <1>3, <1>4, <1>5, EndAlong, EndTakes DEF Along, Calm, Takes, Goes, Negotiating
<1> QED
  BY <1>1, <1>6, WalkOf DEF Exchange, TypeOK, ShimOK

WalkStep(c) ==
  \/ UseCopy(c) \/ AskMembership(c) \/ LearnMembership(c) \/ MembershipUnreadable(c)
  \/ ChallengeFails(c) \/ Introspect(c) \/ Burn(c) \/ Forward(c)
  \/ Corroborate(c) \/ Exchange(c)

LEMMA WalkSteps ==
  ASSUME TypeOK, Dated, NEW c \in Call, WalkStep(c)
  PROVE  c \in Running /\ Kept /\ Walks(c)
  BY UseCopyWalks, AskWalks, LearnWalks, UnreadableWalks, ChallengeFailsWalks, IntrospectWalks,
     BurnWalks, ForwardWalks, CorroborateWalks, ExchangeWalks DEF WalkStep
-----------------------------------------------------------------------------
(* Requests to her authority: what is answered, and where the call goes.    *)

Told(c, t, claim, o) ==
  o \in Token(t, claim) /\ neg' = [neg EXCEPT ![t.of] = o.neg] /\ Answers(t, claim, o)

LEMMA ToldTypes ==
  ASSUME TypeOK, NEW t, t.of \in Negotiation, NEW claim, NEW o \in Token(t, claim),
         neg' = [neg EXCEPT ![t.of] = o.neg], known' \in {known, o.known},
         UNCHANGED <<provider, terms, key, edge>>
  PROVE  AuthorityOK' /\ Answers(t, claim, o)
<1>1. Answers(t, claim, o)
  BY TokenAnswers DEF TypeOK
<1>2. o.neg \in Row /\ o.known \in Nat \cup {None}
  BY <1>1 DEF Answers
<1> QED
  BY <1>1, <1>2 DEF TypeOK, AuthorityOK

(* The library's next step: to wait where her authority says it asks her.   *)
Onward(c, b, r, says) ==
  /\ r \in {Idle} \cup Busy /\ Fit(c, r)
  /\ r # Idle =>
       /\ r.pc \in {"share"} \cup Negotiating
       /\ r.ticket = b.ticket /\ r.fresh = b.fresh
       /\ r.asked = b.asked /\ r.under = b.under
       /\ r.pc = "poll" => says = "submitted"
       /\ r.pc \in Negotiating => says # "forged"
  /\ says = "submitted" => r # Idle /\ r.pc = "poll"

LEMMA SettledOnward ==
  ASSUME TypeOK, NEW c \in Call, NEW b \in Busy, NEW says, b.ticket.of \in Negotiation,
         b.heard = "nothing", b.fresh = NoTicket \/ b.fresh.of \in Negotiation
  PROVE  Onward(c, b, Settled(b, says), says)
<1> DEFINE polls == [b EXCEPT !.pc = "poll"]
           shares == [b EXCEPT !.pc = "share", !.grant = b.ticket.of, !.heard = "yes"]
<1>1. /\ polls \in Busy /\ polls.pc = "poll" /\ polls.ticket = b.ticket /\ polls.fresh = b.fresh
      /\ polls.asked = b.asked /\ polls.under = b.under /\ polls.heard = "nothing"
  BY DEF Busy, Stages, Negotiating
<1>2. /\ shares \in Busy /\ shares.pc = "share" /\ shares.ticket = b.ticket
      /\ shares.fresh = b.fresh /\ shares.asked = b.asked /\ shares.under = b.under
      /\ shares.grant = b.ticket.of
  BY DEF Busy, Stages, Gate
<1>3. b.ticket.of # 0
  BY AgentShimAssumption
<1>4. Fit(c, polls)
  BY <1>1 DEF Fit
<1>5. Fit(c, shares)
  BY <1>2, <1>3 DEF Fit, Gate, Negotiating
<1>6. polls # Idle /\ shares # Idle
  BY <1>1, <1>2 DEF Idle
<1> HIDE DEF polls, shares
<1>7. CASE says = "submitted"
  <2>1. Settled(b, says) = polls
    BY <1>7 DEF Settled, polls
  <2> QED
    BY <1>1, <1>4, <1>6, <1>7, <2>1 DEF Onward, Negotiating
<1>8. CASE says = "granted"
  <2>1. Settled(b, says) = shares
    BY <1>8 DEF Settled, shares
  <2> QED
    BY <1>2, <1>5, <1>6, <1>8, <2>1 DEF Onward, Gate
<1>9. CASE says \notin {"submitted", "granted"}
  <2>1. Settled(b, says) = Idle
    BY <1>9 DEF Settled
  <2> QED
    BY <1>9, <2>1 DEF Onward, Fit
<1> QED
  BY <1>7, <1>8, <1>9

LEMMA RoundOnward ==
  ASSUME TypeOK, NEW c \in Call, NEW b \in Busy, NEW says, b.ticket.of \in Negotiation,
         b.heard = "nothing", b.fresh = NoTicket \/ b.fresh.of \in Negotiation
  PROVE  Onward(c, b, Round(c, b, says), says)
<1> DEFINE exchanges == [b EXCEPT !.pc = "exchange"]
           signs == [b EXCEPT !.pc = "terms", !.claim = NoClaim]
<1>1. /\ exchanges \in Busy /\ exchanges.pc = "exchange" /\ exchanges.ticket = b.ticket
      /\ exchanges.fresh = b.fresh /\ exchanges.asked = b.asked
      /\ exchanges.under = b.under /\ exchanges.heard = "nothing"
  BY DEF Busy, Stages, Negotiating
<1>2. /\ signs \in Busy /\ signs.pc = "terms" /\ signs.ticket = b.ticket
      /\ signs.fresh = b.fresh /\ signs.asked = b.asked
      /\ signs.under = b.under /\ signs.heard = "nothing"
  BY DEF Busy, Stages, Negotiating
<1>3. (c \in Headless => Fit(c, exchanges)) /\ Fit(c, signs)
  BY <1>1, <1>2 DEF Fit
<1>4. exchanges # Idle /\ signs # Idle
  BY <1>1, <1>2 DEF Idle
<1>5. Onward(c, b, Settled(b, says), says)
  BY SettledOnward
<1> HIDE DEF exchanges, signs
<1>6. \/ Round(c, b, says) = Idle /\ says # "submitted"
      \/ Round(c, b, says) = exchanges /\ says = "identity" /\ c \in Headless
      \/ Round(c, b, says) = signs /\ says = "terms"
      \/ Round(c, b, says) = Settled(b, says)
  BY DEF Round, IdJagRequest, exchanges, signs
<1> QED
  BY <1>1, <1>2, <1>3, <1>4, <1>5, <1>6 DEF Onward, Fit, Negotiating

(* A request that negotiates: if she is asked, the call waits, or a         *)
(* question of the shim's is lost.                                          *)
Requests == {"present", "vouch", "terms"}

Posted(c, claim) ==
  /\ call[c].pc \in Requests /\ held' = held /\ Words
  /\ \E o, b :
       /\ Told(c, call[c].ticket, claim, o)
       /\ Takes(c, b)
       /\ b # Idle => /\ b.ticket = Rotated(call[c].ticket, o.neg.serial)
                      /\ b.fresh = call[c].fresh /\ b.pc \in {"share"} \cup Negotiating
                      /\ b.pc = "poll" => o.says = "submitted"
                      /\ b.pc \in Negotiating => o.says # "forged"
       /\ \/ spilled' = spilled /\ (o.says = "submitted" => b # Idle /\ b.pc = "poll")
          \/ spilled' = spilled /\ claim.kind # "agreement"
          \/ spilled' = (spilled \/ (c \notin Headless /\ o.says = "submitted"))

LEMMA PostsKeep ==
  ASSUME TypeOK, Dated, NEW c \in Running, NEW claim, call[c].pc \in Requests,
         NEW rounds \in Nat, Posts(c, [call[c] EXCEPT !.rounds = rounds], claim)
  PROVE  Kept /\ Posted(c, claim)
<1> DEFINE b0 == [call[c] EXCEPT !.rounds = rounds]
           t == call[c].ticket
<1>1. call[c] \in Busy /\ Fit(c, call[c]) /\ call[c] # Idle /\ c \in Call
  BY CallIs DEF TypeOK, Idle, Running
<1>2. t.of \in Negotiation /\ call[c].heard = "nothing" /\ t \in Ticket
  BY <1>1 DEF Fit, Busy, Requests, Negotiating, Gate
<1>3. /\ b0 \in Busy /\ b0.ticket = t /\ b0.fresh = call[c].fresh /\ b0.heard = "nothing"
      /\ b0.asked = call[c].asked /\ b0.under = call[c].under
  BY <1>1, <1>2 DEF Busy
<1> HIDE DEF b0
<1>4. PICK o \in Token(t, claim) :
        /\ neg' = [neg EXCEPT ![t.of] = o.neg]
        /\ known' = o.known
        /\ \/ Hears(c, b0, Rotated(t, o.neg.serial), o.says) /\ UNCHANGED <<left, spilled>>
           \/ Fails /\ Ends(c)
              /\ spilled' = (spilled \/ (c \notin Headless /\ o.says = "submitted"))
  BY <1>3 DEF Posts, b0
<1>5. UNCHANGED <<book, provider, terms, key, edge, held, corroborated>>
  BY DEF Posts
<1>6. AuthorityOK' /\ Answers(t, claim, o)
  BY <1>2, <1>4, <1>5, ToldTypes
<1>7. left' \in Nat /\ spilled' \in BOOLEAN
  <2>1. left' \in Nat
    BY <1>4 DEF Fails, Happens, TypeOK, ShimOK
  <2>2. spilled' = spilled \/ spilled' = (spilled \/ (c \notin Headless /\ o.says = "submitted"))
    BY <1>4
  <2>3. spilled' \in BOOLEAN
    BY <2>2, Zenon DEF TypeOK, ShimOK
  <2> QED
    BY <2>1, <2>3
<1>8. Words
  BY <1>5, <1>7 DEF Words, TypeOK, ShimOK
<1>9. o.neg.serial \in Nat
  BY <1>6 DEF Answers, Row
<1>10. Rotated(t, o.neg.serial) \in Ticket /\ Rotated(t, o.neg.serial).of = t.of
  BY <1>2, <1>9 DEF Rotated, Ticket
<1> DEFINE b1 == [b0 EXCEPT !.ticket = Rotated(t, o.neg.serial)]
<1>11. /\ b1 \in Busy /\ b1.ticket = Rotated(t, o.neg.serial) /\ b1.fresh = call[c].fresh
       /\ b1.heard = "nothing" /\ b1.asked = call[c].asked /\ b1.under = call[c].under
  BY <1>3, <1>10 DEF Busy
<1>12. b1.fresh = NoTicket \/ b1.fresh.of \in Negotiation
  BY <1>1, <1>11 DEF Fit
<1> HIDE DEF b1
<1>13. Onward(c, b1, Round(c, b1, o.says), o.says)
  BY <1>1, <1>2, <1>10, <1>11, <1>12, RoundOnward
<1>14. \E b : /\ Takes(c, b) /\ Calm(c, b)
              /\ b # Idle => /\ b.ticket = Rotated(t, o.neg.serial)
                             /\ b.fresh = call[c].fresh /\ b.pc \in {"share"} \cup Negotiating
                             /\ b.pc = "poll" => o.says = "submitted"
                             /\ b.pc \in Negotiating => o.says # "forged"
              /\ \/ spilled' = spilled /\ (o.says = "submitted" => b # Idle /\ b.pc = "poll")
                 \/ spilled' = (spilled \/ (c \notin Headless /\ o.says = "submitted"))
  <2>1. CASE Hears(c, b0, Rotated(t, o.neg.serial), o.says) /\ UNCHANGED <<left, spilled>>
    <3>1. Goes(c, Round(c, b1, o.says))
      BY <2>1 DEF Hears, b1
    <3>2. Takes(c, Round(c, b1, o.says)) /\ Calm(c, Round(c, b1, o.says))
      BY <1>11, <1>13, <3>1 DEF Takes, Goes, Onward, Calm
    <3> QED
      BY <1>11, <1>13, <2>1, <3>2 DEF Onward
  <2>2. CASE /\ Fails /\ Ends(c)
             /\ spilled' = (spilled \/ (c \notin Headless /\ o.says = "submitted"))
    BY <2>2, EndTakes, EndAlong
  <2> QED
    BY <1>4, <2>1, <2>2
<1>15. ShimOK' /\ Few'
  BY <1>8, <1>14, StepTypes
<1>16. Dated'
  BY <1>5, <1>8, <1>14, CalmIsDated DEF book
<1>17. BookOK'
  BY <1>5 DEF TypeOK, BookOK, book
<1>18. Told(c, t, claim, o)
  BY <1>4, <1>6 DEF Told
<1>19. Posted(c, claim)
  BY <1>5, <1>8, <1>14, <1>18 DEF Posted
<1> QED
  BY <1>6, <1>15, <1>16, <1>17, <1>19 DEF Kept, TypeOK

LEMMA PresentPosts ==
  ASSUME TypeOK, Dated, NEW c \in Call, Present(c)
  PROVE  c \in Running /\ Kept /\ Posted(c, NoClaim)
<1>1. c \in Running /\ call[c] \in Busy /\ call[c].pc = "present"
  BY CallIs DEF Present, At, TypeOK
<1>2. [call[c] EXCEPT !.rounds = call[c].rounds] = call[c] /\ call[c].rounds \in Nat
  BY <1>1 DEF Busy
<1> QED
  BY <1>1, <1>2, PostsKeep DEF Present, Requests

LEMMA VouchPosts ==
  ASSUME TypeOK, Dated, NEW c \in Call, Vouch(c)
  PROVE  c \in Running /\ c \in Headless /\ Kept /\ Posted(c, call[c].claim)
<1>1. c \in Running /\ call[c] \in Busy /\ call[c].pc = "vouch" /\ Fit(c, call[c])
  BY CallIs DEF Vouch, At, TypeOK
<1>2. [call[c] EXCEPT !.rounds = call[c].rounds] = call[c] /\ call[c].rounds \in Nat
  BY <1>1 DEF Busy
<1>3. c \in Headless
  BY <1>1 DEF Fit, Idle
<1> QED
  BY <1>1, <1>2, <1>3, PostsKeep DEF Vouch, Requests

LEMMA SignPosts ==
  ASSUME TypeOK, Dated, NEW c \in Call, Sign(c)
  PROVE  c \in Running /\ Kept /\ \E v : Posted(c, Agreement(v))
<1>1. c \in Running /\ call[c] \in Busy /\ call[c].pc = "terms"
  BY CallIs DEF Sign, At, TypeOK
<1>2. call[c].rounds + 1 \in Nat
  BY <1>1 DEF Busy
<1>3. Posts(c, [call[c] EXCEPT !.rounds = call[c].rounds + 1], Agreement(neg[call[c].ticket.of].terms))
  BY DEF Sign
<1> QED
  BY <1>1, <1>2, <1>3, PostsKeep DEF Requests

(* A decline is answered, and the call is over.                             *)
LEMMA DeclinePosts ==
  ASSUME TypeOK, Dated, NEW c \in Call, Decline(c)
  PROVE  c \in Running /\ Kept /\ Posted(c, Declined)
<1>1. c \in Running /\ call[c] \in Busy /\ call[c].pc = "terms" /\ Fit(c, call[c]) /\ call[c] # Idle
  BY CallIs DEF Decline, At, TypeOK, Idle
<1>2. call[c].ticket.of \in Negotiation
  BY <1>1 DEF Fit, Negotiating
<1>3. PICK o \in Token(call[c].ticket, Declined) :
        neg' = [neg EXCEPT ![call[c].ticket.of] = o.neg]
  BY DEF Decline
<1>4. AuthorityOK' /\ Answers(call[c].ticket, Declined, o)
  BY <1>2, <1>3, ToldTypes DEF Decline
<1>5. Takes(c, Idle) /\ Calm(c, Idle)
  BY EndTakes, EndAlong DEF Decline
<1>6. Words
  BY NoWords DEF Decline
<1>7. ShimOK' /\ Few' /\ Dated'
  BY <1>1, <1>5, <1>6, StepTypes, CalmIsDated DEF Decline, book
<1>8. BookOK'
  BY DEF TypeOK, BookOK, Decline, book
<1>9. Told(c, call[c].ticket, Declined, o)
  BY <1>3, <1>4 DEF Told
<1>10. Posted(c, Declined)
  BY <1>1, <1>5, <1>6, <1>9 DEF Posted, Requests, Decline, Declined
<1> QED
  BY <1>1, <1>4, <1>7, <1>8, <1>10 DEF Kept, TypeOK

(* A poll, and a poll of what is held: the answer ends the wait, or the     *)
(* question stays.                                                          *)
Polled(c) ==
  /\ call[c].pc = "poll" /\ UNCHANGED <<held, spilled>> /\ Words
  /\ \E o, b :
       /\ Told(c, call[c].ticket, NoClaim, o)
       /\ Takes(c, b)
       /\ \/ b = call[c]
          \/ /\ b # Idle => /\ b.ticket = call[c].ticket /\ b.fresh = call[c].fresh
                            /\ b.pc \in {"share"} \cup Negotiating
                            /\ b.pc = "poll" => o.says = "submitted"
             /\ o.says = "submitted" => b # Idle /\ b.pc = "poll"

LEMMA PollKeeps ==
  ASSUME TypeOK, Dated, NEW c \in Call, Poll(c)
  PROVE  c \in Running /\ Kept /\ Polled(c)
<1>1. c \in Running /\ call[c] \in Busy /\ call[c].pc = "poll" /\ Fit(c, call[c]) /\ call[c] # Idle
  BY CallIs DEF Poll, At, TypeOK, Idle
<1>2. /\ call[c].ticket.of \in Negotiation /\ call[c].heard = "nothing"
      /\ call[c].fresh = NoTicket \/ call[c].fresh.of \in Negotiation
  BY <1>1 DEF Fit, Negotiating, Busy, Gate
<1>3. PICK o \in Token(call[c].ticket, NoClaim) :
        /\ neg' = [neg EXCEPT ![call[c].ticket.of] = o.neg]
        /\ \/ Goes(c, Settled(call[c], o.says)) /\ UNCHANGED left
           \/ Fails /\ UNCHANGED call
  BY DEF Poll
<1>4. AuthorityOK' /\ Answers(call[c].ticket, NoClaim, o)
  BY <1>2, <1>3, ToldTypes DEF Poll
<1>5. left' = left \/ (left > 0 /\ left' = left - 1)
  BY <1>3 DEF Fails, Happens
<1>6. Words
  BY <1>5, NoWords DEF Poll
<1>7. Onward(c, call[c], Settled(call[c], o.says), o.says)
  BY <1>1, <1>2, SettledOnward
<1>8. PICK b : /\ Takes(c, b) /\ Calm(c, b)
               /\ b = call[c] \/ (b = Settled(call[c], o.says))
  <2>1. CASE Goes(c, Settled(call[c], o.says))
    BY <1>7, <2>1 DEF Onward, Takes, Goes, Calm
  <2>2. CASE UNCHANGED call
    <3>1. call' = [call EXCEPT ![c] = call[c]]
      BY <2>2 DEF TypeOK, ShimOK
    <3> QED
      BY <1>1, <3>1 DEF Takes, Calm
  <2> QED
    BY <1>3, <2>1, <2>2
<1>9. ShimOK' /\ Few' /\ Dated'
  BY <1>1, <1>6, <1>8, StepTypes, CalmIsDated DEF Poll, book
<1>10. BookOK'
  BY DEF TypeOK, BookOK, Poll, book
<1>11. Told(c, call[c].ticket, NoClaim, o)
  BY <1>3, <1>4 DEF Told
<1>12. Polled(c)
  BY <1>1, <1>6, <1>7, <1>8, <1>11 DEF Polled, Onward, Poll
<1> QED
  BY <1>1, <1>4, <1>9, <1>10, <1>12 DEF Kept, TypeOK

ComesBack(c) ==
  /\ call[c].pc = "resume" /\ c \notin Headless /\ UNCHANGED spilled /\ Words
  /\ \E o, b :
       /\ Told(c, call[c].ticket, NoClaim, o)
       /\ Takes(c, b)
       /\ \/ b = Idle /\ held' = held
          \/ /\ o.says # "submitted" /\ held' = None
             /\ b # Idle => /\ b.fresh = call[c].fresh
                            /\ \/ b.pc = "share" /\ b.ticket = call[c].ticket
                               \/ b.pc = "corroborate" /\ b.ticket = call[c].fresh
                                  /\ call[c].fresh # NoTicket

LEMMA ResumeKeeps ==
  ASSUME TypeOK, Dated, NEW c \in Call, Resume(c)
  PROVE  c \in Running /\ Kept /\ ComesBack(c)
<1>1. /\ c \in Running /\ call[c] \in Busy /\ call[c].pc = "resume" /\ c \notin Headless
      /\ Fit(c, call[c]) /\ call[c] # Idle
  BY CallIs DEF Resume, At, TypeOK, Idle, Fit
<1>2. /\ call[c].ticket.of \in Negotiation /\ call[c].heard = "nothing"
      /\ call[c].fresh = NoTicket \/ call[c].fresh.of \in Negotiation
  BY <1>1 DEF Fit, Busy, Gate
<1>3. PICK o \in Token(call[c].ticket, NoClaim) :
        /\ neg' = [neg EXCEPT ![call[c].ticket.of] = o.neg]
        /\ \/ /\ Goes(c, Resumed(call[c], o.says))
              /\ held' = IF o.says = "submitted" THEN held ELSE None
              /\ UNCHANGED left
           \/ Fails /\ Goes(c, NotArrived(call[c])) /\ UNCHANGED held
  BY DEF Resume
<1>4. AuthorityOK' /\ Answers(call[c].ticket, NoClaim, o)
  BY <1>2, <1>3, ToldTypes DEF Resume
<1>5. Words
  <2>1. left' \in Nat
    BY <1>3 DEF Fails, Happens, TypeOK, ShimOK
  <2>2. held' = None \/ held' = held
    BY <1>3
  <2> QED
    BY <2>1, <2>2 DEF Words, Resume, TypeOK, ShimOK
<1> DEFINE shares == [call[c] EXCEPT !.pc = "share", !.grant = call[c].ticket.of, !.heard = "yes"]
           afresh == [call[c] EXCEPT !.pc = "corroborate", !.ticket = call[c].fresh]
<1>6. /\ shares \in Busy /\ shares.pc = "share" /\ shares.ticket = call[c].ticket
      /\ shares.fresh = call[c].fresh /\ shares.grant = call[c].ticket.of
      /\ shares.asked = call[c].asked /\ shares.under = call[c].under
  BY <1>1, <1>2 DEF Busy, Stages, Gate
<1>7. /\ afresh \in Busy /\ afresh.pc = "corroborate" /\ afresh.ticket = call[c].fresh
      /\ afresh.fresh = call[c].fresh /\ afresh.heard = "nothing"
      /\ afresh.asked = call[c].asked /\ afresh.under = call[c].under
  BY <1>1, <1>2 DEF Busy, Stages, Negotiating
<1>8. Fit(c, shares)
  BY <1>2, <1>6, AgentShimAssumption DEF Fit, Gate, Negotiating
<1>9. call[c].fresh # NoTicket => Fit(c, afresh)
  BY <1>2, <1>7 DEF Fit, Gate
<1> HIDE DEF shares, afresh
<1>10. Resumed(call[c], o.says) \in
         {Idle} \cup (IF o.says = "granted" THEN {shares} ELSE {})
         \cup (IF o.says # "submitted" /\ call[c].fresh # NoTicket THEN {afresh} ELSE {})
  BY DEF Resumed, Afresh, shares, afresh
<1>11. PICK b : /\ Takes(c, b) /\ Calm(c, b)
                /\ \/ b = Idle /\ held' = held
                   \/ /\ o.says # "submitted" /\ held' = None
                      /\ b # Idle => /\ b.fresh = call[c].fresh
                                     /\ \/ b.pc = "share" /\ b.ticket = call[c].ticket
                                        \/ b.pc = "corroborate" /\ b.ticket = call[c].fresh
                                           /\ call[c].fresh # NoTicket
  <2>1. CASE Goes(c, Resumed(call[c], o.says)) /\ held' = IF o.says = "submitted" THEN held ELSE None
    <3>1. CASE Goes(c, Idle)
      BY <2>1, <3>1, EndAlong DEF Takes, Goes, Fit
    <3>2. CASE o.says = "granted" /\ Goes(c, shares)
      BY <1>6, <1>8, <2>1, <3>2 DEF Takes, Goes, Calm, Gate
    <3>3. CASE o.says # "submitted" /\ call[c].fresh # NoTicket /\ Goes(c, afresh)
      BY <1>7, <1>9, <2>1, <3>3 DEF Takes, Goes, Calm
    <3> QED
      BY <1>10, <2>1, <3>1, <3>2, <3>3
  <2>2. CASE Goes(c, NotArrived(call[c])) /\ UNCHANGED held
    BY <2>2, EndAlong DEF Takes, Goes, NotArrived, Fit
  <2> QED
    BY <1>3, <2>1, <2>2
<1>12. ShimOK' /\ Few' /\ Dated'
  BY <1>1, <1>5, <1>11, StepTypes, CalmIsDated DEF Resume, book
<1>13. BookOK'
  BY DEF TypeOK, BookOK, Resume, book
<1>14. Told(c, call[c].ticket, NoClaim, o)
  BY <1>3, <1>4 DEF Told
<1>15. ComesBack(c)
  BY <1>1, <1>5, <1>11, <1>14 DEF ComesBack, Resume
<1> QED
  BY <1>1, <1>4, <1>12, <1>13, <1>15 DEF Kept, TypeOK
-----------------------------------------------------------------------------
(* A call begins, is challenged, hands back, or stops waiting.              *)

LEMMA LeastUnused ==
  ASSUME NEW S \in SUBSET Nat, S # {}
  PROVE  (CHOOSE m \in S : \A o \in S : m <= o) \in S
  BY HasLeast

Challenged(c) ==
  /\ call[c].pc = "judge" /\ UNCHANGED <<held, spilled>> /\ Words
  /\ \E n \in Unused, b \in Busy :
       /\ neg' = [neg EXCEPT ![n] = Opened(c \in Headless)]
       /\ Takes(c, b) /\ b.fresh = [of |-> n, serial |-> 1]
       /\ \/ b.pc = "resume" /\ c \notin Headless /\ held # None /\ b.ticket = held
          \/ b.pc = "corroborate" /\ b.ticket = b.fresh /\ (c \in Headless \/ held = None)

LEMMA ChallengeKeeps ==
  ASSUME TypeOK, Dated, NEW c \in Call, Challenge(c)
  PROVE  c \in Running /\ Kept /\ Challenged(c)
<1> DEFINE n == CHOOSE m \in Unused : \A o \in Unused : m <= o
           t == [of |-> n, serial |-> 1]
           b == [call[c] EXCEPT !.pc = IF Resumes(c) THEN "resume" ELSE "corroborate",
                                !.by = None, !.fresh = t,
                                !.ticket = IF Resumes(c) THEN held ELSE t]
<1>1. /\ c \in Running /\ call[c] \in Busy /\ call[c].pc = "judge" /\ call[c].grant = 0
      /\ Fit(c, call[c]) /\ call[c] # Idle
  BY CallIs DEF Challenge, At, TypeOK, Idle
<1>2. n \in Unused /\ Unused \subseteq Negotiation
  <2>1. Unused \in SUBSET Nat /\ Unused \subseteq Negotiation /\ Unused # {}
    BY AgentShimAssumption DEF Unused, Challenge
  <2> QED
    BY <2>1, LeastUnused
<1>3. neg' = [neg EXCEPT ![n] = Opened(c \in Headless)] /\ Goes(c, b)
  BY DEF Challenge
<1> HIDE DEF n
<1>4. t \in Ticket /\ t.of = n
  BY <1>2 DEF Ticket
<1>5. Resumes(c) => held \in Ticket /\ held.of \in Negotiation /\ held # None /\ c \notin Headless
  BY DEF Resumes, TypeOK, ShimOK
<1> HIDE DEF t
<1>6. /\ b \in Busy /\ b.fresh = t /\ b.heard = call[c].heard
      /\ b.asked = call[c].asked /\ b.under = call[c].under /\ b.grant = 0
      /\ Resumes(c) => b.pc = "resume" /\ b.ticket = held
      /\ ~Resumes(c) => b.pc = "corroborate" /\ b.ticket = t
  <2>1. CASE Resumes(c)
    BY <1>1, <1>4, <1>5, <2>1 DEF Busy, Stages
  <2>2. CASE ~Resumes(c)
    BY <1>1, <1>4, <2>2 DEF Busy, Stages, Negotiating
  <2> QED
    BY <2>1, <2>2
<1> HIDE DEF b
<1>7. Fit(c, b)
  BY <1>1, <1>2, <1>4, <1>5, <1>6 DEF Fit, Gate, Negotiating
<1>8. Takes(c, b) /\ Calm(c, b)
  BY <1>3, <1>6, <1>7 DEF Takes, Goes, Calm
<1>9. Words
  BY NoWords DEF Challenge
<1>10. ShimOK' /\ Few' /\ Dated'
  BY <1>1, <1>8, <1>9, StepTypes, CalmIsDated DEF Challenge, book
<1>11. Opened(c \in Headless) \in Row
  <2>1. Opened(TRUE) \in Row /\ Opened(FALSE) \in Row
    BY DEF Opened, NoNegotiation, Row
  <2>2. CASE c \in Headless
    <3>1. (c \in Headless) = TRUE
      BY <2>2
    <3> QED
      BY <2>1, <3>1, Zenon
  <2>3. CASE c \notin Headless
    <3>1. (c \in Headless) = FALSE
      BY <2>3
    <3> QED
      BY <2>1, <3>1, Zenon
  <2> QED
    BY <2>2, <2>3
<1>12. BookOK' /\ AuthorityOK'
  BY <1>2, <1>3, <1>11 DEF TypeOK, BookOK, AuthorityOK, Challenge, book
<1>13. \/ b.pc = "resume" /\ c \notin Headless /\ held # None /\ b.ticket = held
       \/ b.pc = "corroborate" /\ b.ticket = b.fresh /\ (c \in Headless \/ held = None)
  BY <1>5, <1>6 DEF Resumes
<1>14. b.fresh = [of |-> n, serial |-> 1]
  BY <1>6 DEF t
<1>15. call[c].pc = "judge" /\ UNCHANGED <<held, spilled>>
  BY DEF Challenge, At
<1>16. Challenged(c)
  BY <1>2, <1>3, <1>6, <1>8, <1>9, <1>13, <1>14, <1>15 DEF Challenged
<1> QED
  BY <1>1, <1>10, <1>12, <1>16 DEF Kept, TypeOK

LEMMA HandBackKeeps ==
  ASSUME TypeOK, Dated, NEW c \in Call, HandBack(c)
  PROVE  c \in Running /\ Kept /\ Takes(c, Idle) /\ Words
<1>1. c \in Running /\ call[c] \in Busy /\ call[c].pc = "poll" /\ Fit(c, call[c]) /\ call[c] # Idle
  BY CallIs DEF HandBack, At, TypeOK, Idle
<1>2. call[c].ticket \in Ticket /\ call[c].ticket.of \in Negotiation
  BY <1>1 DEF Fit, Negotiating, Busy
<1>3. Words
  BY <1>2 DEF Words, HandBack, TypeOK, ShimOK
<1>4. Takes(c, Idle) /\ Calm(c, Idle)
  BY EndTakes, EndAlong DEF HandBack
<1>5. ShimOK' /\ Few' /\ Dated'
  BY <1>1, <1>3, <1>4, StepTypes, CalmIsDated DEF HandBack, book
<1>6. BookOK' /\ AuthorityOK'
  BY DEF TypeOK, BookOK, AuthorityOK, HandBack, book, authority
<1> QED
  BY <1>1, <1>3, <1>4, <1>5, <1>6 DEF Kept, TypeOK

LEMMA StopWaitingKeeps ==
  ASSUME TypeOK, Dated, NEW c \in Call, StopWaiting(c)
  PROVE  c \in Running /\ Kept /\ Takes(c, Idle) /\ Words
<1>1. c \in Running
  BY CallIs DEF StopWaiting, At, TypeOK
<1>2. left' \in Nat
  <2>1. left' = left \/ (left > 0 /\ left' = left - 1)
    BY DEF StopWaiting, Happens
  <2> QED
    BY <2>1 DEF TypeOK, ShimOK
<1>3. Words
  <2>1. spilled' = spilled \/ spilled' = TRUE
    BY DEF StopWaiting
  <2> QED
    BY <1>2, <2>1 DEF Words, StopWaiting, TypeOK, ShimOK
<1>4. Takes(c, Idle) /\ Calm(c, Idle)
  BY EndTakes, EndAlong DEF StopWaiting
<1>5. ShimOK' /\ Few' /\ Dated'
  BY <1>1, <1>3, <1>4, StepTypes, CalmIsDated DEF StopWaiting, book
<1>6. BookOK' /\ AuthorityOK'
  BY DEF TypeOK, BookOK, AuthorityOK, StopWaiting, book, authority
<1> QED
  BY <1>1, <1>3, <1>4, <1>5, <1>6 DEF Kept, TypeOK

(* A call starts with nothing, and what nobody comes back to goes.          *)
Started == 
  [pc |-> "share", by |-> None, under |-> None, asked |-> FALSE, grant |-> 0,
   fresh |-> NoTicket, ticket |-> NoTicket, rounds |-> 0, heard |-> "nothing", claim |-> NoClaim]

Starts(c) ==
  /\ call[c] = Idle /\ held' = held
  /\ call'[c] = Started /\ \A d \in Call \ {c} : call'[d] = call[d]
  /\ Running' = Running \cup {c}
  /\ spilled' = (spilled \/ (c \notin Headless /\ Shimmed # {}))
  /\ neg' = [n \in Negotiation |-> IF n \in Unused THEN NoNegotiation ELSE neg[n]]

LEMMA StartKeeps ==
  ASSUME TypeOK, Dated, NEW c \in Call, Start(c)
  PROVE  Kept /\ Starts(c)
<1>1. call \in [Call -> {Idle} \cup Busy] /\ call[c] = Idle
  BY DEF Start, At, TypeOK, ShimOK, Busy, Stages, Gate, Negotiating
<1>2. Started \in Busy /\ Started # Idle /\ Fit(c, Started)
  BY DEF Started, Busy, Stages, Gate, Negotiating, Ticket, NoTicket, Idle, Fit
<1>3. /\ call' = [call EXCEPT ![c] = Started]
      /\ spilled' = (spilled \/ (c \notin Headless /\ Shimmed # {}))
      /\ neg' = [n \in Negotiation |-> IF n \in Unused THEN NoNegotiation ELSE neg[n]]
      /\ Cardinality(Running) < InFlight
      /\ copies' = [e \in Enforcer |->
                      IF e # shared /\ \A d \in Running : call[d].by # e THEN NoCopy ELSE copies[e]]
      /\ UNCHANGED <<standing, shared, ago, provider, terms, key, known, edge, held,
                     corroborated, left>>
  BY DEF Start, Goes, Started
<1>4. /\ call' \in [Call -> {Idle} \cup Busy] /\ call'[c] = Started
      /\ \A d \in Call \ {c} : call'[d] = call[d]
  BY <1>1, <1>2, <1>3
<1>5. Running' = Running \cup {c} /\ c \notin Running
  BY <1>1, <1>2, <1>4 DEF Running
<1>6. Few'
  <2>1. IsFiniteSet(Running) /\ Cardinality(Running) \in Nat /\ InFlight \in Int
    BY FS_CardinalityType, AgentShimAssumption DEF TypeOK, Few
  <2>2. IsFiniteSet(Running') /\ Cardinality(Running') = Cardinality(Running) + 1
    BY <1>5, <2>1, FS_AddElement
  <2> QED
    BY <1>3, <2>1, <2>2 DEF Few
<1>7. spilled' \in BOOLEAN
  BY <1>3, Zenon
<1>8. ShimOK'
  <2>1. \A d \in Call : Fit(d, call'[d])
    BY <1>2, <1>4 DEF TypeOK, ShimOK
  <2> QED
    BY <1>3, <1>4, <1>7, <2>1 DEF TypeOK, ShimOK, Fit
<1>9. NoCopy \in Reading /\ NoCopy.doc = None /\ NoNegotiation \in Row
  BY DEF NoCopy, Reading, Old, NoNegotiation, Row
<1>10. BookOK'
  BY <1>3, <1>9 DEF TypeOK, BookOK, Reading
<1>11. AuthorityOK'
  BY <1>3, <1>9 DEF TypeOK, AuthorityOK
<1>12. \A d \in Running' : call'[d].asked => d \in Running /\ call'[d] = call[d]
  BY <1>4, <1>5 DEF Started, Running
<1>13. Dated'
  BY <1>3, <1>9, <1>12 DEF Dated
<1>14. Starts(c)
  BY <1>1, <1>3, <1>4, <1>5 DEF Starts
<1> QED
  BY <1>6, <1>8, <1>10, <1>11, <1>13, <1>14 DEF Kept, TypeOK
-----------------------------------------------------------------------------
(* What is not a call's: a restart, her, and what goes on around them.      *)

Restarted ==
  /\ held' = None /\ spilled' = TRUE /\ neg' = neg
  /\ Running' \subseteq Running \cap Headless
  /\ \A c \in Running' : call'[c] = call[c]

LEMMA RestartKeeps ==
  ASSUME TypeOK, Dated, ShimRestarts
  PROVE  Kept /\ Restarted
<1>1. call' = [c \in Call |-> IF c \in Headless THEN call[c] ELSE Idle]
  BY DEF ShimRestarts
<1>2. call \in [Call -> {Idle} \cup Busy] /\ \A c \in Call : Fit(c, call[c])
  BY DEF TypeOK, ShimOK
<1>3. call' \in [Call -> {Idle} \cup Busy] /\ \A c \in Call : call'[c] \in {call[c], Idle}
  BY <1>1, <1>2
<1>4. \A c \in Call : Fit(c, call'[c])
  BY <1>2, <1>3 DEF Fit
<1>5. Running' \subseteq Running \cap Headless /\ \A c \in Running' : call'[c] = call[c]
  BY <1>1, <1>2 DEF Running
<1>6. Few'
  BY <1>5, FewerAreFew DEF TypeOK
<1>7. left' \in Nat
  BY DEF ShimRestarts, Happens, TypeOK, ShimOK
<1>8. ShimOK'
  <2>1. \A c \in Call : Fit(c, call[c])'
    BY <1>4 DEF Fit
  <2>2. held' = None /\ corroborated' = FALSE /\ spilled' = TRUE
    BY DEF ShimRestarts
  <2> QED
    BY <1>3, <1>7, <2>1, <2>2 DEF ShimOK
<1>9. BookOK' /\ AuthorityOK' /\ UNCHANGED <<standing, copies, ago, neg>>
  BY DEF ShimRestarts, TypeOK, BookOK, AuthorityOK, book, authority
<1>10. Dated'
  BY <1>5, <1>9 DEF Dated
<1>11. Restarted
  BY <1>5, <1>9 DEF Restarted, ShimRestarts
<1> QED
  BY <1>6, <1>8, <1>9, <1>10, <1>11 DEF Kept, TypeOK

(* Calls are where they were.                                               *)
LEMMA AsideKeeps ==
  ASSUME TypeOK, Dated, Aside, left' = left \/ (left > 0 /\ left' = left - 1)
  PROVE  /\ ShimOK' /\ Few' /\ Running' = Running
         /\ UNCHANGED <<standing, copies, ago>> => Dated'
<1>1. UNCHANGED <<call, held, corroborated, spilled>>
  BY DEF Aside
<1>2. Running' = Running
  BY <1>1 DEF Running
<1>3. Few'
  BY <1>2 DEF TypeOK, Few
<1>4. left' \in Nat
  BY DEF TypeOK, ShimOK
<1>5. ShimOK'
  BY <1>1, <1>4 DEF TypeOK, ShimOK, Fit
<1>6. UNCHANGED <<standing, copies, ago>> => Dated'
  BY <1>1, <1>2 DEF Dated
<1> QED
  BY <1>2, <1>3, <1>5, <1>6

Answered(n) ==
  /\ n \in Negotiation
  /\ UNCHANGED <<call, held, spilled>>
  /\ \A m \in Negotiation \ {n} : neg'[m] = neg[m]
  /\ \/ neg'[n].state = "closed" /\ ~neg'[n].live
     \/ /\ neg'[n].state = neg[n].state /\ neg'[n].live = neg[n].live
        /\ neg'[n].headless = neg[n].headless /\ neg'[n].serial = neg[n].serial
        /\ neg'[n].decision = neg[n].decision \/ neg'[n].decision # "none"

LEMMA HerKeeps ==
  ASSUME TypeOK, Dated, Her
  PROVE  Kept /\ \E n : Answered(n)
<1>1. Aside /\ UNCHANGED book
  BY DEF Her
<1>2. PICK n \in Negotiation : \/ Decide(n) /\ UNCHANGED left
                               \/ Expires(n) /\ Happens
  BY DEF Her
<1>3. neg \in [Negotiation -> Row] /\ terms \in Nat
  BY DEF TypeOK, AuthorityOK
<1>4. Closed(neg[n]) \in Row /\ Closed(neg[n]).state = "closed" /\ ~Closed(neg[n]).live
  BY <1>3, RowsOf
<1>5. PICK r \in Row :
        /\ neg' = [neg EXCEPT ![n] = r]
        /\ \/ r.state = "closed" /\ ~r.live
           \/ /\ r.state = neg[n].state /\ r.live = neg[n].live
              /\ r.headless = neg[n].headless /\ r.serial = neg[n].serial
              /\ r.decision = neg[n].decision \/ r.decision # "none"
  <2>1. CASE Decide(n)
    <3>1. PICK d \in {"yes", "no"} : neg' = [neg EXCEPT ![n] = [neg[n] EXCEPT !.decision = d]]
      BY <2>1 DEF Decide
    <3>2. LET r == [neg[n] EXCEPT !.decision = d]
          IN  /\ r \in Row /\ r.state = neg[n].state /\ r.live = neg[n].live
              /\ r.headless = neg[n].headless /\ r.serial = neg[n].serial /\ r.decision = d
      BY <1>3 DEF Row
    <3> QED
      BY <3>1, <3>2
  <2>2. CASE Expires(n)
    <3>1. \/ neg' = [neg EXCEPT ![n] = Closed(neg[n])]
          \/ neg' = [neg EXCEPT ![n] = [neg[n] EXCEPT !.grant = "ended"]]
      BY <2>2 DEF Expires
    <3>2. LET r == [neg[n] EXCEPT !.grant = "ended"]
          IN  /\ r \in Row /\ r.state = neg[n].state /\ r.live = neg[n].live
              /\ r.headless = neg[n].headless /\ r.serial = neg[n].serial
              /\ r.decision = neg[n].decision
      BY <1>3 DEF Row
    <3> QED
      BY <1>4, <3>1, <3>2
  <2> QED
    BY <1>2, <2>1, <2>2
<1>6. UNCHANGED <<provider, terms, key, known, edge>>
  BY <1>2 DEF Decide, Expires
<1>7. AuthorityOK'
  BY <1>3, <1>5, <1>6 DEF TypeOK, AuthorityOK
<1>8. left' = left \/ (left > 0 /\ left' = left - 1)
  BY <1>2 DEF Happens
<1>9. BookOK' /\ UNCHANGED <<standing, copies, ago>>
  BY <1>1 DEF TypeOK, BookOK, book
<1>10. ShimOK' /\ Few' /\ Dated'
  BY <1>1, <1>8, <1>9, AsideKeeps
<1>11. Answered(n)
  BY <1>1, <1>3, <1>5 DEF Answered, Aside
<1> QED
  BY <1>7, <1>9, <1>10, <1>11 DEF Kept, TypeOK

LEMMA AroundKeeps ==
  ASSUME TypeOK, Dated, Around
  PROVE  Kept /\ UNCHANGED <<call, held, spilled, neg>>
<1>1. Aside /\ Happens
  BY DEF Around, ChangesAuthority, ChangesMembership
<1>2. left' = left \/ (left > 0 /\ left' = left - 1)
  BY <1>1 DEF Happens
<1>3. ShimOK' /\ Few' /\ Running' = Running /\ call' = call
  BY <1>1, <1>2, AsideKeeps DEF Aside
<1>4. CASE ChangesAuthority /\ UNCHANGED book
  <2>1. BookOK' /\ UNCHANGED <<standing, copies, ago>>
    BY <1>4 DEF TypeOK, BookOK, book
  <2>2. AuthorityOK' /\ UNCHANGED neg
    <3>1. /\ UNCHANGED neg /\ provider' \in {provider, None, Home, Elsewhere}
          /\ terms' \in {terms, terms + 1} /\ key' \in {key, key + 1}
          /\ known' \in {known, None}
      BY <1>4 DEF ChangesAuthority, CharterNames, TermsChange, KeyRotates, KeysLapse,
                  AddConnection, DropConnection, Boot
    <3>2. edge' \in BOOLEAN
      <4>1. edge' = edge \/ edge' = TRUE \/ edge' = FALSE \/ edge' = Seeded
        BY <1>4 DEF ChangesAuthority, CharterNames, TermsChange, KeyRotates, KeysLapse,
                    AddConnection, DropConnection, Boot
      <4> QED
        BY <4>1, AgentShimAssumption DEF TypeOK, AuthorityOK
    <3> QED
      BY <3>1, <3>2 DEF TypeOK, AuthorityOK
  <2>3. Dated'
    BY <1>1, <1>2, <2>1, AsideKeeps
  <2> QED
    BY <1>1, <1>3, <2>1, <2>2, <2>3 DEF Kept, TypeOK, Aside
<1>5. CASE ChangesMembership /\ UNCHANGED authority
  <2>1. AuthorityOK' /\ UNCHANGED neg
    BY <1>5 DEF TypeOK, AuthorityOK, authority
  <2>2. CASE \E d \in Documents : Governs(d)
    <3>1. PICK d \in Documents : Governs(d)
      BY <2>2
    <3>2. standing' = d /\ ago' = [ago EXCEPT ![d] = 0] /\ UNCHANGED <<copies, shared>>
      BY <3>1 DEF Governs
    <3>3. BookOK'
      BY <3>1, <3>2 DEF TypeOK, BookOK, Old
    <3>4. \A u \in Documents : ago'[u] = 0 \/ ago'[u] = ago[u]
      BY <3>1, <3>2 DEF TypeOK, BookOK
    <3>5. \A e \in Enforcer : copies'[e].doc # None => ago'[copies'[e].doc] <= copies'[e].age
      BY <3>2, <3>4 DEF TypeOK, BookOK, Dated
    <3>6. ago'[standing'] = 0
      BY <3>1, <3>2 DEF TypeOK, BookOK
    <3>7. \A c \in Running' : call'[c].asked =>
            call'[c].under \in Documents /\ ago'[call'[c].under] = 0
      BY <1>3, <3>4 DEF Dated
    <3> QED
      BY <1>1, <1>3, <2>1, <3>3, <3>5, <3>6, <3>7 DEF Kept, TypeOK, Dated, Aside
  <2>3. CASE PeriodPasses /\ \A c \in Running : ~call[c].asked
    <3>1. /\ copies' = [e \in Enforcer |-> [copies[e] EXCEPT !.age = IF @ < Old THEN @ + 1 ELSE @]]
          /\ ago' = [d \in Documents |->
                       IF d = standing THEN 0 ELSE IF ago[d] < Old THEN ago[d] + 1 ELSE Old]
          /\ UNCHANGED <<standing, shared>>
      BY <2>3 DEF PeriodPasses
    <3>2. copies \in [Enforcer -> Reading] /\ ago \in [Documents -> 0..Old]
      BY DEF TypeOK, BookOK, Reading
    <3>3. \A e \in Enforcer :
            /\ copies'[e] \in Reading /\ copies'[e].doc = copies[e].doc
            /\ copies'[e].age = IF copies[e].age < Old THEN copies[e].age + 1 ELSE copies[e].age
      BY <3>1, <3>2 DEF Reading, Old
    <3>4. BookOK'
      <4>1. copies' \in [Enforcer -> Reading]
        BY <3>1, <3>3
      <4>2. ago' \in [Documents -> 0..Old]
        BY <3>1, <3>2 DEF Old
      <4> QED
        BY <3>1, <4>1, <4>2 DEF TypeOK, BookOK, Reading
    <3>5. \A e \in Enforcer : copies'[e].doc # None => ago'[copies'[e].doc] <= copies'[e].age
      <4> SUFFICES ASSUME NEW e \in Enforcer, copies'[e].doc # None
                   PROVE  ago'[copies'[e].doc] <= copies'[e].age
        OBVIOUS
      <4>1. copies[e].doc \in Documents /\ copies[e].age \in 0..Old
        BY <3>2, <3>3 DEF Reading
      <4>2. ago[copies[e].doc] <= copies[e].age
        BY <3>3 DEF Dated
      <4> DEFINE d == copies[e].doc
                 a == copies[e].age
      <4>3. ago'[d] = IF d = standing THEN 0 ELSE IF ago[d] < Old THEN ago[d] + 1 ELSE Old
        BY <3>1, <4>1
      <4>4. /\ copies'[e].doc = d
            /\ copies'[e].age = IF a < Old THEN a + 1 ELSE a
        BY <3>3
      <4>5. ago[d] \in 0..Old /\ a \in 0..Old
        BY <3>2, <4>1
      <4> HIDE DEF d, a
      <4> QED
        BY <4>2, <4>3, <4>4, <4>5 DEF Old, d, a
    <3>6. ago'[standing'] = 0
      BY <3>1 DEF TypeOK, BookOK
    <3>7. \A c \in Running' : ~call'[c].asked
      BY <1>3, <2>3
    <3> QED
      BY <1>1, <1>3, <2>1, <3>4, <3>5, <3>6, <3>7 DEF Kept, TypeOK, Dated, Aside
  <2> QED
    BY <1>5, <2>2, <2>3 DEF ChangesMembership
<1> QED
  BY <1>4, <1>5 DEF Around
-----------------------------------------------------------------------------
(* Every step is one of these.                                              *)

Over(c) ==
  /\ call[c].pc = "poll" /\ Takes(c, Idle) /\ Words /\ neg' = neg
  /\ \/ held' = call[c].ticket /\ c \notin Headless /\ spilled' = spilled
     \/ held' = held /\ (c \in Headless \/ spilled') /\ (spilled => spilled')

Moves(c) ==
  \/ Walks(c) \/ Polled(c) \/ ComesBack(c) \/ Challenged(c) \/ Over(c)
  \/ \E claim : Posted(c, claim)

Quiet == UNCHANGED <<call, held, spilled, neg>>

LEMMA MovesIs ==
  ASSUME TypeOK, Dated, NEW c \in Call, Enforces(c) \/ Negotiates(c)
  PROVE  Kept /\ c \in Running /\ Moves(c)
<1>1. CASE WalkStep(c)
  BY <1>1, WalkSteps DEF Moves
<1>2. CASE Challenge(c)
  BY <1>2, ChallengeKeeps DEF Moves
<1>3. CASE Present(c)
  BY <1>3, PresentPosts DEF Moves
<1>4. CASE Vouch(c)
  BY <1>4, VouchPosts DEF Moves
<1>5. CASE Sign(c)
  BY <1>5, SignPosts DEF Moves
<1>6. CASE Decline(c)
  BY <1>6, DeclinePosts DEF Moves
<1>7. CASE Poll(c)
  BY <1>7, PollKeeps DEF Moves
<1>8. CASE Resume(c)
  BY <1>8, ResumeKeeps DEF Moves
<1>9. CASE HandBack(c)
  <2>1. c \in Running /\ Kept /\ Takes(c, Idle) /\ Words
    BY <1>9, HandBackKeeps
  <2>2. Over(c)
    BY <1>9, <2>1 DEF Over, HandBack, At, authority
  <2> QED
    BY <2>1, <2>2 DEF Moves
<1>10. CASE StopWaiting(c)
  <2>1. c \in Running /\ Kept /\ Takes(c, Idle) /\ Words
    BY <1>10, StopWaitingKeeps
  <2>2. Over(c)
    BY <1>10, <2>1 DEF Over, StopWaiting, At, authority
  <2> QED
    BY <2>1, <2>2 DEF Moves
<1> QED
  BY <1>1, <1>2, <1>3, <1>4, <1>5, <1>6, <1>7, <1>8, <1>9, <1>10
     DEF Enforces, Negotiates, WalkStep

LEMMA NextIs ==
  ASSUME TypeOK, Dated, Next
  PROVE  /\ Kept
         /\ \/ \E c \in Call : Starts(c)
            \/ \E c \in Running : Moves(c)
            \/ Restarted
            \/ \E n : Answered(n)
            \/ Quiet
<1>1. ASSUME NEW c \in Call, Start(c)
      PROVE  Kept /\ Starts(c)
  BY <1>1, StartKeeps
<1>2. ASSUME NEW c \in Call, Enforces(c) \/ Negotiates(c)
      PROVE  Kept /\ c \in Running /\ Moves(c)
  BY <1>2, MovesIs
<1>3. Around => Kept /\ Quiet
  BY AroundKeeps DEF Quiet
<1> QED
  BY <1>1, <1>2, <1>3, RestartKeeps, HerKeeps DEF Next

LEMMA InitTypes ==
  ASSUME Init
  PROVE  TypeOK /\ Dated
<1>1. BookOK
  BY DEF Init, BookInit, BookOK, NoCopy, Documents, Old
<1>2. AuthorityOK
  <2>1. NoNegotiation \in Row
    BY DEF NoNegotiation, Row
  <2> QED
    BY <2>1, AgentShimAssumption DEF Init, AuthorityInit, AuthorityOK
<1>3. Running = {} /\ call \in [Call -> {Idle} \cup Busy] /\ \A c \in Call : Fit(c, call[c])
  BY DEF Init, Running, Fit
<1>4. Few
  BY <1>3, FS_EmptySet, AgentShimAssumption DEF Few
<1>5. ShimOK
  BY <1>3, AgentShimAssumption DEF Init, ShimOK
<1>6. Dated
  BY <1>3 DEF Init, BookInit, NoCopy, Documents, Dated
<1> QED
  BY <1>1, <1>2, <1>4, <1>5, <1>6 DEF TypeOK

LEMMA StutterKeeps ==
  ASSUME TypeOK, Dated, UNCHANGED vars
  PROVE  Kept /\ Quiet /\ Running' = Running
<1>1. UNCHANGED <<book, authority, shim>> /\ Running' = Running
  BY DEF vars, book, authority, shim, Running
<1>2. BookOK' /\ AuthorityOK'
  BY <1>1 DEF TypeOK, BookOK, AuthorityOK, book, authority
<1>3. ShimOK' /\ Few'
  BY <1>1 DEF TypeOK, ShimOK, Few, Fit, shim
<1>4. Dated'
  BY <1>1 DEF Dated, book, shim
<1> QED
  BY <1>1, <1>2, <1>3, <1>4 DEF Kept, TypeOK, Quiet, shim, authority

(* The step a call is at has in hand what it uses, and no copy of her       *)
(* membership is younger than the organization's word of what it says.      *)
THEOREM TypeCorrect == Spec => [](TypeOK /\ Dated)
<1>1. Init => TypeOK /\ Dated
  BY InitTypes
<1>2. TypeOK /\ Dated /\ [Next]_vars => (TypeOK /\ Dated)'
  BY NextIs, StutterKeeps DEF Kept
<1> QED
  BY <1>1, <1>2, PTL DEF Spec

(* A call that has her answer asks her nothing again: neither when the call *)
(* made under her yes fails, nor when a no was given to an earlier call.    *)
THEOREM HerAnswerHolds == Spec => []HerAnswerEndsTheCall
<1>1. TypeOK => HerAnswerEndsTheCall
  BY DEF TypeOK, ShimOK, Fit, Running, HerAnswerEndsTheCall, Gate, Negotiating
<1> QED
  BY <1>1, TypeCorrect, PTL
-----------------------------------------------------------------------------
(* Who gets past the enforcement point does so on what was just read.       *)

Past == {"judge", "burn"}

LEMMA NobodyPasses ==
  ASSUME TypeOK, NEW c \in Running, NEW b, Takes(c, b),
         b = Idle \/ b.pc \notin Past \/ b.pc = call[c].pc, NEW d \in Call
  PROVE  ~Passes(d)
<1>1. c \in Call /\ call'[c] = b /\ \A e \in Call \ {c} : call'[e] = call[e]
  BY DEF Takes, Running, TypeOK, ShimOK
<1> QED
  BY <1>1 DEF Passes, Past, Idle

LEMMA UsesPass ==
  ASSUME TypeOK, Dated, NEW c \in Running, NEW doc \in Documents, NEW reading \in Reading,
         True(reading.doc, reading.age), Reads(c), Uses(c, doc, reading),
         UNCHANGED <<standing, ago, authority, held, corroborated, spilled>>,
         left' = left \/ (left > 0 /\ left' = left - 1), ago[doc] < Old,
         NEW d \in Call, Passes(d)
  PROVE  ago[call'[d].under] < Old
<1>1. PICK b : /\ Takes(c, b)
               /\ b # Idle => (b.pc \in Gate /\ b.under = doc) \/ b.pc = "resume"
  BY UsesTypes
<1>2. c \in Call /\ call'[c] = b /\ \A e \in Call \ {c} : call'[e] = call[e]
  BY <1>1 DEF Takes, Running, TypeOK, ShimOK
<1>3. d = c /\ b # Idle /\ b.pc # "resume"
  BY <1>2 DEF Passes, Idle
<1> QED
  BY <1>1, <1>2, <1>3

LEMMA ReadsPass ==
  ASSUME TypeOK, Dated, NEW c \in Call,
         UseCopy(c) \/ LearnMembership(c) \/ MembershipUnreadable(c),
         NEW d \in Call, Passes(d)
  PROVE  ago[call'[d].under] < Old
<1>1. c \in Running /\ Reads(c)
  BY CallIs DEF UseCopy, LearnMembership, MembershipUnreadable, Reads, At, TypeOK
<1>2. Copy(c) \in Reading /\ True(Copy(c).doc, Copy(c).age) /\ ago \in [Documents -> 0..Old]
  BY <1>1, CopyIs DEF TypeOK, BookOK
<1>3. CASE UseCopy(c)
  <2>1. Copy(c).doc \in Documents /\ Copy(c).doc # None /\ Copy(c).age = 0
    BY <1>2, <1>3 DEF UseCopy, Recent, Reading
  <2>2. ago[Copy(c).doc] < Old
    BY <1>2, <2>1 DEF True, Old
  <2> QED
    BY <1>1, <1>2, <1>3, <2>1, <2>2, UsesPass DEF UseCopy
<1>4. CASE LearnMembership(c)
  <2>1. call[c].under \in Documents /\ ago[call[c].under] = 0
    BY <1>1, <1>4 DEF Dated, LearnMembership
  <2>2. LET r == Read(call[c].under) IN r \in Reading /\ True(r.doc, r.age)
    BY <2>1 DEF Read, Reading, True, Old
  <2>3. ago[call[c].under] < Old
    BY <2>1 DEF Old
  <2> QED
    BY <1>1, <1>4, <2>1, <2>2, <2>3, UsesPass DEF LearnMembership
<1>5. CASE MembershipUnreadable(c) /\ InGrace(Copy(c))
  <2>1. /\ Copy(c).doc \in Documents /\ Copy(c).doc # None /\ Copy(c).age < Old
        /\ Copy(c).age \in 0..Old
    BY <1>2, <1>5 DEF InGrace, Reading
  <2>2. ago[Copy(c).doc] < Old
    BY <1>2, <2>1 DEF True, Old
  <2>3. left > 0 /\ left' = left - 1 /\ Uses(c, Copy(c).doc, Copy(c))
    BY <1>5 DEF MembershipUnreadable, Fails, Happens
  <2> QED
    BY <1>1, <1>2, <1>5, <2>1, <2>2, <2>3, UsesPass DEF MembershipUnreadable
<1>6. CASE MembershipUnreadable(c) /\ ~InGrace(Copy(c))
  <2>1. Refused(c) /\ call[c].pc \in Gate
    BY <1>6 DEF MembershipUnreadable, Reads, At, Gate
  <2>2. call[c] \in Busy
    BY <1>1, CallIs DEF TypeOK
  <2>3. PICK b : Takes(c, b) /\ (b = Idle \/ b.pc = "resume")
    <3> DEFINE b == [call[c] EXCEPT !.pc = "resume", !.by = None, !.asked = FALSE, !.ticket = held]
    <3>1. b.pc = "resume"
      BY <2>2 DEF Busy
    <3> QED
      BY <1>1, <2>1, <3>1, RefusedTakes
  <2> QED
    BY <1>1, <2>3, NobodyPasses DEF Past
<1> QED
  BY <1>3, <1>4, <1>5, <1>6

(* The other steps take nobody past it.                                     *)
LEMMA OthersDoNotPass ==
  ASSUME TypeOK, NEW c \in Call,
         \/ AskMembership(c) \/ ChallengeFails(c) \/ Introspect(c) \/ Burn(c)
         \/ Forward(c) \/ Corroborate(c) \/ Exchange(c),
         NEW d \in Call
  PROVE  ~Passes(d)
<1>1. c \in Running
  BY CallIs DEF AskMembership, ChallengeFails, Introspect, Burn, Forward, Corroborate, Exchange,
                Reads, At, TypeOK
<1>2. call[c] \in Busy /\ call \in [Call -> {Idle} \cup Busy]
  BY <1>1, CallIs DEF TypeOK, ShimOK
<1>3. PICK b : /\ call' = [call EXCEPT ![c] = b]
               /\ b = Idle \/ b.pc \notin Past \/ b.pc = call[c].pc
  <2>1. CASE AskMembership(c)
    <3> DEFINE b == [call[c] EXCEPT !.by = By(c), !.asked = TRUE, !.under = standing]
    <3>1. b.pc = call[c].pc
      BY <1>2 DEF Busy
    <3> QED
      BY <2>1, <3>1 DEF AskMembership, Goes
  <2>2. CASE ChallengeFails(c)
    <3> DEFINE b == [call[c] EXCEPT !.pc = "resume", !.by = None, !.asked = FALSE, !.ticket = held]
    <3>1. b.pc = "resume"
      BY <1>2 DEF Busy
    <3>2. Ends(c) \/ Goes(c, b)
      BY <2>2 DEF ChallengeFails, Refused
    <3> HIDE DEF b
    <3> QED
      BY <3>1, <3>2 DEF Ends, Goes, Past
  <2>3. CASE Introspect(c)
    <3>1. [call[c] EXCEPT !.pc = "ceiling"].pc = "ceiling"
      BY <1>2 DEF Busy
    <3> QED
      BY <2>3, <3>1 DEF Introspect, Ends, Goes, Past
  <2>4. CASE Burn(c)
    <3>1. [call[c] EXCEPT !.pc = "forward"].pc = "forward"
      BY <1>2 DEF Busy
    <3> QED
      BY <2>4, <3>1 DEF Burn, Ends, Goes, Past
  <2>5. CASE Forward(c)
    BY <2>5 DEF Forward, Ends, Goes
  <2>6. CASE Corroborate(c)
    <3>1. [call[c] EXCEPT !.pc = "present"].pc = "present"
      BY <1>2 DEF Busy
    <3> QED
      BY <2>6, <3>1 DEF Corroborate, Ends, Goes, Past
  <2>7. CASE Exchange(c)
    <3>1. [call[c] EXCEPT !.pc = "vouch", !.claim = Assertion].pc = "vouch"
      BY <1>2 DEF Busy
    <3> QED
      BY <2>7, <3>1 DEF Exchange, Ends, Goes, Past
  <2> QED
    BY <2>1, <2>2, <2>3, <2>4, <2>5, <2>6, <2>7
<1>4. call'[c] = b /\ \A e \in Call \ {c} : call'[e] = call[e]
  BY <1>2, <1>3
<1> QED
  BY <1>3, <1>4 DEF Passes, Past, Idle

LEMMA PassesAreRecent ==
  ASSUME TypeOK, Dated, Next, NEW d \in Call, Passes(d)
  PROVE  ago[call'[d].under] < Old
<1>1. ASSUME NEW c \in Call, Start(c)
      PROVE  ~Passes(d)
  <2>1. /\ call'[c] = Started /\ \A e \in Call \ {c} : call'[e] = call[e]
    BY <1>1, StartKeeps DEF Starts
  <2> QED
    BY <2>1 DEF Passes, Started
<1>2. ASSUME NEW c \in Call, Present(c) \/ Vouch(c) \/ Sign(c) \/ Decline(c)
      PROVE  ~Passes(d)
  <2>1. c \in Running /\ \E claim : Posted(c, claim)
    BY <1>2, PresentPosts, VouchPosts, SignPosts, DeclinePosts
  <2>2. \E b : Takes(c, b) /\ (b # Idle => b.pc \in {"share"} \cup Negotiating)
    BY <2>1 DEF Posted
  <2> QED
    BY <2>1, <2>2, NobodyPasses DEF Past, Negotiating
<1>3. ASSUME NEW c \in Call, Poll(c)
      PROVE  ~Passes(d)
  <2>1. c \in Running /\ Polled(c)
    BY <1>3, PollKeeps
  <2>2. \E b : Takes(c, b) /\ (b = call[c] \/ (b # Idle => b.pc \in {"share"} \cup Negotiating))
    BY <2>1 DEF Polled
  <2> QED
    BY <2>1, <2>2, NobodyPasses DEF Past, Negotiating
<1>4. ASSUME NEW c \in Call, Resume(c)
      PROVE  ~Passes(d)
  <2>1. c \in Running /\ ComesBack(c)
    BY <1>4, ResumeKeeps
  <2>2. \E b : Takes(c, b) /\ (b # Idle => b.pc \in {"share", "corroborate"})
    BY <2>1 DEF ComesBack
  <2> QED
    BY <2>1, <2>2, NobodyPasses DEF Past
<1>5. ASSUME NEW c \in Call, Challenge(c)
      PROVE  ~Passes(d)
  <2>1. c \in Running /\ Challenged(c)
    BY <1>5, ChallengeKeeps
  <2>2. \E b : Takes(c, b) /\ b.pc \in {"resume", "corroborate"}
    BY <2>1 DEF Challenged
  <2> QED
    BY <2>1, <2>2, NobodyPasses DEF Past
<1>6. ASSUME NEW c \in Call, HandBack(c) \/ StopWaiting(c)
      PROVE  ~Passes(d)
  <2>1. c \in Running /\ Takes(c, Idle)
    BY <1>6, HandBackKeeps, StopWaitingKeeps
  <2> QED
    BY <2>1, NobodyPasses
<1>7. ASSUME ShimRestarts \/ Her \/ Around
      PROVE  ~Passes(d)
  <2>1. call'[d] = call[d] \/ call'[d] = Idle
    BY <1>7, HerKeeps, AroundKeeps DEF ShimRestarts, Answered
  <2> QED
    BY <2>1 DEF Passes, Idle
<1> QED
  BY <1>1, <1>2, <1>3, <1>4, <1>5, <1>6, <1>7, ReadsPass, OthersDoNotPass
     DEF Next, Enforces, Negotiates

(* A call gets past the enforcement point only on what the organization     *)
(* said of her within the lifetime of a copy and the grace period.          *)
THEOREM PassesRestOnRecentMembership == Spec => RestsOnRecentMembership
<1>1. ASSUME TypeOK, Dated, [Next]_vars
      PROVE  \A c \in Call : Passes(c) => ago[call'[c].under] < Old
  <2>1. CASE Next
    BY <1>1, <2>1, PassesAreRecent
  <2>2. CASE UNCHANGED vars
    BY <2>2 DEF vars, Passes
  <2> QED
    BY <1>1, <2>1, <2>2
<1> QED
  BY <1>1, TypeCorrect, PTL DEF Spec, RestsOnRecentMembership
-----------------------------------------------------------------------------
(* The headless agent's negotiations stay its own.                          *)

Mine(c, n) ==
  /\ held # None => held.of # n
  /\ \A d \in Running \ {c} : call[d].ticket.of # n /\ call[d].fresh.of # n
  /\ neg[n].live => neg[n].headless
  /\ call[c].pc \in Negotiating => neg[n].state # "forged"

LEMMA ApartIs ==
  Apart <=> \A c \in Running \cap Headless :
              call[c].ticket.of # 0 => Mine(c, call[c].ticket.of)
  BY DEF Apart, Mine

LEMMA NumberIs ==
  ASSUME TypeOK, NEW c \in Running
  PROVE  /\ c \in Call /\ call[c] \in Busy
         /\ call[c].ticket.of \in Negotiation \cup {0}
         /\ call[c].pc \in Negotiating \cup {"resume"} =>
              call[c].ticket.of \in Negotiation /\ call[c].ticket.of # 0
BY CallIs, AgentShimAssumption DEF TypeOK, Running, Busy, Ticket, Fit, Idle

(* A call takes a step with a ticket that was its own or of the shim's.     *)
LEMMA ApartStays ==
  ASSUME TypeOK, Apart, NEW c \in Running, NEW b, Takes(c, b), Words,
         b # Idle /\ c \in Headless => b.ticket.of = call[c].ticket.of,
         b # Idle => \/ b.ticket.of \in {call[c].ticket.of, call[c].fresh.of}
                     \/ held # None /\ b.ticket.of = held.of,
         b # Idle => b.fresh.of = call[c].fresh.of,
         \/ held' \in {held, None}
         \/ held' = call[c].ticket /\ c \notin Headless,
         \A n \in Negotiation :
           (c \in Headless \/ n # call[c].ticket.of) /\ neg'[n].live =>
             neg[n].live /\ neg'[n].headless = neg[n].headless,
         \A n \in Negotiation : n # call[c].ticket.of => neg'[n].state = neg[n].state,
         c \in Headless /\ b # Idle /\ b.pc \in Negotiating =>
           call[c].pc \in Negotiating /\
           (neg[call[c].ticket.of].state # "forged" => neg'[call[c].ticket.of].state # "forged")
  PROVE  Apart'
<1>1. /\ call'[c] = b /\ \A d \in Call \ {c} : call'[d] = call[d]
      /\ Running' = IF b = Idle THEN Running \ {c} ELSE Running
  BY StepTypes
<1>2. c \in Call /\ Running \subseteq Call
  BY DEF Running
<1> SUFFICES ASSUME NEW e \in Running' \cap Headless, NEW n \in Negotiation,
                    n = call'[e].ticket.of, n # 0
             PROVE  Mine(e, n)'
  <2>1. \A e \in Running' : call'[e].ticket.of \in Negotiation \cup {0}
    <3>1. \A e \in Running : call[e].ticket.of \in Negotiation \cup {0}
      BY NumberIs
    <3>2. b # Idle => b.ticket.of \in Negotiation \cup {0}
      BY DEF Takes, Busy, Ticket
    <3> QED
      BY <1>1, <1>2, <3>1, <3>2
  <2> QED
    BY <2>1 DEF Apart, Mine
<1>3. e \in Running /\ e \in Headless /\ n = call[e].ticket.of
  BY <1>1, <1>2
<1>4. Mine(e, n)
  BY <1>3, ApartIs
<1>5. e # c => n # call[c].ticket.of /\ n # call[c].fresh.of
  BY <1>3, <1>4 DEF Mine
<1>6. held' # None => held'.of # n
  BY <1>3, <1>4, <1>5 DEF Mine
<1>7. \A d \in Running' \ {e} : call'[d].ticket.of # n /\ call'[d].fresh.of # n
  <2> SUFFICES ASSUME NEW d \in Running' \ {e}
               PROVE  call'[d].ticket.of # n /\ call'[d].fresh.of # n
    OBVIOUS
  <2>1. d \in Running /\ d # e /\ call[d].ticket.of # n /\ call[d].fresh.of # n
    BY <1>1, <1>4 DEF Mine
  <2>2. CASE d # c
    BY <1>1, <1>2, <2>1, <2>2
  <2>3. CASE d = c
    <3>1. b # Idle /\ call'[d] = b
      BY <1>1, <2>3
    <3> QED
      BY <1>4, <2>1, <2>3, <3>1 DEF Mine
  <2> QED
    BY <2>2, <2>3
<1>8. neg'[n].live => neg'[n].headless
  BY <1>3, <1>4, <1>5 DEF Mine
<1>9. call'[e].pc \in Negotiating => neg'[n].state # "forged"
  <2>1. CASE e # c
    BY <1>1, <1>2, <1>3, <1>4, <1>5, <2>1 DEF Mine
  <2>2. CASE e = c
    <3>1. b # Idle /\ call'[e] = b
      BY <1>1, <2>2
    <3> QED
      BY <1>3, <1>4, <2>2, <3>1 DEF Mine
  <2> QED
    BY <2>1, <2>2
<1> QED
  BY <1>6, <1>7, <1>8, <1>9 DEF Mine

LEMMA TellsApart ==
  ASSUME TypeOK, NEW c \in Running, NEW claim, NEW o, Told(c, call[c].ticket, claim, o)
  PROVE  /\ \A n \in Negotiation : neg'[n].live =>
              neg[n].live /\ neg'[n].headless = neg[n].headless
         /\ \A n \in Negotiation : n # call[c].ticket.of => neg'[n] = neg[n]
         /\ call[c].ticket.of \in Negotiation => neg'[call[c].ticket.of] = o.neg
<1>1. neg \in [Negotiation -> Row] /\ neg' = [neg EXCEPT ![call[c].ticket.of] = o.neg]
  BY DEF TypeOK, AuthorityOK, Told
<1>2. \A n \in Negotiation : neg'[n] = IF n = call[c].ticket.of THEN o.neg ELSE neg[n]
  BY <1>1
<1> QED
  BY <1>2 DEF Told, Answers

LEMMA MovesApart ==
  ASSUME TypeOK, Apart, NEW c \in Running, Moves(c), ~Challenged(c)
  PROVE  Apart'
<1>1. CASE Walks(c)
  <2>1. PICK b : Takes(c, b) /\ Along(c, b)
    BY <1>1 DEF Walks
  <2>2. \A n \in Negotiation : /\ neg'[n].live => neg[n].live /\ neg'[n].headless = neg[n].headless
                               /\ neg'[n].state = neg[n].state
    BY <1>1 DEF Walks, SameQuestions
  <2>3. b # Idle /\ c \in Headless /\ b.pc \in Negotiating => call[c].pc \in Negotiating
    BY <2>1 DEF Along, Gate, Negotiating
  <2>4. /\ c \in Headless /\ b # Idle /\ b.pc \in Negotiating
        /\ neg[call[c].ticket.of].state # "forged"
        => neg'[call[c].ticket.of].state # "forged"
    BY <2>2, <2>3, NumberIs
  <2> QED
    BY <1>1, <2>1, <2>2, <2>3, <2>4, ApartStays DEF Walks, Along
<1>2. ASSUME NEW claim, Posted(c, claim)
      PROVE  Apart'
  <2>1. PICK o, b :
          /\ Told(c, call[c].ticket, claim, o) /\ Takes(c, b)
          /\ b # Idle => /\ b.ticket = Rotated(call[c].ticket, o.neg.serial)
                         /\ b.fresh = call[c].fresh
                         /\ b.pc \in Negotiating => o.says # "forged"
    BY <1>2 DEF Posted
  <2>2. call[c].pc \in Negotiating /\ call[c].ticket.of \in Negotiation
    BY <1>2, NumberIs DEF Posted, Requests, Negotiating
  <2>3. b # Idle => b.ticket.of = call[c].ticket.of
    BY <2>1 DEF Rotated
  <2>4. /\ b # Idle /\ b.pc \in Negotiating
        /\ neg[call[c].ticket.of].state # "forged"
        => neg'[call[c].ticket.of].state # "forged"
    BY <2>1, <2>2, TellsApart DEF Told, Answers
  <2> QED
    BY <1>2, <2>1, <2>2, <2>3, <2>4, TellsApart, ApartStays DEF Posted
<1>3. CASE Polled(c)
  <2>1. PICK o, b :
          /\ Told(c, call[c].ticket, NoClaim, o) /\ Takes(c, b)
          /\ b # Idle => b.ticket = call[c].ticket /\ b.fresh = call[c].fresh
    BY <1>3 DEF Polled
  <2>2. call[c].pc \in Negotiating /\ call[c].ticket.of \in Negotiation
    BY <1>3, NumberIs DEF Polled, Negotiating
  <2>3. neg[call[c].ticket.of].state # "forged" => neg'[call[c].ticket.of].state # "forged"
    BY <2>1, <2>2, TellsApart DEF Told, Answers, NoClaim
  <2> QED
    BY <1>3, <2>1, <2>2, <2>3, TellsApart, ApartStays DEF Polled
<1>4. CASE ComesBack(c)
  <2>1. PICK o, b :
          /\ Told(c, call[c].ticket, NoClaim, o) /\ Takes(c, b)
          /\ b # Idle => b.fresh = call[c].fresh
                         /\ (b.ticket = call[c].ticket \/ b.ticket = call[c].fresh)
    BY <1>4 DEF ComesBack
  <2> QED
    BY <1>4, <2>1, TellsApart, ApartStays DEF ComesBack
<1>5. CASE Over(c)
  <2>1. Takes(c, Idle) /\ neg' = neg /\ Words
    BY <1>5 DEF Over
  <2> QED
    BY <1>5, <2>1, ApartStays DEF Over
<1> QED
  BY <1>1, <1>2, <1>3, <1>4, <1>5 DEF Moves

(* Nobody has a ticket of what is challenged with, or is left out.          *)
LEMMA UnusedIs ==
  ASSUME NEW n \in Unused
  PROVE  /\ n \in Negotiation
         /\ held # None => held.of # n
         /\ \A c \in Running : call[c].ticket.of # n /\ call[c].fresh.of # n
  BY DEF Unused, Tickets

LEMMA ChallengedApart ==
  ASSUME TypeOK, Apart, NEW c \in Running, Challenged(c)
  PROVE  Apart'
<1>1. PICK m \in Unused, b \in Busy :
        /\ neg' = [neg EXCEPT ![m] = Opened(c \in Headless)]
        /\ Takes(c, b) /\ b.fresh = [of |-> m, serial |-> 1]
        /\ \/ b.pc = "resume" /\ c \notin Headless /\ held # None /\ b.ticket = held
           \/ b.pc = "corroborate" /\ b.ticket = b.fresh /\ (c \in Headless \/ held = None)
  BY DEF Challenged
<1>2. /\ m \in Negotiation /\ (held # None => held.of # m)
      /\ \A d \in Running : call[d].ticket.of # m /\ call[d].fresh.of # m
  BY UnusedIs
<1>3. held' = held /\ Words /\ c \in Call
  BY DEF Challenged, Running
<1>4. /\ call'[c] = b /\ \A d \in Call \ {c} : call'[d] = call[d]
      /\ Running' = IF b = Idle THEN Running \ {c} ELSE Running
  BY <1>1, <1>3, StepTypes
<1>5. /\ neg'[m] = Opened(c \in Headless)
      /\ \A n \in Negotiation \ {m} : neg'[n] = neg[n]
  BY <1>1, <1>2 DEF TypeOK, AuthorityOK
<1>6. /\ Opened(c \in Headless).state = "new"
      /\ Opened(c \in Headless).headless = (c \in Headless)
  BY DEF Opened, NoNegotiation
<1>7. ASSUME NEW e \in Running' \cap Headless, NEW n, n = call'[e].ticket.of, n # 0
      PROVE  Mine(e, n)'
  <2>1. CASE e = c
    <3>1. n = m /\ e \in Running
      BY <1>1, <1>4, <2>1, <1>7
    <3>2. \A d \in Running' \ {e} : d \in Running /\ call'[d] = call[d]
      BY <1>4, <2>1 DEF Running
    <3>3. neg'[n].headless /\ neg'[n].state # "forged"
      BY <1>5, <1>6, <1>7, <2>1, <3>1
    <3> QED
      BY <1>2, <1>3, <3>1, <3>2, <3>3 DEF Mine
  <2>2. CASE e # c
    <3>1. e \in Running /\ e \in Call /\ call'[e] = call[e] /\ n = call[e].ticket.of
      BY <1>4, <1>7, <2>2 DEF Running
    <3>2. Mine(e, n)
      BY <1>7, <3>1, ApartIs
    <3>3. n \in Negotiation /\ n # m
      BY <1>2, <1>7, <3>1, NumberIs
    <3>4. neg'[n] = neg[n]
      BY <1>5, <3>3
    <3>5. b.ticket.of # n /\ b.fresh.of # n
      BY <1>1, <3>2, <3>3 DEF Mine
    <3>6. \A d \in Running' \ {e} : call'[d].ticket.of # n /\ call'[d].fresh.of # n
      <4> SUFFICES ASSUME NEW d \in Running' \ {e}
                   PROVE  call'[d].ticket.of # n /\ call'[d].fresh.of # n
        OBVIOUS
      <4>1. d \in Running /\ d \in Call
        BY <1>4 DEF Running
      <4>2. CASE d = c
        BY <1>4, <3>5, <4>2
      <4>3. CASE d # c
        BY <1>4, <3>2, <4>1, <4>3 DEF Mine
      <4> QED
        BY <4>2, <4>3
    <3> QED
      BY <1>3, <3>1, <3>2, <3>4, <3>6 DEF Mine
  <2> QED
    BY <2>1, <2>2
<1> QED
  BY <1>7 DEF Apart, Mine

LEMMA StartsApart ==
  ASSUME TypeOK, Apart, NEW c \in Call, Starts(c)
  PROVE  Apart'
<1>1. /\ call[c] = Idle /\ held' = held /\ c \notin Running
      /\ call'[c] = Started /\ \A d \in Call \ {c} : call'[d] = call[d]
      /\ Running' = Running \cup {c}
      /\ neg' = [n \in Negotiation |-> IF n \in Unused THEN NoNegotiation ELSE neg[n]]
  BY DEF Starts, Running
<1>2. Started.ticket.of = 0 /\ Started.fresh.of = 0
  BY DEF Started, NoTicket
<1>3. ASSUME NEW e \in Running' \cap Headless, NEW n, n = call'[e].ticket.of, n # 0
      PROVE  Mine(e, n)'
  <2>1. e # c /\ e \in Running /\ e \in Call /\ call'[e] = call[e] /\ n = call[e].ticket.of
    BY <1>1, <1>2, <1>3 DEF Running
  <2>2. Mine(e, n)
    BY <1>3, <2>1, ApartIs
  <2>3. n \in Negotiation /\ n \notin Unused
    BY <1>3, <2>1, NumberIs, UnusedIs
  <2>4. neg'[n] = neg[n]
    BY <1>1, <2>3
  <2>5. \A d \in Running' \ {e} : call'[d].ticket.of # n /\ call'[d].fresh.of # n
    BY <1>1, <1>2, <1>3, <2>2 DEF Mine, Running
  <2> QED
    BY <1>1, <2>1, <2>2, <2>4, <2>5 DEF Mine
<1> QED
  BY <1>3 DEF Apart, Mine

LEMMA AnsweredApart ==
  ASSUME TypeOK, Apart, NEW m, Answered(m)
  PROVE  Apart'
<1>1. UNCHANGED <<call, held>> /\ Running' = Running
  BY DEF Answered, Running
<1>2. ASSUME NEW e \in Running' \cap Headless, NEW n, n = call'[e].ticket.of, n # 0
      PROVE  Mine(e, n)'
  <2>1. Mine(e, n) /\ n \in Negotiation
    BY <1>1, <1>2, ApartIs, NumberIs
  <2>2. \/ neg'[n] = neg[n]
        \/ neg'[n].state = "closed" /\ ~neg'[n].live
        \/ /\ neg'[n].state = neg[n].state /\ neg'[n].live = neg[n].live
           /\ neg'[n].headless = neg[n].headless
    BY <2>1 DEF Answered
  <2> QED
    BY <1>1, <2>1, <2>2 DEF Mine
<1> QED
  BY <1>2 DEF Apart, Mine

LEMMA ApartInductive ==
  ASSUME TypeOK, Dated, Apart, [Next]_vars
  PROVE  Apart'
<1>1. CASE Restarted
  <2>1. /\ held' = None /\ neg' = neg /\ Running' \subseteq Running
        /\ \A c \in Running' : call'[c] = call[c]
    BY <1>1 DEF Restarted
  <2> QED
    BY <2>1 DEF Apart
<1>2. CASE Quiet
  <2>1. Running' = Running
    BY <1>2 DEF Quiet, Running
  <2> QED
    BY <1>2, <2>1 DEF Quiet, Apart
<1>3. CASE Next
  BY <1>1, <1>2, <1>3, NextIs, StartsApart, MovesApart, ChallengedApart, AnsweredApart
<1>4. CASE UNCHANGED vars
  BY <1>2, <1>4, StutterKeeps
<1> QED
  BY <1>3, <1>4

(* A forged negotiation is one whose assertion was signed with a key that   *)
(* the provider no longer signs with.                                       *)
LEMMA ForgedIsForged ==
  ASSUME TypeOK, Dated, Apart, Next, NEW c \in Call, At(c, "vouch"), call'[c] # call[c],
         neg'[call[c].ticket.of].state = "forged"
  PROVE  call[c].claim.key # key
<1>1. c \in Running /\ call[c] \in Busy
  BY CallIs DEF At, TypeOK
<1>2. c \in Headless /\ call[c].ticket.of \in Negotiation /\ call[c].ticket.of # 0
  BY <1>1, NumberIs, CallIs DEF At, Negotiating, Fit, TypeOK, Idle
<1>3. neg[call[c].ticket.of].state # "forged"
  BY <1>1, <1>2 DEF Apart, At, Negotiating
<1>4. ASSUME NEW d \in Call, Start(d)
      PROVE  FALSE
  <2>1. call[d] = Idle /\ \A e \in Call \ {d} : call'[e] = call[e]
    BY <1>4, StartKeeps DEF Starts
  <2> QED
    BY <2>1 DEF At, Idle
<1>5. ASSUME NEW d \in Call, Enforces(d) \/ Negotiates(d)
      PROVE  call[c].claim.key # key
  <2>1. d \in Running /\ Moves(d)
    BY <1>5, MovesIs
  <2>2. \E b : Takes(d, b)
    BY <2>1 DEF Moves, Walks, Polled, ComesBack, Challenged, Over, Posted
  <2>3. d = c
    BY <2>1, <2>2, StepTypes DEF Moves, Walks, Polled, ComesBack, Challenged, Over, Posted
  <2>4. Vouch(c)
    BY <1>5, <2>3 DEF Enforces, Negotiates, At, Reads, UseCopy, AskMembership, LearnMembership,
       MembershipUnreadable, Challenge, ChallengeFails, Introspect, Burn, Forward, Corroborate,
       Present, Exchange, Sign, Decline, Poll, HandBack, StopWaiting, Resume
  <2>5. PICK o : Told(c, call[c].ticket, call[c].claim, o)
    BY <2>4, VouchPosts DEF Posted
  <2>6. o.neg.state = "forged"
    BY <1>1, <1>2, <2>5, TellsApart
  <2> QED
    BY <1>3, <2>5, <2>6 DEF Told, Answers
<1>6. CASE ShimRestarts
  BY <1>3, <1>6, RestartKeeps DEF Restarted
<1>7. CASE Her \/ Around
  BY <1>7, HerKeeps, AroundKeeps DEF Answered
<1> QED
  BY <1>4, <1>5, <1>6, <1>7 DEF Next
(* Calls that are the headless agent's own, and its keys: inductive.        *)
LEMMA ApartAlways == Spec => [](TypeOK /\ Dated /\ Apart)
<1>1. Init => TypeOK /\ Dated /\ Apart
  <2>1. Init => Running = {}
    BY DEF Init, Running
  <2> QED
    BY <2>1, InitTypes DEF Apart
<1>2. TypeOK /\ Dated /\ Apart /\ [Next]_vars => (TypeOK /\ Dated /\ Apart)'
  BY ApartInductive, NextIs, StutterKeeps DEF Kept
<1> QED
  BY <1>1, <1>2, PTL DEF Spec

(* A key her authority has not seen is a rotation, not a forgery: what the  *)
(* provider signed with the key it signs with is not refused for that.      *)
THEOREM NewKeysAreNoForgery == Spec => RotationIsNotForgery
<1>1. ASSUME TypeOK, Dated, Apart, [Next]_vars
      PROVE  \A c \in Call : LET n == call[c].ticket.of IN
               At(c, "vouch") /\ call'[c] # call[c] /\ neg'[n].state = "forged" =>
                 call[c].claim.key # key
  <2>1. CASE Next
    BY <1>1, <2>1, ForgedIsForged
  <2>2. CASE UNCHANGED vars
    BY <2>2 DEF vars
  <2> QED
    BY <1>1, <2>1, <2>2
<1> QED
  BY <1>1, ApartAlways, PTL DEF Spec, RotationIsNotForgery
-----------------------------------------------------------------------------
(* Where her question is, she is found.                                     *)

Single == \A c, d \in Shimmed : c = d
Bare == \A c \in Shimmed : call[c].pc \in Negotiating => held = None
Holding == \A c \in Shimmed : call[c].pc = "resume" => call[c].ticket = held
Found == \A n \in Negotiation : Question(n) => Followed(n)
Asked == \A n \in Negotiation : neg[n].state = "awaiting" => neg[n].live

LEMMA AskingIs ==
  /\ Asking <=> Asked /\ (spilled \/ (Single /\ Bare /\ Holding /\ Found))
  /\ Asking' <=> Asked' /\ (spilled' \/ (Single' /\ Bare' /\ Holding' /\ Found'))
  BY DEF Asking, Asked, Single, Bare, Holding, Found

(* A call's step leaves the others where they are.                          *)
LEMMA OthersStay ==
  ASSUME TypeOK, NEW c \in Running, NEW b, Takes(c, b), Words
  PROVE  /\ call'[c] = b
         /\ Shimmed' \subseteq Shimmed
         /\ \A d \in Shimmed \ {c} : d \in Shimmed' /\ call'[d] = call[d]
         /\ b # Idle => Shimmed' = Shimmed
<1>1. /\ call'[c] = b /\ \A d \in Call \ {c} : call'[d] = call[d]
      /\ Running' = IF b = Idle THEN Running \ {c} ELSE Running
  BY StepTypes
<1> QED
  BY <1>1 DEF Shimmed, Running

LEMMA WalksAsking ==
  ASSUME TypeOK, Asking, NEW c \in Running, Walks(c)
  PROVE  Asking'
<1>1. PICK b : Takes(c, b) /\ Along(c, b)
  BY DEF Walks
<1>2. call[c].pc # "poll" /\ UNCHANGED <<held, spilled>> /\ SameQuestions /\ Words
  BY DEF Walks
<1>3. /\ call'[c] = b /\ Shimmed' \subseteq Shimmed
      /\ \A d \in Shimmed \ {c} : d \in Shimmed' /\ call'[d] = call[d]
  BY <1>1, <1>2, OthersStay
<1>4. c \in Shimmed' => b # Idle
  BY <1>3 DEF Shimmed, Running
<1>5. Asked'
  BY <1>2, AskingIs DEF Asked, SameQuestions
<1>6. ASSUME ~spilled
      PROVE  Single' /\ Bare' /\ Holding' /\ Found'
  <2>1. Single /\ Bare /\ Holding /\ Found
    BY <1>6, AskingIs
  <2>2. Single'
    BY <1>3, <2>1 DEF Single
  <2>3. Bare'
    BY <1>1, <1>2, <1>3, <1>4, <2>1 DEF Bare, Along, Gate, Negotiating
  <2>4. Holding'
    <3>1. c \in Shimmed' /\ b.pc = "resume" => b.ticket = held
      <4> SUFFICES ASSUME c \in Shimmed', b.pc = "resume"
                   PROVE  b.ticket = held
        OBVIOUS
      <4> QED
        BY <1>1, <1>4 DEF Along, Gate, Negotiating
    <3> QED
      BY <1>2, <1>3, <2>1, <3>1 DEF Holding
  <2>5. Found'
    <3> SUFFICES ASSUME NEW n \in Negotiation, Question(n)'
                 PROVE  Followed(n)'
      BY DEF Found
    <3>1. Question(n) /\ neg'[n].serial = neg[n].serial
      BY <1>2 DEF Question, Waiting, SameQuestions
    <3>2. Followed(n)
      BY <2>1, <3>1 DEF Found
    <3> QED
      BY <1>2, <1>3, <3>1, <3>2 DEF Followed, IsOf
  <2> QED
    BY <2>2, <2>3, <2>4, <2>5
<1> QED
  BY <1>2, <1>5, <1>6, AskingIs

(* What is answered to a request at the negotiation it is of.               *)
LEMMA ToldIs ==
  ASSUME TypeOK, Asked, NEW c \in Running, NEW claim, NEW o, Told(c, call[c].ticket, claim, o)
  PROVE  /\ Asked'
         /\ \A n \in Negotiation : Question(n)' =>
              \/ neg'[n] = neg[n] /\ Question(n)
              \/ /\ n = call[c].ticket.of /\ neg[n].live /\ ~neg[n].headless
                 /\ o.says = "submitted" /\ claim.kind = "agreement" /\ neg'[n] = o.neg
         /\ \A n \in Negotiation :
              n = call[c].ticket.of /\ Question(n)' /\ call[c].ticket.serial = neg[n].serial =>
                o.says = "submitted"
<1> DEFINE t == call[c].ticket
<1>1. neg \in [Negotiation -> Row] /\ neg' = [neg EXCEPT ![t.of] = o.neg]
  BY DEF TypeOK, AuthorityOK, Told
<1>2. \A n \in Negotiation : neg'[n] = IF n = t.of THEN o.neg ELSE neg[n]
  BY <1>1
<1>3. Answers(t, claim, o)
  BY DEF Told
<1> HIDE DEF t
<1>4. ASSUME NEW n \in Negotiation, n = t.of, o.neg.state = "awaiting"
      PROVE  \/ o.neg = neg[n] /\ neg[n].live
                /\ (o.says = "submitted" \/ neg[n].serial # t.serial)
             \/ /\ o.says = "submitted" /\ o.neg.live /\ claim.kind = "agreement"
                /\ neg[n].live /\ o.neg.headless = neg[n].headless
  BY <1>3, <1>4 DEF Answers, Asked
<1>5. Asked'
  BY <1>2, <1>4 DEF Asked
<1>6. ASSUME NEW n \in Negotiation, Question(n)'
      PROVE  /\ \/ neg'[n] = neg[n] /\ Question(n)
                \/ /\ n = t.of /\ neg[n].live /\ ~neg[n].headless
                   /\ o.says = "submitted" /\ claim.kind = "agreement" /\ neg'[n] = o.neg
             /\ n = t.of /\ t.serial = neg[n].serial => o.says = "submitted"
  BY <1>2, <1>4, <1>6 DEF Question, Waiting
<1> QED
  BY <1>5, <1>6 DEF t

LEMMA PostsAsking ==
  ASSUME TypeOK, Apart, Asking, NEW c \in Running, NEW claim, Posted(c, claim)
  PROVE  Asking'
<1> DEFINE t == call[c].ticket
<1>1. PICK o, b :
        /\ Told(c, t, claim, o) /\ Takes(c, b)
        /\ b # Idle => /\ b.ticket = Rotated(t, o.neg.serial)
                       /\ b.pc \in {"share"} \cup Negotiating
        /\ \/ spilled' = spilled /\ (o.says = "submitted" => b # Idle /\ b.pc = "poll")
           \/ spilled' = spilled /\ claim.kind # "agreement"
           \/ spilled' = (spilled \/ (c \notin Headless /\ o.says = "submitted"))
  BY DEF Posted
<1>2. held' = held /\ Words /\ call[c].pc \in Negotiating /\ call[c].pc # "poll"
  BY DEF Posted, Requests, Negotiating
<1>3. /\ call'[c] = b /\ Shimmed' \subseteq Shimmed
      /\ \A d \in Shimmed \ {c} : d \in Shimmed' /\ call'[d] = call[d]
      /\ b # Idle => Shimmed' = Shimmed
  BY <1>1, <1>2, OthersStay
<1>4. /\ Asked'
      /\ \A n \in Negotiation : Question(n)' =>
           \/ neg'[n] = neg[n] /\ Question(n)
           \/ /\ n = t.of /\ neg[n].live /\ ~neg[n].headless
              /\ o.says = "submitted" /\ claim.kind = "agreement" /\ neg'[n] = o.neg
  BY <1>1, ToldIs, AskingIs
<1>5. c \in Shimmed' => b # Idle
  BY <1>3 DEF Shimmed, Running
<1>6. ASSUME ~spilled'
      PROVE  Single' /\ Bare' /\ Holding' /\ Found'
  <2>1. ~spilled
    BY <1>1, <1>6
  <2>2. Single /\ Bare /\ Holding /\ Found
    BY <2>1, AskingIs
  <2>3. Single'
    BY <1>3, <2>2 DEF Single
  <2>4. Bare'
    BY <1>2, <1>3, <2>2 DEF Bare
  <2>5. Holding'
    BY <1>1, <1>2, <1>3, <1>5, <2>2 DEF Holding, Negotiating
  <2>6. Found'
    <3> SUFFICES ASSUME NEW n \in Negotiation, Question(n)'
                 PROVE  Followed(n)'
      BY DEF Found
    <3>1. CASE neg'[n] = neg[n] /\ Question(n)
      <4>1. Followed(n)
        BY <2>2, <3>1 DEF Found
      <4> QED
        BY <1>2, <1>3, <3>1, <4>1 DEF Followed, IsOf
    <3>2. CASE /\ n = t.of /\ neg[n].live /\ ~neg[n].headless
               /\ o.says = "submitted" /\ claim.kind = "agreement" /\ neg'[n] = o.neg
      <4>1. c \notin Headless
        <5>1. n # 0
          BY AgentShimAssumption
        <5> QED
          BY <3>2, <5>1 DEF Apart
      <4>2. b # Idle /\ b.pc = "poll" /\ b.ticket = Rotated(t, o.neg.serial)
        BY <1>1, <1>6, <3>2, <4>1
      <4>3. c \in Shimmed'
        BY <1>3, <4>1, <4>2 DEF Shimmed
      <4>4. b.ticket.of = n /\ b.ticket.serial = neg'[n].serial
        BY <3>2, <4>2 DEF Rotated
      <4> QED
        BY <1>3, <4>2, <4>3, <4>4 DEF Followed, IsOf
    <3> QED
      BY <1>4, <3>1, <3>2
  <2> QED
    BY <2>3, <2>4, <2>5, <2>6
<1> QED
  BY <1>4, <1>6, AskingIs

LEMMA PollsAsking ==
  ASSUME TypeOK, Asking, NEW c \in Running, Polled(c)
  PROVE  Asking'
<1> DEFINE t == call[c].ticket
<1>1. PICK o, b :
        /\ Told(c, t, NoClaim, o) /\ Takes(c, b)
        /\ \/ b = call[c]
           \/ /\ b # Idle => b.ticket = t /\ b.pc \in {"share"} \cup Negotiating
              /\ o.says = "submitted" => b # Idle /\ b.pc = "poll"
  BY DEF Polled
<1>2. UNCHANGED <<held, spilled>> /\ Words /\ call[c].pc = "poll" /\ call[c] # Idle
  BY DEF Polled, Running
<1>3. /\ call'[c] = b /\ Shimmed' \subseteq Shimmed
      /\ \A d \in Shimmed \ {c} : d \in Shimmed' /\ call'[d] = call[d]
      /\ b # Idle => Shimmed' = Shimmed
  BY <1>1, <1>2, OthersStay
<1>4. /\ Asked'
      /\ \A n \in Negotiation : Question(n)' => neg'[n] = neg[n] /\ Question(n)
      /\ \A n \in Negotiation :
           n = t.of /\ Question(n)' /\ t.serial = neg[n].serial => o.says = "submitted"
  <2>1. NoClaim.kind # "agreement"
    BY DEF NoClaim
  <2> QED
    BY <1>1, <2>1, ToldIs, AskingIs
<1>5. c \in Shimmed' => b # Idle
  BY <1>3 DEF Shimmed, Running
<1>6. ASSUME ~spilled
      PROVE  Single' /\ Bare' /\ Holding' /\ Found'
  <2>1. Single /\ Bare /\ Holding /\ Found
    BY <1>6, AskingIs
  <2>2. Single'
    BY <1>3, <2>1 DEF Single
  <2>3. Bare'
    BY <1>2, <1>3, <2>1 DEF Bare, Negotiating
  <2>4. Holding'
    BY <1>1, <1>2, <1>3, <1>5, <2>1 DEF Holding, Negotiating
  <2>5. Found'
    <3> SUFFICES ASSUME NEW n \in Negotiation, Question(n)'
                 PROVE  Followed(n)'
      BY DEF Found
    <3>1. neg'[n] = neg[n] /\ Question(n) /\ Followed(n)
      BY <1>4, <2>1 DEF Found
    <3>2. CASE c \in Shimmed /\ IsOf(t, n)
      <4>1. o.says = "submitted"
        BY <1>4, <3>1, <3>2 DEF IsOf
      <4>2. b # Idle /\ b.pc = "poll" /\ b.ticket = t
        BY <1>1, <1>2, <4>1
      <4> QED
        BY <1>3, <3>1, <3>2, <4>2 DEF Followed, IsOf
    <3>3. CASE ~ (c \in Shimmed /\ IsOf(t, n))
      BY <1>2, <1>3, <3>1, <3>3 DEF Followed, IsOf
    <3> QED
      BY <3>2, <3>3
  <2> QED
    BY <2>2, <2>3, <2>4, <2>5
<1> QED
  BY <1>2, <1>4, <1>6, AskingIs

LEMMA ComesBackAsking ==
  ASSUME TypeOK, Asking, NEW c \in Running, ComesBack(c)
  PROVE  Asking'
<1> DEFINE t == call[c].ticket
<1>1. PICK o, b :
        /\ Told(c, t, NoClaim, o) /\ Takes(c, b)
        /\ \/ b = Idle /\ held' = held
           \/ /\ o.says # "submitted" /\ held' = None
              /\ b # Idle => b.pc \in {"share", "corroborate"}
  BY DEF ComesBack
<1>2. spilled' = spilled /\ Words /\ call[c].pc = "resume" /\ c \in Shimmed
  BY DEF ComesBack, Shimmed
<1>3. /\ call'[c] = b /\ Shimmed' \subseteq Shimmed
      /\ \A d \in Shimmed \ {c} : d \in Shimmed' /\ call'[d] = call[d]
  BY <1>1, <1>2, OthersStay
<1>4. /\ Asked'
      /\ \A n \in Negotiation : Question(n)' => neg'[n] = neg[n] /\ Question(n)
      /\ \A n \in Negotiation :
           n = t.of /\ Question(n)' /\ t.serial = neg[n].serial => o.says = "submitted"
  <2>1. NoClaim.kind # "agreement"
    BY DEF NoClaim
  <2> QED
    BY <1>1, <2>1, ToldIs, AskingIs
<1>5. c \in Shimmed' => b # Idle
  BY <1>3 DEF Shimmed, Running
<1>6. ASSUME ~spilled
      PROVE  Single' /\ Bare' /\ Holding' /\ Found'
  <2>1. Single /\ Bare /\ Holding /\ Found
    BY <1>6, AskingIs
  <2>2. Single' /\ Shimmed = {c}
    BY <1>2, <1>3, <2>1 DEF Single
  <2>3. Bare'
    BY <1>1, <1>3, <1>5, <2>2 DEF Bare
  <2>4. Holding'
    BY <1>1, <1>3, <1>5, <2>2 DEF Holding
  <2>5. t = held
    BY <1>2, <2>1 DEF Holding
  <2>6. Found'
    <3> SUFFICES ASSUME NEW n \in Negotiation, Question(n)'
                 PROVE  Followed(n)'
      BY DEF Found
    <3>1. neg'[n] = neg[n] /\ Question(n) /\ Followed(n)
      BY <1>4, <2>1 DEF Found
    <3>2. held # None /\ IsOf(held, n)
      BY <1>2, <2>2, <3>1 DEF Followed
    <3>3. o.says = "submitted"
      BY <1>4, <2>5, <3>1, <3>2 DEF IsOf
    <3>4. held' = held
      BY <1>1, <3>3
    <3> QED
      BY <3>1, <3>2, <3>4 DEF Followed, IsOf
  <2> QED
    BY <2>2, <2>3, <2>4, <2>6
<1> QED
  BY <1>2, <1>4, <1>6, AskingIs

LEMMA ChallengedAsking ==
  ASSUME TypeOK, Asking, NEW c \in Running, Challenged(c)
  PROVE  Asking'
<1>1. PICK m \in Unused, b \in Busy :
        /\ neg' = [neg EXCEPT ![m] = Opened(c \in Headless)]
        /\ Takes(c, b)
        /\ \/ b.pc = "resume" /\ c \notin Headless /\ held # None /\ b.ticket = held
           \/ b.pc = "corroborate" /\ (c \in Headless \/ held = None)
  BY DEF Challenged
<1>2. UNCHANGED <<held, spilled>> /\ Words /\ call[c].pc = "judge"
  BY DEF Challenged
<1>3. /\ call'[c] = b /\ Shimmed' \subseteq Shimmed
      /\ \A d \in Shimmed \ {c} : d \in Shimmed' /\ call'[d] = call[d]
  BY <1>1, <1>2, OthersStay
<1>4. /\ neg'[m].state = "new"
      /\ \A n \in Negotiation \ {m} : neg'[n] = neg[n]
  <2>1. Opened(c \in Headless).state = "new"
    BY DEF Opened, NoNegotiation
  <2> QED
    BY <1>1, <2>1, UnusedIs DEF TypeOK, AuthorityOK
<1>5. Asked'
  BY <1>4, AskingIs DEF Asked
<1>6. ASSUME ~spilled
      PROVE  Single' /\ Bare' /\ Holding' /\ Found'
  <2>1. Single /\ Bare /\ Holding /\ Found
    BY <1>6, AskingIs
  <2>2. Single'
    BY <1>3, <2>1 DEF Single
  <2>3. Bare'
    BY <1>1, <1>2, <1>3, <2>1 DEF Bare, Shimmed, Negotiating
  <2>4. Holding'
    BY <1>1, <1>2, <1>3, <2>1 DEF Holding
  <2>5. Found'
    <3> SUFFICES ASSUME NEW n \in Negotiation, Question(n)'
                 PROVE  Followed(n)'
      BY DEF Found
    <3>1. neg'[n] = neg[n] /\ Question(n)
      BY <1>4 DEF Question, Waiting
    <3>2. Followed(n)
      BY <2>1, <3>1 DEF Found
    <3> QED
      BY <1>2, <1>3, <3>1, <3>2 DEF Followed, IsOf
  <2> QED
    BY <2>2, <2>3, <2>4, <2>5
<1> QED
  BY <1>2, <1>5, <1>6, AskingIs

(* A question that is handed back is held, one that is left is spilled.     *)
LEMMA OverAsking ==
  ASSUME TypeOK, Asking, NEW c \in Running, Over(c)
  PROVE  Asking'
<1>1. Takes(c, Idle) /\ Words /\ neg' = neg /\ call[c].pc = "poll"
  BY DEF Over
<1>2. /\ Shimmed' \subseteq Shimmed /\ c \notin Shimmed'
      /\ \A d \in Shimmed \ {c} : d \in Shimmed' /\ call'[d] = call[d]
  <2>1. c \notin Running'
    BY <1>1, StepTypes
  <2> QED
    BY <1>1, <2>1, OthersStay DEF Shimmed
<1>3. Asked'
  BY <1>1, AskingIs DEF Asked
<1>4. ASSUME ~spilled'
      PROVE  Single' /\ Bare' /\ Holding' /\ Found'
  <2>1. ~spilled
    BY <1>4 DEF Over
  <2>2. Single /\ Bare /\ Holding /\ Found
    BY <2>1, AskingIs
  <2>3. CASE held' = call[c].ticket /\ c \notin Headless
    <3>1. c \in Shimmed /\ Shimmed = {c} /\ Shimmed' = {}
      BY <1>2, <2>2, <2>3 DEF Single, Shimmed
    <3>2. held = None
      BY <1>1, <2>2, <3>1 DEF Bare, Negotiating
    <3>3. call[c].ticket # None
      <4>1. call[c].ticket.of \in Negotiation /\ call[c] \in Busy
        BY <1>1, NumberIs DEF Negotiating
      <4>2. call[c].ticket \in [of : Negotiation, serial : Nat]
        BY <4>1 DEF Busy, Ticket
      <4> QED
        BY <4>2, AgentShimAssumption
    <3>4. Found'
      <4> SUFFICES ASSUME NEW n \in Negotiation, Question(n)'
                   PROVE  Followed(n)'
        BY DEF Found
      <4>1. Question(n) /\ Followed(n)
        BY <1>1, <2>2 DEF Found, Question, Waiting
      <4>2. IsOf(call[c].ticket, n)
        BY <3>1, <3>2, <4>1 DEF Followed
      <4> QED
        BY <1>1, <2>3, <3>3, <4>2 DEF Followed, IsOf
    <3> QED
      BY <3>1, <3>4 DEF Single, Bare, Holding
  <2>4. CASE held' = held /\ c \in Headless
    <3>1. Shimmed' = Shimmed /\ \A d \in Shimmed : call'[d] = call[d]
      BY <1>2, <2>4 DEF Shimmed
    <3>2. Single' /\ Bare' /\ Holding'
      BY <2>2, <2>4, <3>1 DEF Single, Bare, Holding
    <3>3. Found'
      BY <1>1, <2>2, <2>4, <3>1 DEF Found, Question, Waiting, Followed, IsOf
    <3> QED
      BY <3>2, <3>3
  <2> QED
    BY <1>4, <2>3, <2>4 DEF Over
<1> QED
  BY <1>3, <1>4, AskingIs

LEMMA StartsAsking ==
  ASSUME TypeOK, Asking, NEW c \in Call, Starts(c)
  PROVE  Asking'
<1>1. /\ call[c] = Idle /\ held' = held /\ c \notin Running
      /\ call'[c] = Started /\ \A d \in Call \ {c} : call'[d] = call[d]
      /\ Running' = Running \cup {c}
      /\ spilled' = (spilled \/ (c \notin Headless /\ Shimmed # {}))
      /\ neg' = [n \in Negotiation |-> IF n \in Unused THEN NoNegotiation ELSE neg[n]]
  BY DEF Starts, Running
<1>2. \A n \in Negotiation : neg'[n] = neg[n] \/ neg'[n].state = "none"
  BY <1>1 DEF NoNegotiation
<1>3. Asked'
  BY <1>2, AskingIs DEF Asked
<1>4. /\ Shimmed' = IF c \in Headless THEN Shimmed ELSE Shimmed \cup {c}
      /\ \A d \in Shimmed : d # c /\ call'[d] = call[d]
  BY <1>1 DEF Shimmed, Running
<1>5. Started.pc = "share"
  BY DEF Started
<1>6. ASSUME ~spilled'
      PROVE  Single' /\ Bare' /\ Holding' /\ Found'
  <2>1. ~spilled /\ (c \in Headless \/ Shimmed = {})
    BY <1>1, <1>6
  <2>2. Single /\ Bare /\ Holding /\ Found
    BY <2>1, AskingIs
  <2>3. Single'
    BY <1>4, <2>1, <2>2 DEF Single
  <2>4. Bare' /\ Holding'
    BY <1>1, <1>4, <1>5, <2>2 DEF Bare, Holding, Negotiating
  <2>5. Found'
    <3> SUFFICES ASSUME NEW n \in Negotiation, Question(n)'
                 PROVE  Followed(n)'
      BY DEF Found
    <3>1. neg'[n] = neg[n] /\ Question(n)
      BY <1>2 DEF Question, Waiting
    <3>2. Followed(n)
      BY <2>2, <3>1 DEF Found
    <3> QED
      BY <1>1, <1>4, <3>1, <3>2 DEF Followed, IsOf
  <2> QED
    BY <2>3, <2>4, <2>5
<1> QED
  BY <1>3, <1>6, AskingIs

LEMMA AnsweredAsking ==
  ASSUME TypeOK, Asking, NEW m, Answered(m)
  PROVE  Asking'
<1>1. UNCHANGED <<call, held, spilled>> /\ Shimmed' = Shimmed
  BY DEF Answered, Shimmed, Running
<1>2. \A n \in Negotiation :
        \/ neg'[n] = neg[n]
        \/ neg'[n].state = "closed"
        \/ /\ neg'[n].state = neg[n].state /\ neg'[n].live = neg[n].live
           /\ neg'[n].headless = neg[n].headless /\ neg'[n].serial = neg[n].serial
           /\ neg'[n].decision = neg[n].decision \/ neg'[n].decision # "none"
  BY DEF Answered
<1>3. Asked'
  BY <1>2, AskingIs DEF Asked
<1>4. ASSUME ~spilled
      PROVE  Single' /\ Bare' /\ Holding' /\ Found'
  <2>1. Single /\ Bare /\ Holding /\ Found
    BY <1>4, AskingIs
  <2>2. Single' /\ Bare' /\ Holding'
    BY <1>1, <2>1 DEF Single, Bare, Holding
  <2>3. Found'
    <3> SUFFICES ASSUME NEW n \in Negotiation, Question(n)'
                 PROVE  Followed(n)'
      BY DEF Found
    <3>1. Question(n) /\ neg'[n].serial = neg[n].serial
      BY <1>2 DEF Question, Waiting
    <3>2. Followed(n)
      BY <2>1, <3>1 DEF Found
    <3> QED
      BY <1>1, <3>1, <3>2 DEF Followed, IsOf
  <2> QED
    BY <2>2, <2>3
<1> QED
  BY <1>1, <1>3, <1>4, AskingIs

LEMMA AskingInductive ==
  ASSUME TypeOK, Dated, Apart, Asking, [Next]_vars
  PROVE  Asking'
<1>1. CASE Restarted
  <2>1. neg' = neg /\ spilled' = TRUE
    BY <1>1 DEF Restarted
  <2> QED
    BY <2>1, AskingIs DEF Asked
<1>2. CASE Quiet
  <2>1. Shimmed' = Shimmed
    BY <1>2 DEF Quiet, Shimmed, Running
  <2> QED
    BY <1>2, <2>1 DEF Quiet, Asking, Question, Waiting, Followed, IsOf
<1>3. ASSUME NEW c \in Running, Moves(c)
      PROVE  Asking'
  BY <1>3, WalksAsking, PostsAsking, PollsAsking, ComesBackAsking, ChallengedAsking, OverAsking
     DEF Moves
<1>4. CASE Next
  BY <1>1, <1>2, <1>3, <1>4, NextIs, StartsAsking, AnsweredAsking
<1>5. CASE UNCHANGED vars
  BY <1>2, <1>5, StutterKeeps
<1> QED
  BY <1>4, <1>5

(* The inductive invariant of the errand.                                   *)
LEMMA ErrandAlways == Spec => []ErrandInv
<1>1. Init => ErrandInv
  <2>1. Init => Running = {} /\ ~spilled
    BY DEF Init, Running
  <2>2. Init => \A n \in Negotiation : neg[n].state = "none"
    BY DEF Init, AuthorityInit, NoNegotiation
  <2> QED
    BY <2>1, <2>2, InitTypes DEF ErrandInv, Apart, Asking, Question, Waiting, Shimmed
<1>2. ErrandInv /\ [Next]_vars => ErrandInv'
  BY ApartInductive, AskingInductive, NextIs, StutterKeeps DEF ErrandInv, Kept
<1> QED
  BY <1>1, <1>2, PTL DEF Spec

(* However often the tool is called while she decides, she has one question *)
(* of it before her, unless the shim has lost or left one.                  *)
THEOREM SheIsAskedOnce == Spec => []OneQuestion
<1>1. ErrandInv => OneQuestion
  <2> SUFFICES ASSUME ErrandInv, ~spilled
               PROVE  Cardinality({n \in Negotiation : Question(n)}) <= 1
    BY DEF OneQuestion, Question
  <2>1. Single /\ Bare /\ Found
    BY AskingIs DEF ErrandInv
  <2>2. \A n, m \in Negotiation : Question(n) /\ Question(m) => n = m
    <3> SUFFICES ASSUME NEW n \in Negotiation, NEW m \in Negotiation, Question(n), Question(m)
                 PROVE  n = m
      OBVIOUS
    <3>1. Followed(n) /\ Followed(m)
      BY <2>1 DEF Found
    <3>2. CASE held # None
      <4>1. \A c \in Shimmed : call[c].pc # "poll"
        BY <2>1, <3>2 DEF Bare, Negotiating
      <4> QED
        BY <3>1, <4>1 DEF Followed, IsOf
    <3>3. CASE held = None
      BY <2>1, <3>1, <3>3 DEF Followed, IsOf, Single
    <3> QED
      BY <3>2, <3>3
  <2> DEFINE questions == {n \in Negotiation : Question(n)}
  <2>3. questions = {} \/ \E n : questions = {n}
    BY <2>2
  <2> HIDE DEF questions
  <2>4. CASE questions = {}
    BY <2>4, FS_EmptySet DEF questions
  <2>5. ASSUME NEW n, questions = {n}
        PROVE  Cardinality(questions) <= 1
    <3>1. Cardinality({n}) = 1
      BY FS_Singleton
    <3> QED
      BY <2>5, <3>1
  <2>6. Cardinality(questions) <= 1
    BY <2>3, <2>4, <2>5, FS_EmptySet
  <2> QED
    BY <2>6 DEF questions
<1> QED
  BY <1>1, ErrandAlways, PTL

=============================================================================
