-------------------------- MODULE GrantLoopProofs ---------------------------
(***************************************************************************)
(* Type correctness of the grant loop; one grant per negotiation; what     *)
(* becomes of her answers (an agent keeps its handle on an answer, an      *)
(* answer stands, a denial is final, every grant rests on a yes); the      *)
(* limits on her attention and on an agent's sub-agents; and that no       *)
(* sub-agent is left behind by its parent.                                 *)
(*                                                                         *)
(* Four invariants, each over the ones before: HandInv, whose hands a      *)
(* negotiation is in; AnswerInv, where an answer is while its negotiation  *)
(* lasts; BackedInv, what connections, copies of them and grants rest on;  *)
(* and LimitInv, who has been let past a count and who vouches for whom.   *)
(***************************************************************************)
EXTENDS GrantLoopProperties, FiniteSetTheorems, TLAPS

-----------------------------------------------------------------------------
(* Type correctness: what the store's operations preserve.                  *)

(* The blank rows are rows.                                                 *)
LEMMA BlankRows ==
  /\ NoNegotiation \in Negotiation /\ NoConnection \in Connection /\ NoRpt \in Rpt
  /\ NoSweep \in Sweep /\ NoAnswer \in Answer
<1>1. NoNegotiation \in Negotiation
  BY DEF NoNegotiation, Negotiation, Handles
<1>2. NoConnection \in Connection
  BY DEF NoConnection, Connection, Handles
<1>3. NoRpt \in Rpt
  BY DEF NoRpt, Rpt, Handles
<1>4. NoSweep \in Sweep
  BY DEF NoSweep, Sweep, SweepStages, Handles
<1>5. NoAnswer \in Answer
  BY DEF NoAnswer, Answer, Handles
<1> QED
  BY <1>1, <1>2, <1>3, <1>4, <1>5

(* Writing back a copy of a whole row leaves whole rows.                    *)
LEMMA StoreMint ==
  ASSUME StoreTypeOK, RowsOK, NEW f \in Families, NEW n \in Negotiation,
         n.state # "none", n.tier \in Tiers,
         n.state = "awaiting-owner" => n.handle \in Agents,
         MintTicket(f, n), UNCHANGED <<rpts, connections, blocked>>
  PROVE  StoreTypeOK' /\ RowsOK'
<1> DEFINE m == [n EXCEPT !.expired = FALSE]
           k == KeepDecision(f, m)
<1>1. /\ m \in Negotiation
      /\ m.state = n.state /\ m.tier = n.tier /\ m.handle = n.handle
  BY DEF Negotiation
<1>2. /\ k \in Negotiation
      /\ k.state = m.state /\ k.tier = m.tier /\ k.handle = m.handle
  <2> HIDE DEF m
  <2>1. negotiations[f] \in Negotiation
    BY DEF StoreTypeOK
  <2>2. CASE negotiations[f].decision = "none"
    BY <1>1, <2>2 DEF KeepDecision
  <2>3. CASE negotiations[f].decision # "none"
    BY <1>1, <2>1, <2>3 DEF KeepDecision, Negotiation
  <2> QED
    BY <2>2, <2>3
<1>3. negotiations' = [negotiations EXCEPT ![f] = k]
  BY DEF MintTicket
<1> HIDE DEF m, k
<1>4. negotiations' \in [Families -> Negotiation]
  BY <1>2, <1>3 DEF StoreTypeOK
<1>5. tickets' \subseteq Tickets /\ minted' \in [Families -> Nat]
  BY DEF StoreTypeOK, MintTicket, Tickets
<1>6. RowsOK'
  <2>1. \A t \in tickets' : t \in tickets \/ t[1] = f
    BY DEF MintTicket
  <2> QED
    BY <1>1, <1>2, <1>3, <2>1 DEF RowsOK, StoreTypeOK, Tickets
<1> QED
  BY <1>4, <1>5, <1>6 DEF StoreTypeOK

LEMMA StoreReap ==
  ASSUME StoreTypeOK, RowsOK, ReapExpired, UNCHANGED <<rpts, connections, blocked>>
  PROVE  StoreTypeOK' /\ RowsOK'
<1>1. negotiations' \in [Families -> Negotiation]
  BY BlankRows DEF StoreTypeOK, ReapExpired
<1>2. tickets' \subseteq Tickets /\ minted' \in [Families -> Nat]
  BY DEF StoreTypeOK, ReapExpired
<1>3. RowsOK'
  BY DEF RowsOK, StoreTypeOK, ReapExpired, FamilyOf, Tickets, NoNegotiation
<1> QED
  BY <1>1, <1>2, <1>3 DEF StoreTypeOK

LEMMA StoreClose ==
  ASSUME StoreTypeOK, RowsOK, NEW f \in Families, CloseNegotiation(f),
         UNCHANGED <<rpts, connections, blocked>>
  PROVE  StoreTypeOK' /\ RowsOK'
<1>1. negotiations' \in [Families -> Negotiation]
  BY BlankRows DEF StoreTypeOK, CloseNegotiation
<1>2. tickets' \subseteq Tickets /\ minted' \in [Families -> Nat]
  BY DEF StoreTypeOK, CloseNegotiation
<1>3. RowsOK'
  BY DEF RowsOK, StoreTypeOK, CloseNegotiation, FamilyOf, Tickets, NoNegotiation
<1> QED
  BY <1>1, <1>2, <1>3 DEF StoreTypeOK

LEMMA StoreRevoke ==
  ASSUME StoreTypeOK, RowsOK, NEW h \in Agents, RevokeConnection(h),
         UNCHANGED <<negVars, blocked>>
  PROVE  StoreTypeOK' /\ RowsOK'
<1>1. connections' \in [Agents -> Connection]
  BY DEF StoreTypeOK, RevokeConnection, Connection
<1>2. rpts' \in [Jtis -> Rpt]
  BY DEF StoreTypeOK, RevokeConnection, Rpt
<1> QED
  BY <1>1, <1>2 DEF StoreTypeOK, RowsOK, negVars

LEMMA StorePut ==
  ASSUME StoreTypeOK, RowsOK, NEW h \in Agents, NEW c \in Connection,
         PutConnection(h, c), UNCHANGED <<negVars, rpts, blocked>>
  PROVE  StoreTypeOK' /\ RowsOK'
  BY DEF PutConnection, StoreTypeOK, RowsOK, negVars

LEMMA StoreFrame ==
  ASSUME StoreTypeOK, RowsOK, UNCHANGED storeVars
  PROVE  StoreTypeOK' /\ RowsOK'
  BY DEF StoreTypeOK, RowsOK, storeVars

-----------------------------------------------------------------------------
(* Type correctness: what the steps of a request have in common.            *)

HandsOK == \A w \in Workers : InHand(pc[w], ticket[w], rec[w])

LEMMA TypeParts ==
  TypeOK <=> StoreTypeOK /\ RowsOK /\ WorkTypeOK /\ OwnerTypeOK /\ HandsOK
  BY DEF TypeOK, HandsOK

LEMMA WorkFrame ==
  ASSUME WorkTypeOK, HandsOK, UNCHANGED workVars
  PROVE  WorkTypeOK' /\ HandsOK'
  BY DEF WorkTypeOK, HandsOK, InHand, workVars

LEMMA OwnerFrame ==
  ASSUME OwnerTypeOK, UNCHANGED <<ownerVars, crashes>>
  PROVE  OwnerTypeOK'
  BY DEF OwnerTypeOK, ownerVars

LEMMA RespondType ==
  ASSUME WorkTypeOK, HandsOK, NEW w \in Workers, Respond(w)
  PROVE  WorkTypeOK' /\ HandsOK'
<1>1. WorkTypeOK'
  BY BlankRows DEF WorkTypeOK, Respond, Labels, Handles
<1>2. HandsOK'
  BY DEF HandsOK, InHand, Respond, WorkTypeOK
<1> QED
  BY <1>1, <1>2

(* Past the agreement, a request keeps its ticket, its tier and its agent.  *)
LEMMA AdvanceType ==
  ASSUME WorkTypeOK, HandsOK, NEW w \in Workers, NEW l \in Labels,
         pc[w] \notin {"idle", "spend", "agree", "close"}, Goto(w, l),
         ticket' = ticket,
         rec' \in [Workers -> Negotiation],
         \A v \in Workers : rec'[v].tier = rec[v].tier /\ rec'[v].handle = rec[v].handle,
         conn' \in [Workers -> Connection], sponsor' \in [Workers -> Handles]
  PROVE  WorkTypeOK' /\ HandsOK'
<1>1. WorkTypeOK'
  BY DEF WorkTypeOK, Goto
<1>2. HandsOK'
  BY DEF HandsOK, InHand, Goto, WorkTypeOK
<1> QED
  BY <1>1, <1>2

(* A ticket in hand names a family.                                         *)
LEMMA FamilyInHand ==
  ASSUME HandsOK, NEW w \in Workers, pc[w] # "idle"
  PROVE  /\ ticket[w] \in Tickets /\ Family(w) \in Families
         /\ ticket[w] = <<Family(w), ticket[w][2]>> /\ ticket[w][2] \in Nat
  BY DEF HandsOK, InHand, Family, FamilyOf, Tickets

-----------------------------------------------------------------------------
(* Type correctness: the initial states, and every action.                  *)

LEMMA InitType == Init => TypeOK
<1> SUFFICES ASSUME Init PROVE TypeOK
  OBVIOUS
<1> USE DEF Init, StoreInit
<1>1. connections \in [Agents -> Connection]
  BY BlankRows DEF NoConnection, Connection
<1>2. StoreTypeOK
  BY <1>1, BlankRows DEF StoreTypeOK
<1>3. RowsOK
  BY DEF RowsOK, NoNegotiation
<1>4. WorkTypeOK
  BY BlankRows DEF WorkTypeOK, Labels, Handles
<1>5. OwnerTypeOK
  BY BlankRows, GrantLoopAssumption DEF OwnerTypeOK
<1>6. HandsOK
  BY DEF HandsOK, InHand
<1> QED
  BY <1>2, <1>3, <1>4, <1>5, <1>6, TypeParts

LEMMA PermType ==
  ASSUME TypeOK, NEW f \in Families, NEW tier \in Tiers, Perm(f, tier)
  PROVE  TypeOK'
<1> USE TypeParts
<1>1. StoreTypeOK' /\ RowsOK'
  <2> DEFINE n == [NoNegotiation EXCEPT !.state = "issued", !.tier = tier]
  <2>1. n \in Negotiation /\ n.state = "issued" /\ n.tier = tier
    BY BlankRows DEF Negotiation, NoNegotiation
  <2>2. MintTicket(f, n) /\ UNCHANGED <<rpts, connections, blocked>>
    BY DEF Perm
  <2> HIDE DEF n
  <2> QED
    BY <2>1, <2>2, StoreMint
<1>2. WorkTypeOK' /\ HandsOK'
  BY WorkFrame DEF Perm
<1>3. OwnerTypeOK'
  BY OwnerFrame DEF Perm, ownerVars
<1> QED
  BY <1>1, <1>2, <1>3 DEF TypeOK, HandsOK

LEMMA ExpireType ==
  ASSUME TypeOK, NEW f \in Families, Expire(f)
  PROVE  TypeOK'
<1> USE TypeParts
<1>1. StoreTypeOK' /\ RowsOK'
  <2>1. negotiations' \in [Families -> Negotiation]
    BY DEF Expire, StoreTypeOK, Negotiation
  <2>2. \A g \in Families : /\ negotiations'[g].state = negotiations[g].state
                            /\ negotiations'[g].tier = negotiations[g].tier
                            /\ negotiations'[g].handle = negotiations[g].handle
    BY DEF Expire, StoreTypeOK, Negotiation
  <2> QED
    BY <2>1, <2>2 DEF Expire, StoreTypeOK, RowsOK, Tickets
<1>2. WorkTypeOK' /\ HandsOK'
  BY WorkFrame DEF Expire
<1>3. OwnerTypeOK'
  BY OwnerFrame DEF Expire, ownerVars
<1> QED
  BY <1>1, <1>2, <1>3 DEF TypeOK, HandsOK

LEMMA PresentType ==
  ASSUME TypeOK, NEW w \in Workers, NEW t \in tickets, Present(w, t)
  PROVE  TypeOK'
<1> USE TypeParts
<1>1. StoreTypeOK' /\ RowsOK'
  BY StoreReap DEF Present
<1>2. WorkTypeOK' /\ HandsOK'
  <2>1. WorkTypeOK'
    BY DEF Present, WorkTypeOK, StoreTypeOK, Goto, Labels
  <2>2. HandsOK'
    BY DEF Present, HandsOK, InHand, StoreTypeOK, WorkTypeOK, Goto
  <2> QED
    BY <2>1, <2>2
<1>3. OwnerTypeOK'
  BY OwnerFrame DEF Present, ownerVars
<1> QED
  BY <1>1, <1>2, <1>3 DEF TypeOK, HandsOK

LEMMA SpendType ==
  ASSUME TypeOK, NEW w \in Workers, Spend(w)
  PROVE  TypeOK'
<1> USE TypeParts
<1>1. StoreTypeOK' /\ RowsOK'
  <2>1. ConsumeTicket(ticket[w]) /\ UNCHANGED <<rpts, connections, blocked>>
    BY DEF Spend
  <2> QED
    BY <2>1 DEF ConsumeTicket, StoreTypeOK, RowsOK
<1>2. WorkTypeOK' /\ HandsOK'
  <2>1. CASE ticket[w] \in tickets /\ ~negotiations[Family(w)].expired
    <3> DEFINE n == negotiations[Family(w)]
               l == Disposition(n)
    <3>1. pc[w] = "spend" /\ Family(w) \in Families /\ ticket[w] \in Tickets
      BY FamilyInHand DEF Spend
    <3>2. n \in Negotiation /\ n.tier \in Tiers
      BY <2>1, <3>1 DEF StoreTypeOK, RowsOK, Family, FamilyOf
    <3>3. l \in {"agree", "poll", "close"} /\ (l = "poll" => n.handle \in Agents)
      BY <3>1 DEF Disposition, RowsOK
    <3>4. /\ Goto(w, l) /\ rec' = [rec EXCEPT ![w] = n]
          /\ UNCHANGED <<ticket, conn, sponsor>>
      BY <2>1 DEF Spend
    <3> HIDE DEF n, l
    <3>5. WorkTypeOK'
      BY <3>2, <3>3, <3>4 DEF WorkTypeOK, Goto, Labels, PollLabels, AskLabels
    <3>6. HandsOK'
      BY <3>1, <3>2, <3>3, <3>4 DEF HandsOK, InHand, WorkTypeOK, Goto
    <3> QED
      BY <3>5, <3>6
  <2>2. CASE ~(ticket[w] \in tickets /\ ~negotiations[Family(w)].expired)
    BY <2>2, RespondType DEF Spend
  <2> QED
    BY <2>1, <2>2
<1>3. OwnerTypeOK'
  BY OwnerFrame DEF Spend, ownerVars
<1> QED
  BY <1>1, <1>2, <1>3 DEF TypeOK, HandsOK

LEMMA DictateTermsType ==
  ASSUME TypeOK, NEW w \in Workers, DictateTerms(w)
  PROVE  TypeOK'
<1> USE TypeParts
<1>1. StoreTypeOK' /\ RowsOK'
  <2> DEFINE n == [rec[w] EXCEPT !.state = "need_info"]
  <2>1. /\ rec[w] \in Negotiation /\ rec[w].tier \in Tiers
        /\ Family(w) \in Families
    BY FamilyInHand DEF DictateTerms, WorkTypeOK, HandsOK, InHand
  <2>2. /\ n \in Negotiation /\ n.state = "need_info"
        /\ n.tier = rec[w].tier /\ n.handle = rec[w].handle
    BY <2>1 DEF Negotiation
  <2>3. MintTicket(Family(w), n) /\ UNCHANGED <<rpts, connections, blocked>>
    BY DEF DictateTerms
  <2> HIDE DEF n
  <2> QED
    BY <2>1, <2>2, <2>3, StoreMint
<1>2. WorkTypeOK' /\ HandsOK'
  BY RespondType DEF DictateTerms
<1>3. OwnerTypeOK'
  BY OwnerFrame DEF DictateTerms, ownerVars
<1> QED
  BY <1>1, <1>2, <1>3 DEF TypeOK, HandsOK

LEMMA TurnAwayType ==
  ASSUME TypeOK, NEW w \in Workers, TurnAway(w)
  PROVE  TypeOK'
<1> USE TypeParts
<1>1. StoreTypeOK' /\ RowsOK'
  BY StoreFrame DEF TurnAway
<1>2. WorkTypeOK' /\ HandsOK'
  <2>1. WorkTypeOK'
    BY DEF TurnAway, WorkTypeOK, Goto, Labels
  <2>2. HandsOK'
    BY DEF TurnAway, HandsOK, InHand, WorkTypeOK, Goto
  <2> QED
    BY <2>1, <2>2
<1>3. OwnerTypeOK'
  BY OwnerFrame DEF TurnAway, ownerVars
<1> QED
  BY <1>1, <1>2, <1>3 DEF TypeOK, HandsOK

LEMMA RejectClaimType ==
  ASSUME TypeOK, NEW w \in Workers, RejectClaim(w)
  PROVE  TypeOK'
<1> USE TypeParts
<1>1. StoreTypeOK' /\ RowsOK'
  BY StoreFrame DEF RejectClaim
<1>2. WorkTypeOK' /\ HandsOK'
  BY RespondType DEF RejectClaim
<1>3. OwnerTypeOK'
  BY OwnerFrame DEF RejectClaim, ownerVars
<1> QED
  BY <1>1, <1>2, <1>3 DEF TypeOK, HandsOK

LEMMA AgreeType ==
  ASSUME TypeOK, NEW w \in Workers, NEW a \in Agents, NEW i \in Handles, Agree(w, a, i)
  PROVE  TypeOK'
<1> USE TypeParts
<1>1. StoreTypeOK' /\ RowsOK'
  BY StoreFrame DEF Agree
<1>2. WorkTypeOK' /\ HandsOK'
  <2>1. rec' \in [Workers -> Negotiation] /\ rec'[w].handle = a
        /\ rec'[w].tier = rec[w].tier
    BY DEF Agree, WorkTypeOK, Negotiation, Handles
  <2>2. WorkTypeOK'
    BY <2>1 DEF Agree, WorkTypeOK, Goto, Labels, AskLabels
  <2>3. HandsOK'
    BY <2>1 DEF Agree, HandsOK, InHand, WorkTypeOK, Goto
  <2> QED
    BY <2>2, <2>3
<1>3. OwnerTypeOK'
  BY OwnerFrame DEF Agree, ownerVars
<1> QED
  BY <1>1, <1>2, <1>3 DEF TypeOK, HandsOK

LEMMA ReadConnectionType ==
  ASSUME TypeOK, NEW w \in Workers, ReadConnection(w)
  PROVE  TypeOK'
<1> USE TypeParts
<1>1. StoreTypeOK' /\ RowsOK'
  BY StoreFrame DEF ReadConnection
<1>2. WorkTypeOK' /\ HandsOK'
  <2>1. /\ pc[w] \notin {"idle", "spend", "agree", "close"} /\ ticket' = ticket
        /\ \E l \in Labels : Goto(w, l)
    BY DEF ReadConnection, Labels, PollLabels, AskLabels
  <2>2. /\ rec' \in [Workers -> Negotiation]
        /\ \A v \in Workers : rec'[v].tier = rec[v].tier /\ rec'[v].handle = rec[v].handle
        /\ conn' \in [Workers -> Connection] /\ sponsor' \in [Workers -> Handles]
    <3>1. connections[rec[w].handle] \in Connection
      BY DEF ReadConnection, HandsOK, InHand, StoreTypeOK
    <3> QED
      BY <3>1 DEF ReadConnection, WorkTypeOK, Handles
  <2> QED
    BY <2>1, <2>2, AdvanceType
<1>3. OwnerTypeOK'
  BY OwnerFrame DEF ReadConnection, ownerVars
<1> QED
  BY <1>1, <1>2, <1>3 DEF TypeOK, HandsOK

LEMMA CheckIntroductionType ==
  ASSUME TypeOK, NEW w \in Workers, CheckIntroduction(w)
  PROVE  TypeOK'
<1> USE TypeParts
<1>1. StoreTypeOK' /\ RowsOK'
  BY StoreFrame DEF CheckIntroduction
<1>2. WorkTypeOK' /\ HandsOK'
  <2>1. /\ pc[w] \notin {"idle", "spend", "agree", "close"} /\ ticket' = ticket
        /\ \E l \in Labels : Goto(w, l)
    BY DEF CheckIntroduction, Labels, PollLabels, AskLabels
  <2>2. /\ rec' \in [Workers -> Negotiation]
        /\ \A v \in Workers : rec'[v].tier = rec[v].tier /\ rec'[v].handle = rec[v].handle
        /\ conn' \in [Workers -> Connection] /\ sponsor' \in [Workers -> Handles]
    <3>1. [conn[w] EXCEPT !.status = "active", !.parent = sponsor[w],
                          !.approved = {}] \in Connection
      <4>1. conn[w] \in Connection /\ sponsor[w] \in Handles
        BY DEF WorkTypeOK
      <4> QED
        BY <4>1 DEF Connection
    <3> QED
      BY <3>1 DEF CheckIntroduction, WorkTypeOK, Handles
  <2> QED
    BY <2>1, <2>2, AdvanceType
<1>3. OwnerTypeOK'
  BY OwnerFrame DEF CheckIntroduction, ownerVars
<1> QED
  BY <1>1, <1>2, <1>3 DEF TypeOK, HandsOK

LEMMA CheckOperatorType ==
  ASSUME TypeOK, NEW w \in Workers, CheckOperator(w)
  PROVE  TypeOK'
<1> USE TypeParts
<1>1. StoreTypeOK' /\ RowsOK'
  BY StoreFrame DEF CheckOperator
<1>2. WorkTypeOK' /\ HandsOK'
  <2>1. /\ pc[w] \notin {"idle", "spend", "agree", "close"} /\ ticket' = ticket
        /\ \E l \in Labels : Goto(w, l)
    BY DEF CheckOperator, Labels, PollLabels, AskLabels, AfterGates
  <2>2. /\ rec' \in [Workers -> Negotiation]
        /\ \A v \in Workers : rec'[v].tier = rec[v].tier /\ rec'[v].handle = rec[v].handle
        /\ conn' \in [Workers -> Connection] /\ sponsor' \in [Workers -> Handles]
    <3>1. ASSUME NEW r \in {"auto", "ask", "refuse"}
          PROVE  /\ [rec[w] EXCEPT !.kind = KindOf(r, conn[w])] \in Negotiation
                 /\ [rec[w] EXCEPT !.kind = KindOf(r, conn[w])].tier = rec[w].tier
                 /\ [rec[w] EXCEPT !.kind = KindOf(r, conn[w])].handle = rec[w].handle
      BY DEF KindOf, WorkTypeOK, Negotiation
    <3>2. \A r \in Requirements(rec[w].tier, rec[w].handle, conn[w]) : r \in {"auto", "ask", "refuse"}
      BY DEF Requirements
    <3>3. \/ rec' = rec
          \/ \E r \in {"auto", "ask", "refuse"} :
               rec' = [rec EXCEPT ![w] = [rec[w] EXCEPT !.kind = KindOf(r, conn[w])]]
      BY <3>2 DEF CheckOperator
    <3> QED
      BY <3>1, <3>3 DEF CheckOperator, WorkTypeOK
  <2> QED
    BY <2>1, <2>2, AdvanceType
<1>3. OwnerTypeOK'
  BY OwnerFrame DEF CheckOperator, ownerVars
<1> QED
  BY <1>1, <1>2, <1>3 DEF TypeOK, HandsOK

LEMMA CheckQueueType ==
  ASSUME TypeOK, NEW w \in Workers, CheckQueue(w)
  PROVE  TypeOK'
<1> USE TypeParts
<1>1. StoreTypeOK' /\ RowsOK'
  BY StoreFrame DEF CheckQueue
<1>2. WorkTypeOK' /\ HandsOK'
  <2>1. /\ pc[w] \notin {"idle", "spend", "agree", "close"} /\ ticket' = ticket
        /\ \E l \in Labels : Goto(w, l)
    BY DEF CheckQueue, Labels, PollLabels, AskLabels, AfterGates
  <2>2. /\ rec' \in [Workers -> Negotiation]
        /\ \A v \in Workers : rec'[v].tier = rec[v].tier /\ rec'[v].handle = rec[v].handle
        /\ conn' \in [Workers -> Connection] /\ sponsor' \in [Workers -> Handles]
    BY DEF CheckQueue, WorkTypeOK
  <2> QED
    BY <2>1, <2>2, AdvanceType
<1>3. OwnerTypeOK'
  BY OwnerFrame DEF CheckQueue, ownerVars
<1> QED
  BY <1>1, <1>2, <1>3 DEF TypeOK, HandsOK

LEMMA CheckSponsorType ==
  ASSUME TypeOK, NEW w \in Workers, CheckSponsor(w)
  PROVE  TypeOK'
<1> USE TypeParts
<1>1. StoreTypeOK' /\ RowsOK'
  BY StoreFrame DEF CheckSponsor
<1>2. WorkTypeOK' /\ HandsOK'
  <2>1. /\ pc[w] \notin {"idle", "spend", "agree", "close"} /\ ticket' = ticket
        /\ \E l \in Labels : Goto(w, l)
    BY DEF CheckSponsor, Labels, PollLabels, AskLabels
  <2>2. /\ rec' \in [Workers -> Negotiation]
        /\ \A v \in Workers : rec'[v].tier = rec[v].tier /\ rec'[v].handle = rec[v].handle
        /\ conn' \in [Workers -> Connection] /\ sponsor' \in [Workers -> Handles]
    BY DEF CheckSponsor, WorkTypeOK
  <2> QED
    BY <2>1, <2>2, AdvanceType
<1>3. OwnerTypeOK'
  BY OwnerFrame DEF CheckSponsor, ownerVars
<1> QED
  BY <1>1, <1>2, <1>3 DEF TypeOK, HandsOK

LEMMA PutIntroducedType ==
  ASSUME TypeOK, NEW w \in Workers, PutIntroduced(w)
  PROVE  TypeOK'
<1> USE TypeParts
<1>1. StoreTypeOK' /\ RowsOK'
  <2>1. rec[w].handle \in Agents
    BY DEF PutIntroduced, HandsOK, InHand
  <2>2. conn[w] \in Connection
    BY DEF WorkTypeOK
  <2>3. /\ PutConnection(rec[w].handle, conn[w])
        /\ UNCHANGED <<negVars, rpts, blocked>>
    BY DEF PutIntroduced
  <2> QED
    BY <2>1, <2>2, <2>3, StorePut
<1>2. WorkTypeOK' /\ HandsOK'
  <2>1. /\ pc[w] \notin {"idle", "spend", "agree", "close"} /\ ticket' = ticket
        /\ \E l \in Labels : Goto(w, l)
    BY DEF PutIntroduced, Labels, PollLabels, AskLabels
  <2>2. /\ rec' \in [Workers -> Negotiation]
        /\ \A v \in Workers : rec'[v].tier = rec[v].tier /\ rec'[v].handle = rec[v].handle
        /\ conn' \in [Workers -> Connection] /\ sponsor' \in [Workers -> Handles]
    BY DEF PutIntroduced, WorkTypeOK
  <2> QED
    BY <2>1, <2>2, AdvanceType
<1>3. OwnerTypeOK'
  BY OwnerFrame DEF PutIntroduced, ownerVars
<1> QED
  BY <1>1, <1>2, <1>3 DEF TypeOK, HandsOK

LEMMA RecheckSponsorType ==
  ASSUME TypeOK, NEW w \in Workers, RecheckSponsor(w)
  PROVE  TypeOK'
<1> USE TypeParts
<1>1. StoreTypeOK' /\ RowsOK'
  BY StoreFrame DEF RecheckSponsor
<1>2. WorkTypeOK' /\ HandsOK'
  <2>1. /\ pc[w] \notin {"idle", "spend", "agree", "close"} /\ ticket' = ticket
        /\ \E l \in Labels : Goto(w, l)
    BY DEF RecheckSponsor, Labels, PollLabels, AskLabels, AfterGates
  <2>2. /\ rec' \in [Workers -> Negotiation]
        /\ \A v \in Workers : rec'[v].tier = rec[v].tier /\ rec'[v].handle = rec[v].handle
        /\ conn' \in [Workers -> Connection] /\ sponsor' \in [Workers -> Handles]
    BY DEF RecheckSponsor, WorkTypeOK
  <2> QED
    BY <2>1, <2>2, AdvanceType
<1>3. OwnerTypeOK'
  BY OwnerFrame DEF RecheckSponsor, ownerVars
<1> QED
  BY <1>1, <1>2, <1>3 DEF TypeOK, HandsOK

LEMMA UndoIntroductionType ==
  ASSUME TypeOK, NEW w \in Workers, UndoIntroduction(w)
  PROVE  TypeOK'
<1> USE TypeParts
<1>1. StoreTypeOK' /\ RowsOK'
  <2>1. rec[w].handle \in Agents
    BY DEF UndoIntroduction, HandsOK, InHand
  <2> QED
    BY <2>1, StoreRevoke DEF UndoIntroduction
<1>2. WorkTypeOK' /\ HandsOK'
  <2>1. /\ pc[w] \notin {"idle", "spend", "agree", "close"} /\ ticket' = ticket
        /\ \E l \in Labels : Goto(w, l)
    BY DEF UndoIntroduction, Labels, PollLabels, AskLabels
  <2>2. /\ rec' \in [Workers -> Negotiation]
        /\ \A v \in Workers : rec'[v].tier = rec[v].tier /\ rec'[v].handle = rec[v].handle
        /\ conn' \in [Workers -> Connection] /\ sponsor' \in [Workers -> Handles]
    BY DEF UndoIntroduction, WorkTypeOK
  <2> QED
    BY <2>1, <2>2, AdvanceType
<1>3. OwnerTypeOK'
  BY OwnerFrame DEF UndoIntroduction, ownerVars
<1> QED
  BY <1>1, <1>2, <1>3 DEF TypeOK, HandsOK

LEMMA NoteRevocationsType ==
  ASSUME TypeOK, NEW w \in Workers, NoteRevocations(w)
  PROVE  TypeOK'
<1> USE TypeParts
<1>1. StoreTypeOK' /\ RowsOK'
  BY StoreFrame DEF NoteRevocations
<1>2. WorkTypeOK' /\ HandsOK'
  <2>1. /\ pc[w] \notin {"idle", "spend", "agree", "close"} /\ ticket' = ticket
        /\ \E l \in Labels : Goto(w, l)
    BY DEF NoteRevocations, Labels, PollLabels, AskLabels
  <2>2. /\ rec' \in [Workers -> Negotiation]
        /\ \A v \in Workers : rec'[v].tier = rec[v].tier /\ rec'[v].handle = rec[v].handle
        /\ conn' \in [Workers -> Connection] /\ sponsor' \in [Workers -> Handles]
    <3>1. rec[w] \in Negotiation /\ connections[rec[w].handle].revocations \in Nat
      BY DEF NoteRevocations, HandsOK, InHand, StoreTypeOK, WorkTypeOK, Connection
    <3> QED
      BY <3>1 DEF NoteRevocations, WorkTypeOK, Negotiation
  <2> QED
    BY <2>1, <2>2, AdvanceType
<1>3. OwnerTypeOK'
  BY OwnerFrame DEF NoteRevocations, ownerVars
<1> QED
  BY <1>1, <1>2, <1>3 DEF TypeOK, HandsOK

LEMMA PendType ==
  ASSUME TypeOK, NEW w \in Workers, Pend(w)
  PROVE  TypeOK'
<1> USE TypeParts
<1>1. StoreTypeOK' /\ RowsOK'
  <2> DEFINE n == [rec[w] EXCEPT !.state = "awaiting-owner"]
  <2>1. /\ rec[w] \in Negotiation /\ rec[w].tier \in Tiers /\ rec[w].handle \in Agents
        /\ Family(w) \in Families
    BY FamilyInHand DEF Pend, WorkTypeOK, HandsOK, InHand
  <2>2. /\ n \in Negotiation /\ n.state = "awaiting-owner"
        /\ n.tier = rec[w].tier /\ n.handle = rec[w].handle
    BY <2>1 DEF Negotiation
  <2>3. MintTicket(Family(w), n) /\ UNCHANGED <<rpts, connections, blocked>>
    BY DEF Pend
  <2> HIDE DEF n
  <2> QED
    BY <2>1, <2>2, <2>3, StoreMint
<1>2. WorkTypeOK' /\ HandsOK'
  BY RespondType DEF Pend
<1>3. OwnerTypeOK'
  BY OwnerFrame DEF Pend, ownerVars
<1> QED
  BY <1>1, <1>2, <1>3 DEF TypeOK, HandsOK

LEMMA IssueRptType ==
  ASSUME TypeOK, NEW w \in Workers, NEW j \in Jtis, IssueRpt(w, j)
  PROVE  TypeOK'
<1> USE TypeParts
<1>1. StoreTypeOK' /\ RowsOK'
  <2>1. /\ Family(w) \in Families /\ rec[w].handle \in Agents /\ rec[w].tier \in Tiers
        /\ conn[w].revocations \in Nat
    BY FamilyInHand DEF IssueRpt, HandsOK, InHand, WorkTypeOK, Connection
  <2>2. rpts' \in [Jtis -> Rpt]
    BY <2>1 DEF IssueRpt, RecordRpt, StoreTypeOK, Rpt, Handles
  <2> QED
    BY <2>2 DEF IssueRpt, StoreTypeOK, RowsOK, negVars
<1>2. WorkTypeOK' /\ HandsOK'
  <2>1. /\ pc[w] \notin {"idle", "spend", "agree", "close"} /\ ticket' = ticket
        /\ \E l \in Labels : Goto(w, l)
    BY DEF IssueRpt, Labels, PollLabels, AskLabels
  <2>2. /\ rec' \in [Workers -> Negotiation]
        /\ \A v \in Workers : rec'[v].tier = rec[v].tier /\ rec'[v].handle = rec[v].handle
        /\ conn' \in [Workers -> Connection] /\ sponsor' \in [Workers -> Handles]
    BY DEF IssueRpt, WorkTypeOK
  <2> QED
    BY <2>1, <2>2, AdvanceType
<1>3. OwnerTypeOK'
  BY OwnerFrame DEF IssueRpt, ownerVars
<1> QED
  BY <1>1, <1>2, <1>3 DEF TypeOK, HandsOK

LEMMA RefuseRptType ==
  ASSUME TypeOK, NEW w \in Workers, RefuseRpt(w)
  PROVE  TypeOK'
<1> USE TypeParts
<1>1. StoreTypeOK' /\ RowsOK'
  BY StoreFrame DEF RefuseRpt
<1>2. WorkTypeOK' /\ HandsOK'
  BY RespondType DEF RefuseRpt
<1>3. OwnerTypeOK'
  BY OwnerFrame DEF RefuseRpt, ownerVars
<1> QED
  BY <1>1, <1>2, <1>3 DEF TypeOK, HandsOK

LEMMA CloseType ==
  ASSUME TypeOK, NEW w \in Workers, Close(w)
  PROVE  TypeOK'
<1> USE TypeParts
<1>1. StoreTypeOK' /\ RowsOK'
  <2>1. Family(w) \in Families
    BY FamilyInHand DEF Close
  <2> QED
    BY <2>1, StoreClose DEF Close
<1>2. WorkTypeOK' /\ HandsOK'
  BY RespondType DEF Close
<1>3. OwnerTypeOK'
  BY OwnerFrame DEF Close, ownerVars
<1> QED
  BY <1>1, <1>2, <1>3 DEF TypeOK, HandsOK

LEMMA PollOperatorType ==
  ASSUME TypeOK, NEW w \in Workers, PollOperator(w)
  PROVE  TypeOK'
<1> USE TypeParts
<1>1. StoreTypeOK' /\ RowsOK'
  BY StoreFrame DEF PollOperator
<1>2. WorkTypeOK' /\ HandsOK'
  <2>1. /\ pc[w] \notin {"idle", "spend", "agree", "close"} /\ ticket' = ticket
        /\ \E l \in Labels : Goto(w, l)
    BY DEF PollOperator, Labels, PollLabels, AskLabels
  <2>2. /\ rec' \in [Workers -> Negotiation]
        /\ \A v \in Workers : rec'[v].tier = rec[v].tier /\ rec'[v].handle = rec[v].handle
        /\ conn' \in [Workers -> Connection] /\ sponsor' \in [Workers -> Handles]
    BY DEF PollOperator, WorkTypeOK
  <2> QED
    BY <2>1, <2>2, AdvanceType
<1>3. OwnerTypeOK'
  BY OwnerFrame DEF PollOperator, ownerVars
<1> QED
  BY <1>1, <1>2, <1>3 DEF TypeOK, HandsOK

LEMMA PollConnectionType ==
  ASSUME TypeOK, NEW w \in Workers, PollConnection(w)
  PROVE  TypeOK'
<1> USE TypeParts
<1>1. StoreTypeOK' /\ RowsOK'
  BY StoreFrame DEF PollConnection
<1>2. WorkTypeOK' /\ HandsOK'
  <2>1. /\ pc[w] \notin {"idle", "spend", "agree", "close"} /\ ticket' = ticket
        /\ \E l \in Labels : Goto(w, l)
    BY DEF PollConnection, Labels, PollLabels, AskLabels
  <2>2. /\ rec' \in [Workers -> Negotiation]
        /\ \A v \in Workers : rec'[v].tier = rec[v].tier /\ rec'[v].handle = rec[v].handle
        /\ conn' \in [Workers -> Connection] /\ sponsor' \in [Workers -> Handles]
    <3>1. connections[rec[w].handle] \in Connection
      BY DEF PollConnection, HandsOK, InHand, StoreTypeOK
    <3> QED
      BY <3>1 DEF PollConnection, WorkTypeOK
  <2> QED
    BY <2>1, <2>2, AdvanceType
<1>3. OwnerTypeOK'
  BY OwnerFrame DEF PollConnection, ownerVars
<1> QED
  BY <1>1, <1>2, <1>3 DEF TypeOK, HandsOK

LEMMA ReadPriorType ==
  ASSUME TypeOK, NEW w \in Workers, ReadPrior(w)
  PROVE  TypeOK'
<1> USE TypeParts
<1>1. StoreTypeOK' /\ RowsOK'
  BY StoreFrame DEF ReadPrior
<1>2. WorkTypeOK' /\ HandsOK'
  <2>1. /\ pc[w] \notin {"idle", "spend", "agree", "close"} /\ ticket' = ticket
        /\ \E l \in Labels : Goto(w, l)
    BY DEF ReadPrior, Labels, PollLabels, AskLabels
  <2>2. /\ rec' \in [Workers -> Negotiation]
        /\ \A v \in Workers : rec'[v].tier = rec[v].tier /\ rec'[v].handle = rec[v].handle
        /\ conn' \in [Workers -> Connection] /\ sponsor' \in [Workers -> Handles]
    <3>1. connections[rec[w].handle] \in Connection
      BY DEF ReadPrior, HandsOK, InHand, StoreTypeOK
    <3> QED
      BY <3>1 DEF ReadPrior, WorkTypeOK
  <2> QED
    BY <2>1, <2>2, AdvanceType
<1>3. OwnerTypeOK'
  BY OwnerFrame DEF ReadPrior, ownerVars
<1> QED
  BY <1>1, <1>2, <1>3 DEF TypeOK, HandsOK

LEMMA AdmitConnectionType ==
  ASSUME TypeOK, NEW w \in Workers, AdmitConnection(w)
  PROVE  TypeOK'
<1> USE TypeParts
<1>1. StoreTypeOK' /\ RowsOK'
  <2> DEFINE c == [NoConnection EXCEPT !.status = "active",
                                       !.revocations = conn[w].revocations]
  <2>1. rec[w].handle \in Agents /\ conn[w].revocations \in Nat
    BY DEF AdmitConnection, HandsOK, InHand, WorkTypeOK, Connection
  <2>2. c \in Connection
    BY <2>1, BlankRows DEF Connection
  <2>3. PutConnection(rec[w].handle, c) /\ UNCHANGED <<negVars, rpts, blocked>>
    BY DEF AdmitConnection
  <2> HIDE DEF c
  <2> QED
    BY <2>1, <2>2, <2>3, StorePut
<1>2. WorkTypeOK' /\ HandsOK'
  <2>1. /\ pc[w] \notin {"idle", "spend", "agree", "close"} /\ ticket' = ticket
        /\ \E l \in Labels : Goto(w, l)
    BY DEF AdmitConnection, Labels, PollLabels, AskLabels
  <2>2. /\ rec' \in [Workers -> Negotiation]
        /\ \A v \in Workers : rec'[v].tier = rec[v].tier /\ rec'[v].handle = rec[v].handle
        /\ conn' \in [Workers -> Connection] /\ sponsor' \in [Workers -> Handles]
    BY DEF AdmitConnection, WorkTypeOK
  <2> QED
    BY <2>1, <2>2, AdvanceType
<1>3. OwnerTypeOK'
  BY OwnerFrame DEF AdmitConnection, ownerVars
<1> QED
  BY <1>1, <1>2, <1>3 DEF TypeOK, HandsOK

LEMMA NoteApprovalType ==
  ASSUME TypeOK, NEW w \in Workers, NoteApproval(w)
  PROVE  TypeOK'
<1> USE TypeParts
<1>1. StoreTypeOK' /\ RowsOK'
  <2>1. rec[w].tier \in Tiers
    BY DEF NoteApproval, HandsOK, InHand
  <2>2. connections' \in [Agents -> Connection]
    BY <2>1 DEF NoteApproval, NoteTierApproval, StoreTypeOK, Connection
  <2> QED
    BY <2>2 DEF NoteApproval, StoreTypeOK, RowsOK, negVars
<1>2. WorkTypeOK' /\ HandsOK'
  <2>1. /\ pc[w] \notin {"idle", "spend", "agree", "close"} /\ ticket' = ticket
        /\ \E l \in Labels : Goto(w, l)
    BY DEF NoteApproval, Labels, PollLabels, AskLabels
  <2>2. /\ rec' \in [Workers -> Negotiation]
        /\ \A v \in Workers : rec'[v].tier = rec[v].tier /\ rec'[v].handle = rec[v].handle
        /\ conn' \in [Workers -> Connection] /\ sponsor' \in [Workers -> Handles]
    BY DEF NoteApproval, WorkTypeOK
  <2> QED
    BY <2>1, <2>2, AdvanceType
<1>3. OwnerTypeOK'
  BY OwnerFrame DEF NoteApproval, ownerVars
<1> QED
  BY <1>1, <1>2, <1>3 DEF TypeOK, HandsOK

LEMMA CrashType ==
  ASSUME TypeOK, NEW w \in Workers, Crash(w)
  PROVE  TypeOK'
<1> USE TypeParts
<1>1. StoreTypeOK' /\ RowsOK'
  BY StoreFrame DEF Crash
<1>2. WorkTypeOK' /\ HandsOK'
  BY RespondType DEF Crash
<1>3. OwnerTypeOK'
  BY GrantLoopAssumption DEF Crash, OwnerTypeOK, ownerVars
<1> QED
  BY <1>1, <1>2, <1>3 DEF TypeOK, HandsOK

LEMMA CrashSweepType ==
  ASSUME TypeOK, NEW s \in Sweepers, CrashSweep(s)
  PROVE  TypeOK'
<1> USE TypeParts
<1>1. StoreTypeOK' /\ RowsOK'
  BY StoreFrame DEF CrashSweep
<1>2. WorkTypeOK' /\ HandsOK'
  BY WorkFrame DEF CrashSweep
<1>3. OwnerTypeOK'
  BY GrantLoopAssumption, BlankRows DEF CrashSweep, OwnerTypeOK
<1> QED
  BY <1>1, <1>2, <1>3 DEF TypeOK, HandsOK

LEMMA DecideType ==
  ASSUME TypeOK, NEW f \in Families, NEW d \in Decisions, NEW by \in Deciders, Decide(f, d, by)
  PROVE  TypeOK'
<1> USE TypeParts
<1>1. StoreTypeOK' /\ RowsOK'
  <2>1. by \in Authors
    BY GrantLoopAssumption
  <2>2. negotiations' \in [Families -> Negotiation]
    <3> DEFINE n == [negotiations[f] EXCEPT !.decision = d, !.by = by]
    <3>1. n \in Negotiation
      <4>1. negotiations[f] \in Negotiation
        BY DEF StoreTypeOK
      <4> QED
        BY <2>1, <4>1 DEF Negotiation
    <3>2. negotiations' = [negotiations EXCEPT ![f] = n]
      BY DEF Decide, DecideNegotiation, StoreTypeOK
    <3> HIDE DEF n
    <3> QED
      BY <3>1, <3>2 DEF StoreTypeOK
  <2>3. \A g \in Families : /\ negotiations'[g].state = negotiations[g].state
                            /\ negotiations'[g].tier = negotiations[g].tier
                            /\ negotiations'[g].handle = negotiations[g].handle
    BY DEF Decide, DecideNegotiation, StoreTypeOK, Negotiation
  <2> QED
    BY <2>2, <2>3 DEF Decide, DecideNegotiation, StoreTypeOK, RowsOK, Tickets
<1>2. WorkTypeOK' /\ HandsOK'
  BY WorkFrame DEF Decide
<1>3. OwnerTypeOK'
  <2>1. /\ negotiations[f].handle \in Handles
        /\ negotiations[f].tier \in Tiers \cup {None} /\ by \in Authors
    BY GrantLoopAssumption DEF StoreTypeOK, Negotiation
  <2> QED
    BY <2>1 DEF Decide, OwnerTypeOK, Answer
<1> QED
  BY <1>1, <1>2, <1>3 DEF TypeOK, HandsOK

LEMMA RevokeType ==
  ASSUME TypeOK, NEW s \in Sweepers, NEW h \in Agents, Revoke(s, h)
  PROVE  TypeOK'
<1> USE TypeParts
<1>1. StoreTypeOK' /\ RowsOK'
  BY StoreRevoke DEF Revoke
<1>2. WorkTypeOK' /\ HandsOK'
  BY WorkFrame DEF Revoke
<1>3. OwnerTypeOK'
  <2>1. [NoSweep EXCEPT !.stage = "children", !.parent = h] \in Sweep
    BY BlankRows DEF Sweep, SweepStages, Handles
  <2> QED
    BY <2>1, GrantLoopAssumption DEF Revoke, OwnerTypeOK
<1> QED
  BY <1>1, <1>2, <1>3 DEF TypeOK, HandsOK

LEMMA BlockOperatorType ==
  ASSUME TypeOK, NEW s \in Sweepers, NEW o \in Operators, BlockOperator(s, o)
  PROVE  TypeOK'
<1> USE TypeParts
<1>1. StoreTypeOK' /\ RowsOK'
  BY DEF BlockOperator, StoreTypeOK, RowsOK, negVars
<1>2. WorkTypeOK' /\ HandsOK'
  BY WorkFrame DEF BlockOperator
<1>3. OwnerTypeOK'
  <2>1. [NoSweep EXCEPT !.stage = "find", !.origin = o] \in Sweep
    BY BlankRows DEF Sweep, SweepStages, Handles
  <2> QED
    BY <2>1, GrantLoopAssumption DEF BlockOperator, OwnerTypeOK
<1> QED
  BY <1>1, <1>2, <1>3 DEF TypeOK, HandsOK

LEMMA UnblockOperatorType ==
  ASSUME TypeOK, NEW o \in Operators, UnblockOperator(o)
  PROVE  TypeOK'
<1> USE TypeParts
<1>1. StoreTypeOK' /\ RowsOK'
  BY DEF UnblockOperator, StoreTypeOK, RowsOK, negVars
<1>2. WorkTypeOK' /\ HandsOK'
  BY WorkFrame DEF UnblockOperator
<1>3. OwnerTypeOK'
  BY OwnerFrame DEF UnblockOperator, ownerVars
<1> QED
  BY <1>1, <1>2, <1>3 DEF TypeOK, HandsOK

(* However a sweep goes on, it is a sweep.                                  *)
LEMMA SweepToType ==
  ASSUME OwnerTypeOK, NEW s \in Sweepers, NEW g \in Operators \cup {None},
         NEW q \in SUBSET Agents, NEW p \in Handles, NEW todo \in SUBSET Agents,
         SweepTo(s, g, q, p, todo)
  PROVE  sweep' \in [Sweepers -> Sweep]
  BY BlankRows DEF OwnerTypeOK, SweepTo, NextStage, Sweep, SweepStages

LEMMA FindConnectionsType ==
  ASSUME TypeOK, NEW s \in Sweepers, FindConnections(s)
  PROVE  TypeOK'
<1> USE TypeParts
<1>1. StoreTypeOK' /\ RowsOK'
  BY StoreFrame DEF FindConnections
<1>2. WorkTypeOK' /\ HandsOK'
  BY WorkFrame DEF FindConnections
<1>3. OwnerTypeOK'
  <2>1. sweep[s] \in Sweep
    BY DEF OwnerTypeOK
  <2>2. sweep' \in [Sweepers -> Sweep]
    <3>1. /\ sweep[s].origin \in Operators \cup {None} /\ None \in Handles
          /\ {} \in SUBSET Agents
          /\ {a \in Agents : /\ connections[a].status = "active"
                             /\ Operator[a] = sweep[s].origin} \in SUBSET Agents
      BY <2>1 DEF Sweep, Handles
    <3> QED
      BY <3>1, SweepToType DEF FindConnections
  <2> QED
    BY <2>2 DEF FindConnections, OwnerTypeOK
<1> QED
  BY <1>1, <1>2, <1>3 DEF TypeOK, HandsOK

LEMMA SweepConnectionType ==
  ASSUME TypeOK, NEW s \in Sweepers, NEW h \in Agents, SweepConnection(s, h)
  PROVE  TypeOK'
<1> USE TypeParts
<1>1. StoreTypeOK' /\ RowsOK'
  BY StoreRevoke DEF SweepConnection
<1>2. WorkTypeOK' /\ HandsOK'
  BY WorkFrame DEF SweepConnection
<1>3. OwnerTypeOK'
  <2>1. sweep[s] \in Sweep
    BY DEF OwnerTypeOK
  <2>2. sweep' \in [Sweepers -> Sweep]
    BY <2>1 DEF SweepConnection, OwnerTypeOK, Sweep, SweepStages, Handles
  <2> QED
    BY <2>2 DEF SweepConnection, OwnerTypeOK
<1> QED
  BY <1>1, <1>2, <1>3 DEF TypeOK, HandsOK

LEMMA FindChildrenType ==
  ASSUME TypeOK, NEW s \in Sweepers, FindChildren(s)
  PROVE  TypeOK'
<1> USE TypeParts
<1>1. StoreTypeOK' /\ RowsOK'
  BY StoreFrame DEF FindChildren
<1>2. WorkTypeOK' /\ HandsOK'
  BY WorkFrame DEF FindChildren
<1>3. OwnerTypeOK'
  <2>1. sweep[s] \in Sweep
    BY DEF OwnerTypeOK
  <2>2. sweep' \in [Sweepers -> Sweep]
    <3>1. /\ sweep[s].origin \in Operators \cup {None} /\ sweep[s].parent \in Handles
          /\ sweep[s].queue \in SUBSET Agents
          /\ LiveChildren(sweep[s].parent) \in SUBSET Agents
      BY <2>1 DEF Sweep, LiveChildren
    <3> QED
      BY <3>1, SweepToType DEF FindChildren
  <2> QED
    BY <2>2 DEF FindChildren, OwnerTypeOK
<1> QED
  BY <1>1, <1>2, <1>3 DEF TypeOK, HandsOK

LEMMA CascadeToType ==
  ASSUME TypeOK, NEW s \in Sweepers, NEW c \in Agents, CascadeTo(s, c)
  PROVE  TypeOK'
<1> USE TypeParts
<1>1. StoreTypeOK' /\ RowsOK'
  BY StoreRevoke DEF CascadeTo
<1>2. WorkTypeOK' /\ HandsOK'
  BY WorkFrame DEF CascadeTo
<1>3. OwnerTypeOK'
  <2>1. sweep[s] \in Sweep
    BY DEF OwnerTypeOK
  <2>2. sweep' \in [Sweepers -> Sweep]
    <3>1. /\ sweep[s].origin \in Operators \cup {None} /\ sweep[s].parent \in Handles
          /\ sweep[s].queue \in SUBSET Agents
          /\ sweep[s].todo \ {c} \in SUBSET Agents
      BY <2>1 DEF Sweep
    <3> QED
      BY <3>1, SweepToType DEF CascadeTo
  <2> QED
    BY <2>2 DEF CascadeTo, OwnerTypeOK
<1> QED
  BY <1>1, <1>2, <1>3 DEF TypeOK, HandsOK

-----------------------------------------------------------------------------
(* Type correctness of every behaviour.                                     *)

LEMMA TokenStepType ==
  ASSUME TypeOK, NEW w \in Workers, TokenStep(w)
  PROVE  TypeOK'
<1>1. CASE Spend(w) \/ DictateTerms(w) \/ TurnAway(w) \/ RejectClaim(w)
  BY <1>1, SpendType, DictateTermsType, TurnAwayType, RejectClaimType
<1>2. ASSUME NEW a \in Agents, NEW i \in {None, Sponsor[a]}, Agree(w, a, i)
      PROVE  TypeOK'
  <2>1. i \in Handles
    BY GrantLoopAssumption DEF Handles
  <2> QED
    BY <1>2, <2>1, AgreeType
<1>3. CASE ReadConnection(w) \/ CheckIntroduction(w) \/ CheckOperator(w) \/ CheckQueue(w)
  BY <1>3, ReadConnectionType, CheckIntroductionType, CheckOperatorType, CheckQueueType
<1>4. CASE CheckSponsor(w) \/ PutIntroduced(w) \/ RecheckSponsor(w) \/ UndoIntroduction(w)
  BY <1>4, CheckSponsorType, PutIntroducedType, RecheckSponsorType, UndoIntroductionType
<1>5. CASE NoteRevocations(w) \/ Pend(w) \/ RefuseRpt(w) \/ Close(w)
  BY <1>5, NoteRevocationsType, PendType, RefuseRptType, CloseType
<1>6. ASSUME NEW j \in Jtis, IssueRpt(w, j)
      PROVE  TypeOK'
  BY <1>6, IssueRptType
<1>7. CASE PollOperator(w) \/ PollConnection(w) \/ ReadPrior(w)
  BY <1>7, PollOperatorType, PollConnectionType, ReadPriorType
<1>8. CASE AdmitConnection(w) \/ NoteApproval(w)
  BY <1>8, AdmitConnectionType, NoteApprovalType
<1> QED
  BY <1>1, <1>2, <1>3, <1>4, <1>5, <1>6, <1>7, <1>8 DEF TokenStep

LEMMA NextType ==
  ASSUME TypeOK, [Next]_vars
  PROVE  TypeOK'
<1>1. ASSUME NEW f \in Families, NEW tier \in Tiers, Perm(f, tier) PROVE TypeOK'
  BY <1>1, PermType
<1>2. ASSUME NEW f \in Families, Expire(f) PROVE TypeOK'
  BY <1>2, ExpireType
<1>3. ASSUME NEW w \in Workers, NEW t \in tickets, Present(w, t) PROVE TypeOK'
  BY <1>3, PresentType
<1>4. ASSUME NEW w \in Workers, TokenStep(w) \/ Crash(w) PROVE TypeOK'
  BY <1>4, TokenStepType, CrashType
<1>5. ASSUME NEW f \in Families, NEW d \in Decisions, NEW by \in Deciders, Decide(f, d, by)
      PROVE  TypeOK'
  BY <1>5, DecideType
<1>6. ASSUME NEW s \in Sweepers, NEW h \in Agents, Revoke(s, h) PROVE TypeOK'
  BY <1>6, RevokeType
<1>7. ASSUME NEW s \in Sweepers, NEW o \in Operators, BlockOperator(s, o) PROVE TypeOK'
  BY <1>7, BlockOperatorType
<1>8. ASSUME NEW o \in Operators, UnblockOperator(o) PROVE TypeOK'
  BY <1>8, UnblockOperatorType
<1>9. ASSUME NEW s \in Sweepers, SweepStep(s) \/ CrashSweep(s) PROVE TypeOK'
  BY <1>9, FindConnectionsType, FindChildrenType, SweepConnectionType, CascadeToType,
     CrashSweepType DEF SweepStep
<1>10. CASE UNCHANGED vars
  <2>1. UNCHANGED storeVars /\ UNCHANGED workVars /\ UNCHANGED <<ownerVars, crashes>>
    BY <1>10 DEF vars
  <2> QED
    BY <2>1, TypeParts, StoreFrame, WorkFrame, OwnerFrame DEF TypeOK, HandsOK
<1> QED
  BY <1>1, <1>2, <1>3, <1>4, <1>5, <1>6, <1>7, <1>8, <1>9, <1>10 DEF Next

(* The state of the store, of every request in flight and of every sweep is *)
(* well formed in every reachable state; in particular no request looks up  *)
(* the connection, the tier or the row of something it does not have.       *)
THEOREM TypeCorrect == Spec => []TypeOK
<1>1. Init => TypeOK
  BY InitType
<1>2. TypeOK /\ [Next]_vars => TypeOK'
  BY NextType
<1> QED
  BY <1>1, <1>2, PTL DEF Spec

-----------------------------------------------------------------------------
(* One grant per negotiation.  The inductive invariant is that a negotiation *)
(* is in one pair of hands (OneHandAtATime): a grant is issued by the only  *)
(* request that holds it, when no ticket of it is left.                     *)

HandInv == TypeOK /\ OneHandAtATime /\ OneGrantPerNegotiation

(* The grants on record are those there were: a row may be spent, no more.  *)
SameGrants ==
  \A j \in Jtis : /\ rpts'[j].status = "none" <=> rpts[j].status = "none"
                  /\ rpts'[j].family = rpts[j].family

LEMMA SameGrantsHold ==
  ASSUME SameGrants, OneGrantPerNegotiation
  PROVE  /\ OneGrantPerNegotiation'
         /\ \A f \in Families : Granted(f)' <=> Granted(f)
  BY DEF SameGrants, OneGrantPerNegotiation, Granted, Recorded

(* A step that touches no ticket keeps the hands apart, provided whoever    *)
(* moves was already past its ticket and not closing, or is done.           *)
Onward(v) ==
  \/ pc'[v] = pc[v] /\ ticket'[v] = ticket[v]
  \/ /\ pc[v] \notin {"idle", "spend", "close"} /\ pc'[v] # "idle"
     /\ ticket'[v] = ticket[v]
  \/ pc'[v] = "idle"

LEMMA OnwardHolds ==
  ASSUME HandInv, tickets' = tickets, minted' = minted, SameGrants,
         \A v \in Workers : Onward(v)
  PROVE  OneHandAtATime' /\ OneGrantPerNegotiation'
<1>1. OneGrantPerNegotiation' /\ \A f \in Families : Granted(f)' <=> Granted(f)
  BY SameGrantsHold DEF HandInv
<1>2. \A v \in Workers : \A f \in Families : Holding(v, f)' => Holding(v, f)
  BY DEF Onward, Holding, Family
<1>3. \A f \in Families : LiveTicket(f)' <=> LiveTicket(f)
  BY DEF LiveTicket
<1>4. OneTicket'
  BY DEF HandInv, OneHandAtATime, OneTicket
<1>5. OneHolder'
  BY <1>2 DEF HandInv, OneHandAtATime, OneHolder
<1>6. TicketOrHolder'
  BY <1>2, <1>3 DEF HandInv, OneHandAtATime, TicketOrHolder
<1>7. GrantIsLast'
  <2> SUFFICES ASSUME NEW f \in Families, Granted(f)',
                      NEW w \in Workers, Holding(w, f)'
               PROVE  pc'[w] = "close"
    BY <1>1, <1>3 DEF HandInv, OneHandAtATime, GrantIsLast
  <2>1. Holding(w, f) /\ pc[w] = "close"
    BY <1>1, <1>2 DEF HandInv, OneHandAtATime, GrantIsLast
  <2> QED
    BY <2>1 DEF Onward, Holding
<1>8. TicketsAreOld'
  BY <1>1 DEF HandInv, OneHandAtATime, TicketsAreOld, Onward, Family
<1> QED
  BY <1>1, <1>4, <1>5, <1>6, <1>7, <1>8 DEF OneHandAtATime

(* So does a step that only takes tickets away.                             *)
LEMMA FewerTickets ==
  ASSUME HandInv, tickets' \subseteq tickets, minted' = minted, rpts' = rpts,
         \A v \in Workers : \/ pc'[v] = pc[v] /\ ticket'[v] = ticket[v]
                            \/ pc'[v] = "idle"
                            \/ pc'[v] = "spend" /\ ticket'[v] \in tickets
  PROVE  OneHandAtATime' /\ OneGrantPerNegotiation'
<1>1. OneGrantPerNegotiation' /\ \A f \in Families : Granted(f)' <=> Granted(f)
  BY DEF HandInv, OneGrantPerNegotiation, Granted, Recorded
<1>2. \A v \in Workers : \A f \in Families :
        Holding(v, f)' => Holding(v, f) /\ pc'[v] = pc[v]
  BY DEF Holding, Family
<1>3. \A f \in Families : LiveTicket(f)' => LiveTicket(f)
  BY DEF LiveTicket
<1>4. OneTicket'
  BY DEF HandInv, OneHandAtATime, OneTicket
<1>5. OneHolder'
  BY <1>2 DEF HandInv, OneHandAtATime, OneHolder
<1>6. TicketOrHolder'
  BY <1>2, <1>3 DEF HandInv, OneHandAtATime, TicketOrHolder
<1>7. GrantIsLast'
  BY <1>1, <1>2, <1>3 DEF HandInv, OneHandAtATime, GrantIsLast
<1>8. TicketsAreOld'
  BY <1>1 DEF HandInv, OneHandAtATime, TicketsAreOld, Family
<1> QED
  BY <1>1, <1>4, <1>5, <1>6, <1>7, <1>8 DEF OneHandAtATime

(* A fresh ticket for a negotiation that nobody holds afterwards, that has  *)
(* no other, and that has not ended in a grant.                             *)
LEMMA FreshTicket ==
  ASSUME HandInv, NEW f \in Families, NEW n, MintTicket(f, n), rpts' = rpts,
         ~LiveTicket(f), ~Granted(f),
         \A v \in Workers : \/ pc'[v] = pc[v] /\ ticket'[v] = ticket[v]
                            \/ pc'[v] = "idle",
         \A v \in Workers : ~Holding(v, f)'
  PROVE  OneHandAtATime' /\ OneGrantPerNegotiation'
<1>1. OneGrantPerNegotiation' /\ \A g \in Families : Granted(g)' <=> Granted(g)
  BY DEF HandInv, OneGrantPerNegotiation, Granted, Recorded
<1>2. \A v \in Workers : \A g \in Families :
        Holding(v, g)' => Holding(v, g) /\ pc'[v] = pc[v]
  BY DEF Holding, Family
<1>3. /\ minted \in [Families -> Nat] /\ minted' = [minted EXCEPT ![f] = minted[f] + 1]
      /\ tickets' = tickets \cup {<<f, minted[f] + 1>>} /\ tickets \subseteq Tickets
      /\ minted' \in [Families -> Nat]
  BY DEF HandInv, TypeOK, StoreTypeOK, MintTicket
<1>4. \A g \in Families : g # f => (LiveTicket(g)' <=> LiveTicket(g))
  BY <1>3 DEF LiveTicket, FamilyOf
<1>5. OneTicket'
  <2> SUFFICES ASSUME NEW t \in tickets', NEW u \in tickets', t[1] = u[1]
               PROVE  t = u
    BY DEF OneTicket, FamilyOf
  <2>1. \A x \in tickets : x[1] # f
    BY DEF LiveTicket, FamilyOf
  <2>2. CASE t \in tickets /\ u \in tickets
    BY <2>2 DEF HandInv, OneHandAtATime, OneTicket, FamilyOf
  <2> QED
    BY <1>3, <2>1, <2>2
<1>6. OneHolder'
  BY <1>2 DEF HandInv, OneHandAtATime, OneHolder
<1>7. TicketOrHolder'
  BY <1>2, <1>4 DEF HandInv, OneHandAtATime, TicketOrHolder
<1>8. GrantIsLast'
  BY <1>1, <1>2, <1>4 DEF HandInv, OneHandAtATime, GrantIsLast
<1>9. TicketsAreOld'
  <2>1. \A g \in Families : minted'[g] >= minted[g]
    BY <1>3
  <2>2. \A t \in tickets' : t[2] \in 1..minted'[FamilyOf(t)]
    <3> SUFFICES ASSUME NEW t \in tickets' PROVE t[2] \in 1..minted'[t[1]]
      BY DEF FamilyOf
    <3>1. CASE t = <<f, minted[f] + 1>>
      BY <1>3, <3>1
    <3>2. CASE t \in tickets
      <4>1. t[1] \in Families /\ t[2] \in 1..minted[t[1]]
        BY <1>3, <3>2 DEF HandInv, OneHandAtATime, TicketsAreOld, FamilyOf, Tickets
      <4> QED
        BY <1>3, <2>1, <4>1
    <3> QED
      BY <1>3, <3>1, <3>2
  <2>3. ASSUME NEW v \in Workers, pc'[v] # "idle"
        PROVE  ticket'[v][2] \in 1..minted'[Family(v)']
    <3>1. pc[v] # "idle" /\ ticket'[v] = ticket[v]
      BY <2>3
    <3>2. Family(v) \in Families /\ ticket[v][2] \in 1..minted[Family(v)]
      BY <3>1, FamilyInHand, TypeParts DEF HandInv, OneHandAtATime, TicketsAreOld
    <3>3. Family(v)' = Family(v)
      BY <3>1 DEF Family
    <3> QED
      BY <1>3, <2>1, <3>1, <3>2, <3>3
  <2>4. \A g \in Families : Granted(g)' => minted'[g] > 0
    BY <1>1, <1>3, <2>1 DEF HandInv, OneHandAtATime, TicketsAreOld
  <2> QED
    BY <2>2, <2>3, <2>4 DEF TicketsAreOld
<1> QED
  BY <1>1, <1>5, <1>6, <1>7, <1>8, <1>9 DEF OneHandAtATime

(* The holder of a negotiation hands it back under a fresh ticket.          *)
LEMMA HandBack ==
  ASSUME HandInv, NEW w \in Workers, NEW n, pc[w] \notin {"idle", "spend", "close"},
         MintTicket(Family(w), n), Respond(w), rpts' = rpts
  PROVE  OneHandAtATime' /\ OneGrantPerNegotiation'
<1>1. Family(w) \in Families /\ Holding(w, Family(w))
  BY TypeParts, FamilyInHand DEF HandInv, Holding
<1>2. ~LiveTicket(Family(w)) /\ ~Granted(Family(w))
  BY <1>1 DEF HandInv, OneHandAtATime, TicketOrHolder, GrantIsLast
<1>3. \A v \in Workers : \/ pc'[v] = pc[v] /\ ticket'[v] = ticket[v]
                         \/ pc'[v] = "idle"
  BY DEF Respond, HandInv, TypeOK, WorkTypeOK
<1>5. ASSUME NEW v \in Workers PROVE ~(pc'[v] \notin {"idle", "spend"} /\ Family(v)' = Family(w))
  <2>1. CASE v = w
    BY <2>1 DEF Respond, HandInv, TypeOK, WorkTypeOK
  <2>2. CASE v # w
    <3>1. pc'[v] = pc[v] /\ ticket'[v] = ticket[v]
      BY <2>2 DEF Respond, HandInv, TypeOK, WorkTypeOK
    <3> QED
      BY <1>1, <2>2, <3>1 DEF HandInv, OneHandAtATime, OneHolder, Holding, Family
  <2> QED
    BY <2>1, <2>2
<1> QED
  BY <1>1, <1>2, <1>3, <1>5, FreshTicket DEF Holding

LEMMA PermHand ==
  ASSUME HandInv, NEW f \in Families, NEW tier \in Tiers, Perm(f, tier)
  PROVE  OneHandAtATime' /\ OneGrantPerNegotiation'
<1> DEFINE n == [NoNegotiation EXCEPT !.state = "issued", !.tier = tier]
<1>1. /\ MintTicket(f, n) /\ rpts' = rpts /\ pc' = pc /\ ticket' = ticket
      /\ minted[f] = 0
  BY DEF Perm, workVars
<1> HIDE DEF n
<1>2. ~LiveTicket(f)
  BY <1>1 DEF LiveTicket, HandInv, OneHandAtATime, TicketsAreOld
<1>3. \A v \in Workers : ~Holding(v, f)
  BY <1>1 DEF Holding, HandInv, OneHandAtATime, TicketsAreOld
<1>4. ~Granted(f)
  BY <1>1 DEF HandInv, OneHandAtATime, TicketsAreOld
<1>5. \A v \in Workers : ~(pc'[v] \notin {"idle", "spend"} /\ Family(v)' = f)
  BY <1>1, <1>3 DEF Holding, Family
<1> QED
  BY <1>1, <1>2, <1>4, <1>5, FreshTicket DEF Holding

(* Whoever spends a ticket is alone with the negotiation: the ticket was    *)
(* its only one, so nobody held it, and it had not ended.                   *)
LEMMA SpendHand ==
  ASSUME HandInv, NEW w \in Workers, Spend(w)
  PROVE  OneHandAtATime' /\ OneGrantPerNegotiation'
<1> USE TypeParts DEF HandInv
<1>1. /\ pc[w] = "spend" /\ ConsumeTicket(ticket[w]) /\ rpts' = rpts
      /\ tickets' = tickets \ {ticket[w]} /\ minted' = minted
  BY DEF Spend, ConsumeTicket
<1>2. Family(w) \in Families
  BY <1>1, FamilyInHand
<1>3. CASE ticket[w] \in tickets /\ ~negotiations[Family(w)].expired
  <2>1. ticket' = ticket /\ pc' = [pc EXCEPT ![w] = Disposition(negotiations[Family(w)])]
    BY <1>3 DEF Spend, Goto
  <2>2. \A v \in Workers : v # w => pc'[v] = pc[v]
    BY <2>1 DEF WorkTypeOK
  <2>3. LiveTicket(Family(w))
    BY <1>3 DEF LiveTicket, Family
  <2>4. ~Granted(Family(w)) /\ \A v \in Workers : ~Holding(v, Family(w))
    BY <1>2, <2>3 DEF OneHandAtATime, GrantIsLast, TicketOrHolder
  <2>5. OneGrantPerNegotiation' /\ \A f \in Families : Granted(f)' <=> Granted(f)
    BY <1>1 DEF OneGrantPerNegotiation, Granted, Recorded
  <2>6. \A v \in Workers : \A f \in Families :
          (pc'[v] \notin {"idle", "spend"} /\ Family(v)' = f)
            => IF v = w THEN f = Family(w) ELSE Holding(v, f) /\ f # Family(w)
    <3>1. \A v \in Workers : Family(v)' = Family(v)
      BY <2>1 DEF Family
    <3>2. \A v \in Workers : \A f \in Families :
            v # w /\ pc'[v] \notin {"idle", "spend"} /\ Family(v)' = f => Holding(v, f)
      BY <2>2, <3>1 DEF Holding
    <3> QED
      BY <2>4, <3>1, <3>2
  <2>7. \A f \in Families : LiveTicket(f)' => LiveTicket(f) /\ f # Family(w)
    BY <1>1, <1>3 DEF LiveTicket, OneHandAtATime, OneTicket, Family
  <2>8. OneTicket'
    BY <1>1 DEF OneHandAtATime, OneTicket
  <2>9. OneHolder'
    BY <2>6 DEF OneHandAtATime, OneHolder, Holding
  <2>10. TicketOrHolder'
    BY <2>6, <2>7 DEF OneHandAtATime, TicketOrHolder, Holding
  <2>11. GrantIsLast'
    BY <2>2, <2>4, <2>5, <2>6, <2>7 DEF OneHandAtATime, GrantIsLast, Holding
  <2>12. TicketsAreOld'
    <3>1. \A v \in Workers : Family(v)' = Family(v) /\ (pc'[v] # "idle" => pc[v] # "idle")
      BY <1>1, <2>1, <2>2 DEF Family
    <3> QED
      BY <1>1, <2>1, <2>5, <3>1 DEF OneHandAtATime, TicketsAreOld
  <2> QED
    BY <2>5, <2>8, <2>9, <2>10, <2>11, <2>12 DEF OneHandAtATime
<1>4. CASE ~(ticket[w] \in tickets /\ ~negotiations[Family(w)].expired)
  <2>1. \A v \in Workers : \/ pc'[v] = pc[v] /\ ticket'[v] = ticket[v]
                           \/ pc'[v] = "idle"
    BY <1>4 DEF Spend, Respond, WorkTypeOK
  <2>2. tickets' \subseteq tickets
    BY <1>1
  <2>3. HandInv
    OBVIOUS
  <2> HIDE DEF HandInv
  <2> QED
    BY <1>1, <2>1, <2>2, <2>3, FewerTickets
<1> QED
  BY <1>3, <1>4

(* The grant of a negotiation is issued by its only holder, which is not    *)
(* the one that closes a negotiation already granted.                       *)
LEMMA IssueHand ==
  ASSUME HandInv, NEW w \in Workers, NEW j \in Jtis, IssueRpt(w, j)
  PROVE  OneHandAtATime' /\ OneGrantPerNegotiation'
<1> USE TypeParts DEF HandInv
<1>1. /\ pc[w] = "grant" /\ pc' = [pc EXCEPT ![w] = "close"] /\ ticket' = ticket
      /\ tickets' = tickets /\ minted' = minted
      /\ RecordRpt(j, Family(w), rec[w].handle, rec[w].tier, conn[w].revocations)
  BY DEF IssueRpt, Goto, negVars
<1>2. /\ Family(w) \in Families /\ Holding(w, Family(w))
  BY <1>1, FamilyInHand DEF Holding
<1>3. ~Granted(Family(w)) /\ ~LiveTicket(Family(w))
  BY <1>1, <1>2 DEF OneHandAtATime, GrantIsLast, TicketOrHolder
<1>4. /\ rpts[j].status = "none"
      /\ rpts'[j].status = "live" /\ rpts'[j].family = Family(w)
      /\ \A i \in Jtis : i # j => rpts'[i] = rpts[i]
  BY <1>1 DEF RecordRpt, StoreTypeOK
<1>5. OneGrantPerNegotiation'
  BY <1>3, <1>4 DEF OneGrantPerNegotiation, Granted, Recorded
<1>6. \A f \in Families : Granted(f)' <=> Granted(f) \/ f = Family(w)
  BY <1>4 DEF Granted, Recorded
<1>7. \A v \in Workers : /\ pc'[v] = IF v = w THEN "close" ELSE pc[v]
                         /\ Family(v)' = Family(v)
  BY <1>1 DEF WorkTypeOK, Family
<1>8. \A v \in Workers : \A f \in Families :
        (pc'[v] \notin {"idle", "spend"} /\ Family(v)' = f) <=> Holding(v, f)
  BY <1>1, <1>7 DEF Holding
<1>9. \A f \in Families : LiveTicket(f)' <=> LiveTicket(f)
  BY <1>1 DEF LiveTicket
<1>10. OneTicket'
  BY <1>1 DEF OneHandAtATime, OneTicket
<1>11. OneHolder'
  BY <1>8 DEF OneHandAtATime, OneHolder, Holding
<1>12. TicketOrHolder'
  BY <1>8, <1>9 DEF OneHandAtATime, TicketOrHolder, Holding
<1>13. GrantIsLast'
  <2> SUFFICES ASSUME NEW f \in Families, Granted(f)'
               PROVE  /\ ~LiveTicket(f)
                      /\ \A v \in Workers : Holding(v, f) => pc'[v] = "close"
    BY <1>8, <1>9 DEF GrantIsLast, Holding
  <2>1. CASE f = Family(w)
    BY <1>2, <1>3, <1>7, <2>1 DEF OneHandAtATime, OneHolder
  <2>2. CASE f # Family(w)
    BY <1>6, <1>7, <2>2 DEF OneHandAtATime, GrantIsLast
  <2> QED
    BY <2>1, <2>2
<1>14. TicketsAreOld'
  <2>1. minted[Family(w)] > 0
    <3>1. ticket[w][2] \in 1..minted[Family(w)] /\ minted[Family(w)] \in Nat
      BY <1>1, <1>2 DEF OneHandAtATime, TicketsAreOld, StoreTypeOK
    <3> QED
      BY <3>1
  <2>2. \A v \in Workers : pc'[v] # "idle" => pc[v] # "idle"
    BY <1>1, <1>7
  <2> QED
    BY <1>1, <1>6, <1>7, <2>1, <2>2 DEF OneHandAtATime, TicketsAreOld
<1> QED
  BY <1>5, <1>10, <1>11, <1>12, <1>13, <1>14 DEF OneHandAtATime

(* The two ways a request goes on without touching a ticket.                *)
LEMMA GotoHand ==
  ASSUME HandInv, NEW w \in Workers, pc[w] \notin {"idle", "spend", "close"},
         \E l \in Labels \ {"idle"} : Goto(w, l),
         UNCHANGED <<ticket, tickets, minted>>, SameGrants
  PROVE  OneHandAtATime' /\ OneGrantPerNegotiation'
<1>1. \A v \in Workers : Onward(v)
  BY DEF Onward, Goto, HandInv, TypeOK, WorkTypeOK
<1> QED
  BY <1>1, OnwardHolds

LEMMA RespondHand ==
  ASSUME HandInv, NEW w \in Workers, Respond(w), UNCHANGED <<tickets, minted, rpts>>
  PROVE  OneHandAtATime' /\ OneGrantPerNegotiation'
<1>1. \A v \in Workers : Onward(v)
  BY DEF Onward, Respond, HandInv, TypeOK, WorkTypeOK
<1>2. SameGrants
  BY DEF SameGrants
<1> QED
  BY <1>1, <1>2, OnwardHolds

(* A step of somebody else: the owner, or a sweep.                          *)
LEMMA BystanderHand ==
  ASSUME HandInv, UNCHANGED <<pc, ticket, tickets, minted>>, SameGrants
  PROVE  OneHandAtATime' /\ OneGrantPerNegotiation'
<1>1. \A v \in Workers : Onward(v)
  BY DEF Onward
<1> QED
  BY <1>1, OnwardHolds

LEMMA RevokeGrants ==
  ASSUME NEW h \in Agents, RevokeConnection(h)
  PROVE  SameGrants
  BY DEF RevokeConnection, SameGrants

LEMMA SameRpts ==
  ASSUME rpts' = rpts
  PROVE  SameGrants
  BY DEF SameGrants

LEMMA TokenStepHand ==
  ASSUME HandInv, NEW w \in Workers, TokenStep(w)
  PROVE  OneHandAtATime' /\ OneGrantPerNegotiation'
<1> DEFINE Goal == (OneHandAtATime /\ OneGrantPerNegotiation)'
<1>1. CASE Spend(w)
  BY <1>1, SpendHand
<1>2. ASSUME NEW j \in Jtis, IssueRpt(w, j) PROVE Goal
  BY <1>2, IssueHand
<1>3. CASE DictateTerms(w)
  BY <1>3, HandBack DEF DictateTerms
<1>4. CASE Pend(w)
  BY <1>4, HandBack DEF Pend
<1>5. CASE RejectClaim(w)
  BY <1>5, RespondHand DEF RejectClaim, storeVars
<1>6. CASE RefuseRpt(w)
  BY <1>6, RespondHand DEF RefuseRpt, storeVars
<1>7. CASE Close(w)
  <2>1. /\ tickets' \subseteq tickets /\ minted' = minted /\ rpts' = rpts
        /\ \A v \in Workers : \/ pc'[v] = pc[v] /\ ticket'[v] = ticket[v]
                              \/ pc'[v] = "idle"
    BY <1>7 DEF Close, CloseNegotiation, Respond, HandInv, TypeOK, WorkTypeOK
  <2> QED
    BY <2>1, FewerTickets
<1>8. CASE TurnAway(w)
  <2>1. /\ pc[w] \notin {"idle", "spend", "close"}
        /\ \E l \in Labels \ {"idle"} : Goto(w, l)
        /\ UNCHANGED <<ticket, tickets, minted>>
    BY <1>8 DEF TurnAway, Labels, PollLabels, AskLabels, storeVars, negVars
  <2>2. SameGrants
    BY <1>8, SameRpts DEF TurnAway, storeVars
  <2> QED
    BY <2>1, <2>2, GotoHand
<1>9. ASSUME NEW a \in Agents, NEW i \in {None, Sponsor[a]}, Agree(w, a, i) PROVE Goal
  <2>1. /\ pc[w] \notin {"idle", "spend", "close"}
        /\ \E l \in Labels \ {"idle"} : Goto(w, l)
        /\ UNCHANGED <<ticket, tickets, minted>>
    BY <1>9 DEF Agree, Labels, PollLabels, AskLabels, storeVars, negVars
  <2>2. SameGrants
    BY <1>9, SameRpts DEF Agree, storeVars
  <2> QED
    BY <2>1, <2>2, GotoHand
<1>10. CASE ReadConnection(w)
  <2>1. /\ pc[w] \notin {"idle", "spend", "close"}
        /\ \E l \in Labels \ {"idle"} : Goto(w, l)
        /\ UNCHANGED <<ticket, tickets, minted>>
    BY <1>10 DEF ReadConnection, Labels, PollLabels, AskLabels, storeVars, negVars
  <2>2. SameGrants
    BY <1>10, SameRpts DEF ReadConnection, storeVars
  <2> QED
    BY <2>1, <2>2, GotoHand
<1>11. CASE CheckIntroduction(w)
  <2>1. /\ pc[w] \notin {"idle", "spend", "close"}
        /\ \E l \in Labels \ {"idle"} : Goto(w, l)
        /\ UNCHANGED <<ticket, tickets, minted>>
    BY <1>11 DEF CheckIntroduction, Labels, PollLabels, AskLabels, storeVars, negVars
  <2>2. SameGrants
    BY <1>11, SameRpts DEF CheckIntroduction, storeVars
  <2> QED
    BY <2>1, <2>2, GotoHand
<1>12. CASE CheckOperator(w)
  <2>1. /\ pc[w] \notin {"idle", "spend", "close"}
        /\ \E l \in Labels \ {"idle"} : Goto(w, l)
        /\ UNCHANGED <<ticket, tickets, minted>>
    BY <1>12 DEF CheckOperator, Labels, PollLabels, AskLabels, storeVars, negVars, AfterGates
  <2>2. SameGrants
    BY <1>12, SameRpts DEF CheckOperator, storeVars
  <2> QED
    BY <2>1, <2>2, GotoHand
<1>13. CASE CheckQueue(w)
  <2>1. /\ pc[w] \notin {"idle", "spend", "close"}
        /\ \E l \in Labels \ {"idle"} : Goto(w, l)
        /\ UNCHANGED <<ticket, tickets, minted>>
    BY <1>13 DEF CheckQueue, Labels, PollLabels, AskLabels, storeVars, negVars, AfterGates
  <2>2. SameGrants
    BY <1>13, SameRpts DEF CheckQueue, storeVars
  <2> QED
    BY <2>1, <2>2, GotoHand
<1>14. CASE CheckSponsor(w)
  <2>1. /\ pc[w] \notin {"idle", "spend", "close"}
        /\ \E l \in Labels \ {"idle"} : Goto(w, l)
        /\ UNCHANGED <<ticket, tickets, minted>>
    BY <1>14 DEF CheckSponsor, Labels, PollLabels, AskLabels, storeVars, negVars
  <2>2. SameGrants
    BY <1>14, SameRpts DEF CheckSponsor, storeVars
  <2> QED
    BY <2>1, <2>2, GotoHand
<1>15. CASE PutIntroduced(w)
  <2>1. /\ pc[w] \notin {"idle", "spend", "close"}
        /\ \E l \in Labels \ {"idle"} : Goto(w, l)
        /\ UNCHANGED <<ticket, tickets, minted>>
    BY <1>15 DEF PutIntroduced, Labels, PollLabels, AskLabels, storeVars, negVars
  <2>2. SameGrants
    BY <1>15, SameRpts DEF PutIntroduced, storeVars
  <2> QED
    BY <2>1, <2>2, GotoHand
<1>16. CASE RecheckSponsor(w)
  <2>1. /\ pc[w] \notin {"idle", "spend", "close"}
        /\ \E l \in Labels \ {"idle"} : Goto(w, l)
        /\ UNCHANGED <<ticket, tickets, minted>>
    BY <1>16 DEF RecheckSponsor, Labels, PollLabels, AskLabels, storeVars, negVars, AfterGates
  <2>2. SameGrants
    BY <1>16, SameRpts DEF RecheckSponsor, storeVars
  <2> QED
    BY <2>1, <2>2, GotoHand
<1>17. CASE UndoIntroduction(w)
  <2>1. /\ pc[w] \notin {"idle", "spend", "close"}
        /\ \E l \in Labels \ {"idle"} : Goto(w, l)
        /\ UNCHANGED <<ticket, tickets, minted>>
    BY <1>17 DEF UndoIntroduction, Labels, PollLabels, AskLabels, storeVars, negVars
  <2>2. SameGrants
    <3>1. rec[w].handle \in Agents
      BY <1>17 DEF UndoIntroduction, HandInv, TypeOK, InHand
    <3> QED
      BY <1>17, <3>1, RevokeGrants DEF UndoIntroduction
  <2> QED
    BY <2>1, <2>2, GotoHand
<1>18. CASE NoteRevocations(w)
  <2>1. /\ pc[w] \notin {"idle", "spend", "close"}
        /\ \E l \in Labels \ {"idle"} : Goto(w, l)
        /\ UNCHANGED <<ticket, tickets, minted>>
    BY <1>18 DEF NoteRevocations, Labels, PollLabels, AskLabels, storeVars, negVars
  <2>2. SameGrants
    BY <1>18, SameRpts DEF NoteRevocations, storeVars
  <2> QED
    BY <2>1, <2>2, GotoHand
<1>19. CASE PollOperator(w)
  <2>1. /\ pc[w] \notin {"idle", "spend", "close"}
        /\ \E l \in Labels \ {"idle"} : Goto(w, l)
        /\ UNCHANGED <<ticket, tickets, minted>>
    BY <1>19 DEF PollOperator, Labels, PollLabels, AskLabels, storeVars, negVars
  <2>2. SameGrants
    BY <1>19, SameRpts DEF PollOperator, storeVars
  <2> QED
    BY <2>1, <2>2, GotoHand
<1>20. CASE PollConnection(w)
  <2>1. /\ pc[w] \notin {"idle", "spend", "close"}
        /\ \E l \in Labels \ {"idle"} : Goto(w, l)
        /\ UNCHANGED <<ticket, tickets, minted>>
    BY <1>20 DEF PollConnection, Labels, PollLabels, AskLabels, storeVars, negVars
  <2>2. SameGrants
    BY <1>20, SameRpts DEF PollConnection, storeVars
  <2> QED
    BY <2>1, <2>2, GotoHand
<1>21. CASE ReadPrior(w)
  <2>1. /\ pc[w] \notin {"idle", "spend", "close"}
        /\ \E l \in Labels \ {"idle"} : Goto(w, l)
        /\ UNCHANGED <<ticket, tickets, minted>>
    BY <1>21 DEF ReadPrior, Labels, PollLabels, AskLabels, storeVars, negVars
  <2>2. SameGrants
    BY <1>21, SameRpts DEF ReadPrior, storeVars
  <2> QED
    BY <2>1, <2>2, GotoHand
<1>22. CASE AdmitConnection(w)
  <2>1. /\ pc[w] \notin {"idle", "spend", "close"}
        /\ \E l \in Labels \ {"idle"} : Goto(w, l)
        /\ UNCHANGED <<ticket, tickets, minted>>
    BY <1>22 DEF AdmitConnection, Labels, PollLabels, AskLabels, storeVars, negVars
  <2>2. SameGrants
    BY <1>22, SameRpts DEF AdmitConnection, storeVars
  <2> QED
    BY <2>1, <2>2, GotoHand
<1>23. CASE NoteApproval(w)
  <2>1. /\ pc[w] \notin {"idle", "spend", "close"}
        /\ \E l \in Labels \ {"idle"} : Goto(w, l)
        /\ UNCHANGED <<ticket, tickets, minted>>
    BY <1>23 DEF NoteApproval, Labels, PollLabels, AskLabels, storeVars, negVars
  <2>2. SameGrants
    BY <1>23, SameRpts DEF NoteApproval, storeVars
  <2> QED
    BY <2>1, <2>2, GotoHand
<1> QED
  BY <1>1, <1>2, <1>3, <1>4, <1>5, <1>6, <1>7, <1>8, <1>9, <1>10, <1>11, <1>12,
     <1>13, <1>14, <1>15, <1>16, <1>17, <1>18, <1>19, <1>20, <1>21, <1>22, <1>23 DEF TokenStep

LEMMA SweepStepHand ==
  ASSUME HandInv, NEW s \in Sweepers, SweepStep(s)
  PROVE  OneHandAtATime' /\ OneGrantPerNegotiation'
<1>1. UNCHANGED <<pc, ticket, tickets, minted>>
  BY DEF SweepStep, FindConnections, FindChildren, SweepConnection, CascadeTo,
         storeVars, negVars, workVars
<1>2. SameGrants
  BY SameRpts, RevokeGrants
  DEF SweepStep, FindConnections, FindChildren, SweepConnection, CascadeTo, storeVars
<1> QED
  BY <1>1, <1>2, BystanderHand

LEMMA NextHand ==
  ASSUME HandInv, [Next]_vars
  PROVE  OneHandAtATime' /\ OneGrantPerNegotiation'
<1> DEFINE Goal == (OneHandAtATime /\ OneGrantPerNegotiation)'
<1>1. ASSUME NEW f \in Families, NEW tier \in Tiers, Perm(f, tier) PROVE Goal
  BY <1>1, PermHand
<1>2. ASSUME NEW f \in Families, Expire(f) PROVE Goal
  BY <1>2, BystanderHand, SameRpts DEF Expire, workVars
<1>3. ASSUME NEW w \in Workers, NEW t \in tickets, Present(w, t) PROVE Goal
  <2>1. /\ tickets' \subseteq tickets /\ minted' = minted /\ rpts' = rpts
        /\ \A v \in Workers : \/ pc'[v] = pc[v] /\ ticket'[v] = ticket[v]
                              \/ pc'[v] = "spend" /\ ticket'[v] \in tickets
    BY <1>3 DEF Present, ReapExpired, Goto, HandInv, TypeOK, WorkTypeOK
  <2> QED
    BY <2>1, FewerTickets
<1>4. ASSUME NEW w \in Workers, TokenStep(w) PROVE Goal
  BY <1>4, TokenStepHand
<1>5. ASSUME NEW w \in Workers, Crash(w) PROVE Goal
  BY <1>5, RespondHand DEF Crash, storeVars
<1>6. ASSUME NEW f \in Families, NEW d \in Decisions, NEW by \in Deciders, Decide(f, d, by)
      PROVE  Goal
  BY <1>6, BystanderHand, SameRpts DEF Decide, DecideNegotiation, workVars
<1>7. ASSUME NEW s \in Sweepers, NEW h \in Agents, Revoke(s, h) PROVE Goal
  BY <1>7, BystanderHand, RevokeGrants DEF Revoke, negVars, workVars
<1>8. ASSUME NEW s \in Sweepers, NEW o \in Operators, BlockOperator(s, o) PROVE Goal
  BY <1>8, BystanderHand, SameRpts DEF BlockOperator, negVars, workVars
<1>9. ASSUME NEW o \in Operators, UnblockOperator(o) PROVE Goal
  BY <1>9, BystanderHand, SameRpts DEF UnblockOperator, negVars, workVars
<1>10. ASSUME NEW s \in Sweepers, SweepStep(s) PROVE Goal
  BY <1>10, SweepStepHand
<1>11. ASSUME NEW s \in Sweepers, CrashSweep(s) PROVE Goal
  BY <1>11, BystanderHand, SameRpts DEF CrashSweep, storeVars, negVars, workVars
<1>12. CASE UNCHANGED vars
  BY <1>12, BystanderHand, SameRpts DEF vars, storeVars, negVars, workVars
<1> QED
  BY <1>1, <1>2, <1>3, <1>4, <1>5, <1>6, <1>7, <1>8, <1>9, <1>10, <1>11, <1>12 DEF Next

LEMMA InitHand == Init => OneHandAtATime /\ OneGrantPerNegotiation
<1> SUFFICES ASSUME Init PROVE OneHandAtATime /\ OneGrantPerNegotiation
  OBVIOUS
<1>1. /\ tickets = {}
      /\ \A w \in Workers : pc[w] = "idle"
      /\ \A j \in Jtis : ~Recorded(j)
  BY DEF Init, StoreInit, Recorded, NoRpt
<1> QED
  BY <1>1 DEF OneHandAtATime, OneGrantPerNegotiation, OneTicket, OneHolder,
              TicketOrHolder, GrantIsLast, TicketsAreOld, Granted, Holding

(* A negotiation is in one pair of hands at a time, whatever the number of  *)
(* requests in flight, tickets, replays, revocations and crashes.           *)
THEOREM OneHand == Spec => []OneHandAtATime
<1>1. Init => HandInv
  BY InitType, InitHand DEF HandInv
<1>2. HandInv /\ [Next]_vars => HandInv'
  BY NextType, NextHand DEF HandInv
<1>3. HandInv => OneHandAtATime
  BY DEF HandInv
<1> QED
  BY <1>1, <1>2, <1>3, PTL DEF Spec

(* A negotiation ends in at most one grant.                                 *)
THEOREM OneGrant == Spec => []OneGrantPerNegotiation
<1>1. Init => HandInv
  BY InitType, InitHand DEF HandInv
<1>2. HandInv /\ [Next]_vars => HandInv'
  BY NextType, NextHand DEF HandInv
<1>3. HandInv => OneGrantPerNegotiation
  BY DEF HandInv
<1> QED
  BY <1>1, <1>2, <1>3, PTL DEF Spec

-----------------------------------------------------------------------------
(* The first invariant: where an answer is while its negotiation lasts.     *)

AnswerOf(n) ==
  [decision |-> n.decision, by |-> n.by, handle |-> n.handle, tier |-> n.tier]

(* A decided row is the answer that was given, and an answer that was given *)
(* is on its row until that goes.                                           *)
AnswersOnRows ==
  \A f \in Families :
    /\ negotiations[f].decision # "none" =>
         /\ negotiations[f].state = "awaiting-owner"
         /\ answers[f] = AnswerOf(negotiations[f])
    /\ answers[f].decision # "none" =>
         /\ minted[f] > 0
         /\ negotiations[f].state = "none" \/ negotiations[f].decision # "none"

(* A ticket that can still be spent is not of a request that waits on her.  *)
SpendersDontWait ==
  \A w \in Workers :
    pc[w] = "spend" /\ ticket[w] \in tickets => ~Waiting(negotiations[Family(w)])

(* What a request past its spending knows of the answer: on the way to her  *)
(* there is none, on the way back it is the yes that it carries, and a      *)
(* grant is not of a negotiation that she denied.                           *)
Stage(label, n, answer) ==
  /\ label \in AskLabels => n.decision = "none" /\ answer.decision = "none"
  /\ label \in PollLabels => n.decision = "approved" /\ answer = AnswerOf(n)
  /\ label = "grant" => answer.decision # "denied"

HandsAnswered ==
  \A w \in Workers :
    pc[w] \notin {"idle", "spend"} => Stage(pc[w], rec[w], answers[Family(w)])

AnswerInv ==
  /\ AnswersOnRows /\ SpendersDontWait /\ HandsAnswered
  /\ HandleSurvives /\ DenialIsFinal

-----------------------------------------------------------------------------
(* The first invariant is kept.  Most steps touch neither a negotiation nor *)
(* an answer, and take a request from one stage to another.                 *)

Advances(v) ==
  \/ pc'[v] = pc[v] /\ ticket'[v] = ticket[v] /\ rec'[v] = rec[v]
  \/ pc'[v] = "idle"
  \/ /\ pc[v] \notin {"idle", "spend"} /\ ticket'[v] = ticket[v] /\ pc'[v] # "spend"
     /\ Stage(pc'[v], rec'[v], answers[Family(v)])

LEMMA HandsAdvance ==
  ASSUME HandInv, AnswerInv, answers' = answers, \A v \in Workers : Advances(v)
  PROVE  HandsAnswered'
<1> SUFFICES ASSUME NEW v \in Workers, pc'[v] \notin {"idle", "spend"}
             PROVE  Stage(pc'[v], rec'[v], answers[Family(v)'])
  BY DEF HandsAnswered, Stage
<1>1. Advances(v)
  OBVIOUS
<1>2. ticket'[v] = ticket[v] => Family(v)' = Family(v)
  BY DEF Family
<1>3. pc[v] \notin {"idle", "spend"} => Stage(pc[v], rec[v], answers[Family(v)])
  BY DEF AnswerInv, HandsAnswered
<1> QED
  BY <1>1, <1>2, <1>3 DEF Advances

LEMMA SameGrantsFor ==
  ASSUME SameGrants
  PROVE  \A f \in Families : Granted(f)' <=> Granted(f)
  BY DEF SameGrants, Granted, Recorded

LEMMA AnswersAdvance ==
  ASSUME HandInv, AnswerInv, UNCHANGED <<negotiations, tickets, minted, answers>>, SameGrants,
         \A v \in Workers : Advances(v)
  PROVE  AnswerInv'
<1>1. AnswersOnRows' /\ HandleSurvives'
  BY DEF AnswerInv, AnswersOnRows, HandleSurvives, Pending, Waiting, LiveTicket, AnswerOf
<1>2. SpendersDontWait'
  <2> SUFFICES ASSUME NEW v \in Workers, pc'[v] = "spend", ticket'[v] \in tickets
               PROVE  ~Waiting(negotiations[Family(v)'])
    BY DEF SpendersDontWait, Waiting
  <2>1. pc[v] = "spend" /\ ticket'[v] = ticket[v]
    BY DEF Advances
  <2> QED
    BY <2>1 DEF AnswerInv, SpendersDontWait, Family
<1>3. HandsAnswered'
  BY HandsAdvance
<1>4. DenialIsFinal'
  BY SameGrantsFor DEF AnswerInv, DenialIsFinal
<1> QED
  BY <1>1, <1>2, <1>3, <1>4 DEF AnswerInv

LEMMA GotoAnswers ==
  ASSUME HandInv, AnswerInv, NEW w \in Workers, NEW l, pc[w] \notin {"idle", "spend"},
         Goto(w, l), l # "spend", UNCHANGED <<negotiations, tickets, minted, ticket, answers>>,
         SameGrants, \A v \in Workers \ {w} : rec'[v] = rec[v],
         Stage(l, rec'[w], answers[Family(w)])
  PROVE  AnswerInv'
<1>1. \A v \in Workers : pc'[v] = IF v = w THEN l ELSE pc[v]
  BY DEF Goto, HandInv, TypeOK, WorkTypeOK
<1>2. \A v \in Workers : Advances(v)
  BY <1>1 DEF Advances
<1> QED
  BY <1>2, AnswersAdvance

LEMMA RespondAnswers ==
  ASSUME HandInv, AnswerInv, NEW w \in Workers, Respond(w),
         UNCHANGED <<negotiations, tickets, minted, answers>>, SameGrants
  PROVE  AnswerInv'
<1>1. \A v \in Workers : Advances(v)
  BY DEF Advances, Respond, HandInv, TypeOK, WorkTypeOK
<1> QED
  BY <1>1, AnswersAdvance

LEMMA BystanderAnswers ==
  ASSUME HandInv, AnswerInv, UNCHANGED <<negotiations, tickets, minted, answers, pc, ticket, rec>>,
         SameGrants
  PROVE  AnswerInv'
<1>1. \A v \in Workers : Advances(v)
  BY DEF Advances
<1> QED
  BY <1>1, AnswersAdvance

(* A row that waits on her, or has been answered, is nobody's to hand back. *)
LEMMA NobodyHolds ==
  ASSUME HandInv, AnswerInv, NEW f \in Families, Waiting(negotiations[f])
  PROVE  /\ LiveTicket(f) /\ ~Granted(f)
         /\ \A w \in Workers : ~Holding(w, f)
<1>1. LiveTicket(f)
  BY DEF AnswerInv, HandleSurvives, Pending
<1> QED
  BY <1>1 DEF HandInv, OneHandAtATime, TicketOrHolder, GrantIsLast

(* The request that holds a negotiation, its ticket spent and no answer     *)
(* given, writes it back under a fresh ticket.                              *)
LEMMA MintAnswers ==
  ASSUME HandInv, AnswerInv, NEW f \in Families, NEW n \in Negotiation,
         MintTicket(f, n), n.decision = "none", n.state # "none",
         answers[f].decision = "none", answers' = answers, SameGrants,
         ~LiveTicket(f),
         \A v \in Workers : pc'[v] = "spend" =>
           pc[v] = "spend" /\ ticket'[v] = ticket[v],
         \A v \in Workers : Advances(v)
  PROVE  AnswerInv'
<1>1. /\ minted \in [Families -> Nat] /\ negotiations \in [Families -> Negotiation]
      /\ tickets \subseteq Tickets
  BY DEF HandInv, TypeOK, StoreTypeOK
<1>2. negotiations[f].decision = "none"
  <2>1. AnswerOf(negotiations[f]).decision = negotiations[f].decision
    BY DEF AnswerOf
  <2> QED
    BY <2>1 DEF AnswerInv, AnswersOnRows
<1>3. /\ minted' = [minted EXCEPT ![f] = @ + 1]
      /\ tickets' = tickets \cup {<<f, minted[f] + 1>>}
      /\ negotiations' = [negotiations EXCEPT ![f] = [n EXCEPT !.expired = FALSE]]
  BY <1>2 DEF MintTicket, KeepDecision
<1>4. /\ negotiations'[f].decision = "none" /\ negotiations'[f].state = n.state
      /\ \A g \in Families \ {f} : negotiations'[g] = negotiations[g]
  BY <1>1, <1>3 DEF Negotiation
<1>5. \A g \in Families : minted'[g] >= minted[g]
  BY <1>1, <1>3
<1>6. AnswersOnRows'
  <2> SUFFICES ASSUME NEW g \in Families
               PROVE  /\ negotiations'[g].decision # "none" =>
                           /\ negotiations'[g].state = "awaiting-owner"
                           /\ answers[g] = AnswerOf(negotiations'[g])
                      /\ answers[g].decision # "none" =>
                           /\ minted'[g] > 0
                           /\ negotiations'[g].state = "none" \/ negotiations'[g].decision # "none"
    BY DEF AnswersOnRows, AnswerOf
  <2>1. CASE g = f
    BY <1>4, <2>1
  <2>2. CASE g # f
    <3>1. negotiations'[g] = negotiations[g] /\ minted'[g] = minted[g]
      BY <1>1, <1>3, <1>4, <2>2
    <3> QED
      BY <3>1 DEF AnswerInv, AnswersOnRows
  <2> QED
    BY <2>1, <2>2
<1>7. HandleSurvives'
  <2> SUFFICES ASSUME NEW g \in Families, Waiting(negotiations'[g])
               PROVE  \E t \in tickets' : FamilyOf(t) = g
    BY DEF HandleSurvives, Pending, Waiting, LiveTicket
  <2>1. CASE g = f
    <3>1. <<f, minted[f] + 1>> \in tickets' /\ FamilyOf(<<f, minted[f] + 1>>) = f
      BY <1>3 DEF FamilyOf
    <3> QED
      BY <2>1, <3>1
  <2>2. CASE g # f
    BY <1>3, <1>4, <2>2 DEF AnswerInv, HandleSurvives, Pending, LiveTicket
  <2> QED
    BY <2>1, <2>2
<1>8. SpendersDontWait'
  <2> SUFFICES ASSUME NEW v \in Workers, pc'[v] = "spend", ticket'[v] \in tickets'
               PROVE  ~Waiting(negotiations'[Family(v)'])
    BY DEF SpendersDontWait, Waiting
  <2>1. pc[v] = "spend" /\ ticket'[v] = ticket[v] /\ Family(v)' = Family(v)
    BY DEF Family
  <2>2. Family(v) \in Families
    BY <2>1, FamilyInHand, TypeParts DEF HandInv
  <2>3. ticket[v][2] \in 1..minted[Family(v)]
    BY <2>1 DEF HandInv, OneHandAtATime, TicketsAreOld
  <2>4. ticket[v] # <<f, minted[f] + 1>>
    BY <1>1, <2>2, <2>3 DEF Family, FamilyOf
  <2>5. ticket[v] \in tickets
    BY <1>3, <2>1, <2>4
  <2>6. Family(v) # f
    BY <2>5 DEF LiveTicket, Family
  <2> QED
    BY <1>4, <2>1, <2>2, <2>5, <2>6 DEF AnswerInv, SpendersDontWait
<1>9. HandsAnswered'
  BY HandsAdvance
<1>10. DenialIsFinal'
  BY SameGrantsFor DEF AnswerInv, DenialIsFinal
<1> QED
  BY <1>6, <1>7, <1>8, <1>9, <1>10 DEF AnswerInv

LEMMA PermAnswers ==
  ASSUME HandInv, AnswerInv, NEW f \in Families, NEW tier \in Tiers, Perm(f, tier)
  PROVE  AnswerInv'
<1> DEFINE n == [NoNegotiation EXCEPT !.state = "issued", !.tier = tier]
<1>1. /\ MintTicket(f, n) /\ rpts' = rpts /\ minted[f] = 0
      /\ UNCHANGED <<pc, ticket, rec, answers>>
  BY DEF Perm, workVars, ownerVars
<1>2. n \in Negotiation /\ n.decision = "none" /\ n.state # "none"
  BY DEF NoNegotiation, Negotiation, Handles
<1> HIDE DEF n
<1>3. ~LiveTicket(f) /\ answers[f].decision = "none"
  BY <1>1 DEF LiveTicket, HandInv, OneHandAtATime, TicketsAreOld, AnswerInv, AnswersOnRows
<1>4. \A v \in Workers : Advances(v)
  BY <1>1 DEF Advances
<1> QED
  BY <1>1, <1>2, <1>3, <1>4, SameRpts, MintAnswers

(* A request hands its negotiation back.                                    *)
LEMMA HandBackAnswers ==
  ASSUME HandInv, AnswerInv, NEW w \in Workers, NEW n \in Negotiation, pc[w] \in AskLabels,
         MintTicket(Family(w), n), n.decision = "none", n.state # "none",
         Respond(w), UNCHANGED <<rpts, answers>>
  PROVE  AnswerInv'
<1>1. pc[w] \notin {"idle", "spend"}
  BY DEF AskLabels
<1>2. Family(w) \in Families /\ Holding(w, Family(w))
  BY <1>1, TypeParts, FamilyInHand DEF HandInv, Holding
<1>3. ~LiveTicket(Family(w)) /\ answers[Family(w)].decision = "none"
  BY <1>1, <1>2 DEF HandInv, OneHandAtATime, TicketOrHolder, AnswerInv, HandsAnswered, Stage
<1>4. \A v \in Workers : Advances(v) /\ (pc'[v] = "spend" => pc[v] = "spend" /\ ticket'[v] = ticket[v])
  BY DEF Advances, Respond, HandInv, TypeOK, WorkTypeOK
<1> QED
  BY <1>2, <1>3, <1>4, SameRpts, MintAnswers

LEMMA DictateTermsAnswers ==
  ASSUME HandInv, AnswerInv, NEW w \in Workers, DictateTerms(w)
  PROVE  AnswerInv'
<1> DEFINE n == [rec[w] EXCEPT !.state = "need_info"]
<1>1. /\ pc[w] = "agree" /\ MintTicket(Family(w), n) /\ Respond(w)
      /\ UNCHANGED <<rpts, answers>>
  BY DEF DictateTerms, ownerVars
<1>2. rec[w] \in Negotiation /\ rec[w].decision = "none"
  BY <1>1 DEF HandInv, TypeOK, WorkTypeOK, AnswerInv, HandsAnswered, Stage, AskLabels
<1>3. n \in Negotiation /\ n.decision = "none" /\ n.state # "none"
  BY <1>2 DEF Negotiation
<1> HIDE DEF n
<1> QED
  BY <1>1, <1>3, HandBackAnswers DEF AskLabels

LEMMA PendAnswers ==
  ASSUME HandInv, AnswerInv, NEW w \in Workers, Pend(w)
  PROVE  AnswerInv'
<1> DEFINE n == [rec[w] EXCEPT !.state = "awaiting-owner"]
<1>1. /\ pc[w] = "pend" /\ MintTicket(Family(w), n) /\ Respond(w)
      /\ UNCHANGED <<rpts, answers>>
  BY DEF Pend, ownerVars
<1>2. rec[w] \in Negotiation /\ rec[w].decision = "none"
  BY <1>1 DEF HandInv, TypeOK, WorkTypeOK, AnswerInv, HandsAnswered, Stage, AskLabels
<1>3. n \in Negotiation /\ n.decision = "none" /\ n.state # "none"
  BY <1>2 DEF Negotiation
<1> HIDE DEF n
<1> QED
  BY <1>1, <1>3, HandBackAnswers DEF AskLabels

(* A negotiation runs out: nothing is said of that here.                    *)
LEMMA ExpireAnswers ==
  ASSUME HandInv, AnswerInv, NEW f \in Families, Expire(f)
  PROVE  AnswerInv'
<1>1. /\ negotiations' = [negotiations EXCEPT ![f].expired = TRUE]
      /\ UNCHANGED <<tickets, minted, rpts, pc, ticket, rec, answers>>
  BY DEF Expire, workVars, ownerVars
<1>2. \A g \in Families :
        /\ negotiations'[g].state = negotiations[g].state
        /\ negotiations'[g].decision = negotiations[g].decision
        /\ AnswerOf(negotiations'[g]) = AnswerOf(negotiations[g])
  BY <1>1 DEF HandInv, TypeOK, StoreTypeOK, Negotiation, AnswerOf
<1>3. AnswersOnRows'
  BY <1>1, <1>2 DEF AnswerInv, AnswersOnRows, AnswerOf
<1>4. HandleSurvives'
  BY <1>1, <1>2 DEF AnswerInv, HandleSurvives, Pending, Waiting, LiveTicket
<1>5. SpendersDontWait'
  <2> SUFFICES ASSUME NEW v \in Workers, pc[v] = "spend", ticket[v] \in tickets
               PROVE  ~Waiting(negotiations'[Family(v)])
    BY <1>1 DEF SpendersDontWait, Waiting, Family
  <2>1. Family(v) \in Families
    BY FamilyInHand, TypeParts DEF HandInv
  <2> QED
    BY <1>2, <2>1 DEF AnswerInv, SpendersDontWait, Waiting
<1>6. HandsAnswered'
  BY <1>1, HandsAdvance DEF Advances
<1>7. DenialIsFinal'
  BY <1>1, SameRpts, SameGrantsFor DEF AnswerInv, DenialIsFinal
<1> QED
  BY <1>3, <1>4, <1>5, <1>6, <1>7 DEF AnswerInv

(* Rows go, and their tickets with them; the others stay as they are.       *)
LEMMA RowsGo ==
  ASSUME HandInv, AnswerInv, UNCHANGED <<minted, answers>>, SameGrants,
         NEW S \in SUBSET Families,
         \A f \in S : negotiations'[f] = NoNegotiation,
         \A f \in Families \ S : negotiations'[f] = negotiations[f],
         tickets' = {t \in tickets : FamilyOf(t) \notin S},
         \A v \in Workers : Advances(v) \/ (pc'[v] = "spend" /\ ticket'[v] \in tickets
                                             /\ ~Waiting(negotiations[FamilyOf(ticket'[v])])),
         HandsAnswered'
  PROVE  AnswerInv'
<1>1. NoNegotiation.state = "none" /\ NoNegotiation.decision = "none" /\ ~Waiting(NoNegotiation)
  BY DEF NoNegotiation, Waiting
<1>2. AnswersOnRows'
  BY <1>1 DEF AnswerInv, AnswersOnRows, AnswerOf
<1>3. HandleSurvives'
  <2> SUFFICES ASSUME NEW f \in Families, Waiting(negotiations'[f])
               PROVE  \E t \in tickets' : FamilyOf(t) = f
    BY DEF HandleSurvives, Pending, Waiting, LiveTicket
  <2>1. f \notin S /\ Waiting(negotiations[f])
    BY <1>1
  <2> QED
    BY <2>1 DEF AnswerInv, HandleSurvives, Pending, LiveTicket
<1>4. SpendersDontWait'
  <2> SUFFICES ASSUME NEW v \in Workers, pc'[v] = "spend", ticket'[v] \in tickets'
               PROVE  ~Waiting(negotiations'[FamilyOf(ticket'[v])])
    BY DEF SpendersDontWait, Waiting, Family
  <2>1. FamilyOf(ticket'[v]) \in Families
    BY DEF HandInv, TypeOK, StoreTypeOK, Tickets, FamilyOf
  <2>2. ~Waiting(negotiations[FamilyOf(ticket'[v])])
    BY DEF Advances, AnswerInv, SpendersDontWait, Family
  <2> QED
    BY <1>1, <2>1, <2>2
<1>5. DenialIsFinal'
  BY SameGrantsFor DEF AnswerInv, DenialIsFinal
<1> QED
  BY <1>2, <1>3, <1>4, <1>5 DEF AnswerInv

LEMMA PresentAnswers ==
  ASSUME HandInv, AnswerInv, NEW w \in Workers, NEW t \in tickets, Present(w, t)
  PROVE  AnswerInv'
<1> DEFINE S == {f \in Families : negotiations[f].expired}
<1>1. /\ UNCHANGED <<minted, answers, rpts, rec>> /\ pc[w] = "idle"
      /\ \A f \in S : negotiations'[f] = NoNegotiation
      /\ \A f \in Families \ S : negotiations'[f] = negotiations[f]
  BY DEF Present, ReapExpired, ownerVars
<1>2. tickets' = {u \in tickets : FamilyOf(u) \notin S}
  BY DEF Present, ReapExpired, HandInv, TypeOK, StoreTypeOK, Tickets, FamilyOf
<1>3. \A v \in Workers : \/ pc'[v] = pc[v] /\ ticket'[v] = ticket[v]
                         \/ /\ pc'[v] = "spend" /\ ticket'[v] = t
                            /\ ~Waiting(negotiations[FamilyOf(t)])
  BY DEF Present, Goto, HandInv, TypeOK, WorkTypeOK
<1>4. HandsAnswered'
  <2> SUFFICES ASSUME NEW v \in Workers, pc'[v] \notin {"idle", "spend"}
               PROVE  Stage(pc'[v], rec'[v], answers[Family(v)'])
    BY <1>1 DEF HandsAnswered, Stage
  <2>1. pc'[v] = pc[v] /\ ticket'[v] = ticket[v]
    BY <1>3
  <2> QED
    BY <1>1, <2>1 DEF AnswerInv, HandsAnswered, Family
<1>5. \A v \in Workers : Advances(v) \/ (pc'[v] = "spend" /\ ticket'[v] \in tickets
                                             /\ ~Waiting(negotiations[FamilyOf(ticket'[v])]))
  BY <1>1, <1>3 DEF Advances
<1> HIDE DEF S
<1> QED
  BY <1>1, <1>2, <1>4, <1>5, RowsGo, SameRpts DEF S

LEMMA CloseAnswers ==
  ASSUME HandInv, AnswerInv, NEW w \in Workers, Close(w)
  PROVE  AnswerInv'
<1> DEFINE S == {Family(w)}
<1>1. /\ UNCHANGED <<minted, answers, rpts>> /\ pc[w] = "close"
      /\ negotiations' = [negotiations EXCEPT ![Family(w)] = NoNegotiation]
      /\ tickets' = {t \in tickets : FamilyOf(t) \notin S}
      /\ Respond(w)
  BY DEF Close, CloseNegotiation, ownerVars
<1>2. Family(w) \in Families
  BY <1>1, TypeParts, FamilyInHand DEF HandInv
<1>3. /\ \A f \in S : negotiations'[f] = NoNegotiation
      /\ \A f \in Families \ S : negotiations'[f] = negotiations[f]
  BY <1>1, <1>2 DEF HandInv, TypeOK, StoreTypeOK
<1>4. \A v \in Workers : Advances(v)
  BY <1>1 DEF Advances, Respond, HandInv, TypeOK, WorkTypeOK
<1>5. HandsAnswered'
  BY <1>1, <1>4, HandsAdvance
<1>6. S \in SUBSET Families
  BY <1>2
<1> HIDE DEF S
<1> QED
  BY <1>1, <1>3, <1>4, <1>5, <1>6, RowsGo, SameRpts

(* The holder of a spent ticket: its negotiation did not wait on her.       *)
LEMMA SpendAnswers ==
  ASSUME HandInv, AnswerInv, NEW w \in Workers, Spend(w)
  PROVE  AnswerInv'
<1> DEFINE n == negotiations[Family(w)]
<1>1. /\ pc[w] = "spend" /\ tickets' = tickets \ {ticket[w]}
      /\ UNCHANGED <<negotiations, minted, answers, rpts>>
  BY DEF Spend, ConsumeTicket, ownerVars
<1>2. Family(w) \in Families /\ ticket[w] \in Tickets
  BY <1>1, TypeParts, FamilyInHand DEF HandInv, TypeOK, InHand
<1>3. \A v \in Workers : \/ pc'[v] = pc[v] /\ ticket'[v] = ticket[v] /\ rec'[v] = rec[v]
                         \/ pc'[v] = "idle"
                         \/ /\ v = w /\ ticket'[v] = ticket[v] /\ ticket[v] \in tickets
                            /\ pc'[v] = Disposition(n) /\ rec'[v] = n
  BY DEF Spend, Goto, Respond, HandInv, TypeOK, WorkTypeOK
<1>4. AnswersOnRows'
  BY <1>1 DEF AnswerInv, AnswersOnRows, AnswerOf
<1>5. ticket[w] \in tickets => ~Waiting(n)
  BY <1>1 DEF AnswerInv, SpendersDontWait
<1>6. HandleSurvives'
  <2> SUFFICES ASSUME NEW f \in Families, Waiting(negotiations[f])
               PROVE  \E t \in tickets' : FamilyOf(t) = f
    BY <1>1 DEF HandleSurvives, Pending, Waiting, LiveTicket
  <2>1. PICK t \in tickets : FamilyOf(t) = f
    BY DEF AnswerInv, HandleSurvives, Pending, LiveTicket
  <2>2. t # ticket[w]
    BY <1>5, <2>1 DEF Family
  <2> QED
    BY <1>1, <2>1, <2>2
<1>7. SpendersDontWait'
  <2> SUFFICES ASSUME NEW v \in Workers, pc'[v] = "spend", ticket'[v] \in tickets
               PROVE  ~Waiting(negotiations[FamilyOf(ticket'[v])])
    BY <1>1 DEF SpendersDontWait, Waiting, Family
  <2>1. pc[v] = "spend" /\ ticket'[v] = ticket[v]
    BY <1>3 DEF Disposition
  <2> QED
    BY <2>1 DEF AnswerInv, SpendersDontWait, Family
<1>8. HandsAnswered'
  <2> SUFFICES ASSUME NEW v \in Workers, pc'[v] \notin {"idle", "spend"}
               PROVE  Stage(pc'[v], rec'[v], answers[Family(v)'])
    BY <1>1 DEF HandsAnswered, Stage
  <2>1. CASE pc'[v] = pc[v] /\ ticket'[v] = ticket[v] /\ rec'[v] = rec[v]
    BY <2>1 DEF AnswerInv, HandsAnswered, Family
  <2>2. CASE /\ v = w /\ ticket'[v] = ticket[v] /\ ticket[v] \in tickets
             /\ pc'[v] = Disposition(n) /\ rec'[v] = n
    <3>1. Family(v)' = Family(w) /\ n.state # "none" /\ ~Waiting(n)
      BY <1>2, <1>5, <2>2 DEF HandInv, TypeOK, RowsOK, Family, FamilyOf
    <3>2. /\ n.decision # "none" => n.state = "awaiting-owner" /\ answers[Family(w)] = AnswerOf(n)
          /\ n.decision = "none" => answers[Family(w)].decision = "none"
      <4>1. answers[Family(w)].decision # "none" => n.state = "none" \/ n.decision # "none"
        BY <1>2 DEF AnswerInv, AnswersOnRows
      <4>2. n.decision # "none" => n.state = "awaiting-owner" /\ answers[Family(w)] = AnswerOf(n)
        BY <1>2 DEF AnswerInv, AnswersOnRows
      <4> QED
        BY <3>1, <4>1, <4>2
    <3> HIDE DEF n
    <3>3. CASE Disposition(n) = "agree"
      <4>1. n.decision = "none"
        BY <3>2, <3>3 DEF Disposition
      <4> QED
        BY <2>2, <3>1, <3>2, <3>3, <4>1 DEF Stage, PollLabels
    <3>4. CASE Disposition(n) = "poll"
      <4>1. n.decision = "approved"
        BY <3>4 DEF Disposition
      <4> QED
        BY <2>2, <3>1, <3>2, <3>4, <4>1 DEF Stage, AskLabels
    <3>5. CASE Disposition(n) = "close"
      BY <2>2, <3>5 DEF Stage, AskLabels, PollLabels
    <3> QED
      BY <3>3, <3>4, <3>5 DEF Disposition
  <2> QED
    BY <1>3, <2>1, <2>2
<1>9. DenialIsFinal'
  BY <1>1, SameRpts, SameGrantsFor DEF AnswerInv, DenialIsFinal
<1> QED
  BY <1>4, <1>6, <1>7, <1>8, <1>9 DEF AnswerInv

(* She answers what waits: no request holds it, and it has no grant.        *)
LEMMA DecideAnswers ==
  ASSUME HandInv, AnswerInv, NEW f \in Families, NEW d \in Decisions, NEW by \in Deciders,
         Decide(f, d, by)
  PROVE  AnswerInv'
<1>1. /\ Waiting(negotiations[f])
      /\ negotiations' = [negotiations EXCEPT ![f].decision = d, ![f].by = by]
      /\ answers' = [answers EXCEPT ![f] = [decision |-> d, by |-> by,
                       handle |-> negotiations[f].handle, tier |-> negotiations[f].tier]]
      /\ UNCHANGED <<tickets, minted, rpts, pc, ticket, rec>>
  BY DEF Decide, DecideNegotiation, workVars
<1>2. d # "none"
  BY DEF Decisions
<1>3. LiveTicket(f) /\ ~Granted(f) /\ \A w \in Workers : ~Holding(w, f)
  BY <1>1, NobodyHolds
<1>4. /\ negotiations'[f].decision = d /\ negotiations'[f].state = "awaiting-owner"
      /\ AnswerOf(negotiations'[f]) = answers'[f] /\ answers'[f].decision = d
      /\ \A g \in Families \ {f} : negotiations'[g] = negotiations[g] /\ answers'[g] = answers[g]
  BY <1>1 DEF HandInv, TypeOK, StoreTypeOK, OwnerTypeOK, Negotiation, AnswerOf, Waiting
<1>5. minted[f] > 0
  <2>1. PICK t \in tickets : FamilyOf(t) = f
    BY <1>3 DEF LiveTicket
  <2>2. t[2] \in 1..minted[f] /\ minted[f] \in Nat
    BY <2>1 DEF HandInv, OneHandAtATime, TicketsAreOld, TypeOK, StoreTypeOK
  <2> QED
    BY <2>2
<1>6. AnswersOnRows'
  <2> SUFFICES ASSUME NEW g \in Families
               PROVE  /\ negotiations'[g].decision # "none" =>
                           /\ negotiations'[g].state = "awaiting-owner"
                           /\ answers'[g] = AnswerOf(negotiations'[g])
                      /\ answers'[g].decision # "none" =>
                           /\ minted'[g] > 0
                           /\ negotiations'[g].state = "none" \/ negotiations'[g].decision # "none"
    BY DEF AnswersOnRows, AnswerOf
  <2>1. CASE g = f
    BY <1>1, <1>2, <1>4, <1>5, <2>1
  <2>2. CASE g # f
    <3>1. negotiations'[g] = negotiations[g] /\ minted'[g] = minted[g] /\ answers'[g] = answers[g]
      BY <1>1, <1>4, <2>2
    <3> QED
      BY <3>1 DEF AnswerInv, AnswersOnRows
  <2> QED
    BY <2>1, <2>2
<1>7. HandleSurvives'
  <2> SUFFICES ASSUME NEW g \in Families, Waiting(negotiations'[g])
               PROVE  LiveTicket(g)
    BY <1>1 DEF HandleSurvives, Pending, Waiting, LiveTicket
  <2>1. g # f
    BY <1>2, <1>4 DEF Waiting
  <2> QED
    BY <1>4, <2>1 DEF AnswerInv, HandleSurvives, Pending
<1>8. SpendersDontWait'
  <2> SUFFICES ASSUME NEW v \in Workers, pc[v] = "spend", ticket[v] \in tickets
               PROVE  ~Waiting(negotiations'[Family(v)])
    BY <1>1 DEF SpendersDontWait, Waiting, Family
  <2>1. Family(v) \in Families
    BY FamilyInHand, TypeParts DEF HandInv
  <2> QED
    BY <1>2, <1>4, <2>1 DEF AnswerInv, SpendersDontWait, Waiting
<1>9. HandsAnswered'
  <2> SUFFICES ASSUME NEW v \in Workers, pc[v] \notin {"idle", "spend"}
               PROVE  Stage(pc[v], rec[v], answers'[Family(v)])
    BY <1>1 DEF HandsAnswered, Stage, Family
  <2>1. Family(v) # f /\ Family(v) \in Families
    BY <1>3, FamilyInHand, TypeParts DEF HandInv, Holding
  <2> QED
    BY <1>4, <2>1 DEF AnswerInv, HandsAnswered
<1>10. DenialIsFinal'
  BY <1>1, <1>3, <1>4, SameRpts, SameGrantsFor DEF AnswerInv, DenialIsFinal
<1> QED
  BY <1>6, <1>7, <1>8, <1>9, <1>10 DEF AnswerInv

(* A grant is recorded: not of a negotiation that she denied.               *)
LEMMA IssueAnswers ==
  ASSUME HandInv, AnswerInv, NEW w \in Workers, NEW j \in Jtis, IssueRpt(w, j)
  PROVE  AnswerInv'
<1>1. /\ pc[w] = "grant" /\ pc' = [pc EXCEPT ![w] = "close"]
      /\ UNCHANGED <<negotiations, tickets, minted, answers, ticket, rec>>
      /\ RecordRpt(j, Family(w), rec[w].handle, rec[w].tier, conn[w].revocations)
  BY DEF IssueRpt, Goto, negVars, ownerVars
<1>2. answers[Family(w)].decision # "denied"
  BY <1>1 DEF AnswerInv, HandsAnswered, Stage
<1>3. \A v \in Workers : Advances(v)
  <2>1. Stage("close", rec[w], answers[Family(w)])
    BY DEF Stage, AskLabels, PollLabels
  <2> QED
    BY <1>1, <2>1 DEF Advances, HandInv, TypeOK, WorkTypeOK
<1>4. \A f \in Families : Granted(f)' => Granted(f) \/ f = Family(w)
  <2>1. /\ rpts'[j].family = Family(w)
        /\ \A i \in Jtis : i # j => rpts'[i] = rpts[i]
    BY <1>1 DEF RecordRpt, HandInv, TypeOK, StoreTypeOK
  <2> QED
    BY <2>1 DEF Granted, Recorded
<1>5. AnswersOnRows' /\ HandleSurvives'
  BY <1>1 DEF AnswerInv, AnswersOnRows, HandleSurvives, Pending, Waiting, LiveTicket, AnswerOf
<1>6. SpendersDontWait'
  <2> SUFFICES ASSUME NEW v \in Workers, pc'[v] = "spend", ticket[v] \in tickets
               PROVE  ~Waiting(negotiations[Family(v)])
    BY <1>1 DEF SpendersDontWait, Waiting, Family
  <2>1. pc[v] = "spend"
    BY <1>1 DEF HandInv, TypeOK, WorkTypeOK
  <2> QED
    BY <2>1 DEF AnswerInv, SpendersDontWait
<1>7. HandsAnswered'
  BY <1>1, <1>3, HandsAdvance
<1>8. DenialIsFinal'
  BY <1>1, <1>2, <1>4 DEF AnswerInv, DenialIsFinal
<1> QED
  BY <1>5, <1>6, <1>7, <1>8 DEF AnswerInv

(* Every step of a request.                                                 *)
LEMMA TokenStepAnswers ==
  ASSUME HandInv, AnswerInv, NEW w \in Workers, TokenStep(w)
  PROVE  AnswerInv'
<1> USE DEF AskLabels, PollLabels
<1>1. pc[w] \notin {"idle", "spend"} => Stage(pc[w], rec[w], answers[Family(w)])
  BY DEF AnswerInv, HandsAnswered
<1>2. rec[w] \in Negotiation
  BY DEF HandInv, TypeOK, WorkTypeOK
<1>3. UNCHANGED rpts => SameGrants
  BY SameRpts
<1>4. CASE Spend(w)
  BY <1>4, SpendAnswers
<1>5. CASE DictateTerms(w)
  BY <1>5, DictateTermsAnswers
<1>6. CASE Pend(w)
  BY <1>6, PendAnswers
<1>7. CASE Close(w)
  BY <1>7, CloseAnswers
<1>8. ASSUME NEW j \in Jtis, IssueRpt(w, j) PROVE AnswerInv'
  BY <1>8, IssueAnswers
<1>9. CASE RejectClaim(w)
  BY <1>9, RespondAnswers, SameRpts DEF RejectClaim, storeVars, ownerVars
<1>10. CASE RefuseRpt(w)
  BY <1>10, RespondAnswers, SameRpts DEF RefuseRpt, storeVars, ownerVars
<1>11. CASE TurnAway(w)
  <2>1. /\ pc[w] \notin {"idle", "spend"} /\ UNCHANGED <<rec, ticket, negotiations, tickets, minted, answers>>
        /\ \E l : Goto(w, l) /\ l # "spend" /\ Stage(l, rec[w], answers[Family(w)])
    BY <1>11, <1>1 DEF TurnAway, Stage, storeVars, negVars, ownerVars
  <2>2. SameGrants
    BY <1>11, <1>3 DEF TurnAway, storeVars
  <2> QED
    BY <2>1, <2>2, GotoAnswers
<1>12. CASE ReadConnection(w)
  <2>1. /\ pc[w] \notin {"idle", "spend"} /\ UNCHANGED <<rec, ticket, negotiations, tickets, minted, answers>>
        /\ \E l : Goto(w, l) /\ l # "spend" /\ Stage(l, rec[w], answers[Family(w)])
    BY <1>12, <1>1 DEF ReadConnection, Stage, storeVars, negVars, ownerVars
  <2>2. SameGrants
    BY <1>12, <1>3 DEF ReadConnection, storeVars
  <2> QED
    BY <2>1, <2>2, GotoAnswers
<1>13. CASE CheckIntroduction(w)
  <2>1. /\ pc[w] \notin {"idle", "spend"} /\ UNCHANGED <<rec, ticket, negotiations, tickets, minted, answers>>
        /\ \E l : Goto(w, l) /\ l # "spend" /\ Stage(l, rec[w], answers[Family(w)])
    BY <1>13, <1>1 DEF CheckIntroduction, Stage, storeVars, negVars, ownerVars
  <2>2. SameGrants
    BY <1>13, <1>3 DEF CheckIntroduction, storeVars
  <2> QED
    BY <2>1, <2>2, GotoAnswers
<1>14. CASE CheckQueue(w)
  <2>1. /\ pc[w] \notin {"idle", "spend"} /\ UNCHANGED <<rec, ticket, negotiations, tickets, minted, answers>>
        /\ \E l : Goto(w, l) /\ l # "spend" /\ Stage(l, rec[w], answers[Family(w)])
    BY <1>14, <1>1 DEF CheckQueue, Stage, storeVars, negVars, ownerVars, AfterGates
  <2>2. SameGrants
    BY <1>14, <1>3 DEF CheckQueue, storeVars
  <2> QED
    BY <2>1, <2>2, GotoAnswers
<1>15. CASE CheckSponsor(w)
  <2>1. /\ pc[w] \notin {"idle", "spend"} /\ UNCHANGED <<rec, ticket, negotiations, tickets, minted, answers>>
        /\ \E l : Goto(w, l) /\ l # "spend" /\ Stage(l, rec[w], answers[Family(w)])
    BY <1>15, <1>1 DEF CheckSponsor, Stage, storeVars, negVars, ownerVars
  <2>2. SameGrants
    BY <1>15, <1>3 DEF CheckSponsor, storeVars
  <2> QED
    BY <2>1, <2>2, GotoAnswers
<1>16. CASE PutIntroduced(w)
  <2>1. /\ pc[w] \notin {"idle", "spend"} /\ UNCHANGED <<rec, ticket, negotiations, tickets, minted, answers>>
        /\ \E l : Goto(w, l) /\ l # "spend" /\ Stage(l, rec[w], answers[Family(w)])
    BY <1>16, <1>1 DEF PutIntroduced, Stage, storeVars, negVars, ownerVars
  <2>2. SameGrants
    BY <1>16, <1>3 DEF PutIntroduced, storeVars
  <2> QED
    BY <2>1, <2>2, GotoAnswers
<1>17. CASE RecheckSponsor(w)
  <2>1. /\ pc[w] \notin {"idle", "spend"} /\ UNCHANGED <<rec, ticket, negotiations, tickets, minted, answers>>
        /\ \E l : Goto(w, l) /\ l # "spend" /\ Stage(l, rec[w], answers[Family(w)])
    BY <1>17, <1>1 DEF RecheckSponsor, Stage, storeVars, negVars, ownerVars, AfterGates
  <2>2. SameGrants
    BY <1>17, <1>3 DEF RecheckSponsor, storeVars
  <2> QED
    BY <2>1, <2>2, GotoAnswers
<1>18. CASE UndoIntroduction(w)
  <2>1. /\ pc[w] \notin {"idle", "spend"} /\ UNCHANGED <<rec, ticket, negotiations, tickets, minted, answers>>
        /\ \E l : Goto(w, l) /\ l # "spend" /\ Stage(l, rec[w], answers[Family(w)])
    BY <1>18, <1>1 DEF UndoIntroduction, Stage, storeVars, negVars, ownerVars
  <2>2. SameGrants
    <3>1. rec[w].handle \in Agents
      BY <1>18 DEF UndoIntroduction, HandInv, TypeOK, InHand
    <3> QED
      BY <1>18, <3>1, RevokeGrants DEF UndoIntroduction
  <2> QED
    BY <2>1, <2>2, GotoAnswers
<1>19. CASE PollOperator(w)
  <2>1. /\ pc[w] \notin {"idle", "spend"} /\ UNCHANGED <<rec, ticket, negotiations, tickets, minted, answers>>
        /\ \E l : Goto(w, l) /\ l # "spend" /\ Stage(l, rec[w], answers[Family(w)])
    BY <1>19, <1>1 DEF PollOperator, Stage, storeVars, negVars, ownerVars
  <2>2. SameGrants
    BY <1>19, <1>3 DEF PollOperator, storeVars
  <2> QED
    BY <2>1, <2>2, GotoAnswers
<1>20. CASE PollConnection(w)
  <2>1. /\ pc[w] \notin {"idle", "spend"} /\ UNCHANGED <<rec, ticket, negotiations, tickets, minted, answers>>
        /\ \E l : Goto(w, l) /\ l # "spend" /\ Stage(l, rec[w], answers[Family(w)])
    BY <1>20, <1>1 DEF PollConnection, Stage, storeVars, negVars, ownerVars
  <2>2. SameGrants
    BY <1>20, <1>3 DEF PollConnection, storeVars
  <2> QED
    BY <2>1, <2>2, GotoAnswers
<1>21. CASE ReadPrior(w)
  <2>1. /\ pc[w] \notin {"idle", "spend"} /\ UNCHANGED <<rec, ticket, negotiations, tickets, minted, answers>>
        /\ \E l : Goto(w, l) /\ l # "spend" /\ Stage(l, rec[w], answers[Family(w)])
    BY <1>21, <1>1 DEF ReadPrior, Stage, storeVars, negVars, ownerVars
  <2>2. SameGrants
    BY <1>21, <1>3 DEF ReadPrior, storeVars
  <2> QED
    BY <2>1, <2>2, GotoAnswers
<1>22. CASE AdmitConnection(w)
  <2>1. /\ pc[w] \notin {"idle", "spend"} /\ UNCHANGED <<rec, ticket, negotiations, tickets, minted, answers>>
        /\ \E l : Goto(w, l) /\ l # "spend" /\ Stage(l, rec[w], answers[Family(w)])
    BY <1>22, <1>1 DEF AdmitConnection, Stage, storeVars, negVars, ownerVars
  <2>2. SameGrants
    BY <1>22, <1>3 DEF AdmitConnection, storeVars
  <2> QED
    BY <2>1, <2>2, GotoAnswers
<1>23. CASE NoteApproval(w)
  <2>1. /\ pc[w] = "approval" /\ Goto(w, "grant")
        /\ UNCHANGED <<rec, ticket, negotiations, tickets, minted, answers, rpts>>
    BY <1>23 DEF NoteApproval, negVars, ownerVars
  <2>2. Stage("grant", rec[w], answers[Family(w)])
    <3>1. rec[w].decision = "approved" /\ answers[Family(w)] = AnswerOf(rec[w])
      BY <1>1, <2>1 DEF Stage
    <3> QED
      BY <3>1 DEF Stage, AnswerOf
  <2> QED
    BY <1>3, <2>1, <2>2, GotoAnswers
<1>24. ASSUME NEW a \in Agents, NEW i \in {None, Sponsor[a]}, Agree(w, a, i) PROVE AnswerInv'
  <2>1. /\ pc[w] = "agree" /\ Goto(w, "connection") /\ rec' = [rec EXCEPT ![w].handle = a]
        /\ UNCHANGED <<ticket, negotiations, tickets, minted, answers, rpts>>
    BY <1>24 DEF Agree, storeVars, ownerVars
  <2>2. rec'[w].decision = rec[w].decision /\ \A v \in Workers \ {w} : rec'[v] = rec[v]
    BY <1>2, <2>1 DEF Negotiation, HandInv, TypeOK, WorkTypeOK
  <2>3. Stage("connection", rec'[w], answers[Family(w)])
    BY <1>1, <2>1, <2>2 DEF Stage
  <2> QED
    BY <1>3, <2>1, <2>2, <2>3, GotoAnswers
<1>25. CASE CheckOperator(w)
  <2>1. /\ pc[w] = "operator" /\ UNCHANGED <<ticket, negotiations, tickets, minted, answers, rpts>>
        /\ rec' = rec \/ \E kind : rec' = [rec EXCEPT ![w].kind = kind]
        /\ \E l \in {"close", "queue", "grant", "ask"} : Goto(w, l)
    BY <1>25 DEF CheckOperator, AfterGates, storeVars, ownerVars
  <2>2. rec'[w].decision = rec[w].decision /\ \A v \in Workers \ {w} : rec'[v] = rec[v]
    BY <1>2, <2>1 DEF Negotiation, HandInv, TypeOK, WorkTypeOK
  <2>3. \A l \in {"close", "queue", "grant", "ask"} : Stage(l, rec'[w], answers[Family(w)])
    BY <1>1, <2>1, <2>2 DEF Stage
  <2> QED
    BY <1>3, <2>1, <2>2, <2>3, GotoAnswers
<1>26. CASE NoteRevocations(w)
  <2>1. /\ pc[w] = "ask" /\ Goto(w, "pend") /\ \E k : rec' = [rec EXCEPT ![w].seen = k]
        /\ UNCHANGED <<ticket, negotiations, tickets, minted, answers, rpts>>
    BY <1>26 DEF NoteRevocations, storeVars, ownerVars
  <2>2. rec'[w].decision = rec[w].decision /\ \A v \in Workers \ {w} : rec'[v] = rec[v]
    BY <1>2, <2>1 DEF Negotiation, HandInv, TypeOK, WorkTypeOK
  <2>3. Stage("pend", rec'[w], answers[Family(w)])
    BY <1>1, <2>1, <2>2 DEF Stage
  <2> QED
    BY <1>3, <2>1, <2>2, <2>3, GotoAnswers
<1> QED
  BY <1>4, <1>5, <1>6, <1>7, <1>8, <1>9, <1>10, <1>11, <1>12, <1>13, <1>14,
     <1>15, <1>16, <1>17, <1>18, <1>19, <1>20, <1>21, <1>22, <1>23, <1>24, <1>25, <1>26 DEF TokenStep

LEMMA SweepStepAnswers ==
  ASSUME HandInv, AnswerInv, NEW s \in Sweepers, SweepStep(s)
  PROVE  AnswerInv'
<1>1. UNCHANGED <<negotiations, tickets, minted, answers, pc, ticket, rec>>
  BY DEF SweepStep, FindConnections, FindChildren, SweepConnection, CascadeTo,
         storeVars, negVars, workVars
<1>2. SameGrants
  BY SameRpts, RevokeGrants
  DEF SweepStep, FindConnections, FindChildren, SweepConnection, CascadeTo, storeVars
<1> QED
  BY <1>1, <1>2, BystanderAnswers

LEMMA NextAnswers ==
  ASSUME HandInv, AnswerInv, [Next]_vars
  PROVE  AnswerInv'
<1>1. ASSUME NEW f \in Families, NEW tier \in Tiers, Perm(f, tier) PROVE AnswerInv'
  BY <1>1, PermAnswers
<1>2. ASSUME NEW f \in Families, Expire(f) PROVE AnswerInv'
  BY <1>2, ExpireAnswers
<1>3. ASSUME NEW w \in Workers, NEW t \in tickets, Present(w, t) PROVE AnswerInv'
  BY <1>3, PresentAnswers
<1>4. ASSUME NEW w \in Workers, TokenStep(w) PROVE AnswerInv'
  BY <1>4, TokenStepAnswers
<1>5. ASSUME NEW w \in Workers, Crash(w) PROVE AnswerInv'
  BY <1>5, RespondAnswers, SameRpts DEF Crash, storeVars, ownerVars
<1>6. ASSUME NEW f \in Families, NEW d \in Decisions, NEW by \in Deciders, Decide(f, d, by)
      PROVE  AnswerInv'
  BY <1>6, DecideAnswers
<1>7. ASSUME NEW s \in Sweepers, NEW h \in Agents, Revoke(s, h) PROVE AnswerInv'
  BY <1>7, BystanderAnswers, RevokeGrants DEF Revoke, negVars, workVars
<1>8. ASSUME NEW s \in Sweepers, NEW o \in Operators, BlockOperator(s, o) PROVE AnswerInv'
  BY <1>8, BystanderAnswers, SameRpts DEF BlockOperator, negVars, workVars
<1>9. ASSUME NEW o \in Operators, UnblockOperator(o) PROVE AnswerInv'
  BY <1>9, BystanderAnswers, SameRpts DEF UnblockOperator, negVars, workVars, ownerVars
<1>10. ASSUME NEW s \in Sweepers, SweepStep(s) PROVE AnswerInv'
  BY <1>10, SweepStepAnswers
<1>11. ASSUME NEW s \in Sweepers, CrashSweep(s) PROVE AnswerInv'
  BY <1>11, BystanderAnswers, SameRpts DEF CrashSweep, storeVars, negVars, workVars
<1>12. CASE UNCHANGED vars
  BY <1>12, BystanderAnswers, SameRpts DEF vars, storeVars, negVars, workVars, ownerVars
<1> QED
  BY <1>1, <1>2, <1>3, <1>4, <1>5, <1>6, <1>7, <1>8, <1>9, <1>10, <1>11, <1>12 DEF Next

LEMMA InitAnswers == Init => AnswerInv
<1> SUFFICES ASSUME Init PROVE AnswerInv
  OBVIOUS
<1>1. /\ tickets = {} /\ \A w \in Workers : pc[w] = "idle"
      /\ \A f \in Families : /\ negotiations[f].decision = "none" /\ negotiations[f].state = "none"
                             /\ answers[f].decision = "none"
  BY DEF Init, StoreInit, NoNegotiation, NoAnswer
<1> QED
  BY <1>1 DEF AnswerInv, AnswersOnRows, SpendersDontWait, HandsAnswered, HandleSurvives,
              DenialIsFinal, Pending, Waiting

(* Where an answer is, and what each request knows of it.                   *)
THEOREM AnswersHold == Spec => [](HandInv /\ AnswerInv)
<1>1. Init => HandInv /\ AnswerInv
  BY InitType, InitHand, InitAnswers DEF HandInv
<1>2. HandInv /\ AnswerInv /\ [Next]_vars => HandInv' /\ AnswerInv'
  BY NextType, NextHand, NextAnswers DEF HandInv
<1> QED
  BY <1>1, <1>2, PTL DEF Spec

(* While she has not answered, the agent's handle on her answer is alive,   *)
(* whatever request was interrupted, at whichever step.                     *)
THEOREM TheHandleSurvives == Spec => []HandleSurvives
<1>1. HandInv /\ AnswerInv => HandleSurvives
  BY DEF AnswerInv
<1> QED
  BY <1>1, AnswersHold, PTL

(* What she refused is never granted, by any request in any order.          *)
THEOREM ADenialIsFinal == Spec => []DenialIsFinal
<1>1. HandInv /\ AnswerInv => DenialIsFinal
  BY DEF AnswerInv
<1> QED
  BY <1>1, AnswersHold, PTL

-----------------------------------------------------------------------------
(* An answer stands: whatever writes the row keeps the decision that is on  *)
(* it.                                                                      *)

KeepsAnswers ==
  \A f \in Families :
    negotiations[f].decision # "none" /\ negotiations'[f].state # "none" =>
      /\ negotiations'[f].decision = negotiations[f].decision
      /\ negotiations'[f].by = negotiations[f].by

LEMMA MintKeepsAnswers ==
  ASSUME TypeOK, NEW g \in Families, NEW n \in Negotiation, MintTicket(g, n)
  PROVE  KeepsAnswers
<1>1. negotiations \in [Families -> Negotiation]
  BY DEF TypeOK, StoreTypeOK
<1> DEFINE m == [n EXCEPT !.expired = FALSE]
<1>2. m \in Negotiation
  BY DEF Negotiation
<1>3. negotiations' = [negotiations EXCEPT ![g] = KeepDecision(g, m)]
  BY DEF MintTicket
<1> HIDE DEF m
<1>4. negotiations[g].decision # "none" =>
        /\ KeepDecision(g, m).decision = negotiations[g].decision
        /\ KeepDecision(g, m).by = negotiations[g].by
  BY <1>2 DEF KeepDecision, Negotiation
<1> QED
  BY <1>1, <1>3, <1>4 DEF KeepsAnswers

LEMMA StepKeepsAnswers ==
  ASSUME TypeOK, [Next]_vars
  PROVE  KeepsAnswers
<1>1. negotiations' = negotiations => KeepsAnswers
  BY DEF KeepsAnswers
<1>2. /\ negotiations \in [Families -> Negotiation]
      /\ NoNegotiation.state = "none"
  BY DEF TypeOK, StoreTypeOK, NoNegotiation
<1>3. ASSUME NEW f \in Families, NEW tier \in Tiers, Perm(f, tier) PROVE KeepsAnswers
  <2>1. [NoNegotiation EXCEPT !.state = "issued", !.tier = tier] \in Negotiation
    BY DEF NoNegotiation, Negotiation, Handles
  <2> QED
    BY <1>3, <2>1, MintKeepsAnswers DEF Perm
<1>4. ASSUME NEW f \in Families, Expire(f) PROVE KeepsAnswers
  <2>1. negotiations' = [negotiations EXCEPT ![f].expired = TRUE]
    BY <1>4 DEF Expire
  <2> QED
    BY <1>2, <2>1 DEF KeepsAnswers, Negotiation
<1>5. ASSUME NEW w \in Workers, NEW t \in tickets, Present(w, t) PROVE KeepsAnswers
  BY <1>2, <1>5 DEF Present, ReapExpired, KeepsAnswers
<1>6. ASSUME NEW w \in Workers, TokenStep(w) PROVE KeepsAnswers
  <2>1. pc[w] # "idle" => Family(w) \in Families
    BY FamilyInHand, TypeParts
  <2>2. rec[w] \in Negotiation
    BY DEF TypeOK, WorkTypeOK
  <2>3. CASE DictateTerms(w)
    <3>1. [rec[w] EXCEPT !.state = "need_info"] \in Negotiation
      BY <2>2 DEF Negotiation
    <3> QED
      BY <2>1, <2>3, <3>1, MintKeepsAnswers DEF DictateTerms
  <2>4. CASE Pend(w)
    <3>1. [rec[w] EXCEPT !.state = "awaiting-owner"] \in Negotiation
      BY <2>2 DEF Negotiation
    <3> QED
      BY <2>1, <2>4, <3>1, MintKeepsAnswers DEF Pend
  <2>5. CASE Close(w)
    BY <1>2, <2>5 DEF Close, CloseNegotiation, KeepsAnswers
  <2>6. ASSUME ~DictateTerms(w), ~Pend(w), ~Close(w) PROVE negotiations' = negotiations
    BY <1>6, <2>6
    DEF TokenStep, Spend, ConsumeTicket, TurnAway, RejectClaim, Agree, ReadConnection,
        CheckIntroduction, CheckOperator, CheckQueue, CheckSponsor, PutIntroduced,
        RecheckSponsor, UndoIntroduction, NoteRevocations, IssueRpt, RefuseRpt, PollOperator,
        PollConnection, ReadPrior, AdmitConnection, NoteApproval, storeVars, negVars
  <2> QED
    BY <1>1, <2>3, <2>4, <2>5, <2>6
<1>7. ASSUME NEW w \in Workers, Crash(w) PROVE KeepsAnswers
  BY <1>1, <1>7 DEF Crash, storeVars
<1>8. ASSUME NEW f \in Families, NEW d \in Decisions, NEW by \in Deciders, Decide(f, d, by)
      PROVE  KeepsAnswers
  <2>1. /\ negotiations[f].decision = "none"
        /\ \A g \in Families \ {f} : negotiations'[g] = negotiations[g]
    BY <1>2, <1>8 DEF Decide, DecideNegotiation, Waiting
  <2> QED
    BY <2>1 DEF KeepsAnswers
<1>9. ASSUME NEW s \in Sweepers, NEW h \in Agents, Revoke(s, h) PROVE KeepsAnswers
  BY <1>1, <1>9 DEF Revoke, negVars
<1>10. ASSUME NEW s \in Sweepers, NEW o \in Operators, BlockOperator(s, o) PROVE KeepsAnswers
  BY <1>1, <1>10 DEF BlockOperator, negVars
<1>11. ASSUME NEW o \in Operators, UnblockOperator(o) PROVE KeepsAnswers
  BY <1>1, <1>11 DEF UnblockOperator, negVars
<1>12. ASSUME NEW s \in Sweepers, SweepStep(s) PROVE KeepsAnswers
  BY <1>1, <1>12 DEF SweepStep, FindConnections, FindChildren, SweepConnection, CascadeTo,
                     storeVars, negVars
<1>13. ASSUME NEW s \in Sweepers, CrashSweep(s) PROVE KeepsAnswers
  BY <1>1, <1>13 DEF CrashSweep, storeVars
<1>14. CASE UNCHANGED vars
  BY <1>1, <1>14 DEF vars, storeVars
<1> QED
  BY <1>3, <1>4, <1>5, <1>6, <1>7, <1>8, <1>9, <1>10, <1>11, <1>12, <1>13, <1>14 DEF Next

(* An answer stands for as long as its negotiation does: no request that    *)
(* writes back an older copy, and no second answer, changes it.             *)
THEOREM AnAnswerStands == Spec => AnswerStands
<1>1. TypeOK /\ [Next]_vars => [KeepsAnswers]_negotiations
  BY StepKeepsAnswers
<1>2. [KeepsAnswers]_negotiations <=>
        [\A f \in Families :
           negotiations[f].decision # "none" /\ negotiations[f]'.state # "none" =>
             /\ negotiations[f]'.decision = negotiations[f].decision
             /\ negotiations[f]'.by = negotiations[f].by]_negotiations
  BY DEF KeepsAnswers
<1> QED
  BY <1>1, <1>2, TypeCorrect, PTL DEF Spec, AnswerStands

-----------------------------------------------------------------------------
(* The second invariant: what a connection, a request's copy of one, and a  *)
(* grant rest on.  Each of these sets only grows, as an answer that has     *)
(* been given is never changed.                                             *)

Vouched == {a \in Agents : Known(a)}

SaidYes == {p \in Agents \X Tiers : HerYesAt(p[1], p[2])}

(* An agent at a tier, of so many revocations, that a rule of hers lets by. *)
ByRule ==
  {p \in Agents \X Tiers \X Nat :
     \E rule \in Relaxations[p[2]] : \A condition \in rule : Reason(condition, p[1], p[2], p[3])}

AnsweredYes ==
  {<<f, answers[f].handle, answers[f].tier>> : f \in {g \in Families : Yes(g)}}

Backed(a, c) ==
  /\ c.status = "active" => a \in Vouched
  /\ \A tier \in c.approved : <<a, tier>> \in SaidYes

(* The agent may have a grant there without her being asked.                *)
Automatic(a, tier, epoch) ==
  /\ a \in Vouched
  /\ tier \in AskMe => <<a, tier, epoch>> \in ByRule

ReadLabels == {"introduction", "operator", "queue", "vouch", "introduce", "recheck"}

PassedLabels == {"queue", "vouch", "introduce", "recheck"}

BackedHand(w) ==
  /\ pc[w] \in {"connection", "introduction"} => sponsor[w] \in {None, Sponsor[rec[w].handle]}
  /\ pc[w] = "introduction" => sponsor[w] # None
  /\ pc[w] \in ReadLabels => Backed(rec[w].handle, conn[w])
  /\ pc[w] \in PassedLabels /\ rec[w].kind = "none" => Automatic(rec[w].handle, rec[w].tier, conn[w].revocations)
  /\ pc[w] = "grant" => \/ <<Family(w), rec[w].handle, rec[w].tier>> \in AnsweredYes
                        \/ Automatic(rec[w].handle, rec[w].tier, conn[w].revocations)

ConnectionsBacked == \A a \in Agents : Backed(a, connections[a])

HandsBacked == \A w \in Workers : BackedHand(w)

GrantsBacked ==
  \A j \in Jtis : Recorded(j) =>
    /\ rpts[j].handle \in Agents /\ rpts[j].tier \in Tiers /\ rpts[j].family \in Families
    /\ \/ <<rpts[j].family, rpts[j].handle, rpts[j].tier>> \in AnsweredYes
       \/ Automatic(rpts[j].handle, rpts[j].tier, rpts[j].epoch)

BackedInv == ConnectionsBacked /\ HandsBacked /\ GrantsBacked

Grows ==
  /\ Vouched \subseteq Vouched' /\ SaidYes \subseteq SaidYes' /\ ByRule \subseteq ByRule'
  /\ AnsweredYes \subseteq AnsweredYes'

LEMMA AnswersGrow ==
  ASSUME \A f \in Families : answers'[f] = answers[f] \/ answers[f].decision = "none"
  PROVE  Grows
<1>1. \A a : Accepted(a) => Accepted(a)'
  BY DEF Accepted, Yes
<1>2. \A a, tier : HerYesAt(a, tier) => HerYesAt(a, tier)'
  BY DEF HerYesAt
<1>3. AnsweredYes \subseteq AnsweredYes'
  BY DEF AnsweredYes, Yes
<1>4. \A a : Known(a) => Known(a)'
  BY <1>1 DEF Known
<1>5. \A condition, a, tier, epoch :
        Reason(condition, a, tier, epoch) => Reason(condition, a, tier, epoch)'
  BY <1>2, <1>4 DEF Reason
<1>6. ByRule \subseteq ByRule'
  BY <1>5 DEF ByRule
<1> QED
  BY <1>2, <1>3, <1>4, <1>6 DEF Grows, Vouched, SaidYes

(* Answers are given once: to a request that waits.                         *)
LEMMA StepGrows ==
  ASSUME HandInv, AnswerInv, [Next]_vars
  PROVE  Grows
<1>1. \/ answers' = answers
      \/ \E f \in Families, d \in Decisions, by \in Deciders : Decide(f, d, by)
  BY DEF Next, Perm, Expire, Present, TokenStep, Spend, DictateTerms, TurnAway, RejectClaim,
         Agree, ReadConnection, CheckIntroduction, CheckOperator, CheckQueue, CheckSponsor,
         PutIntroduced, RecheckSponsor, UndoIntroduction, NoteRevocations, Pend, IssueRpt,
         RefuseRpt, Close, PollOperator, PollConnection, ReadPrior, AdmitConnection,
         NoteApproval, Crash, Revoke, BlockOperator, UnblockOperator, SweepStep,
         FindConnections, FindChildren, SweepConnection, CascadeTo, CrashSweep, vars, ownerVars
<1>2. CASE answers' = answers
  BY <1>2, AnswersGrow
<1>3. ASSUME NEW f \in Families, NEW d \in Decisions, NEW by \in Deciders, Decide(f, d, by)
      PROVE  Grows
  <2>1. answers[f].decision = "none"
    BY <1>3 DEF Decide, DecideNegotiation, Waiting, AnswerInv, AnswersOnRows
  <2>2. \A g \in Families \ {f} : answers'[g] = answers[g]
    BY <1>3 DEF Decide, HandInv, TypeOK, OwnerTypeOK
  <2> QED
    BY <2>1, <2>2, AnswersGrow
<1> QED
  BY <1>1, <1>2, <1>3

(* What keeps the parts of the second invariant.                            *)
SameHand(v) ==
  /\ pc'[v] = pc[v] /\ ticket'[v] = ticket[v] /\ rec'[v] = rec[v]
  /\ conn'[v] = conn[v] /\ sponsor'[v] = sponsor[v]

RestLabels == {"idle", "spend", "agree", "undo", "ask", "pend", "close"} \cup PollLabels

RestHand(v) == pc'[v] \in RestLabels

LEMMA HandStays ==
  ASSUME NEW v \in Workers, BackedHand(v), Grows, SameHand(v) \/ RestHand(v)
  PROVE  BackedHand(v)'
<1>1. CASE SameHand(v)
  <2>1. Family(v)' = Family(v)
    BY <1>1 DEF SameHand, Family
  <2>2. Backed(rec[v].handle, conn[v]) => Backed(rec[v].handle, conn[v])'
    BY <1>1 DEF SameHand, Backed, Grows
  <2>3. Automatic(rec[v].handle, rec[v].tier, conn[v].revocations) => Automatic(rec[v].handle, rec[v].tier, conn[v].revocations)'
    BY <1>1 DEF SameHand, Automatic, Grows
  <2> QED
    BY <1>1, <2>1, <2>2, <2>3 DEF BackedHand, SameHand, Grows
<1>2. CASE RestHand(v)
  BY <1>2 DEF RestHand, RestLabels, PollLabels, BackedHand, ReadLabels, PassedLabels
<1> QED
  BY <1>1, <1>2

SameConnections ==
  \A a \in Agents :
    /\ connections'[a].approved \subseteq connections[a].approved
    /\ connections'[a].status = "active" => connections[a].status = "active"

LEMMA ConnectionsStay ==
  ASSUME ConnectionsBacked, Grows, SameConnections
  PROVE  ConnectionsBacked'
  BY DEF ConnectionsBacked, Grows, SameConnections, Backed

SameRows ==
  \A j \in Jtis : /\ rpts'[j].status = "none" <=> rpts[j].status = "none"
                  /\ rpts'[j].family = rpts[j].family
                  /\ rpts'[j].handle = rpts[j].handle
                  /\ rpts'[j].tier = rpts[j].tier
                  /\ rpts'[j].epoch = rpts[j].epoch

LEMMA RevocationStays ==
  ASSUME StoreTypeOK, NEW h \in Agents, RevokeConnection(h)
  PROVE  SameConnections /\ SameRows
  BY DEF RevokeConnection, SameConnections, SameRows, StoreTypeOK, Connection, Rpt

LEMMA GrantsStay ==
  ASSUME GrantsBacked, Grows, SameRows
  PROVE  GrantsBacked'
  BY DEF GrantsBacked, Grows, SameRows, Automatic, Recorded

LEMMA SameStays ==
  /\ connections' = connections => SameConnections
  /\ rpts' = rpts => SameRows
  BY DEF SameConnections, SameRows

(* Revocations, and steps that touch no connection, of nobody's request.    *)
LEMMA BystanderBacked ==
  ASSUME BackedInv, Grows, SameConnections, SameRows, \A v \in Workers : SameHand(v) \/ RestHand(v)
  PROVE  BackedInv'
  BY HandStays, ConnectionsStay, GrantsStay DEF BackedInv, HandsBacked

(* One request moves: the others, and what is on record, stay as they were. *)
LEMMA MoverBacked ==
  ASSUME BackedInv, Grows, SameConnections, SameRows, NEW w \in Workers, BackedHand(w)',
         \A v \in Workers \ {w} : SameHand(v)
  PROVE  BackedInv'
  BY HandStays, ConnectionsStay, GrantsStay DEF BackedInv, HandsBacked

(* The steps of a request that take it somewhere in the second invariant.   *)
LEMMA AgreeBacked ==
  ASSUME HandInv, BackedInv, Grows, NEW w \in Workers, NEW a \in Agents,
         NEW i \in {None, Sponsor[a]}, Agree(w, a, i)
  PROVE  BackedInv'
<1>1. /\ pc' = [pc EXCEPT ![w] = "connection"] /\ rec' = [rec EXCEPT ![w].handle = a]
      /\ sponsor' = [sponsor EXCEPT ![w] = i]
      /\ UNCHANGED <<connections, rpts, ticket, conn>>
  BY DEF Agree, Goto, storeVars
<1>2. /\ pc'[w] = "connection" /\ rec'[w].handle = a /\ sponsor'[w] = i
      /\ \A v \in Workers \ {w} : SameHand(v)
  BY <1>1 DEF SameHand, HandInv, TypeOK, WorkTypeOK, Negotiation
<1>3. BackedHand(w)'
  BY <1>2 DEF BackedHand, ReadLabels, PassedLabels
<1> QED
  BY <1>1, <1>2, <1>3, MoverBacked, SameStays

LEMMA ReadConnectionBacked ==
  ASSUME HandInv, BackedInv, Grows, NEW w \in Workers, ReadConnection(w)
  PROVE  BackedInv'
<1>1. /\ pc[w] = "connection" /\ UNCHANGED <<connections, rpts, ticket, rec>>
      /\ conn' = [conn EXCEPT ![w] = connections[rec[w].handle]]
      /\ \/ Goto(w, "introduction") /\ sponsor[w] # None /\ UNCHANGED sponsor
         \/ Goto(w, "operator") /\ sponsor' = [sponsor EXCEPT ![w] = None]
  BY DEF ReadConnection, storeVars
<1>2. /\ conn'[w] = connections[rec[w].handle] /\ rec[w].handle \in Agents
      /\ \/ pc'[w] = "introduction" /\ sponsor[w] # None /\ sponsor'[w] = sponsor[w]
         \/ pc'[w] = "operator"
      /\ \A v \in Workers \ {w} : SameHand(v)
  BY <1>1 DEF Goto, SameHand, HandInv, TypeOK, WorkTypeOK, InHand
<1>3. Backed(rec[w].handle, conn[w])'
  BY <1>1, <1>2 DEF BackedInv, ConnectionsBacked, Backed, Grows
<1>4. BackedHand(w)'
  BY <1>1, <1>2, <1>3 DEF BackedInv, HandsBacked, BackedHand, ReadLabels, PassedLabels
<1> QED
  BY <1>1, <1>2, <1>4, MoverBacked, SameStays

(* An introduction is honoured of an agent that she has said yes to.        *)
LEMMA CheckIntroductionBacked ==
  ASSUME HandInv, BackedInv, Grows, NEW w \in Workers, CheckIntroduction(w)
  PROVE  BackedInv'
<1>1. /\ pc[w] = "introduction" /\ pc' = [pc EXCEPT ![w] = "operator"]
      /\ UNCHANGED <<connections, rpts, ticket, rec>>
      /\ \/ /\ Admissible(sponsor[w], conn[w])
            /\ conn' = [conn EXCEPT ![w].status = "active", ![w].parent = sponsor[w],
                                    ![w].approved = {}]
            /\ UNCHANGED sponsor
         \/ UNCHANGED conn /\ sponsor' = [sponsor EXCEPT ![w] = None]
  BY DEF CheckIntroduction, Goto, storeVars
<1>2. /\ pc'[w] = "operator" /\ rec[w].handle \in Agents /\ sponsor[w] \in Handles
      /\ conn[w] \in Connection
      /\ \A v \in Workers \ {w} : SameHand(v)
  BY <1>1 DEF SameHand, HandInv, TypeOK, WorkTypeOK, InHand
<1>3. /\ sponsor[w] = Sponsor[rec[w].handle] /\ sponsor[w] # None
      /\ Backed(rec[w].handle, conn[w])
  BY <1>1 DEF BackedInv, HandsBacked, BackedHand, ReadLabels
<1>4. Backed(rec[w].handle, conn[w])'
  <2>1. CASE /\ Admissible(sponsor[w], conn[w])
             /\ conn' = [conn EXCEPT ![w].status = "active", ![w].parent = sponsor[w],
                                     ![w].approved = {}]
    <3>1. conn'[w].approved = {}
      BY <1>2, <2>1 DEF Connection, HandInv, TypeOK, WorkTypeOK
    <3>2. connections[sponsor[w]].approved # {} /\ sponsor[w] \in Agents
      BY <1>2, <1>3, <2>1 DEF Admissible, Handles
    <3>3. PICK tier \in Tiers : <<sponsor[w], tier>> \in SaidYes
      BY <3>2 DEF BackedInv, ConnectionsBacked, Backed, HandInv, TypeOK, StoreTypeOK, Connection
    <3>4. HerYesAt(sponsor[w], tier)
      BY <3>3 DEF SaidYes
    <3>5. Accepted(sponsor[w])
      BY <3>4 DEF HerYesAt, Accepted, Yes
    <3>6. rec[w].handle \in Vouched
      BY <1>2, <1>3, <3>5 DEF Vouched, Known
    <3> QED
      BY <1>1, <3>1, <3>6 DEF Backed, Grows
  <2>2. CASE UNCHANGED conn
    BY <1>1, <1>3, <2>2 DEF Backed, Grows
  <2> QED
    BY <1>1, <2>1, <2>2
<1>5. BackedHand(w)'
  BY <1>2, <1>4 DEF BackedHand, PassedLabels
<1> QED
  BY <1>1, <1>2, <1>5, MoverBacked, SameStays

(* Her rules relax over what their conditions find, and that had a reason.  *)
LEMMA CheckOperatorBacked ==
  ASSUME HandInv, BackedInv, Grows, NEW w \in Workers, CheckOperator(w)
  PROVE  BackedInv'
<1> DEFINE a == rec[w].handle
           tier == rec[w].tier
<1>1. /\ pc[w] = "operator" /\ UNCHANGED <<connections, rpts, ticket, conn, sponsor>>
      /\ \/ Goto(w, "close") /\ UNCHANGED rec
         \/ \E requirement \in Requirements(tier, a, conn[w]) \ {"refuse"} :
              /\ rec' = [rec EXCEPT ![w].kind = KindOf(requirement, conn[w])]
              /\ \/ Goto(w, "queue")
                 \/ Goto(w, AfterGates(KindOf(requirement, conn[w])))
  BY DEF CheckOperator, storeVars
<1>2. Backed(a, conn[w]) /\ a \in Agents /\ tier \in Tiers
  BY <1>1 DEF BackedInv, HandsBacked, BackedHand, ReadLabels, HandInv, TypeOK, InHand
<1>3. CASE Goto(w, "close") /\ UNCHANGED rec
  <2>1. RestHand(w) /\ \A v \in Workers \ {w} : SameHand(v)
    BY <1>1, <1>3 DEF Goto, SameHand, RestHand, RestLabels, HandInv, TypeOK, WorkTypeOK
  <2> QED
    BY <1>1, <2>1, BystanderBacked, SameStays
<1>4. ASSUME NEW requirement \in Requirements(tier, a, conn[w]) \ {"refuse"},
             rec' = [rec EXCEPT ![w].kind = KindOf(requirement, conn[w])],
             Goto(w, "queue") \/ Goto(w, AfterGates(KindOf(requirement, conn[w])))
      PROVE  BackedInv'
  <2> DEFINE kind == KindOf(requirement, conn[w])
  <2>1. /\ rec'[w].kind = kind /\ rec'[w].handle = a /\ rec'[w].tier = tier
        /\ pc'[w] = "queue" \/ pc'[w] = AfterGates(kind)
        /\ \A v \in Workers \ {w} : SameHand(v)
    BY <1>1, <1>4 DEF Goto, SameHand, HandInv, TypeOK, WorkTypeOK, Negotiation
  <2>2. kind = "none" => Automatic(rec[w].handle, rec[w].tier, conn[w].revocations)'
    <3> SUFFICES ASSUME kind = "none" PROVE Automatic(a, tier, conn[w].revocations)
      BY <1>1, <2>1 DEF Automatic, Grows
    <3>1. conn[w].status = "active" /\ requirement # "ask"
      BY DEF KindOf
    <3>2. "auto" \in Requirements(tier, a, conn[w])
      BY <3>1 DEF Requirements
    <3>3. tier \in AskMe => Relaxed(tier, a, conn[w])
      BY <3>2 DEF Requirements
    <3>4. \A condition : Holds(condition, tier, a, conn[w]) =>
                           Reason(condition, a, tier, conn[w].revocations)
      BY <1>2, <3>1 DEF Holds, Reason, Backed, Vouched, SaidYes
    <3>5. conn[w].revocations \in Nat
      BY DEF HandInv, TypeOK, WorkTypeOK, Connection
    <3>6. tier \in AskMe => <<a, tier, conn[w].revocations>> \in ByRule
      BY <1>2, <3>3, <3>4, <3>5 DEF Relaxed, ByRule
    <3> QED
      BY <1>2, <3>1, <3>6 DEF Backed, Automatic
  <2>3. Backed(rec[w].handle, conn[w])'
    BY <1>1, <1>2, <2>1 DEF Backed, Grows
  <2> HIDE DEF kind
  <2>4. BackedHand(w)'
    BY <2>1, <2>2, <2>3 DEF BackedHand, AfterGates, PassedLabels
  <2> QED
    BY <1>1, <2>1, <2>4, MoverBacked, SameStays
<1> QED
  BY <1>1, <1>3, <1>4

(* From her rules to the grant: what was decided is not looked at again.    *)
LEMMA OnwardBacked ==
  ASSUME HandInv, BackedInv, Grows, NEW w \in Workers, NEW l, pc[w] \in PassedLabels, Goto(w, l),
         l \in {"vouch", "introduce", "recheck"} \/ l = AfterGates(rec[w].kind),
         UNCHANGED <<ticket, rec, conn, sponsor>>
  PROVE  BackedHand(w)' /\ \A v \in Workers \ {w} : SameHand(v)
<1>1. pc'[w] = l /\ \A v \in Workers \ {w} : SameHand(v)
  BY DEF Goto, SameHand, HandInv, TypeOK, WorkTypeOK
<1>2. Backed(rec[w].handle, conn[w])'
  BY DEF BackedInv, HandsBacked, BackedHand, PassedLabels, ReadLabels, Backed, Grows
<1>3. rec[w].kind = "none" => Automatic(rec[w].handle, rec[w].tier, conn[w].revocations)'
  BY DEF BackedInv, HandsBacked, BackedHand, Automatic, Grows
<1>4. BackedHand(w)'
  BY <1>1, <1>2, <1>3 DEF BackedHand, PassedLabels, AfterGates
<1> QED
  BY <1>1, <1>4

LEMMA CheckQueueBacked ==
  ASSUME HandInv, BackedInv, Grows, NEW w \in Workers, CheckQueue(w)
  PROVE  BackedInv'
<1>1. /\ pc[w] = "queue" /\ UNCHANGED <<connections, rpts, ticket, rec, conn, sponsor>>
      /\ Goto(w, "close") \/ Goto(w, "vouch") \/ Goto(w, AfterGates(rec[w].kind))
  BY DEF CheckQueue, storeVars
<1>2. CASE Goto(w, "close")
  <2>1. RestHand(w) /\ \A v \in Workers \ {w} : SameHand(v)
    BY <1>1, <1>2 DEF Goto, SameHand, RestHand, RestLabels, HandInv, TypeOK, WorkTypeOK
  <2> QED
    BY <1>1, <2>1, BystanderBacked, SameStays
<1>3. ASSUME NEW l \in {"vouch", AfterGates(rec[w].kind)}, Goto(w, l) PROVE BackedInv'
  <2>1. pc[w] \in PassedLabels
    BY <1>1 DEF PassedLabels
  <2> QED
    BY <1>1, <1>3, <2>1, OnwardBacked, MoverBacked, SameStays
<1> QED
  BY <1>1, <1>2, <1>3

LEMMA CheckSponsorBacked ==
  ASSUME HandInv, BackedInv, Grows, NEW w \in Workers, CheckSponsor(w)
  PROVE  BackedInv'
<1>1. /\ pc[w] = "vouch" /\ UNCHANGED <<connections, rpts, ticket, rec, conn, sponsor>>
      /\ Goto(w, "close") \/ Goto(w, "introduce")
  BY DEF CheckSponsor, storeVars
<1>2. CASE Goto(w, "close")
  <2>1. RestHand(w) /\ \A v \in Workers \ {w} : SameHand(v)
    BY <1>1, <1>2 DEF Goto, SameHand, RestHand, RestLabels, HandInv, TypeOK, WorkTypeOK
  <2> QED
    BY <1>1, <2>1, BystanderBacked, SameStays
<1>3. CASE Goto(w, "introduce")
  <2>1. pc[w] \in PassedLabels
    BY <1>1 DEF PassedLabels
  <2> QED
    BY <1>1, <1>3, <2>1, OnwardBacked, MoverBacked, SameStays
<1> QED
  BY <1>1, <1>2, <1>3

(* The connection that is written is the copy in hand, and rests on what    *)
(* the copy rests on.                                                       *)
LEMMA PutIntroducedBacked ==
  ASSUME HandInv, BackedInv, Grows, NEW w \in Workers, PutIntroduced(w)
  PROVE  BackedInv'
<1>1. /\ pc[w] = "introduce" /\ UNCHANGED <<rpts, ticket, rec, conn, sponsor>>
      /\ connections' = [connections EXCEPT ![rec[w].handle] = conn[w]]
      /\ Goto(w, "recheck")
  BY DEF PutIntroduced, PutConnection
<1>2. pc[w] \in PassedLabels
  BY <1>1 DEF PassedLabels
<1>3. BackedHand(w)' /\ \A v \in Workers \ {w} : SameHand(v)
  BY <1>1, <1>2, OnwardBacked
<1>4. Backed(rec[w].handle, conn[w])
  BY <1>1 DEF BackedInv, HandsBacked, BackedHand, ReadLabels
<1>5. ConnectionsBacked'
  BY <1>1, <1>4 DEF BackedInv, ConnectionsBacked, Backed, Grows, HandInv, TypeOK, StoreTypeOK
<1>6. GrantsBacked'
  BY <1>1, GrantsStay, SameStays DEF BackedInv
<1>7. HandsBacked'
  BY <1>3, HandStays DEF BackedInv, HandsBacked
<1> QED
  BY <1>5, <1>6, <1>7 DEF BackedInv

LEMMA RecheckSponsorBacked ==
  ASSUME HandInv, BackedInv, Grows, NEW w \in Workers, RecheckSponsor(w)
  PROVE  BackedInv'
<1>1. /\ pc[w] = "recheck" /\ UNCHANGED <<connections, rpts, ticket, rec, conn, sponsor>>
      /\ Goto(w, "undo") \/ Goto(w, AfterGates(rec[w].kind))
  BY DEF RecheckSponsor, storeVars
<1>2. CASE Goto(w, "undo")
  <2>1. RestHand(w) /\ \A v \in Workers \ {w} : SameHand(v)
    BY <1>1, <1>2 DEF Goto, SameHand, RestHand, RestLabels, HandInv, TypeOK, WorkTypeOK
  <2> QED
    BY <1>1, <2>1, BystanderBacked, SameStays
<1>3. CASE Goto(w, AfterGates(rec[w].kind))
  <2>1. pc[w] \in PassedLabels
    BY <1>1 DEF PassedLabels
  <2> QED
    BY <1>1, <1>3, <2>1, OnwardBacked, MoverBacked, SameStays
<1> QED
  BY <1>1, <1>2, <1>3

(* A grant that is recorded rests on what the request at "grant" rests on.  *)
LEMMA IssueBacked ==
  ASSUME HandInv, BackedInv, Grows, NEW w \in Workers, NEW j \in Jtis, IssueRpt(w, j)
  PROVE  BackedInv'
<1>1. /\ pc[w] = "grant" /\ UNCHANGED <<connections, ticket, rec, conn, sponsor>>
      /\ rpts' = [rpts EXCEPT ![j] = [status |-> "live", family |-> Family(w),
                                      handle |-> rec[w].handle, tier |-> rec[w].tier,
                                      epoch |-> conn[w].revocations]]
      /\ Goto(w, "close")
  BY DEF IssueRpt, RecordRpt
<1>2. RestHand(w) /\ \A v \in Workers \ {w} : SameHand(v)
  BY <1>1 DEF Goto, SameHand, RestHand, RestLabels, HandInv, TypeOK, WorkTypeOK
<1>3. /\ Family(w) \in Families /\ rec[w].handle \in Agents /\ rec[w].tier \in Tiers
      /\ \/ <<Family(w), rec[w].handle, rec[w].tier>> \in AnsweredYes
         \/ Automatic(rec[w].handle, rec[w].tier, conn[w].revocations)
  BY <1>1, FamilyInHand, TypeParts DEF HandInv, HandsOK, InHand, BackedInv, HandsBacked, BackedHand
<1>4. /\ rpts'[j].family = Family(w) /\ rpts'[j].handle = rec[w].handle /\ rpts'[j].tier = rec[w].tier
      /\ rpts'[j].epoch = conn[w].revocations
      /\ \A i \in Jtis \ {j} : rpts'[i] = rpts[i]
  BY <1>1 DEF HandInv, TypeOK, StoreTypeOK
<1>5. GrantsBacked'
  <2> SUFFICES ASSUME NEW i \in Jtis, Recorded(i)'
               PROVE  /\ rpts'[i].handle \in Agents /\ rpts'[i].tier \in Tiers
                      /\ rpts'[i].family \in Families
                      /\ \/ <<rpts'[i].family, rpts'[i].handle, rpts'[i].tier>> \in AnsweredYes'
                         \/ Automatic(rpts[i].handle, rpts[i].tier, rpts[i].epoch)'
    BY DEF GrantsBacked
  <2>1. CASE i = j
    <3>1. Automatic(rec[w].handle, rec[w].tier, conn[w].revocations) => Automatic(rpts[i].handle, rpts[i].tier, rpts[i].epoch)'
      BY <1>4, <2>1 DEF Automatic, Grows
    <3> QED
      BY <1>3, <1>4, <2>1, <3>1 DEF Grows
  <2>2. CASE i # j
    <3>1. rpts'[i] = rpts[i] /\ Recorded(i)
      BY <1>4, <2>2 DEF Recorded
    <3> QED
      BY <3>1 DEF BackedInv, GrantsBacked, Automatic, Grows
  <2> QED
    BY <2>1, <2>2
<1>6. ConnectionsBacked'
  BY <1>1, ConnectionsStay, SameStays DEF BackedInv
<1>7. HandsBacked'
  BY <1>2, HandStays DEF BackedInv, HandsBacked
<1> QED
  BY <1>5, <1>6, <1>7 DEF BackedInv

(* A first contact she accepted: the new connection rests on that answer.   *)
LEMMA AdmitBacked ==
  ASSUME HandInv, AnswerInv, BackedInv, Grows, NEW w \in Workers, AdmitConnection(w)
  PROVE  BackedInv'
<1> DEFINE c == [NoConnection EXCEPT !.status = "active", !.revocations = conn[w].revocations]
<1>1. /\ pc[w] = "admit" /\ UNCHANGED <<rpts, ticket, rec, conn, sponsor, answers>>
      /\ connections' = [connections EXCEPT ![rec[w].handle] = c]
      /\ Goto(w, "approval")
  BY DEF AdmitConnection, PutConnection, ownerVars
<1>2. RestHand(w) /\ \A v \in Workers \ {w} : SameHand(v)
  BY <1>1 DEF Goto, SameHand, RestHand, RestLabels, PollLabels, HandInv, TypeOK, WorkTypeOK
<1>3. Family(w) \in Families /\ rec[w].handle \in Agents
  BY <1>1, FamilyInHand, TypeParts DEF HandInv, HandsOK, InHand
<1>4. rec[w].decision = "approved" /\ answers[Family(w)] = AnswerOf(rec[w])
  BY <1>1 DEF AnswerInv, HandsAnswered, Stage, PollLabels
<1>5. rec[w].handle \in Vouched
  BY <1>3, <1>4 DEF AnswerOf, Vouched, Known, Accepted, Yes
<1>6. c.approved = {}
  BY DEF NoConnection
<1>7. ConnectionsBacked'
  BY <1>1, <1>5, <1>6 DEF BackedInv, ConnectionsBacked, Backed, Grows, HandInv, TypeOK, StoreTypeOK
<1>8. GrantsBacked'
  BY <1>1, GrantsStay, SameStays DEF BackedInv
<1>9. HandsBacked'
  BY <1>2, HandStays DEF BackedInv, HandsBacked
<1> QED
  BY <1>7, <1>8, <1>9 DEF BackedInv

(* What is noted as her approval at a tier is an answer of hers at that     *)
(* tier, and the grant that follows rests on the same answer.               *)
LEMMA NoteApprovalBacked ==
  ASSUME HandInv, AnswerInv, BackedInv, Grows, NEW w \in Workers, NoteApproval(w)
  PROVE  BackedInv'
<1> DEFINE a == rec[w].handle
           tier == rec[w].tier
<1>1. /\ pc[w] = "approval" /\ UNCHANGED <<rpts, ticket, rec, conn, sponsor, answers>>
      /\ \/ rec[w].by = "owner" /\ NoteTierApproval(a, tier)
         \/ UNCHANGED connections
      /\ Goto(w, "grant")
  BY DEF NoteApproval, ownerVars
<1>2. pc'[w] = "grant" /\ \A v \in Workers \ {w} : SameHand(v)
  BY <1>1 DEF Goto, SameHand, HandInv, TypeOK, WorkTypeOK
<1>3. Family(w) \in Families /\ a \in Agents /\ tier \in Tiers
  BY <1>1, FamilyInHand, TypeParts DEF HandInv, HandsOK, InHand
<1>4. rec[w].decision = "approved" /\ answers[Family(w)] = AnswerOf(rec[w])
  BY <1>1 DEF AnswerInv, HandsAnswered, Stage, PollLabels
<1>5. <<Family(w), a, tier>> \in AnsweredYes
  BY <1>3, <1>4 DEF AnswerOf, AnsweredYes, Yes
<1>6. BackedHand(w)'
  <2>1. Family(w)' = Family(w)
    BY <1>1 DEF Family
  <2> QED
    BY <1>1, <1>2, <1>5, <2>1 DEF BackedHand, ReadLabels, PassedLabels, Grows
<1>7. ConnectionsBacked'
  <2>1. CASE UNCHANGED connections
    BY <2>1, ConnectionsStay, SameStays DEF BackedInv
  <2>2. CASE rec[w].by = "owner" /\ NoteTierApproval(a, tier)
    <3>1. <<a, tier>> \in SaidYes
      BY <1>3, <1>4, <2>2 DEF AnswerOf, SaidYes, HerYesAt
    <3>2. \A h \in Agents :
            /\ connections'[h].status = connections[h].status
            /\ connections'[h].approved \subseteq
                 connections[h].approved \cup (IF h = a THEN {tier} ELSE {})
      BY <1>3, <2>2 DEF NoteTierApproval, HandInv, TypeOK, StoreTypeOK, Connection
    <3> QED
      BY <3>1, <3>2 DEF BackedInv, ConnectionsBacked, Backed, Grows
  <2> QED
    BY <1>1, <2>1, <2>2
<1>8. GrantsBacked'
  BY <1>1, GrantsStay, SameStays DEF BackedInv
<1>9. HandsBacked'
  BY <1>2, <1>6, HandStays DEF BackedInv, HandsBacked
<1> QED
  BY <1>7, <1>8, <1>9 DEF BackedInv

(* The steps that leave a request where nothing is asked of it, and touch   *)
(* neither a connection nor a grant.                                        *)
LEMMA RestBacked ==
  ASSUME HandInv, BackedInv, Grows, NEW w \in Workers, UNCHANGED <<connections, rpts>>,
         pc'[w] \in RestLabels, \A v \in Workers \ {w} : SameHand(v)
  PROVE  BackedInv'
  BY BystanderBacked, SameStays DEF RestHand

LEMMA GotoRestBacked ==
  ASSUME HandInv, BackedInv, Grows, NEW w \in Workers, NEW l \in RestLabels, Goto(w, l),
         UNCHANGED <<connections, rpts, ticket, sponsor>>,
         rec' = rec \/ \E n : rec' = [rec EXCEPT ![w] = n],
         conn' = conn \/ \E c : conn' = [conn EXCEPT ![w] = c]
  PROVE  BackedInv'
<1>1. pc'[w] \in RestLabels /\ \A v \in Workers \ {w} : SameHand(v)
  BY DEF Goto, SameHand, HandInv, TypeOK, WorkTypeOK
<1> QED
  BY <1>1, RestBacked

LEMMA RespondBacked ==
  ASSUME HandInv, BackedInv, Grows, NEW w \in Workers, Respond(w), UNCHANGED <<connections, rpts>>
  PROVE  BackedInv'
<1>1. pc'[w] \in RestLabels /\ \A v \in Workers \ {w} : SameHand(v)
  BY DEF Respond, RestLabels, SameHand, HandInv, TypeOK, WorkTypeOK
<1> QED
  BY <1>1, RestBacked

LEMMA SpendBacked ==
  ASSUME HandInv, BackedInv, Grows, NEW w \in Workers, Spend(w)
  PROVE  BackedInv'
<1>1. UNCHANGED <<connections, rpts>>
  BY DEF Spend
<1>2. CASE Respond(w)
  BY <1>1, <1>2, RespondBacked
<1>3. CASE ~Respond(w)
  <2>1. /\ Goto(w, Disposition(negotiations[Family(w)]))
        /\ rec' = [rec EXCEPT ![w] = negotiations[Family(w)]]
        /\ UNCHANGED <<ticket, conn, sponsor>>
    BY <1>3 DEF Spend
  <2>2. Disposition(negotiations[Family(w)]) \in RestLabels
    BY DEF Disposition, RestLabels, PollLabels
  <2> QED
    BY <1>1, <2>1, <2>2, GotoRestBacked
<1> QED
  BY <1>2, <1>3

(* Revocations end connections, and spend grants.                           *)
LEMMA UndoBacked ==
  ASSUME HandInv, BackedInv, Grows, NEW w \in Workers, UndoIntroduction(w)
  PROVE  BackedInv'
<1>1. /\ pc[w] = "undo" /\ RevokeConnection(rec[w].handle) /\ Goto(w, "close")
      /\ UNCHANGED <<ticket, rec, conn, sponsor>>
  BY DEF UndoIntroduction
<1>2. rec[w].handle \in Agents
  BY <1>1 DEF HandInv, TypeOK, InHand
<1>3. \A v \in Workers : SameHand(v) \/ RestHand(v)
  BY <1>1 DEF Goto, SameHand, RestHand, RestLabels, HandInv, TypeOK, WorkTypeOK
<1>4. SameConnections /\ SameRows
  BY <1>1, <1>2, RevocationStays DEF HandInv, TypeOK
<1> QED
  BY <1>3, <1>4, BystanderBacked

LEMMA TokenStepBacked ==
  ASSUME HandInv, AnswerInv, BackedInv, Grows, NEW w \in Workers, TokenStep(w)
  PROVE  BackedInv'
<1> USE DEF RestLabels, PollLabels
<1>1. CASE Spend(w)
  BY <1>1, SpendBacked
<1>2. CASE DictateTerms(w)
  BY <1>2, RespondBacked DEF DictateTerms
<1>3. CASE TurnAway(w)
  BY <1>3, GotoRestBacked DEF TurnAway, storeVars
<1>4. CASE RejectClaim(w)
  BY <1>4, RespondBacked DEF RejectClaim, storeVars
<1>5. ASSUME NEW a \in Agents, NEW i \in {None, Sponsor[a]}, Agree(w, a, i) PROVE BackedInv'
  BY <1>5, AgreeBacked
<1>6. CASE ReadConnection(w)
  BY <1>6, ReadConnectionBacked
<1>7. CASE CheckIntroduction(w)
  BY <1>7, CheckIntroductionBacked
<1>8. CASE CheckOperator(w)
  BY <1>8, CheckOperatorBacked
<1>9. CASE CheckQueue(w)
  BY <1>9, CheckQueueBacked
<1>10. CASE CheckSponsor(w)
  BY <1>10, CheckSponsorBacked
<1>11. CASE PutIntroduced(w)
  BY <1>11, PutIntroducedBacked
<1>12. CASE RecheckSponsor(w)
  BY <1>12, RecheckSponsorBacked
<1>13. CASE UndoIntroduction(w)
  BY <1>13, UndoBacked
<1>14. CASE NoteRevocations(w)
  <2>1. rec' = [rec EXCEPT ![w] = [rec[w] EXCEPT !.seen = connections[rec[w].handle].revocations]]
    BY <1>14 DEF NoteRevocations
  <2> QED
    BY <1>14, <2>1, GotoRestBacked DEF NoteRevocations, storeVars
<1>15. CASE Pend(w)
  BY <1>15, RespondBacked DEF Pend
<1>16. ASSUME NEW j \in Jtis, IssueRpt(w, j) PROVE BackedInv'
  BY <1>16, IssueBacked
<1>17. CASE RefuseRpt(w)
  BY <1>17, RespondBacked DEF RefuseRpt, storeVars
<1>18. CASE Close(w)
  BY <1>18, RespondBacked DEF Close
<1>19. CASE PollOperator(w)
  BY <1>19, GotoRestBacked DEF PollOperator, storeVars
<1>20. CASE PollConnection(w)
  BY <1>20, GotoRestBacked DEF PollConnection, storeVars
<1>21. CASE ReadPrior(w)
  BY <1>21, GotoRestBacked DEF ReadPrior, storeVars
<1>22. CASE AdmitConnection(w)
  BY <1>22, AdmitBacked
<1>23. CASE NoteApproval(w)
  BY <1>23, NoteApprovalBacked
<1> QED
  BY <1>1, <1>2, <1>3, <1>4, <1>5, <1>6, <1>7, <1>8, <1>9, <1>10, <1>11, <1>12, <1>13,
     <1>14, <1>15, <1>16, <1>17, <1>18, <1>19, <1>20, <1>21, <1>22, <1>23 DEF TokenStep

LEMMA PresentBacked ==
  ASSUME HandInv, BackedInv, Grows, NEW w \in Workers, NEW t \in tickets, Present(w, t)
  PROVE  BackedInv'
<1>1. /\ pc[w] = "idle" /\ UNCHANGED <<rpts, connections, rec, conn, sponsor>>
      /\ \/ UNCHANGED <<pc, ticket>>
         \/ Goto(w, "spend") /\ ticket' = [ticket EXCEPT ![w] = t]
  BY DEF Present
<1>2. pc'[w] \in RestLabels /\ \A v \in Workers \ {w} : SameHand(v)
  BY <1>1 DEF Goto, RestLabels, SameHand, HandInv, TypeOK, WorkTypeOK
<1> QED
  BY <1>1, <1>2, RestBacked

LEMMA NextBacked ==
  ASSUME HandInv, AnswerInv, BackedInv, [Next]_vars
  PROVE  BackedInv'
<1> Grows
  BY StepGrows
<1>1. UNCHANGED workVars => \A v \in Workers : SameHand(v)
  BY DEF workVars, SameHand
<1>2. UNCHANGED <<workVars, connections, rpts>> => BackedInv'
  BY <1>1, BystanderBacked, SameStays
<1>3. ASSUME NEW h \in Agents, RevokeConnection(h), UNCHANGED workVars PROVE BackedInv'
  <2>1. SameConnections /\ SameRows
    BY <1>3, RevocationStays DEF HandInv, TypeOK
  <2> QED
    BY <1>1, <1>3, <2>1, BystanderBacked
<1>4. ASSUME NEW f \in Families, NEW tier \in Tiers, Perm(f, tier) PROVE BackedInv'
  BY <1>2, <1>4 DEF Perm
<1>5. ASSUME NEW f \in Families, Expire(f) PROVE BackedInv'
  BY <1>2, <1>5 DEF Expire
<1>6. ASSUME NEW w \in Workers, NEW t \in tickets, Present(w, t) PROVE BackedInv'
  BY <1>6, PresentBacked
<1>7. ASSUME NEW w \in Workers, TokenStep(w) PROVE BackedInv'
  BY <1>7, TokenStepBacked
<1>8. ASSUME NEW w \in Workers, Crash(w) PROVE BackedInv'
  BY <1>8, RespondBacked DEF Crash, storeVars
<1>9. ASSUME NEW f \in Families, NEW d \in Decisions, NEW by \in Deciders, Decide(f, d, by)
      PROVE  BackedInv'
  BY <1>2, <1>9 DEF Decide
<1>10. ASSUME NEW s \in Sweepers, NEW h \in Agents, Revoke(s, h) PROVE BackedInv'
  BY <1>3, <1>10 DEF Revoke
<1>11. ASSUME NEW s \in Sweepers, NEW o \in Operators, BlockOperator(s, o) PROVE BackedInv'
  BY <1>2, <1>11 DEF BlockOperator
<1>12. ASSUME NEW o \in Operators, UnblockOperator(o) PROVE BackedInv'
  BY <1>2, <1>12 DEF UnblockOperator
<1>13. ASSUME NEW s \in Sweepers, SweepStep(s) PROVE BackedInv'
  BY <1>2, <1>3, <1>13
  DEF SweepStep, FindConnections, FindChildren, SweepConnection, CascadeTo, storeVars
<1>14. ASSUME NEW s \in Sweepers, CrashSweep(s) PROVE BackedInv'
  BY <1>2, <1>14 DEF CrashSweep, storeVars
<1>15. CASE UNCHANGED vars
  BY <1>2, <1>15 DEF vars, storeVars, workVars
<1> QED
  BY <1>4, <1>5, <1>6, <1>7, <1>8, <1>9, <1>10, <1>11, <1>12, <1>13, <1>14, <1>15 DEF Next

(* The agents she had admitted before the start are her own yes.            *)
LEMMA InitBacked == Init => BackedInv
<1> SUFFICES ASSUME Init PROVE BackedInv
  OBVIOUS
<1>1. /\ \A w \in Workers : pc[w] = "idle"
      /\ \A j \in Jtis : ~Recorded(j)
  BY DEF Init, StoreInit, NoRpt, Recorded
<1>2. \A a \in Agents \cap Standing : a \in Vouched /\ \A tier \in Tiers : <<a, tier>> \in SaidYes
  BY DEF Vouched, Known, Accepted, SaidYes, HerYesAt
<1>3. \A a \in Agents :
        /\ a \in Standing => connections[a].approved = Tiers
        /\ a \notin Standing => connections[a].status = "none" /\ connections[a].approved = {}
  BY DEF Init, StoreInit, NoConnection
<1>4. ConnectionsBacked
  BY <1>2, <1>3 DEF ConnectionsBacked, Backed
<1> QED
  BY <1>1, <1>4 DEF BackedInv, HandsBacked, BackedHand, GrantsBacked, ReadLabels, PassedLabels

(* All three invariants hold together.                                      *)
THEOREM BackedHolds == Spec => [](HandInv /\ AnswerInv /\ BackedInv)
<1>1. Init => HandInv /\ AnswerInv /\ BackedInv
  BY InitType, InitHand, InitAnswers, InitBacked DEF HandInv
<1>2. HandInv /\ AnswerInv /\ BackedInv /\ [Next]_vars => HandInv' /\ AnswerInv' /\ BackedInv'
  BY NextType, NextHand, NextAnswers, NextBacked DEF HandInv
<1> QED
  BY <1>1, <1>2, PTL DEF Spec

(* Every grant traces to a yes: to its own negotiation, agent and tier, or  *)
(* to an agent that was accepted or introduced by one that was; and then,   *)
(* where she is to be asked, a rule of hers let it by, each condition of    *)
(* which had its reason.                                                    *)
THEOREM GrantsTraceToAYes == Spec => []EveryGrantTracesToAYes
<1>1. HandInv /\ AnswerInv /\ BackedInv => EveryGrantTracesToAYes
  <2> SUFFICES ASSUME BackedInv, NEW j \in Jtis, Recorded(j)
               PROVE  LET a == rpts[j].handle IN
                      \/ /\ Yes(rpts[j].family)
                         /\ answers[rpts[j].family].handle = a
                         /\ answers[rpts[j].family].tier = rpts[j].tier
                      \/ /\ Known(a)
                         /\ rpts[j].tier \in AskMe =>
                              \E rule \in Relaxations[rpts[j].tier] : \A condition \in rule :
                                Reason(condition, a, rpts[j].tier, rpts[j].epoch)
    BY DEF EveryGrantTracesToAYes
  <2>1. CASE <<rpts[j].family, rpts[j].handle, rpts[j].tier>> \in AnsweredYes
    BY <2>1 DEF AnsweredYes
  <2>2. CASE Automatic(rpts[j].handle, rpts[j].tier, rpts[j].epoch)
    BY <2>2 DEF Automatic, Vouched, ByRule
  <2> QED
    BY <2>1, <2>2 DEF BackedInv, GrantsBacked
<1> QED
  BY <1>1, BackedHolds, PTL

(* What stands as her approval of an agent at a tier, which a rule may read *)
(* and which makes a sponsor, is her own yes to it there: no administrator's*)
(* answer and no introduction gets on that list.                            *)
THEOREM OnlySheApproves == Spec => []ApprovalsAreHers
<1>1. HandInv /\ AnswerInv /\ BackedInv => ApprovalsAreHers
  BY DEF BackedInv, ConnectionsBacked, Backed, SaidYes, ApprovalsAreHers
<1> QED
  BY <1>1, BackedHolds, PTL
-----------------------------------------------------------------------------
(* The limits: a count, and a write that adds to what was counted.          *)

LEMMA OthersStay ==
  ASSUME TypeOK, NEW w \in Workers, TokenStep(w) \/ Crash(w)
  PROVE  \A v \in Workers \ {w} : SameHand(v)
<1>1. Respond(w) => \A v \in Workers \ {w} : SameHand(v)
  BY DEF Respond, SameHand, TypeOK, WorkTypeOK
<1>2. \A l : Goto(w, l) => \A v \in Workers \ {w} : pc'[v] = pc[v]
  BY DEF Goto, TypeOK, WorkTypeOK
<1>3. CASE \/ DictateTerms(w) \/ RejectClaim(w) \/ Pend(w) \/ RefuseRpt(w) \/ Close(w) \/ Crash(w)
  BY <1>1, <1>3 DEF DictateTerms, RejectClaim, Pend, RefuseRpt, Close, Crash
<1>4. CASE Spend(w)
  BY <1>1, <1>2, <1>4 DEF Spend, SameHand, TypeOK, WorkTypeOK
<1>5. CASE \/ TurnAway(w) \/ CheckQueue(w) \/ CheckSponsor(w) \/ PutIntroduced(w)
           \/ RecheckSponsor(w) \/ UndoIntroduction(w) \/ PollOperator(w)
           \/ AdmitConnection(w) \/ NoteApproval(w) \/ \E j \in Jtis : IssueRpt(w, j)
  BY <1>2, <1>5 DEF TurnAway, CheckQueue, CheckSponsor, PutIntroduced, RecheckSponsor,
     UndoIntroduction, PollOperator, AdmitConnection, NoteApproval, IssueRpt, SameHand
<1>6. CASE NoteRevocations(w) \/ CheckOperator(w)
  BY <1>2, <1>6 DEF NoteRevocations, CheckOperator, SameHand, TypeOK, WorkTypeOK
<1>7. CASE ReadConnection(w) \/ CheckIntroduction(w)
  BY <1>2, <1>7 DEF ReadConnection, CheckIntroduction, SameHand, TypeOK, WorkTypeOK
<1>8. CASE PollConnection(w) \/ ReadPrior(w)
  BY <1>2, <1>8 DEF PollConnection, ReadPrior, SameHand, TypeOK, WorkTypeOK
<1>9. ASSUME NEW a \in Agents, NEW i, Agree(w, a, i) PROVE \A v \in Workers \ {w} : SameHand(v)
  BY <1>2, <1>9 DEF Agree, SameHand, TypeOK, WorkTypeOK
<1> QED
  BY <1>3, <1>4, <1>5, <1>6, <1>7, <1>8, <1>9 DEF TokenStep

(* Who waits on her as a stranger in a lane, and the requests that were let *)
(* past the count of it.                                                    *)
PastCount == {"vouch", "introduce", "recheck", "ask", "pend"}

Strangers(lane) ==
  {f \in Pending : negotiations[f].kind = "connection" /\ Lane[negotiations[f].handle] = lane}

LetPast(lane) ==
  {w \in Workers : /\ pc[w] \in PastCount /\ rec[w].kind = "connection"
                   /\ Lane[rec[w].handle] = lane}

Depth(lane) ==
  Cardinality(Strangers(lane)) + Cardinality(LetPast(lane))
    <= Budget[lane] + Cardinality(Workers) - 1

DepthInv == IsFiniteSet(Pending) /\ \A lane \in Lanes : Depth(lane)

(* A step that brings nobody past a count, and nobody to wait.              *)
RowQuiet(f) ==
  Waiting(negotiations'[f]) =>
    /\ Waiting(negotiations[f])
    /\ negotiations'[f].kind = negotiations[f].kind
    /\ negotiations'[f].handle = negotiations[f].handle

HandQuiet(v) ==
  pc'[v] \in PastCount /\ rec'[v].kind = "connection" =>
    /\ pc[v] \in PastCount /\ rec[v].kind = "connection"
    /\ rec'[v].handle = rec[v].handle

LEMMA Fewer ==
  ASSUME NEW A, IsFiniteSet(A), NEW B, IsFiniteSet(B), NEW n \in Int,
         Cardinality(A) + Cardinality(B) <= n,
         NEW C \in SUBSET A, NEW D \in SUBSET B
  PROVE  Cardinality(C) + Cardinality(D) <= n
<1>1. /\ Cardinality(C) <= Cardinality(A) /\ Cardinality(D) <= Cardinality(B)
      /\ IsFiniteSet(C) /\ IsFiniteSet(D)
  BY FS_Subset
<1>2. {Cardinality(A), Cardinality(B), Cardinality(C), Cardinality(D)} \subseteq Nat
  BY <1>1, FS_CardinalityType
<1> QED
  BY <1>1, <1>2

LEMMA WorkersAreMany ==
  Cardinality(Workers) \in Nat /\ Cardinality(Workers) >= 1
  BY GrantLoopAssumption, FS_CardinalityType, FS_EmptySet

LEMMA DepthStays ==
  ASSUME DepthInv, \A f \in Families : RowQuiet(f), \A v \in Workers : HandQuiet(v)
  PROVE  DepthInv'
<1>1. Pending' \subseteq Pending
  BY DEF Pending, RowQuiet
<1>2. ASSUME NEW lane \in Lanes PROVE Depth(lane)'
  <2>1. Strangers(lane)' \in SUBSET Strangers(lane)
    BY DEF Strangers, Pending, RowQuiet
  <2>2. LetPast(lane)' \in SUBSET LetPast(lane)
    BY DEF LetPast, HandQuiet
  <2>3. IsFiniteSet(Strangers(lane)) /\ IsFiniteSet(LetPast(lane))
    <3>1. Strangers(lane) \in SUBSET Pending /\ LetPast(lane) \in SUBSET Workers
      BY DEF Strangers, LetPast
    <3> QED
      BY <3>1, GrantLoopAssumption, FS_Subset DEF DepthInv
  <2>4. Budget[lane] + Cardinality(Workers) - 1 \in Int
    BY WorkersAreMany, GrantLoopAssumption
  <2> QED
    BY <2>1, <2>2, <2>3, <2>4, Fewer DEF DepthInv, Depth
<1> QED
  BY <1>1, <1>2, FS_Subset DEF DepthInv

LEMMA CheckQueueDepth ==
  ASSUME HandInv, AnswerInv, DepthInv, NEW w \in Workers, CheckQueue(w)
  PROVE  DepthInv'
<1> PICK l : l = Lane[rec[w].handle]
  OBVIOUS
<1>1. negotiations' = negotiations /\ rec' = rec /\ \A v \in Workers \ {w} : SameHand(v)
  BY OthersStay DEF CheckQueue, storeVars, TokenStep, HandInv
<1>2. \A f \in Families : RowQuiet(f)
  BY <1>1 DEF RowQuiet
<1>3. \A v \in Workers \ {w} : HandQuiet(v)
  BY <1>1 DEF HandQuiet, SameHand
<1>4. CASE pc'[w] \notin PastCount
  BY <1>2, <1>3, <1>4, DepthStays DEF HandQuiet
<1>5. CASE pc'[w] \in PastCount
  <2>1. ~(Cardinality(Queue(w)) >= Budget[l])
    BY <1>5 DEF CheckQueue, Goto, PastCount, HandInv, TypeOK, WorkTypeOK
  <2>2. pc[w] = "queue" /\ rec[w].handle \in Agents /\ l \in Lanes
    BY GrantLoopAssumption DEF CheckQueue, HandInv, TypeOK, InHand
  <2>3. Family(w) \in Families /\ Family(w) \notin Pending
    <3>1. Holding(w, Family(w)) /\ Family(w) \in Families
      BY <2>2, FamilyInHand, TypeParts DEF Holding, HandInv
    <3> QED
      BY <3>1 DEF HandInv, OneHandAtATime, TicketOrHolder, AnswerInv, HandleSurvives
  <2>4. Strangers(l) \in SUBSET Queue(w) /\ Queue(w) \in SUBSET Pending
    BY <2>3 DEF Strangers, Queue
  <2>5. /\ IsFiniteSet(Queue(w)) /\ IsFiniteSet(Strangers(l))
        /\ Cardinality(Strangers(l)) <= Cardinality(Queue(w))
    BY <2>4, FS_Subset DEF DepthInv
  <2>6. Strangers(l)' = Strangers(l) /\ Pending' = Pending
    BY <1>1 DEF Strangers, Pending
  <2>7. Cardinality(LetPast(l)') <= Cardinality(Workers) /\ IsFiniteSet(LetPast(l)')
    <3>1. LetPast(l)' \in SUBSET Workers
      BY DEF LetPast
    <3> QED
      BY <3>1, GrantLoopAssumption, FS_Subset
  <2>8. Depth(l)'
    <3>1. /\ Cardinality(Queue(w)) \in Nat /\ Cardinality(Strangers(l)) \in Nat
          /\ Cardinality(LetPast(l)') \in Nat /\ Budget[l] \in Nat
      BY <2>2, <2>5, <2>7, FS_CardinalityType, GrantLoopAssumption
    <3>2. Cardinality(Strangers(l)) + Cardinality(LetPast(l)') <= Budget[l] + Cardinality(Workers) - 1
      BY <2>1, <2>5, <2>7, <3>1, WorkersAreMany
    <3> QED
      BY <2>6, <3>2 DEF Depth
  <2>9. ASSUME NEW lane \in Lanes \ {l} PROVE Depth(lane)'
    <3>1. Strangers(lane)' \in SUBSET Strangers(lane)
      BY <1>1 DEF Strangers, Pending
    <3>2. LetPast(lane)' \in SUBSET LetPast(lane)
      BY <1>1 DEF LetPast, SameHand
    <3>3. IsFiniteSet(Strangers(lane)) /\ IsFiniteSet(LetPast(lane))
      <4>1. Strangers(lane) \in SUBSET Pending /\ LetPast(lane) \in SUBSET Workers
        BY DEF Strangers, LetPast
      <4> QED
        BY <4>1, GrantLoopAssumption, FS_Subset DEF DepthInv
    <3>4. Budget[lane] + Cardinality(Workers) - 1 \in Int
      BY WorkersAreMany, GrantLoopAssumption
    <3> QED
      BY <3>1, <3>2, <3>3, <3>4, Fewer DEF DepthInv, Depth
  <2> QED
    BY <2>6, <2>8, <2>9 DEF DepthInv
<1> QED
  BY <1>4, <1>5

(* She is asked: the request leaves the ones let past for those that wait.  *)
LEMMA PendDepth ==
  ASSUME HandInv, AnswerInv, DepthInv, NEW w \in Workers, Pend(w)
  PROVE  DepthInv'
<1> DEFINE F == Family(w)
           n == [rec[w] EXCEPT !.state = "awaiting-owner"]
           m == [n EXCEPT !.expired = FALSE]
<1>1. /\ pc[w] = "pend" /\ MintTicket(F, n) /\ Respond(w)
      /\ negotiations' = [negotiations EXCEPT ![F] = KeepDecision(F, m)]
  BY DEF Pend, MintTicket
<1>2. rec[w] \in Negotiation /\ negotiations \in [Families -> Negotiation]
  BY DEF HandInv, TypeOK, WorkTypeOK, StoreTypeOK
<1>3. F \in Families
  BY <1>1, FamilyInHand, TypeParts DEF HandInv
<1>4. KeepDecision(F, m).kind = rec[w].kind /\ KeepDecision(F, m).handle = rec[w].handle
  <2>1. m \in Negotiation /\ m.kind = rec[w].kind /\ m.handle = rec[w].handle
    BY <1>2 DEF Negotiation
  <2> HIDE DEF m
  <2> QED
    BY <2>1 DEF KeepDecision, Negotiation
<1>5. /\ negotiations'[F].kind = rec[w].kind /\ negotiations'[F].handle = rec[w].handle
      /\ \A g \in Families \ {F} : negotiations'[g] = negotiations[g]
  BY <1>1, <1>2, <1>3, <1>4
<1>6. pc'[w] = "idle" /\ \A v \in Workers \ {w} : SameHand(v)
  BY <1>1 DEF Respond, SameHand, HandInv, TypeOK, WorkTypeOK
<1> HIDE DEF F, n, m
<1>7. IsFiniteSet(Pending') /\ Pending' \subseteq Pending \cup {F}
  <2>1. Pending' \subseteq Pending \cup {F}
    BY <1>5 DEF Pending, Waiting
  <2>2. IsFiniteSet(Pending \cup {F})
    BY FS_AddElement DEF DepthInv
  <2> QED
    BY <2>1, <2>2, FS_Subset
<1>8. ASSUME NEW lane \in Lanes PROVE Depth(lane)'
  <2>1. IsFiniteSet(Strangers(lane)) /\ IsFiniteSet(LetPast(lane))
    <3>1. Strangers(lane) \in SUBSET Pending /\ LetPast(lane) \in SUBSET Workers
      BY DEF Strangers, LetPast
    <3> QED
      BY <3>1, GrantLoopAssumption, FS_Subset DEF DepthInv
  <2>2. LetPast(lane)' \in SUBSET (LetPast(lane) \ {w})
    BY <1>6 DEF LetPast, SameHand, PastCount
  <2>3. Budget[lane] + Cardinality(Workers) - 1 \in Int
    BY WorkersAreMany, GrantLoopAssumption
  <2>4. Strangers(lane)' \subseteq Strangers(lane) \cup {F}
    BY <1>5, <1>7 DEF Strangers, Pending
  <2>5. CASE w \in LetPast(lane)
    <3> DEFINE more == Strangers(lane) \cup {F}
               less == LetPast(lane) \ {w}
    <3>1. /\ IsFiniteSet(more) /\ Cardinality(more) <= Cardinality(Strangers(lane)) + 1
          /\ Cardinality(more) \in Nat /\ Cardinality(Strangers(lane)) \in Nat
      <4>1. /\ IsFiniteSet(more)
            /\ \/ Cardinality(more) = Cardinality(Strangers(lane))
               \/ Cardinality(more) = Cardinality(Strangers(lane)) + 1
        BY <2>1, FS_AddElement
      <4>2. Cardinality(Strangers(lane)) \in Nat
        BY <2>1, FS_CardinalityType
      <4> HIDE DEF more
      <4> QED
        BY <4>1, <4>2
    <3>2. /\ IsFiniteSet(less) /\ Cardinality(less) = Cardinality(LetPast(lane)) - 1
          /\ Cardinality(less) \in Nat /\ Cardinality(LetPast(lane)) \in Nat
      BY <2>1, <2>5, FS_RemoveElement, FS_CardinalityType
    <3>3. Strangers(lane)' \in SUBSET more /\ LetPast(lane)' \in SUBSET less
      BY <2>2, <2>4
    <3> HIDE DEF more, less
    <3>4. Cardinality(more) + Cardinality(less) <= Budget[lane] + Cardinality(Workers) - 1
      BY <2>3, <3>1, <3>2 DEF DepthInv, Depth
    <3> QED
      BY <2>3, <3>1, <3>2, <3>3, <3>4, Fewer DEF Depth
  <2>6. CASE w \notin LetPast(lane)
    <3>1. F \in Strangers(lane)' => w \in LetPast(lane)
      BY <1>1, <1>5 DEF Strangers, LetPast, PastCount
    <3>2. Strangers(lane)' \in SUBSET Strangers(lane) /\ LetPast(lane)' \in SUBSET LetPast(lane)
      BY <2>2, <2>4, <2>6, <3>1
    <3> QED
      BY <2>1, <2>3, <3>2, Fewer DEF DepthInv, Depth
  <2> QED
    BY <2>5, <2>6
<1> QED
  BY <1>7, <1>8 DEF DepthInv

(* No other step brings a request to wait, or past the count.               *)
LEMMA RowsQuiet ==
  ASSUME TypeOK, [Next]_vars, \A w \in Workers : ~Pend(w)
  PROVE  \A f \in Families : RowQuiet(f)
<1>1. negotiations' = negotiations => \A f \in Families : RowQuiet(f)
  BY DEF RowQuiet
<1>2. /\ negotiations \in [Families -> Negotiation] /\ ~Waiting(NoNegotiation)
  BY DEF TypeOK, StoreTypeOK, NoNegotiation, Waiting
<1>3. ASSUME NEW g \in Families, NEW n \in Negotiation, MintTicket(g, n), n.state # "awaiting-owner"
      PROVE  \A f \in Families : RowQuiet(f)
  <2> DEFINE m == [n EXCEPT !.expired = FALSE]
  <2>1. m \in Negotiation /\ m.state # "awaiting-owner"
    BY <1>3 DEF Negotiation
  <2>2. negotiations' = [negotiations EXCEPT ![g] = KeepDecision(g, m)]
    BY <1>3 DEF MintTicket
  <2> HIDE DEF m
  <2>3. ~Waiting(KeepDecision(g, m))
    BY <2>1 DEF KeepDecision, Negotiation, Waiting
  <2> QED
    BY <1>2, <2>2, <2>3 DEF RowQuiet
<1>4. ASSUME NEW f \in Families, NEW tier \in Tiers, Perm(f, tier) PROVE \A g \in Families : RowQuiet(g)
  <2> DEFINE n == [NoNegotiation EXCEPT !.state = "issued", !.tier = tier]
  <2>1. n \in Negotiation /\ n.state # "awaiting-owner"
    BY DEF NoNegotiation, Negotiation, Handles
  <2>2. MintTicket(f, n)
    BY <1>4 DEF Perm
  <2> HIDE DEF n
  <2> QED
    BY <1>3, <2>1, <2>2
<1>5. ASSUME NEW f \in Families, Expire(f) PROVE \A g \in Families : RowQuiet(g)
  <2>1. negotiations' = [negotiations EXCEPT ![f].expired = TRUE]
    BY <1>5 DEF Expire
  <2> QED
    BY <1>2, <2>1 DEF RowQuiet, Negotiation, Waiting
<1>6. ASSUME NEW w \in Workers, NEW t \in tickets, Present(w, t) PROVE \A g \in Families : RowQuiet(g)
  BY <1>2, <1>6 DEF Present, ReapExpired, RowQuiet
<1>7. ASSUME NEW w \in Workers, TokenStep(w) PROVE \A g \in Families : RowQuiet(g)
  <2>1. pc[w] # "idle" => Family(w) \in Families
    BY FamilyInHand, TypeParts
  <2>2. rec[w] \in Negotiation
    BY DEF TypeOK, WorkTypeOK
  <2>3. CASE DictateTerms(w)
    <3> DEFINE n == [rec[w] EXCEPT !.state = "need_info"]
    <3>1. n \in Negotiation /\ n.state # "awaiting-owner"
      BY <2>2 DEF Negotiation
    <3>2. MintTicket(Family(w), n) /\ Family(w) \in Families
      BY <2>1, <2>3 DEF DictateTerms
    <3> HIDE DEF n
    <3> QED
      BY <1>3, <3>1, <3>2
  <2>4. CASE Close(w)
    BY <1>2, <2>4 DEF Close, CloseNegotiation, RowQuiet
  <2>5. ASSUME ~DictateTerms(w), ~Close(w) PROVE negotiations' = negotiations
    BY <1>7, <2>5
    DEF TokenStep, Spend, ConsumeTicket, TurnAway, RejectClaim, Agree, ReadConnection,
        CheckIntroduction, CheckOperator, CheckQueue, CheckSponsor, PutIntroduced,
        RecheckSponsor, UndoIntroduction, NoteRevocations, IssueRpt, RefuseRpt, PollOperator,
        PollConnection, ReadPrior, AdmitConnection, NoteApproval, storeVars, negVars
  <2> QED
    BY <1>1, <2>3, <2>4, <2>5
<1>8. ASSUME NEW w \in Workers, Crash(w) PROVE \A g \in Families : RowQuiet(g)
  BY <1>1, <1>8 DEF Crash, storeVars
<1>9. ASSUME NEW f \in Families, NEW d \in Decisions, NEW by \in Deciders, Decide(f, d, by)
      PROVE  \A g \in Families : RowQuiet(g)
  <2>1. negotiations' = [negotiations EXCEPT ![f].decision = d, ![f].by = by] /\ d # "none"
    BY <1>9 DEF Decide, DecideNegotiation, Decisions
  <2> QED
    BY <1>2, <2>1 DEF RowQuiet, Negotiation, Waiting
<1>10. ASSUME NEW s \in Sweepers, NEW h \in Agents, Revoke(s, h) PROVE \A g \in Families : RowQuiet(g)
  BY <1>1, <1>10 DEF Revoke, negVars
<1>11. ASSUME NEW s \in Sweepers, NEW o \in Operators, BlockOperator(s, o)
       PROVE  \A g \in Families : RowQuiet(g)
  BY <1>1, <1>11 DEF BlockOperator, negVars
<1>12. ASSUME NEW o \in Operators, UnblockOperator(o) PROVE \A g \in Families : RowQuiet(g)
  BY <1>1, <1>12 DEF UnblockOperator, negVars
<1>13. ASSUME NEW s \in Sweepers, SweepStep(s) PROVE \A g \in Families : RowQuiet(g)
  BY <1>1, <1>13 DEF SweepStep, FindConnections, FindChildren, SweepConnection, CascadeTo,
                     storeVars, negVars
<1>14. ASSUME NEW s \in Sweepers, CrashSweep(s) PROVE \A g \in Families : RowQuiet(g)
  BY <1>1, <1>14 DEF CrashSweep, storeVars
<1>15. CASE UNCHANGED vars
  BY <1>1, <1>15 DEF vars, storeVars
<1> QED
  BY <1>4, <1>5, <1>6, <1>7, <1>8, <1>9, <1>10, <1>11, <1>12, <1>13, <1>14, <1>15 DEF Next

(* Where a request is after a step of its own.                              *)
LEMMA HandsQuiet ==
  ASSUME TypeOK, [Next]_vars, \A w \in Workers : ~CheckQueue(w)
  PROVE  \A v \in Workers : HandQuiet(v)
<1>1. UNCHANGED workVars => \A v \in Workers : HandQuiet(v)
  BY DEF workVars, HandQuiet
<1>2. \A v \in Workers : pc'[v] \notin PastCount => HandQuiet(v)
  BY DEF HandQuiet
<1>3. \A v \in Workers : SameHand(v) => HandQuiet(v)
  BY DEF SameHand, HandQuiet
<1>4. ASSUME NEW w \in Workers, TokenStep(w) PROVE \A v \in Workers : HandQuiet(v)
  <2> USE DEF PastCount
  <2>1. \A v \in Workers \ {w} : HandQuiet(v)
    BY <1>3, <1>4, OthersStay
  <2>2. /\ Respond(w) => pc'[w] = "idle"
        /\ \A l : Goto(w, l) => pc'[w] = l
    BY DEF Respond, Goto, TypeOK, WorkTypeOK
  <2>3. CASE CheckOperator(w)
    <3>1. \/ pc'[w] \in {"close", "queue"}
          \/ \E requirement : /\ rec' = [rec EXCEPT ![w].kind = KindOf(requirement, conn[w])]
                             /\ ~Counted(KindOf(requirement, conn[w]), conn[w])
      BY <2>2, <2>3 DEF CheckOperator
    <3>2. \A k : rec' = [rec EXCEPT ![w].kind = k] => rec'[w].kind = k
      BY DEF TypeOK, WorkTypeOK, Negotiation
    <3> QED
      BY <2>1, <3>1, <3>2 DEF HandQuiet, Counted
  <2>4. CASE NoteRevocations(w)
    <3>1. pc[w] = "ask" /\ rec' = [rec EXCEPT ![w].seen = connections[rec[w].handle].revocations]
      BY <2>4 DEF NoteRevocations
    <3>2. rec'[w].kind = rec[w].kind /\ rec'[w].handle = rec[w].handle
      BY <3>1 DEF TypeOK, WorkTypeOK, Negotiation
    <3> QED
      BY <2>1, <3>1, <3>2 DEF HandQuiet
  <2>5. CASE CheckSponsor(w) \/ PutIntroduced(w) \/ RecheckSponsor(w)
    <3>1. pc[w] \in PastCount /\ rec' = rec
      BY <2>5 DEF CheckSponsor, PutIntroduced, RecheckSponsor
    <3> QED
      BY <2>1, <3>1 DEF HandQuiet
  <2>6. ASSUME ~CheckOperator(w), ~NoteRevocations(w), ~CheckSponsor(w), ~PutIntroduced(w),
               ~RecheckSponsor(w)
        PROVE  pc'[w] \notin PastCount
    <3>1. \E l : pc'[w] = l /\ l \in {"idle", "agree", "poll", "close", "connection", "introduction",
               "operator", "unrevoked", "prior", "admit", "approval", "grant"}
      BY <1>4, <2>2, <2>6
      DEF TokenStep, Spend, Disposition, DictateTerms, TurnAway, RejectClaim, Agree, ReadConnection,
          CheckIntroduction, UndoIntroduction, Pend, IssueRpt, RefuseRpt, Close, PollOperator,
          PollConnection, ReadPrior, AdmitConnection, NoteApproval
    <3> QED
      BY <3>1
  <2> QED
    BY <1>2, <2>1, <2>3, <2>4, <2>5, <2>6
<1>5. ASSUME NEW w \in Workers, NEW t \in tickets, Present(w, t) PROVE \A v \in Workers : HandQuiet(v)
  <2>1. \A v \in Workers : rec'[v] = rec[v] /\ (pc'[v] = pc[v] \/ pc'[v] = "spend")
    BY <1>5 DEF Present, Goto, TypeOK, WorkTypeOK
  <2> QED
    BY <2>1 DEF HandQuiet, PastCount
<1>6. ASSUME NEW w \in Workers, Crash(w) PROVE \A v \in Workers : HandQuiet(v)
  <2>1. pc'[w] = "idle" /\ \A v \in Workers \ {w} : SameHand(v)
    BY <1>6, OthersStay DEF Crash, Respond, TypeOK, WorkTypeOK
  <2> QED
    BY <1>2, <1>3, <2>1 DEF PastCount
<1>8. CASE \/ \E f \in Families, tier \in Tiers : Perm(f, tier)
           \/ \E f \in Families : Expire(f)
           \/ \E f \in Families, d \in Decisions, by \in Deciders : Decide(f, d, by)
           \/ \E s \in Sweepers, h \in Agents : Revoke(s, h)
           \/ \E s \in Sweepers, o \in Operators : BlockOperator(s, o)
           \/ \E o \in Operators : UnblockOperator(o)
           \/ \E s \in Sweepers : SweepStep(s) \/ CrashSweep(s)
           \/ UNCHANGED vars
  BY <1>1, <1>8
  DEF Perm, Expire, Decide, Revoke, BlockOperator, UnblockOperator, SweepStep, FindConnections,
      FindChildren, SweepConnection, CascadeTo, CrashSweep, vars
<1> QED
  BY <1>4, <1>5, <1>6, <1>8 DEF Next

LEMMA NextDepth ==
  ASSUME HandInv, AnswerInv, DepthInv, [Next]_vars
  PROVE  DepthInv'
<1>1. ASSUME NEW w \in Workers, CheckQueue(w) PROVE DepthInv'
  BY <1>1, CheckQueueDepth
<1>2. ASSUME NEW w \in Workers, Pend(w) PROVE DepthInv'
  BY <1>2, PendDepth
<1>3. CASE \A w \in Workers : ~CheckQueue(w) /\ ~Pend(w)
  BY <1>3, RowsQuiet, HandsQuiet, DepthStays DEF HandInv
<1> QED
  BY <1>1, <1>2, <1>3

LEMMA InitDepth == Init => DepthInv
<1> SUFFICES ASSUME Init PROVE DepthInv
  OBVIOUS
<1>1. Pending = {}
  BY DEF Init, StoreInit, Pending, Waiting, NoNegotiation
<1>2. \A lane : Strangers(lane) = {} /\ LetPast(lane) = {}
  BY <1>1 DEF Strangers, LetPast, Init, PastCount
<1>3. \A lane \in Lanes : Budget[lane] \in Nat
  BY GrantLoopAssumption
<1>4. \A lane \in Lanes : Depth(lane)
  <2>1. IsFiniteSet({}) /\ Cardinality({}) = 0
    BY FS_EmptySet
  <2> QED
    BY <1>2, <1>3, <2>1, WorkersAreMany DEF Depth
<1> QED
  BY <1>1, <1>4, FS_EmptySet DEF DepthInv

-----------------------------------------------------------------------------
(* Kinship: who a connection, and a request that is admitting one, says the *)
(* sponsor is.                                                              *)

IntroLabels == {"operator", "queue", "vouch", "introduce"}
VouchLabels == {"vouch", "introduce", "recheck", "undo"}

KinHand(w) ==
  /\ pc[w] \in IntroLabels \cup VouchLabels => sponsor[w] \in {None, Sponsor[rec[w].handle]}
  /\ pc[w] \in IntroLabels /\ sponsor[w] # None => conn[w].parent = sponsor[w]
  /\ pc[w] \in VouchLabels => sponsor[w] # None

KinInv ==
  /\ \A w \in Workers : KinHand(w)
  /\ \A c \in Agents : connections[c].parent \in {None, Sponsor[c]}

(* A step that gives nobody a parent.                                       *)
ChildQuiet(c) ==
  /\ connections'[c].parent \in {None, connections[c].parent}
  /\ connections'[c].status = "active" /\ connections'[c].parent # None =>
       connections[c].status = "active"

LEMMA RevocationQuiet ==
  ASSUME StoreTypeOK, NEW h \in Agents, RevokeConnection(h)
  PROVE  /\ \A c \in Agents : ChildQuiet(c)
         /\ connections'[h].status = "revoked"
         /\ \A c \in Agents \ {h} : connections'[c] = connections[c]
  BY DEF RevokeConnection, ChildQuiet, StoreTypeOK, Connection

LEMMA ChildrenQuiet ==
  ASSUME TypeOK, [Next]_vars, \A w \in Workers : ~PutIntroduced(w)
  PROVE  \A c \in Agents : ChildQuiet(c)
<1>1. connections' = connections => \A c \in Agents : ChildQuiet(c)
  BY DEF ChildQuiet
<1>2. StoreTypeOK /\ connections \in [Agents -> Connection]
  BY DEF TypeOK, StoreTypeOK
<1>3. ASSUME NEW w \in Workers, TokenStep(w) PROVE \A c \in Agents : ChildQuiet(c)
  <2>1. CASE UndoIntroduction(w)
    <3>1. rec[w].handle \in Agents /\ RevokeConnection(rec[w].handle)
      BY <2>1 DEF UndoIntroduction, TypeOK, InHand
    <3> QED
      BY <1>2, <3>1, RevocationQuiet
  <2>2. CASE AdmitConnection(w)
    <3>1. rec[w].handle \in Agents
      BY <2>2 DEF AdmitConnection, TypeOK, InHand
    <3>2. connections' = [connections EXCEPT ![rec[w].handle] =
            [NoConnection EXCEPT !.status = "active", !.revocations = conn[w].revocations]]
      BY <2>2 DEF AdmitConnection, PutConnection
    <3>3. [NoConnection EXCEPT !.status = "active", !.revocations = conn[w].revocations].parent = None
      BY DEF NoConnection
    <3> QED
      BY <1>2, <3>1, <3>2, <3>3 DEF ChildQuiet
  <2>3. CASE NoteApproval(w)
    <3>1. rec[w].handle \in Agents
      BY <2>3 DEF NoteApproval, TypeOK, InHand
    <3>2. connections' = connections \/ NoteTierApproval(rec[w].handle, rec[w].tier)
      BY <2>3 DEF NoteApproval
    <3>3. CASE NoteTierApproval(rec[w].handle, rec[w].tier)
      <4>1. \E x : connections' = [connections EXCEPT ![rec[w].handle].approved = x]
        BY <1>2, <3>1, <3>3 DEF NoteTierApproval
      <4> QED
        BY <1>2, <3>1, <4>1 DEF ChildQuiet, Connection
    <3> QED
      BY <1>1, <3>2, <3>3
  <2>4. ASSUME ~UndoIntroduction(w), ~AdmitConnection(w), ~NoteApproval(w)
        PROVE  connections' = connections
    BY <1>3, <2>4
    DEF TokenStep, Spend, DictateTerms, TurnAway, RejectClaim, Agree, ReadConnection,
        CheckIntroduction, CheckOperator, CheckQueue, CheckSponsor, RecheckSponsor,
        NoteRevocations, Pend, IssueRpt, RefuseRpt, Close, PollOperator, PollConnection,
        ReadPrior, storeVars
  <2> QED
    BY <1>1, <2>1, <2>2, <2>3, <2>4
<1>4. ASSUME NEW s \in Sweepers, NEW h \in Agents, Revoke(s, h) PROVE \A c \in Agents : ChildQuiet(c)
  BY <1>2, <1>4, RevocationQuiet DEF Revoke
<1>5. ASSUME NEW s \in Sweepers, SweepStep(s) PROVE \A c \in Agents : ChildQuiet(c)
  BY <1>1, <1>2, <1>5, RevocationQuiet
  DEF SweepStep, FindConnections, FindChildren, SweepConnection, CascadeTo, storeVars
<1>6. CASE \/ \E f \in Families, tier \in Tiers : Perm(f, tier)
           \/ \E f \in Families : Expire(f)
           \/ \E w \in Workers, t \in tickets : Present(w, t)
           \/ \E w \in Workers : Crash(w)
           \/ \E f \in Families, d \in Decisions, by \in Deciders : Decide(f, d, by)
           \/ \E s \in Sweepers, o \in Operators : BlockOperator(s, o)
           \/ \E o \in Operators : UnblockOperator(o)
           \/ \E s \in Sweepers : CrashSweep(s)
           \/ UNCHANGED vars
  BY <1>1, <1>6
  DEF Perm, Expire, Present, Crash, Decide, BlockOperator, UnblockOperator, CrashSweep, vars, storeVars
<1> QED
  BY <1>3, <1>4, <1>5, <1>6 DEF Next

(* Most steps leave a request's hands alone, or take it off the path.       *)
LEMMA OffThePath ==
  ASSUME TypeOK, NEW w \in Workers, TokenStep(w),
         ~ReadConnection(w), ~CheckIntroduction(w), ~CheckOperator(w), ~CheckQueue(w),
         ~CheckSponsor(w), ~PutIntroduced(w), ~RecheckSponsor(w)
  PROVE  pc'[w] \notin IntroLabels \cup VouchLabels
<1>1. /\ Respond(w) => pc'[w] = "idle"
      /\ \A l : Goto(w, l) => pc'[w] = l
  BY DEF Respond, Goto, TypeOK, WorkTypeOK
<1>2. \E l : pc'[w] = l /\ l \in {"idle", "agree", "poll", "close", "connection",
           "pend", "unrevoked", "prior", "admit", "approval", "grant"}
  BY <1>1
  DEF TokenStep, Spend, Disposition, DictateTerms, TurnAway, RejectClaim, Agree, NoteRevocations,
      UndoIntroduction, Pend, IssueRpt, RefuseRpt, Close, PollOperator,
      PollConnection, ReadPrior, AdmitConnection, NoteApproval
<1> QED
  BY <1>2 DEF IntroLabels, VouchLabels

LEMMA TokenStepKin ==
  ASSUME HandInv, BackedInv, KinInv, NEW w \in Workers, TokenStep(w)
  PROVE  KinHand(w)'
<1> USE DEF IntroLabels, VouchLabels
<1>1. TypeOK /\ WorkTypeOK
  BY DEF HandInv, TypeOK
<1>2. \A l : Goto(w, l) => pc'[w] = l
  BY <1>1 DEF Goto, WorkTypeOK
<1>3. KinHand(w) /\ BackedHand(w)
  BY DEF KinInv, BackedInv, HandsBacked
<1>4. CASE ReadConnection(w)
  <2>1. \/ pc'[w] = "introduction"
        \/ sponsor'[w] = None /\ pc'[w] = "operator"
    BY <1>1, <1>2, <1>4 DEF ReadConnection, WorkTypeOK
  <2> QED
    BY <2>1 DEF KinHand
<1>5. CASE CheckIntroduction(w)
  <2>1. /\ pc[w] = "introduction" /\ pc'[w] = "operator" /\ rec' = rec
        /\ \/ sponsor' = sponsor /\ conn'[w].parent = sponsor[w]
           \/ sponsor'[w] = None
    BY <1>1, <1>2, <1>5 DEF CheckIntroduction, WorkTypeOK, Connection
  <2> QED
    BY <1>3, <2>1 DEF KinHand, BackedHand
<1>6. CASE CheckOperator(w)
  <2>1. /\ pc[w] = "operator" /\ pc'[w] \notin VouchLabels
        /\ sponsor' = sponsor /\ conn' = conn /\ rec'[w].handle = rec[w].handle
    BY <1>1, <1>2, <1>6 DEF CheckOperator, AfterGates, WorkTypeOK, Negotiation
  <2> QED
    BY <1>3, <2>1 DEF KinHand
<1>7. CASE CheckQueue(w)
  <2>1. /\ pc[w] = "queue" /\ sponsor' = sponsor /\ conn' = conn /\ rec' = rec
        /\ \/ pc'[w] \in {"close", "grant", "ask"}
           \/ pc'[w] = "vouch" /\ sponsor[w] # None
    BY <1>2, <1>7 DEF CheckQueue, AfterGates
  <2> QED
    BY <1>3, <2>1 DEF KinHand
<1>8. CASE CheckSponsor(w) \/ PutIntroduced(w) \/ RecheckSponsor(w)
  <2>1. /\ pc[w] \in {"vouch", "introduce", "recheck"}
        /\ sponsor' = sponsor /\ conn' = conn /\ rec' = rec
        /\ \/ pc'[w] \in {"close", "grant", "ask", "recheck", "undo"}
           \/ pc[w] = "vouch" /\ pc'[w] = "introduce"
    BY <1>2, <1>8 DEF CheckSponsor, PutIntroduced, RecheckSponsor, AfterGates
  <2> QED
    BY <1>3, <2>1 DEF KinHand
<1>9. CASE pc'[w] \notin IntroLabels \cup VouchLabels
  BY <1>9 DEF KinHand
<1> QED
  BY <1>1, <1>4, <1>5, <1>6, <1>7, <1>8, <1>9, OffThePath

(* What is written of a child is what its request has in hand.              *)
LEMMA IntroducedRow ==
  ASSUME HandInv, KinInv, NEW w \in Workers, PutIntroduced(w)
  PROVE  /\ rec[w].handle \in Agents /\ sponsor[w] \in Agents
         /\ sponsor[w] = Sponsor[rec[w].handle]
         /\ connections'[rec[w].handle] = conn[w] /\ conn[w].parent = sponsor[w]
         /\ \A c \in Agents \ {rec[w].handle} : connections'[c] = connections[c]
<1>1. /\ pc[w] = "introduce" /\ connections' = [connections EXCEPT ![rec[w].handle] = conn[w]]
  BY DEF PutIntroduced, PutConnection
<1>2. rec[w].handle \in Agents /\ sponsor[w] \in Handles /\ connections \in [Agents -> Connection]
  BY <1>1 DEF HandInv, TypeOK, InHand, WorkTypeOK, StoreTypeOK
<1>3. sponsor[w] # None /\ sponsor[w] = Sponsor[rec[w].handle] /\ conn[w].parent = sponsor[w]
  BY <1>1 DEF KinInv, KinHand, IntroLabels, VouchLabels
<1> QED
  BY <1>1, <1>2, <1>3 DEF Handles

(* A step of no request leaves every request's hands as they were, but for  *)
(* the ticket that one is handed.                                           *)
Unmoved(v) ==
  /\ rec'[v] = rec[v] /\ conn'[v] = conn[v] /\ sponsor'[v] = sponsor[v]
  /\ pc'[v] # pc[v] => pc'[v] = "spend"

LEMMA HandsStay ==
  ASSUME TypeOK, [Next]_vars, \A w \in Workers : ~TokenStep(w) /\ ~Crash(w)
  PROVE  \A v \in Workers : Unmoved(v)
<1>1. ASSUME NEW w \in Workers, NEW t \in tickets, Present(w, t)
      PROVE  \A v \in Workers : Unmoved(v)
  <2>1. /\ rec' = rec /\ conn' = conn /\ sponsor' = sponsor
        /\ pc' = pc \/ pc' = [pc EXCEPT ![w] = "spend"]
    BY <1>1 DEF Present, Goto
  <2> QED
    BY <2>1 DEF Unmoved, TypeOK, WorkTypeOK
<1>2. CASE \/ \E f \in Families, tier \in Tiers : Perm(f, tier)
           \/ \E f \in Families : Expire(f)
           \/ \E f \in Families, d \in Decisions, by \in Deciders : Decide(f, d, by)
           \/ \E s \in Sweepers, h \in Agents : Revoke(s, h)
           \/ \E s \in Sweepers, o \in Operators : BlockOperator(s, o)
           \/ \E o \in Operators : UnblockOperator(o)
           \/ \E s \in Sweepers : SweepStep(s) \/ CrashSweep(s)
           \/ UNCHANGED vars
  BY <1>2
  DEF Perm, Expire, Decide, Revoke, BlockOperator, UnblockOperator, SweepStep, FindConnections,
      FindChildren, SweepConnection, CascadeTo, CrashSweep, vars, workVars, Unmoved
<1> QED
  BY <1>1, <1>2 DEF Next

LEMMA NextKin ==
  ASSUME HandInv, BackedInv, KinInv, [Next]_vars
  PROVE  KinInv'
<1>1. TypeOK
  BY DEF HandInv
<1>2. \A c \in Agents : connections'[c].parent \in {None, Sponsor[c]}
  <2>1. ASSUME NEW w \in Workers, PutIntroduced(w)
        PROVE  \A c \in Agents : connections'[c].parent \in {None, Sponsor[c]}
    BY <2>1, IntroducedRow DEF KinInv
  <2>2. CASE \A w \in Workers : ~PutIntroduced(w)
    BY <1>1, <2>2, ChildrenQuiet DEF KinInv, ChildQuiet
  <2> QED
    BY <2>1, <2>2
<1>3. ASSUME NEW v \in Workers PROVE KinHand(v)'
  <2>1. KinHand(v)
    BY DEF KinInv
  <2>2. CASE SameHand(v)
    BY <2>1, <2>2 DEF KinHand, SameHand
  <2>3. CASE pc'[v] \in {"idle", "spend"}
    BY <2>3 DEF KinHand, IntroLabels, VouchLabels
  <2>4. ASSUME NEW w \in Workers, TokenStep(w) PROVE KinHand(v)'
    <3>1. CASE v = w
      BY <2>4, <3>1, TokenStepKin
    <3>2. CASE v # w
      <4>1. SameHand(v)
        BY <1>1, <2>4, <3>2, OthersStay
      <4> QED
        BY <2>2, <4>1
    <3> QED
      BY <3>1, <3>2
  <2>5. ASSUME NEW w \in Workers, Crash(w) PROVE KinHand(v)'
    <3>1. pc'[w] = "idle" /\ (v # w => SameHand(v))
      BY <1>1, <2>5, OthersStay DEF Crash, Respond, TypeOK, WorkTypeOK
    <3> QED
      BY <2>2, <2>3, <3>1
  <2>6. CASE \A w \in Workers : ~TokenStep(w) /\ ~Crash(w)
    <3>1. Unmoved(v)
      BY <1>1, <2>6, HandsStay
    <3> QED
      BY <2>1, <2>3, <3>1 DEF Unmoved, KinHand
  <2> QED
    BY <2>4, <2>5, <2>6
<1> QED
  BY <1>2, <1>3 DEF KinInv

LEMMA InitKin == Init => KinInv
<1> SUFFICES ASSUME Init PROVE KinInv
  OBVIOUS
<1>1. \A w \in Workers : pc[w] = "idle"
  BY DEF Init
<1>2. \A c \in Agents : connections[c].parent = None
  BY DEF Init, StoreInit, NoConnection
<1> QED
  BY <1>1, <1>2 DEF KinInv, KinHand, IntroLabels, VouchLabels

-----------------------------------------------------------------------------
(* The fan-out: the sub-agents an agent has, and the requests that were     *)
(* let past the count of them.                                              *)

Introducing(p) == {w \in Workers : pc[w] \in IntroLabels /\ sponsor[w] = p}

Fan(p) ==
  /\ IsFiniteSet(LiveChildren(p))
  /\ Cardinality(LiveChildren(p)) + Cardinality(Introducing(p)) <= Fanout + Cardinality(Workers) - 1

FanInv == \A p \in Agents : Fan(p)

IntroQuiet(v) ==
  pc'[v] \in IntroLabels /\ sponsor'[v] # None =>
    pc[v] \in IntroLabels /\ sponsor'[v] = sponsor[v]

LEMMA IntroducersAreFew ==
  ASSUME NEW p
  PROVE  IsFiniteSet(Introducing(p)) /\ Cardinality(Introducing(p)) <= Cardinality(Workers)
<1>1. Introducing(p) \in SUBSET Workers
  BY DEF Introducing
<1> QED
  BY <1>1, GrantLoopAssumption, FS_Subset

LEMMA FanStays ==
  ASSUME NEW p \in Agents, Fan(p), LiveChildren(p)' \in SUBSET LiveChildren(p),
         Introducing(p)' \in SUBSET Introducing(p)
  PROVE  Fan(p)'
<1>1. Fanout + Cardinality(Workers) - 1 \in Int
  BY WorkersAreMany, GrantLoopAssumption
<1>2. IsFiniteSet(LiveChildren(p)')
  BY FS_Subset DEF Fan
<1> QED
  BY <1>1, <1>2, IntroducersAreFew, Fewer DEF Fan

LEMMA FewerChildren ==
  ASSUME \A c \in Agents : ChildQuiet(c), NEW p \in Agents
  PROVE  LiveChildren(p)' \in SUBSET LiveChildren(p)
<1>1. p # None
  BY StoreAssumption
<1> QED
  BY <1>1 DEF LiveChildren, ChildQuiet

LEMMA FewerIntroducers ==
  ASSUME \A v \in Workers : IntroQuiet(v), NEW p \in Agents
  PROVE  Introducing(p)' \in SUBSET Introducing(p)
<1>1. p # None
  BY StoreAssumption
<1> QED
  BY <1>1 DEF Introducing, IntroQuiet

(* An introduction is let past the count.                                   *)
LEMMA CheckIntroductionFan ==
  ASSUME HandInv, FanInv, NEW w \in Workers, CheckIntroduction(w), NEW p \in Agents
  PROVE  Fan(p)'
<1>1. /\ connections' = connections /\ pc[w] = "introduction" /\ p # None
      /\ \A v \in Workers \ {w} : SameHand(v)
      /\ \/ sponsor'[w] = sponsor[w] /\ Admissible(sponsor[w], conn[w])
         \/ sponsor'[w] = None
  BY OthersStay, StoreAssumption
  DEF CheckIntroduction, storeVars, TokenStep, HandInv, TypeOK, WorkTypeOK
<1>2. LiveChildren(p)' = LiveChildren(p)
  BY <1>1 DEF LiveChildren
<1>3. CASE sponsor'[w] = p
  <2>1. Cardinality(LiveChildren(p)) < Fanout
    BY <1>1, <1>3 DEF Admissible
  <2>2. IsFiniteSet(LiveChildren(p))
    BY DEF FanInv, Fan
  <2>3. IsFiniteSet(Introducing(p)') /\ Cardinality(Introducing(p)') <= Cardinality(Workers)
    <3>1. Introducing(p)' \in SUBSET Workers
      BY DEF Introducing
    <3> QED
      BY <3>1, GrantLoopAssumption, FS_Subset
  <2>4. /\ Cardinality(LiveChildren(p)) \in Nat /\ Cardinality(Introducing(p)') \in Nat
        /\ Fanout \in Nat
    BY <2>2, <2>3, FS_CardinalityType, GrantLoopAssumption
  <2>5. Cardinality(LiveChildren(p)) + Cardinality(Introducing(p)') <= Fanout + Cardinality(Workers) - 1
    BY <2>1, <2>3, <2>4, WorkersAreMany
  <2> QED
    BY <1>2, <2>2, <2>5 DEF Fan
<1>4. CASE sponsor'[w] # p
  <2>1. Introducing(p)' \in SUBSET Introducing(p)
    BY <1>1, <1>4 DEF Introducing, SameHand
  <2> QED
    BY <1>2, <2>1, FanStays DEF FanInv
<1> QED
  BY <1>3, <1>4

(* A child is written: its request leaves the ones let past.                *)
LEMMA PutIntroducedFan ==
  ASSUME HandInv, KinInv, FanInv, NEW w \in Workers, PutIntroduced(w), NEW p \in Agents
  PROVE  Fan(p)'
<1> DEFINE h == rec[w].handle
<1>1. /\ h \in Agents /\ sponsor[w] \in Agents
      /\ connections'[h] = conn[w] /\ conn[w].parent = sponsor[w]
      /\ \A c \in Agents \ {h} : connections'[c] = connections[c]
  BY IntroducedRow
<1>2. /\ pc[w] = "introduce" /\ pc'[w] = "recheck"
      /\ \A v \in Workers \ {w} : SameHand(v)
  BY OthersStay DEF PutIntroduced, Goto, TokenStep, HandInv, TypeOK, WorkTypeOK
<1> HIDE DEF h
<1>3. CASE sponsor[w] # p
  <2>1. LiveChildren(p)' \in SUBSET LiveChildren(p)
    BY <1>1, <1>3 DEF LiveChildren
  <2>2. Introducing(p)' \in SUBSET Introducing(p)
    BY <1>2 DEF Introducing, SameHand, IntroLabels
  <2> QED
    BY <2>1, <2>2, FanStays DEF FanInv
<1>4. CASE sponsor[w] = p
  <2> DEFINE more == LiveChildren(p) \cup {h}
             less == Introducing(p) \ {w}
  <2>1. LiveChildren(p)' \in SUBSET more
    BY <1>1 DEF LiveChildren
  <2>2. Introducing(p)' \in SUBSET less
    BY <1>2 DEF Introducing, SameHand, IntroLabels
  <2>3. w \in Introducing(p)
    BY <1>2, <1>4 DEF Introducing, IntroLabels
  <2>4. IsFiniteSet(LiveChildren(p)) /\ IsFiniteSet(Introducing(p))
    BY IntroducersAreFew DEF FanInv, Fan
  <2>5. /\ IsFiniteSet(more) /\ Cardinality(more) <= Cardinality(LiveChildren(p)) + 1
        /\ Cardinality(more) \in Nat /\ Cardinality(LiveChildren(p)) \in Nat
    <3>1. /\ IsFiniteSet(more)
          /\ \/ Cardinality(more) = Cardinality(LiveChildren(p))
             \/ Cardinality(more) = Cardinality(LiveChildren(p)) + 1
      BY <2>4, FS_AddElement
    <3>2. Cardinality(LiveChildren(p)) \in Nat
      BY <2>4, FS_CardinalityType
    <3> HIDE DEF more
    <3> QED
      BY <3>1, <3>2
  <2>6. /\ IsFiniteSet(less) /\ Cardinality(less) = Cardinality(Introducing(p)) - 1
        /\ Cardinality(less) \in Nat /\ Cardinality(Introducing(p)) \in Nat
    BY <2>3, <2>4, FS_RemoveElement, FS_CardinalityType
  <2> HIDE DEF more, less
  <2>7. Fanout + Cardinality(Workers) - 1 \in Int
    BY WorkersAreMany, GrantLoopAssumption
  <2>8. Cardinality(more) + Cardinality(less) <= Fanout + Cardinality(Workers) - 1
    BY <2>5, <2>6, <2>7 DEF FanInv, Fan
  <2>9. IsFiniteSet(LiveChildren(p)')
    BY <2>1, <2>5, FS_Subset
  <2> QED
    BY <2>1, <2>2, <2>5, <2>6, <2>7, <2>8, <2>9, Fewer DEF Fan
<1> QED
  BY <1>3, <1>4

LEMMA IntroducersQuiet ==
  ASSUME TypeOK, [Next]_vars, \A w \in Workers : ~CheckIntroduction(w)
  PROVE  \A v \in Workers : IntroQuiet(v)
<1>1. ASSUME NEW w \in Workers, TokenStep(w) PROVE \A v \in Workers : IntroQuiet(v)
  <2>1. \A v \in Workers \ {w} : IntroQuiet(v)
    BY <1>1, OthersStay DEF SameHand, IntroQuiet
  <2>2. \A l : Goto(w, l) => pc'[w] = l
    BY DEF Goto, TypeOK, WorkTypeOK
  <2>3. CASE ReadConnection(w)
    <3>1. \/ pc'[w] = "introduction"
          \/ sponsor'[w] = None
      BY <2>2, <2>3 DEF ReadConnection, TypeOK, WorkTypeOK
    <3> QED
      BY <2>1, <3>1 DEF IntroQuiet, IntroLabels
  <2>4. CASE CheckOperator(w) \/ CheckQueue(w) \/ CheckSponsor(w)
    <3>1. pc[w] \in IntroLabels /\ sponsor' = sponsor
      BY <2>4 DEF CheckOperator, CheckQueue, CheckSponsor, IntroLabels
    <3> QED
      BY <2>1, <3>1 DEF IntroQuiet
  <2>5. CASE PutIntroduced(w) \/ RecheckSponsor(w)
    <3>1. pc'[w] \notin IntroLabels
      BY <2>2, <2>5 DEF PutIntroduced, RecheckSponsor, AfterGates, IntroLabels
    <3> QED
      BY <2>1, <3>1 DEF IntroQuiet
  <2>6. CASE pc'[w] \notin IntroLabels
    BY <2>1, <2>6 DEF IntroQuiet
  <2> QED
    BY <1>1, <2>3, <2>4, <2>5, <2>6, OffThePath
<1>2. ASSUME NEW w \in Workers, Crash(w) PROVE \A v \in Workers : IntroQuiet(v)
  <2>1. pc'[w] = "idle" /\ \A v \in Workers \ {w} : SameHand(v)
    BY <1>2, OthersStay DEF Crash, Respond, TypeOK, WorkTypeOK
  <2> QED
    BY <2>1 DEF IntroQuiet, SameHand, IntroLabels
<1>3. CASE \A w \in Workers : ~TokenStep(w) /\ ~Crash(w)
  <2>1. \A v \in Workers : Unmoved(v)
    BY <1>3, HandsStay
  <2> QED
    BY <2>1 DEF Unmoved, IntroQuiet, IntroLabels
<1> QED
  BY <1>1, <1>2, <1>3

LEMMA NextFan ==
  ASSUME HandInv, BackedInv, KinInv, FanInv, [Next]_vars
  PROVE  FanInv'
<1> SUFFICES ASSUME NEW p \in Agents PROVE Fan(p)'
  BY DEF FanInv
<1>1. ASSUME NEW w \in Workers, CheckIntroduction(w) PROVE Fan(p)'
  BY <1>1, CheckIntroductionFan
<1>2. ASSUME NEW w \in Workers, PutIntroduced(w) PROVE Fan(p)'
  BY <1>2, PutIntroducedFan
<1>3. CASE \A w \in Workers : ~CheckIntroduction(w) /\ ~PutIntroduced(w)
  <2>1. LiveChildren(p)' \in SUBSET LiveChildren(p)
    BY <1>3, ChildrenQuiet, FewerChildren DEF HandInv
  <2>2. Introducing(p)' \in SUBSET Introducing(p)
    BY <1>3, IntroducersQuiet, FewerIntroducers DEF HandInv
  <2> QED
    BY <2>1, <2>2, FanStays DEF FanInv
<1> QED
  BY <1>1, <1>2, <1>3

LEMMA InitFan == Init => FanInv
<1> SUFFICES ASSUME Init, NEW p \in Agents PROVE Fan(p)
  BY DEF FanInv
<1>1. p # None
  BY StoreAssumption
<1>2. \A c \in Agents : connections[c].parent = None
  BY DEF Init, StoreInit, NoConnection
<1>3. LiveChildren(p) = {}
  BY <1>1, <1>2 DEF LiveChildren
<1>4. Introducing(p) = {}
  BY DEF Introducing, Init, IntroLabels
<1>5. IsFiniteSet({}) /\ Cardinality({}) = 0
  BY FS_EmptySet
<1> QED
  BY <1>3, <1>4, <1>5, WorkersAreMany, GrantLoopAssumption DEF Fan

(* What the limits rest on, with the invariants before.                     *)
LimitInv == DepthInv /\ KinInv /\ FanInv

THEOREM LimitsAreKept == Spec => [](HandInv /\ AnswerInv /\ BackedInv /\ LimitInv)
<1>1. Init => LimitInv
  BY InitDepth, InitKin, InitFan DEF LimitInv
<1>2. HandInv /\ AnswerInv /\ BackedInv /\ LimitInv /\ [Next]_vars => LimitInv'
  BY NextDepth, NextKin, NextFan DEF LimitInv
<1> QED
  BY <1>1, <1>2, BackedHolds, PTL DEF Spec

(* Both limits hold but for the requests in flight, whatever her store      *)
(* holds and however many ask at once: a lane of her queue is exceeded by   *)
(* no more than the requests past its count, and so are an agent's          *)
(* sub-agents.                                                              *)
THEOREM LimitsBound == Spec => []LimitsHold
<1>1. HandInv /\ LimitInv => LimitsHold
  <2> SUFFICES ASSUME HandInv, LimitInv PROVE LimitsHold
    OBVIOUS
  <2>1. ASSUME NEW A, NEW B, NEW n \in Int, IsFiniteSet(A), IsFiniteSet(B),
               Cardinality(A) + Cardinality(B) <= n
        PROVE  Cardinality(A) <= n
    <3>1. Cardinality(A) \in Nat /\ Cardinality(B) \in Nat
      BY <2>1, FS_CardinalityType
    <3> QED
      BY <2>1, <3>1
  <2>2. QueueDepthBounded
    <3> SUFFICES ASSUME NEW lane \in Lanes
                 PROVE  Cardinality(Strangers(lane)) <= Budget[lane] + Cardinality(Workers) - 1
      BY DEF QueueDepthBounded, Strangers
    <3>1. IsFiniteSet(Strangers(lane)) /\ IsFiniteSet(LetPast(lane))
      <4>1. Strangers(lane) \in SUBSET Pending /\ LetPast(lane) \in SUBSET Workers
        BY DEF Strangers, LetPast
      <4> QED
        BY <4>1, GrantLoopAssumption, FS_Subset DEF LimitInv, DepthInv
    <3>2. Budget[lane] + Cardinality(Workers) - 1 \in Int
      BY WorkersAreMany, GrantLoopAssumption
    <3> QED
      BY <2>1, <3>1, <3>2 DEF LimitInv, DepthInv, Depth
  <2>3. FanoutBounded
    <3>1. Fanout + Cardinality(Workers) - 1 \in Int
      BY WorkersAreMany, GrantLoopAssumption
    <3> QED
      BY <2>1, <3>1, IntroducersAreFew DEF LimitInv, FanInv, Fan, FanoutBounded
  <2> QED
    BY <2>2, <2>3 DEF LimitsHold
<1> QED
  BY <1>1, LimitsAreKept, PTL

-----------------------------------------------------------------------------
(* No orphan.  An agent that is introduced introduces nobody: whoever ends  *)
(* a connection on its way elsewhere ends that of an agent with no          *)
(* sub-agents, so only the acts that look for children afterwards can leave *)
(* a child behind.                                                          *)

OneGeneration == \A a \in Agents : Sponsor[a] # None => Sponsor[Sponsor[a]] = None

(* What a sweep has still to do is to end connections that were introduced. *)
SweepsKin ==
  \A s \in Sweepers :
    /\ sweep[s].stage # "cascade" => sweep[s].todo = {}
    /\ \A c \in sweep[s].todo : Sponsor[c] # None

LEMMA SweepToKin ==
  ASSUME NEW s, NEW t \in Sweepers, NEW o, NEW q, NEW p, NEW todo \in SUBSET Agents,
         sweep \in [Sweepers -> Sweep], SweepTo(t, o, q, p, todo), s \in Sweepers
  PROVE  /\ s # t => sweep'[s] = sweep[s]
         /\ s = t => /\ sweep'[s].todo = todo
                     /\ sweep'[s].stage # "cascade" => todo = {}
                     /\ todo # {} => sweep'[s].parent = p
  BY DEF SweepTo, NextStage, NoSweep

LEMMA ChildrenAreIntroduced ==
  ASSUME KinInv, NEW p \in Agents
  PROVE  \A c \in LiveChildren(p) : Sponsor[c] = p /\ Sponsor[c] # None
<1>1. p # None
  BY StoreAssumption
<1> QED
  BY <1>1 DEF LiveChildren, KinInv

(* A cascade's parent is an agent.                                          *)
ParentKnown == \A s \in Sweepers : sweep[s].stage \in {"children", "cascade"} => sweep[s].parent \in Agents

SweepsInv == SweepsKin /\ ParentKnown

LEMMA NextSweeps ==
  ASSUME HandInv, KinInv, SweepsInv, [Next]_vars
  PROVE  SweepsInv'
<1> SUFFICES ASSUME NEW s \in Sweepers
             PROVE  /\ sweep'[s].stage # "cascade" => sweep'[s].todo = {}
                    /\ \A c \in sweep'[s].todo : Sponsor[c] # None
                    /\ sweep'[s].stage \in {"children", "cascade"} => sweep'[s].parent \in Agents
  BY DEF SweepsInv, SweepsKin, ParentKnown
<1>1. /\ sweep[s].stage # "cascade" => sweep[s].todo = {}
      /\ \A c \in sweep[s].todo : Sponsor[c] # None
      /\ sweep[s].stage \in {"children", "cascade"} => sweep[s].parent \in Agents
      /\ sweep \in [Sweepers -> Sweep]
  BY DEF SweepsInv, SweepsKin, ParentKnown, HandInv, TypeOK, OwnerTypeOK
<1>2. CASE sweep'[s] = sweep[s]
  BY <1>1, <1>2
<1>3. ASSUME NEW t \in Sweepers, NEW h \in Agents, Revoke(t, h) PROVE sweep'[s] = sweep[s] \/ s = t
  BY <1>1, <1>3 DEF Revoke
<1>4. ASSUME NEW h \in Agents, Revoke(s, h)
      PROVE  sweep'[s].todo = {} /\ sweep'[s].parent = h /\ sweep'[s].stage = "children"
  BY <1>1, <1>4 DEF Revoke, NoSweep
<1>5. ASSUME NEW t \in Sweepers, NEW o \in Operators, BlockOperator(t, o)
      PROVE  \/ sweep'[s] = sweep[s]
             \/ sweep'[s].todo = {} /\ sweep'[s].stage = "find"
  BY <1>1, <1>5 DEF BlockOperator, NoSweep
<1>6. ASSUME NEW t \in Sweepers, CrashSweep(t)
      PROVE  \/ sweep'[s] = sweep[s]
             \/ sweep'[s].todo = {} /\ sweep'[s].stage = "idle"
  BY <1>1, <1>6 DEF CrashSweep, NoSweep
<1> DEFINE Kin == /\ sweep'[s].stage # "cascade" => sweep'[s].todo = {}
                  /\ \A c \in sweep'[s].todo : Sponsor[c] # None
                  /\ sweep'[s].stage \in {"children", "cascade"} => sweep'[s].parent \in Agents
<1>7. ASSUME NEW t \in Sweepers, SweepStep(t), s # t PROVE sweep'[s] = sweep[s]
  BY <1>1, <1>7 DEF SweepStep, FindConnections, FindChildren, SweepConnection, CascadeTo, SweepTo
<1>8. ASSUME SweepStep(s) PROVE Kin
  <2>1. CASE FindConnections(s)
    <3>1. \/ sweep'[s] = NoSweep
          \/ sweep'[s].todo = {} /\ sweep'[s].stage = "sweep"
      BY <1>1, <2>1 DEF FindConnections, SweepTo, NextStage
    <3> QED
      BY <3>1 DEF NoSweep
  <2>2. ASSUME NEW h \in Agents, SweepConnection(s, h) PROVE Kin
    <3>1. sweep[s].stage = "sweep" /\ sweep'[s].todo = sweep[s].todo
          /\ sweep'[s].stage = "children" /\ sweep'[s].parent = h
      BY <1>1, <2>2 DEF SweepConnection, Sweep
    <3> QED
      BY <1>1, <3>1
  <2>3. ASSUME NEW todo \in SUBSET Agents, NEW p \in Agents,
               SweepTo(s, sweep[s].origin, sweep[s].queue, p, todo),
               \A c \in todo : Sponsor[c] # None
        PROVE  Kin
    <3>1. \/ sweep'[s] = NoSweep
          \/ /\ sweep'[s].todo = todo /\ sweep'[s].parent = p
             /\ sweep'[s].stage = NextStage(sweep[s].queue, todo)
      BY <1>1, <2>3 DEF SweepTo
    <3> QED
      BY <2>3, <3>1 DEF NoSweep, NextStage
  <2>4. CASE FindChildren(s)
    <3>1. sweep[s].parent \in Agents
      BY <1>1, <2>4 DEF FindChildren
    <3>2. LiveChildren(sweep[s].parent) \in SUBSET Agents
      BY DEF LiveChildren
    <3> QED
      BY <2>3, <2>4, <3>1, <3>2, ChildrenAreIntroduced DEF FindChildren
  <2>5. ASSUME NEW c \in Agents, CascadeTo(s, c) PROVE Kin
    <3>1. sweep[s].parent \in Agents /\ sweep[s].todo \ {c} \in SUBSET Agents
      BY <1>1, <2>5 DEF CascadeTo, Sweep
    <3> QED
      BY <1>1, <2>3, <2>5, <3>1 DEF CascadeTo
  <2> QED
    BY <1>8, <2>1, <2>2, <2>4, <2>5 DEF SweepStep
<1>9. ASSUME NEW w \in Workers, TokenStep(w) PROVE sweep' = sweep
  BY <1>9
  DEF TokenStep, Spend, DictateTerms, TurnAway, RejectClaim, Agree, ReadConnection,
      CheckIntroduction, CheckOperator, CheckQueue, CheckSponsor, PutIntroduced,
      RecheckSponsor, UndoIntroduction, NoteRevocations, Pend, IssueRpt, RefuseRpt, Close,
      PollOperator, PollConnection, ReadPrior, AdmitConnection, NoteApproval, ownerVars
<1>10. CASE \/ \E f \in Families, tier \in Tiers : Perm(f, tier)
            \/ \E f \in Families : Expire(f)
            \/ \E w \in Workers, t \in tickets : Present(w, t)
            \/ \E w \in Workers : Crash(w)
            \/ \E f \in Families, d \in Decisions, by \in Deciders : Decide(f, d, by)
            \/ \E o \in Operators : UnblockOperator(o)
            \/ UNCHANGED vars
  <2>1. sweep' = sweep
    BY <1>10 DEF Perm, Expire, Present, Crash, Decide, UnblockOperator, vars, ownerVars
  <2> QED
    BY <1>2, <2>1
<1>11. ASSUME NEW t \in Sweepers, NEW h \in Agents, Revoke(t, h) PROVE Kin
  BY <1>2, <1>3, <1>4, <1>11
<1>12. ASSUME NEW t \in Sweepers, NEW o \in Operators, BlockOperator(t, o) PROVE Kin
  BY <1>2, <1>5, <1>12
<1>13. ASSUME NEW t \in Sweepers, CrashSweep(t) PROVE Kin
  BY <1>2, <1>6, <1>13
<1>14. ASSUME NEW t \in Sweepers, SweepStep(t) PROVE Kin
  BY <1>2, <1>7, <1>8, <1>14
<1>15. ASSUME NEW w \in Workers, TokenStep(w) PROVE Kin
  BY <1>2, <1>9, <1>15
<1> QED
  BY <1>10, <1>11, <1>12, <1>13, <1>14, <1>15 DEF Next

LEMMA InitSweeps == Init => SweepsInv
  BY DEF Init, NoSweep, SweepsInv, SweepsKin, ParentKnown

Orphan(c, p) ==
  /\ connections[c].status = "active" /\ connections[c].parent = p /\ p # None
  /\ connections[p].status # "active"

(* Who is on the way to a child whose parent has gone.                      *)
Admitting(w, c, p) == pc[w] \in {"recheck", "undo"} /\ rec[w].handle = c /\ sponsor[w] = p
Cascading(s, c, p) ==
  /\ sweep[s].parent = p
  /\ sweep[s].stage = "children" \/ c \in sweep[s].todo

LEMMA OrphansAttended ==
  NoOrphan <=>
    \A c \in Agents : \A p : Orphan(c, p) =>
      \/ \E w \in Workers : Admitting(w, c, p)
      \/ \E s \in Sweepers : Cascading(s, c, p)
  BY DEF NoOrphan, Orphan, Admitting, Cascading

(* A connection that a step ends, and how it ends.                          *)
LEMMA WhoEnds ==
  ASSUME HandInv, KinInv, SweepsInv, OneGeneration, [Next]_vars, NEW p \in Agents,
         Sponsor[p] = None, connections[p].status = "active", connections'[p].status # "active"
  PROVE  \E s \in Sweepers : sweep'[s].parent = p /\ sweep'[s].stage = "children"
<1>1. /\ StoreTypeOK /\ connections \in [Agents -> Connection] /\ sweep \in [Sweepers -> Sweep]
  BY DEF HandInv, TypeOK, StoreTypeOK, OwnerTypeOK
<1>2. connections' # connections
  OBVIOUS
<1>3. ASSUME NEW h \in Agents, RevokeConnection(h) PROVE h = p
  BY <1>1, <1>3, RevocationQuiet
<1>4. ASSUME NEW w \in Workers, TokenStep(w) PROVE FALSE
  <2>1. CASE PutIntroduced(w)
    <3>1. rec[w].handle # p
      <4>1. sponsor[w] \in Agents /\ sponsor[w] = Sponsor[rec[w].handle]
        BY <2>1, IntroducedRow
      <4> QED
        BY <4>1, StoreAssumption
    <3> QED
      BY <2>1, <3>1, IntroducedRow
  <2>2. CASE UndoIntroduction(w)
    <3>1. pc[w] = "undo" /\ rec[w].handle \in Agents /\ RevokeConnection(rec[w].handle)
      BY <2>2 DEF UndoIntroduction, HandInv, TypeOK, InHand
    <3>2. Sponsor[rec[w].handle] # None
      BY <3>1 DEF KinInv, KinHand, VouchLabels
    <3> QED
      BY <1>3, <3>1, <3>2
  <2>3. CASE AdmitConnection(w)
    <3>1. \E c : connections' = [connections EXCEPT ![rec[w].handle] = c] /\ c.status = "active"
      BY <2>3 DEF AdmitConnection, PutConnection, NoConnection
    <3> QED
      BY <1>1, <3>1
  <2>4. CASE NoteApproval(w)
    <3>1. \/ connections' = connections
          \/ \E x : connections' = [connections EXCEPT ![rec[w].handle].approved = x]
      BY <1>1, <2>4 DEF NoteApproval, NoteTierApproval
    <3> QED
      BY <1>1, <1>2, <3>1 DEF Connection
  <2>5. ASSUME ~PutIntroduced(w), ~UndoIntroduction(w), ~AdmitConnection(w), ~NoteApproval(w)
        PROVE  connections' = connections
    BY <1>4, <2>5
    DEF TokenStep, Spend, DictateTerms, TurnAway, RejectClaim, Agree, ReadConnection,
        CheckIntroduction, CheckOperator, CheckQueue, CheckSponsor, RecheckSponsor,
        NoteRevocations, Pend, IssueRpt, RefuseRpt, Close, PollOperator, PollConnection,
        ReadPrior, storeVars
  <2> QED
    BY <1>2, <2>1, <2>2, <2>3, <2>4, <2>5
<1>5. ASSUME NEW s \in Sweepers, NEW h \in Agents, Revoke(s, h)
      PROVE  sweep'[s].parent = p /\ sweep'[s].stage = "children"
  <2>1. h = p
    BY <1>3, <1>5 DEF Revoke
  <2> QED
    BY <1>1, <1>5, <2>1 DEF Revoke, NoSweep
<1>6. ASSUME NEW s \in Sweepers, SweepStep(s)
      PROVE  sweep'[s].parent = p /\ sweep'[s].stage = "children"
  <2>1. ~FindConnections(s) /\ ~FindChildren(s)
    BY <1>2 DEF FindConnections, FindChildren, storeVars
  <2>2. ASSUME NEW h \in Agents, SweepConnection(s, h)
        PROVE  sweep'[s].parent = p /\ sweep'[s].stage = "children"
    <3>1. h = p
      BY <1>3, <2>2 DEF SweepConnection
    <3> QED
      BY <1>1, <2>2, <3>1 DEF SweepConnection, Sweep
  <2>3. ASSUME NEW h \in Agents, CascadeTo(s, h) PROVE FALSE
    <3>1. h = p /\ Sponsor[h] # None
      BY <1>3, <2>3 DEF CascadeTo, SweepsInv, SweepsKin
    <3> QED
      BY <3>1
  <2> QED
    BY <1>6, <2>1, <2>2, <2>3 DEF SweepStep
<1>7. CASE \/ \E f \in Families, tier \in Tiers : Perm(f, tier)
           \/ \E f \in Families : Expire(f)
           \/ \E w \in Workers, t \in tickets : Present(w, t)
           \/ \E w \in Workers : Crash(w)
           \/ \E f \in Families, d \in Decisions, by \in Deciders : Decide(f, d, by)
           \/ \E s \in Sweepers, o \in Operators : BlockOperator(s, o)
           \/ \E o \in Operators : UnblockOperator(o)
           \/ \E s \in Sweepers : CrashSweep(s)
           \/ UNCHANGED vars
  BY <1>2, <1>7
  DEF Perm, Expire, Present, Crash, Decide, BlockOperator, UnblockOperator, CrashSweep, vars, storeVars
<1> QED
  BY <1>4, <1>5, <1>6, <1>7 DEF Next

(* Who was on the way stays on the way, until the child is gone.            *)
LEMMA AdmittingStays ==
  ASSUME HandInv, [Next]_vars, \A v \in Workers : ~Crash(v), NEW w \in Workers,
         NEW c \in Agents, NEW p \in Agents, Admitting(w, c, p),
         connections[p].status # "active", connections'[c].status = "active"
  PROVE  Admitting(w, c, p)'
<1>1. TypeOK /\ StoreTypeOK
  BY DEF HandInv, TypeOK
<1>2. CASE SameHand(w)
  BY <1>2 DEF SameHand, Admitting
<1>3. ASSUME NEW v \in Workers, TokenStep(v), v # w PROVE SameHand(w)
  BY <1>1, <1>3, OthersStay
<1>4. CASE TokenStep(w)
  <2>1. RecheckSponsor(w) \/ UndoIntroduction(w)
    BY <1>4
    DEF Admitting, TokenStep, Spend, DictateTerms, TurnAway, RejectClaim, Agree, ReadConnection,
        CheckIntroduction, CheckOperator, CheckQueue, CheckSponsor, PutIntroduced, NoteRevocations,
        Pend, IssueRpt, RefuseRpt, Close, PollOperator, PollConnection, ReadPrior,
        AdmitConnection, NoteApproval
  <2>2. ~UndoIntroduction(w)
    BY <1>1, RevocationQuiet DEF UndoIntroduction, Admitting
  <2>3. pc'[w] = "undo" /\ rec' = rec /\ sponsor' = sponsor
    BY <1>1, <2>1, <2>2 DEF RecheckSponsor, Goto, Admitting, TypeOK, WorkTypeOK
  <2> QED
    BY <2>3 DEF Admitting
<1>5. CASE \A v \in Workers : ~TokenStep(v) /\ ~Crash(v)
  <2>1. Unmoved(w)
    BY <1>1, <1>5, HandsStay
  <2>2. pc'[w] = pc[w]
    BY <1>5
    DEF Admitting, Next, Perm, Expire, Present, Goto, Decide, Revoke, BlockOperator, UnblockOperator,
        SweepStep, FindConnections, FindChildren, SweepConnection, CascadeTo, CrashSweep, vars,
        workVars, HandInv, TypeOK, WorkTypeOK
  <2> QED
    BY <2>1, <2>2 DEF Unmoved, Admitting
<1> QED
  BY <1>2, <1>3, <1>4, <1>5

LEMMA CascadingStays ==
  ASSUME HandInv, SweepsInv, [Next]_vars, \A t \in Sweepers : ~CrashSweep(t), NEW s \in Sweepers,
         NEW c \in Agents, NEW p \in Agents, Cascading(s, c, p),
         connections[c].parent = p, connections[c].status = "active",
         connections'[c].status = "active"
  PROVE  Cascading(s, c, p)'
<1>1. /\ StoreTypeOK /\ sweep \in [Sweepers -> Sweep]
      /\ sweep[s].parent = p /\ sweep[s].stage \in {"children", "cascade"}
      /\ sweep[s].stage = "cascade" => c \in sweep[s].todo
  BY DEF HandInv, TypeOK, OwnerTypeOK, SweepsInv, SweepsKin, Cascading
<1>2. CASE sweep'[s] = sweep[s]
  BY <1>2 DEF Cascading
<1>3. ASSUME NEW t \in Sweepers, NEW h \in Agents, Revoke(t, h) PROVE sweep'[s] = sweep[s]
  BY <1>1, <1>3 DEF Revoke
<1>4. ASSUME NEW t \in Sweepers, NEW o \in Operators, BlockOperator(t, o) PROVE sweep'[s] = sweep[s]
  BY <1>1, <1>4 DEF BlockOperator
<1>5. ASSUME NEW t \in Sweepers, SweepStep(t), t # s PROVE sweep'[s] = sweep[s]
  BY <1>1, <1>5 DEF SweepStep, FindConnections, FindChildren, SweepConnection, CascadeTo, SweepTo
<1>6. ASSUME NEW todo \in SUBSET Agents, c \in todo,
             SweepTo(s, sweep[s].origin, sweep[s].queue, p, todo)
      PROVE  Cascading(s, c, p)'
  <2>1. sweep'[s].parent = p /\ sweep'[s].todo = todo
    BY <1>1, <1>6 DEF SweepTo
  <2> QED
    BY <1>6, <2>1 DEF Cascading
<1>7. CASE SweepStep(s)
  <2>1. CASE FindChildren(s)
    <3>1. c \in LiveChildren(p) /\ LiveChildren(p) \in SUBSET Agents
      BY DEF LiveChildren
    <3> QED
      BY <1>1, <1>6, <2>1, <3>1 DEF FindChildren
  <2>2. ASSUME NEW d \in Agents, CascadeTo(s, d) PROVE Cascading(s, c, p)'
    <3>1. d # c
      BY <1>1, <2>2, RevocationQuiet DEF CascadeTo
    <3>2. c \in sweep[s].todo \ {d} /\ sweep[s].todo \ {d} \in SUBSET Agents
      BY <1>1, <2>2, <3>1 DEF CascadeTo, Sweep
    <3> QED
      BY <1>1, <1>6, <2>2, <3>2 DEF CascadeTo
  <2>3. ~FindConnections(s) /\ \A h \in Agents : ~SweepConnection(s, h)
    BY <1>1 DEF FindConnections, SweepConnection
  <2> QED
    BY <1>7, <2>1, <2>2, <2>3 DEF SweepStep
<1>8. ASSUME NEW w \in Workers, TokenStep(w) PROVE sweep' = sweep
  BY <1>8
  DEF TokenStep, Spend, DictateTerms, TurnAway, RejectClaim, Agree, ReadConnection,
      CheckIntroduction, CheckOperator, CheckQueue, CheckSponsor, PutIntroduced,
      RecheckSponsor, UndoIntroduction, NoteRevocations, Pend, IssueRpt, RefuseRpt, Close,
      PollOperator, PollConnection, ReadPrior, AdmitConnection, NoteApproval, ownerVars
<1>9. CASE \/ \E f \in Families, tier \in Tiers : Perm(f, tier)
           \/ \E f \in Families : Expire(f)
           \/ \E w \in Workers, t \in tickets : Present(w, t)
           \/ \E w \in Workers : Crash(w)
           \/ \E f \in Families, d \in Decisions, by \in Deciders : Decide(f, d, by)
           \/ \E o \in Operators : UnblockOperator(o)
           \/ UNCHANGED vars
  <2>1. sweep' = sweep
    BY <1>9 DEF Perm, Expire, Present, Crash, Decide, UnblockOperator, vars, ownerVars
  <2> QED
    BY <1>2, <2>1
<1> QED
  BY <1>2, <1>3, <1>4, <1>5, <1>7, <1>8, <1>9 DEF Next

LEMMA NextOrphan ==
  ASSUME HandInv, BackedInv, KinInv, SweepsInv, OneGeneration, NoOrphan, [Next]_vars,
         \A w \in Workers : ~Crash(w), \A s \in Sweepers : ~CrashSweep(s)
  PROVE  NoOrphan'
<1> SUFFICES ASSUME NEW c \in Agents, NEW p, Orphan(c, p)'
             PROVE  \/ \E w \in Workers : Admitting(w, c, p)'
                    \/ \E s \in Sweepers : Cascading(s, c, p)'
  BY DEF NoOrphan, Orphan, Admitting, Cascading
<1>1. /\ connections'[c].status = "active" /\ connections'[c].parent = p /\ p # None
      /\ connections'[p].status # "active"
  BY DEF Orphan
<1>2. p = Sponsor[c] /\ p \in Agents /\ Sponsor[p] = None
  <2>1. p = Sponsor[c]
    BY <1>1, NextKin DEF KinInv
  <2> QED
    BY <1>1, <2>1, GrantLoopAssumption DEF Handles, OneGeneration
<1>3. ASSUME NEW w \in Workers, PutIntroduced(w), rec[w].handle = c
      PROVE  Admitting(w, c, p)'
  <2>1. sponsor[w] = p
    BY <1>1, <1>3, IntroducedRow
  <2> QED
    BY <1>3, <2>1 DEF PutIntroduced, Goto, Admitting, HandInv, TypeOK, WorkTypeOK
<1>4. CASE \A w \in Workers : PutIntroduced(w) => rec[w].handle # c
  <2>1. connections[c].status = "active" /\ connections[c].parent = p
    <3>1. CASE \A w \in Workers : ~PutIntroduced(w)
      BY <1>1, <3>1, ChildrenQuiet DEF ChildQuiet, HandInv
    <3>2. ASSUME NEW w \in Workers, PutIntroduced(w) PROVE connections'[c] = connections[c]
      BY <1>4, <3>2, IntroducedRow
    <3> QED
      BY <1>1, <3>1, <3>2
  <2>2. CASE connections[p].status = "active"
    <3>1. PICK s \in Sweepers : sweep'[s].parent = p /\ sweep'[s].stage = "children"
      BY <1>1, <1>2, <2>2, WhoEnds
    <3> QED
      BY <3>1 DEF Cascading
  <2>3. CASE connections[p].status # "active"
    <3>1. \/ \E w \in Workers : Admitting(w, c, p)
          \/ \E s \in Sweepers : Cascading(s, c, p)
      BY <1>1, <2>1, <2>3, OrphansAttended DEF Orphan
    <3>2. ASSUME NEW w \in Workers, Admitting(w, c, p) PROVE Admitting(w, c, p)'
      BY <1>1, <1>2, <2>3, <3>2, AdmittingStays
    <3>3. ASSUME NEW s \in Sweepers, Cascading(s, c, p) PROVE Cascading(s, c, p)'
      BY <1>1, <1>2, <2>1, <3>3, CascadingStays
    <3> QED
      BY <3>1, <3>2, <3>3
  <2> QED
    BY <2>2, <2>3
<1> QED
  BY <1>3, <1>4

(* Where no introduced agent introduces another, no sub-agent is ever left  *)
(* connected under a parent that is not, unless a request or a cascade has  *)
(* died half way: in whatever order introductions, revocations and blocks   *)
(* are taken, somebody is on the way to it.                                 *)
THEOREM NobodyIsOrphaned ==
  ASSUME OneGeneration
  PROVE  Spec => [](crashes = 0 => NoOrphan)
<1> DEFINE Inv == SweepsInv /\ (crashes = 0 => NoOrphan)
<1>1. Init => Inv
  <2>1. Init => NoOrphan
    <3> SUFFICES ASSUME Init PROVE NoOrphan
      OBVIOUS
    <3>1. \A c \in Agents : connections[c].parent = None
      BY DEF Init, StoreInit, NoConnection
    <3> QED
      BY <3>1 DEF NoOrphan
  <2> QED
    BY <2>1, InitSweeps
<1>2. HandInv /\ AnswerInv /\ BackedInv /\ LimitInv /\ Inv /\ [Next]_vars => Inv'
  <2> SUFFICES ASSUME HandInv, BackedInv, LimitInv, Inv, [Next]_vars PROVE Inv'
    OBVIOUS
  <2>1. SweepsInv'
    BY NextSweeps DEF LimitInv
  <2>2. ASSUME crashes' = 0 PROVE NoOrphan'
    <3>1. crashes \in Nat
      BY GrantLoopAssumption DEF HandInv, TypeOK, OwnerTypeOK
    <3>2. (\A w \in Workers : ~Crash(w)) /\ \A s \in Sweepers : ~CrashSweep(s)
      BY <2>2, <3>1 DEF Crash, CrashSweep
    <3>3. crashes = 0
      <4>1. crashes' = crashes
        BY <3>2
        DEF Next, Perm, Expire, Present, TokenStep, Spend, DictateTerms, TurnAway, RejectClaim,
            Agree, ReadConnection, CheckIntroduction, CheckOperator, CheckQueue, CheckSponsor,
            PutIntroduced, RecheckSponsor, UndoIntroduction, NoteRevocations, Pend, IssueRpt,
            RefuseRpt, Close, PollOperator, PollConnection, ReadPrior, AdmitConnection,
            NoteApproval, Decide, Revoke, BlockOperator, UnblockOperator, SweepStep,
            FindConnections, FindChildren, SweepConnection, CascadeTo, vars
      <4> QED
        BY <2>2, <4>1
    <3> QED
      BY <3>2, <3>3, NextOrphan DEF LimitInv
  <2> QED
    BY <2>1, <2>2
<1>3. Inv => (crashes = 0 => NoOrphan)
  OBVIOUS
<1> HIDE DEF Inv
<1> QED
  BY <1>1, <1>2, <1>3, LimitsAreKept, PTL DEF Spec
=============================================================================
