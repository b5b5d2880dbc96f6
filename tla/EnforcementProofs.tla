------------------------- MODULE EnforcementProofs --------------------------
(***************************************************************************)
(* Enforcement keeps the promise of a single-use grant: it implements      *)
(* module SingleUse.                                                       *)
(***************************************************************************)
EXTENDS Enforcement, TLAPS

-----------------------------------------------------------------------------
(* What the operations on the store preserve.                               *)

GrantsOK == rpts \in [Jtis -> Rpt]

(* Grants, once on file, stay there.                                        *)
Kept == \A j \in Jtis : rpts[j].status # "none" => rpts'[j].status # "none"

LEMMA RecordType ==
  ASSUME StoreTypeOK, NEW j \in Jtis, NEW h \in Agents,
         RecordRpt(j, None, h, None, connections[h].revocations),
         UNCHANGED <<negVars, connections, blocked>>
  PROVE  StoreTypeOK' /\ Kept
<1> DEFINE r == [status |-> "live", family |-> None, handle |-> h, tier |-> None,
                 epoch |-> connections[h].revocations]
<1>1. connections[h].revocations \in Nat
  BY DEF StoreTypeOK, Connection
<1>2. r \in Rpt
  BY <1>1 DEF Rpt, Handles
<1>3. rpts' = [rpts EXCEPT ![j] = r]
  BY DEF RecordRpt
<1>4. r.status = "live"
  OBVIOUS
<1> HIDE DEF r
<1>5. rpts' \in [Jtis -> Rpt] /\ Kept
  BY <1>2, <1>3, <1>4 DEF StoreTypeOK, Kept
<1> QED
  BY <1>5 DEF StoreTypeOK, negVars

LEMMA ConsumeType ==
  ASSUME StoreTypeOK, NEW j \in Jtis, ConsumeRpt(j),
         UNCHANGED <<negVars, connections, blocked>>
  PROVE  StoreTypeOK' /\ Kept
<1>1. rpts' \in [Jtis -> Rpt] /\ Kept
  BY DEF StoreTypeOK, ConsumeRpt, Rpt, Kept
<1> QED
  BY <1>1 DEF StoreTypeOK, negVars

LEMMA RevokeType ==
  ASSUME StoreTypeOK, NEW h \in Agents, RevokeConnection(h),
         UNCHANGED <<negVars, blocked>>
  PROVE  StoreTypeOK' /\ Kept
<1>1. connections' \in [Agents -> Connection]
  BY DEF StoreTypeOK, RevokeConnection, Connection
<1>2. rpts' \in [Jtis -> Rpt] /\ Kept
  BY DEF StoreTypeOK, RevokeConnection, Rpt, Kept
<1> QED
  BY <1>1, <1>2 DEF StoreTypeOK, negVars

LEMMA AdmitType ==
  ASSUME StoreTypeOK, NEW h \in Agents,
         PutConnection(h, [NoConnection EXCEPT !.status = "active",
                                               !.revocations = connections[h].revocations]),
         UNCHANGED <<negVars, rpts, blocked>>
  PROVE  StoreTypeOK' /\ Kept
<1> DEFINE r == [NoConnection EXCEPT !.status = "active",
                                     !.revocations = connections[h].revocations]
<1>1. connections[h].revocations \in Nat
  BY DEF StoreTypeOK, Connection
<1>2. r \in Connection
  BY <1>1 DEF NoConnection, Connection, Handles
<1>3. connections' = [connections EXCEPT ![h] = r]
  BY DEF PutConnection
<1> HIDE DEF r
<1> QED
  BY <1>2, <1>3 DEF StoreTypeOK, negVars, Kept

-----------------------------------------------------------------------------
(* Type correctness.                                                        *)

CallsOK == call \in [Calls -> Call \cup {NoCall}]

KnownOK == \A c \in Calls : Known(c) => rpts[call[c].grant].status # "none"

CountsOK ==
  /\ arrivals \in 0..MaxArrivals
  /\ performed \in [Jtis -> Nat]
  /\ touched \in [Jtis -> Nat]

LEMMA TypeParts == TypeOK <=> StoreTypeOK /\ CallsOK /\ KnownOK /\ CountsOK
  BY DEF TypeOK, CallsOK, KnownOK, CountsOK

LEMMA TypePartsNext == StoreTypeOK' /\ CallsOK' /\ KnownOK' /\ CountsOK' => TypeOK'
  BY DEF TypeOK, CallsOK, KnownOK, CountsOK

LEMMA NoCallOK ==
  /\ NoCall.stage = "idle" /\ NoCall.row = "none"
  /\ \A k \in Call \cup {NoCall} : k.stage = "idle" <=> k = NoCall
  /\ \A k \in Call \cup {NoCall} : k.stage # "idle" <=> k \in Call
  BY DEF NoCall, Call, Stages

LEMMA InitType == Init => TypeOK
<1> SUFFICES ASSUME Init PROVE TypeOK
  OBVIOUS
<1>1. StoreTypeOK
  <2>1. NoNegotiation \in Negotiation /\ NoConnection \in Connection /\ NoRpt \in Rpt
    BY DEF NoNegotiation, Negotiation, NoConnection, Connection, NoRpt, Rpt, Handles
  <2>2. [NoConnection EXCEPT !.status = "active", !.approved = Tiers] \in Connection
    BY DEF NoConnection, Connection, Handles
  <2> QED
    BY <2>1, <2>2 DEF Init, StoreInit, StoreTypeOK, Tickets
<1>2. CallsOK /\ KnownOK
  BY NoCallOK DEF Init, CallsOK, KnownOK, Known
<1>3. CountsOK
  BY EnforcementAssumption DEF Init, CountsOK
<1> QED
  BY <1>1, <1>2, <1>3, TypeParts

LEMMA KnownCarries ==
  ASSUME CallsOK, NEW c \in Calls, Known(c)
  PROVE  call[c] \in Call /\ call[c].grant \in Jtis
<1>1. call[c] # NoCall
  BY NoCallOK DEF Known
<1> QED
  BY <1>1 DEF CallsOK, Call

(* A call that ends, or that never was, carries nothing.                     *)
LEMMA EndType ==
  ASSUME CallsOK, KnownOK, GrantsOK, NEW c \in Calls,
         call' = [call EXCEPT ![c] = NoCall], Kept
  PROVE  CallsOK' /\ KnownOK'
<1>1. CallsOK'
  BY NoCallOK DEF CallsOK
<1>2. ASSUME NEW d \in Calls, Known(d)'
      PROVE  rpts'[call'[d].grant].status # "none"
  <2>1. d # c
    BY <1>2, NoCallOK DEF CallsOK, Known
  <2>2. call'[d] = call[d] /\ Known(d)
    BY <1>2, <2>1 DEF CallsOK, Known
  <2>3. call[d].grant \in Jtis
    BY <2>2, KnownCarries
  <2> QED
    BY <2>2, <2>3 DEF KnownOK, Kept
<1> QED
  BY <1>1, <1>2 DEF KnownOK

(* A call that goes on: what it carries is known if it was, or just became.  *)
LEMMA OnwardType ==
  ASSUME CallsOK, KnownOK, GrantsOK, NEW c \in Calls, NEW k \in Call,
         call' = [call EXCEPT ![c] = k], Kept,
         k.row # "none" \/ k.stage \notin {"introspect", "introspected"}
           => rpts[k.grant].status # "none"
  PROVE  CallsOK' /\ KnownOK'
<1>1. CallsOK'
  BY DEF CallsOK
<1>2. ASSUME NEW d \in Calls, Known(d)'
      PROVE  rpts'[call'[d].grant].status # "none"
  <2>1. CASE d = c
    <3>1. call'[d] = k /\ k.grant \in Jtis
      BY <2>1 DEF CallsOK, Call
    <3>2. rpts[k.grant].status # "none"
      BY <1>2, <3>1 DEF Known
    <3> QED
      BY <3>1, <3>2 DEF Kept
  <2>2. CASE d # c
    <3>1. call'[d] = call[d] /\ Known(d)
      BY <1>2, <2>2 DEF CallsOK, Known
    <3>2. call[d].grant \in Jtis
      BY <3>1, KnownCarries
    <3> QED
      BY <3>1, <3>2 DEF KnownOK, Kept
  <2> QED
    BY <2>1, <2>2
<1> QED
  BY <1>1, <1>2 DEF KnownOK

LEMMA FrameType ==
  ASSUME CallsOK, KnownOK, Kept, UNCHANGED call
  PROVE  CallsOK' /\ KnownOK'
  BY KnownCarries DEF CallsOK, KnownOK, Known, Kept

LEMMA GotoType ==
  ASSUME TypeOK, NEW c \in Calls, NEW stage \in Stages, Goto(c, stage), Known(c),
         Kept
  PROVE  CallsOK' /\ KnownOK'
<1> DEFINE k == [call[c] EXCEPT !.stage = stage]
<1>1. CallsOK /\ KnownOK /\ GrantsOK
  BY TypeParts DEF StoreTypeOK, GrantsOK
<1>2. call[c] \in Call
  BY <1>1, KnownCarries
<1>3. k \in Call /\ k.grant = call[c].grant
  BY <1>2 DEF Call
<1>4. call' = [call EXCEPT ![c] = k]
  BY <1>1 DEF Goto, CallsOK
<1>5. rpts[call[c].grant].status # "none"
  BY <1>1 DEF KnownOK
<1> HIDE DEF k
<1> QED
  BY <1>1, <1>3, <1>4, <1>5, OnwardType

LEMMA StoreKept ==
  ASSUME StoreTypeOK, UNCHANGED storeVars
  PROVE  StoreTypeOK' /\ Kept
  BY DEF StoreTypeOK, storeVars, Kept

-----------------------------------------------------------------------------
(* Type correctness, step by step.                                          *)

LEMMA WorldType ==
  ASSUME TypeOK, NEW h \in Agents, (\E j \in Jtis : Issue(j, h)) \/ Revoke(h) \/ Admit(h)
  PROVE  TypeOK'
<1>1. StoreTypeOK /\ CallsOK /\ KnownOK /\ CountsOK
  BY TypeParts
<1>2. StoreTypeOK' /\ Kept
  <2>1. CASE \E j \in Jtis : Issue(j, h)
    BY <1>1, <2>1, RecordType DEF Issue
  <2>2. CASE Revoke(h)
    BY <1>1, <2>2, RevokeType DEF Revoke
  <2>3. CASE Admit(h)
    BY <1>1, <2>3, AdmitType DEF Admit
  <2> QED
    BY <2>1, <2>2, <2>3
<1>3. UNCHANGED <<call, arrivals, performed, touched>>
  BY DEF Issue, Revoke, Admit
<1>4. CallsOK' /\ KnownOK'
  BY <1>1, <1>2, <1>3, FrameType
<1>5. CountsOK'
  BY <1>1, <1>3 DEF CountsOK
<1> QED
  BY <1>2, <1>4, <1>5, TypePartsNext

LEMMA ArriveType ==
  ASSUME TypeOK, NEW c \in Calls, NEW j \in Jtis, NEW act \in Acts, Arrive(c, j, act)
  PROVE  TypeOK'
<1> DEFINE k == [stage |-> "introspect", grant |-> j, act |-> act, row |-> "none",
                 spent |-> rpts[j].status = "consumed"]
<1>1. StoreTypeOK /\ CallsOK /\ KnownOK /\ CountsOK /\ GrantsOK
  BY TypeParts DEF StoreTypeOK, GrantsOK
<1>2. StoreTypeOK' /\ Kept
  BY <1>1, StoreKept DEF Arrive
<1>3. k \in Call /\ k.row = "none" /\ k.stage = "introspect"
  BY DEF Call, Stages
<1>4. call' = [call EXCEPT ![c] = k]
  BY DEF Arrive
<1>5. CountsOK'
  BY <1>1, EnforcementAssumption DEF CountsOK, Arrive
<1> HIDE DEF k
<1>6. CallsOK' /\ KnownOK'
  BY <1>1, <1>2, <1>3, <1>4, OnwardType
<1> QED
  BY <1>2, <1>5, <1>6, TypePartsNext

(* A call read the row: once on file, the grant stays there.                *)
LEMMA ReadGrantType ==
  ASSUME TypeOK, NEW c \in Calls, ReadGrant(c)
  PROVE  TypeOK'
<1> DEFINE to == IF call[c].stage = "introspect" THEN "introspected" ELSE "consuming"
           k == [call[c] EXCEPT !.row = rpts[call[c].grant].status, !.stage = to]
<1>1. StoreTypeOK /\ CallsOK /\ KnownOK /\ CountsOK /\ GrantsOK
  BY TypeParts DEF StoreTypeOK, GrantsOK
<1>2. StoreTypeOK' /\ Kept
  BY <1>1, StoreKept DEF ReadGrant
<1>3. call[c] \in Call /\ call[c].grant \in Jtis
  BY <1>1, NoCallOK DEF ReadGrant, CallsOK, Call
<1>4. k \in Call /\ k.grant = call[c].grant /\ k.stage = to
      /\ k.row = rpts[k.grant].status
  BY <1>1, <1>3 DEF Call, GrantsOK, Rpt, Stages
<1>5. call' = [call EXCEPT ![c] = k]
  BY <1>1 DEF ReadGrant, CallsOK
<1>6. to \notin {"introspect", "introspected"} => rpts[call[c].grant].status # "none"
  BY <1>1 DEF ReadGrant, KnownOK, Known
<1>7. CountsOK'
  BY <1>1 DEF CountsOK, ReadGrant
<1> HIDE DEF k, to
<1>8. CallsOK' /\ KnownOK'
  BY <1>1, <1>2, <1>4, <1>5, <1>6, OnwardType
<1> QED
  BY <1>2, <1>7, <1>8, TypePartsNext

LEMMA OnType ==
  ASSUME TypeOK, NEW c \in Calls, ReadStanding(c) \/ Check(c) \/ Burn(c) \/ Report(c)
  PROVE  TypeOK'
<1>1. StoreTypeOK /\ CallsOK /\ KnownOK /\ CountsOK
  BY TypeParts
<1>2. Known(c)
  BY DEF ReadStanding, Check, Burn, Report, Known
<1>3. call[c].grant \in Jtis
  BY <1>1, <1>2, KnownCarries
<1>4. StoreTypeOK' /\ Kept
  <2>1. CASE Burn(c)
    BY <1>1, <1>3, <2>1, ConsumeType DEF Burn
  <2>2. CASE ~Burn(c)
    <3>1. UNCHANGED storeVars
      BY <2>2 DEF ReadStanding, Check, Report
    <3> QED
      BY <1>1, <3>1, StoreKept
  <2> QED
    BY <2>1, <2>2
<1>5. PICK stage \in Stages : Goto(c, stage)
  BY DEF ReadStanding, Check, Burn, Report, Stages
<1>6. CallsOK' /\ KnownOK'
  BY <1>2, <1>4, <1>5, GotoType
<1>7. CountsOK'
  BY <1>1, <1>3 DEF CountsOK, ReadStanding, Check, Burn, Report
<1> QED
  BY <1>4, <1>6, <1>7, TypePartsNext

LEMMA LeaveType ==
  ASSUME TypeOK, NEW c \in Calls, Drop(c) \/ Forward(c)
  PROVE  TypeOK'
<1>1. StoreTypeOK /\ CallsOK /\ KnownOK /\ CountsOK /\ GrantsOK
  BY TypeParts DEF StoreTypeOK, GrantsOK
<1>2. StoreTypeOK' /\ Kept
  <2>1. UNCHANGED storeVars
    BY DEF Drop, Forward
  <2> QED
    BY <1>1, <2>1, StoreKept
<1>3. call' = [call EXCEPT ![c] = NoCall]
  BY DEF Drop, Forward
<1>4. CallsOK' /\ KnownOK'
  BY <1>1, <1>2, <1>3, EndType
<1>5. CountsOK'
  BY <1>1 DEF CountsOK, Drop, Forward
<1> QED
  BY <1>2, <1>4, <1>5, TypePartsNext

LEMMA NextType ==
  ASSUME TypeOK, [Next]_vars
  PROVE  TypeOK'
<1>1. ASSUME NEW c \in Calls, CallStep(c)
      PROVE  TypeOK'
  BY <1>1, ReadGrantType, OnType, LeaveType DEF CallStep
<1>2. CASE UNCHANGED vars
  <2>1. StoreTypeOK /\ CallsOK /\ KnownOK /\ CountsOK
    BY TypeParts
  <2>2. StoreTypeOK' /\ Kept
    BY <1>2, <2>1, StoreKept DEF vars
  <2>3. CallsOK' /\ KnownOK'
    BY <1>2, <2>1, <2>2, FrameType DEF vars
  <2>4. CountsOK'
    BY <1>2, <2>1 DEF CountsOK, vars
  <2> QED
    BY <2>2, <2>3, <2>4, TypePartsNext
<1>3. CASE Next
  BY <1>1, <1>3, WorldType, ArriveType DEF Next
<1> QED
  BY <1>2, <1>3

(* Calls carry what their next step uses, and a call that has been told its *)
(* grant is on file never finds it gone.                                    *)
THEOREM TypeCorrect == Spec => []TypeOK
  BY InitType, NextType, PTL DEF Spec

-----------------------------------------------------------------------------
(* One winner.                                                              *)

(* Whoever holds a grant is alone with it, and it is burned and unused;      *)
(* whatever was used is burned.                                             *)
LEMMA OneWinnerInit == Init => OneWinner
  BY NoCallOK DEF Init, OneWinner, Holds, OneAct

(* A step that changes no grant, and lets nobody take one up.                *)
LEMMA BystanderWins ==
  ASSUME OneWinner, UNCHANGED performed,
         \A j \in OneAct : rpts[j].status = "consumed" => rpts'[j].status = "consumed",
         \A c \in Calls, j \in OneAct : Holds(c, j)' => Holds(c, j)
  PROVE  OneWinner'
  BY DEF OneWinner

LEMMA HoldsOnly ==
  ASSUME TypeOK, NEW c \in Calls, NEW k, call' = [call EXCEPT ![c] = k]
  PROVE  \A d \in Calls, j \in OneAct :
           Holds(d, j)' <=> IF d = c THEN k.stage \in {"report", "forward"} /\ k.grant = j
                                     ELSE Holds(d, j)
  BY DEF TypeOK, Holds

LEMMA BurnWins ==
  ASSUME TypeOK, OneWinner, NEW c \in Calls, Burn(c)
  PROVE  OneWinner'
<1> DEFINE g == call[c].grant
           k == [call[c] EXCEPT !.stage = "report"]
<1>1. g \in Jtis /\ call[c] \in Call
  BY KnownCarries, TypeParts DEF Burn, Known
<1>2. k.stage = "report" /\ k.grant = g
  BY <1>1 DEF Call
<1>3. call' = [call EXCEPT ![c] = k]
  BY DEF Burn, Goto, TypeOK
<1>4. rpts[g].status = "live" /\ rpts' = [rpts EXCEPT ![g].status = "consumed"]
      /\ UNCHANGED performed
  BY DEF Burn, ConsumeRpt
<1>5. \A j \in Jtis : rpts'[j].status = IF j = g THEN "consumed" ELSE rpts[j].status
  BY <1>1, <1>4 DEF TypeOK, StoreTypeOK, Rpt
<1> HIDE DEF k
<1>6. \A d \in Calls, j \in OneAct :
        Holds(d, j)' <=> IF d = c THEN j = g ELSE Holds(d, j)
  BY <1>2, <1>3, HoldsOnly
<1> HIDE DEF g
<1>7. ASSUME NEW j \in OneAct
      PROVE  /\ \A a, d \in Calls : Holds(a, j)' /\ Holds(d, j)' => a = d
             /\ \A d \in Calls : Holds(d, j)' => performed'[j] = 0 /\ rpts'[j].status = "consumed"
             /\ performed'[j] <= 1
             /\ performed'[j] > 0 => rpts'[j].status = "consumed"
  <2>0. j \in Jtis /\ performed[j] \in Nat
    BY DEF OneAct, TypeOK
  <2>1. CASE j = g
    <3>1. \A d \in Calls : ~Holds(d, j)
      BY <1>4, <2>1 DEF OneWinner
    <3>2. performed[j] = 0
      BY <1>4, <2>0, <2>1 DEF OneWinner
    <3> QED
      BY <1>4, <1>5, <1>6, <2>0, <2>1, <3>1, <3>2
  <2>2. CASE j # g
    BY <1>4, <1>5, <1>6, <2>0, <2>2 DEF OneWinner
  <2> QED
    BY <2>1, <2>2
<1> QED
  BY <1>7 DEF OneWinner

LEMMA ForwardWins ==
  ASSUME TypeOK, OneWinner, NEW c \in Calls, Forward(c)
  PROVE  OneWinner'
<1> DEFINE g == call[c].grant
<1>1. g \in Jtis
  BY KnownCarries, TypeParts DEF Forward, Known
<1>2. call' = [call EXCEPT ![c] = NoCall] /\ UNCHANGED rpts
  BY DEF Forward, storeVars
<1>3. \A d \in Calls, j \in OneAct : Holds(d, j)' <=> d # c /\ Holds(d, j)
  BY <1>2, HoldsOnly, NoCallOK
<1>4. \A j \in Jtis : performed'[j] = IF j = g THEN performed[j] + 1 ELSE performed[j]
  BY <1>1 DEF Forward, TypeOK
<1>5. \A j \in OneAct : Holds(c, j) <=> j = g
  BY DEF Holds, Forward
<1> HIDE DEF g
<1>6. ASSUME NEW j \in OneAct
      PROVE  /\ \A a, d \in Calls : Holds(a, j)' /\ Holds(d, j)' => a = d
             /\ \A d \in Calls : Holds(d, j)' => performed'[j] = 0 /\ rpts'[j].status = "consumed"
             /\ performed'[j] <= 1
             /\ performed'[j] > 0 => rpts'[j].status = "consumed"
  <2>0. j \in Jtis /\ performed[j] \in Nat
    BY DEF OneAct, TypeOK
  <2>1. CASE j = g
    <3>1. performed[j] = 0 /\ rpts[j].status = "consumed"
      BY <1>5, <2>1 DEF OneWinner
    <3>2. \A d \in Calls : ~Holds(d, j)'
      BY <1>3, <1>5, <2>1 DEF OneWinner
    <3> QED
      BY <1>2, <1>4, <2>0, <2>1, <3>1, <3>2
  <2>2. CASE j # g
    BY <1>2, <1>3, <1>4, <2>0, <2>2 DEF OneWinner
  <2> QED
    BY <2>1, <2>2
<1> QED
  BY <1>6 DEF OneWinner

(* Check lets a grant for one act through to the burn only.                  *)
LEMMA CheckHolds ==
  ASSUME TypeOK, NEW c \in Calls, Check(c) \/ ReadStanding(c) \/ ReadGrant(c)
  PROVE  \A d \in Calls, j \in OneAct : Holds(d, j)' <=> Holds(d, j)
<1>1. \A d \in Calls : d # c => call'[d] = call[d]
  BY DEF Check, ReadStanding, ReadGrant, Goto, TypeOK
<1>2. call[c] \in Call /\ call'[c].grant = call[c].grant
  BY KnownCarries, TypeParts, NoCallOK
     DEF Check, ReadStanding, ReadGrant, Goto, TypeOK, Call
<1>3. call[c].stage \notin {"report", "forward"}
  BY DEF Check, ReadStanding, ReadGrant
<1>4. call'[c].stage \in {"report", "forward"} => call[c].grant \notin OneAct
  BY <1>2, EnforcementAssumption DEF Check, ReadStanding, ReadGrant, Goto, TypeOK, Call
<1> QED
  BY <1>1, <1>2, <1>3, <1>4 DEF Holds

LEMMA ReportHolds ==
  ASSUME TypeOK, NEW c \in Calls, Report(c)
  PROVE  \A d \in Calls, j \in OneAct : Holds(d, j)' <=> Holds(d, j)
<1>1. \A d \in Calls : d # c => call'[d] = call[d]
  BY DEF Report, Goto, TypeOK
<1>2. /\ call[c].stage = "report" /\ call'[c].stage = "forward"
      /\ call'[c].grant = call[c].grant
  BY KnownCarries, TypeParts, NoCallOK DEF Report, Goto, TypeOK, Call
<1> QED
  BY <1>1, <1>2 DEF Holds

LEMMA ArriveHolds ==
  ASSUME TypeOK, NEW c \in Calls, NEW g \in Jtis, NEW act \in Acts, Arrive(c, g, act)
  PROVE  \A d \in Calls, j \in OneAct : Holds(d, j)' <=> Holds(d, j)
<1>1. \A d \in Calls : d # c => call'[d] = call[d]
  BY DEF Arrive, TypeOK
<1>2. call[c].stage = "idle" /\ call'[c].stage = "introspect"
  BY DEF Arrive, TypeOK
<1> QED
  BY <1>1, <1>2 DEF Holds

LEMMA DropHolds ==
  ASSUME TypeOK, NEW c \in Calls, Drop(c)
  PROVE  \A d \in Calls, j \in OneAct : Holds(d, j)' <=> d # c /\ Holds(d, j)
<1>1. call' = [call EXCEPT ![c] = NoCall]
  BY DEF Drop
<1> QED
  BY <1>1, HoldsOnly, NoCallOK

(* Meanwhile, grants are issued where there were none, and burned by a       *)
(* revocation: none is un-burned.                                           *)
LEMMA WorldGrants ==
  ASSUME TypeOK, NEW h \in Agents, (\E j \in Jtis : Issue(j, h)) \/ Revoke(h) \/ Admit(h)
  PROVE  /\ \A j \in Jtis : rpts[j].status = "consumed" => rpts'[j].status = "consumed"
         /\ UNCHANGED <<call, performed>>
<1>1. CASE \E j \in Jtis : Issue(j, h)
  BY <1>1 DEF Issue, RecordRpt, TypeOK, StoreTypeOK
<1>2. CASE Revoke(h)
  BY <1>2 DEF Revoke, RevokeConnection, TypeOK, StoreTypeOK
<1>3. CASE Admit(h)
  BY <1>3 DEF Admit
<1> QED
  BY <1>1, <1>2, <1>3

LEMMA NextWins ==
  ASSUME TypeOK, OneWinner, [Next]_vars
  PROVE  OneWinner'
<1>1. ASSUME NEW h \in Agents, (\E j \in Jtis : Issue(j, h)) \/ Revoke(h) \/ Admit(h)
      PROVE  OneWinner'
  <2>1. \A c \in Calls, j \in OneAct : Holds(c, j)' => Holds(c, j)
    BY <1>1, WorldGrants DEF Holds
  <2> QED
    BY <1>1, <2>1, WorldGrants, BystanderWins DEF OneAct
<1>2. ASSUME NEW c \in Calls, NEW g \in Jtis, NEW act \in Acts, Arrive(c, g, act)
      PROVE  OneWinner'
  <2>1. UNCHANGED <<rpts, performed>>
    BY <1>2 DEF Arrive, storeVars
  <2> QED
    BY <1>2, <2>1, ArriveHolds, BystanderWins
<1>3. ASSUME NEW c \in Calls, CallStep(c)
      PROVE  OneWinner'
  <2>1. CASE Check(c) \/ ReadStanding(c) \/ ReadGrant(c)
    <3>1. UNCHANGED <<rpts, performed>>
      BY <2>1 DEF Check, ReadStanding, ReadGrant, storeVars
    <3> QED
      BY <2>1, <3>1, CheckHolds, BystanderWins
  <2>2. CASE Report(c)
    <3>1. UNCHANGED <<rpts, performed>>
      BY <2>2 DEF Report, storeVars
    <3> QED
      BY <2>2, <3>1, ReportHolds, BystanderWins
  <2>3. CASE Drop(c)
    <3>1. UNCHANGED <<rpts, performed>>
      BY <2>3 DEF Drop, storeVars
    <3> QED
      BY <2>3, <3>1, DropHolds, BystanderWins
  <2> QED
    BY <1>3, <2>1, <2>2, <2>3, BurnWins, ForwardWins DEF CallStep
<1>4. CASE UNCHANGED vars
  BY <1>4 DEF vars, storeVars, OneWinner, Holds
<1> QED
  BY <1>1, <1>2, <1>3, <1>4 DEF Next

(* The burn has one winner: at any number of enforcement points, a burned   *)
(* single-use grant is in one call's hands, unused, or in nobody's.         *)
THEOREM BurnHasOneWinner == Spec => []OneWinner
<1>1. Init => TypeOK /\ OneWinner
  BY InitType, OneWinnerInit
<1>2. TypeOK /\ OneWinner /\ [Next]_vars => TypeOK' /\ OneWinner'
  BY NextType, NextWins
<1> QED
  BY <1>1, <1>2, PTL DEF Spec

-----------------------------------------------------------------------------
(* A grant that was spent when its call arrived.                             *)

(* Such a call never comes past introspection: no reading of the row, then   *)
(* or later, says the grant is live.                                        *)
SpentStops ==
  \A c \in Calls : call[c].spent =>
    /\ call[c].stage \in {"introspect", "introspected"}
    /\ call[c].row # "live"
    /\ rpts[call[c].grant].status = "consumed"

LEMMA SpentInit == Init => SpentStops
  BY DEF Init, SpentStops, NoCall

LEMMA SpentNext ==
  ASSUME TypeOK, SpentStops, [Next]_vars
  PROVE  SpentStops'
<1>1. \A c \in Calls : call[c].spent => call[c] \in Call /\ call[c].grant \in Jtis
  BY NoCallOK DEF SpentStops, TypeOK, Call
<1>2. ASSUME NEW h \in Agents, (\E j \in Jtis : Issue(j, h)) \/ Revoke(h) \/ Admit(h)
      PROVE  SpentStops'
  BY <1>1, <1>2, WorldGrants DEF SpentStops
<1>3. ASSUME NEW c \in Calls, NEW j \in Jtis, NEW act \in Acts, Arrive(c, j, act)
      PROVE  SpentStops'
  BY <1>3 DEF Arrive, storeVars, SpentStops, TypeOK
<1>4. ASSUME NEW c \in Calls, CallStep(c)
      PROVE  SpentStops'
  <2>1. CASE Drop(c) \/ Forward(c)
    BY <2>1 DEF Drop, Forward, NoCall, storeVars, SpentStops, TypeOK
  <2>2. CASE ReadGrant(c)
    <3>1. call[c] \in Call
      BY <2>2, NoCallOK DEF ReadGrant, TypeOK
    <3>2. /\ \A d \in Calls : d # c => call'[d] = call[d]
          /\ call'[c].spent = call[c].spent /\ call'[c].grant = call[c].grant
          /\ call'[c].row = rpts[call[c].grant].status
          /\ call[c].stage = "introspect" => call'[c].stage = "introspected"
          /\ UNCHANGED rpts
      BY <2>2, <3>1 DEF ReadGrant, storeVars, TypeOK, Call
    <3> QED
      BY <2>2, <3>2 DEF ReadGrant, SpentStops
  <2>3. CASE ReadStanding(c) \/ Check(c) \/ Report(c)
    <3>1. ~call[c].spent
      BY <2>3 DEF ReadStanding, Check, Report, SpentStops
    <3>2. /\ \A d \in Calls : d # c => call'[d] = call[d]
          /\ call'[c].spent = call[c].spent
          /\ UNCHANGED rpts
      BY <2>3, KnownCarries, TypeParts
         DEF Known, ReadStanding, Check, Report, Goto, storeVars, TypeOK, Call
    <3> QED
      BY <3>1, <3>2 DEF SpentStops
  <2>4. CASE Burn(c)
    <3>1. ~call[c].spent
      BY <2>4 DEF Burn, SpentStops
    <3>2. /\ \A d \in Calls : d # c => call'[d] = call[d]
          /\ call'[c].spent = call[c].spent
      BY <2>4, KnownCarries, TypeParts DEF Known, Burn, Goto, TypeOK, Call
    <3>3. \A j \in Jtis : rpts[j].status = "consumed" => rpts'[j].status = "consumed"
      BY <2>4 DEF Burn, ConsumeRpt, TypeOK, StoreTypeOK
    <3> QED
      BY <1>1, <3>1, <3>2, <3>3 DEF SpentStops
  <2> QED
    BY <1>4, <2>1, <2>2, <2>3, <2>4 DEF CallStep
<1>5. CASE UNCHANGED vars
  BY <1>5 DEF vars, storeVars, SpentStops
<1> QED
  BY <1>2, <1>3, <1>4, <1>5 DEF Next

(* A grant that was used up or revoked before a call arrives is of no use to *)
(* it, whatever the owner decides about the agent meanwhile.                *)
THEOREM SpentIsSpent == Spec => SpentIsNotUsed
<1>1. Init => TypeOK /\ SpentStops
  BY InitType, SpentInit
<1>2. TypeOK /\ SpentStops /\ [Next]_vars => TypeOK' /\ SpentStops'
  BY NextType, SpentNext
<1>3. SpentStops => [\A c \in Calls :
         call[c].stage = "forward" /\ performed' # performed /\ call'[c].stage = "idle" =>
           ~call[c].spent]_vars
  BY DEF SpentStops
<1> QED
  BY <1>1, <1>2, <1>3, PTL DEF Spec, SpentIsNotUsed

-----------------------------------------------------------------------------
(* Enforcement implements the abstract grant.                               *)

stateBar == [j \in OneAct |-> StateOf(j)]
usedBar == [j \in OneAct |-> performed[j]]

(* The abstract state of a grant hangs on its row and on who holds it.       *)
LEMMA StateParts ==
  ASSUME TypeOK, NEW j \in OneAct
  PROVE  /\ StateOf(j) = "absent" <=> rpts[j].status = "none"
         /\ StateOf(j) = "live" <=> rpts[j].status = "live"
         /\ StateOf(j) = "held" <=>
              rpts[j].status = "consumed" /\ \E c \in Calls : Holds(c, j)
         /\ StateOf(j) = "gone" <=>
              rpts[j].status = "consumed" /\ ~\E c \in Calls : Holds(c, j)
         /\ StateOf(j) \in {"absent", "live", "held", "gone"}
<1>1. rpts[j].status \in {"none", "live", "consumed"}
  BY DEF TypeOK, StoreTypeOK, Rpt, OneAct
<1> QED
  BY <1>1 DEF StateOf

LEMMA StatePartsNext ==
  ASSUME TypeOK', NEW j \in OneAct
  PROVE  /\ StateOf(j)' = "absent" <=> rpts'[j].status = "none"
         /\ StateOf(j)' = "live" <=> rpts'[j].status = "live"
         /\ StateOf(j)' = "held" <=>
              rpts'[j].status = "consumed" /\ \E c \in Calls : Holds(c, j)'
         /\ StateOf(j)' = "gone" <=>
              rpts'[j].status = "consumed" /\ ~\E c \in Calls : Holds(c, j)'
         /\ StateOf(j)' \in {"absent", "live", "held", "gone"}
<1>1. rpts'[j].status \in {"none", "live", "consumed"}
  BY DEF TypeOK, StoreTypeOK, Rpt, OneAct
<1> QED
  BY <1>1 DEF StateOf

LEMMA SameStates ==
  ASSUME TypeOK, TypeOK', UNCHANGED rpts,
         \A d \in Calls, j \in OneAct : Holds(d, j)' <=> Holds(d, j)
  PROVE  UNCHANGED stateBar
<1>1. \A j \in OneAct : StateOf(j)' = StateOf(j)
  BY StateParts, StatePartsNext
<1> QED
  BY <1>1 DEF stateBar

LEMMA InitImplements == Init => Promise!Init
<1> SUFFICES ASSUME Init PROVE Promise!Init
  OBVIOUS
<1>1. \A j \in OneAct : StateOf(j) = "absent" /\ performed[j] = 0
  BY DEF Init, StoreInit, StateOf, NoRpt, OneAct
<1> QED
  BY <1>1 DEF Promise!Init

LEMMA IssueImplements ==
  ASSUME TypeOK, TypeOK', OneWinner, NEW g \in Jtis, NEW h \in Agents, Issue(g, h)
  PROVE  [Promise!Next]_Promise!vars
<1>1. /\ rpts[g].status = "none" /\ rpts'[g].status = "live"
      /\ \A j \in Jtis \ {g} : rpts'[j] = rpts[j]
      /\ UNCHANGED <<call, performed>>
  BY DEF Issue, RecordRpt, TypeOK, StoreTypeOK
<1>2. UNCHANGED usedBar
  BY <1>1 DEF usedBar
<1>3. \A j \in OneAct : j # g => StateOf(j)' = StateOf(j)
  <2>1. \A d \in Calls, j \in OneAct : Holds(d, j)' <=> Holds(d, j)
    BY <1>1 DEF Holds
  <2> QED
    BY <1>1, <2>1, StateParts, StatePartsNext DEF OneAct
<1>4. CASE g \in OneAct
  <2>1. StateOf(g) = "absent" /\ StateOf(g)' = "live"
    BY <1>1, <1>4, StateParts, StatePartsNext
  <2>2. stateBar' = [stateBar EXCEPT ![g] = "live"] /\ stateBar[g] = "absent"
    BY <1>3, <1>4, <2>1 DEF stateBar
  <2>3. Promise!Issue(g)
    BY <1>2, <2>2 DEF Promise!Issue, stateBar, usedBar
  <2> QED
    BY <1>4, <2>3 DEF Promise!Next
<1>5. CASE g \notin OneAct
  <2>1. UNCHANGED stateBar
    BY <1>3, <1>5 DEF stateBar
  <2> QED
    BY <1>2, <2>1 DEF Promise!vars, stateBar, usedBar
<1> QED
  BY <1>4, <1>5

(* A revocation voids the live grants of its connection; a held one is       *)
(* burned already.                                                          *)
LEMMA RevokeImplements ==
  ASSUME TypeOK, TypeOK', OneWinner, NEW h \in Agents, Revoke(h)
  PROVE  [Promise!Next]_Promise!vars
<1> DEFINE S == {j \in OneAct : rpts[j].status = "live" /\ rpts[j].handle = h}
<1>1. /\ \A j \in OneAct : rpts'[j].status = IF j \in S THEN "consumed" ELSE rpts[j].status
      /\ UNCHANGED <<call, performed>>
  BY DEF Revoke, RevokeConnection, TypeOK, StoreTypeOK, Rpt, OneAct
<1>2. UNCHANGED usedBar
  BY <1>1 DEF usedBar
<1>3. \A d \in Calls, j \in OneAct : Holds(d, j)' <=> Holds(d, j)
  BY <1>1 DEF Holds
<1>4. \A j \in S : StateOf(j) = "live" /\ StateOf(j)' = "gone"
  BY <1>1, <1>3, StateParts, StatePartsNext DEF OneWinner
<1>5. \A j \in OneAct \ S : StateOf(j)' = StateOf(j)
  BY <1>1, <1>3, StateParts, StatePartsNext
<1>6. S \in SUBSET OneAct
  OBVIOUS
<1> HIDE DEF S
<1>7. /\ stateBar' = [j \in OneAct |-> IF j \in S THEN "gone" ELSE stateBar[j]]
      /\ \A j \in S : stateBar[j] = "live"
  BY <1>4, <1>5, <1>6 DEF stateBar
<1>8. Promise!Void(S)
  BY <1>2, <1>6, <1>7 DEF Promise!Void, stateBar, usedBar
<1> QED
  BY <1>6, <1>8 DEF Promise!Next

LEMMA BurnImplements ==
  ASSUME TypeOK, TypeOK', OneWinner, NEW c \in Calls, Burn(c)
  PROVE  [Promise!Next]_Promise!vars
<1> DEFINE k == [call[c] EXCEPT !.stage = "report"]
<1>0. call[c].grant \in Jtis /\ call[c] \in Call
  BY KnownCarries, TypeParts DEF Burn, Known
<1>1. PICK g \in Jtis : g = call[c].grant
  BY <1>0
<1>2. k.stage = "report" /\ k.grant = g /\ call' = [call EXCEPT ![c] = k]
  BY <1>0, <1>1 DEF Call, Burn, Goto, TypeOK
<1>3. /\ rpts[g].status = "live"
      /\ \A j \in Jtis : rpts'[j].status = IF j = g THEN "consumed" ELSE rpts[j].status
      /\ UNCHANGED performed
  BY <1>1 DEF Burn, ConsumeRpt, TypeOK, StoreTypeOK, Rpt
<1> HIDE DEF k
<1>4. \A d \in Calls, j \in OneAct :
        Holds(d, j)' <=> IF d = c THEN j = g ELSE Holds(d, j)
  BY <1>2, HoldsOnly
<1>5. UNCHANGED usedBar
  BY <1>3 DEF usedBar
<1>6. \A j \in OneAct : j # g => ~Holds(c, j)
  <2>1. call[c].stage = "burn"
    BY DEF Burn
  <2> QED
    BY <2>1 DEF Holds
<1>7. \A j \in OneAct : j # g => StateOf(j)' = StateOf(j)
  BY <1>3, <1>4, <1>6, StateParts, StatePartsNext DEF OneAct
<1>8. CASE g \in OneAct
  <2>1. StateOf(g) = "live" /\ StateOf(g)' = "held"
    BY <1>3, <1>4, <1>8, StateParts, StatePartsNext DEF OneAct
  <2>2. stateBar' = [stateBar EXCEPT ![g] = "held"] /\ stateBar[g] = "live"
    BY <1>7, <1>8, <2>1 DEF stateBar
  <2>3. Promise!Claim(g)
    BY <1>5, <2>2 DEF Promise!Claim, stateBar, usedBar
  <2> QED
    BY <1>8, <2>3 DEF Promise!Next
<1>9. CASE g \notin OneAct
  <2>1. UNCHANGED stateBar
    BY <1>7, <1>9 DEF stateBar
  <2> QED
    BY <1>5, <2>1 DEF Promise!vars, stateBar, usedBar
<1> QED
  BY <1>8, <1>9

(* A call that is carried out performs the grant it held.                    *)
LEMMA ForwardImplements ==
  ASSUME TypeOK, TypeOK', OneWinner, NEW c \in Calls, Forward(c)
  PROVE  [Promise!Next]_Promise!vars
<1>0. call[c].grant \in Jtis
  BY KnownCarries, TypeParts DEF Forward, Known
<1>1. PICK g \in Jtis : g = call[c].grant
  BY <1>0
<1>2. call' = [call EXCEPT ![c] = NoCall] /\ UNCHANGED rpts
  BY DEF Forward, storeVars
<1>3. \A d \in Calls, j \in OneAct : Holds(d, j)' <=> d # c /\ Holds(d, j)
  BY <1>2, HoldsOnly, NoCallOK
<1>4. \A j \in Jtis : performed'[j] = IF j = g THEN performed[j] + 1 ELSE performed[j]
  BY <1>1 DEF Forward, TypeOK
<1>5. \A j \in OneAct : Holds(c, j) <=> j = g
  BY <1>1 DEF Holds, Forward
<1>6. \A j \in OneAct : j # g => StateOf(j)' = StateOf(j) /\ performed'[j] = performed[j]
  BY <1>2, <1>3, <1>4, <1>5, StateParts, StatePartsNext DEF OneAct
<1>7. CASE g \in OneAct
  <2>1. StateOf(g) = "held" /\ StateOf(g)' = "gone"
    <3>1. Holds(c, g) /\ rpts[g].status = "consumed" /\ \A d \in Calls : ~Holds(d, g)'
      BY <1>3, <1>5, <1>7 DEF OneWinner
    <3> QED
      BY <1>2, <1>7, <3>1, StateParts, StatePartsNext
  <2>2. stateBar' = [stateBar EXCEPT ![g] = "gone"] /\ stateBar[g] = "held"
    BY <1>6, <1>7, <2>1 DEF stateBar
  <2>3. usedBar' = [usedBar EXCEPT ![g] = @ + 1]
    BY <1>1, <1>4, <1>6, <1>7 DEF usedBar
  <2>4. Promise!Perform(g)
    BY <2>2, <2>3 DEF Promise!Perform, stateBar, usedBar
  <2> QED
    BY <1>7, <2>4 DEF Promise!Next
<1>8. CASE g \notin OneAct
  <2>1. UNCHANGED <<stateBar, usedBar>>
    BY <1>6, <1>8 DEF stateBar, usedBar
  <2> QED
    BY <2>1 DEF Promise!vars, stateBar, usedBar
<1> QED
  BY <1>7, <1>8

(* A call that is dropped after the burn voids the grant it held.            *)
LEMMA DropImplements ==
  ASSUME TypeOK, TypeOK', OneWinner, NEW c \in Calls, Drop(c)
  PROVE  [Promise!Next]_Promise!vars
<1> DEFINE S == {j \in OneAct : Holds(c, j)}
<1>1. UNCHANGED <<rpts, performed>>
  BY DEF Drop, storeVars
<1>2. \A d \in Calls, j \in OneAct : Holds(d, j)' <=> d # c /\ Holds(d, j)
  BY DropHolds
<1>3. \A j \in S : StateOf(j) = "held" /\ StateOf(j)' = "gone"
  <2>1. \A j \in S : /\ rpts[j].status = "consumed" /\ Holds(c, j)
                    /\ \A d \in Calls : ~Holds(d, j)'
    BY <1>2 DEF OneWinner
  <2> QED
    BY <1>1, <2>1, StateParts, StatePartsNext
<1>4. \A j \in OneAct \ S : StateOf(j)' = StateOf(j)
  BY <1>1, <1>2, StateParts, StatePartsNext
<1>5. S \in SUBSET OneAct
  OBVIOUS
<1> HIDE DEF S
<1>6. /\ stateBar' = [j \in OneAct |-> IF j \in S THEN "gone" ELSE stateBar[j]]
      /\ \A j \in S : stateBar[j] = "held"
  BY <1>3, <1>4, <1>5 DEF stateBar
<1>7. UNCHANGED usedBar
  BY <1>1 DEF usedBar
<1>8. Promise!Void(S)
  BY <1>5, <1>6, <1>7 DEF Promise!Void, stateBar, usedBar
<1> QED
  BY <1>5, <1>8 DEF Promise!Next

LEMMA NextImplements ==
  ASSUME TypeOK, TypeOK', OneWinner, [Next]_vars
  PROVE  [Promise!Next]_Promise!vars
<1>1. ASSUME UNCHANGED <<rpts, performed>>,
             \A d \in Calls, j \in OneAct : Holds(d, j)' <=> Holds(d, j)
      PROVE  UNCHANGED Promise!vars
  BY <1>1, SameStates DEF Promise!vars, stateBar
<1>2. ASSUME NEW h \in Agents, Admit(h)
      PROVE  UNCHANGED Promise!vars
  BY <1>1, <1>2 DEF Admit, Holds
<1>3. ASSUME NEW c \in Calls, NEW g \in Jtis, NEW act \in Acts, Arrive(c, g, act)
      PROVE  UNCHANGED Promise!vars
  BY <1>1, <1>3, ArriveHolds DEF Arrive, storeVars
<1>4. ASSUME NEW c \in Calls, Check(c) \/ ReadStanding(c) \/ ReadGrant(c)
      PROVE  UNCHANGED Promise!vars
  <2>1. UNCHANGED <<rpts, performed>>
    BY <1>4 DEF Check, ReadStanding, ReadGrant, storeVars
  <2> QED
    BY <1>1, <1>4, <2>1, CheckHolds
<1>5. ASSUME NEW c \in Calls, Report(c)
      PROVE  UNCHANGED Promise!vars
  BY <1>1, <1>5, ReportHolds DEF Report, storeVars
<1>6. CASE UNCHANGED vars
  BY <1>1, <1>6 DEF vars, storeVars, Holds
<1> QED
  BY <1>2, <1>3, <1>4, <1>5, <1>6, IssueImplements, RevokeImplements,
     BurnImplements, ForwardImplements, DropImplements DEF Next, CallStep

(* Every behaviour of enforcement is one of the abstract grant: its one      *)
(* operation is carried out at most once, by the call that burned it.       *)
THEOREM EnforcementKeepsPromise == Spec => KeepsPromise
<1>1. Init => Promise!Init
  BY InitImplements
<1>2. TypeOK /\ TypeOK' /\ OneWinner /\ [Next]_vars => [Promise!Next]_Promise!vars
  BY NextImplements
<1> QED
  BY <1>1, <1>2, TypeCorrect, BurnHasOneWinner, PTL DEF Spec, KeepsPromise, Promise!Spec

(* In particular, an operation is carried out at most once, and its grant    *)
(* is gone by then.                                                         *)
THEOREM OperationAtMostOnce == Spec => []Promise!AtMostOnce
<1>1. TypeOK /\ OneWinner => Promise!AtMostOnce
  <2> SUFFICES ASSUME TypeOK, OneWinner, NEW j \in OneAct
               PROVE  performed[j] <= (IF StateOf(j) = "gone" THEN 1 ELSE 0)
    BY DEF Promise!AtMostOnce
  <2>1. performed[j] \in Nat /\ performed[j] <= 1
    BY DEF TypeOK, OneWinner, OneAct
  <2>2. performed[j] > 0 => StateOf(j) = "gone"
    BY <2>1, StateParts DEF OneWinner
  <2> QED
    BY <2>1, <2>2
<1> QED
  BY <1>1, TypeCorrect, BurnHasOneWinner, PTL
=============================================================================
