---------------------------- MODULE Enforcement -----------------------------
(***************************************************************************)
(* Calls at the enforcement points (lib/uma4a_pep.py, authorize), and the  *)
(* authority's answers about the grants they present (/introspect and      *)
(* /consume in services/uma-as/app.py), over the store of OwnerStore.      *)
(*                                                                         *)
(* A call is one request at any replica of the enforcement point, carrying *)
(* a grant.  It asks the authority about the grant, runs its own checks,   *)
(* burns the grant if it is for one act, reports the access and forwards.  *)
(* The authority answers from two readings, the grant's row and then the   *)
(* connection's, so that both may have changed by the time it answers.     *)
(***************************************************************************)
EXTENDS OwnerStore

CONSTANTS
  Calls,          (* calls in flight at once                               *)
  Acts,           (* what is called: a tool with its arguments             *)
  OneActTools,    (* the acts on tools deployed as single-use              *)
  Bound,          (* grant -> the operation it names, or None              *)
  MaxArrivals,    (* bound: calls that arrive                              *)
  MaxRevocations  (* bound: revocations of a connection                    *)

ASSUME EnforcementAssumption ==
  /\ None \notin Acts
  /\ OneActTools \subseteq Acts
  /\ Bound \in [Jtis -> Acts \cup {None}]
  /\ MaxArrivals \in Nat /\ MaxRevocations \in Nat

VARIABLES
  call,       (* call -> where it is, and what it carries                  *)
  arrivals,   (* how many calls have arrived                               *)
  performed,  (* grant -> how many calls were carried out under it         *)
  touched     (* grant -> how many accesses her ledger holds               *)

vars == <<storeVars, call, arrivals, performed, touched>>

(* Grants for one act.  issue_rpt marks exactly those that name an operation. *)
OneAct == {j \in Jtis : Bound[j] # None}

Stages == {"introspect", "introspected", "checks",
           "consume", "consuming", "burn", "report", "forward"}

(* row is the status of the grant as it was read; spent, whether it was     *)
(* already spent when the call arrived, which properties read.              *)
Call ==
  [stage : Stages, grant : Jtis, act : Acts,
   row : {"none", "live", "consumed"}, spent : BOOLEAN]

NoCall == [stage |-> "idle", grant |-> None, act |-> None, row |-> "none",
           spent |-> FALSE]

(* From here on the call carries a grant the authority has on file.          *)
Known(c) ==
  \/ call[c].row # "none"
  \/ call[c].stage \in {"checks", "consume", "consuming", "burn", "report", "forward"}

TypeOK ==
  /\ StoreTypeOK
  /\ call \in [Calls -> Call \cup {NoCall}]
  /\ \A c \in Calls : Known(c) => rpts[call[c].grant].status # "none"
  /\ arrivals \in 0..MaxArrivals
  /\ performed \in [Jtis -> Nat]
  /\ touched \in [Jtis -> Nat]

Init ==
  /\ StoreInit
  /\ call = [c \in Calls |-> NoCall]
  /\ arrivals = 0
  /\ performed = [j \in Jtis |-> 0]
  /\ touched = [j \in Jtis |-> 0]

-----------------------------------------------------------------------------
(* What becomes of grants and connections meanwhile (module GrantLoop has   *)
(* the handlers; family and tier play no part in a call).                   *)

(* issue_rpt does not look at the connection, which may just have fallen.   *)
Issue(j, h) ==
  /\ connections[h].status # "none"
  /\ RecordRpt(j, None, h, None, connections[h].revocations)
  /\ UNCHANGED <<negVars, connections, blocked, call, arrivals, performed, touched>>

Revoke(h) ==
  /\ connections[h].status # "none"
  /\ connections[h].revocations < MaxRevocations
  /\ RevokeConnection(h)
  /\ UNCHANGED <<negVars, blocked, call, arrivals, performed, touched>>

(* She accepts a first contact, once more or for the first time.            *)
Admit(h) ==
  /\ connections[h].status # "active"
  /\ PutConnection(h, [NoConnection EXCEPT !.status = "active",
                                           !.revocations = connections[h].revocations])
  /\ UNCHANGED <<negVars, rpts, blocked, call, arrivals, performed, touched>>

-----------------------------------------------------------------------------
(* A call.                                                                  *)

Goto(c, stage) == call' = [call EXCEPT ![c].stage = stage]

(* It comes with a grant for the act or for another, or with one that is no  *)
(* longer, or not yet, on file.                                             *)
Arrive(c, j, act) ==
  /\ call[c].stage = "idle"
  /\ arrivals < MaxArrivals
  /\ arrivals' = arrivals + 1
  /\ call' = [call EXCEPT ![c] = [stage |-> "introspect", grant |-> j, act |-> act,
                                  row |-> "none",
                                  spent |-> rpts[j].status = "consumed"]]
  /\ UNCHANGED <<storeVars, performed, touched>>

(* It is refused, challenged or never answered, at any point: a check fails,*)
(* the authority cannot be asked or its answer is lost, the process dies,   *)
(* or the resource cannot be reached.                                       *)
Drop(c) ==
  /\ call[c].stage # "idle"
  /\ call' = [call EXCEPT ![c] = NoCall]
  /\ UNCHANGED <<storeVars, arrivals, performed, touched>>

(* The authority reads the grant's row ...                                  *)
ReadGrant(c) ==
  /\ \/ call[c].stage = "introspect"
     \/ call[c].stage = "consume"
  /\ call' = [call EXCEPT ![c].row = rpts[call[c].grant].status,
                          ![c].stage = IF @ = "introspect" THEN "introspected"
                                                           ELSE "consuming"]
  /\ UNCHANGED <<storeVars, arrivals, performed, touched>>

(* Mutant: whether the grant is spent is not looked at.                     *)
ReadStandingOnly(c) ==
  /\ call[c].stage \in {"introspected", "consuming"}
  /\ call[c].row # "none"
  /\ connections[rpts[call[c].grant].handle].status # "revoked"
  /\ Goto(c, IF call[c].stage = "introspected" THEN "checks" ELSE "burn")
  /\ UNCHANGED <<storeVars, arrivals, performed, touched>>

(* ... then the connection's, and says yes: the row was there and not       *)
(* spent, and the connection is not revoked.  Otherwise the call is dropped.*)
ReadStanding(c) ==
  /\ call[c].stage \in {"introspected", "consuming"}
  /\ call[c].row = "live"
  /\ connections[rpts[call[c].grant].handle].status # "revoked"
  /\ Goto(c, IF call[c].stage = "introspected" THEN "checks" ELSE "burn")
  /\ UNCHANGED <<storeVars, arrivals, performed, touched>>

(* Mutant: only the deployment's word makes a call single-use.              *)
CheckByToolOnly(c) ==
  LET j == call[c].grant IN
  /\ call[c].stage = "checks"
  /\ IF call[c].act \in OneActTools
       THEN Bound[j] = call[c].act /\ Goto(c, "consume")
       ELSE Goto(c, "report")
  /\ UNCHANGED <<storeVars, arrivals, performed, touched>>

(* The point's own checks (permission, ceilings, proof of possession,       *)
(* consequence: any may drop the call), then the operation: if the tool or  *)
(* the grant is for one act, the grant has to name this very act.           *)
Check(c) ==
  LET j == call[c].grant IN
  /\ call[c].stage = "checks"
  /\ IF call[c].act \in OneActTools \/ j \in OneAct
       THEN Bound[j] = call[c].act /\ Goto(c, "consume")
       ELSE Goto(c, "report")
  /\ UNCHANGED <<storeVars, arrivals, performed, touched>>

(* The burn.  Whoever finds the grant spent is dropped.                     *)
Burn(c) ==
  /\ call[c].stage = "burn"
  /\ ConsumeRpt(call[c].grant)
  /\ Goto(c, "report")
  /\ UNCHANGED <<negVars, connections, blocked, arrivals, performed, touched>>

(* The access is reported to her ledger, best effort, and then allowed.     *)
Report(c) ==
  /\ call[c].stage = "report"
  /\ \/ touched' = [touched EXCEPT ![call[c].grant] = @ + 1]
     \/ UNCHANGED touched
  /\ Goto(c, "forward")
  /\ UNCHANGED <<storeVars, arrivals, performed>>

(* The gateway, or the sidecar, forwards what was allowed; the resource     *)
(* acts, whether or not its reply comes back.                               *)
Forward(c) ==
  /\ call[c].stage = "forward"
  /\ performed' = [performed EXCEPT ![call[c].grant] = @ + 1]
  /\ call' = [call EXCEPT ![c] = NoCall]
  /\ UNCHANGED <<storeVars, arrivals, touched>>

CallStep(c) ==
  \/ Drop(c) \/ ReadGrant(c) \/ ReadStanding(c) \/ Check(c) \/ Burn(c)
  \/ Report(c) \/ Forward(c)

Next ==
  \/ \E j \in Jtis, h \in Agents : Issue(j, h)
  \/ \E h \in Agents : Revoke(h) \/ Admit(h)
  \/ \E c \in Calls, j \in Jtis, act \in Acts : Arrive(c, j, act)
  \/ \E c \in Calls : CallStep(c)

Spec == Init /\ [][Next]_vars

-----------------------------------------------------------------------------
(* Properties.                                                              *)

Holds(c, j) == call[c].stage \in {"report", "forward"} /\ call[c].grant = j

(* What a grant for one act looks like to whoever only knows its promise.   *)
StateOf(j) ==
  CASE rpts[j].status = "none" -> "absent"
    [] rpts[j].status = "live" -> "live"
    [] rpts[j].status = "consumed" ->
         IF \E c \in Calls : Holds(c, j) THEN "held" ELSE "gone"

Promise == INSTANCE SingleUse WITH
  Grants <- OneAct,
  state <- [j \in OneAct |-> StateOf(j)],
  used <- [j \in OneAct |-> performed[j]]

(* Enforcement keeps the promise of a single-use grant: however often it is *)
(* presented, at whichever replica, with answers lost, calls dying and      *)
(* revocations in between, its one operation is carried out at most once    *)
(* and never after it was voided (authorize's step 5, /consume).            *)
KeepsPromise == Promise!Spec

(* Why: the burn has one winner.  A burned grant is in at most one call's   *)
(* hands, and is not used again after its operation was carried out.        *)
OneWinner ==
  \A j \in OneAct :
    /\ \A c, d \in Calls : Holds(c, j) /\ Holds(d, j) => c = d
    /\ \A c \in Calls : Holds(c, j) => performed[j] = 0 /\ rpts[j].status = "consumed"
    /\ performed[j] <= 1
    /\ performed[j] > 0 => rpts[j].status = "consumed"

(* A call that arrives when its grant is already spent, by a use or by a    *)
(* revocation, is never carried out, even if she has admitted the agent     *)
(* again by then (the last branch of _decode_rpt).                          *)
SpentIsNotUsed ==
  [][\A c \in Calls :
       call[c].stage = "forward" /\ performed' # performed /\ call'[c].stage = "idle" =>
         ~call[c].spent]_vars

=============================================================================
