---------------------------- MODULE JointDecision ----------------------------
(***************************************************************************)
(* What a jointly held account promises: a negotiation ends in a grant     *)
(* only over one agreement, that a quorum of one mandate's holders have    *)
(* each allowed under that mandate, and it ends in one grant at most.  How *)
(* their answers are collected, by whom, and what is lost on the way, is   *)
(* not said.                                                               *)
(***************************************************************************)
CONSTANTS
  Families, Agreements, Mandates,
  Members,   (* mandate -> its holders                                     *)
  Quorums    (* mandate -> the sets of them that may release the account   *)

VARIABLES
  allowed,   (* the yeses given: [holder, family, agreement, mandate]      *)
  granted    (* the grants made: [family, agreement, mandate]              *)

vars == <<allowed, granted>>

Init == allowed = {} /\ granted = {}

Allow(h, f, a, m) ==
  /\ allowed' = allowed \cup {[holder |-> h, family |-> f, agreement |-> a,
                               mandate |-> m]}
  /\ UNCHANGED granted

(* All of a quorum allowed it.                                              *)
Backed(f, a, m) ==
  \E Q \in Quorums[m] :
    \A h \in Q : [holder |-> h, family |-> f, agreement |-> a, mandate |-> m] \in allowed

Grant(f, a, m) ==
  /\ Backed(f, a, m)
  /\ \A g \in granted : g.family # f
  /\ granted' = granted \cup {[family |-> f, agreement |-> a, mandate |-> m]}
  /\ UNCHANGED allowed

Next ==
  \E f \in Families, a \in Agreements, m \in Mandates :
    \/ \E h \in Members[m] : Allow(h, f, a, m)
    \/ Grant(f, a, m)

Spec == Init /\ [][Next]_vars
=============================================================================
