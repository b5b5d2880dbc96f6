----------------------------- MODULE SingleUse ------------------------------
(***************************************************************************)
(* What a grant bound to one operation promises: the operation is carried  *)
(* out at most once, by the one who claimed the grant, and a grant that    *)
(* was voided before it was claimed is never used (PROTOCOL: a single-use  *)
(* grant is burned before the call it is for).  Nothing is said of who     *)
(* claims it, or how often it is tried.                                    *)
(***************************************************************************)
EXTENDS Naturals

CONSTANT Grants

VARIABLES
  state,    (* grant -> "absent", "live", "held" by a claimant, or "gone"  *)
  used      (* grant -> how often its operation was carried out            *)

vars == <<state, used>>

TypeOK ==
  /\ state \in [Grants -> {"absent", "live", "held", "gone"}]
  /\ used \in [Grants -> Nat]

Init ==
  /\ state = [g \in Grants |-> "absent"]
  /\ used = [g \in Grants |-> 0]

Issue(g) ==
  /\ state[g] = "absent"
  /\ state' = [state EXCEPT ![g] = "live"]
  /\ UNCHANGED used

Claim(g) ==
  /\ state[g] = "live"
  /\ state' = [state EXCEPT ![g] = "held"]
  /\ UNCHANGED used

Perform(g) ==
  /\ state[g] = "held"
  /\ state' = [state EXCEPT ![g] = "gone"]
  /\ used' = [used EXCEPT ![g] = @ + 1]

(* Grants are revoked before they are claimed, or their claimant fails.     *)
Void(S) ==
  /\ \A g \in S : state[g] \in {"live", "held"}
  /\ state' = [g \in Grants |-> IF g \in S THEN "gone" ELSE state[g]]
  /\ UNCHANGED used

Next ==
  \/ \E g \in Grants : Issue(g) \/ Claim(g) \/ Perform(g)
  \/ \E S \in SUBSET Grants : Void(S)

Spec == Init /\ [][Next]_vars

(* An operation is carried out at most once, and after it its grant is gone *)
(* (the burn in /consume).                                                  *)
AtMostOnce ==
  \A g \in Grants : used[g] <= (IF state[g] = "gone" THEN 1 ELSE 0)
=============================================================================
