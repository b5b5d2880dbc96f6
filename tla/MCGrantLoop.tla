---------------------------- MODULE MCGrantLoop -----------------------------
(* Values for the constants of the grant loop, one set per question, and    *)
(* the symmetries of its identities.                                        *)
EXTENDS GrantLoopProperties, TLC

CONSTANTS parent, child1, child2, child3, op, tAsk, tKnown

(* One agent, or several, that nobody introduces and nobody operates.       *)
Unsponsored  == [a \in Agents |-> None]
Unoperated   == [a \in Agents |-> None]

(* A parent and the sub-agents it introduces.                               *)
Family1      == [a \in Agents |-> IF a = parent THEN None ELSE parent]

(* Every agent is run by the one operator.                                  *)
AllOperated  == [a \in Agents |-> op]

(* No rule grants automatically; or where she has said yes herself, or to   *)
(* an agent of her own, and where she has long known the agent; the last    *)
(* two unless she has revoked it.                                           *)
NoRelaxation == [t \in Tiers |-> {}]
Relaxed3 ==
  [t \in Tiers |-> CASE t = tAsk   -> {{"approved_at_tier"}, {"never_revoked", "first_party"}}
                     [] t = tKnown -> {{"never_revoked", "age_above"}}
                     [] OTHER      -> {}]

OneLane == [a \in Agents |-> "lane"]
Lane1   == {"lane"}
Budget1 == [l \in Lane1 |-> 1]
Budget2 == [l \in Lane1 |-> 2]

Symmetry == Permutations(Families) \cup Permutations(Jtis)
              \cup Permutations(Workers)

(* Under Family1, with one operator and one lane, sub-agents are alike.     *)
Siblings == Symmetry \cup Permutations(Agents \ {parent})
=============================================================================
