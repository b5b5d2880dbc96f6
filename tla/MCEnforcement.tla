--------------------------- MODULE MCEnforcement ----------------------------
(* Values for the constants of the enforcement of grants.                   *)
EXTENDS Enforcement, TLC

CONSTANTS trade, wire, once

(* One grant names a trade; any other names no operation, and is good for   *)
(* as often as it lasts.                                                    *)
OnceBound  == [j \in Jtis |-> IF j = once THEN trade ELSE None]
Unoperated == [a \in Agents |-> None]

Symmetry == Permutations(Calls)
=============================================================================
