--------------------------- MODULE MCOrganization ---------------------------
(* Small instances of Organization: two groups, and charters that differ in *)
(* their groups, their rules and their override clause.                     *)
EXTENDS Organization

CONSTANTS f, r, s, g, q1, q2, ann, bob, theirs, j1, j2, MaxAll

Group == [grants |-> {r}, delegates |-> {f}]
Closed == [grants |-> {r}, delegates |-> {}]
Glass == [enabled |-> TRUE, resources |-> {r}]
NoGlass == [enabled |-> FALSE, resources |-> {}]

Charter(roles, default, rules, clause) ==
  [claims |-> {r}, longest |-> 1, roles |-> roles, default |-> default, conditions |-> {},
   asks |-> {}, glass |-> clause, provider |-> None, rego |-> rules]
Provider == [issuer |-> "https", assertion |-> "id-jag", enabled |-> TRUE, enrols |-> TRUE]

Strict == [deny |-> {f}, ask |-> {}]
Asking == [deny |-> {}, ask |-> {f}]
TheFirst == Charter(s :> Group, s, Strict, Glass)
Plain == Charter(s :> Group, s, None, Glass)
NoGroup == Charter(g :> Group, g, Strict, NoGlass)
Federated == [Charter(s :> Group, s, Asking, Glass) EXCEPT !.provider = Provider]
Overreaching == [Plain EXCEPT !.claims = @ \cup {theirs}]
TheDrafts == {Plain, NoGroup, Federated, Overreaching}
TheGroups == {Closed}
Alike == Permutations(Job)
ForAnn == [q \in Request |-> ann]
TheLimit == [all |-> MaxAll, publish |-> 2, failure |-> 1, invite |-> 1, join |-> 2,
             role |-> 1, decide |-> 2, voucher |-> 1, override |-> 2]
=============================================================================
