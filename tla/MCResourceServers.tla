------------------------- MODULE MCResourceServers -------------------------
(* Small instances of ResourceServers: a gateway that registers itself and  *)
(* a server that was given a secret, two enforcement points of an account   *)
(* that she holds with somebody else.                                       *)
EXTENDS ResourceServers

CONSTANTS s1, s2, r1, n1, c1, w1, w2, MaxAll

TheWorkerOf == c1 :> w1
TheAt == w1 :> n1 @@ w2 :> n1
TheServes == s1 :> {r1} @@ s2 :> {r1}
TheLimit == [revoke |-> 1, rotate |-> 1, publish |-> 2, failure |-> 1, lapse |-> 1,
             restart |-> 1, all |-> MaxAll]
=============================================================================
