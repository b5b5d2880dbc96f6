---------------------------- MODULE MCJointTally -----------------------------
(* Values for the constants of the jointly held account.                    *)
EXTENDS JointTally, TLC

CONSTANTS alice, bob, c1, c2

Listed == <<alice, bob>>

Weights(a, b) == (alice :> a) @@ (bob :> b)
Doc(kind, a, b, n) == [weight |-> Weights(a, b), kind |-> kind, threshold |-> n]

(* Both have to agree.  Each of the others one of them could release alone. *)
Both == {Doc("all", 1, 1, 0), Doc("any", 1, 1, 0), Doc("threshold", 2, 1, 2)}

(* Alice is asked; Bob knows the agent, and lets it or is asked.            *)
AskAlice == [h \in Holders |-> IF h = alice THEN {"ask"} ELSE {"permit"}]

Joint == {"account"}

Tier(ask, n, scope, prohibited) ==
  [resources |-> Joint, ask_me |-> ask, expires_in |-> n, scope |-> scope,
   prohibited |-> prohibited, clearance |-> NoPatch]

(* Neither's terms are inside the other's.  Alice may delete hers, and Bob  *)
(* may leave nothing of the lifetime in his.                                *)
Differing ==
  (alice :> {Tier(TRUE, 2, {"read"}, {}), None}) @@
  (bob :> {Tier(FALSE, n, {"read", "pay"}, {"share"}) : n \in {0, 1}})

(* What the two with a lifetime fold to, read and not pay for one unit of   *)
(* time without sharing; and an agreement that leaves the scopes and the    *)
(* lifetime out, and promises more.                                         *)
Signed ==
  (c1 :> [expires_in |-> 1, scope |-> {"read"}, prohibited |-> {"share"}]) @@
  (c2 :> [expires_in |-> 0, scope |-> {}, prohibited |-> {"share", "train"}])
=============================================================================
