---------------------------- MODULE MCMembership ----------------------------
(* Small instances of Membership.  `book` is the organization's and shared  *)
(* by a role; `account` is claimed by the charter and held jointly; a tier  *)
(* over the first, and one to write over `desk`.                            *)
EXTENDS Membership, TLC

CONSTANTS r1, r2, query, j1, j2, agent, book, account, desk, read, trade

MCJoint == {account}
MCCharters ==
  <<[max_expires_in |-> 3, allowed_scopes |-> AnyScope, require_prohibited |-> {},
     always_ask |-> {}, require_clearance |-> <<>>, claims |-> {book, account, desk}],
    [max_expires_in |-> 2, allowed_scopes |-> {read}, require_prohibited |-> {"resale"},
     always_ask |-> {book}, require_clearance |-> [licence |-> {"NY"}],
     claims |-> {book, account, desk}]>>
MCOneCharter == <<MCCharters[1]>>
MCShares == {{}, {book}}
MCClearances == {<<>>, [licence |-> "NY"]}
MCNoClearances == {<<>>}
MCDefaultShares == {book}
Terms(resource, lifetime) ==
  [resources |-> {resource}, ask_me |-> FALSE, expires_in |-> lifetime, scope |-> {read, trade},
   prohibited |-> {}, clearance |-> <<>>, version |-> 1]
MCFirstTiers == ("general" :> Terms(book, 2))
MCFirstTiersOneMore == ("general" :> Terms(book, 2)) @@ ("ours" :> None)
MCPatches == {[expires_in |-> 4]}
MCSpecs == {Terms(desk, 3), Terms(desk, 4)}
=============================================================================
