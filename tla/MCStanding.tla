----------------------------- MODULE MCStanding -----------------------------
(* Small instances of Standing: one tier that asks, or not, and the rules   *)
(* that tell the conditions apart, alone and in pairs.                      *)
EXTENDS Standing

CONSTANTS t1, q1, q2, MaxAll

Is(name) == [name |-> name, arg |-> NoArgument]
By(name, arg) == [name |-> name, arg |-> arg]
Rule(when, then) == [when |-> when, then |-> then]

(* A condition that was renamed since, an effect that nobody knows, and an  *)
(* argument that cannot be read.                                            *)
OldRules ==
  { <<>>,
    <<Rule(<<Is("renamed")>>, "auto"), Rule(<<Is("approved_at_tier"), Is("renamed")>>, "auto")>>,
    <<Rule(<<Is("first_party")>>, "auto"), Rule(<<Is("reason_absent"), Is("renamed")>>, "refuse")>>,
    <<Rule(<<Is("never_revoked")>>, "auto"), Rule(<<By("accountability_below", Malformed)>>, "hold")>>,
    <<Rule(<<By("age_above", Malformed)>>, "auto")>> }

TheFirstTiers == {t1 :> [ask_me |-> askMe, rules |-> rules] : askMe \in BOOLEAN, rules \in OldRules}

(* Each restriction with a relaxation, written before it or after it.       *)
Approved == Rule(<<Is("approved_at_tier")>>, "auto")
Aged == Rule(<<By("age_above", 0), Is("never_revoked")>>, "auto")
Own == Rule(<<Is("first_party")>>, "auto")
Pairs ==
  { <<Approved, Rule(<<By("denials_above", 0)>>, "refuse")>>,
    <<Rule(<<Is("first_at_tier"), By("tiers_above", 0)>>, "ask"), Approved>>,
    <<Own, Rule(<<Is("lineage_new_at_tier"), Is("introduced")>>, "ask")>>,
    <<Rule(<<By("consequence_at_or_above", "irreversible")>>, "refuse"), Aged>>,
    <<Aged, Rule(<<Is("consequence_unknown"), By("age_below", 1)>>, "ask")>>,
    <<Rule(<<Is("none"), By("binding_below", 1)>>, "refuse"), Own>>,
    <<Approved, Rule(<<By("calls_above", 0), Is("mission_absent")>>, "ask")>>,
    <<Rule(<<By("provenance_below", 1), Is("max_expiry")>>, "ask"), Own>>,
    <<Rule(<<Is("revoked_before"), Is("reason_absent")>>, "refuse"), Approved>> }
Unsound ==
  { <<Rule(<<By("accountability_below", 2)>>, "auto")>>,
    <<Rule(<<Is("approved_at_tier"), Is("first_at_tier")>>, "auto")>> }

TheRuleLists == Pairs \cup Unsound

TheOffer == [names |-> "offer", prohibited |-> {"resale"}, expires_in |-> 2, scope |-> {"read", "write"},
             per_operation |-> TRUE]

(* What is agreed to, in full or for less; and what goes beyond it.         *)
Agreed(expires, said, introduction) ==
  [names |-> "offer", prohibited |-> {"resale"}, expires_in |-> expires, scope |-> {"read"},
   operation |-> TRUE, reason |-> said, mission |-> said, introduction |-> introduction]
Beyond == Agreed(3, "none", "none")

Presents(header, client, directory, published, agreement, consequence) ==
  [header |-> header, signature |-> "verifies", parent |-> FALSE, client |-> client,
   directory |-> directory, published |-> published, agreement |-> agreement,
   consequence |-> consequence]

(* A stranger; an agent of the operator's with an introduction; one that    *)
(* its issuer names the parent of; one that names the operator and a        *)
(* directory of its own; one that agrees to more, and one that is no one's. *)
ThePresentations ==
  { Presents("jwk", "none", "none", FALSE, Agreed(2, "none", "none"), "disclosure"),
    Presents("jwk", "operator", "operator", TRUE, Agreed(2, "none", "of the signer"), "irreversible"),
    [Presents("agent_token", "another's", "operator", FALSE, Agreed(1, "said", "none"), "reversible")
       EXCEPT !.parent = TRUE],
    Presents("agent_token", "operator", "elsewhere", FALSE, Agreed(1, "said", "none"), "irreversible"),
    Presents("jwk", "insecure", "operator", FALSE, Beyond, "reversible"),
    Presents("neither", "none", "none", FALSE, Agreed(1, "none", "none"), "reversible") }

TheFindings == {{}, {"document", "directory", "sponsor"}}

Alike == Permutations(Request)
TheLimit == [ask |-> 2, save |-> 1, revoke |-> 1, claim |-> 1, age |-> 1, all |-> MaxAll]
=============================================================================
