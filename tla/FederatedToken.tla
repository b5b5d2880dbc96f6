--------------------------- MODULE FederatedToken ---------------------------
(***************************************************************************)
(* What her authority answers to a ticket (POST /token of                  *)
(* services/uma-as/app.py) at a resource whose organization may federate   *)
(* identity: the identity beat before her terms, the dictation, the        *)
(* agreement, and the poll.  With it the identity provider                 *)
(* (services/xaa-broker/app.py): the edges its administrator approves, the *)
(* key it signs with, and the keys her authority has read.                 *)
(*                                                                         *)
(* A request is answered in one step; what happens inside it is the        *)
(* subject of GrantLoop.  An answer is what the negotiation becomes, what  *)
(* is said, and the keys known by then.                                    *)
(***************************************************************************)
EXTENDS Naturals, FiniteSets, SharedBook

CONSTANTS
  Negotiation,   \* 1 .. n
  Home,          \* the provider that the headless agent's credentials are of
  Elsewhere,     \* another one
  Seeded         \* Home's configuration approves the headless agent's edge

VARIABLES
  neg,        \* her negotiations, each with its only ticket
  provider,   \* the one the charter names, or None
  terms,      \* the version that governs the resource
  key,        \* what Home signs with
  known,      \* the key of Home's that her authority has read, or None
  edge        \* Home vouches for the headless agent at the resource

authority == <<neg, provider, terms, key, known, edge>>

NoNegotiation ==
  [state |-> "none", serial |-> 0, live |-> FALSE, asserted |-> FALSE, terms |-> 0,
   decision |-> "none", grant |-> "none", headless |-> FALSE]

AuthorityInit ==
  /\ neg = [n \in Negotiation |-> NoNegotiation]
  /\ provider \in {None, Home}
  /\ terms = 1
  /\ key = 1
  /\ known = None
  /\ edge = Seeded

Waiting(n) == neg[n].state = "awaiting" /\ neg[n].decision = "none"

NoClaim == [kind |-> "none"]
Declined == [kind |-> "decline"]
Assertion == [kind |-> "assertion", by |-> Home, key |-> key]
Agreement(version) == [kind |-> "agreement", terms |-> version]

Spent(r) == [r EXCEPT !.live = FALSE]
(* What a negotiation that ended held is not read again.                    *)
Closed(r) == [NoNegotiation EXCEPT !.state = "closed"]
Forged(r) == [NoNegotiation EXCEPT !.state = "forged"]
NewTicket(r) == [r EXCEPT !.live = TRUE, !.serial = @ + 1]

Answer(r, says, keys) == [neg |-> r, says |-> says, known |-> keys]
Says(r, says) == Answer(r, says, known)
RequestDenied(r) == Says(Closed(r), "denied")
Granted(r) == Says([Closed(r) EXCEPT !.grant = "live"], "granted")

NeedIdentity(r) == Says(NewTicket([r EXCEPT !.state = "need_identity"]), "identity")
NeedInfo(r, keys) ==
  Answer(NewTicket([r EXCEPT !.state = "need_info", !.terms = terms]), "terms", keys)

(* Polled while she decides, not spent; and with her answer, collected.  A  *)
(* yes may meanwhile be to what she withdrew.                               *)
PendingPoll(r) ==
  CASE r.decision = "none" -> {Says(r, "submitted")}
    [] r.decision = "yes" -> {Granted(r), RequestDenied(r)}
    [] r.decision = "no" -> {RequestDenied(r)}

(* Mutant: the keys that were read are the provider's keys.                 *)
Unrefreshed(signed) == IF known = None THEN key ELSE known

(* The keys that were read, unless the assertion names one that is not      *)
(* among them: that is a rotation, and they are read again.                 *)
ProviderKeys(signed) == IF known = signed THEN known ELSE key

(* Whether the provider vouches; its keys may be out of reach.              *)
VerifyIdJag(r, claim) ==
  LET keys == ProviderKeys(claim.key) IN
  IF claim.by # provider THEN {RequestDenied(r)}
  ELSE {IF keys = claim.key THEN NeedInfo([r EXCEPT !.asserted = TRUE], keys)
        ELSE Answer(Forged(r), "forged", keys)}
       \cup (IF known = claim.key THEN {} ELSE {RequestDenied(r)})

FederatedIdentity(r, claim) ==
  IF claim.kind = "assertion" THEN VerifyIdJag(r, claim) ELSE {NeedIdentity(r)}

(* The agreement is to the terms in force, or they are dictated again.  Her *)
(* rules grant it, ask her, or refuse.                                      *)
Commit(r, claim) ==
  IF r.state # "need_info" THEN {Says(Spent(r), "invalid")}
  ELSE IF r.terms # terms THEN {NeedInfo(r, known)}
  ELSE IF r.terms # claim.terms THEN {RequestDenied(r)}
  ELSE {Granted(r), RequestDenied(r), Says(NewTicket([r EXCEPT !.state = "awaiting"]), "submitted")}

Beat(r, claim) ==
  IF provider # None /\ ~r.asserted THEN FederatedIdentity(r, claim)
  ELSE CASE claim.kind = "none" -> {NeedInfo(r, known)}
         [] claim.kind = "agreement" -> Commit(r, claim)
         [] OTHER -> {Says(Spent(r), "invalid")}

(* An organization that cannot be read, no tier, a clearance that is not    *)
(* met: each ends it before a beat.                                         *)
Token(t, claim) ==
  LET r == neg[t.of] IN
  IF ~r.live \/ r.serial # t.serial THEN {Says(r, "invalid")}
  ELSE IF r.state = "awaiting" THEN PendingPoll(r)
  ELSE IF claim = Declined /\ r.state = "need_info" THEN {RequestDenied(r)}
  ELSE Beat(r, claim) \cup {RequestDenied(r)}

Opened(by) ==
  [NoNegotiation EXCEPT !.state = "new", !.serial = 1, !.live = TRUE, !.headless = by]

Decide(n) ==
  /\ Waiting(n)
  /\ \E d \in {"yes", "no"} : neg' = [neg EXCEPT ![n].decision = d]
  /\ UNCHANGED <<provider, terms, key, known, edge>>

Expires(n) ==
  /\ \/ neg[n].live /\ neg' = [neg EXCEPT ![n] = Closed(@)]
     \/ neg[n].grant = "live" /\ neg' = [neg EXCEPT ![n].grant = "ended"]
  /\ UNCHANGED <<provider, terms, key, known, edge>>

(* The charter names another provider, or none; her terms are edited; the   *)
(* provider signs with a new key; and what was read of it lapses.           *)
CharterNames(p) == provider # p /\ provider' = p /\ UNCHANGED <<neg, terms, key, known, edge>>
TermsChange == terms' = terms + 1 /\ UNCHANGED <<neg, provider, key, known, edge>>
KeyRotates == key' = key + 1 /\ UNCHANGED <<neg, provider, terms, known, edge>>
KeysLapse ==
  known # None /\ known' = None /\ UNCHANGED <<neg, provider, terms, key, edge>>

(* Home vouches along the edges that its administrator has approved.  They  *)
(* are in memory: a restart is back at the configuration, over whatever was *)
(* withdrawn or added since.                                                *)
ConnectionFor == edge
AddConnection == ~edge /\ edge' = TRUE /\ UNCHANGED <<neg, provider, terms, key, known>>
DropConnection == edge /\ edge' = FALSE /\ UNCHANGED <<neg, provider, terms, key, known>>
Boot ==
  edge # Seeded /\ edge' = Seeded /\ UNCHANGED <<neg, provider, terms, key, known>>
=============================================================================
