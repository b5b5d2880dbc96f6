------------------------------ MODULE Identity ------------------------------
(***************************************************************************)
(* What an agent presents with its agreement, and what her authority makes *)
(* of it: who signed it (contract_identity and what it calls in            *)
(* services/uma-as/app.py, KeyDirectories in lib/uma4a_http_sig.py, assess *)
(* in services/uma-as/assurance.py), and whether what it signed is the     *)
(* offer that was made to it (verify_contract, requester_claims and        *)
(* introduction.verify_claim).                                             *)
(*                                                                         *)
(* A presentation names a client document - the operator's, one that       *)
(* claims another address, an insecure address, or none - and a key        *)
(* directory - the operator's, one somewhere else, or none - and says, for *)
(* the model alone, whether the operator published the agent's key.        *)
(* "found" is what could be read when it was looked for; a document kept   *)
(* from an earlier reading counts as read, and one whose reading failed a  *)
(* moment ago as not.                                                      *)
(***************************************************************************)
EXTENDS Naturals

(* The document claims the address that it was fetched from.                *)
ResolveClientId(p, found) ==
  IF p.client = "operator" /\ "document" \in found THEN "verified" ELSE "unresolved"

SameOrigin(p) == p.client # "insecure" /\ p.directory = "operator"

(* Anyone may list any key in a directory of their own.                     *)
Publishes(p, found) ==
  "directory" \in found /\ (p.directory = "operator" => p.published)

(* Mutant: whoever runs the directory may attest.                           *)
AnyDirectoryAttests(p, found) == Publishes(p, found)

(* Only the operator's own directory attests for it; one that cannot be     *)
(* read leaves the claim where it was.                                      *)
OperatorPublishedKey(p, found) == SameOrigin(p) /\ Publishes(p, found)

(* Whether anyone's signature can be established at all.                    *)
Signed(p) ==
  /\ p.header \in {"jwk", "agent_token"}
  /\ p.signature = "verifies"

ContractIdentity(p, found) ==
  [level             |-> IF p.header = "jwk" THEN "pseudonymous" ELSE "identified",
   parent_agent      |-> p.header = "agent_token" /\ p.parent,
   metadata          |-> IF p.client = "none" THEN "none" ELSE ResolveClientId(p, found),
   operator_attested |-> p.client # "none" /\ p.directory # "none" /\ OperatorPublishedKey(p, found),
   key_bound         |-> TRUE]

Assess(identity) ==
  [binding        |-> IF identity.key_bound THEN 1 ELSE 0,
   provenance     |-> IF identity.level = "identified" THEN 1 ELSE 0,
   accountability |-> IF identity.metadata # "verified" THEN 0
                      ELSE IF identity.operator_attested THEN 2 ELSE 1]

(* The two halves of an agent being her own: she claimed the operator, and  *)
(* the operator published its key.                                          *)
FirstParty(axes, owned) == axes.accountability = 2 /\ owned
-----------------------------------------------------------------------------
(* What was agreed, against what was offered.  An agreement names the offer *)
(* by its nonce, family, version, document and purpose; it may agree to     *)
(* less and never to more, nor to nothing.                                  *)

RequesterClaims(a) == a.reason # "too long" /\ a.mission # "no citation"

(* An introduction, if there is one, vouches for the key that signed.       *)
VerifyClaim(a) == a.introduction \in {"none", "of the signer"}

VerifyContract(a, offer) ==
  /\ a.names = offer.names
  /\ offer.prohibited \subseteq a.prohibited
  /\ a.expires_in > 0 /\ a.expires_in <= offer.expires_in
  /\ a.scope \subseteq offer.scope
  /\ offer.scope # {} => a.scope # {}
  /\ offer.per_operation => a.operation
  /\ RequesterClaims(a)
  /\ VerifyClaim(a)
=============================================================================
