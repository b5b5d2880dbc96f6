------------------------------- MODULE Ceiling -------------------------------
(***************************************************************************)
(* What an organization's charter does to its member's terms               *)
(* (lib/uma4a_org.py, lib/uma4a_clearance.py, and the edits of a tier,     *)
(* services/uma-as/policy.py).                                             *)
(*                                                                         *)
(* A tier is a record of its terms: resources, ask_me, expires_in, scope,  *)
(* prohibited, clearance, and the version of the document they are served  *)
(* as.  An envelope is the part of a charter that bounds them.  A pattern  *)
(* of a charter is the set of the resources that it matches.               *)
(***************************************************************************)
EXTENDS Naturals

CONSTANT AnyScope      \* the charter says nothing about scopes

(* Whether an organization may touch a resource of this owner, and whether  *)
(* its charter bounds a tier: one such resource is enough.                  *)
Reaches(resource, envelope) ==
  resource \in envelope.claims \ envelope.excluded

Governs(tier, envelope) ==
  \E resource \in tier.resources : Reaches(resource, envelope)

(* Two requirements of a clearance as one: for every claim that either      *)
(* names, the values that all who name it accept.                           *)
Tighten(base, addition) ==
  [claim \in DOMAIN base \cup DOMAIN addition |->
     IF claim \notin DOMAIN base THEN addition[claim]
     ELSE IF claim \notin DOMAIN addition THEN base[claim]
     ELSE base[claim] \cap addition[claim]]

(* The tier narrowed to the envelope: every field in one direction.         *)
Clamp(tier, envelope) ==
  IF ~Governs(tier, envelope) THEN tier
  ELSE [tier EXCEPT
          !.expires_in = IF envelope.max_expires_in > 0 /\ @ > envelope.max_expires_in
                         THEN envelope.max_expires_in ELSE @,
          !.scope      = IF envelope.allowed_scopes = AnyScope THEN @
                         ELSE @ \cap envelope.allowed_scopes,
          !.prohibited = @ \cup envelope.require_prohibited,
          !.ask_me     = @ \/ tier.resources \cap envelope.always_ask # {},
          !.clearance  = Tighten(@, envelope.require_clearance)]

(* A patch names the fields that it replaces; no patch names none.          *)
NoPatch == <<>>

(* Every edit is a new version of the document.  Fields that are not the    *)
(* owner's to edit are passed over.                                         *)
Editable == {"ask_me", "expires_in", "scope", "prohibited", "clearance"}

ApplyPatch(tier, patch) ==
  [field \in DOMAIN tier |->
     IF field = "version" THEN tier.version + 1
     ELSE IF field \in DOMAIN patch \cap Editable THEN patch[field]
     ELSE tier[field]]

(* The edit that brings a tier inside the envelope.  It carries every field *)
(* of the clamped terms, the ones that did not move included, and a         *)
(* clearance when there is one.                                             *)
PatchFor(tier, envelope) ==
  LET clamped == Clamp(tier, envelope)
      fields  == {"ask_me", "expires_in", "scope", "prohibited"}
                   \cup (IF clamped.clearance = NoPatch THEN {} ELSE {"clearance"})
  IN IF clamped = tier THEN NoPatch
     ELSE [field \in fields |-> clamped[field]]

(* One patch over another.                                                  *)
Merged(patch, over) ==
  [field \in DOMAIN patch \cup DOMAIN over |->
     IF field \in DOMAIN over THEN over[field] ELSE patch[field]]

(* What is wrong with terms that she is about to write: refused, where an   *)
(* edit would be narrowed.                                                  *)
WouldExceed(tier, envelope) ==
  /\ Governs(tier, envelope)
  /\ \/ envelope.max_expires_in > 0 /\ tier.expires_in > envelope.max_expires_in
     \/ envelope.allowed_scopes # AnyScope
          /\ ~ tier.scope \subseteq envelope.allowed_scopes

=============================================================================
