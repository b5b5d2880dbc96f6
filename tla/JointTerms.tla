----------------------------- MODULE JointTerms ------------------------------
(***************************************************************************)
(* The terms of a jointly held account: what a holder quotes, the one      *)
(* document that the quotes are folded into, what each holder's authority  *)
(* compares with her own terms, and what a grant is made of                *)
(* (lib/uma4a_joint.py, services/uma-as/joint.py, services/joint-tally).   *)
(*                                                                         *)
(* A tier and an envelope are those of Ceiling.  Terms that are proffered, *)
(* or that an agent has signed, say [expires_in, scope, prohibited].       *)
(***************************************************************************)
EXTENDS Ceiling, Sequences, SequencesExt

(* Her tier, over the account and nothing else of hers.                     *)
QuoteOf(tier, resources) ==
  [tier EXCEPT !.resources = resources, !.clearance = NoPatch]

(* Mutant: what she forbids is not asked of the others.                     *)
AsLooseCeiling(quote, resources) ==
  [claims |-> resources, excluded |-> {}, max_expires_in |-> quote.expires_in,
   allowed_scopes |-> quote.scope, require_prohibited |-> {},
   always_ask |-> IF quote.ask_me THEN resources ELSE {},
   require_clearance |-> NoPatch]

(* One holder's terms, as an organization's charter would put them.         *)
AsCeiling(quote, resources) ==
  [claims |-> resources, excluded |-> {}, max_expires_in |-> quote.expires_in,
   allowed_scopes |-> quote.scope, require_prohibited |-> quote.prohibited,
   always_ask |-> IF quote.ask_me THEN resources ELSE {},
   require_clearance |-> NoPatch]

(* The first of them, narrowed by each of the rest in turn.                 *)
Fold(quotes, resources) ==
  FoldLeft(LAMBDA folded, quote : Clamp(folded, AsCeiling(quote, resources)),
           Head(quotes), Tail(quotes))

(* What the agent is asked to sign: of the scopes folded, those that the    *)
(* call it was stopped at asked for, if it asked for any.                   *)
Template(quotes, resources, asked) ==
  LET folded == Fold(quotes, resources) IN
  [expires_in |-> folded.expires_in,
   scope      |-> IF asked = {} THEN folded.scope ELSE folded.scope \cap asked,
   prohibited |-> folded.prohibited]

(* Whether what was signed is no wider than terms are.                      *)
Inside(signed, terms) ==
  /\ signed.expires_in <= terms.expires_in
  /\ signed.scope \subseteq terms.scope
  /\ terms.prohibited \subseteq signed.prohibited

(* ... but for a lifetime of 0, which as a ceiling is none.                 *)
NoWider(signed, terms) ==
  /\ terms.expires_in > 0 => signed.expires_in <= terms.expires_in
  /\ signed.scope \subseteq terms.scope
  /\ terms.prohibited \subseteq signed.prohibited

(* A grant of what was signed, bounded by what was proffered.  Scopes, or a *)
(* lifetime, that the agent left out are taken from the offer, and one that *)
(* the offer leaves out as well from the tally.                             *)
Granted(signed, offered, unstated) ==
  LET most == IF offered.expires_in = 0 THEN unstated ELSE offered.expires_in IN
  [expires_in |-> IF signed.expires_in \in 1..most THEN signed.expires_in ELSE most,
   scope      |-> IF signed.scope = {} THEN offered.scope
                  ELSE signed.scope \cap offered.scope]

(* What the door lets a grant be, next to what a holder's yes says that she *)
(* agreed to (_outside_verdict).                                            *)
CoveredBy(grant, signed) ==
  /\ signed.expires_in > 0
  /\ grant.expires_in <= signed.expires_in
  /\ grant.scope \subseteq signed.scope
=============================================================================
