------------------------------- MODULE Policy -------------------------------
(***************************************************************************)
(* The owner's rules about agents (services/uma-as/policy.py), and the     *)
(* facts that they read: what the operation leaves behind                  *)
(* (lib/uma4a_consequence.py), and what she has seen of the agent herself  *)
(* (standing_facts in services/uma-as/app.py).  What her authority         *)
(* established of the agent is in Identity.                                *)
(*                                                                         *)
(* A condition is a name and an argument, which is Malformed when it is    *)
(* not one of its kind; a rule is a sequence of conditions and an effect.  *)
(* Ages, counts and levels are small numbers.                              *)
(***************************************************************************)
EXTENDS Naturals, Sequences, SequencesExt

CONSTANTS
  NoArgument,
  Malformed,     \* an argument that cannot be read
  Never          \* the age of an agent that she has not met

Effects == {"auto", "ask", "refuse"}
Rank == [auto |-> 0, ask |-> 1, refuse |-> 2]

(* What she decided: only these may lower a requirement.                    *)
Relaxing == {"approved_at_tier", "never_revoked", "age_above", "first_party"}

(* What her authority saw.                                                  *)
Observed == {"none", "first_at_tier", "revoked_before", "age_below", "denials_above",
             "tiers_above", "calls_above", "introduced", "lineage_new_at_tier"}

(* What the requesting side supplied, or asked for.                         *)
Assurance == {"binding_below", "provenance_below", "accountability_below", "max_expiry",
              "reason_absent", "mission_absent", "consequence_at_or_above",
              "consequence_unknown"}

Conditions == Relaxing \cup Observed \cup Assurance

TakesArgument == {"age_above", "age_below", "binding_below", "provenance_below",
                  "accountability_below", "denials_above", "tiers_above", "calls_above",
                  "consequence_at_or_above"}

(* By how little remedy remains; anything else is no declaration.           *)
Classes == <<"reversible", "compensatable", "forward_recoverable", "irreversible">>
Class(value) == {i \in DOMAIN Classes : Classes[i] = value}
AtOrAbove(actual, floor) == \E a \in Class(actual), f \in Class(floor) : a >= f
-----------------------------------------------------------------------------
(* What may be saved.                                                       *)

ArgumentFits(c) ==
  IF c.name \in TakesArgument THEN c.arg \notin {NoArgument, Malformed}
                              ELSE c.arg = NoArgument

(* Mutant: what the requesting side supplies may relax.                     *)
MayDecideAnything(c, then) == c.name \in Conditions /\ ArgumentFits(c)

(* Evidence that the requesting side has a hand in may only tighten.        *)
MayDecide(c, then) ==
  /\ c.name \in Conditions /\ ArgumentFits(c)
  /\ then = "auto" => c.name \in Relaxing

Valid(rules) ==
  \A rule \in Range(rules) :
    /\ rule.then \in Effects /\ rule.when # <<>>
    /\ \A c \in Range(rule.when) : MayDecide(c, rule.then)
-----------------------------------------------------------------------------
(* What she has seen of an agent.                                           *)

StandingFacts(conn, tier, trajectory, firstParty, lineage) ==
  LET active == conn.status = "active" IN
  [active              |-> active,
   age                 |-> IF active THEN conn.age ELSE Never,
   first_at_tier       |-> active => tier \notin conn.tiers_granted,
   first_party         |-> firstParty,
   introduced          |-> active /\ conn.introduced,
   lineage_new_at_tier |-> active => tier \notin (IF lineage = {} THEN conn.tiers_approved
                                                                  ELSE lineage),
   approved_tiers      |-> IF active THEN conn.tiers_approved ELSE {},
   revocations         |-> conn.revocations,
   trajectory          |-> trajectory]
-----------------------------------------------------------------------------
(* Whether a condition raises.  An age that is not known, and a class that  *)
(* is no class, are answered without reading the argument.                  *)
Raises(c, facts) ==
  \/ c.name \notin Conditions
  \/ /\ c.name \in TakesArgument \ {"consequence_at_or_above"}
     /\ c.arg \in {NoArgument, Malformed}
     /\ c.name \in {"age_above", "age_below"} => facts.standing.age # Never

Matches(c, facts) ==
  LET standing == facts.standing
      evidence == facts.assurance
      request  == facts.request
  IN
  \/ c.name = "none"                 /\ ~standing.active
  \/ c.name = "first_party"          /\ standing.first_party
  \/ c.name = "first_at_tier"        /\ standing.first_at_tier
  \/ c.name = "introduced"           /\ standing.introduced
  \/ c.name = "lineage_new_at_tier"  /\ standing.lineage_new_at_tier
  \/ c.name = "approved_at_tier"     /\ facts.tier \in standing.approved_tiers
  \/ c.name = "never_revoked"        /\ standing.revocations = 0
  \/ c.name = "revoked_before"       /\ standing.revocations > 0
  \/ c.name = "age_above"            /\ standing.age # Never /\ standing.age > c.arg
  \/ c.name = "age_below"            /\ (standing.age # Never => standing.age < c.arg)
  \/ c.name = "denials_above"        /\ standing.trajectory.denials > c.arg
  \/ c.name = "tiers_above"          /\ standing.trajectory.tiers > c.arg
  \/ c.name = "calls_above"          /\ standing.trajectory.calls > c.arg
  \/ c.name = "binding_below"        /\ evidence.binding < c.arg
  \/ c.name = "provenance_below"     /\ evidence.provenance < c.arg
  \/ c.name = "accountability_below" /\ evidence.accountability < c.arg
  \/ c.name = "max_expiry"           /\ request.longest
  \/ c.name = "reason_absent"        /\ ~request.reason
  \/ c.name = "mission_absent"       /\ ~request.mission
  \/ c.name = "consequence_at_or_above" /\ AtOrAbove(request.consequence, c.arg)
  \/ c.name = "consequence_unknown"  /\ Class(request.consequence) = {}

(* An effect that is not known is put to her.                               *)
Effect(rule) == IF rule.then \in Effects THEN rule.then ELSE "ask"

(* The conditions are read in order up to the first that does not hold.  A  *)
(* rule that cannot be evaluated fails towards the owner: a restriction     *)
(* applies, a relaxation does not.                                          *)
RuleMatches(rule, facts) ==
  LET when    == rule.when
      raising == {i \in DOMAIN when : Raises(when[i], facts)}
      failing == {i \in DOMAIN when \ raising : ~Matches(when[i], facts)}
  IN IF \E i \in raising : \A j \in failing : i < j
     THEN Effect(rule) # "auto"
     ELSE failing = {}

(* Mutant: one pass over the rules, each taking the requirement where it    *)
(* says.                                                                    *)
EvaluateInOrder(tier, facts) ==
  FoldLeft(LAMBDA result, rule : IF RuleMatches(rule, facts) THEN Effect(rule) ELSE result,
           IF tier.ask_me THEN "ask" ELSE "auto", tier.rules)

(* What a request needs: relaxations first, then the restrictions, each     *)
(* only upwards.                                                            *)
Evaluate(tier, facts) ==
  LET relax(result, rule) ==
        IF Effect(rule) = "auto" /\ RuleMatches(rule, facts) THEN "auto" ELSE result
      restrict(result, rule) ==
        IF Rank[Effect(rule)] > Rank[result] /\ RuleMatches(rule, facts)
        THEN Effect(rule) ELSE result
      baseline == IF tier.ask_me THEN "ask" ELSE "auto"
  IN FoldLeft(restrict, FoldLeft(relax, baseline, tier.rules), tier.rules)
=============================================================================
