--------------------------- MODULE StandingProofs ----------------------------
(***************************************************************************)
(* Of any list of rules, the strictest that applies is what counts, in     *)
(* whatever order they are written; and what an agent shows of itself      *)
(* never lowers what a request needs.  The evaluation is two folds over    *)
(* the rules; both are taken along the list's prefixes.                    *)
(***************************************************************************)
EXTENDS Standing, FoldLemmas

(* The two passes over the rules, as the recursive functions that they are. *)
RelaxStep(rules, facts, base, g) ==
  [s \in SUBSET DOMAIN rules |->
     IF s = {} THEN base
     ELSE IF Effect(rules[Max(s)]) = "auto" /\ RuleMatches(rules[Max(s)], facts)
          THEN "auto" ELSE g[s \ {Max(s)}]]

RestrictStep(rules, facts, base, g) ==
  [s \in SUBSET DOMAIN rules |->
     IF s = {} THEN base
     ELSE IF /\ Rank[Effect(rules[Max(s)])] > Rank[g[s \ {Max(s)}]]
             /\ RuleMatches(rules[Max(s)], facts)
          THEN Effect(rules[Max(s)]) ELSE g[s \ {Max(s)}]]

Relaxed(rules, facts, base) ==
  (CHOOSE g : g = RelaxStep(rules, facts, base, g))[DOMAIN rules]

Restricted(rules, facts, base) ==
  (CHOOSE g : g = RestrictStep(rules, facts, base, g))[DOMAIN rules]

Baseline(tier) == IF tier.ask_me THEN "ask" ELSE "auto"

LEMMA EvaluatePasses ==
  ASSUME NEW tier, NEW facts
  PROVE  Evaluate(tier, facts) =
           Restricted(tier.rules, facts, Relaxed(tier.rules, facts, Baseline(tier)))
  BY DEF Evaluate, FoldLeft, MapThenFoldSet, Restricted, RestrictStep, Relaxed, RelaxStep, Baseline

(* What the rules up to k come to, in any order.                            *)
Applying(rules, facts, k) ==
  {Effect(rules[i]) : i \in {j \in 1..k : RuleMatches(rules[j], facts)}}

LEMMA ApplyingGrows ==
  ASSUME NEW rules, NEW facts, NEW k \in Nat
  PROVE  /\ Applying(rules, facts, 0) = {}
         /\ Applying(rules, facts, k + 1) =
              Applying(rules, facts, k)
                \cup (IF RuleMatches(rules[k + 1], facts) THEN {Effect(rules[k + 1])} ELSE {})
<1>1. 1..0 = {} /\ 1..(k + 1) = (1..k) \cup {k + 1}
  OBVIOUS
<1> QED
  BY <1>1 DEF Applying

LEMMA EffectIsOne ==
  ASSUME NEW rule
  PROVE  Effect(rule) \in Effects
  BY DEF Effect, Effects

LEMMA RelaxedIs ==
  ASSUME NEW rules, NEW facts, NEW n \in Nat, DOMAIN rules = 1..n, NEW base \in Effects
  PROVE  Relaxed(rules, facts, base) =
           IF "auto" \in Applying(rules, facts, n) THEN "auto" ELSE base
<1> DEFINE step == [p \in Effects \X (1..n) |->
                      IF Effect(rules[p[2]]) = "auto" /\ RuleMatches(rules[p[2]], facts)
                      THEN "auto" ELSE p[1]]
           h == CHOOSE g : g = RelaxStep(rules, facts, base, g)
<1>1. \E g : g = RelaxStep(rules, facts, base, g)
  <2>1. step \in [Effects \X (1..n) -> Effects]
    BY DEF Effects
  <2> HIDE DEF step
  <2>2. PICK g : FoldsTo(g, Effects, base, n, step)
    BY <2>1, FoldExists
  <2>3. ASSUME NEW s \in SUBSET (1..n), s # {}
        PROVE  step[<<g[s \ {Max(s)}], Max(s)>>] =
                 IF Effect(rules[Max(s)]) = "auto" /\ RuleMatches(rules[Max(s)], facts)
                 THEN "auto" ELSE g[s \ {Max(s)}]
    <3>1. Max(s) \in 1..n /\ s \ {Max(s)} \in SUBSET (1..n)
      BY <2>3, MaxIsOne
    <3> QED
      BY <2>2, <3>1 DEF step, FoldsTo
  <2>4. g = RelaxStep(rules, facts, base, g)
    <3>1. \A s \in SUBSET (1..n) : g[s] = RelaxStep(rules, facts, base, g)[s]
      BY <2>2, <2>3 DEF FoldsTo, RelaxStep
    <3>2. DOMAIN g = SUBSET (1..n) /\ g = [s \in SUBSET (1..n) |-> g[s]]
      BY <2>2 DEF FoldsTo
    <3> QED
      BY <3>1, <3>2 DEF RelaxStep
  <2> QED
    BY <2>4
<1>2. h = RelaxStep(rules, facts, base, h)
  BY <1>1
<1> HIDE DEF h, step
<1> DEFINE S == {k \in Nat : k <= n =>
                   h[1..k] = IF "auto" \in Applying(rules, facts, k) THEN "auto" ELSE base}
<1>3. 0 \in S
  <2>1. 1..0 = {}
    OBVIOUS
  <2> QED
    BY <1>2, <2>1, ApplyingGrows DEF RelaxStep
<1>4. ASSUME NEW k \in S PROVE k + 1 \in S
  <2>1. SUFFICES ASSUME k + 1 <= n
                 PROVE  h[1..(k + 1)] = IF "auto" \in Applying(rules, facts, k + 1) THEN "auto" ELSE base
    BY k + 1 \in Nat
  <2>2. k \in Nat /\ k + 1 \in 1..n /\ k <= n /\ (k + 1) - 1 = k
    BY <2>1
  <2>3. /\ 1..(k + 1) \in SUBSET (1..n) /\ 1..(k + 1) # {}
        /\ Max(1..(k + 1)) = k + 1 /\ (1..(k + 1)) \ {k + 1} = 1..k
    BY <2>2, Prefix
  <2>4. h[1..(k + 1)] = IF Effect(rules[k + 1]) = "auto" /\ RuleMatches(rules[k + 1], facts)
                        THEN "auto" ELSE h[1..k]
    BY <1>2, <2>3 DEF RelaxStep
  <2>5. h[1..k] = IF "auto" \in Applying(rules, facts, k) THEN "auto" ELSE base
    BY <2>2
  <2> QED
    BY <2>2, <2>4, <2>5, ApplyingGrows
<1> HIDE DEF S
<1>5. S = Nat
  <2>1. S \in SUBSET Nat
    BY DEF S
  <2> QED
    BY <1>3, <1>4, <2>1, Induction
<1> QED
  BY <1>5 DEF S, h, Relaxed

LEMMA RestrictedIs ==
  ASSUME NEW rules, NEW facts, NEW n \in Nat, DOMAIN rules = 1..n, NEW base \in Effects
  PROVE  LET came == Restricted(rules, facts, base)
             from == Applying(rules, facts, n) \cup {base}
         IN came \in from /\ \A x \in from : Rank[x] <= Rank[came]
<1> DEFINE step == [p \in Effects \X (1..n) |->
                      IF Rank[Effect(rules[p[2]])] > Rank[p[1]] /\ RuleMatches(rules[p[2]], facts)
                      THEN Effect(rules[p[2]]) ELSE p[1]]
           h == CHOOSE g : g = RestrictStep(rules, facts, base, g)
<1>1. \E g : g = RestrictStep(rules, facts, base, g)
  <2>1. step \in [Effects \X (1..n) -> Effects]
    BY EffectIsOne
  <2> HIDE DEF step
  <2>2. PICK g : FoldsTo(g, Effects, base, n, step)
    BY <2>1, FoldExists
  <2>3. ASSUME NEW s \in SUBSET (1..n), s # {}
        PROVE  step[<<g[s \ {Max(s)}], Max(s)>>] =
                 IF /\ Rank[Effect(rules[Max(s)])] > Rank[g[s \ {Max(s)}]]
                    /\ RuleMatches(rules[Max(s)], facts)
                 THEN Effect(rules[Max(s)]) ELSE g[s \ {Max(s)}]
    <3>1. Max(s) \in 1..n /\ s \ {Max(s)} \in SUBSET (1..n)
      BY <2>3, MaxIsOne
    <3> QED
      BY <2>2, <3>1 DEF step, FoldsTo
  <2>4. g = RestrictStep(rules, facts, base, g)
    <3>1. \A s \in SUBSET (1..n) : g[s] = RestrictStep(rules, facts, base, g)[s]
      BY <2>2, <2>3 DEF FoldsTo, RestrictStep
    <3>2. DOMAIN g = SUBSET (1..n) /\ g = [s \in SUBSET (1..n) |-> g[s]]
      BY <2>2 DEF FoldsTo
    <3> QED
      BY <3>1, <3>2 DEF RestrictStep
  <2> QED
    BY <2>4
<1>2. h = RestrictStep(rules, facts, base, h)
  BY <1>1
<1> HIDE DEF h, step
<1> DEFINE From(k) == Applying(rules, facts, k) \cup {base}
           S == {k \in Nat : k <= n =>
                   h[1..k] \in From(k) /\ \A x \in From(k) : Rank[x] <= Rank[h[1..k]]}
<1>3. 0 \in S
  <2>1. 1..0 = {}
    OBVIOUS
  <2>2. h[1..0] = base
    BY <1>2, <2>1 DEF RestrictStep
  <2> QED
    BY <2>2, ApplyingGrows DEF Rank, Effects
<1>4. ASSUME NEW k \in S PROVE k + 1 \in S
  <2>1. SUFFICES ASSUME k + 1 <= n
                 PROVE  /\ h[1..(k + 1)] \in From(k + 1)
                        /\ \A x \in From(k + 1) : Rank[x] <= Rank[h[1..(k + 1)]]
    BY k + 1 \in Nat
  <2>2. k \in Nat /\ k + 1 \in 1..n /\ k <= n /\ (k + 1) - 1 = k
    BY <2>1
  <2>3. /\ 1..(k + 1) \in SUBSET (1..n) /\ 1..(k + 1) # {}
        /\ Max(1..(k + 1)) = k + 1 /\ (1..(k + 1)) \ {k + 1} = 1..k
    BY <2>2, Prefix
  <2>4. h[1..(k + 1)] = IF Rank[Effect(rules[k + 1])] > Rank[h[1..k]] /\ RuleMatches(rules[k + 1], facts)
                        THEN Effect(rules[k + 1]) ELSE h[1..k]
    BY <1>2, <2>3 DEF RestrictStep
  <2>5. h[1..k] \in From(k) /\ \A x \in From(k) : Rank[x] <= Rank[h[1..k]]
    BY <2>2
  <2>6. From(k + 1) = From(k) \cup (IF RuleMatches(rules[k + 1], facts) THEN {Effect(rules[k + 1])} ELSE {})
    BY <2>2, ApplyingGrows
  <2>7. From(k) \subseteq Effects /\ Effect(rules[k + 1]) \in Effects
    BY EffectIsOne DEF Applying
  <2> HIDE DEF From, S
  <2>8. \A x, y \in Effects : Rank[x] \in Nat
    BY DEF Effects, Rank
  <2> QED
    BY <2>4, <2>5, <2>6, <2>7, <2>8
<1>5. S = Nat
  <2> HIDE DEF From
  <2>1. S \in SUBSET Nat
    OBVIOUS
  <2> HIDE DEF S
  <2> QED
    BY <1>3, <1>4, <2>1, Induction
<1>6. h[1..n] \in From(n) /\ \A x \in From(n) : Rank[x] <= Rank[h[1..n]]
  BY <1>5
<1> QED
  BY <1>6 DEF h, Restricted

LEMMA EvaluateIs ==
  ASSUME NEW tier, NEW facts, tier.rules \in Seq(Range(tier.rules))
  PROVE  LET applying == {Effect(rule) : rule \in {x \in Range(tier.rules) : RuleMatches(x, facts)}}
             start    == IF tier.ask_me /\ "auto" \notin applying THEN "ask" ELSE "auto"
             needs    == Evaluate(tier, facts)
         IN /\ needs \in applying \cup {start}
            /\ \A x \in applying \cup {start} : Rank[x] <= Rank[needs]
<1> DEFINE applying == {Effect(rule) : rule \in {x \in Range(tier.rules) : RuleMatches(x, facts)}}
           start == IF tier.ask_me /\ "auto" \notin applying THEN "ask" ELSE "auto"
           n == Len(tier.rules)
<1>1. n \in Nat /\ DOMAIN tier.rules = 1..n
  OBVIOUS
<1>2. applying = Applying(tier.rules, facts, n)
  BY <1>1 DEF Applying, Range
<1>3. Baseline(tier) \in Effects /\ start \in Effects
  BY DEF Baseline, Effects
<1> HIDE DEF n
<1>4. Relaxed(tier.rules, facts, Baseline(tier)) = start
  BY <1>1, <1>2, <1>3, RelaxedIs DEF Baseline
<1>5. Evaluate(tier, facts) = Restricted(tier.rules, facts, start)
  BY <1>4, EvaluatePasses
<1> HIDE DEF applying, start
<1>6. /\ Restricted(tier.rules, facts, start) \in applying \cup {start}
      /\ \A x \in applying \cup {start} : Rank[x] <= Rank[Restricted(tier.rules, facts, start)]
  BY <1>1, <1>2, <1>3, RestrictedIs
<1> QED
  BY <1>5, <1>6 DEF applying, start
-----------------------------------------------------------------------------
(* The rules that are evaluated were valid when they were saved.            *)
RulesOnceValid ==
  /\ DOMAIN tiers = Tier
  /\ \A t \in Tier : DOMAIN tiers[t] = {"ask_me", "rules"} /\ OnceValid(tiers[t].rules)

LEMMA SavedIsValid ==
  ASSUME RulesOnceValid, NEW u \in Tier, NEW rules \in RuleLists, SaveRules(u, rules)
  PROVE  RulesOnceValid'
<1>1. OnceValid(rules)
  BY StandingAssumption DEF SaveRules, OnceValid, Valid, MayDecide
<1>2. tiers' = [tiers EXCEPT ![u] = [@ EXCEPT !.rules = rules]]
  BY DEF SaveRules
<1> QED
  BY <1>1, <1>2 DEF RulesOnceValid

LEMMA OthersKeepRules ==
  ASSUME [Next]_vars, ~ \E t \in Tier, rules \in RuleLists : SaveRules(t, rules)
  PROVE  tiers' = tiers
<1>1. CASE UNCHANGED vars
  BY <1>1 DEF vars
<1>2. ASSUME NEW r \in Request, NEW t \in Tier, NEW p \in Presentation, NEW found \in Findings,
             Ask(r, t, p, found)
      PROVE  tiers' = tiers
  BY <1>2 DEF Ask
<1>3. ASSUME NEW r \in Request,
             \/ Promise(r) \/ ReadConnection(r) \/ ReadTrajectory(r) \/ ReadOperators(r)
             \/ PutIntroduced(r) \/ Pend(r) \/ Grant(r) \/ Touched(r)
             \/ ReadBack(r) \/ Record(r) \/ Poll(r) \/ Admit(r) \/ NoteApproval(r)
      PROVE  tiers' = tiers
  BY <1>3 DEF Promise, ReadConnection, ReadTrajectory, ReadOperators, PutIntroduced, Pend, Grant,
              Touched, ReadBack, Record, Poll, Admit, NoteApproval
<1>4. ASSUME NEW r \in Request, NEW verdict, Evaluated(r, verdict)
      PROVE  tiers' = tiers
  BY <1>4 DEF Evaluated
<1>5. ASSUME NEW r \in Request, NEW decision, NEW by, Decide(r, decision, by)
      PROVE  tiers' = tiers
  BY <1>5 DEF Decide
<1>6. CASE Revoke \/ ClaimOperator \/ ConnectionAges \/ \E t \in Tier : RelativeApproved(t)
  BY <1>6 DEF Revoke, ClaimOperator, ConnectionAges, RelativeApproved
<1> QED
  BY <1>1, <1>2, <1>3, <1>4, <1>5, <1>6 DEF Next

(* A rule that is evaluated is a sequence of rules that, where they relax,  *)
(* name her decisions or what is no condition any more                      *)
(* (validate_rules, policy.py).                                             *)
THEOREM RulesStayValid == Spec => []RulesOnceValid
<1>1. Init => RulesOnceValid
  BY StandingAssumption DEF Init, RulesOnceValid
<1>2. RulesOnceValid /\ [Next]_vars => RulesOnceValid'
  <2> SUFFICES ASSUME RulesOnceValid, [Next]_vars PROVE RulesOnceValid'
    OBVIOUS
  <2>1. ASSUME NEW t \in Tier, NEW rules \in RuleLists, SaveRules(t, rules) PROVE RulesOnceValid'
    BY <2>1, SavedIsValid
  <2>2. CASE tiers' = tiers
    BY <2>2 DEF RulesOnceValid
  <2> QED
    BY <2>1, <2>2, OthersKeepRules
<1> QED
  BY <1>1, <1>2, PTL DEF Spec
-----------------------------------------------------------------------------
LEMMA StrictestNow ==
  ASSUME RulesOnceValid
  PROVE  StrictestThatApplies
<1> SUFFICES ASSUME NEW t \in Tier, NEW s \in Shown
    PROVE  LET facts    == Facts(t, s.evidence, conn, Now, owned)
               applying == {Effect(rule) : rule \in {x \in Range(tiers[t].rules) : RuleMatches(x, facts)}}
               start    == IF tiers[t].ask_me /\ "auto" \notin applying THEN "ask" ELSE "auto"
           IN Rank[Evaluate(tiers[t], facts)] =
                CHOOSE n \in 0..2 : /\ \E x \in applying \cup {start} : Rank[x] = n
                                    /\ \A x \in applying \cup {start} : Rank[x] <= n
  BY DEF StrictestThatApplies
<1> DEFINE facts == Facts(t, s.evidence, conn, Now, owned)
           applying == {Effect(rule) : rule \in {x \in Range(tiers[t].rules) : RuleMatches(x, facts)}}
           start == IF tiers[t].ask_me /\ "auto" \notin applying THEN "ask" ELSE "auto"
           from == applying \cup {start}
           needs == Evaluate(tiers[t], facts)
<1>1. needs \in from /\ \A x \in from : Rank[x] <= Rank[needs]
  BY EvaluateIs DEF RulesOnceValid, OnceValid
<1>2. from \subseteq Effects
  BY EffectIsOne DEF Effects
<1> HIDE DEF from, needs
<1>3. \A x \in from : Rank[x] \in 0..2
  <2>1. \A x \in Effects : Rank[x] \in 0..2
    BY DEF Effects, Rank
  <2> QED
    BY <1>2, <2>1
<1>4. Rank[needs] = CHOOSE n \in 0..2 : (\E x \in from : Rank[x] = n) /\ \A x \in from : Rank[x] <= n
  BY <1>1, <1>3
<1> QED
  BY <1>4 DEF from, needs

(* The order in which she wrote her rules makes no difference to what a     *)
(* request needs: whatever they are and however many, it is what some       *)
(* relaxation leaves, and then the strictest of the restrictions that apply *)
(* (evaluate, policy.py).                                                   *)
THEOREM StrictestApplies == Spec => []StrictestThatApplies
  BY RulesStayValid, StrictestNow, PTL
-----------------------------------------------------------------------------
(* A relaxation that applies was read to the end, and names nothing but her *)
(* decisions.                                                               *)
LEMMA RelaxationApplies ==
  ASSUME NEW rule, NEW facts, Effect(rule) = "auto", RuleMatches(rule, facts)
  PROVE  /\ rule.then = "auto"
         /\ \A c \in Range(rule.when) : ~Raises(c, facts) /\ Matches(c, facts)
<1> DEFINE when    == rule.when
           raising == {i \in DOMAIN when : Raises(when[i], facts)}
           failing == {i \in DOMAIN when \ raising : ~Matches(when[i], facts)}
<1>1. rule.then = "auto"
  BY DEF Effect
<1>2. failing = {} /\ raising = {}
  BY DEF RuleMatches
<1> QED
  BY <1>1, <1>2 DEF Range

LEMMA HoldsThroughout ==
  ASSUME NEW rule, NEW facts, \A c \in Range(rule.when) : ~Raises(c, facts) /\ Matches(c, facts)
  PROVE  RuleMatches(rule, facts)
  BY DEF RuleMatches, Range

(* Of what an agent shows, a relaxation reads whether it is her own, and    *)
(* that takes her claim of the operator and the operator's of the key.      *)
LEMMA HerOwnIsPublished ==
  ASSUME NEW s \in Shown, FirstParty(s.evidence.assurance, owned)
  PROVE  owned /\ s.hers
<1>1. PICK p \in Presentation, found \in Findings :
        /\ s.evidence = Established(p, found)
        /\ s.hers = (p.client = "operator" /\ p.published)
  BY DEF Shown
<1>2. s.evidence.assurance = Assess(ContractIdentity(p, found))
  BY <1>1 DEF Established
<1>3. /\ ContractIdentity(p, found).metadata = "verified"
      /\ ContractIdentity(p, found).operator_attested
      /\ owned
  BY <1>2 DEF FirstParty, Assess
<1>4. p.client = "operator" /\ SameOrigin(p) /\ Publishes(p, found)
  BY <1>3 DEF ContractIdentity, ResolveClientId, OperatorPublishedKey
<1> QED
  BY <1>1, <1>3, <1>4 DEF SameOrigin, Publishes

LEMMA RelaxingReads ==
  ASSUME NEW c, c.name \in Relaxing, NEW t, NEW e, NEW trajectory, NEW found, NEW told,
         found => told,
         ~Raises(c, Facts(t, e, conn, trajectory, found)),
         Matches(c, Facts(t, e, conn, trajectory, found))
  PROVE  /\ ~Raises(c, Facts(t, e, conn, trajectory, told))
         /\ Matches(c, Facts(t, e, conn, trajectory, told))
  BY DEF Relaxing, Raises, Matches, Facts, StandingFacts, TakesArgument, Conditions

LEMMA NeverWidensNow ==
  ASSUME RulesOnceValid
  PROVE  EvidenceNeverWidens
<1> SUFFICES ASSUME NEW t \in Tier, NEW s \in Shown, tiers[t].ask_me,
                    Evaluate(tiers[t], Facts(t, s.evidence, conn, Now,
                                             FirstParty(s.evidence.assurance, owned))) = "auto"
             PROVE  \E rule \in Range(tiers[t].rules) :
                      /\ ReadsHerDecisions(rule)
                      /\ RuleMatches(rule, Facts(t, s.evidence, conn, Now, owned /\ s.hers))
  BY DEF EvidenceNeverWidens
<1> DEFINE first == FirstParty(s.evidence.assurance, owned)
           hers  == owned /\ s.hers
           found == Facts(t, s.evidence, conn, Now, first)
           told  == Facts(t, s.evidence, conn, Now, hers)
<1>1. PICK rule \in Range(tiers[t].rules) : Effect(rule) = "auto" /\ RuleMatches(rule, found)
  <2> DEFINE applying == {Effect(rule) : rule \in {x \in Range(tiers[t].rules) : RuleMatches(x, found)}}
             start == IF tiers[t].ask_me /\ "auto" \notin applying THEN "ask" ELSE "auto"
  <2>1. "auto" \in applying \cup {start} /\ \A x \in applying \cup {start} : Rank[x] <= Rank["auto"]
    BY EvaluateIs DEF RulesOnceValid, OnceValid
  <2> QED
    BY <2>1
<1>2. rule.then = "auto" /\ \A c \in Range(rule.when) : ~Raises(c, found) /\ Matches(c, found)
  BY <1>1, RelaxationApplies
<1>3. ASSUME NEW c \in Range(rule.when) PROVE c.name \in Relaxing
  BY <1>1, <1>2, <1>3 DEF RulesOnceValid, OnceValid, Raises
<1>4. first => owned /\ s.hers
  BY HerOwnIsPublished
<1>5. ASSUME NEW c \in Range(rule.when) PROVE ~Raises(c, told) /\ Matches(c, told)
  <2>1. c.name \in Relaxing /\ ~Raises(c, found) /\ Matches(c, found)
    BY <1>2, <1>3
  <2>2. first => hers
    BY <1>4
  <2> HIDE DEF first, hers
  <2> QED
    BY <2>1, <2>2, RelaxingReads
<1> HIDE DEF told
<1>6. RuleMatches(rule, told)
  BY <1>5, HoldsThroughout
<1> QED
  BY <1>1, <1>2, <1>3, <1>6 DEF told, ReadsHerDecisions

(* Whatever rules she has, whatever an agent presents and whatever it did:  *)
(* where a tier that asks does not ask, a rule of hers says so that reads   *)
(* her own decisions alone (policy.py, the sources a condition may come     *)
(* from; first_party in services/uma-as/app.py).                            *)
THEOREM EvidenceOnlyTightens == Spec => []EvidenceNeverWidens
  BY RulesStayValid, NeverWidensNow, PTL
=============================================================================
