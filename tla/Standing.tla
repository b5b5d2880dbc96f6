------------------------------ MODULE Standing ------------------------------
(***************************************************************************)
(* How an owner's decisions about one agent become the facts that her      *)
(* rules read, and what a rule makes of them (/token, pending_poll,        *)
(* decide_pending and the owner's API in services/uma-as/app.py, with the  *)
(* rules themselves in Policy and the agent's evidence in Identity).       *)
(*                                                                         *)
(* A request carries the tier as it was when the request was dictated to,  *)
(* and reads the connection, the ledger, her operators and the lineage one *)
(* after the other.  Her answer to one that waits is recorded first; what  *)
(* the ledger says of it is written after the negotiation is read again.   *)
(***************************************************************************)
EXTENDS Policy, Identity, FiniteSets

CONSTANTS
  Tier,
  FirstTiers,    \* what they may be at first, a rule that is no longer valid included
  RuleLists,     \* the rules that she may try to save
  Presentation,  \* what an agent may send: its signature, and an agreement
  Offer,         \* what is offered to it
  Findings,      \* what may be read when it is looked for
  Request,
  Decider,       \* who answers: "owner", or an administrator of her organization
  Verdicts,      \* what her organization may say: "auto" for nothing
  Limit          \* how often each kind of thing happens, and how many in all

(* Rules were valid when they were saved, whatever became since of the      *)
(* conditions that they name.                                               *)
OnceValid(rules) ==
  /\ rules \in Seq(Range(rules))
  /\ \A rule \in Range(rules) :
       rule.then = "auto" =>
         \A c \in Range(rule.when) : c.name \in Relaxing \/ c.name \notin Conditions

ASSUME StandingAssumption ==
  /\ \A first \in FirstTiers :
       /\ DOMAIN first = Tier
       /\ \A t \in Tier : DOMAIN first[t] = {"ask_me", "rules"} /\ OnceValid(first[t].rules)
  /\ \A rules \in RuleLists : rules \in Seq(Range(rules))

VARIABLES
  tiers,         \* ask_me and rules
  conn,          \* her connection with the agent
  ledger,        \* what it says of the agent within the window
  owned,         \* whether she has claimed the agent's operator
  relatives,     \* tiers approved for the others of its lineage
  request,
  answer,        \* the handler of her answer to a request
  denied,        \* the requests that she denied
  left           \* what the bounds leave

vars == <<tiers, conn, ledger, owned, relatives, request, answer, denied, left>>

NoRequest == [pc |-> "none"]
Closed    == [pc |-> "closed"]
NoConnection == [status |-> "none", introduced |-> FALSE, age |-> 0, tiers_granted |-> {},
                 tiers_approved |-> {}, revocations |-> 0]

May(kind) == left[kind] > 0 /\ left["all"] > 0
Does(kind) == left' = [left EXCEPT ![kind] = @ - 1, !["all"] = @ - 1]

Goes(r, to) == request' = [request EXCEPT ![r] = to]

Init ==
  /\ tiers \in FirstTiers
  /\ conn = NoConnection
  /\ ledger = [denials |-> 0, tiers |-> {}, calls |-> 0]
  /\ owned = FALSE
  /\ relatives = {}
  /\ request = [r \in Request |-> NoRequest]
  /\ answer = [r \in Request |-> "none"]
  /\ denied = {}
  /\ left = Limit
-----------------------------------------------------------------------------
(* The token endpoint.                                                      *)

(* A sibling's introduction counts if one operator published both keys; an  *)
(* issuer that names the parent needs no other document.                    *)
Introduced(p, identity, found) ==
  /\ "sponsor" \in found
  /\ IF p.agreement.introduction = "none" THEN identity.parent_agent
                                         ELSE identity.operator_attested

Established(p, found) ==
  LET identity == ContractIdentity(p, found) IN
  [assurance  |-> Assess(identity),
   introduced |-> Introduced(p, identity, found),
   request    |-> [longest     |-> p.agreement.expires_in >= Offer.expires_in,
                   reason      |-> p.agreement.reason # "none",
                   mission     |-> p.agreement.mission # "none",
                   consequence |-> p.consequence]]

Acceptable(p) == Signed(p) /\ VerifyContract(p.agreement, Offer)

(* An agreement that cannot be accepted ends the negotiation.               *)
Ask(r, t, p, found) ==
  /\ request[r].pc = "none" /\ May("ask")
  /\ Does("ask")
  /\ Goes(r, IF Acceptable(p)
             THEN [pc |-> "promise", tier |-> t, terms |-> tiers[t], evidence |-> Established(p, found)]
             ELSE Closed)
  /\ UNCHANGED <<tiers, conn, ledger, owned, relatives, answer, denied>>

Promise(r) ==
  /\ request[r].pc = "promise"
  /\ ledger' = [ledger EXCEPT !.tiers = @ \cup {request[r].tier}]
  /\ Goes(r, [request[r] EXCEPT !.pc = "connection"])
  /\ UNCHANGED <<tiers, conn, owned, relatives, answer, denied, left>>

(* An introduction is for an agent that she has not met, or is connected    *)
(* with; the record is kept in hand.                                        *)
IntroducedConnection == [NoConnection EXCEPT !.status = "active", !.introduced = TRUE,
                                             !.revocations = conn.revocations]

ReadConnection(r) ==
  LET b == request[r]
      introduced == conn.status = "none" /\ b.evidence.introduced
  IN
  /\ b.pc = "connection"
  /\ Goes(r, [b EXCEPT !.pc = "trajectory"]
             @@ [conn |-> IF introduced THEN IntroducedConnection ELSE conn,
                 introduced |-> introduced])
  /\ UNCHANGED <<tiers, conn, ledger, owned, relatives, answer, denied, left>>

ReadTrajectory(r) ==
  /\ request[r].pc = "trajectory"
  /\ Goes(r, [request[r] EXCEPT !.pc = "operators"]
             @@ [trajectory |-> [ledger EXCEPT !.tiers = Cardinality(@)]])
  /\ UNCHANGED <<tiers, conn, ledger, owned, relatives, answer, denied, left>>

ReadOperators(r) ==
  LET b == request[r] IN
  /\ b.pc = "operators"
  /\ Goes(r, [b EXCEPT !.pc = "evaluate"]
             @@ [first_party |-> FirstParty(b.evidence.assurance, owned)])
  /\ UNCHANGED <<tiers, conn, ledger, owned, relatives, answer, denied, left>>

(* Its own approvals, while it is connected, and those of its lineage.      *)
Lineage(c) ==
  (IF c.status = "active" /\ conn.status = "active" THEN conn.tiers_approved ELSE {})
    \cup (IF c.introduced THEN relatives ELSE {})

Facts(t, e, c, trajectory, firstParty) ==
  [assurance |-> e.assurance,
   standing  |-> StandingFacts(c, t, trajectory, firstParty, Lineage(c)),
   request   |-> e.request,
   tier      |-> t]

Onward(tier, kind) == [pc |-> IF kind = "grant" THEN "grant" ELSE "pend", tier |-> tier, kind |-> kind]

Stricter(a, b) == IF Rank[a] >= Rank[b] THEN a ELSE b

(* The lineage is read, the rules are evaluated, and her organization may   *)
(* only ask for more.                                                       *)
Evaluated(r, verdict) ==
  LET b     == request[r]
      facts == Facts(b.tier, b.evidence, b.conn, b.trajectory, b.first_party)
      needs == Stricter(Evaluate(b.terms, facts), verdict)
      meets == b.conn.status # "active"
      kind  == IF meets THEN "connection" ELSE IF needs = "ask" THEN "operation" ELSE "grant"
  IN
  /\ b.pc = "evaluate"
  /\ Goes(r, IF needs = "refuse" THEN Closed
             ELSE IF b.introduced THEN [pc |-> "put", tier |-> b.tier, kind |-> kind, conn |-> b.conn]
             ELSE Onward(b.tier, kind))
  /\ UNCHANGED <<tiers, conn, ledger, owned, relatives, answer, denied, left>>

PutIntroduced(r) ==
  LET b == request[r] IN
  /\ b.pc = "put"
  /\ conn' = b.conn
  /\ Goes(r, Onward(b.tier, b.kind))
  /\ UNCHANGED <<tiers, ledger, owned, relatives, answer, denied, left>>

Pend(r) ==
  LET b == request[r] IN
  /\ b.pc = "pend"
  /\ Goes(r, [pc |-> "waiting", tier |-> b.tier, kind |-> b.kind, decision |-> "none",
              decided_by |-> "none", revocations_seen |-> conn.revocations])
  /\ UNCHANGED <<tiers, conn, ledger, owned, relatives, answer, denied, left>>

NoteTierGrant(t) == [conn EXCEPT !.tiers_granted = IF conn.status = "none" THEN @
                                                   ELSE @ \cup {t}]

Grant(r) ==
  /\ request[r].pc = "grant"
  /\ conn' = NoteTierGrant(request[r].tier)
  /\ Goes(r, [pc |-> "granted"])
  /\ UNCHANGED <<tiers, ledger, owned, relatives, answer, denied, left>>

(* The resource server reports a call.                                      *)
Touched(r) ==
  /\ request[r].pc = "granted"
  /\ ledger' = [ledger EXCEPT !.calls = @ + 1]
  /\ Goes(r, Closed)
  /\ UNCHANGED <<tiers, conn, owned, relatives, answer, denied, left>>
-----------------------------------------------------------------------------
(* An answer: the decision, the negotiation read again, the ledger.  Only   *)
(* she admits an agent that she has not met.                                *)

Decide(r, decision, by) ==
  /\ request[r].pc = "waiting" /\ request[r].decision = "none"
  /\ decision = "approved" /\ request[r].kind = "connection" => by = "owner"
  /\ Goes(r, [request[r] EXCEPT !.decision = decision, !.decided_by = by])
  /\ answer' = [answer EXCEPT ![r] = IF decision = "denied" THEN "denied" ELSE "approved"]
  /\ denied' = IF decision = "denied" THEN denied \cup {r} ELSE denied
  /\ UNCHANGED <<tiers, conn, ledger, owned, relatives, left>>

(* The handle that it was waiting under, if it is there to be read.         *)
ReadBack(r) ==
  /\ answer[r] \in {"denied", "approved"}
  /\ answer' = [answer EXCEPT ![r] =
                  IF @ = "denied" /\ request[r].pc = "waiting" THEN "attributed" ELSE "unattributed"]
  /\ UNCHANGED <<tiers, conn, ledger, owned, relatives, request, denied, left>>

Record(r) ==
  /\ answer[r] \in {"attributed", "unattributed"}
  /\ ledger' = [ledger EXCEPT !.denials = @ + (IF answer[r] = "attributed" THEN 1 ELSE 0)]
  /\ answer' = [answer EXCEPT ![r] = "recorded"]
  /\ UNCHANGED <<tiers, conn, owned, relatives, request, denied, left>>

(* The agent collects it.                                                   *)
Poll(r) ==
  LET b == request[r]
      withdrawn == \/ conn.revocations > b.revocations_seen
                   \/ b.kind = "operation" /\ conn.status # "active"
  IN
  /\ b.pc = "waiting" /\ b.decision # "none"
  /\ Goes(r, IF b.decision = "denied" \/ withdrawn THEN Closed
             ELSE [pc |-> IF b.kind = "connection" THEN "admit" ELSE "approved",
                   tier |-> b.tier, by |-> b.decided_by])
  /\ UNCHANGED <<tiers, conn, ledger, owned, relatives, answer, denied, left>>

Admit(r) ==
  /\ request[r].pc = "admit"
  /\ conn' = [NoConnection EXCEPT !.status = "active", !.revocations = conn.revocations]
  /\ Goes(r, [request[r] EXCEPT !.pc = "approved"])
  /\ UNCHANGED <<tiers, ledger, owned, relatives, answer, denied, left>>

NoteApproval(r) ==
  LET b == request[r] IN
  /\ b.pc = "approved"
  /\ conn' = [NoteTierGrant(b.tier) EXCEPT
                !.tiers_approved = IF b.by = "owner" THEN @ \cup {b.tier} ELSE @]
  /\ Goes(r, [pc |-> "granted"])
  /\ UNCHANGED <<tiers, ledger, owned, relatives, answer, denied, left>>
-----------------------------------------------------------------------------
(* What she does, and time.                                                 *)

SaveRules(t, rules) ==
  /\ Valid(rules) /\ May("save")
  /\ Does("save")
  /\ tiers' = [tiers EXCEPT ![t].rules = rules]
  /\ UNCHANGED <<conn, ledger, owned, relatives, request, answer, denied>>

Revoke ==
  /\ conn.status = "active" /\ May("revoke")
  /\ Does("revoke")
  /\ conn' = [conn EXCEPT !.status = "revoked", !.revocations = @ + 1]
  /\ UNCHANGED <<tiers, ledger, owned, relatives, request, answer, denied>>

ClaimOperator ==
  /\ May("claim")
  /\ Does("claim")
  /\ owned' = ~owned
  /\ UNCHANGED <<tiers, conn, ledger, relatives, request, answer, denied>>

RelativeApproved(t) ==
  /\ conn.introduced /\ t \notin relatives /\ May("claim")
  /\ Does("claim")
  /\ relatives' = relatives \cup {t}
  /\ UNCHANGED <<tiers, conn, ledger, owned, request, answer, denied>>

ConnectionAges ==
  /\ conn.status = "active" /\ May("age")
  /\ Does("age")
  /\ conn' = [conn EXCEPT !.age = @ + 1]
  /\ UNCHANGED <<tiers, ledger, owned, relatives, request, answer, denied>>
-----------------------------------------------------------------------------
Next ==
  \/ \E r \in Request :
       \/ \E t \in Tier, p \in Presentation, found \in Findings : Ask(r, t, p, found)
       \/ Promise(r) \/ ReadConnection(r) \/ ReadTrajectory(r) \/ ReadOperators(r)
       \/ \E verdict \in Verdicts : Evaluated(r, verdict)
       \/ PutIntroduced(r) \/ Pend(r) \/ Grant(r) \/ Touched(r)
       \/ \E decision \in {"approved", "denied"}, by \in Decider : Decide(r, decision, by)
       \/ ReadBack(r) \/ Record(r) \/ Poll(r) \/ Admit(r) \/ NoteApproval(r)
  \/ \E t \in Tier, rules \in RuleLists : SaveRules(t, rules)
  \/ Revoke \/ ClaimOperator \/ ConnectionAges
  \/ \E t \in Tier : RelativeApproved(t)

Spec == Init /\ [][Next]_vars
-----------------------------------------------------------------------------
(* What the agent shows, and what it has been doing, never lower what a     *)
(* request needs: where the tier asks and the request need not be put to    *)
(* her, a rule says so that reads nothing but her own decisions.  An agent  *)
(* is her own where she claimed the operator that published its key; what   *)
(* it names and where it points make no difference.                         *)
ReadsHerDecisions(rule) ==
  rule.then = "auto" /\ \A c \in Range(rule.when) : c.name \in Relaxing

Shown == {[evidence |-> Established(p, found),
           hers     |-> p.client = "operator" /\ p.published] :
            p \in {q \in Presentation : Acceptable(q)}, found \in Findings}

Now == [ledger EXCEPT !.tiers = Cardinality(@)]

EvidenceNeverWidens ==
  \A t \in Tier, s \in Shown :
    LET found == Facts(t, s.evidence, conn, Now, FirstParty(s.evidence.assurance, owned))
        told  == Facts(t, s.evidence, conn, Now, owned /\ s.hers)
    IN tiers[t].ask_me /\ Evaluate(tiers[t], found) = "auto" =>
         \E rule \in Range(tiers[t].rules) : ReadsHerDecisions(rule) /\ RuleMatches(rule, told)

(* The order in which she wrote her rules says nothing: what applies is     *)
(* what some relaxation leaves, and then the strictest restriction.         *)
StrictestThatApplies ==
  \A t \in Tier, s \in Shown :
    LET facts    == Facts(t, s.evidence, conn, Now, owned)
        applying == {Effect(rule) : rule \in {x \in Range(tiers[t].rules) : RuleMatches(x, facts)}}
        start    == IF tiers[t].ask_me /\ "auto" \notin applying THEN "ask" ELSE "auto"
    IN Rank[Evaluate(tiers[t], facts)] =
         CHOOSE n \in 0..2 : /\ \E x \in applying \cup {start} : Rank[x] = n
                             /\ \A x \in applying \cup {start} : Rank[x] <= n

=============================================================================
