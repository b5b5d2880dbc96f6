-------------------------- MODULE MembershipProofs --------------------------
(***************************************************************************)
(* A stored membership is whole, what an administrator shuts out stays out,*)
(* a notice acts once and a grant is of what was offered and agreed, on    *)
(* every number of replicas and requests.                                  *)
(***************************************************************************)
EXTENDS Membership, FoldLemmas

RequestFields ==
  {"kind", "at", "pc", "agent", "facts", "client", "envelope", "known", "tier",
   "terms", "patch", "work", "served", "base"}

(* Requests, the row and the organization have their fields.                *)
Shaped ==
  /\ DOMAIN job = Job /\ \A j \in Job : DOMAIN job[j] = RequestFields
  /\ DOMAIN record = {"token", "envelope", "blocked"}
  /\ DOMAIN organization = {"charter", "member", "shares", "clearance", "joins", "removing"}

(* An enrolment that her authority has not learnt of yet is under a token   *)
(* that nothing else is, of those the organization has given out.           *)
Joining(j) == job[j].pc = "joined"

JoinsAreNew ==
  /\ organization.joins \in Nat
  /\ record.token \in 0..organization.joins
  /\ \A j \in Job : Joining(j) =>
       job[j].client \in 1..organization.joins /\ job[j].client # record.token
  /\ \A i, j \in Job : Joining(i) /\ Joining(j) /\ job[i].client = job[j].client => i = j

MembershipInv == Shaped /\ JoinsAreNew /\ RecordIsWhole

-----------------------------------------------------------------------------
(* What most steps have in common: a request is at another step, which is   *)
(* not an enrolment's, and the row is what it was, is gone, or has one of   *)
(* its fields written.                                                      *)

Moved(b) == DOMAIN b = RequestFields /\ b.pc # "joined"

RequestsMove ==
  DOMAIN job' = Job /\ \A j \in Job : job'[j] = job[j] \/ Moved(job'[j])

RecordMoves ==
  \/ record' = record
  \/ record' = NoRecord
  \/ /\ Enrolled
     /\ DOMAIN record' = DOMAIN record
     /\ record'.token = record.token /\ record.blocked \subseteq record'.blocked

OrganizationMoves ==
  DOMAIN organization' = DOMAIN organization /\ organization'.joins = organization.joins

Ordinary == RequestsMove /\ RecordMoves /\ OrganizationMoves

LEMMA OrdinaryKeeps ==
  ASSUME MembershipInv, Ordinary
  PROVE  MembershipInv'
<1>1. /\ NoRecord.token = 0 /\ DOMAIN NoRecord = {"token", "envelope", "blocked"}
  BY DEF NoRecord, NoToken
<1>2. Shaped'
  BY <1>1 DEF MembershipInv, Shaped, Ordinary, RequestsMove, RecordMoves, OrganizationMoves, Moved
<1>3. record'.token \in {record.token, 0}
  BY <1>1 DEF Ordinary, RecordMoves
<1>4. \A j \in Job : Joining(j)' => Joining(j) /\ job'[j] = job[j]
  BY DEF Ordinary, RequestsMove, Moved, Joining
<1>5. JoinsAreNew'
  BY <1>3, <1>4 DEF MembershipInv, JoinsAreNew, Ordinary, OrganizationMoves
<1>6. RecordIsWhole'
  BY <1>1 DEF MembershipInv, RecordIsWhole, Enrolled, Ordinary, RecordMoves
<1> QED
  BY <1>2, <1>5, <1>6 DEF MembershipInv

LEMMA GoesMoves ==
  ASSUME Shaped, NEW j \in Job, NEW to, Moved(to), Goes(j, to)
  PROVE  RequestsMove
  BY DEF Shaped, Goes, RequestsMove

LEMMA IdleMoved == Moved(Idle)
  BY DEF Moved, Idle, RequestFields

LEMMA StopsMoves ==
  ASSUME Shaped, NEW j \in Job, Stops(j)
  PROVE  RequestsMove
  BY IdleMoved, GoesMoves DEF Stops

LEMMA WithMoved ==
  ASSUME NEW b, DOMAIN b = RequestFields, NEW client, NEW envelope
  PROVE  Moved(With(b, client, envelope))
<1> DEFINE c == [b EXCEPT !.client = client, !.envelope = envelope, !.work = <<>>, !.known = 0]
<1>1. DOMAIN c = RequestFields
  OBVIOUS
<1>2. \A l \in {"edit", "draft", "leaving", "block", "policy", "verdict"} :
        Moved([c EXCEPT !.pc = l])
  BY <1>1 DEF Moved, RequestFields
<1> HIDE DEF c
<1>3. With(b, client, envelope) \in
        {Idle} \cup {[c EXCEPT !.pc = l] : l \in {"edit", "draft", "leaving", "block", "policy", "verdict"}}
  BY DEF With, c
<1> QED
  BY <1>2, <1>3, IdleMoved

LEMMA GivenMoves ==
  ASSUME Shaped, NEW j \in Job, Given(j) \/ GivenNone(j)
  PROVE  RequestsMove
  BY WithMoved, GoesMoves DEF Shaped, Given, GivenNone

LEMMA UseClientOrdinary ==
  ASSUME MembershipInv, NEW j \in Job, NEW b, DOMAIN b = RequestFields, UseClient(j, b)
  PROVE  RequestsMove /\ RecordMoves
<1>1. \A l \in {"client", "refresh"} : Moved([b EXCEPT !.pc = l])
  BY DEF Moved, RequestFields
<1>2. \A k : Moved([b EXCEPT !.pc = "refresh", !.client = k])
  BY DEF Moved, RequestFields
<1>3. \A k, e : Moved(With(b, k, e))
  BY WithMoved
<1>4. RequestsMove
  BY <1>1, <1>2, <1>3, GoesMoves DEF MembershipInv, UseClient, NewClient, FreshClient, OldClient
<1>5. RecordMoves
  BY DEF RecordMoves, UseClient, NewClient, FreshClient, OldClient
<1> QED
  BY <1>4, <1>5
-----------------------------------------------------------------------------
(* Every step but an enrolment's and an administrator's second thoughts.    *)

LEMMA IdleFields == DOMAIN Idle = RequestFields
  BY DEF Idle, RequestFields

(* The steps of a request that leave the row and the organization alone.    *)
Quiet == record' = record /\ organization' = organization

LEMMA QuietOrdinary ==
  ASSUME MembershipInv, Quiet, RequestsMove
  PROVE  Ordinary
  BY DEF Quiet, Ordinary, RecordMoves, OrganizationMoves

LEMMA MovesQuietly ==
  ASSUME MembershipInv, NEW j \in Job, NEW to, Moved(to), Goes(j, to), Quiet
  PROVE  Ordinary
  BY GoesMoves, QuietOrdinary DEF MembershipInv

LEMMA StopsQuietly ==
  ASSUME MembershipInv, NEW j \in Job, Stops(j), Quiet
  PROVE  Ordinary
  BY StopsMoves, QuietOrdinary DEF MembershipInv

LEMMA GivenQuietly ==
  ASSUME MembershipInv, NEW j \in Job, Given(j) \/ GivenNone(j), Quiet
  PROVE  Ordinary
  BY GivenMoves, QuietOrdinary DEF MembershipInv

LEMMA UseOrdinary ==
  ASSUME MembershipInv, NEW j \in Job, NEW b, DOMAIN b = RequestFields, UseClient(j, b),
         organization' = organization
  PROVE  Ordinary
  BY UseClientOrdinary DEF Ordinary, OrganizationMoves

LEMMA ReadingOrdinary ==
  ASSUME MembershipInv, NEW j \in Job,
         StartAgain(j) \/ Refresh(j) \/ Fetched(j) \/ FetchFails(j) \/ Ended(j) \/ Clear(j)
           \/ Reread(j) \/ Store(j)
  PROVE  Ordinary
<1> DEFINE b == job[j]
<1>1. DOMAIN b = RequestFields
  BY DEF MembershipInv, Shaped
<1>2. \A l \in {"fetching", "ended", "fetched", "client", "clear", "store", "clamp"} :
        /\ Moved([b EXCEPT !.pc = l])
        /\ \A k : Moved([b EXCEPT !.pc = l, !.known = k])
        /\ \A k, e : Moved([b EXCEPT !.pc = l, !.known = k, !.envelope = e])
  BY <1>1 DEF Moved, RequestFields
<1>3. CASE StartAgain(j)
  BY <1>1, <1>3, UseOrdinary DEF StartAgain
<1>4. CASE Refresh(j)
  BY <1>2, <1>4, GivenQuietly, MovesQuietly DEF Refresh, Quiet
<1>5. CASE Fetched(j)
  BY <1>2, <1>5, MovesQuietly DEF Fetched, Quiet
<1>6. CASE FetchFails(j)
  BY <1>1, <1>6, WithMoved, MovesQuietly DEF FetchFails, Quiet
<1>7. CASE Ended(j)
  BY <1>2, <1>7, MovesQuietly DEF Ended, Quiet
<1>8. CASE Clear(j)
  BY <1>8, GivenMoves DEF Clear, MembershipInv, Ordinary, RecordMoves, OrganizationMoves
<1>9. CASE Reread(j)
  BY <1>2, <1>9, GivenQuietly, MovesQuietly DEF Reread, Quiet
<1>10. CASE Store(j)
  <2>1. RequestsMove
    BY <1>2, <1>10, GivenMoves, GoesMoves DEF Store, MembershipInv
  <2>2. RecordMoves
    BY <1>10 DEF Store, UpdateOrganization, RecordMoves, MembershipInv, Shaped
  <2> QED
    BY <1>10, <2>1, <2>2 DEF Store, Ordinary, OrganizationMoves
<1> QED
  BY <1>3, <1>4, <1>5, <1>6, <1>7, <1>8, <1>9, <1>10

LEMMA TermsOrdinary ==
  ASSUME MembershipInv, NEW j \in Job,
         ReadTiers(j) \/ ClampTier(j) \/ Publish(j) \/ Clamped(j) \/ ReadTier(j) \/ Write(j)
           \/ Serve(j) \/ Draft(j) \/ Insert(j)
  PROVE  Ordinary
<1> DEFINE b == job[j]
<1>1. DOMAIN b = RequestFields
  BY DEF MembershipInv, Shaped
<1>2. \A l \in {"clamping", "publish", "write", "serve", "insert"} :
        /\ Moved([b EXCEPT !.pc = l])
        /\ \A x : /\ Moved([b EXCEPT !.pc = l, !.work = x])
                  /\ Moved([b EXCEPT !.pc = l, !.served = x])
                  /\ Moved([b EXCEPT !.pc = l, !.patch = x])
                  /\ Moved([b EXCEPT !.pc = l, !.terms = x])
  BY <1>1 DEF Moved, RequestFields
<1>3. \A c, t : Moved(c) => Moved(Serving(c, t))
  BY DEF Moved, Serving, RequestFields
<1>4. CASE ReadTiers(j)
  BY <1>2, <1>4, MovesQuietly DEF ReadTiers, Quiet
<1>5. CASE ClampTier(j)
  BY <1>2, <1>3, <1>5, MovesQuietly, StopsQuietly DEF ClampTier, Quiet
<1>6. CASE Publish(j)
  BY <1>2, <1>6, MovesQuietly DEF Publish, Quiet
<1>7. CASE Clamped(j)
  BY <1>7, GivenQuietly DEF Clamped, Quiet
<1>8. CASE ReadTier(j)
  BY <1>2, <1>8, MovesQuietly, StopsQuietly DEF ReadTier, Quiet
<1>9. CASE Write(j)
  BY <1>2, <1>3, <1>9, MovesQuietly, StopsQuietly DEF Write, Quiet
<1>10. CASE Serve(j)
  BY <1>10, StopsQuietly DEF Serve, Quiet
<1>11. CASE Draft(j)
  BY <1>2, <1>11, MovesQuietly, StopsQuietly DEF Draft, Quiet
<1>12. CASE Insert(j)
  BY <1>2, <1>3, <1>12, MovesQuietly, StopsQuietly DEF Insert, Quiet
<1> QED
  BY <1>4, <1>5, <1>6, <1>7, <1>8, <1>9, <1>10, <1>11, <1>12

LEMMA LeavingOrdinary ==
  ASSUME MembershipInv, NEW j \in Job, Leaving(j)
  PROVE  Ordinary
<1>1. Moved([job[j] EXCEPT !.pc = "clear"])
  BY DEF MembershipInv, Shaped, Moved, RequestFields
<1>2. RequestsMove
  BY <1>1, GoesMoves DEF Leaving, MembershipInv
<1>3. OrganizationMoves
  BY DEF Leaving, NoMember, OrganizationMoves, MembershipInv, Shaped
<1> QED
  BY <1>2, <1>3 DEF Leaving, Ordinary, RecordMoves

LEMMA BlockOrdinary ==
  ASSUME MembershipInv, NEW j \in Job, Block(j)
  PROVE  Ordinary
<1>1. RequestsMove
  BY StopsMoves DEF Block, MembershipInv
<1>2. RecordMoves
  BY DEF Block, RecordMoves, MembershipInv, Shaped
<1> QED
  BY <1>1, <1>2 DEF Block, Ordinary, OrganizationMoves

(* The agent's request.  Every way that it is refused stops it.             *)
LEMMA NegotiationOrdinary ==
  ASSUME MembershipInv, NEW j \in Job,
         Policy(j) \/ ClearanceToken(j) \/ ClearanceUnmet(j) \/ ShutOut(j) \/ Verdict(j)
           \/ Issue(j)
  PROVE  Ordinary
<1> DEFINE b == job[j]
<1>1. DOMAIN b = RequestFields
  BY DEF MembershipInv, Shaped
<1>2. \A l \in {"attest", "attested", "client", "issue", "shut"} :
        /\ Moved([b EXCEPT !.pc = l])
        /\ \A k : Moved([b EXCEPT !.kind = k, !.pc = l])
        /\ \A x : Moved([b EXCEPT !.pc = l, !.facts = x])
        /\ \A x, y : Moved([b EXCEPT !.pc = l, !.tier = x, !.terms = y])
        /\ \A k, x, y, z : Moved([b EXCEPT !.kind = k, !.pc = l, !.tier = x, !.facts = y, !.terms = z])
  BY <1>1 DEF Moved, RequestFields
<1>3. ASSUME NEW t, NEW tier, Dictates(b, t, tier), Quiet PROVE Ordinary
  <2> DEFINE to == [b EXCEPT !.kind = "verdict", !.pc = "shut", !.tier = t, !.facts = <<>>,
                            !.terms = offer.terms]
  <2>1. Goes(Query, to) \/ Stops(Query)
    BY <1>3 DEF Dictates
  <2>2. Moved(to)
    BY <1>2
  <2>3. Query \in Job
    BY MembershipAssumption
  <2> HIDE DEF to
  <2> QED
    BY <1>3, <2>1, <2>2, <2>3, MovesQuietly, StopsQuietly
<1>4. CASE Policy(j)
  BY <1>2, <1>3, <1>4, MovesQuietly, StopsQuietly DEF Policy, Refused, Quiet
<1>5. CASE ClearanceToken(j)
  BY <1>2, <1>5, MovesQuietly DEF ClearanceToken, Quiet
<1>6. CASE ClearanceUnmet(j)
  BY <1>3, <1>6, StopsQuietly DEF ClearanceUnmet, Refused, Quiet
<1>7. CASE ShutOut(j)
  BY <1>2, <1>7, MovesQuietly, StopsQuietly DEF ShutOut, Refused, Quiet
<1>8. CASE Verdict(j)
  BY <1>2, <1>8, MovesQuietly, StopsQuietly DEF Verdict, Refused, Quiet
<1>9. CASE Issue(j)
  BY <1>9, StopsQuietly DEF Issue, Refused, Quiet
<1> QED
  BY <1>4, <1>5, <1>6, <1>7, <1>8, <1>9
LEMMA ProgressOrdinary ==
  ASSUME MembershipInv, NEW j \in Job, Progress(j), ~Joined(j)
  PROVE  Ordinary
  BY ReadingOrdinary, TermsOrdinary, LeavingOrdinary, BlockOrdinary, NegotiationOrdinary
  DEF Progress

LEMMA StartsFields ==
  ASSUME NEW r, NEW kind
  PROVE  DOMAIN Starts(r, kind) = RequestFields
  BY IdleFields DEF Starts

LEMMA ArrivesOrdinary ==
  ASSUME MembershipInv, NEW j \in Job, NEW r \in Replica, Arrives(j, r), ~Join(j, r)
  PROVE  Ordinary
<1> DEFINE b(kind) == Starts(r, kind)
<1>1. \A kind : DOMAIN b(kind) = RequestFields
  BY StartsFields
<1>2. CASE Leave(j, r)
  BY <1>1, <1>2, UseOrdinary DEF Leave
<1>3. ASSUME NEW n \in mail, Receive(j, r, n) PROVE Ordinary
  <2>1. Moved(b("notice")) /\ Moved([b("notice") EXCEPT !.pc = "clear"])
    BY DEF Moved, RequestFields, Starts, Idle
  <2> QED
    BY <1>3, <2>1, MovesQuietly DEF Receive, Quiet
<1>4. ASSUME NEW agent \in Agent, Shut(j, r, agent) PROVE Ordinary
  <2>1. DOMAIN [b("shut") EXCEPT !.agent = agent] = RequestFields
    BY <1>1
  <2> QED
    BY <1>4, <2>1, UseOrdinary DEF Shut
<1>5. ASSUME NEW t \in TierId, NEW patch \in Patches, Edit(j, r, t, patch) PROVE Ordinary
  <2>1. DOMAIN [b("edit") EXCEPT !.tier = t, !.patch = patch] = RequestFields
    BY <1>1
  <2> QED
    BY <1>5, <2>1, UseOrdinary DEF Edit
<1>6. ASSUME NEW t \in TierId, NEW spec \in Specs, Create(j, r, t, spec) PROVE Ordinary
  <2>1. DOMAIN [b("create") EXCEPT !.tier = t, !.terms = spec] = RequestFields
    BY <1>1
  <2> QED
    BY <1>6, <2>1, UseOrdinary DEF Create
<1> QED
  BY <1>2, <1>3, <1>4, <1>5, <1>6 DEF Arrives

LEMMA AskOrdinary ==
  ASSUME MembershipInv, NEW r \in Replica, Ask(r) \/ Agree(r)
  PROVE  Ordinary
<1>1. /\ DOMAIN Starts(r, "ask") = RequestFields
      /\ \A k : DOMAIN [Starts(r, "agree") EXCEPT !.base = k] = RequestFields
  BY StartsFields
<1>2. Query \in Job
  BY MembershipAssumption
<1>3. CASE Ask(r)
  BY <1>1, <1>2, <1>3, UseOrdinary DEF Ask
<1>4. CASE Agree(r)
  BY <1>1, <1>2, <1>4, UseOrdinary DEF Agree
<1> QED
  BY <1>3, <1>4

LEMMA CrashOrdinary ==
  ASSUME MembershipInv, NEW r \in Replica, Crash(r)
  PROVE  Ordinary
<1>1. RequestsMove
  BY IdleMoved DEF Crash, RequestsMove
<1> QED
  BY <1>1, QuietOrdinary DEF Crash, Quiet

(* The organization's own steps, and those that touch no request.           *)
LEMMA ElsewhereOrdinary ==
  ASSUME MembershipInv, job' = job, record' = record, OrganizationMoves
  PROVE  Ordinary
  BY DEF MembershipInv, Shaped, Ordinary, RequestsMove, RecordMoves

LEMMA OrganizationOrdinary ==
  ASSUME MembershipInv,
         \/ PublishCharter \/ RemoveMember \/ Removed \/ Answered
         \/ \E shares \in Shares : SetRole(shares)
         \/ \E facts \in Clearances : SetClearance(facts)
         \/ \E t \in TierId : DeleteTier(t)
         \/ \E r \in Replica : CopyAges(r) \/ ClearanceAges(r) \/ RetryDue(r)
         \/ UNCHANGED vars
  PROVE  Ordinary
<1>1. job' = job /\ record' = record
  BY DEF PublishCharter, RemoveMember, Removed, Answered, SetRole, SetClearance, DeleteTier,
         CopyAges, ClearanceAges, RetryDue, vars
<1>2. OrganizationMoves
  BY DEF PublishCharter, RemoveMember, Removed, Answered, SetRole, SetClearance, DeleteTier,
         CopyAges, ClearanceAges, RetryDue, vars, NoMember, OrganizationMoves, MembershipInv, Shaped
<1> QED
  BY <1>1, <1>2, ElsewhereOrdinary

LEMMA OrgBlockOrdinary ==
  ASSUME MembershipInv, NEW agent \in Agent, OrgBlock(agent)
  PROVE  Ordinary
<1>1. RecordMoves
  BY DEF OrgBlock, RequireOrgAdmin, RecordMoves, MembershipInv, Shaped
<1>2. RequestsMove
  BY DEF OrgBlock, RequestsMove, MembershipInv, Shaped
<1> QED
  BY <1>1, <1>2 DEF OrgBlock, Ordinary, OrganizationMoves

LEMMA StepIsOrdinary ==
  ASSUME MembershipInv, [Next]_vars
  PROVE  \/ Ordinary
         \/ \E j \in Job, r \in Replica : Join(j, r)
         \/ \E j \in Job : Joined(j)
         \/ \E agent \in Agent : OrgRestore(agent)
  BY OrganizationOrdinary, OrgBlockOrdinary, ProgressOrdinary, ReadingOrdinary, ArrivesOrdinary,
     AskOrdinary, CrashOrdinary
  DEF Next

-----------------------------------------------------------------------------
(* The other three: she joins, her authority learns of it, and an           *)
(* administrator lets an agent in again.                                    *)

LEMMA JoinKeeps ==
  ASSUME MembershipInv, NEW j \in Job, NEW r \in Replica, Join(j, r)
  PROVE  MembershipInv'
<1> DEFINE n == organization.joins + 1
           b == [Starts(r, "join") EXCEPT !.pc = "joined", !.client = organization'.member,
                                          !.envelope = Envelope']
<1>1. /\ record' = record /\ job' = [job EXCEPT ![j] = b]
      /\ organization' = [organization EXCEPT !.joins = @ + 1, !.member = organization.joins + 1,
                                              !.shares = DefaultShares]
  BY DEF Join, Goes
<1>2. organization'.joins = n /\ organization'.member = n /\ DOMAIN organization' = DOMAIN organization
  BY <1>1 DEF MembershipInv, Shaped
<1>3. DOMAIN b = RequestFields /\ b.client = n
  BY <1>2, StartsFields DEF RequestFields
<1> HIDE DEF b
<1>4. /\ Shaped' /\ job'[j].client = n /\ \A i \in Job \ {j} : job'[i] = job[i]
  BY <1>1, <1>2, <1>3 DEF MembershipInv, Shaped
<1>5. JoinsAreNew'
  BY <1>1, <1>2, <1>4 DEF MembershipInv, JoinsAreNew, Joining
<1> QED
  BY <1>1, <1>4, <1>5 DEF MembershipInv, RecordIsWhole, Enrolled

LEMMA JoinedKeeps ==
  ASSUME MembershipInv, NEW j \in Job, Joined(j)
  PROVE  MembershipInv'
<1> DEFINE b == job[j]
<1>1. DOMAIN b = RequestFields /\ b.pc = "joined" /\ organization' = organization
  BY DEF MembershipInv, Shaped, Joined
<1>2. CASE Stops(j) /\ UNCHANGED record
  BY <1>1, <1>2, StopsQuietly, OrdinaryKeeps DEF Quiet
<1>3. CASE /\ record' = [token |-> b.client, envelope |-> b.envelope, blocked |-> {}]
           /\ Goes(j, [b EXCEPT !.pc = "clamp"])
  <2>1. Moved([b EXCEPT !.pc = "clamp"])
    BY <1>1 DEF Moved, RequestFields
  <2>2. RequestsMove /\ job'[j].pc # "joined"
    BY <1>3, <2>1, GoesMoves DEF MembershipInv, Shaped, Goes, Moved
  <2>3. Shaped'
    BY <1>1, <1>3, <2>2 DEF MembershipInv, Shaped, RequestsMove, Moved
  <2>4. b.client \in 1..organization.joins /\ organization.joins \in Nat
    BY <1>1 DEF MembershipInv, JoinsAreNew, Joining
  <2>5. \A i \in Job : Joining(i)' => Joining(i) /\ job'[i] = job[i] /\ i # j
    BY <2>2 DEF RequestsMove, Moved, Joining
  <2>6. record'.token = b.client
    BY <1>3
  <2>7. JoinsAreNew'
    BY <1>1, <2>4, <2>5, <2>6 DEF MembershipInv, JoinsAreNew, Joining
  <2>8. RecordIsWhole'
    BY <2>4, <2>6 DEF RecordIsWhole, NoToken
  <2> QED
    BY <2>3, <2>7, <2>8 DEF MembershipInv
<1> QED
  BY <1>2, <1>3 DEF Joined

LEMMA RestoreKeeps ==
  ASSUME MembershipInv, NEW agent \in Agent, OrgRestore(agent)
  PROVE  MembershipInv'
<1>1. /\ Enrolled /\ UNCHANGED <<job, organization>>
      /\ record' = [record EXCEPT !.blocked = @ \ {agent}]
  BY DEF OrgRestore, RequireOrgAdmin
<1>2. record'.token = record.token /\ DOMAIN record' = DOMAIN record
  BY <1>1 DEF MembershipInv, Shaped
<1> QED
  BY <1>1, <1>2 DEF MembershipInv, Shaped, JoinsAreNew, Joining, RecordIsWhole

LEMMA NextKeeps ==
  ASSUME MembershipInv, [Next]_vars
  PROVE  MembershipInv'
  BY StepIsOrdinary, OrdinaryKeeps, JoinKeeps, JoinedKeeps, RestoreKeeps

LEMMA InitKeeps == Init => MembershipInv
<1> SUFFICES ASSUME Init PROVE MembershipInv
  OBVIOUS
<1>1. /\ record = NoRecord /\ job = [j \in Job |-> Idle]
      /\ organization = [charter |-> 1, member |-> NoToken, shares |-> {}, clearance |-> <<>>,
                         joins |-> 0, removing |-> FALSE]
  BY DEF Init
<1>2. Shaped
  BY <1>1, IdleFields DEF Shaped, NoRecord
<1>3. \A j \in Job : ~Joining(j)
  BY <1>1 DEF Joining, Idle
<1> QED
  BY <1>1, <1>2, <1>3 DEF MembershipInv, JoinsAreNew, RecordIsWhole, Enrolled, NoRecord, NoToken

(* A request's step never writes to the row in another's enrolment, so what *)
(* is stored is always a membership that can be used.                       *)
THEOREM MembershipHolds == Spec => []MembershipInv
  BY InitKeeps, NextKeeps, PTL DEF Spec

(* Whatever order its end, a refresh and an administrator's block come in,  *)
(* on however many replicas, no stored membership lacks its enrolment.      *)
THEOREM StoredMembershipIsWhole == Spec => []RecordIsWhole
<1>1. MembershipInv => RecordIsWhole
  BY DEF MembershipInv
<1> QED
  BY <1>1, MembershipHolds, PTL
-----------------------------------------------------------------------------
(* What a step may take out of the blocks, and how often a notice acts.     *)

BlocksKept ==
  \A agent \in record.blocked \ record'.blocked :
    record'.token # record.token \/ job' = job

LEMMA StepKeepsBlocks ==
  ASSUME MembershipInv, [Next]_vars
  PROVE  BlocksKept
<1>1. CASE Ordinary
  <2>1. record = NoRecord => record.blocked = {}
    BY DEF NoRecord
  <2>2. record # NoRecord => record.token # NoRecord.token
    BY DEF MembershipInv, RecordIsWhole, Enrolled, NoRecord
  <2> QED
    BY <1>1, <2>1, <2>2 DEF Ordinary, RecordMoves, BlocksKept
<1>2. ASSUME NEW j \in Job, NEW r \in Replica, Join(j, r) PROVE BlocksKept
  BY <1>2 DEF Join, BlocksKept
<1>3. ASSUME NEW j \in Job, Joined(j) PROVE BlocksKept
  <2>1. CASE UNCHANGED record
    BY <2>1 DEF BlocksKept
  <2>2. CASE record' = [token |-> job[j].client, envelope |-> job[j].envelope, blocked |-> {}]
    <3>1. job[j].client # record.token
      BY <1>3 DEF MembershipInv, JoinsAreNew, Joining, Joined
    <3> QED
      BY <2>2, <3>1 DEF BlocksKept
  <2> QED
    BY <1>3, <2>1, <2>2 DEF Joined
<1>4. ASSUME NEW agent \in Agent, OrgRestore(agent) PROVE BlocksKept
  BY <1>4 DEF OrgRestore, BlocksKept
<1> QED
  BY <1>1, <1>2, <1>3, <1>4, StepIsOrdinary

(* What an administrator has shut out stays shut out for as long as the     *)
(* membership, unless he lets it in again, which no request in flight does. *)
THEOREM BlocksAreKept == Spec => BlocksStand
<1>1. MembershipInv /\ [Next]_vars => [BlocksKept]_vars
  BY StepKeepsBlocks
<1>2. [BlocksKept]_vars <=>
        [\A agent \in record.blocked \ record'.blocked :
           record'.token # record.token \/ job' = job]_vars
  BY DEF BlocksKept
<1> QED
  BY <1>1, <1>2, MembershipHolds, PTL DEF Spec, BlocksStand

(* A notice that has been received has acted, and only that one.            *)
ActsWhenSpent ==
  /\ acted \in [Notice -> Nat]
  /\ \A n \in Notice : acted[n] = IF n \in spent THEN 1 ELSE 0

LEMMA StepActsOnce ==
  ASSUME ActsWhenSpent, [Next]_vars
  PROVE  ActsWhenSpent'
<1>1. CASE UNCHANGED <<acted, spent>>
  BY <1>1 DEF ActsWhenSpent
<1>2. ASSUME NEW j \in Job, NEW r \in Replica, NEW n \in mail, Receive(j, r, n)
      PROVE  ActsWhenSpent'
  <2>1. /\ n.id \notin spent /\ spent' = spent \cup {n.id}
        /\ acted' = [acted EXCEPT ![n.id] = @ + 1]
    BY <1>2 DEF Receive, Spend
  <2>2. CASE n.id \in Notice
    <3> DEFINE before == acted[n.id]
    <3>1. before = 0
      BY <2>1, <2>2 DEF ActsWhenSpent
    <3>2. acted' = [acted EXCEPT ![n.id] = before + 1]
      BY <2>1
    <3> HIDE DEF before
    <3>3. acted' = [acted EXCEPT ![n.id] = 1]
      BY <3>1, <3>2
    <3> QED
      BY <2>1, <2>2, <3>3 DEF ActsWhenSpent
  <2>3. CASE n.id \notin Notice
    <3>1. acted' = acted
      BY <2>1, <2>3 DEF ActsWhenSpent
    <3> QED
      BY <2>1, <2>3, <3>1 DEF ActsWhenSpent
  <2> QED
    BY <2>2, <2>3
<1>3. \/ UNCHANGED <<acted, spent>>
      \/ \E j \in Job, r \in Replica : \E n \in mail : Receive(j, r, n)
  <2>1. ASSUME NEW j \in Job, Progress(j) \/ FetchFails(j) PROVE UNCHANGED <<acted, spent>>
    <3>1. CASE StartAgain(j) \/ Refresh(j) \/ Fetched(j) \/ FetchFails(j) \/ Ended(j) \/ Clear(j)
                 \/ Reread(j) \/ Store(j)
      BY <3>1 DEF StartAgain, Refresh, Fetched, FetchFails, Ended, Clear, Reread, Store
    <3>2. CASE ReadTiers(j) \/ ClampTier(j) \/ Publish(j) \/ Clamped(j) \/ ReadTier(j) \/ Write(j)
                 \/ Serve(j) \/ Draft(j) \/ Insert(j) \/ Joined(j) \/ Leaving(j) \/ Block(j)
      BY <3>2 DEF ReadTiers, ClampTier, Publish, Clamped, ReadTier, Write, Serve, Draft, Insert,
                  Joined, Leaving, Block
    <3>3. CASE Policy(j) \/ ClearanceToken(j) \/ ClearanceUnmet(j) \/ ShutOut(j) \/ Verdict(j)
                 \/ Issue(j)
      BY <3>3 DEF Policy, ClearanceToken, ClearanceUnmet, ShutOut, Verdict, Issue
    <3> QED
      BY <2>1, <3>1, <3>2, <3>3 DEF Progress
  <2>2. ASSUME NEW j \in Job, NEW r \in Replica, Arrives(j, r)
        PROVE  UNCHANGED <<acted, spent>> \/ \E n \in mail : Receive(j, r, n)
    BY <2>2 DEF Arrives, Join, Leave, Shut, Edit, Create
  <2>3. ASSUME NEW r \in Replica,
               Ask(r) \/ Agree(r) \/ CopyAges(r) \/ ClearanceAges(r) \/ RetryDue(r) \/ Crash(r)
        PROVE  UNCHANGED <<acted, spent>>
    BY <2>3 DEF Ask, Agree, CopyAges, ClearanceAges, RetryDue, Crash
  <2>4. ASSUME \/ PublishCharter \/ RemoveMember \/ Removed \/ Answered \/ UNCHANGED vars
               \/ \E shares \in Shares : SetRole(shares)
               \/ \E facts \in Clearances : SetClearance(facts)
               \/ \E agent \in Agent : OrgBlock(agent) \/ OrgRestore(agent)
               \/ \E t \in TierId : DeleteTier(t)
        PROVE  UNCHANGED <<acted, spent>>
    BY <2>4 DEF PublishCharter, RemoveMember, Removed, Answered, SetRole, SetClearance, OrgBlock,
                OrgRestore, DeleteTier, vars
  <2> QED
    BY <2>1, <2>2, <2>3, <2>4 DEF Next
<1> QED
  BY <1>1, <1>2, <1>3

(* A notice is acted upon once, although it reaches several replicas or is  *)
(* posted again.                                                            *)
THEOREM NoticesActOnce == Spec => []NoticeActsOnce
<1>1. Init => ActsWhenSpent
  BY DEF Init, ActsWhenSpent
<1>2. ActsWhenSpent => NoticeActsOnce
  BY DEF ActsWhenSpent, NoticeActsOnce
<1> QED
  BY <1>1, <1>2, StepActsOnce, PTL DEF Spec
-----------------------------------------------------------------------------
(* Where an envelope is, it is of a version of the charter that there was.  *)
Chartered(e) == e.charter_version \in 1..Len(Charters)

CopyFields == {"envelope", "age", "failing", "attested"}

Copies ==
  /\ DOMAIN copy = Replica
  /\ \A r \in Replica :
       DOMAIN copy[r] = Token /\ \A k \in Token : DOMAIN copy[r][k] = CopyFields

Clients ==
  /\ Copies /\ DOMAIN cache = Replica
  /\ \A r \in Replica : cache[r] # NoToken =>
       cache[r] \in Token /\ Chartered(copy[r][cache[r]].envelope)
  /\ organization.charter \in 1..Len(Charters)
  /\ organization.joins \in 0..MaxJoins
  /\ record.token # NoToken => Chartered(record.envelope)

(* What is written and what is told are terms.                              *)
Termed ==
  /\ DOMAIN tiers = TierId
  /\ \A t \in TierId : tiers[t] # None => IsTerms(tiers[t])
  /\ offer # NoOffer => offer.tier \in TierId /\ IsTerms(offer.terms)
  /\ IsFiniteSet(docs) /\ \A d \in docs : d.version \in Nat

(* What a request has in hand, as what it came for ...                      *)
AgentKinds == {"ask", "agree", "verdict", "again"}

Carries(j, b) ==
  /\ DOMAIN b = RequestFields /\ b.at \in Replica
  /\ j = Query <=> b.kind \in AgentKinds
  /\ b.kind = "edit" => IsPatch(b.patch)
  /\ b.kind \in {"edit", "create", "verdict", "again"} => b.tier \in TierId
  /\ b.kind \in {"agree", "verdict", "again"} => b.base \in Nat
  /\ b.kind \in {"create", "verdict", "again"} => IsTerms(b.terms)

(* ... and for the call it is about to make.                                *)
Reading == {"refresh", "fetching", "fetched", "store", "clamp", "clamping", "publish"}

Works(work) ==
  /\ work \in Seq(Range(work))
  /\ \A i \in 1..Len(work) : work[i].tier \in TierId /\ IsPatch(work[i].patch)

Placed(b, copies) ==
  /\ b.pc \in Reading => b.client \in Token /\ Chartered(copies[b.at][b.client].envelope)
  /\ b.pc \in {"fetched", "store", "clamp", "joined"} => Chartered(b.envelope)
  /\ b.pc = "fetching" /\ b.known = 1 => Chartered(b.envelope)
  /\ b.pc \in {"edit", "draft"} /\ b.client # NoToken => Chartered(b.envelope)
  /\ b.pc \in {"clamping", "publish"} => Works(b.work)
  /\ b.pc \in {"publish", "serve"} => IsTerms(b.served.terms)
  /\ b.pc \in {"attest", "attested"} => b.tier \in TierId /\ IsTerms(b.terms)
  /\ b.pc \in {"edit", "write"} => b.kind = "edit"
  /\ b.pc \in {"draft", "insert"} => b.kind = "create"
  /\ b.pc \in {"policy", "attest", "attested"} => b.kind \in {"ask", "agree"}
  /\ b.pc \in {"shut", "verdict", "issue"} => b.kind \in {"verdict", "again"}

Fits(j, b, copies) == b = Idle \/ (Carries(j, b) /\ Placed(b, copies))

Fit == \A j \in Job : Fits(j, job[j], copy)

TermsInv == Clients /\ Termed /\ Fit

-----------------------------------------------------------------------------
(* No copy is of less than it was.                                          *)
CopiesStay ==
  \A r \in Replica, k \in Token :
    Chartered(copy[r][k].envelope) => Chartered(copy'[r][k].envelope)

LEMMA FitsStays ==
  ASSUME CopiesStay, NEW j, NEW b, Fits(j, b, copy)
  PROVE  Fits(j, b, copy')
<1>1. CASE b = Idle
  BY <1>1 DEF Fits
<1>2. CASE Carries(j, b) /\ Placed(b, copy)
  <2>1. b.at \in Replica
    BY <1>2 DEF Carries
  <2>2. b.client \in Token /\ Chartered(copy[b.at][b.client].envelope) =>
          Chartered(copy'[b.at][b.client].envelope)
    BY <2>1 DEF CopiesStay
  <2>3. Placed(b, copy')
    BY <1>2, <2>2 DEF Placed
  <2> QED
    BY <1>2, <2>3 DEF Fits
<1> QED
  BY <1>1, <1>2 DEF Fits

(* A step of one request leaves the others fit.                             *)
LEMMA GoesFits ==
  ASSUME Shaped, Fit, CopiesStay, NEW j \in Job, NEW to, Goes(j, to), Fits(j, to, copy')
  PROVE  Fit'
<1> SUFFICES ASSUME NEW i \in Job PROVE Fits(i, job'[i], copy')
  BY DEF Fit, Fits, Carries, Placed
<1>1. job'[i] = IF i = j THEN to ELSE job[i]
  BY DEF Shaped, Goes
<1>2. Fits(i, job[i], copy')
  BY FitsStays DEF Fit
<1> QED
  BY <1>1, <1>2

LEMMA StopsFits ==
  ASSUME Shaped, Fit, CopiesStay, NEW j \in Job, Stops(j)
  PROVE  Fit'
<1>1. Fits(j, Idle, copy')
  BY DEF Fits
<1> QED
  BY <1>1, GoesFits DEF Stops

LEMMA WithFits ==
  ASSUME NEW j, NEW b, Carries(j, b), NEW client, NEW envelope,
         client # NoToken => Chartered(envelope), NEW copies
  PROVE  Fits(j, With(b, client, envelope), copies)
<1> DEFINE c == [b EXCEPT !.client = client, !.envelope = envelope, !.work = <<>>, !.known = 0]
<1>1. /\ DOMAIN c = RequestFields /\ c.client = client /\ c.envelope = envelope
      /\ \A f \in {"kind", "at", "patch", "tier", "terms", "base"} : c[f] = b[f]
  BY DEF Carries, RequestFields
<1> HIDE DEF c
<1>2. ASSUME NEW l \in {"edit", "draft", "leaving", "block", "policy", "verdict"}
      PROVE  /\ Carries(j, [c EXCEPT !.pc = l])
             /\ [c EXCEPT !.pc = l].pc = l
             /\ \A f \in {"kind", "client", "envelope"} : [c EXCEPT !.pc = l][f] = c[f]
  BY <1>1 DEF Carries, RequestFields
<1>3. ASSUME NEW l \in {"edit", "draft", "leaving", "block", "policy", "verdict"},
             l = "edit" => b.kind = "edit", l = "draft" => b.kind = "create",
             l = "policy" => b.kind \in {"ask", "agree"},
             l = "verdict" => b.kind \in {"verdict", "again"}
      PROVE  Fits(j, [c EXCEPT !.pc = l], copies)
  <2> DEFINE d == [c EXCEPT !.pc = l]
  <2>1. /\ Carries(j, d) /\ d.pc = l /\ d.kind = b.kind
        /\ d.client # NoToken => Chartered(d.envelope)
    BY <1>1, <1>2
  <2> HIDE DEF d
  <2>2. Placed(d, copies)
    BY <1>3, <2>1 DEF Placed, Reading
  <2> QED
    BY <2>1, <2>2 DEF Fits, d
<1>4. Fits(j, Idle, copies)
  BY DEF Fits
<1>5. \/ With(b, client, envelope) = Idle
      \/ \E l \in {"edit", "draft", "leaving", "block", "policy", "verdict"} :
           /\ With(b, client, envelope) = [c EXCEPT !.pc = l]
           /\ l = "edit" => b.kind = "edit"
           /\ l = "draft" => b.kind = "create"
           /\ l = "policy" => b.kind \in {"ask", "agree"}
           /\ l = "verdict" => b.kind \in {"verdict", "again"}
  BY DEF With, c
<1> QED
  BY <1>3, <1>4, <1>5

(* A copy is written: the others are what they were.                        *)
LEMMA CopyWritten ==
  ASSUME Copies, NEW r \in Replica, NEW k, NEW c, copy' = [copy EXCEPT ![r][k] = c],
         k \in Token => /\ DOMAIN c = CopyFields
                        /\ Chartered(copy[r][k].envelope) => Chartered(c.envelope)
  PROVE  Copies' /\ CopiesStay /\ (k \in Token => copy'[r][k] = c)
<1>1. \A q \in Replica, l \in Token : copy'[q][l] = IF q = r /\ l = k THEN c ELSE copy[q][l]
  BY DEF Copies
<1>2. Copies'
  BY <1>1 DEF Copies
<1>3. CopiesStay
  BY <1>1 DEF CopiesStay
<1> QED
  BY <1>1, <1>2, <1>3

LEMMA ClientsStay ==
  ASSUME Clients, Copies', CopiesStay, DOMAIN cache' = Replica,
         \A r \in Replica : \/ cache'[r] \in {cache[r], NoToken}
                            \/ cache'[r] \in Token /\ Chartered(copy'[r][cache'[r]].envelope),
         organization'.charter \in 1..Len(Charters), organization'.joins \in 0..MaxJoins,
         record'.token # NoToken => Chartered(record'.envelope)
  PROVE  Clients'
<1>1. \A r \in Replica : cache'[r] # NoToken =>
        cache'[r] \in Token /\ Chartered(copy'[r][cache'[r]].envelope)
  BY DEF Clients, CopiesStay
<1> QED
  BY <1>1 DEF Clients

LEMMA NothingCopied ==
  ASSUME Copies, UNCHANGED copy
  PROVE  Copies' /\ CopiesStay
  BY DEF Copies, CopiesStay

(* A token of the record is one of those there are.                         *)
LEMMA StoredToken ==
  ASSUME MembershipInv, TermsInv
  PROVE  /\ record.token # NoToken => record.token \in Token
         /\ NoRecord.token = NoToken
<1>1. record.token \in 0..organization.joins /\ organization.joins \in 0..MaxJoins
  BY DEF MembershipInv, JoinsAreNew, TermsInv, Clients
<1>2. MaxJoins \in Nat
  BY MembershipAssumption
<1> QED
  BY <1>1, <1>2 DEF Token, NoToken, NoRecord

LEMMA UseClientFits ==
  ASSUME MembershipInv, TermsInv, NEW j \in Job, NEW b, Carries(j, b), UseClient(j, b),
         organization' = organization
  PROVE  Clients' /\ CopiesStay /\ Fit'
<1> USE DEF TermsInv
<1> DEFINE r == b.at
           client == cache[b.at]
<1>1. DOMAIN b = RequestFields /\ r \in Replica
  BY DEF Carries
<1>2. /\ Shaped /\ Copies
      /\ organization'.charter \in 1..Len(Charters) /\ organization'.joins \in 0..MaxJoins
  BY DEF MembershipInv, Clients
<1>3. client # NoToken => client \in Token /\ Chartered(copy[r][client].envelope)
  BY <1>1 DEF Clients
<1>4. ASSUME NEW k \in Token, NEW e, Chartered(e), NEW c,
             DOMAIN c = CopyFields, c.envelope = e,
             copy' = [copy EXCEPT ![r][k] = c]
      PROVE  Copies' /\ CopiesStay /\ Chartered(copy'[r][k].envelope)
  BY <1>1, <1>2, <1>4, CopyWritten
<1>5. ASSUME NEW k, NEW e, k # NoToken => Chartered(e), Goes(j, With(b, k, e)), CopiesStay
      PROVE  Fit'
  BY <1>2, <1>5, WithFits, GoesFits
<1>6. CASE NewClient(j, b)
  <2>1. CASE record' = NoRecord /\ Goes(j, With(b, NoToken, <<>>)) /\ UNCHANGED <<cache, copy>>
    <3>1. Copies' /\ CopiesStay
      BY <1>2, <2>1, NothingCopied
    <3>2. Clients'
      BY <1>2, <2>1, <3>1, ClientsStay, StoredToken DEF Clients
    <3> QED
      BY <1>5, <2>1, <3>1, <3>2
  <2>2. CASE /\ Enrolled /\ record.token # NoToken
             /\ cache' = [cache EXCEPT ![r] = record.token]
             /\ copy' = [copy EXCEPT ![r][record.token] =
                           [NoCopy EXCEPT !.envelope = record.envelope]]
             /\ Goes(j, With(b, record.token, record.envelope))
             /\ UNCHANGED record
    <3> DEFINE c == [NoCopy EXCEPT !.envelope = record.envelope]
    <3>1. record.token \in Token /\ Chartered(record.envelope)
      BY <2>2, StoredToken DEF Clients
    <3>2. DOMAIN c = CopyFields /\ c.envelope = record.envelope
      BY DEF NoCopy, CopyFields
    <3> HIDE DEF c
    <3>3. Copies' /\ CopiesStay /\ Chartered(copy'[r][record.token].envelope)
      BY <1>4, <2>2, <3>1, <3>2 DEF c
    <3>4. /\ DOMAIN cache' = Replica
          /\ \A q \in Replica : cache'[q] = IF q = r THEN record.token ELSE cache[q]
      BY <2>2 DEF Clients
    <3>5. Clients'
      BY <1>2, <2>2, <3>1, <3>3, <3>4, ClientsStay
    <3> QED
      BY <1>5, <2>2, <3>1, <3>3, <3>5
  <2> QED
    BY <1>6, <2>1, <2>2 DEF NewClient
<1>7. CASE FreshClient(j, b)
  <2>1. CASE /\ cache' = [cache EXCEPT ![r] = NoToken] /\ UNCHANGED <<copy, record>>
             /\ Goes(j, With(b, NoToken, <<>>)) \/ Goes(j, [b EXCEPT !.pc = "client"])
    <3>1. Copies' /\ CopiesStay
      BY <1>2, <2>1, NothingCopied
    <3>2. /\ DOMAIN cache' = Replica
          /\ \A q \in Replica : cache'[q] \in {cache[q], NoToken}
      BY <2>1 DEF Clients
    <3>3. Clients'
      BY <1>2, <2>1, <3>1, <3>2, ClientsStay DEF Clients
    <3>4. Fits(j, [b EXCEPT !.pc = "client"], copy')
      BY <1>1 DEF Fits, Carries, Placed, Reading, RequestFields
    <3> QED
      BY <1>2, <1>5, <2>1, <3>1, <3>3, <3>4, GoesFits
  <2>2. CASE /\ Enrolled /\ record.token = client
             /\ copy' = [copy EXCEPT ![r][client].envelope = record.envelope]
             /\ Goes(j, With(b, client, record.envelope))
             /\ UNCHANGED <<cache, record>>
    <3> DEFINE c == [copy[r][client] EXCEPT !.envelope = record.envelope]
    <3>1. client \in Token /\ Chartered(record.envelope)
      BY <1>3, <1>7, <2>2 DEF FreshClient, Clients
    <3>2. DOMAIN c = CopyFields /\ c.envelope = record.envelope
      BY <1>1, <1>2, <3>1 DEF Copies, CopyFields
    <3>3. copy' = [copy EXCEPT ![r][client] = c]
      BY <2>2
    <3> HIDE DEF c
    <3>4. Copies' /\ CopiesStay
      BY <1>4, <3>1, <3>2, <3>3
    <3>5. Clients'
      BY <1>2, <2>2, <3>1, <3>4, ClientsStay DEF Clients
    <3> QED
      BY <1>5, <2>2, <3>1, <3>4, <3>5
  <2> QED
    BY <1>7, <2>1, <2>2 DEF FreshClient
<1>8. CASE OldClient(j, b)
  <2>1. client # NoToken /\ UNCHANGED <<record, cache, copy>>
    BY <1>8 DEF OldClient
  <2>2. Copies' /\ CopiesStay
    BY <1>2, <2>1, NothingCopied
  <2>3. Clients'
    BY <1>2, <2>1, <2>2, ClientsStay DEF Clients
  <2>4. client \in Token /\ Chartered(copy[r][client].envelope)
    BY <1>3, <2>1
  <2>5. Fits(j, [b EXCEPT !.pc = "refresh", !.client = client], copy')
    <3> DEFINE d == [b EXCEPT !.pc = "refresh", !.client = client]
    <3>1. /\ DOMAIN d = RequestFields /\ d.pc = "refresh" /\ d.client = client
          /\ \A f \in {"kind", "at", "patch", "tier", "terms", "base"} : d[f] = b[f]
      BY <1>1 DEF RequestFields
    <3> HIDE DEF d
    <3>2. Carries(j, d) /\ Placed(d, copy')
      BY <2>1, <2>4, <3>1 DEF Carries, Placed, Reading
    <3> QED
      BY <3>2 DEF Fits, d
  <2> QED
    BY <1>2, <1>5, <1>8, <2>2, <2>3, <2>4, <2>5, GoesFits DEF OldClient
<1> QED
  BY <1>6, <1>7, <1>8 DEF UseClient
-----------------------------------------------------------------------------
(* What an edit and a clamp leave of terms.                                 *)

LEMMA ClampTerms ==
  ASSUME NEW tier, IsTerms(tier), NEW envelope, envelope.max_expires_in \in Nat
  PROVE  /\ IsTerms(Clamp(tier, envelope))
         /\ IsPatch(PatchFor(tier, envelope))
<1>1. IsTerms(Clamp(tier, envelope))
  BY DEF Clamp, IsTerms, TermFields
<1>2. IsPatch(PatchFor(tier, envelope))
  <2> DEFINE clamped == Clamp(tier, envelope)
             fields == {"ask_me", "expires_in", "scope", "prohibited"}
                         \cup (IF clamped.clearance = NoPatch THEN {} ELSE {"clearance"})
  <2>1. IsPatch(NoPatch)
    BY DEF IsPatch, NoPatch
  <2>2. "expires_in" \in fields /\ clamped.expires_in \in Int
    BY <1>1 DEF IsTerms
  <2>3. IsPatch([field \in fields |-> clamped[field]])
    <3> HIDE DEF clamped, fields
    <3> QED
      BY <2>2 DEF IsPatch
  <2>4. PatchFor(tier, envelope) = NoPatch \/ PatchFor(tier, envelope) = [field \in fields |-> clamped[field]]
    BY DEF PatchFor
  <2> QED
    BY <2>1, <2>3, <2>4
<1> QED
  BY <1>1, <1>2

LEMMA ApplyTerms ==
  ASSUME NEW tier, IsTerms(tier), NEW patch, IsPatch(patch)
  PROVE  /\ IsTerms(ApplyPatch(tier, patch))
         /\ ApplyPatch(tier, patch).version = tier.version + 1
  BY DEF ApplyPatch, IsTerms, IsPatch, TermFields, Editable

LEMMA MergedPatch ==
  ASSUME NEW patch, IsPatch(patch), NEW over, IsPatch(over)
  PROVE  IsPatch(Merged(patch, over))
  BY DEF Merged, IsPatch

LEMMA BoundsOfCharter ==
  ASSUME NEW e, Chartered(e), NEW x
  PROVE  Bounds(e, x).max_expires_in \in Nat
  BY MembershipAssumption DEF Chartered, Bounds

LEMMA FiniteImage ==
  ASSUME NEW S, IsFiniteSet(S), NEW f, f \in [S -> {f[x] : x \in S}]
  PROVE  IsFiniteSet({f[x] : x \in S})
<1>1. f \in Surjection(S, {f[x] : x \in S})
  BY DEF Surjection
<1> QED
  BY <1>1, FS_Surjection

(* The tiers that a charter narrows, one after the other.                   *)
LEMMA Enumerated ==
  ASSUME NEW S, IsFiniteSet(S)
  PROVE  SetToSeq(S) \in [1..Cardinality(S) -> S] /\ Cardinality(S) \in Nat
<1>1. Cardinality(S) \in Nat /\ ExistsBijection(1..Cardinality(S), S)
  BY FS_CardinalityType
<1>2. \E f \in [1..Cardinality(S) -> S] : IsInjective(f)
  BY <1>1 DEF ExistsBijection, Bijection, Injection, IsInjective
<1> QED
  BY <1>1, <1>2 DEF SetToSeq

LEMMA ClampingWorks ==
  ASSUME Termed, NEW e, Chartered(e), NEW x
  PROVE  Works(Clamping(Bounds(e, x)))
<1> DEFINE env == Bounds(e, x)
           governed == {u \in TierId : tiers[u] # None /\ Governs(tiers[u], env)}
           S == {[tier |-> t, patch |-> PatchFor(tiers[t], env)] : t \in governed}
<1>1. env.max_expires_in \in Nat
  BY BoundsOfCharter
<1> HIDE DEF env
<1>2. \A w \in S : w.tier \in TierId /\ IsPatch(w.patch)
  BY <1>1, ClampTerms DEF Termed
<1>3. IsFiniteSet(S)
  <2>1. IsFiniteSet(governed)
    BY MembershipAssumption, FS_Subset
  <2> DEFINE f == [t \in governed |-> [tier |-> t, patch |-> PatchFor(tiers[t], env)]]
  <2>2. S = {f[t] : t \in governed} /\ f \in [governed -> {f[t] : t \in governed}]
    OBVIOUS
  <2> HIDE DEF governed, S, f
  <2> QED
    BY <2>1, <2>2, FiniteImage
<1> HIDE DEF S
<1>4. SetToSeq(S) \in [1..Cardinality(S) -> S] /\ Cardinality(S) \in Nat
  BY <1>3, Enumerated
<1> DEFINE w == SetToSeq(S)
<1>5. w \in Seq(S) /\ Len(w) = Cardinality(S)
  BY <1>4
<1>6. w \in Seq(Range(w))
  <2>1. DOMAIN w = 1..Len(w) /\ \A i \in 1..Len(w) : w[i] \in Range(w)
    BY <1>4, <1>5 DEF Range
  <2> HIDE DEF w
  <2> QED
    BY <1>5, <2>1
<1>7. Works(w)
  <2> HIDE DEF w
  <2> QED
    BY <1>2, <1>5, <1>6 DEF Works
<1> QED
  BY <1>7 DEF Clamping, S, env

LEMMA WorkGoesOn ==
  ASSUME NEW w, Works(w), w # <<>>
  PROVE  /\ Head(w).tier \in TierId /\ IsPatch(Head(w).patch)
         /\ Works(Tail(w))
<1>1. w \in Seq(Range(w)) /\ Len(w) \in Nat /\ Len(w) > 0 /\ Head(w) = w[1]
  BY DEF Works
<1>2. /\ Tail(w) \in Seq(Range(w)) /\ Len(Tail(w)) = Len(w) - 1
      /\ \A i \in 1..Len(Tail(w)) : Tail(w)[i] = w[i + 1]
  BY <1>1
<1>3. Tail(w) \in Seq(Range(Tail(w)))
  <2> DEFINE v == Tail(w)
  <2>1. v \in Seq(Range(w)) /\ DOMAIN v = 1..Len(v)
    BY <1>2
  <2>2. \A i \in 1..Len(v) : v[i] \in Range(v)
    BY <2>1 DEF Range
  <2> HIDE DEF v
  <2>3. v \in Seq(Range(v))
    BY <2>1, <2>2
  <2> QED
    BY <2>3 DEF v
<1> QED
  BY <1>1, <1>2, <1>3 DEF Works

(* The next number of a tier's documents.                                   *)
LEMMA NextNumber ==
  ASSUME Termed, NEW t
  PROVE  LET last == {0} \cup {d.version : d \in {e \in docs : e.tier = t}} IN
         /\ Max(last) \in Nat
         /\ \A d \in docs : d.tier = t => d.version <= Max(last)
<1> DEFINE of == {e \in docs : e.tier = t}
           last == {0} \cup {d.version : d \in of}
           w == [n \in last |-> n]
<1>1. IsFiniteSet(of) /\ \A d \in of : d.version \in Nat
  BY FS_Subset DEF Termed
<1> HIDE DEF of
<1>2. IsFiniteSet({d.version : d \in of})
  <2> DEFINE f == [d \in of |-> d.version]
  <2>1. f \in [of -> {f[d] : d \in of}]
    OBVIOUS
  <2>2. IsFiniteSet({f[d] : d \in of})
    <3> HIDE DEF f
    <3> QED
      BY <1>1, <2>1, FiniteImage
  <2>3. {f[d] : d \in of} = {d.version : d \in of}
    OBVIOUS
  <2> QED
    BY <2>2, <2>3
<1>3. IsFiniteSet(last) /\ last \in SUBSET Nat /\ last # {}
  <2>1. IsFiniteSet({0})
    BY FS_Singleton
  <2>2. IsFiniteSet(last)
    BY <1>2, <2>1, FS_Union
  <2> QED
    BY <1>1, <2>2
<1> HIDE DEF last
<1>4. \E n \in last : \A m \in last : w[n] >= w[m]
  <2>1. w \in [last -> Nat]
    BY <1>3
  <2> HIDE DEF w
  <2> QED
    BY <1>3, <2>1, HeaviestOne
<1>5. Max(last) \in last /\ \A m \in last : Max(last) >= m
  <2>1. \E n \in last : \A m \in last : n >= m
    BY <1>4
  <2> QED
    BY <2>1 DEF Max
<1>6. \A d \in docs : d.tier = t => d.version \in last
  BY DEF last, of
<1> QED
  BY <1>3, <1>5, <1>6 DEF last, of
-----------------------------------------------------------------------------
(* What one request's step keeps, by what it leaves alone.                  *)

LEMMA AtWork ==
  ASSUME TermsInv, NEW j \in Job, job[j] # Idle
  PROVE  Carries(j, job[j]) /\ Placed(job[j], copy)
  BY DEF TermsInv, Fit, Fits

LEMMA NotIdle ==
  ASSUME NEW j \in Job, job[j].pc # "idle"
  PROVE  job[j] # Idle
  BY DEF Idle

LEMMA ClientsKept ==
  ASSUME Clients, UNCHANGED copy,
         cache' = cache \/ \E r : cache' = [cache EXCEPT ![r] = NoToken],
         organization'.charter \in 1..Len(Charters), organization'.joins \in 0..MaxJoins,
         record'.token # NoToken => Chartered(record'.envelope)
  PROVE  Clients' /\ CopiesStay
<1>1. Copies' /\ CopiesStay
  BY NothingCopied DEF Clients
<1>2. DOMAIN cache' = Replica /\ \A q \in Replica : cache'[q] \in {cache[q], NoToken}
  BY DEF Clients
<1> QED
  BY <1>1, <1>2, ClientsStay

LEMMA ClientsUntouched ==
  ASSUME Clients, UNCHANGED <<organization, record, copy>>,
         cache' = cache \/ \E r : cache' = [cache EXCEPT ![r] = NoToken]
  PROVE  Clients' /\ CopiesStay
  BY ClientsKept DEF Clients

LEMMA TermsUntouched ==
  ASSUME Termed, UNCHANGED <<tiers, docs, offer>>
  PROVE  Termed'
  BY DEF Termed

LEMMA GoesKeeps ==
  ASSUME MembershipInv, TermsInv, NEW j \in Job, NEW to, Goes(j, to),
         Clients', CopiesStay, Termed', Fits(j, to, copy')
  PROVE  TermsInv'
  BY GoesFits DEF MembershipInv, TermsInv

LEMMA StopsKeeps ==
  ASSUME MembershipInv, TermsInv, NEW j \in Job, Stops(j), Clients', CopiesStay, Termed'
  PROVE  TermsInv'
  BY StopsFits DEF MembershipInv, TermsInv

LEMMA GivenKeeps ==
  ASSUME MembershipInv, TermsInv, NEW j \in Job, job[j] # Idle,
         GivenNone(j) \/ (Given(j) /\ Chartered(CopyOf(j).envelope)),
         Clients', CopiesStay, Termed'
  PROVE  TermsInv'
  BY AtWork, WithFits, GoesKeeps DEF Given, GivenNone

(* A request that goes on with what it came for.                            *)
Same(b, d) ==
  DOMAIN d = RequestFields /\ \A f \in {"kind", "at", "patch", "tier", "terms", "base"} : d[f] = b[f]

LEMMA SameCarries ==
  ASSUME NEW j, NEW b, Carries(j, b), NEW d, Same(b, d)
  PROVE  Carries(j, d)
  BY DEF Same, Carries

LEMMA StartAgainKeeps ==
  ASSUME MembershipInv, TermsInv, NEW j \in Job, StartAgain(j)
  PROVE  TermsInv'
<1>1. Carries(j, job[j])
  BY NotIdle, AtWork DEF StartAgain
<1>2. Clients' /\ CopiesStay /\ Fit'
  BY <1>1, UseClientFits DEF StartAgain
<1>3. Termed'
  BY TermsUntouched DEF StartAgain, TermsInv
<1> QED
  BY <1>2, <1>3 DEF TermsInv

LEMMA FetchingKeeps ==
  ASSUME MembershipInv, TermsInv, NEW j \in Job, Refresh(j) \/ Fetched(j) \/ FetchFails(j)
  PROVE  TermsInv'
<1> DEFINE b == job[j]
           r == b.at
           k == b.client
<1>1. b # Idle /\ b.pc \in {"refresh", "fetching"}
  BY NotIdle DEF Refresh, Fetched, FetchFails
<1>2. Carries(j, b) /\ Placed(b, copy) /\ DOMAIN b = RequestFields /\ r \in Replica
  BY <1>1, AtWork DEF Carries
<1>3. k \in Token /\ Chartered(copy[r][k].envelope)
  BY <1>1, <1>2 DEF Placed, Reading
<1>4. Clients /\ Copies /\ DOMAIN copy[r][k] = CopyFields
  BY <1>2, <1>3 DEF TermsInv, Clients, Copies
<1>5. Termed'
  BY TermsUntouched DEF Refresh, Fetched, FetchFails, TermsInv
<1>6. CASE Refresh(j)
  <2> DEFINE m == IF organization.member = k THEN 1 ELSE 0
             e == IF organization.member = k THEN Envelope ELSE <<>>
             d == [b EXCEPT !.pc = "fetching", !.known = m, !.envelope = e]
  <2>1. Clients' /\ CopiesStay
    BY <1>4, <1>6, ClientsUntouched DEF Refresh
  <2>2. CASE Given(j)
    BY <1>1, <1>3, <1>5, <2>1, <2>2, GivenKeeps DEF CopyOf
  <2>3. CASE Goes(j, d)
    <3>1. Same(b, d) /\ d.pc = "fetching" /\ d.client = k /\ d.known = m /\ d.envelope = e
      BY <1>2 DEF Same, RequestFields
    <3>2. m = 1 => Chartered(e)
      BY <1>4 DEF Clients, Chartered, Envelope
    <3>3. copy' = copy
      BY <1>6 DEF Refresh
    <3> HIDE DEF d, m, e
    <3>4. Placed(d, copy')
      BY <1>3, <3>1, <3>2, <3>3 DEF Placed, Reading, Same
    <3> QED
      BY <1>2, <1>5, <2>1, <2>3, <3>1, <3>4, SameCarries, GoesKeeps DEF Fits
  <2> QED
    BY <1>6, <2>2, <2>3 DEF Refresh
<1>7. CASE Fetched(j)
  <2>1. CASE b.known = 0 /\ Goes(j, [b EXCEPT !.pc = "ended"]) /\ UNCHANGED copy
    <3> DEFINE d == [b EXCEPT !.pc = "ended"]
    <3>1. Same(b, d) /\ d.pc = "ended"
      BY <1>2 DEF Same, RequestFields
    <3> HIDE DEF d
    <3>2. Placed(d, copy')
      BY <3>1 DEF Placed, Reading
    <3>3. Clients' /\ CopiesStay
      BY <1>4, <1>7, <2>1, ClientsUntouched DEF Fetched
    <3> QED
      BY <1>2, <1>5, <2>1, <3>1, <3>2, <3>3, SameCarries, GoesKeeps DEF Fits, d
  <2>2. CASE /\ b.known = 1 /\ Goes(j, [b EXCEPT !.pc = "fetched"])
             /\ copy' = [copy EXCEPT ![r][k] =
                           [@ EXCEPT !.envelope = b.envelope, !.age = "fresh", !.failing = FALSE]]
    <3> DEFINE c == [copy[r][k] EXCEPT !.envelope = b.envelope, !.age = "fresh", !.failing = FALSE]
               d == [b EXCEPT !.pc = "fetched"]
    <3>1. Chartered(b.envelope)
      BY <1>2, <1>7, <2>2 DEF Placed, Fetched
    <3>2. DOMAIN c = CopyFields /\ c.envelope = b.envelope /\ copy' = [copy EXCEPT ![r][k] = c]
      BY <1>4, <2>2 DEF CopyFields
    <3> HIDE DEF c
    <3>3. Copies' /\ CopiesStay /\ copy'[r][k] = c
      BY <1>2, <1>3, <1>4, <3>1, <3>2, CopyWritten
    <3>4. Clients'
      BY <1>4, <1>7, <3>3, ClientsStay DEF Fetched, Clients
    <3>5. Same(b, d) /\ d.pc = "fetched" /\ d.client = k /\ d.envelope = b.envelope
      BY <1>2 DEF Same, RequestFields
    <3> HIDE DEF d
    <3>6. Placed(d, copy')
      BY <1>3, <3>1, <3>2, <3>3, <3>5 DEF Placed, Reading, Same
    <3> QED
      BY <1>2, <1>5, <2>2, <3>3, <3>4, <3>5, <3>6, SameCarries, GoesKeeps DEF Fits, d
  <2> QED
    BY <1>7, <2>1, <2>2 DEF Fetched
<1>8. CASE FetchFails(j)
  <2> DEFINE c == [copy[r][k] EXCEPT !.failing = TRUE]
  <2>1. DOMAIN c = CopyFields /\ c.envelope = copy[r][k].envelope /\ copy' = [copy EXCEPT ![r][k] = c]
    BY <1>4, <1>8 DEF FetchFails, CopyFields
  <2> HIDE DEF c
  <2>2. Copies' /\ CopiesStay
    BY <1>2, <1>3, <1>4, <2>1, CopyWritten
  <2>3. Clients'
    BY <1>4, <1>8, <2>2, ClientsStay DEF FetchFails, Clients
  <2>4. Goes(j, With(b, k, copy[r][k].envelope))
    BY <1>8 DEF FetchFails, CopyOf
  <2>5. Fits(j, With(b, k, copy[r][k].envelope), copy')
    BY <1>2, <1>3, WithFits
  <2> QED
    BY <1>5, <2>2, <2>3, <2>4, <2>5, GoesKeeps
<1> QED
  BY <1>6, <1>7, <1>8

LEMMA EndingKeeps ==
  ASSUME MembershipInv, TermsInv, NEW j \in Job, Ended(j) \/ Clear(j)
  PROVE  TermsInv'
<1> DEFINE b == job[j]
<1>1. b # Idle
  BY NotIdle DEF Ended, Clear
<1>2. Carries(j, b) /\ DOMAIN b = RequestFields
  BY <1>1, AtWork DEF Carries
<1>3. Termed'
  BY TermsUntouched DEF Ended, Clear, TermsInv
<1>4. CASE Ended(j)
  <2>1. Clients' /\ CopiesStay
    BY <1>4, ClientsUntouched DEF Ended, Forgets, TermsInv
  <2>2. ASSUME NEW l \in {"client", "clear"} PROVE Fits(j, [b EXCEPT !.pc = l], copy')
    <3> DEFINE d == [b EXCEPT !.pc = l]
    <3>1. Same(b, d) /\ d.pc = l
      BY <1>2 DEF Same, RequestFields
    <3> HIDE DEF d
    <3>2. Placed(d, copy')
      BY <3>1 DEF Placed, Reading
    <3> QED
      BY <1>2, <3>1, <3>2, SameCarries DEF Fits, d
  <2> QED
    BY <1>3, <1>4, <2>1, <2>2, GoesKeeps DEF Ended
<1>5. CASE Clear(j)
  <2>1. Clients' /\ CopiesStay
    BY <1>5, ClientsKept, StoredToken DEF Clear, Forgets, TermsInv, Clients
  <2> QED
    BY <1>1, <1>3, <1>5, <2>1, GivenKeeps DEF Clear
<1> QED
  BY <1>4, <1>5

LEMMA StoringKeeps ==
  ASSUME MembershipInv, TermsInv, NEW j \in Job, Reread(j) \/ Store(j)
  PROVE  TermsInv'
<1> DEFINE b == job[j]
<1>1. b # Idle /\ b.pc \in {"fetched", "store"} /\ copy' = copy
  BY NotIdle DEF Reread, Store
<1>2. Carries(j, b) /\ Placed(b, copy) /\ DOMAIN b = RequestFields
  BY <1>1, AtWork DEF Carries
<1>3. b.client \in Token /\ Chartered(copy[b.at][b.client].envelope) /\ Chartered(b.envelope)
  BY <1>1, <1>2 DEF Placed, Reading
<1>4. Termed'
  BY TermsUntouched DEF Reread, Store, TermsInv
<1>5. ASSUME NEW l \in {"store", "clamp"}, NEW n
      PROVE  /\ Fits(j, [b EXCEPT !.pc = l, !.known = n], copy')
             /\ Fits(j, [b EXCEPT !.pc = l], copy')
  <2>1. ASSUME NEW d, d \in {[b EXCEPT !.pc = l, !.known = n], [b EXCEPT !.pc = l]}
        PROVE  Fits(j, d, copy')
    <3>1. Same(b, d) /\ d.pc = l /\ d.client = b.client /\ d.envelope = b.envelope
      BY <1>2, <2>1 DEF Same, RequestFields
    <3>2. Placed(d, copy')
      BY <1>1, <1>3, <3>1 DEF Placed, Reading, Same
    <3> QED
      BY <1>2, <3>1, <3>2, SameCarries DEF Fits
  <2> QED
    BY <2>1
<1>6. CASE Reread(j)
  <2>1. Clients' /\ CopiesStay
    BY <1>6, ClientsUntouched DEF Reread, Forgets, TermsInv
  <2> QED
    BY <1>1, <1>4, <1>5, <1>6, <2>1, GivenKeeps, GoesKeeps DEF Reread
<1>7. CASE Store(j)
  <2>1. record'.token # NoToken => Chartered(record'.envelope)
    BY <1>3, <1>7, StoredToken DEF Store, UpdateOrganization, MembershipInv, Shaped
  <2>2. Clients' /\ CopiesStay
    BY <1>7, <2>1, ClientsKept DEF Store, Forgets, TermsInv, Clients
  <2>3. CASE ~Enrolled
    BY <1>1, <1>4, <1>7, <2>2, <2>3, GivenKeeps DEF Store
  <2>4. CASE Enrolled
    BY <1>1, <1>3, <1>4, <1>5, <1>7, <2>2, <2>4, GivenKeeps, GoesKeeps DEF Store, CopyOf
  <2> QED
    BY <2>3, <2>4
<1> QED
  BY <1>6, <1>7
-----------------------------------------------------------------------------
(* Her edits, and the organization's narrowing of what she has.             *)

LEMMA TierEdited ==
  ASSUME Termed, NEW t \in TierId, NEW patch, IsPatch(patch), tiers[t] # None,
         tiers' = UpdateTier(t, patch), UNCHANGED <<docs, offer>>
  PROVE  Termed' /\ IsTerms(tiers'[t])
<1> DEFINE edited == ApplyPatch(tiers[t], patch)
<1>1. IsTerms(edited)
  BY ApplyTerms DEF Termed
<1>2. tiers' = [tiers EXCEPT ![t] = edited]
  BY DEF UpdateTier
<1> HIDE DEF edited
<1> QED
  BY <1>1, <1>2 DEF Termed

LEMMA DocumentPublished ==
  ASSUME Termed, NEW t, NEW terms, IsTerms(terms), docs' = Published(t, terms)
  PROVE  IsFiniteSet(docs') /\ \A d \in docs' : d.version \in Nat
<1>1. IsFiniteSet(docs')
  BY FS_AddElement DEF Termed, Published
<1> QED
  BY <1>1 DEF Termed, Published, IsTerms

LEMMA ServingIs ==
  ASSUME NEW b, DOMAIN b = RequestFields, NEW t
  PROVE  /\ Same(b, Serving(b, t)) /\ Serving(b, t).served.terms = tiers'[t]
         /\ \A f \in {"pc", "client", "envelope", "work"} : Serving(b, t)[f] = b[f]
  BY DEF Serving, Same, RequestFields

LEMMA ClampingKeeps ==
  ASSUME MembershipInv, TermsInv, NEW j \in Job,
         ReadTiers(j) \/ ClampTier(j) \/ Publish(j) \/ Clamped(j)
  PROVE  TermsInv'
<1> DEFINE b == job[j]
<1>1. b # Idle /\ b.pc \in {"clamp", "clamping", "publish"} /\ copy' = copy
  BY NotIdle DEF ReadTiers, ClampTier, Publish, Clamped
<1>2. Carries(j, b) /\ Placed(b, copy) /\ DOMAIN b = RequestFields
  BY <1>1, AtWork DEF Carries
<1>3. b.client \in Token /\ Chartered(copy[b.at][b.client].envelope)
  BY <1>1, <1>2 DEF Placed, Reading
<1>4. Clients' /\ CopiesStay
  BY ClientsUntouched DEF ReadTiers, ClampTier, Publish, Clamped, TermsInv
<1>5. ASSUME NEW d, Same(b, d), d.client = b.client,
             d.pc \in {"clamping", "publish"}, Works(d.work),
             d.pc = "publish" => IsTerms(d.served.terms)
      PROVE  Fits(j, d, copy')
  <2>1. Placed(d, copy')
    BY <1>1, <1>3, <1>5 DEF Placed, Reading, Same
  <2> QED
    BY <1>2, <1>5, <2>1, SameCarries DEF Fits
<1>6. CASE ReadTiers(j)
  <2> DEFINE w == Clamping(Bounds(b.envelope, {}))
             d == [b EXCEPT !.pc = "clamping", !.work = w]
  <2>1. Works(w)
    BY <1>2, <1>6, ClampingWorks DEF ReadTiers, Placed, TermsInv
  <2>2. Same(b, d) /\ d.pc = "clamping" /\ d.work = w /\ d.client = b.client
    BY <1>2 DEF Same, RequestFields
  <2>3. Goes(j, d)
    BY <1>6 DEF ReadTiers
  <2>4. Termed'
    BY <1>6, TermsUntouched DEF ReadTiers, TermsInv
  <2> HIDE DEF w, d
  <2> QED
    BY <1>4, <1>5, <2>1, <2>2, <2>3, <2>4, GoesKeeps
<1>7. CASE ClampTier(j)
  <2> DEFINE t == Head(b.work).tier
             patch == Head(b.work).patch
             c == [b EXCEPT !.pc = "publish", !.work = Tail(@)]
  <2>1. Works(b.work) /\ b.work # <<>>
    BY <1>2, <1>7 DEF ClampTier, Placed
  <2>2. t \in TierId /\ IsPatch(patch) /\ Works(Tail(b.work))
    BY <2>1, WorkGoesOn
  <2>3. CASE tiers[t] = None
    <3>1. Termed' /\ Stops(j)
      BY <1>7, <2>3, TermsUntouched DEF ClampTier, TermsInv
    <3> QED
      BY <1>4, <3>1, StopsKeeps
  <2>4. CASE tiers[t] # None
    <3>1. tiers' = UpdateTier(t, patch) /\ Goes(j, Serving(c, t)) /\ UNCHANGED <<docs, offer>>
      BY <1>7, <2>4 DEF ClampTier
    <3>2. Termed' /\ IsTerms(tiers'[t])
      BY <2>2, <2>4, <3>1, TierEdited DEF TermsInv
    <3>3. /\ DOMAIN c = RequestFields /\ Same(b, c)
          /\ c.pc = "publish" /\ c.work = Tail(b.work) /\ c.client = b.client
      BY <1>2 DEF Same, RequestFields
    <3> HIDE DEF c, t, patch
    <3>4. /\ Same(b, Serving(c, t)) /\ Serving(c, t).served.terms = tiers'[t]
          /\ Serving(c, t).pc = "publish" /\ Serving(c, t).work = Tail(b.work)
          /\ Serving(c, t).client = b.client
      BY <3>3, ServingIs DEF Same
    <3>5. Fits(j, Serving(c, t), copy')
      BY <1>5, <2>2, <3>2, <3>4
    <3> QED
      BY <1>4, <3>1, <3>2, <3>5, GoesKeeps
  <2> QED
    BY <2>3, <2>4
<1>8. CASE Publish(j)
  <2> DEFINE d == [b EXCEPT !.pc = "clamping", !.served = NoOffer]
  <2>1. Works(b.work) /\ IsTerms(b.served.terms)
    BY <1>2, <1>8 DEF Publish, Placed
  <2>2. Termed'
    BY <1>8, <2>1, DocumentPublished DEF Publish, TermsInv, Termed
  <2>3. Same(b, d) /\ d.pc = "clamping" /\ d.work = b.work /\ d.client = b.client
    BY <1>2 DEF Same, RequestFields
  <2>4. Goes(j, d)
    BY <1>8 DEF Publish
  <2> HIDE DEF d
  <2> QED
    BY <1>4, <1>5, <2>1, <2>2, <2>3, <2>4, GoesKeeps
<1>9. CASE Clamped(j)
  <2>1. Termed'
    BY <1>9, TermsUntouched DEF Clamped, TermsInv
  <2> QED
    BY <1>1, <1>3, <1>4, <1>9, <2>1, GivenKeeps DEF Clamped, CopyOf
<1> QED
  BY <1>6, <1>7, <1>8, <1>9

LEMMA ReadTierKeeps ==
  ASSUME MembershipInv, TermsInv, NEW j \in Job, ReadTier(j)
  PROVE  TermsInv'
<1> DEFINE b == job[j]
           over == PatchFor(ApplyPatch(tiers[b.tier], b.patch), OrgEnvelope(b.envelope))
           c == [b EXCEPT !.pc = "write"]
           d == [b EXCEPT !.pc = "write", !.patch = Merged(b.patch, over)]
<1>1. Carries(j, b) /\ Placed(b, copy) /\ DOMAIN b = RequestFields
  BY NotIdle, AtWork DEF Carries, ReadTier
<1>2. b.kind = "edit" /\ IsPatch(b.patch) /\ b.tier \in TierId
  BY <1>1 DEF ReadTier, Placed, Carries
<1>3. Clients' /\ CopiesStay /\ Termed'
  BY ClientsUntouched, TermsUntouched DEF ReadTier, TermsInv
<1>4. Fits(j, c, copy')
  <2>1. Same(b, c) /\ c.pc = "write"
    BY <1>1 DEF Same, RequestFields
  <2> HIDE DEF c
  <2>2. Placed(c, copy')
    BY <1>2, <2>1 DEF Placed, Reading, Same
  <2> QED
    BY <1>1, <2>1, <2>2, SameCarries DEF Fits
<1>5. ASSUME b.client # NoToken, tiers[b.tier] # None PROVE Fits(j, d, copy')
  <2>1. Chartered(b.envelope)
    BY <1>1, <1>5 DEF Placed, ReadTier
  <2>2. OrgEnvelope(b.envelope).max_expires_in \in Nat
    BY <2>1, BoundsOfCharter DEF OrgEnvelope
  <2>3. IsTerms(ApplyPatch(tiers[b.tier], b.patch))
    BY <1>2, <1>5, ApplyTerms DEF TermsInv, Termed
  <2>4. IsPatch(over)
    BY <2>2, <2>3, ClampTerms
  <2> HIDE DEF over
  <2>5. IsPatch(Merged(b.patch, over))
    BY <1>2, <2>4, MergedPatch
  <2>6. /\ DOMAIN d = RequestFields /\ d.pc = "write" /\ d.patch = Merged(b.patch, over)
        /\ \A f \in {"kind", "at", "tier", "terms", "base"} : d[f] = b[f]
    BY <1>1 DEF RequestFields
  <2> HIDE DEF d
  <2>7. Carries(j, d) /\ Placed(d, copy')
    BY <1>1, <1>2, <2>5, <2>6 DEF Carries, Placed, Reading
  <2> QED
    BY <2>7 DEF Fits
<1>6. \/ Goes(j, c) \/ Stops(j)
      \/ b.client # NoToken /\ tiers[b.tier] # None /\ Goes(j, d)
  BY DEF ReadTier
<1> HIDE DEF c, d
<1> QED
  BY <1>3, <1>4, <1>5, <1>6, GoesKeeps, StopsKeeps

LEMMA WriteKeeps ==
  ASSUME MembershipInv, TermsInv, NEW j \in Job, Write(j)
  PROVE  TermsInv'
<1> DEFINE b == job[j]
           c == [b EXCEPT !.pc = "serve"]
<1>1. Carries(j, b) /\ Placed(b, copy) /\ DOMAIN b = RequestFields
  BY NotIdle, AtWork DEF Carries, Write
<1>2. b.kind = "edit" /\ IsPatch(b.patch) /\ b.tier \in TierId
  BY <1>1 DEF Write, Placed, Carries
<1>3. Clients' /\ CopiesStay
  BY ClientsUntouched DEF Write, TermsInv
<1>4. CASE tiers[b.tier] = None
  BY <1>3, <1>4, StopsKeeps, TermsUntouched DEF Write, TermsInv
<1>5. CASE tiers[b.tier] # None
  <2>1. /\ tiers' = UpdateTier(b.tier, b.patch) /\ Goes(j, Serving(c, b.tier))
        /\ UNCHANGED <<docs, offer>>
    BY <1>5 DEF Write
  <2>2. Termed' /\ IsTerms(tiers'[b.tier])
    BY <1>2, <1>5, <2>1, TierEdited DEF TermsInv
  <2>3. DOMAIN c = RequestFields /\ Same(b, c) /\ c.pc = "serve"
    BY <1>1 DEF Same, RequestFields
  <2> HIDE DEF c
  <2>4. /\ Same(b, Serving(c, b.tier)) /\ Serving(c, b.tier).pc = "serve"
        /\ IsTerms(Serving(c, b.tier).served.terms)
    BY <2>2, <2>3, ServingIs DEF Same
  <2>5. Placed(Serving(c, b.tier), copy')
    BY <2>4 DEF Placed, Reading
  <2> QED
    BY <1>1, <1>3, <2>1, <2>2, <2>4, <2>5, SameCarries, GoesKeeps DEF Fits
<1> QED
  BY <1>4, <1>5

LEMMA ServeKeeps ==
  ASSUME MembershipInv, TermsInv, NEW j \in Job, Serve(j)
  PROVE  TermsInv'
<1>1. Placed(job[j], copy)
  BY NotIdle, AtWork DEF Serve
<1>2. IsTerms(job[j].served.terms)
  BY <1>1 DEF Placed, Serve
<1>3. Clients' /\ CopiesStay /\ Termed'
  BY <1>2, ClientsUntouched, DocumentPublished DEF Serve, TermsInv, Termed
<1> QED
  BY <1>3, StopsKeeps DEF Serve

LEMMA DraftKeeps ==
  ASSUME MembershipInv, TermsInv, NEW j \in Job, Draft(j)
  PROVE  TermsInv'
<1> DEFINE b == job[j]
           last == {0} \cup {d.version : d \in {e \in docs : e.tier = b.tier}}
           n == Max(last) + 1
           narrowed == IF b.client = NoToken THEN b.terms ELSE Clamp(b.terms, OrgEnvelope(b.envelope))
           terms == [narrowed EXCEPT !.version = n]
           d == [b EXCEPT !.pc = "insert", !.terms = terms]
<1>1. Carries(j, b) /\ Placed(b, copy) /\ DOMAIN b = RequestFields
  BY NotIdle, AtWork DEF Carries, Draft
<1>2. b.kind = "create" /\ IsTerms(b.terms)
  BY <1>1 DEF Draft, Placed, Carries
<1>3. Clients' /\ CopiesStay /\ Termed'
  BY ClientsUntouched, TermsUntouched DEF Draft, TermsInv
<1>4. n \in Nat
  <2>1. Max(last) \in Nat
    BY NextNumber DEF TermsInv
  <2> HIDE DEF last
  <2> QED
    BY <2>1
<1>5. IsTerms(narrowed)
  <2>1. CASE b.client = NoToken
    BY <1>2, <2>1
  <2>2. CASE b.client # NoToken
    <3>1. OrgEnvelope(b.envelope).max_expires_in \in Nat
      BY <1>1, <2>2, BoundsOfCharter DEF OrgEnvelope, Placed, Draft
    <3> QED
      BY <1>2, <2>2, <3>1, ClampTerms
  <2> QED
    BY <2>1, <2>2
<1>6. Stops(j) \/ Goes(j, d)
  BY DEF Draft
<1> HIDE DEF n, narrowed
<1>7. IsTerms(terms)
  BY <1>4, <1>5 DEF IsTerms, TermFields
<1> HIDE DEF terms
<1>8. /\ DOMAIN d = RequestFields /\ d.pc = "insert" /\ d.terms = terms
      /\ \A f \in {"kind", "at", "patch", "tier", "base"} : d[f] = b[f]
  BY <1>1 DEF RequestFields
<1> HIDE DEF d
<1>9. Carries(j, d) /\ Placed(d, copy')
  BY <1>1, <1>2, <1>7, <1>8 DEF Carries, Placed, Reading, AgentKinds
<1> QED
  BY <1>3, <1>6, <1>9, GoesKeeps, StopsKeeps DEF Fits

LEMMA InsertKeeps ==
  ASSUME MembershipInv, TermsInv, NEW j \in Job, Insert(j)
  PROVE  TermsInv'
<1> DEFINE b == job[j]
           c == [b EXCEPT !.pc = "serve"]
<1>1. Carries(j, b) /\ Placed(b, copy) /\ DOMAIN b = RequestFields
  BY NotIdle, AtWork DEF Carries, Insert
<1>2. b.tier \in TierId /\ IsTerms(b.terms)
  BY <1>1 DEF Insert, Placed, Carries
<1>3. Clients' /\ CopiesStay
  BY ClientsUntouched DEF Insert, TermsInv
<1>4. CASE tiers[b.tier] # None
  BY <1>3, <1>4, StopsKeeps, TermsUntouched DEF Insert, TermsInv
<1>5. CASE tiers[b.tier] = None
  <2>1. /\ tiers' = [tiers EXCEPT ![b.tier] = b.terms] /\ Goes(j, Serving(c, b.tier))
        /\ UNCHANGED <<docs, offer>>
    BY <1>5 DEF Insert
  <2>2. Termed' /\ IsTerms(tiers'[b.tier])
    BY <1>2, <2>1 DEF TermsInv, Termed
  <2>3. DOMAIN c = RequestFields /\ Same(b, c) /\ c.pc = "serve"
    BY <1>1 DEF Same, RequestFields
  <2> HIDE DEF c
  <2>4. /\ Same(b, Serving(c, b.tier)) /\ Serving(c, b.tier).pc = "serve"
        /\ IsTerms(Serving(c, b.tier).served.terms)
    BY <2>2, <2>3, ServingIs DEF Same
  <2>5. Placed(Serving(c, b.tier), copy')
    BY <2>4 DEF Placed, Reading
  <2> QED
    BY <1>1, <1>3, <2>1, <2>2, <2>4, <2>5, SameCarries, GoesKeeps DEF Fits
<1> QED
  BY <1>4, <1>5
-----------------------------------------------------------------------------
(* She leaves, an administrator shuts an agent out, and her authority       *)
(* learns of an enrolment.                                                  *)

LEMMA LeavingKeeps ==
  ASSUME MembershipInv, TermsInv, NEW j \in Job, Leaving(j) \/ Block(j)
  PROVE  TermsInv'
<1> DEFINE b == job[j]
<1>1. Carries(j, b) /\ DOMAIN b = RequestFields
  BY NotIdle, AtWork DEF Carries, Leaving, Block
<1>2. Termed' /\ copy' = copy /\ cache' = cache
  BY TermsUntouched DEF Leaving, Block, TermsInv
<1>3. /\ organization'.charter = organization.charter /\ organization'.joins = organization.joins
      /\ record'.token = record.token /\ record'.envelope = record.envelope
  BY DEF Leaving, Block, NoMember, MembershipInv, Shaped
<1>4. Clients' /\ CopiesStay
  BY <1>2, <1>3, ClientsKept DEF TermsInv, Clients
<1>5. CASE Leaving(j)
  <2> DEFINE d == [b EXCEPT !.pc = "clear"]
  <2>1. Same(b, d) /\ d.pc = "clear" /\ Goes(j, d)
    BY <1>1, <1>5 DEF Same, RequestFields, Leaving
  <2> HIDE DEF d
  <2>2. Placed(d, copy')
    BY <2>1 DEF Placed, Reading
  <2> QED
    BY <1>1, <1>2, <1>4, <2>1, <2>2, SameCarries, GoesKeeps DEF Fits
<1>6. CASE Block(j)
  BY <1>2, <1>4, <1>6, StopsKeeps DEF Block
<1> QED
  BY <1>5, <1>6

LEMMA JoinedFits ==
  ASSUME MembershipInv, TermsInv, NEW j \in Job, Joined(j)
  PROVE  TermsInv'
<1> DEFINE b == job[j]
           r == b.at
           k == b.client
           c == [NoCopy EXCEPT !.envelope = b.envelope]
           d == [b EXCEPT !.pc = "clamp"]
<1>1. Carries(j, b) /\ Placed(b, copy) /\ DOMAIN b = RequestFields /\ r \in Replica
  BY NotIdle, AtWork DEF Carries, Joined
<1>2. Termed' /\ organization' = organization
  BY TermsUntouched DEF Joined, TermsInv
<1>3. CASE Stops(j) /\ UNCHANGED <<record, cache, copy>>
  BY <1>2, <1>3, ClientsUntouched, StopsKeeps DEF TermsInv
<1>4. CASE /\ record' = [token |-> k, envelope |-> b.envelope, blocked |-> {}]
           /\ cache' = [cache EXCEPT ![r] = k]
           /\ copy' = [copy EXCEPT ![r][k] = c]
           /\ Goes(j, d)
  <2>1. k \in Token
    <3>1. k \in 1..organization.joins /\ organization.joins \in 0..MaxJoins
      BY DEF Joined, Joining, MembershipInv, JoinsAreNew, TermsInv, Clients
    <3>2. MaxJoins \in Nat
      BY MembershipAssumption
    <3> QED
      BY <3>1, <3>2 DEF Token
  <2>2. Chartered(b.envelope)
    BY <1>1 DEF Joined, Placed
  <2>3. DOMAIN c = CopyFields /\ c.envelope = b.envelope
    BY DEF NoCopy, CopyFields
  <2>4. Same(b, d) /\ d.pc = "clamp" /\ d.client = k /\ d.envelope = b.envelope
    BY <1>1 DEF Same, RequestFields
  <2> HIDE DEF c, d
  <2>5. Copies' /\ CopiesStay /\ copy'[r][k] = c
    <3>1. Copies /\ copy' = [copy EXCEPT ![r][k] = c]
      BY <1>4 DEF TermsInv, Clients
    <3>2. Chartered(c.envelope)
      BY <2>2, <2>3
    <3> HIDE DEF r, k
    <3> QED
      BY <1>1, <2>1, <2>3, <3>1, <3>2, CopyWritten
  <2>6. /\ DOMAIN cache' = Replica
        /\ \A q \in Replica : cache'[q] = IF q = r THEN k ELSE cache[q]
    BY <1>4 DEF TermsInv, Clients
  <2>7. Clients'
    BY <1>2, <1>4, <2>1, <2>2, <2>3, <2>5, <2>6, ClientsStay DEF TermsInv, Clients
  <2>8. Placed(d, copy')
    BY <2>1, <2>2, <2>3, <2>4, <2>5 DEF Placed, Reading, Same
  <2> QED
    BY <1>1, <1>2, <1>4, <2>4, <2>5, <2>7, <2>8, SameCarries, GoesKeeps DEF Fits
<1> QED
  BY <1>3, <1>4 DEF Joined

-----------------------------------------------------------------------------
(* The agent's request.                                                     *)

LEMMA TheAgents ==
  ASSUME TermsInv, NEW j \in Job,
         job[j].pc \in {"policy", "attest", "attested", "shut", "verdict", "issue"}
  PROVE  /\ j = Query /\ Carries(j, job[j]) /\ Placed(job[j], copy)
         /\ DOMAIN job[j] = RequestFields
<1>1. Carries(j, job[j]) /\ Placed(job[j], copy)
  BY NotIdle, AtWork
<1> QED
  BY <1>1 DEF Carries, Placed, AgentKinds

LEMMA OfferDropped ==
  ASSUME Termed, UNCHANGED <<tiers, docs>>, offer' = NoOffer \/ offer' = offer
  PROVE  Termed'
  BY DEF Termed

LEMMA DictatesKeeps ==
  ASSUME MembershipInv, TermsInv, Clients', CopiesStay, tiers' = tiers,
         Carries(Query, job[Query]), job[Query].kind \in {"ask", "agree"},
         NEW t \in TierId, NEW tier, IsTerms(tier), Dictates(job[Query], t, tier)
  PROVE  TermsInv'
<1> DEFINE b == job[Query]
           d == [b EXCEPT !.kind = "verdict", !.pc = "shut", !.tier = t, !.facts = <<>>,
                          !.terms = offer.terms]
<1>1. Query \in Job /\ None \notin TierId
  BY MembershipAssumption
<1>2. CASE b.kind = "agree" /\ Stands(t, tier)
  <2>1. offer.tier = t /\ Goes(Query, d) /\ UNCHANGED <<offer, docs>>
    BY <1>2 DEF Dictates, Stands
  <2>2. IsTerms(offer.terms)
    BY <1>1, <2>1 DEF NoOffer, TermsInv, Termed
  <2>3. /\ DOMAIN d = RequestFields /\ d.kind = "verdict" /\ d.pc = "shut" /\ d.tier = t
        /\ d.terms = offer.terms /\ d.at = b.at /\ d.base = b.base
    BY DEF Carries, RequestFields
  <2>4. b.base \in Nat
    BY <1>2 DEF Carries
  <2> HIDE DEF d
  <2>5. Carries(Query, d) /\ Placed(d, copy')
    BY <2>2, <2>3, <2>4 DEF Carries, Placed, Reading, AgentKinds
  <2>6. Termed'
    BY <2>1, TermsUntouched DEF TermsInv
  <2> QED
    BY <1>1, <2>1, <2>5, <2>6, GoesKeeps DEF Fits
<1>3. CASE ~(b.kind = "agree" /\ Stands(t, tier))
  <2>1. /\ offer' = [tier |-> t, terms |-> tier] /\ docs' = Published(t, tier) /\ Stops(Query)
    BY <1>3 DEF Dictates
  <2>2. Termed'
    BY <2>1, DocumentPublished DEF TermsInv, Termed
  <2> QED
    BY <1>1, <2>1, <2>2, StopsKeeps
<1> QED
  BY <1>2, <1>3

LEMMA PolicyKeeps ==
  ASSUME MembershipInv, TermsInv, NEW j \in Job, Policy(j)
  PROVE  TermsInv'
<1> DEFINE b == job[j]
<1>1. j = Query /\ Carries(j, b) /\ b.kind \in {"ask", "agree"} /\ DOMAIN b = RequestFields
  BY TheAgents DEF Policy, Placed
<1>2. Clients' /\ CopiesStay /\ tiers' = tiers
  BY ClientsUntouched DEF Policy, TermsInv
<1>3. CASE Refused(j) /\ UNCHANGED docs
  BY <1>2, <1>3, OfferDropped, StopsKeeps DEF Refused, TermsInv
<1>4. ASSUME NEW t \in TierFor(Asked), Dictates(b, t, tiers[t]) PROVE TermsInv'
  <2>1. t \in TierId /\ IsTerms(tiers[t])
    BY DEF TierFor, TermsInv, Termed
  <2> QED
    BY <1>1, <1>2, <1>4, <2>1, DictatesKeeps
<1>5. ASSUME NEW t \in TierFor(Asked), UNCHANGED <<offer, docs>>,
             Goes(j, [b EXCEPT !.pc = "attest", !.tier = t, !.terms = tiers[t]])
      PROVE  TermsInv'
  <2> DEFINE d == [b EXCEPT !.pc = "attest", !.tier = t, !.terms = tiers[t]]
  <2>1. t \in TierId /\ IsTerms(tiers[t])
    BY DEF TierFor, TermsInv, Termed
  <2>2. /\ DOMAIN d = RequestFields /\ d.kind = b.kind /\ d.pc = "attest" /\ d.tier = t
        /\ d.terms = tiers[t] /\ d.at = b.at /\ d.base = b.base
    BY <1>1 DEF RequestFields
  <2> HIDE DEF d
  <2>3. Carries(j, d) /\ Placed(d, copy')
    BY <1>1, <2>1, <2>2 DEF Carries, Placed, Reading, AgentKinds
  <2>4. Termed'
    BY <1>2, <1>5, TermsUntouched DEF TermsInv
  <2> QED
    BY <1>2, <1>5, <2>3, <2>4, GoesKeeps DEF Fits, d
<1>6. \/ Refused(j) /\ UNCHANGED docs
      \/ \E t \in TierFor(Asked) :
           \/ Dictates(b, t, tiers[t])
           \/ /\ Goes(j, [b EXCEPT !.pc = "attest", !.tier = t, !.terms = tiers[t]])
              /\ UNCHANGED <<offer, docs>>
  BY DEF Policy
<1> QED
  BY <1>3, <1>4, <1>5, <1>6

LEMMA AttestationKeeps ==
  ASSUME MembershipInv, TermsInv, NEW j \in Job, ClearanceToken(j) \/ ClearanceUnmet(j)
  PROVE  TermsInv'
<1> DEFINE b == job[j]
<1>1. /\ j = Query /\ Carries(j, b) /\ b.kind \in {"ask", "agree"} /\ DOMAIN b = RequestFields
      /\ b.tier \in TierId /\ IsTerms(b.terms) /\ b.at \in Replica
  BY TheAgents DEF ClearanceToken, ClearanceUnmet, Placed, Carries
<1>2. CASE ClearanceToken(j)
  <2> DEFINE f == IF organization.member = b.client THEN organization.clearance ELSE <<>>
             d == [b EXCEPT !.pc = "attested", !.facts = f]
  <2>1. Clients' /\ CopiesStay /\ Termed'
    BY <1>2, ClientsUntouched, TermsUntouched DEF ClearanceToken, TermsInv
  <2>2. Same(b, d) /\ d.pc = "attested"
    BY <1>1 DEF Same, RequestFields
  <2>3. Goes(j, d)
    BY <1>2 DEF ClearanceToken
  <2> HIDE DEF f, d
  <2>4. Placed(d, copy')
    BY <1>1, <2>2 DEF Placed, Reading, Same
  <2> QED
    BY <1>1, <2>1, <2>2, <2>3, <2>4, SameCarries, GoesKeeps DEF Fits
<1>3. CASE ClearanceUnmet(j)
  <2> DEFINE r == b.at
             k == b.client
             c == [copy[r][k] EXCEPT !.attested = b.facts]
  <2>1. copy' = [copy EXCEPT ![r][k] = c]
    BY <1>3 DEF ClearanceUnmet
  <2>2. k \in Token => DOMAIN c = CopyFields /\ c.envelope = copy[r][k].envelope
    BY <1>1 DEF TermsInv, Clients, Copies, CopyFields
  <2> HIDE DEF c
  <2>3. Copies' /\ CopiesStay
    BY <1>1, <2>1, <2>2, CopyWritten DEF TermsInv, Clients
  <2>4. Clients'
    BY <1>3, <2>3, ClientsStay DEF ClearanceUnmet, TermsInv, Clients
  <2>5. CASE Refused(j) /\ UNCHANGED docs
    BY <1>3, <2>3, <2>4, <2>5, OfferDropped, StopsKeeps DEF ClearanceUnmet, Refused, TermsInv
  <2>6. CASE Dictates(b, b.tier, b.terms)
    BY <1>1, <1>3, <2>3, <2>4, <2>6, DictatesKeeps DEF ClearanceUnmet
  <2> QED
    BY <1>3, <2>5, <2>6 DEF ClearanceUnmet
<1> QED
  BY <1>2, <1>3

LEMMA VerdictKeeps ==
  ASSUME MembershipInv, TermsInv, NEW j \in Job, ShutOut(j) \/ Verdict(j) \/ Issue(j)
  PROVE  TermsInv'
<1> DEFINE b == job[j]
<1>1. Carries(j, b) /\ b.kind \in {"verdict", "again"} /\ DOMAIN b = RequestFields
  BY TheAgents DEF ShutOut, Verdict, Issue, Placed
<1>2. Clients' /\ CopiesStay
  BY ClientsUntouched DEF ShutOut, Verdict, Issue, Forgets, TermsInv
<1>3. Termed'
  BY OfferDropped DEF ShutOut, Verdict, Issue, Refused, TermsInv
<1>4. ASSUME NEW l \in {"client", "issue"}, NEW k \in {"verdict", "again"}, NEW d,
             d \in {[b EXCEPT !.pc = l], [b EXCEPT !.kind = k, !.pc = l]}
      PROVE  Fits(j, d, copy')
  <2>1. /\ DOMAIN d = RequestFields /\ d.pc = l /\ d.kind \in {"verdict", "again"}
        /\ \A f \in {"at", "patch", "tier", "terms", "base"} : d[f] = b[f]
    BY <1>1, <1>4 DEF RequestFields
  <2>2. Carries(j, d) /\ Placed(d, copy')
    BY <1>1, <2>1 DEF Carries, Placed, Reading, AgentKinds
  <2> QED
    BY <2>2 DEF Fits
<1>5. \/ Stops(j)
      \/ \E l \in {"client", "issue"}, k \in {"verdict", "again"} :
           Goes(j, [b EXCEPT !.pc = l]) \/ Goes(j, [b EXCEPT !.kind = k, !.pc = l])
  BY DEF ShutOut, Verdict, Issue, Refused
<1> QED
  BY <1>2, <1>3, <1>4, <1>5, GoesKeeps, StopsKeeps
-----------------------------------------------------------------------------
(* Requests arrive.                                                         *)

LEMMA StartsCarries ==
  ASSUME NEW j \in Job, j # Query, NEW r \in Replica,
         NEW kind \in {"join", "leave", "notice", "shut"}, NEW b, DOMAIN b = RequestFields,
         b.kind = kind, b.at = r
  PROVE  Carries(j, b)
  BY DEF Carries, AgentKinds

LEMMA UseKeeps ==
  ASSUME MembershipInv, TermsInv, NEW j \in Job, NEW b, Carries(j, b), UseClient(j, b),
         UNCHANGED <<organization, tiers, docs, offer>>
  PROVE  TermsInv'
  BY UseClientFits, TermsUntouched DEF TermsInv

LEMMA StartsIs ==
  ASSUME NEW r, NEW kind
  PROVE  LET b == Starts(r, kind) IN
         /\ DOMAIN b = RequestFields /\ b.kind = kind /\ b.at = r /\ b.pc = "client"
         /\ b.base = 0
  BY DEF Starts, Idle, RequestFields

LEMMA JoinFits ==
  ASSUME MembershipInv, TermsInv, NEW j \in Job, NEW r \in Replica, Join(j, r)
  PROVE  TermsInv'
<1> DEFINE e == Envelope'
           b == [Starts(r, "join") EXCEPT !.pc = "joined", !.client = organization'.member,
                                          !.envelope = e]
<1>1. /\ j # Query /\ organization.joins < MaxJoins
      /\ organization' = [organization EXCEPT !.joins = @ + 1, !.member = organization.joins + 1,
                                              !.shares = DefaultShares]
      /\ Goes(j, b)
  BY DEF Join, Serves
<1>2. organization'.charter = organization.charter /\ organization'.joins = organization.joins + 1
  BY <1>1 DEF MembershipInv, Shaped
<1>3. organization'.charter \in 1..Len(Charters) /\ organization'.joins \in 0..MaxJoins
  BY <1>1, <1>2, MembershipAssumption DEF TermsInv, Clients
<1>4. Clients' /\ CopiesStay
  BY <1>3, ClientsKept DEF Join, TermsInv, Clients
<1>5. Termed'
  BY TermsUntouched DEF Join, TermsInv
<1>6. Chartered(e)
  BY <1>3 DEF Chartered, Envelope
<1> HIDE DEF e
<1>7. /\ DOMAIN b = RequestFields /\ b.kind = "join" /\ b.at = r /\ b.pc = "joined"
      /\ b.envelope = e
  BY StartsIs DEF RequestFields
<1> HIDE DEF b
<1>8. Placed(b, copy')
  BY <1>6, <1>7 DEF Placed, Reading
<1> QED
  BY <1>1, <1>4, <1>5, <1>7, <1>8, StartsCarries, GoesKeeps DEF Fits

LEMMA ReceiveKeeps ==
  ASSUME MembershipInv, TermsInv, NEW j \in Job, NEW r \in Replica, NEW n \in mail, Receive(j, r, n)
  PROVE  TermsInv'
<1> DEFINE b == Starts(r, "notice")
           d == [b EXCEPT !.pc = "clear"]
           k == cache[r]
           c == [copy[r][k] EXCEPT !.age = "dead"]
<1>1. j # Query /\ UNCHANGED <<organization, record, cache>>
  BY DEF Receive, Serves
<1>2. Termed'
  BY TermsUntouched DEF Receive, TermsInv
<1>3. copy' = copy \/ (copy' = [copy EXCEPT ![r][k] = c] /\ k # NoToken)
  BY DEF Receive
<1>4. k # NoToken => DOMAIN c = CopyFields /\ c.envelope = copy[r][k].envelope
  BY DEF TermsInv, Clients, Copies, CopyFields
<1>5. Copies /\ Clients
  BY DEF TermsInv, Clients
<1> HIDE DEF c
<1>6. Copies' /\ CopiesStay
  <2>1. k # NoToken => k \in Token
    BY <1>5 DEF Clients
  <2> HIDE DEF k
  <2> QED
    BY <1>3, <1>4, <1>5, <2>1, CopyWritten, NothingCopied
<1>7. Clients'
  BY <1>1, <1>5, <1>6, ClientsStay DEF Clients
<1>8. /\ DOMAIN b = RequestFields /\ b.kind = "notice" /\ b.at = r /\ b.pc = "client"
      /\ DOMAIN d = RequestFields /\ d.kind = "notice" /\ d.at = r /\ d.pc = "clear"
  BY StartsIs DEF RequestFields
<1>9. Goes(j, b) \/ Goes(j, d)
  BY DEF Receive
<1> HIDE DEF b, d
<1>10. Placed(b, copy') /\ Placed(d, copy')
  BY <1>8 DEF Placed, Reading
<1> QED
  BY <1>1, <1>2, <1>6, <1>7, <1>8, <1>9, <1>10, StartsCarries, GoesKeeps DEF Fits

LEMMA ArrivesKeeps ==
  ASSUME MembershipInv, TermsInv, NEW j \in Job, NEW r \in Replica, Arrives(j, r)
  PROVE  TermsInv'
<1>1. CASE Join(j, r)
  BY <1>1, JoinFits
<1>2. CASE Leave(j, r)
  BY <1>2, StartsIs, StartsCarries, UseKeeps DEF Leave, Serves
<1>3. ASSUME NEW n \in mail, Receive(j, r, n) PROVE TermsInv'
  BY <1>3, ReceiveKeeps
<1>4. ASSUME NEW agent \in Agent, Shut(j, r, agent) PROVE TermsInv'
  <2> DEFINE b == [Starts(r, "shut") EXCEPT !.agent = agent]
  <2>1. DOMAIN b = RequestFields /\ b.kind = "shut" /\ b.at = r
    BY StartsIs DEF RequestFields
  <2>2. j # Query /\ UseClient(j, b)
    BY <1>4 DEF Shut, Serves
  <2> HIDE DEF b
  <2> QED
    BY <1>4, <2>1, <2>2, StartsCarries, UseKeeps DEF Shut
<1>5. ASSUME NEW t \in TierId, NEW patch \in Patches, Edit(j, r, t, patch) PROVE TermsInv'
  <2> DEFINE b == [Starts(r, "edit") EXCEPT !.tier = t, !.patch = patch]
  <2>1. /\ DOMAIN b = RequestFields /\ b.kind = "edit" /\ b.at = r /\ b.tier = t
        /\ b.patch = patch
    BY StartsIs DEF RequestFields
  <2>2. j # Query /\ UseClient(j, b)
    BY <1>5 DEF Edit, Serves
  <2>3. Carries(j, b)
    BY <2>1, <2>2, MembershipAssumption DEF Carries, AgentKinds
  <2> HIDE DEF b
  <2> QED
    BY <1>5, <2>2, <2>3, UseKeeps DEF Edit
<1>6. ASSUME NEW t \in TierId, NEW spec \in Specs, Create(j, r, t, spec) PROVE TermsInv'
  <2> DEFINE b == [Starts(r, "create") EXCEPT !.tier = t, !.terms = spec]
  <2>1. /\ DOMAIN b = RequestFields /\ b.kind = "create" /\ b.at = r /\ b.tier = t
        /\ b.terms = spec
    BY StartsIs DEF RequestFields
  <2>2. j # Query /\ UseClient(j, b)
    BY <1>6 DEF Create, Serves
  <2>3. Carries(j, b)
    BY <2>1, <2>2, MembershipAssumption DEF Carries, AgentKinds
  <2> HIDE DEF b
  <2> QED
    BY <1>6, <2>2, <2>3, UseKeeps DEF Create
<1> QED
  BY <1>1, <1>2, <1>3, <1>4, <1>5, <1>6 DEF Arrives

LEMMA AskKeeps ==
  ASSUME MembershipInv, TermsInv, NEW r \in Replica, Ask(r) \/ Agree(r)
  PROVE  TermsInv'
<1>1. Query \in Job
  BY MembershipAssumption
<1>2. CASE Ask(r)
  <2>1. Carries(Query, Starts(r, "ask"))
    BY StartsIs DEF Carries, AgentKinds
  <2> QED
    BY <1>1, <1>2, <2>1, UseKeeps DEF Ask
<1>3. CASE Agree(r)
  <2> DEFINE n == IF tiers[offer.tier] = None THEN 0 ELSE tiers[offer.tier].version
             b == [Starts(r, "agree") EXCEPT !.base = n]
  <2>1. n \in Nat
    BY <1>3 DEF Agree, TermsInv, Termed, IsTerms
  <2>2. DOMAIN b = RequestFields /\ b.kind = "agree" /\ b.at = r /\ b.base = n
    BY StartsIs DEF RequestFields
  <2>3. UseClient(Query, b)
    BY <1>3 DEF Agree
  <2> HIDE DEF b, n
  <2>4. Carries(Query, b)
    BY <2>1, <2>2 DEF Carries, AgentKinds
  <2> QED
    BY <1>1, <1>3, <2>3, <2>4, UseKeeps DEF Agree
<1> QED
  BY <1>2, <1>3

-----------------------------------------------------------------------------
(* Steps of nobody's request.                                               *)

LEMMA ElsewhereKeeps ==
  ASSUME TermsInv, Clients', CopiesStay, Termed', job' = job
  PROVE  TermsInv'
  BY FitsStays DEF TermsInv, Fit, Fits, Carries, Placed

LEMMA OrganizationKeeps ==
  ASSUME MembershipInv, TermsInv,
         \/ PublishCharter \/ RemoveMember \/ Removed \/ Answered \/ UNCHANGED vars
         \/ \E shares \in Shares : SetRole(shares)
         \/ \E facts \in Clearances : SetClearance(facts)
         \/ \E agent \in Agent : OrgBlock(agent) \/ OrgRestore(agent)
         \/ \E t \in TierId : DeleteTier(t)
  PROVE  TermsInv'
<1>1. job' = job /\ copy' = copy /\ cache' = cache /\ UNCHANGED <<docs, offer>>
  BY DEF PublishCharter, RemoveMember, Removed, Answered, SetRole, SetClearance, OrgBlock,
         OrgRestore, DeleteTier, vars
<1>2. /\ organization'.charter = organization.charter \/ PublishCharter
      /\ organization'.joins = organization.joins
  BY DEF PublishCharter, RemoveMember, Removed, Answered, SetRole, SetClearance, OrgBlock,
         OrgRestore, DeleteTier, vars, NoMember, MembershipInv, Shaped
<1>3. organization'.charter \in 1..Len(Charters)
  BY <1>2, MembershipAssumption DEF PublishCharter, TermsInv, Clients, MembershipInv, Shaped
<1>4. record'.token = record.token /\ record'.envelope = record.envelope
  BY DEF PublishCharter, RemoveMember, Removed, Answered, SetRole, SetClearance, OrgBlock,
         OrgRestore, DeleteTier, vars, MembershipInv, Shaped
<1>5. Clients' /\ CopiesStay
  BY <1>1, <1>2, <1>3, <1>4, ClientsKept DEF TermsInv, Clients
<1>6. tiers' = tiers \/ \E t \in TierId : tiers' = [tiers EXCEPT ![t] = None]
  BY DEF PublishCharter, RemoveMember, Removed, Answered, SetRole, SetClearance, OrgBlock,
         OrgRestore, DeleteTier, vars
<1>7. Termed'
  BY <1>1, <1>6 DEF TermsInv, Termed
<1> QED
  BY <1>1, <1>5, <1>7, ElsewhereKeeps

LEMMA AgingKeeps ==
  ASSUME MembershipInv, TermsInv, NEW r \in Replica,
         CopyAges(r) \/ ClearanceAges(r) \/ RetryDue(r)
  PROVE  TermsInv'
<1> DEFINE k == cache[r]
<1>1. k # NoToken /\ UNCHANGED <<organization, record, cache, tiers, docs, offer, job>>
  BY DEF CopyAges, ClearanceAges, RetryDue
<1>2. Clients /\ Copies /\ k \in Token /\ DOMAIN copy[r][k] = CopyFields
  BY <1>1 DEF TermsInv, Clients, Copies
<1>3. \E c : /\ copy' = [copy EXCEPT ![r][k] = c]
             /\ DOMAIN c = CopyFields /\ c.envelope = copy[r][k].envelope
  <2> DEFINE a == IF copy[r][k].age = "fresh" THEN "stale" ELSE "dead"
             c1 == [copy[r][k] EXCEPT !.age = a]
             c2 == [copy[r][k] EXCEPT !.attested = <<>>]
             c3 == [copy[r][k] EXCEPT !.failing = FALSE]
  <2>1. \/ copy' = [copy EXCEPT ![r][k] = c1] \/ copy' = [copy EXCEPT ![r][k] = c2]
        \/ copy' = [copy EXCEPT ![r][k] = c3]
    BY <1>2 DEF CopyAges, ClearanceAges, AttestationLapses, RetryDue
  <2>2. \A c \in {c1, c2, c3} : DOMAIN c = CopyFields /\ c.envelope = copy[r][k].envelope
    BY <1>2 DEF CopyFields
  <2> HIDE DEF c1, c2, c3
  <2> QED
    BY <2>1, <2>2
<1>4. Copies' /\ CopiesStay
  <2> HIDE DEF k
  <2> QED
    BY <1>2, <1>3, CopyWritten
<1>5. Clients'
  BY <1>1, <1>2, <1>4, ClientsStay DEF Clients
<1>6. Termed'
  BY <1>1, TermsUntouched DEF TermsInv
<1> QED
  BY <1>1, <1>4, <1>5, <1>6, ElsewhereKeeps

LEMMA CrashKeeps ==
  ASSUME MembershipInv, TermsInv, NEW r \in Replica, Crash(r)
  PROVE  TermsInv'
<1>1. Clients' /\ CopiesStay
  BY ClientsUntouched DEF Crash, TermsInv
<1>2. Termed'
  BY OfferDropped DEF Crash, TermsInv
<1>3. ASSUME NEW j \in Job PROVE Fits(j, job'[j], copy')
  <2>1. job'[j] \in {Idle, job[j]}
    BY DEF Crash
  <2>2. Fits(j, job[j], copy')
    BY <1>1, FitsStays DEF TermsInv, Fit
  <2> QED
    BY <2>1, <2>2 DEF Fits
<1>4. Fit'
  BY <1>3 DEF Fit, Fits, Carries, Placed
<1> QED
  BY <1>1, <1>2, <1>4 DEF TermsInv

LEMMA ProgressKeeps ==
  ASSUME MembershipInv, TermsInv, NEW j \in Job, Progress(j) \/ FetchFails(j)
  PROVE  TermsInv'
  BY StartAgainKeeps, FetchingKeeps, EndingKeeps, StoringKeeps, ClampingKeeps, ReadTierKeeps,
     WriteKeeps, ServeKeeps, DraftKeeps, InsertKeeps, JoinedFits, LeavingKeeps, PolicyKeeps,
     AttestationKeeps, VerdictKeeps
  DEF Progress

LEMMA TermsKept ==
  ASSUME MembershipInv, TermsInv, [Next]_vars
  PROVE  TermsInv'
<1>1. CASE \E j \in Job : Progress(j) \/ FetchFails(j)
  BY <1>1, ProgressKeeps
<1>2. CASE \E j \in Job, r \in Replica : Arrives(j, r)
  BY <1>2, ArrivesKeeps
<1>3. CASE \E r \in Replica : Ask(r) \/ Agree(r) \/ CopyAges(r) \/ ClearanceAges(r) \/ RetryDue(r)
                              \/ Crash(r)
  BY <1>3, AskKeeps, AgingKeeps, CrashKeeps
<1>4. CASE \/ PublishCharter \/ RemoveMember \/ Removed \/ Answered \/ UNCHANGED vars
           \/ \E shares \in Shares : SetRole(shares)
           \/ \E facts \in Clearances : SetClearance(facts)
           \/ \E agent \in Agent : OrgBlock(agent) \/ OrgRestore(agent)
           \/ \E t \in TierId : DeleteTier(t)
  BY <1>4, OrganizationKeeps
<1> QED
  BY <1>1, <1>2, <1>3, <1>4 DEF Next

LEMMA TermsFirst == Init => TermsInv
<1> SUFFICES ASSUME Init PROVE TermsInv
  OBVIOUS
<1>1. Clients
  <2>1. /\ copy = [r \in Replica |-> [k \in Token |-> NoCopy]]
        /\ cache = [r \in Replica |-> NoToken] /\ record.token = NoToken
        /\ organization.charter = 1 /\ organization.joins = 0
    BY DEF Init, NoRecord
  <2>2. DOMAIN NoCopy = CopyFields
    BY DEF NoCopy, CopyFields
  <2> QED
    BY <2>1, <2>2, MembershipAssumption DEF Clients, Copies
<1>2. Termed
  <2> DEFINE held == {u \in TierId : tiers[u] # None}
             f == [t \in held |-> [tier |-> t, version |-> tiers[t].version]]
  <2>1. tiers = FirstTiers /\ offer = NoOffer
    BY DEF Init
  <2>2. \A t \in TierId : tiers[t] # None => IsTerms(tiers[t])
    BY <2>1, MembershipAssumption
  <2>3. IsFiniteSet(held)
    BY MembershipAssumption, FS_Subset
  <2>4. f \in [held -> {f[t] : t \in held}] /\ {f[t] : t \in held} = docs
    BY <2>1 DEF Init
  <2>5. IsFiniteSet({f[t] : t \in held})
    <3> HIDE DEF f, held
    <3> QED
      BY <2>3, <2>4, FiniteImage
  <2>6. \A d \in docs : d.version \in Nat
    BY <2>1, <2>2 DEF Init, IsTerms
  <2> HIDE DEF f, held
  <2> QED
    BY <2>1, <2>2, <2>4, <2>5, <2>6, MembershipAssumption DEF Termed
<1>3. Fit
  BY DEF Init, Fit, Fits
<1> QED
  BY <1>1, <1>2, <1>3 DEF TermsInv

(* What she writes, what the organization narrows and what an agent is told *)
(* are terms, on however many replicas and over however many tiers.         *)
THEOREM TermsHold == Spec => []TermsInv
  BY TermsFirst, TermsKept, MembershipHolds, PTL DEF Spec
-----------------------------------------------------------------------------
(* The versions of a tier while it is written anew once at most.            *)

Creates == MaxWrites - left.writes

Pending(j) == job[j].kind = "create" /\ job[j].pc # "serve"

(* Then the one that writes it finds nothing there.                         *)
WrittenOnce ==
  /\ "writes" \in DOMAIN left /\ left.writes \in Int /\ Creates \in Nat
  /\ \A j \in Job : Pending(j) => Creates > 0
  /\ Creates <= 1 =>
       /\ \A i, j \in Job : Pending(i) /\ Pending(j) => i = j
       /\ \A j \in Job : Pending(j) => tiers[job[j].tier] = None

(* What an agent is told has been published.                                *)
Offered ==
  offer # NoOffer => [tier |-> offer.tier, version |-> offer.terms.version] \in docs

(* Terms that were no more when the agreement to them came are never again  *)
(* the ones that stand: whatever the tier says by then, or is about to, is  *)
(* a later version.                                                         *)
Overtaken ==
  LET b == job[Query] IN
  Creates <= 1 /\ b.kind = "agree" /\ offer # NoOffer /\ b.base > offer.terms.version =>
    /\ tiers[offer.tier] # None => tiers[offer.tier].version > offer.terms.version
    /\ \A j \in Job :
         job[j].kind = "create" /\ job[j].pc = "insert" /\ job[j].tier = offer.tier =>
           job[j].terms.version > offer.terms.version
    /\ b.pc \in {"attest", "attested"} /\ b.tier = offer.tier =>
         b.terms.version > offer.terms.version

Agreed ==
  Creates <= 1 /\ job[Query].kind \in {"verdict", "again"} =>
    job[Query].terms.version >= job[Query].base

VersionsInv == WrittenOnce /\ Offered /\ Overtaken /\ Agreed /\ GrantIsOfTheOffer

(* What most steps come to: a request goes on with what it has in hand, a   *)
(* tier goes or has a later version, an offer is dropped by whom it was to. *)
Neutral(b) == b.kind \notin {"create", "agree", "verdict", "again"}

Continues(b, d) ==
  /\ d.kind = b.kind \/ {b.kind, d.kind} \subseteq {"verdict", "again"}
  /\ d.tier = b.tier /\ d.terms = b.terms /\ d.base = b.base
  /\ b.pc # "serve" /\ d.pc # "insert"
  /\ d.pc \in {"attest", "attested"} => b.pc \in {"attest", "attested"}

RequestsCalm ==
  \A j \in Job : job'[j] = job[j] \/ Neutral(job'[j]) \/ Continues(job[j], job'[j])

TiersCalm ==
  \A t \in TierId :
    \/ tiers'[t] \in {tiers[t], None}
    \/ tiers[t] # None /\ tiers'[t].version > tiers[t].version

OfferCalm == offer' = offer \/ (offer' = NoOffer /\ Neutral(job'[Query]))

Calm ==
  /\ RequestsCalm /\ TiersCalm /\ OfferCalm /\ docs \subseteq docs'
  /\ granted' \in {granted, NoGrant}
  /\ "writes" \in DOMAIN left' /\ left'.writes = left.writes

LEMMA CalmKeeps ==
  ASSUME TermsInv, TermsInv', VersionsInv, Calm
  PROVE  VersionsInv'
<1>1. Query \in Job /\ None \notin TierId
  BY MembershipAssumption
<1>2. Creates' = Creates /\ left'.writes \in Int
  BY DEF Calm, Creates, VersionsInv, WrittenOnce
<1>3. \A j \in Job : Pending(j)' => Pending(j) /\ job'[j].tier = job[j].tier
  BY DEF Calm, RequestsCalm, Neutral, Continues, Pending
<1>4. \A j \in Job : Pending(j) => job[j].tier \in TierId
  BY NotIdle, AtWork DEF Pending, Carries, TermsInv, Fit, Fits, Idle
<1>5. WrittenOnce'
  <2>1. \A j \in Job : Pending(j)' /\ tiers[job[j].tier] = None => tiers'[job'[j].tier] = None
    BY <1>3, <1>4 DEF Calm, TiersCalm
  <2> QED
    BY <1>2, <1>3, <2>1 DEF VersionsInv, WrittenOnce, Calm
<1>6. Offered'
  BY DEF VersionsInv, Offered, Calm, OfferCalm, NoOffer
<1>7. Overtaken'
  <2> SUFFICES ASSUME Creates' <= 1, job'[Query].kind = "agree", offer' # NoOffer,
                      job'[Query].base > offer'.terms.version
               PROVE  /\ tiers'[offer'.tier] # None =>
                           tiers'[offer'.tier].version > offer'.terms.version
                      /\ \A j \in Job : job'[j].kind = "create" /\ job'[j].pc = "insert"
                                          /\ job'[j].tier = offer'.tier =>
                           job'[j].terms.version > offer'.terms.version
                      /\ job'[Query].pc \in {"attest", "attested"} /\ job'[Query].tier = offer'.tier =>
                           job'[Query].terms.version > offer'.terms.version
    BY DEF Overtaken
  <2>1. offer' = offer /\ offer.tier \in TierId /\ IsTerms(offer.terms)
    BY DEF Calm, OfferCalm, Neutral, TermsInv, Termed
  <2>2. job'[Query] = job[Query] \/ Continues(job[Query], job'[Query])
    BY <1>1 DEF Calm, RequestsCalm, Neutral
  <2>3. job[Query].kind = "agree" /\ job'[Query].base = job[Query].base
    BY <2>2 DEF Continues
  <2>4. /\ tiers[offer.tier] # None => tiers[offer.tier].version > offer.terms.version
        /\ \A j \in Job : job[j].kind = "create" /\ job[j].pc = "insert" /\ job[j].tier = offer.tier =>
             job[j].terms.version > offer.terms.version
        /\ job[Query].pc \in {"attest", "attested"} /\ job[Query].tier = offer.tier =>
             job[Query].terms.version > offer.terms.version
    BY <1>2, <2>1, <2>3 DEF VersionsInv, Overtaken
  <2>5. tiers'[offer'.tier] # None => tiers'[offer'.tier].version > offer'.terms.version
    <3>1. /\ tiers[offer.tier] # None => tiers[offer.tier].version \in Nat
          /\ tiers'[offer.tier] # None => tiers'[offer.tier].version \in Nat
      BY <2>1 DEF TermsInv, Termed, IsTerms
    <3>2. offer.terms.version \in Nat
      BY <2>1 DEF IsTerms
    <3> QED
      BY <2>1, <2>4, <3>1, <3>2 DEF Calm, TiersCalm
  <2>6. \A j \in Job : job'[j].kind = "create" /\ job'[j].pc = "insert" /\ job'[j].tier = offer'.tier =>
          job'[j].terms.version > offer'.terms.version
    BY <2>1, <2>4 DEF Calm, RequestsCalm, Neutral, Continues
  <2>7. job'[Query].pc \in {"attest", "attested"} /\ job'[Query].tier = offer'.tier =>
          job'[Query].terms.version > offer'.terms.version
    BY <2>1, <2>2, <2>4 DEF Continues
  <2> QED
    BY <2>5, <2>6, <2>7
<1>8. Agreed'
  BY <1>1, <1>2 DEF VersionsInv, Agreed, Calm, RequestsCalm, Neutral, Continues
<1>9. GrantIsOfTheOffer'
  BY <1>2 DEF VersionsInv, GrantIsOfTheOffer, Calm, NoGrant, Creates
<1> QED
  BY <1>5, <1>6, <1>7, <1>8, <1>9 DEF VersionsInv

-----------------------------------------------------------------------------
(* Where a request is after a step of it that changes nothing else.         *)
Reached(b, d) ==
  \/ d = Idle
  \/ /\ d.kind = b.kind /\ d.tier = b.tier /\ d.terms = b.terms /\ d.base = b.base
     /\ d.pc \notin {"serve", "insert", "attest", "attested"}

LEMMA WithReaches ==
  ASSUME NEW b, DOMAIN b = RequestFields, NEW client, NEW envelope
  PROVE  Reached(b, With(b, client, envelope))
<1> DEFINE c == [b EXCEPT !.client = client, !.envelope = envelope, !.work = <<>>, !.known = 0]
<1>1. ASSUME NEW l \in {"edit", "draft", "leaving", "block", "policy", "verdict"}
      PROVE  Reached(b, [c EXCEPT !.pc = l])
  BY DEF Reached, RequestFields
<1> HIDE DEF c
<1>2. With(b, client, envelope) \in
        {Idle} \cup {[c EXCEPT !.pc = l] : l \in {"edit", "draft", "leaving", "block", "policy", "verdict"}}
  BY DEF With, c
<1>3. Reached(b, Idle)
  BY DEF Reached
<1> QED
  BY <1>1, <1>2, <1>3

LEMMA UseReaches ==
  ASSUME NEW j \in Job, NEW b, DOMAIN b = RequestFields, UseClient(j, b)
  PROVE  \E to : Goes(j, to) /\ Reached(b, to)
<1>1. /\ Reached(b, [b EXCEPT !.pc = "client"])
      /\ \A k : Reached(b, [b EXCEPT !.pc = "refresh", !.client = k])
  BY DEF Reached, RequestFields
<1>2. \A k, e : Reached(b, With(b, k, e))
  BY WithReaches
<1> QED
  BY <1>1, <1>2 DEF UseClient, NewClient, FreshClient, OldClient

LEMMA GoesIs ==
  ASSUME Shaped, NEW j \in Job, NEW to, Goes(j, to)
  PROVE  job'[j] = to /\ \A i \in Job \ {j} : job'[i] = job[i]
  BY DEF Shaped, Goes

LEMMA IdleNeutral == Neutral(Idle)
  BY DEF Neutral, Idle

LEMMA OnlyMoves ==
  ASSUME Shaped, VersionsInv, NEW j \in Job, job[j].pc # "serve", NEW to, Goes(j, to),
         Reached(job[j], to) \/ Neutral(to), UNCHANGED <<tiers, docs, offer, granted>>,
         "writes" \in DOMAIN left' /\ left'.writes = left.writes
  PROVE  Calm
<1>1. Neutral(to) \/ Continues(job[j], to)
  BY IdleNeutral DEF Reached, Continues
<1>2. RequestsCalm
  BY <1>1, GoesIs DEF RequestsCalm
<1> QED
  BY <1>2 DEF Calm, TiersCalm, OfferCalm

LEMMA LeftStays ==
  ASSUME VersionsInv, UNCHANGED left \/ \E kind : kind # "writes" /\ Does(kind)
  PROVE  "writes" \in DOMAIN left' /\ left'.writes = left.writes
  BY DEF VersionsInv, WrittenOnce, Does

LEMMA ReadingCalm ==
  ASSUME MembershipInv, VersionsInv, NEW j \in Job,
         StartAgain(j) \/ Refresh(j) \/ Fetched(j) \/ FetchFails(j) \/ Ended(j) \/ Clear(j)
           \/ Reread(j) \/ Store(j)
  PROVE  Calm
<1> DEFINE b == job[j]
<1>1. Shaped /\ DOMAIN b = RequestFields
  BY DEF MembershipInv, Shaped
<1>2. b.pc # "serve" /\ UNCHANGED <<tiers, docs, offer, granted>>
  BY DEF StartAgain, Refresh, Fetched, FetchFails, Ended, Clear, Reread, Store
<1>3. "writes" \in DOMAIN left' /\ left'.writes = left.writes
  BY LeftStays DEF StartAgain, Refresh, Fetched, FetchFails, Ended, Clear, Reread, Store
<1>4. \A l \in {"fetching", "ended", "fetched", "client", "clear", "store", "clamp"} :
        /\ Reached(b, [b EXCEPT !.pc = l])
        /\ \A k : Reached(b, [b EXCEPT !.pc = l, !.known = k])
        /\ \A k, e : Reached(b, [b EXCEPT !.pc = l, !.known = k, !.envelope = e])
  BY <1>1 DEF Reached, RequestFields
<1>5. \A k, e : Reached(b, With(b, k, e))
  BY <1>1, WithReaches
<1>6. \E to : Goes(j, to) /\ Reached(b, to)
  <2>1. CASE StartAgain(j)
    BY <1>1, <2>1, UseReaches DEF StartAgain
  <2>2. CASE Refresh(j)
    BY <1>4, <1>5, <2>2 DEF Refresh, Given
  <2>3. CASE Fetched(j) \/ FetchFails(j)
    BY <1>4, <1>5, <2>3 DEF Fetched, FetchFails
  <2>4. CASE Ended(j) \/ Clear(j)
    BY <1>4, <1>5, <2>4 DEF Ended, Clear, GivenNone
  <2>5. CASE Reread(j) \/ Store(j)
    BY <1>4, <1>5, <2>5 DEF Reread, Store, Given, GivenNone
  <2> QED
    BY <2>1, <2>2, <2>3, <2>4, <2>5
<1> QED
  BY <1>1, <1>2, <1>3, <1>6, OnlyMoves

LEMMA TierLater ==
  ASSUME Termed, NEW t \in TierId, NEW patch, IsPatch(patch), tiers[t] # None,
         tiers' = UpdateTier(t, patch)
  PROVE  TiersCalm
<1> DEFINE edited == ApplyPatch(tiers[t], patch)
<1>1. edited.version = tiers[t].version + 1 /\ tiers[t].version \in Nat
  BY ApplyTerms DEF Termed, IsTerms
<1>2. tiers' = [tiers EXCEPT ![t] = edited]
  BY DEF UpdateTier
<1> HIDE DEF edited
<1>3. \A u \in TierId : tiers'[u] = IF u = t THEN edited ELSE tiers[u]
  BY <1>2 DEF Termed
<1> QED
  BY <1>1, <1>3 DEF TiersCalm

LEMMA ClampingCalm ==
  ASSUME MembershipInv, TermsInv, VersionsInv, NEW j \in Job,
         ReadTiers(j) \/ ClampTier(j) \/ Publish(j) \/ Clamped(j)
  PROVE  Calm
<1> DEFINE b == job[j]
<1>1. Shaped /\ DOMAIN b = RequestFields /\ Placed(b, copy)
  BY NotIdle, AtWork DEF MembershipInv, Shaped, ReadTiers, ClampTier, Publish, Clamped
<1>2. b.pc # "serve" /\ UNCHANGED <<offer, granted, left>>
  BY DEF ReadTiers, ClampTier, Publish, Clamped
<1>3. "writes" \in DOMAIN left' /\ left'.writes = left.writes
  BY <1>2, LeftStays
<1>4. CASE ReadTiers(j) \/ Clamped(j)
  <2>1. \A w : Reached(b, [b EXCEPT !.pc = "clamping", !.work = w])
    BY <1>1 DEF Reached, RequestFields
  <2>2. \A k, e : Reached(b, With(b, k, e))
    BY <1>1, WithReaches
  <2>3. \E to : Goes(j, to) /\ Reached(b, to)
    BY <1>4, <2>1, <2>2 DEF ReadTiers, Clamped, Given
  <2> QED
    BY <1>1, <1>2, <1>3, <1>4, <2>3, OnlyMoves DEF ReadTiers, Clamped
<1>5. CASE ClampTier(j)
  <2> DEFINE t == Head(b.work).tier
             patch == Head(b.work).patch
             c == [b EXCEPT !.pc = "publish", !.work = Tail(@)]
  <2>1. t \in TierId /\ IsPatch(patch)
    BY <1>1, <1>5, WorkGoesOn DEF ClampTier, Placed
  <2>2. CASE tiers[t] = None
    <3>1. Goes(j, Idle) /\ Reached(b, Idle)
      BY <1>5, <2>2 DEF ClampTier, Stops, Reached
    <3> QED
      BY <1>1, <1>2, <1>3, <1>5, <2>2, <3>1, OnlyMoves DEF ClampTier
  <2>3. CASE tiers[t] # None
    <3>1. tiers' = UpdateTier(t, patch) /\ Goes(j, Serving(c, t)) /\ docs' = docs
      BY <1>5, <2>3 DEF ClampTier
    <3>2. TiersCalm
      BY <2>1, <2>3, <3>1, TierLater DEF TermsInv
    <3>3. DOMAIN c = RequestFields /\ Same(b, c) /\ c.pc = "publish"
      BY <1>1 DEF Same, RequestFields
    <3> HIDE DEF c, t
    <3>4. Continues(b, Serving(c, t))
      BY <1>2, <3>3, ServingIs DEF Same, Continues
    <3>5. RequestsCalm
      BY <1>1, <3>1, <3>4, GoesIs DEF RequestsCalm
    <3> QED
      BY <1>2, <1>3, <3>1, <3>2, <3>5 DEF Calm, OfferCalm
  <2> QED
    BY <2>2, <2>3
<1>6. CASE Publish(j)
  <2> DEFINE d == [b EXCEPT !.pc = "clamping", !.served = NoOffer]
  <2>1. Continues(b, d)
    BY <1>1, <1>2 DEF Continues, RequestFields
  <2>2. Goes(j, d) /\ tiers' = tiers /\ docs \subseteq docs'
    BY <1>6 DEF Publish, Published
  <2> HIDE DEF d
  <2>3. RequestsCalm
    BY <1>1, <2>1, <2>2, GoesIs DEF RequestsCalm
  <2> QED
    BY <1>2, <1>3, <2>2, <2>3 DEF Calm, TiersCalm, OfferCalm
<1> QED
  BY <1>4, <1>5, <1>6

LEMMA EditingCalm ==
  ASSUME MembershipInv, TermsInv, VersionsInv, NEW j \in Job,
         ReadTier(j) \/ Write(j) \/ Serve(j)
  PROVE  Calm
<1> DEFINE b == job[j]
<1>1. Shaped /\ DOMAIN b = RequestFields /\ Carries(j, b) /\ Placed(b, copy)
  BY NotIdle, AtWork DEF MembershipInv, Shaped, ReadTier, Write, Serve
<1>2. UNCHANGED <<offer, granted, left>>
  BY DEF ReadTier, Write, Serve
<1>3. "writes" \in DOMAIN left' /\ left'.writes = left.writes
  BY <1>2, LeftStays
<1>4. CASE ReadTier(j)
  <2>1. b.kind = "edit"
    BY <1>1, <1>4 DEF ReadTier, Placed
  <2>2. \A x : Neutral([b EXCEPT !.pc = "write", !.patch = x]) /\ Neutral([b EXCEPT !.pc = "write"])
    BY <1>1, <2>1 DEF Neutral, RequestFields
  <2>3. \E to : Goes(j, to) /\ Neutral(to)
    BY <1>4, <2>2, IdleNeutral DEF ReadTier, Stops
  <2> QED
    BY <1>1, <1>2, <1>3, <1>4, <2>3, OnlyMoves DEF ReadTier
<1>5. CASE Write(j)
  <2> DEFINE c == [b EXCEPT !.pc = "serve"]
  <2>1. b.kind = "edit" /\ b.tier \in TierId /\ IsPatch(b.patch)
    BY <1>1, <1>5 DEF Write, Placed, Carries
  <2>2. CASE tiers[b.tier] = None
    BY <1>1, <1>2, <1>3, <1>5, <2>2, IdleNeutral, OnlyMoves DEF Write, Stops
  <2>3. CASE tiers[b.tier] # None
    <3>1. tiers' = UpdateTier(b.tier, b.patch) /\ Goes(j, Serving(c, b.tier)) /\ docs' = docs
      BY <1>5, <2>3 DEF Write
    <3>2. TiersCalm
      BY <2>1, <2>3, <3>1, TierLater DEF TermsInv
    <3>3. DOMAIN c = RequestFields /\ c.kind = "edit"
      BY <1>1, <2>1 DEF RequestFields
    <3> HIDE DEF c
    <3>4. Neutral(Serving(c, b.tier))
      BY <3>3, ServingIs DEF Same, Neutral
    <3>5. RequestsCalm
      BY <1>1, <3>1, <3>4, GoesIs DEF RequestsCalm
    <3> QED
      BY <1>2, <1>3, <3>1, <3>2, <3>5 DEF Calm, OfferCalm
  <2> QED
    BY <2>2, <2>3
<1>6. CASE Serve(j)
  <2>1. Goes(j, Idle) /\ tiers' = tiers /\ docs \subseteq docs'
    BY <1>6 DEF Serve, Stops, Published
  <2>2. RequestsCalm
    BY <1>1, <2>1, GoesIs, IdleNeutral DEF RequestsCalm
  <2> QED
    BY <1>2, <1>3, <2>1, <2>2 DEF Calm, TiersCalm, OfferCalm
<1> QED
  BY <1>4, <1>5, <1>6

LEMMA LeavingCalm ==
  ASSUME MembershipInv, VersionsInv, NEW j \in Job,
         Joined(j) \/ Leaving(j) \/ Block(j)
  PROVE  Calm
<1> DEFINE b == job[j]
<1>1. Shaped /\ DOMAIN b = RequestFields
  BY DEF MembershipInv, Shaped
<1>2. b.pc # "serve" /\ UNCHANGED <<tiers, docs, offer, granted, left>>
  BY DEF Joined, Leaving, Block
<1>3. "writes" \in DOMAIN left' /\ left'.writes = left.writes
  BY <1>2, LeftStays
<1>4. \A l \in {"clamp", "clear"} : Reached(b, [b EXCEPT !.pc = l])
  BY <1>1 DEF Reached, RequestFields
<1>5. \E to : Goes(j, to) /\ Reached(b, to)
  <2>1. Reached(b, Idle)
    BY DEF Reached
  <2> QED
    BY <1>4, <2>1 DEF Joined, Leaving, Block, Stops
<1> QED
  BY <1>1, <1>2, <1>3, <1>5, OnlyMoves

LEMMA VerdictCalm ==
  ASSUME MembershipInv, TermsInv, VersionsInv, NEW j \in Job,
         ClearanceToken(j) \/ ShutOut(j) \/ Verdict(j)
  PROVE  Calm
<1> DEFINE b == job[j]
<1>1. /\ j = Query /\ Shaped /\ DOMAIN b = RequestFields /\ Carries(j, b) /\ Placed(b, copy)
  BY TheAgents DEF MembershipInv, ClearanceToken, ShutOut, Verdict
<1>2. UNCHANGED <<tiers, docs, granted, left>>
  BY DEF ClearanceToken, ShutOut, Verdict
<1>3. "writes" \in DOMAIN left' /\ left'.writes = left.writes
  BY <1>2, LeftStays
<1>4. CASE Refused(j)
  <2>1. RequestsCalm /\ job'[Query] = Idle
    BY <1>1, <1>4, GoesIs, IdleNeutral DEF Refused, Stops, RequestsCalm
  <2> QED
    BY <1>2, <1>3, <1>4, <2>1, IdleNeutral DEF Calm, TiersCalm, OfferCalm, Refused
<1>5. ASSUME NEW to, Goes(j, to), Continues(b, to), UNCHANGED offer PROVE Calm
  <2>1. RequestsCalm
    BY <1>1, <1>5, GoesIs DEF RequestsCalm
  <2> QED
    BY <1>2, <1>3, <1>5, <2>1 DEF Calm, TiersCalm, OfferCalm
<1>6. CASE ClearanceToken(j)
  <2>1. \A x : Continues(b, [b EXCEPT !.pc = "attested", !.facts = x])
    BY <1>1, <1>6 DEF Continues, RequestFields, ClearanceToken
  <2> QED
    BY <1>5, <1>6, <2>1 DEF ClearanceToken
<1>7. CASE ShutOut(j) \/ Verdict(j)
  <2>1. b.kind \in {"verdict", "again"} /\ b.pc \in {"shut", "verdict"}
    BY <1>1, <1>7 DEF Placed, ShutOut, Verdict
  <2>2. \A l \in {"client", "issue"} :
          Continues(b, [b EXCEPT !.pc = l]) /\ Continues(b, [b EXCEPT !.kind = "again", !.pc = l])
    BY <1>1, <2>1 DEF Continues, RequestFields
  <2>3. \/ Refused(j)
        \/ \E l \in {"client", "issue"} :
             /\ Goes(j, [b EXCEPT !.pc = l]) \/ Goes(j, [b EXCEPT !.kind = "again", !.pc = l])
             /\ UNCHANGED offer
    BY <1>7 DEF ShutOut, Verdict
  <2> QED
    BY <1>4, <1>5, <2>2, <2>3
<1> QED
  BY <1>6, <1>7

LEMMA ArrivalCalm ==
  ASSUME MembershipInv, VersionsInv, NEW j \in Job, NEW r \in Replica,
         \/ Join(j, r) \/ Leave(j, r) \/ (j = Query /\ Ask(r))
         \/ \E n \in mail : Receive(j, r, n)
         \/ \E agent \in Agent : Shut(j, r, agent)
         \/ \E t \in TierId, patch \in Patches : Edit(j, r, t, patch)
  PROVE  Calm
<1>1. Shaped /\ job[j].pc # "serve" /\ UNCHANGED <<tiers, docs, offer, granted>>
  <2>1. job[j] = Idle
    BY DEF Join, Leave, Ask, Receive, Shut, Edit, Serves, Free
  <2>2. Idle.pc = "idle"
    BY DEF Idle
  <2>3. UNCHANGED <<tiers, docs, offer, granted>>
    BY DEF Join, Leave, Ask, Receive, Shut, Edit
  <2> QED
    BY <2>1, <2>2, <2>3 DEF MembershipInv
<1>2. "writes" \in DOMAIN left' /\ left'.writes = left.writes
  BY LeftStays DEF Join, Leave, Ask, Receive, Shut, Edit
<1>3. ASSUME NEW kind \in {"join", "leave", "ask", "notice", "shut", "edit"}, NEW b,
             DOMAIN b = RequestFields, b.kind = kind
      PROVE  /\ UseClient(j, b) => \E to : Goes(j, to) /\ Neutral(to)
             /\ Neutral(b)
  BY <1>3, UseReaches, IdleNeutral DEF Reached, Neutral
<1>4. \E to : Goes(j, to) /\ Neutral(to)
  <2>1. CASE Join(j, r)
    <3> DEFINE e == Envelope'
               b == [Starts(r, "join") EXCEPT !.pc = "joined", !.client = organization'.member,
                                              !.envelope = e]
    <3>1. DOMAIN b = RequestFields /\ b.kind = "join" /\ Goes(j, b)
      BY <2>1, StartsIs DEF RequestFields, Join
    <3> HIDE DEF b
    <3> QED
      BY <1>3, <3>1
  <2>2. CASE Leave(j, r) \/ (j = Query /\ Ask(r))
    BY <1>3, <2>2, StartsIs DEF Leave, Ask
  <2>3. ASSUME NEW n \in mail, Receive(j, r, n) PROVE \E to : Goes(j, to) /\ Neutral(to)
    <3> DEFINE b == Starts(r, "notice")
               d == [b EXCEPT !.pc = "clear"]
    <3>1. /\ DOMAIN b = RequestFields /\ b.kind = "notice"
          /\ DOMAIN d = RequestFields /\ d.kind = "notice"
          /\ Goes(j, b) \/ Goes(j, d)
      BY <2>3, StartsIs DEF RequestFields, Receive
    <3> HIDE DEF b, d
    <3> QED
      BY <1>3, <3>1
  <2>4. ASSUME NEW agent \in Agent, Shut(j, r, agent) PROVE \E to : Goes(j, to) /\ Neutral(to)
    <3> DEFINE b == [Starts(r, "shut") EXCEPT !.agent = agent]
    <3>1. DOMAIN b = RequestFields /\ b.kind = "shut" /\ UseClient(j, b)
      BY <2>4, StartsIs DEF RequestFields, Shut
    <3> HIDE DEF b
    <3> QED
      BY <1>3, <3>1
  <2>5. ASSUME NEW t \in TierId, NEW patch \in Patches, Edit(j, r, t, patch)
        PROVE  \E to : Goes(j, to) /\ Neutral(to)
    <3> DEFINE b == [Starts(r, "edit") EXCEPT !.tier = t, !.patch = patch]
    <3>1. DOMAIN b = RequestFields /\ b.kind = "edit"
      BY StartsIs DEF RequestFields
    <3>2. UseClient(j, b)
      BY <2>5 DEF Edit
    <3> HIDE DEF b
    <3> QED
      BY <1>3, <3>1, <3>2
  <2> QED
    BY <2>1, <2>2, <2>3, <2>4, <2>5
<1> QED
  BY <1>1, <1>2, <1>4, OnlyMoves

LEMMA ElsewhereCalm ==
  ASSUME TermsInv, VersionsInv,
         \/ PublishCharter \/ RemoveMember \/ Removed \/ Answered \/ UNCHANGED vars
         \/ \E shares \in Shares : SetRole(shares)
         \/ \E facts \in Clearances : SetClearance(facts)
         \/ \E agent \in Agent : OrgBlock(agent) \/ OrgRestore(agent)
         \/ \E t \in TierId : DeleteTier(t)
         \/ \E r \in Replica : CopyAges(r) \/ ClearanceAges(r) \/ RetryDue(r)
  PROVE  Calm
<1>1. job' = job /\ UNCHANGED <<docs, offer>>
  BY DEF PublishCharter, RemoveMember, Removed, Answered, SetRole, SetClearance, OrgBlock,
         OrgRestore, DeleteTier, CopyAges, ClearanceAges, RetryDue, vars
<1>2. granted' \in {granted, NoGrant}
  BY DEF PublishCharter, RemoveMember, Removed, Answered, SetRole, SetClearance, OrgBlock,
         OrgRestore, DeleteTier, CopyAges, ClearanceAges, RetryDue, vars
<1>3. tiers' = tiers \/ \E t \in TierId : tiers' = [tiers EXCEPT ![t] = None]
  BY DEF PublishCharter, RemoveMember, Removed, Answered, SetRole, SetClearance, OrgBlock,
         OrgRestore, DeleteTier, CopyAges, ClearanceAges, RetryDue, vars
<1>4. UNCHANGED left \/ \E kind : kind # "writes" /\ Does(kind)
  BY DEF PublishCharter, RemoveMember, Removed, Answered, SetRole, SetClearance, OrgBlock,
         OrgRestore, DeleteTier, CopyAges, ClearanceAges, RetryDue, vars
<1>5. TiersCalm
  BY <1>3 DEF TiersCalm, TermsInv, Termed
<1> QED
  BY <1>1, <1>2, <1>4, <1>5, LeftStays DEF Calm, RequestsCalm, OfferCalm

LEMMA CrashCalm ==
  ASSUME MembershipInv, VersionsInv, NEW r \in Replica, Crash(r)
  PROVE  Calm
<1>1. /\ \A j \in Job : job'[j] = IF job[j].at = r THEN Idle ELSE job[j]
      /\ offer' = IF job[Query] # Idle /\ job[Query].at = r THEN NoOffer ELSE offer
      /\ UNCHANGED <<tiers, docs, granted>>
  BY DEF Crash
<1>2. Query \in Job
  BY MembershipAssumption
<1>3. "writes" \in DOMAIN left' /\ left'.writes = left.writes
  BY LeftStays DEF Crash
<1> QED
  BY <1>1, <1>2, <1>3, IdleNeutral DEF Calm, RequestsCalm, TiersCalm, OfferCalm

-----------------------------------------------------------------------------
(* The steps that number terms, tell them, agree to them and grant them.    *)

LEMMA DraftVersions ==
  ASSUME MembershipInv, TermsInv, TermsInv', VersionsInv, NEW j \in Job, Draft(j)
  PROVE  VersionsInv'
<1> DEFINE b == job[j]
           last == {0} \cup {d.version : d \in {e \in docs : e.tier = b.tier}}
           n == Max(last) + 1
           narrowed == IF b.client = NoToken THEN b.terms ELSE Clamp(b.terms, OrgEnvelope(b.envelope))
           terms == [narrowed EXCEPT !.version = n]
           d == [b EXCEPT !.pc = "insert", !.terms = terms]
<1>1. Shaped /\ Carries(j, b) /\ Placed(b, copy) /\ DOMAIN b = RequestFields
  BY NotIdle, AtWork DEF MembershipInv, Carries, Draft
<1>2. b.kind = "create" /\ b.pc = "draft" /\ IsTerms(b.terms) /\ j # Query
  BY <1>1 DEF Draft, Placed, Carries, AgentKinds
<1>3. UNCHANGED <<tiers, docs, offer, granted, left>>
  BY DEF Draft
<1>4. CASE Stops(j)
  <2>1. Calm
    BY <1>1, <1>2, <1>3, <1>4, IdleNeutral, LeftStays, OnlyMoves DEF Stops
  <2> QED
    BY <2>1, CalmKeeps
<1>5. CASE Goes(j, d)
  <2>1. Max(last) \in Nat /\ \A e \in docs : e.tier = b.tier => e.version <= Max(last)
    BY NextNumber DEF TermsInv
  <2> HIDE DEF last
  <2>2. "version" \in DOMAIN narrowed
    BY <1>2 DEF Clamp, IsTerms, TermFields
  <2> HIDE DEF narrowed
  <2>3. terms.version = Max(last) + 1
    BY <2>2
  <2> HIDE DEF terms
  <2>4. d.kind = "create" /\ d.pc = "insert" /\ d.tier = b.tier /\ d.terms = terms
    BY <1>1, <1>2 DEF RequestFields
  <2>5. job'[j] = d /\ \A i \in Job \ {j} : job'[i] = job[i]
    BY <1>1, <1>5, GoesIs
  <2> HIDE DEF d
  <2>6. Query \in Job /\ job'[Query] = job[Query]
    BY <1>2, <2>5, MembershipAssumption
  <2>7. \A i \in Job : Pending(i)' => Pending(i) /\ job'[i].tier = job[i].tier
    BY <1>2, <2>4, <2>5 DEF Pending
  <2>8. WrittenOnce'
    BY <1>3, <2>7 DEF VersionsInv, WrittenOnce, Creates
  <2>9. offer # NoOffer /\ job[j].tier = offer.tier => terms.version > offer.terms.version
    <3> SUFFICES ASSUME offer # NoOffer, b.tier = offer.tier
                 PROVE  terms.version > offer.terms.version
      OBVIOUS
    <3>1. offer.terms.version <= Max(last)
      BY <2>1 DEF VersionsInv, Offered
    <3>2. offer.terms.version \in Nat
      BY DEF TermsInv, Termed, IsTerms
    <3> QED
      BY <2>1, <2>3, <3>1, <3>2
  <2>10. Overtaken'
    <3>1. \A i \in Job : job'[i].kind = "create" /\ job'[i].pc = "insert" =>
            \/ i = j /\ job'[i].tier = job[j].tier /\ job'[i].terms = terms
            \/ job'[i] = job[i]
      BY <2>4, <2>5
    <3> QED
      BY <1>3, <2>6, <2>9, <3>1 DEF VersionsInv, Overtaken, Creates
  <2> QED
    BY <1>3, <2>6, <2>8, <2>10 DEF VersionsInv, Offered, Agreed, GrantIsOfTheOffer, Creates
<1>6. Stops(j) \/ Goes(j, d)
  BY DEF Draft
<1> QED
  BY <1>4, <1>5, <1>6

LEMMA InsertVersions ==
  ASSUME MembershipInv, TermsInv, TermsInv', VersionsInv, NEW j \in Job, Insert(j)
  PROVE  VersionsInv'
<1> DEFINE b == job[j]
           c == [b EXCEPT !.pc = "serve"]
           d == Serving(c, b.tier)
<1>1. Shaped /\ Carries(j, b) /\ Placed(b, copy) /\ DOMAIN b = RequestFields
  BY NotIdle, AtWork DEF MembershipInv, Carries, Insert
<1>2. b.kind = "create" /\ b.pc = "insert" /\ b.tier \in TierId /\ j # Query
  BY <1>1 DEF Insert, Placed, Carries, AgentKinds
<1>3. UNCHANGED <<docs, offer, granted, left>>
  BY DEF Insert
<1>4. CASE tiers[b.tier] # None
  <2>1. Calm
    BY <1>1, <1>2, <1>3, <1>4, IdleNeutral, LeftStays, OnlyMoves DEF Insert, Stops
  <2> QED
    BY <2>1, CalmKeeps
<1>5. CASE tiers[b.tier] = None
  <2>1. tiers' = [tiers EXCEPT ![b.tier] = b.terms] /\ Goes(j, d)
    BY <1>5 DEF Insert
  <2>2. DOMAIN c = RequestFields /\ Same(b, c) /\ c.pc = "serve"
    BY <1>1 DEF Same, RequestFields
  <2> HIDE DEF c
  <2>3. d.kind = "create" /\ d.pc = "serve"
    BY <1>2, <2>2, ServingIs DEF Same
  <2>4. job'[j] = d /\ \A i \in Job \ {j} : job'[i] = job[i]
    BY <1>1, <2>1, GoesIs
  <2> HIDE DEF d
  <2>5. Query \in Job /\ job'[Query] = job[Query]
    BY <1>2, <2>4, MembershipAssumption
  <2>6. \A i \in Job : Pending(i)' => Pending(i) /\ i # j
    BY <2>3, <2>4 DEF Pending
  <2>7. Pending(j)
    BY <1>2 DEF Pending
  <2>8. WrittenOnce'
    BY <1>3, <2>6, <2>7 DEF VersionsInv, WrittenOnce, Creates
  <2>9. \A t \in TierId : tiers'[t] = IF t = b.tier THEN b.terms ELSE tiers[t]
    BY <2>1 DEF TermsInv, Termed
  <2>10. offer # NoOffer => offer.tier \in TierId
    BY DEF TermsInv, Termed
  <2>11. \A i \in Job : job'[i].kind = "create" /\ job'[i].pc = "insert" => job'[i] = job[i]
    BY <2>3, <2>4
  <2>12. Overtaken'
    BY <1>2, <1>3, <2>5, <2>9, <2>10, <2>11 DEF VersionsInv, Overtaken, Creates
  <2> QED
    BY <1>3, <2>5, <2>8, <2>12 DEF VersionsInv, Offered, Agreed, GrantIsOfTheOffer, Creates
<1> QED
  BY <1>4, <1>5

(* The agent's step leaves what is pending as it is.                        *)
LEMMA AgentsStep ==
  ASSUME MembershipInv, VersionsInv, NEW to, Goes(Query, to), to.kind # "create",
         UNCHANGED <<tiers, left>>
  PROVE  /\ WrittenOnce' /\ job'[Query] = to
         /\ \A i \in Job : job'[i].kind = "create" => job'[i] = job[i]
<1>1. Query \in Job /\ job'[Query] = to /\ \A i \in Job \ {Query} : job'[i] = job[i]
  BY GoesIs, MembershipAssumption DEF MembershipInv
<1>2. \A i \in Job : job'[i].kind = "create" => job'[i] = job[i]
  BY <1>1
<1>3. WrittenOnce'
  BY <1>2 DEF VersionsInv, WrittenOnce, Creates, Pending
<1> QED
  BY <1>1, <1>2, <1>3

LEMMA DictatesVersions ==
  ASSUME MembershipInv, TermsInv, VersionsInv, UNCHANGED <<tiers, granted, left>>,
         DOMAIN job[Query] = RequestFields, job[Query].kind = "agree" => job[Query].base \in Nat,
         NEW t \in TierId, NEW tier, IsTerms(tier), Dictates(job[Query], t, tier),
         (Creates <= 1 /\ job[Query].kind = "agree" /\ offer # NoOffer
            /\ job[Query].base > offer.terms.version /\ offer.tier = t)
           => tier.version > offer.terms.version
  PROVE  VersionsInv'
<1> DEFINE b == job[Query]
           d == [b EXCEPT !.kind = "verdict", !.pc = "shut", !.tier = t, !.facts = <<>>,
                          !.terms = offer.terms]
<1>1. Creates' = Creates
  BY DEF Creates
<1>2. CASE b.kind = "agree" /\ Stands(t, tier)
  <2>1. /\ offer.tier = t /\ offer.terms.version = tier.version /\ Goes(Query, d)
        /\ UNCHANGED <<offer, docs>>
    BY <1>2 DEF Dictates, Stands
  <2>2. offer # NoOffer /\ tier.version \in Nat
    BY <2>1, MembershipAssumption DEF NoOffer, IsTerms
  <2>3. Creates <= 1 => offer.terms.version >= b.base
    BY <1>2, <2>1, <2>2
  <2>4. d.kind = "verdict" /\ d.terms = offer.terms /\ d.base = b.base
    BY DEF RequestFields
  <2> HIDE DEF d
  <2>5. WrittenOnce' /\ job'[Query] = d
    BY <2>1, <2>4, AgentsStep
  <2>6. Overtaken' /\ Agreed'
    BY <1>1, <2>3, <2>4, <2>5 DEF Overtaken, Agreed
  <2> QED
    BY <1>1, <2>1, <2>5, <2>6 DEF VersionsInv, Offered, GrantIsOfTheOffer, Creates
<1>3. CASE ~(b.kind = "agree" /\ Stands(t, tier))
  <2>1. /\ offer' = [tier |-> t, terms |-> tier] /\ docs' = Published(t, tier)
        /\ Goes(Query, Idle)
    BY <1>3 DEF Dictates, Stops
  <2>2. WrittenOnce' /\ job'[Query] = Idle
    BY <2>1, AgentsStep, IdleNeutral DEF Neutral
  <2>3. Overtaken' /\ Agreed'
    BY <2>2, IdleNeutral DEF Overtaken, Agreed, Neutral
  <2>4. Offered'
    BY <2>1 DEF Offered, Published
  <2> QED
    BY <1>1, <2>2, <2>3, <2>4 DEF VersionsInv, GrantIsOfTheOffer, Creates
<1> QED
  BY <1>2, <1>3

LEMMA RefusedCalm ==
  ASSUME MembershipInv, VersionsInv, Refused(Query), UNCHANGED <<tiers, docs, granted, left>>
  PROVE  Calm
<1>1. Query \in Job /\ Shaped /\ Goes(Query, Idle) /\ offer' = NoOffer
  BY MembershipAssumption DEF MembershipInv, Refused, Stops
<1>2. RequestsCalm /\ job'[Query] = Idle
  BY <1>1, GoesIs, IdleNeutral DEF RequestsCalm
<1> QED
  BY <1>1, <1>2, IdleNeutral, LeftStays DEF Calm, TiersCalm, OfferCalm

LEMMA PolicyVersions ==
  ASSUME MembershipInv, TermsInv, TermsInv', VersionsInv, NEW j \in Job, Policy(j)
  PROVE  VersionsInv'
<1> DEFINE b == job[Query]
<1>1. /\ j = Query /\ DOMAIN b = RequestFields
      /\ b.kind \in {"ask", "agree"}
      /\ b.kind = "agree" => b.base \in Nat
  BY TheAgents DEF Policy, Placed, Carries
<1>2. UNCHANGED <<tiers, granted, left>>
  BY DEF Policy
<1>3. CASE Refused(Query) /\ UNCHANGED docs
  BY <1>1, <1>2, <1>3, RefusedCalm, CalmKeeps
<1>4. \A t \in TierFor(Asked) :
        /\ t \in TierId /\ IsTerms(tiers[t])
        /\ (Creates <= 1 /\ b.kind = "agree" /\ offer # NoOffer
              /\ b.base > offer.terms.version /\ offer.tier = t)
             => tiers[t].version > offer.terms.version
  BY <1>1 DEF TierFor, TermsInv, Termed, VersionsInv, Overtaken
<1>5. ASSUME NEW t \in TierFor(Asked), Dictates(b, t, tiers[t]) PROVE VersionsInv'
  BY <1>1, <1>2, <1>4, <1>5, DictatesVersions
<1>6. ASSUME NEW t \in TierFor(Asked), UNCHANGED <<offer, docs>>,
             Goes(Query, [b EXCEPT !.pc = "attest", !.tier = t, !.terms = tiers[t]])
      PROVE  VersionsInv'
  <2> DEFINE d == [b EXCEPT !.pc = "attest", !.tier = t, !.terms = tiers[t]]
  <2>1. d.kind = b.kind /\ d.base = b.base /\ d.tier = t /\ d.terms = tiers[t]
    BY <1>1 DEF RequestFields
  <2>2. Goes(Query, d)
    BY <1>6
  <2> HIDE DEF d
  <2>3. /\ WrittenOnce' /\ job'[Query] = d
        /\ \A i \in Job : job'[i].kind = "create" => job'[i] = job[i]
    BY <1>1, <1>2, <2>1, <2>2, AgentsStep
  <2>4. Overtaken'
    BY <1>1, <1>2, <1>4, <1>6, <2>1, <2>3 DEF VersionsInv, Overtaken, Creates
  <2>5. Agreed'
    BY <1>1, <2>1, <2>3 DEF Agreed
  <2> QED
    BY <1>2, <1>6, <2>3, <2>4, <2>5 DEF VersionsInv, Offered, GrantIsOfTheOffer, Creates
<1>7. \/ Refused(Query) /\ UNCHANGED docs
      \/ \E t \in TierFor(Asked) :
           \/ Dictates(b, t, tiers[t])
           \/ /\ Goes(Query, [b EXCEPT !.pc = "attest", !.tier = t, !.terms = tiers[t]])
              /\ UNCHANGED <<offer, docs>>
  BY <1>1 DEF Policy
<1> QED
  BY <1>3, <1>5, <1>6, <1>7

LEMMA AttestedVersions ==
  ASSUME MembershipInv, TermsInv, TermsInv', VersionsInv, NEW j \in Job, ClearanceUnmet(j)
  PROVE  VersionsInv'
<1> DEFINE b == job[Query]
<1>1. /\ j = Query /\ DOMAIN b = RequestFields /\ b.pc = "attested"
      /\ b.kind = "agree" => b.base \in Nat
      /\ b.tier \in TierId /\ IsTerms(b.terms)
  BY TheAgents DEF ClearanceUnmet, Placed, Carries
<1>2. UNCHANGED <<tiers, granted, left>>
  BY DEF ClearanceUnmet
<1>3. CASE Refused(Query) /\ UNCHANGED docs
  BY <1>1, <1>2, <1>3, RefusedCalm, CalmKeeps
<1>4. CASE Dictates(b, b.tier, b.terms)
  <2>1. (Creates <= 1 /\ b.kind = "agree" /\ offer # NoOffer
           /\ b.base > offer.terms.version /\ offer.tier = b.tier)
          => b.terms.version > offer.terms.version
    BY <1>1 DEF VersionsInv, Overtaken
  <2> QED
    BY <1>1, <1>2, <1>4, <2>1, DictatesVersions
<1> QED
  BY <1>1, <1>3, <1>4 DEF ClearanceUnmet

LEMMA LesserOfTwo ==
  ASSUME NEW m \in Int, NEW n \in Int
  PROVE  Min({m, n}) <= n
<1>1. \E k \in {m, n} : \A o \in {m, n} : k <= o
  OBVIOUS
<1> QED
  BY <1>1 DEF Min

LEMMA IssueVersions ==
  ASSUME MembershipInv, TermsInv, TermsInv', VersionsInv, NEW j \in Job, Issue(j)
  PROVE  VersionsInv'
<1> DEFINE b == job[j]
<1>1. /\ j = Query /\ b.kind \in {"verdict", "again"} /\ b.tier \in TierId /\ IsTerms(b.terms)
  BY TheAgents DEF Issue, Placed, Carries
<1>2. Goes(Query, Idle) /\ offer' = NoOffer /\ UNCHANGED <<tiers, docs, left>>
  BY <1>1 DEF Issue, Refused, Stops
<1>3. WrittenOnce' /\ job'[Query] = Idle
  BY <1>2, AgentsStep, IdleNeutral DEF Neutral
<1>4. Offered' /\ Overtaken' /\ Agreed'
  BY <1>2, <1>3, IdleNeutral DEF Offered, Overtaken, Agreed, Neutral
<1>5. CASE granted' = granted
  BY <1>2, <1>3, <1>4, <1>5 DEF VersionsInv, GrantIsOfTheOffer
<1>6. CASE /\ tiers[b.tier] # None
           /\ granted' = [signed |-> b.terms.version, base |-> b.base,
                          agreed |-> b.terms.expires_in,
                          lifetime |-> Lifetime(tiers[b.tier], b.terms.expires_in)]
  <2>1. tiers[b.tier].expires_in \in Int /\ b.terms.expires_in \in Int
    BY <1>1, <1>6 DEF TermsInv, Termed, IsTerms
  <2>2. granted'.lifetime <= granted'.agreed
    BY <1>6, <2>1, LesserOfTwo DEF Lifetime
  <2>3. Creates <= 1 => b.terms.version >= b.base
    BY <1>1 DEF VersionsInv, Agreed
  <2>4. GrantIsOfTheOffer'
    BY <1>2, <1>6, <2>2, <2>3 DEF GrantIsOfTheOffer, Creates
  <2> QED
    BY <1>3, <1>4, <2>4 DEF VersionsInv
<1> QED
  BY <1>5, <1>6 DEF Issue

LEMMA CreateVersions ==
  ASSUME MembershipInv, TermsInv, VersionsInv, NEW j \in Job, NEW r \in Replica,
         NEW t \in TierId, NEW spec \in Specs, Create(j, r, t, spec)
  PROVE  VersionsInv'
<1> DEFINE b == [Starts(r, "create") EXCEPT !.tier = t, !.terms = spec]
<1>1. /\ DOMAIN b = RequestFields /\ b.kind = "create" /\ b.tier = t
  BY StartsIs DEF RequestFields
<1>2. UseClient(j, b) /\ j # Query /\ tiers[t] = None /\ UNCHANGED <<tiers, docs, offer, granted>>
  BY DEF Create, Serves, MayWrite
<1>3. "writes" \in DOMAIN left' /\ left'.writes = left.writes - 1
  BY DEF Create, Does, VersionsInv, WrittenOnce
<1>4. Creates' = Creates + 1 /\ Creates \in Nat /\ left'.writes \in Int
  BY <1>3, MembershipAssumption DEF Creates, VersionsInv, WrittenOnce
<1> HIDE DEF b
<1>5. PICK to : Goes(j, to) /\ Reached(b, to)
  BY <1>1, <1>2, UseReaches
<1>6. job'[j] = to /\ \A i \in Job \ {j} : job'[i] = job[i]
  BY <1>5, GoesIs DEF MembershipInv
<1>7. to.kind = "create" => to.tier = t /\ to.pc # "insert"
  BY <1>1, <1>5, IdleNeutral DEF Reached, Neutral
<1>8. Query \in Job /\ job'[Query] = job[Query]
  BY <1>2, <1>6, MembershipAssumption
<1>9. WrittenOnce'
  <2>1. \A i \in Job : Pending(i)' => Pending(i) \/ (i = j /\ job'[i].tier = t)
    BY <1>6, <1>7 DEF Pending
  <2>2. \A i \in Job : Pending(i) => Creates > 0
    BY DEF VersionsInv, WrittenOnce
  <2>3. Creates' <= 1 => \A i \in Job : ~Pending(i)
    BY <1>4, <2>2
  <2>4. Creates' \in Nat /\ Creates' > 0
    BY <1>4
  <2> QED
    BY <1>2, <1>3, <1>4, <2>1, <2>3, <2>4 DEF WrittenOnce
<1>10. Overtaken'
  <2>1. \A i \in Job : job'[i].kind = "create" /\ job'[i].pc = "insert" => job'[i] = job[i]
    BY <1>6, <1>7
  <2>2. Creates' <= 1 => Creates <= 1
    BY <1>4
  <2> QED
    BY <1>2, <1>8, <2>1, <2>2 DEF VersionsInv, Overtaken
<1>11. Agreed' /\ Offered' /\ GrantIsOfTheOffer'
  BY <1>2, <1>4, <1>8 DEF VersionsInv, Agreed, Offered, GrantIsOfTheOffer, Creates
<1> QED
  BY <1>9, <1>10, <1>11 DEF VersionsInv

LEMMA AgreeVersions ==
  ASSUME MembershipInv, TermsInv, VersionsInv, NEW r \in Replica, Agree(r)
  PROVE  VersionsInv'
<1> DEFINE n == IF tiers[offer.tier] = None THEN 0 ELSE tiers[offer.tier].version
           b == [Starts(r, "agree") EXCEPT !.base = n]
<1>1. DOMAIN b = RequestFields /\ b.kind = "agree" /\ b.base = n
  BY StartsIs DEF RequestFields
<1>2. /\ UseClient(Query, b) /\ offer # NoOffer /\ Query \in Job
      /\ UNCHANGED <<tiers, docs, offer, granted, left>>
  BY MembershipAssumption DEF Agree
<1> HIDE DEF b
<1>3. PICK to : Goes(Query, to) /\ Reached(b, to)
  BY <1>1, <1>2, UseReaches
<1>4. to = Idle \/ (to.kind = "agree" /\ to.base = n /\ to.pc \notin {"attest", "attested"})
  BY <1>1, <1>3 DEF Reached
<1>5. to.kind \in {"agree", "idle"}
  BY <1>4 DEF Idle
<1>6. /\ WrittenOnce' /\ job'[Query] = to
      /\ \A i \in Job : job'[i].kind = "create" => job'[i] = job[i]
  BY <1>2, <1>3, <1>5, AgentsStep
<1>7. Overtaken'
  <2> SUFFICES ASSUME Creates <= 1, to.kind = "agree", to.base > offer.terms.version
               PROVE  /\ tiers[offer.tier] # None => tiers[offer.tier].version > offer.terms.version
                      /\ \A i \in Job : job[i].kind = "create" /\ job[i].pc = "insert" =>
                           job[i].tier # offer.tier
                      /\ to.pc \notin {"attest", "attested"}
    BY <1>2, <1>6 DEF Overtaken, Creates
  <2>1. to.base = n /\ to.pc \notin {"attest", "attested"}
    BY <1>4 DEF Idle
  <2>2. offer.terms.version \in Nat
    BY <1>2 DEF TermsInv, Termed, IsTerms
  <2>3. tiers[offer.tier] # None /\ tiers[offer.tier].version > offer.terms.version
    BY <2>1, <2>2
  <2>4. \A i \in Job : job[i].kind = "create" /\ job[i].pc = "insert" => tiers[job[i].tier] = None
    BY DEF VersionsInv, WrittenOnce, Pending
  <2> QED
    BY <2>1, <2>3, <2>4
<1>8. Agreed'
  BY <1>5, <1>6 DEF Agreed
<1> QED
  BY <1>2, <1>6, <1>7, <1>8 DEF VersionsInv, Offered, GrantIsOfTheOffer, Creates

-----------------------------------------------------------------------------

LEMMA VersionsKept ==
  ASSUME MembershipInv, TermsInv, TermsInv', VersionsInv, [Next]_vars
  PROVE  VersionsInv'
<1>1. ASSUME NEW j \in Job, Progress(j) \/ FetchFails(j) PROVE VersionsInv'
  <2>1. CASE Draft(j) \/ Insert(j) \/ Policy(j) \/ ClearanceUnmet(j) \/ Issue(j)
    BY <2>1, DraftVersions, InsertVersions, PolicyVersions, AttestedVersions, IssueVersions
  <2>2. CASE ~(Draft(j) \/ Insert(j) \/ Policy(j) \/ ClearanceUnmet(j) \/ Issue(j))
    <3>1. Calm
      BY <1>1, <2>2, ReadingCalm, ClampingCalm, EditingCalm, LeavingCalm, VerdictCalm DEF Progress
    <3> QED
      BY <3>1, CalmKeeps
  <2> QED
    BY <2>1, <2>2
<1>2. ASSUME NEW j \in Job, NEW r \in Replica, Arrives(j, r) PROVE VersionsInv'
  <2>1. CASE \E t \in TierId, spec \in Specs : Create(j, r, t, spec)
    BY <2>1, CreateVersions
  <2>2. CASE ~ \E t \in TierId, spec \in Specs : Create(j, r, t, spec)
    <3>1. Calm
      BY <1>2, <2>2, ArrivalCalm DEF Arrives
    <3> QED
      BY <3>1, CalmKeeps
  <2> QED
    BY <2>1, <2>2
<1>3. ASSUME NEW r \in Replica,
             Ask(r) \/ Agree(r) \/ CopyAges(r) \/ ClearanceAges(r) \/ RetryDue(r) \/ Crash(r)
      PROVE  VersionsInv'
  <2>1. Query \in Job
    BY MembershipAssumption
  <2>2. CASE Agree(r)
    BY <2>2, AgreeVersions
  <2>3. CASE ~Agree(r)
    <3>1. Calm
      BY <1>3, <2>1, <2>3, ArrivalCalm, ElsewhereCalm, CrashCalm
    <3> QED
      BY <3>1, CalmKeeps
  <2> QED
    BY <2>2, <2>3
<1>4. ASSUME \/ PublishCharter \/ RemoveMember \/ Removed \/ Answered \/ UNCHANGED vars
             \/ \E shares \in Shares : SetRole(shares)
             \/ \E facts \in Clearances : SetClearance(facts)
             \/ \E agent \in Agent : OrgBlock(agent) \/ OrgRestore(agent)
             \/ \E t \in TierId : DeleteTier(t)
      PROVE  VersionsInv'
  BY <1>4, ElsewhereCalm, CalmKeeps
<1> QED
  BY <1>1, <1>2, <1>3, <1>4 DEF Next

LEMMA VersionsFirst == Init => VersionsInv
<1> SUFFICES ASSUME Init PROVE VersionsInv
  OBVIOUS
<1>1. /\ "writes" \in DOMAIN left /\ left.writes = MaxWrites /\ MaxWrites \in Nat
      /\ offer = NoOffer /\ granted = NoGrant
      /\ Query \in Job /\ \A j \in Job : job[j] = Idle
  BY MembershipAssumption DEF Init
<1>2. Creates = 0
  BY <1>1 DEF Creates
<1>3. \A j \in Job : ~Pending(j)
  BY <1>1, IdleNeutral DEF Pending, Neutral
<1>4. Overtaken /\ Agreed
  BY <1>1, IdleNeutral DEF Overtaken, Agreed, Neutral
<1>5. GrantIsOfTheOffer
  BY <1>1 DEF GrantIsOfTheOffer, NoGrant
<1> QED
  BY <1>1, <1>2, <1>3, <1>4, <1>5 DEF VersionsInv, WrittenOnce, Offered

(* A grant is on terms that still stood when the agreement to them arrived, *)
(* of the versions that a tier has while it is written anew once at most,   *)
(* and lasts no longer than was agreed, on however many replicas, and       *)
(* whatever she, the organization and the clamp make of the tier meanwhile. *)
THEOREM GrantsAreOfTheOffer == Spec => []GrantIsOfTheOffer
<1>1. VersionsInv => GrantIsOfTheOffer
  BY DEF VersionsInv
<1> QED
  BY <1>1, VersionsFirst, VersionsKept, TermsHold, MembershipHolds, PTL DEF Spec
=============================================================================
