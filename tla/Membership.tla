----------------------------- MODULE Membership -----------------------------
(***************************************************************************)
(* An owner's membership of an organization, at her authority              *)
(* (services/uma-as/app.py, services/uma-as/org.py), which runs as several *)
(* replicas over one store.                                                *)
(*                                                                         *)
(* The membership is a row of the store: the token of the enrolment, the   *)
(* envelope last read, and the agents that the organization shuts out.     *)
(* Every replica also has a client of its own, with a copy of the envelope *)
(* that grows old; whichever request finds it old reads the envelope again,*)
(* stores it and, when the charter has changed, narrows her terms to it,   *)
(* before it goes on with what it came for.                                *)
(*                                                                         *)
(* A request is a job: `pc` is the store call or the call to the           *)
(* organization that it is about to make.  Between two of them every other *)
(* job may move.  The organization is its charter in force, the one        *)
(* membership of this owner, and what her role shares with her; it is      *)
(* modelled in full by the module Organization.                            *)
(***************************************************************************)
EXTENDS Ceiling, FiniteSets, Sequences, FiniteSetsExt, SequencesExt

CONSTANTS
  Replica,       \* the processes of her authority
  Job,           \* requests in flight
  Query,         \* the one of them that is the agent's, as there is one ticket
  TierId,        \* the tiers she may have
  Joint,         \* the resources she holds with somebody else
  Agent,         \* the agents that an administrator may shut out
  Asker, Asked,  \* the agent of it, and the resource that it negotiates over
  Charters,      \* the bounds of each version of the charter
  Shares,        \* what a role may share
  DefaultShares, \* what the role of an enrolment shares
  FirstTiers,    \* the tiers she begins with
  Patches,       \* the edits she may make
  Specs,         \* the tiers she may write
  None,
  MaxJoins, MaxLeaves, MaxRemovals, MaxRoles, MaxNotices, MaxEdits, MaxWrites,
  Clearances,    \* what the organization may attest to of her
  MaxDeletes, MaxBlocks, MaxClearances, MaxFailures, MaxCrashes,
  MaxEvents      \* how many of those there are in all

(* Terms are a record of their fields, the version included.                *)
TermFields ==
  {"resources", "ask_me", "expires_in", "scope", "prohibited", "clearance", "version"}

IsTerms(x) == DOMAIN x = TermFields /\ x.expires_in \in Int /\ x.version \in Nat

(* A patch, when it says for how long, says it as a number.                 *)
IsPatch(x) == "expires_in" \in DOMAIN x => x["expires_in"] \in Int

ASSUME MembershipAssumption ==
  /\ {MaxJoins, MaxWrites} \subseteq Nat
  /\ Query \in Job
  /\ IsFiniteSet(TierId) /\ None \notin TierId
  /\ Len(Charters) \in Nat \ {0}
  /\ \A v \in 1..Len(Charters) :
       "max_expires_in" \in DOMAIN Charters[v] /\ Charters[v].max_expires_in \in Nat
  /\ DOMAIN FirstTiers = TierId /\ \A t \in TierId : FirstTiers[t] # None => IsTerms(FirstTiers[t])
  /\ \A spec \in Specs : IsTerms(spec)
  /\ \A patch \in Patches : IsPatch(patch)

VARIABLES
  organization,  \* the organization: its charter, her membership, what is shared
  mail,          \* the notices it has sent
  record,        \* the stored membership
  tiers,         \* the stored tiers
  docs,          \* the terms documents published, by tier and version
  spent,         \* the notices received
  cache,         \* each replica's client, by the token it holds
  copy,          \* what that client knows
  job,
  offer,         \* the terms an agent was told, and has not yet agreed to
  granted,       \* the grant that is on its way to the agent
  acted,         \* how often each notice was acted upon
  left           \* what the bounds leave

vars == <<organization, mail, record, tiers, docs, spent, cache, copy, job,
          offer, granted, acted, left>>

Token == 1..MaxJoins
NoToken == 0
Notice == 1..MaxNotices
Ages == {"fresh", "stale", "dead"}

NoRecord == [token |-> NoToken, envelope |-> <<>>, blocked |-> {}]
NoCopy == [envelope |-> <<>>, age |-> "fresh", failing |-> FALSE, attested |-> <<>>]
NoOffer == [tier |-> None, terms |-> None]
NoGrant == [signed |-> 0, base |-> 0, agreed |-> 0, lifetime |-> 0]

Idle == [kind |-> "idle", at |-> None, pc |-> "idle", agent |-> None, facts |-> <<>>,
         client |-> NoToken, envelope |-> <<>>, known |-> 0, tier |-> None,
         terms |-> None, patch |-> NoPatch, work |-> <<>>, served |-> NoOffer, base |-> 0]

Enrolled == record # NoRecord

(* A version of the charter and what is shared, as the envelope that the    *)
(* tiers are held to, with what it may not reach taken out, or not.         *)
Bounds(envelope, excluded) ==
  LET charter == Charters[envelope.charter_version] IN
  [field \in DOMAIN charter \cup {"excluded"} |->
     IF field = "excluded" THEN excluded ELSE charter[field]]

(* What is shared with her is in its reach although she holds it jointly.   *)
OrgEnvelope(envelope) == Bounds(envelope, Joint \ envelope.grants)

TierFor(resource) ==
  {t \in TierId : tiers[t] # None /\ resource \in tiers[t].resources}

Init ==
  /\ organization = [charter |-> 1, member |-> NoToken, shares |-> {}, clearance |-> <<>>,
                     joins |-> 0, removing |-> FALSE]
  /\ mail = {}
  /\ record = NoRecord
  /\ tiers = FirstTiers
  /\ docs = {[tier |-> t, version |-> FirstTiers[t].version] :
               t \in {u \in TierId : FirstTiers[u] # None}}
  /\ spent = {}
  /\ cache = [r \in Replica |-> NoToken]
  /\ copy = [r \in Replica |-> [k \in Token |-> NoCopy]]
  /\ job = [j \in Job |-> Idle]
  /\ offer = NoOffer
  /\ granted = NoGrant
  /\ acted = [n \in Notice |-> 0]
  /\ left = [leaves |-> MaxLeaves, removals |-> MaxRemovals, roles |-> MaxRoles,
             edits |-> MaxEdits, writes |-> MaxWrites, deletes |-> MaxDeletes,
             failures |-> MaxFailures, blocks |-> MaxBlocks,
             clearances |-> MaxClearances, crashes |-> MaxCrashes, events |-> MaxEvents]
-----------------------------------------------------------------------------
(* The bounds: so many of each kind, and so many in all.                    *)

May(kind) == left[kind] > 0 /\ left.events > 0
Does(kind) == left' = [left EXCEPT ![kind] = @ - 1, !.events = @ - 1]

(* The organization.                                                        *)

Envelope == [charter_version |-> organization.charter, grants |-> organization.shares]

(* What it says of a member, it says of nobody else.                        *)
NoMember == [organization EXCEPT !.member = NoToken, !.shares = {}, !.clearance = <<>>]

Sent(kind) == {[id |-> Cardinality(mail) + 1, kind |-> kind]}

(* A notice that does not arrive is not sent again.                         *)
Notifies(kind) ==
  IF Cardinality(mail) < MaxNotices THEN mail' = mail \cup Sent(kind) ELSE UNCHANGED mail

(* A new version of the charter is in force, and she is told.               *)
PublishCharter ==
  /\ organization.charter < Len(Charters)
  /\ organization' = [organization EXCEPT !.charter = @ + 1]
  /\ IF organization.member # NoToken THEN Notifies("charter_changed") ELSE UNCHANGED mail
  /\ UNCHANGED <<record, tiers, docs, spent, cache, copy, job, offer, granted, acted, left>>

(* An administrator gives her a role, which shares something else.          *)
SetRole(shares) ==
  /\ organization.member # NoToken /\ shares # organization.shares /\ May("roles")
  /\ Does("roles")
  /\ organization' = [organization EXCEPT !.shares = shares]
  /\ Notifies("role_changed")
  /\ UNCHANGED <<record, tiers, docs, spent, cache, copy, job, offer, granted, acted>>

(* An administrator sets what the organization will attest to of her, or    *)
(* withdraws it; she is not told.                                           *)
SetClearance(facts) ==
  /\ organization.member # NoToken /\ facts # organization.clearance /\ May("clearances")
  /\ Does("clearances")
  /\ organization' = [organization EXCEPT !.clearance = facts]
  /\ UNCHANGED <<mail, record, tiers, docs, spent, cache, copy, job, offer, granted, acted>>

(* An administrator removes her: she is told first, and whoever is enrolled *)
(* under her name once the notice has been answered is removed.             *)
RemoveMember ==
  /\ organization.member # NoToken /\ ~organization.removing /\ May("removals")
  /\ Does("removals")
  /\ organization' = [organization EXCEPT !.removing = TRUE]
  /\ Notifies("membership_ended")
  /\ UNCHANGED <<record, tiers, docs, spent, cache, copy, job, offer, granted, acted>>

Removed ==
  /\ organization.removing
  /\ organization' = [NoMember EXCEPT !.removing = FALSE]
  /\ UNCHANGED <<mail, record, tiers, docs, spent, cache, copy, job, offer, granted, acted, left>>
-----------------------------------------------------------------------------
(* The store.                                                               *)

(* Mutant: the row is written, whether there is one or not.                 *)
UpsertOrganization(envelope) == [record EXCEPT !.envelope = envelope]

(* Mutant: the whole row is written back, as it was read with the token.    *)
OverwriteOrganization(envelope) ==
  IF Enrolled THEN [record EXCEPT !.envelope = envelope, !.blocked = {}] ELSE NoRecord

(* The envelope is merged into the row there is.                            *)
UpdateOrganization(envelope) ==
  IF Enrolled THEN [record EXCEPT !.envelope = envelope] ELSE NoRecord

(* The row lock of an edit: the version it makes is one more than any       *)
(* other's.                                                                 *)
UpdateTier(t, patch) == [tiers EXCEPT ![t] = ApplyPatch(@, patch)]

(* A document published stays what it was.                                  *)
Published(t, tier) == docs \cup {[tier |-> t, version |-> tier.version]}
-----------------------------------------------------------------------------
(* A request's way through her authority.                                   *)

Goes(j, to) == job' = [job EXCEPT ![j] = to]
Stops(j) == Goes(j, Idle)

CopyOf(j) == copy[job[j].at][job[j].client]
Forgets(j) == cache' = [cache EXCEPT ![job[j].at] = NoToken]

(* What a request does with the client it was given, or with none.          *)
With(b, client, envelope) ==
  LET c == [b EXCEPT !.client = client, !.envelope = envelope, !.work = <<>>, !.known = 0] IN
  CASE b.kind = "edit"    -> [c EXCEPT !.pc = "edit"]
    [] b.kind = "create"  -> [c EXCEPT !.pc = "draft"]
    [] b.kind = "leave"   -> IF client = NoToken THEN Idle ELSE [c EXCEPT !.pc = "leaving"]
    [] b.kind = "shut"    -> IF client = NoToken THEN Idle ELSE [c EXCEPT !.pc = "block"]
    [] b.kind \in {"ask", "agree"} -> [c EXCEPT !.pc = "policy"]
    [] b.kind \in {"verdict", "again"} -> [c EXCEPT !.pc = "verdict"]
    [] OTHER              -> Idle

Given(j) == Goes(j, With(job[j], job[j].client, CopyOf(j).envelope))
GivenNone(j) == Goes(j, With(job[j], NoToken, <<>>))

(* The replica has no client: it makes one of what is stored, when that can *)
(* be used at all.                                                          *)
NewClient(j, b) ==
  /\ cache[b.at] = NoToken
  /\ \/ /\ record.token = NoToken
        /\ record' = NoRecord
        /\ Goes(j, With(b, NoToken, <<>>)) /\ UNCHANGED <<cache, copy>>
     \/ /\ Enrolled /\ record.token # NoToken
        /\ cache' = [cache EXCEPT ![b.at] = record.token]
        /\ copy' = [copy EXCEPT ![b.at][record.token] =
                      [NoCopy EXCEPT !.envelope = record.envelope]]
        /\ Goes(j, With(b, record.token, record.envelope))
        /\ UNCHANGED record

(* It has one that is not old: what is stored is the later reading, and a   *)
(* token that is not the stored one is from a membership that has ended.    *)
FreshClient(j, b) ==
  LET client == cache[b.at] IN
  /\ client # NoToken /\ copy[b.at][client].age = "fresh"
  /\ \/ /\ ~Enrolled
        /\ cache' = [cache EXCEPT ![b.at] = NoToken]
        /\ Goes(j, With(b, NoToken, <<>>)) /\ UNCHANGED copy
     \/ /\ Enrolled /\ record.token # client
        /\ cache' = [cache EXCEPT ![b.at] = NoToken]
        /\ Goes(j, [b EXCEPT !.pc = "client"]) /\ UNCHANGED copy
     \/ /\ Enrolled /\ record.token = client
        /\ copy' = [copy EXCEPT ![b.at][client].envelope = record.envelope]
        /\ Goes(j, With(b, client, record.envelope))
        /\ UNCHANGED cache
  /\ UNCHANGED record

(* Mutant: one that is too old to be used is not read again either.         *)
OldClientGivenUp(j, b) ==
  LET client == cache[b.at] IN
  /\ client # NoToken /\ copy[b.at][client].age # "fresh"
  /\ IF copy[b.at][client].failing \/ copy[b.at][client].age = "dead"
     THEN Goes(j, With(b, client, copy[b.at][client].envelope))
     ELSE Goes(j, [b EXCEPT !.pc = "refresh", !.client = client])
  /\ UNCHANGED <<record, cache, copy>>

(* It has an old one: it is used as it is when reading the envelope failed  *)
(* a moment ago, and the envelope is read again otherwise.                  *)
OldClient(j, b) ==
  LET client == cache[b.at] IN
  /\ client # NoToken /\ copy[b.at][client].age # "fresh"
  /\ IF copy[b.at][client].failing
     THEN Goes(j, With(b, client, copy[b.at][client].envelope))
     ELSE Goes(j, [b EXCEPT !.pc = "refresh", !.client = client])
  /\ UNCHANGED <<record, cache, copy>>

UseClient(j, b) == NewClient(j, b) \/ FreshClient(j, b) \/ OldClient(j, b)

(* The client was of an earlier membership: again, from the start.          *)
StartAgain(j) ==
  /\ job[j].pc = "client"
  /\ UseClient(j, job[j])
  /\ UNCHANGED <<organization, mail, tiers, docs, spent, offer, granted, acted, left>>

(* One request at a time reads it; the ones that waited find it read.       *)
Refreshing(r, client) ==
  \E j \in Job : job[j].pc = "fetching" /\ job[j].at = r /\ job[j].client = client

Refresh(j) ==
  /\ job[j].pc = "refresh" /\ ~Refreshing(job[j].at, job[j].client)
  /\ IF CopyOf(j).age = "fresh" \/ CopyOf(j).failing THEN Given(j)
     ELSE Goes(j, [job[j] EXCEPT
            !.pc = "fetching",
            !.known = IF organization.member = job[j].client THEN 1 ELSE 0,
            !.envelope = IF organization.member = job[j].client THEN Envelope ELSE <<>>])
  /\ UNCHANGED <<organization, mail, record, tiers, docs, spent, cache, copy,
                 offer, granted, acted, left>>

(* The organization's answer arrives ...                                    *)
Fetched(j) ==
  LET b == job[j] IN
  /\ b.pc = "fetching"
  /\ \/ /\ b.known = 0
        /\ Goes(j, [b EXCEPT !.pc = "ended"])
        /\ UNCHANGED copy
     \/ /\ b.known = 1
        /\ copy' = [copy EXCEPT ![b.at][b.client] =
                      [@ EXCEPT !.envelope = b.envelope, !.age = "fresh", !.failing = FALSE]]
        /\ Goes(j, [b EXCEPT !.pc = "fetched"])
  /\ UNCHANGED <<organization, mail, record, tiers, docs, spent, cache, offer,
                 granted, acted, left>>

(* ... or none does: the copy stands, until it is too old to be used.       *)
FetchFails(j) ==
  LET b == job[j] IN
  /\ b.pc = "fetching" /\ May("failures")
  /\ copy' = [copy EXCEPT ![b.at][b.client].failing = TRUE]
  /\ Does("failures")
  /\ Goes(j, With(b, b.client, CopyOf(j).envelope))
  /\ UNCHANGED <<organization, mail, record, tiers, docs, spent, cache, offer, granted, acted>>

(* Mutant: what the organization said is not looked at.                     *)
EndedIsNoError(j) ==
  /\ job[j].pc = "ended"
  /\ Given(j)
  /\ UNCHANGED <<organization, mail, record, tiers, docs, spent, cache, copy,
                 offer, granted, acted, left>>

(* The organization knows no such membership: if it is the stored one, it   *)
(* is over.                                                                 *)
Ended(j) ==
  LET b == job[j] IN
  /\ b.pc = "ended"
  /\ IF Enrolled /\ record.token # b.client
     THEN Forgets(j) /\ Goes(j, [b EXCEPT !.pc = "client"])
     ELSE Goes(j, [b EXCEPT !.pc = "clear"]) /\ UNCHANGED cache
  /\ UNCHANGED <<organization, mail, record, tiers, docs, spent, copy, offer, granted, acted, left>>

(* end_membership: the row goes, and her terms stay as narrow as they are.  *)
Clear(j) ==
  /\ job[j].pc = "clear"
  /\ record' = NoRecord
  /\ Forgets(j) /\ GivenNone(j)
  /\ UNCHANGED <<organization, mail, tiers, docs, spent, copy, offer, granted, acted, left>>

(* The envelope that was read is stored, unless there is no membership any  *)
(* more; the version that was stored until then says whether the charter    *)
(* has changed.                                                             *)
Reread(j) ==
  /\ job[j].pc = "fetched"
  /\ IF ~Enrolled THEN Forgets(j) /\ GivenNone(j)
     ELSE /\ Goes(j, [job[j] EXCEPT !.pc = "store", !.known = record.envelope.charter_version])
          /\ UNCHANGED cache
  /\ UNCHANGED <<organization, mail, record, tiers, docs, spent, copy, offer, granted, acted, left>>

Store(j) ==
  LET b == job[j] IN
  /\ b.pc = "store"
  /\ record' = UpdateOrganization(b.envelope)
  /\ IF ~Enrolled THEN Forgets(j) /\ GivenNone(j)
     ELSE /\ IF b.envelope.charter_version # b.known
             THEN Goes(j, [b EXCEPT !.pc = "clamp"]) ELSE Given(j)
          /\ UNCHANGED cache
  /\ UNCHANGED <<organization, mail, tiers, docs, spent, copy, offer, granted, acted, left>>

(* Every tier that the charter governs is narrowed, and published again     *)
(* when it need not be.  The patches are made of one reading of the tiers.  *)
Clamping(envelope) ==
  SetToSeq({[tier |-> t, patch |-> PatchFor(tiers[t], envelope)] :
              t \in {u \in TierId : tiers[u] # None /\ Governs(tiers[u], envelope)}})

ReadTiers(j) ==
  /\ job[j].pc = "clamp"
  /\ Goes(j, [job[j] EXCEPT !.pc = "clamping", !.work = Clamping(Bounds(job[j].envelope, {}))])
  /\ UNCHANGED <<organization, mail, record, tiers, docs, spent, cache, copy,
                 offer, granted, acted, left>>

Serving(b, t) == [b EXCEPT !.served = [tier |-> t, terms |-> tiers'[t]]]

(* A tier that has gone meanwhile ends the request.                         *)
ClampTier(j) ==
  LET b == job[j] IN
  /\ b.pc = "clamping" /\ b.work # <<>>
  /\ IF tiers[Head(b.work).tier] = None THEN Stops(j) /\ UNCHANGED tiers
     ELSE /\ tiers' = UpdateTier(Head(b.work).tier, Head(b.work).patch)
          /\ Goes(j, Serving([b EXCEPT !.pc = "publish", !.work = Tail(@)], Head(b.work).tier))
  /\ UNCHANGED <<organization, mail, record, docs, spent, cache, copy, offer, granted, acted, left>>

(* The document of the version just made; then the next tier.               *)
Publish(j) ==
  LET b == job[j] IN
  /\ b.pc = "publish"
  /\ docs' = Published(b.served.tier, b.served.terms)
  /\ Goes(j, [b EXCEPT !.pc = "clamping", !.served = NoOffer])
  /\ UNCHANGED <<organization, mail, record, tiers, spent, cache, copy, offer, granted, acted, left>>

Clamped(j) ==
  /\ job[j].pc = "clamping" /\ job[j].work = <<>>
  /\ Given(j)
  /\ UNCHANGED <<organization, mail, record, tiers, docs, spent, cache, copy,
                 offer, granted, acted, left>>
-----------------------------------------------------------------------------
(* Her edits.                                                               *)

Free(j) == job[j] = Idle
Serves(j) == Free(j) /\ j # Query
Starts(r, kind) == [Idle EXCEPT !.kind = kind, !.at = r, !.pc = "client"]

Edit(j, r, t, patch) ==
  /\ Serves(j) /\ May("edits")
  /\ Does("edits")
  /\ UseClient(j, [Starts(r, "edit") EXCEPT !.tier = t, !.patch = patch])
  /\ UNCHANGED <<organization, mail, tiers, docs, spent, offer, granted, acted>>

(* Her edit and the organization's narrowing of it are one write: what it   *)
(* comes to is worked out on the tier as it is now ...                      *)
ReadTier(j) ==
  LET b == job[j] IN
  /\ b.pc = "edit"
  /\ IF b.client = NoToken THEN Goes(j, [b EXCEPT !.pc = "write"])
     ELSE IF tiers[b.tier] = None THEN Stops(j)
     ELSE Goes(j, [b EXCEPT !.pc = "write",
            !.patch = Merged(@, PatchFor(ApplyPatch(tiers[b.tier], @), OrgEnvelope(b.envelope)))])
  /\ UNCHANGED <<organization, mail, record, tiers, docs, spent, cache, copy,
                 offer, granted, acted, left>>

(* ... and written to the tier as it is then.                               *)
Write(j) ==
  LET b == job[j] IN
  /\ b.pc = "write"
  /\ IF tiers[b.tier] = None THEN Stops(j) /\ UNCHANGED tiers
     ELSE /\ tiers' = UpdateTier(b.tier, b.patch)
          /\ Goes(j, Serving([b EXCEPT !.pc = "serve"], b.tier))
  /\ UNCHANGED <<organization, mail, record, docs, spent, cache, copy, offer, granted, acted, left>>

Serve(j) ==
  LET b == job[j] IN
  /\ b.pc = "serve"
  /\ docs' = Published(b.served.tier, b.served.terms)
  /\ Stops(j)
  /\ UNCHANGED <<organization, mail, record, tiers, spent, cache, copy, offer, granted, acted, left>>

(* A tier of her own, over resources that no other tier governs, and that   *)
(* she holds alike.                                                         *)
MayWrite(t, spec) ==
  /\ tiers[t] = None
  /\ spec.resources \subseteq Joint \/ spec.resources \cap Joint = {}
  /\ \A u \in TierId : tiers[u] # None => tiers[u].resources \cap spec.resources = {}

Create(j, r, t, spec) ==
  /\ Serves(j) /\ May("writes") /\ MayWrite(t, spec)
  /\ Does("writes")
  /\ UseClient(j, [Starts(r, "create") EXCEPT !.tier = t, !.terms = spec])
  /\ UNCHANGED <<organization, mail, tiers, docs, spent, offer, granted, acted>>

(* Terms outside the ceiling are refused; the others are narrowed before    *)
(* they are written, and continue the numbering of the documents.           *)
Draft(j) ==
  LET b == job[j]
      envelope == OrgEnvelope(b.envelope)
      last == {0} \cup {d.version : d \in {e \in docs : e.tier = b.tier}} IN
  /\ b.pc = "draft"
  /\ IF b.client # NoToken /\ WouldExceed(b.terms, envelope) THEN Stops(j)
     ELSE Goes(j, [b EXCEPT !.pc = "insert",
            !.terms = [(IF b.client = NoToken THEN @ ELSE Clamp(@, envelope))
                         EXCEPT !.version = Max(last) + 1]])
  /\ UNCHANGED <<organization, mail, record, tiers, docs, spent, cache, copy,
                 offer, granted, acted, left>>

Insert(j) ==
  LET b == job[j] IN
  /\ b.pc = "insert"
  /\ IF tiers[b.tier] # None THEN Stops(j) /\ UNCHANGED tiers
     ELSE /\ tiers' = [tiers EXCEPT ![b.tier] = b.terms]
          /\ Goes(j, Serving([b EXCEPT !.pc = "serve"], b.tier))
  /\ UNCHANGED <<organization, mail, record, docs, spent, cache, copy, offer, granted, acted, left>>

DeleteTier(t) ==
  /\ tiers[t] # None /\ May("deletes")
  /\ Does("deletes")
  /\ tiers' = [tiers EXCEPT ![t] = None]
  /\ UNCHANGED <<organization, mail, record, docs, spent, cache, copy, job,
                 offer, granted, acted>>
-----------------------------------------------------------------------------
(* Joining, leaving, and what the organization tells her.                   *)

(* She agrees to the version of the charter in force, and is enrolled ...   *)
Join(j, r) ==
  /\ Serves(j) /\ organization.member = NoToken /\ organization.joins < MaxJoins
  /\ organization' = [organization EXCEPT !.joins = @ + 1, !.member = organization.joins + 1,
                                          !.shares = DefaultShares]
  /\ Goes(j, [Starts(r, "join") EXCEPT !.pc = "joined",
               !.client = organization'.member, !.envelope = Envelope'])
  /\ UNCHANGED <<mail, record, tiers, docs, spent, cache, copy, offer, granted, acted, left>>

(* ... which her authority learns, or does not: then the organization has a *)
(* member whose authority has no membership.                                *)
Joined(j) ==
  LET b == job[j] IN
  /\ b.pc = "joined"
  /\ \/ /\ record' = [token |-> b.client, envelope |-> b.envelope, blocked |-> {}]
        /\ cache' = [cache EXCEPT ![b.at] = b.client]
        /\ copy' = [copy EXCEPT ![b.at][b.client] = [NoCopy EXCEPT !.envelope = b.envelope]]
        /\ Goes(j, [b EXCEPT !.pc = "clamp"])
     \/ Stops(j) /\ UNCHANGED <<record, cache, copy>>
  /\ UNCHANGED <<organization, mail, tiers, docs, spent, offer, granted, acted, left>>

Leave(j, r) ==
  /\ Serves(j) /\ Enrolled /\ May("leaves")
  /\ Does("leaves")
  /\ UseClient(j, Starts(r, "leave"))
  /\ UNCHANGED <<organization, mail, tiers, docs, spent, offer, granted, acted>>

(* The organization may not hear of it: she has left either way.            *)
Leaving(j) ==
  LET b == job[j] IN
  /\ b.pc = "leaving"
  /\ \/ organization' = IF organization.member = b.client
                        THEN NoMember
                        ELSE organization
     \/ UNCHANGED organization
  /\ Goes(j, [b EXCEPT !.pc = "clear"])
  /\ UNCHANGED <<mail, record, tiers, docs, spent, cache, copy, offer, granted, acted, left>>

(* Mutant: it is not kept that a notice has been received.                  *)
SpendNothing(n) == TRUE

(* A notice acts once, whichever replicas it comes to and however often.  A *)
(* change makes the copy of the replica that heard of it too old to use.    *)
Spend(n) == n.id \notin spent

Receive(j, r, n) ==
  /\ Serves(j) /\ Enrolled /\ n \in mail /\ Spend(n)
  /\ spent' = spent \cup {n.id}
  /\ acted' = [acted EXCEPT ![n.id] = @ + 1]
  /\ IF n.kind = "membership_ended"
     THEN Goes(j, [Starts(r, "notice") EXCEPT !.pc = "clear"]) /\ UNCHANGED copy
     ELSE /\ Goes(j, Starts(r, "notice"))
          /\ copy' = IF cache[r] = NoToken THEN copy
                     ELSE [copy EXCEPT ![r][cache[r]].age = "dead"]
  /\ UNCHANGED <<organization, mail, record, tiers, docs, cache, offer, granted, left>>

(* An administrator of hers: what he asks leaves the organization, signed   *)
(* for her, while she is a member of it, and is taken by a membership.      *)
RequireOrgAdmin == organization.member # NoToken /\ Enrolled

(* He shuts every agent of an operator out of what the organization shares, *)
(* or lets an agent in again: one statement, on the row there is.           *)
OrgBlock(agent) ==
  /\ RequireOrgAdmin /\ May("blocks") /\ agent \notin record.blocked
  /\ Does("blocks")
  /\ record' = [record EXCEPT !.blocked = @ \cup {agent}]
  /\ UNCHANGED <<organization, mail, tiers, docs, spent, cache, copy, job,
                 offer, granted, acted>>

(* Or one agent, after he has been shown that it has dealings with what the *)
(* organization reaches: which takes its envelope, and her tiers.           *)
Shut(j, r, agent) ==
  /\ Serves(j) /\ RequireOrgAdmin /\ May("blocks") /\ agent \notin record.blocked
  /\ Does("blocks")
  /\ UseClient(j, [Starts(r, "shut") EXCEPT !.agent = agent])
  /\ UNCHANGED <<organization, mail, tiers, docs, spent, offer, granted, acted>>

(* Everything an administrator may see or touch is in this scope: the tiers *)
(* of hers that the ceiling governs.                                        *)
OrgScope(envelope) ==
  {t \in TierId : tiers[t] # None /\ Governs(tiers[t], OrgEnvelope(envelope))}

(* Agents that have been dealt with in it: here, any, when it is not empty. *)
Related(b) == OrgScope(b.envelope) # {}

Block(j) ==
  LET b == job[j] IN
  /\ b.pc = "block"
  /\ record' = IF Enrolled /\ Related(b) THEN [record EXCEPT !.blocked = @ \cup {b.agent}]
               ELSE record
  /\ Stops(j)
  /\ UNCHANGED <<organization, mail, tiers, docs, spent, cache, copy, offer, granted, acted,
                 left>>

OrgRestore(agent) ==
  /\ RequireOrgAdmin /\ agent \in record.blocked
  /\ record' = [record EXCEPT !.blocked = @ \ {agent}]
  /\ UNCHANGED <<organization, mail, tiers, docs, spent, cache, copy, job,
                 offer, granted, acted, left>>
-----------------------------------------------------------------------------
(* An agent's negotiation over the resource: it is told the terms, and      *)
(* agrees to them.                                                          *)

Ask(r) ==
  /\ Free(Query) /\ offer = NoOffer /\ granted = NoGrant
  /\ UseClient(Query, Starts(r, "ask"))
  /\ UNCHANGED <<organization, mail, tiers, docs, spent, offer, granted, acted, left>>

Agree(r) ==
  /\ Free(Query) /\ offer # NoOffer
  /\ UseClient(Query, [Starts(r, "agree") EXCEPT
               !.base = IF tiers[offer.tier] = None THEN 0 ELSE tiers[offer.tier].version])
  /\ UNCHANGED <<organization, mail, tiers, docs, spent, offer, granted, acted, left>>

(* What the organization reaches is shut while its ceiling cannot be read,  *)
(* and when it is not shared with her.                                      *)
OrganizationBlocks(j) ==
  LET b == job[j] IN
  /\ b.client # NoToken
  /\ Reaches(Asked, OrgEnvelope(b.envelope))
  /\ \/ CopyOf(j).age = "dead"
     \/ Asked \notin b.envelope.grants

Refused(j) == Stops(j) /\ offer' = NoOffer

(* Mutant: an agreement is to a tier, whatever it says by now.              *)
StandsByTier(t, tier) == offer.tier = t

(* The terms are dictated; or the agreement is to the terms that stand, and *)
(* to none that she no longer offers.                                       *)
Stands(t, tier) == offer.tier = t /\ offer.terms.version = tier.version

(* Before a word of them: what the tier requires to be attested of her, and *)
(* the organization over what it reaches.                                   *)
Required(b, tier) ==
  IF b.client # NoToken /\ Reaches(Asked, OrgEnvelope(b.envelope))
  THEN Tighten(tier.clearance, Charters[b.envelope.charter_version].require_clearance)
  ELSE tier.clearance

Unmet(required, facts) ==
  \E claim \in DOMAIN required : claim \notin DOMAIN facts \/ facts[claim] \notin required[claim]

Dictates(b, t, tier) ==
  IF b.kind = "agree" /\ Stands(t, tier)
  THEN /\ Goes(Query, [b EXCEPT !.kind = "verdict", !.pc = "shut", !.tier = t, !.facts = <<>>,
                                !.terms = offer.terms])
       /\ UNCHANGED <<offer, docs>>
  ELSE /\ offer' = [tier |-> t, terms |-> tier]
       /\ docs' = Published(t, tier)
       /\ Stops(Query)

(* What the organization said a moment ago will do; or it is asked.  With   *)
(* no organization there is nobody to ask.                                  *)
Policy(j) ==
  LET b == job[j] IN
  /\ b.pc = "policy"
  /\ IF OrganizationBlocks(j) \/ TierFor(Asked) = {}
     THEN Refused(j) /\ UNCHANGED docs
     ELSE \E t \in TierFor(Asked) :
       LET required == Required(b, tiers[t])
           known    == IF b.client = NoToken THEN <<>> ELSE CopyOf(j).attested IN
       CASE required = <<>> \/ (known # <<>> /\ ~Unmet(required, known)) ->
              Dictates(b, t, tiers[t])
         [] required # <<>> /\ known = <<>> /\ b.client # NoToken ->
              /\ Goes(j, [b EXCEPT !.pc = "attest", !.tier = t, !.terms = tiers[t]])
              /\ UNCHANGED <<offer, docs>>
         [] OTHER -> Refused(j) /\ UNCHANGED docs
  /\ UNCHANGED <<organization, mail, record, tiers, spent, cache, copy, granted, acted, left>>

(* It signs what it holds of the member whose token this is.                *)
ClearanceToken(j) ==
  /\ job[j].pc = "attest"
  /\ Goes(j, [job[j] EXCEPT !.pc = "attested", !.facts =
               IF organization.member = job[j].client THEN organization.clearance ELSE <<>>])
  /\ UNCHANGED <<organization, mail, record, tiers, docs, spent, cache, copy, offer, granted,
                 acted, left>>

(* That it holds nothing is not kept.  An answer that does not come, or     *)
(* that cannot be verified, is a refusal too.                               *)
ClearanceUnmet(j) ==
  LET b == job[j] IN
  /\ b.pc = "attested"
  /\ copy' = [copy EXCEPT ![b.at][b.client].attested = b.facts]
  /\ \/ Refused(j) /\ UNCHANGED docs
     \/ ~Unmet(Required(b, b.terms), b.facts) /\ Dictates(b, b.tier, b.terms)
  /\ UNCHANGED <<organization, mail, record, tiers, spent, cache, granted, acted, left>>

(* An agent that the organization shuts out of what it reaches, by what is  *)
(* stored of the membership now.                                            *)
OrgBlocksAgent(agent) == agent \in record.blocked

ShutOut(j) ==
  LET b == job[j] IN
  /\ b.pc = "shut"
  /\ IF OrgBlocksAgent(Asker) /\ Reaches(Asked, OrgEnvelope(record.envelope))
     THEN Refused(j)
     ELSE Goes(j, [b EXCEPT !.pc = "client"]) /\ UNCHANGED offer
  /\ UNCHANGED <<organization, mail, record, tiers, docs, spent, cache, copy, granted, acted, left>>

(* What the organization says of the request: nothing to whoever holds an   *)
(* old token, no objection over what its charter does not claim, a refusal  *)
(* of what it does not share, and its policy's answer on what it does.      *)
(* Where that is to ask her, GrantLoop goes on.                             *)
Decision(token) ==
  CASE organization.member # token -> {"ended"}
    [] Asked \notin Charters[organization.charter].claims -> {"allow"}
    [] Asked \in organization.shares -> {"allow", "refuse"}
    [] OTHER -> {"refuse"}

(* What is heard of it: no answer is a refusal.                             *)
Decide(token) == Decision(token) \cup {"refuse"}

(* Nobody is asked about what it does not reach.  A token that is of no     *)
(* membership any more is, once, exchanged for the stored one.              *)
Verdict(j) ==
  LET b == job[j]
      allows == Goes(j, [b EXCEPT !.pc = "issue"]) /\ UNCHANGED <<cache, offer>>
      refuses == Refused(j) /\ UNCHANGED cache
      ours == b.client # NoToken
                /\ (b.kind = "verdict" => Reaches(Asked, OrgEnvelope(b.envelope)))
      another == b.kind = "verdict" /\ Enrolled /\ record.token # b.client IN
  /\ b.pc = "verdict"
  /\ \/ ~ours /\ allows
     \/ /\ ours
        /\ \E effect \in Decide(b.client) :
             \/ effect = "allow" /\ allows
             \/ (effect = "refuse" \/ (effect = "ended" /\ ~another)) /\ refuses
             \/ /\ effect = "ended" /\ another
                /\ Forgets(j) /\ Goes(j, [b EXCEPT !.kind = "again", !.pc = "client"])
                /\ UNCHANGED offer
  /\ UNCHANGED <<organization, mail, record, tiers, docs, spent, copy, granted, acted, left>>

(* The grant: for as long as the terms now allow, and no longer than was    *)
(* agreed.                                                                  *)
Lifetime(tier, agreed) == Min({tier.expires_in, agreed})

Issue(j) ==
  LET b == job[j] IN
  /\ b.pc = "issue"
  /\ IF tiers[b.tier] = None THEN UNCHANGED granted
     ELSE granted' = [signed |-> b.terms.version, base |-> b.base,
                      agreed |-> b.terms.expires_in,
                      lifetime |-> Lifetime(tiers[b.tier], b.terms.expires_in)]
  /\ Refused(j)
  /\ UNCHANGED <<organization, mail, record, tiers, docs, spent, cache, copy, acted, left>>

(* It reaches the agent, which may ask again.                               *)
Answered ==
  /\ granted # NoGrant
  /\ granted' = NoGrant
  /\ UNCHANGED <<organization, mail, record, tiers, docs, spent, cache, copy, job,
                 offer, acted, left>>
-----------------------------------------------------------------------------
(* Time, and failure of a process.                                          *)

CopyAges(r) ==
  /\ cache[r] # NoToken /\ copy[r][cache[r]].age # "dead"
  /\ copy' = [copy EXCEPT ![r][cache[r]].age = IF @ = "fresh" THEN "stale" ELSE "dead"]
  /\ UNCHANGED <<organization, mail, record, tiers, docs, spent, cache, job,
                 offer, granted, acted, left>>

(* Mutant: what was attested stands for as long as the client does.         *)
AttestationStands(c) == c

AttestationLapses(c) == [c EXCEPT !.attested = <<>>]

ClearanceAges(r) ==
  /\ cache[r] # NoToken /\ copy[r][cache[r]].attested # <<>>
  /\ copy' = [copy EXCEPT ![r][cache[r]] = AttestationLapses(@)]
  /\ UNCHANGED <<organization, mail, record, tiers, docs, spent, cache, job,
                 offer, granted, acted, left>>

(* Reading the envelope is due again after a failure.                       *)
RetryDue(r) ==
  /\ cache[r] # NoToken /\ copy[r][cache[r]].failing
  /\ copy' = [copy EXCEPT ![r][cache[r]].failing = FALSE]
  /\ UNCHANGED <<organization, mail, record, tiers, docs, spent, cache, job,
                 offer, granted, acted, left>>

Crash(r) ==
  /\ May("crashes")
  /\ Does("crashes")
  /\ cache' = [cache EXCEPT ![r] = NoToken]
  /\ job' = [j \in Job |-> IF job[j].at = r THEN Idle ELSE job[j]]
  /\ offer' = IF job[Query] # Idle /\ job[Query].at = r THEN NoOffer ELSE offer
  /\ UNCHANGED <<organization, mail, record, tiers, docs, spent, copy, granted, acted>>
-----------------------------------------------------------------------------
Progress(j) ==
  \/ StartAgain(j) \/ Refresh(j) \/ Fetched(j)
  \/ Ended(j) \/ Clear(j) \/ Reread(j) \/ Store(j) \/ ReadTiers(j) \/ ClampTier(j)
  \/ Publish(j) \/ Clamped(j) \/ ReadTier(j) \/ Write(j) \/ Serve(j) \/ Draft(j)
  \/ Insert(j) \/ Joined(j) \/ Leaving(j) \/ Block(j) \/ Policy(j) \/ ClearanceToken(j)
  \/ ClearanceUnmet(j) \/ ShutOut(j) \/ Verdict(j) \/ Issue(j)

Arrives(j, r) ==
  \/ Join(j, r) \/ Leave(j, r)
  \/ \E n \in mail : Receive(j, r, n)
  \/ \E agent \in Agent : Shut(j, r, agent)
  \/ \E t \in TierId :
       \/ \E patch \in Patches : Edit(j, r, t, patch)
       \/ \E spec \in Specs : Create(j, r, t, spec)

Next ==
  \/ PublishCharter \/ RemoveMember \/ Removed \/ Answered
  \/ \E shares \in Shares : SetRole(shares)
  \/ \E facts \in Clearances : SetClearance(facts)
  \/ \E agent \in Agent : OrgBlock(agent) \/ OrgRestore(agent)
  \/ \E t \in TierId : DeleteTier(t)
  \/ \E j \in Job : Progress(j) \/ FetchFails(j)
  \/ \E j \in Job, r \in Replica : Arrives(j, r)
  \/ \E r \in Replica : Ask(r) \/ Agree(r) \/ CopyAges(r) \/ ClearanceAges(r) \/ RetryDue(r)
                           \/ Crash(r)

(* A request in flight goes on, the copies grow old, a failed reading is    *)
(* due again, and requests over what the organization shares keep coming.   *)
Fairness ==
  /\ \A j \in Job : WF_vars(Progress(j))
  /\ WF_vars(\E r \in Replica : Ask(r) \/ Agree(r)) /\ WF_vars(Answered)
  /\ \A r \in Replica : WF_vars(CopyAges(r)) /\ WF_vars(ClearanceAges(r)) /\ WF_vars(RetryDue(r))

Spec == Init /\ [][Next]_vars /\ Fairness
-----------------------------------------------------------------------------
(* Every variable has its shape, and a request is at a step that exists.    *)
TypeOK ==
  /\ organization.charter \in 1..Len(Charters)
  /\ organization.member \in Token \cup {NoToken} /\ organization.joins \in 0..MaxJoins
  /\ organization.clearance \in Clearances
  /\ record.token \in Token \cup {NoToken} /\ record.blocked \subseteq Agent
  /\ spent \subseteq Notice /\ acted \in [Notice -> Nat]
  /\ cache \in [Replica -> Token \cup {NoToken}]
  /\ \A r \in Replica, k \in Token : copy[r][k].age \in Ages /\ copy[r][k].failing \in BOOLEAN
  /\ \A t \in TierId : tiers[t] # None => tiers[t].version \in Nat \ {0}
  /\ \A j \in Job : job[j].at \in Replica \cup {None} /\ job[j].client \in Token \cup {NoToken}

(* A stored membership can be used: whatever order its end, a refresh and   *)
(* an administrator's block come in, on whichever replicas, none of them    *)
(* leaves a row that has an envelope and no enrolment                       *)
(* (app.py:1540-1549, the unconditional write there used to be).            *)
RecordIsWhole == Enrolled => record.token # NoToken

(* What an administrator has shut out stays shut out for as long as the     *)
(* membership, unless he lets it in again: a replica that stores what it    *)
(* read of the charter keeps what was blocked meanwhile                     *)
(* (store_postgres.py:722-729).                                             *)
BlocksStand ==
  [][\A agent \in record.blocked \ record'.blocked :
       record'.token # record.token \/ job' = job]_vars

(* A grant is on terms that still stood when the agreement to them arrived, *)
(* and lasts no longer than was agreed, whatever she, the organization and  *)
(* the clamp make of the tier meanwhile (app.py:4239-4249, 3519-3526).  The *)
(* first half is of the versions a tier has while it is written once: two   *)
(* requests that write it anew, with a deletion between, number their terms *)
(* by one reading of the documents and use a version twice.                 *)
GrantIsOfTheOffer ==
  /\ MaxWrites - left.writes <= 1 => granted.signed >= granted.base
  /\ granted.lifetime <= granted.agreed

(* A notice is acted upon once, although it reaches several replicas or is  *)
(* posted again (app.py:1957-1962).                                         *)
NoticeActsOnce == \A n \in Notice : acted[n] <= 1

(* A membership that the organization has ended does not go on here: some   *)
(* replica finds out, whether or not the notice of it ever comes            *)
(* (app.py:1470-1475).                                                      *)
EndIsNoticed ==
  (Enrolled /\ record.token # organization.member)
    ~> (~Enrolled \/ record.token = organization.member)

(* A licence that the organization withdraws for good stops the requests    *)
(* that need it, on every replica, although it is only asked for now and    *)
(* then and nobody is told of the withdrawal (org.py:165-204, the comment   *)
(* in admin_set_clearance).                                                 *)
WithdrawnClearanceStops ==
  <>[](organization.clearance = <<>> /\ \A t \in TierFor(Asked) : tiers[t].clearance # <<>>)
    => <>[](granted = NoGrant)

(* The envelope that is stored comes to be the one in force, although two   *)
(* replicas may store what they read in the other order                     *)
(* (app.py:1494-1498, 1549-1561).                                           *)
CharterArrives ==
  (Enrolled /\ record.token = organization.member
     /\ record.envelope.charter_version # organization.charter)
    ~> (Enrolled /\ record.token = organization.member
          => record.envelope.charter_version = organization.charter)

=============================================================================
