---------------------------- MODULE Organization ----------------------------
(***************************************************************************)
(* An organization's authority (services/org-authority/app.py, charter.py, *)
(* org.rego): one process, whose state is in its memory.  It awaits the    *)
(* policy engine, an operator's key directory and its members' authorities;*)
(* between two awaits a request is alone, so an action runs from one await *)
(* to the next.                                                            *)
(*                                                                         *)
(* A charter's patterns are sets of resources.  A request that the engine  *)
(* is asked about is a fact about it, and what refuses it - the charter's  *)
(* conditions, what a role does not let her delegate, the administrator's  *)
(* own rules - is a set of facts.  Its clock is the sets of what has not   *)
(* run out: vouchers, cached decisions, overrides.                         *)
(***************************************************************************)
EXTENDS Naturals, Sequences, FiniteSets, TLC

CONSTANTS
  Owner,         \* who may become a member
  Employee,      \* whom the directory of its identity provider knows
  JoinCode,      \* whether there is a code that admits anybody
  Namespace,     \* the resources of the organization
  MaxCeiling,    \* the longest that a charter may allow
  Role,          \* ids of groups
  Groups,        \* the definitions an administrator may give a group
  Drafts,        \* the charters he may write
  FirstCharter,  \* the one published at start
  Facts,         \* what a request may be, to the engine
  Request,       \* signed requests for an override
  SignedFor,     \* whom each of them is about
  WithVoucher,   \* those that name an administrator's voucher
  Job,           \* requests in flight
  None,
  Limit          \* how often each kind of thing happens, and how many in all

(* A request is signed for somebody who may be a member, and every kind of  *)
(* event has its bound.                                                     *)
ASSUME OrganizationAssumption ==
  /\ None \notin Job
  /\ SignedFor \in [Request -> Owner]
  /\ Limit \in [{"all", "publish", "failure", "invite", "join", "role", "decide",
                 "voucher", "override"} -> Nat]

VARIABLES
  charters,      \* CHARTERS
  lock,          \* whose turn it is to publish
  engine,        \* the policy modules that the engine holds
  strays,        \* rules that the engine took of a publication that failed after
  cache,         \* decisions that still stand when the engine does not answer
  members,       \* MEMBERS
  invites,       \* INVITES
  shown,         \* the version of the charter that each has been shown
  vouchers,      \* VOUCHERS
  redeemed,      \* _SPENT_SIGNATURES
  glass,         \* GLASS, in the order of issue
  job,
  left           \* what the bounds leave

vars == <<charters, lock, engine, strays, cache, members, invites, shown, vouchers,
          redeemed, glass, job, left>>

NoMember == [token |-> 0, role |-> None]
Idle == [pc |-> "idle"]

Member(o) == members[o] # NoMember
InForce == charters[Len(charters)]
GroupOf(charter, role) ==
  IF role \in DOMAIN charter.roles THEN charter.roles[role]
  ELSE [grants |-> {}, delegates |-> {}]

May(kind) == left[kind] > 0 /\ left["all"] > 0
Does(kind) == left' = [left EXCEPT ![kind] = @ - 1, !["all"] = @ - 1]

Goes(j, to) == job' = [job EXCEPT ![j] = to]
Stops(j) == Goes(j, Idle)
Free(j) == job[j] = Idle

(* The service has started: the first charter went through the engine too.  *)
Init ==
  /\ charters = <<[doc |-> FirstCharter, base |-> None]>>
  /\ lock = None
  /\ engine = [shipped |-> TRUE, custom |-> FirstCharter.rego]
  /\ strays = {}
  /\ cache = {}
  /\ members = [o \in Owner |-> NoMember]
  /\ invites = [o \in Owner |-> "none"]
  /\ shown = [o \in Owner |-> 0]
  /\ vouchers = {}
  /\ redeemed = {}
  /\ glass = <<>>
  /\ job = [j \in Job |-> Idle]
  /\ left = Limit
-----------------------------------------------------------------------------
(* Publishing a charter.                                                    *)

(* A charter is of the organization's own resources, by name.               *)
ValidClaims(doc) == doc.claims # {} /\ doc.claims \subseteq Namespace

ValidEnvelope(doc) == doc.longest \in 1..MaxCeiling

(* A group hands out, and an override reaches, what the charter claims; the *)
(* group of an enrolment exists; and an override has a subject.             *)
ValidGroups(doc) ==
  /\ \A role \in DOMAIN doc.roles : doc.roles[role].grants \subseteq doc.claims
  /\ doc.default \in DOMAIN doc.roles \cup {None}

ValidGlass(doc) ==
  doc.glass.enabled => doc.glass.resources # {} /\ doc.glass.resources \subseteq doc.claims

(* A provider that is configured can be trusted, switched on or not.        *)
ValidProvider(doc) ==
  doc.provider # None => doc.provider.issuer = "https" /\ doc.provider.assertion = "id-jag"

(* Rules of its own deny, and ask, and do nothing else.                     *)
ValidRules(doc) ==
  doc.rego # None => DOMAIN doc.rego = {"deny", "ask"}

Valid(doc) ==
  /\ ValidClaims(doc) /\ ValidEnvelope(doc) /\ ValidGroups(doc)
  /\ ValidGlass(doc) /\ ValidProvider(doc) /\ ValidRules(doc)

(* No group that has a member disappears.                                   *)
Kept(doc) ==
  \A o \in Owner : members[o].role \in DOMAIN doc.roles \cup {None}

Submit(j, doc, base) ==
  /\ Free(j) /\ May("publish")
  /\ Does("publish")
  /\ Goes(j, [pc |-> "publish", doc |-> doc, base |-> base])
  /\ UNCHANGED <<charters, lock, engine, strays, cache, members, invites, shown, vouchers,
                 redeemed, glass>>

(* The console's editor sends the version it showed; a script need not.     *)
PutCharter(j) ==
  \E doc \in Drafts, base \in {None, Len(charters)} : Submit(j, doc, base)

(* The edits of a group are made to the charter in force.                   *)
PutRole(j, role, group, default) ==
  Submit(j, [InForce.doc EXCEPT
               !.roles = [r \in DOMAIN @ \cup {role} |-> IF r = role THEN group ELSE @[r]],
               !.default = IF default THEN role ELSE @], Len(charters))

DeleteRole(j, role) ==
  /\ role \in DOMAIN InForce.doc.roles
  /\ \A o \in Owner : members[o].role # role
  /\ Submit(j, [InForce.doc EXCEPT
                  !.roles = [r \in DOMAIN @ \ {role} |-> @[r]],
                  !.default = IF @ = role THEN None ELSE @], Len(charters))

DefaultRole(j, role) == Submit(j, [InForce.doc EXCEPT !.default = role], Len(charters))

(* Mutant: the version is not compared again when it is this one's turn.    *)
BuiltOnAny(b) == TRUE

BuiltOnThis(b) == b.base # None => b.base = Len(charters)

(* One at a time.  What is refused is refused here, before the engine is    *)
(* given anything.                                                          *)
Publish(j) ==
  LET b == job[j] IN
  /\ b.pc = "publish" /\ lock = None
  /\ IF BuiltOnThis(b) /\ Valid(b.doc) /\ Kept(b.doc)
     THEN lock' = j /\ Goes(j, [b EXCEPT !.pc = "load"])
     ELSE Stops(j) /\ UNCHANGED lock
  /\ UNCHANGED <<charters, engine, strays, cache, members, invites, shown, vouchers,
                 redeemed, glass, left>>

(* The engine takes the rules ...                                           *)
Load(j) ==
  /\ job[j].pc = "load"
  /\ engine' = [engine EXCEPT !.custom = job[j].doc.rego]
  /\ Goes(j, [job[j] EXCEPT !.pc = "append"])
  /\ UNCHANGED <<charters, lock, strays, cache, members, invites, shown, vouchers,
                 redeemed, glass, left>>

(* ... and the charter is in force; or they do not compile, or the engine   *)
(* cannot be reached; or it took them and its answer is lost.               *)
PutInForce(j) ==
  /\ job[j].pc = "append"
  /\ charters' = Append(charters, [doc |-> job[j].doc, base |-> job[j].base])
  /\ lock' = None
  /\ Stops(j)
  /\ UNCHANGED <<engine, strays, cache, members, invites, shown, vouchers, redeemed, glass, left>>

LoadFails(j) ==
  /\ job[j].pc \in {"load", "append"} /\ May("failure")
  /\ Does("failure")
  /\ strays' = strays \cup (IF job[j].pc = "append"
                            THEN {[rego |-> job[j].doc.rego, over |-> Len(charters)]}
                            ELSE {})
  /\ lock' = None
  /\ Stops(j)
  /\ UNCHANGED <<charters, engine, cache, members, invites, shown, vouchers, redeemed, glass>>
-----------------------------------------------------------------------------
(* Who is a member.                                                         *)

(* What it tells anyone who asks: that a name is invited, and no code.      *)
MemberInvitation(o) == invites[o] = "open"

Invite(o) ==
  /\ ~Member(o) /\ ~MemberInvitation(o) /\ May("invite")
  /\ Does("invite")
  /\ invites' = [invites EXCEPT ![o] = "open"]
  /\ UNCHANGED <<charters, lock, engine, strays, cache, members, shown, vouchers, redeemed,
                 glass, job>>

Decline(o) ==
  /\ MemberInvitation(o)
  /\ invites' = [invites EXCEPT ![o] = "declined"]
  /\ UNCHANGED <<charters, lock, engine, strays, cache, members, shown, vouchers, redeemed,
                 glass, job, left>>

Withdraw(o) ==
  /\ invites[o] # "none"
  /\ invites' = [invites EXCEPT ![o] = "none"]
  /\ UNCHANGED <<charters, lock, engine, strays, cache, members, shown, vouchers, redeemed,
                 glass, job, left>>

(* What is published of it, to anyone: whether its provider's word is       *)
(* enough to enrol.                                                         *)
Enrols(doc) == doc.provider # None /\ doc.provider.enabled /\ doc.provider.enrols

(* The charter is shown to whoever has a code, of the two kinds there are,  *)
(* and its version to those that its provider may vouch for.                *)
CheckCode == JoinCode \/ \E o \in Owner : MemberInvitation(o)

MemberPreview == CheckCode \/ Enrols(InForce.doc)

(* Her authority asks for it, and shows her what it would do to her terms,  *)
(* before she agrees to anything.                                           *)
Preview(o) ==
  /\ ~Member(o) /\ MemberPreview
  /\ shown[o] # Len(charters)
  /\ shown' = [shown EXCEPT ![o] = Len(charters)]
  /\ UNCHANGED <<charters, lock, engine, strays, cache, members, invites, vouchers,
                 redeemed, glass, job, left>>

(* The directory behind the provider names whoever signed in there, and she *)
(* is enrolled under no other name.                                         *)
EmployeeAssertion(o, signedIn) == signedIn = o /\ signedIn \in Employee

(* An assertion, where it counts, decides; then a code of her own, or the   *)
(* one that admits anybody.                                                 *)
AuthorizeEnrolment(o, code, signedIn) ==
  IF signedIn # None /\ Enrols(InForce.doc)
  THEN EmployeeAssertion(o, signedIn)
  ELSE \/ code = "hers" /\ MemberInvitation(o)
       \/ code = "shared" /\ JoinCode

(* To the charter she was shown, if it is still in force.  An invitation is *)
(* spent.  Every membership has a token of its own.                         *)
Join(o) ==
  /\ ~Member(o) /\ shown[o] = Len(charters) /\ May("join")
  /\ Does("join")
  /\ \E code \in {"none", "hers", "shared"}, signedIn \in Employee \cup {None} :
       /\ AuthorizeEnrolment(o, code, signedIn)
       /\ invites' = IF code = "hers" /\ ~(signedIn # None /\ Enrols(InForce.doc))
                     THEN [invites EXCEPT ![o] = "none"] ELSE invites
  /\ members' = [members EXCEPT ![o] = [token |-> left["join"],
                                        role |-> InForce.doc.default]]
  /\ UNCHANGED <<charters, lock, engine, strays, cache, shown, vouchers, redeemed, glass, job>>

Leave(o) ==
  /\ Member(o)
  /\ members' = [members EXCEPT ![o] = NoMember]
  /\ UNCHANGED <<charters, lock, engine, strays, cache, invites, shown, vouchers, redeemed,
                 glass, job, left>>

SetRole(o, role) ==
  /\ Member(o) /\ role \in DOMAIN InForce.doc.roles \cup {None}
  /\ May("role")
  /\ Does("role")
  /\ members' = [members EXCEPT ![o].role = role]
  /\ UNCHANGED <<charters, lock, engine, strays, cache, invites, shown, vouchers, redeemed,
                 glass, job>>

(* She is told, and then whoever has her name is no longer a member.        *)
RemoveMember(j, o) ==
  /\ Member(o) /\ Free(j)
  /\ Goes(j, [pc |-> "remove", owner |-> o])
  /\ UNCHANGED <<charters, lock, engine, strays, cache, members, invites, shown, vouchers,
                 redeemed, glass, left>>

Removed(j) ==
  /\ job[j].pc = "remove"
  /\ members' = [members EXCEPT ![job[j].owner] = NoMember]
  /\ Stops(j)
  /\ UNCHANGED <<charters, lock, engine, strays, cache, invites, shown, vouchers, redeemed,
                 glass, left>>
-----------------------------------------------------------------------------
(* A decision for a member's authority.                                     *)

Refuse == [effect |-> "refuse"]

(* The shipped policy with an administrator's rules, or without any.  Only  *)
(* what refuses nothing can ask, and only what does neither is allowed.     *)
Judged(charter, role, rules, fact) ==
  LET denied == charter.conditions \cup (IF rules = None THEN {} ELSE rules.deny)
      asked == charter.asks \cup (IF rules = None THEN {} ELSE rules.ask)
  IN  IF fact \in denied \/ fact \notin GroupOf(charter, role).delegates
      THEN Refuse
      ELSE [effect |-> IF fact \in asked THEN "ask" ELSE "allow"]

(* What her group was not given is refused, and what the charter does not   *)
(* claim is let by, before anything is asked of the engine.                 *)
Decide(j, o, fact) ==
  /\ Free(j) /\ Member(o) /\ May("decide")
  /\ GroupOf(InForce.doc, members[o].role).grants # {}
  /\ Does("decide")
  /\ Goes(j, [pc |-> "ask", again |-> FALSE,
              key |-> [doc |-> InForce.doc, role |-> members[o].role,
                       owner |-> o, fact |-> fact]])
  /\ UNCHANGED <<charters, lock, engine, strays, cache, members, invites, shown, vouchers,
                 redeemed, glass>>

(* The engine judges by what it holds when it is asked; the charter and the *)
(* group came with the request.                                             *)
EngineAnswers(j) ==
  LET b == job[j] IN
  /\ b.pc = "ask"
  /\ Goes(j, [pc |-> "judge", again |-> b.again, key |-> b.key, held |-> engine])
  /\ UNCHANGED <<charters, lock, engine, strays, cache, members, invites, shown, vouchers,
                 redeemed, glass, left>>

(* Mutant: a decision without the administrator's rules is one.             *)
Unjudged(held) == ~held.shipped

(* The engine holds no policy, or no rules where the charter in force has   *)
(* some, or some where it has none.                                         *)
Lacks(held) ==
  \/ ~held.shipped
  \/ (held.custom # None) # (InForce.doc.rego # None)

Answers(j, verdict) ==
  Goes(j, [pc |-> "answer", key |-> job[j].key, effect |-> verdict.effect])

Judge(j) ==
  LET b == job[j]
      verdict == Judged(b.key.doc, b.key.role, b.held.custom, b.key.fact)
  IN
  /\ b.pc = "judge" /\ ~Lacks(b.held)
  /\ cache' = {c \in cache : c.key # b.key} \cup {[key |-> b.key, verdict |-> verdict]}
  /\ Answers(j, verdict)
  /\ UNCHANGED <<charters, lock, engine, strays, members, invites, shown, vouchers, redeemed,
                 glass, left>>

(* The modules are put back under the lock of publishing ...                *)
Reload(j) ==
  LET b == job[j] IN
  /\ b.pc = "judge" /\ Lacks(b.held) /\ ~b.again /\ lock = None
  /\ lock' = j
  /\ engine' = [engine EXCEPT !.shipped = TRUE]
  /\ Goes(j, [pc |-> "reload", key |-> b.key])
  /\ UNCHANGED <<charters, strays, cache, members, invites, shown, vouchers, redeemed, glass,
                 left>>

(* ... and the engine is asked once more.                                   *)
Reloaded(j) ==
  LET b == job[j] IN
  /\ b.pc = "reload"
  /\ engine' = [engine EXCEPT !.custom = InForce.doc.rego]
  /\ lock' = None
  /\ Goes(j, [pc |-> "ask", again |-> TRUE, key |-> b.key])
  /\ UNCHANGED <<charters, strays, cache, members, invites, shown, vouchers, redeemed, glass, left>>

(* The engine cannot be reached, or lacks something again: a decision it    *)
(* made a moment ago stands, and else this is refused.                      *)
FallBack(j) ==
  LET b == job[j]
      recent == {c \in cache : c.key = b.key}
  IN
  /\ \/ b.pc \in {"ask", "reload"} /\ May("failure") /\ Does("failure")
     \/ b.pc = "judge" /\ b.again /\ Lacks(b.held) /\ UNCHANGED left
  /\ lock' = IF lock = j THEN None ELSE lock
  /\ \/ recent = {} /\ Answers(j, Refuse)
     \/ \E c \in recent : Answers(j, c.verdict)
  /\ UNCHANGED <<charters, engine, strays, cache, members, invites, shown, vouchers, redeemed,
                 glass>>

Answered(j) ==
  /\ job[j].pc = "answer"
  /\ Stops(j)
  /\ UNCHANGED <<charters, lock, engine, strays, cache, members, invites, shown, vouchers,
                 redeemed, glass, left>>

EngineRestarts ==
  /\ May("failure")
  /\ Does("failure")
  /\ engine' = [shipped |-> FALSE, custom |-> None]
  /\ UNCHANGED <<charters, lock, strays, cache, members, invites, shown, vouchers, redeemed,
                 glass, job>>

CacheAges ==
  /\ cache # {}
  /\ \E c \in cache : cache' = cache \ {c}
  /\ UNCHANGED <<charters, lock, engine, strays, members, invites, shown, vouchers, redeemed,
                 glass, job, left>>
-----------------------------------------------------------------------------
(* Break-glass.                                                             *)

BreakGlassAllowed(o) == Member(o) /\ InForce.doc.glass.enabled

(* She is told before a window is open, and of one she could not be told of *)
(* there is none.  It is bound to the membership there is by then.          *)
OpenVoucher(j, o) ==
  /\ Free(j) /\ BreakGlassAllowed(o) /\ May("voucher")
  /\ Does("voucher")
  /\ Goes(j, [pc |-> "open", owner |-> o, number |-> left["voucher"]])
  /\ UNCHANGED <<charters, lock, engine, strays, cache, members, invites, shown, vouchers,
                 redeemed, glass>>

VoucherOpened(j) ==
  LET b == job[j] IN
  /\ b.pc = "open"
  /\ \/ Member(b.owner) /\ vouchers' = vouchers \cup
          {[number |-> b.number, owner |-> b.owner, membership |-> members[b.owner].token]}
     \/ UNCHANGED vouchers
  /\ Stops(j)
  /\ UNCHANGED <<charters, lock, engine, strays, cache, members, invites, shown, redeemed, glass,
                 left>>

VoucherExpires(v) ==
  /\ v \in vouchers
  /\ vouchers' = vouchers \ {v}
  /\ UNCHANGED <<charters, lock, engine, strays, cache, members, invites, shown, redeemed, glass,
                 job, left>>

Good(v, o) == v.owner = o /\ v.membership = members[o].token

(* Everything is checked and the signature spent; but the override rests on *)
(* a membership, and one she has left since is an error.                    *)
Issues(j, q) ==
  LET o == SignedFor[q] IN
  /\ redeemed' = redeemed \cup {q}
  /\ IF Member(o)
     THEN /\ glass' = Append(glass, [request |-> q, owner |-> o, spent |-> FALSE,
                                     membership |-> members[o].token, told |-> FALSE,
                                     handed |-> FALSE, seen |-> FALSE, used |-> 0])
          /\ Goes(j, [pc |-> "tell", nr |-> Len(glass) + 1])
     ELSE Stops(j) /\ UNCHANGED glass

(* With a voucher, which is spent too, at once; or the key of the request   *)
(* is looked for in an operator's directory.                                *)
BreakGlass(j, q) ==
  LET o == SignedFor[q] IN
  /\ Free(j) /\ BreakGlassAllowed(o) /\ q \notin redeemed /\ May("override")
  /\ Does("override")
  /\ IF q \in WithVoucher
     THEN \E v \in vouchers :
            Good(v, o) /\ vouchers' = vouchers \ {v} /\ Issues(j, q)
     ELSE Goes(j, [pc |-> "directory", request |-> q])
          /\ UNCHANGED <<vouchers, redeemed, glass>>
  /\ UNCHANGED <<charters, lock, engine, strays, cache, members, invites, shown>>

(* It is published there, or it is not, or not in a scope that is allowed.  *)
Looked(j) ==
  /\ job[j].pc = "directory"
  /\ \/ Issues(j, job[j].request)
     \/ Stops(j) /\ UNCHANGED <<redeemed, glass>>
  /\ UNCHANGED <<charters, lock, engine, strays, cache, members, invites, shown, vouchers, left>>

(* The notice, in her authority: on her record.                             *)
OrgNotice(g) == [g EXCEPT !.told = TRUE]

(* Mutant: it is handed out whoever could be told.                          *)
HandedAnyway(g, known) == [g EXCEPT !.handed = TRUE]

(* What becomes of an override when this service knows that her authority   *)
(* heard of it, or does not.                                                *)
HandedOut(g, known) == [g EXCEPT !.handed = known, !.spent = @ \/ ~known]

Tell(j) ==
  LET n == job[j].nr IN
  /\ job[j].pc = "tell"
  /\ \E heard \in BOOLEAN, known \in BOOLEAN :
       /\ known => heard
       /\ glass' = [glass EXCEPT ![n] = HandedOut(IF heard THEN OrgNotice(@) ELSE @, known)]
  /\ Stops(j)
  /\ UNCHANGED <<charters, lock, engine, strays, cache, members, invites, shown, vouchers,
                 redeemed, left>>

(* Mutant: whoever has the name is the member.                              *)
SameName(g) == members[g.owner] # NoMember

SameMembership(g) == members[g.owner].token = g.membership

(* The enforcement point asks whether it is good, and then spends it, for   *)
(* the one call it is for.                                                  *)
Introspect(n) ==
  /\ n \in DOMAIN glass
  /\ glass[n].handed /\ ~glass[n].seen /\ ~glass[n].spent /\ SameMembership(glass[n])
  /\ glass' = [glass EXCEPT ![n].seen = TRUE]
  /\ UNCHANGED <<charters, lock, engine, strays, cache, members, invites, shown, vouchers,
                 redeemed, job, left>>

Consume(n) ==
  /\ n \in DOMAIN glass
  /\ glass[n].seen /\ ~glass[n].spent /\ SameMembership(glass[n])
  /\ glass' = [glass EXCEPT ![n].spent = TRUE, ![n].used = @ + 1]
  /\ UNCHANGED <<charters, lock, engine, strays, cache, members, invites, shown, vouchers,
                 redeemed, job, left>>

OverrideExpires(n) ==
  /\ n \in DOMAIN glass /\ glass[n].handed /\ ~glass[n].spent
  /\ glass' = [glass EXCEPT ![n].spent = TRUE]
  /\ UNCHANGED <<charters, lock, engine, strays, cache, members, invites, shown, vouchers,
                 redeemed, job, left>>
-----------------------------------------------------------------------------
Publishing(j) ==
  \/ PutCharter(j)
  \/ \E role \in Role, group \in Groups, default \in BOOLEAN : PutRole(j, role, group, default)
  \/ \E role \in Role : DeleteRole(j, role)
  \/ \E role \in Role \cup {None} : DefaultRole(j, role)
  \/ Publish(j) \/ Load(j) \/ PutInForce(j) \/ LoadFails(j)

Deciding(j) ==
  \/ \E o \in Owner, fact \in Facts : Decide(j, o, fact)
  \/ EngineAnswers(j) \/ Judge(j) \/ Reload(j) \/ Reloaded(j) \/ FallBack(j) \/ Answered(j)

Overriding(j) ==
  \/ \E o \in Owner : OpenVoucher(j, o)
  \/ VoucherOpened(j)
  \/ \E q \in Request : BreakGlass(j, q)
  \/ Looked(j) \/ Tell(j)

Belonging(o) ==
  \/ Invite(o) \/ Decline(o) \/ Withdraw(o) \/ Preview(o) \/ Join(o) \/ Leave(o)
  \/ \E role \in Role \cup {None} : SetRole(o, role)

Next ==
  \/ \E j \in Job : Publishing(j) \/ Deciding(j) \/ Overriding(j) \/ Removed(j)
  \/ \E j \in Job, o \in Owner : RemoveMember(j, o)
  \/ \E o \in Owner : Belonging(o)
  \/ \E v \in vouchers : VoucherExpires(v)
  \/ \E n \in DOMAIN glass : Introspect(n) \/ Consume(n) \/ OverrideExpires(n)
  \/ EngineRestarts \/ CacheAges

Spec == Init /\ [][Next]_vars
-----------------------------------------------------------------------------
Versions == DOMAIN charters

(* The rules that may have judged a request about this charter: those of    *)
(* one since it was first in force, of one that the engine has and is about *)
(* to be, or of one the engine was given that failed since.                 *)
Since(doc) == {n \in Versions : \E k \in 1..n : charters[k].doc = doc}

RulesSince(doc) ==
  {charters[n].doc.rego : n \in Since(doc)}
  \cup {job[j].doc.rego : j \in {i \in Job : job[i].pc = "append"}}
  \cup {s.rego : s \in {t \in strays : t.over \in Since(doc)}}

(* A yes, or a question, is never given by an engine that lost the          *)
(* organization's rules, and never by rules older than the charter the      *)
(* request was judged by: not while one is published, not when the engine   *)
(* restarts between two requests, not from what is remembered when it       *)
(* cannot be reached.  Rules that the engine took of a publication whose    *)
(* answer was lost do judge, until the next.                                *)
AllowIsOfACharter ==
  \A j \in Job :
    job[j].pc = "answer" /\ job[j].effect # "refuse" =>
      LET k == job[j].key IN
      \E rules \in RulesSince(k.doc) :
        Judged(k.doc, k.role, rules, k.fact).effect = job[j].effect

(* A charter that says which version it was made from follows that one: no  *)
(* publication undoes another that its administrator had not seen.          *)
PublishKeepsChanges ==
  \A n \in Versions : charters[n].base # None => charters[n].base = n - 1

(* An override is used once, after she was told of it, and only under the   *)
(* membership that it was issued under.                                     *)
OverridesAreBounded ==
  [][\A n \in DOMAIN glass :
       glass'[n].used # glass[n].used =>
         /\ glass[n].used = 0 /\ glass[n].told
         /\ Member(glass[n].owner)
         /\ members[glass[n].owner].token = glass[n].membership]_vars

=============================================================================
