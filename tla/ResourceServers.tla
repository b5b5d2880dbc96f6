-------------------------- MODULE ResourceServers --------------------------
(***************************************************************************)
(* The standing relationship between an owner's authority and the resource *)
(* servers that hold what is hers: how a server that was given no secret   *)
(* introduces itself and gets a protection token (lib/uma4a_pep.py,        *)
(* /rs/register and client_credentials of services/uma-as/app.py), how a   *)
(* gateway puts together what it publishes (services/uma-pep/app.py), and  *)
(* how each replica of the authority learns of it.                         *)
(*                                                                         *)
(* A server's row is one row of the store; an await of it, of the server's *)
(* keys or of its listing ends a step.  A replica's registry says by which *)
(* servers a resource is published to her.  It is a dictionary that worker *)
(* threads write: taking the servers of a resource and putting them back   *)
(* are two steps.                                                          *)
(***************************************************************************)
EXTENDS Naturals, TLC

CONSTANTS
  Server,        \* resource servers, by the origin they register with
  Provisioned,   \* those that the deployment gave a secret instead
  Serves,        \* the resources of hers that each may publish
  Gateway,       \* those that ask others what they serve, see Joint
  Joint,         \* held jointly: a mandate that a tally publishes names the holders
  Resource,
  Replica,       \* of the authority
  Call,          \* protection calls in flight at the servers
  Worker,        \* threads of the authority that read listings, one at a time
  WorkerOf,      \* the one that a call's reading is done by
  Portal,        \* those that read for her portal as well
  At,            \* whose replica's thread it is
  Limit          \* how often each kind of thing happens, and how many in all

VARIABLES
  row,           \* resource_servers: a server's status and its secret
  secret,        \* the secret that the deployment provisions now
  held,          \* whether a server holds a protection token
  throttled,     \* _establish_after lies ahead
  call,
  missed,        \* _RS_MISS_CACHE: the servers whose keys a replica could not have
  published,     \* what is hers at a server, whoever has the say in it
  mandate,       \* _MANDATES: what a gateway was last told that she holds
  registry,      \* RESOURCES: the servers of a resource, at each replica
  pull,          \* the readings of listings in progress
  left           \* what the bounds leave

vars == <<row, secret, held, throttled, call, missed, published, mandate, registry, pull,
          left>>

Idle == [pc |-> "idle"]
NoMandate == [names |-> {}, age |-> "gone"]
Signed == Server \ Provisioned

(* What is lost is bounded apart from what is decided.                      *)
Lot(kind) == IF kind = "failure" THEN {kind} ELSE {kind, "all"}
May(kind) == \A k \in Lot(kind) : left[k] > 0
Does(kind) == left' = [k \in DOMAIN left |-> left[k] - (IF k \in Lot(kind) THEN 1 ELSE 0)]

Goes(c, to) == call' = [call EXCEPT ![c] = to]
Moves(c, pc) == Goes(c, [call[c] EXCEPT !.pc = pc])
Ends(c) == Goes(c, Idle)

Active == {s \in Server : row[s].status = "active"}

(* A provisioned server is seeded with its secret; the others are unknown.  *)
Init ==
  /\ row = [s \in Server |-> IF s \in Provisioned
                             THEN [status |-> "active", secret |-> 1]
                             ELSE [status |-> "none", secret |-> 0]]
  /\ secret = 1
  /\ held = [s \in Server |-> FALSE]
  /\ throttled = [s \in Server |-> FALSE]
  /\ call = [c \in Call |-> Idle]
  /\ missed = [n \in Replica |-> {}]
  /\ published = Serves
  /\ mandate = [s \in Server |-> NoMandate]
  /\ registry = [n \in Replica |-> [r \in Resource |-> {}]]
  /\ pull = [p \in Worker |-> Idle]
  /\ left = Limit
-----------------------------------------------------------------------------
(* Her decisions, and what the deployment does.                             *)

Approve(s) ==
  /\ row[s].status = "pending"
  /\ row' = [row EXCEPT ![s].status = "active"]
  /\ UNCHANGED <<secret, held, throttled, call, missed, published, mandate, registry, pull, left>>

Revoke(s) ==
  /\ row[s].status # "none" /\ May("revoke")
  /\ Does("revoke")
  /\ row' = [row EXCEPT ![s].status = "revoked"]
  /\ UNCHANGED <<secret, held, throttled, call, missed, published, mandate, registry, pull>>

Rotate ==
  /\ May("rotate")
  /\ Does("rotate")
  /\ secret' = secret + 1
  /\ UNCHANGED <<row, held, throttled, call, missed, published, mandate, registry, pull>>

(* An account is opened or closed; the organization shares its own with her *)
(* or no longer; she becomes one of the holders of another, or is none.     *)
Publish(s, r) ==
  /\ May("publish")
  /\ Does("publish")
  /\ published' = [published EXCEPT ![s] = IF r \in @ THEN @ \ {r} ELSE @ \cup {r}]
  /\ UNCHANGED <<row, secret, held, throttled, call, missed, mandate, registry, pull>>

PatLapses(s) ==
  /\ held[s] /\ May("lapse")
  /\ Does("lapse")
  /\ held' = [held EXCEPT ![s] = FALSE]
  /\ UNCHANGED <<row, secret, throttled, call, missed, published, mandate, registry, pull>>

ThrottleEnds(s) ==
  /\ throttled[s] /\ May("lapse")
  /\ Does("lapse")
  /\ throttled' = [throttled EXCEPT ![s] = FALSE]
  /\ UNCHANGED <<row, secret, held, call, missed, published, mandate, registry, pull>>
-----------------------------------------------------------------------------
(* A protection call: with the token in hand, or a new one, and once more   *)
(* with a fresh one when it is refused.                                     *)

Begin(c, s, r) ==
  /\ call[c] = Idle /\ r \in Serves[s]
  /\ Goes(c, [pc |-> IF held[s] THEN "use" ELSE "token", server |-> s, resource |-> r,
              again |-> FALSE, introduced |-> FALSE])
  /\ UNCHANGED <<row, secret, held, throttled, missed, published, mandate, registry, pull, left>>

Use(c) ==
  LET b == call[c] IN
  /\ b.pc = "use"
  /\ IF row[call[c].server].status = "active" THEN Moves(c, "perm")
     ELSE IF b.again THEN Ends(c)
     ELSE Goes(c, [b EXCEPT !.pc = "token", !.again = TRUE])
  /\ UNCHANGED <<row, secret, held, throttled, missed, published, mandate, registry, pull, left>>

(* The authority reads the row, and answers by it after it has fetched the  *)
(* server's keys, or brought the secret in the row up to date: one row put  *)
(* over another.                                                            *)
AskToken(c) ==
  LET b == call[c]
      seen == row[call[c].server]
  IN
  /\ b.pc = "token"
  /\ Goes(c, [b EXCEPT !.pc = IF seen.secret \in {0, secret} THEN "answer"
                              ELSE "provision"] @@ [seen |-> seen])
  /\ UNCHANGED <<row, secret, held, throttled, missed, published, mandate, registry, pull, left>>

ProvisionSecret(c) ==
  LET s == call[c].server IN
  /\ call[c].pc = "provision"
  /\ row' = [row EXCEPT ![s] = [call[c].seen EXCEPT !.secret = secret]]
  /\ Moves(c, "answer")
  /\ UNCHANGED <<secret, held, throttled, missed, published, mandate, registry, pull, left>>

(* Mutant: a withdrawal waits for the throttle like any refusal.            *)
IntroducesPatiently(s, withdrawn) == ~throttled[s]

(* The throttle is for an authority that does not know the server.          *)
Introduces(s, withdrawn) == withdrawn \/ ~throttled[s]

(* A server with no secret is known by the keys that its own origin         *)
(* publishes: where they cannot be had they are not looked for again for a  *)
(* while, and it is as unknown as one that never came.                      *)
MetadataHad(n, s) == s \notin missed[n] /\ UNCHANGED <<missed, left>>

MetadataMissed(n, s) ==
  \/ s \in missed[n] /\ UNCHANGED <<missed, left>>
  \/ /\ s \notin missed[n] /\ May("failure")
     /\ Does("failure")
     /\ missed' = [missed EXCEPT ![n] = @ \cup {s}]

Signs(c, known) ==
  LET s == call[c].server
      n == At[WorkerOf[c]]
  IN \/ known /\ s \in Signed /\ MetadataHad(n, s)
     \/ known /\ s \in Provisioned /\ UNCHANGED <<missed, left>>
     \/ ~known /\ s \in Signed /\ MetadataMissed(n, s)

Without(b) == [f \in DOMAIN b \ {"seen"} |-> b[f]]

TokenAnswered(c, known) ==
  LET b == call[c]
      s == call[c].server
      status == IF known THEN b.seen.status ELSE "none"
  IN
  /\ b.pc = "answer"
  /\ IF b.seen.status = "none" THEN known /\ UNCHANGED <<missed, left>> ELSE Signs(c, known)
  /\ \/ /\ status = "active"
        /\ held' = [held EXCEPT ![s] = TRUE]
        /\ throttled' = [throttled EXCEPT ![s] = FALSE]
        /\ Goes(c, [Without(b) EXCEPT !.pc = "use", !.introduced = FALSE])
     \/ /\ status \in {"none", "revoked"} /\ s \in Signed /\ ~b.introduced
        /\ Introduces(s, status = "revoked")
        /\ throttled' = [throttled EXCEPT ![s] = TRUE]
        /\ Goes(c, [Without(b) EXCEPT !.pc = "register", !.introduced = TRUE])
        /\ UNCHANGED held
     \/ /\ \/ status = "pending" \/ b.introduced \/ s \in Provisioned
           \/ ~Introduces(s, status = "revoked")
        /\ status # "active"
        /\ Ends(c)
        /\ UNCHANGED <<held, throttled>>
  /\ UNCHANGED <<row, secret, published, mandate, registry, pull>>

(* It introduces itself.  A relationship that she has agreed to is left     *)
(* alone, if it is one when it is looked at; anything else is pending when  *)
(* it is written.                                                           *)
Register(c, known) ==
  /\ call[c].pc = "register"
  /\ Signs(c, known)
  /\ Moves(c, IF ~known \/ row[call[c].server].status = "active" THEN "token" ELSE "put")
  /\ UNCHANGED <<row, secret, held, throttled, published, mandate, registry, pull>>

PutPending(c) ==
  /\ call[c].pc = "put"
  /\ row' = [row EXCEPT ![call[c].server].status = "pending"]
  /\ Moves(c, "token")
  /\ UNCHANGED <<secret, held, throttled, missed, published, mandate, registry, pull, left>>

(* A request or its answer is lost.                                         *)
CallFails(c) ==
  /\ call[c].pc \notin {"idle", "perm", "reading"} /\ May("failure")
  /\ Does("failure")
  /\ Ends(c)
  /\ UNCHANGED <<row, secret, held, throttled, missed, published, mandate, registry, pull>>
-----------------------------------------------------------------------------
(* Reading what the servers publish.                                        *)

Reading == [pc |-> "next", servers |-> Active]
StartsReading(p) == pull' = [pull EXCEPT ![p] = Reading]

(* A ticket is asked for: at once, if the replica knows the resource to be  *)
(* this server's; and else, whatever comes of it, when all were read again. *)
Perm(c) ==
  LET b == call[c] IN
  /\ b.pc = "perm"
  /\ IF call[c].server \in registry[At[WorkerOf[c]]][b.resource]
     THEN Ends(c) /\ UNCHANGED pull
     ELSE /\ pull[WorkerOf[c]] = Idle
          /\ Moves(c, "reading") /\ StartsReading(WorkerOf[c])
  /\ UNCHANGED <<row, secret, held, throttled, missed, published, mandate, registry, left>>

PermAgain(c) ==
  /\ call[c].pc = "reading" /\ pull[WorkerOf[c]] = Idle
  /\ Ends(c)
  /\ UNCHANGED <<row, secret, held, throttled, missed, published, mandate, registry, pull, left>>

(* Her portal reads them when it has not for a while.                       *)
Look(p) ==
  /\ pull[p] = Idle
  /\ StartsReading(p)
  /\ UNCHANGED <<row, secret, held, throttled, call, missed, published, mandate, registry,
                 left>>

Reads(p, to) == pull' = [pull EXCEPT ![p] = to]
On(b, pc) == [pc |-> pc, servers |-> b.servers]

Lists(b, listing) == On(b, "take") @@ [from |-> b.from, listing |-> listing, todo |-> listing]

(* One after the other.  A gateway lists what it serves by itself and what  *)
(* is shared with her, and asks for what she holds jointly, unless it has   *)
(* just done so.                                                            *)
Fetch(p, s) ==
  LET b == [On(pull[p], "asking") EXCEPT !.servers = @ \ {s}] @@ [from |-> s] IN
  /\ pull[p].pc = "next" /\ s \in pull[p].servers
  /\ Reads(p,
       IF s \notin Gateway THEN Lists(b, published[s])
       ELSE IF mandate[s].age = "recent"
            THEN Lists(b, (published[s] \ Joint) \cup mandate[s].names)
       ELSE b @@ [own |-> published[s] \ Joint, names |-> published[s] \cap Joint,
                  copy |-> mandate[s]])
  /\ UNCHANGED <<row, secret, held, throttled, call, missed, published, mandate, registry,
                 left>>

(* A listing that cannot be had, or that a server does not show to whoever  *)
(* asks, is passed over.                                                    *)
FetchFails(p, s) ==
  /\ pull[p].pc = "next" /\ s \in pull[p].servers /\ May("failure")
  /\ Does("failure")
  /\ Reads(p, [pull[p] EXCEPT !.servers = @ \ {s}])
  /\ UNCHANGED <<row, secret, held, throttled, call, missed, published, mandate, registry>>

JointHeld(p) ==
  LET b == pull[p] IN
  /\ b.pc = "asking"
  /\ mandate' = [mandate EXCEPT ![b.from] = [names |-> b.names, age |-> "recent"]]
  /\ Reads(p, Lists(b, b.own \cup b.names))
  /\ UNCHANGED <<row, secret, held, throttled, call, missed, published, registry, left>>

(* The tally does not answer: what it last said stands for a while longer,  *)
(* and then there is no listing rather than a shorter one.                  *)
Unreadable(b) ==
  IF b.copy.age = "gone" THEN On(b, "next") ELSE Lists(b, b.own \cup b.copy.names)

JointUnknown(p) ==
  /\ pull[p].pc = "asking" /\ May("failure")
  /\ Does("failure")
  /\ Reads(p, Unreadable(pull[p]))
  /\ UNCHANGED <<row, secret, held, throttled, call, missed, published, mandate, registry>>

Take(p) ==
  LET b == pull[p] IN
  /\ b.pc = "take" /\ b.todo # {}
  /\ \E r \in b.todo :
       Reads(p, [b EXCEPT !.pc = "add", !.todo = @ \ {r}]
                @@ [resource |-> r, sources |-> registry[At[p]][r]])
  /\ UNCHANGED <<row, secret, held, throttled, call, missed, published, mandate, registry,
                 left>>

Add(p) ==
  LET b == pull[p] IN
  /\ b.pc = "add"
  /\ registry' = [registry EXCEPT ![At[p]][b.resource] = b.sources \cup {b.from}]
  /\ Reads(p, [Lists(b, b.listing) EXCEPT !.todo = b.todo])
  /\ UNCHANGED <<row, secret, held, throttled, call, missed, published, mandate, left>>

(* Mutant: the listing is merged into what is known.                        *)
MergedListing(known, s, listing) == known

(* What the listing no longer has is no longer this server's.               *)
Listed(known, s, listing) ==
  [r \in Resource |-> IF r \in listing THEN known[r] ELSE known[r] \ {s}]

(* The dictionary cannot be gone through while another thread adds to it.   *)
Drop(p) ==
  LET b == pull[p]
      n == At[p]
  IN
  /\ b.pc = "take" /\ b.todo = {}
  /\ \/ registry' = [registry EXCEPT ![n] = Listed(@, b.from, b.listing)]
     \/ /\ \E q \in Worker \ {p} : At[q] = n /\ pull[q].pc = "add"
        /\ UNCHANGED registry
  /\ Reads(p, On(b, "next"))
  /\ UNCHANGED <<row, secret, held, throttled, call, missed, published, mandate, left>>

Done(p) ==
  /\ pull[p].pc = "next" /\ pull[p].servers = {}
  /\ Reads(p, Idle)
  /\ UNCHANGED <<row, secret, held, throttled, call, missed, published, mandate, registry,
                 left>>

(* A replica starts again with nothing, and reads until it has read all.    *)
Restart(n) ==
  /\ May("restart")
  /\ Does("restart")
  /\ registry' = [registry EXCEPT ![n] = [r \in Resource |-> {}]]
  /\ missed' = [missed EXCEPT ![n] = {}]
  /\ pull' = [p \in Worker |-> IF At[p] # n THEN pull[p]
                               ELSE IF p \in Portal THEN Reading ELSE Idle]
  /\ call' = [c \in Call |-> IF At[WorkerOf[c]] = n THEN Idle ELSE call[c]]
  /\ UNCHANGED <<row, secret, held, throttled, published, mandate>>

MissLapses(n, s) ==
  /\ s \in missed[n]
  /\ missed' = [missed EXCEPT ![n] = @ \ {s}]
  /\ UNCHANGED <<row, secret, held, throttled, call, published, mandate, registry, pull, left>>

(* Mutant: what the tally said once is said for good.                       *)
KeptMandate(copy) == copy

Older(copy) == IF copy.age = "recent" THEN [copy EXCEPT !.age = "grace"] ELSE NoMandate

MandateAges(s) ==
  /\ mandate[s].age # "gone"
  /\ mandate' = [mandate EXCEPT ![s] = Older(@)]
  /\ UNCHANGED <<row, secret, held, throttled, call, missed, published, registry, pull, left>>
-----------------------------------------------------------------------------
CallStep(c) ==
  \/ \E known \in BOOLEAN : TokenAnswered(c, known) \/ Register(c, known)
  \/ Use(c) \/ AskToken(c) \/ ProvisionSecret(c) \/ PutPending(c) \/ Perm(c) \/ PermAgain(c)

ReadStep(p) ==
  \/ \E s \in Server : Fetch(p, s)
  \/ JointHeld(p) \/ Take(p) \/ Add(p) \/ Drop(p) \/ Done(p)

Ages ==
  \/ \E s \in Gateway : MandateAges(s)
  \/ \E n \in Replica, s \in Signed : MissLapses(n, s)

Begins(s) == \E c \in Call, r \in Resource : Begin(c, s, r)

Next ==
  \/ \E c \in Call : CallStep(c) \/ CallFails(c)
  \/ \E p \in Worker : ReadStep(p) \/ JointUnknown(p)
  \/ \E p \in Worker, s \in Server : FetchFails(p, s)
  \/ \E p \in Portal : Look(p)
  \/ \E s \in Server : Begins(s) \/ Approve(s) \/ Revoke(s) \/ PatLapses(s) \/ ThrottleEnds(s)
  \/ \E s \in Server : \E r \in Serves[s] : Publish(s, r)
  \/ \E n \in Replica : Restart(n)
  \/ Rotate \/ Ages

(* Requests for her resources keep coming, at every server, and she keeps   *)
(* her portal open.                                                         *)
(* The throttle is not assumed to end: its time is long against a request.  *)
Fairness ==
  /\ \A c \in Call : WF_vars(CallStep(c))
  /\ \A s \in Server : SF_vars(Begins(s))
  /\ \A p \in Worker : WF_vars(ReadStep(p))
  /\ \A p \in Portal : WF_vars(Look(p))
  /\ WF_vars(Ages)

Spec == Init /\ [][Next]_vars /\ Fairness
-----------------------------------------------------------------------------
(* A withdrawal is put to her as a question, by the next calls of the       *)
(* server, even at one that has just introduced itself and been throttled:  *)
(* it is not to look like an outage (the comment in pat).                   *)
WithdrawalIsAsked ==
  \A s \in Signed : row[s].status = "revoked" ~> row[s].status # "revoked"

(* Replicas that read the listings separately converge on what is           *)
(* published, the absences included, whatever was read late, lost to        *)
(* another thread or not there to be read, and however old what a gateway   *)
(* was told of it (the comments at RESOURCES and in owner_resources).       *)
RegistryConverges ==
  \A n \in Replica, s \in Server, r \in Resource :
    LET knows == s \in registry[n][r] IN
    /\ (<>[](row[s].status = "active" /\ r \in published[s]) => []<>knows)
    /\ (<>[](row[s].status = "active" /\ r \notin published[s]) => []<>~knows)
=============================================================================
