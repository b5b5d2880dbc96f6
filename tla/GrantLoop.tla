----------------------------- MODULE GrantLoop ------------------------------
(***************************************************************************)
(* The grant loop of an owner's authority: POST /token with a UMA ticket,  *)
(* the owner's answers, her revocations and her operator blocks            *)
(* (services/uma-as/app.py), over the store of module OwnerStore.          *)
(*                                                                         *)
(* A worker is one /token request in flight.  Its program counter names    *)
(* the store call it makes next, and each action is that call with the     *)
(* local computation around it, so anything can happen between two calls.  *)
(* The worker's rec is its COPY of the negotiation and conn its copy of    *)
(* the agent's connection: both may be stale when they are used.           *)
(*                                                                         *)
(* A sweeper is one /owner/connections/revoke or /owner/operators/block    *)
(* request: the act itself, then the cascade over what was connected.      *)
(***************************************************************************)
EXTENDS OwnerStore

CONSTANTS
  Workers,          (* token requests in flight at once                    *)
  Sweepers,         (* revocations and blocks in flight at once            *)
  Sponsor,          (* the agent that vouches for an agent, or None: only  *)
                    (* pairs one operator published, as is verified first  *)
  AskMe,            (* tiers whose baseline is to ask her                  *)
  Relaxations,      (* tier -> its rules that grant automatically, each    *)
                    (* the relaxing conditions that it names               *)
  FirstParty,       (* agents of an operator that she claimed as her own   *)
  Uncovered,        (* tiers whose terms offer no scope the request needs  *)
  Lanes, Lane,      (* the pend queue's lanes, and each agent's            *)
  Budget,           (* lane -> how many strangers may wait in it           *)
  Fanout,           (* live sub-agents an agent may have                   *)
  Deciders,         (* who may answer: her, and an administrator if any    *)
  MaxTickets,       (* bound: tickets of a negotiation                     *)
  MaxActs,          (* bound: revocations and blocks she makes             *)
  MaxCrashes,       (* bound: requests that die half way                   *)
  TimePasses        (* whether negotiations may run out                    *)

(* The conditions that may lower a requirement (RELAXING_CONDITIONS).       *)
Relaxing == {"approved_at_tier", "never_revoked", "age_above", "first_party"}

ASSUME GrantLoopAssumption ==
  /\ None \notin Workers \cup Sweepers
  /\ IsFiniteSet(Workers) /\ Workers # {}
  /\ Sponsor \in [Agents -> Handles]
  /\ AskMe \subseteq Tiers /\ FirstParty \subseteq Agents
  /\ Relaxations \in [Tiers -> SUBSET ((SUBSET Relaxing) \ {{}})]
  /\ Uncovered \subseteq Tiers
  /\ Lane \in [Agents -> Lanes] /\ Budget \in [Lanes -> Nat]
  /\ Fanout \in Nat
  /\ Deciders \subseteq Authors
  /\ MaxTickets \in Nat /\ MaxActs \in Nat /\ MaxCrashes \in Nat
  /\ TimePasses \in BOOLEAN

VARIABLES
  pc,       (* worker -> the call it makes next                            *)
  ticket,   (* worker -> the ticket it was handed                          *)
  rec,      (* worker -> its copy of the negotiation                       *)
  conn,     (* worker -> its copy of the agent's connection                *)
  sponsor,  (* worker -> introduced_by, or the introduction on offer       *)
  sweep,    (* sweeper -> the revocation or block it is carrying out       *)
  acts,     (* how many revocations and blocks she has made                *)
  crashes,  (* how many requests have died                                 *)
  answers   (* history: family -> the answer that was given, if any        *)

workVars  == <<pc, ticket, rec, conn, sponsor>>
ownerVars == <<sweep, acts, answers>>
vars == <<storeVars, workVars, ownerVars, crashes>>

PollLabels  == {"poll", "unrevoked", "prior", "admit", "approval"}
AskLabels   == {"agree", "connection", "introduction", "operator", "queue",
                "vouch", "introduce", "recheck", "undo", "ask", "pend"}
Labels      == {"idle", "spend", "grant", "close"} \cup PollLabels \cup AskLabels

SweepStages == {"idle", "find", "sweep", "children", "cascade"}

NoSweep == [stage |-> "idle", origin |-> None, queue |-> {}, parent |-> None,
            todo |-> {}]
NoAnswer == [decision |-> "none", by |-> "none", handle |-> None, tier |-> None]
NoTicket == <<None, 0>>

Sweep ==
  [stage : SweepStages, origin : Operators \cup {None}, queue : SUBSET Agents,
   parent : Handles, todo : SUBSET Agents]
Answer ==
  [decision : Decisions \cup {"none"}, by : Authors \cup {"none"},
   handle : Handles, tier : Tiers \cup {None}]

WorkTypeOK ==
  /\ pc \in [Workers -> Labels]
  /\ ticket \in [Workers -> Tickets \cup {NoTicket}]
  /\ rec \in [Workers -> Negotiation]
  /\ conn \in [Workers -> Connection]
  /\ sponsor \in [Workers -> Handles]

OwnerTypeOK ==
  /\ sweep \in [Sweepers -> Sweep]
  /\ acts \in 0..MaxActs
  /\ crashes \in 0..MaxCrashes
  /\ answers \in [Families -> Answer]

(* What a request has in hand: a ticket; past its spending, a tier; past    *)
(* the agreement, an agent.                                                 *)
InHand(label, t, n) ==
  /\ label # "idle" => t \in Tickets
  /\ label \notin {"idle", "spend"} => n.tier \in Tiers
  /\ label \notin {"idle", "spend", "agree", "close"} => n.handle \in Agents

TypeOK ==
  /\ StoreTypeOK /\ RowsOK
  /\ WorkTypeOK /\ OwnerTypeOK
  /\ \A w \in Workers : InHand(pc[w], ticket[w], rec[w])

Init ==
  /\ StoreInit
  /\ pc = [w \in Workers |-> "idle"]
  /\ ticket = [w \in Workers |-> NoTicket]
  /\ rec = [w \in Workers |-> NoNegotiation]
  /\ conn = [w \in Workers |-> NoConnection]
  /\ sponsor = [w \in Workers |-> None]
  /\ sweep = [s \in Sweepers |-> NoSweep]
  /\ acts = 0
  /\ crashes = 0
  /\ answers = [f \in Families |-> NoAnswer]

-----------------------------------------------------------------------------
(* Helpers.                                                                *)

Family(w) == FamilyOf(ticket[w])

Goto(w, label) == pc' = [pc EXCEPT ![w] = label]

(* The response is sent: the request's local state is gone.                *)
Respond(w) ==
  /\ pc' = [pc EXCEPT ![w] = "idle"]
  /\ ticket' = [ticket EXCEPT ![w] = NoTicket]
  /\ rec' = [rec EXCEPT ![w] = NoNegotiation]
  /\ conn' = [conn EXCEPT ![w] = NoConnection]
  /\ sponsor' = [sponsor EXCEPT ![w] = None]

(* What a relaxing condition finds in her standing with agent a             *)
(* (standing_facts, _matches).  The moment she met it is not kept: of an    *)
(* agent she is connected with, any age may be on record.                   *)
Holds(condition, tier, a, c) ==
  \/ condition = "approved_at_tier" /\ c.status = "active" /\ tier \in c.approved
  \/ condition = "never_revoked"    /\ c.revocations = 0
  \/ condition = "age_above"        /\ c.status = "active"
  \/ condition = "first_party"      /\ a \in FirstParty

(* Mutant: one condition of a rule is enough.                               *)
RelaxedBySome(tier, a, c) ==
  \E rule \in Relaxations[tier] : \E condition \in rule : Holds(condition, tier, a, c)

Relaxed(tier, a, c) ==
  \E rule \in Relaxations[tier] : \A condition \in rule : Holds(condition, tier, a, c)

(* The rules of a tier, over her standing with the agent (policy.evaluate). *)
(* The relaxations are kept; a restriction, or a further condition of a     *)
(* relaxation, may rest on any fact about the request, so the requirement   *)
(* may always be higher.                                                    *)
Requirements(tier, a, c) ==
  IF tier \in AskMe /\ ~Relaxed(tier, a, c) THEN {"ask", "refuse"}
                                           ELSE {"auto", "ask", "refuse"}

(* What a request that reaches her puts to her: whether to deal with this   *)
(* agent at all, or this one operation.  "none": nothing, it is granted.    *)
KindOf(requirement, c) ==
  IF c.status # "active" THEN "connection"
  ELSE IF requirement = "ask" THEN "operation"
  ELSE "none"

AfterGates(kind) == IF kind = "none" THEN "grant" ELSE "ask"

-----------------------------------------------------------------------------
(* Tickets are asked for by the resource server, and run out.               *)

(* POST /perm: a fresh family with its first ticket.                        *)
Perm(f, tier) ==
  /\ minted[f] = 0
  /\ MintTicket(f, [NoNegotiation EXCEPT !.state = "issued", !.tier = tier])
  /\ UNCHANGED <<rpts, connections, blocked, workVars, ownerVars, crashes>>

(* A negotiation's lifetime ends.  The row stays until a request reaps it.  *)
Expire(f) ==
  /\ TimePasses
  /\ negotiations[f].state # "none"
  /\ negotiations' = [negotiations EXCEPT ![f].expired = TRUE]
  /\ UNCHANGED <<tickets, minted, rpts, connections, blocked, workVars,
                 ownerVars, crashes>>

-----------------------------------------------------------------------------
(* POST /token, up to the agreement.                                        *)

(* A ticket is presented.  Expired rows are reaped first; the ticket is     *)
(* then peeked at, and a request still waiting on her is answered with the  *)
(* SAME ticket, unspent.  An expired one is answered invalid_grant.         *)
Present(w, t) ==
  /\ pc[w] = "idle"
  /\ t \in tickets
  /\ ReapExpired
  /\ IF \/ negotiations[FamilyOf(t)].expired
        \/ Waiting(negotiations[FamilyOf(t)])
       THEN UNCHANGED <<pc, ticket>>
       ELSE Goto(w, "spend") /\ ticket' = [ticket EXCEPT ![w] = t]
  /\ UNCHANGED <<rpts, connections, blocked, rec, conn, sponsor, ownerVars,
                 crashes>>

(* Mutant: any answer counts as a yes.                                      *)
DispositionOfAnyAnswer(n) ==
  IF n.state # "awaiting-owner" THEN "agree"
  ELSE IF n.decision # "none" THEN "poll"
  ELSE "close"

(* What an answered or an open negotiation is in for once its ticket is     *)
(* spent.  (An unanswered one would be given a new ticket; but it is        *)
(* answered without its ticket being spent.)                                *)
Disposition(n) ==
  IF n.state # "awaiting-owner" THEN "agree"
  ELSE IF n.decision = "approved" THEN "poll"
  ELSE "close"

(* Mutant: nobody looks whether the ticket was still there to spend.        *)
SpendUnchecked(w) ==
  LET n == negotiations[Family(w)] IN
  /\ pc[w] = "spend"
  /\ ConsumeTicket(ticket[w])
  /\ IF ~n.expired
       THEN /\ Goto(w, Disposition(n))
            /\ rec' = [rec EXCEPT ![w] = n]
            /\ UNCHANGED <<ticket, conn, sponsor>>
       ELSE Respond(w)
  /\ UNCHANGED <<rpts, connections, blocked, ownerVars, crashes>>

(* The ticket is spent; whoever finds it gone or run out is turned away.    *)
Spend(w) ==
  LET n == negotiations[Family(w)] IN
  /\ pc[w] = "spend"
  /\ ConsumeTicket(ticket[w])
  /\ IF ticket[w] \in tickets /\ ~n.expired
       THEN /\ Goto(w, Disposition(n))
            /\ rec' = [rec EXCEPT ![w] = n]
            /\ UNCHANGED <<ticket, conn, sponsor>>
       ELSE Respond(w)
  /\ UNCHANGED <<rpts, connections, blocked, ownerVars, crashes>>

(* No agreement yet, or the terms asked for again: dictate them under a     *)
(* fresh nonce and ticket.                                                  *)
DictateTerms(w) ==
  /\ pc[w] = "agree"
  /\ minted[Family(w)] < MaxTickets - 1
  /\ MintTicket(Family(w), [rec[w] EXCEPT !.state = "need_info"])
  /\ Respond(w)
  /\ UNCHANGED <<rpts, connections, blocked, ownerVars, crashes>>

(* The agent declines, no tier covers the resource, a clearance is unmet,   *)
(* or the agreement does not verify: the negotiation is over.               *)
TurnAway(w) ==
  /\ pc[w] = "agree"
  /\ Goto(w, "close")
  /\ UNCHANGED <<storeVars, ticket, rec, conn, sponsor, ownerVars, crashes>>

(* A claim token of the wrong format, or before any terms were dictated:    *)
(* 400, with the ticket spent and the negotiation left where it is.         *)
RejectClaim(w) ==
  /\ pc[w] = "agree"
  /\ Respond(w)
  /\ UNCHANGED <<storeVars, ownerVars, crashes>>

(* Mutant: the agent is never named on the negotiation.                     *)
AgreeUnnamed(w, a, introducer) ==
  /\ pc[w] = "agree"
  /\ rec[w].state = "need_info"
  /\ sponsor' = [sponsor EXCEPT ![w] = introducer]
  /\ Goto(w, "connection")
  /\ UNCHANGED <<storeVars, ticket, rec, conn, ownerVars, crashes>>

(* The agreement verifies, and its signature says which agent this is.  It  *)
(* may carry the introduction of the agent that vouches for it.             *)
Agree(w, a, introducer) ==
  /\ pc[w] = "agree"
  /\ rec[w].state = "need_info"
  /\ rec' = [rec EXCEPT ![w].handle = a]
  /\ sponsor' = [sponsor EXCEPT ![w] = introducer]
  /\ Goto(w, "connection")
  /\ UNCHANGED <<storeVars, ticket, conn, ownerVars, crashes>>

-----------------------------------------------------------------------------
(* POST /token, from the agreement to her queue or a grant.                 *)

(* The agent's connection is read, once, and everything up to the grant is  *)
(* decided on this copy.  An introduction matters to a stranger only.       *)
ReadConnection(w) ==
  LET c == connections[rec[w].handle] IN
  /\ pc[w] = "connection"
  /\ conn' = [conn EXCEPT ![w] = c]
  /\ IF c.status # "active" /\ sponsor[w] # None
       THEN Goto(w, "introduction") /\ UNCHANGED sponsor
       ELSE Goto(w, "operator") /\ sponsor' = [sponsor EXCEPT ![w] = None]
  /\ UNCHANGED <<storeVars, ticket, rec, ownerVars, crashes>>

(* Mutant: the ceiling is off by one.                                       *)
AdmissibleOverCeiling(parent, prior) ==
  /\ connections[parent].status = "active"
  /\ connections[parent].approved # {}
  /\ connections[parent].parent = None
  /\ prior.status = "none"
  /\ Cardinality(LiveChildren(parent)) <= Fanout

(* introduction.admit: the parent as it stands, the child as it was read.   *)
Admissible(parent, prior) ==
  /\ connections[parent].status = "active"
  /\ connections[parent].approved # {}
  /\ connections[parent].parent = None
  /\ prior.status = "none"
  /\ Cardinality(LiveChildren(parent)) < Fanout

(* An introduction that is honoured builds the connection in memory; one    *)
(* that is not leaves a stranger.                                           *)
CheckIntroduction(w) ==
  /\ pc[w] = "introduction"
  /\ IF Admissible(sponsor[w], conn[w])
       THEN /\ conn' = [conn EXCEPT ![w].status = "active",
                                    ![w].parent = sponsor[w],
                                    ![w].approved = {}]
            /\ UNCHANGED sponsor
       ELSE /\ sponsor' = [sponsor EXCEPT ![w] = None]
            /\ UNCHANGED conn
  /\ Goto(w, "operator")
  /\ UNCHANGED <<storeVars, ticket, rec, ownerVars, crashes>>

(* Only strangers, and the requests of introduced agents that would reach   *)
(* her, are counted against her attention.                                  *)
Counted(kind, c) ==
  kind = "connection" \/ (kind = "operation" /\ c.parent # None)

(* Her operator block, then her policy over the copies in hand.             *)
CheckOperator(w) ==
  LET h == rec[w].handle IN
  /\ pc[w] = "operator"
  /\ IF Operator[h] \in blocked
       THEN Goto(w, "close") /\ UNCHANGED rec
       ELSE \E requirement \in Requirements(rec[w].tier, h, conn[w]) :
              IF requirement = "refuse"
                THEN Goto(w, "close") /\ UNCHANGED rec
                ELSE LET kind == KindOf(requirement, conn[w]) IN
                     /\ rec' = [rec EXCEPT ![w].kind = kind]
                     /\ Goto(w, IF Counted(kind, conn[w]) \/ sponsor[w] # None
                                  THEN "queue" ELSE AfterGates(kind))
  /\ UNCHANGED <<storeVars, ticket, conn, sponsor, ownerVars, crashes>>

(* The other requests already waiting in this agent's lane.                 *)
Queue(w) ==
  LET h     == rec[w].handle
      kinds == IF conn[w].parent # None THEN {"connection", "operation"}
                                        ELSE {"connection"}
  IN {f \in Pending \ {Family(w)} :
        /\ negotiations[f].kind \in kinds
        /\ Lane[negotiations[f].handle] = Lane[h]
        /\ negotiations[f].kind = "operation" =>
             connections[negotiations[f].handle].parent # None}

(* Mutant: the depth is off by one.                                         *)
CheckQueueOverDepth(w) ==
  /\ pc[w] = "queue"
  /\ Goto(w, IF Cardinality(Queue(w)) > Budget[Lane[rec[w].handle]] THEN "close"
             ELSE IF sponsor[w] # None THEN "vouch"
             ELSE AfterGates(rec[w].kind))
  /\ UNCHANGED <<storeVars, ticket, rec, conn, sponsor, ownerVars, crashes>>

(* A full lane refuses.  The count and the write that adds to it are two    *)
(* steps.                                                                   *)
CheckQueue(w) ==
  /\ pc[w] = "queue"
  /\ Goto(w, IF Cardinality(Queue(w)) >= Budget[Lane[rec[w].handle]] THEN "close"
             ELSE IF sponsor[w] # None THEN "vouch"
             ELSE AfterGates(rec[w].kind))
  /\ UNCHANGED <<storeVars, ticket, rec, conn, sponsor, ownerVars, crashes>>

(* The parent is read again before the child is written ...                 *)
CheckSponsor(w) ==
  /\ pc[w] = "vouch"
  /\ Goto(w, IF connections[sponsor[w]].status = "active" THEN "introduce"
                                                          ELSE "close")
  /\ UNCHANGED <<storeVars, ticket, rec, conn, sponsor, ownerVars, crashes>>

PutIntroduced(w) ==
  /\ pc[w] = "introduce"
  /\ PutConnection(rec[w].handle, conn[w])
  /\ Goto(w, "recheck")
  /\ UNCHANGED <<negVars, rpts, blocked, ticket, rec, conn, sponsor, ownerVars,
                 crashes>>

(* Mutant: the parent is not read again after the write.                    *)
RecheckNobody(w) ==
  /\ pc[w] = "recheck"
  /\ Goto(w, AfterGates(rec[w].kind))
  /\ UNCHANGED <<storeVars, ticket, rec, conn, sponsor, ownerVars, crashes>>

(* ... and once more after it: a revocation in between did not see it.      *)
RecheckSponsor(w) ==
  /\ pc[w] = "recheck"
  /\ Goto(w, IF connections[sponsor[w]].status = "active"
               THEN AfterGates(rec[w].kind) ELSE "undo")
  /\ UNCHANGED <<storeVars, ticket, rec, conn, sponsor, ownerVars, crashes>>

UndoIntroduction(w) ==
  /\ pc[w] = "undo"
  /\ RevokeConnection(rec[w].handle)
  /\ Goto(w, "close")
  /\ UNCHANGED <<negVars, blocked, ticket, rec, conn, sponsor, ownerVars,
                 crashes>>

(* The request will wait on her: note how often she had revoked this agent  *)
(* when it asked ...                                                        *)
NoteRevocations(w) ==
  /\ pc[w] = "ask"
  /\ rec' = [rec EXCEPT ![w].seen = connections[rec[w].handle].revocations]
  /\ Goto(w, "pend")
  /\ UNCHANGED <<storeVars, ticket, conn, sponsor, ownerVars, crashes>>

(* Mutant: the negotiation is saved, and no ticket minted for it.           *)
PendUnticketed(w) ==
  /\ pc[w] = "pend"
  /\ negotiations' = [negotiations EXCEPT
                        ![Family(w)] = [rec[w] EXCEPT !.state = "awaiting-owner"]]
  /\ Respond(w)
  /\ UNCHANGED <<tickets, minted, rpts, connections, blocked, ownerVars, crashes>>

(* ... and put it in her queue under a new ticket.                          *)
Pend(w) ==
  /\ pc[w] = "pend"
  /\ MintTicket(Family(w), [rec[w] EXCEPT !.state = "awaiting-owner"])
  /\ Respond(w)
  /\ UNCHANGED <<rpts, connections, blocked, ownerVars, crashes>>

(* issue_rpt: the grant is recorded, with no look at the connection it is   *)
(* issued under.                                                            *)
IssueRpt(w, j) ==
  /\ pc[w] = "grant"
  /\ rec[w].tier \notin Uncovered
  /\ RecordRpt(j, Family(w), rec[w].handle, rec[w].tier, conn[w].revocations)
  /\ Goto(w, "close")
  /\ UNCHANGED <<negVars, connections, blocked, ticket, rec, conn, sponsor,
                 ownerVars, crashes>>

(* ... or refused, because the agreement covers no scope the request needs: *)
(* an error, with the ticket spent and the negotiation left where it is.    *)
RefuseRpt(w) ==
  /\ pc[w] = "grant"
  /\ rec[w].tier \in Uncovered
  /\ Respond(w)
  /\ UNCHANGED <<storeVars, ownerVars, crashes>>

(* Every way a negotiation ends, refusal or grant, ends here.               *)
Close(w) ==
  /\ pc[w] = "close"
  /\ CloseNegotiation(Family(w))
  /\ Respond(w)
  /\ UNCHANGED <<rpts, connections, blocked, ownerVars, crashes>>

-----------------------------------------------------------------------------
(* POST /token, collecting a yes (pending_poll).                            *)

(* What she has withdrawn since she was asked: the operator first ...       *)
PollOperator(w) ==
  /\ pc[w] = "poll"
  /\ Goto(w, IF Operator[rec[w].handle] \in blocked THEN "close" ELSE "unrevoked")
  /\ UNCHANGED <<storeVars, ticket, rec, conn, sponsor, ownerVars, crashes>>

(* ... then the agent itself.                                               *)
PollConnection(w) ==
  LET c == connections[rec[w].handle] IN
  /\ pc[w] = "unrevoked"
  /\ conn' = [conn EXCEPT ![w] = c]
  /\ Goto(w, IF \/ c.revocations > rec[w].seen
                \/ rec[w].kind = "operation" /\ c.status # "active"
               THEN "close"
             ELSE IF rec[w].kind = "connection" THEN "prior"
             ELSE "approval")
  /\ UNCHANGED <<storeVars, ticket, rec, sponsor, ownerVars, crashes>>

(* A first contact she accepted: her new connection starts afresh, but for  *)
(* the revocations on file.                                                 *)
ReadPrior(w) ==
  /\ pc[w] = "prior"
  /\ conn' = [conn EXCEPT ![w] = connections[rec[w].handle]]
  /\ Goto(w, "admit")
  /\ UNCHANGED <<storeVars, ticket, rec, sponsor, ownerVars, crashes>>

AdmitConnection(w) ==
  /\ pc[w] = "admit"
  /\ PutConnection(rec[w].handle,
                   [NoConnection EXCEPT !.status = "active",
                                        !.revocations = conn[w].revocations])
  /\ Goto(w, "approval")
  /\ UNCHANGED <<negVars, rpts, blocked, ticket, rec, conn, sponsor, ownerVars,
                 crashes>>

(* Mutant: whoever answered, it counts as her own yes.                      *)
NoteAnyApproval(w) ==
  /\ pc[w] = "approval"
  /\ NoteTierApproval(rec[w].handle, rec[w].tier)
  /\ Goto(w, "grant")
  /\ UNCHANGED <<negVars, rpts, blocked, ticket, rec, conn, sponsor, ownerVars,
                 crashes>>

(* Only an answer that names her counts as her own yes at this tier.        *)
NoteApproval(w) ==
  /\ pc[w] = "approval"
  /\ IF rec[w].by = "owner" THEN NoteTierApproval(rec[w].handle, rec[w].tier)
                            ELSE UNCHANGED connections
  /\ Goto(w, "grant")
  /\ UNCHANGED <<negVars, rpts, blocked, ticket, rec, conn, sponsor, ownerVars,
                 crashes>>

(* The process, or the request, dies between two calls.                     *)
Crash(w) ==
  /\ pc[w] # "idle"
  /\ crashes < MaxCrashes
  /\ crashes' = crashes + 1
  /\ Respond(w)
  /\ UNCHANGED <<storeVars, ownerVars>>

(* A revocation's cascade, or a block's, dies between two of its steps.     *)
CrashSweep(s) ==
  /\ sweep[s].stage # "idle"
  /\ crashes < MaxCrashes
  /\ crashes' = crashes + 1
  /\ sweep' = [sweep EXCEPT ![s] = NoSweep]
  /\ UNCHANGED <<storeVars, workVars, acts, answers>>

-----------------------------------------------------------------------------
(* The owner.                                                               *)

(* She, or an administrator of the organization whose resource it is,       *)
(* answers what is waiting.  Only she admits an agent that she has not met. *)
OnlySheAdmits(f, decision, by) ==
  decision = "approved" /\ negotiations[f].kind = "connection" => by = "owner"

Decide(f, decision, by) ==
  /\ OnlySheAdmits(f, decision, by)
  /\ DecideNegotiation(f, decision, by)
  /\ answers' = [answers EXCEPT
                   ![f] = [decision |-> decision, by |-> by,
                           handle |-> negotiations[f].handle,
                           tier |-> negotiations[f].tier]]
  /\ UNCHANGED <<rpts, connections, blocked, workVars, sweep, acts, crashes>>

(* She revokes a connection: it falls first, and with it its grants.        *)
Revoke(s, h) ==
  /\ sweep[s].stage = "idle"
  /\ acts < MaxActs
  /\ connections[h].status # "none"
  /\ RevokeConnection(h)
  /\ acts' = acts + 1
  /\ sweep' = [sweep EXCEPT ![s] = [NoSweep EXCEPT !.stage = "children",
                                                   !.parent = h]]
  /\ UNCHANGED <<negVars, blocked, workVars, answers, crashes>>

(* She shuts an operator out.                                               *)
BlockOperator(s, o) ==
  /\ sweep[s].stage = "idle"
  /\ acts < MaxActs
  /\ blocked' = blocked \cup {o}
  /\ acts' = acts + 1
  /\ sweep' = [sweep EXCEPT ![s] = [NoSweep EXCEPT !.stage = "find",
                                                   !.origin = o]]
  /\ UNCHANGED <<negVars, rpts, connections, workVars, answers, crashes>>

(* Unblocking restores the right to ask, and nothing else.                  *)
UnblockOperator(o) ==
  /\ o \in blocked
  /\ blocked' = blocked \ {o}
  /\ UNCHANGED <<negVars, rpts, connections, workVars, ownerVars, crashes>>

(* Mutant: a sweep ends with the first agent's cascade.                     *)
NextStageEarly(queue, todo) == IF todo # {} THEN "cascade" ELSE "idle"

(* After a sweep's step: on to the next child, the next agent, or done.     *)
NextStage(queue, todo) ==
  IF todo # {} THEN "cascade" ELSE IF queue # {} THEN "sweep" ELSE "idle"

SweepTo(s, origin, queue, parent, todo) ==
  sweep' = [sweep EXCEPT ![s] =
              IF queue = {} /\ todo = {} THEN NoSweep
              ELSE [stage |-> NextStage(queue, todo), origin |-> origin,
                    queue |-> queue, parent |-> parent, todo |-> todo]]

(* The block's one reading of what that operator has connected.             *)
FindConnections(s) ==
  /\ sweep[s].stage = "find"
  /\ SweepTo(s, sweep[s].origin,
             {a \in Agents : /\ connections[a].status = "active"
                             /\ Operator[a] = sweep[s].origin},
             None, {})
  /\ UNCHANGED <<storeVars, workVars, acts, answers, crashes>>

(* It revokes one of them, then looks for the agents that one introduced.   *)
SweepConnection(s, h) ==
  /\ sweep[s].stage = "sweep"
  /\ h \in sweep[s].queue
  /\ RevokeConnection(h)
  /\ sweep' = [sweep EXCEPT ![s].stage = "children", ![s].parent = h,
                            ![s].queue = @ \ {h}]
  /\ UNCHANGED <<negVars, blocked, workVars, acts, answers, crashes>>

(* Mutant: the children are looked for under a handle that has none.        *)
FindNoChildren(s) ==
  /\ sweep[s].stage = "children"
  /\ SweepTo(s, sweep[s].origin, sweep[s].queue, sweep[s].parent, {})
  /\ UNCHANGED <<storeVars, workVars, acts, answers, crashes>>

(* The cascade's one reading of the agents the revoked one introduced.      *)
FindChildren(s) ==
  /\ sweep[s].stage = "children"
  /\ SweepTo(s, sweep[s].origin, sweep[s].queue, sweep[s].parent,
             LiveChildren(sweep[s].parent))
  /\ UNCHANGED <<storeVars, workVars, acts, answers, crashes>>

CascadeTo(s, c) ==
  /\ sweep[s].stage = "cascade"
  /\ c \in sweep[s].todo
  /\ RevokeConnection(c)
  /\ SweepTo(s, sweep[s].origin, sweep[s].queue, sweep[s].parent,
             sweep[s].todo \ {c})
  /\ UNCHANGED <<negVars, blocked, workVars, acts, answers, crashes>>

-----------------------------------------------------------------------------
(* The specification.                                                       *)

TokenStep(w) ==
  \/ Spend(w) \/ DictateTerms(w) \/ TurnAway(w) \/ RejectClaim(w)
  \/ \E a \in Agents : \E i \in {None, Sponsor[a]} : Agree(w, a, i)
  \/ ReadConnection(w) \/ CheckIntroduction(w) \/ CheckOperator(w)
  \/ CheckQueue(w) \/ CheckSponsor(w) \/ PutIntroduced(w)
  \/ RecheckSponsor(w) \/ UndoIntroduction(w) \/ NoteRevocations(w)
  \/ Pend(w) \/ (\E j \in Jtis : IssueRpt(w, j)) \/ RefuseRpt(w) \/ Close(w)
  \/ PollOperator(w) \/ PollConnection(w) \/ ReadPrior(w)
  \/ AdmitConnection(w) \/ NoteApproval(w)

SweepStep(s) ==
  \/ FindConnections(s) \/ FindChildren(s)
  \/ \E h \in Agents : SweepConnection(s, h) \/ CascadeTo(s, h)

Next ==
  \/ \E f \in Families, tier \in Tiers : Perm(f, tier)
  \/ \E f \in Families : Expire(f)
  \/ \E w \in Workers, t \in tickets : Present(w, t)
  \/ \E w \in Workers : TokenStep(w) \/ Crash(w)
  \/ \E f \in Families, d \in Decisions, by \in Deciders : Decide(f, d, by)
  \/ \E s \in Sweepers, h \in Agents : Revoke(s, h)
  \/ \E s \in Sweepers, o \in Operators : BlockOperator(s, o)
  \/ \E o \in Operators : UnblockOperator(o)
  \/ \E s \in Sweepers : SweepStep(s) \/ CrashSweep(s)

Spec == Init /\ [][Next]_vars

(* A server runs the requests it has accepted, and an agent polls with the  *)
(* ticket it holds (lib/uma4a_grant.py).  She is free not to answer.        *)
Fairness ==
  /\ \A w \in Workers : WF_vars(TokenStep(w))
  /\ \A s \in Sweepers : WF_vars(SweepStep(s))
  /\ \A f \in Families : WF_vars(\E w \in Workers, t \in tickets :
                                    FamilyOf(t) = f /\ Present(w, t))

FairSpec == Spec /\ Fairness
=============================================================================
