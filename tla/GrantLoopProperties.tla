------------------------ MODULE GrantLoopProperties -------------------------
(***************************************************************************)
(* What the grant loop promises.  The first part are properties the loop   *)
(* has; the second are sentences of its own comments that it does not      *)
(* quite live up to, each violated by an interleaving its tests do not     *)
(* reach.                                                                  *)
(***************************************************************************)
EXTENDS GrantLoop

Recorded(j)   == rpts[j].status # "none"
Granted(f)    == \E j \in Jtis : Recorded(j) /\ rpts[j].family = f
LiveTicket(f) == \E t \in tickets : FamilyOf(t) = f
Holding(w, f) == pc[w] \notin {"idle", "spend"} /\ Family(w) = f

Yes(f) == answers[f].decision = "approved"

(* She, personally, said yes to this agent at this tier.                   *)
HerYesAt(a, tier) ==
  \/ a \in Standing
  \/ \E f \in Families : answers[f] = [decision |-> "approved", by |-> "owner",
                                       handle |-> a, tier |-> tier]

(* She, or an administrator for her, accepted this agent.                  *)
Accepted(a) ==
  \/ a \in Standing
  \/ \E f \in Families : Yes(f) /\ answers[f].handle = a

(* ... or accepted the agent that introduced it.                            *)
Known(a) == Accepted(a) \/ (Sponsor[a] # None /\ Accepted(Sponsor[a]))

-----------------------------------------------------------------------------
(* Safety.                                                                  *)

(* One negotiation ends in at most one grant, however its tickets are       *)
(* replayed, presented twice at once, or its request dies half way: the     *)
(* ticket is spent by the act of asking (consume_ticket).                   *)
OneGrantPerNegotiation ==
  \A i, j \in Jtis :
    Recorded(i) /\ Recorded(j) /\ rpts[i].family = rpts[j].family => i = j

(* Why: a negotiation is in one pair of hands.  It has at most one live     *)
(* ticket, or one request that holds it, and once it has ended in a grant   *)
(* only the request that is closing it.  A ticket a request was handed is   *)
(* never minted again.                                                      *)
OneTicket ==
  \A t, u \in tickets : FamilyOf(t) = FamilyOf(u) => t = u
OneHolder ==
  \A w, v \in Workers : \A f \in Families : Holding(w, f) /\ Holding(v, f) => w = v
TicketOrHolder ==
  \A w \in Workers : \A f \in Families : Holding(w, f) => ~LiveTicket(f)
GrantIsLast ==
  \A f \in Families : Granted(f) =>
    /\ ~LiveTicket(f)
    /\ \A w \in Workers : Holding(w, f) => pc[w] = "close"
TicketsAreOld ==
  /\ \A t \in tickets : t[2] \in 1..minted[FamilyOf(t)]
  /\ \A w \in Workers : pc[w] # "idle" => ticket[w][2] \in 1..minted[Family(w)]
  /\ \A f \in Families : Granted(f) => minted[f] > 0

OneHandAtATime ==
  OneTicket /\ OneHolder /\ TicketOrHolder /\ GrantIsLast /\ TicketsAreOld

(* While she has not answered, the agent's one handle on her answer is      *)
(* alive, whatever request was interrupted (the comment above peek_ticket's *)
(* use in /token).                                                          *)
HandleSurvives == \A f \in Pending : LiveTicket(f)

(* What she refused is never granted.                                       *)
DenialIsFinal ==
  \A f \in Families : answers[f].decision = "denied" => ~Granted(f)

(* Why a relaxing condition held of an agent: her own yes, the revocations  *)
(* that her records then showed, a connection that she or an administrator  *)
(* let in, or her claim of the operator.                                    *)
Reason(condition, a, tier, epoch) ==
  \/ condition = "approved_at_tier" /\ HerYesAt(a, tier)
  \/ condition = "never_revoked"    /\ epoch = 0
  \/ condition = "age_above"        /\ Known(a)
  \/ condition = "first_party"      /\ a \in FirstParty

(* Every grant rests on somebody's yes: to this negotiation, or to this     *)
(* agent or the agent that introduced it; and then, at an ask-me tier, on a *)
(* rule that she wrote there, every condition of which had its reason (the  *)
(* first-contact gate of /token, and policy.evaluate).                      *)
EveryGrantTracesToAYes ==
  \A j \in Jtis : Recorded(j) =>
    LET a == rpts[j].handle IN
    \/ /\ Yes(rpts[j].family)
       /\ answers[rpts[j].family].handle = a
       /\ answers[rpts[j].family].tier = rpts[j].tier
    \/ /\ Known(a)
       /\ rpts[j].tier \in AskMe =>
            \E rule \in Relaxations[rpts[j].tier] :
              \A condition \in rule : Reason(condition, a, rpts[j].tier, rpts[j].epoch)

(* tiers_approved, which one relaxing condition reads and which makes an    *)
(* agent a sponsor, holds only what she approved herself, never what an     *)
(* administrator approved for her (pending_poll, decide_pending).           *)
ApprovalsAreHers ==
  \A a \in Agents : \A tier \in connections[a].approved : HerYesAt(a, tier)

(* No sub-agent is left connected under a parent that is not: whoever finds *)
(* the parent gone, the request admitting the child or the revocation's     *)
(* cascade, is still on its way to it (the re-read after put_connection).   *)
NoOrphan ==
  \A c \in Agents :
    LET p == connections[c].parent IN
    connections[c].status = "active" /\ p # None /\ connections[p].status # "active" =>
      \/ \E w \in Workers : /\ pc[w] \in {"recheck", "undo"}
                            /\ rec[w].handle = c /\ sponsor[w] = p
      \/ \E s \in Sweepers : /\ sweep[s].parent = p
                             /\ sweep[s].stage = "children" \/ c \in sweep[s].todo

QueueDepthBounded ==
  \A lane \in Lanes :
    Cardinality({f \in Pending : /\ negotiations[f].kind = "connection"
                                 /\ Lane[negotiations[f].handle] = lane})
      <= Budget[lane] + Cardinality(Workers) - 1

FanoutBounded ==
  \A p \in Agents : Cardinality(LiveChildren(p)) <= Fanout + Cardinality(Workers) - 1

(* The depth of a lane is exceeded by no more than the requests that were   *)
(* in flight past the count, and so is the number of sub-agents: both       *)
(* limits are a count and a later write.                                    *)
LimitsHold == QueueDepthBounded /\ FanoutBounded

(* An answer stands for as long as its negotiation does: no request that    *)
(* writes back a copy it read earlier un-decides it, and a second tap, or   *)
(* an administrator a moment later, changes nothing (decide, _keep_decision).*)
AnswerStands ==
  [][\A f \in Families :
       negotiations[f].decision # "none" /\ negotiations[f]'.state # "none" =>
         /\ negotiations[f]'.decision = negotiations[f].decision
         /\ negotiations[f]'.by = negotiations[f].by]_negotiations

-----------------------------------------------------------------------------
(* Liveness, of FairSpec.                                                   *)

(* An answer that was recorded is collected: the negotiation is closed, and *)
(* a yes ends in a grant, unless the request runs out or she withdraws      *)
(* something first (the ticket is not spent while she decides: the comment  *)
(* above peek_ticket's use in /token).                                      *)
AnswerIsCollected ==
  \A f \in Families :
    /\ negotiations[f].decision # "none" ~>
         (negotiations[f].decision = "none" \/ negotiations[f].expired)
    /\ negotiations[f].decision = "approved" ~>
         (Granted(f) \/ negotiations[f].expired \/ acts > 0)

(* A revocation reaches every agent the revoked one introduced, unless she  *)
(* admits the introducer again first (revoke_connection_for's cascade).     *)
CascadeCompletes ==
  \A p, c \in Agents :
    (/\ connections[p].status = "revoked"
     /\ connections[c].status = "active" /\ connections[c].parent = p) ~>
      (\/ connections[p].status = "active"
       \/ ~(connections[c].status = "active" /\ connections[c].parent = p))

(* A block reaches every agent of the operator that is connected when it is *)
(* made, whatever sub-agents it meets on the way (block_operator_for).      *)
BlockReaches ==
  \A s \in Sweepers, a \in Agents :
    (/\ sweep[s].stage = "find" /\ sweep[s].origin = Operator[a]
     /\ connections[a].status = "active") ~> connections[a].status # "active"

-----------------------------------------------------------------------------
(* What the code says of itself, and an interleaving refutes.               *)

(* A grant is honoured only while the relationship it was decided under     *)
(* lasts: admitting an agent again does not bring back the authority that   *)
(* was ended (the comment in _decode_rpt).                                  *)
NoRevival ==
  \A j \in Jtis :
    Honoured(j) => rpts[j].epoch = connections[rpts[j].handle].revocations

=============================================================================
