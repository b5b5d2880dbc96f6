------------------------------ MODULE AgentShim ------------------------------
(***************************************************************************)
(* An agent's errand at a resource that an organization shares with her:   *)
(* tool calls of a client through the shim (clients/agent-shim/shim.py),   *)
(* and of a headless agent that uses the same library                      *)
(* (lib/uma4a_grant.py) and carries enterprise credentials; the            *)
(* enforcement point they meet (SharedBook), and her authority             *)
(* (FederatedToken).                                                       *)
(*                                                                         *)
(* The shim is one process: calls of its client share what it holds, and   *)
(* interleave wherever one awaits an answer.  All calls are of one tool    *)
(* with the same arguments.  A request that does not come back has taken   *)
(* effect, or not.                                                         *)
(***************************************************************************)
EXTENDS FederatedToken, TLC

CONSTANTS
  Call,
  Headless,        \* those of the agent that uses the library by itself
  InFlight,        \* how many calls at a time
  MaxDictations,
  MaxEvents        \* how many failures, changes and lapses there are

(* Negotiations are numbered, and there is an enforcer for every call that  *)
(* may need one of its own.                                                 *)
ASSUME AgentShimAssumption ==
  /\ Negotiation \subseteq Nat \ {0}
  /\ None \notin Enforcer /\ None \notin [of : Negotiation, serial : Nat]
  /\ None \notin Documents
  /\ IsFiniteSet(Enforcer) /\ InFlight \in 0..Cardinality(Enforcer)
  /\ MaxEvents \in Nat /\ Seeded \in BOOLEAN

VARIABLES
  call,
  held,            \* OUTSTANDING: the ticket held for the call, or None
  corroborated,    \* the resource's metadata has been read
  spilled,         \* the shim has lost or left a question she may still have
  left

shim == <<call, held, corroborated, spilled, left>>
vars == <<standing, copies, shared, ago, neg, provider, terms, key, known, edge,
          call, held, corroborated, spilled, left>>

Idle == [pc |-> "idle"]
NoTicket == [of |-> 0, serial |-> 0]

Init ==
  /\ BookInit
  /\ AuthorityInit
  /\ call = [c \in Call |-> Idle]
  /\ held = None
  /\ corroborated = FALSE
  /\ spilled = FALSE
  /\ left = MaxEvents

Happens == left > 0 /\ left' = left - 1
Fails == Happens

At(c, pc) == call[c].pc = pc
Goes(c, b) == call' = [call EXCEPT ![c] = b]
Ends(c) == Goes(c, Idle)
Running == {c \in Call : call[c] # Idle}
Shimmed == Running \ Headless

(* A negotiation that nobody has a ticket or a grant of any more, and that  *)
(* is not a question of the shim's that it ought to come back to.           *)
Tickets == {call[c].ticket : c \in Running} \cup {call[c].fresh : c \in Running}
           \cup (IF held = None THEN {} ELSE {held})
Unused ==
  {n \in Negotiation : /\ \A t \in Tickets : t.of # n
                       /\ \A c \in Running : call[c].grant # n
                       /\ Waiting(n) => spilled \/ neg[n].headless}
-----------------------------------------------------------------------------
(* The tool is called: without a grant first, whatever the shim holds.      *)
(* What nobody can come back to is left out of account from here.           *)
Start(c) ==
  /\ At(c, "idle") /\ Cardinality(Running) < InFlight
  /\ Goes(c, [pc |-> "share", by |-> None, under |-> None, asked |-> FALSE,
              grant |-> 0, fresh |-> NoTicket, ticket |-> NoTicket, rounds |-> 0,
              heard |-> "nothing", claim |-> NoClaim])
  /\ spilled' = (spilled \/ (c \notin Headless /\ Shimmed # {}))
  /\ neg' = [n \in Negotiation |-> IF n \in Unused THEN NoNegotiation ELSE neg[n]]
  /\ copies' = [e \in Enforcer |->
                  IF e # shared /\ \A d \in Running : call[d].by # e THEN NoCopy ELSE copies[e]]
  /\ UNCHANGED <<standing, shared, ago, provider, terms, key, known, edge, held,
                 corroborated, left>>

(* Refused without a challenge.  The shim still looks for what it holds for *)
(* this call.                                                               *)
Resumes(c) == c \notin Headless /\ held # None
Refused(c) ==
  IF call[c].grant = 0 /\ Resumes(c)
  THEN Goes(c, [call[c] EXCEPT !.pc = "resume", !.by = None, !.asked = FALSE, !.ticket = held])
  ELSE Ends(c)

(* The enforcement point.  It reads her membership twice in a call: to see  *)
(* whether the resource is shared with her, and for its ceiling.  The       *)
(* enforcer is the one kept for her, or one of the call's own until she     *)
(* turns out to be a member.                                                *)
Reads(c) == At(c, "share") \/ At(c, "ceiling")
Free == CHOOSE e \in Enforcer : e # shared /\ \A d \in Running : call[d].by # e
By(c) == IF call[c].by # None THEN call[c].by ELSE IF shared # None THEN shared ELSE Free
Copy(c) == IF call[c].by = None /\ shared = None THEN NoCopy ELSE copies[By(c)]

Uses(c, doc, reading) ==
  /\ copies' = [copies EXCEPT ![By(c)] = reading]
  /\ CASE At(c, "share") /\ doc = "out" -> shared' = None /\ Refused(c)
       [] At(c, "share") /\ doc # "out" ->
            /\ shared' = By(c)
            /\ IF SharedTools(doc)
               THEN Goes(c, [call[c] EXCEPT !.pc = "judge", !.by = By(c),
                                            !.under = doc, !.asked = FALSE])
               ELSE Refused(c)
       [] At(c, "ceiling") ->
            /\ UNCHANGED shared
            /\ IF CeilingBreach(doc)
               THEN Ends(c)
               ELSE Goes(c, [call[c] EXCEPT !.pc = "burn", !.under = doc, !.asked = FALSE])

UseCopy(c) ==
  /\ Reads(c) /\ ~call[c].asked /\ Recent(Copy(c))
  /\ Uses(c, Copy(c).doc, Copy(c))
  /\ UNCHANGED <<standing, ago, authority, held, corroborated, spilled, left>>

AskMembership(c) ==
  /\ Reads(c) /\ ~call[c].asked /\ ~Recent(Copy(c))
  /\ Goes(c, [call[c] EXCEPT !.by = By(c), !.asked = TRUE, !.under = standing])
  /\ copies' = [copies EXCEPT ![By(c)] = Copy(c)]
  /\ UNCHANGED <<standing, shared, ago, authority, held, corroborated, spilled, left>>

LearnMembership(c) ==
  /\ Reads(c) /\ call[c].asked
  /\ Uses(c, call[c].under, Read(call[c].under))
  /\ UNCHANGED <<standing, ago, authority, held, corroborated, spilled, left>>

MembershipUnreadable(c) ==
  /\ Reads(c) /\ ~call[c].asked /\ ~Recent(Copy(c))
  /\ Fails
  /\ IF InGrace(Copy(c))
     THEN Uses(c, Copy(c).doc, Copy(c))
     ELSE Refused(c) /\ UNCHANGED <<copies, shared>>
  /\ UNCHANGED <<standing, ago, authority, held, corroborated, spilled>>

(* Without a grant a ticket is minted, and the call challenged.  The shim   *)
(* looks for what it holds for this call before it takes the challenge up.  *)
Challenge(c) ==
  /\ At(c, "judge") /\ call[c].grant = 0 /\ Unused # {}
  /\ LET n == CHOOSE m \in Unused : \A o \in Unused : m <= o
         t == [of |-> n, serial |-> 1]
     IN  /\ neg' = [neg EXCEPT ![n] = Opened(c \in Headless)]
         /\ Goes(c, [call[c] EXCEPT !.pc = IF Resumes(c) THEN "resume" ELSE "corroborate", !.by = None,
                                    !.fresh = t, !.ticket = IF Resumes(c) THEN held ELSE t])
  /\ UNCHANGED <<book, provider, terms, key, known, edge, held, corroborated, spilled, left>>

(* No ticket can be had, or the answer does not come back.                  *)
ChallengeFails(c) ==
  /\ At(c, "judge") /\ call[c].grant = 0
  /\ Fails /\ (Refused(c) \/ Ends(c))
  /\ UNCHANGED <<book, authority, held, corroborated, spilled>>

(* With one: is it live, is it within the ceiling, and is it spent by this  *)
(* call.  A spending whose answer is lost is not an allowed call.           *)
Introspect(c) ==
  /\ At(c, "judge") /\ call[c].grant # 0
  /\ \/ /\ neg[call[c].grant].grant = "live"
        /\ Goes(c, [call[c] EXCEPT !.pc = "ceiling"]) /\ UNCHANGED left
     \/ neg[call[c].grant].grant # "live" /\ Ends(c) /\ UNCHANGED left
     \/ Fails /\ Ends(c)
  /\ UNCHANGED <<book, authority, held, corroborated, spilled>>

Burn(c) ==
  /\ At(c, "burn")
  /\ \/ /\ neg[call[c].grant].grant = "live"
        /\ neg' = [neg EXCEPT ![call[c].grant].grant = "spent"]
        /\ \/ Goes(c, [call[c] EXCEPT !.pc = "forward"]) /\ UNCHANGED left
           \/ Fails /\ Ends(c)
     \/ neg[call[c].grant].grant # "live" /\ Ends(c) /\ UNCHANGED <<neg, left>>
  /\ UNCHANGED <<book, provider, terms, key, known, edge, held, corroborated, spilled>>

(* Delivered, or not, or nobody knows: the call ends with what is known.    *)
Forward(c) ==
  /\ At(c, "forward")
  /\ Ends(c)
  /\ UNCHANGED <<book, authority, held, corroborated, spilled, left>>
-----------------------------------------------------------------------------
(* The library's loop.                                                      *)

Rotated(t, n) == [of |-> t.of, serial |-> n]

(* After the dictations there is a request to wait on, a grant, or neither. *)
Settled(b, says) ==
  CASE says = "submitted" -> [b EXCEPT !.pc = "poll"]
    [] says = "granted" -> [b EXCEPT !.pc = "share", !.grant = b.ticket.of, !.heard = "yes"]
    [] OTHER -> Idle

(* Credentials go to the provider they are of or nowhere, whichever one the *)
(* resource asks an assertion of.                                           *)
IdJagRequest(c) == c \in Headless /\ provider = Home

(* Each round is an identity that is asked for and an agreement, for as     *)
(* many rounds as there are.                                                *)
Round(c, b, says) ==
  CASE says = "identity" /\ b.rounds < MaxDictations /\ b.claim.kind # "assertion" ->
         IF IdJagRequest(c) THEN [b EXCEPT !.pc = "exchange"] ELSE Idle
    [] says = "terms" /\ b.rounds < MaxDictations ->
         [b EXCEPT !.pc = "terms", !.claim = NoClaim]
    [] OTHER -> Settled(b, says)

Hears(c, b, t, says) == Goes(c, Round(c, [b EXCEPT !.ticket = t], says))

(* A request to her authority that is answered; or one whose answer, or     *)
(* itself, is lost, which the library does not catch.  An agreement that    *)
(* arrived may have asked her.                                              *)
Posts(c, b, claim) ==
  \E o \in Token(b.ticket, claim) :
    /\ neg' = [neg EXCEPT ![b.ticket.of] = o.neg]
    /\ known' = o.known
    /\ \/ Hears(c, b, Rotated(b.ticket, o.neg.serial), o.says)
          /\ UNCHANGED <<left, spilled>>
       \/ Fails /\ Ends(c)
          /\ spilled' = (spilled \/ (c \notin Headless /\ o.says = "submitted"))
    /\ UNCHANGED <<book, provider, terms, key, edge, held, corroborated>>

(* The authority that the challenge names is one that the resource's own    *)
(* metadata publishes; read once, and no negotiation without it.            *)
Corroborate(c) ==
  /\ At(c, "corroborate")
  /\ \/ Goes(c, [call[c] EXCEPT !.pc = "present"]) /\ corroborated' = TRUE /\ UNCHANGED left
     \/ ~corroborated /\ Fails /\ Ends(c) /\ UNCHANGED corroborated
  /\ UNCHANGED <<book, authority, held, spilled>>

Present(c) == At(c, "present") /\ Posts(c, call[c], NoClaim)

(* The provider vouches for an application along an edge that is approved,  *)
(* unless the credentials or the employee's own token are of no use to it.  *)
Exchange(c) ==
  /\ At(c, "exchange")
  /\ \/ ConnectionFor /\ Goes(c, [call[c] EXCEPT !.pc = "vouch", !.claim = Assertion])
     \/ Ends(c)
  /\ UNCHANGED <<book, authority, held, corroborated, spilled, left>>

Vouch(c) == At(c, "vouch") /\ Posts(c, call[c], call[c].claim)

(* What is dictated is signed as it is, or declined.                        *)
Sign(c) ==
  /\ At(c, "terms")
  /\ Posts(c, [call[c] EXCEPT !.rounds = @ + 1], Agreement(neg[call[c].ticket.of].terms))

Decline(c) ==
  /\ At(c, "terms")
  /\ \E o \in Token(call[c].ticket, Declined) :
       neg' = [neg EXCEPT ![call[c].ticket.of] = o.neg]
  /\ Ends(c)
  /\ UNCHANGED <<book, provider, terms, key, known, edge, held, corroborated, spilled, left>>

(* A poll that does not come back is sent again with the same ticket.       *)
Poll(c) ==
  /\ At(c, "poll")
  /\ \E o \in Token(call[c].ticket, NoClaim) :
       /\ neg' = [neg EXCEPT ![call[c].ticket.of] = o.neg]
       /\ \/ Goes(c, Settled(call[c], o.says)) /\ UNCHANGED left
          \/ Fails /\ UNCHANGED call
  /\ UNCHANGED <<book, provider, terms, key, known, edge, held, corroborated, spilled>>

(* At the deadline the wait is handed up: a client that cannot be asked is  *)
(* told to call again, and the ticket held for it.                          *)
HandBack(c) ==
  /\ At(c, "poll") /\ c \notin Headless
  /\ held' = call[c].ticket
  /\ Ends(c)
  /\ UNCHANGED <<book, authority, corroborated, spilled, left>>

(* One that can be asked may stop waiting; the headless agent always does.  *)
StopWaiting(c) ==
  /\ At(c, "poll")
  /\ \/ c \in Headless /\ UNCHANGED <<left, spilled>>
     \/ c \notin Headless /\ Happens /\ spilled' = TRUE
  /\ Ends(c)
  /\ UNCHANGED <<book, authority, held, corroborated>>
-----------------------------------------------------------------------------
(* A later call of the same tool, with a ticket held for it.                *)

(* What is taken up when the held ticket is of no use: the challenge, if    *)
(* there was one.                                                           *)
Afresh(b) == IF b.fresh = NoTicket THEN Idle ELSE [b EXCEPT !.pc = "corroborate", !.ticket = b.fresh]

(* Mutants: a poll that did not arrive says that the ticket is gone; her    *)
(* no is one more way in which a ticket ends.                               *)
NotArrivedIsGone(b) == Afresh(b)
ResumedUntilYes(b, says) ==
  CASE says = "submitted" -> Idle
    [] says = "granted" -> [b EXCEPT !.pc = "share", !.grant = b.ticket.of, !.heard = "yes"]
    [] OTHER -> Afresh([b EXCEPT !.heard = IF says = "denied" THEN "no" ELSE @])

NotArrived(b) == Idle

(* Still waiting, which the client is told; her yes; her no, which ends the *)
(* call; or the ticket died.                                                *)
Resumed(b, says) ==
  CASE says = "submitted" -> Idle
    [] says = "granted" -> [b EXCEPT !.pc = "share", !.grant = b.ticket.of, !.heard = "yes"]
    [] says = "denied" -> Idle
    [] OTHER -> Afresh(b)

Resume(c) ==
  /\ At(c, "resume")
  /\ \E o \in Token(call[c].ticket, NoClaim) :
       /\ neg' = [neg EXCEPT ![call[c].ticket.of] = o.neg]
       /\ \/ /\ Goes(c, Resumed(call[c], o.says))
             /\ held' = IF o.says = "submitted" THEN held ELSE None
             /\ UNCHANGED left
          \/ Fails /\ Goes(c, NotArrived(call[c])) /\ UNCHANGED held
  /\ UNCHANGED <<book, provider, terms, key, known, edge, corroborated, spilled>>

ShimRestarts ==
  /\ Happens
  /\ call' = [c \in Call |-> IF c \in Headless THEN call[c] ELSE Idle]
  /\ held' = None
  /\ corroborated' = FALSE
  /\ spilled' = TRUE
  /\ UNCHANGED <<book, authority>>
-----------------------------------------------------------------------------
Aside == UNCHANGED <<call, held, corroborated, spilled>>

(* She decides, and what is waiting or dictated runs out.                   *)
Her ==
  /\ Aside /\ UNCHANGED book
  /\ \E n \in Negotiation :
       \/ Decide(n) /\ UNCHANGED left
       \/ Expires(n) /\ Happens

(* The organization, the provider, and time: not between a membership       *)
(* request and its answer, which has a timeout below a period.              *)
ChangesAuthority ==
  \/ \E p \in {None, Home, Elsewhere} : CharterNames(p) /\ Happens
  \/ TermsChange /\ Happens
  \/ KeyRotates /\ Happens
  \/ KeysLapse /\ Happens
  \/ AddConnection /\ Happens
  \/ DropConnection /\ Happens
  \/ Boot /\ Happens

ChangesMembership ==
  \/ \E d \in Documents : Governs(d) /\ Happens
  \/ /\ \A c \in Running : ~call[c].asked
     /\ PeriodPasses /\ Happens

Around ==
  /\ Aside
  /\ \/ ChangesAuthority /\ UNCHANGED book
     \/ ChangesMembership /\ UNCHANGED authority

Enforces(c) ==
  \/ UseCopy(c) \/ AskMembership(c) \/ LearnMembership(c) \/ MembershipUnreadable(c)
  \/ Challenge(c) \/ ChallengeFails(c) \/ Introspect(c) \/ Burn(c) \/ Forward(c)

Negotiates(c) ==
  \/ Corroborate(c) \/ Present(c) \/ Exchange(c) \/ Vouch(c) \/ Sign(c) \/ Decline(c)
  \/ Poll(c) \/ HandBack(c) \/ StopWaiting(c) \/ Resume(c)

Next ==
  \/ \E c \in Call : Start(c) \/ Enforces(c) \/ Negotiates(c)
  \/ ShimRestarts \/ Her \/ Around

Spec == Init /\ [][Next]_vars
-----------------------------------------------------------------------------

(* However often the tool is called while she decides, and whichever polls  *)
(* are lost, she has one question of it before her: the later calls come    *)
(* back to it.  Not when calls overlap, the shim is restarted, its client   *)
(* stops waiting, or the answer to an agreement is lost.                    *)
OneQuestion ==
  spilled \/ Cardinality({n \in Negotiation : Waiting(n) /\ ~neg[n].headless}) <= 1

(* A call that has her answer, yes or no, asks her nothing again: not when  *)
(* the call made under a yes fails, and not when the answer is a no that    *)
(* was given to an earlier call.                                            *)
Negotiating == {"corroborate", "present", "exchange", "vouch", "terms", "poll"}
HerAnswerEndsTheCall ==
  \A c \in Running : call[c].heard # "nothing" => call[c].pc \notin Negotiating

(* A call gets past the enforcement point only on what the organization     *)
(* said of her within the lifetime of a copy and the grace period: not by a *)
(* copy that outages keep alive, and not by an answer overtaken by another. *)
Passes(c) == call'[c].pc # call[c].pc /\ call'[c].pc \in {"judge", "burn"}
RestsOnRecentMembership ==
  [][\A c \in Call : Passes(c) => ago[call'[c].under] < Old]_vars

(* A key her authority has not seen is a rotation, not a forgery: what the  *)
(* provider signed with the key it signs with is not refused for that.      *)
RotationIsNotForgery ==
  [][\A c \in Call : LET n == call[c].ticket.of IN
       At(c, "vouch") /\ call'[c] # call[c] /\ neg'[n].state = "forged" =>
         call[c].claim.key # key]_vars
=============================================================================
