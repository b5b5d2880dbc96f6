----------------------------- MODULE JointTally ------------------------------
(***************************************************************************)
(* A negotiation over a jointly held account: the agent that asks          *)
(* (lib/uma4a_grant.py, run_grant), the tally that dictates terms, collects*)
(* the holders' verdicts and grants (services/joint-tally/app.py), and the *)
(* holders' own authorities that answer it (/joint/verdict and /owner/joint*)
(* in services/uma-as/app.py).                                             *)
(*                                                                         *)
(* The tally keeps everything in memory and spends a ticket the moment it  *)
(* is presented.  A request to it asks the holders one after the other and *)
(* gives up on one that does not answer; the question it asked goes on     *)
(* being handled at that holder's authority, a call to its store at a time,*)
(* and the next request of the same negotiation asks it again.             *)
(***************************************************************************)
EXTENDS Mandate, JointTerms

CONSTANTS
  Families,     (* negotiations over the account                           *)
  Agreements,   (* documents that an agent may sign                        *)
  Says,         (* agreement -> the terms it states                        *)
  Account,      (* the resources that are held jointly                     *)
  Asked,        (* the scopes that the call asks for, or none              *)
  Holders,      (* everybody who may be a holder                           *)
  Order,        (* the holders as a mandate lists them                     *)
  Documents,    (* mandate documents the deployment may be configured with *)
  Floor,        (* TALLY_THRESHOLD_FLOOR                                   *)
  Written,      (* holder -> the tiers over the account she may write, and *)
                (* None                                                    *)
  Rules,        (* holder -> the outcomes her rules and the room in her    *)
                (* queue may have                                          *)
  Connected,    (* holders who had admitted the agent before the start     *)
  MaxOpen,      (* MAX_OPEN                                                *)
  Requests,     (* requests being worked on by the tally                   *)
  Questions,    (* verdict requests being worked on by the authorities     *)
  None,
  Unstated,     (* the lifetime of a grant whose terms state none          *)
  MaxMishaps    (* bound: replies lost, authorities unreachable, time-outs,*)
                (* restarts, questions that a faithful tally would not ask,*)
                (* and what holders edit, withdraw or agree to             *)

(* What the tally's start-up lets through (load_mandates).                  *)
Mandates == {Normalised(m) : m \in {d \in Documents : Acceptable(d, Floor)}}

ASSUME JointAssumption ==
  /\ None \notin Families \cup Holders \cup Agreements \cup Requests \cup Questions
  /\ None \notin Mandates
  /\ Holders = ToSet(Order) /\ Order \in Seq(Holders) /\ IsInjective(Order)
  /\ \A d \in Documents : /\ HoldersOf(d) \subseteq Holders
                          /\ DOMAIN d = {"weight", "kind", "threshold"}
                          /\ d.weight \in [HoldersOf(d) -> Nat]
                          /\ d.kind \in {"all", "any", "threshold"}
  /\ Rules \in [Holders -> (SUBSET {"permit", "ask", "refuse"}) \ {{}}]
  /\ DOMAIN Says = Agreements /\ DOMAIN Written = Holders
  /\ \A a \in Agreements : Says[a].expires_in \in Nat
  /\ \A h \in Holders : \A tier \in Written[h] : tier # None =>
       /\ DOMAIN tier = {"resources", "ask_me", "expires_in", "scope", "prohibited", "clearance"}
       /\ tier.ask_me \in BOOLEAN /\ tier.expires_in \in Nat
       /\ tier.scope # AnyScope
  /\ Account # {}
  /\ Connected \subseteq Holders
  /\ {MaxOpen, Floor, MaxMishaps} \subseteq Nat /\ Unstated \in Nat \ {0}

VARIABLES
  agent,      (* family -> the agent that negotiates it                    *)
  inForce,    (* the mandate the tally counts under                        *)
  neg,        (* family -> the tally's record of it                        *)
  tickets,    (* the tally's tickets, <<family, serial>>                   *)
  req,        (* request -> where it is                                    *)
  rpts,       (* the grants the tally holds and that are not spent         *)
  tokens,     (* the grants it has signed, with what is inside             *)
  question,   (* question -> where it is                                   *)
  agreed,     (* holder -> the mandate she agreed to, or None              *)
  terms,      (* holder -> her tier over the account, or None              *)
  row,        (* holder -> family -> the request in her queue              *)
  standing,   (* holder -> her connection with the agent                   *)
  verdicts,   (* the yeses the authorities have signed                     *)
  answers,    (* holder -> family -> her answers, which properties read    *)
  had,        (* holder -> the tiers she has had, which properties read    *)
  overtaken,  (* rows that took over a yes to another agreement, which     *)
              (* properties read                                           *)
  mishaps     (* how many there have been                                  *)

tallyVars  == <<inForce, neg, tickets, req, rpts, tokens>>
holderVars == <<question, agreed, row, standing, verdicts, answers, terms, had,
                overtaken>>

(* What a step of a holder's authority has nothing to do with.              *)
authorVars == <<agent, inForce, tickets, rpts, tokens, agreed, standing, terms, had>>
apartVars  == <<authorVars, mishaps>>
vars == <<agent, tallyVars, holderVars, mishaps>>

Effects  == {"none", "allow", "refuse"}

Agent ==
  [phase  : {"none", "ready", "calling", "proffered", "waiting", "polling",
             "granted", "denied", "gone"},
   ticket : Nat,
   via    : Requests \cup {None}]   (* the request whose reply it awaits   *)

Tiers == (UNION {Written[h] : h \in Holders}) \ {None}
Quotes == {QuoteOf(t, Account) : t \in Tiers}

(* What a template states: no more than some holder's terms do.             *)
Stated ==
  [expires_in : {t.expires_in : t \in Tiers},
   scope      : SUBSET UNION {t.scope : t \in Tiers},
   prohibited : SUBSET UNION {t.prohibited : t \in Tiers}]

(* signed are the holders whose signed verdict the tally holds; over, that  *)
(* one of them is past its end; stale, that nothing has touched it for a    *)
(* ticket's lifetime.                                                       *)
Negotiation ==
  [state     : {"none", "new", "need_info", "awaiting-holders"},
   template  : Stated \cup {None},
   agreement : Agreements \cup {None},
   verdicts  : [Holders -> Effects],
   signed    : SUBSET Holders,
   over      : BOOLEAN,
   stale     : BOOLEAN]

NoNegotiation ==
  [state |-> "none", template |-> None, agreement |-> None,
   verdicts |-> [h \in Holders |-> "none"], signed |-> {}, over |-> FALSE,
   stale |-> FALSE]

(* at is the place in the order from which it has yet to ask; outdated, the *)
(* holders whose terms were edited after it read them, which properties     *)
(* read.                                                                    *)
Request ==
  [stage : {"idle", "quotes", "collect", "wait"}, family : Families \cup {None},
   at : 1..(Len(Order) + 1), via : Questions \cup {None},
   quotes : Seq(Quotes), outdated : SUBSET Holders]

NoRequest ==
  [stage |-> "idle", family |-> None, at |-> 1, via |-> None, quotes |-> <<>>,
   outdated |-> {}]

Question ==
  [stage : {"idle", "arrive", "mandate", "read", "close", "withdrawn",
            "evaluate", "save"},
   holder : Holders \cup {None}, family : Families \cup {None},
   agreement : Agreements \cup {None}, mandate : Mandates \cup {None},
   decision : {"none", "approved", "denied"}, seen : Nat]

NoQuestion ==
  [stage |-> "idle", holder |-> None, family |-> None, agreement |-> None,
   mandate |-> None, decision |-> "none", seen |-> 0]

Row ==
  [agreement : Agreements \cup {None}, decision : {"none", "approved", "denied"},
   seen : Nat]

NoRow == [agreement |-> None, decision |-> "none", seen |-> 0]

TypeOK ==
  /\ agent \in [Families -> Agent]
  /\ inForce \in Mandates
  /\ neg \in [Families -> Negotiation]
  /\ \A f \in Families : neg[f].state = "awaiting-holders" <=> neg[f].agreement # None
  /\ tickets \subseteq Families \X Nat
  /\ req \in [Requests -> Request]
  /\ \A w \in Requests :
       /\ req[w].stage \in {"collect", "wait"} => neg[req[w].family].agreement # None
       /\ req[w].stage = "quotes" => neg[req[w].family].state # "none"
  /\ rpts \subseteq Families
  /\ \A t \in tokens : t.agreement \in Agreements /\ t.mandate \in Mandates
  /\ question \in [Questions -> Question]
  /\ agreed \in [Holders -> Mandates \cup {None}]
  /\ \A h \in Holders : terms[h] \in Written[h] /\ had[h] \subseteq Written[h]
  /\ row \in [Holders -> [Families -> Row]]
  /\ standing \in [Holders -> [status : {"none", "active", "revoked"},
                               revocations : Nat, blocked : BOOLEAN]]
  /\ \A v \in verdicts : v.agreement \in Agreements /\ v.mandate \in Mandates
  /\ overtaken \subseteq Holders \X Families \X Agreements

Init ==
  /\ inForce \in Mandates
  /\ agreed = [h \in Holders |-> IF h \in HoldersOf(inForce) THEN inForce ELSE None]
  /\ agent = [f \in Families |-> [phase |-> "none", ticket |-> 0, via |-> None]]
  /\ neg = [f \in Families |-> NoNegotiation]
  /\ tickets = {}
  /\ req = [w \in Requests |-> NoRequest]
  /\ rpts = {} /\ tokens = {}
  /\ question = [q \in Questions |-> NoQuestion]
  /\ row = [h \in Holders |-> [f \in Families |-> NoRow]]
  /\ standing = [h \in Holders |->
       [status |-> IF h \in Connected THEN "active" ELSE "none",
        revocations |-> 0, blocked |-> FALSE]]
  /\ verdicts = {} /\ answers = [h \in Holders |-> [f \in Families |-> {}]]
  /\ overtaken = {}
  /\ terms \in [Holders -> Tiers \cup {None}]
  /\ \A h \in Holders : terms[h] \in Written[h]
  /\ had = [h \in Holders |-> {terms[h]}]
  /\ mishaps = 0

Mishap == mishaps < MaxMishaps /\ mishaps' = mishaps + 1

-----------------------------------------------------------------------------
(* The agent.  A reply reaches it if it is still waiting for that request.  *)

Awaits(f, w) == agent[f].via = w /\ agent[f].phase \in {"calling", "polling"}

ReplyTo(w, phase, n) ==
  LET f == req[w].family IN
  agent' = IF Awaits(f, w)
             THEN [agent EXCEPT ![f] = [phase |-> phase, ticket |-> n, via |-> None]]
             ELSE agent

(* A reply that does not come: the loop of polls goes on with the ticket it *)
(* holds, and anywhere else the exception ends the attempt.                 *)
LoseReply(f) ==
  /\ agent[f].phase \in {"calling", "polling"}
  /\ Mishap
  /\ agent' = [agent EXCEPT ![f].phase = IF @ = "polling" THEN "waiting" ELSE "gone",
                            ![f].via = None]
  /\ UNCHANGED <<tallyVars, holderVars>>

(* The deadline has passed, or whoever it acts for stopped waiting.         *)
GiveUp(f) ==
  /\ agent[f].phase = "waiting"
  /\ agent' = [agent EXCEPT ![f].phase = "gone"]
  /\ UNCHANGED <<tallyVars, holderVars, mishaps>>

-----------------------------------------------------------------------------
(* The tally: tickets and negotiations.                                     *)

Open == {f \in Families : neg[f].state # "none"}
Unsigned == {f \in Open : neg[f].state # "awaiting-holders"}

Idle(w) == req[w].stage = "idle"
WorkedOn(f) == \E w \in Requests : ~Idle(w) /\ req[w].family = f

(* A name nobody holds: not the ticket the agent has, nor a live one.       *)
Fresh(f) ==
  Min((1..(Cardinality(tickets) + 2)) \
        ({agent[f].ticket} \cup {t[2] : t \in {u \in tickets : u[1] = f}}))

Mint(f) == tickets' = tickets \cup {<<f, Fresh(f)>>}

(* Forgets what nobody is coming back for.                                  *)
Swept == [f \in Families |-> IF neg[f].stale /\ ~WorkedOn(f) THEN NoNegotiation
                                                             ELSE neg[f]]

(* The enforcement point registers the attempt, and hands on the ticket.    *)
Perm(f) ==
  LET left == {g \in Open : Swept[g].state # "none"} IN
  /\ agent[f].phase = "none"
  /\ Cardinality(left \cap Unsigned) < MaxOpen
  /\ Cardinality(left \ Unsigned) < MaxOpen
  /\ neg' = [Swept EXCEPT ![f] = [NoNegotiation EXCEPT !.state = "new"]]
  /\ tickets' = {t \in tickets : ~neg[t[1]].stale} \cup {<<f, 1>>}
  /\ agent' = [agent EXCEPT ![f].phase = "ready", ![f].ticket = 1]
  /\ UNCHANGED <<inForce, req, rpts, tokens, holderVars, mishaps>>

(* A ticket's lifetime passes without anything happening to f.              *)
Lapse(f) ==
  /\ f \in Open /\ ~neg[f].stale /\ ~WorkedOn(f)
  /\ Mishap
  /\ neg' = [neg EXCEPT ![f].stale = TRUE]
  /\ UNCHANGED <<agent, inForce, tickets, req, rpts, tokens, holderVars>>

(* A redeployment, perhaps with another mandate: nothing is remembered, and *)
(* the requests that were in flight get no reply.                           *)
Restart(m) ==
  /\ Mishap
  /\ inForce' = m
  /\ neg' = [f \in Families |-> NoNegotiation]
  /\ tickets' = {} /\ rpts' = {}
  /\ req' = [w \in Requests |-> NoRequest]
  /\ agent' = [f \in Families |->
       CASE agent[f].phase = "polling" -> [agent[f] EXCEPT !.phase = "waiting", !.via = None]
         [] agent[f].phase = "calling" -> [agent[f] EXCEPT !.phase = "gone", !.via = None]
         [] OTHER -> agent[f]]
  /\ UNCHANGED <<tokens, holderVars>>

-----------------------------------------------------------------------------
(* /token.  The ticket is taken before anything else is looked at.          *)

HeldTicket(f) == <<f, agent[f].ticket>>
Live(f) == HeldTicket(f) \in tickets /\ neg[f].state # "none" /\ ~neg[f].stale

(* Mutant: the ticket is looked up, and stays good.                         *)
TakeByReading(f) == UNCHANGED tickets

Take(f) == tickets' = tickets \ {HeldTicket(f)}

CallFrom(f, w, phase) ==
  agent' = [agent EXCEPT ![f].phase = phase, ![f].via = w]

Holding(f, stage) ==
  [NoRequest EXCEPT !.stage = stage, !.family = f]

(* A ticket it does not know, or no longer.                                 *)
PresentDead(f) ==
  /\ agent[f].phase \in {"ready", "proffered", "waiting"}
  /\ ~Live(f)
  /\ Take(f)
  /\ agent' = [agent EXCEPT ![f].phase = "denied"]
  /\ UNCHANGED <<inForce, neg, req, rpts, tokens, holderVars, mishaps>>

(* The first presentation, with nothing but the ticket.                     *)
AskTerms(f, w) ==
  /\ agent[f].phase = "ready" /\ Live(f) /\ Idle(w)
  /\ Take(f)
  /\ req' = [req EXCEPT ![w] = Holding(f, "quotes")]
  /\ CallFrom(f, w, "calling")
  /\ UNCHANGED <<inForce, neg, rpts, tokens, holderVars, mishaps>>

(* The agent does not accept the terms it was shown.                        *)
Decline(f) ==
  /\ agent[f].phase = "proffered" /\ Live(f)
  /\ Take(f)
  /\ neg' = [neg EXCEPT ![f] = NoNegotiation]
  /\ agent' = [agent EXCEPT ![f].phase = "gone"]
  /\ UNCHANGED <<inForce, req, rpts, tokens, holderVars, mishaps>>

(* An agreement that does not verify closes the negotiation; one that is    *)
(* not over the terms proffered leaves it, with no ticket.                  *)
RejectClaim(f) ==
  /\ agent[f].phase = "proffered" /\ Live(f)
  /\ Take(f)
  /\ \/ neg' = [neg EXCEPT ![f] = NoNegotiation]
     \/ UNCHANGED neg
  /\ agent' = [agent EXCEPT ![f].phase = "denied"]
  /\ UNCHANGED <<inForce, req, rpts, tokens, holderVars, mishaps>>

(* The agent commits to an agreement, and the holders are asked.  That it   *)
(* answers this offer is checked, and not that it states the same terms.    *)
Commit(f, w, a) ==
  /\ agent[f].phase = "proffered" /\ Live(f) /\ Idle(w)
  /\ Take(f)
  /\ neg' = [neg EXCEPT ![f].state = "awaiting-holders", ![f].agreement = a]
  /\ req' = [req EXCEPT ![w] = Holding(f, "collect")]
  /\ CallFrom(f, w, "calling")
  /\ UNCHANGED <<inForce, rpts, tokens, holderVars, mishaps>>

Poll(f, w) ==
  /\ agent[f].phase = "waiting" /\ Live(f) /\ Idle(w)
  /\ Take(f)
  /\ req' = [req EXCEPT ![w] = Holding(f, "collect")]
  /\ CallFrom(f, w, "polling")
  /\ UNCHANGED <<inForce, neg, rpts, tokens, holderVars, mishaps>>

(* The next holder of the mandate, from place i on.                         *)
NextHolder(i) ==
  LET left == {k \in i..Len(Order) : Order[k] \in HoldersOf(inForce)} IN
  IF left = {} THEN Len(Order) + 1 ELSE Min(left)

HasHolderAt(k) == k <= Len(Order)

(* Somebody's terms could not be had: 503, and the ticket is gone.          *)
FailQuotes(w) ==
  /\ req[w].stage = "quotes"
  /\ ReplyTo(w, "denied", 0)
  /\ req' = [req EXCEPT ![w] = NoRequest]
  /\ UNCHANGED <<inForce, neg, tickets, rpts, tokens, holderVars>>

(* A holder's authority did not answer, or it refused to: it has no record  *)
(* that she agreed to the mandate.                                          *)
QuotesFail(w) == FailQuotes(w) /\ Mishap

QuotesRefused(w) ==
  /\ req[w].stage = "quotes"
  /\ HasHolderAt(NextHolder(req[w].at)) /\ agreed[Order[NextHolder(req[w].at)]] = None
  /\ FailQuotes(w) /\ UNCHANGED mishaps

(* The holders are asked one after the other, and each authority answers    *)
(* from what it has then; one who has written no terms is left out.         *)
AskQuote(w) ==
  LET k == NextHolder(req[w].at)
      h == Order[k] IN
  /\ req[w].stage = "quotes" /\ HasHolderAt(k) /\ agreed[h] # None
  /\ req' = [req EXCEPT ![w].at = k + 1,
       ![w].quotes = IF terms[h] = None THEN @ ELSE Append(@, QuoteOf(terms[h], Account))]
  /\ UNCHANGED <<agent, inForce, neg, tickets, rpts, tokens, holderVars, mishaps>>

(* What they quoted, folded into one document for the agent to sign; if     *)
(* none of them has written any terms, the negotiation is over.             *)
Dictate(w) ==
  LET f == req[w].family
      quotes == req[w].quotes IN
  /\ req[w].stage = "quotes" /\ ~HasHolderAt(NextHolder(req[w].at))
  /\ IF quotes = <<>>
       THEN /\ neg' = [neg EXCEPT ![f] = NoNegotiation]
            /\ ReplyTo(w, "denied", 0)
            /\ UNCHANGED tickets
       ELSE /\ neg' = [neg EXCEPT ![f].state = "need_info",
                                  ![f].template = Template(quotes, Account, Asked)]
            /\ Mint(f)
            /\ ReplyTo(w, "proffered", Fresh(f))
  /\ req' = [req EXCEPT ![w] = NoRequest]
  /\ UNCHANGED <<inForce, rpts, tokens, holderVars, mishaps>>

-----------------------------------------------------------------------------
(* Collecting the verdicts.                                                 *)

Standing(f) == Effect(inForce, neg[f].verdicts)

(* The next holder, from place i on, who has not answered.                  *)
NextToAsk(f, i) ==
  LET left == {k \in i..Len(Order) : /\ Order[k] \in HoldersOf(inForce)
                                     /\ neg[f].verdicts[Order[k]] = "none"} IN
  IF left = {} THEN Len(Order) + 1 ELSE Min(left)

Asking(w) ==
  /\ req[w].stage = "collect"
  /\ Standing(req[w].family) = "pending"
  /\ NextToAsk(req[w].family, req[w].at) <= Len(Order)

(* A signed, short-lived question to the next holder's authority.           *)
AskHolder(w, q) ==
  LET f == req[w].family
      k == NextToAsk(f, req[w].at) IN
  /\ Asking(w)
  /\ question[q].stage = "idle"
  /\ question' = [question EXCEPT
       ![q] = [NoQuestion EXCEPT !.stage = "arrive", !.holder = Order[k],
                                 !.family = f, !.agreement = neg[f].agreement]]
  /\ req' = [req EXCEPT ![w].stage = "wait", ![w].at = k, ![w].via = q]
  /\ UNCHANGED <<apartVars, neg, row, verdicts, answers, overtaken>>

(* The tally is not one that the holders trust: a question may come about   *)
(* any negotiation and any agreement, and nobody there waits for the reply. *)
AskAbout(q, h, f, a) ==
  /\ question[q].stage = "idle"
  /\ Mishap
  /\ question' = [question EXCEPT
       ![q] = [NoQuestion EXCEPT !.stage = "arrive", !.holder = h, !.family = f,
                                 !.agreement = a]]
  /\ UNCHANGED <<authorVars, req, neg, row, verdicts, answers, overtaken>>

GoOn(w) == [req[w] EXCEPT !.stage = "collect", !.at = @ + 1, !.via = None]

(* No answer: neither a no nor a yes.  The question may still be with her   *)
(* authority.                                                               *)
Unreachable(w) ==
  /\ req[w].stage = "wait"
  /\ Mishap
  /\ req' = [req EXCEPT ![w] = GoOn(w)]
  /\ UNCHANGED <<agent, inForce, neg, tickets, rpts, tokens, holderVars>>

(* The authority's reply to q comes back to the request that waits for it.  *)
(* Neither a "pending" nor a verdict that does not verify is counted.       *)
ReplyUncounted(q) ==
  /\ req' = [w \in Requests |->
       IF req[w].stage = "wait" /\ req[w].via = q THEN GoOn(w) ELSE req[w]]
  /\ UNCHANGED neg

(* Mutant: the answer is counted, and the signed verdict not kept.          *)
ReplyCountedUnsigned(q, effect, signed) ==
  LET h == question[q].holder
      f == question[q].family IN
  IF \E w \in Requests : req[w].stage = "wait" /\ req[w].via = q
    THEN /\ req' = [w \in Requests |->
              IF req[w].stage = "wait" /\ req[w].via = q THEN GoOn(w) ELSE req[w]]
         /\ neg' = [neg EXCEPT ![f].verdicts[h] = effect]
    ELSE UNCHANGED <<req, neg>>

ReplyCounted(q, effect, signed) ==
  LET h == question[q].holder
      f == question[q].family IN
  IF \E w \in Requests : req[w].stage = "wait" /\ req[w].via = q
    THEN /\ req' = [w \in Requests |->
              IF req[w].stage = "wait" /\ req[w].via = q THEN GoOn(w) ELSE req[w]]
         /\ neg' = [neg EXCEPT ![f].verdicts[h] = effect,
                               ![f].signed = IF signed THEN @ \cup {h} ELSE @]
    ELSE UNCHANGED <<req, neg>>

(* What is checked of a yes: the negotiation and the agreement are the ones *)
(* asked about, and the mandate is the one that is counted.                 *)
Verifies(q, m) ==
  /\ neg[question[q].family].agreement = question[q].agreement
  /\ Digest(m) = Digest(inForce)

(* The grant carries the verdicts it rests on, and ends with the first of   *)
(* them.                                                                    *)
GrantOf(f) ==
  LET n == neg[f]
      g == Granted(Says[n.agreement], n.template, Unstated) IN
  [family |-> f, agreement |-> n.agreement, mandate |-> inForce,
   scope |-> g.scope, expires_in |-> IF n.over THEN 0 ELSE g.expires_in,
   verdicts |-> {h \in n.signed : n.verdicts[h] = "allow"}]

(* Mutant: the count is settled by whoever has answered.                    *)
ConcludeByAnswers(w) ==
  LET f == req[w].family
      n == neg[f]
      says == IF \E h \in Holders : n.verdicts[h] = "allow" THEN "allow" ELSE Standing(f) IN
  /\ req[w].stage = "collect" /\ ~Asking(w)
  /\ req' = [req EXCEPT ![w] = NoRequest]
  /\ CASE says = "allow" ->
            /\ tokens' = tokens \cup {GrantOf(f)}
            /\ rpts' = rpts \cup {f}
            /\ neg' = [neg EXCEPT ![f] = NoNegotiation]
            /\ ReplyTo(w, "granted", 0)
            /\ UNCHANGED tickets
       [] says = "refuse" ->
            /\ neg' = [neg EXCEPT ![f] = NoNegotiation]
            /\ ReplyTo(w, "denied", 0)
            /\ UNCHANGED <<tickets, rpts, tokens>>
       [] OTHER ->
            /\ Mint(f)
            /\ ReplyTo(w, "waiting", Fresh(f))
            /\ UNCHANGED <<neg, rpts, tokens>>
  /\ UNCHANGED <<inForce, holderVars, mishaps>>

(* The count is settled or nobody is left to ask: a grant that carries the  *)
(* verdicts it rests on, a refusal, or another ticket to come back with.    *)
Conclude(w) ==
  LET f == req[w].family
      n == neg[f] IN
  /\ req[w].stage = "collect" /\ ~Asking(w)
  /\ req' = [req EXCEPT ![w] = NoRequest]
  /\ CASE Standing(f) = "allow" ->
            /\ tokens' = tokens \cup {GrantOf(f)}
            /\ rpts' = rpts \cup {f}
            /\ neg' = [neg EXCEPT ![f] = NoNegotiation]
            /\ ReplyTo(w, "granted", 0)
            /\ UNCHANGED tickets
       [] Standing(f) = "refuse" ->
            /\ neg' = [neg EXCEPT ![f] = NoNegotiation]
            /\ ReplyTo(w, "denied", 0)
            /\ UNCHANGED <<tickets, rpts, tokens>>
       [] OTHER ->
            /\ Mint(f)
            /\ ReplyTo(w, "waiting", Fresh(f))
            /\ UNCHANGED <<neg, rpts, tokens>>
  /\ UNCHANGED <<inForce, holderVars, mishaps>>

(* The agreement's lifetime passes while the others are still being asked:  *)
(* a yes that is counted is past its end.                                   *)
Outlive(f) ==
  /\ neg[f].state = "awaiting-holders" /\ ~neg[f].over /\ ~WorkedOn(f)
  /\ \E h \in neg[f].signed : neg[f].verdicts[h] = "allow"
  /\ Mishap
  /\ neg' = [neg EXCEPT ![f].over = TRUE]
  /\ UNCHANGED <<agent, inForce, tickets, req, rpts, tokens, holderVars>>

(* A grant for one act is burned at the tally, in memory.                   *)
Consume(f) ==
  /\ f \in rpts
  /\ rpts' = rpts \ {f}
  /\ UNCHANGED <<agent, inForce, neg, tickets, req, tokens, holderVars,
                 mishaps>>

-----------------------------------------------------------------------------
(* A holder's authority: /joint/verdict, a store call or a fetch at a time. *)

At(q, stage) == question[q].stage = stage
GoTo(q, stage) == question' = [question EXCEPT ![q].stage = stage]
Done(q) == question' = [question EXCEPT ![q] = NoQuestion]
MineIs(q) == row[question[q].holder][question[q].family]

Refuse(q) ==
  /\ ReplyCounted(q, "refuse", TRUE)
  /\ Done(q)
  /\ UNCHANGED verdicts

(* A signed yes, that names the agreement and the mandate she agreed to.    *)
Allow(q, a) ==
  LET s == question[q] IN
  /\ verdicts' = verdicts \cup {[holder |-> s.holder, family |-> s.family,
                                 agreement |-> a, mandate |-> s.mandate]}
  /\ IF Verifies(q, s.mandate) THEN ReplyCounted(q, "allow", TRUE)
                               ELSE ReplyUncounted(q)
  /\ Done(q)

(* Her record of the mandate.  Without one the answer is a 403, which the   *)
(* tally counts as her refusal, with nothing signed.                        *)
Arrive(q) ==
  LET m == agreed[question[q].holder] IN
  /\ At(q, "arrive")
  /\ IF m = None
       THEN ReplyCounted(q, "refuse", FALSE) /\ Done(q)
       ELSE /\ question' = [question EXCEPT ![q].mandate = m,
                                            ![q].stage = "mandate"]
            /\ UNCHANGED <<req, neg>>
  /\ UNCHANGED <<apartVars, row, verdicts, answers, overtaken>>

(* The mandate the tally publishes now: signed under no other.  If it       *)
(* cannot be read she refuses as well.                                      *)
CheckMandate(q) ==
  /\ At(q, "mandate")
  /\ IF Moved(question[q].mandate, inForce)
       THEN Refuse(q)
       ELSE GoTo(q, "read") /\ UNCHANGED <<req, neg, verdicts>>
  /\ UNCHANGED <<apartVars, row, answers, overtaken>>

CannotReadMandate(q) ==
  /\ At(q, "mandate")
  /\ Mishap
  /\ Refuse(q)
  /\ UNCHANGED <<authorVars, row, answers, overtaken>>

(* Mutant: which agreement her yes was to is not looked at.                 *)
ReadRowOfAny(q) ==
  LET n == MineIs(q) IN
  /\ At(q, "read")
  /\ CASE n = NoRow ->
            GoTo(q, "evaluate") /\ UNCHANGED <<req, neg, verdicts>>
       [] n # NoRow /\ n.decision = "none" ->
            ReplyUncounted(q) /\ Done(q) /\ UNCHANGED verdicts
       [] OTHER ->
            /\ question' = [question EXCEPT ![q].stage = "close",
                              ![q].decision = n.decision, ![q].seen = n.seen]
            /\ UNCHANGED <<req, neg, verdicts>>
  /\ UNCHANGED <<apartVars, row, answers, overtaken>>


(* She may have been asked already.  A yes to another agreement is none to  *)
(* this one, and is left where it is.                                       *)
ReadRow(q) ==
  LET n == MineIs(q) IN
  /\ At(q, "read")
  /\ CASE n = NoRow ->
            GoTo(q, "evaluate") /\ UNCHANGED <<req, neg, verdicts>>
       [] n # NoRow /\ n.decision = "none" ->
            ReplyUncounted(q) /\ Done(q) /\ UNCHANGED verdicts
       [] n.decision = "approved" /\ n.agreement # question[q].agreement ->
            Refuse(q)
       [] OTHER ->
            /\ question' = [question EXCEPT ![q].stage = "close",
                              ![q].decision = n.decision, ![q].seen = n.seen]
            /\ UNCHANGED <<req, neg, verdicts>>
  /\ UNCHANGED <<apartVars, row, answers, overtaken>>

(* Her answer is taken out of the queue before it is signed.                *)
CloseRow(q) ==
  LET s == question[q] IN
  /\ At(q, "close")
  /\ row' = [row EXCEPT ![s.holder][s.family] = NoRow]
  /\ IF s.decision = "denied" THEN Refuse(q)
                              ELSE GoTo(q, "withdrawn") /\ UNCHANGED <<req, neg, verdicts>>
  /\ UNCHANGED <<apartVars, answers, overtaken>>

(* What she withdrew since she was asked goes before her yes.               *)
CheckWithdrawn(q) ==
  LET s == question[q]
      c == standing[s.holder] IN
  /\ At(q, "withdrawn")
  /\ IF c.blocked \/ c.revocations > s.seen THEN Refuse(q) ELSE Allow(q, s.agreement)
  /\ UNCHANGED <<apartVars, row, answers, overtaken>>

(* Mutant: her terms are looked up, and what was signed is not compared.    *)
AcceptableToAnyTerms(h, a) == terms[h] # None /\ ~standing[h].blocked

(* What is refused before any rule of hers is read: no terms, more than they*)
(* offer, an operator she has blocked.                                      *)
AcceptableTo(h, a) ==
  /\ terms[h] # None /\ Inside(Says[a], terms[h])
  /\ ~standing[h].blocked

(* Her terms, her blocks, her rules, and the room in her queue.  Only an    *)
(* agent she is connected with is allowed without being put to her.         *)
Evaluate(q) ==
  LET s == question[q]
      c == standing[s.holder] IN
  /\ At(q, "evaluate")
  /\ \/ /\ ~AcceptableTo(s.holder, s.agreement) \/ "refuse" \in Rules[s.holder]
        /\ Refuse(q)
     \/ /\ AcceptableTo(s.holder, s.agreement)
        /\ c.status = "active" /\ "permit" \in Rules[s.holder]
        /\ Allow(q, s.agreement)
     \/ /\ AcceptableTo(s.holder, s.agreement)
        /\ \/ "ask" \in Rules[s.holder]
           \/ "permit" \in Rules[s.holder] /\ c.status # "active"
        /\ question' = [question EXCEPT ![q].stage = "save", ![q].seen = c.revocations]
        /\ UNCHANGED <<req, neg, verdicts>>
  /\ UNCHANGED <<apartVars, row, answers, overtaken>>

(* Put to her.  An answer that is there by now outlives the copy, to        *)
(* whatever agreement it was given.                                         *)
Save(q) ==
  LET s == question[q]
      n == MineIs(q) IN
  /\ At(q, "save")
  /\ row' = [row EXCEPT ![s.holder][s.family] =
       [agreement |-> s.agreement, decision |-> n.decision, seen |-> s.seen]]
  /\ overtaken' = IF n.decision = "approved" /\ n.agreement # s.agreement
                  THEN overtaken \cup {<<s.holder, s.family, s.agreement>>}
                  ELSE overtaken
  /\ ReplyUncounted(q) /\ Done(q)
  /\ UNCHANGED <<apartVars, verdicts, answers>>

(* The authority's process dies under the question, or its store fails.     *)
Die(q) ==
  /\ question[q].stage # "idle"
  /\ Mishap
  /\ ReplyUncounted(q) /\ Done(q)
  /\ UNCHANGED <<authorVars, row, verdicts, answers, overtaken>>

-----------------------------------------------------------------------------
(* The holders.                                                             *)

Decide(h, f, decision) ==
  /\ row[h][f].agreement # None /\ row[h][f].decision = "none"
  /\ row' = [row EXCEPT ![h][f].decision = decision]
  /\ answers' = [answers EXCEPT ![h][f] = @ \cup {<<row[h][f].agreement, decision>>}]
  /\ UNCHANGED <<agent, tallyVars, question, agreed, standing, verdicts, mishaps,
                 terms, had, overtaken>>

(* She revokes the agent, or blocks its operator, anywhere in her portal.   *)
Withdraw(h) ==
  /\ Mishap
  /\ \/ /\ standing[h].status = "active"
        /\ standing' = [standing EXCEPT ![h].status = "revoked",
                                        ![h].revocations = @ + 1]
     \/ /\ ~standing[h].blocked
        /\ standing' = [standing EXCEPT ![h].blocked = TRUE]
  /\ UNCHANGED <<agent, tallyVars, question, agreed, row, verdicts, answers, terms, had,
                 overtaken>>

HasRead(w, h) ==
  req[w].stage = "quotes" /\ \E i \in 1..(req[w].at - 1) : Order[i] = h

(* She edits her terms over the account, or deletes them, or writes some:   *)
(* also while they are being folded.                                        *)
Edit(h, tier) ==
  /\ Mishap
  /\ tier # terms[h]
  /\ terms' = [terms EXCEPT ![h] = tier]
  /\ had' = [had EXCEPT ![h] = @ \cup {tier}]
  /\ req' = [w \in Requests |-> IF HasRead(w, h)
                               THEN [req[w] EXCEPT !.outdated = @ \cup {h}]
                               ELSE req[w]]
  /\ UNCHANGED <<agent, inForce, neg, tickets, rpts, tokens, question, agreed, row,
                 standing, verdicts, answers, overtaken>>

(* She agrees to the mandate as it is published now, or leaves.             *)
Join(h) ==
  /\ Mishap
  /\ h \in HoldersOf(inForce) /\ agreed[h] # inForce
  /\ agreed' = [agreed EXCEPT ![h] = inForce]
  /\ UNCHANGED <<agent, tallyVars, question, row, standing, verdicts, answers, terms, had,
                 overtaken>>

Leave(h) ==
  /\ Mishap
  /\ agreed[h] # None
  /\ agreed' = [agreed EXCEPT ![h] = None]
  /\ UNCHANGED <<agent, tallyVars, question, row, standing, verdicts, answers, terms, had,
                 overtaken>>

-----------------------------------------------------------------------------
AgentCalls(f, w) ==
  AskTerms(f, w) \/ Poll(f, w) \/ \E a \in Agreements : Commit(f, w, a)

AgentActs(f) ==
  PresentDead(f) \/ (\E w \in Requests : AskTerms(f, w) \/ Poll(f, w))

RequestStep(w) ==
  AskQuote(w) \/ Dictate(w) \/ QuotesRefused(w) \/ (\E q \in Questions : AskHolder(w, q)) \/ Conclude(w)

QuestionStep(q) ==
  \/ Arrive(q) \/ CheckMandate(q) \/ ReadRow(q) \/ CloseRow(q)
  \/ CheckWithdrawn(q) \/ Evaluate(q) \/ Save(q)

Next ==
  \/ \E f \in Families :
       \/ Perm(f) \/ Lapse(f) \/ PresentDead(f) \/ Decline(f) \/ RejectClaim(f)
       \/ LoseReply(f) \/ GiveUp(f) \/ Consume(f) \/ Outlive(f)
       \/ \E w \in Requests : AgentCalls(f, w)
  \/ \E w \in Requests : RequestStep(w) \/ QuotesFail(w) \/ Unreachable(w)
  \/ \E q \in Questions : QuestionStep(q) \/ CannotReadMandate(q) \/ Die(q)
  \/ \E q \in Questions, h \in Holders, f \in Families, a \in Agreements :
       AskAbout(q, h, f, a)
  \/ \E m \in Mandates : Restart(m)
  \/ \E h \in Holders :
       \/ \E f \in Families, d \in {"approved", "denied"} : Decide(h, f, d)
       \/ Withdraw(h) \/ Join(h) \/ Leave(h)
       \/ \E tier \in Written[h] : Edit(h, tier)

Spec == Init /\ [][Next]_vars

(* An agent that waits polls; what was accepted by the tally or by an       *)
(* authority runs on to its reply.                                          *)
Fairness ==
  /\ \A f \in Families : WF_vars(AgentActs(f))
  /\ \A w \in Requests : WF_vars(RequestStep(w))
  /\ \A q \in Questions : WF_vars(QuestionStep(q))

FairSpec == Spec /\ Fairness

-----------------------------------------------------------------------------
(* Properties.                                                              *)

(* Who may release the account: they carry the threshold together, and are  *)
(* no fewer than the floor.                                                 *)
Releases(m, Q) == Carried(m, Q) >= m.threshold /\ Cardinality(Q) >= Floor

Decision == INSTANCE JointDecision WITH
  Members <- [m \in Mandates |-> HoldersOf(m)],
  Quorums <- [m \in Mandates |-> {Q \in SUBSET HoldersOf(m) : Releases(m, Q)}],
  allowed <- verdicts,
  granted <- {[family |-> t.family, agreement |-> t.agreement,
               mandate |-> t.mandate] : t \in tokens}

(* A grant is made over the one agreement that holders who carry the        *)
(* threshold of the mandate have allowed, each under that mandate and no    *)
(* fewer than the floor that the mandate was let in under, and once to a    *)
(* negotiation: whatever is lost, asked twice, or restarted.                *)
KeepsTheCount == Decision!Spec

(* A negotiation is in one pair of hands: one ticket, or one request that   *)
(* took it (take_ticket).                                                   *)
OneHand ==
  \A f \in Families :
    /\ Cardinality({t \in tickets : t[1] = f}) +
       Cardinality({w \in Requests : req[w].family = f}) <= 1
    /\ (\E t \in tokens : t.family = f) => /\ \A u \in tickets : u[1] # f
                                           /\ ~WorkedOn(f)

(* What the door counts: the verdicts inside a grant, under the mandate     *)
(* that is published now, each over no less than the grant (joint_breach).  *)
Admitted(t) ==
  Carried(inForce, {h \in t.verdicts \cap HoldersOf(inForce) :
     \E v \in verdicts : /\ v.holder = h /\ v.family = t.family
                         /\ v.agreement = t.agreement
                         /\ Digest(v.mandate) = Digest(inForce)
                         /\ CoveredBy(t, Says[v.agreement])})
    >= inForce.threshold

(* Nobody is told yes and then turned away: a grant under the mandate in    *)
(* force carries the verdicts that make it pass at the enforcement point    *)
(* (the comment in verify_verdict).  Two kinds of grant do not: one made    *)
(* when a yes it carries is over, and one of an agreement that leaves its   *)
(* scopes or its lifetime out.                                              *)
InTime(t) == t.expires_in > 0
Spelled(t) == Says[t.agreement].scope # {} /\ Says[t.agreement].expires_in > 0

NobodyIsTurnedAway ==
  \A t \in tokens : t.mandate = inForce /\ InTime(t) /\ Spelled(t) => Admitted(t)

(* A yes is signed for an agent she is connected with, where her rules      *)
(* permit it, or because she approved, and then it is to the agreement she  *)
(* was shown (her approval is of one agreement: joint_verdict), whatever    *)
(* the tally asks about; unless a question about another agreement, that    *)
(* found her not asked yet, was saved over the one she had approved by      *)
(* then.  What it allows is no wider than terms of hers, whatever the tally *)
(* has made of them (verdict_problems).                                     *)
YesIsToWhatSheSaw ==
  \A v \in verdicts :
    /\ \/ "permit" \in Rules[v.holder] /\ v.holder \in Connected
       \/ <<v.agreement, "approved">> \in answers[v.holder][v.family]
       \/ <<v.holder, v.family, v.agreement>> \in overtaken
    /\ \E tier \in had[v.holder] \ {None} : Inside(Says[v.agreement], tier)

(* What each holder of the mandate may have had for terms when w asked her: *)
(* what she has now, unless she has edited it since.                        *)
Readings(w) ==
  {read \in [HoldersOf(inForce) -> Tiers \cup {None}] :
     \A h \in HoldersOf(inForce) :
       read[h] \in IF h \in req[w].outdated THEN had[h] ELSE {terms[h]}}

(* What an agent is asked to sign is the most that all who had terms when   *)
(* they were asked would let it sign: inside the terms of each, and nothing *)
(* of what was asked for is held back that all of them offer (fold).  A     *)
(* lifetime of 0 in somebody's terms bounds nobody's (as_ceiling, clamp).   *)
DictatesTheMeet ==
  \A w \in Requests :
    LET f       == req[w].family
        offered == neg'[f].template IN
    req[w].stage = "quotes" /\ neg'[f].state = "need_info" =>
      \E read \in Readings(w) :
        LET quoted == {read[h] : h \in HoldersOf(inForce)} \ {None} IN
        /\ \A tier \in quoted : NoWider(offered, tier)
        /\ \A a \in Agreements :
             /\ Asked = {} \/ Says[a].scope \subseteq Asked
             /\ \A tier \in quoted : Inside(Says[a], tier)
             => Inside(Says[a], offered)

FoldsFaithfully == [][DictatesTheMeet]_vars

(* Once every holder has answered and her authority has none of the tally's *)
(* questions in hand, an agent that goes on polling is told, when no more   *)
(* mishaps come.                                                            *)
AllAnswered(f) ==
  /\ agent[f].phase = "waiting" /\ Live(f)
  /\ \A h \in HoldersOf(inForce) :
       neg[f].verdicts[h] # "none" \/ row[h][f].decision # "none"
  /\ \A q \in Questions : question[q].family # f


=============================================================================
