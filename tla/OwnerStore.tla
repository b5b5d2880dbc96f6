----------------------------- MODULE OwnerStore -----------------------------
(***************************************************************************)
(* The state one owner's authority keeps, and the indivisible operations   *)
(* its handlers are built from (services/uma-as/store.py, as implemented   *)
(* by store_postgres.py).                                                  *)
(*                                                                         *)
(* Every method of the store is one SQL statement or one transaction, so   *)
(* each operator below is one atomic step; whatever a handler does between *)
(* two calls can be interleaved with every other handler, in this process  *)
(* or in another replica.  A handler holds COPIES of what it has read.     *)
(*                                                                         *)
(* Operators that change state constrain only the variables they write.    *)
(***************************************************************************)
EXTENDS Naturals, FiniteSets

CONSTANTS
  Families,    (* negotiation ids; a negotiation is a "family" of tickets  *)
  Agents,      (* connection handles: one per requesting agent             *)
  Tiers,       (* the owner's policy tiers; a resource is in exactly one   *)
  Operators,   (* the origins that operate agents                          *)
  Operator,    (* the operator an agent names, or None                     *)
  Jtis,        (* identities of issued grants (RPTs)                       *)
  Standing,    (* agents she had admitted and approved before the start    *)
  None         (* stands for an absent value                               *)

ASSUME StoreAssumption ==
  /\ None \notin Agents \cup Tiers \cup Operators \cup Families
  /\ Operator \in [Agents -> Operators \cup {None}]
  /\ Standing \subseteq Agents

VARIABLES
  negotiations,  (* family -> the negotiation row; state "none" is no row  *)
  tickets,       (* the live tickets, <<family, serial>>                   *)
  minted,        (* family -> how many tickets it has had (token freshness)*)
  rpts,          (* jti -> the grant's row; status "none" is no row        *)
  connections,   (* handle -> the connection row; status "none" is no row  *)
  blocked        (* the operators she has shut out                         *)

negVars   == <<negotiations, tickets, minted>>
storeVars == <<negotiations, tickets, minted, rpts, connections, blocked>>

Handles   == Agents \cup {None}
Decisions == {"approved", "denied"}
Authors   == {"owner", "administrator"}

Negotiation ==
  [state    : {"none", "issued", "need_info", "awaiting-owner"},
   tier     : Tiers \cup {None},
   kind     : {"none", "connection", "operation"},
   handle   : Handles,
   seen     : Nat,       (* her revocations of the agent when it was asked *)
   decision : Decisions \cup {"none"},
   by       : Authors \cup {"none"},
   expired  : BOOLEAN]

Connection ==
  [status      : {"none", "active", "revoked"},
   parent      : Handles,            (* parent_handle: who introduced it   *)
   approved    : SUBSET Tiers,       (* tiers_approved: her own yes, only  *)
   revocations : Nat]

(* "epoch" is not a column: it is how many times the agent had been revoked *)
(* when the request behind the grant last looked, and properties read it.   *)
Rpt ==
  [status : {"none", "live", "consumed"},
   family : Families \cup {None},
   handle : Handles,
   tier   : Tiers \cup {None},
   epoch  : Nat]

Tickets == Families \X Nat

NoNegotiation ==
  [state |-> "none", tier |-> None, kind |-> "none", handle |-> None,
   seen |-> 0, decision |-> "none", by |-> "none", expired |-> FALSE]

NoConnection ==
  [status |-> "none", parent |-> None, approved |-> {}, revocations |-> 0]

NoRpt ==
  [status |-> "none", family |-> None, handle |-> None, tier |-> None,
   epoch |-> 0]

StoreTypeOK ==
  /\ negotiations \in [Families -> Negotiation]
  /\ tickets \subseteq Tickets
  /\ minted \in [Families -> Nat]
  /\ rpts \in [Jtis -> Rpt]
  /\ connections \in [Agents -> Connection]
  /\ blocked \subseteq Operators

(* A ticket has its row (a foreign key), and a row is whole: it has a tier, *)
(* and an agent once it waits on her.                                       *)
RowsOK ==
  /\ \A t \in tickets : negotiations[t[1]].state # "none"
  /\ \A f \in Families :
       /\ negotiations[f].state # "none" => negotiations[f].tier \in Tiers
       /\ negotiations[f].state = "awaiting-owner" => negotiations[f].handle \in Agents

StoreInit ==
  /\ negotiations = [f \in Families |-> NoNegotiation]
  /\ tickets = {}
  /\ minted = [f \in Families |-> 0]
  /\ rpts = [j \in Jtis |-> NoRpt]
  /\ connections = [a \in Agents |->
                      IF a \in Standing
                        THEN [NoConnection EXCEPT !.status = "active",
                                                  !.approved = Tiers]
                        ELSE NoConnection]
  /\ blocked = {}

-----------------------------------------------------------------------------
(* Negotiations and tickets.                                               *)

FamilyOf(t) == t[1]

(* What the owner's portal lists, and what the queue's depth is counted on. *)
Waiting(n) == n.state = "awaiting-owner" /\ n.decision = "none"

Pending == {f \in Families : Waiting(negotiations[f])}

(* A decision already on the row outlives the copy that replaces the row.   *)
KeepDecision(f, n) ==
  IF negotiations[f].decision = "none"
    THEN n
    ELSE [n EXCEPT !.decision = negotiations[f].decision,
                   !.by = negotiations[f].by]

MintTicket(f, n) ==
  /\ minted' = [minted EXCEPT ![f] = @ + 1]
  /\ tickets' = tickets \cup {<<f, minted[f] + 1>>}
  /\ negotiations' = [negotiations EXCEPT
                        ![f] = KeepDecision(f, [n EXCEPT !.expired = FALSE])]

(* Mutant: the ticket is looked up, and not deleted.                        *)
ConsumeTicketByReading(t) == UNCHANGED negVars

(* Spending removes the ticket alone: the negotiation stays addressable.    *)
ConsumeTicket(t) ==
  /\ tickets' = tickets \ {t}
  /\ UNCHANGED <<negotiations, minted>>

(* Tickets go with the negotiation (ON DELETE CASCADE).                     *)
CloseNegotiation(f) ==
  /\ negotiations' = [negotiations EXCEPT ![f] = NoNegotiation]
  /\ tickets' = {t \in tickets : FamilyOf(t) # f}
  /\ UNCHANGED minted

ReapExpired ==
  /\ negotiations' = [f \in Families |-> IF negotiations[f].expired
                                           THEN NoNegotiation
                                           ELSE negotiations[f]]
  /\ tickets' = {t \in tickets : ~negotiations[FamilyOf(t)].expired}
  /\ UNCHANGED minted

(* Mutant: a second tap overwrites the first.                               *)
DecideAgain(f, decision, by) ==
  /\ negotiations[f].state = "awaiting-owner"
  /\ negotiations' = [negotiations EXCEPT ![f].decision = decision,
                                          ![f].by = by]
  /\ UNCHANGED <<tickets, minted>>

(* Write-once, and who decided goes in the same statement.  The statement   *)
(* does not look at the expiry.                                             *)
DecideNegotiation(f, decision, by) ==
  /\ Waiting(negotiations[f])
  /\ negotiations' = [negotiations EXCEPT ![f].decision = decision,
                                          ![f].by = by]
  /\ UNCHANGED <<tickets, minted>>

-----------------------------------------------------------------------------
(* Grants, connections and blocked operators.                              *)

RecordRpt(j, f, h, tier, epoch) ==
  /\ rpts[j].status = "none"
  /\ rpts' = [rpts EXCEPT ![j] = [status |-> "live", family |-> f,
                                  handle |-> h, tier |-> tier,
                                  epoch |-> epoch]]

(* Mutant: the burn does not look whether another came first.               *)
BurnAgain(j) ==
  /\ rpts[j].status # "none"
  /\ rpts' = [rpts EXCEPT ![j].status = "consumed"]

(* A grant for one act is burned by one statement that reads and writes.    *)
ConsumeRpt(j) ==
  /\ rpts[j].status = "live"
  /\ rpts' = [rpts EXCEPT ![j].status = "consumed"]

(* Replaces the row wholly.                                                 *)
PutConnection(h, c) == connections' = [connections EXCEPT ![h] = c]

NoteTierApproval(h, tier) ==
  connections' = [connections EXCEPT
                    ![h].approved = IF connections[h].status = "none"
                                      THEN @ ELSE @ \cup {tier}]

LiveChildren(h) ==
  {c \in Agents : connections[c].parent = h /\ connections[c].status = "active"}

(* The connection and every grant issued under it, in one transaction.      *)
RevokeConnection(h) ==
  /\ connections' = [connections EXCEPT ![h].status = "revoked",
                                        ![h].revocations = @ + 1]
  /\ rpts' = [j \in Jtis |-> IF rpts[j].status = "live" /\ rpts[j].handle = h
                               THEN [rpts[j] EXCEPT !.status = "consumed"]
                               ELSE rpts[j]]

(* What introspection answers for a grant: a row that is not spent, under a *)
(* connection that is active or that is not on file at all.                 *)
Honoured(j) ==
  /\ rpts[j].status = "live"
  /\ connections[rpts[j].handle].status \in {"active", "none"}
=============================================================================
