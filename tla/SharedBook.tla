----------------------------- MODULE SharedBook -----------------------------
(***************************************************************************)
(* What an enforcement point knows of a resource that an organization      *)
(* shares with a member (lib/uma4a_pep.py, services/uma-pep/app.py): the   *)
(* membership document that the organization answers with, a copy of it,   *)
(* and how long the copy may stand in for an answer.                       *)
(*                                                                         *)
(* A document is one of four: no member; a member whose group is not given *)
(* the tool; one whose ceiling is below the grants her authority issues;   *)
(* one whose ceiling is not.  Time passes in periods: a copy is of age 0   *)
(* within MEMBERSHIP_TTL_S, 1 within STALE_GRACE_S after that, 2 later.    *)
(* The copy is the enforcer's: there is one that is kept for her, SHARED,  *)
(* while she is a member, and calls in flight may have another.            *)
(***************************************************************************)
EXTENDS Naturals

CONSTANTS Enforcer, None

VARIABLES
  standing,   \* the organization's record of her
  copies,     \* _membership of each: a document, and the age of the reading
  shared,     \* SHARED[owner], or None
  ago         \* periods since the organization last said each document

book == <<standing, copies, shared, ago>>

Documents == {"out", "ungranted", "capped", "full"}
NoCopy == [doc |-> None, age |-> 2]
Old == 2

BookInit ==
  /\ standing = "full"
  /\ copies = [e \in Enforcer |-> NoCopy]
  /\ shared = None
  /\ ago = [d \in Documents |-> IF d = "full" THEN 0 ELSE Old]

(* The tools that the document gives her group, and whether a grant of her  *)
(* authority exceeds the document's ceiling: of somebody who is no member   *)
(* there is no ceiling.                                                     *)
SharedTools(doc) == doc \in {"capped", "full"}
CeilingBreach(doc) == doc = "capped"

(* A recent copy is used as it is.  Else the organization is asked, and     *)
(* when it does not answer, a copy stands for the grace period.             *)
Recent(copy) == copy.doc # None /\ copy.age = 0
Read(doc) == [doc |-> doc, age |-> 0]

(* Mutant: any copy will do.                                                *)
AnyCopy(copy) == copy.doc # None

InGrace(copy) == copy.doc # None /\ copy.age < Old

(* The administrator invites, removes, changes a group or the charter.      *)
Governs(doc) ==
  /\ standing # doc
  /\ standing' = doc
  /\ ago' = [ago EXCEPT ![doc] = 0]
  /\ UNCHANGED <<copies, shared>>

PeriodPasses ==
  /\ copies' = [e \in Enforcer |-> [copies[e] EXCEPT !.age = IF @ < Old THEN @ + 1 ELSE @]]
  /\ ago' = [d \in Documents |->
               IF d = standing THEN 0 ELSE IF ago[d] < Old THEN ago[d] + 1 ELSE Old]
  /\ UNCHANGED <<standing, shared>>
=============================================================================
