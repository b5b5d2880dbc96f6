------------------------------- MODULE Mandate -------------------------------
(***************************************************************************)
(* Mandates of jointly held accounts, and what is counted under them       *)
(* (lib/uma4a_joint.py; what a holder compares, services/uma-as/joint.py). *)
(*                                                                         *)
(* A mandate is [weight, kind, threshold]: the weight of every holder, the *)
(* kind of its rule and, once it has been normalised, the threshold of it. *)
(* The issuers that answer for the holders and the resources covered are   *)
(* part of the same comparisons as the weights, and are left out.          *)
(***************************************************************************)
EXTENDS Naturals, FiniteSets, FiniteSetsExt, SequencesExt

HoldersOf(m) == DOMAIN m.weight

(* What a set of holders carries together.                                  *)
Carried(m, Q) == MapThenSumSet(LAMBDA h : m.weight[h], Q)

Total(m) == Carried(m, HoldersOf(m))

(* The rule as a number: all of the weight, the least that one holder has,  *)
(* or what the document says.                                               *)
Normalised(m) ==
  [m EXCEPT !.threshold = CASE m.kind = "all" -> Total(m)
                            [] m.kind = "any" -> Min({m.weight[h] : h \in HoldersOf(m)})
                            [] OTHER -> m.threshold]

(* The heaviest holders are those who are outweighed by nobody left out.    *)
Heaviest(m, L) == \A g \in L, h \in HoldersOf(m) \ L : m.weight[g] >= m.weight[h]

(* The fewest holders who could release the account: as many of the         *)
(* heaviest as it takes to carry the threshold.                             *)
Fewest(m) ==
  Min({Cardinality(L) : L \in {M \in SUBSET HoldersOf(m) :
         Heaviest(m, M) /\ Carried(m, M) >= Normalised(m).threshold}})

(* The documents a tally accepts, under a floor the holders cannot lower.   *)
Acceptable(m, floor) ==
  /\ Cardinality(HoldersOf(m)) >= 2
  /\ \A h \in HoldersOf(m) : m.weight[h] >= 1
  /\ m.kind = "threshold" => m.threshold \in 1..Total(m)
  /\ floor > 0 => Fewest(m) >= floor

(* What a holder's yes names, and an enforcement point compares: the        *)
(* holders, their weights, and the rule with its kind.                      *)
Digest(m) == <<m.weight, m.kind, m.threshold>>

(* What a holder's authority takes for a change.  The kind is not compared. *)
Moved(was, now) == was.weight # now.weight \/ was.threshold # now.threshold

(* Where a count stands.  It is settled as soon as the weight that is still *)
(* out cannot change it.                                                    *)
Effect(m, verdicts) ==
  LET Said(v) == {h \in HoldersOf(m) : verdicts[h] = v} IN
  CASE Carried(m, Said("allow")) >= m.threshold -> "allow"
    [] Carried(m, Said("allow") \cup Said("none")) < m.threshold -> "refuse"
    [] OTHER -> "pending"
=============================================================================
