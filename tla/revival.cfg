\* A grant that is recorded just after the revocation, and what becomes of it
\* once she admits the agent again.
CONSTANTS
  Families = {f1, f2}
  Agents = {child1}
  Tiers = {tAuto}
  Operators = {op}
  Operator <- Unoperated
  Jtis = {j1}
  Standing = {child1}
  None = None
  Workers = {w1, w2}
  Sweepers = {s1}
  Sponsor <- Unsponsored
  AskMe = {}
  Relaxations <- NoRelaxation
  FirstParty = {}
  Uncovered = {}
  Lanes <- Lane1
  Lane <- OneLane
  Budget <- Budget2
  Fanout = 1
  Deciders = {"owner"}
  MaxTickets = 3
  MaxActs = 1
  MaxCrashes = 0
  TimePasses = FALSE
  parent = parent
  child1 = child1
  child2 = child2
  child3 = child3
  op = op
  tAsk = tAsk
  tKnown = tKnown
SPECIFICATION Spec
SYMMETRY Symmetry
CHECK_DEADLOCK FALSE
INVARIANTS NoRevival
