\* Three sub-agents of one agent, two requests at a time: room for one to be
\* introduced and for one to wait on her, and agreements that cover no scope the
\* request needs.
CONSTANTS
  Families = {f1, f2, f3}
  Agents = {parent, child1, child2, child3}
  Tiers = {tAuto}
  Operators = {op}
  Operator <- Unoperated
  Jtis = {j1}
  Standing = {parent}
  None = None
  Workers = {w1, w2}
  Sweepers = {}
  Sponsor <- Family1
  AskMe = {}
  Relaxations <- NoRelaxation
  FirstParty = {}
  Uncovered = {tAuto}
  Lanes <- Lane1
  Lane <- OneLane
  Budget <- Budget1
  Fanout = 1
  Deciders = {"owner"}
  MaxTickets = 3
  MaxActs = 0
  MaxCrashes = 0
  TimePasses = FALSE
  parent = parent
  child1 = child1
  child2 = child2
  child3 = child3
  op = op
  tAsk = tAsk
  tKnown = tKnown
SPECIFICATION Spec
SYMMETRY Siblings
CHECK_DEADLOCK FALSE
INVARIANT LimitsHold
