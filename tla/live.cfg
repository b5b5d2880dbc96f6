\* A parent and its sub-agent, both of one operator: she answers, and revokes or
\* blocks once.
CONSTANTS
  Families = {f1, f2}
  Agents = {parent, child1}
  Tiers = {tAsk}
  Operators = {op}
  Operator <- AllOperated
  Jtis = {j1, j2}
  Standing = {parent}
  None = None
  Workers = {w1}
  Sweepers = {s1}
  Sponsor <- Family1
  AskMe = {tAsk}
  Relaxations <- Relaxed3
  FirstParty = {child1}
  Uncovered = {}
  Lanes <- Lane1
  Lane <- OneLane
  Budget <- Budget2
  Fanout = 1
  Deciders = {"owner"}
  MaxTickets = 3
  MaxActs = 1
  MaxCrashes = 0
  TimePasses = FALSE
  parent = parent
  child1 = child1
  child2 = child2
  child3 = child3
  op = op
  tAsk = tAsk
  tKnown = tKnown
SPECIFICATION FairSpec
CHECK_DEADLOCK FALSE
INVARIANTS NoOrphan
PROPERTIES AnswerIsCollected CascadeCompletes BlockReaches
