\* One agent, unknown at first, at two tiers: one that asks her until she has said yes
\* there herself, and one that asks about agents that she has revoked or does not know.
\* Two negotiations, two requests at a time, a revocation, a request that dies half way,
\* and negotiations that run out.
CONSTANTS
  Families = {f1, f2}
  Agents = {child1}
  Tiers = {tAsk, tKnown}
  Operators = {op}
  Operator <- Unoperated
  Jtis = {j1, j2}
  Standing = {}
  None = None
  Workers = {w1, w2}
  Sweepers = {s1}
  Sponsor <- Unsponsored
  AskMe = {tAsk, tKnown}
  Relaxations <- Relaxed3
  FirstParty = {}
  Uncovered = {}
  Lanes <- Lane1
  Lane <- OneLane
  Budget <- Budget2
  Fanout = 1
  Deciders = {"owner", "administrator"}
  MaxTickets = 3
  MaxActs = 1
  MaxCrashes = 1
  TimePasses = TRUE
  parent = parent
  child1 = child1
  child2 = child2
  child3 = child3
  op = op
  tAsk = tAsk
  tKnown = tKnown
SPECIFICATION Spec
SYMMETRY Symmetry
CHECK_DEADLOCK FALSE
INVARIANTS TypeOK OneGrantPerNegotiation OneHandAtATime HandleSurvives DenialIsFinal EveryGrantTracesToAYes ApprovalsAreHers
PROPERTIES AnswerStands
