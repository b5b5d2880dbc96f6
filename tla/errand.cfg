SPECIFICATION Spec
CONSTANTS
  None = None
  Enforcer = {1, 2}
  Negotiation = {1, 2, 3}
  Home = Home
  Elsewhere = Elsewhere
  Seeded = TRUE
  s1 = s1
  d1 = d1
  Call = {s1, d1}
  Headless = {d1}
  InFlight = 1
  MaxDictations = 3
  MaxEvents = 4
INVARIANTS OneQuestion HerAnswerEndsTheCall
PROPERTIES RestsOnRecentMembership RotationIsNotForgery
CHECK_DEADLOCK FALSE
