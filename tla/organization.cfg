SPECIFICATION Spec
CONSTANTS
  Owner = {ann}
  ann = ann
  bob = bob
  theirs = theirs
  Employee = {ann, bob}
  JoinCode = TRUE
  Namespace = {r}
  MaxCeiling = 2
  f = f
  r = r
  s = s
  g = g
  q1 = q1
  q2 = q2
  Role = {s, g}
  Groups <- TheGroups
  Drafts <- TheDrafts
  FirstCharter <- TheFirst
  Facts = {f}
  Request = {q1, q2}
  SignedFor <- ForAnn
  WithVoucher = {q2}
  j1 = j1
  j2 = j2
  Job = {j1, j2}
  None = None
  Limit <- TheLimit
  MaxAll = 5
INVARIANTS AllowIsOfACharter PublishKeepsChanges
PROPERTY OverridesAreBounded
SYMMETRY Alike
CHECK_DEADLOCK FALSE
