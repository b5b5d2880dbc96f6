SPECIFICATION Spec
CONSTANTS
  r1 = r1
  r2 = r2
  query = query
  j1 = j1
  j2 = j2
  agent = agent
  book = book
  account = account
  desk = desk
  read = read
  trade = trade
  Replica = {r1, r2}
  Job = {query, j1}
  Query = query
  TierId = {"general"}
  Joint <- MCJoint
  Agent = {agent}
  Asker = agent
  Asked = book
  Charters <- MCCharters
  Shares <- MCShares
  DefaultShares <- MCDefaultShares
  FirstTiers <- MCFirstTiers
  Patches <- MCPatches
  Specs <- MCSpecs
  AnyScope = AnyScope
  MaxJoins = 1
  MaxLeaves = 0
  MaxRemovals = 0
  MaxRoles = 0
  MaxNotices = 0
  MaxEdits = 0
  MaxWrites = 0
  MaxDeletes = 0
  Clearances <- MCClearances
  MaxClearances = 2
  MaxBlocks = 0
  MaxFailures = 0
  MaxCrashes = 0
  MaxEvents = 2
  None = None
PROPERTY CharterArrives
PROPERTY WithdrawnClearanceStops
CHECK_DEADLOCK FALSE
