SPECIFICATION Spec
CONSTANTS
  r1 = r1
  r2 = r2
  query = query
  j1 = j1
  j2 = j2
  agent = agent
  book = book
  account = account
  desk = desk
  read = read
  trade = trade
  Replica = {r1, r2}
  Job = {query, j1}
  Query = query
  TierId = {"general", "ours"}
  Joint <- MCJoint
  Agent = {agent}
  Asker = agent
  Asked = book
  Charters <- MCOneCharter
  Shares <- MCShares
  DefaultShares <- MCDefaultShares
  FirstTiers <- MCFirstTiersOneMore
  Patches <- MCPatches
  Specs <- MCSpecs
  AnyScope = AnyScope
  MaxJoins = 2
  MaxLeaves = 1
  MaxRemovals = 1
  MaxRoles = 1
  MaxNotices = 1
  MaxEdits = 1
  MaxWrites = 1
  MaxDeletes = 1
  Clearances <- MCNoClearances
  MaxClearances = 0
  MaxBlocks = 1
  MaxFailures = 1
  MaxCrashes = 1
  MaxEvents = 1
  None = None
INVARIANT RecordIsWhole
INVARIANT GrantIsOfTheOffer
INVARIANT NoticeActsOnce
PROPERTY BlocksStand
PROPERTY EndIsNoticed
CHECK_DEADLOCK FALSE
