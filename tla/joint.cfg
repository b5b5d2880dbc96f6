\* Two holders who must both agree: Alice is asked, Bob knows the agent and
\* permits it. One negotiation, two questions at once, any two mishaps. They offer
\* different terms; the agent signs what they fold to, less, or more.
CONSTANTS
  alice = alice
  bob = bob
  Families = {f1}
  c1 = c1
  c2 = c2
  Agreements = {c1, c2}
  Says <- Signed
  Account <- Joint
  Asked = {}
  Written <- Differing
  Holders = {alice, bob}
  Order <- Listed
  Documents <- Both
  Floor = 2
  Rules <- AskAlice
  Connected = {bob}
  MaxOpen = 1
  Requests = {w1}
  Questions = {q1, q2}
  None = None
  AnyScope = AnyScope
  Unstated = 3
  MaxMishaps = 2
SPECIFICATION FairSpec
CHECK_DEADLOCK FALSE
INVARIANTS OneHand NobodyIsTurnedAway YesIsToWhatSheSaw
PROPERTIES KeepsTheCount FoldsFaithfully 
