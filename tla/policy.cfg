SPECIFICATION Spec
CONSTANTS
  t1 = t1
  q1 = q1
  q2 = q2
  MaxAll = 3
  NoArgument = NoArgument
  Malformed = Malformed
  Never = Never
  Tier = {t1}
  FirstTiers <- TheFirstTiers
  RuleLists <- TheRuleLists
  Presentation <- ThePresentations
  Offer <- TheOffer
  Findings <- TheFindings
  Request = {q1, q2}
  Decider = {"owner", "administrator"}
  Verdicts = {"auto", "ask"}
  Limit <- TheLimit
INVARIANTS EvidenceNeverWidens StrictestThatApplies
SYMMETRY Alike
CHECK_DEADLOCK FALSE
