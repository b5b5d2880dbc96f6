\* A grant for one trade and a grant for reading, of one agent: three calls at
\* once, two revocations, and admissions in between. The deployment makes only
\* wires single-use; that the trade is for one act, the grant says.
CONSTANTS
  Families = {f1}
  Agents = {a1}
  Tiers = {t1}
  Operators = {op}
  Operator <- Unoperated
  Jtis = {once, often}
  Standing = {a1}
  None = None
  Calls = {c1, c2, c3}
  Acts = {trade, wire}
  OneActTools = {wire}
  Bound <- OnceBound
  MaxArrivals = 3
  MaxRevocations = 2
  trade = trade
  wire = wire
  once = once
SPECIFICATION Spec
SYMMETRY Symmetry
CHECK_DEADLOCK FALSE
INVARIANTS OneWinner
PROPERTIES KeepsPromise SpentIsNotUsed
