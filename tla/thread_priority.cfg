SPECIFICATION PrioritySpec
CONSTANTS
  Highs = {h1, h2}
  Meds = {m1, m2}
  Lows = {l1, l2}
  Gated <- MCGated
  Solo = {}
  Nobody = Nobody
  Prio <- MCPrio
SYMMETRY SamePriority
INVARIANTS
  VerdictOnAll
  FailMeansInversion
CHECK_DEADLOCK FALSE
