SPECIFICATION Spec
CONSTANTS
  Highs = 3
  Lows = 2
  Programs = {"plain", "cow", "foreign"}
  CallerSetsFlag = TRUE
INVARIANTS HoldsMembers InnersConsistent QueriesAgree TornRejected
