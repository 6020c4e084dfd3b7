SPECIFICATION FairSpec
CONSTANTS
  Files = {a, b}
  Permitted = {a}
  Pdfs = {a}
  Terminal = {}
  Legacy = {a, b}
  Taken = {b}
  Doubtful = {b}
  Late = {b}
  MaxOrders = 1
  MaxCrashes = 1
  MaxRuns = 1
  BatchSize = 1
INVARIANTS PauseIsGivenBack
PROPERTIES MovedOrReviewed MigrationsEnd
CHECK_DEADLOCK FALSE
