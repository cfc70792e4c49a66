SPECIFICATION Spec
CONSTANTS
  Orders = {o1}
  Orderless = {}
  Amounts = {10}
  FromPayload = FALSE
  Handlers = {h1}
  Workers = {w1, w2}
  Admins = {}
  NoOrder = NoOrder
  JobAttempts = 1
  ScanLimit = 2
  MaxVersions = 2
  MaxRetryJobs = 1
  MaxFaults = 0
  MaxCrashes = 1
CHECK_DEADLOCK FALSE
SYMMETRY Symmetry
INVARIANT AcknowledgedAfterUpsert
