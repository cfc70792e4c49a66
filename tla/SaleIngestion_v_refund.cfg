SPECIFICATION Spec
CONSTANTS
  Orders = {o1}
  Orderless = {}
  Amounts = {10}
  FromPayload = FALSE
  Handlers = {h1}
  Workers = {w1, w2}
  Admins = {}
  NoOrder = NoOrder
  JobAttempts = 2
  ScanLimit = 2
  MaxVersions = 2
  MaxRetryJobs = 0
  MaxFaults = 0
  MaxCrashes = 0
CHECK_DEADLOCK FALSE
INVARIANT NoLostRefund
