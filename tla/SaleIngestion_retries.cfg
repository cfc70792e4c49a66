SPECIFICATION Spec
CONSTANTS
  Orders = {o1}
  Orderless = {}
  Amounts = {10, 20}
  FromPayload = FALSE
  Handlers = {h1}
  Workers = {w1}
  Admins = {}
  NoOrder = NoOrder
  JobAttempts = 2
  ScanLimit = 2
  MaxVersions = 2
  MaxRetryJobs = 0
  MaxFaults = 2
  MaxCrashes = 1
CHECK_DEADLOCK FALSE
INVARIANT SettledSalesMatch
 
INVARIANT ImportsCounted
