SPECIFICATION Spec
CONSTANTS
  Elsewhere = elsewhere
  Calls = {x1, x2}
  Emails = {y1, y2}
  MaxInvites = 2
  MaxTokens = 2
  MaxLinks = 2
  Scopes <- MCScopes
  Logins = {x1, x2}
  MaxAttempts = 3
  LockWindow = 1
  LockDuration = 1
  MaxTime = 3
  MaxCount = 6
  Agents = {x1, x2}
  MaxRuns = 3
  RunBudget = 2
  PeriodBudget = 2
  Approvals = {y1, y2}
  Managers = {x1, x2}
  Duties <- MCDuties
  Sales = {z}
  Writers = {w}
  Readers = {x1, x2}
  MaxVersions = 2
  LastTime = 1
  Channels = {"TIKTOK", "INSTAGRAM", "WHATSAPP"}
  Sessions = {x1, x2}
  Handshakes = {y1, y2}
  MaxGrants = 2
  Editors = {x1, x2}
  Items = {y1, y2}
  Amounts = {1, 2}
  Areas <- MCAreas
SYMMETRY MCSymmetry
INVARIANTS
  AccountsSafe
  LimitIsLocked
  FailuresBounded
  SpendBounded
  ApprovalsHold
  ServedIsFresh
  
  
PROPERTIES
  LockHolds
  EndedRunsStay
CHECK_DEADLOCK FALSE
