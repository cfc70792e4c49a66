SPECIFICATION Spec
CONSTANTS
  Messages = {m1}
  Workers = {w1, w2}
  Handlers = {h1, h2}
  Kinds = {"sent", "delivered", "read", "failed"}
  NoMessage = NoMessage
  NoId = NoId
  MaxAttempts = 3
  MaxPosts = 1
  DrainLimit = 2
  CancelExposed = FALSE
  MaxAccepts = 2
  MaxRequeues = 1
  MaxFaults = 1
  MaxCrashes = 0
SYMMETRY Symmetry
INVARIANT SingleClaim
INVARIANT ReceiptsTruthful
PROPERTY DeliveredIsStable
PROPERTY KeepsPromise
