SPECIFICATION Spec
CONSTANTS
  Messages = {m1}
  Workers = {w1, w2, w3}
  Handlers = {}
  Kinds = {}
  NoMessage = NoMessage
  NoId = NoId
  MaxAttempts = 3
  MaxPosts = 2
  DrainLimit = 2
  CancelExposed = TRUE
  MaxAccepts = 3
  MaxRequeues = 1
  MaxFaults = 1
  MaxCrashes = 1
SYMMETRY WorkerSymmetry
INVARIANT SendsAccounted
INVARIANT OverrunBounded
