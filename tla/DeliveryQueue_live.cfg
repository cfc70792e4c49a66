SPECIFICATION FairSpec
CONSTANTS
  Messages = {m1}
  Workers = {w1, w2}
  Handlers = {h1}
  Kinds = {"sent", "failed"}
  NoMessage = NoMessage
  NoId = NoId
  MaxAttempts = 3
  MaxPosts = 1
  DrainLimit = 2
  CancelExposed = TRUE
  MaxAccepts = 2
  MaxRequeues = 1
  MaxFaults = 0
  MaxCrashes = 1
PROPERTY SettlesOrStrands
