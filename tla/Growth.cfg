SPECIFICATION Spec
CONSTANTS
  h1 = h1
  h2 = h2
  p1 = p1
  p2 = p2
  Candidates <- MCCandidates
  Handles = {h1, h2}
  Discoveries = {x1, x2}
  Recruiters = {y1, y2}
  MaxMoves = 2
  Keywords = {"glow", "serum"}
  Categories = {"beauty", "skin"}
  Signals <- MCSignals
  Forms <- MCForms
  Collections = {x1, x2}
  Admins = {y1, y2}
  Creators = {h1, h2}
  Fitting = {h1}
  Products = {p1, p2}
  Rebuilds = {x1, x2}
  Confidences = {60}
  TrendScores = {50, 90}
  MinimumTrendScore = 40
  MaxChanges = 2
  Messages = {h1, h2}
  Authors = {x1, x2}
  LastHour = 2
  MaxTemplate = 2
  Generations = {x1, x2}
  LastProduct = 2
  LastTrend = 1
  References = {p1}
  Clients = {x1, x2}
  Deliveries = {x1, x2}
  Clerks = {y1, y2}
  MaxEdits = 2
SYMMETRY MCSymmetry
INVARIANTS
  
  TrendsAccounted
  AudienceSafe
  OutreachSafe
  
  
PROPERTIES
  PipelineKept
  ScheduledTextFrozen
  RegressionsAreStale
CHECK_DEADLOCK FALSE
