SPECIFICATION Spec
CONSTANTS
  i1 = i1
  i2 = i2
  Callers = {c1, c2}
  Requests = {q1, q2}
  States = {s1, s2}
  Shops = {shopA, shopB}
  NoShop = NoShop
  MaxTokens = 3
  Items = {i1, i2}
  Invalid = {i2}
  Scenarios <- MCScenarios
SYMMETRY MCSymmetry
INVARIANTS
  RefreshTokenLive
  ConnectionSafe
  ImportsCounted

  
CHECK_DEADLOCK FALSE
