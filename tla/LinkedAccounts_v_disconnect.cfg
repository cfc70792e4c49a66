SPECIFICATION LinkedSpec
CONSTANTS
  Channels = {"TIKTOK", "INSTAGRAM"}
  Sessions = {s1, s2}
  Handshakes = {h1}
  MaxGrants = 2
INVARIANT DisconnectIsFinal
CHECK_DEADLOCK FALSE
