SPECIFICATION PathFairSpec
CONSTANTS
  NULL = NULL
  Codecs = {sbc, aac}
  Configurable = {sbc, aac}
  SBC = sbc
  SinkCaps = {{sbc, aac}}
  Seids = {s1}
  Handles = {h1, h2}
  ReconnectWorkers = {r1}
  AvdtpWorkers = {w1}
  Faults = {"page", "link"}
  MaxDisconnects = 1
  MaxSwitches = 1
  MaxInputs = 1
PROPERTIES
  HandshakeCompletes
  ReconnectAttempted
  BrbLockReleased
  RequestsReturn
CHECK_DEADLOCK FALSE
