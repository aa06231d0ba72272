SPECIFICATION PathSpec
CONSTANTS
  NULL = NULL
  Codecs = {sbc, aac}
  Configurable = {sbc, aac}
  SBC = sbc
  SinkCaps = {{sbc}}
  Seids = {s1}
  Handles = {h1, h2, h3}
  ReconnectWorkers = {r1}
  AvdtpWorkers = {w1}
  Faults = {}
  MaxDisconnects = 0
  MaxSwitches = 1
  MaxInputs = 1
INVARIANTS
  FallbackWorks
CHECK_DEADLOCK FALSE
