SPECIFICATION FairSpec
CONSTANTS
  NULL = NULL
  Codecs = {sbc, aac}
  Configurable = {sbc, aac}
  SBC = sbc
  SinkCaps = {{sbc, aac}}
  Seids = {s1}
  Handles = {h1, h2}
  ReconnectWorkers = {r1}
  AvdtpWorkers = {w1}
  Faults = {"link"}
  MaxDisconnects = 1
  MaxSwitches = 0
  MaxInputs = 1
PROPERTIES
  LossIsReopened
CHECK_DEADLOCK FALSE
