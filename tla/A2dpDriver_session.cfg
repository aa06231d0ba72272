SPECIFICATION Spec
CONSTANTS
  NULL = NULL
  Codecs = {sbc, aac, lc3}
  Configurable = {sbc, aac}
  SBC = sbc
  SinkCaps = {{sbc, aac}, {sbc, lc3}}
  Seids = {s1}
  Handles = {h1, h2, h3}
  ReconnectWorkers = {r1}
  AvdtpWorkers = {w1}
  Faults = {"brb", "reject", "link", "media"}
  MaxDisconnects = 1
  MaxSwitches = 2
  MaxInputs = 2
SYMMETRY HandleSymmetry
INVARIANTS
  TypeOK
  NegotiatedCodec
  MediaOnlyWhenStarted
  OnlyConfigurable
  BrbExclusive
  SignalingNotLeaked
CHECK_DEADLOCK FALSE
