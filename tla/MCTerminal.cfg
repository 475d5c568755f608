SPECIFICATION Spec
CONSTANTS
  InitialWindow = 14
  MaxPacketSize = 3
  Kinds = {"telnet", "tls", "prompt", "ssh"}
  MaxConnects = 2
  MaxInputs = 2
  MaxHostData = 2
  MaxRekeys = 1
  MaxRequests = 1
  MaxRetries = 1
INVARIANTS
  TypeOK
  ConnectionsCounted
  NoSocketLeft
  HostDataExactlyOnce
  InputsExactlyOnce
  ProtocolKept
  SessionSurvives
  ShellChannelKept
CHECK_DEADLOCK FALSE
