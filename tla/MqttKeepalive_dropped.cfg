SPECIFICATION Spec
CONSTANTS
  PingInterval = 20
  ReadTimeout = 30
  BrokerDeadline = 45
  CallerGap = 0
INVARIANTS NotDropped
