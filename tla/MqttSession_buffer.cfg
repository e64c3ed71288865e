SPECIFICATION Spec
CONSTANTS
  Echoes = {e1, e2}
  NoEcho = NoEcho
  Sizes = {1, 2}
  Cap = 3
  InFlightLimit = 1
  MaxPacketId = 2
  ZombieTimeout = 2
  StaleTimeout = 3
  InFlightTtl = 4
  Elapsed = {}
  MaxMessages = 3
INVARIANTS TypeOK NoMessageLost NoMessageTwice BufferKept
PROPERTIES NoWriteOnTornStream
