SPECIFICATION Spec
CONSTANTS
  Echoes = {e1, e2}
  NoEcho = NoEcho
  Sizes = {1}
  Cap = 1
  InFlightLimit = 2
  MaxPacketId = 3
  ZombieTimeout = 2
  StaleTimeout = 3
  InFlightTtl = 4
  Elapsed = {1, 2}
  MaxMessages = 2
INVARIANTS ZombieNotMissed
