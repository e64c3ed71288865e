SPECIFICATION FairSpec
CONSTANTS
  Echoes = {e1, e2}
  NoEcho = NoEcho
  Sizes = {1}
  Cap = 1
  InFlightLimit = 1
  MaxPacketId = 2
  ZombieTimeout = 2
  StaleTimeout = 1
  InFlightTtl = 2
  Elapsed = {1}
  MaxMessages = 1
PROPERTIES ZombieClockTracksCommand BackpressureClears
