SPECIFICATION ClientSpec
CONSTANTS
  None = None
  CacheSessions = 1
  CacheGenMod = 5
  MaxJobs = 3
  JobSessions = 2
  PushallAnswered = TRUE
  LenBase = 2
  MaxPayload = 5
  GrowthChunk = 2
  Scratch = 2
  FrameLengths = {0, 5, 6}
  MaxFrames = 3
  IdFloor = 2
  IdMax = 7
  PendingLimit = 2
  MaxIssued = 5
  MaxEchoes = 2
  FileSessions = 3
  FileOps = 3
  TimerEpochs = {0, 1, 2}
  Clockless = {0}
  MaxAsked = 4
  CamHeader = 2
  CamMaxFrame = 3
  CamJpegMin = 2
  CamDiscard = 2
  CamSizes = {0, 1, 3, 4}
  CamFrames = 3
  Window = 6
  SearchEvery = 2
  Backoff = 1
  Bursts = 2
  Printers = {p1, p2}
  ReceiveMax = 1
  SendMax = 1
  SleepFailures = 2
  PingInterval = 20
  ReadTimeout = 30
  BrokerDeadline = 45
  CallerGap = 3
INVARIANTS SlotsHonest CacheCurrent SettingIsLatest JobCacheRight ReaderInStep IdsTellApart
  FilesSound RequestNotWasted AnswerIsOwn CameraInStep SweepSound SilenceBounded
PROPERTIES NoNewTaint
