CONSTANTS
  Hosts <- HostsMC
  Lines <- LinesMC
  Others <- OthersMC
  Peers <- PeersMC
  Arguments <- ArgumentsMC
  Suffixes <- SuffixesMC
  SEQ_MOD = 2
  SEEN_CAPACITY = 4
  DEFAULT_TTL = 3
  RECV_QUEUE = 1
  MAX_CONSECUTIVE_RECV_ERRORS = 2
  MaxLives = 2
  MaxActivity = 4

SPECIFICATION Spec

INVARIANTS
  NothingReadIsLost
  GivesUpOnDeadSocket
  KeyReusedOnlyAfterRound
  OfferedOnce
  NameBringsItBack

PROPERTY SessionDrains

CHECK_DEADLOCK FALSE
