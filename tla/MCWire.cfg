CONSTANTS
  Typed <- TypedMC
  Foreign <- ForeignMC
  Received <- ReceivedMC
  Host <- H
  SEEN_CAPACITY = 2
  MaxIngests = 3
  Me <- H
  Senders <- SendersMC
  All <- NoDest
  OnAir <- OnAirMC
  Junk = {8, 9}
  feedLimit = 2
  MaxEvents = 5

SPECIFICATION Spec

INVARIANTS
  ArrivesAsSent
  CodecNeverPanics
  ReachMatchesVersion
  WalkFindsTheFrame
  EngineIsRouter
  FlatActionIsWhole
  MonitorSettles
  FeedIsNewest

CHECK_DEADLOCK FALSE
