CONSTANTS
  o1 = o1
  o2 = o2
  r1 = r1
  r2 = r2
  NoFrame = NoFrame
  Frames <- FramesMC
  OwnFrames <- OneOwn
  RelayFrames <- TwoRelays
  OWN_DWELLS = 3
  RELAY_QUEUE = 2
  SEND_QUEUE = 2
  Platforms = {"linux", "macos", "windows"}
  MaxFailures = 2

SPECIFICATION FairASpec

INVARIANTS
  BeliefIsTrue
  OneAdvertisement

PROPERTIES
  OwnGetsOnAir
  SenderIsReleased
