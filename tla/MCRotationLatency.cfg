CONSTANTS
  f1 = f1
  f2 = f2
  f3 = f3
  NoFrame = NoFrame
  Frames <- FramesMC
  OWN_DWELLS = 4
  RELAY_QUEUE = 3

SPECIFICATION BSpec

INVARIANT DocumentedRelayLatency
