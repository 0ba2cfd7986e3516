CONSTANTS
  node = node
  buddy = buddy
  stranger = stranger
  Local = node
  Buddy = buddy
  Strangers = {stranger}
  Everyone = Everyone
  NoFrame = NoFrame
  Noise = Noise
  Frames <- FramesMC
  Incoming <- IncomingMC
  Boards = {"microbit", "morse"}
  OWN_DWELLS = 2
  RELAY_QUEUE = 1
  RX_FRAMES = 2
  OUTGOING = 1
  REQUESTS = 1
  DISPLAY_MSGS = 2
  GLYPHS = 1
  CHIMES = 1
  SIDETONE = 1
  SEQ_MOD = 2
  SEEN_CAPACITY = 2
  DEFAULT_TTL = 2
  MaxFailures = 1
  MaxActivity = 3
SPECIFICATION BSpec
INVARIANTS
  BoardBeliefIsTrue
  DisplayKeepsLatest
  TelegramHasChime
  RequestsBecomeMessages
PROPERTY PressGetsOnAir
CHECK_DEADLOCK FALSE
