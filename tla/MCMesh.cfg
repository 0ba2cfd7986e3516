CONSTANTS
  a = a
  b = b
  c = c
  d = d
  Nodes <- NodesMC
  Everyone = Everyone
  Links <- LinksMC
  Messages <- TwoMessages
  SEEN_CAPACITY = 2
  DEFAULT_TTL = 3
  MaxRestarts = 1
  CountCap = 2

SPECIFICATION FSpec

INVARIANTS
  AtMostOnce
  ShownToTheRightUser
  HopBudget

PROPERTY FloodReaches

CHECK_DEADLOCK FALSE
