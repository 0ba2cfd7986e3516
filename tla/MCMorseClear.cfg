CONSTANTS
  MAX = 2
  MAX_MORSE = 2
  INPUT = 1
  COMPOSE = 1
SPECIFICATION KSpec
INVARIANTS
  ClearDiscardsAll
