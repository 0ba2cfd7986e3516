CONSTANTS
  MAX = 3
  MAX_MORSE = 2
  INPUT = 1
  COMPOSE = 1
SPECIFICATION KSpec
INVARIANTS
  ComposedAsKeyed
  TimerFitsLetter
