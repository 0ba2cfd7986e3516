------------------------------ MODULE MCMorse ------------------------------
EXTENDS MorseKeying
============================================================================
