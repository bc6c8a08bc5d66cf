SPECIFICATION FairSpec
CONSTANTS
  Chan = {c1, c2}
  MaxNest = 2
INVARIANTS TypeOK OneTimer FreedIsQuiet WakeupQueued
PROPERTY EventuallyCalled
CHECK_DEADLOCK FALSE
