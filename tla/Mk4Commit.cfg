SPECIFICATION FairSpec
CONSTANTS
  MaxMount = 2
  MaxChange = 3
  MaxWriter = 1
INVARIANTS TypeOK OneTimerPerDb ClosedIsQuiet PlainMountIsArmed
 
