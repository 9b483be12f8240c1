SPECIFICATION SystemSpec
CONSTANTS
  Null = Null
  MaxFetches = 2
  MaxSaves = 1
  MaxMounts = 1
INVARIANT CardNeverDriftsStale
CHECK_DEADLOCK FALSE
