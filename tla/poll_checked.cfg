\* What a comment of pollruns says of ArtistsChecked, against the code.
SPECIFICATION Spec
CONSTANTS
  a = a
  b = b
  d = d
  Entries <- ThreeArtists
  Skippable <- NoDeezerId
  Workers = 1
  N = 1
  MaxTicks = 2
INVARIANTS
  CheckedIsDispatched
CHECK_DEADLOCK FALSE
