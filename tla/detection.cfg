\* Two artists who share an album; two songs, one of them old.
CONSTANTS
  f1 = f1
  f2 = f2
  g1 = g1
  g2 = g2
  s1 = s1
  s2 = s2
  std = std
  dlx = dlx
  nobody = nobody
  Nobody <- nobody
  Feeds <- Artists
  Groups <- OneAlbum
  Songs <- TwoSongs
  Editions <- TwoEditions
  Discography <- Joint
  Appearances <- Solo
  Filtered <- None
  Old <- OldSong
  Ancient <- None
  Preferences <- MuteOrNot
  LookupCap = 1
  MaxTracks = 2
  MaxFaults = 1
SPECIFICATION Spec
INVARIANTS TypeOK QueuedIsNews NoGrowthTwice NoGrowthForgotten
PROPERTIES RowsAreWriteOnce
