\* Two artists on one song, and one lookup per cycle.
CONSTANTS
  f1 = f1
  f2 = f2
  g1 = g1
  g2 = g2
  s1 = s1
  s2 = s2
  std = std
  dlx = dlx
  nobody = nobody
  Nobody <- nobody
  Feeds <- Artists
  Groups <- OneAlbum
  Songs <- TwoSongs
  Editions <- OneEdition
  Discography <- NoReleases
  Appearances <- JointSong
  Filtered <- None
  Old <- None
  Ancient <- None
  Preferences <- AllOfBoth
  LookupCap = 1
  MaxTracks = 1
  MaxFaults = 0
SPECIFICATION FairSpec
PROPERTIES EverythingIsRecorded
