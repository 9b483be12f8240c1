\* Two artists to dispatch on one worker, so that the dispatch loop waits for a
\* slot, and one to skip.  No symmetry: the run checks liveness.
SPECIFICATION LiveSpec
CONSTANTS
  a = a
  b = b
  d = d
  Entries <- ThreeArtists
  Skippable <- NoDeezerId
  Workers = 1
  N = 1
  MaxTicks = 2
  Null = Null
  t1 = t1
  t2 = t2
  stale = stale
  f1 = f1
  nobody = nobody
  g1 = g1
  g2 = g2
  s1 = s1
  s2 = s2
  std = std
  digester = digester
  Tag = {t1, t2}
  Name = {a, b}
  InitialTags <- OneTag
  MaxWrites = 2
  MaxGen = 2
  Event = {1, 2, 3}
  DateOf <- Dates
  KindOf <- KindsOfEvents
  StoredFirst = {1, 2}
  FilterFirst = stale
  StaleKind = stale
  PageSize = 1
  MaxVisits = 3
  MaxMore = 2
  MaxFetches = 2
  MaxSaves = 2
  MaxMounts = 2
PROPERTIES
  GuardIsGivenBack
  EverythingIsRecorded
  RealTimeDrains
  DueDigestCompletes
  WebSettles
CHECK_DEADLOCK FALSE
