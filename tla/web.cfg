SPECIFICATION WebSpec
CONSTANTS
  Null = Null
  a = a
  b = b
  c = c
  t1 = t1
  t2 = t2
  t3 = t3
  x = x
  y = y
  chip = chip
  stale = stale
  album = album
  Tag = {t1, t2, t3}
  Name = {a, b, c}
  InitialTags <- TwoTags
  MaxWrites = 2
  MaxGen = 2
  Artist = {x, y}
  Chip = {chip}
  Axis = {"release", "mute", "note"}
  RowId = {1, 2, 3}
  WatchedFirst = {x}
  MaxRowWrites = 3
  MaxLists = 2
  Id = {1, 2}
  Type = {album}
  CarryFirst = {1}
  HaveFirst <- HaveTheFirst
  MaxChanges = 2
  TagId = {1, 2}
  Query = {a}
  Card = {x}
  FirstTags = {1}
  CarriedFirst = {1}
  MaxEntries = 3
  MaxLandings = 4
  Text = {a, b}
  MaxSearches = 3
  Event = {1, 2, 3, 4}
  DateOf <- Dates
  KindOf <- KindsOfEvents
  StoredFirst = {1, 2, 3}
  FilterFirst = stale
  StaleKind = stale
  PageSize = 1
  MaxVisits = 3
  MaxMore = 2
  MaxFetches = 3
  MaxSaves = 3
  MaxMounts = 2
  Window = 3
  RenewAfter = 2
  Cap = 5
  MaxTime = 7
  MaxCalls = 2
  ArtistRow = {1, 2}
  TagRow = {1, 2, 3, 4}
  TagName = {a, b, c}
  TagsFirst <- TwoTagRows
  LinksFirst <- LinksAtTheCap
  MaxTags = 2
  Request <- TagRequests
  MaxStarted = 3
INVARIANTS
  WebTypeOK
  LoadingIsAwaited
  VocabularyIsCurrent
  RowsAreCurrent
  ControlsAreAwaited
  FiltersHold
  SearchIsCurrent
  FeedIsFaithful
  OneRequestAtATime
  SwitchIsCurrent
  AskedForAReason
  SessionLifetime
  CapHolds
  AbortsAreExcused
PROPERTIES
  BulkIsAsShown
  CommitsAreWhole
CHECK_DEADLOCK FALSE
