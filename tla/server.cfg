\* A winter, a summer and a winter again in days of twelve units, the clocks put
\* forward on a Friday and back on a Sunday; messages of five units, and rows that
\* fit with a heading, without one, or not at all.  Each part ends: the year, the
\* lists of rows, the adds and sweeps, and the ticks are bounds of the model.
SPECIFICATION ServerSpec
CONSTANTS
  x = x
  y = y
  e1 = e1
  e2 = e2
  e3 = e3
  e4 = e4
  DayLength = 12
  SlotTime = 1
  Forward = 63
  Back = 171
  Shift = 2
  SlotWeekday = 5
  LastInstant = 316
  GraceDaily = 6
  GraceWeekly = 24
  Headings <- TwoHeadings
  Row = {1, 2, 3, 4, 5}
  Width = {1, 2, 4, 6}
  Budget = 5
  Reserve = 5
  HeadingWidth = 1
  ContinuedWidth = 2
  NoteWidth = 1
  WindowWidth = 1
  IndicatorWidth = 1
  MarkerWidth = 1
  MaxDigestChunks = 2
  Mbid = {x, y}
  NoRow = NoRow
  Listed = {x}
  MaxPolls = 1
  MaxAdds = 2
  MaxBoots = 2
  Entries <- FourArtists
  Skippable <- NoDeezerId
  Workers = 2
  N = 1
  MaxTicks = 3
SYMMETRY Dispatched
INVARIANTS
  SlotIsTheLatest
  DigestIsWhole
  ArtHolds
  TypeOK
  HonestOutcome
  HistoryIsTheNewest
PROPERTIES
  QuietOnceClosed
CHECK_DEADLOCK FALSE
