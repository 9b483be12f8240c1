SPECIFICATION RowsSpec
CONSTANTS
  Null = Null
  Artist = {x, y}
  Chip = {t}
  Axis = {"release"}
  RowId = {1, 2, 3}
  WatchedFirst = {x}
  MaxRowWrites = 2
  MaxLists = 3
INVARIANT AddedArtistAppears
CHECK_DEADLOCK FALSE
