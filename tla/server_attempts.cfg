\* One artist without a picture and one sweep, with no add beside it.
SPECIFICATION ArtSpec
CONSTANTS
  Mbid = {artist}
  NoRow = NoRow
  Listed = {artist}
  MaxPolls = 0
  MaxAdds = 0
  MaxBoots = 1
PROPERTIES
  EveryVisitIsRecorded
CHECK_DEADLOCK FALSE
