SPECIFICATION LinksSpec
CONSTANTS
  a = a
  b = b
  c = c
  ArtistRow = {1, 2}
  TagRow = {1, 2}
  TagName = {a, b}
  TagsFirst <- TwoTagRows
  LinksFirst <- LinksAtTheCap
  MaxTags = 2
  Request <- RenameRequests
  MaxStarted = 3
INVARIANT CollisionIsWithAnother
\* Every request has its end.
CHECK_DEADLOCK FALSE
