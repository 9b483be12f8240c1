\* A weekly digest running late, a cadence change while it is in flight.
CONSTANTS
  Poller1 = mb
  Poller2 = dz
  Digester = digest
  Pollers <- OnePoller
  Events <- OneEvent
  Stale <- NoneStale
  MaxChunks = 1
  MaxFaults = 0
  DailySlots <- FourDaily
  WeeklySlots <- HalfDayWeekly
  GraceDaily = 0
  GraceWeekly = 2
  Horizon = 6
SPECIFICATION AnchorSpec
PROPERTIES NoImmediateDigest
