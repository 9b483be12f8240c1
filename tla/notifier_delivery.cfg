\* Two poll cycles and the digest over four rows, one of them stale; the two
\* daily slots, the first also weekly, at most two messages per digest run, one
\* failure or shutdown.
CONSTANTS
  Poller1 = mb
  Poller2 = dz
  Digester = digest
  Pollers <- TwoPollers
  Events <- FourEvents
  Stale <- LastIsStale
  MaxChunks = 2
  MaxFaults = 1
  DailySlots <- TwoDaily
  WeeklySlots <- FirstOnly
  GraceDaily = 0
  GraceWeekly = 1
  Horizon = 1
SPECIFICATION Spec
INVARIANTS TypeOK SingleSender AckedWasAnnounced DuplicatesAreExcused OneRealTimeLeak
PROPERTIES CompletionMeansDrained ImplementsOutbox
