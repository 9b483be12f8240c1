--------------------------- MODULE PollCycleProofs ---------------------------
(***************************************************************************)
(* What PollCycle guarantees for every watchlist, pool size, length of the *)
(* history and number of ticks.                                            *)
(***************************************************************************)
EXTENDS PollCycle, TLAPS

-----------------------------------------------------------------------------
(* The ring of the history                                                 *)

\* Appending to the ring shifts it by one once it is full.
LEMMA RingAppend ==
  ASSUME ring \in Seq(Cycles), Len(ring) <= N, NEW run \in Cycles
  PROVE  LET new == Appended(run)
             n   == Len(new)
         IN  /\ new \in Seq(Cycles)
             /\ n = IF Len(ring) < N THEN Len(ring) + 1 ELSE N
             /\ \A i \in 1 .. n :
                  new[i] = IF i = n THEN run ELSE ring[i + Len(ring) + 1 - n]
<1>. DEFINE long == Append(ring, run)
<1>1. /\ long \in Seq(Cycles) /\ Len(long) = Len(ring) + 1
      /\ \A i \in 1 .. Len(long) :
           long[i] = IF i = Len(long) THEN run ELSE ring[i]
  OBVIOUS
<1>2. Len(ring) \in Nat /\ N \in Nat \ {0}
  BY PollAssumption
<1>3. Appended(run) = Newest(long)
  BY DEF Appended
<1>. HIDE DEF long
<1>4. CASE Len(ring) < N
  <2>1. Newest(long) = long
    BY <1>1, <1>2, <1>4 DEF Newest
  <2>. QED
    BY <1>1, <1>2, <1>3, <1>4, <2>1
<1>5. CASE Len(ring) = N
  <2>1. Newest(long) = SubSeq(long, 2, N + 1)
    BY <1>1, <1>2, <1>5 DEF Newest
  <2>2. /\ SubSeq(long, 2, N + 1) \in Seq(Cycles)
        /\ Len(SubSeq(long, 2, N + 1)) = N
        /\ \A i \in 1 .. N : SubSeq(long, 2, N + 1)[i] = long[i + 1]
    BY <1>1, <1>2, <1>5
  <2>. QED
    BY <1>1, <1>2, <1>3, <1>5, <2>1, <2>2
<1>. QED
  BY <1>2, <1>4, <1>5

-----------------------------------------------------------------------------
(* Types                                                                   *)

\* There are no more cycles than ticks.
Started == started <= ticks

LEMMA NoCycleType == NoCycle \in Cycles
  BY DEF NoCycle, Cycles

LEMMA NoWorkersType ==
  NoWorkers \in [Entries -> [at : {"none", "ready", "fetching", "sending", "done"},
                             result : {"none", "ok", "error", "bail"}]]
  BY DEF NoWorkers

LEMMA EmptyRing == <<>> \in Seq(Cycles) /\ Len(<<>>) = 0
  OBVIOUS

LEMMA TypeInit == Init => TypeOK /\ Started
<1>. SUFFICES ASSUME Init PROVE TypeOK /\ Started
  OBVIOUS
<1>1. ring \in Seq(Cycles) /\ Len(ring) <= N
  BY EmptyRing, PollAssumption DEF Init
<1>2. ticks \in 0 .. MaxTicks /\ started \in 0 .. MaxTicks
  BY PollAssumption DEF Init
<1>3. /\ worker = NoWorkers /\ cycle \in Cycles /\ skips \in Nat
      /\ todo \subseteq Entries /\ results \subseteq Entries /\ started <= ticks
  BY NoCycleType DEF Init
<1>4. /\ running \in BOOLEAN /\ phase \in Phases /\ (running <=> phase # "idle")
      /\ cancelled \in BOOLEAN /\ service \in {"up", "draining", "closed"}
      /\ forced \in BOOLEAN
  BY DEF Init, Phases
<1>. QED
  BY <1>1, <1>2, <1>3, <1>4, NoWorkersType DEF TypeOK, Started

LEMMA TickType ==
  ASSUME TypeOK, Started, TickStarts \/ TickSkips \/ Reboots
  PROVE  TypeOK' /\ Started'
<1>0. ticks' = ticks + 1 /\ ticks' \in 0 .. MaxTicks
  BY PollAssumption DEF TickStarts, TickSkips, Reboots, TickBound, TypeOK
<1>1. CASE TickStarts
  <2>1. started' = started + 1 /\ started' \in 0 .. MaxTicks /\ started' <= ticks'
    BY <1>0, <1>1, PollAssumption DEF TickStarts, TypeOK, Started
  <2>2. cycle' \in Cycles
    <3>1. started' \in Nat /\ cycle' = [NoCycle EXCEPT !.id = started']
      BY <1>1, <2>1, PollAssumption DEF TickStarts
    <3>. QED
      BY <3>1, NoCycleType DEF Cycles
  <2>. QED
    BY <1>0, <1>1, <2>1, <2>2 DEF TickStarts, TypeOK, Started, Phases, historyVars
<1>2. CASE TickSkips
  BY <1>0, <1>2 DEF TickSkips, TypeOK, Started, cycleVars, counters
<1>3. CASE Reboots
  <2>1. ring' \in Seq(Cycles) /\ Len(ring') <= N
    BY <1>3, EmptyRing, PollAssumption DEF Reboots
  <2>2. started' \in 0 .. MaxTicks /\ started' <= ticks'
    BY <1>0, <1>3, PollAssumption DEF Reboots
  <2>. QED
    BY <1>0, <1>3, <2>1, <2>2, NoCycleType, NoWorkersType
    DEF Reboots, TypeOK, Started, Phases
<1>. QED
  BY <1>1, <1>2, <1>3

LEMMA CycleType ==
  ASSUME TypeOK, Started, CycleStep
  PROVE  TypeOK' /\ Started'
<1>. USE DEF TypeOK, Started, Phases, historyVars, processVars, counters
<1>1. CASE Lists
  <2>1. PICK S \in SUBSET Entries :
          todo' = S /\ cycle' = [cycle EXCEPT !.listed = S]
    BY <1>1 DEF Lists
  <2>2. cycle' \in Cycles
    BY <2>1 DEF Cycles
  <2>. QED
    BY <1>1, <2>1, <2>2 DEF Lists, NoWorkers
<1>2. CASE ListFails
  <2>1. cycle' \in Cycles
    BY <1>2 DEF ListFails, Cycles
  <2>. QED
    BY <1>2, <2>1 DEF ListFails
<1>3. ASSUME NEW e \in Entries, TurnsDown(e) PROVE TypeOK' /\ Started'
  <2>1. cycle' \in Cycles
    BY <1>3 DEF TurnsDown, Cycles
  <2>. QED
    BY <1>3, <2>1 DEF TurnsDown
<1>4. ASSUME NEW e \in Entries, Dispatches(e) PROVE TypeOK' /\ Started'
  BY <1>4 DEF Dispatches
<1>5. CASE StopsDispatch
  <2>1. cycle' \in Cycles
    BY <1>5 DEF StopsDispatch, Cycles
  <2>. QED
    BY <1>5, <2>1 DEF StopsDispatch
<1>6. CASE AllDispatched
  BY <1>6 DEF AllDispatched
<1>7. CASE Joins
  <2>1. CycleErr \in {"none", "error", "cancelled"}
    BY DEF CycleErr, Cycles
  <2>2. cycle' \in Cycles
    BY <1>7, <2>1 DEF Joins, Cycles
  <2>. QED
    BY <1>7, <2>2 DEF Joins
<1>8. CASE Notifies
  <2>1. cycle' \in Cycles
    BY <1>8 DEF Notifies, Cycles
  <2>. QED
    BY <1>8, <2>1 DEF Notifies
<1>9. CASE Records
  <2>1. ring' \in Seq(Cycles) /\ Len(ring') <= N
    BY <1>9, RingAppend, PollAssumption DEF Records
  <2>. QED
    BY <1>9, <2>1 DEF Records
<1>10. CASE Releases
  BY <1>10, NoCycleType DEF Releases, NoWorkers
<1>. QED
  BY <1>1, <1>2, <1>3, <1>4, <1>5, <1>6, <1>7, <1>8, <1>9, <1>10 DEF CycleStep

LEMMA WorkerType ==
  ASSUME TypeOK, Started, NEW e \in Entries, WorkerStep(e)
  PROVE  TypeOK' /\ Started'
<1>. USE DEF TypeOK, Started, historyVars, processVars, counters
<1>1. CASE Begins(e)
  BY <1>1 DEF Begins
<1>2. CASE Finishes(e)
  BY <1>2 DEF Finishes
<1>3. CASE Delivers(e)
  BY <1>3 DEF Delivers
<1>. QED
  BY <1>1, <1>2, <1>3 DEF WorkerStep

LEMMA ProcessType ==
  ASSUME TypeOK, Started, Signal \/ Drains \/ ClosesDrained \/ ClosesForced
  PROVE  TypeOK' /\ Started'
<1>1. UNCHANGED <<cycleVars, historyVars, ticks, started>>
  BY DEF Signal, Drains, ClosesDrained, ClosesForced, counters
<1>2. /\ cancelled' \in BOOLEAN /\ forced' \in BOOLEAN
      /\ service' \in {"up", "draining", "closed"}
  BY DEF Signal, Drains, ClosesDrained, ClosesForced, counters, TypeOK
<1>. QED
  BY <1>1, <1>2 DEF TypeOK, Started, cycleVars, historyVars

LEMMA TypeStep == TypeOK /\ Started /\ [Next]_vars => TypeOK' /\ Started'
<1>. SUFFICES ASSUME TypeOK, Started, [Next]_vars PROVE TypeOK' /\ Started'
  OBVIOUS
<1>1. CASE UNCHANGED vars
  BY <1>1 DEF vars, cycleVars, historyVars, processVars, counters, TypeOK, Started
<1>. QED
  BY <1>1, TickType, CycleType, WorkerType, ProcessType DEF Next

\* Every variable keeps its type, the guard is taken exactly while a cycle is
\* under way, and the history never outgrows its ring (pollruns.go:84-90).
THEOREM TypeCorrect == Spec => []TypeOK
<1>1. Init => TypeOK /\ Started
  BY TypeInit
<1>2. TypeOK /\ Started /\ [Next]_vars => TypeOK' /\ Started'
  BY TypeStep
<1>. QED
  BY <1>1, <1>2, PTL DEF Spec

-----------------------------------------------------------------------------
(* The history.  The ring lags behind the cycles by the one under way, and *)
(* its length says how many there were, up to its capacity.                *)

Recorded == started - Unrecorded

Lag ==
  /\ phase # "idle" => cycle.id = started
  /\ Recorded \in Nat
  /\ Len(ring) = IF Recorded < N THEN Recorded ELSE N

HistoryInv == Lag /\ HistoryIsGapless

\* An empty history, before the first cycle of a process.
LEMMA FreshHistory ==
  ASSUME ring = <<>>, started = 0, phase = "idle"
  PROVE  HistoryInv
<1>0. Unrecorded = 0
  BY DEF Unrecorded
<1>1. Recorded = 0
  BY <1>0 DEF Recorded
<1>2. Len(ring) = 0 /\ N \in Nat \ {0}
  BY EmptyRing, PollAssumption
<1>. QED
  BY <1>1, <1>2 DEF HistoryInv, Lag, HistoryIsGapless

\* The history, its lag and the running cycle's number stay put.
LEMMA HistoryFrame ==
  ASSUME HistoryInv, ring' = ring, started' = started, Unrecorded' = Unrecorded,
         phase' # "idle" => phase # "idle" /\ cycle'.id = cycle.id
  PROVE  HistoryInv'
  BY DEF HistoryInv, Lag, Recorded, HistoryIsGapless

LEMMA HistoryStep ==
  ASSUME TypeOK, HistoryInv, [Next]_vars
  PROVE  HistoryInv'
<1>1. CASE UNCHANGED vars
  BY <1>1, HistoryFrame
  DEF vars, cycleVars, historyVars, counters, Unrecorded
<1>2. CASE TickStarts
  <2>1. phase = "idle" /\ phase' = "list" /\ ring' = ring /\ started' = started + 1
    BY <1>2 DEF TickStarts, TypeOK, historyVars
  <2>2. cycle'.id = started'
    BY <1>2 DEF TickStarts, NoCycle
  <2>3. Recorded' = Recorded
    BY <2>1 DEF Recorded, Unrecorded, TypeOK
  <2>. QED
    BY <2>1, <2>2, <2>3 DEF HistoryInv, Lag, Recorded, HistoryIsGapless
<1>3. CASE Records
  <2>1. /\ phase = "record" /\ phase' = "release" /\ ring' = Appended(cycle)
        /\ started' = started /\ cycle' = cycle
    BY <1>3 DEF Records, counters
  <2>2. Recorded = started - 1 /\ Recorded' = started /\ cycle.id = started
    <3>1. started \in Nat /\ Unrecorded = 1 /\ Unrecorded' = 0
      BY <2>1 DEF TypeOK, Unrecorded
    <3>. QED
      BY <2>1, <3>1 DEF Recorded, HistoryInv, Lag
  <2>3. /\ Len(ring') = IF Len(ring) < N THEN Len(ring) + 1 ELSE N
        /\ \A i \in 1 .. Len(ring') :
             ring'[i] = IF i = Len(ring') THEN cycle
                        ELSE ring[i + Len(ring) + 1 - Len(ring')]
    BY <2>1, RingAppend DEF TypeOK
  <2>4. /\ Len(ring) \in Nat /\ N \in Nat \ {0} /\ started \in Nat
        /\ Len(ring) <= N
    BY PollAssumption DEF TypeOK
  <2>5. Lag'
    BY <2>1, <2>2, <2>3, <2>4 DEF Lag, HistoryInv
  <2>6. ASSUME NEW i \in 1 .. Len(ring')
        PROVE  ring'[i].id = Recorded' - (Len(ring') - i)
    <3>1. CASE i = Len(ring')
      <4>1. ring'[i] = cycle
        BY <2>3, <3>1
      <4>. QED
        BY <2>2, <2>3, <2>4, <3>1, <4>1
    <3>2. CASE i # Len(ring')
      <4>. DEFINE k == i + Len(ring) + 1 - Len(ring')
      <4>1. k \in 1 .. Len(ring)
        BY <2>3, <2>4, <3>2
      <4>2. ring'[i] = ring[k]
        BY <2>3, <3>2
      <4>. HIDE DEF k
      <4>3. ring[k].id = Recorded - (Len(ring) - k)
        BY <4>1 DEF HistoryInv, HistoryIsGapless, Recorded
      <4>4. k = i + Len(ring) + 1 - Len(ring')
        BY DEF k
      <4>. QED
        BY <4>1, <4>2, <4>3, <4>4, <2>2, <2>3, <2>4
    <3>. QED
      BY <3>1, <3>2
  <2>. QED
    BY <2>5, <2>6 DEF HistoryInv, HistoryIsGapless, Recorded
<1>4. CASE Releases
  BY <1>4, HistoryFrame DEF Releases, historyVars, counters, Unrecorded
<1>5. CASE Reboots
  <2>1. ring' = <<>> /\ started' = 0 /\ phase' = "idle"
    BY <1>5 DEF Reboots
  <2>2. Unrecorded' = 0 /\ Recorded' = 0
    <3>1. Unrecorded' = 0
      BY <2>1 DEF Unrecorded
    <3>. QED
      BY <2>1, <3>1 DEF Recorded
  <2>3. Len(ring') = 0 /\ N \in Nat \ {0}
    BY <2>1, EmptyRing, PollAssumption
  <2>. QED
    BY <2>1, <2>2, <2>3 DEF HistoryInv, Lag, HistoryIsGapless
<1>6. CASE CycleStep /\ ~Records /\ ~Releases
  <2>1. ring' = ring /\ started' = started /\ Unrecorded' = Unrecorded
    BY <1>6
    DEF CycleStep, Lists, ListFails, TurnsDown, Dispatches, StopsDispatch,
        AllDispatched, Joins, Notifies, historyVars, counters, Unrecorded
  <2>2. phase # "idle" /\ cycle'.id = cycle.id
    BY <1>6
    DEF CycleStep, Lists, ListFails, TurnsDown, Dispatches, StopsDispatch,
        AllDispatched, Joins, Notifies, TypeOK, Cycles
  <2>. QED
    BY <2>1, <2>2, HistoryFrame
<1>7. CASE \/ TickSkips \/ Signal \/ Drains \/ ClosesDrained \/ ClosesForced
           \/ \E e \in Entries : WorkerStep(e)
  <2>1. ring' = ring /\ started' = started /\ phase' = phase /\ cycle' = cycle
    BY <1>7
    DEF TickSkips, Signal, Drains, ClosesDrained, ClosesForced, WorkerStep,
        Begins, Finishes, Delivers, cycleVars, historyVars, counters
  <2>. QED
    BY <2>1, HistoryFrame DEF Unrecorded
<1>. QED
  BY <1>1, <1>2, <1>3, <1>4, <1>5, <1>6, <1>7 DEF Next

\* Every cycle that took the guard has one entry in the history, in order and
\* without a gap, and the ring is the newest of them (poller.go:380-413,
\* pollruns.go:79-93).
THEOREM HistoryCorrect == Spec => []HistoryIsTheNewest
<1>1. Init => HistoryInv
  BY FreshHistory DEF Init
<1>2. TypeOK /\ HistoryInv /\ [Next]_vars => HistoryInv'
  BY HistoryStep
<1>3. TypeOK /\ HistoryInv => HistoryIsTheNewest
  BY PollAssumption
  DEF HistoryInv, Lag, Recorded, HistoryIsTheNewest, HistoryIsFull, TypeOK
<1>. QED
  BY <1>1, <1>2, <1>3, TypeCorrect, PTL DEF Spec

-----------------------------------------------------------------------------
(* The outcome.  Until the join, an artist of the watchlist is still to be *)
(* looked at, was turned down, or has a worker; a worker that bailed leaves *)
(* a cancelled context behind, which the join sees.                        *)

Placed == {e \in Entries : worker[e].at # "none"}

WorkInv ==
  /\ phase = "idle" => worker = NoWorkers
  /\ phase = "list" => cycle.turnedDown = {}
  /\ cycle.errored \subseteq cycle.checked
  /\ \A e \in Entries : worker[e].result = "bail" => cancelled

FanOut ==
  phase \in {"dispatch", "join"} =>
    /\ cycle.listed = todo \cup cycle.turnedDown \cup Placed
    /\ todo \cap Placed = {}
    /\ results = {e \in Entries : worker[e].at = "done"}
    /\ phase = "join" /\ cycle.err = "none" => todo = {}

Outcome ==
  /\ phase \in {"notify", "record", "release"} /\ cycle.err = "none"
       => Complete(cycle)
  /\ phase = "notify" => cycle.err = "none"
  /\ cycle.notified => cycle.err = "none" /\ phase \in {"record", "release"}
  /\ \A i \in 1 .. Len(ring) : ring[i].err = "none" => Complete(ring[i])

OutcomeInv == WorkInv /\ FanOut /\ Outcome

LEMMA FreshOutcome ==
  ASSUME ring = <<>>, phase = "idle", worker = NoWorkers, cycle = NoCycle
  PROVE  OutcomeInv
<1>1. Len(ring) = 0
  BY EmptyRing
<1>2. Outcome
  BY <1>1 DEF Outcome, NoCycle
<1>. QED
  BY <1>2 DEF OutcomeInv, WorkInv, FanOut, NoWorkers, NoCycle

\* Nothing that the outcome depends on moves, except that the context may be
\* cancelled.
LEMMA OutcomeFrame ==
  ASSUME OutcomeInv, UNCHANGED <<phase, todo, worker, results, cycle, ring>>,
         cancelled => cancelled'
  PROVE  OutcomeInv'
  BY DEF OutcomeInv, WorkInv, FanOut, Outcome, Placed, Complete

LEMMA WorkerOutcome ==
  ASSUME TypeOK, OutcomeInv, NEW e \in Entries, WorkerStep(e)
  PROVE  OutcomeInv'
<1>1. UNCHANGED <<phase, todo, cycle, ring, cancelled>>
  BY DEF WorkerStep, Begins, Finishes, Delivers, historyVars, processVars
<1>2. worker[e].at \in {"ready", "fetching", "sending"}
  BY DEF WorkerStep, Begins, Finishes, Delivers
<1>3. Outcome'
  BY <1>1 DEF OutcomeInv, Outcome, Complete
<1>4. phase # "idle"
  BY <1>2 DEF OutcomeInv, WorkInv, NoWorkers
<1>5. /\ worker'[e].at # "none" /\ (worker'[e].result = "bail" => cancelled)
      /\ \/ results' = results /\ worker'[e].at # "done"
         \/ results' = results \cup {e} /\ worker'[e].at = "done"
  <2>1. CASE Begins(e)
    BY <2>1 DEF Begins, TypeOK
  <2>2. CASE Finishes(e)
    BY <2>2 DEF Finishes, TypeOK
  <2>3. CASE Delivers(e)
    <3>1. worker'[e].at = "done" /\ worker'[e].result = worker[e].result
      BY <2>3 DEF Delivers, TypeOK
    <3>2. results' = results \cup {e}
      BY <2>3 DEF Delivers
    <3>. QED
      BY <3>1, <3>2 DEF OutcomeInv, WorkInv
  <2>. QED
    BY <2>1, <2>2, <2>3 DEF WorkerStep
<1>6. \A f \in Entries : f # e => worker'[f] = worker[f]
  BY DEF WorkerStep, Begins, Finishes, Delivers, TypeOK
<1>7. Placed' = Placed
  BY <1>2, <1>5, <1>6 DEF Placed
<1>8. WorkInv'
  BY <1>1, <1>4, <1>5, <1>6 DEF OutcomeInv, WorkInv
<1>9. phase \in {"dispatch", "join"} =>
        results' = {f \in Entries : worker'[f].at = "done"}
  BY <1>2, <1>5, <1>6 DEF OutcomeInv, FanOut
<1>10. FanOut'
  BY <1>1, <1>7, <1>9 DEF OutcomeInv, FanOut
<1>. QED
  BY <1>3, <1>8, <1>10 DEF OutcomeInv

LEMMA DispatchOutcome ==
  ASSUME TypeOK, OutcomeInv,
         \/ Lists \/ ListFails \/ StopsDispatch \/ AllDispatched
         \/ \E e \in Entries : TurnsDown(e) \/ Dispatches(e)
  PROVE  OutcomeInv'
<1>. USE DEF historyVars, processVars
<1>1. CASE Lists
  <2>1. PICK S \in SUBSET Entries :
          todo' = S /\ cycle' = [cycle EXCEPT !.listed = S]
    BY <1>1 DEF Lists
  <2>2. /\ phase = "list" /\ phase' = "dispatch" /\ worker' = NoWorkers
        /\ results' = {} /\ ring' = ring
    BY <1>1 DEF Lists
  <2>3. /\ cycle'.listed = S /\ cycle'.err = cycle.err
        /\ cycle'.errored = cycle.errored /\ cycle'.checked = cycle.checked
        /\ cycle'.turnedDown = cycle.turnedDown /\ cycle'.notified = cycle.notified
    BY <2>1 DEF TypeOK, Cycles
  <2>4. /\ cycle.turnedDown = {} /\ ~cycle.notified
    BY <2>2 DEF OutcomeInv, WorkInv, Outcome
  <2>5. Placed' = {} /\ \A e \in Entries : worker'[e].at = "none"
                                        /\ worker'[e].result = "none"
    BY <2>2 DEF Placed, NoWorkers
  <2>6. FanOut'
    BY <2>1, <2>2, <2>3, <2>4, <2>5 DEF FanOut
  <2>. QED
    BY <2>2, <2>3, <2>4, <2>5, <2>6 DEF OutcomeInv, WorkInv, Outcome, Complete
<1>2. CASE ListFails
  <2>1. /\ phase = "list" /\ phase' = "record"
        /\ UNCHANGED <<worker, ring, cancelled>>
    BY <1>2 DEF ListFails
  <2>2. /\ cycle'.err # "none" /\ cycle'.notified = cycle.notified
        /\ cycle'.errored = cycle.errored /\ cycle'.checked = cycle.checked
    BY <1>2 DEF ListFails, TypeOK, Cycles
  <2>. QED
    BY <2>1, <2>2 DEF OutcomeInv, WorkInv, FanOut, Outcome, Complete
<1>3. CASE StopsDispatch
  <2>1. /\ phase = "dispatch" /\ phase' = "join"
        /\ UNCHANGED <<todo, worker, results, ring, cancelled>>
    BY <1>3 DEF StopsDispatch
  <2>2. /\ cycle' = [cycle EXCEPT !.err = "cancelled"] /\ cycle'.err # "none"
        /\ cycle'.listed = cycle.listed /\ cycle'.turnedDown = cycle.turnedDown
        /\ cycle'.errored = cycle.errored /\ cycle'.checked = cycle.checked
        /\ cycle'.notified = cycle.notified
    BY <1>3 DEF StopsDispatch, TypeOK, Cycles
  <2>. QED
    BY <2>1, <2>2 DEF OutcomeInv, WorkInv, FanOut, Outcome, Placed, Complete
<1>4. CASE AllDispatched
  <2>1. /\ phase = "dispatch" /\ phase' = "join" /\ todo = {}
        /\ UNCHANGED <<todo, worker, results, cycle, ring, cancelled>>
    BY <1>4 DEF AllDispatched
  <2>. QED
    BY <2>1 DEF OutcomeInv, WorkInv, FanOut, Outcome, Placed, Complete
<1>5. ASSUME NEW e \in Entries, TurnsDown(e) PROVE OutcomeInv'
  <2>1. /\ phase = "dispatch" /\ e \in todo /\ todo' = todo \ {e}
        /\ UNCHANGED <<phase, worker, results, ring, cancelled>>
    BY <1>5 DEF TurnsDown
  <2>2. /\ cycle'.turnedDown = cycle.turnedDown \cup {e}
        /\ cycle'.listed = cycle.listed /\ cycle'.err = cycle.err
        /\ cycle'.errored = cycle.errored /\ cycle'.checked = cycle.checked
        /\ cycle'.notified = cycle.notified
    BY <1>5 DEF TurnsDown, TypeOK, Cycles
  <2>. QED
    BY <2>1, <2>2 DEF OutcomeInv, WorkInv, FanOut, Outcome, Placed, Complete
<1>6. ASSUME NEW e \in Entries, Dispatches(e) PROVE OutcomeInv'
  <2>1. /\ phase = "dispatch" /\ e \in todo /\ todo' = todo \ {e}
        /\ UNCHANGED <<phase, cycle, results, ring, cancelled>>
    BY <1>6 DEF Dispatches
  <2>2. /\ worker'[e].at = "ready" /\ worker'[e].result = worker[e].result
        /\ \A f \in Entries : f # e => worker'[f] = worker[f]
    BY <1>6 DEF Dispatches, TypeOK
  <2>3. Placed' = Placed \cup {e}
    BY <2>2 DEF Placed
  <2>4. worker[e].at # "done"
    BY <2>1 DEF OutcomeInv, FanOut, Placed
  <2>. QED
    BY <2>1, <2>2, <2>3, <2>4 DEF OutcomeInv, WorkInv, FanOut, Outcome, Complete
<1>. QED
  BY <1>1, <1>2, <1>3, <1>4, <1>5, <1>6

\* wg.Wait returned: every worker placed has delivered.  With no error, and no
\* cancellation now, every artist was dispatched or turned down and nobody
\* bailed.
LEMMA JoinOutcome ==
  ASSUME TypeOK, OutcomeInv, Joins
  PROVE  OutcomeInv'
<1>1. /\ phase = "join" /\ Busy = {}
      /\ phase' = IF CycleErr = "none" THEN "notify" ELSE "record"
      /\ UNCHANGED <<todo, worker, results, ring, cancelled>>
  BY DEF Joins, historyVars, processVars
<1>2. /\ cycle'.checked = {e \in results : worker[e].result # "bail"}
      /\ cycle'.errored = {e \in results : worker[e].result = "error"}
      /\ cycle'.err = CycleErr /\ cycle'.listed = cycle.listed
      /\ cycle'.turnedDown = cycle.turnedDown /\ cycle'.notified = cycle.notified
  BY DEF Joins, TypeOK, Cycles
<1>3. results = Placed
  BY <1>1 DEF OutcomeInv, FanOut, Placed, Busy, TypeOK
<1>4. ASSUME CycleErr = "none" PROVE Complete(cycle)'
  <2>1. cycle.err = "none" /\ ~cancelled
    BY <1>4 DEF CycleErr
  <2>2. cycle.listed = cycle.turnedDown \cup Placed
    BY <1>1, <2>1 DEF OutcomeInv, FanOut
  <2>3. cycle'.checked = Placed
    BY <1>2, <1>3, <2>1 DEF OutcomeInv, WorkInv, Placed
  <2>. QED
    BY <1>2, <2>2, <2>3 DEF Complete
<1>5. ~cycle.notified
  BY <1>1 DEF OutcomeInv, Outcome
<1>. QED
  BY <1>1, <1>2, <1>4, <1>5 DEF OutcomeInv, WorkInv, FanOut, Outcome, Complete

LEMMA ClosingOutcome ==
  ASSUME TypeOK, OutcomeInv, Notifies \/ Records \/ Releases
  PROVE  OutcomeInv'
<1>1. CASE Notifies
  <2>1. /\ phase = "notify" /\ phase' = "record"
        /\ UNCHANGED <<worker, ring, cancelled>>
    BY <1>1 DEF Notifies, historyVars, processVars
  <2>2. /\ cycle'.checked = cycle.checked /\ cycle'.errored = cycle.errored
        /\ cycle'.err = cycle.err /\ cycle'.listed = cycle.listed
        /\ cycle'.turnedDown = cycle.turnedDown
    BY <1>1 DEF Notifies, TypeOK, Cycles
  <2>. QED
    BY <2>1, <2>2 DEF OutcomeInv, WorkInv, FanOut, Outcome, Complete
<1>2. CASE Records
  <2>1. /\ phase = "record" /\ phase' = "release" /\ ring' = Appended(cycle)
        /\ UNCHANGED <<worker, cycle, cancelled>>
    BY <1>2 DEF Records, processVars
  <2>2. ASSUME NEW i \in 1 .. Len(ring'), ring'[i].err = "none"
        PROVE  Complete(ring'[i])
    <3>1. CASE ring'[i] = cycle
      BY <2>1, <2>2, <3>1 DEF OutcomeInv, Outcome
    <3>2. CASE ring'[i] # cycle
      <4>. DEFINE k == i + Len(ring) + 1 - Len(ring')
      <4>1. /\ Len(ring') = IF Len(ring) < N THEN Len(ring) + 1 ELSE N
            /\ i # Len(ring') /\ ring'[i] = ring[k]
        BY <2>1, <3>2, RingAppend DEF TypeOK
      <4>2. k \in 1 .. Len(ring)
        BY <4>1, PollAssumption DEF TypeOK
      <4>. QED
        BY <2>2, <4>1, <4>2 DEF OutcomeInv, Outcome
    <3>. QED
      BY <3>1, <3>2
  <2>. QED
    BY <2>1, <2>2 DEF OutcomeInv, WorkInv, FanOut, Outcome, Complete
<1>3. CASE Releases
  <2>1. /\ phase' = "idle" /\ worker' = NoWorkers /\ cycle' = NoCycle
        /\ ring' = ring
    BY <1>3 DEF Releases, historyVars
  <2>. QED
    BY <2>1
    DEF OutcomeInv, WorkInv, FanOut, Outcome, Complete, NoCycle, NoWorkers
<1>. QED
  BY <1>1, <1>2, <1>3

LEMMA OutcomeStep ==
  ASSUME TypeOK, OutcomeInv, [Next]_vars
  PROVE  OutcomeInv'
<1>1. CASE UNCHANGED vars
  BY <1>1, OutcomeFrame DEF vars, cycleVars, historyVars, processVars
<1>2. CASE TickStarts
  <2>1. /\ phase = "idle" /\ phase' = "list"
        /\ UNCHANGED <<worker, ring, cancelled>>
    BY <1>2 DEF TickStarts, TypeOK, historyVars
  <2>2. /\ cycle'.turnedDown = {} /\ cycle'.errored = {} /\ cycle'.checked = {}
        /\ cycle'.notified = FALSE
    BY <1>2 DEF TickStarts, NoCycle
  <2>. QED
    BY <2>1, <2>2 DEF OutcomeInv, WorkInv, FanOut, Outcome, Complete
<1>3. CASE TickSkips \/ Signal \/ Drains \/ ClosesDrained \/ ClosesForced
  BY <1>3, OutcomeFrame
  DEF TickSkips, Signal, Drains, ClosesDrained, ClosesForced, cycleVars, historyVars
<1>4. CASE Reboots
  <2>1. ring' = <<>> /\ phase' = "idle" /\ worker' = NoWorkers /\ cycle' = NoCycle
    BY <1>4 DEF Reboots
  <2>2. Len(ring') = 0
    BY <2>1, EmptyRing
  <2>. QED
    BY <2>1, <2>2
    DEF OutcomeInv, WorkInv, FanOut, Outcome, NoWorkers, NoCycle
<1>5. CASE CycleStep
  BY <1>5, DispatchOutcome, JoinOutcome, ClosingOutcome DEF CycleStep
<1>6. ASSUME NEW e \in Entries, WorkerStep(e) PROVE OutcomeInv'
  BY <1>6, WorkerOutcome
<1>. QED
  BY <1>1, <1>2, <1>3, <1>4, <1>5, <1>6 DEF Next

LEMMA OutcomeInitially == Init => OutcomeInv
  BY FreshOutcome DEF Init

LEMMA OutcomeCorrect == Spec => []OutcomeInv
<1>1. Init => OutcomeInv
  BY OutcomeInitially
<1>2. TypeOK /\ OutcomeInv /\ [Next]_vars => OutcomeInv'
  BY OutcomeStep
<1>. QED
  BY <1>1, <1>2, TypeCorrect, PTL DEF Spec

\* A cycle that the history shows as ok, or that reached the notifier, looked
\* at every artist of the watchlist, however the cancellation fell between the
\* dispatch loop, the workers and the join (poller.go:475-491).
THEOREM OutcomeIsHonest == Spec => []HonestOutcome
<1>1. OutcomeInv => HonestOutcome
  BY DEF OutcomeInv, Outcome, HonestOutcome
<1>. QED
  BY <1>1, OutcomeCorrect, PTL

-----------------------------------------------------------------------------
(* Shutdown                                                                *)

ClosedIsIdle == service = "closed" /\ ~forced => ~running

LEMMA ClosedStep ==
  ASSUME TypeOK, OutcomeInv, ClosedIsIdle, [Next]_vars
  PROVE  /\ ClosedIsIdle'
         /\ service = "closed" /\ service' = "closed" /\ ~forced
              => UNCHANGED cycleVars
<1>1. CASE UNCHANGED vars
  BY <1>1 DEF vars, cycleVars, processVars, counters, ClosedIsIdle
<1>2. CASE CycleStep \/ \E e \in Entries : WorkerStep(e)
  <2>1. phase # "idle"
    BY <1>2
    DEF CycleStep, Lists, ListFails, TurnsDown, Dispatches, StopsDispatch,
        AllDispatched, Joins, Notifies, Records, Releases, WorkerStep, Begins,
        Finishes, Delivers, OutcomeInv, WorkInv, NoWorkers
  <2>2. service' = service /\ forced' = forced
    BY <1>2
    DEF CycleStep, Lists, ListFails, TurnsDown, Dispatches, StopsDispatch,
        AllDispatched, Joins, Notifies, Records, Releases, WorkerStep, Begins,
        Finishes, Delivers, processVars, counters
  <2>. QED
    BY <2>1, <2>2 DEF ClosedIsIdle, TypeOK
<1>3. CASE TickStarts \/ TickSkips \/ Signal \/ Drains \/ Reboots
  BY <1>3
  DEF TickStarts, TickSkips, Signal, Drains, Reboots, ClosedIsIdle, cycleVars
<1>4. CASE ClosesDrained \/ ClosesForced
  BY <1>4
  DEF ClosesDrained, ClosesForced, Drained, ClosedIsIdle, cycleVars, counters
<1>. QED
  BY <1>1, <1>2, <1>3, <1>4 DEF Next

\* After a drain that met no deadline, nothing of the poller runs while the
\* pool is closed (main.go:357-370).
THEOREM ClosedStaysQuiet == Spec => QuietOnceClosed
<1>1. Init => ClosedIsIdle
  BY DEF Init, ClosedIsIdle
<1>2. TypeOK /\ OutcomeInv /\ ClosedIsIdle /\ [Next]_vars => ClosedIsIdle'
  BY ClosedStep
<1>3. TypeOK /\ OutcomeInv /\ ClosedIsIdle /\ [Next]_vars
        => [service = "closed" /\ service' = "closed" /\ ~forced
              => UNCHANGED cycleVars]_vars
  BY ClosedStep
<1>. QED
  BY <1>1, <1>2, <1>3, TypeCorrect, OutcomeCorrect, PTL DEF Spec, QuietOnceClosed
=============================================================================
