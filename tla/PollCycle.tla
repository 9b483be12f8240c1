------------------------------ MODULE PollCycle ------------------------------
(***************************************************************************)
(* One source of internal/poller: cron ticks that overlap, the guard that  *)
(* skips them, the dispatch loop and its bounded workers, the fold, the    *)
(* run history of internal/pollruns, and the drain that main.go runs       *)
(* before it closes the pool.                                              *)
(*                                                                         *)
(* A counter of the code (artistsChecked, ...) is here the set of entries  *)
(* it counts.                                                              *)
(***************************************************************************)
EXTENDS Integers, Sequences, FiniteSets

CONSTANTS
  Entries,     \* artists the operator may have on the watchlist
  Skippable,   \* those shouldDispatch turns down (no deezer_id)
  Workers,     \* size of the semaphore
  N,           \* pollruns.N, runs the ring keeps
  MaxTicks     \* bound: cron ticks and restarts

ASSUME PollAssumption ==
  /\ Skippable \subseteq Entries /\ IsFiniteSet(Entries)
  /\ Workers \in Nat \ {0} /\ N \in Nat \ {0} /\ MaxTicks \in Nat

VARIABLES
  running,    \* mbRunning or dzRunning
  phase,      \* where the one cycle behind the guard is
  todo,       \* entries the dispatch loop has not looked at
  worker,     \* what the goroutine of an entry is doing
  results,    \* resultCh: entries whose result is in the channel
  cycle,      \* locals of the cycle
  cancelled,  \* runCtx is done
  service,    \* the process: up, draining, closed (the pool is closed)
  ring,       \* pollruns: the kept runs, newest last
  skips,      \* pollruns: consecutiveSkips
  ticks,      \* cron ticks and restarts so far, bounded by MaxTicks
  started,    \* cycles that took the guard in this process; the next cycle_id
  forced      \* observed: the drain ran into its deadline

cycleVars   == <<running, phase, todo, worker, results, cycle>>
historyVars == <<ring, skips>>
processVars == <<cancelled, service, ticks>>
counters    == <<started, forced>>
vars        == <<cycleVars, historyVars, processVars, counters>>

\* err is cycleErr; checked, errored and turnedDown are what the fold and the
\* dispatch loop count; notified says that NotifyPending was reached.
NoCycle ==
  [id |-> 0, listed |-> {}, err |-> "none", checked |-> {}, errored |-> {},
   turnedDown |-> {}, notified |-> FALSE]

\* A goroutine: none, ready (slot taken), fetching, sending its result, done.
NoWorkers == [e \in Entries |-> [at |-> "none", result |-> "none"]]

Init ==
  /\ running = FALSE /\ phase = "idle" /\ todo = {}
  /\ worker = NoWorkers /\ results = {} /\ cycle = NoCycle
  /\ cancelled = FALSE /\ service = "up" /\ ticks = 0
  /\ ring = <<>> /\ skips = 0
  /\ started = 0 /\ forced = FALSE

-----------------------------------------------------------------------------

Busy == {e \in Entries : worker[e].at \in {"ready", "fetching", "sending"}}

\* sem <- struct{}{} does not block.
SlotFree == Cardinality(Busy) < Workers

\* Mutant: resultCh buffered like the semaphore.
ChannelHasRoomForWorkers == Cardinality(results) < Workers

\* make(chan artistResult, len(entries))
ChannelHasRoom == Cardinality(results) < Cardinality(cycle.listed)

\* Mutant: the error the dispatch loop saw, and no second look.
CycleErrOfLoop == cycle.err

\* cycleErr after the join: a worker may have bailed although the dispatch
\* loop never waited long enough to see the cancellation.
CycleErr == IF cycle.err = "none" /\ cancelled THEN "cancelled" ELSE cycle.err

Newest(runs) ==
  IF Len(runs) > N THEN SubSeq(runs, Len(runs) - N + 1, Len(runs)) ELSE runs

TickBound == ticks < MaxTicks /\ ticks' = ticks + 1

-----------------------------------------------------------------------------
(* Ticks and the cycle                                                     *)

\* A cron tick finds the guard free and starts a cycle.
TickStarts ==
  /\ service = "up" /\ ~running /\ TickBound
  /\ running' = TRUE /\ phase' = "list"
  /\ started' = started + 1
  /\ cycle' = [NoCycle EXCEPT !.id = started']
  /\ UNCHANGED <<todo, worker, results, historyVars, cancelled, service, forced>>

\* It finds it taken, RecordSkip.
TickSkips ==
  /\ service = "up" /\ running /\ TickBound
  /\ skips' = skips + 1
  /\ UNCHANGED <<cycleVars, ring, cancelled, service, counters>>

\* The live watchlist, whatever the operator made of it by now.
Lists ==
  /\ phase = "list" /\ ~cancelled
  /\ \E S \in SUBSET Entries : todo' = S /\ cycle' = [cycle EXCEPT !.listed = S]
  /\ worker' = NoWorkers /\ results' = {}
  /\ phase' = "dispatch"
  /\ UNCHANGED <<running, historyVars, processVars, counters>>

ListFails ==
  /\ phase = "list"
  /\ \E err \in {"error"} \cup (IF cancelled THEN {"cancelled"} ELSE {}) :
       cycle' = [cycle EXCEPT !.err = err]
  /\ phase' = "record"
  /\ UNCHANGED <<running, todo, worker, results, historyVars, processVars, counters>>

TurnsDown(e) ==
  /\ phase = "dispatch" /\ e \in todo \cap Skippable
  /\ todo' = todo \ {e}
  /\ cycle' = [cycle EXCEPT !.turnedDown = @ \cup {e}]
  /\ UNCHANGED <<running, phase, worker, results, historyVars, processVars, counters>>

\* With a slot free and the context done, select may pick either.
Dispatches(e) ==
  /\ phase = "dispatch" /\ e \in todo \ Skippable /\ SlotFree
  /\ todo' = todo \ {e}
  /\ worker' = [worker EXCEPT ![e].at = "ready"]
  /\ UNCHANGED <<running, phase, results, cycle, historyVars, processVars, counters>>

StopsDispatch ==
  /\ phase = "dispatch" /\ todo \ Skippable # {} /\ cancelled
  /\ cycle' = [cycle EXCEPT !.err = "cancelled"]
  /\ phase' = "join"
  /\ UNCHANGED <<running, todo, worker, results, historyVars, processVars, counters>>

AllDispatched ==
  /\ phase = "dispatch" /\ todo = {}
  /\ phase' = "join"
  /\ UNCHANGED <<running, todo, worker, results, cycle, historyVars, processVars,
                 counters>>

-----------------------------------------------------------------------------
(* runOneArtist in its goroutine                                           *)

\* A worker that got its slot before the cancellation does not fetch.
Begins(e) ==
  /\ worker[e].at = "ready"
  /\ worker' = [worker EXCEPT
       ![e] = IF cancelled THEN [at |-> "sending", result |-> "bail"]
                           ELSE [at |-> "fetching", result |-> "none"]]
  /\ UNCHANGED <<running, phase, todo, results, cycle, historyVars, processVars,
                 counters>>

\* Fetch and detection return, fail or panic; recover makes a result of a panic.
Finishes(e) ==
  /\ worker[e].at = "fetching"
  /\ \E result \in {"ok", "error"} :
       worker' = [worker EXCEPT ![e] = [at |-> "sending", result |-> result]]
  /\ UNCHANGED <<running, phase, todo, results, cycle, historyVars, processVars,
                 counters>>

\* resultCh <- ..., then the deferred release of the slot and wg.Done.
Delivers(e) ==
  /\ worker[e].at = "sending" /\ ChannelHasRoom
  /\ results' = results \cup {e}
  /\ worker' = [worker EXCEPT ![e].at = "done"]
  /\ UNCHANGED <<running, phase, todo, cycle, historyVars, processVars, counters>>

-----------------------------------------------------------------------------

\* wg.Wait returns: fold the results, look at the context once more.
Joins ==
  /\ phase = "join" /\ Busy = {}
  /\ cycle' = [cycle EXCEPT
       !.checked = {e \in results : worker[e].result # "bail"},
       !.errored = {e \in results : worker[e].result = "error"},
       !.err = CycleErr]
  /\ phase' = IF CycleErr = "none" THEN "notify" ELSE "record"
  /\ UNCHANGED <<running, todo, worker, results, historyVars, processVars, counters>>

\* NotifyPending runs under the guard; its error is logged and swallowed.
Notifies ==
  /\ phase = "notify"
  /\ cycle' = [cycle EXCEPT !.notified = TRUE]
  /\ phase' = "record"
  /\ UNCHANGED <<running, todo, worker, results, historyVars, processVars, counters>>

\* Mutant: the ring is trimmed before the append.
AppendedUntrimmed(run) == Append(Newest(ring), run)

\* Mutant: only a cycle that ran to its end is recorded.
AppendedIfOk(run) == IF run.err = "none" THEN Newest(Append(ring, run)) ELSE ring

\* RecordRun's append and trim.
Appended(run) == Newest(Append(ring, run))

\* The recorder's defer, still under the guard; it ends the streak of skips.
Records ==
  /\ phase = "record"
  /\ ring' = Appended(cycle)
  /\ skips' = 0
  /\ phase' = "release"
  /\ UNCHANGED <<running, todo, worker, results, cycle, processVars, counters>>

\* defer running.Store(false)
Releases ==
  /\ phase = "release"
  /\ running' = FALSE /\ phase' = "idle"
  /\ todo' = {} /\ worker' = NoWorkers /\ results' = {} /\ cycle' = NoCycle
  /\ UNCHANGED <<historyVars, processVars, counters>>

-----------------------------------------------------------------------------
(* The process                                                             *)

\* SIGTERM: the signal context is done, and runCtx with it; the HTTP server
\* shuts down while cron still ticks.
Signal ==
  /\ service = "up" /\ ~cancelled
  /\ cancelled' = TRUE
  /\ UNCHANGED <<cycleVars, historyVars, service, ticks, counters>>

\* Poller.Stop: cron.Stop, no more ticks.  After a signal, or because the
\* listener failed (then runCtx is still live).
Drains ==
  /\ service = "up"
  /\ service' = "draining"
  /\ UNCHANGED <<cycleVars, historyVars, cancelled, ticks, counters>>

\* Mutant: Poller.Stop does not consume the context cron.Stop returns.
DrainedAtOnce == TRUE

\* The cron jobs that were running have returned.
Drained == ~running

\* Stop returns nil and pool.Close, deferred earlier, follows.
ClosesDrained ==
  /\ service = "draining" /\ Drained
  /\ service' = "closed"
  /\ UNCHANGED <<cycleVars, historyVars, cancelled, ticks, counters>>

\* The drain deadline passes: runCancel, and the pool is closed all the same.
\* With the jobs just back, select may still pick the deadline.
ClosesForced ==
  /\ service = "draining"
  /\ cancelled' = TRUE /\ forced' = TRUE
  /\ service' = "closed"
  /\ UNCHANGED <<cycleVars, historyVars, ticks, started>>

\* The process is gone, its run history with it; a new one starts.
Reboots ==
  /\ service = "closed" /\ TickBound
  /\ running' = FALSE /\ phase' = "idle" /\ todo' = {}
  /\ worker' = NoWorkers /\ results' = {} /\ cycle' = NoCycle
  /\ cancelled' = FALSE /\ service' = "up"
  /\ ring' = <<>> /\ skips' = 0
  /\ started' = 0 /\ forced' = FALSE

-----------------------------------------------------------------------------

CycleStep ==
  \/ Lists \/ ListFails
  \/ \E e \in Entries : TurnsDown(e) \/ Dispatches(e)
  \/ StopsDispatch \/ AllDispatched \/ Joins \/ Notifies \/ Records \/ Releases

WorkerStep(e) == Begins(e) \/ Finishes(e) \/ Delivers(e)

Next ==
  \/ TickStarts \/ TickSkips \/ CycleStep
  \/ \E e \in Entries : WorkerStep(e)
  \/ Signal \/ Drains \/ ClosesDrained \/ ClosesForced \/ Reboots

Spec == Init /\ [][Next]_vars

\* The goroutines are scheduled, and fetches are bounded by HTTP timeouts.
Fairness == WF_vars(CycleStep) /\ \A e \in Entries : WF_vars(WorkerStep(e))

FairSpec == Spec /\ Fairness

-----------------------------------------------------------------------------
(* Properties                                                              *)

Phases == {"idle", "list", "dispatch", "join", "notify", "record", "release"}

Cycles ==
  [id : Nat, listed : SUBSET Entries, err : {"none", "error", "cancelled"},
   checked : SUBSET Entries, errored : SUBSET Entries, turnedDown : SUBSET Entries,
   notified : BOOLEAN]

\* Types; the guard is taken exactly while a cycle is under way, and the ring
\* never exceeds its capacity.
TypeOK ==
  /\ running \in BOOLEAN /\ phase \in Phases /\ (running <=> phase # "idle")
  /\ todo \subseteq Entries /\ results \subseteq Entries
  /\ worker \in [Entries -> [at : {"none", "ready", "fetching", "sending", "done"},
                             result : {"none", "ok", "error", "bail"}]]
  /\ cycle \in Cycles
  /\ ring \in Seq(Cycles) /\ Len(ring) <= N /\ skips \in Nat
  /\ cancelled \in BOOLEAN /\ service \in {"up", "draining", "closed"}
  /\ ticks \in 0..MaxTicks /\ started \in 0..MaxTicks /\ forced \in BOOLEAN

\* A cycle that reaches NotifyPending, or that the history shows as ok, has
\* looked at every artist the watchlist had: none was left undispatched and no
\* worker bailed, however the cancellation fell between the dispatch loop, the
\* workers and the join (poller.go:475-491).
Complete(run) ==
  /\ run.checked \cup run.turnedDown = run.listed
  /\ run.errored \subseteq run.checked

HonestOutcome ==
  /\ \A i \in 1..Len(ring) : ring[i].err = "none" => Complete(ring[i])
  /\ cycle.notified => Complete(cycle)

\* Every cycle that took the guard has one entry in the history, failed and
\* cancelled ones too, in the order in which they ran; the ring is the newest
\* of them, without a gap, and lags by the cycle under way at most
\* (poller.go:373-403, pollruns.go:79-93).
Unrecorded == IF phase \in {"idle", "release"} THEN 0 ELSE 1

HistoryIsGapless ==
  \A i \in 1..Len(ring) : ring[i].id = started - Unrecorded - (Len(ring) - i)

HistoryIsFull ==
  started - Unrecorded >= N => Len(ring) = N

HistoryIsTheNewest == HistoryIsGapless /\ HistoryIsFull

\* Once the pool is closed after a clean drain, no cycle runs and none starts:
\* nothing of the poller touches the pool again (main.go:357-370).
QuietOnceClosed ==
  [][service = "closed" /\ service' = "closed" /\ ~forced => UNCHANGED cycleVars]_vars

\* The guard is always given back, after an error, a cancellation or a full
\* channel of results as well: "a wedged flag would silently stop this source
\* polling for the process's lifetime" (poller.go:355-358).
GuardIsGivenBack == running ~> ~running

\* What pollruns.go:50 says of ArtistsChecked: "entries dispatched to a
\* worker".  A worker that bails on a cancelled context was dispatched and is
\* not counted.
CheckedIsDispatched ==
  phase = "release" => cycle.checked = {e \in Entries : worker[e].at # "none"}
=============================================================================
