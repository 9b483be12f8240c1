--------------------------- MODULE DetectionProofs ---------------------------
(***************************************************************************)
(* What Detection guarantees for any feeds that share any releases, any    *)
(* preferences, editors, budget and number of failures.                    *)
(***************************************************************************)
EXTENDS Detection, TLAPS

-----------------------------------------------------------------------------
(* Types                                                                   *)

\* Each pass works off things of its own kind, and only a run that has read
\* its seed mode has inserted anything.
Locals(r) ==
  /\ r.at \in {"groups", "deluxe", "advance", "announce"} => r.todo \subseteq Groups
  /\ r.at = "songs" => r.todo \subseteq Songs
  /\ r.at \in {"advance", "announce"} => r.hand.key \in DeluxeKeys
  /\ r.at \in {"idle", "open"} => r.inserted = {}

Passes == \A f \in Feeds : Locals(run[f])

TypeInv == TypeOK /\ Passes

\* A step of f replaces the locals of f by ones of the type, and no others.
Moves(f) ==
  \E r \in Runs : Locals(r) /\ run' = [run EXCEPT ![f] = r]

LEMMA NoRunType == NoRun \in Runs /\ Locals(NoRun)
  BY DetectionAssumption DEF NoRun, NoHand, Runs, Hands, Labels, Locals

LEMMA NoRowType == NoRow \notin Rows /\ \A f \in Feeds : NoRow.by # f
  BY DetectionAssumption DEF NoRow, Rows

LEMMA MovesKeepsTypes ==
  ASSUME TypeInv, NEW f \in Feeds, Moves(f)
  PROVE  run' \in [Feeds -> Runs] /\ Passes'
<1>1. PICK r \in Runs : Locals(r) /\ run' = [run EXCEPT ![f] = r]
  BY DEF Moves
<1>2. run \in [Feeds -> Runs]
  BY DEF TypeInv, TypeOK
<1>3. run' \in [Feeds -> Runs]
  BY <1>1, <1>2
<1>4. \A h \in Feeds : run'[h] = IF h = f THEN r ELSE run[h]
  BY <1>1, <1>2
<1>5. Passes'
  BY <1>1, <1>4 DEF TypeInv, Passes, Locals
<1>. QED
  BY <1>3, <1>5

\* An insert writes one row, of the run's artist, where there was none.
LEMMA InsertedType ==
  ASSUME TypeInv, NEW f \in Feeds, NEW k \in Keys
  PROVE  /\ Inserted(f, k) \in [Keys -> Rows \cup {NoRow}]
         /\ NewRow(f, k) \in Rows
         /\ \A m \in Keys : Inserted(f, k)[m] =
              IF m = k /\ row[k] = NoRow THEN NewRow(f, k) ELSE row[m]
<1>1. NewRow(f, k) \in Rows
  <2>1. run[f].hand \in Hands
    BY DEF TypeInv, TypeOK, Runs
  <2>2. run[f].hand.from \in 0 .. MaxTracks /\ run[f].hand.to \in 0 .. MaxTracks
    BY <2>1 DEF Hands
  <2>3. Queued(f, k) \in BOOLEAN
    BY DEF Queued
  <2>. QED
    BY <2>2, <2>3 DEF NewRow, Rows
<1>2. row \in [Keys -> Rows \cup {NoRow}]
  BY DEF TypeInv, TypeOK
<1>. QED
  BY <1>1, <1>2 DEF Inserted

LEMMA TypeInit == Init => TypeInv
<1>. SUFFICES ASSUME Init PROVE TypeInv
  OBVIOUS
<1>1. run \in [Feeds -> Runs] /\ Passes
  BY NoRunType DEF Init, Passes
<1>2. tracks \in [DeluxeKeys -> 0 .. MaxTracks] /\ baseline \in [Groups -> 0 .. MaxTracks]
  BY DetectionAssumption DEF Init
<1>3. faults \in 0 .. MaxFaults
  BY DetectionAssumption DEF Init
<1>. QED
  BY <1>1, <1>2, <1>3 DEF Init, TypeInv, TypeOK

LEMMA InsertsOneMoves ==
  ASSUME TypeInv, NEW f \in Feeds, run[f].at \in {"groups", "songs"},
         NEW k \in run[f].todo, k \in Keys, k \in Songs => run[f].spent < LookupCap,
         InsertsOne(f, k)
  PROVE  /\ run'[f] \in Runs /\ Locals(run'[f])
         /\ run' = [run EXCEPT ![f] = run'[f]]
<1>0. run \in [Feeds -> Runs] /\ run[f] \in Runs /\ Locals(run[f])
  BY DEF TypeInv, TypeOK, Passes
<1>. DEFINE spent    == IF k \in Songs THEN run[f].spent + 1 ELSE run[f].spent
            inserted == IF row[k] = NoRow THEN run[f].inserted \cup {k}
                        ELSE run[f].inserted
<1>1. run' = [run EXCEPT ![f].todo = @ \ {k}, ![f].spent = spent,
                         ![f].inserted = inserted]
  BY <1>0 DEF InsertsOne, Runs
<1>2. spent \in 0 .. LookupCap
  BY <1>0, DetectionAssumption DEF Runs
<1>3. inserted \in SUBSET Keys
  BY <1>0 DEF Runs
<1>. HIDE DEF spent, inserted
<1>. QED
  BY <1>0, <1>1, <1>2, <1>3 DEF Runs, Locals, Labels

\* What a step does to the locals of its run, action by action.
LEMMA StepMoves ==
  ASSUME TypeInv, NEW f \in Feeds, RunStep(f) \/ Failure(f)
  PROVE  Moves(f)
<1>. DEFINE r == run'[f]
<1>. SUFFICES run' = [run EXCEPT ![f] = r] /\ r \in Runs /\ Locals(r)
  BY DEF Moves
<1>0. run \in [Feeds -> Runs] /\ run[f] \in Runs /\ Locals(run[f])
  BY DEF TypeInv, TypeOK, Passes
<1>1. CASE Starts(f)
  <2>1. PICK wanted \in Preferences[f] :
          run' = [run EXCEPT ![f].at = "open", ![f].wanted = wanted,
                             ![f].fresh = Discography[f] \cap published]
    BY <1>1 DEF Starts
  <2>. DEFINE fresh == Discography[f] \cap published
  <2>2. wanted \in SUBSET Kinds /\ fresh \in SUBSET Groups
    BY DetectionAssumption
  <2>. HIDE DEF fresh
  <2>3. run' = [run EXCEPT ![f].at = "open", ![f].wanted = wanted, ![f].fresh = fresh]
    BY <2>1 DEF fresh
  <2>4. run[f].inserted = {}
    BY <1>0, <1>1 DEF Starts, At, Locals
  <2>. QED
    BY <1>0, <2>2, <2>3, <2>4 DEF Runs, Locals, Labels
<1>2. CASE Opens(f)
  <2>. DEFINE seen == RowsOf(f) \cap Groups
              seed == RowsOf(f) = {}
              todo == IF "new_release" \in run[f].wanted
                      THEN run[f].fresh \ (seen \cup Filtered) ELSE {}
  <2>1. run' = [run EXCEPT ![f].at = "groups", ![f].seed = seed,
                           ![f].seen = seen, ![f].todo = todo]
    BY <1>2 DEF Opens
  <2>2. seen \subseteq Groups /\ seed \in BOOLEAN /\ todo \subseteq Groups
    BY <1>0 DEF Runs
  <2>. HIDE DEF seen, seed, todo
  <2>. QED
    BY <1>0, <2>1, <2>2 DEF Runs, Locals, Labels
<1>3. CASE RecordsGroup(f)
  <2>1. PICK k \in run[f].todo : InsertsOne(f, k)
    BY <1>3 DEF RecordsGroup
  <2>2. /\ run[f].at \in {"groups", "songs"} /\ k \in Keys
        /\ k \in Songs => run[f].spent < LookupCap
    BY <1>0, <1>3, DetectionAssumption DEF RecordsGroup, At, Locals, Keys
  <2>. QED
    BY <2>1, <2>2, InsertsOneMoves DEF Moves
<1>4. CASE GroupsDone(f)
  BY <1>0, <1>4 DEF GroupsDone, ToDeluxe, Deluxe, At, Runs, Labels, Locals
<1>5. CASE Browses(f)
  BY <1>0, <1>5, DetectionAssumption DEF Browses, At, Runs, Labels, Locals
<1>6. CASE BrowseFails(f)
  BY <1>0, <1>6 DEF BrowseFails, ToDeluxe, Deluxe, At, Runs, Labels, Locals
<1>7. CASE RecordsSong(f)
  <2>1. PICK k \in run[f].todo : InsertsOne(f, k)
    BY <1>7 DEF RecordsSong
  <2>2. /\ run[f].at \in {"groups", "songs"} /\ k \in Keys
        /\ k \in Songs => run[f].spent < LookupCap
    BY <1>0, <1>7, DetectionAssumption DEF RecordsSong, At, Locals, Keys, HasBudget
  <2>. QED
    BY <2>1, <2>2, InsertsOneMoves DEF Moves
<1>8. CASE LookupFails(f)
  BY <1>0, <1>8, DetectionAssumption DEF LookupFails, HasBudget, At, Runs, Labels, Locals
<1>9. CASE SongsDone(f)
  BY <1>0, <1>9 DEF SongsDone, ToDeluxe, Deluxe, At, Runs, Labels, Locals
<1>10. CASE Measures(f)
  <2>1. PICK g \in run[f].todo :
          \/ run' = [run EXCEPT ![f].todo = @ \ {g}]
          \/ /\ MostTracks(g) > 0
             /\ \E e \in Editions :
                  /\ tracks[<<g, e>>] = MostTracks(g)
                  /\ run' = [run EXCEPT
                       ![f].at = "advance", ![f].todo = @ \ {g},
                       ![f].hand = [key |-> <<g, e>>, from |-> 0, to |-> MostTracks(g)]]
    BY <1>10 DEF Measures
  <2>2. run[f].todo \subseteq Groups /\ g \in Groups
    BY <1>0, <1>10 DEF Measures, At, Locals
  <2>3. CASE run' = [run EXCEPT ![f].todo = @ \ {g}]
    BY <1>0, <2>2, <2>3, <1>10 DEF Measures, At, Runs, Locals
  <2>4. ASSUME NEW e \in Editions, tracks[<<g, e>>] = MostTracks(g),
               run' = [run EXCEPT
                       ![f].at = "advance", ![f].todo = @ \ {g},
                       ![f].hand = [key |-> <<g, e>>, from |-> 0, to |-> MostTracks(g)]]
        PROVE  run' = [run EXCEPT ![f] = r] /\ r \in Runs /\ Locals(r)
    <3>1. <<g, e>> \in DeluxeKeys
      BY <2>2 DEF DeluxeKeys
    <3>2. MostTracks(g) \in 0 .. MaxTracks
      BY <2>4, <3>1 DEF TypeInv, TypeOK
    <3>3. [key |-> <<g, e>>, from |-> 0, to |-> MostTracks(g)] \in Hands
      BY <3>1, <3>2, DetectionAssumption DEF Hands
    <3>. DEFINE hand == [key |-> <<g, e>>, from |-> 0, to |-> MostTracks(g)]
    <3>4. hand.key \in DeluxeKeys /\ hand \in Hands
      BY <3>1, <3>3
    <3>5. run' = [run EXCEPT ![f].at = "advance", ![f].todo = @ \ {g}, ![f].hand = hand]
      BY <2>4
    <3>. HIDE DEF hand
    <3>. QED
      BY <1>0, <2>2, <3>4, <3>5 DEF Runs, Locals, Labels
  <2>. QED
    BY <2>1, <2>3, <2>4
<1>11. CASE MeasureFails(f)
  BY <1>0, <1>11 DEF MeasureFails, At, Runs, Labels, Locals
<1>12. CASE Advances(f)
  <2>1. \/ run' = [run EXCEPT ![f].at = "announce",
                              ![f].hand.from = baseline[run[f].hand.key[1]]]
        \/ run' = [run EXCEPT ![f].at = "deluxe", ![f].hand = NoHand]
    BY <1>12 DEF Advances
  <2>2. /\ run[f].hand.key \in DeluxeKeys /\ run[f].hand \in Hands
        /\ run[f].todo \subseteq Groups
        /\ baseline[run[f].hand.key[1]] \in 0 .. MaxTracks
    BY <1>0, <1>12 DEF Advances, At, Locals, Runs, TypeInv, TypeOK, DeluxeKeys
  <2>3. NoHand \in Hands
    BY DetectionAssumption DEF NoHand, Hands
  <2>4. CASE run' = [run EXCEPT ![f].at = "announce",
                               ![f].hand.from = baseline[run[f].hand.key[1]]]
    <3>. DEFINE hand == [run[f].hand EXCEPT !.from = baseline[run[f].hand.key[1]]]
    <3>1. hand \in Hands /\ hand.key \in DeluxeKeys
      BY <2>2 DEF Hands
    <3>2. run' = [run EXCEPT ![f].at = "announce", ![f].hand = hand]
      BY <2>4, <1>0 DEF Runs
    <3>. HIDE DEF hand
    <3>. QED
      BY <1>0, <2>2, <3>1, <3>2 DEF Runs, Locals, Labels
  <2>5. CASE run' = [run EXCEPT ![f].at = "deluxe", ![f].hand = NoHand]
    BY <1>0, <2>2, <2>3, <2>5 DEF Runs, Locals, Labels
  <2>. QED
    BY <2>1, <2>4, <2>5
<1>13. CASE Announces(f)
  <2>1. /\ run[f].hand.key \in Keys /\ run[f].todo \subseteq Groups
        /\ NoHand \in Hands
    BY <1>0, <1>13, DetectionAssumption DEF Announces, At, Locals, Keys, NoHand, Hands
  <2>. DEFINE k == run[f].hand.key
              inserted == IF row[k] = NoRow THEN run[f].inserted \cup {k}
                          ELSE run[f].inserted
  <2>2. run' = [run EXCEPT ![f].at = "deluxe", ![f].hand = NoHand,
                           ![f].inserted = inserted]
    BY <1>13, <1>0 DEF Announces, Runs
  <2>3. inserted \in SUBSET Keys
    BY <2>1, <1>0 DEF Runs
  <2>. HIDE DEF inserted
  <2>. QED
    BY <1>0, <2>1, <2>2, <2>3 DEF Runs, Locals, Labels
<1>14. CASE Finishes(f) \/ CallFails(f) \/ InsertUnheard(f) \/ AdvanceUnheard(f)
  BY <1>0, <1>14, NoRunType DEF Finishes, CallFails, InsertUnheard, AdvanceUnheard, Leave
<1>. QED
  BY <1>1, <1>2, <1>3, <1>4, <1>5, <1>6, <1>7, <1>8, <1>9, <1>10, <1>11, <1>12, <1>13, <1>14
     DEF RunStep, Failure

-----------------------------------------------------------------------------
(* Every step is one of these entries in the books                         *)

\* A row is written by the dedup key, or the table stays as it is.
RowStep(f) ==
  \/ row' = row
  \/ \E k \in Keys : row' = Inserted(f, k)

LEMMA InHandIsTyped ==
  ASSUME TypeInv, NEW f \in Feeds
  PROVE  InHand(f) \subseteq 1 .. MaxTracks
<1>1. run[f].hand \in Hands
  BY DEF TypeInv, TypeOK, Runs
<1>. QED
  BY <1>1, DetectionAssumption DEF InHand, Hands

LEMMA DroppedIsTyped ==
  ASSUME TypeInv, NEW fs \in SUBSET Feeds
  PROVE  /\ Dropped(fs) \in [Groups -> SUBSET (1 .. MaxTracks)]
         /\ \A g \in Groups : unannounced[g] \subseteq Dropped(fs)[g]
<1>1. unannounced \in [Groups -> SUBSET (1 .. MaxTracks)]
  BY DEF TypeInv, TypeOK
<1>2. ASSUME NEW g \in Groups
      PROVE  UNION {InHand(f) : f \in {f \in fs : At(f, "announce") /\ run[f].hand.key[1] = g}}
               \subseteq 1 .. MaxTracks
  BY InHandIsTyped
<1>. QED
  BY <1>1, <1>2 DEF Dropped

LEMMA StepRows ==
  ASSUME TypeInv, NEW f \in Feeds, RunStep(f) \/ Failure(f)
  PROVE  RowStep(f)
<1>0. Locals(run[f]) /\ run[f] \in Runs
  BY DEF TypeInv, TypeOK, Passes
<1>1. CASE RecordsGroup(f) \/ RecordsSong(f)
  BY <1>0, <1>1 DEF RecordsGroup, RecordsSong, InsertsOne, RowStep, At, Locals, Keys
<1>2. CASE Announces(f)
  BY <1>0, <1>2 DEF Announces, Announced, RowStep, At, Locals, Keys
<1>3. CASE InsertUnheard(f)
  BY <1>0, <1>3 DEF InsertUnheard, Inserting, Announced, RowStep, At, Locals, Keys
<1>4. CASE \/ Starts(f) \/ Opens(f) \/ GroupsDone(f) \/ Browses(f) \/ BrowseFails(f)
           \/ LookupFails(f) \/ SongsDone(f) \/ Measures(f) \/ MeasureFails(f)
           \/ Advances(f) \/ Finishes(f) \/ CallFails(f) \/ AdvanceUnheard(f)
  BY <1>4 DEF Starts, Opens, GroupsDone, Browses, BrowseFails, LookupFails, SongsDone,
     Measures, MeasureFails, Advances, Finishes, CallFails, AdvanceUnheard, RowStep, table
<1>. QED
  BY <1>1, <1>2, <1>3, <1>4 DEF RunStep, Failure

LEMMA TypeStep == TypeInv /\ [Next]_vars => TypeInv'
<1>. SUFFICES ASSUME TypeInv, [Next]_vars PROVE TypeInv'
  OBVIOUS
<1>1. ASSUME NEW f \in Feeds, RunStep(f) \/ Failure(f)
      PROVE  TypeInv'
  <2>1. run' \in [Feeds -> Runs] /\ Passes'
    BY <1>1, StepMoves, MovesKeepsTypes
  <2>2. row' \in [Keys -> Rows \cup {NoRow}]
    BY <1>1, StepRows, InsertedType DEF RowStep, TypeInv, TypeOK
  <2>3. UNCHANGED upstream
    BY <1>1 DEF RunStep, Failure, Starts, Opens, RecordsGroup, RecordsSong, InsertsOne,
       GroupsDone, Browses, BrowseFails, LookupFails, SongsDone, Measures, MeasureFails,
       Advances, Announces, Finishes, CallFails, InsertUnheard, AdvanceUnheard
  <2>4. faults' \in 0 .. MaxFaults
    <3>1. UNCHANGED faults \/ Fault
      BY <1>1 DEF RunStep, Failure, Starts, Opens, RecordsGroup, RecordsSong, InsertsOne,
         GroupsDone, Browses, BrowseFails, LookupFails, SongsDone, Measures, MeasureFails,
         Advances, Announces, Finishes, CallFails, InsertUnheard, AdvanceUnheard
    <3>. QED
      BY <3>1, DetectionAssumption DEF Fault, TypeInv, TypeOK
  <2>5. baseline' \in [Groups -> 0 .. MaxTracks] /\ unannounced' \in [Groups -> SUBSET (1 .. MaxTracks)]
    <3>0. /\ run[f].hand \in Hands /\ Locals(run[f]) /\ run[f] \in Runs
          /\ baseline \in [Groups -> 0 .. MaxTracks]
          /\ unannounced \in [Groups -> SUBSET (1 .. MaxTracks)]
      BY DEF TypeInv, TypeOK, Passes, Runs
    <3>. DEFINE g == run[f].hand.key[1]
                n == run[f].hand.to
    <3>1. CASE Advances(f) \/ AdvanceUnheard(f)
      <4>1. g \in Groups /\ n \in 0 .. MaxTracks
        BY <3>0, <3>1 DEF Advances, AdvanceUnheard, At, Locals, DeluxeKeys, Hands
      <4>2. baseline[g] \in 0 .. MaxTracks /\ 1 .. n \subseteq 1 .. MaxTracks
            /\ (baseline[g] + 1) .. n \subseteq 1 .. MaxTracks
        BY <4>1, <3>0, DetectionAssumption
      <4>3. \/ baseline' = baseline
            \/ baseline' = [baseline EXCEPT ![g] = n]
        BY <3>1 DEF Advances, AdvanceUnheard
      <4>4. \/ unannounced' = unannounced
            \/ unannounced' = [unannounced EXCEPT ![g] = @ \cup 1 .. n]
            \/ unannounced' = [unannounced EXCEPT ![g] = @ \cup (baseline[g] + 1) .. n]
        BY <3>1 DEF Advances, AdvanceUnheard
      <4>. HIDE DEF g, n
      <4>5. baseline' \in [Groups -> 0 .. MaxTracks]
        BY <4>1, <4>3, <3>0
      <4>6. unannounced' \in [Groups -> SUBSET (1 .. MaxTracks)]
        BY <4>1, <4>2, <4>4, <3>0
      <4>. QED
        BY <4>5, <4>6
    <3>2. CASE Announces(f) \/ InsertUnheard(f)
      <4>1. UNCHANGED baseline
        BY <3>2 DEF Announces, InsertUnheard
      <4>2. \/ unannounced' = unannounced
            \/ unannounced' = [unannounced EXCEPT ![g] = @ \cup InHand(f)]
        BY <3>2 DEF Announces, InsertUnheard, Announced
      <4>. QED
        BY <4>1, <4>2, <3>0, InHandIsTyped
    <3>3. CASE CallFails(f)
      <4>1. UNCHANGED baseline /\ unannounced' = Dropped({f})
        BY <3>3 DEF CallFails, table
      <4>. QED
        BY <4>1, <3>0, DroppedIsTyped
    <3>4. CASE \/ Starts(f) \/ Opens(f) \/ RecordsGroup(f) \/ RecordsSong(f)
               \/ GroupsDone(f) \/ Browses(f) \/ BrowseFails(f) \/ LookupFails(f)
               \/ SongsDone(f) \/ Measures(f) \/ MeasureFails(f) \/ Finishes(f)
      <4>1. UNCHANGED <<baseline, unannounced>>
        BY <3>4 DEF Starts, Opens, RecordsGroup, RecordsSong, InsertsOne, GroupsDone,
           Browses, BrowseFails, LookupFails, SongsDone, Measures, MeasureFails, Finishes,
           table
      <4>. QED
        BY <4>1, <3>0
    <3>. QED
      BY <1>1, <3>1, <3>2, <3>3, <3>4 DEF RunStep, Failure
  <2>. QED
    BY <2>1, <2>2, <2>3, <2>4, <2>5 DEF TypeInv, TypeOK, upstream
<1>2. CASE Crash
  <2>1. run' \in [Feeds -> Runs] /\ Passes'
    BY <1>2, NoRunType DEF Crash, Passes
  <2>2. unannounced' \in [Groups -> SUBSET (1 .. MaxTracks)]
    BY <1>2, DroppedIsTyped DEF Crash
  <2>3. faults' \in 0 .. MaxFaults
    BY <1>2, DetectionAssumption DEF Crash, Fault, TypeInv, TypeOK
  <2>. QED
    BY <1>2, <2>1, <2>2, <2>3 DEF Crash, TypeInv, TypeOK, upstream, table
<1>3. ASSUME NEW k \in Groups \cup Songs, Publishes(k)
      PROVE  TypeInv'
  BY <1>3 DEF Publishes, TypeInv, TypeOK, Passes, table
<1>4. ASSUME NEW k \in DeluxeKeys, NEW n \in 0 .. MaxTracks, Edits(k, n)
      PROVE  TypeInv'
  BY <1>4 DEF Edits, TypeInv, TypeOK, Passes, table
<1>5. CASE UNCHANGED vars
  BY <1>5 DEF vars, upstream, table, TypeInv, TypeOK, Passes
<1>. QED
  BY <1>1, <1>2, <1>3, <1>4, <1>5 DEF Next

\* Types, for any feeds, preferences, budget and number of failures: a run
\* never spends more lookups than its cap (musicbrainz.go:184).
THEOREM TypeCorrect == Spec => []TypeOK
<1>1. Spec => []TypeInv
  BY TypeInit, TypeStep, PTL DEF Spec
<1>2. TypeInv => TypeOK
  BY DEF TypeInv
<1>. QED
  BY <1>1, <1>2, PTL
-----------------------------------------------------------------------------
(* A recorded event stands                                                 *)

LEMMA WriteOnceStep ==
  TypeInv /\ [Next]_vars => [\A k \in Keys : row[k] # NoRow => row'[k] = row[k]]_row
<1>. SUFFICES ASSUME TypeInv, Next, row' # row
              PROVE  \A k \in Keys : row[k] # NoRow => row'[k] = row[k]
  BY DEF vars, table
<1>1. PICK f \in Feeds : RunStep(f) \/ Failure(f)
  BY DEF Next, Crash, Publishes, Edits, table
<1>2. PICK m \in Keys : row' = Inserted(f, m)
  BY <1>1, StepRows DEF RowStep
<1>. QED
  BY <1>2, InsertedType

\* An event keeps its first artist and snapshot for any number of feeds that
\* share it (queries/events.sql:1-15).
THEOREM FirstSnapshotStands == Spec => RowsAreWriteOnce
<1>1. Spec => []TypeInv
  BY TypeInit, TypeStep, PTL DEF Spec
<1>. QED
  BY <1>1, WriteOnceStep, PTL DEF Spec, RowsAreWriteOnce

-----------------------------------------------------------------------------
(* A seed queues nothing                                                   *)

Active(r) == r.at \notin {"idle", "open"}

\* A run that found no rows of its feed has queued none; one that did find some
\* still sees one it has not inserted itself.
SeedKnown(f) ==
  Active(run[f]) =>
    IF run[f].seed THEN \A k \in RowsOf(f) : ~row[k].queued
                   ELSE \E k \in RowsOf(f) : k \notin run[f].inserted

NewsInv ==
  /\ \A k \in Keys : row[k].queued => k \notin Old
  /\ \A f \in Feeds : SeedKnown(f)

Keeps(f) ==
  /\ row' = row
  /\ Active(run'[f]) =>
       Active(run[f]) /\ run'[f].seed = run[f].seed /\ run'[f].inserted = run[f].inserted

Reads(f) == row' = row /\ run'[f].seed = (RowsOf(f) = {}) /\ run'[f].inserted = {}

Inserts(f) ==
  /\ Active(run[f])
  /\ \E k \in Keys :
       /\ row' = Inserted(f, k)
       /\ Active(run'[f]) =>
            /\ run'[f].seed = run[f].seed
            /\ run'[f].inserted =
                 IF row[k] = NoRow THEN run[f].inserted \cup {k} ELSE run[f].inserted

Others(f) == \A h \in Feeds \ {f} : run'[h] = run[h]

LEMMA StepOthers ==
  ASSUME TypeInv, NEW f \in Feeds, Moves(f)
  PROVE  Others(f)
  BY DEF Moves, Others, TypeInv, TypeOK

LEMMA StepNews ==
  ASSUME TypeInv, NEW f \in Feeds, RunStep(f) \/ Failure(f)
  PROVE  Keeps(f) \/ Reads(f) \/ Inserts(f)
<1>0. run \in [Feeds -> Runs] /\ run[f] \in Runs /\ Locals(run[f])
  BY DEF TypeInv, TypeOK, Passes
<1>1. CASE Opens(f)
  <2>1. row' = row /\ run'[f].seed = (RowsOf(f) = {}) /\ run'[f].inserted = run[f].inserted
    BY <1>0, <1>1 DEF Opens, table, Runs
  <2>. QED
    BY <2>1, <1>0, <1>1 DEF Reads, Opens, At, Locals
<1>2. CASE RecordsGroup(f) \/ RecordsSong(f)
  <2>1. PICK k \in run[f].todo : InsertsOne(f, k)
    BY <1>2 DEF RecordsGroup, RecordsSong
  <2>2. k \in Keys /\ Active(run[f])
    BY <1>0, <1>2 DEF RecordsGroup, RecordsSong, At, Locals, Keys, Active
  <2>3. /\ run'[f].seed = run[f].seed
        /\ run'[f].inserted =
             IF row[k] = NoRow THEN run[f].inserted \cup {k} ELSE run[f].inserted
    BY <2>1, <1>0 DEF InsertsOne, Runs
  <2>. QED
    BY <2>1, <2>2, <2>3 DEF InsertsOne, Inserts
<1>3. CASE Announces(f)
  <2>. DEFINE k == run[f].hand.key
  <2>1. k \in Keys /\ Active(run[f]) /\ row' = Inserted(f, k)
    BY <1>0, <1>3 DEF Announces, Announced, At, Locals, Keys, Active
  <2>2. /\ run'[f].seed = run[f].seed
        /\ run'[f].inserted =
             IF row[k] = NoRow THEN run[f].inserted \cup {k} ELSE run[f].inserted
    BY <1>3, <1>0 DEF Announces, Runs
  <2>. QED
    BY <2>1, <2>2 DEF Inserts
<1>4. CASE InsertUnheard(f)
  <2>1. run'[f] = NoRun
    BY <1>0, <1>4 DEF InsertUnheard, Leave
  <2>2. ~Active(run'[f])
    BY <2>1 DEF Active, NoRun
  <2>3. Active(run[f]) /\ \E k \in Keys : row' = Inserted(f, k)
    BY <1>0, <1>4 DEF InsertUnheard, Inserting, Announced, At, Locals, Keys, Active
  <2>. QED
    BY <2>2, <2>3 DEF Inserts
<1>5. CASE Finishes(f) \/ CallFails(f) \/ AdvanceUnheard(f)
  <2>1. row' = row /\ run'[f] = NoRun
    BY <1>0, <1>5 DEF Finishes, CallFails, AdvanceUnheard, Leave, table
  <2>. QED
    BY <2>1 DEF Keeps, Active, NoRun
<1>6. CASE Starts(f)
  <2>1. row' = row /\ run'[f].at = "open"
    BY <1>0, <1>6 DEF Starts, table, Runs
  <2>. QED
    BY <2>1 DEF Keeps, Active
<1>7. CASE \/ GroupsDone(f) \/ Browses(f) \/ BrowseFails(f) \/ LookupFails(f)
           \/ SongsDone(f) \/ Measures(f) \/ MeasureFails(f) \/ Advances(f)
  <2>1. row' = row /\ Active(run[f])
    BY <1>7 DEF GroupsDone, Browses, BrowseFails, LookupFails, SongsDone, Measures,
       MeasureFails, Advances, table, Active, At
  <2>2. run'[f].seed = run[f].seed /\ run'[f].inserted = run[f].inserted
    <3>1. CASE GroupsDone(f) \/ BrowseFails(f) \/ SongsDone(f)
      BY <1>0, <3>1 DEF GroupsDone, BrowseFails, SongsDone, ToDeluxe, Runs
    <3>2. CASE Browses(f) \/ LookupFails(f) \/ MeasureFails(f)
      BY <1>0, <3>2 DEF Browses, LookupFails, MeasureFails, Runs
    <3>3. CASE Measures(f)
      <4>1. \E todo, hand :
              \/ run' = [run EXCEPT ![f].todo = todo]
              \/ run' = [run EXCEPT ![f].at = "advance", ![f].todo = todo, ![f].hand = hand]
        BY <3>3 DEF Measures
      <4>. QED
        BY <1>0, <4>1 DEF Runs
    <3>4. CASE Advances(f)
      BY <1>0, <3>4 DEF Advances, Runs
    <3>. QED
      BY <1>7, <3>1, <3>2, <3>3, <3>4
  <2>. QED
    BY <2>1, <2>2 DEF Keeps
<1>. QED
  BY <1>1, <1>2, <1>3, <1>4, <1>5, <1>6, <1>7 DEF RunStep, Failure

LEMMA NewsInit == Init => NewsInv
  BY DEF Init, NewsInv, SeedKnown, Active, NoRun, NoRow

LEMMA NewsStep == TypeInv /\ NewsInv /\ [Next]_vars => NewsInv'
<1>. SUFFICES ASSUME TypeInv, NewsInv, [Next]_vars PROVE NewsInv'
  OBVIOUS
<1>0. run \in [Feeds -> Runs]
  BY DEF TypeInv, TypeOK
<1>1. ASSUME NEW f \in Feeds, RunStep(f) \/ Failure(f)
      PROVE  NewsInv'
  <2>0. Others(f)
    BY <1>1, StepMoves, StepOthers
  <2>1. CASE Keeps(f)
    <3>1. ASSUME NEW h \in Feeds PROVE SeedKnown(h)'
      BY <2>0, <2>1, <3>1 DEF Keeps, Others, NewsInv, SeedKnown, RowsOf
    <3>. QED
      BY <3>1, <2>1 DEF Keeps, NewsInv
  <2>2. CASE Reads(f)
    <3>1. ASSUME NEW h \in Feeds PROVE SeedKnown(h)'
      <4>1. RowsOf(h)' = RowsOf(h) /\ \A k \in RowsOf(h) : row'[k] = row[k]
        BY <2>2 DEF Reads, RowsOf
      <4>2. CASE h = f
        <5>1. run'[f].seed => RowsOf(f)' = {}
          BY <4>1, <4>2, <2>2 DEF Reads
        <5>2. ~run'[f].seed => \E k \in RowsOf(f)' : k \notin run'[f].inserted
          BY <4>1, <4>2, <2>2 DEF Reads
        <5>. QED
          BY <4>2, <5>1, <5>2 DEF SeedKnown
      <4>3. CASE h # f
        BY <2>0, <4>1, <4>3 DEF Others, NewsInv, SeedKnown
      <4>. QED
        BY <4>2, <4>3
    <3>. QED
      BY <3>1, <2>2 DEF Reads, NewsInv
  <2>3. CASE Inserts(f)
    <3>1. PICK k \in Keys :
            /\ row' = Inserted(f, k)
            /\ Active(run'[f]) =>
                 /\ run'[f].seed = run[f].seed
                 /\ run'[f].inserted =
                      IF row[k] = NoRow THEN run[f].inserted \cup {k} ELSE run[f].inserted
      BY <2>3 DEF Inserts
    <3>2. \A m \in Keys : row'[m] = IF m = k /\ row[k] = NoRow THEN NewRow(f, k) ELSE row[m]
      BY <3>1, InsertedType
    <3>3. /\ NewRow(f, k).by = f
          /\ NewRow(f, k).queued => ~run[f].seed /\ k \notin Old
      BY DEF NewRow, Queued, Seed
    <3>4. \A m \in Keys : row'[m].queued => m \notin Old
      BY <3>2, <3>3 DEF NewsInv
    <3>5. ASSUME NEW h \in Feeds, h # f PROVE SeedKnown(h)'
      <4>1. \A m \in Keys : m \in RowsOf(h)' <=> m \in RowsOf(h)
        BY <3>2, <3>3, <3>5, NoRowType DEF RowsOf
      <4>2. \A m \in RowsOf(h) : row'[m] = row[m]
        BY <3>2, NoRowType DEF RowsOf
      <4>3. RowsOf(h)' = RowsOf(h)
        BY <4>1 DEF RowsOf
      <4>4. run'[h] = run[h]
        BY <2>0, <3>5 DEF Others
      <4>. QED
        BY <4>2, <4>3, <4>4 DEF SeedKnown, NewsInv
    <3>6. SeedKnown(f)'
      <4>. SUFFICES ASSUME Active(run'[f])
                    PROVE  IF run'[f].seed THEN \A m \in RowsOf(f)' : ~row'[m].queued
                           ELSE \E m \in RowsOf(f)' : m \notin run'[f].inserted
        BY DEF SeedKnown
      <4>1. Active(run[f])
        BY <2>3 DEF Inserts
      <4>2. CASE run[f].seed
        BY <3>1, <3>2, <3>3, <4>1, <4>2 DEF RowsOf, SeedKnown, NewsInv
      <4>3. CASE ~run[f].seed
        <5>1. PICK m \in RowsOf(f) : m \notin run[f].inserted
          BY <4>1, <4>3 DEF SeedKnown, NewsInv
        <5>2. m \in Keys /\ row'[m] = row[m] /\ row[m] # NoRow /\ row[m].by = f
          BY <3>2, NoRowType DEF RowsOf
        <5>3. m \in RowsOf(f)'
          BY <5>2 DEF RowsOf
        <5>4. m \notin run'[f].inserted
          BY <3>1, <5>1, <5>2
        <5>. QED
          BY <5>3, <5>4, <3>1, <4>3
      <4>. QED
        BY <4>2, <4>3
    <3>. QED
      BY <3>4, <3>5, <3>6 DEF NewsInv
  <2>. QED
    BY <1>1, <2>1, <2>2, <2>3, StepNews
<1>2. CASE Crash
  BY <1>2 DEF Crash, table, NewsInv, SeedKnown, Active, NoRun
<1>3. ASSUME UNCHANGED <<row, run>> PROVE NewsInv'
  BY <1>3 DEF NewsInv, SeedKnown, RowsOf
<1>. QED
  BY <1>1, <1>2, <1>3 DEF Next, Publishes, Edits, vars, table

\* Back catalogue never reaches Discord, for any feeds that share releases and
\* fail anywhere: a seed queues nothing (detector.go:93-140).
THEOREM SeedIsSilent == Spec => []QueuedIsNews
<1>1. TypeInv /\ NewsInv => QueuedIsNews
  <2>. SUFFICES ASSUME TypeInv, NewsInv, NEW f \in Feeds,
                       RowsOf(f) \subseteq run[f].inserted,
                       NEW k \in RowsOf(f)
                PROVE  ~row[k].queued
    BY DEF QueuedIsNews, NewsInv
  <2>1. Active(run[f])
    BY DEF TypeInv, Passes, Locals, Active
  <2>. QED
    BY <2>1 DEF NewsInv, SeedKnown
<1>2. Spec => [](TypeInv /\ NewsInv)
  BY TypeInit, TypeStep, NewsInit, NewsStep, PTL DEF Spec
<1>. QED
  BY <1>1, <1>2, PTL

-----------------------------------------------------------------------------
(* The accounting of growth                                                *)

GroupOf(f) == run[f].hand.key[1]

\* Ranges of counts are disjoint and below the baseline, whether they are in
\* an event or in the hands of a run that is about to announce them.
GrowthInv ==
  /\ \A k \in DeluxeKeys :
       row[k] # NoRow => row[k].from < row[k].to /\ row[k].to <= baseline[k[1]]
  /\ \A f \in Feeds : At(f, "announce") =>
       run[f].hand.from < run[f].hand.to /\ run[f].hand.to <= baseline[GroupOf(f)]
  /\ \A k, m \in DeluxeKeys : k # m /\ k[1] = m[1] => Covers(k) \cap Covers(m) = {}
  /\ \A f \in Feeds, k \in DeluxeKeys :
       At(f, "announce") /\ k[1] = GroupOf(f) => Covers(k) \cap InHand(f) = {}
  /\ \A f, h \in Feeds :
       f # h /\ At(f, "announce") /\ At(h, "announce") /\ GroupOf(f) = GroupOf(h) =>
         InHand(f) \cap InHand(h) = {}

\* n is covered by an event, in the hands of a run, or known to be lost.
Known(g, n) ==
  \/ n \in unannounced[g]
  \/ \E k \in {g} \X Editions : n \in Covers(k)
  \/ \E f \in Feeds : At(f, "announce") /\ GroupOf(f) = g /\ n \in InHand(f)

LEMMA ForgottenIsUnknown ==
  NoGrowthForgotten <=> \A g \in Groups : \A n \in 1 .. baseline[g] : Known(g, n)
<1>1. ASSUME NEW g \in Groups, NEW n
      PROVE  Known(g, n) <=>
               n \in unannounced[g] \cup (UNION {Covers(k) : k \in {g} \X Editions})
                 \cup (UNION {InHand(f) : f \in {f \in Feeds : At(f, "announce")
                                                              /\ run[f].hand.key[1] = g}})
  <2>1. n \in UNION {Covers(k) : k \in {g} \X Editions}
          <=> \E k \in {g} \X Editions : n \in Covers(k)
    OBVIOUS
  <2>. DEFINE fs == {f \in Feeds : At(f, "announce") /\ run[f].hand.key[1] = g}
  <2>2. n \in UNION {InHand(f) : f \in fs} <=> \E f \in fs : n \in InHand(f)
    OBVIOUS
  <2>3. (\E f \in fs : n \in InHand(f)) <=>
          \E f \in Feeds : At(f, "announce") /\ GroupOf(f) = g /\ n \in InHand(f)
    BY DEF GroupOf
  <2>. HIDE DEF fs
  <2>4. n \in unannounced[g] \cup (UNION {Covers(k) : k \in {g} \X Editions})
                \cup (UNION {InHand(f) : f \in fs})
        <=> Known(g, n)
    BY <2>1, <2>2, <2>3 DEF Known
  <2>. QED
    BY <2>4 DEF fs
<1>. QED
  BY <1>1 DEF NoGrowthForgotten

\* What a step of f does to the books.  No growth: nothing but, at most, what
\* was in hand, which is then known to be lost.
Apart(f) ==
  /\ baseline' = baseline
  /\ \A k \in DeluxeKeys : row'[k] = row[k]
  /\ run'[f].at # "announce"
  /\ At(f, "announce") => InHand(f) \subseteq unannounced'[GroupOf(f)]

\* The baseline passes counts that are lost.
Missed(f) ==
  /\ row' = row /\ At(f, "advance") /\ run'[f].at # "announce"
  /\ baseline[GroupOf(f)] < run[f].hand.to
  /\ baseline' = [baseline EXCEPT ![GroupOf(f)] = run[f].hand.to]
  /\ (baseline[GroupOf(f)] + 1) .. run[f].hand.to \subseteq unannounced'[GroupOf(f)]

\* It passes counts that f is to announce.
Found(f) ==
  /\ row' = row /\ At(f, "advance") /\ run'[f].at = "announce"
  /\ baseline[GroupOf(f)] < run[f].hand.to
  /\ baseline' = [baseline EXCEPT ![GroupOf(f)] = run[f].hand.to]
  /\ run'[f].hand = [run[f].hand EXCEPT !.from = baseline[GroupOf(f)]]

\* f writes its event, or finds the row taken.
Told(f) ==
  /\ baseline' = baseline /\ At(f, "announce") /\ run'[f].at # "announce"
  /\ row' = Inserted(f, run[f].hand.key)
  /\ row[run[f].hand.key] # NoRow => InHand(f) \subseteq unannounced'[GroupOf(f)]

Remembers == \A g \in Groups : unannounced[g] \subseteq unannounced'[g]

LEMMA StepGrowth ==
  ASSUME TypeInv, NEW f \in Feeds, RunStep(f) \/ Failure(f)
  PROVE  Remembers /\ (Apart(f) \/ Missed(f) \/ Found(f) \/ Told(f))
<1>0. /\ run \in [Feeds -> Runs] /\ run[f] \in Runs /\ Locals(run[f])
      /\ unannounced \in [Groups -> SUBSET (1 .. MaxTracks)]
      /\ baseline \in [Groups -> 0 .. MaxTracks]
      /\ row \in [Keys -> Rows \cup {NoRow}]
      /\ run[f].hand \in Hands
  BY DEF TypeInv, TypeOK, Passes, Runs
<1>1. CASE RecordsGroup(f) \/ RecordsSong(f)
  <2>1. PICK k \in run[f].todo : InsertsOne(f, k)
    BY <1>1 DEF RecordsGroup, RecordsSong
  <2>2. k \in Keys /\ k \notin DeluxeKeys /\ run[f].at \in {"groups", "songs"}
    BY <1>0, <1>1, DetectionAssumption DEF RecordsGroup, RecordsSong, At, Locals, Keys
  <2>3. \A m \in DeluxeKeys : row'[m] = row[m]
    BY <2>1, <2>2, InsertedType DEF InsertsOne, Keys
  <2>4. run'[f].at = run[f].at
    BY <2>1, <1>0 DEF InsertsOne, Runs
  <2>. QED
    BY <2>1, <2>2, <2>3, <2>4 DEF InsertsOne, Apart, Remembers, At
<1>2. CASE InsertUnheard(f) /\ Inserting(f)
  <2>1. PICK k \in run[f].todo : row' = Inserted(f, k)
    BY <1>2 DEF InsertUnheard, Inserting, Announced, At
  <2>2. k \in Keys /\ k \notin DeluxeKeys /\ ~At(f, "announce")
    BY <1>0, <1>2, DetectionAssumption DEF Inserting, At, Locals, Keys
  <2>3. \A m \in DeluxeKeys : row'[m] = row[m]
    BY <2>1, <2>2, InsertedType DEF Keys
  <2>4. run'[f] = NoRun /\ UNCHANGED <<unannounced, baseline>>
    BY <2>2, <1>0, <1>2 DEF InsertUnheard, Leave
  <2>. QED
    BY <2>2, <2>3, <2>4 DEF Apart, Remembers, NoRun
<1>3. CASE Announces(f) \/ (InsertUnheard(f) /\ At(f, "announce"))
  <2>. DEFINE k == run[f].hand.key
  <2>1. At(f, "announce") /\ k \in DeluxeKeys /\ k[1] \in Groups
    BY <1>0, <1>3 DEF Announces, At, Locals, DeluxeKeys
  <2>2. Announced(f) /\ baseline' = baseline
    BY <1>3, <2>1 DEF Announces, InsertUnheard, Inserting, At
  <2>3. run'[f].at # "announce"
    <3>1. CASE Announces(f)
      BY <1>0, <3>1 DEF Announces, Runs
    <3>2. CASE InsertUnheard(f)
      BY <1>0, <3>2 DEF InsertUnheard, Leave, NoRun
    <3>. QED
      BY <1>3, <3>1, <3>2
  <2>4. Remembers
    BY <1>0, <2>2 DEF Announced, Remembers
  <2>5. row[k] # NoRow => InHand(f) \subseteq unannounced'[GroupOf(f)]
    BY <1>0, <2>1, <2>2 DEF Announced, GroupOf
  <2>. QED
    BY <2>1, <2>2, <2>3, <2>4, <2>5 DEF Announced, Told
<1>4. CASE AdvanceUnheard(f)
  <2>1. GroupOf(f) \in Groups /\ At(f, "advance") /\ run'[f] = NoRun
    BY <1>0, <1>4 DEF AdvanceUnheard, Leave, At, Locals, GroupOf, DeluxeKeys
  <2>. QED
    BY <1>0, <1>4, <2>1 DEF AdvanceUnheard, Missed, Remembers, GroupOf, Grows, NoRun, Hands
<1>5. CASE Advances(f)
  <2>. DEFINE g   == GroupOf(f)
              old == baseline[g]
              new == run[f].hand.to
  <2>1. g \in Groups /\ At(f, "advance") /\ old \in Nat /\ new \in Nat /\ row' = row
    BY <1>0, <1>5, DetectionAssumption DEF Advances, At, Locals, GroupOf, DeluxeKeys, Hands
  <2>2. CASE new > old /\ old > 0
    <3>1. /\ baseline' = [baseline EXCEPT ![g] = new]
          /\ run' = [run EXCEPT ![f].at = "announce", ![f].hand.from = old]
          /\ UNCHANGED unannounced
      BY <1>5, <2>2 DEF Advances, Grows, HadBaseline, GroupOf
    <3>2. run'[f].at = "announce" /\ run'[f].hand = [run[f].hand EXCEPT !.from = old]
      BY <1>0, <3>1 DEF Runs
    <3>. QED
      BY <2>1, <2>2, <3>1, <3>2 DEF Found, Remembers
  <2>3. CASE new > old /\ ~(old > 0)
    <3>1. /\ baseline' = [baseline EXCEPT ![g] = new]
          /\ run' = [run EXCEPT ![f].at = "deluxe", ![f].hand = NoHand]
          /\ unannounced' = [unannounced EXCEPT ![g] = @ \cup 1 .. new]
          /\ old = 0
      BY <1>5, <2>1, <2>3 DEF Advances, Grows, HadBaseline, GroupOf
    <3>2. run'[f].at = "deluxe"
      BY <1>0, <3>1 DEF Runs
    <3>3. unannounced'[g] = unannounced[g] \cup 1 .. new /\ Remembers
      BY <1>0, <2>1, <3>1 DEF Remembers
    <3>. QED
      BY <2>1, <2>3, <3>1, <3>2, <3>3 DEF Missed
  <2>4. CASE ~(new > old)
    <3>1. /\ UNCHANGED <<baseline, unannounced>>
          /\ run' = [run EXCEPT ![f].at = "deluxe", ![f].hand = NoHand]
      BY <1>5, <2>4 DEF Advances, Grows, GroupOf
    <3>2. run'[f].at = "deluxe"
      BY <1>0, <3>1 DEF Runs
    <3>. QED
      BY <2>1, <3>1, <3>2 DEF Apart, Remembers, At
  <2>. QED
    BY <2>2, <2>3, <2>4
<1>6. CASE CallFails(f)
  <2>1. run'[f] = NoRun /\ row' = row /\ baseline' = baseline /\ unannounced' = Dropped({f})
    BY <1>0, <1>6 DEF CallFails, Leave, table
  <2>2. At(f, "announce") => GroupOf(f) \in Groups
    BY <1>0 DEF At, Locals, GroupOf, DeluxeKeys
  <2>3. At(f, "announce") => InHand(f) \subseteq Dropped({f})[GroupOf(f)]
    BY <2>2 DEF Dropped, GroupOf
  <2>4. Remembers
    BY <2>1, DroppedIsTyped DEF Remembers
  <2>. QED
    BY <2>1, <2>3, <2>4 DEF Apart, NoRun
<1>7. CASE \/ Starts(f) \/ Opens(f) \/ GroupsDone(f) \/ Browses(f) \/ BrowseFails(f)
           \/ LookupFails(f) \/ SongsDone(f) \/ Measures(f) \/ MeasureFails(f)
           \/ Finishes(f)
  <2>1. UNCHANGED <<row, baseline, unannounced>> /\ ~At(f, "announce")
    BY <1>7 DEF Starts, Opens, GroupsDone, Browses, BrowseFails, LookupFails, SongsDone,
       Measures, MeasureFails, Finishes, table, At
  <2>2. run'[f].at # "announce"
    <3>1. CASE GroupsDone(f) \/ BrowseFails(f) \/ SongsDone(f)
      BY <1>0, <3>1 DEF GroupsDone, BrowseFails, SongsDone, ToDeluxe, Runs
    <3>2. CASE Browses(f) \/ LookupFails(f) \/ MeasureFails(f)
      BY <1>0, <3>2 DEF Browses, LookupFails, MeasureFails, Runs, At
    <3>3. CASE Measures(f)
      <4>1. \E todo, hand :
              \/ run' = [run EXCEPT ![f].todo = todo]
              \/ run' = [run EXCEPT ![f].at = "advance", ![f].todo = todo, ![f].hand = hand]
        BY <3>3 DEF Measures
      <4>. QED
        BY <1>0, <2>1, <4>1 DEF Runs, At
    <3>4. CASE Starts(f) \/ Opens(f)
      <4>1. CASE Starts(f)
        <5>1. PICK wanted \in Preferences[f] :
                run' = [run EXCEPT ![f].at = "open", ![f].wanted = wanted,
                                   ![f].fresh = Discography[f] \cap published]
          BY <4>1 DEF Starts
        <5>. QED
          BY <1>0, <5>1 DEF Runs
      <4>2. CASE Opens(f)
        <5>1. \E seed, seen, todo :
                run' = [run EXCEPT ![f].at = "groups", ![f].seed = seed,
                                   ![f].seen = seen, ![f].todo = todo]
          BY <4>2 DEF Opens
        <5>. QED
          BY <1>0, <5>1 DEF Runs
      <4>. QED
        BY <3>4, <4>1, <4>2
    <3>5. CASE Finishes(f)
      BY <1>0, <3>5 DEF Finishes, Leave, NoRun
    <3>. QED
      BY <1>7, <3>1, <3>2, <3>3, <3>4, <3>5
  <2>. QED
    BY <2>1, <2>2 DEF Apart, Remembers
<1>. QED
  BY <1>1, <1>2, <1>3, <1>4, <1>5, <1>6, <1>7 DEF RunStep, Failure, InsertUnheard

\* The ranges a step of f leaves in events and in hands.
LEMMA CoversChange ==
  ASSUME TypeInv, NEW f \in Feeds, Told(f), NEW m \in DeluxeKeys
  PROVE  /\ run[f].hand.key \in DeluxeKeys
         /\ row'[m] = IF m = run[f].hand.key /\ row[m] = NoRow
                      THEN NewRow(f, m) ELSE row[m]
         /\ Covers(m)' = IF m = run[f].hand.key /\ row[m] = NoRow
                         THEN InHand(f) ELSE Covers(m)
<1>1. run[f].hand.key \in DeluxeKeys
  BY DEF TypeInv, Passes, Locals, Told, At
<1>2. row'[m] = IF m = run[f].hand.key /\ row[m] = NoRow THEN NewRow(f, m) ELSE row[m]
  BY <1>1, InsertedType DEF Told, Keys
<1>3. NewRow(f, m).from = run[f].hand.from /\ NewRow(f, m).to = run[f].hand.to
  BY DEF NewRow
<1>. QED
  BY <1>1, <1>2, <1>3 DEF Covers, InHand

LEMMA OthersHands ==
  ASSUME TypeInv, NEW f \in Feeds, Others(f), NEW h \in Feeds, h # f
  PROVE  /\ At(h, "announce")' <=> At(h, "announce")
         /\ run'[h] = run[h] /\ GroupOf(h)' = GroupOf(h) /\ InHand(h)' = InHand(h)
  BY DEF Others, At, GroupOf, InHand

LEMMA GrowthInit == Init => GrowthInv
  BY DEF Init, GrowthInv, At, NoRun, NoRow, Covers, Keys

LEMMA GrowthStep == TypeInv /\ GrowthInv /\ [Next]_vars => GrowthInv'
<1>. SUFFICES ASSUME TypeInv, GrowthInv, [Next]_vars PROVE GrowthInv'
  OBVIOUS
<1>0. /\ baseline \in [Groups -> 0 .. MaxTracks] /\ MaxTracks \in Nat
      /\ \A f \in Feeds : At(f, "announce") \/ At(f, "advance") =>
           /\ GroupOf(f) \in Groups
           /\ run[f].hand.from \in Nat /\ run[f].hand.to \in 0 .. MaxTracks
      /\ \A k \in DeluxeKeys : k[1] \in Groups
      /\ \A k \in DeluxeKeys : row[k].from \in Nat /\ row[k].to \in Nat
      /\ \A k \in DeluxeKeys : row[k] = NoRow => Covers(k) = {}
  <2>1. ASSUME NEW f \in Feeds, At(f, "announce") \/ At(f, "advance")
        PROVE  GroupOf(f) \in Groups /\ run[f].hand.from \in Nat /\ run[f].hand.to \in 0 .. MaxTracks
    BY <2>1, DetectionAssumption DEF At, GroupOf, TypeInv, TypeOK, Passes, Locals, Runs,
       Hands, DeluxeKeys
  <2>2. ASSUME NEW k \in DeluxeKeys
        PROVE  row[k].from \in Nat /\ row[k].to \in Nat /\ (row[k] = NoRow => Covers(k) = {})
    <3>1. row[k] \in Rows \/ row[k] = NoRow
      BY DEF TypeInv, TypeOK, Keys
    <3>. QED
      BY <3>1, DetectionAssumption DEF Rows, NoRow, Covers
  <2>. QED
    BY <2>1, <2>2, DetectionAssumption DEF TypeInv, TypeOK, DeluxeKeys
<1>1. ASSUME NEW f \in Feeds, RunStep(f) \/ Failure(f)
      PROVE  GrowthInv'
  <2>0. Others(f)
    BY <1>1, StepMoves, StepOthers
  <2>1. CASE Apart(f)
    <3>1. \A k \in DeluxeKeys : row'[k] = row[k] /\ Covers(k)' = Covers(k)
      BY <2>1 DEF Apart, Covers
    <3>2. \A h \in Feeds : At(h, "announce")' =>
            /\ At(h, "announce") /\ run'[h] = run[h]
            /\ GroupOf(h)' = GroupOf(h) /\ InHand(h)' = InHand(h)
      BY <2>0, <2>1, OthersHands DEF Apart, At
    <3>. QED
      BY <2>1, <3>1, <3>2 DEF Apart, GrowthInv
  <2>2. CASE Missed(f)
    <3>1. \A k \in DeluxeKeys : row'[k] = row[k] /\ Covers(k)' = Covers(k)
      BY <2>2 DEF Missed, Covers
    <3>2. \A h \in Feeds : At(h, "announce")' =>
            /\ At(h, "announce") /\ run'[h] = run[h]
            /\ GroupOf(h)' = GroupOf(h) /\ InHand(h)' = InHand(h)
      BY <2>0, <2>2, OthersHands DEF Missed, At
    <3>3. \A g \in Groups : baseline'[g] \in Nat /\ baseline[g] <= baseline'[g]
      BY <2>2, <1>0 DEF Missed
    <3>4. \A k \in DeluxeKeys : row'[k] # NoRow =>
            row'[k].from < row'[k].to /\ row'[k].to <= baseline'[k[1]]
      BY <1>0, <3>1, <3>3 DEF GrowthInv
    <3>5. \A h \in Feeds : At(h, "announce")' =>
            run'[h].hand.from < run'[h].hand.to /\ run'[h].hand.to <= baseline'[GroupOf(h)]
      BY <1>0, <3>2, <3>3 DEF GrowthInv
    <3>. QED
      BY <3>1, <3>2, <3>4, <3>5 DEF GrowthInv
  <2>3. CASE Found(f)
    <3>. DEFINE g   == GroupOf(f)
                old == baseline[g]
                new == run[f].hand.to
    <3>0. g \in Groups /\ old \in Nat /\ new \in Nat /\ old < new
      BY <1>0, <2>3 DEF Found
    <3>1. \A k \in DeluxeKeys : row'[k] = row[k] /\ Covers(k)' = Covers(k)
      BY <2>3 DEF Found, Covers
    <3>2. /\ GroupOf(f)' = g /\ InHand(f)' = (old + 1) .. new
          /\ run'[f].hand.from = old /\ run'[f].hand.to = new
      <4>1. run[f].hand \in Hands
        BY DEF TypeInv, TypeOK, Runs
      <4>2. /\ run'[f].hand.key = run[f].hand.key
            /\ run'[f].hand.from = old /\ run'[f].hand.to = new
        BY <2>3, <4>1 DEF Found, Hands
      <4>. QED
        BY <4>2 DEF InHand, GroupOf
    <3>3. \A x \in Groups : baseline'[x] \in Nat /\ baseline[x] <= baseline'[x]
      BY <2>3, <1>0, <3>0 DEF Found
    <3>4. baseline'[g] = new
      BY <2>3, <1>0, <3>0 DEF Found
    <3>5. \A k \in DeluxeKeys : k[1] = g => Covers(k) \cap (old + 1) .. new = {}
      <4>. SUFFICES ASSUME NEW k \in DeluxeKeys, k[1] = g, row[k] # NoRow
                    PROVE  Covers(k) \cap (old + 1) .. new = {}
        BY <1>0
      <4>1. row[k].to <= old /\ row[k].to \in Nat /\ row[k].from \in Nat
        BY <1>0 DEF GrowthInv
      <4>. QED
        BY <4>1, <3>0 DEF Covers
    <3>6. \A h \in Feeds : At(h, "announce") /\ GroupOf(h) = g =>
            InHand(h) \cap (old + 1) .. new = {}
      <4>. SUFFICES ASSUME NEW h \in Feeds, At(h, "announce"), GroupOf(h) = g
                    PROVE  InHand(h) \cap (old + 1) .. new = {}
        OBVIOUS
      <4>1. run[h].hand.to <= old /\ run[h].hand.to \in Nat /\ run[h].hand.from \in Nat
        BY <1>0 DEF GrowthInv
      <4>. QED
        BY <4>1, <3>0 DEF InHand
    <3>. HIDE DEF g, old, new
    <3>7. \A k \in DeluxeKeys : row'[k] # NoRow =>
            row'[k].from < row'[k].to /\ row'[k].to <= baseline'[k[1]]
      BY <1>0, <3>1, <3>3 DEF GrowthInv
    <3>8. ASSUME NEW h \in Feeds, At(h, "announce")'
          PROVE  /\ run'[h].hand.from < run'[h].hand.to
                 /\ run'[h].hand.to <= baseline'[GroupOf(h)']
      <4>1. CASE h = f
        BY <3>0, <3>2, <3>4, <4>1
      <4>2. CASE h # f
        BY <1>0, <2>0, <3>3, <3>8, <4>2, OthersHands DEF GrowthInv
      <4>. QED
        BY <4>1, <4>2
    <3>9. \A k, m \in DeluxeKeys : k # m /\ k[1] = m[1] => Covers(k)' \cap Covers(m)' = {}
      BY <3>1 DEF GrowthInv
    <3>10. ASSUME NEW h \in Feeds, NEW k \in DeluxeKeys, At(h, "announce")', k[1] = GroupOf(h)'
           PROVE  Covers(k)' \cap InHand(h)' = {}
      <4>1. CASE h = f
        BY <3>1, <3>2, <3>5, <3>10, <4>1
      <4>2. CASE h # f
        BY <2>0, <3>1, <3>10, <4>2, OthersHands DEF GrowthInv
      <4>. QED
        BY <4>1, <4>2
    <3>11. ASSUME NEW e \in Feeds, NEW h \in Feeds, e # h, At(e, "announce")',
                  At(h, "announce")', GroupOf(e)' = GroupOf(h)'
           PROVE  InHand(e)' \cap InHand(h)' = {}
      <4>1. CASE e = f
        <5>1. At(h, "announce") /\ GroupOf(h) = g /\ InHand(h)' = InHand(h)
          BY <2>0, <3>2, <3>11, <4>1, OthersHands
        <5>. QED
          BY <3>2, <3>6, <4>1, <5>1
      <4>2. CASE h = f
        <5>1. At(e, "announce") /\ GroupOf(e) = g /\ InHand(e)' = InHand(e)
          BY <2>0, <3>2, <3>11, <4>2, OthersHands
        <5>. QED
          BY <3>2, <3>6, <4>2, <5>1
      <4>3. CASE e # f /\ h # f
        BY <2>0, <3>11, <4>3, OthersHands DEF GrowthInv
      <4>. QED
        BY <4>1, <4>2, <4>3
    <3>. QED
      BY <3>7, <3>8, <3>9, <3>10, <3>11 DEF GrowthInv
  <2>4. CASE Told(f)
    <3>. DEFINE k == run[f].hand.key
    <3>1. k \in DeluxeKeys /\ At(f, "announce") /\ baseline' = baseline /\ k[1] = GroupOf(f)
      BY <2>4 DEF Told, GroupOf, At, TypeInv, Passes, Locals
    <3>2. \A m \in DeluxeKeys :
            /\ row'[m] = IF m = k /\ row[m] = NoRow THEN NewRow(f, m) ELSE row[m]
            /\ Covers(m)' = IF m = k /\ row[m] = NoRow THEN InHand(f) ELSE Covers(m)
      BY <2>4, CoversChange
    <3>3. \A h \in Feeds : At(h, "announce")' =>
            /\ At(h, "announce") /\ run'[h] = run[h] /\ h # f
            /\ GroupOf(h)' = GroupOf(h) /\ InHand(h)' = InHand(h)
      BY <2>0, <2>4, OthersHands DEF Told, At
    <3>4. /\ run[f].hand.from < run[f].hand.to
          /\ run[f].hand.to <= baseline[k[1]]
          /\ NewRow(f, k).from = run[f].hand.from /\ NewRow(f, k).to = run[f].hand.to
      BY <3>1 DEF GrowthInv, NewRow
    <3>. HIDE DEF k
    <3>5. \A m \in DeluxeKeys : row'[m] # NoRow =>
            row'[m].from < row'[m].to /\ row'[m].to <= baseline'[m[1]]
      BY <3>1, <3>2, <3>4 DEF GrowthInv
    <3>6. \A h \in Feeds : At(h, "announce")' =>
            /\ run'[h].hand.from < run'[h].hand.to
            /\ run'[h].hand.to <= baseline'[GroupOf(h)']
      BY <3>1, <3>3 DEF GrowthInv
    <3>7. ASSUME NEW l \in DeluxeKeys, NEW m \in DeluxeKeys, l # m, l[1] = m[1]
          PROVE  Covers(l)' \cap Covers(m)' = {}
      <4>1. /\ Covers(l) \cap Covers(m) = {}
            /\ l[1] = GroupOf(f) => Covers(l) \cap InHand(f) = {}
            /\ m[1] = GroupOf(f) => Covers(m) \cap InHand(f) = {}
        BY <3>1, <3>7 DEF GrowthInv
      <4>. QED
        BY <3>1, <3>2, <3>7, <4>1
    <3>8. ASSUME NEW h \in Feeds, NEW m \in DeluxeKeys, At(h, "announce")', m[1] = GroupOf(h)'
          PROVE  Covers(m)' \cap InHand(h)' = {}
      <4>1. /\ Covers(m) \cap InHand(h) = {}
            /\ GroupOf(f) = GroupOf(h) => InHand(f) \cap InHand(h) = {}
            /\ InHand(h)' = InHand(h) /\ m[1] = GroupOf(h)
        BY <3>1, <3>3, <3>8 DEF GrowthInv
      <4>. QED
        BY <3>1, <3>2, <4>1
    <3>9. \A e, h \in Feeds :
            e # h /\ At(e, "announce")' /\ At(h, "announce")' /\ GroupOf(e)' = GroupOf(h)' =>
              InHand(e)' \cap InHand(h)' = {}
      BY <3>3 DEF GrowthInv
    <3>. QED
      BY <3>5, <3>6, <3>7, <3>8, <3>9 DEF GrowthInv
  <2>. QED
    BY <1>1, <2>1, <2>2, <2>3, <2>4, StepGrowth
<1>2. CASE Crash
  <2>1. \A h \in Feeds : ~At(h, "announce")'
    BY <1>2 DEF Crash, At, NoRun
  <2>2. UNCHANGED <<row, baseline>>
    BY <1>2 DEF Crash, table
  <2>. QED
    BY <2>1, <2>2 DEF GrowthInv, Covers
<1>3. ASSUME UNCHANGED <<row, baseline, run>> PROVE GrowthInv'
  BY <1>3 DEF GrowthInv, Covers, InHand, GroupOf, At
<1>. QED
  BY <1>1, <1>2, <1>3 DEF Next, Publishes, Edits, vars, table

\* No growth of a track list is announced twice, for any feeds on the same group
\* and any edits (musicbrainz.go:332-364).
THEOREM GrowthIsToldOnce == Spec => []NoGrowthTwice
<1>1. GrowthInv => NoGrowthTwice
  BY DEF GrowthInv, NoGrowthTwice
<1>2. Spec => [](TypeInv /\ GrowthInv)
  BY TypeInit, TypeStep, GrowthInit, GrowthStep, PTL DEF Spec
<1>. QED
  BY <1>1, <1>2, PTL

Remembered == \A g \in Groups : \A n \in 1 .. baseline[g] : Known(g, n)

LEMMA RememberedStep == TypeInv /\ Remembered /\ [Next]_vars => Remembered'
<1>. SUFFICES ASSUME TypeInv, Remembered, [Next]_vars,
                     NEW g \in Groups, NEW n \in 1 .. baseline'[g]
              PROVE  Known(g, n)'
  BY DEF Remembered
<1>0. \A e \in Editions : <<g, e>> \in DeluxeKeys /\ <<g, e>>[1] = g
  BY DEF DeluxeKeys
<1>1. ASSUME NEW f \in Feeds, RunStep(f) \/ Failure(f)
      PROVE  Known(g, n)'
  <2>0. Others(f) /\ unannounced[g] \subseteq unannounced'[g]
    BY <1>1, StepMoves, StepOthers, StepGrowth DEF Remembers
  <2>. DEFINE Lost    == n \in unannounced[g]
              InEvent == \E k \in {g} \X Editions : n \in Covers(k)
              Held    == \E h \in Feeds : At(h, "announce") /\ GroupOf(h) = g /\ n \in InHand(h)
  <2>1. CASE Lost
    BY <2>0, <2>1 DEF Known
  <2>2. ASSUME NEW h \in Feeds, h # f, At(h, "announce"), GroupOf(h) = g, n \in InHand(h)
        PROVE  Known(g, n)'
    BY <2>0, <2>2, OthersHands DEF Known
  <2>3. ASSUME \A m \in DeluxeKeys : Covers(m)' = Covers(m), InEvent
        PROVE  Known(g, n)'
    BY <1>0, <2>3 DEF Known
  <2>4. CASE Apart(f)
    <3>1. \A m \in DeluxeKeys : Covers(m)' = Covers(m)
      BY <2>4 DEF Apart, Covers
    <3>2. Known(g, n)
      BY <2>4 DEF Apart, Remembered
    <3>3. ASSUME At(f, "announce"), GroupOf(f) = g, n \in InHand(f)
          PROVE  n \in unannounced'[g]
      BY <2>4, <3>3 DEF Apart
    <3>. QED
      BY <2>1, <2>2, <2>3, <3>1, <3>2, <3>3 DEF Known
  <2>5. CASE Missed(f)
    <3>1. \A m \in DeluxeKeys : Covers(m)' = Covers(m)
      BY <2>5 DEF Missed, Covers
    <3>2. ~At(f, "announce")
      BY <2>5 DEF Missed, At
    <3>3. CASE n \in 1 .. baseline[g]
      BY <2>1, <2>2, <2>3, <3>1, <3>2, <3>3 DEF Known, Remembered
    <3>4. CASE n \notin 1 .. baseline[g]
      <4>1. /\ baseline \in [Groups -> 0 .. MaxTracks] /\ MaxTracks \in Nat
            /\ run[f].hand.to \in 0 .. MaxTracks
        BY DetectionAssumption DEF TypeInv, TypeOK, Runs, Hands
      <4>2. GroupOf(f) = g /\ n \in (baseline[g] + 1) .. run[f].hand.to
        BY <2>5, <3>4, <4>1 DEF Missed
      <4>3. n \in unannounced'[g]
        BY <2>5, <4>2 DEF Missed
      <4>. QED
        BY <4>3 DEF Known
    <3>. QED
      BY <3>3, <3>4
  <2>6. CASE Found(f)
    <3>1. \A m \in DeluxeKeys : Covers(m)' = Covers(m)
      BY <2>6 DEF Found, Covers
    <3>2. ~At(f, "announce")
      BY <2>6 DEF Found, At
    <3>3. CASE n \in 1 .. baseline[g]
      BY <2>1, <2>2, <2>3, <3>1, <3>2, <3>3 DEF Known, Remembered
    <3>4. CASE n \notin 1 .. baseline[g]
      <4>1. /\ baseline \in [Groups -> 0 .. MaxTracks] /\ MaxTracks \in Nat
            /\ run[f].hand \in Hands /\ run[f].hand.to \in 0 .. MaxTracks
        BY DetectionAssumption DEF TypeInv, TypeOK, Runs, Hands
      <4>2. GroupOf(f) = g /\ n \in (baseline[g] + 1) .. run[f].hand.to
        BY <2>6, <3>4, <4>1 DEF Found
      <4>3. /\ run'[f].hand.key = run[f].hand.key
            /\ run'[f].hand.from = baseline[g] /\ run'[f].hand.to = run[f].hand.to
        BY <2>6, <4>1, <4>2 DEF Found, Hands
      <4>4. At(f, "announce")' /\ GroupOf(f)' = g /\ n \in InHand(f)'
        BY <2>6, <4>2, <4>3 DEF Found, At, GroupOf, InHand
      <4>. QED
        BY <4>4 DEF Known
    <3>. QED
      BY <3>3, <3>4
  <2>7. CASE Told(f)
    <3>. DEFINE k == run[f].hand.key
    <3>1. k \in DeluxeKeys /\ Known(g, n)
      BY <2>7 DEF Told, At, TypeInv, Passes, Locals, Remembered
    <3>2. CASE InEvent
      <4>1. PICK e \in Editions : n \in Covers(<<g, e>>)
        BY <3>2
      <4>2. row[<<g, e>>] # NoRow
        BY <4>1 DEF Covers, NoRow
      <4>3. n \in Covers(<<g, e>>)'
        BY <1>0, <2>7, <4>1, <4>2, CoversChange
      <4>. QED
        BY <4>3 DEF Known
    <3>3. ASSUME GroupOf(f) = g, n \in InHand(f)
          PROVE  Known(g, n)'
      <4>1. CASE row[k] # NoRow
        BY <2>7, <3>3, <4>1 DEF Told, Known
      <4>2. CASE row[k] = NoRow
        <5>1. PICK e \in Editions : k = <<g, e>>
          BY <3>1, <3>3 DEF DeluxeKeys, GroupOf
        <5>2. n \in Covers(<<g, e>>)'
          BY <1>0, <2>7, <3>3, <4>2, <5>1, CoversChange
        <5>. QED
          BY <5>2 DEF Known
      <4>. QED
        BY <4>1, <4>2
    <3>. QED
      BY <2>1, <2>2, <3>1, <3>2, <3>3 DEF Known
  <2>. QED
    BY <1>1, <2>4, <2>5, <2>6, <2>7, StepGrowth
<1>2. CASE Crash
  <2>1. UNCHANGED <<row, baseline>> /\ unannounced' = Dropped(Feeds)
    BY <1>2 DEF Crash, table
  <2>2. Known(g, n)
    BY <2>1 DEF Remembered
  <2>3. \A f \in Feeds : At(f, "announce") /\ GroupOf(f) = g /\ n \in InHand(f)
          => n \in Dropped(Feeds)[g]
    BY DEF Dropped, GroupOf
  <2>4. unannounced[g] \subseteq Dropped(Feeds)[g]
    BY DroppedIsTyped
  <2>5. \A k \in {g} \X Editions : Covers(k)' = Covers(k)
    BY <2>1 DEF Covers
  <2>. QED
    BY <2>1, <2>2, <2>3, <2>4, <2>5 DEF Known
<1>3. CASE UNCHANGED <<row, baseline, run, unannounced>>
  BY <1>3 DEF Remembered, Known, Covers, InHand, GroupOf, At
<1>. QED
  BY <1>1, <1>2, <1>3 DEF Next, Publishes, Edits, vars, table

\* No growth is dropped without one of the known reasons, for any feeds, edits
\* and failures (musicbrainz.go:332-364).
THEOREM GrowthIsAccountedFor == Spec => []NoGrowthForgotten
<1>1. Init => Remembered
  BY DEF Init, Remembered
<1>2. Spec => [](TypeInv /\ Remembered)
  BY <1>1, TypeInit, TypeStep, RememberedStep, PTL DEF Spec
<1>3. Remembered => NoGrowthForgotten
  BY ForgottenIsUnknown DEF Remembered
<1>. QED
  BY <1>2, <1>3, PTL
=============================================================================
