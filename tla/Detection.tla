------------------------------ MODULE Detection ------------------------------
(***************************************************************************)
(* internal/detection: what one poll of one feed records in the events     *)
(* table.  A feed is an artist at a source: seed mode, the seen ids and    *)
(* the namespace of ids are all per source, and a Deezer feed is one that  *)
(* only ever wants new_release.  Feeds run concurrently and may share      *)
(* groups and songs, for the dedup key does not name the artist.           *)
(*                                                                         *)
(* The passes of a run: new releases, guest features, deluxe changes.  One *)
(* step is one call to Postgres, together with the upstream read before it *)
(* where nothing can come between that matters.                            *)
(***************************************************************************)
EXTENDS Integers, FiniteSets

CONSTANTS
  Feeds, Nobody,
  Groups, Songs,  \* release groups (albums) and recordings
  Editions,       \* the releases of a group
  Discography,    \* [Feeds -> SUBSET Groups]
  Appearances,    \* [Feeds -> SUBSET Songs]: those isGuestFeature keeps
  Filtered,       \* groups of a type the operator does not want
  Old,            \* groups and songs, editions too, outside the notify window
  Ancient,        \* groups outside the deluxe recheck window
  Preferences,    \* [Feeds -> sets of event types]: what a run may find wanted,
                  \* for the operator changes it between runs
  LookupCap,      \* maxNewGuestFeatureLookupsPerCycle
  MaxTracks,      \* bound: tracks of an edition
  MaxFaults       \* bound: failed calls and crashes

DeluxeKeys == Groups \X Editions
Keys       == Groups \cup Songs \cup DeluxeKeys
Kinds      == {"new_release", "guest_feature", "deluxe_change"}

ASSUME DetectionAssumption ==
  /\ Nobody \notin Feeds
  /\ Discography \in [Feeds -> SUBSET Groups]
  /\ Appearances \in [Feeds -> SUBSET Songs]
  /\ Groups \cap Songs = {} /\ (Groups \cup Songs) \cap DeluxeKeys = {}
  /\ Filtered \subseteq Groups /\ Old \subseteq Keys /\ Ancient \subseteq Groups
  /\ Preferences \in [Feeds -> SUBSET SUBSET Kinds]
  /\ LookupCap \in Nat \ {0} /\ MaxTracks \in Nat /\ MaxFaults \in Nat

VARIABLES
  published,    \* upstream: the groups and songs that exist
  tracks,       \* upstream: the track count of each edition, 0 if it has none
  row,          \* events, by dedup key
  baseline,     \* track_count of a group's new_release row, 0 for NULL
  run,          \* the locals of each feed's run
  unannounced,  \* observed: track counts the baseline passed without a row
  faults        \* failures so far, bounded by MaxFaults

upstream == <<published, tracks>>
table    == <<row, baseline>>
vars     == <<upstream, table, run, unannounced, faults>>

\* by is artist_id; queued is notified_at NULL at the insert; from and to are
\* previous_track_count and track_count of a deluxe_change.
Rows  == [by : Feeds, queued : BOOLEAN, from : 0 .. MaxTracks, to : 0 .. MaxTracks]
NoRow == [by |-> Nobody, queued |-> FALSE, from |-> 0, to |-> 0]

\* The locals of a run; inserted is what the code counts, hand the group, the
\* winning edition and the counts of the deluxe change being handled.
NoHand == [key |-> <<>>, from |-> 0, to |-> 0]
NoRun ==
  [at |-> "idle", wanted |-> {}, fresh |-> {}, seed |-> FALSE, seen |-> {},
   todo |-> {}, spent |-> 0, inserted |-> {}, hand |-> NoHand]

Init ==
  /\ published = {} /\ tracks = [k \in DeluxeKeys |-> 0]
  /\ row = [k \in Keys |-> NoRow] /\ baseline = [g \in Groups |-> 0]
  /\ run = [f \in Feeds |-> NoRun]
  /\ unannounced = [g \in Groups |-> {}] /\ faults = 0

-----------------------------------------------------------------------------

RowsOf(f) == {k \in Keys : row[k].by = f}

At(f, label) == run[f].at = label

\* Mutant: seed mode is read again before each row.
SeedNow(f) == RowsOf(f) = {}

\* notifyGate.seedMode, read once before any pass inserts.
Seed(f) == run[f].seed

\* notifyGate.notifiedAt is NULL
Queued(f, k) == ~Seed(f) /\ k \notin Old

NewRow(f, k) ==
  [by |-> f, queued |-> Queued(f, k), from |-> run[f].hand.from, to |-> run[f].hand.to]

\* Mutant: an upsert that refreshes the row.
InsertedOver(f, k) == [row EXCEPT ![k] = NewRow(f, k)]

\* INSERT ... ON CONFLICT (event_type, source, external_id) DO NOTHING
Inserted(f, k) == IF row[k] = NoRow THEN [row EXCEPT ![k] = NewRow(f, k)] ELSE row

\* Mutant: one lookup too many.
HasBudgetLate(f) == run[f].spent <= LookupCap

\* Mutant: a song recorded in an earlier cycle costs a lookup as well.
HasBudgetWithSeen(f) ==
  run[f].spent + Cardinality((RowsOf(f) \cap Songs) \ run[f].inserted) < LookupCap

\* lookupCount < maxNewGuestFeatureLookupsPerCycle
HasBudget(f) == run[f].spent < LookupCap

Deluxe(f) ==
  IF "deluxe_change" \in run[f].wanted
  THEN (run[f].fresh \cap run[f].seen) \ Ancient ELSE {}

\* The deluxe pass re-examines what was already seen when the run began.
ToDeluxe(f) ==
  run' = [run EXCEPT ![f].at = "deluxe", ![f].todo = Deluxe(f)]

Leave(f) == run' = [run EXCEPT ![f] = NoRun]

\* The greatest track count among the editions of g.
MostTracks(g) ==
  CHOOSE n \in 0 .. MaxTracks :
    /\ \E e \in Editions : tracks[<<g, e>>] = n
    /\ \A e \in Editions : tracks[<<g, e>>] <= n

\* Mutant: the UPDATE has no condition.
AdvancesAlways(old, new) == TRUE

\* AND (existing.track_count IS NULL OR $2 > existing.track_count)
Grows(old, new) == new > old

\* Mutant: previous_track_count comes back NULL.
HadBaselineNever(old) == FALSE

HadBaseline(old) == old > 0

\* The counts in hand: those the event being handled is about.
InHand(f) == (run[f].hand.from + 1) .. run[f].hand.to

\* The row of a growth is keyed by the winning edition: when that one has a row
\* already the insert does nothing, and the growth goes unannounced.
Announced(f) ==
  LET k == run[f].hand.key
  IN  /\ row' = Inserted(f, k)
      /\ unannounced' = IF row[k] = NoRow THEN unannounced
                        ELSE [unannounced EXCEPT ![k[1]] = @ \cup InHand(f)]

Fault == faults < MaxFaults /\ faults' = faults + 1

-----------------------------------------------------------------------------
(* New releases                                                            *)

\* A worker of the poller fetches the catalogue of the feed.
Starts(f) ==
  /\ At(f, "idle")
  /\ \E wanted \in Preferences[f] :
       run' = [run EXCEPT ![f].at = "open", ![f].wanted = wanted,
                          ![f].fresh = Discography[f] \cap published]
  /\ UNCHANGED <<upstream, table, unannounced, faults>>

\* isSeedMode and seenExternalIDs, once.
Opens(f) ==
  /\ At(f, "open")
  /\ LET seen == RowsOf(f) \cap Groups
     IN  run' = [run EXCEPT
           ![f].at = "groups", ![f].seed = RowsOf(f) = {}, ![f].seen = seen,
           ![f].todo = IF "new_release" \in run[f].wanted
                       THEN run[f].fresh \ (seen \cup Filtered) ELSE {}]
  /\ UNCHANGED <<upstream, table, unannounced, faults>>

\* The insert of one row of this pass or the next, with its count.
InsertsOne(f, k) ==
  /\ row' = Inserted(f, k)
  /\ run' = [run EXCEPT
       ![f].todo = @ \ {k},
       ![f].spent = IF k \in Songs THEN @ + 1 ELSE @,
       ![f].inserted = IF row[k] = NoRow THEN @ \cup {k} ELSE @]
  /\ UNCHANGED <<upstream, baseline, unannounced, faults>>

RecordsGroup(f) ==
  /\ At(f, "groups")
  /\ \E g \in run[f].todo : InsertsOne(f, g)

GroupsDone(f) ==
  /\ At(f, "groups") /\ run[f].todo = {}
  /\ IF "guest_feature" \in run[f].wanted
     THEN run' = [run EXCEPT ![f].at = "browse"]
     ELSE ToDeluxe(f)
  /\ UNCHANGED <<upstream, table, unannounced, faults>>

-----------------------------------------------------------------------------
(* Guest features                                                          *)

Browses(f) ==
  /\ At(f, "browse")
  /\ run' = [run EXCEPT ![f].at = "songs",
                        ![f].todo = (Appearances[f] \cap published) \ RowsOf(f)]
  /\ UNCHANGED <<upstream, table, unannounced, faults>>

\* A failed browse must not cost the other passes.
BrowseFails(f) ==
  /\ At(f, "browse") /\ Fault
  /\ ToDeluxe(f)
  /\ UNCHANGED <<upstream, table, unannounced>>

\* ReleasesForRecording answers and the row is inserted.
RecordsSong(f) ==
  /\ At(f, "songs") /\ HasBudget(f)
  /\ \E s \in run[f].todo : InsertsOne(f, s)

\* It does not: the song is left for the next cycle, the lookup is spent.
LookupFails(f) ==
  /\ At(f, "songs") /\ HasBudget(f) /\ Fault
  /\ \E s \in run[f].todo :
       run' = [run EXCEPT ![f].todo = @ \ {s}, ![f].spent = @ + 1]
  /\ UNCHANGED <<upstream, table, unannounced>>

\* Past the budget the rest is skipped, not marked as seen.
SongsDone(f) ==
  /\ At(f, "songs") /\ (run[f].todo = {} \/ ~HasBudget(f))
  /\ ToDeluxe(f)
  /\ UNCHANGED <<upstream, table, unannounced, faults>>

-----------------------------------------------------------------------------
(* Deluxe changes                                                          *)

\* ReleasesByReleaseGroup; of several editions with the greatest count the
\* first in upstream order wins.
Measures(f) ==
  /\ At(f, "deluxe")
  /\ \E g \in run[f].todo :
       \/ /\ MostTracks(g) = 0
          /\ run' = [run EXCEPT ![f].todo = @ \ {g}]
       \/ /\ MostTracks(g) > 0
          /\ \E e \in Editions :
               /\ tracks[<<g, e>>] = MostTracks(g)
               /\ run' = [run EXCEPT
                    ![f].at = "advance", ![f].todo = @ \ {g},
                    ![f].hand = [key |-> <<g, e>>, from |-> 0, to |-> MostTracks(g)]]
  /\ UNCHANGED <<upstream, table, unannounced, faults>>

MeasureFails(f) ==
  /\ At(f, "deluxe") /\ Fault
  /\ \E g \in run[f].todo : run' = [run EXCEPT ![f].todo = @ \ {g}]
  /\ UNCHANGED <<upstream, table, unannounced>>

\* AdvanceGroupTrackCountBaseline: compare and set in one statement.  The first
\* measurement is silent, a growth is to be announced, the rest is ignored.
Advances(f) ==
  LET g   == run[f].hand.key[1]
      old == baseline[g]
      new == run[f].hand.to
  IN
  /\ At(f, "advance")
  /\ IF Grows(old, new)
     THEN /\ baseline' = [baseline EXCEPT ![g] = new]
          /\ IF HadBaseline(old)
             THEN /\ run' = [run EXCEPT ![f].at = "announce", ![f].hand.from = old]
                  /\ UNCHANGED unannounced
             ELSE /\ run' = [run EXCEPT ![f].at = "deluxe", ![f].hand = NoHand]
                  /\ unannounced' = IF old = 0
                       THEN [unannounced EXCEPT ![g] = @ \cup 1 .. new]
                       ELSE unannounced
     ELSE /\ run' = [run EXCEPT ![f].at = "deluxe", ![f].hand = NoHand]
          /\ UNCHANGED <<baseline, unannounced>>
  /\ UNCHANGED <<upstream, row, faults>>

Announces(f) ==
  LET k == run[f].hand.key
  IN
  /\ At(f, "announce")
  /\ Announced(f)
  /\ run' = [run EXCEPT
       ![f].at = "deluxe", ![f].hand = NoHand,
       ![f].inserted = IF row[k] = NoRow THEN @ \cup {k} ELSE @]
  /\ UNCHANGED <<upstream, baseline, faults>>

Finishes(f) ==
  /\ At(f, "deluxe") /\ run[f].todo = {}
  /\ Leave(f)
  /\ UNCHANGED <<upstream, table, unannounced, faults>>

-----------------------------------------------------------------------------
(* A statement fails, or its answer is lost: the run returns its error.    *)

\* What is in hand after the baseline has moved is announced by nobody.
Dropped(fs) ==
  [g \in Groups |-> unannounced[g] \cup
     UNION {InHand(f) : f \in {f \in fs : At(f, "announce") /\ run[f].hand.key[1] = g}}]

\* f is about to insert one of todo.
Inserting(f) ==
  run[f].todo # {} /\ (At(f, "groups") \/ (At(f, "songs") /\ HasBudget(f)))

CallFails(f) ==
  /\ run[f].at \in {"open", "browse", "advance", "announce"} \/ Inserting(f)
  /\ Fault /\ Leave(f)
  /\ unannounced' = Dropped({f})
  /\ UNCHANGED <<upstream, table>>

\* The row is there all the same.
InsertUnheard(f) ==
  /\ \/ /\ Inserting(f)
        /\ \E k \in run[f].todo : row' = Inserted(f, k)
        /\ UNCHANGED unannounced
     \/ /\ At(f, "announce")
        /\ Announced(f)
  /\ Fault /\ Leave(f)
  /\ UNCHANGED <<upstream, baseline>>

\* The baseline has moved all the same.
AdvanceUnheard(f) ==
  LET g == run[f].hand.key[1]
      n == run[f].hand.to
  IN
  /\ At(f, "advance") /\ Grows(baseline[g], n)
  /\ Fault /\ Leave(f)
  /\ baseline' = [baseline EXCEPT ![g] = n]
  /\ unannounced' = [unannounced EXCEPT ![g] = @ \cup (baseline[g] + 1) .. n]
  /\ UNCHANGED <<upstream, row>>

Crash ==
  /\ Fault
  /\ run' = [f \in Feeds |-> NoRun]
  /\ unannounced' = Dropped(Feeds)
  /\ UNCHANGED <<upstream, table>>

-----------------------------------------------------------------------------

Publishes(k) ==
  /\ k \notin published
  /\ published' = published \cup {k}
  /\ UNCHANGED <<tracks, table, run, unannounced, faults>>

\* Editors add editions and tracks, and take them away.
Edits(k, n) ==
  /\ k[1] \in published /\ tracks[k] # n
  /\ tracks' = [tracks EXCEPT ![k] = n]
  /\ UNCHANGED <<published, table, run, unannounced, faults>>

RunStep(f) ==
  \/ Starts(f) \/ Opens(f) \/ RecordsGroup(f) \/ GroupsDone(f)
  \/ Browses(f) \/ RecordsSong(f) \/ SongsDone(f)
  \/ Measures(f) \/ Advances(f) \/ Announces(f) \/ Finishes(f)

Failure(f) ==
  \/ BrowseFails(f) \/ LookupFails(f) \/ MeasureFails(f)
  \/ CallFails(f) \/ InsertUnheard(f) \/ AdvanceUnheard(f)

Next ==
  \/ \E f \in Feeds : RunStep(f) \/ Failure(f)
  \/ Crash
  \/ \E k \in Groups \cup Songs : Publishes(k)
  \/ \E k \in DeluxeKeys, n \in 0 .. MaxTracks : Edits(k, n)

Spec == Init /\ [][Next]_vars

\* The poller comes back to every feed, and every call in a run is bounded by a
\* timeout; failures come to an end.
FairSpec == Spec /\ \A f \in Feeds : WF_vars(RunStep(f))

-----------------------------------------------------------------------------
(* Properties                                                              *)

Labels ==
  {"idle", "open", "groups", "browse", "songs", "deluxe", "advance", "announce"}

Hands == [key : DeluxeKeys \cup {<<>>}, from : 0 .. MaxTracks, to : 0 .. MaxTracks]

Runs ==
  [at : Labels, wanted : SUBSET Kinds, fresh : SUBSET Groups, seed : BOOLEAN,
   seen : SUBSET Groups, todo : SUBSET (Groups \cup Songs), spent : 0 .. LookupCap,
   inserted : SUBSET Keys, hand : Hands]

\* Types; a run never spends more lookups than its cap.
TypeOK ==
  /\ published \subseteq Groups \cup Songs
  /\ tracks \in [DeluxeKeys -> 0 .. MaxTracks]
  /\ row \in [Keys -> Rows \cup {NoRow}]
  /\ baseline \in [Groups -> 0 .. MaxTracks]
  /\ run \in [Feeds -> Runs]
  /\ unannounced \in [Groups -> SUBSET (1 .. MaxTracks)]
  /\ faults \in 0 .. MaxFaults

\* Back catalogue never reaches Discord: while the first run that records
\* anything for a feed is under way none of its rows is queued, whichever pass
\* inserts it, and no later run queues what is outside the notify window
\* (detector.go:102-140, musicbrainz.go:43-45).
QueuedIsNews ==
  /\ \A k \in Keys : row[k].queued => k \notin Old
  /\ \A f \in Feeds :
       RowsOf(f) \subseteq run[f].inserted => \A k \in RowsOf(f) : ~row[k].queued

\* A recorded event keeps its first snapshot and its artist, also when another
\* artist's run records the same release (D-20, queries/events.sql:1-15).
RowsAreWriteOnce ==
  [][\A k \in Keys : row[k] # NoRow => row'[k] = row[k]]_row

Covers(k) == (row[k].from + 1) .. row[k].to

\* No growth of a track list is announced twice, whatever editors do to the
\* counts: the events of a group are about disjoint ranges of tracks
\* (musicbrainz.go:337-340).
NoGrowthTwice ==
  \A k, m \in DeluxeKeys :
    /\ row[k] # NoRow => row[k].from < row[k].to
    /\ k # m /\ k[1] = m[1] => Covers(k) \cap Covers(m) = {}

\* No growth is dropped without one of the known reasons: each count that the
\* baseline has passed is in an event, in the hands of a run, or was the first
\* measurement, lost to a crash or a failed insert, or deduplicated.
NoGrowthForgotten ==
  \A g \in Groups :
    1 .. baseline[g] \subseteq
      unannounced[g] \cup (UNION {Covers(k) : k \in {g} \X Editions})
        \cup (UNION {InHand(f) : f \in {f \in Feeds : At(f, "announce")
                                                     /\ run[f].hand.key[1] = g}})

\* Every release and every guest appearance is recorded in the end, failed
\* lookups and the budget of a run notwithstanding: what is beyond the cap is
\* "retried next cycle" (musicbrainz.go:21-26).
EverythingIsRecorded ==
  \A f \in Feeds :
    \A k \in (Discography[f] \ Filtered) \cup Appearances[f] :
      k \in published ~> row[k] # NoRow
=============================================================================
