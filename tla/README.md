# Drop-Tracker in TLA+

Drop-Tracker watches a list of artists. Two pollers (MusicBrainz, Deezer) look
for new releases and insert them into an `events` table, which is the outbox of
a Discord notifier. A web client edits the watchlist, its tags and the settings
over HTTP. This directory holds models of the program, the TLC configurations
that check them, and proofs about them for TLAPS.

Check a model with `tlc -config notifier_delivery.cfg MCNotifier`, the proofs
of a module with `tlapm NotifierProofs.tla`; the other proof modules are
`PollCycleProofs`, `DetectionProofs`, `TagLinksProofs`, `PageProofs`,
`WatchlistProofs`, `WebProofs` and `ServerProofs`.

## Inventory

State, operations and interactions of every part; what is hard about it; what
makes it correct. `PROJECT.json` has the same list with files and status, and
the hazards at their lines.

| Part | State | Operations | Hard because | Correct when |
| --- | --- | --- | --- | --- |
| notifier | `notifying` flag; rows of `events`; the settings row | real-time pass at the end of each poll cycle; digest run on a 5-minute check | two pollers, the digest, the operator's PUT, Discord, Postgres, SIGTERM and crashes interleave at every call | one sender at a time; no event forgotten; duplicates only for a documented reason; the slot moves only when drained |
| digest scheduler | loop goroutine, stop channels | start with an immediate check, tick, stop within a deadline | a tick that finds the flag taken is skipped | a due digest completes in its grace window |
| digest chunking | none | group, pack, split under Discord's limit, cap at 20 | boundaries, oversized groups | chunks partition the rows |
| settings | singleton row: mode, cadence, slot record, watermark | GET, PUT with re-anchor, the digest's acks | re-anchor against a run in flight; DST | the slot record never announces a slot twice |
| poller | one guard per source; locals of a cycle | cron tick, dispatch, workers, join, notify, record, stop | overlap, cancellation at any point, bounded fan-out | one cycle at a time, honest outcome, the guard is always given back |
| pollruns | ring of 50 runs and a streak of skips per source | record run, record skip, snapshot | its limit | the newest runs without a gap |
| server wiring | contexts, deferred drains | start, signal, drain, close pool | order of the drains | nothing touches a closed pool |
| detection | rows of `events`, track-count baseline | seed or diff, insert, advance the baseline | a failure between two writes; two sources | a release is announced once, a seed never |
| watchlist | `artists`, `watchlist` rows | add, update, remove, bulk | statements without a transaction | idempotent adds, no half-applied update |
| tags | `tags`, `artist_tags`, cap trigger | attach, detach, rename, merge, delete, bulk | concurrent requests, trigger under row locks | the cap holds, merge loses nothing, no deadlock |
| events feed | none (cursor is the state) | filter, page by keyset | inserts between pages | no row twice, none skipped |
| artist art | image columns, activity gate | sweep yielding to polls, match | yields and then writes what it read | no picture is lost; one found is stored or looked for again |
| auth gate | signed tokens, throttle window | login, renew, verify, sweep | two expiries; window boundary | no session outlives 90 days |
| database | schema version, advisory lock | migrate with retry, readiness | two processes starting | migrated once; not ready when behind |
| web: tag vocabulary, Manage tags | names by id, a generation, the dialog's leaves | fetch, supersede, rename, merge, delete, attach | a tag changes while a fetch of all tags is in flight | loading ends; a stale answer never wins |
| web: watchlist rows | entries, pending controls, Undo toasts | list, toggle, note, chip, remove, add, undo | optimistic writes and lists of all rows overlap | the rows shown are the rows stored |
| web: bulk selection | ids, range anchor, bar, dialog, lock | select, range, four bulk requests, undo | the selection outlives the rows it was made of | a request is about what was on screen |
| web: filters and URL | typed query, URL, history, sticky cards | type, toggle, Back, rewrite tag ids | three copies of the filters, navigation that lands later | the copies agree at rest |
| web: artist search | box, timer, request | type, abort, answer | answers out of order | results of the text in the box |
| web: release feed | pages, cursor, Load more | page one, append, change filter | two kinds of request and inserts between pages | no gap, no double, nothing of another filter |
| web: operator page | one fetch, one save, the switch | fetch, refresh, save | clicks before a render, answers after an unmount | the switch ends on the saved row |
| web: sign-in | two signals, the cookie | 401, log in, log out, renew | answers of an earlier session | the passphrase is asked for with a reason |
| handlers, upstream clients, tools | none or a rate limiter | decode, call, encode | - | see the note in `PROJECT.json` |

How they interact: a poll cycle lists the watchlist, runs detection per artist
in a pool of goroutines, and calls the notifier under its own guard; the
digest scheduler calls the notifier on its own schedule; HTTP handlers write
the settings, watchlist and tag rows; everything meets in Postgres and in the
`notifying` flag. The web client opens a connection for each request, so that
requests of one page overlap and their answers come in any order.

## Modules

| Module | Models | Composition |
| --- | --- | --- |
| `DigestSchedule` | `internal/settings`: latest slot, grace, re-anchor | extended by `Notifier` |
| `Notifier` | `internal/notifier` with the rows it drains | extends `DigestSchedule`; `INSTANCE Outbox` as its abstract specification |
| `Outbox` | what the events table promises: record once, announce only what is pending, settle only what was announced | abstract |
| `NotifierProofs` | theorems about `Notifier` | |
| `MCNotifier`, `MCReanchor` | finite instances | |
| `PollCycle` | `poller.runCycle`, `Poller.Stop`, `pollruns` and the drain in `cmd/server/main.go` | |
| `PollCycleProofs` | theorems about `PollCycle` | |
| `MCPollCycle` | a finite instance | |
| `Detection` | `internal/detection` and the statements it runs on `events` | what a worker of `PollCycle` does in `Finishes`; its `Inserted` is `Notifier`'s `Record` |
| `DetectionProofs` | theorems about `Detection` | |
| `MCDetection` | finite instances | |
| `TagLinks` | `internal/tags` statement by statement, with the cap trigger and row locks | what one served write of `TagVocabulary`, `WatchlistRows` or `BulkSelection` is made of |
| `TagLinksProofs`, `MCTagLinks` | theorems about it, finite instances | |
| `WebClient` | maps, and what a request is | extended by the eight web modules |
| `TagVocabulary` | `useTagVocabulary.tsx`, Manage tags, the chips, `GET /tags` and the tag writes | |
| `WatchlistRows` | the rows of `routes/watchlist.tsx`, their controls, the watchlist table | |
| `BulkSelection` | `useBulkSelection.ts`, the action bar, the bulk endpoints | |
| `WatchlistFilters` | the filters of `routes/watchlist.tsx`, `useUrlParams.ts`, `watchlistView.ts` | |
| `ArtistSearch` | `SearchBox.tsx` | |
| `HistoryFeed` | `routes/history.tsx` and `GET /events` | |
| `SystemPage` | `routes/system.tsx`, `DigestSettings.tsx` | |
| `Session` | `authStore.ts`, `api.ts`, the passphrase screen, `internal/authgate` | |
| `PageProofs` | theorems about `Session`, `SystemPage`, `ArtistSearch`, `HistoryFeed`, `TagVocabulary` | |
| `MCWeb` | the eight web modules and `TagLinks`, side by side | |
| `WatchlistProofs` | theorems about `BulkSelection`, `WatchlistFilters`, `WatchlistRows` | stated of `MCWeb`'s specification |
| `WebProofs` | the type invariant of all of `MCWeb` | extends the three modules of proofs about its parts |
| `DigestCalendar` | `MostRecentSlot` of `settings/slot.go`, by calendar dates | `INSTANCE DigestSchedule` as its definition of the latest slot |
| `DigestChunks` | `notifier/digest_chunk.go`: group, pack, split, cap | what `Notifier` takes any non-empty subset for |
| `ArtistArt` | `internal/artistart`, `watchlist.Service.Add` statement by statement | what one served add of `WatchlistRows` is made of |
| `MCServer` | these three and `PollCycle`, side by side | |
| `ServerProofs` | theorems about `ArtistArt`, `DigestCalendar` and `DigestChunks` | |
| `MCLive` | a poll cycle, a feed of `Detection`, the notifier and the loading states of three web modules, side by side, with their fairness | |

### Notifier

One step is one call to Postgres or Discord, so that any other process, the
operator, a signal or a crash may come between two calls. `pc[p]` is the call a
pass is about to make: `settings`, `list`, `row` (next row: suppress it, or
re-read the mode), `send`, `ack`, and for the digest `recheck`. `batch[p]` is
what is left of the rows the pass listed; `out[p]` the rows of the message
Discord accepted whose ack is not done, which is what a crash forgets. `dig`
holds the other locals of a digest run: the rows listed, the chunks sent, the
slot computed at its start.

`copies`, `excuse` and `leaked` are observations that no action reads: how many
messages show an event, how many documented reasons there are to show it again,
and how many real-time messages went out since digest mode was turned on.

Abstractions. Message text is left out. A chunk is any non-empty subset of the
rows left; the cap is `MaxChunks`. The time budget and the cancelled wait at a
chunk boundary end a run like a failed send. The wait between two messages is
not a step of its own; a cancelled wait ends the pass like a cancelled call.
`Service.Update` computes its slot and writes the row in one step; the window
between the two is microseconds of local arithmetic. The clock is an instant in
a small set; the slots are parameters (`DailySlots`, `WeeklySlots`), so nothing
depends on the length of a day; `DigestCalendar` shows that `slot.go` finds them.

Failures: `ReadFails`, `PollerSendFails` and `DigesterSendFails` (with Discord
showing the message or not), `AckFails` (with the statement having taken effect
or not), `AckCancelled` (only the real-time ack runs under the cancelled
context), `Cancel` (SIGTERM), `Restart` and `Crash`. `MaxFaults` bounds their
number.

### PollCycle

One source: the other differs in its guard, its pool size and its skip
condition. `phase` is where the cycle behind the guard is, `worker[e]` what the
goroutine of artist `e` does, `results` the channel. The counters of the code
are the sets they count. `cycle.id` numbers the cycles of this source; the
code's counter is shared by both sources, so its ids only increase.
`Skippable` are the artists `shouldDispatch` turns down (no Deezer id).
A panic in a worker is recovered into an error result and so is `Finishes` with
`"error"`. `NotifyPending` is one step here, since `Notifier` has it in full.
`Signal`, `Drains`, `ClosesDrained`, `ClosesForced` are the shutdown of
`main.go`: the signal cancels the context of every cycle, cron still ticks until
`Poller.Stop`, and the pool closes after `Stop` returned, at its deadline if need
be. `Reboots` starts a process with an empty history. `MaxTicks` bounds ticks
and reboots together.

### Detection

A feed is an artist at a source. `run[f]` holds the locals of its run, `run[f].at`
the pass it is in; one step is one call to Postgres with the upstream read
before it. `row` is the events table by dedup key (the groups, songs and editions
are disjoint, so event type and source are part of the key), `baseline` the
`track_count` of a group's `new_release` row. Feeds may share groups and songs,
for the dedup key does not name the artist. A Deezer feed is one whose
`Preferences` are `new_release` only. `Opens` reads seed mode and the seen ids
in one step: between the two, only another run of the same feed could insert
rows of this artist, and the overlap guard of `PollCycle` excludes it.

Dates are reduced to what the gates say of them: `Old` (outside the notify
window, or undated), `Ancient` (outside the recheck window). The order of the
upstream lists is any order. `Publishes` and `Edits` are the upstream: releases
appear, editions gain and lose tracks. `CallFails` is a statement that fails
without effect, `InsertUnheard` and `AdvanceUnheard` one whose answer is lost.
`unannounced` records the track counts that the baseline passed and no event
covers, with the four ways that happens: the first measurement (meant to be
silent), a failed or lost call or a crash after the advance (documented as the
residual), and a winning edition that has a row already, so that the insert does
nothing. The last one is a consequence of the key (the edition's id) that the code
does not mention: an edition that grows twice is announced once.

### TagLinks

A request is a transaction of `tags/service.go` or `tags/bulk.go`; a rename is a
sequence of single statements, as `Rename` opens no transaction.
`tx[q].at` is the statement that comes next, `todo` the rows that the statement
under way has still to visit, and the rest is what the transaction holds until
it ends: rows locked (`tags`, `artists`, `shared`), links written (`ins`, `del`),
a tag made on the fly. `Begin` takes a detach's snapshot and what the first
statement will visit. Then come `GetTag`, `CreateTag` (`GetOrCreateTag`),
`LockRow` (`LockWatchlistArtistsForBulkTag`), `GuardedInsert` (`BulkAttachTag`'s
count), and for each row `Check`, `LockArtist`, `Recheck`, `InsertLink` (the trigger
and the unique index); `LockTag`, `NextStatement`, `DeleteLink`, `RepointLink`
(merge, delete, detach); `RenameRow`, `IndexName`, `GetCollider`; `Commit`.
`Rollback`, at any time, stands for an error, a cancelled request and the victim
of a deadlock.

Isolation is READ COMMITTED: a statement's snapshot is what was committed when it
began, and a row that changed since is visited again as it is now (`DeleteLink`
skips one that is gone). `WaitsFor(q)` is whom a statement waits for, lock by
lock, and `Claimed` who holds a name in the unique index. `ORDER BY id` is
`Ascending`; a statement without it visits its rows in any order.
Entries of the watchlist stand for their artists; carrier counts and the
normalization of names are left out. A request is run once.

### DigestCalendar, DigestChunks, ArtistArt

`DigestCalendar` has one variable, the instant, which passes from the first weekly slot
on. `Offset` is the zone: the clocks are put forward once and back once. `In`, `At` and
`AddDate` are Go's `time` package, `At` with both instants that an hour shown twice may
mean, since `time.Date` leaves that open. `DailySlots` and `WeeklySlots` are the
instants at which the clocks show 00:05.

`DigestChunks` has one variable, the pending rows, each with its type and the width of its
line. The loops of `chunkDigest` and `splitOversizedGroup` are recursive functions of how many
groups (`GroupsPut`) and lines (`LinesPut`) have been put;
what they carry is the chunk under way (`ids`, `width`, how it `opens`, what heading the
`next` line gets) and the chunks done. Text is left out, the parts of a header and the
continuation note count by their width; a group is in the order of ids instead of the
collation's.

`ArtistArt`: `artists` and `watched` are the two tables, `adds` the requests with where they
are (`match`, `upsert`, `create`), `sweep` the backfill of this process with the artists it has
still to visit, `gate` the activity counter. `tried` is `art_match_attempted_at` within its
day. Names are left out, and which picture it is. A lookup or a write that fails ends the
visit without an attempt on record, as the comments at the calls say; other comments
disagree (`server_attempts`).

### The web modules

A request is three steps: sent, served in one transaction, answered; it may
fail before or after it was served. A `Max...` constant bounds each kind.
Wording, focus, caps of length, artwork and rendering are left out everywhere.

`TagVocabulary`. `hook` is the provider (`vocabulary`, `status`, `gen`), `gets` its
requests, each with the generation it was sent at; `Fetch`, `Supersede`,
`EnsureLoaded` and `Remember` take the pair through one call, as the hook's functions
do. `dialog` is which leaf of Manage tags is open. `writes` are renames, merges,
deletes and attaches in flight. `unheard` is a history: tags whose change the
provider was told late or never, until an applied list shows them.

`WatchlistRows`. `entries` is the page's list, `rows` and the tags behind them the
table. Each optimistic write keeps the value to roll back to. The functional
updaters of the page are `Update`, `Patch`, `AddTag`, `RemoveTag`. A *cell* is what one
request is about: a row's presence, one of its axes, one of its tags. `Refresh`
sends a list that nobody cancels. An add that is refused with a 409 awaits the list it
asks for then, so that its button stays pending until that list is answered or fails
(`awaits`, the artist of the button). Pending chips, the note's draft and the removal's
dialog are left out.

`BulkSelection`. The pure functions of `bulkSelection.ts` are operators
(`EffectiveSelection`, `ToggleAllVisible`, `ApplyRange`, `CycleTriState`,
`BuildAxisDelta`). `selected` holds ids, visible or not; `bar` is the action bar, which
unmounts and forgets when nothing selected is visible; `confirm` the removal
dialog with the ids it named; `inFlight` the page's lock. `Elsewhere` is a second
tab. One tag and one axis stand for all. Lists are answered in order here;
`WatchlistRows` reorders them.

`WatchlistFilters`. `visited` and `pos` are the browser's history, `nav` a navigation
that has not landed, `typed` the query with its timer, `stickyCards` the cards kept
past a filter, with the permission to keep them across a rewriting of tag ids.
Of the page's own events only Back and Forward overtake a navigation; the others
wait for it to land. Manage tags is used once the rows are loaded. One flag
stands for muted and custom; the sort is left out.

`ArtistSearch`: the box with its timer, the requests with `aborted`; an answer
received before the abort still reaches its callback, which checks the signal.

`HistoryFeed`: the events with their dates (some undated) and kinds, the feed with
its cursor, `pageOne` and `mores`, the requests, `visit` the run of the effect that a
cleanup cancels. `Before` and `AfterCursor` are the SQL's order and keyset
predicate. The three filters are one. `TagsLoaded` is the check of a stale tag in
the URL.

`SystemPage`: `screen`, the digest `card`, and `rendered`, what React has committed, by
which the buttons are disabled: a second click may come before `Render`.
`late` and `missed` are histories. Each answer under way says whether a save was served after
it was read (`behind`), and the card is as `late` as the answer it took last. `missed` says
that a save was served which the page on screen gets no answer to: it was sent by a page that
was left, or its answer is lost. An answer that is not behind ends both.

`Session`: the two signals of `authStore`, the browser's cookie with its claims,
the calls in flight with the cookie they were sent with, the passphrase form.
The clock stands still while a request is in flight. The throttle is a refusal
at any time.

## What the runs check

| Run | Question | Bounds |
| --- | --- | --- |
| `notifier_delivery` | the safety of delivery, and that `Notifier` implements `Outbox` | two pollers and the digest, four rows (one stale), two messages per digest run, two slots, one failure, shutdown or crash |
| `notifier_reanchor` | does a settings change ever trigger an immediate digest (violated) | one poller, one row, six half days, no failure |
| `poll_checked` | is `artists_checked` the number dispatched (violated) | three artists (one skipped), one worker, a ring of one, two ticks or reboots |
| `detection` | what is queued, what changes, what is announced | two feeds on one album of two editions, one of them with two songs and a mute, one lookup per cycle, two tracks, one failure or crash |
| `detection_starved` | the same when two feeds share a song (violated) | two feeds, two songs, one lookup per cycle, no failure |
| `web` | does a page of the web client ever disagree with the server for longer than its requests are in flight; are the tag statements behind it safe | below, module by module |
| `server` | is the slot the latest one, is a digest whole, is a picture ever lost; is a poll cycle's outcome honest, the history complete, the shutdown quiet | a winter, a summer and a winter of 12-unit days; five rows of four widths, two messages; two artists, two adds, two processes; four artists to poll (one skipped), two workers, a ring of one, three ticks or reboots |
| `liveness` | does every poll cycle give its guard back, is everything recorded in the end, are pending events settled, does a due digest complete, does every loading state of the web client end | three artists (one skipped), one worker, two ticks or reboots; one feed, two albums (one filtered), two songs, one lookup per cycle, one failure or crash; one poll cycle and the digest, two rows, one message per digest run, one failure; one tag and two writes; three events, three visits; two fetches, saves and mounts |
| `web_added` | does an added artist appear (violated) | two artists, two writes, three lists |
| `web_switch` | does the digest card show what is stored (violated) | two fetches, one save, one page |
| `server_attempts` | is an attempt on record after each visit of a sweep (violated) | one artist, one sweep, no add |
| `tags_rename` | does a collision name another tag (violated) | two tags, two renames of one of them and a delete of the other |

`web`, `server` and `liveness` put modules side by side that share no state: `part` says which
one a behaviour exercises and the others stay as they are, so that the state
spaces add up instead of multiplying. Nothing is lost by it, as no action of
one reads a variable of another; what they have in common is the server, and
each has the tables that its own requests meet.

Properties of `Notifier`:

- `SingleSender`: two passes never run at once and no return path leaves the
  flag up (ADR 0002).
- `AckedWasAnnounced`: a settled event was shown, unless it was too old to be
  shown at all (ADR 0003: a partial digest acks only what it sent).
- `DuplicatesAreExcused`: one copy, plus one for each lost answer, failed ack,
  crash or cancelled real-time ack. A shutdown during a digest is no excuse: its
  acks run under `context.WithoutCancel`.
- `OneRealTimeLeak`: the residual ADR 0002 states.
- `CompletionMeansDrained`: the slot or the watermark moves only when nothing the
  run listed is pending.
- `ImplementsOutbox`: a refinement, with the events on Discord as `told`.
- `RealTimeDrains`, `DueDigestCompletes`: liveness.

Properties of `PollCycle`: `HonestOutcome` (a run recorded as ok, or one that
reached the notifier, looked at every artist), `HistoryIsTheNewest` (one entry
for each cycle, failed ones too, in order, no gap), `QuietOnceClosed` (after a
clean drain nothing of the poller runs), `GuardIsGivenBack` (liveness).

Properties of `Detection`: `QueuedIsNews` (the first run that records anything
for a feed queues none of it, and nothing old is ever queued),
`RowsAreWriteOnce` (a row keeps its first artist and snapshot, also against
another feed), `NoGrowthTwice` (the events of a group cover disjoint ranges of
track counts, whatever editors and concurrent runs do), `NoGrowthForgotten`
(every count the baseline passed is in an event, in the hands of a run, or in
`unannounced`), `EverythingIsRecorded` (liveness).

Properties of `TagLinks`:

- `CapHolds`: no artist carries more than the cap, in any interleaving of the
  trigger's two looks with bulk counts, detaches and merges (ADR 0004).
- `AbortsAreExcused`: requests wait for each other in a circle only in one of two
  ways, and the trigger never refuses a row of a bulk attach nor the index a
  row of a merge. The two circles are a detach from several artists, which deletes its
  links in no order and meets another one, a merge or a delete; and renames
  that swap names. Postgres ends either by failing one request.
- `CommitsAreWhole`: after a merge, whoever carried either tag carries the target
  unless it was detached beside it; a tag made on the fly is carried by somebody
  when its transaction commits.

Properties of the other parts of `server`:

- `SlotIsTheLatest`: at every instant `MostRecentSlot` is the slot that `DigestSchedule` defines,
  whichever instant of an ambiguous hour Go picks, and two slots of a cadence are one
  period of the calendar apart.
- `DigestIsWhole`: each pending row is in one message and no other, the deferred ones
  counted, no message over the limit once its header and note are on it, and a
  group is cut only when it does not fit a message, with a note on both sides. After a line that
  was truncated to the budget there is no note: the code adds none there, and the caps of a
  line's parts keep lines far below it.
- `ArtHolds`: no statement takes an artist's picture away; one that a sweep found and did not
  store is not on the cooldown of a day, so that the next sweep looks again; the gate is up exactly while an
  add is at its lookup.

Properties of the web modules:

- `LoadingIsAwaited`, `VocabularyIsCurrent`: while the vocabulary is loading a request of
  the current generation is on its way, and what is loaded agrees with the table
  about every tag that no request in flight is about.
- `RowsAreCurrent`, `ControlsAreAwaited`: with no list on its way every cell shown is
  the one stored, save for writes in flight, lost answers and overlapping writes to
  that cell; a disabled control waits for a write of its own, an Add button
  after a 409 for the list its handler awaits, and the bulk lock for a bulk request.
- `BulkIsAsShown` (`OfTheVisible`, `PreferencesAsShown`, `UndoRestoresOnlyRemoved`): what a bulk request is
  about, what Apply leaves, whom Undo gives the tag back to.
- `FiltersHold` (`FiltersAsShown`, `StickyIsTouched`): typed query, URL and chips agree at rest, save for
  a text whose navigation Back overtook (`overtaken`), until one is typed or the filters are cleared; a
  card stays past the filters exactly until they are changed.
- `SearchIsCurrent`: results are those of the text in the box.
- `FeedIsFaithful`: the feed is in the table's order, has nothing twice, nothing of
  another filter and no gap before the last one shown.
- `OneRequestAtATime`, `SwitchIsCurrent`: one fetch and one save; the switch shows
  the row whenever no save is awaited, save for an answer taken late and a save missed (`late`,
  `missed`), until the next current answer.  A stale fetch taken while a save is awaited is no
  excuse, as the save's answer corrects it; one taken after that is `web_switch`.
- `AskedForAReason`, `SessionLifetime`: the passphrase comes up only without a session
  the gate would take; a session that is used lives until its cap and never past it.
- `WebSettles` (liveness): the loading states of vocabulary, feed and operator's page end.

Why the bounds are enough. Two pollers and the digest are all the senders there
are. A digest of three fresh rows with two messages per run meets every case of
the cap: under it, at it with nothing left, at it with rows deferred, and a run
that resumes. One failure can fall at each call, and at any later point after a
cancellation every call fails for free. The two slots include one that is both
daily and weekly, and a grace window that ends before the next slot and one that
reaches past it. For the poller two busy workers, a third artist waiting for a
slot and a skipped one cover the dispatch loop; a ring of one overflows at the
second run. For detection, two editions and counts up to two include a
first measurement, a growth, a loss, a change of the winner and two runs with
different answers in hand; with two songs and one lookup the cap is reached.

The calendar has a day of 10 units and one of 14, a switch on the weekday of the weekly slot and
one on another, and four weekly slots. With messages of five units a row of width 1
or 2 fits beside others, one of 4 fits under a heading and not under a continued one, one of 6
fits nowhere; five rows of two types fill more messages than the cap. Two adds, of one artist or of
two, meet each other and a sweep, and a second process sweeps again.

The tags have a cap of two with one artist at it and one below, so that one
attach too many is one attach more; of the eleven requests of `TagRequests` any three run, at once
or one after the other. For the vocabulary, three tags
(one yet to be made), two writes and a generation bumped twice give an answer
that is one and one that is two generations old. Two rows and an id to spare cover
a removal, its undo and an add that meet; two lists can be answered in either
order. Two rows suffice for a selection of which a filter hides a part. Three
entries of history and four landings let Back overtake a rewriting. Four events on
pages of one, three stored at first, two dated, give a cursor in the dated part, one
in the undated tail, and an insert on either side of it. Three saves are needed for
two pages to overlap. Two changes of bulk selection, each a bulk request or one of the second
tab, let two bulk requests meet the lock. A session of window 3, renewal point 2 and cap 5 is renewed
twice, the second time beyond what the cap allows.

## Fairness

A pass that is running keeps going (WF): every call in it is bounded by a
timeout (`dbOpTimeout`, the HTTP client's). Taking the flag is strongly fair:
an attempt that finds it taken is skipped, not queued, but polls come every
few minutes and checks every five, and a pass is short against both; a poller
whose every attempt met another pass forever would need the schedules in
lockstep. `Restart` is strongly fair: the process is restarted by its
supervisor. The clock, the operator, detection and failures have no fairness.
`DueDigestCompletes` says "completes, or its grace closes, or the operator
re-anchors", since all three make the digest not due.

In the web modules requests are weakly fair: each is served and answered or fails,
since the client's fetch ends so and the server's handlers have timeouts; and React
commits what was set (`Render`). The user owes nothing, which is why
these runs do not check for deadlock: a page on which nobody acts stops. In
`TagLinks` nothing is fair; a request may stop anywhere.

In `PollCycle` the cycle and each worker are weakly fair; nothing is assumed of
ticks, signals or reboots. In `Detection` the run of each feed is weakly fair: the
poller comes back to it every 15 minutes and each call has a timeout. Failures
are bounded, since a lookup that fails forever is never recorded by the
code either; the upstream has no fairness.

## What is proved

`NotifierProofs` proves, for any set of pollers and rows, any calendar and
grace, any cap and any number of failures, under `SlotAssumption` (a latest slot
exists at every instant) and `NotifierAssumption`:

- `TypeCorrect`: `TypeOK`, strengthened with `RunLocals` (the chunk counter is
  below the cap when the run is about to send; the slot is set once it is due).
- `SenderExclusion`: `SingleSender` is inductive with the classification
  `FlagStep` of every step as taking the flag, dropping it, keeping it or
  dropping all.
- `NothingForgotten` and `OnlyExcusedDuplicates`: the accounting of messages.
  `Holdings` says what each pass holds at each label (only an unacked message in
  `out`, only pending, fresh rows in a batch about to be sent). Every step is one
  kind of entry in the books, `BookStep`: a row recorded, a message announced,
  announced unheard, settled, or forgotten. `Accounts` is what each kind keeps:
  a settled row, and a row in a pass's hands, has a copy, a stale one never. The
  bound on copies is kept by each kind as well, since an announcement needs a
  pending row that no pass holds, whose copies are all excused.
- `SlotMovesOnceDrained`: from `DigestListed` (what the run listed is either
  still in its hands or no longer pending) the completing ack drains the rest.
- `LeakBounded`: from `NoLeakYet` (nothing has leaked while digest mode is off,
  nor as long as a pass sits between its read of the mode and its send).
- `NotifierKeepsPromise`: the refinement `Spec => Promise!Spec`, step by step from
  the same classification.

`PollCycleProofs` proves, for any set of artists, any pool size, ring and bound on
ticks:

- `TypeCorrect`: `TypeOK`.
- `HistoryCorrect`: `HistoryIsTheNewest`, from `HistoryInv`: the history ends at the
  last finished cycle (`Lag` is one while a cycle has not recorded itself yet),
  is gapless and has all there is up to the limit.
- `OutcomeIsHonest`: `HonestOutcome`, from `OutcomeInv`: what each artist's goroutine
  holds (`WorkInv`) and which phase the fan-out is in (`FanOut`) account for each
  artist as turned down, waiting, at work, in the channel, checked or bailed;
  a bail happens only under a cancelled context, which the cycle sees again
  after the join.
- `ClosedStaysQuiet`: `QuietOnceClosed`, from `ClosedIsIdle` (a clean drain closes the
  pool only with no cycle behind the guard).

`DetectionProofs` proves, for any feeds that share any releases, any preferences,
editors, budget and number of failures:

- `TypeCorrect`: `TypeOK`, with `Passes` (what the locals of a run are in each pass).
- `FirstSnapshotStands`: `RowsAreWriteOnce`.
- `SeedIsSilent`: `QueuedIsNews`, from `NewsInv`: a run that found no rows of its feed
  has queued none, and one that found some still sees one it did not insert.
- `GrowthIsToldOnce`: `NoGrowthTwice`, from `GrowthInv`: the ranges of counts in events
  and in the hands of runs are disjoint and lie below the baseline, which is why
  the guarded `UPDATE` of the baseline hands each count to one run only.
- `GrowthIsAccountedFor`: `NoGrowthForgotten`, from `Remembered`; every step either leaves the
  books alone, passes counts that are lost, passes counts a run is to announce, or
  tells them.

`TagLinksProofs` proves, for any artists, tags, names, requests and cap, and any
number of requests at once:

- `CapIsKept`: `CapHolds`. `CapInv` says of each request where it may be and what
  it holds there (`Local`), that what it holds is nobody else's (`Apart`), and that
  every artist for whom it has inserted a link, or will without another look at the cap,
  is locked and below the cap (`HasRoom`). A commit adds at most one link to an
  artist, and meanwhile no other request can have one in hand for the same
  artist: they would both hold its row.
- `BulkIsNeverRefused`: the trigger refuses only single attaches. It follows from `HasRoom`,
  for a bulk attach counts once all its artists are locked.

- `CommitsLeaveItWhole`: `CommitsAreWhole`, from `WholeInv`, which adds two parts to `CapInv`.
  `Linked`: a link is of a tag that is there. `Sound`, of each request: which tags it has
  locked at each statement, and that all it writes is of them (`Held`); that it holds them alone
  (`Alone`); that what it has still to lock lies above what it has locked (`Orderly`); that its
  statement visits links of its own tag (`Sweeping`); and what a merge or delete has still
  to visit (`Covers`), which also says that each link a merge has deleted has its counterpart
  on the other tag, among the links or in the merge's hands, unless a detach that ran beside it
  took it.
- `AbortsAreExplained`: `AbortsAreExcused`, from the same invariant. A request that waits in order
  waits for one that holds a row above every row it has locked itself, so in a circle of such
  requests the one at the topmost row would wait for a row above it; and the links a merge
  meets were committed before it locked the tag.
- `NamesStayUnique`: `LinksTypeOK`, whose hard part is `IsInjective(tagTable)`: from `NamesInv`,
  whoever will give a tag a name has claimed it in the index, alone.

`PageProofs`, one section for a module:

- `RequestsAreExclusive` (`OneRequestAtATime`) and `SwitchShowsTheRow` (`SwitchIsCurrent`) of
  `SystemPage`, for any number of fetches, saves and mounts, from `PageInv`: the flags of the page
  stand for the requests of the mount that is open (`Owned`), an answer
  under way that no save has overtaken is the row (`Ages`), and unless the card is late or missed a
  save it shows the row, or a save of its own that was served is still to be answered (`Switch`).
- `AskedOnlyForAReason` (`AskedForAReason`) and `SessionsEndAtTheCap` (`SessionLifetime`) of `Session`,
  for every window, renewal point and cap with `0 < RenewAfter < Window`, from `SessionInv`: the
  gate's answers still hold when they arrive (`Answers`), the cookie reaches the renewal point
  beyond the last use (`Cookies`), nobody is signed out without a gate (`Gates`).
- `StaleAnswersAreDropped` (`SearchIsCurrent`) of `ArtistSearch`, for any texts and requests: a
  timer, and a request that is not aborted, are about the text in the box.
- `FeedShowsTheEvents` (`FeedIsFaithful`) of `HistoryFeed`, for any events, dates, filters and page
  size, from `FeedInv`: a first page is a prefix of its filter's rows as they were (`PageOnes`), a
  later one follows its cursor (`Mores`), at most one of them is awaited by a visit (`OneAppend`), and
  of the rows that were there when page one was served, those not shown lie behind the cursor
  (`FeedShown`). The
  table's order is shown to be a strict total order, dated rows before undated ones, and the keyset
  predicate of the SQL to be that order; a page's rows have pairwise different ranks, so
  that a page of the right size leaves nothing out (a pigeonhole argument on cardinalities).
- `LoadingNeverStrands` (`LoadingIsAwaited`) and `LoadedTagsAreTheTable` (`VocabularyIsCurrent`) of
  `TagVocabulary`, for any tags, names and requests, from `VocabInv`: the provider is `Coherent`; the
  server's replies still hold when they arrive or the tag is gone (`Facts`); each disagreement
  between vocabulary and table, and between an answer that may still be applied and the
  table, is explained by an answer on its way (`Books`).

`WatchlistProofs`, for any rows, tags, types, ids, histories and numbers of requests:

- `BulkDoesAsShown`: the action property `BulkIsAsShown`, from `BulkInv`. `Modes` says which request
  may be in flight in each mode of the bar and beside the dialog, `BarShown` that a bar with an
  open popover has rows to act on, `Snapshots` that a request changes what its snapshots say, `Losses`
  that an Undo is of rows that a removal took the tag from.
- `FiltersAreShown`: `FiltersHold`, from `FiltersInv`: the typed text, the timer and the navigation
  under way account for the query (`QueryAgrees`), tags were retired one after the other, so that
  following them from an id in the URL ends at a tag that is there (`TagsAgree`: the rank of a tag
  witnesses it, and the least rank ends the argument), and the sticky cards are those of the entry on
  screen, or on their way to the key they are carried to (`CardsAgree`).
- `RowsAreShown`: `RowsAreCurrent`, from `RowsInv`: an id is given out once (`IdsAreUsed`), the unique
  index keeps one row an artist (`OneRowAnArtist`), the row of a refused write is gone (`Gone`),
  and `CellsAgree` says of each write under way what table and page have in its cell. A step
  touches one cell, and a lemma says so for the page and for the table; all other cells
  agree as before.
- `ControlsWait`: `ControlsAreAwaited`, from `BulkInv` and `RowsInv`, of which `AddAwaits` says that the
  button an add disabled has the add in flight, or the list that followed its 409.

`WebProofs` proves `WebTypesHold` (`WebTypeOK`): a step of `MCWeb` is a step of one part and leaves the
others alone, so that what was proved of each holds of the whole client. The bounds on
requests and visits, the histories and the uniqueness of names are invariants of their own
there.

`ServerProofs`:

- `PicturesAreKept`: `ArtHolds` of `ArtistArt`, for any artists, adds, sweeps, restarts and
  failures, from `ArtInv`: the row of an artist that is watched, listed or in hand stays (`RowsStay`);
  only the sweep puts an artist on the cooldown, and only the one in hand, whose picture it has
  stored by then, or not found (`Cooldown`); the gate counts the adds at their lookup
  (`Gate`); and the two histories of the property (`PicturesStay`).
- `SlotsAreTheLatest`: `SlotIsTheLatest` of `DigestCalendar`, for every length of a day, shift and
  pair of clock changes that come after the slot's time of day and within that day
  (`CalendarAssumption`, so that the slot's time is never shown twice or skipped), and for either
  instant that `time.Date` may take in an hour shown twice.
- `DigestsAreWhole`: `DigestIsWhole` of `DigestChunks`, for any pending events, widths of lines and
  headings, budget, reserve and cap, where each type has one heading, a heading leaves room for
  text and the reserve covers the parts of a header and the note (`ChunksAssumption`). The state's invariant is slight (`Events`: what is pending are rows
  of the table); the argument is that of the code's two loops. `Splitting` is the invariant of
  `splitOversizedGroup`: the messages made so far and the chunk under way are the first `n` lines of
  the group in order, each message is a part of the group that says at both ends how it was cut
  (`Piece`), and the chunk fits the budget. `Chunking` is that of `chunkDigest`: the first
  `n` groups in order, each message with whole groups or a piece of one that no message can hold
  (`Fair`), and every group that fits a message in one (`Held`). One lemma says that a step of each
  loop keeps its invariant (`LineIsPut`, `GroupIsPut`), and `UpTo` that it then holds after all steps.
  `GroupsAre` says that the groups are the pending rows, each once; `MessagesSaySo` reads off
  a message's two ends what the property asks of them; `KeptAndDeferred` and `HeaderFits` are the cap and
  the header.

Assumptions. Each `...Assumption` is an `ASSUME` of the module that declares the constants, so that TLC
evaluates it on every run: bounds are natural numbers, `Null` and 0 lie outside the
sets they are told apart from, the filter the page opens with is a filter, and what is listed
with the theorems above. No theorem relies on a set of artists, rows or requests being small.
Each strengthening was checked by TLC before it was proved.

Only model-checked: liveness (`WebSettles` and the other properties under fairness: `ENABLED` and
fairness are outside the prover's reach); and the seven violations.
The library's induction theorems take an operator, which the provers cannot instantiate. Where an
argument needed induction, over the steps of a loop or the parts of a sequence
(`LeastOf`, `UpTo`, `Iterates`, `FlattenIs`), a least element or a count, it is had from the
library's theorems on well-founded relations and on cardinality, which take none: a claim
about all numbers up to `n` is a set of numbers, and the least one outside it is the contradiction.

## Where the code and its documentation disagree

1. `CONTEXT.md`, "Slot record", says that neither turning digest mode on nor
   changing cadence triggers an immediate digest. `notifier_reanchor` shows a
   cadence change during a late weekly digest that does: the run's completing ack
   writes the slot it computed at its start over the re-anchored record.
2. `pollruns.go:45` says `ArtistsChecked` counts entries dispatched to a worker.
   `poll_checked` shows a cancelled cycle that counts fewer: a worker that bails
   before fetching is not counted.
3. `musicbrainz.go:24` says that recordings beyond the lookup cap are "retried next
   cycle". `detection_starved` shows one that never is: a song first recorded
   under another watched artist is not in this artist's seen set
   (`ListExternalIDs` filters by artist), so each cycle spends a lookup on it, and
   when such songs fill the cap at the head of the list nothing behind them is
   looked up.
4. `watchlist.tsx:375` says of an add that "on success it refreshes the loaded entries
   so the new artist appears below". `web_added` shows an add that beats the
   first list: `refresh` (248-261) applies whichever list is answered last, and the older
   one takes the new row away until something reads the rows again.
5. `service.go:61` says that a `CollisionError` is returned "when the new name matches a
   different tag". `tags_rename` shows one that names the tag itself: the collider was
   deleted, and another request gave the name to this tag, before `Rename` looked the
   name up (184); the merge a client then offers is refused (229).
6. `20-UI-SPEC.md:218` says that Refresh re-fetches the digest settings "so the card's values can never
   silently drift stale relative to the rest of the page". `web_switch` shows a Refresh that makes
   them so: it reads the settings, a save is stored and answered while `GET /status` is still
   awaited by the same `Promise.all`, and then `setDigest` (`system.tsx:190`) puts the old value back. With
   nothing in flight the switch shows what is not stored, until the next Refresh, save or visit.
7. `artists.sql:47` and `backfill.go:36` say that an attempt is recorded for every artist a sweep visits,
   "matched, unmatched (D-09 fail-closed), or errored", and so does D-12 (`13-CONTEXT.md:38`). The
   comments at the calls (`backfill.go:147`, `197`) say that after a failed lookup or a failed write it must
   not be, and the code does what they say. `server_attempts` shows the difference; `ArtHolds`
   takes the side of the code: what was found and not stored is not on the cooldown.

Seen while modelling, and no property of a run: the feed key names a filter and not a
visit to it (`history.tsx:132`), so that a Load more of an earlier visit to the same filter
is appended to the new one's pages, or, failing, enables the button while another is
awaited, whose two answers may then be shown out of order (`mixed`, excused in
`FeedIsFaithful`); the first load of
the watchlist prunes tag ids no row carries without a look at those retired meanwhile; a
second toggle of a filter before the URL has landed starts from the older one; Undo of a
tag removal attaches by name, so a tag renamed meanwhile is made again; a range's anchor
survives a refresh that drops its row; a failed refresh unmounts the list with its
pending flags; the settings `PUT` sends both fields, so a stale page overwrites what
another tab saved in the other one; the backfill writes back the name that it listed and the
picture it found (`backfill.go:184-196`, "a no-op write"), over what an add has stored in between.

## Not modelled, and the plan

Left, in this order. There are a dozen runs, so a new question joins the run of a
module beside it, as in `MCWeb` and `MCServer`.

1. The login throttle's window; the digest scheduler's loop with its two stop channels.
2. `Migrate`: two processes starting under the advisory lock, and readiness against the
   schema version.

Left out for good: the handlers' decoding, rendering, upstream clients (a call
that returns or fails in the modules that use it) and the build-time scanners.
