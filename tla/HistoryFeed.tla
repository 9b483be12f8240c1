---------------------------- MODULE HistoryFeed ----------------------------
(* The release feed (routes/history.tsx, HistoryFilters.tsx, historyParams) *)
(* and GET /events, whose pages are cut by a keyset cursor (events.sql).    *)
(*                                                                          *)
(* The three filters are one: all events, or those of a kind.  Retention,   *)
(* the wording of the empty states and the comboboxes' highlight are left   *)
(* out.                                                                     *)
EXTENDS WebClient, Sequences

CONSTANTS
  Event,       \* ids of events; a later one has a greater id
  DateOf,      \* its release date, or Null
  KindOf,      \* what the filter tells apart
  StoredFirst, \* events stored when the page is opened
  FilterFirst, \* the filter in the URL when the page is opened
  StaleKind,   \* a filter on a tag that no longer exists
  PageSize,    \* rows of a page
  MaxVisits,   \* bound: times page one is asked for
  MaxMore      \* bound: Load more requests

ASSUME FeedAssumption ==
  /\ Event \subseteq Nat /\ IsFiniteSet(Event)
  /\ DateOf \in [Event -> Nat \union {Null}] /\ Null \notin Nat
  /\ StoredFirst \subseteq Event
  /\ StaleKind \notin Range(KindOf) \union {Null}
  /\ FilterFirst \in Range(KindOf) \union {Null, StaleKind}
  /\ PageSize \in Nat \ {0} /\ MaxVisits \in Nat \ {0} /\ MaxMore \in Nat

VARIABLES
  stored,   \* the events table
  url,      \* filter: a kind, or Null for all; and reloadToken
  visit,    \* how many times the page-one effect ran
  feed,     \* events, nextCursor, the loading and error flags
  pageOne,  \* page-one requests: the run that sent each, its filter, its answer
  mores,    \* Load more requests: the feed key each was issued for
  nMores,
  tagNames, \* GET /tags: "loading", "loaded" or "error"
  basis,    \* events of the filter that were stored when page one was served
  mixed     \* a Load more of an earlier visit to the filter was taken for one of
            \* this: its rows were appended, or its failure enabled the button
            \* while another is awaited (history)

feedVars == <<stored, url, visit, feed, pageOne, mores, nMores, tagNames, basis, mixed>>

Filters == Range(KindOf) \union {Null}

Matching(f) == {e \in stored : f = Null \/ KindOf[e] = f}

-----------------------------------------------------------------------------
(* events.sql: ORDER BY release_date DESC NULLS LAST, id DESC.  The dates    *)
(* are zero-padded, so that text order is date order.                        *)

Before(d, e) ==
  \/ DateOf[d] # Null /\ DateOf[e] = Null
  \/ DateOf[d] # Null /\ DateOf[e] # Null /\ DateOf[d] > DateOf[e]
  \/ DateOf[d] = DateOf[e] /\ d > e

\* Without the clause for the undated tail.
AfterDated(cursor, e) ==
  DateOf[cursor] # Null /\ DateOf[e] # Null /\
    (DateOf[e] < DateOf[cursor] \/ (DateOf[e] = DateOf[cursor] /\ e < cursor))

\* The CASE of the keyset predicate.
AfterCursor(cursor, e) ==
  IF DateOf[cursor] = Null
    THEN DateOf[e] = Null /\ e < cursor
    ELSE \/ DateOf[e] = Null
         \/ DateOf[e] < DateOf[cursor]
         \/ (DateOf[e] = DateOf[cursor] /\ e < cursor)

\* The first rows, and a cursor exactly when the page is full.
FirstRows(rest) ==
  LET n     == IF Cardinality(rest) < PageSize THEN Cardinality(rest) ELSE PageSize
      At(i) == CHOOSE e \in rest : Cardinality({d \in rest : Before(d, e)}) = i - 1
  IN  [rows |-> [i \in 1..n |-> At(i)], next |-> IF n = PageSize THEN At(n) ELSE Null]

Page(f, cursor) ==
  FirstRows({e \in Matching(f) : cursor = Null \/ AfterCursor(cursor, e)})

-----------------------------------------------------------------------------
\* The page-one effect empties the feed before it asks.
EmptyFeed == [events |-> <<>>, next |-> Null, loading |-> TRUE, appending |-> FALSE,
              error |-> FALSE, appendError |-> FALSE]

KeepsAppending == [EmptyFeed EXCEPT !.appending = feed.appending]

Reset == EmptyFeed

\* A new filter or token: the cleanup cancels the request of the run before.
Visit(filter, token) ==
  /\ url' = [filter |-> filter, token |-> token]
  /\ visit' = visit + 1
  /\ feed' = Reset
  /\ pageOne' = pageOne \union {[run |-> visit + 1, filter |-> filter, answer |-> Null,
                                 basis |-> {}]}
  /\ UNCHANGED <<stored, mores, nMores, basis>>

FeedInit ==
  /\ stored = StoredFirst
  /\ url = [filter |-> FilterFirst, token |-> 0]
  /\ visit = 1
  /\ feed = EmptyFeed
  /\ pageOne = {[run |-> 1, filter |-> FilterFirst, answer |-> Null, basis |-> {}]}
  /\ mores = {} /\ nMores = 0
  /\ tagNames = "loading"
  /\ basis = {} /\ mixed = FALSE

FeedKey == <<url.filter, url.token>>

-----------------------------------------------------------------------------
(* The pollers insert events; a release date puts one anywhere in the order. *)
InsertEvent(e) ==
  /\ e \notin stored
  /\ \A d \in stored : d < e
  /\ stored' = stored \union {e}
  /\ UNCHANGED <<url, visit, feed, pageOne, mores, nMores, tagNames, basis, mixed>>

-----------------------------------------------------------------------------
(* Filters, Back and Retry.                                                  *)

SetFilter(f) ==
  /\ visit < MaxVisits /\ f # url.filter
  /\ Visit(f, url.token)
  /\ mixed' = FALSE
  /\ UNCHANGED tagNames

FeedRetry ==
  /\ visit < MaxVisits /\ feed.error
  /\ Visit(url.filter, url.token + 1)
  /\ mixed' = FALSE
  /\ UNCHANGED tagNames

\* Checked once: an unknown tag id leaves the URL.
TagsLoaded ==
  /\ tagNames = "loading"
  /\ tagNames' = "loaded"
  /\ \/ url.filter = StaleKind /\ Visit(Null, url.token) /\ mixed' = FALSE
     \/ /\ url.filter # StaleKind
        /\ UNCHANGED <<stored, url, visit, feed, pageOne, mores, nMores, basis, mixed>>

\* A failure is no proof that the tag id is stale.
TagsFailed ==
  /\ tagNames = "loading"
  /\ tagNames' = "error"
  /\ UNCHANGED <<stored, url, visit, feed, pageOne, mores, nMores, basis, mixed>>

-----------------------------------------------------------------------------
ServePageOne(r) ==
  /\ r.answer = Null
  /\ pageOne' = (pageOne \ {r}) \union
       {[r EXCEPT !.answer = Page(r.filter, Null), !.basis = Matching(r.filter)]}
  /\ UNCHANGED <<stored, url, visit, feed, mores, nMores, tagNames, basis, mixed>>

Cancelled(r) == r.run # visit

PageOneAnswered(r) ==
  /\ r.answer # Null
  /\ pageOne' = pageOne \ {r}
  /\ IF Cancelled(r) THEN UNCHANGED <<feed, basis, mixed>>
     ELSE /\ feed' = [feed EXCEPT !.events = r.answer.rows, !.next = r.answer.next,
                                  !.loading = FALSE]
          /\ basis' = r.basis
          /\ mixed' = FALSE
  /\ UNCHANGED <<stored, url, visit, mores, nMores, tagNames>>

PageOneFailed(r) ==
  /\ pageOne' = pageOne \ {r}
  /\ feed' = IF Cancelled(r) THEN feed
             ELSE [feed EXCEPT !.error = TRUE, !.loading = FALSE]
  /\ UNCHANGED <<stored, url, visit, mores, nMores, tagNames, basis, mixed>>

-----------------------------------------------------------------------------
(* Load more: on screen with the events, disabled while one is awaited.      *)

LoadMoreOffered ==
  /\ ~feed.error /\ ~feed.loading /\ feed.events # <<>>
  /\ feed.next # Null /\ ~feed.appending

LoadMore ==
  /\ nMores < MaxMore /\ LoadMoreOffered
  /\ feed' = [feed EXCEPT !.appending = TRUE, !.appendError = FALSE]
  /\ mores' = mores \union {[n |-> nMores + 1, issuedFor |-> FeedKey, run |-> visit,
                             cursor |-> feed.next, answer |-> Null]}
  /\ nMores' = nMores + 1
  /\ UNCHANGED <<stored, url, visit, pageOne, tagNames, basis, mixed>>

ServeMore(r) ==
  /\ r.answer = Null
  /\ mores' = (mores \ {r}) \union {[r EXCEPT !.answer = Page(r.issuedFor[1], r.cursor)]}
  /\ UNCHANGED <<stored, url, visit, feed, pageOne, nMores, tagNames, basis, mixed>>

Append2(prev, rows) ==
  LET fresh == {i \in DOMAIN rows : rows[i] \notin Range(prev)}
  IN  prev \o [k \in 1..Cardinality(fresh) |->
                 rows[CHOOSE i \in fresh : Cardinality({j \in fresh : j <= i}) = k]]

MoreAnswered(r) ==
  /\ r.answer # Null
  /\ mores' = mores \ {r}
  /\ IF r.issuedFor # FeedKey THEN UNCHANGED <<feed, mixed>>
     ELSE /\ feed' = [feed EXCEPT !.events = Append2(@, r.answer.rows),
                                  !.next = r.answer.next, !.appending = FALSE]
          /\ mixed' = (mixed \/ r.run # visit)
  /\ UNCHANGED <<stored, url, visit, pageOne, nMores, tagNames, basis>>

MoreFailed(r) ==
  /\ mores' = mores \ {r}
  /\ feed' = IF r.issuedFor # FeedKey THEN feed
             ELSE [feed EXCEPT !.appendError = TRUE, !.appending = FALSE]
  /\ mixed' = (mixed \/ (r.issuedFor = FeedKey /\ r.run # visit))
  /\ UNCHANGED <<stored, url, visit, pageOne, nMores, tagNames, basis>>

-----------------------------------------------------------------------------
FeedNext ==
  \/ \E e \in Event : InsertEvent(e)
  \/ \E f \in Filters : SetFilter(f)
  \/ FeedRetry \/ TagsLoaded \/ TagsFailed \/ LoadMore
  \/ \E r \in pageOne : ServePageOne(r) \/ PageOneAnswered(r) \/ PageOneFailed(r)
  \/ \E r \in mores : ServeMore(r) \/ MoreAnswered(r) \/ MoreFailed(r)

\* Requests are served and answered, or fail.
PageOneProceeds == \E r \in pageOne : ServePageOne(r) \/ PageOneAnswered(r)
MoreProceeds    == \E r \in mores : ServeMore(r) \/ MoreAnswered(r)

FeedFairness == WF_feedVars(PageOneProceeds) /\ WF_feedVars(MoreProceeds)

FeedSpec == FeedInit /\ [][FeedNext]_feedVars /\ FeedFairness

-----------------------------------------------------------------------------
(* The kinds of value each variable holds (history.tsx).                     *)
FeedTypeOK ==
  /\ stored \subseteq Event /\ basis \subseteq Event
  /\ url.filter \in Filters \union {StaleKind} /\ url.token \in Nat
  /\ visit \in 1..MaxVisits + 1 /\ nMores \in 0..MaxMore
  /\ feed.events \in Seq(Event)
  /\ feed.next \in Event \union {Null}
  /\ {feed.loading, feed.appending, feed.error, feed.appendError, mixed} \subseteq BOOLEAN
  /\ tagNames \in {"loading", "loaded", "error"}

(* The feed shows the events of the filter in the URL from the newest on, in *)
(* the order of the table, none twice, whatever filters were tried before    *)
(* and whenever their pages arrive.  It has no gap: an event that was stored *)
(* when page one was read is shown, unless it comes after the last one shown *)
(* and Load more is still offered.  Events the pollers insert between two    *)
(* pages push none out, and the undated ones at the end are reached.         *)
FeedIsFaithful ==
  ~mixed =>
    /\ \A i, j \in DOMAIN feed.events : i < j => Before(feed.events[i], feed.events[j])
    /\ Range(feed.events) \subseteq Matching(url.filter)
    /\ ~feed.loading /\ ~feed.error =>
         \A e \in basis \ Range(feed.events) :
           feed.next # Null /\ AfterCursor(feed.next, e)

(* Page one is shown or its failure is, and Load more is offered again after *)
(* every answer, failure or change of filter.                                *)
FeedSettles ==
  /\ feed.loading ~> ~feed.loading
  /\ feed.appending ~> ~feed.appending
=============================================================================
