-------------------------- MODULE WatchlistFilters --------------------------
(* What the watchlist page filters by (routes/watchlist.tsx) and the URL it *)
(* keeps it in (useUrlParams.ts, watchlistView.ts): the typed query, the    *)
(* tags, and one flag for muted and custom (the sort is left out); the      *)
(* cards that stay visible past a filter because the user just touched      *)
(* them.                                                                    *)
(*                                                                          *)
(* A navigation lands in a step of its own.  Back and Forward may overtake  *)
(* it; the page's other events wait for it.  Manage tags is used once the   *)
(* rows are loaded.                                                         *)
EXTENDS WebClient

CONSTANTS
  TagId,        \* ids of tags
  Query,        \* texts of the name filter; Null is the empty one
  Card,         \* rows of the watchlist
  FirstTags,    \* the tags of the URL the page is opened with
  CarriedFirst, \* the tags on the rows of the first list
  MaxEntries,   \* bound: entries of the browser's history
  MaxLandings   \* bound: landings after which the user only waits

Url == [q : Query \union {Null}, tags : SUBSET TagId, flag : BOOLEAN]

\* A navigation; its own are the page's rewrites of tag ids.
Navigation == [url : Url, replace : BOOLEAN, own : BOOLEAN]

ASSUME FiltersAssumption ==
  /\ FirstTags \subseteq TagId /\ CarriedFirst \subseteq TagId
  /\ Null \notin TagId \union Navigation
  /\ MaxEntries \in Nat \ {0} /\ MaxLandings \in Nat

VARIABLES
  visited,  \* the browser's history: position -> URL and location key
  pos,      \* the entry that is shown
  nav,      \* the navigation under way, or Null
  landings, \* how many landed: the last location key
  typed,    \* the query state, lastWrittenQ and the text qTimer will write
  stickyCards,   \* StickyState
  loaded,   \* the first list came, and with it tagIdsValidatedRef
  known,    \* tagNamesRef
  retired,  \* retiredTagIdsRef
  overtaken,\* the write of a query was overtaken (history)
  touched   \* cards touched since the user, or Back, last changed what is
            \* filtered by (history)

filtersVars == <<visited, pos, nav, landings, typed, stickyCards, loaded, known,
                 retired, overtaken, touched>>

\* The query is no part of it.
FilterKey(u) == <<u.tags, u.flag>>

ShownUrl == visited[pos].url

Quiet == nav = Null

Acts == Quiet /\ landings < MaxLandings

-----------------------------------------------------------------------------
(* watchlistView.ts.                                                         *)

\* Whatever lands on the carry's target would keep the cards.
ReconcileAnyLanding(at) ==
  IF at.key = stickyCards.key /\ at.loc = stickyCards.loc THEN stickyCards
  ELSE [key |-> at.key, loc |-> at.loc, carryTo |-> Null,
        ids |-> IF at.key = stickyCards.key \/ stickyCards.carryTo = at.key
                  THEN stickyCards.ids ELSE {}]

\* A carry lives until the next landing, and keeps the cards only for a
\* replacement that lands on its target.
ReconcileSticky(at) ==
  IF at.key = stickyCards.key /\ at.loc = stickyCards.loc THEN stickyCards
  ELSE [key |-> at.key, loc |-> at.loc, carryTo |-> Null,
        ids |-> IF at.key = stickyCards.key \/ (at.replace /\ stickyCards.carryTo = at.key)
                  THEN stickyCards.ids ELSE {}]

CarrySticky(s, from, to) ==
  [s EXCEPT !.carryTo = IF from = s.key /\ to # s.key THEN to ELSE Null]

-----------------------------------------------------------------------------
(* Writing the URL.                                                          *)

Goes(url, replace, own) == [url |-> url, replace |-> replace, own |-> own]

WriteUrl(url, replace) == nav' = Goes(url, replace, FALSE) /\ UNCHANGED stickyCards

\* The page's own rewrites of tag ids replace the entry and keep the cards.
WriteKeepingSticky(url) ==
  /\ nav' = Goes(url, TRUE, TRUE)
  /\ stickyCards' = CarrySticky(stickyCards, FilterKey(ShownUrl), FilterKey(url))

SettledByName(ids, names) == ids \intersect names

\* A retired id becomes the one it was merged into, or goes; so do ids that
\* no row was seen to carry.
SettledTags(ids, names) ==
  {IF id \in DOMAIN retired THEN retired[id] ELSE id : id \in ids} \intersect names

FiltersInit ==
  /\ visited = <<[url |-> [q |-> Null, tags |-> FirstTags, flag |-> FALSE], loc |-> 0]>>
  /\ pos = 1
  /\ nav = Null /\ landings = 0
  /\ typed = [query |-> Null, written |-> Null, timer |-> FALSE, pending |-> Null]
  /\ stickyCards = [key |-> <<FirstTags, FALSE>>, loc |-> 0, ids |-> {}, carryTo |-> Null]
  /\ loaded = FALSE
  /\ known = {}
  /\ retired = [id \in {} |-> Null]
  /\ overtaken = FALSE /\ touched = {}

-----------------------------------------------------------------------------
(* A landing: the render reconciles the cards; then the effects of the new   *)
(* parameters run, of which one takes the query from the URL unless it is an *)
(* echo, and one rewrites tag ids.                                           *)

KeepsTimer(t, q) == [t EXCEPT !.query = q, !.written = q]

Resynced(t, q) == [t EXCEPT !.query = q, !.written = q, !.timer = FALSE, !.pending = Null]

Lands(url, loc, replace, own) ==
  LET at      == [key |-> FilterKey(url), loc |-> loc, replace |-> replace]
      resync  == url.q # ShownUrl.q /\ url.q # typed.written
      landed  == IF resync THEN [ReconcileSticky(at) EXCEPT !.ids = {}]
                           ELSE ReconcileSticky(at)
      settled == [url EXCEPT !.tags = SettledTags(url.tags, known)]
      rewrite == loaded /\ settled # url
  IN  /\ typed' = IF resync THEN Resynced(typed, url.q) ELSE typed
      /\ nav' = IF rewrite THEN Goes(settled, TRUE, TRUE) ELSE Null
      /\ stickyCards' = IF rewrite THEN CarrySticky(landed, at.key, FilterKey(settled))
                              ELSE landed
      /\ touched' = IF resync \/ (~own /\ at.key # FilterKey(ShownUrl))
                      THEN {} ELSE touched
      /\ landings' = landings + 1
      /\ UNCHANGED <<loaded, known, retired>>

\* A push drops the entries ahead.
Land ==
  /\ nav # Null
  /\ LET to    == IF nav.replace THEN pos ELSE pos + 1
         entry == [url |-> nav.url, loc |-> landings + 1]
     IN  /\ Lands(nav.url, entry.loc, nav.replace, nav.own)
         /\ visited' = [i \in (IF nav.replace THEN DOMAIN visited ELSE 1..to) |->
                          IF i = to THEN entry ELSE visited[i]]
         /\ pos' = to
  /\ UNCHANGED overtaken

\* Back or Forward; a navigation that has not landed is dropped.
Traverse(to) ==
  /\ landings < MaxLandings
  /\ to \in {pos - 1, pos + 1} \intersect DOMAIN visited
  /\ Lands(visited[to].url, visited[to].loc, FALSE, FALSE)
  /\ pos' = to
  /\ overtaken' = (overtaken \/ (nav # Null /\ nav.url.q # ShownUrl.q))
  /\ UNCHANGED visited

-----------------------------------------------------------------------------
(* The name filter: applied at once, written to the URL when typing stops.   *)

HandleQueryChange(text) ==
  /\ Acts /\ text # typed.query
  /\ typed' = [typed EXCEPT !.query = text, !.timer = TRUE, !.pending = text]
  /\ stickyCards' = [stickyCards EXCEPT !.ids = {}]
  /\ touched' = {}
  /\ overtaken' = FALSE
  /\ UNCHANGED <<visited, pos, nav, landings, loaded, known, retired>>

QueryTimer ==
  /\ Acts /\ typed.timer
  /\ typed' = [typed EXCEPT !.written = typed.pending, !.timer = FALSE, !.pending = Null]
  /\ WriteUrl([ShownUrl EXCEPT !.q = typed.pending], TRUE)
  /\ UNCHANGED <<visited, pos, landings, loaded, known, retired, overtaken, touched>>

-----------------------------------------------------------------------------
(* The toolbar and the chips of the rows.                                    *)

CanPush == Acts /\ pos < MaxEntries /\ loaded

ToggleFilterTag(t) ==
  /\ CanPush /\ t \in known \ DOMAIN retired
  /\ WriteUrl([ShownUrl EXCEPT !.tags = IF t \in @ THEN @ \ {t} ELSE @ \union {t}], FALSE)
  /\ UNCHANGED <<visited, pos, landings, typed, loaded, known, retired, overtaken, touched>>

HandleFlagChange ==
  /\ CanPush
  /\ WriteUrl([ShownUrl EXCEPT !.flag = ~@], FALSE)
  /\ UNCHANGED <<visited, pos, landings, typed, loaded, known, retired, overtaken, touched>>

\* The cards go with the filters; with only a query to clear, no key changes.
ClearFilters ==
  /\ CanPush
  /\ typed.query # Null \/ ShownUrl.tags # {} \/ ShownUrl.flag
  /\ typed' = [query |-> Null, written |-> Null, timer |-> FALSE, pending |-> Null]
  /\ nav' = Goes([q |-> Null, tags |-> {}, flag |-> FALSE], FALSE, FALSE)
  /\ IF ShownUrl.tags = {} /\ ~ShownUrl.flag
       THEN stickyCards' = [stickyCards EXCEPT !.ids = {}] /\ touched' = {}
       ELSE UNCHANGED <<stickyCards, touched>>
  /\ overtaken' = FALSE
  /\ UNCHANGED <<visited, pos, landings, loaded, known, retired>>

\* A toggle, a note or a chip of a card was changed.
MarkSticky(id) ==
  /\ Quiet /\ loaded /\ id \notin stickyCards.ids
  /\ stickyCards' = [stickyCards EXCEPT !.ids = @ \union {id}]
  /\ touched' = touched \union {id}
  /\ UNCHANGED <<visited, pos, nav, landings, typed, loaded, known, retired, overtaken>>

-----------------------------------------------------------------------------
(* What the page learns of tags.                                             *)

\* The first list; later ones never prune.
FirstLoad ==
  /\ Quiet /\ ~loaded
  /\ loaded' = TRUE
  /\ known' = known \union CarriedFirst
  /\ IF ShownUrl.tags \subseteq CarriedFirst THEN UNCHANGED <<nav, stickyCards>>
     ELSE WriteKeepingSticky([ShownUrl EXCEPT !.tags = @ \intersect CarriedFirst])
  /\ UNCHANGED <<visited, pos, landings, typed, retired, overtaken, touched>>

\* A chip was added, or a list brought one.
LearnTag(t) ==
  /\ Quiet /\ loaded /\ t \notin known
  /\ known' = known \union {t}
  /\ UNCHANGED <<visited, pos, nav, landings, typed, stickyCards, loaded, retired,
                 overtaken, touched>>

\* applyTagChange for a tag that was deleted, or merged into another.
RetireTag(t, into) ==
  /\ Acts /\ loaded
  /\ {t, into} \intersect DOMAIN retired = {} /\ t # into
  /\ retired' = With(retired, t, into)
  /\ known' = IF into = Null THEN known ELSE known \union {into}
  /\ WriteKeepingSticky(
       IF t \notin ShownUrl.tags THEN ShownUrl
       ELSE [ShownUrl EXCEPT !.tags = (@ \ {t}) \union ({into} \ {Null})])
  /\ UNCHANGED <<visited, pos, landings, typed, loaded, overtaken, touched>>

-----------------------------------------------------------------------------
FiltersNext ==
  \/ Land \/ QueryTimer \/ HandleFlagChange \/ ClearFilters \/ FirstLoad
  \/ \E to \in 1..MaxEntries : Traverse(to)
  \/ \E text \in Query \union {Null} : HandleQueryChange(text)
  \/ \E t \in TagId : ToggleFilterTag(t) \/ LearnTag(t)
  \/ \E t \in TagId, into \in TagId \union {Null} : RetireTag(t, into)
  \/ \E id \in Card : MarkSticky(id)

FiltersSpec == FiltersInit /\ [][FiltersNext]_filtersVars

-----------------------------------------------------------------------------
(* The kinds of value each variable holds (watchlist.tsx, watchlistView.ts). *)
FiltersTypeOK ==
  /\ pos \in DOMAIN visited /\ DOMAIN visited \subseteq 1..MaxEntries
  /\ \A i \in DOMAIN visited : visited[i] \in [url : Url, loc : Nat]
  /\ nav \in Navigation \union {Null}
  /\ {typed.query, typed.written, typed.pending} \subseteq Query \union {Null}
  /\ {typed.timer, loaded, overtaken} \subseteq BOOLEAN
  /\ UNION {stickyCards.ids, touched} \subseteq Card
  /\ known \subseteq TagId
  /\ retired \in PartialFcns(TagId, TagId \union {Null})

(* The controls show what the page is filtered by, and the URL agrees: when  *)
(* nothing is under way the typed text is the URL's query, through typing    *)
(* that is still to be written, Back and the page's own echoes; and every    *)
(* tag in the URL is one a chip can be shown for, also when Back brings the  *)
(* id of a tag that was deleted or merged since, more than once even.  A     *)
(* text whose write Back or Forward overtook is in the box alone until the   *)
(* next one is typed or the filters are cleared (~overtaken).                *)
FiltersAsShown ==
  Quiet =>
    /\ ~typed.timer /\ ~overtaken => typed.query = ShownUrl.q
    /\ loaded => ShownUrl.tags \subseteq known \ DOMAIN retired

(* A card stays past the filters exactly until the user, or Back, changes    *)
(* them: rewriting the ids of merged, deleted or unknown tags keeps it, also *)
(* when Back overtakes the rewriting, and no landing keeps one for too long. *)
StickyIsTouched == Quiet => stickyCards.ids = touched

(* Both: what the filters show and keep agrees with the URL and the user.    *)
FiltersHold == FiltersAsShown /\ StickyIsTouched
=============================================================================
