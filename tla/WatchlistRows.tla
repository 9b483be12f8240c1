--------------------------- MODULE WatchlistRows ---------------------------
(* The rows of the watchlist page (routes/watchlist.tsx) with the controls  *)
(* that write to them: PreferenceToggles.tsx, ArtistNote.tsx, TagChips.tsx, *)
(* the Add button of SearchResultsColumns.tsx and the Undo of a removal;    *)
(* and the watchlist table behind the API.                                  *)
(*                                                                          *)
(* A row holds one bit per axis (toggled or not, noted or not) and a set of *)
(* tags.  Filters are WatchlistFilters, the selection is BulkSelection;     *)
(* pending chips, the cap, names, art and focus are left out.               *)
EXTENDS WebClient

CONSTANTS
  Artist,       \* artists, by mbid
  Chip,         \* tags
  Axis,         \* a subset of {"release", "mute", "note"}
  RowId,        \* ids of watchlist rows, in the order the sequence gives them
  WatchedFirst, \* artists watched when the page is opened
  MaxRowWrites, \* bound: writes the user makes
  MaxLists      \* bound: list requests after which the user only waits

Row == [artist : Artist, axes : [Axis -> BOOLEAN], tags : SUBSET Chip]

\* A cell: a row's presence, one of its axes, one of its tags.
Cell == RowId \X ({"row"} \union Axis \union Chip)

ASSUME RowsAssumption ==
  /\ Axis \subseteq {"release", "mute", "note"}
  /\ Chip \intersect ({"row"} \union Axis) = {}
  /\ Null \notin Artist \union Cell \union PartialFcns(RowId, Row)
  /\ RowId \subseteq Nat \ {0}
  /\ WatchedFirst \subseteq Artist
  /\ MaxRowWrites \in Nat /\ MaxLists \in Nat

VARIABLES
  rows,       \* the watchlist table: id -> artist and axes
  tagsOf,     \* artist_tags: they outlive the watchlist row
  usedIds,    \* ids the sequence has given out
  entries,    \* the route's rows, or Null before the first answer
  loadError,  \* the route's error: the rows are off screen
  busy,       \* cells whose control is disabled, while it is mounted
  adding,     \* search results whose Add button is pending
  lists,      \* GET /watchlist requests, the Add button that awaits one, the answers
  nLists,     \* how many were sent
  rowWrites,  \* requests that write, in flight
  nRowWrites, \* how many were sent
  offers,     \* toasts that offer to undo a removal
  added,      \* rows an answered add put on the watchlist (history)
  doubt       \* cells the page was misinformed about: see RowsAreCurrent

rowsVars == <<rows, tagsOf, usedIds, entries, loadError, busy, adding, lists,
              nLists, rowWrites, nRowWrites, offers, added, doubt>>

serverVars  == <<rows, tagsOf, usedIds>>
historyVars == <<added, doubt>>

\* The axes of a row that is added without preferences.
Defaults == [a \in Axis |-> FALSE]

\* What GET /watchlist answers: each row with its artist's tags.
Listed == [id \in DOMAIN rows |->
             [artist |-> rows[id].artist, axes |-> rows[id].axes,
              tags |-> tagsOf[rows[id].artist]]]

AgreeOn(c, shown) ==
  LET id == c[1]
      f  == c[2]
  IN  IF f = "row" THEN id \in DOMAIN shown <=> id \in DOMAIN Listed
      ELSE id \in DOMAIN shown \intersect DOMAIN Listed =>
             IF f \in Axis THEN shown[id].axes[f] = Listed[id].axes[f]
             ELSE f \in shown[id].tags <=> f \in Listed[id].tags

InFlight == {w.cell : w \in rowWrites}

-----------------------------------------------------------------------------
(* The route's updaters: functional, so that each sees the latest entries.   *)

Update(id, row) ==
  IF entries # Null /\ id \in DOMAIN entries
    THEN [entries EXCEPT ![id] = row] ELSE entries

\* handleEntryChange with a whole row, or with the answer's own axis.
PatchRow(id, f, answer) == Update(id, answer)

Patch(id, f, answer) ==
  Update(id, [entries[id] EXCEPT !.axes[f] = answer.axes[f]])

AddTag(id, t) == Update(id, [entries[id] EXCEPT !.tags = @ \union {t}])

RemoveTag(id, t) == Update(id, [entries[id] EXCEPT !.tags = @ \ {t}])

-----------------------------------------------------------------------------
RowsInit ==
  /\ \E at \in Injection(WatchedFirst, RowId) :
       /\ Range(at) = {id \in RowId : id <= Cardinality(WatchedFirst)}
       /\ rows = [id \in Range(at) |->
            [artist |-> CHOOSE x \in WatchedFirst : at[x] = id, axes |-> Defaults]]
  /\ tagsOf = [x \in Artist |-> {}]
  /\ usedIds = DOMAIN rows
  /\ entries = Null /\ loadError = FALSE
  /\ busy = {} /\ adding = {}
  /\ lists = {[n |-> 1, awaits |-> Null, answer |-> Null]} /\ nLists = 1
  /\ rowWrites = {} /\ nRowWrites = 0
  /\ offers = {} /\ added = {} /\ doubt = {}

-----------------------------------------------------------------------------
(* refresh: no request is cancelled, and no answer is checked for its age.   *)
(* An add that was refused with a 409 awaits its refresh, so that the Add    *)
(* button of its artist stays pending until the list has come or failed.     *)

RefreshFor(x) ==
  /\ loadError' = FALSE
  /\ lists' = lists \union {[n |-> nLists + 1, awaits |-> x, answer |-> Null]}
  /\ nLists' = nLists + 1

Refresh == RefreshFor(Null)

NoRefresh == UNCHANGED <<loadError, lists, nLists>>

Retry ==
  /\ loadError /\ nLists < MaxLists
  /\ Refresh
  /\ UNCHANGED <<serverVars, entries, busy, adding, rowWrites, nRowWrites,
                 offers, historyVars>>

ServeList(l) ==
  /\ l.answer = Null
  /\ lists' = (lists \ {l}) \union {[l EXCEPT !.answer = Listed]}
  /\ UNCHANGED <<serverVars, entries, loadError, busy, adding, nLists,
                 rowWrites, nRowWrites, offers, historyVars>>

\* A control whose row leaves the screen forgets that it was pending.
ListAnswered(l) ==
  /\ l.answer # Null
  /\ lists' = lists \ {l}
  /\ entries' = l.answer
  /\ busy' = {c \in busy : c[1] \in DOMAIN l.answer}
  /\ adding' = adding \ {l.awaits}
  /\ doubt' = InFlight \union {c \in Cell : ~AgreeOn(c, l.answer)}
  /\ UNCHANGED <<serverVars, loadError, nLists, rowWrites, nRowWrites, offers, added>>

ListFailed(l) ==
  /\ lists' = lists \ {l}
  /\ loadError' = TRUE
  /\ busy' = {}
  /\ adding' = adding \ {l.awaits}
  /\ UNCHANGED <<serverVars, entries, nLists, rowWrites, nRowWrites, offers,
                 historyVars>>

-----------------------------------------------------------------------------
(* What the user does.                                                       *)

Shown(id) == ~loadError /\ entries # Null /\ id \in DOMAIN entries

\* A control is disabled while its write is awaited.
Enabled(id, f) == Shown(id) /\ <<id, f>> \notin busy

\* The picker of a row refuses a tag that is on it.
Addable(id, t) == t \notin entries[id].tags

CanWriteRow == nRowWrites < MaxRowWrites /\ nLists < MaxLists

\* Two writes to one cell in flight together may be served in either order.
SendRow(op, artist, cell, value, previous) ==
  /\ CanWriteRow
  /\ rowWrites' = rowWrites \union
       {[n |-> nRowWrites + 1, op |-> op, artist |-> artist, cell |-> cell,
         value |-> value, previous |-> previous, reply |-> "none", row |-> Null]}
  /\ nRowWrites' = nRowWrites + 1
  /\ doubt' = doubt \union ({cell} \intersect InFlight)

\* An optimistic PATCH that keeps what to roll back to.
Toggle(id, a) ==
  /\ a # "note" /\ Enabled(id, a)
  /\ SendRow("toggle", Null, <<id, a>>, ~entries[id].axes[a], entries[id])
  /\ entries' = Update(id, [entries[id] EXCEPT !.axes[a] = ~@])
  /\ busy' = busy \union {<<id, a>>}
  /\ UNCHANGED <<serverVars, adding, offers, added>>
  /\ NoRefresh

\* The note is shown only once it is saved.
SaveNote(id) ==
  /\ "note" \in Axis /\ Enabled(id, "note")
  /\ SendRow("note", Null, <<id, "note">>, ~entries[id].axes["note"], Null)
  /\ busy' = busy \union {<<id, "note">>}
  /\ UNCHANGED <<serverVars, entries, adding, offers, added>>
  /\ NoRefresh

DetachChip(id, t) ==
  /\ Shown(id) /\ t \in entries[id].tags
  /\ SendRow("detach", Null, <<id, t>>, FALSE, Null)
  /\ entries' = RemoveTag(id, t)
  /\ UNCHANGED <<serverVars, busy, adding, offers, added>>
  /\ NoRefresh

AttachChip(id, t) ==
  /\ Shown(id) /\ Addable(id, t)
  /\ SendRow("attach", Null, <<id, t>>, TRUE, Null)
  /\ UNCHANGED <<serverVars, entries, busy, adding, offers, added>>
  /\ NoRefresh

RemoveRow(id) ==
  /\ Shown(id)
  /\ SendRow("remove", entries[id].artist, <<id, "row">>,
             entries[id].axes, Null)
  /\ entries' = Without(entries, id)
  /\ busy' = {c \in busy : c[1] # id}
  /\ added' = added \ {id}
  /\ UNCHANGED <<serverVars, adding, offers>>
  /\ NoRefresh

\* The result of a search is addable unless the entries have its artist.
AddArtist(x) ==
  /\ x \notin adding
  /\ entries # Null => \A id \in DOMAIN entries : entries[id].artist # x
  /\ SendRow("add", x, Null, Defaults, Null)
  /\ adding' = adding \union {x}
  /\ UNCHANGED <<serverVars, entries, busy, offers, added>>
  /\ NoRefresh

\* Undo re-adds the artist with default preferences, and its note.
Undo(o) ==
  /\ SendRow("undo", o.artist, Null,
             [a \in Axis |-> a = "note" /\ o.axes[a]], Null)
  /\ offers' = offers \ {o}
  /\ UNCHANGED <<serverVars, entries, busy, adding, added>>
  /\ NoRefresh

-----------------------------------------------------------------------------
(* The server, one transaction a request.  The unique index on the artist    *)
(* refuses a second row for it.                                              *)

ServedRow(w, reply) ==
  /\ rowWrites' = (rowWrites \ {w}) \union {reply}
  /\ UNCHANGED <<entries, loadError, busy, adding, lists, nLists, nRowWrites,
                 offers, historyVars>>

RefusedRow(w) ==
  /\ ServedRow(w, [w EXCEPT !.reply = "refused"])
  /\ UNCHANGED serverVars

Target(w) == w.cell[1]

ServeAxis(w) ==
  /\ w.op \in {"toggle", "note"} /\ w.reply = "none"
  /\ \/ Target(w) \notin DOMAIN rows /\ RefusedRow(w)
     \/ /\ Target(w) \in DOMAIN rows
        /\ rows' = [rows EXCEPT ![Target(w)].axes[w.cell[2]] = w.value]
        /\ ServedRow(w, [w EXCEPT !.reply = "done",
             !.row = [Listed[Target(w)] EXCEPT !.axes[w.cell[2]] = w.value]])
        /\ UNCHANGED <<tagsOf, usedIds>>

ServeTag(w) ==
  /\ w.op \in {"attach", "detach"} /\ w.reply = "none"
  /\ \/ Target(w) \notin DOMAIN rows /\ RefusedRow(w)
     \/ /\ Target(w) \in DOMAIN rows
        /\ tagsOf' = [tagsOf EXCEPT ![rows[Target(w)].artist] =
             IF w.value THEN @ \union {w.cell[2]} ELSE @ \ {w.cell[2]}]
        /\ ServedRow(w, [w EXCEPT !.reply = "done"])
        /\ UNCHANGED <<rows, usedIds>>

ServeRemove(w) ==
  /\ w.op = "remove" /\ w.reply = "none"
  /\ \/ Target(w) \notin DOMAIN rows /\ RefusedRow(w)
     \/ /\ Target(w) \in DOMAIN rows
        /\ rows' = Without(rows, Target(w))
        /\ ServedRow(w, [w EXCEPT !.reply = "done"])
        /\ UNCHANGED <<tagsOf, usedIds>>

\* The cell of an add becomes known with its row's id.
ServeAdd(w) ==
  /\ w.op \in {"add", "undo"} /\ w.reply = "none"
  /\ \/ (\E id \in DOMAIN rows : rows[id].artist = w.artist) /\ RefusedRow(w)
     \/ /\ \A id \in DOMAIN rows : rows[id].artist # w.artist
        /\ \E id \in RowId \ usedIds :
             /\ \A j \in RowId \ usedIds : id <= j
             /\ rows' = With(rows, id, [artist |-> w.artist, axes |-> w.value])
             /\ usedIds' = usedIds \union {id}
             /\ ServedRow(w, [w EXCEPT !.reply = "done", !.cell = <<id, "row">>])
        /\ UNCHANGED tagsOf

-----------------------------------------------------------------------------
(* The answers.  A write that was served and then failed leaves its cell in  *)
(* doubt, unless the handler refreshes.                                      *)

GotAnswer(w) == rowWrites' = rowWrites \ {w} /\ UNCHANGED <<serverVars, nRowWrites>>

Misinformed(w) == IF w.reply = "done" THEN {w.cell} ELSE {}

\* finally: the control is enabled again.
AxisAnswered(w) ==
  /\ w.op \in {"toggle", "note"} /\ w.reply = "done"
  /\ GotAnswer(w)
  /\ entries' = Patch(Target(w), w.cell[2], w.row)
  /\ busy' = busy \ {w.cell}
  /\ UNCHANGED <<adding, offers, historyVars>>
  /\ NoRefresh

AxisFailed(w) ==
  /\ w.op \in {"toggle", "note"}
  /\ GotAnswer(w)
  /\ entries' = IF w.op = "toggle"
                  THEN Patch(Target(w), w.cell[2], w.previous) ELSE entries
  /\ busy' = busy \ {w.cell}
  /\ doubt' = doubt \union Misinformed(w)
  /\ UNCHANGED <<adding, offers, added>>
  /\ NoRefresh

AttachAnsweredRow(w) ==
  /\ w.op = "attach" /\ w.reply = "done"
  /\ GotAnswer(w)
  /\ entries' = AddTag(Target(w), w.cell[2])
  /\ UNCHANGED <<busy, adding, offers, historyVars>>
  /\ NoRefresh

AttachFailedRow(w) ==
  /\ w.op = "attach"
  /\ GotAnswer(w)
  /\ doubt' = doubt \union Misinformed(w)
  /\ UNCHANGED <<entries, busy, adding, offers, added>>
  /\ NoRefresh

DetachAnsweredRow(w) ==
  /\ w.op = "detach" /\ w.reply = "done"
  /\ GotAnswer(w)
  /\ UNCHANGED <<entries, busy, adding, offers, historyVars>>
  /\ NoRefresh

DetachFailedRow(w) ==
  /\ w.op = "detach"
  /\ GotAnswer(w)
  /\ entries' = AddTag(Target(w), w.cell[2])
  /\ doubt' = doubt \union Misinformed(w)
  /\ UNCHANGED <<busy, adding, offers, added>>
  /\ NoRefresh

RemoveAnswered(w) ==
  /\ w.op = "remove" /\ w.reply = "done"
  /\ GotAnswer(w)
  /\ offers' = offers \union {[artist |-> w.artist, axes |-> w.value]}
  /\ UNCHANGED <<entries, busy, adding, historyVars>>
  /\ NoRefresh

RemoveFailed(w) ==
  /\ w.op = "remove"
  /\ GotAnswer(w)
  /\ Refresh
  /\ UNCHANGED <<entries, busy, adding, offers, historyVars>>

\* A 409 to an add means that the artist is there, and the button waits for the
\* list that shows it; to an undo it is a failure.
AddAnswered(w) ==
  /\ \/ /\ w.op \in {"add", "undo"} /\ w.reply = "done"
        /\ Refresh
        /\ adding' = IF w.op = "add" THEN adding \ {w.artist} ELSE adding
     \/ /\ w.op = "add" /\ w.reply = "refused"
        /\ RefreshFor(w.artist)
        /\ UNCHANGED adding
  /\ GotAnswer(w)
  /\ added' = added \union {c[1] : c \in {w.cell} \ {Null}}
  /\ UNCHANGED <<entries, busy, offers, doubt>>

\* Without the finally of the Add button.
AddFailedStaysBusy(w) ==
  /\ w.op \in {"add", "undo"}
  /\ GotAnswer(w)
  /\ doubt' = doubt \union Misinformed(w)
  /\ UNCHANGED <<entries, busy, adding, offers, added>>
  /\ NoRefresh

AddFailed(w) ==
  /\ w.op \in {"add", "undo"}
  /\ GotAnswer(w)
  /\ adding' = IF w.op = "add" THEN adding \ {w.artist} ELSE adding
  /\ doubt' = doubt \union Misinformed(w)
  /\ UNCHANGED <<entries, busy, offers, added>>
  /\ NoRefresh

-----------------------------------------------------------------------------
ListStep(l) == ServeList(l) \/ ListAnswered(l) \/ ListFailed(l)

RowServed(w) == ServeAxis(w) \/ ServeTag(w) \/ ServeRemove(w) \/ ServeAdd(w)

RowAnswered(w) ==
  \/ AxisAnswered(w) \/ AxisFailed(w) \/ AttachAnsweredRow(w) \/ AttachFailedRow(w)
  \/ DetachAnsweredRow(w) \/ DetachFailedRow(w) \/ RemoveAnswered(w)
  \/ RemoveFailed(w) \/ AddAnswered(w) \/ AddFailed(w)

RowsUser ==
  \/ Retry
  \/ \E id \in RowId :
       \/ SaveNote(id) \/ RemoveRow(id)
       \/ \E a \in Axis : Toggle(id, a)
       \/ \E t \in Chip : AttachChip(id, t) \/ DetachChip(id, t)
  \/ \E x \in Artist : AddArtist(x)
  \/ \E o \in offers : Undo(o)

RowsNext ==
  \/ RowsUser
  \/ \E l \in lists : ListStep(l)
  \/ \E w \in rowWrites : RowServed(w) \/ RowAnswered(w)

RowsSpec == RowsInit /\ [][RowsNext]_rowsVars

-----------------------------------------------------------------------------
(* The kinds of value each variable holds (WatchlistEntry in lib/api.ts).    *)
RowsTypeOK ==
  /\ Range(rows) \subseteq [artist : Artist, axes : [Axis -> BOOLEAN]]
  /\ tagsOf \in [Artist -> SUBSET Chip]
  /\ DOMAIN rows \subseteq usedIds /\ usedIds \subseteq RowId
  /\ entries # Null => /\ DOMAIN entries \subseteq RowId
                       /\ Range(entries) \subseteq Row
  /\ loadError \in BOOLEAN
  /\ busy \subseteq Cell /\ adding \subseteq Artist
  /\ nLists \in Nat /\ nRowWrites \in 0..MaxRowWrites
  /\ added \subseteq RowId /\ doubt \subseteq Cell \union {Null}

(* What the page shows agrees with the watchlist table, cell by cell, when   *)
(* the rows are on screen and no list is awaited: writes to different cells  *)
(* of a row never undo each other, a failed one leaves the old value, and a  *)
(* refresh brings back what an optimistic update got wrong.  Left out are    *)
(* the cells the page cannot know about: a write to it is in flight, was     *)
(* served but reported as failed, or overlapped with another one or with a   *)
(* list, and the lists that were answered with an older state.               *)
RowsAreCurrent ==
  (entries # Null /\ ~loadError /\ lists = {}) =>
    \A c \in Cell \ (doubt \union InFlight) : AgreeOn(c, entries)

(* No control is stuck: one that is disabled waits for a request of its own, *)
(* a row's control for its write and an Add button for its POST or, after a  *)
(* 409, for the list read that follows (PreferenceToggles.tsx,               *)
(* ArtistNote.tsx, SearchResultsColumns.tsx:166, watchlist.tsx:416).         *)
DisabledIsAwaited ==
  /\ busy \subseteq InFlight
  /\ adding \subseteq {w.artist : w \in {v \in rowWrites : v.op = "add"}}
                     \union {l.awaits : l \in lists}

(* watchlist.tsx:375: "On success it refreshes the loaded entries so the new *)
(* artist appears below".                                                    *)
AddedArtistAppears ==
  (entries # Null /\ ~loadError /\ lists = {} /\ rowWrites = {}) =>
    added \subseteq DOMAIN entries
=============================================================================
