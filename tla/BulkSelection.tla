--------------------------- MODULE BulkSelection ---------------------------
(* Selecting rows of the watchlist and changing all of them at once:        *)
(* useBulkSelection.ts, bulkSelection.ts, BulkActionBar.tsx,                *)
(* BulkPreferencesPopover.tsx, and the bulk endpoints behind them.          *)
(*                                                                          *)
(* One tag and one preference axis stand for all; the only filter is "has   *)
(* the tag" (WatchlistFilters has the others).  The lists a refresh reads   *)
(* come in order here (WatchlistRows reorders them).  Focus and toasts'     *)
(* wording are left out.                                                    *)
EXTENDS WebClient

CONSTANTS
  Id,            \* ids of the rows, in the order of the list
  Type,          \* the types of the preference axis
  CarryFirst,    \* rows whose artist carries the tag at first
  HaveFirst,     \* which rows have which type at first
  MaxChanges     \* bound: bulk requests and changes made from another tab, together

Table == [rows : SUBSET Id, carry : SUBSET Id, has : [Type -> SUBSET Id]]

TriState == {"checked", "unchecked", "indeterminate"}

\* A bulk request, with the two snapshots of the popover it was sent from.
BulkRequest ==
  [op : {"add-tag", "remove-tag", "prefs", "delete"}, ids : SUBSET Id,
   delta : [set : SUBSET Type, unset : SUBSET Type],
   initial : [Type -> TriState] \union {Null}, current : [Type -> TriState] \union {Null},
   reply : {"none", "done", "refused"}, applied : SUBSET Id]

ASSUME BulkAssumption ==
  /\ Id \subseteq Nat /\ IsFiniteSet(Id)
  /\ Null \notin Id /\ Null \notin BulkRequest /\ \A ids \in SUBSET Id : ids # Null
  /\ CarryFirst \subseteq Id
  /\ HaveFirst \in [Type -> SUBSET Id]
  /\ MaxChanges \in Nat

VARIABLES
  table,       \* server: rows that exist, carriers of the tag, rows with a type
  tagExists,   \* server: the tag is in the vocabulary
  page,        \* the route's entries: what the last list said
  pageError,   \* the last refresh failed: the rows and the bar are off screen
  refreshing,  \* a refresh is on its way
  filter,      \* "all" or "tagged"
  sticky,      \* rows a bulk action touched: visible past the filter
  selected,    \* selectedIds: never trimmed
  anchor,      \* anchorRef
  inFlight,    \* the hook's inFlight
  confirm,     \* removeConfirm.ids while the dialog is open, or Null
  bar,         \* the action bar: mode, and the popover's two snapshots
  bulk,        \* the bulk request the bar or the dialog waits for, or Null
  offered,     \* toasts that offer to undo a tag removal: the ids
  undoing,     \* undo requests in flight
  nBulk, nElsewhere,
  lost         \* rows the tag was taken from by a bulk removal (history)

bulkVars == <<table, tagExists, page, pageError, refreshing, filter, sticky,
              selected, anchor, inFlight, confirm, bar, bulk, offered, undoing,
              nBulk, nElsewhere, lost>>

tableVars == <<table, tagExists, lost>>
viewVars  == <<page, pageError, refreshing, filter, sticky>>
flowVars  == <<inFlight, confirm, bulk, nBulk>>
undoVars  == <<offered, undoing>>

-----------------------------------------------------------------------------
(* bulkSelection.ts.                                                         *)

EffectiveOfAll(visible, sel) == sel

EffectiveSelection(visible, sel) == visible \intersect sel

ToggleAllVisible(visible, sel) ==
  IF visible # {} /\ visible \subseteq sel THEN sel \ visible ELSE sel \union visible

\* The span from the anchor to the clicked row, in visible order.
ApplyRange(visible, from, clicked, next, sel) ==
  LET span == IF from \in visible
                THEN {i \in visible : \/ from <= i /\ i <= clicked
                                      \/ clicked <= i /\ i <= from}
                ELSE {clicked}
  IN  IF next THEN sel \union span ELSE sel \ span

InitialTriStates(ids, has) ==
  [t \in Type |-> CASE ids \intersect has[t] = {} -> "unchecked"
                    [] ids \subseteq has[t]       -> "checked"
                    [] OTHER                      -> "indeterminate"]

CycleTriState(initial, current) ==
  CASE initial = "indeterminate" /\ current = "indeterminate" -> "checked"
    [] initial = "indeterminate" /\ current = "unchecked"     -> "indeterminate"
    [] current = "checked"                                    -> "unchecked"
    [] OTHER                                                  -> "checked"

WholeAxisDelta(initial, current) ==
  [set   |-> {t \in Type : current[t] = "checked"},
   unset |-> {t \in Type : current[t] = "unchecked"}]

\* Only the types that moved off their initial state.
BuildAxisDelta(initial, current) ==
  LET moved == {t \in Type : current[t] # initial[t]}
  IN  [set   |-> {t \in moved : current[t] = "checked"},
       unset |-> {t \in moved : current[t] = "unchecked"}]

-----------------------------------------------------------------------------
SelectVisible ==
  page.rows \intersect (IF filter = "all" THEN Id ELSE page.carry \union sticky)

Visible == IF pageError THEN {} ELSE SelectVisible

Effective == EffectiveSelection(Visible, selected)

IdleBar == [mode |-> "idle", pending |-> FALSE, initial |-> Null, current |-> Null]

\* The bar unmounts, and forgets, when nothing selected is on screen.
BarBecomes(b) == bar' = IF Effective' = {} THEN IdleBar ELSE b

Modal == confirm # Null

\* ConfirmDialog's own pending state.
Removing == bulk # Null /\ bulk.op = "delete"

BulkInit ==
  /\ table = [rows |-> Id, carry |-> CarryFirst, has |-> HaveFirst]
  /\ tagExists = TRUE
  /\ page = table
  /\ pageError = FALSE /\ refreshing = FALSE
  /\ filter = "all"
  /\ sticky = {} /\ selected = {}
  /\ anchor = Null
  /\ inFlight = FALSE /\ confirm = Null
  /\ bar = IdleBar
  /\ bulk = Null
  /\ offered = {} /\ undoing = {}
  /\ nBulk = 0 /\ nElsewhere = 0
  /\ lost = {}

-----------------------------------------------------------------------------
(* The view.                                                                 *)

RefreshAnswered ==
  /\ refreshing
  /\ page' = table
  /\ refreshing' = FALSE
  /\ UNCHANGED <<tableVars, pageError, filter, sticky, selected, anchor,
                 flowVars, undoVars, nElsewhere>>
  /\ BarBecomes(bar)

RefreshFailed ==
  /\ refreshing
  /\ pageError' = TRUE
  /\ refreshing' = FALSE
  /\ UNCHANGED <<tableVars, page, filter, sticky, selected, anchor, flowVars,
                 undoVars, nElsewhere>>
  /\ BarBecomes(bar)

\* The Retry button; refresh clears the error at once.
RetryPage ==
  /\ pageError /\ ~Modal
  /\ pageError' = FALSE /\ refreshing' = TRUE
  /\ UNCHANGED <<tableVars, page, filter, sticky, selected, anchor, flowVars,
                 undoVars, nElsewhere>>
  /\ BarBecomes(bar)

\* The toolbar or Back; sticky rows go, and the range's anchor.
ChangeFilter ==
  /\ ~Modal
  /\ filter' \in {"all", "tagged"} \ {filter}
  /\ sticky' = {}
  /\ anchor' = Null
  /\ UNCHANGED <<tableVars, page, pageError, refreshing, selected, flowVars,
                 undoVars, nElsewhere>>
  /\ BarBecomes(bar)

-----------------------------------------------------------------------------
(* Selecting.  The checkboxes are disabled while a bulk request is awaited.  *)

Idle == ~inFlight

Selecting(sel, at) ==
  /\ Idle /\ ~Modal
  /\ selected' = sel
  /\ anchor' = IF sel = {} THEN Null ELSE at
  /\ UNCHANGED <<tableVars, viewVars, flowVars, undoVars, nElsewhere>>
  /\ BarBecomes(bar)

OnSelectChange(id) ==
  /\ id \in Visible
  /\ Selecting(IF id \in selected THEN selected \ {id} ELSE selected \union {id}, id)

OnShiftSelect(id) ==
  /\ id \in Visible
  /\ Selecting(ApplyRange(Visible, anchor, id, id \notin selected, selected), id)

OnSelectAllChange ==
  /\ Visible # {}
  /\ Selecting(ToggleAllVisible(Visible, selected), anchor)

\* The X is disabled during a request, Esc in an idle bar is not.
ClearSelection ==
  /\ ~Modal /\ Effective # {}
  /\ Idle \/ bar.mode = "idle"
  /\ selected' = {} /\ anchor' = Null
  /\ UNCHANGED <<tableVars, viewVars, flowVars, undoVars, nElsewhere>>
  /\ BarBecomes(bar)

-----------------------------------------------------------------------------
(* The bar.                                                                  *)

BarIdle == ~Modal /\ Effective # {} /\ bar.mode = "idle"

OpenLayer(b) ==
  /\ BarIdle /\ Idle
  /\ bar' = b
  /\ UNCHANGED <<tableVars, viewVars, selected, anchor, flowVars, undoVars, nElsewhere>>

OpenAddTag    == OpenLayer([bar EXCEPT !.mode = "add-tag"])
OpenRemoveTag == OpenLayer([bar EXCEPT !.mode = "remove-tag"])

\* Both snapshots are taken anew each time the popover opens.
OpenPrefs ==
  LET fresh == InitialTriStates(Effective, page.has)
  IN  OpenLayer([bar EXCEPT !.mode = "prefs", !.initial = fresh, !.current = fresh])

CloseLayer ==
  /\ bar.mode # "idle" /\ ~bar.pending
  /\ bar' = IdleBar
  /\ UNCHANGED <<tableVars, viewVars, selected, anchor, flowVars, undoVars, nElsewhere>>

Cycle(t) ==
  /\ bar.mode = "prefs" /\ ~bar.pending
  /\ bar' = [bar EXCEPT !.current[t] = CycleTriState(bar.initial[t], @)]
  /\ UNCHANGED <<tableVars, viewVars, selected, anchor, flowVars, undoVars, nElsewhere>>

SendBulk(op, ids, delta) ==
  /\ nBulk + nElsewhere < MaxChanges
  /\ bulk' = [op |-> op, ids |-> ids, delta |-> delta, initial |-> bar.initial,
              current |-> bar.current, reply |-> "none", applied |-> {}]
  /\ nBulk' = nBulk + 1
  /\ inFlight' = TRUE
  /\ UNCHANGED <<tableVars, viewVars, selected, anchor, undoVars, nElsewhere>>

NoDelta == [set |-> {}, unset |-> {}]

\* The picker refuses a tag that is on every selected row,
OnEverySelected == Effective \subseteq page.carry

\* and the other one offers the tags that some selected row carries.
Removable == Effective \intersect page.carry # {}

CommitAddTag ==
  /\ bar.mode = "add-tag" /\ ~bar.pending /\ Idle
  /\ ~OnEverySelected
  /\ SendBulk("add-tag", Effective, NoDelta)
  /\ bar' = [bar EXCEPT !.pending = TRUE]
  /\ UNCHANGED confirm

CommitRemoveTag ==
  /\ bar.mode = "remove-tag" /\ ~bar.pending /\ Idle
  /\ Removable
  /\ SendBulk("remove-tag", Effective, NoDelta)
  /\ bar' = [bar EXCEPT !.pending = TRUE]
  /\ UNCHANGED confirm

ApplyPrefs ==
  LET delta == BuildAxisDelta(bar.initial, bar.current)
  IN  /\ bar.mode = "prefs" /\ ~bar.pending
      /\ delta # NoDelta
      /\ SendBulk("prefs", Effective, delta)
      /\ bar' = [bar EXCEPT !.pending = TRUE]
      /\ UNCHANGED confirm

\* The dialog names the rows selected when it opens, and keeps them.
OpenRemoveConfirm ==
  /\ BarIdle /\ Idle
  /\ confirm' = Effective
  /\ UNCHANGED <<tableVars, viewVars, selected, anchor, inFlight, bar, bulk,
                 nBulk, undoVars, nElsewhere>>

ConfirmRemove ==
  /\ Modal /\ ~Removing
  /\ SendBulk("delete", confirm, NoDelta)
  /\ UNCHANGED <<bar, confirm>>

CancelRemove ==
  /\ Modal /\ ~Removing
  /\ confirm' = Null
  /\ inFlight' = FALSE
  /\ UNCHANGED <<tableVars, viewVars, selected, anchor, bar, bulk, nBulk,
                 undoVars, nElsewhere>>

-----------------------------------------------------------------------------
(* The server: each endpoint is one transaction.                             *)

ServedBulk(reply, applied) ==
  /\ bulk' = [bulk EXCEPT !.reply = reply, !.applied = applied]
  /\ UNCHANGED <<viewVars, selected, anchor, inFlight, confirm, bar, nBulk,
                 undoVars, nElsewhere>>

Awaiting(op) == bulk # Null /\ bulk.op = op /\ bulk.reply = "none"

Found == bulk.ids \intersect table.rows

\* A tag made on the fly for rows that are all gone is rolled back.
ServeBulkAttach ==
  /\ Awaiting("add-tag")
  /\ table' = [table EXCEPT !.carry = @ \union Found]
  /\ tagExists' = (tagExists \/ Found # {})
  /\ ServedBulk("done", Found)
  /\ UNCHANGED lost

\* As if every row found had carried the tag.
DetachedAll == Found

\* Applied is exactly the rows whose link was deleted.
Detached == Found \intersect table.carry

ServeBulkDetach ==
  /\ Awaiting("remove-tag")
  /\ \/ /\ tagExists
        /\ table' = [table EXCEPT !.carry = @ \ Found]
        /\ lost' = lost \union (Found \intersect table.carry)
        /\ ServedBulk("done", Detached)
     \/ /\ ~tagExists
        /\ ServedBulk("refused", {})
        /\ UNCHANGED <<table, lost>>
  /\ UNCHANGED tagExists

ServeBulkPreferences ==
  /\ Awaiting("prefs")
  /\ table' = [table EXCEPT !.has = [t \in Type |->
       CASE t \in bulk.delta.set   -> @[t] \union Found
         [] t \in bulk.delta.unset -> @[t] \ Found
         [] OTHER                  -> @[t]]]
  /\ ServedBulk("done", Found)
  /\ UNCHANGED <<tagExists, lost>>

\* The tags stay with the artists; no id comes back.
ServeBulkRemove ==
  /\ Awaiting("delete")
  /\ table' = [table EXCEPT !.rows = @ \ bulk.ids]
  /\ ServedBulk("done", Found)
  /\ UNCHANGED <<tagExists, lost>>

-----------------------------------------------------------------------------
(* The answers.  finishSuccess clears the selection; a failure keeps it.     *)

Settled == bulk' = Null /\ inFlight' = FALSE /\ UNCHANGED <<tableVars, nBulk>>

\* What refresh does at once.
StartRefresh == refreshing' = TRUE /\ pageError' = FALSE

BulkSucceeded ==
  /\ bulk # Null /\ bulk.op # "delete" /\ bulk.reply = "done"
  /\ Settled
  /\ sticky' = sticky \union bulk.applied
  /\ StartRefresh
  /\ selected' = {} /\ anchor' = Null
  /\ offered' = IF bulk.op = "remove-tag" /\ bulk.applied # {}
                  THEN offered \union {bulk.applied} ELSE offered
  /\ UNCHANGED <<page, filter, confirm, undoing, nElsewhere>>
  /\ BarBecomes(IdleBar)

\* An open popover stays open; a 404 says that the tag is gone.
BulkFailed ==
  /\ bulk # Null /\ bulk.op # "delete"
  /\ Settled
  /\ IF bulk.reply = "refused" THEN StartRefresh
                               ELSE UNCHANGED <<refreshing, pageError>>
  /\ UNCHANGED <<page, filter, sticky, selected, anchor, confirm, undoVars, nElsewhere>>
  /\ BarBecomes(IF bar.mode = "prefs" THEN [bar EXCEPT !.pending = FALSE] ELSE IdleBar)

RemoveConfirmed ==
  /\ bulk # Null /\ bulk.op = "delete" /\ bulk.reply = "done"
  /\ Settled
  /\ confirm' = Null
  /\ page' = [page EXCEPT !.rows = @ \ bulk.ids]
  /\ selected' = {} /\ anchor' = Null
  /\ StartRefresh
  /\ UNCHANGED <<filter, sticky, undoVars, nElsewhere>>
  /\ BarBecomes(bar)

RemoveFailedBulk ==
  /\ bulk # Null /\ bulk.op = "delete"
  /\ Settled
  /\ confirm' = Null
  /\ UNCHANGED <<viewVars, selected, anchor, bar, undoVars, nElsewhere>>

-----------------------------------------------------------------------------
(* Undo of a tag removal, from its toast: it shares nothing with the bar.    *)

UndoRemoveTag(ids) ==
  /\ offered' = offered \ {ids}
  /\ undoing' = undoing \union {[ids |-> ids, reply |-> "none", applied |-> {}]}
  /\ UNCHANGED <<tableVars, viewVars, selected, anchor, flowVars, bar, nElsewhere>>

ServeUndo(u) ==
  /\ u.reply = "none"
  /\ LET found == u.ids \intersect table.rows
     IN  /\ table' = [table EXCEPT !.carry = @ \union found]
         /\ tagExists' = (tagExists \/ found # {})
         /\ undoing' = (undoing \ {u}) \union
                         {[u EXCEPT !.reply = "done", !.applied = found]}
  /\ UNCHANGED <<viewVars, selected, anchor, flowVars, bar, offered, nElsewhere, lost>>

UndoAnswered(u) ==
  /\ u.reply = "done"
  /\ undoing' = undoing \ {u}
  /\ sticky' = sticky \union u.applied
  /\ StartRefresh
  /\ UNCHANGED <<tableVars, page, filter, selected, anchor, flowVars, offered, nElsewhere>>
  /\ BarBecomes(bar)

UndoFailed(u) ==
  /\ undoing' = undoing \ {u}
  /\ UNCHANGED <<tableVars, viewVars, selected, anchor, flowVars, bar, offered, nElsewhere>>

-----------------------------------------------------------------------------
(* Another tab: it removes a row, toggles a type, drops or gives the tag.    *)

Elsewhere ==
  /\ nBulk + nElsewhere < MaxChanges
  /\ nElsewhere' = nElsewhere + 1
  /\ \/ /\ \E id \in table.rows :
             \/ table' = [table EXCEPT !.rows = @ \ {id}]
             \/ \E t \in Type : table' = [table EXCEPT !.has[t] =
                  IF id \in @ THEN @ \ {id} ELSE @ \union {id}]
             \/ tagExists /\ table' = [table EXCEPT !.carry =
                  IF id \in @ THEN @ \ {id} ELSE @ \union {id}]
        /\ UNCHANGED tagExists
     \/ /\ tagExists
        /\ tagExists' = FALSE
        /\ table' = [table EXCEPT !.carry = {}]
  /\ UNCHANGED <<viewVars, selected, anchor, flowVars, bar, undoVars, lost>>

-----------------------------------------------------------------------------
BulkUser ==
  \/ RetryPage \/ ChangeFilter \/ OnSelectAllChange \/ ClearSelection
  \/ OpenAddTag \/ OpenRemoveTag \/ OpenPrefs \/ CloseLayer
  \/ CommitAddTag \/ CommitRemoveTag \/ ApplyPrefs
  \/ OpenRemoveConfirm \/ ConfirmRemove \/ CancelRemove
  \/ \E id \in Id : OnSelectChange(id) \/ OnShiftSelect(id)
  \/ \E t \in Type : Cycle(t)
  \/ \E ids \in offered : UndoRemoveTag(ids)

BulkServer ==
  \/ ServeBulkAttach \/ ServeBulkDetach \/ ServeBulkPreferences \/ ServeBulkRemove
  \/ \E u \in undoing : ServeUndo(u)

BulkAnswer ==
  \/ RefreshAnswered \/ RefreshFailed
  \/ BulkSucceeded \/ BulkFailed \/ RemoveConfirmed \/ RemoveFailedBulk
  \/ \E u \in undoing : UndoAnswered(u) \/ UndoFailed(u)

BulkNext == BulkUser \/ BulkServer \/ BulkAnswer \/ Elsewhere

BulkSpec == BulkInit /\ [][BulkNext]_bulkVars

-----------------------------------------------------------------------------
(* The kinds of value each variable holds (useBulkSelection.ts).             *)
BulkTypeOK ==
  /\ table \in Table /\ page \in Table
  /\ {tagExists, pageError, refreshing, inFlight} \subseteq BOOLEAN
  /\ filter \in {"all", "tagged"}
  /\ UNION {sticky, selected, lost} \subseteq Id
  /\ anchor \in Id \union {Null}
  /\ bar.mode \in {"idle", "add-tag", "remove-tag", "prefs"}
  /\ bar.pending \in BOOLEAN
  /\ {bar.initial, bar.current} \subseteq [Type -> TriState] \union {Null}
  /\ confirm \in (SUBSET Id) \union {Null} /\ bulk \in BulkRequest \union {Null}

(* One bulk request at a time, and the page is locked exactly while it is    *)
(* awaited (inFlight), though filters, Back and refreshes unmount the bar    *)
(* with its own pending flags and mount another one meanwhile.               *)
OneBulkAtATime ==
  /\ inFlight <=> bulk # Null
  /\ bar.pending => inFlight

(* A bulk request is about the rows that were checked and on screen when the *)
(* user pressed the button or, for a removal, opened the dialog that named   *)
(* them: rows selected earlier that a filter hides are left alone (D-11).    *)
OfTheVisible ==
  /\ bulk = Null /\ bulk' # Null =>
       IF bulk'.op = "delete" THEN bulk'.ids = confirm
       ELSE bulk'.ids # {} /\ bulk'.ids \subseteq Visible \intersect selected
  /\ confirm = Null /\ confirm' # Null =>
       confirm' # {} /\ confirm' \subseteq Visible \intersect selected

(* What Apply leaves in the table is what the popover showed: a box that was *)
(* not moved changes nothing, even if what it showed is out of date; a moved *)
(* one holds for every row that still exists.                                *)
PreferencesAsShown ==
  Awaiting("prefs") /\ bulk' # Null /\ bulk'.reply = "done" =>
    \A id \in Found, t \in Type :
      id \in table'.has[t] <=>
        IF bulk.current[t] = bulk.initial[t] THEN id \in table.has[t]
        ELSE bulk.current[t] = "checked" \/
             (bulk.current[t] = "indeterminate" /\ id \in table.has[t])

(* Undo gives the tag back to rows a bulk removal took it from and to no     *)
(* other row that was selected with them.                                    *)
UndoRestoresOnlyRemoved ==
  undoing # {} /\ bulk = bulk' /\ nElsewhere = nElsewhere' =>
    (table'.carry \ table.carry) \subseteq lost

(* The three of them: a bulk request, and its Undo, does what was shown to   *)
(* the rows that were shown.                                                 *)
BulkIsAsShown ==
  [][OfTheVisible /\ PreferencesAsShown /\ UndoRestoresOnlyRemoved]_bulkVars
=============================================================================
