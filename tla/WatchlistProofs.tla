--------------------------- MODULE WatchlistProofs ---------------------------
(* What the parts of the watchlist page guarantee, for any artists, tags,   *)
(* rows and requests.  As in MCWeb the parts are side by side: a step of    *)
(* the client is a step of one of them, or leaves it as it was.             *)
EXTENDS MCWeb, FiniteSetTheorems, TLAPS

LEMMA PartsOfWeb ==
  [WebNext]_webVars => /\ [RowsNext]_rowsVars
                       /\ [BulkNext]_bulkVars
                       /\ [FiltersNext]_filtersVars
  BY DEF WebNext, Only, webVars

-----------------------------------------------------------------------------
(* The bulk selection.                                                       *)

BarRecord ==
  [mode : {"idle", "add-tag", "remove-tag", "prefs"}, pending : BOOLEAN,
   initial : [Type -> TriState] \union {Null}, current : [Type -> TriState] \union {Null}]

UndoRecord ==
  [ids : SUBSET Id, reply : {"none", "done"}, applied : SUBSET Id]

BulkTypes ==
  /\ table \in Table /\ page \in Table
  /\ tagExists \in BOOLEAN /\ pageError \in BOOLEAN
  /\ refreshing \in BOOLEAN /\ inFlight \in BOOLEAN
  /\ filter \in {"all", "tagged"}
  /\ sticky \subseteq Id /\ selected \subseteq Id /\ lost \subseteq Id
  /\ anchor \in Id \union {Null}
  /\ bar \in BarRecord
  /\ confirm \in (SUBSET Id) \union {Null} /\ bulk \in BulkRequest \union {Null}
  /\ offered \subseteq SUBSET Id /\ undoing \subseteq UndoRecord
  /\ nElsewhere \in Nat

\* An open popover has its own request in flight, or none; the dialog is
\* open during a removal and no other request.
Modes ==
  /\ bar.mode = "idle" => ~bar.pending
  /\ bulk # Null /\ bar.mode # "idle" => bar.pending
  /\ bulk # Null => (bulk.op = "delete" <=> confirm # Null)
  /\ confirm # Null => bar.mode = "idle"

\* A bar with an open popover is on screen.
BarShown == bar.mode # "idle" => Effective # {}

\* What a request changes is what its snapshots say.
Snapshots ==
  /\ bar.mode = "prefs" =>
       bar.initial \in [Type -> TriState] /\ bar.current \in [Type -> TriState]
  /\ bulk # Null /\ bulk.op = "prefs" =>
       /\ bulk.initial \in [Type -> TriState] /\ bulk.current \in [Type -> TriState]
       /\ bulk.delta = BuildAxisDelta(bulk.initial, bulk.current)

\* An Undo is of rows that a bulk removal took the tag from.
Losses ==
  /\ \A ids \in offered : ids \subseteq lost
  /\ \A u \in undoing : u.ids \subseteq lost
  /\ bulk # Null /\ bulk.op = "remove-tag" => bulk.applied \subseteq lost

BulkInv == BulkTypes /\ OneBulkAtATime /\ Modes /\ BarShown /\ Snapshots /\ Losses

LEMMA IdleBarType == IdleBar \in BarRecord /\ IdleBar.mode = "idle" /\ ~IdleBar.pending
  BY DEF IdleBar, BarRecord

LEMMA EffectiveType ==
  ASSUME BulkTypes
  PROVE  /\ Effective \subseteq Id /\ Visible \subseteq Id
         /\ Effective = Visible \intersect selected
  BY DEF BulkTypes, Table, Effective, EffectiveSelection, Visible, SelectVisible

LEMMA BulkNulls ==
  /\ \A ids \in SUBSET Id : ids # Null
  /\ \A r \in BulkRequest : r # Null
  BY BulkAssumption

LEMMA DeltaType ==
  ASSUME NEW initial, NEW current
  PROVE  BuildAxisDelta(initial, current) \in [set : SUBSET Type, unset : SUBSET Type]
  BY DEF BuildAxisDelta

LEMMA FreshType ==
  ASSUME NEW ids, NEW has
  PROVE  InitialTriStates(ids, has) \in [Type -> TriState]
<1>1. "checked" \in TriState /\ "unchecked" \in TriState /\ "indeterminate" \in TriState
  BY DEF TriState
<1>. QED
  BY <1>1 DEF InitialTriStates

LEMMA BulkInitInv == BulkInit => BulkInv
<1>. SUFFICES ASSUME BulkInit PROVE BulkInv
  OBVIOUS
<1>1. BulkTypes
  BY BulkAssumption, IdleBarType DEF BulkInit, BulkTypes, Table
<1>2. OneBulkAtATime /\ Modes /\ BarShown /\ Snapshots /\ Losses
  BY IdleBarType DEF BulkInit, OneBulkAtATime, Modes, BarShown, Snapshots, Losses
<1>. QED
  BY <1>1, <1>2 DEF BulkInv

\* The request that a button sends.
LEMMA SentType ==
  ASSUME BulkTypes, NEW op \in {"add-tag", "remove-tag", "prefs", "delete"},
         NEW ids \in SUBSET Id, NEW delta \in [set : SUBSET Type, unset : SUBSET Type],
         SendBulk(op, ids, delta)
  PROVE  /\ bulk' \in BulkRequest /\ bulk'.op = op /\ bulk'.ids = ids /\ bulk'.delta = delta
         /\ bulk'.initial = bar.initial /\ bulk'.current = bar.current
         /\ bulk'.reply = "none" /\ bulk'.applied = {}
         /\ bulk' # Null /\ inFlight' = TRUE
<1>1. /\ bar.initial \in [Type -> TriState] \union {Null}
      /\ bar.current \in [Type -> TriState] \union {Null}
  BY DEF BulkTypes, BarRecord
<1>2. bulk' \in BulkRequest
  BY <1>1 DEF SendBulk, BulkRequest
<1>. QED
  BY <1>2, BulkNulls DEF SendBulk

LEMMA BulkTypesStep == BulkInv /\ [BulkNext]_bulkVars => BulkTypes'
<1>. SUFFICES ASSUME BulkInv, [BulkNext]_bulkVars PROVE BulkTypes'
  OBVIOUS
<1>. USE DEF BulkTypes
<1>0. BulkTypes /\ Effective \subseteq Id /\ Visible \subseteq Id
  BY EffectiveType DEF BulkInv
<1>1. CASE RefreshAnswered \/ RefreshFailed \/ RetryPage \/ ChangeFilter \/ ClearSelection
  BY <1>0, <1>1, IdleBarType
     DEF RefreshAnswered, RefreshFailed, RetryPage, ChangeFilter, ClearSelection, BarBecomes,
         tableVars, viewVars, flowVars, undoVars
<1>2. ASSUME NEW sel \in SUBSET Id, NEW at \in Id \union {Null}, Selecting(sel, at)
      PROVE  BulkTypes'
  BY <1>0, <1>2, IdleBarType DEF Selecting, BarBecomes, tableVars, viewVars, flowVars, undoVars
<1>3. CASE OnSelectAllChange
  <2>1. ToggleAllVisible(Visible, selected) \in SUBSET Id
    BY <1>0 DEF ToggleAllVisible
  <2>. QED
    BY <1>0, <1>2, <1>3, <2>1 DEF OnSelectAllChange
<1>4. ASSUME NEW id \in Id, OnSelectChange(id) \/ OnShiftSelect(id) PROVE BulkTypes'
  <2>1. /\ selected \ {id} \in SUBSET Id /\ selected \union {id} \in SUBSET Id
        /\ ApplyRange(Visible, anchor, id, id \notin selected, selected) \in SUBSET Id
    BY <1>0 DEF ApplyRange
  <2>. QED
    BY <1>2, <1>4, <2>1 DEF OnSelectChange, OnShiftSelect
<1>5. CASE OpenAddTag \/ OpenRemoveTag \/ OpenPrefs \/ CloseLayer
  <2>1. PICK fresh \in [Type -> TriState] : fresh = InitialTriStates(Effective, page.has)
    BY FreshType
  <2>2. bar \in BarRecord
    BY <1>0
  <2>3. /\ [bar EXCEPT !.mode = "add-tag"] \in BarRecord
        /\ [bar EXCEPT !.mode = "remove-tag"] \in BarRecord
        /\ [bar EXCEPT !.mode = "prefs", !.initial = fresh, !.current = fresh] \in BarRecord
    BY <2>2 DEF BarRecord
  <2>4. bar' \in BarRecord
    BY <1>5, <2>1, <2>3, IdleBarType
       DEF OpenAddTag, OpenRemoveTag, OpenPrefs, OpenLayer, CloseLayer
  <2>. QED
    BY <1>0, <1>5, <2>4 DEF OpenAddTag, OpenRemoveTag, OpenPrefs, OpenLayer, CloseLayer,
                            tableVars, viewVars, flowVars, undoVars
<1>6. ASSUME NEW t \in Type, Cycle(t) PROVE BulkTypes'
  <2>1. bar.initial \in [Type -> TriState] /\ bar.current \in [Type -> TriState]
    BY <1>0, <1>6 DEF BulkInv, Snapshots, Cycle, BarRecord
  <2>2. \A i, j \in TriState : CycleTriState(i, j) \in TriState
    BY DEF CycleTriState, TriState
  <2>3. bar' \in BarRecord
    BY <1>0, <1>6, <2>1, <2>2 DEF Cycle, BarRecord
  <2>. QED
    BY <1>0, <1>6, <2>3 DEF Cycle, tableVars, viewVars, flowVars, undoVars
<1>7. ASSUME NEW op \in {"add-tag", "remove-tag", "prefs", "delete"}, NEW ids \in SUBSET Id,
             NEW delta \in [set : SUBSET Type, unset : SUBSET Type],
             SendBulk(op, ids, delta), confirm' = confirm,
             bar' = bar \/ bar' = [bar EXCEPT !.pending = TRUE]
      PROVE  BulkTypes'
  <2>1. bulk' \in BulkRequest /\ inFlight' = TRUE
    BY <1>0, <1>7, SentType
  <2>2. bar' \in BarRecord
    BY <1>0, <1>7 DEF BarRecord
  <2>. QED
    BY <1>0, <1>7, <2>1, <2>2 DEF SendBulk, tableVars, viewVars, undoVars
<1>8. CASE CommitAddTag \/ CommitRemoveTag \/ ApplyPrefs \/ ConfirmRemove
  <2>1. NoDelta \in [set : SUBSET Type, unset : SUBSET Type]
    BY DEF NoDelta
  <2>2. confirm # Null => confirm \in SUBSET Id
    BY <1>0
  <2>3. CASE CommitAddTag \/ CommitRemoveTag
    BY <1>0, <1>7, <2>1, <2>3 DEF CommitAddTag, CommitRemoveTag
  <2>4. CASE ApplyPrefs
    BY <1>0, <1>7, <2>4, DeltaType DEF ApplyPrefs
  <2>5. CASE ConfirmRemove
    BY <1>7, <2>1, <2>2, <2>5 DEF ConfirmRemove, Modal
  <2>. QED
    BY <1>8, <2>3, <2>4, <2>5
<1>9. CASE OpenRemoveConfirm \/ CancelRemove
  BY <1>0, <1>9 DEF OpenRemoveConfirm, CancelRemove, tableVars, viewVars, undoVars
<1>10. ASSUME NEW reply \in {"done", "refused"}, NEW applied \in SUBSET Id, bulk # Null,
              ServedBulk(reply, applied), table' \in Table, tagExists' \in BOOLEAN,
              lost' \subseteq Id
       PROVE  BulkTypes'
  <2>1. bulk' \in BulkRequest
    BY <1>0, <1>10 DEF ServedBulk, BulkRequest
  <2>. QED
    BY <1>0, <1>10, <2>1 DEF ServedBulk, viewVars, undoVars
<1>11. CASE ServeBulkAttach \/ ServeBulkDetach \/ ServeBulkPreferences \/ ServeBulkRemove
  <2>1. bulk # Null /\ Found \in SUBSET Id /\ Detached \in SUBSET Id
    BY <1>0, <1>11 DEF ServeBulkAttach, ServeBulkDetach, ServeBulkPreferences,
                       ServeBulkRemove, Awaiting, Found, Detached, Table
  <2>2. CASE ServeBulkAttach
    <3>1. [table EXCEPT !.carry = @ \union Found] \in Table
      BY <1>0, <2>1 DEF Table
    <3>. QED
      BY <1>0, <1>10, <2>1, <2>2, <3>1 DEF ServeBulkAttach
  <2>3. CASE ServeBulkDetach
    <3>1. [table EXCEPT !.carry = @ \ Found] \in Table
      BY <1>0, <2>1 DEF Table
    <3>. QED
      BY <1>0, <1>10, <2>1, <2>3, <3>1 DEF ServeBulkDetach
  <2>4. CASE ServeBulkPreferences
    <3>1. table' \in Table
      BY <1>0, <2>1, <2>4 DEF ServeBulkPreferences, Table
    <3>. QED
      BY <1>0, <1>10, <2>1, <2>4, <3>1 DEF ServeBulkPreferences
  <2>5. CASE ServeBulkRemove
    <3>1. table' \in Table
      BY <1>0, <2>1, <2>5 DEF ServeBulkRemove, Table
    <3>. QED
      BY <1>0, <1>10, <2>1, <2>5, <3>1 DEF ServeBulkRemove
  <2>. QED
    BY <1>11, <2>2, <2>3, <2>4, <2>5
<1>12. CASE BulkSucceeded \/ BulkFailed \/ RemoveConfirmed \/ RemoveFailedBulk
  <2>1. bulk # Null /\ bulk.applied \in SUBSET Id
    BY <1>0, <1>12 DEF BulkSucceeded, BulkFailed, RemoveConfirmed, RemoveFailedBulk, BulkRequest
  <2>2. page' \in Table
    BY <1>0, <1>12
       DEF BulkSucceeded, BulkFailed, RemoveConfirmed, RemoveFailedBulk, viewVars, Table
  <2>3. bar' \in BarRecord
    BY <1>0, <1>12, IdleBarType
       DEF BulkSucceeded, BulkFailed, RemoveConfirmed, RemoveFailedBulk, BarBecomes, BarRecord
  <2>. QED
    BY <1>0, <1>12, <2>1, <2>2, <2>3
       DEF BulkSucceeded, BulkFailed, RemoveConfirmed, RemoveFailedBulk, Settled, StartRefresh,
           tableVars, viewVars, undoVars
<1>13. ASSUME NEW ids \in offered, UndoRemoveTag(ids) PROVE BulkTypes'
  BY <1>0, <1>13 DEF UndoRemoveTag, UndoRecord, tableVars, viewVars, flowVars
<1>14. ASSUME NEW u \in undoing, ServeUndo(u) PROVE BulkTypes'
  <2>1. PICK found \in SUBSET Id : found = u.ids \intersect table.rows
    BY <1>0 DEF Table
  <2>2. [table EXCEPT !.carry = @ \union found] \in Table
    BY <1>0 DEF Table
  <2>3. [u EXCEPT !.reply = "done", !.applied = found] \in UndoRecord
    <3>1. u \in UndoRecord
      BY <1>0
    <3>. QED
      BY <3>1 DEF UndoRecord
  <2>. QED
    BY <1>0, <1>14, <2>1, <2>2, <2>3 DEF ServeUndo, viewVars, flowVars
<1>15. ASSUME NEW u \in undoing, UndoAnswered(u) \/ UndoFailed(u) PROVE BulkTypes'
  BY <1>0, <1>15, IdleBarType
     DEF UndoAnswered, UndoFailed, UndoRecord, StartRefresh, BarBecomes,
                                  tableVars, viewVars, flowVars
<1>16. CASE Elsewhere
  <2>1. table' \in Table
    <3>1. table \in Table
      BY <1>0
    <3>2. ASSUME NEW ids \in SUBSET Id
          PROVE  /\ [table EXCEPT !.rows = ids] \in Table
                 /\ [table EXCEPT !.carry = ids] \in Table
                 /\ \A t \in Type : [table EXCEPT !.has[t] = ids] \in Table
      BY <3>1 DEF Table
    <3>3. ASSUME NEW ids \in SUBSET Id, NEW id \in table.rows
          PROVE  /\ ids \ {id} \in SUBSET Id
                 /\ (IF id \in ids THEN ids \ {id} ELSE ids \union {id}) \in SUBSET Id
      BY <3>1 DEF Table
    <3>4. /\ table.rows \in SUBSET Id /\ table.carry \in SUBSET Id /\ {} \in SUBSET Id
          /\ \A t \in Type : table.has[t] \in SUBSET Id
      BY <3>1 DEF Table
    <3>5. CASE \E id \in table.rows : table' = [table EXCEPT !.rows = @ \ {id}]
      <4>1. PICK id \in table.rows : table' = [table EXCEPT !.rows = table.rows \ {id}]
        BY <3>5
      <4>2. table.rows \ {id} \in SUBSET Id
        BY <3>3, <3>4
      <4>. QED
        BY <3>2, <4>1, <4>2
    <3>6. CASE \E id \in table.rows, t \in Type : table' = [table EXCEPT !.has[t] =
                 IF id \in @ THEN @ \ {id} ELSE @ \union {id}]
      <4>1. PICK id \in table.rows, t \in Type : table' = [table EXCEPT !.has[t] =
              IF id \in table.has[t] THEN table.has[t] \ {id} ELSE table.has[t] \union {id}]
        BY <3>6
      <4>. QED
        BY <3>2, <3>3, <3>4, <4>1
    <3>7. CASE \E id \in table.rows : table' = [table EXCEPT !.carry =
                 IF id \in @ THEN @ \ {id} ELSE @ \union {id}]
      <4>1. PICK id \in table.rows : table' = [table EXCEPT !.carry =
              IF id \in table.carry THEN table.carry \ {id} ELSE table.carry \union {id}]
        BY <3>7
      <4>. QED
        BY <3>2, <3>3, <3>4, <4>1
    <3>8. CASE table' = [table EXCEPT !.carry = {}]
      BY <3>2, <3>4, <3>8, BulkAssumption
    <3>. QED
      BY <1>16, <3>5, <3>6, <3>7, <3>8 DEF Elsewhere
  <2>2. tagExists' \in BOOLEAN
    BY <1>0, <1>16 DEF Elsewhere
  <2>. QED
    BY <1>0, <1>16, <2>1, <2>2 DEF Elsewhere, viewVars, flowVars, undoVars
<1>17. CASE UNCHANGED bulkVars
  BY <1>0, <1>17 DEF bulkVars
<1>. QED
  BY <1>1, <1>3, <1>4, <1>5, <1>6, <1>8, <1>9, <1>11, <1>12, <1>13, <1>14, <1>15, <1>16, <1>17
     DEF BulkNext, BulkUser, BulkServer, BulkAnswer

LEMMA EffectiveKept == UNCHANGED <<viewVars, selected>> => Effective' = Effective
  BY DEF viewVars, Effective, EffectiveSelection, Visible, SelectVisible

\* How the bar and the requests go on, whatever the rows are.
Flow == OneBulkAtATime /\ Modes /\ BarShown /\ Snapshots /\ Losses

LEMMA FlowStep == BulkInv /\ [BulkNext]_bulkVars => Flow'
<1>. SUFFICES ASSUME BulkInv, [BulkNext]_bulkVars PROVE Flow'
  OBVIOUS
<1>. USE DEF Flow, OneBulkAtATime, Modes, BarShown, Snapshots, Losses
<1>0. Flow /\ BulkTypes
  BY DEF BulkInv
<1>1. ASSUME BarBecomes(bar), UNCHANGED flowVars, lost' = lost,
             offered' \subseteq offered, undoing' \subseteq undoing
      PROVE  Flow'
  BY <1>0, <1>1, IdleBarType DEF BarBecomes, flowVars
<1>2. CASE RefreshAnswered \/ RefreshFailed \/ RetryPage \/ ChangeFilter \/ ClearSelection
  BY <1>1, <1>2 DEF RefreshAnswered, RefreshFailed, RetryPage, ChangeFilter, ClearSelection,
                    tableVars, undoVars
<1>3. CASE \/ OnSelectAllChange \/ \E id \in Id : OnSelectChange(id) \/ OnShiftSelect(id)
  BY <1>1, <1>3 DEF OnSelectAllChange, OnSelectChange, OnShiftSelect, Selecting,
                    tableVars, undoVars
<1>4. ASSUME NEW opened, OpenLayer(opened), opened.mode # "idle", ~opened.pending,
             opened.mode = "prefs" =>
               opened.initial \in [Type -> TriState] /\ opened.current \in [Type -> TriState]
      PROVE  Flow'
  BY <1>0, <1>4, EffectiveKept
     DEF OpenLayer, BarIdle, Idle, Modal, tableVars, flowVars, undoVars
<1>5. CASE OpenAddTag \/ OpenRemoveTag \/ OpenPrefs
  <2>1. PICK fresh \in [Type -> TriState] : fresh = InitialTriStates(Effective, page.has)
    BY FreshType
  <2>2. bar \in BarRecord /\ bar.mode = "idle" /\ ~bar.pending
    BY <1>0, <1>5 DEF BulkTypes, OpenAddTag, OpenRemoveTag, OpenPrefs, OpenLayer, BarIdle
  <2>. DEFINE prefs == [bar EXCEPT !.mode = "prefs", !.initial = fresh, !.current = fresh]
  <2>3. /\ [bar EXCEPT !.mode = "add-tag"].mode = "add-tag"
        /\ ~[bar EXCEPT !.mode = "add-tag"].pending
        /\ [bar EXCEPT !.mode = "remove-tag"].mode = "remove-tag"
        /\ ~[bar EXCEPT !.mode = "remove-tag"].pending
        /\ prefs.mode = "prefs" /\ ~prefs.pending
        /\ prefs.initial = fresh /\ prefs.current = fresh
    BY <2>2 DEF BarRecord
  <2>4. CASE OpenAddTag
    BY <1>4, <2>3, <2>4 DEF OpenAddTag
  <2>5. CASE OpenRemoveTag
    BY <1>4, <2>3, <2>5 DEF OpenRemoveTag
  <2>6. CASE OpenPrefs
    BY <1>4, <2>1, <2>3, <2>6 DEF OpenPrefs
  <2>. QED
    BY <1>5, <2>4, <2>5, <2>6
<1>6. CASE CloseLayer
  BY <1>0, <1>6, IdleBarType, EffectiveKept DEF CloseLayer, tableVars, flowVars, undoVars
<1>7. ASSUME NEW t \in Type, Cycle(t) PROVE Flow'
  <2>1. bar.mode = "prefs" /\ bar \in BarRecord
    BY <1>0, <1>7 DEF BulkTypes, Cycle
  <2>2. \A i, j \in TriState : CycleTriState(i, j) \in TriState
    BY DEF CycleTriState, TriState
  <2>3. /\ bar'.mode = "prefs" /\ bar'.pending = bar.pending
        /\ bar'.initial \in [Type -> TriState] /\ bar'.current \in [Type -> TriState]
    BY <1>0, <1>7, <2>1, <2>2 DEF Cycle, BarRecord
  <2>. QED
    BY <1>0, <1>7, <2>1, <2>3, EffectiveKept DEF Cycle, tableVars, flowVars, undoVars
<1>8. CASE CommitAddTag \/ CommitRemoveTag \/ ApplyPrefs
  <2>1. /\ bulk = Null /\ confirm = Null /\ bar \in BarRecord /\ bar.mode # "idle"
        /\ bar' = [bar EXCEPT !.pending = TRUE] /\ confirm' = confirm
    BY <1>0, <1>8 DEF BulkTypes, CommitAddTag, CommitRemoveTag, ApplyPrefs, Idle
  <2>2. /\ bar'.mode = bar.mode /\ bar'.pending
        /\ bar'.initial = bar.initial /\ bar'.current = bar.current
    BY <2>1 DEF BarRecord
  <2>3. /\ bulk' # Null /\ inFlight' = TRUE /\ bulk'.op # "delete" /\ bulk'.applied = {}
        /\ UNCHANGED <<viewVars, selected, lost, offered, undoing>>
        /\ bulk'.op = "prefs" =>
             /\ bar.mode = "prefs"
             /\ bulk'.initial = bar.initial /\ bulk'.current = bar.current
             /\ bulk'.delta = BuildAxisDelta(bar.initial, bar.current)
    <3>1. Effective \in SUBSET Id /\ NoDelta \in [set : SUBSET Type, unset : SUBSET Type]
      BY <1>0, EffectiveType DEF NoDelta
    <3>2. CASE CommitAddTag
      BY <1>0, <3>1, <3>2, SentType DEF CommitAddTag, SendBulk, tableVars, undoVars
    <3>3. CASE CommitRemoveTag
      BY <1>0, <3>1, <3>3, SentType DEF CommitRemoveTag, SendBulk, tableVars, undoVars
    <3>4. CASE ApplyPrefs
      BY <1>0, <3>1, <3>4, SentType, DeltaType DEF ApplyPrefs, SendBulk, tableVars, undoVars
    <3>. QED
      BY <1>8, <3>2, <3>3, <3>4
  <2>. QED
    BY <1>0, <2>1, <2>2, <2>3, EffectiveKept
<1>9. CASE OpenRemoveConfirm
  <2>1. confirm' # Null
    BY <1>0, <1>9, EffectiveType, BulkNulls DEF OpenRemoveConfirm
  <2>. QED
    BY <1>0, <1>9, <2>1, EffectiveKept DEF OpenRemoveConfirm, BarIdle, Idle, tableVars, undoVars
<1>10. CASE ConfirmRemove
  <2>1. confirm # Null /\ bulk = Null
    BY <1>0, <1>10 DEF ConfirmRemove, Modal, Removing
  <2>2. confirm \in SUBSET Id /\ NoDelta \in [set : SUBSET Type, unset : SUBSET Type]
    BY <1>0, <2>1 DEF BulkTypes, NoDelta
  <2>3. bulk' # Null /\ bulk'.op = "delete" /\ inFlight' = TRUE
    BY <1>0, <1>10, <2>2, SentType DEF ConfirmRemove
  <2>. QED
    BY <1>0, <1>10, <2>1, <2>3, EffectiveKept DEF ConfirmRemove, SendBulk, tableVars, undoVars
<1>11. CASE CancelRemove
  BY <1>0, <1>11, EffectiveKept DEF CancelRemove, Modal, Removing, tableVars, undoVars
<1>12. ASSUME NEW reply \in {"done", "refused"}, NEW applied \in SUBSET Id, bulk # Null,
              ServedBulk(reply, applied), lost \subseteq lost',
              bulk.op = "remove-tag" => applied \subseteq lost'
       PROVE  Flow'
  <2>1. bulk \in BulkRequest
    BY <1>0, <1>12 DEF BulkTypes
  <2>2. bulk' = [bulk EXCEPT !.reply = reply, !.applied = applied]
    BY <1>12 DEF ServedBulk
  <2>3. /\ bulk' \in BulkRequest /\ bulk'.op = bulk.op /\ bulk'.applied = applied
        /\ bulk'.initial = bulk.initial /\ bulk'.current = bulk.current
        /\ bulk'.delta = bulk.delta
    BY <2>1, <2>2 DEF BulkRequest
  <2>. QED
    BY <1>0, <1>12, <2>3, BulkNulls, EffectiveKept DEF ServedBulk, undoVars
<1>13. CASE ServeBulkAttach \/ ServeBulkDetach \/ ServeBulkPreferences \/ ServeBulkRemove
  <2>1. bulk # Null /\ Found \in SUBSET Id /\ Detached \in SUBSET Id /\ {} \in SUBSET Id
    BY <1>0, <1>13 DEF BulkTypes, ServeBulkAttach, ServeBulkDetach, ServeBulkPreferences,
                       ServeBulkRemove, Awaiting, Found, Detached, Table
  <2>2. CASE ServeBulkDetach
    BY <1>12, <2>1, <2>2 DEF ServeBulkDetach, Detached
  <2>3. CASE ServeBulkAttach \/ ServeBulkPreferences \/ ServeBulkRemove
    BY <1>12, <2>1, <2>3 DEF ServeBulkAttach, ServeBulkPreferences, ServeBulkRemove, Awaiting
  <2>. QED
    BY <1>13, <2>2, <2>3
<1>14. CASE BulkSucceeded
  BY <1>0, <1>14, IdleBarType DEF BulkSucceeded, Settled, BarBecomes, tableVars, undoVars
<1>15. CASE BulkFailed
  <2>1. CASE bar.mode = "prefs"
    <3>1. bar \in BarRecord
      BY <1>0 DEF BulkTypes
    <3>2. LET settled == [bar EXCEPT !.pending = FALSE]
          IN  /\ settled.mode = "prefs" /\ ~settled.pending
              /\ settled.initial = bar.initial /\ settled.current = bar.current
              /\ bar' = IF Effective' = {} THEN IdleBar ELSE settled
      BY <1>15, <2>1, <3>1 DEF BulkFailed, BarBecomes, BarRecord
    <3>. QED
      BY <1>0, <1>15, <2>1, <3>2, IdleBarType DEF BulkFailed, Settled, tableVars, undoVars
  <2>2. CASE bar.mode # "prefs"
    BY <1>0, <1>15, <2>2, IdleBarType DEF BulkFailed, BarBecomes, Settled, tableVars, undoVars
  <2>. QED
    BY <2>1, <2>2
<1>16. CASE RemoveConfirmed \/ RemoveFailedBulk
  BY <1>0, <1>16, IdleBarType, EffectiveKept
     DEF RemoveConfirmed, RemoveFailedBulk, Settled, BarBecomes, tableVars, undoVars
<1>17. ASSUME NEW ids \in offered, UndoRemoveTag(ids) PROVE Flow'
  BY <1>0, <1>17, EffectiveKept DEF UndoRemoveTag, tableVars, flowVars
<1>18. ASSUME NEW u \in undoing, ServeUndo(u) PROVE Flow'
  <2>1. PICK found \in SUBSET Id :
          undoing' = (undoing \ {u}) \union {[u EXCEPT !.reply = "done", !.applied = found]}
    BY <1>0, <1>18 DEF ServeUndo, BulkTypes, UndoRecord, Table
  <2>2. u \in UndoRecord
    BY <1>0 DEF BulkTypes
  <2>3. [u EXCEPT !.reply = "done", !.applied = found].ids = u.ids
    BY <2>2 DEF UndoRecord
  <2>. QED
    BY <1>0, <1>18, <2>1, <2>3, EffectiveKept DEF ServeUndo, flowVars
<1>19. ASSUME NEW u \in undoing, UndoAnswered(u) PROVE Flow'
  BY <1>1, <1>19 DEF UndoAnswered, tableVars
<1>20. ASSUME NEW u \in undoing, UndoFailed(u) PROVE Flow'
  BY <1>0, <1>20, EffectiveKept DEF UndoFailed, tableVars, flowVars
<1>21. CASE Elsewhere
  BY <1>0, <1>21, EffectiveKept DEF Elsewhere, flowVars, undoVars
<1>22. CASE UNCHANGED bulkVars
  BY <1>0, <1>22, EffectiveKept DEF bulkVars, viewVars
<1>. QED
  BY <1>2, <1>3, <1>5, <1>6, <1>7, <1>8, <1>9, <1>10, <1>11, <1>13, <1>14, <1>15, <1>16, <1>17,
     <1>18, <1>19, <1>20, <1>21, <1>22
     DEF BulkNext, BulkUser, BulkServer, BulkAnswer

LEMMA BulkStep == BulkInv /\ [BulkNext]_bulkVars => BulkInv'
  BY BulkTypesStep, FlowStep DEF BulkInv, Flow


-----------------------------------------------------------------------------
(* What a step of the bulk selection does.                                   *)

\* Everything but sending a request, opening the dialog and serving.
OtherBulkStep ==
  \/ RetryPage \/ ChangeFilter \/ OnSelectAllChange \/ ClearSelection
  \/ OpenAddTag \/ OpenRemoveTag \/ OpenPrefs \/ CloseLayer \/ CancelRemove
  \/ \E id \in Id : OnSelectChange(id) \/ OnShiftSelect(id)
  \/ \E t \in Type : Cycle(t)
  \/ \E ids \in offered : UndoRemoveTag(ids)
  \/ BulkAnswer
  \/ UNCHANGED bulkVars

LEMMA OtherBulkSteps ==
  ASSUME BulkInv, OtherBulkStep
  PROVE  /\ table' = table
         /\ bulk' = bulk \/ bulk' = Null
         /\ confirm' = confirm \/ confirm' = Null
<1>1. CASE \/ RetryPage \/ ChangeFilter \/ OnSelectAllChange \/ ClearSelection
           \/ \E id \in Id : OnSelectChange(id) \/ OnShiftSelect(id)
  BY <1>1 DEF RetryPage, ChangeFilter, OnSelectAllChange, ClearSelection, OnSelectChange,
              OnShiftSelect, Selecting, tableVars, flowVars
<1>2. CASE \/ OpenAddTag \/ OpenRemoveTag \/ OpenPrefs \/ CloseLayer \/ CancelRemove
           \/ (\E t \in Type : Cycle(t)) \/ \E ids \in offered : UndoRemoveTag(ids)
  BY <1>2 DEF OpenAddTag, OpenRemoveTag, OpenPrefs, OpenLayer, CloseLayer, CancelRemove,
              Cycle, UndoRemoveTag, tableVars, flowVars
<1>3. CASE BulkAnswer
  BY <1>3 DEF BulkAnswer, RefreshAnswered, RefreshFailed, BulkSucceeded, BulkFailed,
              RemoveConfirmed, RemoveFailedBulk, UndoAnswered, UndoFailed, Settled,
              tableVars, flowVars
<1>4. CASE UNCHANGED bulkVars
  BY <1>4 DEF bulkVars
<1>. QED
  BY <1>1, <1>2, <1>3, <1>4 DEF OtherBulkStep

LEMMA BulkActions ==
  [BulkNext]_bulkVars <=>
    \/ OtherBulkStep \/ BulkServer \/ Elsewhere \/ OpenRemoveConfirm
    \/ CommitAddTag \/ CommitRemoveTag \/ ApplyPrefs \/ ConfirmRemove
  BY DEF BulkNext, BulkUser, OtherBulkStep

LEMMA SendSteps ==
  ASSUME BulkInv, CommitAddTag \/ CommitRemoveTag \/ ApplyPrefs \/ ConfirmRemove
  PROVE  /\ bulk = Null /\ bulk' # Null /\ bulk'.reply = "none"
         /\ confirm' = confirm /\ table' = table
         /\ IF bulk'.op = "delete" THEN bulk'.ids = confirm
            ELSE bulk'.ids = Effective /\ Effective # {}
<1>0. BulkTypes /\ OneBulkAtATime /\ Modes /\ BarShown
  BY DEF BulkInv
<1>1. /\ Effective \in SUBSET Id /\ NoDelta \in [set : SUBSET Type, unset : SUBSET Type]
  BY <1>0, EffectiveType DEF NoDelta
<1>2. CASE CommitAddTag \/ CommitRemoveTag
  BY <1>0, <1>1, <1>2, SentType
     DEF CommitAddTag, CommitRemoveTag, SendBulk, Idle, OneBulkAtATime, BarShown, tableVars
<1>3. CASE ApplyPrefs
  BY <1>0, <1>1, <1>3, SentType, DeltaType
     DEF ApplyPrefs, SendBulk, Modes, BarShown, tableVars
<1>4. CASE ConfirmRemove
  <2>1. confirm # Null /\ bulk = Null
    BY <1>0, <1>4 DEF ConfirmRemove, Modal, Removing, Modes
  <2>2. confirm \in SUBSET Id
    BY <1>0, <2>1 DEF BulkTypes
  <2>. QED
    BY <1>0, <1>1, <1>4, <2>1, <2>2, SentType DEF ConfirmRemove, SendBulk, tableVars
<1>. QED
  BY <1>2, <1>3, <1>4

LEMMA OfTheVisibleStep == BulkInv /\ [BulkNext]_bulkVars => OfTheVisible
<1>. SUFFICES ASSUME BulkInv, [BulkNext]_bulkVars PROVE OfTheVisible
  OBVIOUS
<1>0. Effective = Visible \intersect selected
  BY EffectiveType DEF BulkInv
<1>1. CASE OtherBulkStep
  BY <1>1, OtherBulkSteps DEF OfTheVisible
<1>2. CASE BulkServer \/ Elsewhere
  <2>1. confirm' = confirm /\ (bulk = Null => bulk' = bulk)
    BY <1>2 DEF BulkServer, ServeBulkAttach, ServeBulkDetach, ServeBulkPreferences,
                ServeBulkRemove, ServeUndo, ServedBulk, Awaiting, Elsewhere, flowVars
  <2>. QED
    BY <2>1 DEF OfTheVisible
<1>3. CASE OpenRemoveConfirm
  BY <1>0, <1>3 DEF OpenRemoveConfirm, BarIdle, OfTheVisible
<1>4. CASE CommitAddTag \/ CommitRemoveTag \/ ApplyPrefs \/ ConfirmRemove
  BY <1>0, <1>4, SendSteps DEF OfTheVisible
<1>. QED
  BY <1>1, <1>2, <1>3, <1>4, BulkActions

LEMMA AsShownStep == BulkInv /\ [BulkNext]_bulkVars => PreferencesAsShown
<1>. SUFFICES ASSUME BulkInv, [BulkNext]_bulkVars,
                     Awaiting("prefs"), bulk' # Null, bulk'.reply = "done",
                     NEW id \in Found, NEW t \in Type
              PROVE  id \in table'.has[t] <=>
                       IF bulk.current[t] = bulk.initial[t] THEN id \in table.has[t]
                       ELSE bulk.current[t] = "checked" \/
                            (bulk.current[t] = "indeterminate" /\ id \in table.has[t])
  BY DEF PreferencesAsShown
<1>0. bulk # Null /\ bulk.op = "prefs" /\ bulk.reply = "none"
  BY DEF Awaiting
<1>1. ServeBulkPreferences
  <2>1. ~OtherBulkStep
    BY <1>0, OtherBulkSteps
  <2>2. ~(CommitAddTag \/ CommitRemoveTag \/ ApplyPrefs \/ ConfirmRemove)
    BY <1>0, SendSteps
  <2>3. ~(Elsewhere \/ OpenRemoveConfirm \/ \E u \in undoing : ServeUndo(u))
    BY <1>0 DEF Elsewhere, OpenRemoveConfirm, ServeUndo, flowVars
  <2>4. ~(ServeBulkAttach \/ ServeBulkDetach \/ ServeBulkRemove)
    BY <1>0 DEF ServeBulkAttach, ServeBulkDetach, ServeBulkRemove, Awaiting
  <2>. QED
    BY <2>1, <2>2, <2>3, <2>4, BulkActions DEF BulkServer
<1>2. /\ bulk.initial[t] \in TriState /\ bulk.current[t] \in TriState
      /\ bulk.delta = BuildAxisDelta(bulk.initial, bulk.current)
  BY <1>0 DEF BulkInv, Snapshots
<1>3. /\ t \in bulk.delta.set <=>
           bulk.current[t] # bulk.initial[t] /\ bulk.current[t] = "checked"
      /\ t \in bulk.delta.unset <=>
           bulk.current[t] # bulk.initial[t] /\ bulk.current[t] = "unchecked"
  BY <1>2 DEF BuildAxisDelta
<1>4. table'.has[t] = CASE t \in bulk.delta.set   -> table.has[t] \union Found
                        [] t \in bulk.delta.unset -> table.has[t] \ Found
                        [] OTHER                  -> table.has[t]
  <2>1. table \in Table
    BY DEF BulkInv, BulkTypes
  <2>. QED
    BY <1>1, <2>1 DEF ServeBulkPreferences, Table
<1>. QED
  BY <1>2, <1>3, <1>4 DEF TriState

LEMMA OnlyRemovedStep == BulkInv /\ [BulkNext]_bulkVars => UndoRestoresOnlyRemoved
<1>. SUFFICES ASSUME BulkInv, [BulkNext]_bulkVars,
                     bulk = bulk', nElsewhere = nElsewhere'
              PROVE  (table'.carry \ table.carry) \subseteq lost
  BY DEF UndoRestoresOnlyRemoved
<1>0. BulkTypes /\ table \in Table
  BY DEF BulkInv, BulkTypes
<1>1. CASE OtherBulkStep
  BY <1>1, OtherBulkSteps
<1>2. CASE CommitAddTag \/ CommitRemoveTag \/ ApplyPrefs \/ ConfirmRemove
  BY <1>2, SendSteps
<1>3. CASE OpenRemoveConfirm
  BY <1>3 DEF OpenRemoveConfirm, tableVars
<1>4. ~Elsewhere
  BY <1>0 DEF Elsewhere, BulkTypes
<1>5. ~(ServeBulkAttach \/ ServeBulkDetach \/ ServeBulkPreferences \/ ServeBulkRemove)
  <2>1. ASSUME NEW op, NEW reply \in {"done", "refused"}, NEW applied,
               Awaiting(op), ServedBulk(reply, applied)
        PROVE  FALSE
    <3>1. bulk \in BulkRequest /\ bulk.reply = "none"
      BY <1>0, <2>1 DEF Awaiting, BulkTypes
    <3>2. bulk'.reply = reply
      BY <2>1, <3>1 DEF ServedBulk, BulkRequest
    <3>. QED
      BY <3>1, <3>2
  <2>. QED
    BY <2>1 DEF ServeBulkAttach, ServeBulkDetach, ServeBulkPreferences, ServeBulkRemove
<1>6. ASSUME NEW u \in undoing, ServeUndo(u)
      PROVE  (table'.carry \ table.carry) \subseteq lost
  <2>1. table'.carry = table.carry \union (u.ids \intersect table.rows)
    BY <1>0, <1>6 DEF ServeUndo, Table
  <2>2. u.ids \subseteq lost
    BY DEF BulkInv, Losses
  <2>. QED
    BY <2>1, <2>2
<1>. QED
  BY <1>1, <1>2, <1>3, <1>4, <1>5, <1>6, BulkActions DEF BulkServer

LEMMA BulkIsInvariant == WebSpec => []BulkInv
<1>1. WebInit => BulkInv
  BY BulkInitInv DEF WebInit
<1>2. BulkInv /\ [WebNext]_webVars => BulkInv'
  BY BulkStep, PartsOfWeb
<1>. QED
  BY <1>1, <1>2, PTL DEF WebSpec

(* A bulk request is of the rows that were checked and on screen, Apply     *)
(* leaves what the popover showed, and Undo gives the tag back to rows it   *)
(* was taken from and to no others: whatever the rows, the types and the    *)
(* number of requests (useBulkSelection.ts, BulkPreferencesPopover.tsx).    *)
THEOREM BulkDoesAsShown == WebSpec => BulkIsAsShown
<1>1. BulkInv /\ [WebNext]_webVars =>
        [OfTheVisible /\ PreferencesAsShown /\ UndoRestoresOnlyRemoved]_bulkVars
  BY OfTheVisibleStep, AsShownStep, OnlyRemovedStep, PartsOfWeb
<1>. QED
  BY <1>1, BulkIsInvariant, PTL DEF WebSpec, BulkIsAsShown

-----------------------------------------------------------------------------
(* The filters and the URL.                                                  *)

Key == (SUBSET TagId) \X BOOLEAN

TypedRecord ==
  [query : Query \union {Null}, written : Query \union {Null}, timer : BOOLEAN,
   pending : Query \union {Null}]

StickyRecord ==
  [key : Key, loc : Nat, ids : SUBSET Card, carryTo : Key \union {Null}]

FilterTypes ==
  /\ visited \in [DOMAIN visited -> [url : Url, loc : Nat]]
  /\ DOMAIN visited \subseteq 1..MaxEntries /\ pos \in DOMAIN visited
  /\ \A i \in DOMAIN visited : 1..i \subseteq DOMAIN visited
  /\ nav \in Navigation \union {Null} /\ landings \in Nat
  /\ nav # Null /\ ~nav.replace => pos < MaxEntries
  /\ typed \in TypedRecord /\ stickyCards \in StickyRecord
  /\ loaded \in BOOLEAN /\ overtaken \in BOOLEAN
  /\ known \subseteq TagId /\ touched \subseteq Card
  /\ retired \in [DOMAIN retired -> TagId \union {Null}] /\ DOMAIN retired \subseteq TagId

\* What was typed will be written, or is; and the URL will say so once the
\* navigation under way has landed.
QueryAgrees ==
  /\ IF typed.timer THEN typed.pending = typed.query ELSE typed.written = typed.query
  /\ ~typed.timer /\ ~overtaken =>
       typed.written = IF nav = Null THEN ShownUrl.q ELSE nav.url.q

\* Tags were retired one after the other.
Earlier(rank) ==
  \A id \in DOMAIN retired : retired[id] \in DOMAIN retired => rank[id] < rank[retired[id]]

TagsAgree ==
  /\ nav = Null /\ loaded => ShownUrl.tags \subseteq known \ DOMAIN retired
  /\ ~loaded => DOMAIN retired = {}
  /\ \E n \in Nat : \E rank \in [DOMAIN retired -> 0..n] : Earlier(rank)

\* The cards are of the entry on screen.  A rewriting of the page is on its
\* way to the key it carries them to; no other replacement changes the key.
CardsAgree ==
  /\ stickyCards.key = FilterKey(ShownUrl) /\ stickyCards.loc = visited[pos].loc
  /\ stickyCards.ids = touched
  /\ nav # Null /\ nav.own =>
       nav.replace /\ (FilterKey(nav.url) # stickyCards.key =>
                         stickyCards.carryTo = FilterKey(nav.url))
  /\ nav # Null /\ ~nav.own /\ nav.replace => FilterKey(nav.url) = stickyCards.key

FiltersInv == FilterTypes /\ QueryAgrees /\ TagsAgree /\ CardsAgree

\* A set of numbers that is not empty has a least one.
LEMMA Least ==
  ASSUME NEW S \in SUBSET Nat, S # {}
  PROVE  \E n \in S : \A m \in S : n <= m
<1>0. IsWellFoundedOn(OpToRel(<, Nat), Nat)
  BY NatLessThanWellFounded
<1>1. PICK n \in S : \A m \in S : ~(<<m, n>> \in OpToRel(<, Nat))
  BY <1>0, WFMin
<1>2. \A m \in S : ~(m < n)
  BY <1>1 DEF OpToRel
<1>. QED
  BY <1>2

\* Ids that settling leaves as they are belong to tags that are known and
\* not retired: of the retired ones among them, the one that was retired
\* first would have come from another that was retired before it.
LEMMA SettledAreKnown ==
  ASSUME FilterTypes, TagsAgree, NEW ids \in SUBSET TagId, SettledTags(ids, known) = ids
  PROVE  ids \subseteq known \ DOMAIN retired
<1>0. PICK n \in Nat : \E rank \in [DOMAIN retired -> 0..n] : Earlier(rank)
  BY DEF TagsAgree
<1>1. PICK rank \in [DOMAIN retired -> 0..n] : Earlier(rank)
  BY <1>0
<1>. DEFINE gone == ids \intersect DOMAIN retired
<1>2. ids \subseteq known
  BY DEF SettledTags
<1>3. SUFFICES ASSUME gone # {} PROVE FALSE
  BY <1>2
<1>4. PICK first \in gone : \A id \in gone : rank[first] <= rank[id]
  <2>1. {rank[id] : id \in gone} \in SUBSET Nat /\ {rank[id] : id \in gone} # {}
    BY <1>3
  <2>2. PICK m \in {rank[id] : id \in gone} : \A o \in {rank[id] : id \in gone} : m <= o
    BY <2>1, Least
  <2>. QED
    BY <2>2
<1>5. PICK id \in ids : first = IF id \in DOMAIN retired THEN retired[id] ELSE id
  BY <1>4 DEF SettledTags
<1>6. id \in gone /\ retired[id] = first
  BY <1>4, <1>5
<1>7. rank[id] < rank[first] /\ rank[first] <= rank[id]
  BY <1>1, <1>4, <1>6 DEF Earlier
<1>8. rank[id] \in Int /\ rank[first] \in Int
  BY <1>4, <1>6
<1>. QED
  BY <1>7, <1>8

LEMMA OneEntry == ASSUME NEW S, NEW one \in S PROVE <<one>> \in [1..1 -> S]
  OBVIOUS

LEMMA FiltersInitInv == FiltersInit => FiltersInv
<1>. SUFFICES ASSUME FiltersInit PROVE FiltersInv
  OBVIOUS
<1>. USE FiltersAssumption DEF FiltersInit
<1>1. <<FirstTags, FALSE>> \in Key
  BY DEF Key
<1>2. [q |-> Null, tags |-> FirstTags, flag |-> FALSE] \in Url
  BY DEF Url
<1>3. FilterTypes
  <2>1. visited \in [1..1 -> [url : Url, loc : Nat]]
    BY <1>2, OneEntry
  <2>2. typed \in TypedRecord /\ stickyCards \in StickyRecord
    BY <1>1 DEF TypedRecord, StickyRecord
  <2>3. /\ visited \in [DOMAIN visited -> [url : Url, loc : Nat]]
        /\ DOMAIN visited \subseteq 1..MaxEntries /\ pos \in DOMAIN visited
        /\ \A i \in DOMAIN visited : 1..i \subseteq DOMAIN visited
    <3>1. pos = 1 /\ MaxEntries \in Nat \ {0}
      OBVIOUS
    <3>. HIDE DEF FiltersInit
    <3>. QED
      BY <2>1, <3>1
  <2>4. /\ nav = Null /\ landings \in Nat /\ loaded \in BOOLEAN /\ overtaken \in BOOLEAN
        /\ known \subseteq TagId /\ touched \subseteq Card /\ DOMAIN retired \subseteq TagId
    OBVIOUS
  <2>5. retired \in [DOMAIN retired -> TagId \union {Null}]
    OBVIOUS
  <2>. QED
    BY <2>2, <2>3, <2>4, <2>5 DEF FilterTypes
<1>4. QueryAgrees
  BY DEF QueryAgrees, ShownUrl
<1>5. TagsAgree
  <2>. DEFINE rank == [id \in {} |-> 0]
  <2>1. rank \in [DOMAIN retired -> 0..0] /\ Earlier(rank)
    BY DEF Earlier
  <2>2. \E n \in Nat : \E r \in [DOMAIN retired -> 0..n] : Earlier(r)
    BY <2>1
  <2>. QED
    BY <2>2 DEF TagsAgree
<1>6. CardsAgree
  BY DEF CardsAgree, FilterKey, ShownUrl
<1>. QED
  BY <1>3, <1>4, <1>5, <1>6 DEF FiltersInv

LEMMA Urls ==
  ASSUME NEW u \in Url
  PROVE  /\ FilterKey(u) \in Key /\ u.tags \subseteq TagId
         /\ u.q \in Query \union {Null} /\ u.flag \in BOOLEAN
         /\ \A some \in SUBSET TagId :
              /\ [u EXCEPT !.tags = some] \in Url
              /\ [u EXCEPT !.tags = some].tags = some
              /\ [u EXCEPT !.tags = some].q = u.q
  BY DEF FilterKey, Key, Url

LEMMA ShownIsUrl == FilterTypes => ShownUrl \in Url /\ visited[pos].loc \in Nat
  BY DEF FilterTypes, ShownUrl

LEMMA GoesType ==
  ASSUME NEW u \in Url, NEW replace \in BOOLEAN, NEW own \in BOOLEAN
  PROVE  /\ Goes(u, replace, own) \in Navigation /\ Goes(u, replace, own) # Null
         /\ Goes(u, replace, own).url = u /\ Goes(u, replace, own).own = own
         /\ Goes(u, replace, own).replace = replace
  BY FiltersAssumption DEF Goes, Navigation

LEMMA StickyFields ==
  ASSUME NEW r \in StickyRecord, NEW ids \in SUBSET Card, NEW to \in Key \union {Null}
  PROVE  /\ [r EXCEPT !.ids = ids] \in StickyRecord
         /\ [r EXCEPT !.ids = ids].ids = ids
         /\ [r EXCEPT !.ids = ids].key = r.key /\ [r EXCEPT !.ids = ids].loc = r.loc
         /\ [r EXCEPT !.ids = ids].carryTo = r.carryTo
         /\ [r EXCEPT !.carryTo = to] \in StickyRecord
         /\ [r EXCEPT !.carryTo = to].carryTo = to
         /\ [r EXCEPT !.carryTo = to].ids = r.ids
         /\ [r EXCEPT !.carryTo = to].key = r.key /\ [r EXCEPT !.carryTo = to].loc = r.loc
  BY DEF StickyRecord

LEMMA Carries ==
  ASSUME NEW r \in StickyRecord, NEW from \in Key, NEW to \in Key
  PROVE  /\ CarrySticky(r, from, to) \in StickyRecord
         /\ CarrySticky(r, from, to).key = r.key /\ CarrySticky(r, from, to).loc = r.loc
         /\ CarrySticky(r, from, to).ids = r.ids
         /\ from = r.key /\ to # r.key => CarrySticky(r, from, to).carryTo = to
<1>. DEFINE target == IF from = r.key /\ to # r.key THEN to ELSE Null
<1>1. target \in Key \union {Null}
  OBVIOUS
<1>2. CarrySticky(r, from, to) = [r EXCEPT !.carryTo = target]
  BY DEF CarrySticky
<1>3. [r EXCEPT !.carryTo = target] \in StickyRecord
  BY <1>1 DEF StickyRecord
<1>. QED
  BY <1>2, <1>3 DEF StickyRecord

\* What the render of a landing keeps of the cards.
LEMMA Reconciles ==
  ASSUME stickyCards \in StickyRecord, NEW at, at.key \in Key, at.loc \in Nat
  PROVE  /\ ReconcileSticky(at) \in StickyRecord
         /\ ReconcileSticky(at).key = at.key /\ ReconcileSticky(at).loc = at.loc
         /\ at.key = stickyCards.key => ReconcileSticky(at).ids = stickyCards.ids
         /\ at.key # stickyCards.key =>
              ReconcileSticky(at).ids =
                IF at.replace /\ stickyCards.carryTo = at.key THEN stickyCards.ids ELSE {}
<1>1. CASE at.key = stickyCards.key /\ at.loc = stickyCards.loc
  BY <1>1 DEF ReconcileSticky
<1>2. CASE ~(at.key = stickyCards.key /\ at.loc = stickyCards.loc)
  <2>. DEFINE ids == IF at.key = stickyCards.key \/ (at.replace /\ stickyCards.carryTo = at.key)
                       THEN stickyCards.ids ELSE {}
  <2>1. ids \in SUBSET Card
    BY DEF StickyRecord
  <2>2. ReconcileSticky(at) = [key |-> at.key, loc |-> at.loc, carryTo |-> Null, ids |-> ids]
    BY <1>2 DEF ReconcileSticky
  <2>. QED
    BY <2>1, <2>2 DEF StickyRecord
<1>. QED
  BY <1>1, <1>2

LEMMA SettledType ==
  ASSUME FilterTypes, NEW u \in Url
  PROVE  [u EXCEPT !.tags = SettledTags(u.tags, known)] \in Url
<1>1. SettledTags(u.tags, known) \in SUBSET TagId
  BY DEF SettledTags, FilterTypes
<1>. QED
  BY <1>1, Urls

\* A landing: what it leaves of each variable.
LEMMA LandsTo ==
  ASSUME FilterTypes, CardsAgree, NEW u \in Url, NEW loc \in Nat,
         NEW replace \in BOOLEAN, NEW own \in BOOLEAN, Lands(u, loc, replace, own),
         own => replace /\ (FilterKey(u) # stickyCards.key => stickyCards.carryTo = FilterKey(u)),
         ~own /\ replace => FilterKey(u) = stickyCards.key
  PROVE  /\ typed' \in TypedRecord
         /\ nav' \in Navigation \union {Null} /\ landings' \in Nat
         /\ nav' # Null => nav'.replace /\ nav'.own /\ nav'.url.q = u.q
         /\ stickyCards' \in StickyRecord /\ touched' \subseteq Card
         /\ UNCHANGED <<loaded, known, retired>>
         /\ stickyCards'.key = FilterKey(u) /\ stickyCards'.loc = loc
         /\ stickyCards'.ids = touched'
         /\ nav' # Null /\ FilterKey(nav'.url) # stickyCards'.key =>
              stickyCards'.carryTo = FilterKey(nav'.url)
         /\ nav' = Null /\ loaded => SettledTags(u.tags, known) = u.tags
<1>. DEFINE at      == [key |-> FilterKey(u), loc |-> loc, replace |-> replace]
            resync  == u.q # ShownUrl.q /\ u.q # typed.written
            kept    == ReconcileSticky(at)
            landed  == IF resync THEN [kept EXCEPT !.ids = {}] ELSE kept
            settled == [u EXCEPT !.tags = SettledTags(u.tags, known)]
            rewrite == loaded /\ settled # u
<1>1. /\ typed' = IF resync THEN Resynced(typed, u.q) ELSE typed
      /\ nav' = IF rewrite THEN Goes(settled, TRUE, TRUE) ELSE Null
      /\ stickyCards' = IF rewrite THEN CarrySticky(landed, at.key, FilterKey(settled))
                                   ELSE landed
      /\ touched' = IF resync \/ (~own /\ at.key # FilterKey(ShownUrl)) THEN {} ELSE touched
      /\ landings' = landings + 1
      /\ UNCHANGED <<loaded, known, retired>>
  BY DEF Lands
<1>2. settled \in Url /\ FilterKey(settled) \in Key /\ settled.q = u.q
  <2>1. settled \in Url
    BY SettledType
  <2>2. settled.q = u.q
    BY DEF Url
  <2>. HIDE DEF settled
  <2>. QED
    BY <2>1, <2>2, Urls
<1>3. at.key \in Key /\ at.loc \in Nat /\ at.key = FilterKey(u) /\ at.loc = loc
      /\ at.replace = replace
  BY Urls
<1>4. stickyCards \in StickyRecord /\ stickyCards.ids \in SUBSET Card
  BY DEF FilterTypes, StickyRecord
<1>5. /\ kept \in StickyRecord /\ kept.key = at.key /\ kept.loc = at.loc
      /\ at.key = stickyCards.key => kept.ids = stickyCards.ids
      /\ at.key # stickyCards.key =>
           kept.ids = IF at.replace /\ stickyCards.carryTo = at.key
                        THEN stickyCards.ids ELSE {}
  <2>. HIDE DEF at
  <2>. QED
    BY <1>3, <1>4, Reconciles
<1>. HIDE DEF at, kept, settled
<1>6. /\ landed \in StickyRecord /\ landed.key = at.key /\ landed.loc = at.loc
      /\ landed.ids = IF resync THEN {} ELSE kept.ids
  BY <1>5 DEF StickyRecord
<1>7. kept.ids = IF ~own /\ at.key # FilterKey(ShownUrl) THEN {} ELSE touched
  BY <1>3, <1>5 DEF CardsAgree
<1>. HIDE DEF landed
<1>8. landed.ids = touched'
  BY <1>1, <1>6, <1>7
<1>9. /\ stickyCards' \in StickyRecord /\ stickyCards'.key = landed.key
      /\ stickyCards'.loc = landed.loc /\ stickyCards'.ids = landed.ids
      /\ rewrite /\ FilterKey(settled) # landed.key =>
           stickyCards'.carryTo = FilterKey(settled)
  BY <1>1, <1>2, <1>3, <1>6, Carries
<1>10. /\ nav' \in Navigation \union {Null}
       /\ nav' # Null => rewrite /\ nav'.replace /\ nav'.own /\ nav'.url = settled
  BY <1>1, <1>2, GoesType
<1>11. typed' \in TypedRecord
  <2>1. Resynced(typed, u.q) \in TypedRecord
    BY Urls, ZenonT(60) DEF FilterTypes, TypedRecord, Resynced
  <2>. QED
    BY <1>1, <2>1 DEF FilterTypes
<1>12. touched' \subseteq Card /\ landings' \in Nat
  BY <1>1 DEF FilterTypes
<1>13. nav' = Null /\ loaded => SettledTags(u.tags, known) = u.tags
  <2>1. SUFFICES ASSUME nav' = Null, loaded PROVE SettledTags(u.tags, known) = u.tags
    OBVIOUS
  <2>2. settled = u
    BY <1>1, <1>2, <2>1, GoesType, ZenonT(60)
  <2>. QED
    BY <2>2 DEF settled, Url
<1>. QED
  BY <1>1, <1>2, <1>3, <1>6, <1>8, <1>9, <1>10, <1>11, <1>12, <1>13

\* What a landing does to what was typed.
LEMMA LandsTyped ==
  ASSUME FilterTypes, QueryAgrees, NEW u \in Url, NEW loc, NEW replace, NEW own,
         Lands(u, loc, replace, own), NEW over,
         ~typed.timer /\ ~over => typed.written \in {u.q, ShownUrl.q}
  PROVE  /\ IF typed'.timer THEN typed'.pending = typed'.query ELSE typed'.written = typed'.query
         /\ ~typed'.timer /\ ~over => typed'.written = u.q
<1>. DEFINE resync == u.q # ShownUrl.q /\ u.q # typed.written
<1>1. typed' = IF resync THEN Resynced(typed, u.q) ELSE typed
  BY DEF Lands
<1>2. CASE resync
  BY <1>1, <1>2 DEF Resynced, FilterTypes, TypedRecord
<1>3. CASE ~resync
  BY <1>1, <1>3 DEF QueryAgrees
<1>. QED
  BY <1>2, <1>3

OtherFilterStep ==
  \/ QueryTimer \/ HandleFlagChange \/ ClearFilters \/ FirstLoad
  \/ \E text \in Query \union {Null} : HandleQueryChange(text)
  \/ \E t \in TagId : ToggleFilterTag(t) \/ LearnTag(t)
  \/ \E t \in TagId, into \in TagId \union {Null} : RetireTag(t, into)
  \/ \E id \in Card : MarkSticky(id)

LEMMA FilterActions ==
  FiltersNext <=> Land \/ (\E to \in 1..MaxEntries : Traverse(to)) \/ OtherFilterStep
  BY DEF FiltersNext, OtherFilterStep

\* Land and Traverse: the entry that is shown afterwards, and what of it
\* the page's other state says.
Landing(u, loc) ==
  /\ FilterTypes'
  /\ ShownUrl' = u /\ visited'[pos'].loc = loc
  /\ stickyCards'.key = FilterKey(u) /\ stickyCards'.loc = loc
  /\ stickyCards'.ids = touched'
  /\ nav' # Null => nav'.replace /\ nav'.own /\ nav'.url.q = u.q
  /\ nav' # Null /\ FilterKey(nav'.url) # stickyCards'.key =>
       stickyCards'.carryTo = FilterKey(nav'.url)
  /\ nav' = Null /\ loaded => SettledTags(u.tags, known) = u.tags
  /\ UNCHANGED <<loaded, known, retired>>
  /\ IF typed'.timer THEN typed'.pending = typed'.query ELSE typed'.written = typed'.query
  /\ ~typed'.timer /\ ~overtaken' => typed'.written = u.q

LEMMA LandStep ==
  ASSUME FiltersInv, Land
  PROVE  \E u \in Url, loc \in Nat : Landing(u, loc)
<1>. DEFINE to  == IF nav.replace THEN pos ELSE pos + 1
            u   == nav.url
            loc == landings + 1
<1>1. nav \in Navigation /\ u \in Url /\ nav.replace \in BOOLEAN /\ nav.own \in BOOLEAN
  BY DEF FiltersInv, FilterTypes, Land, Navigation
<1>2. loc \in Nat /\ FilterTypes /\ CardsAgree /\ QueryAgrees
  BY DEF FiltersInv, FilterTypes
<1>3. Lands(u, loc, nav.replace, nav.own)
  BY DEF Land
<1>4. /\ visited' = [i \in (IF nav.replace THEN DOMAIN visited ELSE 1..to) |->
                       IF i = to THEN [url |-> u, loc |-> loc] ELSE visited[i]]
      /\ pos' = to /\ UNCHANGED overtaken
  BY DEF Land
<1>5. /\ visited' \in [DOMAIN visited' -> [url : Url, loc : Nat]]
      /\ DOMAIN visited' \subseteq 1..MaxEntries /\ pos' \in DOMAIN visited'
      /\ \A i \in DOMAIN visited' : 1..i \subseteq DOMAIN visited'
      /\ visited'[pos'] = [url |-> u, loc |-> loc]
  <2>1. [url |-> u, loc |-> loc] \in [url : Url, loc : Nat]
    BY <1>1, <1>2
  <2>2. pos \in 1..MaxEntries /\ MaxEntries \in Nat
    BY <1>2, FiltersAssumption DEF FilterTypes
  <2>. HIDE DEF u, loc
  <2>3. CASE nav.replace
    BY <1>2, <1>4, <2>1, <2>2, <2>3 DEF FilterTypes
  <2>4. CASE ~nav.replace
    <3>1. pos < MaxEntries /\ 1..pos \subseteq DOMAIN visited
      BY <1>2, <2>4 DEF FilterTypes, Land
    <3>2. visited' = [i \in 1..(pos + 1) |->
                        IF i = pos + 1 THEN [url |-> u, loc |-> loc] ELSE visited[i]]
          /\ pos' = pos + 1
      BY <1>4, <2>4
    <3>3. \A i \in 1..pos : visited[i] \in [url : Url, loc : Nat]
      BY <1>2, <3>1 DEF FilterTypes
    <3>. QED
      BY <2>1, <2>2, <3>1, <3>2, <3>3
  <2>. QED
    BY <2>3, <2>4, <1>1
<1>6. /\ nav.own => nav.replace /\ (FilterKey(u) # stickyCards.key =>
                                      stickyCards.carryTo = FilterKey(u))
      /\ ~nav.own /\ nav.replace => FilterKey(u) = stickyCards.key
  BY <1>2 DEF CardsAgree, Land
<1>7. ~typed.timer /\ ~overtaken' => typed.written \in {u.q, ShownUrl.q}
  BY <1>2, <1>4 DEF QueryAgrees, Land
<1>8. ShownUrl' = u /\ visited'[pos'].loc = loc
  BY <1>5 DEF ShownUrl
<1>. HIDE DEF u, loc, to
<1>9. FilterTypes'
  <2>1. /\ typed' \in TypedRecord
        /\ nav' \in Navigation \union {Null} /\ landings' \in Nat
        /\ nav' # Null => nav'.replace
        /\ stickyCards' \in StickyRecord /\ touched' \subseteq Card
        /\ UNCHANGED <<loaded, known, retired>>
    BY <1>1, <1>2, <1>3, <1>6, LandsTo
  <2>. QED
    BY <1>2, <1>4, <1>5, <2>1 DEF FilterTypes
<1>10. Landing(u, loc)
  BY <1>1, <1>2, <1>3, <1>6, <1>7, <1>8, <1>9, LandsTo, LandsTyped DEF Landing
<1>. QED
  BY <1>1, <1>2, <1>10

LEMMA TraverseStep ==
  ASSUME FiltersInv, NEW to \in 1..MaxEntries, Traverse(to)
  PROVE  \E u \in Url, loc \in Nat : Landing(u, loc)
<1>. DEFINE u   == visited[to].url
            loc == visited[to].loc
<1>1. to \in DOMAIN visited /\ Lands(u, loc, FALSE, FALSE) /\ pos' = to /\ UNCHANGED visited
  BY DEF Traverse
<1>2. u \in Url /\ loc \in Nat /\ FilterTypes /\ CardsAgree /\ QueryAgrees
  BY <1>1 DEF FiltersInv, FilterTypes
<1>3. overtaken' = (overtaken \/ (nav # Null /\ nav.url.q # ShownUrl.q))
  BY DEF Traverse
<1>4. ~typed.timer /\ ~overtaken' => typed.written \in {u.q, ShownUrl.q}
  BY <1>2, <1>3 DEF QueryAgrees
<1>5. ShownUrl' = u /\ visited'[pos'].loc = loc
  BY <1>1 DEF ShownUrl
<1>. HIDE DEF u, loc
<1>6. FilterTypes'
  <2>1. /\ typed' \in TypedRecord
        /\ nav' \in Navigation \union {Null} /\ landings' \in Nat
        /\ nav' # Null => nav'.replace
        /\ stickyCards' \in StickyRecord /\ touched' \subseteq Card
        /\ UNCHANGED <<loaded, known, retired>>
    BY <1>1, <1>2, LandsTo
  <2>2. overtaken' \in BOOLEAN
    BY <1>3
  <2>. QED
    BY <1>1, <1>2, <2>1, <2>2 DEF FilterTypes
<1>7. Landing(u, loc)
  BY <1>1, <1>2, <1>4, <1>5, <1>6, LandsTo, LandsTyped DEF Landing
<1>. QED
  BY <1>2, <1>7

LEMMA LandingKeeps ==
  ASSUME FiltersInv, NEW u \in Url, NEW loc \in Nat, Landing(u, loc)
  PROVE  FiltersInv'
<1>1. FilterTypes' /\ FilterTypes /\ TagsAgree
  BY DEF Landing, FiltersInv
<1>2. QueryAgrees'
  BY DEF QueryAgrees, Landing
<1>3. CardsAgree'
  BY DEF CardsAgree, Landing
<1>4. TagsAgree'
  <2>1. u.tags \in SUBSET TagId
    BY Urls
  <2>2. nav' = Null /\ loaded => u.tags \subseteq known \ DOMAIN retired
    BY <1>1, <2>1, SettledAreKnown DEF Landing
  <2>3. UNCHANGED <<loaded, known, retired>> /\ ShownUrl' = u
    BY DEF Landing
  <2>4. (\E n \in Nat : \E rank \in [DOMAIN retired -> 0..n] : Earlier(rank))'
    BY <1>1, <2>3 DEF TagsAgree, Earlier
  <2>. QED
    BY <1>1, <2>2, <2>3, <2>4 DEF TagsAgree
<1>. QED
  BY <1>1, <1>2, <1>3, <1>4 DEF FiltersInv

\* A navigation that starts: what it is to, and how.
LEMMA UrlStep ==
  ASSUME FiltersInv, NEW u \in Url, NEW replace \in BOOLEAN, WriteUrl(u, replace),
         ~replace => pos < MaxEntries, replace => FilterKey(u) = FilterKey(ShownUrl)
  PROVE  /\ nav' \in Navigation /\ nav' # Null /\ ~nav'.own /\ nav'.url = u
         /\ ~nav'.replace => pos < MaxEntries
         /\ nav'.replace => FilterKey(nav'.url) = stickyCards.key
         /\ UNCHANGED stickyCards
<1>1. nav' = Goes(u, replace, FALSE) /\ UNCHANGED stickyCards
  BY DEF WriteUrl
<1>2. Goes(u, replace, FALSE) \in Navigation /\ Goes(u, replace, FALSE) # Null
      /\ Goes(u, replace, FALSE).url = u /\ ~Goes(u, replace, FALSE).own
      /\ Goes(u, replace, FALSE).replace = replace
  BY GoesType
<1>3. FilterKey(ShownUrl) = stickyCards.key
  BY DEF FiltersInv, CardsAgree
<1>. QED
  BY <1>1, <1>2, <1>3

LEMMA RewritingStep ==
  ASSUME FiltersInv, NEW u \in Url, WriteKeepingSticky(u)
  PROVE  /\ nav' \in Navigation /\ nav' # Null /\ nav'.own /\ nav'.url = u /\ nav'.replace
         /\ stickyCards' \in StickyRecord
         /\ stickyCards'.key = stickyCards.key /\ stickyCards'.loc = stickyCards.loc
         /\ stickyCards'.ids = stickyCards.ids
         /\ FilterKey(u) # stickyCards.key => stickyCards'.carryTo = FilterKey(u)
<1>1. FilterKey(u) \in Key /\ stickyCards \in StickyRecord
      /\ FilterKey(ShownUrl) = stickyCards.key
  BY Urls DEF FiltersInv, FilterTypes, CardsAgree
<1>2. stickyCards.key \in Key
  BY <1>1 DEF StickyRecord
<1>3. nav' = Goes(u, TRUE, TRUE)
      /\ stickyCards' = CarrySticky(stickyCards, FilterKey(ShownUrl), FilterKey(u))
  BY DEF WriteKeepingSticky
<1>4. Goes(u, TRUE, TRUE) \in Navigation /\ Goes(u, TRUE, TRUE) # Null
      /\ Goes(u, TRUE, TRUE).url = u /\ Goes(u, TRUE, TRUE).own
      /\ Goes(u, TRUE, TRUE).replace
  BY GoesType
<1>5. /\ stickyCards' \in StickyRecord
      /\ stickyCards'.key = stickyCards.key /\ stickyCards'.loc = stickyCards.loc
      /\ stickyCards'.ids = stickyCards.ids
      /\ FilterKey(u) # stickyCards.key => stickyCards'.carryTo = FilterKey(u)
  BY <1>1, <1>2, <1>3, Carries
<1>. QED
  BY <1>3, <1>4, <1>5

LEMMA RetiredUrl ==
  ASSUME FilterTypes, NEW t \in TagId, NEW into \in TagId \union {Null}
  PROVE  (IF t \notin ShownUrl.tags THEN ShownUrl
          ELSE [ShownUrl EXCEPT !.tags = (@ \ {t}) \union ({into} \ {Null})]) \in Url
<1>1. ShownUrl \in Url /\ ShownUrl.tags \in SUBSET TagId
  BY ShownIsUrl, Urls
<1>2. (ShownUrl.tags \ {t}) \union ({into} \ {Null}) \in SUBSET TagId
  BY <1>1
<1>. QED
  BY <1>1, <1>2, Urls

LEMMA RetireKeepsQuery ==
  ASSUME NEW u \in Url, NEW s
  PROVE  [u EXCEPT !.tags = s].q = u.q
  BY DEF Url

\* Types, and what is under way, after a step of the page.
LEMMA PageStep ==
  ASSUME FiltersInv, OtherFilterStep
  PROVE  /\ FilterTypes' /\ QueryAgrees' /\ CardsAgree'
<1>. USE DEF FiltersInv
<1>0. /\ FilterTypes /\ QueryAgrees /\ CardsAgree
      /\ ShownUrl \in Url /\ typed \in TypedRecord /\ stickyCards \in StickyRecord
      /\ Null \notin Navigation
  BY ShownIsUrl, FiltersAssumption DEF FilterTypes
<1>1. CASE QueryTimer
  <2>. DEFINE u == [ShownUrl EXCEPT !.q = typed.pending]
  <2>1. u \in Url /\ u.q = typed.pending /\ FilterKey(u) = FilterKey(ShownUrl)
    BY <1>0 DEF Url, TypedRecord, FilterKey
  <2>2. Quiet /\ typed.timer /\ WriteUrl(u, TRUE)
        /\ typed' = [typed EXCEPT !.written = typed.pending, !.timer = FALSE, !.pending = Null]
        /\ UNCHANGED <<visited, pos, landings, loaded, known, retired, overtaken, touched>>
    BY <1>1 DEF QueryTimer, Acts
  <2>. HIDE DEF u
  <2>3. /\ nav' \in Navigation /\ nav' # Null /\ ~nav'.own /\ nav'.url = u
        /\ ~nav'.replace => pos < MaxEntries
        /\ nav'.replace => FilterKey(nav'.url) = stickyCards.key
        /\ UNCHANGED stickyCards
    BY <2>1, <2>2, UrlStep
  <2>4. /\ typed' \in TypedRecord /\ ~typed'.timer
        /\ typed'.written = typed.pending /\ typed'.query = typed.query
    BY <1>0, <2>2 DEF TypedRecord
  <2>5. FilterTypes'
    BY <1>0, <2>2, <2>3, <2>4 DEF FilterTypes
  <2>6. QueryAgrees'
    BY <1>0, <2>1, <2>2, <2>3, <2>4 DEF QueryAgrees
  <2>7. CardsAgree'
    BY <1>0, <2>2, <2>3 DEF CardsAgree, ShownUrl
  <2>. QED
    BY <2>5, <2>6, <2>7
<1>2. ASSUME NEW u \in Url, WriteUrl(u, FALSE), u.q = ShownUrl.q, Quiet, pos < MaxEntries,
             UNCHANGED <<visited, pos, landings, typed, loaded, known, retired, overtaken, touched>>
      PROVE  FilterTypes' /\ QueryAgrees' /\ CardsAgree'
  <2>3. /\ nav' \in Navigation /\ nav' # Null /\ ~nav'.own /\ nav'.url = u
        /\ nav'.replace => FilterKey(nav'.url) = stickyCards.key
        /\ UNCHANGED stickyCards
    BY <1>2, UrlStep
  <2>5. FilterTypes'
    BY <1>0, <1>2, <2>3 DEF FilterTypes
  <2>6. QueryAgrees'
    BY <1>0, <1>2, <2>3 DEF QueryAgrees, Quiet
  <2>7. CardsAgree'
    BY <1>0, <1>2, <2>3 DEF CardsAgree, ShownUrl
  <2>. QED
    BY <2>5, <2>6, <2>7
<1>3. CASE HandleFlagChange
  <2>. DEFINE u == [ShownUrl EXCEPT !.flag = ~@]
  <2>1. u \in Url /\ u.q = ShownUrl.q
    BY <1>0 DEF Url
  <2>. QED
    BY <1>2, <1>3, <2>1 DEF HandleFlagChange, CanPush, Acts
<1>4. ASSUME NEW t \in TagId, ToggleFilterTag(t)
      PROVE  FilterTypes' /\ QueryAgrees' /\ CardsAgree'
  <2>. DEFINE some == IF t \in ShownUrl.tags THEN ShownUrl.tags \ {t} ELSE ShownUrl.tags \union {t}
              u    == [ShownUrl EXCEPT !.tags = some]
  <2>1. some \in SUBSET TagId
    BY <1>0, Urls
  <2>2. u \in Url /\ u.q = ShownUrl.q
    <3>. HIDE DEF some
    <3>. QED
      BY <1>0, <2>1, Urls
  <2>3. WriteUrl(u, FALSE) /\ Quiet /\ pos < MaxEntries /\
        UNCHANGED <<visited, pos, landings, typed, loaded, known, retired, overtaken, touched>>
    BY <1>4 DEF ToggleFilterTag, CanPush, Acts
  <2>. HIDE DEF u
  <2>. QED
    BY <1>2, <2>2, <2>3
<1>5. CASE ClearFilters
  <2>. DEFINE u == [q |-> Null, tags |-> {}, flag |-> FALSE]
  <2>1. u \in Url /\ u.q = Null
    BY DEF Url
  <2>2. /\ Quiet /\ pos < MaxEntries
        /\ typed' = [query |-> Null, written |-> Null, timer |-> FALSE, pending |-> Null]
        /\ nav' = Goes(u, FALSE, FALSE)
        /\ IF ShownUrl.tags = {} /\ ~ShownUrl.flag
             THEN stickyCards' = [stickyCards EXCEPT !.ids = {}] /\ touched' = {}
             ELSE UNCHANGED <<stickyCards, touched>>
        /\ overtaken' = FALSE
        /\ UNCHANGED <<visited, pos, landings, loaded, known, retired>>
    BY <1>5 DEF ClearFilters, CanPush, Acts
  <2>. HIDE DEF u
  <2>3. /\ nav' \in Navigation /\ nav' # Null /\ ~nav'.own /\ nav'.url = u /\ ~nav'.replace
    BY <2>1, <2>2, GoesType
  <2>4. typed' \in TypedRecord /\ ~typed'.timer /\ typed'.written = Null /\ typed'.query = Null
    BY <2>2 DEF TypedRecord
  <2>5. /\ stickyCards' \in StickyRecord /\ touched' \subseteq Card
        /\ stickyCards'.key = stickyCards.key /\ stickyCards'.loc = stickyCards.loc
        /\ stickyCards'.ids = touched'
    BY <1>0, <2>2 DEF StickyRecord, CardsAgree, FilterTypes
  <2>6. FilterTypes'
    BY <1>0, <2>2, <2>3, <2>4, <2>5 DEF FilterTypes
  <2>7. QueryAgrees'
    BY <2>1, <2>3, <2>4 DEF QueryAgrees
  <2>8. CardsAgree'
    BY <1>0, <2>2, <2>3, <2>5 DEF CardsAgree, ShownUrl
  <2>. QED
    BY <2>6, <2>7, <2>8
<1>6. ASSUME NEW text \in Query \union {Null}, HandleQueryChange(text)
      PROVE  FilterTypes' /\ QueryAgrees' /\ CardsAgree'
  <2>2. /\ typed' = [typed EXCEPT !.query = text, !.timer = TRUE, !.pending = text]
        /\ stickyCards' = [stickyCards EXCEPT !.ids = {}] /\ touched' = {}
        /\ overtaken' = FALSE
        /\ UNCHANGED <<visited, pos, nav, landings, loaded, known, retired>>
    BY <1>6 DEF HandleQueryChange
  <2>3. typed' \in TypedRecord /\ typed'.timer /\ typed'.pending = text /\ typed'.query = text
    BY <1>0, <2>2 DEF TypedRecord
  <2>4. /\ stickyCards' \in StickyRecord /\ stickyCards'.carryTo = stickyCards.carryTo
        /\ stickyCards'.key = stickyCards.key /\ stickyCards'.loc = stickyCards.loc
        /\ stickyCards'.ids = {}
    BY <1>0, <2>2 DEF StickyRecord
  <2>5. FilterTypes'
    BY <1>0, <2>2, <2>3, <2>4 DEF FilterTypes
  <2>6. QueryAgrees'
    BY <2>3 DEF QueryAgrees
  <2>7. CardsAgree'
    BY <1>0, <2>2, <2>4 DEF CardsAgree, ShownUrl
  <2>. QED
    BY <2>5, <2>6, <2>7
<1>7. ASSUME NEW id \in Card, MarkSticky(id)
      PROVE  FilterTypes' /\ QueryAgrees' /\ CardsAgree'
  <2>1. /\ stickyCards' = [stickyCards EXCEPT !.ids = @ \union {id}]
        /\ touched' = touched \union {id}
        /\ UNCHANGED <<visited, pos, nav, landings, typed, loaded, known, retired, overtaken>>
    BY <1>7 DEF MarkSticky
  <2>2. /\ stickyCards' \in StickyRecord /\ stickyCards'.carryTo = stickyCards.carryTo
        /\ stickyCards'.key = stickyCards.key /\ stickyCards'.loc = stickyCards.loc
        /\ stickyCards'.ids = stickyCards.ids \union {id}
    BY <1>0, <2>1 DEF StickyRecord
  <2>3. FilterTypes'
    BY <1>0, <2>1, <2>2 DEF FilterTypes
  <2>4. QueryAgrees'
    BY <1>0, <2>1 DEF QueryAgrees, ShownUrl
  <2>5. CardsAgree'
    BY <1>0, <2>1, <2>2 DEF CardsAgree, ShownUrl
  <2>. QED
    BY <2>3, <2>4, <2>5
<1>8. ASSUME NEW u \in Url, WriteKeepingSticky(u), u.q = ShownUrl.q, Quiet, known' \subseteq TagId,
             retired' \in [DOMAIN retired' -> TagId \union {Null}], DOMAIN retired' \subseteq TagId,
             loaded' \in BOOLEAN,
             UNCHANGED <<visited, pos, landings, typed, overtaken, touched>>
      PROVE  FilterTypes' /\ QueryAgrees' /\ CardsAgree'
  <2>1. /\ nav' \in Navigation /\ nav' # Null /\ nav'.own /\ nav'.url = u /\ nav'.replace
        /\ stickyCards' \in StickyRecord
        /\ stickyCards'.key = stickyCards.key /\ stickyCards'.loc = stickyCards.loc
        /\ stickyCards'.ids = stickyCards.ids
        /\ FilterKey(u) # stickyCards.key => stickyCards'.carryTo = FilterKey(u)
    BY <1>8, RewritingStep
  <2>2. FilterTypes'
    BY <1>0, <1>8, <2>1 DEF FilterTypes
  <2>3. QueryAgrees'
    BY <1>0, <1>8, <2>1 DEF QueryAgrees, Quiet
  <2>4. CardsAgree'
    BY <1>0, <1>8, <2>1 DEF CardsAgree, ShownUrl
  <2>. QED
    BY <2>2, <2>3, <2>4
<1>9. ASSUME known' \subseteq TagId, loaded' \in BOOLEAN,
             UNCHANGED <<visited, pos, nav, landings, typed, stickyCards, retired, overtaken, touched>>
      PROVE  FilterTypes' /\ QueryAgrees' /\ CardsAgree'
  <2>1. FilterTypes'
    BY <1>0, <1>9 DEF FilterTypes
  <2>2. QueryAgrees'
    BY <1>0, <1>9 DEF QueryAgrees, ShownUrl
  <2>3. CardsAgree'
    BY <1>0, <1>9 DEF CardsAgree, ShownUrl
  <2>. QED
    BY <2>1, <2>2, <2>3
<1>10. CASE FirstLoad
  <2>1. known' \subseteq TagId /\ loaded' \in BOOLEAN /\ Quiet
        /\ UNCHANGED <<visited, pos, landings, typed, retired, overtaken, touched>>
    BY <1>0, <1>10, FiltersAssumption DEF FirstLoad, FilterTypes
  <2>2. CASE ShownUrl.tags \subseteq CarriedFirst
    BY <1>9, <1>10, <2>1, <2>2 DEF FirstLoad
  <2>3. CASE ~(ShownUrl.tags \subseteq CarriedFirst)
    <3>. DEFINE some == ShownUrl.tags \intersect CarriedFirst
                u    == [ShownUrl EXCEPT !.tags = some]
    <3>1. some \in SUBSET TagId
      BY FiltersAssumption
    <3>2. u \in Url /\ u.q = ShownUrl.q
      <4>. HIDE DEF some
      <4>. QED
        BY <1>0, <3>1, Urls
    <3>3. WriteKeepingSticky(u)
      BY <1>10, <2>3 DEF FirstLoad
    <3>4. retired' \in [DOMAIN retired' -> TagId \union {Null}] /\ DOMAIN retired' \subseteq TagId
      BY <1>0, <2>1 DEF FilterTypes
    <3>. HIDE DEF u
    <3>. QED
      BY <1>8, <2>1, <3>2, <3>3, <3>4
  <2>. QED
    BY <2>2, <2>3
<1>11. ASSUME NEW t \in TagId, LearnTag(t) PROVE FilterTypes' /\ QueryAgrees' /\ CardsAgree'
  <2>1. /\ known' \subseteq TagId /\ loaded' \in BOOLEAN
        /\ UNCHANGED <<visited, pos, nav, landings, typed, stickyCards, retired, overtaken, touched>>
    BY <1>0, <1>11 DEF LearnTag, FilterTypes
  <2>. QED
    BY <1>9, <2>1
<1>12. ASSUME NEW t \in TagId, NEW into \in TagId \union {Null}, RetireTag(t, into)
       PROVE  FilterTypes' /\ QueryAgrees' /\ CardsAgree'
  <2>. DEFINE u == IF t \notin ShownUrl.tags THEN ShownUrl
                   ELSE [ShownUrl EXCEPT !.tags = (@ \ {t}) \union ({into} \ {Null})]
  <2>1. u \in Url
    BY <1>0, RetiredUrl
  <2>2. u.q = ShownUrl.q
    BY <1>0, RetireKeepsQuery
  <2>3. /\ WriteKeepingSticky(u) /\ Quiet /\ retired' = With(retired, t, into)
        /\ known' = IF into = Null THEN known ELSE known \union {into}
        /\ UNCHANGED <<visited, pos, landings, typed, loaded, overtaken, touched>>
    BY <1>12 DEF RetireTag, Acts
  <2>4. known' \subseteq TagId /\ loaded' \in BOOLEAN
    BY <1>0, <2>3 DEF FilterTypes
  <2>5. retired' \in [DOMAIN retired' -> TagId \union {Null}] /\ DOMAIN retired' \subseteq TagId
    BY <1>0, <2>3 DEF FilterTypes, With
  <2>. HIDE DEF u
  <2>. QED
    BY <1>8, <2>1, <2>2, <2>3, <2>4, <2>5
<1>. QED
  BY <1>1, <1>3, <1>4, <1>5, <1>6, <1>7, <1>10, <1>11, <1>12 DEF OtherFilterStep

\* A tag is retired after those that are retired already.
LEMMA RetiredLast ==
  ASSUME NEW t \in TagId, NEW into, t \notin DOMAIN retired, into \notin DOMAIN retired, t # into,
         retired' = With(retired, t, into), NEW n \in Nat,
         NEW rank \in [DOMAIN retired -> 0..n], Earlier(rank)
  PROVE  \E m \in Nat : \E r \in [DOMAIN retired' -> 0..m] :
           \A id \in DOMAIN retired' :
             retired'[id] \in DOMAIN retired' => r[id] < r[retired'[id]]
<1>. DEFINE r == [id \in DOMAIN retired \union {t} |-> IF id = t THEN n + 1 ELSE rank[id]]
<1>1. DOMAIN retired' = DOMAIN retired \union {t}
      /\ \A id \in DOMAIN retired' : retired'[id] = IF id = t THEN into ELSE retired[id]
  BY DEF With
<1>2. n + 1 \in Nat /\ r \in [DOMAIN retired' -> 0..(n + 1)]
  BY <1>1
<1>3. \A id \in DOMAIN retired' : retired'[id] \in DOMAIN retired' => r[id] < r[retired'[id]]
  <2>1. SUFFICES ASSUME NEW id \in DOMAIN retired', retired'[id] \in DOMAIN retired'
                 PROVE  r[id] < r[retired'[id]]
    OBVIOUS
  <2>2. id # t /\ id \in DOMAIN retired /\ retired'[id] = retired[id]
    BY <1>1, <2>1
  <2>3. rank[id] \in 0..n /\ r[id] = rank[id]
    BY <1>1, <2>2
  <2>4. CASE retired[id] = t
    BY <1>1, <2>2, <2>3, <2>4
  <2>5. CASE retired[id] # t
    <3>1. retired[id] \in DOMAIN retired /\ r[retired[id]] = rank[retired[id]]
      BY <1>1, <2>1, <2>2, <2>5
    <3>. QED
      BY <2>2, <2>3, <3>1 DEF Earlier
  <2>. QED
    BY <2>4, <2>5
<1>. HIDE DEF r
<1>. QED
  BY <1>2, <1>3

LEMMA TagsStep ==
  ASSUME FiltersInv, OtherFilterStep
  PROVE  TagsAgree'
<1>0. FilterTypes /\ TagsAgree /\ ShownUrl \in Url /\ Null \notin Navigation
  BY ShownIsUrl, FiltersAssumption DEF FiltersInv
<1>1. ASSUME UNCHANGED <<visited, pos, loaded, known, retired>>, UNCHANGED nav \/ nav' # Null
      PROVE  TagsAgree'
  BY <1>0, <1>1 DEF TagsAgree, Earlier, ShownUrl
<1>2. ASSUME NEW u \in Url, NEW replace \in BOOLEAN, NEW own \in BOOLEAN,
             nav' = Goes(u, replace, own)
      PROVE  nav' # Null
  BY <1>2, GoesType
<1>3. CASE QueryTimer
  <2>1. [ShownUrl EXCEPT !.q = typed.pending] \in Url
    BY <1>0 DEF Url, FilterTypes, TypedRecord
  <2>2. nav' # Null
    BY <1>2, <1>3, <2>1 DEF QueryTimer, WriteUrl
  <2>. QED
    BY <1>1, <1>3, <2>2 DEF QueryTimer
<1>4. CASE HandleFlagChange
  <2>1. [ShownUrl EXCEPT !.flag = ~@] \in Url
    BY <1>0 DEF Url
  <2>2. nav' # Null
    BY <1>2, <1>4, <2>1 DEF HandleFlagChange, WriteUrl
  <2>. QED
    BY <1>1, <1>4, <2>2 DEF HandleFlagChange
<1>5. CASE ClearFilters
  <2>1. [q |-> Null, tags |-> {}, flag |-> FALSE] \in Url
    BY DEF Url
  <2>2. nav' # Null
    BY <1>2, <1>5, <2>1 DEF ClearFilters
  <2>. QED
    BY <1>1, <1>5, <2>2 DEF ClearFilters
<1>6. CASE FirstLoad
  <2>1. DOMAIN retired = {} /\ UNCHANGED <<visited, pos, retired>>
        /\ known' = known \union CarriedFirst
    BY <1>0, <1>6 DEF FirstLoad, TagsAgree
  <2>2. ShownUrl.tags \subseteq CarriedFirst \/ nav' # Null
    <3>1. SUFFICES ASSUME ~(ShownUrl.tags \subseteq CarriedFirst) PROVE nav' # Null
      OBVIOUS
    <3>2. [ShownUrl EXCEPT !.tags = @ \intersect CarriedFirst] \in Url
      BY <1>0, FiltersAssumption DEF Url
    <3>. QED
      BY <1>2, <1>6, <3>1, <3>2 DEF FirstLoad, WriteKeepingSticky
  <2>3. (\E n \in Nat : \E rank \in [DOMAIN retired -> 0..n] : Earlier(rank))'
    BY <1>0, <2>1 DEF TagsAgree, Earlier
  <2>4. loaded' = TRUE
    BY <1>6 DEF FirstLoad
  <2>. QED
    BY <2>1, <2>2, <2>3, <2>4 DEF TagsAgree, ShownUrl
<1>7. ASSUME NEW text \in Query \union {Null}, HandleQueryChange(text) PROVE TagsAgree'
  BY <1>1, <1>7 DEF HandleQueryChange
<1>8. ASSUME NEW t \in TagId, ToggleFilterTag(t) PROVE TagsAgree'
  <2>. DEFINE some == IF t \in ShownUrl.tags THEN ShownUrl.tags \ {t} ELSE ShownUrl.tags \union {t}
  <2>1. [ShownUrl EXCEPT !.tags = some] \in Url
    <3>1. some \in SUBSET TagId
      BY <1>0, Urls
    <3>. HIDE DEF some
    <3>. QED
      BY <1>0, <3>1, Urls
  <2>2. nav' # Null
    BY <1>2, <1>8, <2>1 DEF ToggleFilterTag, WriteUrl
  <2>. QED
    BY <1>1, <1>8, <2>2 DEF ToggleFilterTag
<1>9. ASSUME NEW t \in TagId, LearnTag(t) PROVE TagsAgree'
  <2>1. known' = known \union {t} /\ UNCHANGED <<visited, pos, nav, loaded, retired>>
    BY <1>9 DEF LearnTag
  <2>. QED
    BY <1>0, <2>1 DEF TagsAgree, Earlier, ShownUrl
<1>10. ASSUME NEW t \in TagId, NEW into \in TagId \union {Null}, RetireTag(t, into)
       PROVE  TagsAgree'
  <2>. DEFINE u == IF t \notin ShownUrl.tags THEN ShownUrl
                   ELSE [ShownUrl EXCEPT !.tags = (@ \ {t}) \union ({into} \ {Null})]
  <2>1. u \in Url
    BY <1>0, RetiredUrl
  <2>2. nav' = Goes(u, TRUE, TRUE)
    BY <1>10 DEF RetireTag, WriteKeepingSticky
  <2>. HIDE DEF u
  <2>3. nav' # Null
    BY <1>2, <2>1, <2>2
  <2>4. loaded /\ UNCHANGED loaded /\ retired' = With(retired, t, into)
        /\ t \notin DOMAIN retired /\ into \notin DOMAIN retired /\ t # into
    BY <1>10 DEF RetireTag
  <2>5. PICK n \in Nat : \E rank \in [DOMAIN retired -> 0..n] : Earlier(rank)
    BY <1>0 DEF TagsAgree
  <2>6. PICK rank \in [DOMAIN retired -> 0..n] : Earlier(rank)
    BY <2>5
  <2>7. \E m \in Nat : \E r \in [DOMAIN retired' -> 0..m] :
          \A id \in DOMAIN retired' :
            retired'[id] \in DOMAIN retired' => r[id] < r[retired'[id]]
    BY <2>4, <2>6, RetiredLast
  <2>. QED
    BY <2>3, <2>4, <2>7 DEF TagsAgree, Earlier
<1>11. ASSUME NEW id \in Card, MarkSticky(id) PROVE TagsAgree'
  BY <1>1, <1>11 DEF MarkSticky
<1>. QED
  BY <1>3, <1>4, <1>5, <1>6, <1>7, <1>8, <1>9, <1>10, <1>11 DEF OtherFilterStep

LEMMA FiltersStep == FiltersInv /\ [FiltersNext]_filtersVars => FiltersInv'
<1>. SUFFICES ASSUME FiltersInv, [FiltersNext]_filtersVars PROVE FiltersInv'
  OBVIOUS
<1>1. CASE Land
  BY <1>1, LandStep, LandingKeeps
<1>2. ASSUME NEW to \in 1..MaxEntries, Traverse(to) PROVE FiltersInv'
  BY <1>2, TraverseStep, LandingKeeps
<1>3. CASE OtherFilterStep
  BY <1>3, PageStep, TagsStep DEF FiltersInv
<1>4. CASE UNCHANGED filtersVars
  BY <1>4 DEF filtersVars, FiltersInv, FilterTypes, QueryAgrees, TagsAgree, CardsAgree,
              Earlier, ShownUrl
<1>. QED
  BY <1>1, <1>2, <1>3, <1>4, FilterActions

\* The filters that are shown, the URL and the cards that stay agree,
\* however often tags were merged or deleted, and whatever Back overtakes.
THEOREM FiltersAreShown == WebSpec => []FiltersHold
<1>1. WebInit => FiltersInv
  BY FiltersInitInv DEF WebInit
<1>2. FiltersInv /\ [WebNext]_webVars => FiltersInv'
  BY PartsOfWeb, FiltersStep
<1>3. FiltersInv => FiltersHold
  BY DEF FiltersInv, QueryAgrees, TagsAgree, CardsAgree, FiltersHold, FiltersAsShown,
         StickyIsTouched, Quiet
<1>. QED
  BY <1>1, <1>2, <1>3, PTL DEF WebSpec

-----------------------------------------------------------------------------
(* The rows.                                                                 *)

Listing == PartialFcns(RowId, Row)

OnTable == [artist : Artist, axes : [Axis -> BOOLEAN]]

WriteRecord ==
  [n : Nat, op : {"toggle", "note", "attach", "detach", "remove", "add", "undo"},
   artist : Artist \union {Null}, cell : Cell \union {Null},
   value : BOOLEAN \union [Axis -> BOOLEAN], previous : Row \union {Null},
   reply : {"none", "done", "refused"}, row : Row \union {Null}]

\* What a request to write holds.
WellFormed(w) ==
  /\ w \in WriteRecord
  /\ w.op \in {"toggle", "note"} => w.cell \in RowId \X Axis /\ w.value \in BOOLEAN
  /\ w.op = "toggle" => w.previous \in Row
  /\ w.op \in {"toggle", "note"} /\ w.reply = "done" =>
       w.row \in Row /\ w.row.axes[w.cell[2]] = w.value
  /\ w.op \in {"attach", "detach"} => w.cell \in RowId \X Chip /\ w.value = (w.op = "attach")
  /\ w.op = "remove" =>
       w.cell \in RowId \X {"row"} /\ w.artist \in Artist /\ w.value \in [Axis -> BOOLEAN]
  /\ w.op \in {"add", "undo"} =>
       /\ w.artist \in Artist /\ w.value \in [Axis -> BOOLEAN]
       /\ IF w.reply = "done" THEN w.cell \in RowId \X {"row"} ELSE w.cell = Null

ListRecord ==
  [n : Nat, awaits : Artist \union {Null}, answer : Listing \union {Null}]

\* The request an Add button that is pending waits for.
AddAwaits(who) ==
  \/ \E v \in rowWrites : v.op = "add" /\ v.artist = who
  \/ \E l \in lists : l.awaits = who

RowTypes ==
  /\ rows \in [DOMAIN rows -> OnTable] /\ tagsOf \in [Artist -> SUBSET Chip]
  /\ entries \in Listing \union {Null}
  /\ loadError \in BOOLEAN /\ busy \subseteq RowId \X Axis /\ adding \subseteq Artist
  /\ lists \subseteq ListRecord
  /\ nLists \in Nat /\ nRowWrites \in Nat
  /\ \A w \in rowWrites : WellFormed(w)
  /\ offers \subseteq OnTable

\* An id is given out once: what the page knows of has one.
IdsAreUsed ==
  /\ DOMAIN rows \subseteq usedIds /\ usedIds \subseteq RowId
  /\ entries # Null => DOMAIN entries \subseteq usedIds
  /\ \A l \in lists : l.answer # Null => DOMAIN l.answer \subseteq usedIds
  /\ \A w \in rowWrites : w.cell # Null => w.cell[1] \in usedIds

OneRowAnArtist ==
  \A i, j \in DOMAIN rows : rows[i].artist = rows[j].artist => i = j

\* Two writes to one cell leave it in doubt.
OverlapsAreKnown ==
  \A v, w \in rowWrites : v # w /\ v.cell = w.cell /\ v.cell # Null => v.cell \in doubt

\* The row of a write that was refused, and of a removal that was done, is gone.
Gone ==
  \A w \in rowWrites :
    \/ w.op \notin {"add", "undo"} /\ w.reply = "refused"
    \/ w.op = "remove" /\ w.reply = "done"
    => w.cell[1] \notin DOMAIN rows

Kept(d)   == d[1] \in DOMAIN rows
OnPage(d) == entries # Null /\ d[1] \in DOMAIN entries

\* What the table and the page have in a cell of a row.
InTable(d) ==
  IF d[2] \in Axis THEN rows[d[1]].axes[d[2]] ELSE d[2] \in tagsOf[rows[d[1]].artist]
Seen(d) ==
  IF d[2] \in Axis THEN entries[d[1]].axes[d[2]] ELSE d[2] \in entries[d[1]].tags

\* What table and page have in the cell of a write that is under way alone.
Awaited(w) ==
  LET d == w.cell
  IN  /\ w.op = "toggle" /\ w.reply = "none" /\ Kept(d) =>
           InTable(d) = w.previous.axes[d[2]]
      /\ w.op \in {"note", "attach"} /\ w.reply = "none" /\ Kept(d) /\ OnPage(d) =>
           Seen(d) = InTable(d)
      /\ w.op = "detach" /\ OnPage(d) => ~Seen(d)
      /\ w.op = "detach" /\ w.reply = "none" /\ Kept(d) => InTable(d)
      /\ w.op \in {"toggle", "note", "attach", "detach"} /\ w.reply = "done" /\ Kept(d) =>
           InTable(d) = w.value
      /\ w.op = "remove" => ~OnPage(d)

\* The rows themselves agree once the last list is answered.
Agrees(d) ==
  IF d[2] = "row"
    THEN entries # Null /\ ~loadError /\ lists = {} => (OnPage(d) <=> Kept(d))
    ELSE Kept(d) /\ OnPage(d) => Seen(d) = InTable(d)

CellsAgree ==
  /\ OverlapsAreKnown
  /\ \A w \in rowWrites : w.cell \notin doubt => Awaited(w)
  /\ \A d \in Cell \ (doubt \union InFlight) : Agrees(d)

RowsInv ==
  RowTypes /\ IdsAreUsed /\ OneRowAnArtist /\ Gone /\ CellsAgree /\ DisabledIsAwaited

LEMMA RowNulls == Null \notin Cell /\ Null \notin Listing
  BY RowsAssumption DEF Listing

LEMMA Fields ==
  /\ Axis \intersect Chip = {} /\ "row" \notin Axis /\ "row" \notin Chip
  /\ \A d \in Cell : d[1] \in RowId /\ d[2] \in {"row"} \union Axis \union Chip /\ d = <<d[1], d[2]>>
  BY RowsAssumption DEF Cell

LEMMA Listings ==
  ASSUME NEW shown
  PROVE  shown \in Listing <=> /\ shown \in [DOMAIN shown -> Row]
                               /\ DOMAIN shown \subseteq RowId
<1>1. ASSUME shown \in Listing PROVE shown \in [DOMAIN shown -> Row] /\ DOMAIN shown \subseteq RowId
  BY <1>1 DEF Listing, PartialFcns
<1>2. ASSUME shown \in [DOMAIN shown -> Row], DOMAIN shown \subseteq RowId PROVE shown \in Listing
  BY <1>2 DEF Listing, PartialFcns
<1>. QED
  BY <1>1, <1>2

LEMMA RowFields ==
  ASSUME NEW row \in Row
  PROVE  /\ row.artist \in Artist /\ row.axes \in [Axis -> BOOLEAN] /\ row.tags \in SUBSET Chip
         /\ \A f \in Axis, bit \in BOOLEAN :
              /\ [row EXCEPT !.axes[f] = bit] \in Row
              /\ [row EXCEPT !.axes[f] = bit].axes = [row.axes EXCEPT ![f] = bit]
              /\ [row EXCEPT !.axes[f] = bit].tags = row.tags
         /\ \A some \in SUBSET Chip :
              /\ [row EXCEPT !.tags = some] \in Row
              /\ [row EXCEPT !.tags = some].axes = row.axes
              /\ [row EXCEPT !.tags = some].tags = some
<1>. USE DEF Row
<1>1. row.artist \in Artist /\ row.axes \in [Axis -> BOOLEAN] /\ row.tags \in SUBSET Chip
  OBVIOUS
<1>2. ASSUME NEW f \in Axis, NEW bit \in BOOLEAN
      PROVE  /\ [row EXCEPT !.axes[f] = bit] \in Row
             /\ [row EXCEPT !.axes[f] = bit].axes = [row.axes EXCEPT ![f] = bit]
             /\ [row EXCEPT !.axes[f] = bit].tags = row.tags
  <2>. DEFINE bits == [row.axes EXCEPT ![f] = bit]
  <2>1. bits \in [Axis -> BOOLEAN]
    BY <1>1
  <2>2. [row EXCEPT !.axes[f] = bit] = [row EXCEPT !.axes = bits]
    OBVIOUS
  <2>. HIDE DEF bits
  <2>3. /\ [row EXCEPT !.axes = bits] \in Row /\ [row EXCEPT !.axes = bits].axes = bits
        /\ [row EXCEPT !.axes = bits].tags = row.tags
    BY <2>1
  <2>. QED
    BY <2>2, <2>3 DEF bits
<1>3. ASSUME NEW some \in SUBSET Chip
      PROVE  /\ [row EXCEPT !.tags = some] \in Row
             /\ [row EXCEPT !.tags = some].axes = row.axes
             /\ [row EXCEPT !.tags = some].tags = some
  OBVIOUS
<1>. QED
  BY <1>1, <1>2, <1>3

LEMMA RowsInitInv == RowsInit => RowsInv
<1>. SUFFICES ASSUME RowsInit PROVE RowsInv
  OBVIOUS
<1>1. PICK at \in Injection(WatchedFirst, RowId) :
        /\ Range(at) = {id \in RowId : id <= Cardinality(WatchedFirst)}
        /\ rows = [id \in Range(at) |->
             [artist |-> CHOOSE who \in WatchedFirst : at[who] = id, axes |-> Defaults]]
  BY DEF RowsInit
<1>2. /\ tagsOf = [who \in Artist |-> {}] /\ usedIds = DOMAIN rows
      /\ entries = Null /\ loadError = FALSE /\ busy = {} /\ adding = {}
      /\ lists = {[n |-> 1, awaits |-> Null, answer |-> Null]} /\ nLists = 1
      /\ rowWrites = {} /\ nRowWrites = 0 /\ offers = {} /\ added = {} /\ doubt = {}
  BY DEF RowsInit
<1>3. /\ DOMAIN rows = Range(at) /\ Range(at) \subseteq RowId
      /\ \A id \in Range(at) : rows[id] =
           [artist |-> CHOOSE who \in WatchedFirst : at[who] = id, axes |-> Defaults]
  BY <1>1
<1>4. \A id \in Range(at) : \E who \in WatchedFirst : at[who] = id
  BY <1>1 DEF Range, Injection
<1>5. \A id \in Range(at) : rows[id].artist \in WatchedFirst /\ at[rows[id].artist] = id
  BY <1>3, <1>4
<1>6. Defaults \in [Axis -> BOOLEAN]
  BY DEF Defaults
<1>7. rows \in [DOMAIN rows -> OnTable]
  <2>1. \A id \in Range(at) : rows[id] \in OnTable
    BY <1>3, <1>5, <1>6, RowsAssumption DEF OnTable
  <2>2. rows = [id \in DOMAIN rows |-> rows[id]]
    BY <1>1
  <2>. QED
    BY <1>3, <2>1, <2>2
<1>8. RowTypes
  <2>1. lists \subseteq ListRecord
    BY <1>2 DEF ListRecord
  <2>. QED
    BY <1>2, <1>7, <2>1 DEF RowTypes
<1>9. IdsAreUsed
  BY <1>2, <1>3 DEF IdsAreUsed
<1>10. OneRowAnArtist
  BY <1>3, <1>5 DEF OneRowAnArtist
<1>11. Gone /\ DisabledIsAwaited
  BY <1>2 DEF Gone, DisabledIsAwaited
<1>12. CellsAgree
  BY <1>2 DEF CellsAgree, OverlapsAreKnown, Agrees, OnPage
<1>. QED
  BY <1>8, <1>9, <1>10, <1>11, <1>12 DEF RowsInv

\* A step leaves a cell to itself: at most its row goes.
Unmoved(d) ==
  IF d[2] = "row" THEN (Kept(d)' <=> Kept(d)) /\ (OnPage(d)' <=> OnPage(d))
  ELSE /\ Kept(d)' => Kept(d) /\ InTable(d)' = InTable(d)
       /\ OnPage(d)' => OnPage(d) /\ Seen(d)' = Seen(d)

LEMMA StillTable ==
  ASSUME UNCHANGED <<rows, tagsOf>>, NEW d
  PROVE  (Kept(d)' <=> Kept(d)) /\ InTable(d)' = InTable(d)
  BY DEF Kept, InTable

LEMMA StillPage ==
  ASSUME UNCHANGED entries, NEW d
  PROVE  (OnPage(d)' <=> OnPage(d)) /\ Seen(d)' = Seen(d)
  BY DEF OnPage, Seen

LEMMA Still ==
  ASSUME UNCHANGED <<rows, tagsOf, entries>>
  PROVE  \A d : Unmoved(d)
  BY StillTable, StillPage DEF Unmoved

LEMMA WriteCells ==
  ASSUME RowsInv, NEW w \in rowWrites
  PROVE  /\ WellFormed(w) /\ w \in WriteRecord
         /\ w.cell = Null => w.op \in {"add", "undo"}
         /\ w.cell # Null => w.cell \in Cell /\ w.cell[1] \in usedIds
         /\ w.op = "remove" => w.cell \in Cell /\ w.cell[2] = "row"
         /\ w.op \in {"toggle", "note", "attach", "detach"} => w.cell \in Cell /\ w.cell[2] # "row"
<1>1. WellFormed(w) /\ w \in WriteRecord
  BY DEF RowsInv, RowTypes, WellFormed
<1>2. w.cell \in Cell \union {Null} /\
      w.op \in {"toggle", "note", "attach", "detach", "remove", "add", "undo"}
  BY <1>1 DEF WriteRecord
<1>3. w.cell # Null => w.cell[1] \in usedIds
  BY DEF RowsInv, IdsAreUsed
<1>4. w.op \in {"toggle", "note"} => w.cell \in Cell /\ w.cell[2] # "row"
  BY <1>1, Fields DEF WellFormed, Cell
<1>5. w.op \in {"attach", "detach"} => w.cell \in Cell /\ w.cell[2] # "row"
  BY <1>1, Fields DEF WellFormed, Cell
<1>6. w.op = "remove" => w.cell \in Cell /\ w.cell[2] = "row"
  BY <1>1 DEF WellFormed, Cell
<1>. QED
  BY <1>1, <1>2, <1>3, <1>4, <1>5, <1>6, RowNulls

LEMMA AwaitedStays ==
  ASSUME RowsInv, NEW w \in rowWrites, Awaited(w), w.cell = Null \/ Unmoved(w.cell)
  PROVE  Awaited(w)'
<1>1. CASE w.op \in {"add", "undo"}
  BY <1>1 DEF Awaited
<1>2. CASE w.op = "remove"
  BY <1>2, WriteCells DEF Awaited, Unmoved
<1>3. CASE w.op \in {"toggle", "note", "attach", "detach"}
  <2>1. w.cell # Null /\ w.cell[2] # "row"
    BY <1>3, WriteCells, RowNulls
  <2>. QED
    BY <1>3, <2>1 DEF Awaited, Unmoved
<1>. QED
  BY <1>1, <1>2, <1>3, WriteCells DEF WriteRecord

\* A step about one cell, its own, if it has one.
LEMMA CellsKept ==
  ASSUME RowsInv, NEW own \in Cell \union {Null},
         \A d \in Cell : d # own => \/ Unmoved(d)
                                    \/ d[1] \notin usedIds /\ ~OnPage(d)' /\ d[2] # "row",
         doubt \subseteq doubt',
         \A w \in rowWrites' : w.cell # own => w \in rowWrites,
         InFlight \ {own, Null} \subseteq InFlight',
         entries' # Null /\ ~loadError' /\ lists' = {} =>
           entries # Null /\ ~loadError /\ lists = {},
         \A v, w \in rowWrites' :
           v # w /\ v.cell = own /\ w.cell = own /\ own # Null => own \in doubt',
         \A w \in rowWrites' : w.cell = own /\ own \notin doubt' => Awaited(w)',
         own \in Cell /\ own \notin doubt' \union InFlight' => Agrees(own)'
  PROVE  CellsAgree'
<1>1. OverlapsAreKnown'
  <2>1. SUFFICES ASSUME NEW v \in rowWrites', NEW w \in rowWrites', v # w, v.cell = w.cell,
                        v.cell # Null
                 PROVE  v.cell \in doubt'
    BY DEF OverlapsAreKnown
  <2>2. CASE v.cell = own
    BY <2>1, <2>2
  <2>3. CASE v.cell # own
    BY <2>1, <2>3 DEF RowsInv, CellsAgree, OverlapsAreKnown
  <2>. QED
    BY <2>2, <2>3
<1>2. ASSUME NEW w \in rowWrites', w.cell \notin doubt' PROVE Awaited(w)'
  <2>1. CASE w.cell = own
    BY <1>2, <2>1
  <2>2. CASE w.cell # own
    <3>1. w \in rowWrites /\ Awaited(w)
      BY <1>2, <2>2 DEF RowsInv, CellsAgree
    <3>2. w.cell = Null \/ Unmoved(w.cell)
      BY <2>2, <3>1, WriteCells
    <3>. QED
      BY <3>1, <3>2, AwaitedStays
  <2>. QED
    BY <2>1, <2>2
<1>3. ASSUME NEW d \in Cell, d \notin doubt' \union InFlight' PROVE Agrees(d)'
  <2>1. CASE d = own
    BY <1>3, <2>1
  <2>2. CASE d # own
    <3>1. Agrees(d)
      BY <1>3, <2>2, RowNulls DEF RowsInv, CellsAgree
    <3>2. CASE d[1] \notin usedIds /\ ~OnPage(d)' /\ d[2] # "row"
      BY <3>2 DEF Agrees
    <3>3. CASE Unmoved(d)
      BY <3>1, <3>3 DEF Agrees, Unmoved
    <3>. QED
      BY <2>2, <3>2, <3>3
  <2>. QED
    BY <2>1, <2>2
<1>. QED
  BY <1>1, <1>2, <1>3 DEF CellsAgree

LEMMA AloneOrInDoubt ==
  ASSUME RowsInv, NEW v \in rowWrites, NEW w \in rowWrites, v # w, v.cell = w.cell
  PROVE  v.cell = Null \/ v.cell \in doubt
  BY DEF RowsInv, CellsAgree, OverlapsAreKnown

LEMMA AddsAwaitNothing ==
  ASSUME RowsInv, NEW w \in rowWrites, w.cell = Null
  PROVE  Awaited(w)'
  BY WriteCells DEF Awaited

\* A write is served.
LEMMA ServedCells ==
  ASSUME RowsInv, NEW w \in rowWrites, NEW reply, reply.cell = w.cell, reply.op = w.op,
         rowWrites' = (rowWrites \ {w}) \union {reply},
         UNCHANGED <<entries, loadError, lists, doubt>>,
         \A d \in Cell : d # w.cell => Unmoved(d),
         w.cell # Null /\ w.cell \notin doubt => Awaited(reply)'
  PROVE  CellsAgree'
<1>. DEFINE own == w.cell
<1>1. own \in Cell \union {Null}
  BY WriteCells
<1>2. InFlight \ {own} \subseteq InFlight' /\ own \in InFlight'
  BY DEF InFlight
<1>3. \A v \in rowWrites' : v.cell # own => v \in rowWrites
  OBVIOUS
<1>4. ASSUME NEW v \in rowWrites', NEW u \in rowWrites', v # u, v.cell = own, u.cell = own,
             own # Null
      PROVE  own \in doubt'
  <2>1. CASE v = reply
    <3>1. u \in rowWrites /\ u # w
      BY <1>4, <2>1
    <3>. QED
      BY <1>4, <3>1, AloneOrInDoubt
  <2>2. CASE v # reply
    <3>1. v \in rowWrites /\ v # w
      BY <1>4, <2>2
    <3>. QED
      BY <1>4, <3>1, AloneOrInDoubt
  <2>. QED
    BY <2>1, <2>2
<1>5. ASSUME NEW v \in rowWrites', v.cell = own, own \notin doubt' PROVE Awaited(v)'
  <2>1. CASE own = Null
    <3>1. v.op \in {"add", "undo"}
      BY <1>5, <2>1, WriteCells
    <3>. QED
      BY <3>1 DEF Awaited
  <2>2. CASE own # Null
    <3>1. v = reply
      BY <1>5, <2>2, AloneOrInDoubt
    <3>. QED
      BY <1>5, <2>2, <3>1
  <2>. QED
    BY <2>1, <2>2
<1>. HIDE DEF own
<1>6. \A d \in Cell : d # own => Unmoved(d)
  BY DEF own
<1>. QED
  BY <1>1, <1>2, <1>3, <1>4, <1>5, <1>6, CellsKept

\* An answer, or a failure, arrives.
LEMMA AnsweredCells ==
  ASSUME RowsInv, NEW w \in rowWrites, rowWrites' = rowWrites \ {w},
         doubt \subseteq doubt',
         \A d \in Cell : d # w.cell => Unmoved(d),
         entries' # Null /\ ~loadError' /\ lists' = {} =>
           entries # Null /\ ~loadError /\ lists = {},
         w.cell \in Cell /\ w.cell \notin doubt' => Agrees(w.cell)'
  PROVE  CellsAgree'
<1>. DEFINE own == w.cell
<1>1. own \in Cell \union {Null}
  BY WriteCells
<1>2. InFlight \ {own} \subseteq InFlight'
  BY DEF InFlight
<1>3. \A v \in rowWrites' : v.cell # own => v \in rowWrites
  OBVIOUS
<1>4. ASSUME NEW v \in rowWrites', v.cell = own PROVE own = Null \/ own \in doubt'
  BY <1>4, AloneOrInDoubt
<1>5. ASSUME NEW v \in rowWrites', v.cell = own, own \notin doubt' PROVE Awaited(v)'
  BY <1>4, <1>5, AddsAwaitNothing
<1>6. \A d \in Cell : d # own => Unmoved(d)
  OBVIOUS
<1>7. own \in Cell /\ own \notin doubt' \union InFlight' => Agrees(own)'
  OBVIOUS
<1>. HIDE DEF own
<1>. QED
  BY <1>1, <1>2, <1>3, <1>4, <1>5, <1>6, <1>7, CellsKept

\* The user sends a write.
LEMMA SentCells ==
  ASSUME RowsInv, NEW w, w.cell \in Cell \union {Null}, w.cell = Null => w.op \in {"add", "undo"},
         rowWrites' = rowWrites \union {w}, doubt' = doubt \union ({w.cell} \intersect InFlight),
         \A d \in Cell : d # w.cell => Unmoved(d),
         entries' # Null /\ ~loadError' /\ lists' = {} =>
           entries # Null /\ ~loadError /\ lists = {},
         w.cell # Null /\ w.cell \notin doubt \union InFlight => Awaited(w)'
  PROVE  CellsAgree'
<1>. DEFINE own == w.cell
<1>1. own \in Cell \union {Null} /\ doubt \subseteq doubt'
  OBVIOUS
<1>2. InFlight \ {own} \subseteq InFlight' /\ own \in InFlight'
  BY DEF InFlight
<1>3. \A v \in rowWrites' : v.cell # own => v \in rowWrites
  OBVIOUS
<1>4. ASSUME NEW v \in rowWrites', NEW u \in rowWrites', v # u, v.cell = own, u.cell = own,
             own # Null
      PROVE  own \in doubt'
  <2>1. v \in rowWrites \/ u \in rowWrites
    BY <1>4
  <2>2. own \in InFlight
    BY <1>4, <2>1 DEF InFlight
  <2>. QED
    BY <2>2
<1>5. ASSUME NEW v \in rowWrites', v.cell = own, own \notin doubt' PROVE Awaited(v)'
  <2>1. CASE own = Null
    <3>1. v.op \in {"add", "undo"}
      BY <1>5, <2>1, WriteCells
    <3>. QED
      BY <3>1 DEF Awaited
  <2>2. CASE own # Null
    <3>1. own \notin doubt \union InFlight
      BY <1>5
    <3>2. v = w
      BY <1>5, <3>1 DEF InFlight
    <3>. QED
      BY <2>2, <3>1, <3>2
  <2>. QED
    BY <2>1, <2>2
<1>6. \A d \in Cell : d # own => Unmoved(d)
  OBVIOUS
<1>. HIDE DEF own
<1>. QED
  BY <1>1, <1>2, <1>3, <1>4, <1>5, <1>6, CellsKept

\* What is left to show of a step that sends, serves or answers a write.
LEMMA WriteSent ==
  ASSUME RowsInv, NEW w, WellFormed(w), w.reply = "none",
         w.cell # Null => w.cell[1] \in usedIds,
         rowWrites' = rowWrites \union {w}, nRowWrites' \in Nat,
         doubt' = doubt \union ({w.cell} \intersect InFlight),
         UNCHANGED <<rows, tagsOf, usedIds, loadError, lists, nLists>>,
         entries' \in Listing \union {Null},
         entries' # Null => entries # Null /\ DOMAIN entries' \subseteq DOMAIN entries,
         busy' \subseteq RowId \X Axis, busy' \subseteq busy \union {w.cell},
         adding' \subseteq Artist,
         adding' \subseteq adding \union (IF w.op = "add" THEN {w.artist} ELSE {}),
         offers' \subseteq OnTable,
         \A d \in Cell : d # w.cell => Unmoved(d),
         w.cell # Null /\ w.cell \notin doubt \union InFlight => Awaited(w)'
  PROVE  RowsInv'
<1>1. RowTypes /\ IdsAreUsed /\ OneRowAnArtist /\ Gone /\ DisabledIsAwaited
  BY DEF RowsInv
<1>2. RowTypes'
  <2>1. \A v \in rowWrites' : WellFormed(v)
    BY <1>1 DEF RowTypes
  <2>2. \A v : WellFormed(v)' <=> WellFormed(v)
    BY DEF WellFormed
  <2>. QED
    BY <1>1, <2>1, <2>2 DEF RowTypes
<1>3. IdsAreUsed'
  BY <1>1 DEF IdsAreUsed
<1>4. OneRowAnArtist'
  BY <1>1 DEF OneRowAnArtist
<1>5. Gone'
  <2>1. SUFFICES ASSUME NEW v \in rowWrites',
                        \/ v.op \notin {"add", "undo"} /\ v.reply = "refused"
                        \/ v.op = "remove" /\ v.reply = "done"
                 PROVE  v.cell[1] \notin DOMAIN rows'
    BY DEF Gone
  <2>2. v # w
    BY <2>1
  <2>. QED
    BY <1>1, <2>1, <2>2 DEF Gone
<1>6. DisabledIsAwaited'
  <2>1. busy' \subseteq InFlight'
    BY <1>1 DEF DisabledIsAwaited, InFlight
  <2>2. ASSUME NEW who \in adding' PROVE AddAwaits(who)'
    <3>1. CASE who \in adding
      <4>1. AddAwaits(who)
        BY <1>1, <3>1 DEF DisabledIsAwaited, AddAwaits
      <4>. QED
        BY <4>1 DEF AddAwaits
    <3>2. CASE who \notin adding
      BY <2>2, <3>2 DEF AddAwaits
    <3>. QED
      BY <3>1, <3>2
  <2>. QED
    BY <2>1, <2>2 DEF DisabledIsAwaited, AddAwaits
<1>7. CellsAgree'
  <2>1. w.cell \in Cell \union {Null} /\ (w.cell = Null => w.op \in {"add", "undo"})
    <3>1. w \in WriteRecord
      BY DEF WellFormed
    <3>2. w.cell \in Cell \union {Null} /\
          w.op \in {"toggle", "note", "attach", "detach", "remove", "add", "undo"}
      BY <3>1 DEF WriteRecord
    <3>3. w.op \in {"toggle", "note", "attach", "detach", "remove"} => w.cell \in Cell
      BY DEF WellFormed, Cell
    <3>. QED
      BY <3>2, <3>3, RowNulls
  <2>. QED
    BY <2>1, SentCells
<1>. QED
  BY <1>2, <1>3, <1>4, <1>5, <1>6, <1>7 DEF RowsInv

LEMMA WriteServed ==
  ASSUME RowsInv, NEW w \in rowWrites, NEW reply, WellFormed(reply), reply.cell = w.cell,
         reply.op = w.op, reply.artist = w.artist,
         rowWrites' = (rowWrites \ {w}) \union {reply},
         UNCHANGED <<usedIds, entries, loadError, busy, adding, lists, nLists, nRowWrites,
                     offers, doubt>>,
         rows' \in [DOMAIN rows' -> OnTable], DOMAIN rows' \subseteq DOMAIN rows,
         \A id \in DOMAIN rows' : rows'[id].artist = rows[id].artist,
         tagsOf' \in [Artist -> SUBSET Chip],
         \/ reply.op \notin {"add", "undo"} /\ reply.reply = "refused"
         \/ reply.op = "remove" /\ reply.reply = "done"
         => reply.cell[1] \notin DOMAIN rows',
         \A d \in Cell : d # w.cell => Unmoved(d),
         w.cell # Null /\ w.cell \notin doubt => Awaited(reply)'
  PROVE  RowsInv'
<1>1. RowTypes /\ IdsAreUsed /\ OneRowAnArtist /\ Gone /\ DisabledIsAwaited
  BY DEF RowsInv
<1>2. RowTypes'
  <2>1. \A v \in rowWrites' : WellFormed(v)
    BY <1>1 DEF RowTypes
  <2>2. \A v : WellFormed(v)' <=> WellFormed(v)
    BY DEF WellFormed
  <2>. QED
    BY <1>1, <2>1, <2>2 DEF RowTypes
<1>3. IdsAreUsed'
  BY <1>1 DEF IdsAreUsed
<1>4. OneRowAnArtist'
  BY <1>1 DEF OneRowAnArtist
<1>5. Gone'
  <2>1. SUFFICES ASSUME NEW v \in rowWrites',
                        \/ v.op \notin {"add", "undo"} /\ v.reply = "refused"
                        \/ v.op = "remove" /\ v.reply = "done"
                 PROVE  v.cell[1] \notin DOMAIN rows'
    BY DEF Gone
  <2>2. CASE v = reply
    BY <2>1, <2>2
  <2>3. CASE v # reply
    BY <1>1, <2>1, <2>3 DEF Gone
  <2>. QED
    BY <2>2, <2>3
<1>6. DisabledIsAwaited'
  <2>1. InFlight' = InFlight
    BY DEF InFlight
  <2>2. ASSUME NEW who \in adding' PROVE AddAwaits(who)'
    <3>1. AddAwaits(who)
      BY <1>1, <2>2 DEF DisabledIsAwaited, AddAwaits
    <3>2. CASE \E l \in lists : l.awaits = who
      BY <3>2 DEF AddAwaits
    <3>3. ASSUME NEW v \in rowWrites, v.op = "add", v.artist = who PROVE AddAwaits(who)'
      <4>1. CASE v = w
        BY <3>3, <4>1 DEF AddAwaits
      <4>2. CASE v # w
        BY <3>3, <4>2 DEF AddAwaits
      <4>. QED
        BY <4>1, <4>2
    <3>. QED
      BY <3>1, <3>2, <3>3 DEF AddAwaits
  <2>. QED
    BY <1>1, <2>1, <2>2 DEF DisabledIsAwaited, AddAwaits
<1>7. CellsAgree'
  BY ServedCells
<1>. QED
  BY <1>2, <1>3, <1>4, <1>5, <1>6, <1>7 DEF RowsInv

LEMMA WriteAnswered ==
  ASSUME RowsInv, NEW w \in rowWrites, rowWrites' = rowWrites \ {w}, nRowWrites' = nRowWrites,
         UNCHANGED <<rows, tagsOf, usedIds>>,
         entries' \in Listing \union {Null},
         entries' # Null => entries # Null /\ DOMAIN entries' \subseteq DOMAIN entries,
         busy' \subseteq busy, w.op \in {"toggle", "note"} => w.cell \notin busy',
         adding' \subseteq adding, offers' \subseteq OnTable, doubt \subseteq doubt',
         \/ NoRefresh /\ (w.op = "add" => w.artist \notin adding')
         \/ \E who \in Artist \union {Null} :
              RefreshFor(who) /\ (w.op = "add" /\ w.artist \in adding' => who = w.artist),
         \A d \in Cell : d # w.cell => Unmoved(d),
         NoRefresh /\ w.cell \in Cell /\ w.cell \notin doubt' => Agrees(w.cell)',
         w.cell \in Cell /\ w.cell[2] # "row" => NoRefresh
  PROVE  RowsInv'
<1>1. RowTypes /\ IdsAreUsed /\ OneRowAnArtist /\ Gone /\ DisabledIsAwaited
  BY DEF RowsInv
<1>. DEFINE Asked ==
       /\ loadError' \in BOOLEAN /\ nLists' \in Nat
       /\ lists' \subseteq ListRecord
       /\ \A l \in lists' : l.answer # Null => l \in lists
       /\ ~loadError' /\ lists' = {} => ~loadError /\ lists = {} /\ NoRefresh
       /\ lists \subseteq lists'
<1>0. Asked
  <2>1. CASE NoRefresh
    BY <1>1, <2>1 DEF NoRefresh, RowTypes
  <2>2. ASSUME NEW who \in Artist \union {Null}, RefreshFor(who) PROVE Asked
    <3>1. /\ loadError' = FALSE /\ nLists' = nLists + 1
          /\ lists' = lists \union {[n |-> nLists + 1, awaits |-> who, answer |-> Null]}
      BY <2>2 DEF RefreshFor
    <3>2. nLists \in Nat /\ lists \subseteq ListRecord
      BY <1>1 DEF RowTypes
    <3>3. lists' \subseteq ListRecord /\ lists' # {}
      <4>1. [n |-> nLists + 1, awaits |-> who, answer |-> Null] \in ListRecord
        BY <3>2 DEF ListRecord
      <4>. QED
        BY <3>1, <3>2, <4>1
    <3>4. \A l \in lists' : l.answer # Null => l \in lists
      BY <3>1
    <3>5. lists \subseteq lists' /\ loadError' \in BOOLEAN
      BY <3>1
    <3>6. nLists' \in Nat
      BY <3>1, <3>2
    <3>. QED
      BY <3>3, <3>4, <3>5, <3>6
  <2>. QED
    BY <2>1, <2>2
<1>2. RowTypes'
  <2>1. \A v \in rowWrites' : WellFormed(v)
    BY <1>1 DEF RowTypes
  <2>2. \A v : WellFormed(v)' <=> WellFormed(v)
    BY DEF WellFormed
  <2>. QED
    BY <1>0, <1>1, <2>1, <2>2 DEF RowTypes
<1>3. IdsAreUsed'
  BY <1>0, <1>1 DEF IdsAreUsed
<1>4. OneRowAnArtist'
  BY <1>1 DEF OneRowAnArtist
<1>5. Gone'
  BY <1>1 DEF Gone
<1>6. DisabledIsAwaited'
  <2>1. w.cell \notin busy'
    <3>1. w.op \notin {"toggle", "note"} => w.cell \notin RowId \X Axis
      <4>1. w.cell # Null /\ w.op \notin {"toggle", "note"} =>
              w.cell \in RowId \X ({"row"} \union Chip)
        <5>1. WellFormed(w) /\ w.op \in {"toggle", "note", "attach", "detach", "remove", "add", "undo"}
          BY WriteCells DEF WriteRecord
        <5>. QED
          BY <5>1 DEF WellFormed
      <4>2. Null \notin RowId \X Axis
        BY RowNulls DEF Cell
      <4>. QED
        BY <4>1, <4>2, Fields
    <3>. QED
      BY <1>1, <3>1 DEF RowTypes
  <2>2. busy' \subseteq InFlight'
    <3>1. SUFFICES ASSUME NEW d \in busy' PROVE d \in InFlight'
      OBVIOUS
    <3>2. PICK v \in rowWrites : v.cell = d
      BY <1>1, <3>1 DEF DisabledIsAwaited, InFlight
    <3>3. v # w
      BY <2>1, <3>1, <3>2
    <3>. QED
      BY <3>2, <3>3 DEF InFlight
  <2>3. ASSUME NEW who \in adding' PROVE AddAwaits(who)'
    <3>1. AddAwaits(who)
      BY <1>1, <2>3 DEF DisabledIsAwaited, AddAwaits
    <3>2. CASE \E l \in lists : l.awaits = who
      BY <1>0, <3>2 DEF AddAwaits
    <3>3. ASSUME NEW v \in rowWrites, v.op = "add", v.artist = who PROVE AddAwaits(who)'
      <4>1. CASE v # w
        BY <3>3, <4>1 DEF AddAwaits
      <4>2. CASE v = w
        <5>1. RefreshFor(who)
          BY <2>3, <3>3, <4>2
        <5>2. [n |-> nLists + 1, awaits |-> who, answer |-> Null] \in lists'
          BY <5>1 DEF RefreshFor
        <5>. QED
          BY <5>2 DEF AddAwaits
      <4>. QED
        BY <4>1, <4>2
    <3>. QED
      BY <3>1, <3>2, <3>3 DEF AddAwaits
  <2>. QED
    BY <2>2, <2>3 DEF DisabledIsAwaited, AddAwaits
<1>7. CellsAgree'
  <2>1. w.cell \in Cell /\ w.cell \notin doubt' => Agrees(w.cell)'
    <3>1. CASE NoRefresh
      BY <3>1
    <3>2. CASE ~NoRefresh
      BY <1>0, <3>2 DEF Agrees
    <3>. QED
      BY <3>1, <3>2
  <2>. QED
    BY <1>0, <2>1, AnsweredCells
<1>. QED
  BY <1>2, <1>3, <1>4, <1>5, <1>6, <1>7 DEF RowsInv

\* The route's updaters.
LEMMA Updates ==
  ASSUME RowsInv, NEW id \in RowId, NEW row, OnPage(<<id, "row">>) => row \in Row
  PROVE  /\ Update(id, row) \in Listing \union {Null}
         /\ Update(id, row) = Null <=> entries = Null
         /\ entries # Null => /\ DOMAIN Update(id, row) = DOMAIN entries
                              /\ \A j \in DOMAIN entries :
                                   Update(id, row)[j] = IF j = id THEN row ELSE entries[j]
<1>1. CASE entries # Null /\ id \in DOMAIN entries
  <2>1. entries \in [DOMAIN entries -> Row] /\ DOMAIN entries \subseteq RowId
    BY <1>1, Listings DEF RowsInv, RowTypes
  <2>2. row \in Row
    BY <1>1 DEF OnPage
  <2>3. Update(id, row) = [entries EXCEPT ![id] = row]
    BY <1>1 DEF Update
  <2>4. /\ [entries EXCEPT ![id] = row] \in [DOMAIN entries -> Row]
        /\ \A j \in DOMAIN entries :
             [entries EXCEPT ![id] = row][j] = IF j = id THEN row ELSE entries[j]
    BY <2>1, <2>2
  <2>5. Update(id, row) \in Listing
    BY <2>1, <2>3, <2>4, Listings
  <2>. QED
    BY <1>1, <2>3, <2>4, <2>5, RowNulls
<1>2. CASE ~(entries # Null /\ id \in DOMAIN entries)
  BY <1>2 DEF Update, RowsInv, RowTypes
<1>. QED
  BY <1>1, <1>2

LEMMA ShownRow ==
  ASSUME RowsInv, entries # Null, NEW id \in DOMAIN entries
  PROVE  id \in RowId /\ entries[id] \in Row /\ id \in usedIds
  BY Listings DEF RowsInv, RowTypes, IdsAreUsed

LEMMA PatchedCells ==
  ASSUME RowsInv, NEW id \in RowId, NEW f \in Axis, NEW bit \in BOOLEAN,
         entries' = Update(id, [entries[id] EXCEPT !.axes[f] = bit])
  PROVE  /\ entries' \in Listing \union {Null}
         /\ entries' # Null => entries # Null /\ DOMAIN entries' \subseteq DOMAIN entries
         /\ \A d : OnPage(d)' <=> OnPage(d)
         /\ \A d \in Cell : d # <<id, f>> /\ d[2] # "row" /\ OnPage(d) => Seen(d)' = Seen(d)
         /\ OnPage(<<id, f>>) => Seen(<<id, f>>)' = bit
<1>. DEFINE row == [entries[id] EXCEPT !.axes[f] = bit]
<1>1. OnPage(<<id, "row">>) =>
        row \in Row /\ row.axes = [entries[id].axes EXCEPT ![f] = bit]
        /\ row.tags = entries[id].tags /\ entries[id].axes \in [Axis -> BOOLEAN]
  BY ShownRow, RowFields DEF OnPage
<1>2. entries' = Update(id, row)
  OBVIOUS
<1>. HIDE DEF row
<1>3. /\ entries' \in Listing \union {Null} /\ (entries' = Null <=> entries = Null)
      /\ entries # Null => /\ DOMAIN entries' = DOMAIN entries
                           /\ \A j \in DOMAIN entries :
                                entries'[j] = IF j = id THEN row ELSE entries[j]
  <2>1. OnPage(<<id, "row">>) => row \in Row
    BY <1>1
  <2>2. /\ Update(id, row) \in Listing \union {Null}
        /\ Update(id, row) = Null <=> entries = Null
        /\ entries # Null => /\ DOMAIN Update(id, row) = DOMAIN entries
                             /\ \A j \in DOMAIN entries :
                                  Update(id, row)[j] = IF j = id THEN row ELSE entries[j]
    BY <2>1, Updates
  <2>. QED
    BY <1>2, <2>2
<1>4. \A d : OnPage(d)' <=> OnPage(d)
  BY <1>3 DEF OnPage
<1>5. ASSUME NEW d \in Cell, d # <<id, f>>, d[2] # "row", OnPage(d) PROVE Seen(d)' = Seen(d)
  <2>1. CASE d[1] # id
    BY <1>3, <1>5, <2>1 DEF OnPage, Seen
  <2>2. CASE d[1] = id
    <3>1. d[2] # f
      BY <1>5, <2>2, Fields
    <3>2. entries'[id] = row /\ OnPage(<<id, "row">>)
      BY <1>3, <1>5, <2>2 DEF OnPage
    <3>. QED
      BY <1>1, <2>2, <3>1, <3>2 DEF Seen
  <2>. QED
    BY <2>1, <2>2
<1>6. ASSUME OnPage(<<id, f>>) PROVE Seen(<<id, f>>)' = bit
  <2>1. entries'[id] = row /\ OnPage(<<id, "row">>)
    BY <1>3, <1>6 DEF OnPage
  <2>. QED
    BY <1>1, <2>1 DEF Seen
<1>. QED
  BY <1>3, <1>4, <1>5, <1>6

LEMMA RetaggedCells ==
  ASSUME RowsInv, NEW id \in RowId, NEW chip1 \in Chip, NEW some,
         OnPage(<<id, "row">>) =>
           some \in SUBSET Chip /\ some \ {chip1} = entries[id].tags \ {chip1},
         entries' = Update(id, [entries[id] EXCEPT !.tags = some])
  PROVE  /\ entries' \in Listing \union {Null}
         /\ entries' # Null => entries # Null /\ DOMAIN entries' \subseteq DOMAIN entries
         /\ \A d : OnPage(d)' <=> OnPage(d)
         /\ \A d \in Cell : d # <<id, chip1>> /\ d[2] # "row" /\ OnPage(d) => Seen(d)' = Seen(d)
         /\ OnPage(<<id, chip1>>) => Seen(<<id, chip1>>)' = (chip1 \in some)
<1>. DEFINE row == [entries[id] EXCEPT !.tags = some]
<1>1. OnPage(<<id, "row">>) =>
        row \in Row /\ row.axes = entries[id].axes /\ row.tags = some
  BY ShownRow, RowFields DEF OnPage
<1>2. entries' = Update(id, row)
  OBVIOUS
<1>. HIDE DEF row
<1>3. /\ entries' \in Listing \union {Null} /\ (entries' = Null <=> entries = Null)
      /\ entries # Null => /\ DOMAIN entries' = DOMAIN entries
                           /\ \A j \in DOMAIN entries :
                                entries'[j] = IF j = id THEN row ELSE entries[j]
  <2>1. OnPage(<<id, "row">>) => row \in Row
    BY <1>1
  <2>2. /\ Update(id, row) \in Listing \union {Null}
        /\ Update(id, row) = Null <=> entries = Null
        /\ entries # Null => /\ DOMAIN Update(id, row) = DOMAIN entries
                             /\ \A j \in DOMAIN entries :
                                  Update(id, row)[j] = IF j = id THEN row ELSE entries[j]
    BY <2>1, Updates
  <2>. QED
    BY <1>2, <2>2
<1>4. \A d : OnPage(d)' <=> OnPage(d)
  BY <1>3 DEF OnPage
<1>5. ASSUME NEW d \in Cell, d # <<id, chip1>>, d[2] # "row", OnPage(d) PROVE Seen(d)' = Seen(d)
  <2>1. CASE d[1] # id
    BY <1>3, <1>5, <2>1 DEF OnPage, Seen
  <2>2. CASE d[1] = id
    <3>1. d[2] # chip1
      BY <1>5, <2>2, Fields
    <3>2. entries'[id] = row /\ OnPage(<<id, "row">>)
      BY <1>3, <1>5, <2>2 DEF OnPage
    <3>3. d[2] \in some <=> d[2] \in entries[id].tags
      BY <3>1, <3>2
    <3>. QED
      BY <1>1, <2>2, <3>2, <3>3 DEF Seen
  <2>. QED
    BY <2>1, <2>2
<1>6. ASSUME OnPage(<<id, chip1>>) PROVE Seen(<<id, chip1>>)' = (chip1 \in some)
  <2>1. entries'[id] = row /\ OnPage(<<id, "row">>)
    BY <1>3, <1>6 DEF OnPage
  <2>. QED
    BY <1>1, <2>1, Fields DEF Seen
<1>. QED
  BY <1>3, <1>4, <1>5, <1>6

\* With the table as it was, a cell the page shows as before is unmoved.
LEMMA UnmovedOnPage ==
  ASSUME UNCHANGED <<rows, tagsOf>>, NEW d, OnPage(d)' <=> OnPage(d),
         d[2] # "row" /\ OnPage(d) => Seen(d)' = Seen(d)
  PROVE  Unmoved(d)
  BY StillTable DEF Unmoved

LEMMA UnmovedInTable ==
  ASSUME UNCHANGED entries, NEW d, d[2] = "row" => (Kept(d)' <=> Kept(d)),
         d[2] # "row" /\ Kept(d)' => Kept(d) /\ InTable(d)' = InTable(d)
  PROVE  Unmoved(d)
  BY StillPage DEF Unmoved

\* A cell of the table and of the page, alone and not in doubt, agrees.
LEMMA AgreesNow ==
  ASSUME RowsInv, NEW d \in Cell, d \notin doubt \union InFlight
  PROVE  Agrees(d)
  BY DEF RowsInv, CellsAgree

Asked(op, artist, cell, value, previous) ==
  [n |-> nRowWrites + 1, op |-> op, artist |-> artist, cell |-> cell, value |-> value,
   previous |-> previous, reply |-> "none", row |-> Null]

LEMMA SendRowIs ==
  ASSUME NEW op, NEW artist, NEW cell, NEW value, NEW previous,
         SendRow(op, artist, cell, value, previous)
  PROVE  /\ rowWrites' = rowWrites \union {Asked(op, artist, cell, value, previous)}
         /\ nRowWrites' = nRowWrites + 1
         /\ doubt' = doubt \union ({cell} \intersect InFlight)
  BY DEF SendRow, Asked

LEMMA AskedFields ==
  ASSUME RowsInv, NEW op \in {"toggle", "note", "attach", "detach", "remove", "add", "undo"},
         NEW artist \in Artist \union {Null}, NEW cell \in Cell \union {Null},
         NEW value \in BOOLEAN \union [Axis -> BOOLEAN], NEW previous \in Row \union {Null},
         NEW w, w = Asked(op, artist, cell, value, previous)
  PROVE  /\ w \in WriteRecord /\ w.op = op /\ w.artist = artist /\ w.cell = cell
         /\ w.value = value /\ w.previous = previous /\ w.reply = "none"
         /\ nRowWrites + 1 \in Nat
  BY DEF Asked, WriteRecord, RowsInv, RowTypes

\* A cell of a row that is on screen.
LEMMA ShownCell ==
  ASSUME RowsInv, NEW id \in RowId, NEW f \in {"row"} \union Axis \union Chip, Shown(id)
  PROVE  /\ <<id, f>> \in Cell /\ <<id, f>> # Null /\ <<id, f>>[1] = id /\ <<id, f>>[2] = f
         /\ OnPage(<<id, f>>) /\ entries # Null /\ id \in DOMAIN entries
         /\ entries[id] \in Row /\ id \in usedIds
  BY ShownRow, RowNulls DEF Shown, OnPage, Cell

\* What a step that sends a write leaves alone, unless it says more.
Untouched == UNCHANGED <<rows, tagsOf, usedIds, loadError, lists, nLists>>

LEMMA ToggleStep ==
  ASSUME RowsInv, NEW id \in RowId, NEW f \in Axis, Toggle(id, f)
  PROVE  RowsInv'
<1>. DEFINE cell == <<id, f>>
<1>0. PICK was : was = entries[id]
  OBVIOUS
<1>. DEFINE bit == ~was.axes[f]
<1>w. PICK w : w = Asked("toggle", Null, cell, bit, was)
  OBVIOUS
<1>1. Shown(id) /\ f # "note"
  BY DEF Toggle, Enabled
<1>2. /\ cell \in Cell /\ cell # Null /\ cell[1] = id /\ cell[2] = f
      /\ OnPage(cell) /\ was \in Row /\ id \in usedIds
  BY <1>0, <1>1, ShownCell
<1>3. was.axes \in [Axis -> BOOLEAN] /\ bit \in BOOLEAN
  BY <1>2, RowFields
<1>4. /\ SendRow("toggle", Null, cell, bit, was)
      /\ entries' = Update(id, [entries[id] EXCEPT !.axes[f] = ~@])
      /\ busy' = busy \union {cell}
      /\ Untouched /\ UNCHANGED <<adding, offers>>
  BY <1>0 DEF Toggle, NoRefresh, serverVars, Untouched
<1>5. entries' = Update(id, [entries[id] EXCEPT !.axes[f] = bit])
  BY <1>0, <1>4
<1>. HIDE DEF bit
<1>6. /\ w \in WriteRecord /\ w.op = "toggle" /\ w.cell = cell /\ w.value = bit
      /\ w.previous = was /\ w.reply = "none" /\ nRowWrites + 1 \in Nat
  BY <1>w, <1>2, <1>3, AskedFields
<1>7. /\ rowWrites' = rowWrites \union {w} /\ nRowWrites' = nRowWrites + 1
      /\ doubt' = doubt \union ({cell} \intersect InFlight)
  BY <1>w, <1>4, SendRowIs
<1>8. /\ entries' \in Listing \union {Null}
      /\ entries' # Null => entries # Null /\ DOMAIN entries' \subseteq DOMAIN entries
      /\ \A d : OnPage(d)' <=> OnPage(d)
      /\ \A d \in Cell : d # cell /\ d[2] # "row" /\ OnPage(d) => Seen(d)' = Seen(d)
  BY <1>3, <1>5, PatchedCells
<1>9. WellFormed(w)
  BY <1>2, <1>3, <1>6 DEF WellFormed
<1>10. \A d \in Cell : d # cell => Unmoved(d)
  BY <1>4, <1>8, UnmovedOnPage DEF Untouched
<1>11. ASSUME cell \notin doubt \union InFlight PROVE Awaited(w)'
  <2>1. Agrees(cell) /\ Seen(cell) = was.axes[f] /\ f # "row"
    BY <1>2, <1>11, <1>0, AgreesNow, Fields DEF Seen
  <2>2. Kept(cell) => InTable(cell) = was.axes[f]
    BY <1>2, <2>1 DEF Agrees
  <2>3. (Kept(cell)' <=> Kept(cell)) /\ InTable(cell)' = InTable(cell)
    BY <1>4, StillTable DEF Untouched
  <2>4. Kept(cell)' => InTable(cell)' = was.axes[f]
    BY <2>2, <2>3
  <2>. HIDE DEF cell
  <2>. QED
    BY <1>2, <1>6, <2>4 DEF Awaited
<1>12. busy' \subseteq RowId \X Axis /\ adding' \subseteq Artist /\ offers' \subseteq OnTable
  BY <1>4 DEF RowsInv, RowTypes
<1>. HIDE DEF cell
<1>. QED
  BY <1>2, <1>4, <1>6, <1>7, <1>8, <1>9, <1>10, <1>11, <1>12, WriteSent DEF Untouched

LEMMA SaveNoteStep ==
  ASSUME RowsInv, NEW id \in RowId, SaveNote(id)
  PROVE  RowsInv'
<1>. DEFINE cell == <<id, "note">>
<1>1. "note" \in Axis /\ Shown(id)
  BY DEF SaveNote, Enabled
<1>2. /\ cell \in Cell /\ cell # Null /\ cell[1] = id /\ cell[2] = "note"
      /\ OnPage(cell) /\ entries[id] \in Row /\ id \in usedIds
  BY <1>1, ShownCell
<1>3. PICK bit : bit = ~entries[id].axes["note"]
  OBVIOUS
<1>4. bit \in BOOLEAN
  BY <1>3
<1>5. PICK w : w = Asked("note", Null, cell, bit, Null)
  OBVIOUS
<1>6. /\ SendRow("note", Null, cell, bit, Null) /\ busy' = busy \union {cell}
      /\ Untouched /\ UNCHANGED <<entries, adding, offers>>
  BY <1>3 DEF SaveNote, NoRefresh, serverVars, Untouched
<1>7. /\ w \in WriteRecord /\ w.op = "note" /\ w.cell = cell /\ w.value = bit
      /\ w.reply = "none" /\ nRowWrites + 1 \in Nat
  <2>. HIDE DEF cell
  <2>. QED
    BY <1>2, <1>4, <1>5, AskedFields
<1>8. /\ rowWrites' = rowWrites \union {w} /\ nRowWrites' = nRowWrites + 1
      /\ doubt' = doubt \union ({cell} \intersect InFlight)
  BY <1>5, <1>6, SendRowIs
<1>9. WellFormed(w)
  BY <1>1, <1>2, <1>4, <1>7 DEF WellFormed
<1>10. \A d \in Cell : d # cell => Unmoved(d)
  BY <1>6, Still DEF Untouched
<1>11. ASSUME cell \notin doubt \union InFlight PROVE Awaited(w)'
  <2>1. Agrees(cell) /\ cell[2] # "row"
    BY <1>1, <1>2, <1>11, AgreesNow, Fields
  <2>2. Kept(cell)' /\ OnPage(cell)' => Seen(cell)' = InTable(cell)'
    BY <1>6, <2>1, StillTable, StillPage DEF Agrees, Untouched
  <2>. HIDE DEF cell
  <2>. QED
    BY <1>7, <2>2 DEF Awaited
<1>12. /\ busy' \subseteq RowId \X Axis /\ adding' \subseteq Artist /\ offers' \subseteq OnTable
       /\ entries' \in Listing \union {Null}
  BY <1>1, <1>6 DEF RowsInv, RowTypes
<1>. HIDE DEF cell
<1>. QED
  BY <1>2, <1>6, <1>7, <1>8, <1>9, <1>10, <1>11, <1>12, WriteSent DEF Untouched

LEMMA DetachStep ==
  ASSUME RowsInv, NEW id \in RowId, NEW chip1 \in Chip, DetachChip(id, chip1)
  PROVE  RowsInv'
<1>. DEFINE cell == <<id, chip1>>
            some == entries[id].tags \ {chip1}
<1>1. Shown(id) /\ chip1 \in entries[id].tags
  BY DEF DetachChip
<1>2. /\ cell \in Cell /\ cell # Null /\ cell[1] = id /\ cell[2] = chip1
      /\ OnPage(cell) /\ entries[id] \in Row /\ id \in usedIds
  BY <1>1, ShownCell
<1>3. chip1 \notin Axis /\ chip1 # "row"
  BY Fields
<1>4. PICK bit \in BOOLEAN : ~bit
  OBVIOUS
<1>16. bit \in BOOLEAN
  OBVIOUS
<1>5. PICK w : w = Asked("detach", Null, cell, bit, Null)
  OBVIOUS
<1>6. /\ SendRow("detach", Null, cell, bit, Null)
      /\ entries' = Update(id, [entries[id] EXCEPT !.tags = some])
      /\ Untouched /\ UNCHANGED <<busy, adding, offers>>
  BY <1>4 DEF DetachChip, RemoveTag, NoRefresh, serverVars, Untouched
<1>7. /\ w \in WriteRecord /\ w.op = "detach" /\ w.cell = cell /\ w.value = bit
      /\ w.reply = "none" /\ nRowWrites + 1 \in Nat
  <2>. HIDE DEF cell, some
  <2>1. w.op = "detach" /\ w.cell = cell /\ w.value = bit /\ w.reply = "none"
    BY <1>5 DEF Asked
  <2>2. cell \in Cell \union {Null} /\ Null \in Artist \union {Null}
    BY <1>2
  <2>3. w \in WriteRecord /\ nRowWrites + 1 \in Nat
    BY <1>5, <1>16, <2>2, AskedFields
  <2>. QED
    BY <2>1, <2>3
<1>15. ~w.value
  BY <1>4, <1>7
<1>8. /\ rowWrites' = rowWrites \union {w} /\ nRowWrites' = nRowWrites + 1
      /\ doubt' = doubt \union ({cell} \intersect InFlight)
  BY <1>5, <1>6, SendRowIs
<1>9. WellFormed(w)
  BY <1>2, <1>4, <1>7 DEF WellFormed
<1>13. some \in SUBSET Chip /\ some \ {chip1} = entries[id].tags \ {chip1} /\ chip1 \notin some
  BY <1>2, RowFields
<1>. HIDE DEF some
<1>14. /\ entries' \in Listing \union {Null}
       /\ entries' # Null => entries # Null /\ DOMAIN entries' \subseteq DOMAIN entries
       /\ \A d : OnPage(d)' <=> OnPage(d)
       /\ \A d \in Cell : d # cell /\ d[2] # "row" /\ OnPage(d) => Seen(d)' = Seen(d)
       /\ Seen(cell)' = (chip1 \in some)
  BY <1>2, <1>6, <1>13, RetaggedCells, ZenonT(60)
<1>10. \A d \in Cell : d # cell => Unmoved(d)
  BY <1>6, <1>14, UnmovedOnPage DEF Untouched
<1>11. ASSUME cell \notin doubt \union InFlight PROVE Awaited(w)'
  <2>1. Agrees(cell) /\ Seen(cell)
    BY <1>1, <1>2, <1>3, <1>11, AgreesNow DEF Seen
  <2>2. Kept(cell)' => InTable(cell)'
    BY <1>2, <1>3, <1>6, <2>1, StillTable DEF Agrees, Untouched
  <2>. HIDE DEF cell
  <2>. QED
    BY <1>7, <1>13, <1>14, <2>2 DEF Awaited
<1>12. /\ busy' \subseteq RowId \X Axis /\ adding' \subseteq Artist /\ offers' \subseteq OnTable
  BY <1>6 DEF RowsInv, RowTypes
<1>. HIDE DEF cell
<1>. QED
  BY <1>2, <1>6, <1>7, <1>8, <1>9, <1>10, <1>11, <1>12, <1>14, WriteSent DEF Untouched

LEMMA AttachStep ==
  ASSUME RowsInv, NEW id \in RowId, NEW chip1 \in Chip, AttachChip(id, chip1)
  PROVE  RowsInv'
<1>. DEFINE cell == <<id, chip1>>
<1>1. Shown(id)
  BY DEF AttachChip
<1>2. /\ cell \in Cell /\ cell # Null /\ cell[1] = id /\ cell[2] = chip1 /\ id \in usedIds
  BY <1>1, ShownCell
<1>3. chip1 \notin Axis /\ chip1 # "row"
  BY Fields
<1>4. PICK bit \in BOOLEAN : bit
  OBVIOUS
<1>16. bit \in BOOLEAN
  OBVIOUS
<1>5. PICK w : w = Asked("attach", Null, cell, bit, Null)
  OBVIOUS
<1>6. /\ SendRow("attach", Null, cell, bit, Null)
      /\ Untouched /\ UNCHANGED <<entries, busy, adding, offers>>
  BY <1>4 DEF AttachChip, NoRefresh, serverVars, Untouched
<1>7. /\ w \in WriteRecord /\ w.op = "attach" /\ w.cell = cell /\ w.value = bit
      /\ w.reply = "none" /\ nRowWrites + 1 \in Nat
  <2>. HIDE DEF cell
  <2>. QED
    BY <1>2, <1>16, <1>5, AskedFields
<1>15. w.value
  BY <1>4, <1>7
<1>8. /\ rowWrites' = rowWrites \union {w} /\ nRowWrites' = nRowWrites + 1
      /\ doubt' = doubt \union ({cell} \intersect InFlight)
  BY <1>5, <1>6, SendRowIs
<1>9. WellFormed(w)
  BY <1>2, <1>4, <1>7 DEF WellFormed
<1>10. \A d \in Cell : d # cell => Unmoved(d)
  BY <1>6, Still DEF Untouched
<1>11. ASSUME cell \notin doubt \union InFlight PROVE Awaited(w)'
  <2>1. Agrees(cell)
    BY <1>2, <1>11, AgreesNow
  <2>2. Kept(cell)' /\ OnPage(cell)' => Seen(cell)' = InTable(cell)'
    BY <1>2, <1>3, <1>6, <2>1, StillTable, StillPage DEF Agrees, Untouched
  <2>. HIDE DEF cell
  <2>. QED
    BY <1>7, <2>2 DEF Awaited
<1>12. /\ busy' \subseteq RowId \X Axis /\ adding' \subseteq Artist /\ offers' \subseteq OnTable
       /\ entries' \in Listing \union {Null}
  BY <1>6 DEF RowsInv, RowTypes
<1>. HIDE DEF cell
<1>. QED
  BY <1>2, <1>6, <1>7, <1>8, <1>9, <1>10, <1>11, <1>12, WriteSent DEF Untouched

LEMMA RemoveStep ==
  ASSUME RowsInv, NEW id \in RowId, RemoveRow(id)
  PROVE  RowsInv'
<1>. DEFINE cell == <<id, "row">>
<1>1. Shown(id)
  BY DEF RemoveRow
<1>2. /\ cell \in Cell /\ cell # Null /\ cell[1] = id /\ cell[2] = "row"
      /\ entries[id] \in Row /\ id \in usedIds /\ entries # Null
  BY <1>1, ShownCell
<1>3. PICK who, axes : who = entries[id].artist /\ axes = entries[id].axes
  OBVIOUS
<1>4. who \in Artist /\ axes \in [Axis -> BOOLEAN]
  BY <1>2, <1>3, RowFields
<1>5. PICK w : w = Asked("remove", who, cell, axes, Null)
  OBVIOUS
<1>6. /\ SendRow("remove", who, cell, axes, Null)
      /\ entries' = Without(entries, id) /\ busy' \subseteq busy
      /\ Untouched /\ UNCHANGED <<adding, offers>>
  BY <1>3 DEF RemoveRow, NoRefresh, serverVars, Untouched
<1>7. /\ w \in WriteRecord /\ w.op = "remove" /\ w.artist = who /\ w.cell = cell /\ w.value = axes
      /\ w.reply = "none" /\ nRowWrites + 1 \in Nat
  <2>. HIDE DEF cell
  <2>. QED
    BY <1>2, <1>4, <1>5, AskedFields
<1>8. /\ rowWrites' = rowWrites \union {w} /\ nRowWrites' = nRowWrites + 1
      /\ doubt' = doubt \union ({cell} \intersect InFlight)
  BY <1>5, <1>6, SendRowIs
<1>9. WellFormed(w)
  BY <1>2, <1>4, <1>7 DEF WellFormed
<1>13. /\ DOMAIN entries' = DOMAIN entries \ {id}
       /\ \A j \in DOMAIN entries' : entries'[j] = entries[j]
       /\ entries' \in [DOMAIN entries' -> Row]
  <2>1. entries \in [DOMAIN entries -> Row]
    BY <1>2, Listings DEF RowsInv, RowTypes
  <2>2. entries' = [j \in DOMAIN entries \ {id} |-> entries[j]]
    BY <1>6 DEF Without, Restrict
  <2>. QED
    BY <2>1, <2>2
<1>14. entries' \in Listing /\ entries' # Null
  <2>1. DOMAIN entries' \subseteq RowId
    BY <1>2, <1>13, Listings DEF RowsInv, RowTypes
  <2>. QED
    BY <1>13, <2>1, Listings, RowNulls
<1>10. ASSUME NEW d \in Cell, d # cell PROVE Unmoved(d)
  <2>1. (Kept(d)' <=> Kept(d)) /\ InTable(d)' = InTable(d)
    BY <1>6, StillTable DEF Untouched
  <2>2. OnPage(d)' => OnPage(d) /\ Seen(d)' = Seen(d)
    BY <1>2, <1>13, <1>14 DEF OnPage, Seen
  <2>3. d[2] = "row" => (OnPage(d)' <=> OnPage(d))
    <3>1. d[2] = "row" => d[1] # id
      BY <1>10, Fields
    <3>. QED
      BY <1>2, <1>13, <1>14, <3>1 DEF OnPage
  <2>. QED
    BY <2>1, <2>2, <2>3 DEF Unmoved
<1>11. Awaited(w)'
  <2>1. ~OnPage(cell)'
    BY <1>2, <1>13 DEF OnPage
  <2>. HIDE DEF cell
  <2>. QED
    BY <1>7, <2>1 DEF Awaited
<1>12. /\ busy' \subseteq RowId \X Axis /\ adding' \subseteq Artist /\ offers' \subseteq OnTable
  BY <1>6 DEF RowsInv, RowTypes
<1>. HIDE DEF cell
<1>. QED
  BY <1>2, <1>6, <1>7, <1>8, <1>9, <1>10, <1>11, <1>12, <1>13, <1>14, WriteSent DEF Untouched

LEMMA AddStep ==
  ASSUME RowsInv, NEW who \in Artist, AddArtist(who)
  PROVE  RowsInv'
<1>4. Defaults \in [Axis -> BOOLEAN]
  BY DEF Defaults
<1>5. PICK w : w = Asked("add", who, Null, Defaults, Null)
  OBVIOUS
<1>6. /\ SendRow("add", who, Null, Defaults, Null) /\ adding' = adding \union {who}
      /\ Untouched /\ UNCHANGED <<entries, busy, offers>>
  BY DEF AddArtist, NoRefresh, serverVars, Untouched
<1>7. /\ w \in WriteRecord /\ w.op = "add" /\ w.artist = who /\ w.cell = Null /\ w.value = Defaults
      /\ w.reply = "none" /\ nRowWrites + 1 \in Nat
  BY <1>4, <1>5, AskedFields
<1>8. /\ rowWrites' = rowWrites \union {w} /\ nRowWrites' = nRowWrites + 1
      /\ doubt' = doubt \union ({Null} \intersect InFlight)
  BY <1>5, <1>6, SendRowIs
<1>9. WellFormed(w)
  BY <1>4, <1>7 DEF WellFormed
<1>10. \A d \in Cell : Unmoved(d)
  BY <1>6, Still DEF Untouched
<1>12. /\ busy' \subseteq RowId \X Axis /\ adding' \subseteq Artist /\ offers' \subseteq OnTable
       /\ entries' \in Listing \union {Null}
  BY <1>6 DEF RowsInv, RowTypes
<1>. QED
  BY <1>6, <1>7, <1>8, <1>9, <1>10, <1>12, WriteSent DEF Untouched

LEMMA UndoStep ==
  ASSUME RowsInv, NEW o \in offers, Undo(o)
  PROVE  RowsInv'
<1>3. PICK who, axes : who = o.artist /\ axes = [f \in Axis |-> f = "note" /\ o.axes[f]]
  OBVIOUS
<1>4. who \in Artist /\ axes \in [Axis -> BOOLEAN]
  <2>1. o \in OnTable
    BY DEF RowsInv, RowTypes
  <2>. QED
    BY <1>3, <2>1 DEF OnTable
<1>5. PICK w : w = Asked("undo", who, Null, axes, Null)
  OBVIOUS
<1>6. /\ SendRow("undo", who, Null, axes, Null) /\ offers' \subseteq offers
      /\ Untouched /\ UNCHANGED <<entries, busy, adding>>
  BY <1>3 DEF Undo, NoRefresh, serverVars, Untouched
<1>7. /\ w \in WriteRecord /\ w.op = "undo" /\ w.artist = who /\ w.cell = Null /\ w.value = axes
      /\ w.reply = "none" /\ nRowWrites + 1 \in Nat
  BY <1>4, <1>5, AskedFields
<1>8. /\ rowWrites' = rowWrites \union {w} /\ nRowWrites' = nRowWrites + 1
      /\ doubt' = doubt \union ({Null} \intersect InFlight)
  BY <1>5, <1>6, SendRowIs
<1>9. WellFormed(w)
  BY <1>4, <1>7 DEF WellFormed
<1>10. \A d \in Cell : Unmoved(d)
  BY <1>6, Still DEF Untouched
<1>12. /\ busy' \subseteq RowId \X Axis /\ adding' \subseteq Artist /\ offers' \subseteq OnTable
       /\ entries' \in Listing \union {Null}
  BY <1>6 DEF RowsInv, RowTypes
<1>. QED
  BY <1>6, <1>7, <1>8, <1>9, <1>10, <1>12, WriteSent DEF Untouched

LEMMA Replies ==
  ASSUME NEW w \in WriteRecord, NEW how \in {"done", "refused"}, NEW reply,
         reply = [w EXCEPT !.reply = how]
  PROVE  /\ reply \in WriteRecord /\ reply.reply = how
         /\ reply.op = w.op /\ reply.artist = w.artist /\ reply.cell = w.cell
         /\ reply.value = w.value /\ reply.previous = w.previous
  BY DEF WriteRecord

LEMMA RefusedStep ==
  ASSUME RowsInv, NEW w \in rowWrites, w.reply = "none",
         w.op \notin {"add", "undo"} => Target(w) \notin DOMAIN rows,
         RefusedRow(w)
  PROVE  RowsInv'
<1>1. PICK reply : reply = [w EXCEPT !.reply = "refused"]
  OBVIOUS
<1>2. /\ rowWrites' = (rowWrites \ {w}) \union {reply}
      /\ UNCHANGED <<rows, tagsOf, usedIds, entries, loadError, busy, adding, lists, nLists,
                     nRowWrites, offers, doubt>>
  BY <1>1 DEF RefusedRow, ServedRow, serverVars, historyVars
<1>3. WellFormed(w) /\ w \in WriteRecord
  BY WriteCells
<1>4. /\ reply \in WriteRecord /\ reply.reply = "refused"
      /\ reply.op = w.op /\ reply.artist = w.artist /\ reply.cell = w.cell
      /\ reply.value = w.value /\ reply.previous = w.previous
  BY <1>1, <1>3, Replies
<1>5. WellFormed(reply)
  BY <1>3, <1>4 DEF WellFormed
<1>6. \A d \in Cell : Unmoved(d)
  BY <1>2, Still
<1>7. ASSUME w.cell # Null, w.cell \notin doubt PROVE Awaited(reply)'
  <2>1. Awaited(w)'
    <3>1. Awaited(w)
      BY <1>7 DEF RowsInv, CellsAgree
    <3>. QED
      BY <1>6, <1>7, <3>1, AwaitedStays, WriteCells
  <2>. QED
    BY <1>4, <2>1 DEF Awaited
<1>8. reply.op \notin {"add", "undo"} => reply.cell[1] \notin DOMAIN rows'
  BY <1>2, <1>4 DEF Target
<1>9. rows' \in [DOMAIN rows' -> OnTable] /\ tagsOf' \in [Artist -> SUBSET Chip]
  BY <1>2 DEF RowsInv, RowTypes
<1>. QED
  BY <1>2, <1>4, <1>5, <1>6, <1>7, <1>8, <1>9, WriteServed

LEMMA TableRow ==
  ASSUME RowsInv, NEW id \in DOMAIN rows
  PROVE  /\ id \in RowId /\ rows[id] \in OnTable /\ rows[id].artist \in Artist
         /\ rows[id].axes \in [Axis -> BOOLEAN] /\ tagsOf[rows[id].artist] \in SUBSET Chip
         /\ Listed[id] \in Row
  BY DEF RowsInv, RowTypes, IdsAreUsed, OnTable, Row, Listed

LEMMA PatchedTable ==
  ASSUME RowsInv, NEW id \in DOMAIN rows, NEW f \in Axis, NEW bit \in BOOLEAN,
         rows' = [rows EXCEPT ![id].axes[f] = bit], tagsOf' = tagsOf
  PROVE  /\ rows' \in [DOMAIN rows' -> OnTable] /\ DOMAIN rows' = DOMAIN rows
         /\ \A j \in DOMAIN rows' : rows'[j].artist = rows[j].artist
         /\ \A d \in Cell : d # <<id, f>> /\ Kept(d) => InTable(d)' = InTable(d)
         /\ InTable(<<id, f>>)' = bit
<1>. DEFINE axes == [rows[id].axes EXCEPT ![f] = bit]
            row  == [rows[id] EXCEPT !.axes = axes]
<1>1. rows \in [DOMAIN rows -> OnTable] /\ rows[id] \in OnTable
      /\ rows[id].axes \in [Axis -> BOOLEAN]
  BY TableRow DEF RowsInv, RowTypes
<1>2. axes \in [Axis -> BOOLEAN] /\ axes[f] = bit
      /\ \A g \in Axis : g # f => axes[g] = rows[id].axes[g]
  BY <1>1
<1>3. rows' = [rows EXCEPT ![id] = row]
  OBVIOUS
<1>. HIDE DEF axes
<1>4. row \in OnTable /\ row.axes = axes /\ row.artist = rows[id].artist
  BY <1>1, <1>2 DEF OnTable
<1>. HIDE DEF row
<1>5. /\ rows' \in [DOMAIN rows' -> OnTable] /\ DOMAIN rows' = DOMAIN rows
      /\ \A j \in DOMAIN rows : rows'[j] = IF j = id THEN row ELSE rows[j]
  BY <1>1, <1>3, <1>4
<1>6. ASSUME NEW d \in Cell, d # <<id, f>>, Kept(d) PROVE InTable(d)' = InTable(d)
  <2>1. d[1] \in DOMAIN rows
    BY <1>6 DEF Kept
  <2>2. CASE d[1] # id
    BY <1>5, <2>1, <2>2 DEF InTable
  <2>3. CASE d[1] = id
    <3>1. d[2] # f
      BY <1>6, <2>3, Fields
    <3>. QED
      BY <1>2, <1>4, <1>5, <2>1, <2>3, <3>1 DEF InTable
  <2>. QED
    BY <2>2, <2>3
<1>7. InTable(<<id, f>>)' = bit
  BY <1>2, <1>4, <1>5 DEF InTable
<1>. QED
  BY <1>4, <1>5, <1>6, <1>7

LEMMA ServeAxisStep ==
  ASSUME RowsInv, NEW w \in rowWrites, ServeAxis(w)
  PROVE  RowsInv'
<1>1. WellFormed(w) /\ w \in WriteRecord
  BY WriteCells
<1>2. w.op \in {"toggle", "note"} /\ w.reply = "none"
  BY DEF ServeAxis
<1>3. CASE Target(w) \notin DOMAIN rows
  BY <1>2, <1>3, RefusedStep DEF ServeAxis
<1>4. CASE Target(w) \in DOMAIN rows
  <2>. DEFINE id  == w.cell[1]
              f   == w.cell[2]
              bit == w.value
  <2>1. id \in DOMAIN rows /\ f \in Axis /\ bit \in BOOLEAN /\ w.cell = <<id, f>>
    <3>1. w.cell \in RowId \X Axis /\ w.value \in BOOLEAN
      BY <1>1, <1>2 DEF WellFormed
    <3>. QED
      BY <1>4, <3>1 DEF Target
  <2>2. PICK row, reply : /\ row = [Listed[id] EXCEPT !.axes[f] = bit]
                          /\ reply = [w EXCEPT !.reply = "done", !.row = row]
    OBVIOUS
  <2>3. /\ rows' = [rows EXCEPT ![id].axes[f] = bit] /\ tagsOf' = tagsOf
        /\ rowWrites' = (rowWrites \ {w}) \union {reply}
        /\ UNCHANGED <<usedIds, entries, loadError, busy, adding, lists, nLists,
                       nRowWrites, offers, doubt>>
    BY <1>4, <2>2 DEF ServeAxis, ServedRow, historyVars, Target, RefusedRow
  <2>4. row \in Row /\ row.axes[f] = bit
    <3>1. Listed[id] \in Row
      BY <2>1, TableRow
    <3>. QED
      BY <2>1, <2>2, <3>1, RowFields
  <2>5. /\ reply \in WriteRecord /\ reply.reply = "done" /\ reply.row = row
        /\ reply.op = w.op /\ reply.artist = w.artist /\ reply.cell = w.cell
        /\ reply.value = w.value /\ reply.previous = w.previous
    BY <1>1, <2>2, <2>4 DEF WriteRecord
  <2>6. WellFormed(reply)
    BY <1>1, <1>2, <2>4, <2>5 DEF WellFormed
  <2>7. /\ rows' \in [DOMAIN rows' -> OnTable] /\ DOMAIN rows' = DOMAIN rows
        /\ \A j \in DOMAIN rows' : rows'[j].artist = rows[j].artist
        /\ \A d \in Cell : d # w.cell /\ Kept(d) => InTable(d)' = InTable(d)
        /\ InTable(w.cell)' = bit
    <3>. HIDE DEF id, f, bit
    <3>. QED
      BY <2>1, <2>3, PatchedTable, ZenonT(60)
  <2>8. \A d \in Cell : d # w.cell => Unmoved(d)
    BY <2>3, <2>7, UnmovedInTable DEF Kept
  <2>9. Awaited(reply)'
    BY <1>2, <2>5, <2>7 DEF Awaited
  <2>10. tagsOf' \in [Artist -> SUBSET Chip]
    BY <2>3 DEF RowsInv, RowTypes
  <2>11. reply.op \notin {"add", "undo"} /\ reply.op # "remove" /\ reply.reply # "refused"
    BY <1>2, <2>5
  <2>. QED
    BY <2>3, <2>5, <2>6, <2>7, <2>8, <2>9, <2>10, <2>11, WriteServed
<1>. QED
  BY <1>3, <1>4

LEMMA RetaggedTable ==
  ASSUME RowsInv, NEW id \in DOMAIN rows, NEW chip1 \in Chip, NEW some \in SUBSET Chip,
         some \ {chip1} = tagsOf[rows[id].artist] \ {chip1},
         tagsOf' = [tagsOf EXCEPT ![rows[id].artist] = some], rows' = rows
  PROVE  /\ tagsOf' \in [Artist -> SUBSET Chip]
         /\ \A d \in Cell : d # <<id, chip1>> /\ Kept(d) => InTable(d)' = InTable(d)
         /\ InTable(<<id, chip1>>)' = (chip1 \in some)
<1>1. tagsOf \in [Artist -> SUBSET Chip] /\ rows[id].artist \in Artist
  BY TableRow DEF RowsInv, RowTypes
<1>2. /\ tagsOf' \in [Artist -> SUBSET Chip]
      /\ \A who \in Artist :
           tagsOf'[who] = IF who = rows[id].artist THEN some ELSE tagsOf[who]
  BY <1>1
<1>3. ASSUME NEW d \in Cell, d # <<id, chip1>>, Kept(d) PROVE InTable(d)' = InTable(d)
  <2>1. d[1] \in DOMAIN rows /\ rows[d[1]].artist \in Artist
    BY <1>3, TableRow DEF Kept
  <2>2. CASE d[1] # id
    <3>1. rows[d[1]].artist # rows[id].artist
      BY <2>1, <2>2 DEF RowsInv, OneRowAnArtist
    <3>. QED
      BY <1>2, <2>1, <3>1 DEF InTable
  <2>3. CASE d[1] = id
    <3>1. d[2] # chip1
      BY <1>3, <2>3, Fields
    <3>2. d[2] \in some <=> d[2] \in tagsOf[rows[id].artist]
      BY <3>1
    <3>. QED
      BY <1>1, <1>2, <2>3, <3>2 DEF InTable
  <2>. QED
    BY <2>2, <2>3
<1>4. InTable(<<id, chip1>>)' = (chip1 \in some)
  BY <1>1, <1>2, Fields DEF InTable
<1>. QED
  BY <1>2, <1>3, <1>4

LEMMA ServeTagStep ==
  ASSUME RowsInv, NEW w \in rowWrites, ServeTag(w)
  PROVE  RowsInv'
<1>1. WellFormed(w) /\ w \in WriteRecord
  BY WriteCells
<1>2. w.op \in {"attach", "detach"} /\ w.reply = "none"
  BY DEF ServeTag
<1>3. CASE Target(w) \notin DOMAIN rows
  BY <1>2, <1>3, RefusedStep DEF ServeTag
<1>4. CASE Target(w) \in DOMAIN rows
  <2>. DEFINE id    == w.cell[1]
              chip1 == w.cell[2]
              had   == tagsOf[rows[id].artist]
              some  == IF w.value THEN had \union {chip1} ELSE had \ {chip1}
  <2>1. id \in DOMAIN rows /\ chip1 \in Chip /\ w.cell = <<id, chip1>> /\ w.value \in BOOLEAN
    <3>1. w.cell \in RowId \X Chip /\ w.value = (w.op = "attach")
      BY <1>1, <1>2 DEF WellFormed
    <3>2. chip1 \in Chip /\ w.cell = <<id, chip1>>
      BY <3>1
    <3>3. w.value \in BOOLEAN
      BY <3>1, Zenon
    <3>. QED
      BY <1>4, <3>2, <3>3 DEF Target
  <2>2. PICK reply : reply = [w EXCEPT !.reply = "done"]
    OBVIOUS
  <2>3. /\ tagsOf' = [tagsOf EXCEPT ![rows[id].artist] = some] /\ rows' = rows
        /\ rowWrites' = (rowWrites \ {w}) \union {reply}
        /\ UNCHANGED <<usedIds, entries, loadError, busy, adding, lists, nLists,
                       nRowWrites, offers, doubt>>
    BY <1>4, <2>2 DEF ServeTag, ServedRow, historyVars, Target, RefusedRow
  <2>4. /\ reply \in WriteRecord /\ reply.reply = "done"
        /\ reply.op = w.op /\ reply.artist = w.artist /\ reply.cell = w.cell
        /\ reply.value = w.value /\ reply.previous = w.previous
    BY <1>1, <2>2, Replies
  <2>5. WellFormed(reply)
    BY <1>1, <1>2, <2>4 DEF WellFormed
  <2>6. /\ some \in SUBSET Chip /\ some \ {chip1} = had \ {chip1}
        /\ chip1 \in some <=> w.value
    BY <2>1, TableRow
  <2>. HIDE DEF some
  <2>7. /\ tagsOf' \in [Artist -> SUBSET Chip]
        /\ \A d \in Cell : d # w.cell /\ Kept(d) => InTable(d)' = InTable(d)
        /\ InTable(w.cell)' = (chip1 \in some)
    <3>. HIDE DEF id, chip1
    <3>1. some \in SUBSET Chip /\ some \ {chip1} = tagsOf[rows[id].artist] \ {chip1}
      BY <2>6
    <3>3. tagsOf' = [tagsOf EXCEPT ![rows[id].artist] = some] /\ rows' = rows
      BY <2>3
    <3>4. id \in DOMAIN rows /\ chip1 \in Chip
      BY <2>1
    <3>. HIDE DEF had
    <3>2. /\ tagsOf' \in [Artist -> SUBSET Chip]
          /\ \A d \in Cell : d # <<id, chip1>> /\ Kept(d) => InTable(d)' = InTable(d)
          /\ InTable(<<id, chip1>>)' = (chip1 \in some)
      BY <3>1, <3>3, <3>4, RetaggedTable, ZenonT(60)
    <3>. QED
      BY <2>1, <3>2
  <2>8. \A d \in Cell : d # w.cell => Unmoved(d)
    BY <2>3, <2>7, UnmovedInTable DEF Kept
  <2>9. ASSUME w.cell # Null, w.cell \notin doubt PROVE Awaited(reply)'
    <3>1. InTable(w.cell)' = w.value
      BY <2>1, <2>6, <2>7
    <3>2. w.op = "detach" /\ OnPage(w.cell)' => ~Seen(w.cell)'
      <4>1. Awaited(w)
        BY <2>9 DEF RowsInv, CellsAgree
      <4>2. w.op = "detach" /\ OnPage(w.cell) => ~Seen(w.cell)
        BY <4>1 DEF Awaited
      <4>3. UNCHANGED entries
        BY <2>3
      <4>. QED
        BY <4>2, <4>3, StillPage
    <3>. QED
      BY <1>2, <2>4, <3>1, <3>2 DEF Awaited
  <2>10. rows' \in [DOMAIN rows' -> OnTable]
    BY <2>3 DEF RowsInv, RowTypes
  <2>11. reply.op \notin {"add", "undo"} /\ reply.op # "remove" /\ reply.reply # "refused"
    BY <1>2, <2>4
  <2>. QED
    BY <2>3, <2>4, <2>5, <2>7, <2>8, <2>9, <2>10, <2>11, WriteServed
<1>. QED
  BY <1>3, <1>4

LEMMA ServeRemoveStep ==
  ASSUME RowsInv, NEW w \in rowWrites, ServeRemove(w)
  PROVE  RowsInv'
<1>1. WellFormed(w) /\ w \in WriteRecord
  BY WriteCells
<1>2. w.op = "remove" /\ w.reply = "none"
  BY DEF ServeRemove
<1>3. CASE Target(w) \notin DOMAIN rows
  BY <1>2, <1>3, RefusedStep DEF ServeRemove
<1>4. CASE Target(w) \in DOMAIN rows
  <2>. DEFINE id == w.cell[1]
  <2>1. id \in DOMAIN rows /\ w.cell = <<id, "row">>
    BY <1>1, <1>2, <1>4 DEF WellFormed, Target
  <2>2. PICK reply : reply = [w EXCEPT !.reply = "done"]
    OBVIOUS
  <2>3. /\ rows' = Without(rows, id) /\ tagsOf' = tagsOf
        /\ rowWrites' = (rowWrites \ {w}) \union {reply}
        /\ UNCHANGED <<usedIds, entries, loadError, busy, adding, lists, nLists,
                       nRowWrites, offers, doubt>>
    BY <1>4, <2>2 DEF ServeRemove, ServedRow, historyVars, Target, RefusedRow
  <2>4. /\ reply \in WriteRecord /\ reply.reply = "done"
        /\ reply.op = w.op /\ reply.artist = w.artist /\ reply.cell = w.cell
        /\ reply.value = w.value /\ reply.previous = w.previous
    BY <1>1, <2>2, Replies
  <2>5. WellFormed(reply)
    BY <1>1, <1>2, <2>4 DEF WellFormed
  <2>6. /\ rows' \in [DOMAIN rows' -> OnTable] /\ DOMAIN rows' = DOMAIN rows \ {id}
        /\ \A j \in DOMAIN rows' : rows'[j] = rows[j]
    <3>1. rows' = [j \in DOMAIN rows \ {id} |-> rows[j]]
      BY <2>3 DEF Without, Restrict
    <3>2. rows \in [DOMAIN rows -> OnTable]
      BY DEF RowsInv, RowTypes
    <3>. QED
      BY <3>1, <3>2
  <2>7. ASSUME NEW d \in Cell, d # w.cell PROVE Unmoved(d)
    <3>1. d[2] = "row" => d[1] # id
      BY <2>1, <2>7, Fields
    <3>2. d[2] = "row" => (Kept(d)' <=> Kept(d))
      BY <2>6, <3>1 DEF Kept
    <3>3. Kept(d)' => Kept(d) /\ InTable(d)' = InTable(d)
      BY <2>3, <2>6 DEF Kept, InTable
    <3>. QED
      BY <2>3, <3>2, <3>3, UnmovedInTable
  <2>8. ASSUME w.cell # Null, w.cell \notin doubt PROVE Awaited(reply)'
    <3>1. Awaited(w)
      BY <2>8 DEF RowsInv, CellsAgree
    <3>2. ~OnPage(w.cell)'
      BY <1>2, <2>3, <3>1, StillPage DEF Awaited
    <3>. QED
      BY <1>2, <2>4, <3>2 DEF Awaited
  <2>9. tagsOf' \in [Artist -> SUBSET Chip]
    BY <2>3 DEF RowsInv, RowTypes
  <2>10. reply.cell[1] \notin DOMAIN rows'
    BY <2>4, <2>6
  <2>11. DOMAIN rows' \subseteq DOMAIN rows /\ \A j \in DOMAIN rows' : rows'[j].artist = rows[j].artist
    BY <2>6
  <2>. HIDE DEF id
  <2>. QED
    BY <2>3, <2>4, <2>5, <2>6, <2>7, <2>8, <2>9, <2>10, <2>11, WriteServed
<1>. QED
  BY <1>3, <1>4

LEMMA ServeAddStep ==
  ASSUME RowsInv, NEW w \in rowWrites, ServeAdd(w)
  PROVE  RowsInv'
<1>1. WellFormed(w) /\ w \in WriteRecord
  BY WriteCells
<1>2. w.op \in {"add", "undo"} /\ w.reply = "none"
  BY DEF ServeAdd
<1>3. CASE RefusedRow(w)
  BY <1>2, <1>3, RefusedStep
<1>4. CASE ~RefusedRow(w)
  <2>1. PICK id \in RowId \ usedIds :
          /\ rows' = With(rows, id, [artist |-> w.artist, axes |-> w.value])
          /\ usedIds' = usedIds \union {id}
          /\ ServedRow(w, [w EXCEPT !.reply = "done", !.cell = <<id, "row">>])
    BY <1>4 DEF ServeAdd
  <2>2. /\ \A j \in DOMAIN rows : rows[j].artist # w.artist
        /\ tagsOf' = tagsOf
    BY <1>4 DEF ServeAdd
  <2>3. PICK own, reply : own = <<id, "row">> /\ reply = [w EXCEPT !.reply = "done", !.cell = own]
    OBVIOUS
  <2>4. own \in Cell /\ own # Null /\ own \in RowId \X {"row"} /\ own[1] = id /\ own[2] = "row"
    BY <2>3, RowNulls DEF Cell
  <2>5. /\ rowWrites' = (rowWrites \ {w}) \union {reply}
        /\ UNCHANGED <<entries, loadError, busy, adding, lists, nLists, nRowWrites, offers, doubt>>
    BY <2>1, <2>3 DEF ServedRow, historyVars
  <2>6. /\ reply \in WriteRecord /\ reply.reply = "done" /\ reply.cell = own
        /\ reply.op = w.op /\ reply.artist = w.artist /\ reply.value = w.value
    BY <1>1, <2>3, <2>4 DEF WriteRecord
  <2>7. WellFormed(reply) /\ w.cell = Null /\ w.artist \in Artist /\ w.value \in [Axis -> BOOLEAN]
    BY <1>1, <1>2, <2>4, <2>6 DEF WellFormed
  <2>8. /\ rows' \in [DOMAIN rows' -> OnTable] /\ DOMAIN rows' = DOMAIN rows \union {id}
        /\ rows'[id].artist = w.artist /\ \A j \in DOMAIN rows : rows'[j] = rows[j]
    <3>1. PICK row : row = [artist |-> w.artist, axes |-> w.value]
      OBVIOUS
    <3>2. row \in OnTable /\ row.artist = w.artist
      BY <2>7, <3>1 DEF OnTable
    <3>3. rows' = [j \in DOMAIN rows \union {id} |-> IF j = id THEN row ELSE rows[j]]
      BY <2>1, <3>1 DEF With
    <3>4. rows \in [DOMAIN rows -> OnTable] /\ id \notin DOMAIN rows
      BY DEF RowsInv, RowTypes, IdsAreUsed
    <3>. QED
      BY <3>2, <3>3, <3>4
  <2>9. RowTypes /\ IdsAreUsed /\ OneRowAnArtist /\ Gone /\ DisabledIsAwaited
    BY DEF RowsInv
  <2>10. ASSUME NEW v \in rowWrites PROVE v.cell # own
    BY <2>4, <2>9 DEF IdsAreUsed
  <2>11. RowTypes'
    <3>1. \A v \in rowWrites' : WellFormed(v)
      BY <2>5, <2>7, <2>9 DEF RowTypes
    <3>2. \A v : WellFormed(v)' <=> WellFormed(v)
      BY DEF WellFormed
    <3>. QED
      BY <2>2, <2>5, <2>8, <2>9, <3>1, <3>2 DEF RowTypes
  <2>12. IdsAreUsed'
    BY <2>1, <2>4, <2>5, <2>6, <2>8, <2>9 DEF IdsAreUsed
  <2>13. OneRowAnArtist'
    BY <2>2, <2>8, <2>9 DEF OneRowAnArtist
  <2>14. Gone'
    <3>1. SUFFICES ASSUME NEW v \in rowWrites',
                          \/ v.op \notin {"add", "undo"} /\ v.reply = "refused"
                          \/ v.op = "remove" /\ v.reply = "done"
                   PROVE  v.cell[1] \notin DOMAIN rows'
      BY DEF Gone
    <3>2. v \in rowWrites /\ v.op \notin {"add", "undo"}
      BY <1>2, <2>5, <2>6, <3>1
    <3>3. v.cell[1] \in usedIds
      BY <3>2, WriteCells
    <3>4. v.cell[1] \notin DOMAIN rows
      BY <2>9, <3>1, <3>2 DEF Gone
    <3>. QED
      BY <2>8, <3>3, <3>4
  <2>15. DisabledIsAwaited'
    <3>1. busy' \subseteq InFlight'
      <4>1. Null \notin busy
        BY <2>9, RowNulls DEF RowTypes, Cell
      <4>2. InFlight \ {Null} \subseteq InFlight'
        BY <2>5, <2>7 DEF InFlight
      <4>. QED
        BY <2>5, <2>9, <4>1, <4>2 DEF DisabledIsAwaited
    <3>2. ASSUME NEW who \in adding' PROVE AddAwaits(who)'
      <4>1. AddAwaits(who)
        BY <2>5, <2>9, <3>2 DEF DisabledIsAwaited, AddAwaits
      <4>2. CASE \E l \in lists : l.awaits = who
        BY <2>5, <4>2 DEF AddAwaits
      <4>3. ASSUME NEW v \in rowWrites, v.op = "add", v.artist = who PROVE AddAwaits(who)'
        <5>1. CASE v = w
          BY <2>5, <2>6, <4>3, <5>1 DEF AddAwaits
        <5>2. CASE v # w
          BY <2>5, <4>3, <5>2 DEF AddAwaits
        <5>. QED
          BY <5>1, <5>2
      <4>. QED
        BY <4>1, <4>2, <4>3 DEF AddAwaits
    <3>. QED
      BY <3>1, <3>2 DEF DisabledIsAwaited, AddAwaits
  <2>16. CellsAgree'
    <3>1. ASSUME NEW d \in Cell, d # own
          PROVE  Unmoved(d) \/ (d[1] \notin usedIds /\ ~OnPage(d)' /\ d[2] # "row")
      <4>1. CASE d[1] = id
        <5>1. d[2] # "row"
          BY <2>3, <3>1, <4>1, Fields
        <5>2. ~OnPage(d)'
          BY <2>5, <2>9, <4>1 DEF OnPage, IdsAreUsed
        <5>. QED
          BY <4>1, <5>1, <5>2
      <4>2. CASE d[1] # id
        <5>1. (Kept(d)' <=> Kept(d)) /\ (Kept(d) => InTable(d)' = InTable(d))
          BY <2>2, <2>8, <4>2 DEF Kept, InTable
        <5>. QED
          BY <2>5, <5>1, UnmovedInTable
      <4>. QED
        BY <4>1, <4>2
    <3>2. own \in InFlight' /\ InFlight \ {own, Null} \subseteq InFlight'
      BY <2>5, <2>6, <2>7 DEF InFlight
    <3>3. \A v \in rowWrites' : v.cell # own => v \in rowWrites
      BY <2>5, <2>6
    <3>4. ASSUME NEW v \in rowWrites', v.cell = own PROVE v = reply
      BY <2>5, <2>10, <3>4
    <3>5. \A v, u \in rowWrites' : v # u /\ v.cell = own /\ u.cell = own /\ own # Null => own \in doubt'
      BY <3>4
    <3>6. \A v \in rowWrites' : v.cell = own /\ own \notin doubt' => Awaited(v)'
      <4>1. Awaited(reply)'
        BY <1>2, <2>6 DEF Awaited
      <4>. QED
        BY <3>4, <4>1
    <3>7. /\ doubt \subseteq doubt' /\ own \in Cell \union {Null}
          /\ entries' # Null /\ ~loadError' /\ lists' = {} => entries # Null /\ ~loadError /\ lists = {}
          /\ own \in Cell /\ own \notin doubt' \union InFlight' => Agrees(own)'
      BY <2>4, <2>5, <3>2
    <3>. QED
      BY <3>1, <3>2, <3>3, <3>5, <3>6, <3>7, CellsKept
  <2>. QED
    BY <2>11, <2>12, <2>13, <2>14, <2>15, <2>16 DEF RowsInv
<1>. QED
  BY <1>3, <1>4

LEMMA GotAnswerIs ==
  ASSUME NEW w \in rowWrites, GotAnswer(w)
  PROVE  /\ rowWrites' = rowWrites \ {w} /\ nRowWrites' = nRowWrites
         /\ UNCHANGED <<rows, tagsOf, usedIds>>
  BY DEF GotAnswer, serverVars

\* An answer to, or a failure of, a write to an axis or to a tag of a row.
LEMMA ControlAnswered ==
  ASSUME RowsInv, NEW w \in rowWrites, GotAnswer(w), NoRefresh,
         w.op \in {"toggle", "note", "attach", "detach"},
         entries' \in Listing \union {Null},
         entries' # Null => entries # Null /\ DOMAIN entries' \subseteq DOMAIN entries,
         \A d : OnPage(d)' <=> OnPage(d),
         \A d \in Cell : d # w.cell /\ d[2] # "row" /\ OnPage(d) => Seen(d)' = Seen(d),
         busy' \subseteq busy, w.op \in {"toggle", "note"} => w.cell \notin busy',
         adding' = adding, offers' = offers, doubt \subseteq doubt',
         w.reply = "done" => w.cell \in doubt' \/ doubt' = doubt,
         w.cell \notin doubt' /\ Kept(w.cell) /\ OnPage(w.cell) /\ Awaited(w)
           /\ w.reply # "refused" => Seen(w.cell)' = InTable(w.cell)
  PROVE  RowsInv'
<1>1. /\ rowWrites' = rowWrites \ {w} /\ nRowWrites' = nRowWrites
      /\ UNCHANGED <<rows, tagsOf, usedIds>>
  BY GotAnswerIs
<1>2. w.cell \in Cell /\ w.cell[2] # "row"
  BY WriteCells
<1>3. \A d \in Cell : d # w.cell => Unmoved(d)
  BY <1>1, UnmovedOnPage
<1>4. ASSUME w.cell \notin doubt' PROVE Agrees(w.cell)'
  <2>1. SUFFICES ASSUME Kept(w.cell)', OnPage(w.cell)' PROVE Seen(w.cell)' = InTable(w.cell)'
    BY <1>2 DEF Agrees
  <2>2. Kept(w.cell) /\ OnPage(w.cell) /\ InTable(w.cell)' = InTable(w.cell)
    BY <1>1, <2>1, StillTable
  <2>3. w.reply # "refused"
    BY <2>2 DEF RowsInv, Gone, Kept
  <2>4. Awaited(w)
    BY <1>4 DEF RowsInv, CellsAgree
  <2>. QED
    BY <1>4, <2>2, <2>3, <2>4
<1>5. adding' \subseteq adding /\ offers' \subseteq OnTable /\ w.op # "add"
  BY DEF RowsInv, RowTypes
<1>. QED
  BY <1>1, <1>2, <1>3, <1>4, <1>5, WriteAnswered

LEMMA PageAsItWas ==
  ASSUME RowsInv, entries' = entries
  PROVE  /\ entries' \in Listing \union {Null}
         /\ entries' # Null => entries # Null /\ DOMAIN entries' \subseteq DOMAIN entries
         /\ \A d : OnPage(d)' <=> OnPage(d)
         /\ \A d : Seen(d)' = Seen(d)
  BY StillPage DEF RowsInv, RowTypes

LEMMA AxisAnsweredStep ==
  ASSUME RowsInv, NEW w \in rowWrites, AxisAnswered(w)
  PROVE  RowsInv'
<1>1. /\ w.op \in {"toggle", "note"} /\ w.reply = "done" /\ GotAnswer(w) /\ NoRefresh
      /\ entries' = Patch(w.cell[1], w.cell[2], w.row) /\ busy' = busy \ {w.cell}
      /\ adding' = adding /\ offers' = offers /\ doubt' = doubt
  BY DEF AxisAnswered, historyVars, Target
<1>2. WellFormed(w)
  BY WriteCells
<1>3. PICK id \in RowId, f \in Axis : w.cell = <<id, f>>
  BY <1>1, <1>2 DEF WellFormed
<1>4. PICK bit : bit = w.row.axes[f]
  OBVIOUS
<1>5. bit \in BOOLEAN /\ bit = w.value
  <2>1. w.value \in BOOLEAN /\ w.row.axes[f] = w.value
    BY <1>1, <1>2, <1>3 DEF WellFormed
  <2>. QED
    BY <1>4, <2>1
<1>6. entries' = Update(id, [entries[id] EXCEPT !.axes[f] = bit])
  BY <1>1, <1>3, <1>4 DEF Patch
<1>7. /\ entries' \in Listing \union {Null}
      /\ entries' # Null => entries # Null /\ DOMAIN entries' \subseteq DOMAIN entries
      /\ \A d : OnPage(d)' <=> OnPage(d)
      /\ \A d \in Cell : d # w.cell /\ d[2] # "row" /\ OnPage(d) => Seen(d)' = Seen(d)
      /\ OnPage(w.cell) => Seen(w.cell)' = bit
  BY <1>3, <1>5, <1>6, PatchedCells
<1>8. ASSUME Kept(w.cell), OnPage(w.cell), Awaited(w) PROVE Seen(w.cell)' = InTable(w.cell)
  <2>1. InTable(w.cell) = w.value
    BY <1>1, <1>8 DEF Awaited
  <2>. QED
    BY <1>5, <1>7, <1>8, <2>1
<1>. QED
  BY <1>1, <1>7, <1>8, ControlAnswered

LEMMA AxisFailedStep ==
  ASSUME RowsInv, NEW w \in rowWrites, AxisFailed(w)
  PROVE  RowsInv'
<1>1. /\ w.op \in {"toggle", "note"} /\ GotAnswer(w) /\ NoRefresh
      /\ busy' = busy \ {w.cell} /\ adding' = adding /\ offers' = offers
      /\ doubt' = doubt \union Misinformed(w)
  BY DEF AxisFailed
<1>2. WellFormed(w) /\ w \in WriteRecord
  BY WriteCells
<1>3. PICK id \in RowId, f \in Axis : w.cell = <<id, f>>
  BY <1>1, <1>2 DEF WellFormed
<1>4. w.reply = "done" => w.cell \in doubt'
  BY <1>1 DEF Misinformed
<1>5. w.cell \notin doubt' /\ w.reply # "refused" => w.reply = "none"
  BY <1>2, <1>4 DEF WriteRecord
<1>6. CASE w.op = "note"
  <2>1. entries' = entries
    BY <1>6 DEF AxisFailed
  <2>2. ASSUME w.cell \notin doubt', Kept(w.cell), OnPage(w.cell), Awaited(w), w.reply # "refused"
        PROVE  Seen(w.cell)' = InTable(w.cell)
    <3>1. Seen(w.cell) = InTable(w.cell)
      BY <1>5, <1>6, <2>2 DEF Awaited
    <3>. QED
      BY <2>1, <3>1, PageAsItWas
  <2>. QED
    BY <1>1, <1>4, <2>1, <2>2, PageAsItWas, ControlAnswered
<1>7. CASE w.op = "toggle"
  <2>1. entries' = Patch(id, f, w.previous)
    BY <1>3, <1>7 DEF AxisFailed, Target
  <2>2. PICK bit : bit = w.previous.axes[f]
    OBVIOUS
  <2>3. bit \in BOOLEAN
    <3>1. w.previous \in Row
      BY <1>2, <1>7 DEF WellFormed
    <3>. QED
      BY <2>2, <3>1, RowFields
  <2>4. entries' = Update(id, [entries[id] EXCEPT !.axes[f] = bit])
    BY <2>1, <2>2 DEF Patch
  <2>5. /\ entries' \in Listing \union {Null}
        /\ entries' # Null => entries # Null /\ DOMAIN entries' \subseteq DOMAIN entries
        /\ \A d : OnPage(d)' <=> OnPage(d)
        /\ \A d \in Cell : d # w.cell /\ d[2] # "row" /\ OnPage(d) => Seen(d)' = Seen(d)
        /\ OnPage(w.cell) => Seen(w.cell)' = bit
    BY <1>3, <2>3, <2>4, PatchedCells
  <2>6. ASSUME w.cell \notin doubt', Kept(w.cell), OnPage(w.cell), Awaited(w), w.reply # "refused"
        PROVE  Seen(w.cell)' = InTable(w.cell)
    <3>1. InTable(w.cell) = w.previous.axes[w.cell[2]]
      BY <1>5, <1>7, <2>6 DEF Awaited
    <3>. QED
      BY <1>3, <2>2, <2>5, <2>6, <3>1
  <2>. QED
    BY <1>1, <1>4, <2>5, <2>6, ControlAnswered
<1>. QED
  BY <1>1, <1>6, <1>7

\* A tag that is put on a row of the page.
LEMMA AddedTag ==
  ASSUME RowsInv, NEW id \in RowId, NEW chip1 \in Chip, entries' = AddTag(id, chip1)
  PROVE  /\ entries' \in Listing \union {Null}
         /\ entries' # Null => entries # Null /\ DOMAIN entries' \subseteq DOMAIN entries
         /\ \A d : OnPage(d)' <=> OnPage(d)
         /\ \A d \in Cell : d # <<id, chip1>> /\ d[2] # "row" /\ OnPage(d) => Seen(d)' = Seen(d)
         /\ OnPage(<<id, chip1>>) => Seen(<<id, chip1>>)'
<1>1. PICK some : some = entries[id].tags \union {chip1}
  OBVIOUS
<1>2. entries' = Update(id, [entries[id] EXCEPT !.tags = some])
  BY <1>1 DEF AddTag
<1>3. OnPage(<<id, "row">>) => some \in SUBSET Chip /\ some \ {chip1} = entries[id].tags \ {chip1}
  BY <1>1, ShownRow, RowFields DEF OnPage
<1>4. chip1 \in some
  BY <1>1
<1>5. /\ entries' \in Listing \union {Null}
      /\ entries' # Null => entries # Null /\ DOMAIN entries' \subseteq DOMAIN entries
      /\ \A d : OnPage(d)' <=> OnPage(d)
      /\ \A d \in Cell : d # <<id, chip1>> /\ d[2] # "row" /\ OnPage(d) => Seen(d)' = Seen(d)
      /\ OnPage(<<id, chip1>>) => Seen(<<id, chip1>>)' = (chip1 \in some)
  BY <1>2, <1>3, RetaggedCells
<1>6. OnPage(<<id, chip1>>) => Seen(<<id, chip1>>)'
  BY <1>4, <1>5
<1>. QED
  BY <1>5, <1>6

\* Whether a row has a tag is yes or no.
LEMMA TagIsABit ==
  ASSUME NEW id, NEW chip1 \in Chip
  PROVE  InTable(<<id, chip1>>) \in BOOLEAN /\ Seen(<<id, chip1>>) \in BOOLEAN
         /\ Seen(<<id, chip1>>)' \in BOOLEAN
<1>. DEFINE d == <<id, chip1>>
<1>1. d[2] \notin Axis
  BY Fields
<1>. HIDE DEF d
<1>3. InTable(d) \in BOOLEAN
  <2>1. InTable(d) = (d[2] \in tagsOf[rows[d[1]].artist])
    BY <1>1 DEF InTable
  <2>2. (d[2] \in tagsOf[rows[d[1]].artist]) \in BOOLEAN
    OBVIOUS
  <2>. QED
    BY <2>1, <2>2, Zenon
<1>4. Seen(d) \in BOOLEAN
  <2>1. Seen(d) = (d[2] \in entries[d[1]].tags)
    BY <1>1 DEF Seen
  <2>2. (d[2] \in entries[d[1]].tags) \in BOOLEAN
    OBVIOUS
  <2>. QED
    BY <2>1, <2>2, Zenon
<1>5. Seen(d)' \in BOOLEAN
  <2>1. Seen(d)' = (d[2] \in entries'[d[1]].tags)
    BY <1>1 DEF Seen, d
  <2>2. (d[2] \in entries'[d[1]].tags) \in BOOLEAN
    OBVIOUS
  <2>. QED
    BY <2>1, <2>2, Zenon
<1>. QED
  BY <1>3, <1>4, <1>5 DEF d

LEMMA TagAnsweredStep ==
  ASSUME RowsInv, NEW w \in rowWrites,
         \/ AttachAnsweredRow(w) \/ AttachFailedRow(w)
         \/ DetachAnsweredRow(w) \/ DetachFailedRow(w)
  PROVE  RowsInv'
<1>. USE DEF Target
<1>1. /\ w.op \in {"attach", "detach"} /\ GotAnswer(w) /\ NoRefresh
      /\ busy' = busy /\ adding' = adding /\ offers' = offers
      /\ doubt' = doubt \/ doubt' = doubt \union Misinformed(w)
  BY DEF AttachAnsweredRow, AttachFailedRow, DetachAnsweredRow, DetachFailedRow, historyVars
<1>2. WellFormed(w) /\ w \in WriteRecord
  BY WriteCells
<1>3. PICK id \in RowId, chip1 \in Chip : w.cell = <<id, chip1>>
  BY <1>1, <1>2 DEF WellFormed
<1>4. doubt \subseteq doubt' /\ (w.reply = "done" => w.cell \in doubt' \/ doubt' = doubt)
  BY <1>1 DEF Misinformed
<1>5. w.value = (w.op = "attach")
  BY <1>1, <1>2 DEF WellFormed
<1>6. CASE entries' = AddTag(id, chip1) /\ (AttachAnsweredRow(w) \/ DetachFailedRow(w))
  <2>1. /\ entries' \in Listing \union {Null}
        /\ entries' # Null => entries # Null /\ DOMAIN entries' \subseteq DOMAIN entries
        /\ \A d : OnPage(d)' <=> OnPage(d)
        /\ \A d \in Cell : d # w.cell /\ d[2] # "row" /\ OnPage(d) => Seen(d)' = Seen(d)
        /\ OnPage(w.cell) => Seen(w.cell)'
    BY <1>3, <1>6, AddedTag
  <2>2. ASSUME w.cell \notin doubt', Kept(w.cell), OnPage(w.cell), Awaited(w), w.reply # "refused"
        PROVE  Seen(w.cell)' = InTable(w.cell)
    <3>1. InTable(w.cell)
      <4>1. CASE AttachAnsweredRow(w)
        <5>1. w.op = "attach" /\ w.reply = "done"
          BY <4>1 DEF AttachAnsweredRow
        <5>. QED
          BY <1>5, <2>2, <5>1 DEF Awaited
      <4>2. CASE DetachFailedRow(w)
        <5>1. w.op = "detach" /\ (w.reply = "done" => w.cell \in doubt')
          BY <4>2 DEF DetachFailedRow, Misinformed
        <5>2. w.reply = "none"
          BY <1>2, <2>2, <5>1 DEF WriteRecord
        <5>. QED
          BY <2>2, <5>1, <5>2 DEF Awaited
      <4>. QED
        BY <1>6, <4>1, <4>2
    <3>2. InTable(w.cell) \in BOOLEAN /\ Seen(w.cell)' \in BOOLEAN
      BY <1>3, TagIsABit
    <3>. QED
      BY <2>1, <2>2, <3>1, <3>2
  <2>. QED
    BY <1>1, <1>4, <2>1, <2>2, ControlAnswered
<1>7. CASE entries' = entries /\ (AttachFailedRow(w) \/ DetachAnsweredRow(w))
  <2>2. ASSUME w.cell \notin doubt', Kept(w.cell), OnPage(w.cell), Awaited(w), w.reply # "refused"
        PROVE  Seen(w.cell)' = InTable(w.cell)
    <3>1. Seen(w.cell) = InTable(w.cell)
      <4>1. CASE AttachFailedRow(w)
        <5>1. w.op = "attach" /\ (w.reply = "done" => w.cell \in doubt')
          BY <4>1 DEF AttachFailedRow, Misinformed
        <5>2. w.reply = "none"
          BY <1>2, <2>2, <5>1 DEF WriteRecord
        <5>. QED
          BY <2>2, <5>1, <5>2 DEF Awaited
      <4>2. CASE DetachAnsweredRow(w)
        <5>1. w.op = "detach" /\ w.reply = "done"
          BY <4>2 DEF DetachAnsweredRow
        <5>2. ~InTable(w.cell) /\ ~Seen(w.cell)
          BY <1>5, <2>2, <5>1 DEF Awaited
        <5>3. InTable(w.cell) \in BOOLEAN /\ Seen(w.cell) \in BOOLEAN
          BY <1>3, TagIsABit
        <5>. QED
          BY <5>2, <5>3
      <4>. QED
        BY <1>7, <4>1, <4>2
    <3>. QED
      BY <1>7, <3>1, PageAsItWas
  <2>. QED
    BY <1>1, <1>4, <1>7, <2>2, PageAsItWas, ControlAnswered
<1>. QED
  BY <1>3, <1>6, <1>7 DEF AttachAnsweredRow, AttachFailedRow, DetachAnsweredRow, DetachFailedRow

LEMMA RefreshIsNoStandstill ==
  ASSUME RowsInv, NEW who, RefreshFor(who)
  PROVE  ~NoRefresh
  BY DEF RowsInv, RowTypes, RefreshFor, NoRefresh

LEMMA RemoveAnsweredStep ==
  ASSUME RowsInv, NEW w \in rowWrites, RemoveAnswered(w) \/ RemoveFailed(w)
  PROVE  RowsInv'
<1>1. /\ w.op = "remove" /\ GotAnswer(w) /\ entries' = entries
      /\ busy' = busy /\ adding' = adding /\ doubt' = doubt
  BY DEF RemoveAnswered, RemoveFailed, historyVars
<1>2. WellFormed(w) /\ w.cell \in Cell /\ w.cell[2] = "row"
  BY <1>1, WriteCells
<1>3. /\ rowWrites' = rowWrites \ {w} /\ nRowWrites' = nRowWrites
      /\ UNCHANGED <<rows, tagsOf, usedIds>>
  BY <1>1, GotAnswerIs
<1>4. offers' \subseteq OnTable
  <2>1. [artist |-> w.artist, axes |-> w.value] \in OnTable
    BY <1>1, <1>2 DEF WellFormed, OnTable
  <2>. QED
    BY <2>1 DEF RemoveAnswered, RemoveFailed, RowsInv, RowTypes
<1>5. \A d \in Cell : Unmoved(d)
  BY <1>1, <1>3, Still
<1>6. ASSUME NoRefresh, w.cell \notin doubt' PROVE Agrees(w.cell)'
  <2>1. w.reply = "done"
    BY <1>6, RefreshIsNoStandstill DEF RemoveAnswered, RemoveFailed, Refresh
  <2>2. ~Kept(w.cell)
    BY <1>1, <2>1 DEF RowsInv, Gone, Kept
  <2>3. Awaited(w)
    BY <1>1, <1>6 DEF RowsInv, CellsAgree
  <2>4. ~OnPage(w.cell)
    BY <1>1, <2>3 DEF Awaited
  <2>. QED
    BY <1>1, <1>2, <1>3, <2>2, <2>4, StillTable, StillPage DEF Agrees
<1>7. NoRefresh \/ RefreshFor(Null)
  BY DEF RemoveAnswered, RemoveFailed, Refresh
<1>8. busy' \subseteq busy /\ adding' \subseteq adding /\ doubt \subseteq doubt'
  BY <1>1
<1>. QED
  BY <1>1, <1>2, <1>3, <1>4, <1>5, <1>6, <1>7, <1>8, PageAsItWas, WriteAnswered

LEMMA AddAnsweredStep ==
  ASSUME RowsInv, NEW w \in rowWrites, AddAnswered(w) \/ AddFailed(w)
  PROVE  RowsInv'
<1>1. /\ w.op \in {"add", "undo"} /\ GotAnswer(w) /\ entries' = entries
      /\ busy' = busy /\ offers' = offers /\ doubt \subseteq doubt'
      /\ adding' \in {adding, adding \ {w.artist}}
  BY DEF AddAnswered, AddFailed
<1>2. WellFormed(w)
  BY WriteCells
<1>3. /\ rowWrites' = rowWrites \ {w} /\ nRowWrites' = nRowWrites
      /\ UNCHANGED <<rows, tagsOf, usedIds>>
  BY <1>1, GotAnswerIs
<1>4. offers' \subseteq OnTable
  BY <1>1 DEF RowsInv, RowTypes
<1>5. \A d \in Cell : Unmoved(d)
  BY <1>1, <1>3, Still
<1>6. ASSUME NoRefresh, w.cell \in Cell PROVE w.cell \in doubt'
  <2>1. AddFailed(w)
    BY <1>6, RefreshIsNoStandstill DEF AddAnswered, AddFailed, Refresh
  <2>2. w.reply = "done"
    BY <1>1, <1>2, <1>6, RowNulls DEF WellFormed
  <2>. QED
    BY <2>1, <2>2 DEF AddFailed, Misinformed
<1>7. \/ NoRefresh /\ (w.op = "add" => w.artist \notin adding')
      \/ \E who \in Artist \union {Null} :
           RefreshFor(who) /\ (w.op = "add" /\ w.artist \in adding' => who = w.artist)
  <2>1. w.artist \in Artist
    BY <1>1, <1>2 DEF WellFormed
  <2>2. CASE AddFailed(w)
    BY <2>2 DEF AddFailed
  <2>3. CASE AddAnswered(w) /\ RefreshFor(w.artist)
    BY <2>1, <2>3
  <2>4. CASE AddAnswered(w) /\ ~RefreshFor(w.artist)
    <3>1. RefreshFor(Null) /\ (w.op = "add" => adding' = adding \ {w.artist})
      BY <2>4 DEF AddAnswered, Refresh
    <3>. QED
      BY <3>1
  <2>. QED
    BY <2>2, <2>3, <2>4
<1>8. w.cell \in Cell => w.cell[2] = "row"
  BY <1>1, <1>2, RowNulls DEF WellFormed
<1>9. busy' \subseteq busy /\ adding' \subseteq adding
  BY <1>1
<1>. QED
  BY <1>1, <1>3, <1>4, <1>5, <1>6, <1>7, <1>8, <1>9, PageAsItWas, WriteAnswered

\* A list that is asked for, served or fails leaves the cells as they are.
LEMMA ListedLater ==
  ASSUME RowsInv, UNCHANGED <<rows, tagsOf, usedIds, entries, rowWrites, nRowWrites,
                              offers, doubt>>,
         adding' \subseteq adding,
         \A l \in lists : l.awaits \in adding' => \E m \in lists' : m.awaits = l.awaits,
         busy' \subseteq busy, loadError' \in BOOLEAN, nLists' \in Nat,
         lists' \subseteq ListRecord,
         \A l \in lists' : l.answer # Null => DOMAIN l.answer \subseteq usedIds,
         ~loadError' /\ lists' = {} => ~loadError /\ lists = {}
  PROVE  RowsInv'
<1>1. RowTypes /\ IdsAreUsed /\ OneRowAnArtist /\ Gone /\ DisabledIsAwaited
  BY DEF RowsInv
<1>2. RowTypes'
  <2>1. \A v : WellFormed(v)' <=> WellFormed(v)
    BY DEF WellFormed
  <2>. QED
    BY <1>1, <2>1 DEF RowTypes
<1>3. IdsAreUsed'
  BY <1>1 DEF IdsAreUsed
<1>4. OneRowAnArtist' /\ Gone'
  BY <1>1 DEF OneRowAnArtist, Gone
<1>5. DisabledIsAwaited'
  <2>1. busy' \subseteq InFlight'
    BY <1>1 DEF DisabledIsAwaited, InFlight
  <2>2. ASSUME NEW who \in adding' PROVE AddAwaits(who)'
    <3>1. AddAwaits(who)
      BY <1>1, <2>2 DEF DisabledIsAwaited, AddAwaits
    <3>. QED
      BY <2>2, <3>1 DEF AddAwaits
  <2>. QED
    BY <2>1, <2>2 DEF DisabledIsAwaited, AddAwaits
<1>6. CellsAgree'
  <2>1. \A d \in Cell : Unmoved(d)
    BY Still
  <2>2. InFlight' = InFlight
    BY DEF InFlight
  <2>3. PICK own : own = Null
    OBVIOUS
  <2>4. \A w \in rowWrites' : w.cell = own => Awaited(w)'
    BY <2>3, AddsAwaitNothing
  <2>5. own \in Cell \union {Null} /\ own \notin Cell /\ doubt \subseteq doubt'
    BY <2>3, RowNulls
  <2>. QED
    BY <2>1, <2>2, <2>3, <2>4, <2>5, CellsKept
<1>. QED
  BY <1>2, <1>3, <1>4, <1>5, <1>6 DEF RowsInv

LEMMA RetryStep ==
  ASSUME RowsInv, Retry
  PROVE  RowsInv'
<1>1. /\ loadError' = FALSE /\ nLists' = nLists + 1
      /\ lists' = lists \union {[n |-> nLists + 1, awaits |-> Null, answer |-> Null]}
      /\ UNCHANGED <<rows, tagsOf, usedIds, entries, busy, adding, rowWrites, nRowWrites,
                     offers, doubt>>
  BY DEF Retry, Refresh, RefreshFor, serverVars, historyVars
<1>2. nLists \in Nat /\ lists \subseteq ListRecord
  BY DEF RowsInv, RowTypes
<1>3. PICK ask : ask = [n |-> nLists + 1, awaits |-> Null, answer |-> Null]
  OBVIOUS
<1>4. ask \in ListRecord /\ ask.answer = Null
  BY <1>2, <1>3 DEF ListRecord
<1>5. lists' = lists \union {ask}
  BY <1>1, <1>3
<1>6. lists' \subseteq ListRecord /\ lists' # {}
  BY <1>2, <1>4, <1>5
<1>7. \A l \in lists' : l.answer # Null => DOMAIN l.answer \subseteq usedIds
  BY <1>4, <1>5 DEF RowsInv, IdsAreUsed
<1>8. /\ adding' \subseteq adding /\ busy' \subseteq busy /\ loadError' \in BOOLEAN
      /\ \A l \in lists : \E m \in lists' : m.awaits = l.awaits
  BY <1>1
<1>9. nLists' \in Nat
  BY <1>1, <1>2
<1>. QED
  BY <1>1, <1>6, <1>7, <1>8, <1>9, ListedLater

LEMMA ServeListStep ==
  ASSUME RowsInv, NEW l \in lists, ServeList(l)
  PROVE  RowsInv'
<1>1. PICK told, shown : told = [l EXCEPT !.answer = shown] /\ shown = Listed
  OBVIOUS
<1>2. /\ lists' = (lists \ {l}) \union {told}
      /\ UNCHANGED <<rows, tagsOf, usedIds, entries, loadError, busy, adding, nLists,
                     rowWrites, nRowWrites, offers, doubt>>
  BY <1>1 DEF ServeList, serverVars, historyVars
<1>3. shown \in Listing /\ DOMAIN shown \subseteq usedIds
  <2>1. shown \in [DOMAIN rows -> Row] /\ DOMAIN shown = DOMAIN rows
    <3>1. \A id \in DOMAIN rows : Listed[id] \in Row
      BY TableRow
    <3>. QED
      BY <1>1, <3>1 DEF Listed
  <2>2. DOMAIN rows \subseteq usedIds /\ usedIds \subseteq RowId
    BY DEF RowsInv, IdsAreUsed
  <2>. QED
    BY <2>1, <2>2, Listings
<1>4. told \in ListRecord /\ told.answer = shown /\ told.awaits = l.awaits
  BY <1>1, <1>3 DEF RowsInv, RowTypes, ListRecord
<1>5. lists' \subseteq ListRecord /\ lists' # {}
  BY <1>2, <1>4 DEF RowsInv, RowTypes
<1>6. \A m \in lists' : m.answer # Null => DOMAIN m.answer \subseteq usedIds
  BY <1>2, <1>3, <1>4 DEF RowsInv, IdsAreUsed
<1>7. loadError' \in BOOLEAN /\ nLists' \in Nat /\ busy' \subseteq busy
  BY <1>2 DEF RowsInv, RowTypes
<1>8. \A k \in lists : \E m \in lists' : m.awaits = k.awaits
  BY <1>2, <1>4
<1>. QED
  BY <1>2, <1>5, <1>6, <1>7, <1>8, ListedLater

LEMMA ListFailedStep ==
  ASSUME RowsInv, NEW l \in lists, ListFailed(l)
  PROVE  RowsInv'
<1>1. /\ lists' = lists \ {l} /\ loadError' = TRUE /\ busy' = {}
      /\ adding' = adding \ {l.awaits}
      /\ UNCHANGED <<rows, tagsOf, usedIds, entries, nLists, rowWrites, nRowWrites,
                     offers, doubt>>
  BY DEF ListFailed, serverVars, historyVars
<1>2. nLists' \in Nat /\ lists' \subseteq ListRecord
  BY <1>1 DEF RowsInv, RowTypes
<1>3. \A m \in lists' : m.answer # Null => DOMAIN m.answer \subseteq usedIds
  BY <1>1 DEF RowsInv, IdsAreUsed
<1>4. busy' \subseteq busy /\ loadError' \in BOOLEAN /\ loadError' /\ adding' \subseteq adding
  BY <1>1
<1>5. \A k \in lists : k.awaits \in adding' => \E m \in lists' : m.awaits = k.awaits
  BY <1>1
<1>. QED
  BY <1>1, <1>2, <1>3, <1>4, <1>5, ListedLater

\* A list that is answered starts the doubts anew.
LEMMA ListAnsweredStep ==
  ASSUME RowsInv, NEW l \in lists, ListAnswered(l)
  PROVE  RowsInv'
<1>1. RowTypes /\ IdsAreUsed /\ OneRowAnArtist /\ Gone /\ DisabledIsAwaited
  BY DEF RowsInv
<1>2. /\ l.answer # Null /\ lists' = lists \ {l} /\ entries' = l.answer
      /\ busy' \subseteq busy
      /\ doubt' = InFlight \union {d \in Cell : ~AgreeOn(d, l.answer)}
      /\ adding' = adding \ {l.awaits}
      /\ UNCHANGED <<rows, tagsOf, usedIds, loadError, nLists, rowWrites, nRowWrites, offers>>
  BY DEF ListAnswered, serverVars
<1>3. entries' \in Listing /\ DOMAIN entries' \subseteq usedIds /\ entries' # Null
  BY <1>1, <1>2 DEF RowTypes, ListRecord, IdsAreUsed
<1>4. RowTypes'
  <2>1. \A v : WellFormed(v)' <=> WellFormed(v)
    BY DEF WellFormed
  <2>. QED
    BY <1>1, <1>2, <1>3, <2>1 DEF RowTypes
<1>5. IdsAreUsed'
  BY <1>1, <1>2, <1>3 DEF IdsAreUsed
<1>6. OneRowAnArtist' /\ Gone'
  BY <1>1, <1>2 DEF OneRowAnArtist, Gone
<1>7. DisabledIsAwaited'
  <2>1. busy' \subseteq InFlight'
    BY <1>1, <1>2 DEF DisabledIsAwaited, InFlight
  <2>2. ASSUME NEW who \in adding' PROVE AddAwaits(who)'
    <3>1. AddAwaits(who) /\ who # l.awaits
      BY <1>1, <1>2, <2>2 DEF DisabledIsAwaited, AddAwaits
    <3>. QED
      BY <1>2, <3>1 DEF AddAwaits
  <2>. QED
    BY <2>1, <2>2 DEF DisabledIsAwaited, AddAwaits
<1>8. CellsAgree'
  <2>1. \A w \in rowWrites' : w.cell \in doubt'
    BY <1>2 DEF InFlight
  <2>2. ASSUME NEW d \in Cell, d \notin doubt' PROVE Agrees(d)'
    <3>1. AgreeOn(d, entries')
      BY <1>2, <2>2
    <3>2. DOMAIN Listed = DOMAIN rows
      BY DEF Listed
    <3>3. CASE d[2] = "row"
      BY <1>2, <1>3, <3>1, <3>2, <3>3 DEF AgreeOn, Agrees, OnPage, Kept
    <3>4. CASE d[2] # "row"
      <4>1. SUFFICES ASSUME Kept(d)', OnPage(d)' PROVE Seen(d)' = InTable(d)'
        BY <3>4 DEF Agrees
      <4>2. d[1] \in DOMAIN entries' /\ d[1] \in DOMAIN rows
        BY <1>2, <4>1 DEF Kept, OnPage
      <4>3. Listed[d[1]].axes = rows[d[1]].axes /\ Listed[d[1]].tags = tagsOf[rows[d[1]].artist]
        BY <4>2 DEF Listed
      <4>4. CASE d[2] \in Axis
        BY <1>2, <3>1, <3>2, <3>4, <4>2, <4>3, <4>4 DEF AgreeOn, Seen, InTable
      <4>5. CASE d[2] \notin Axis
        <5>1. d[2] \in entries'[d[1]].tags <=> d[2] \in tagsOf[rows[d[1]].artist]
          BY <3>1, <3>2, <3>4, <4>2, <4>3, <4>5 DEF AgreeOn
        <5>. QED
          BY <1>2, <4>5, <5>1 DEF Seen, InTable
      <4>. QED
        BY <4>4, <4>5
    <3>. QED
      BY <3>3, <3>4
  <2>. QED
    BY <2>1, <2>2 DEF CellsAgree, OverlapsAreKnown
<1>. QED
  BY <1>4, <1>5, <1>6, <1>7, <1>8 DEF RowsInv

LEMMA RowsStep == RowsInv /\ [RowsNext]_rowsVars => RowsInv'
<1>. SUFFICES ASSUME RowsInv, [RowsNext]_rowsVars PROVE RowsInv'
  OBVIOUS
<1>1. CASE RowsUser
  <2>1. ASSUME NEW id \in RowId,
               \/ SaveNote(id) \/ RemoveRow(id)
               \/ \E f \in Axis : Toggle(id, f)
               \/ \E chip1 \in Chip : AttachChip(id, chip1) \/ DetachChip(id, chip1)
        PROVE  RowsInv'
    BY <2>1, SaveNoteStep, RemoveStep, ToggleStep, AttachStep, DetachStep
  <2>. QED
    BY <1>1, <2>1, RetryStep, AddStep, UndoStep DEF RowsUser
<1>2. ASSUME NEW l \in lists, ListStep(l) PROVE RowsInv'
  BY <1>2, ServeListStep, ListAnsweredStep, ListFailedStep DEF ListStep
<1>3. ASSUME NEW w \in rowWrites, RowServed(w) PROVE RowsInv'
  BY <1>3, ServeAxisStep, ServeTagStep, ServeRemoveStep, ServeAddStep DEF RowServed
<1>4. ASSUME NEW w \in rowWrites, RowAnswered(w) PROVE RowsInv'
  BY <1>4, AxisAnsweredStep, AxisFailedStep, TagAnsweredStep, RemoveAnsweredStep,
     AddAnsweredStep DEF RowAnswered
<1>5. CASE UNCHANGED rowsVars
  <2>1. UNCHANGED <<rows, tagsOf, usedIds, entries, loadError, busy, adding, lists, nLists,
                    rowWrites, nRowWrites, offers, doubt>>
    BY <1>5 DEF rowsVars
  <2>2. /\ loadError' \in BOOLEAN /\ nLists' \in Nat /\ busy' \subseteq busy
        /\ lists' \subseteq ListRecord
        /\ \A l \in lists' : l.answer # Null => DOMAIN l.answer \subseteq usedIds
    BY <2>1 DEF RowsInv, RowTypes, IdsAreUsed
  <2>. QED
    BY <2>1, <2>2, ListedLater
<1>. QED
  BY <1>1, <1>2, <1>3, <1>4, <1>5 DEF RowsNext

LEMMA RowsIsInvariant == WebSpec => []RowsInv
<1>1. WebInit => RowsInv
  BY RowsInitInv DEF WebInit
<1>2. RowsInv /\ [WebNext]_webVars => RowsInv'
  BY PartsOfWeb, RowsStep
<1>. QED
  BY <1>1, <1>2, PTL DEF WebSpec

(* The rows on screen agree with the watchlist table, cell by cell, once no  *)
(* list is awaited: whatever writes to other cells of the row were answered, *)
(* rolled back or refused in between, and in whatever order they were served *)
(* (handleEntryChange and handleTagsChange of routes/watchlist.tsx).         *)
THEOREM RowsAreShown == WebSpec => []RowsAreCurrent
<1>1. RowsInv => RowsAreCurrent
  <2>. SUFFICES ASSUME RowsInv, entries # Null, ~loadError, lists = {},
                       NEW d \in Cell \ (doubt \union InFlight)
                PROVE  AgreeOn(d, entries)
    BY DEF RowsAreCurrent
  <2>1. Agrees(d) /\ DOMAIN Listed = DOMAIN rows
    BY AgreesNow DEF Listed
  <2>2. CASE d[2] = "row"
    BY <2>1, <2>2 DEF AgreeOn, Agrees, OnPage, Kept
  <2>3. CASE d[2] # "row"
    <3>. SUFFICES ASSUME d[1] \in DOMAIN entries, d[1] \in DOMAIN rows
                  PROVE  IF d[2] \in Axis THEN entries[d[1]].axes[d[2]] = Listed[d[1]].axes[d[2]]
                         ELSE d[2] \in entries[d[1]].tags <=> d[2] \in Listed[d[1]].tags
      BY <2>1, <2>3 DEF AgreeOn
    <3>1. Seen(d) = InTable(d)
      BY <2>1, <2>3 DEF Agrees, Kept, OnPage
    <3>2. Listed[d[1]].axes = rows[d[1]].axes /\ Listed[d[1]].tags = tagsOf[rows[d[1]].artist]
      BY DEF Listed
    <3>3. CASE d[2] \in Axis
      BY <3>1, <3>2, <3>3 DEF Seen, InTable
    <3>4. CASE d[2] \notin Axis
      BY <3>1, <3>2, <3>4 DEF Seen, InTable
    <3>. QED
      BY <3>3, <3>4
  <2>. QED
    BY <2>2, <2>3
<1>. QED
  BY <1>1, RowsIsInvariant, PTL

(* No control waits for an answer that cannot come: a disabled one has its   *)
(* own write under way, an Add button its own request or, after a 409, the   *)
(* list read that its handler awaits, and the bulk lock its own bulk request *)
(* (the finally of PreferenceToggles.tsx, ArtistNote.tsx and                 *)
(* SearchResultsColumns.tsx, watchlist.tsx:416, runBulk of                   *)
(* useBulkSelection.ts).                                                     *)
THEOREM ControlsWait == WebSpec => []ControlsAreAwaited
<1>1. RowsInv => DisabledIsAwaited
  BY DEF RowsInv
<1>2. BulkInv => OneBulkAtATime
  BY DEF BulkInv
<1>3. RowsInv /\ BulkInv => ControlsAreAwaited
  BY <1>1, <1>2 DEF ControlsAreAwaited
<1>. QED
  BY <1>3, RowsIsInvariant, BulkIsInvariant, PTL

-----------------------------------------------------------------------------
(* Every variable keeps its type, and every bound is kept.                   *)

LEMMA BulkTypesHold == WebSpec => []BulkTypeOK
<1>1. BulkInv => BulkTypeOK
  BY DEF BulkInv, BulkTypes, BarRecord, BulkTypeOK
<1>. QED
  BY <1>1, BulkIsInvariant, PTL

LEMMA FiltersTypesHold == WebSpec => []FiltersTypeOK
<1>1. FiltersInv => FiltersTypeOK
  <2>. SUFFICES ASSUME FiltersInv PROVE FiltersTypeOK
    OBVIOUS
  <2>1. retired \in PartialFcns(TagId, TagId \union {Null})
    <3>1. DOMAIN retired \in SUBSET TagId /\ retired \in [DOMAIN retired -> TagId \union {Null}]
      BY DEF FiltersInv, FilterTypes
    <3>. QED
      BY <3>1 DEF PartialFcns
  <2>2. /\ \A i \in DOMAIN visited : visited[i] \in [url : Url, loc : Nat]
        /\ pos \in DOMAIN visited /\ DOMAIN visited \subseteq 1..MaxEntries
        /\ nav \in Navigation \union {Null}
    BY DEF FiltersInv, FilterTypes
  <2>3. /\ {typed.query, typed.written, typed.pending} \subseteq Query \union {Null}
        /\ {typed.timer, loaded, overtaken} \subseteq BOOLEAN
        /\ UNION {stickyCards.ids, touched} \subseteq Card /\ known \subseteq TagId
    BY DEF FiltersInv, FilterTypes, TypedRecord, StickyRecord
  <2>. QED
    BY <2>1, <2>2, <2>3 DEF FiltersTypeOK
<1>2. WebInit => FiltersInv
  BY FiltersInitInv DEF WebInit
<1>3. FiltersInv /\ [WebNext]_webVars => FiltersInv'
  BY PartsOfWeb, FiltersStep
<1>. QED
  BY <1>1, <1>2, <1>3, PTL DEF WebSpec

\* The bound on writes, and the histories.
RowBounds ==
  nRowWrites \in 0..MaxRowWrites /\ added \subseteq RowId /\ doubt \subseteq Cell \union {Null}

LEMMA RowBoundsStep == RowsInv /\ RowBounds /\ [RowsNext]_rowsVars => RowBounds'
<1>. SUFFICES ASSUME RowsInv, RowBounds, [RowsNext]_rowsVars PROVE RowBounds'
  OBVIOUS
<1>0. /\ \A w \in rowWrites : w.cell \in Cell \union {Null}
      /\ \A d \in Cell : d[1] \in RowId
  <2>1. \A w \in rowWrites : w \in WriteRecord
    BY DEF RowsInv, RowTypes, WellFormed
  <2>. QED
    BY <2>1, Fields DEF WriteRecord
<1>1. InFlight \subseteq Cell \union {Null}
  BY <1>0 DEF InFlight
<1>2. ASSUME UNCHANGED nRowWrites, UNCHANGED added, doubt' \subseteq Cell \union {Null}
      PROVE  RowBounds'
  BY <1>2 DEF RowBounds
<1>3. ASSUME NEW op, NEW artist, NEW cell, NEW value, NEW previous,
             SendRow(op, artist, cell, value, previous), added' \subseteq added
      PROVE  RowBounds'
  BY <1>1, <1>3, RowsAssumption DEF SendRow, CanWriteRow, RowBounds
<1>4. CASE Retry \/ UNCHANGED rowsVars
  BY <1>2, <1>4 DEF Retry, RowBounds, historyVars, rowsVars
<1>5. ASSUME NEW id \in RowId, SaveNote(id) \/ RemoveRow(id) PROVE RowBounds'
  BY <1>3, <1>5 DEF SaveNote, RemoveRow
<1>6. ASSUME NEW id \in RowId, NEW f, Toggle(id, f) \/ AttachChip(id, f) \/ DetachChip(id, f)
      PROVE  RowBounds'
  BY <1>3, <1>6 DEF Toggle, AttachChip, DetachChip
<1>7. ASSUME NEW z, AddArtist(z) \/ Undo(z) PROVE RowBounds'
  BY <1>3, <1>7 DEF AddArtist, Undo
<1>8. ASSUME NEW l \in lists, ListStep(l) PROVE RowBounds'
  <2>1. UNCHANGED <<nRowWrites, added>>
    BY <1>8 DEF ListStep, ServeList, ListAnswered, ListFailed, historyVars
  <2>2. doubt' = doubt \/ doubt' = InFlight \union {d \in Cell : ~AgreeOn(d, l.answer)}
    BY <1>8 DEF ListStep, ServeList, ListAnswered, ListFailed, historyVars
  <2>. QED
    BY <1>1, <1>2, <2>1, <2>2 DEF RowBounds
<1>9. ASSUME NEW w \in rowWrites, RowServed(w) PROVE RowBounds'
  BY <1>2, <1>9
     DEF RowServed, ServeAxis, ServeTag, ServeRemove, ServeAdd, RefusedRow, ServedRow,
                    RowBounds, historyVars
<1>10. ASSUME NEW w \in rowWrites, RowAnswered(w) PROVE RowBounds'
  <2>1. nRowWrites' = nRowWrites
    BY <1>10 DEF RowAnswered, GotAnswer, AxisAnswered, AxisFailed, AttachAnsweredRow,
                 AttachFailedRow, DetachAnsweredRow, DetachFailedRow, RemoveAnswered,
                 RemoveFailed, AddAnswered, AddFailed
  <2>2. doubt' = doubt \/ doubt' = doubt \union Misinformed(w)
    BY <1>10 DEF RowAnswered, AxisAnswered, AxisFailed, AttachAnsweredRow, historyVars,
                 AttachFailedRow, DetachAnsweredRow, DetachFailedRow, RemoveAnswered,
                 RemoveFailed, AddAnswered, AddFailed
  <2>3. added' = added \/ added' = added \union {d[1] : d \in {w.cell} \ {Null}}
    BY <1>10 DEF RowAnswered, AxisAnswered, AxisFailed, AttachAnsweredRow, historyVars,
                 AttachFailedRow, DetachAnsweredRow, DetachFailedRow, RemoveAnswered,
                 RemoveFailed, AddAnswered, AddFailed
  <2>. QED
    BY <1>0, <2>1, <2>2, <2>3 DEF Misinformed, RowBounds
<1>. QED
  BY <1>4, <1>5, <1>6, <1>7, <1>8, <1>9, <1>10 DEF RowsNext, RowsUser

LEMMA RowsTypesHold == WebSpec => []RowsTypeOK
<1>1. WebInit => RowBounds
  BY RowsAssumption DEF WebInit, RowsInit, RowBounds
<1>2. RowsInv /\ RowBounds /\ [WebNext]_webVars => RowBounds'
  BY PartsOfWeb, RowBoundsStep
<1>3. RowsInv /\ RowBounds => RowsTypeOK
  <2>. SUFFICES ASSUME RowsInv, RowBounds PROVE RowsTypeOK
    OBVIOUS
  <2>1. /\ rows \in [DOMAIN rows -> OnTable] /\ tagsOf \in [Artist -> SUBSET Chip]
        /\ loadError \in BOOLEAN /\ adding \subseteq Artist /\ nLists \in Nat
        /\ DOMAIN rows \subseteq usedIds /\ usedIds \subseteq RowId
    BY DEF RowsInv, RowTypes, IdsAreUsed
  <2>2. busy \subseteq Cell
    BY DEF RowsInv, RowTypes, Cell
  <2>3. entries # Null => DOMAIN entries \subseteq RowId /\ entries \in [DOMAIN entries -> Row]
    BY Listings DEF RowsInv, RowTypes
  <2>4. Range(rows) \subseteq [artist : Artist, axes : [Axis -> BOOLEAN]]
    BY <2>1 DEF Range, OnTable
  <2>5. entries # Null => Range(entries) \subseteq Row
    BY <2>3 DEF Range
  <2>. QED
    BY <2>1, <2>2, <2>3, <2>4, <2>5 DEF RowsTypeOK, RowBounds
<1>. QED
  BY <1>1, <1>2, <1>3, RowsIsInvariant, PTL DEF WebSpec
=============================================================================
