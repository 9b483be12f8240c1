------------------------------ MODULE Notifier ------------------------------
(***************************************************************************)
(* internal/notifier over the events outbox and the notification_settings  *)
(* row: the real-time pass that ends each poll cycle (NotifyPending), the  *)
(* digest run the 5-minute due-check starts (SendDigestIfDue), the         *)
(* operator's PUT, detection inserting rows, Discord losing or hiding its  *)
(* answer, the database failing, SIGTERM and crashes.                      *)
(*                                                                         *)
(* One step of a pass is one call to Postgres or Discord.  The Go locals   *)
(* of a pass are batch (rows still to handle), out (rows of the message    *)
(* Discord accepted and the database does not know about yet) and, for the *)
(* digest, the record dig.                                                 *)
(***************************************************************************)
EXTENDS DigestSchedule

CONSTANTS
  Pollers,    \* poll cycles: each runs NotifyPending at its end
  Digester,   \* the digest scheduler's loop
  Events,     \* rows detection may insert, named by their id
  Stale,      \* those of them that suppresses() refuses to announce
  MaxChunks,  \* maxDigestChunks: messages one digest run may send
  MaxFaults   \* bound: failures of Discord, Postgres or the process

ASSUME NotifierAssumption ==
  /\ Digester \notin Pollers
  /\ Events \subseteq Nat
  /\ Stale \subseteq Events
  /\ MaxChunks \in Nat \ {0}
  /\ MaxFaults \in Nat

Procs == Pollers \cup {Digester}

VARIABLES
  row,        \* events: absent, pending (notified_at NULL), acked, or
              \* seeded (inserted with notified_at already set)
  cfg,        \* notification_settings
  now,        \* wall clock
  cancelled,  \* the signal context is done: SIGTERM was received
  notifying,  \* Notifier.notifying, the one sender lock
  pc,         \* where each process is in its pass
  batch, out, \* see above
  dig,        \* locals of a digest run
  copies,     \* observed: Discord messages that show the event
  excuse,     \* observed: documented reasons to announce it again
  leaked,     \* observed: real-time messages since digest mode went on
  faults      \* failures so far, bounded by MaxFaults

outbox    == <<row, cfg>>
passVars  == <<notifying, pc, batch, out, dig>>
observed  == <<copies, excuse, leaked>>
worldVars == <<now, cancelled, faults>>
vars      == <<outbox, passVars, observed, worldVars>>

\* The locals of a digest run: what ListUnnotified returned, the chunks sent,
\* the slot it is for and when its check began.
Runs ==
  [listed : SUBSET Events, chunkNo : 0 .. MaxChunks,
   slot : Instants \cup {NoTime}, at : Instants \cup {NoTime}]

NoRun == [listed |-> {}, chunkNo |-> 0, slot |-> NoTime, at |-> NoTime]

Init ==
  /\ row = [e \in Events |-> "absent"]
  /\ cfg = SeededSettings
  /\ now = 0 /\ cancelled = FALSE /\ faults = 0
  /\ notifying = FALSE
  /\ pc = [p \in Procs |-> "idle"]
  /\ batch = [p \in Procs |-> {}] /\ out = [p \in Procs |-> {}]
  /\ dig = NoRun
  /\ copies = [e \in Events |-> 0] /\ excuse = [e \in Events |-> 0]
  /\ leaked = 0

-----------------------------------------------------------------------------
(* What the steps are made of                                              *)

Pending == {e \in Events : row[e] = "pending"}          \* ListUnnotified

\* UPDATE events SET notified_at = now() WHERE id IN S AND notified_at IS NULL
Acked(S) ==
  [e \in Events |-> IF e \in S /\ row[e] = "pending" THEN "acked" ELSE row[e]]

\* ORDER BY created_at, id
IsFirst(e, S) == e \in S /\ \A f \in S : e <= f

Bump(count, S) == [e \in Events |-> IF e \in S THEN count[e] + 1 ELSE count[e]]

Goto(p, label) == pc' = [pc EXCEPT ![p] = label]

\* Mutant: a pass that starts without looking at the flag.
CanAcquireAlways == TRUE

\* notifying.CompareAndSwap(false, true) succeeds.
CanAcquire == ~notifying

\* Mutant: an early return that does not run the deferred Store(false).
ReleasedFlagKept == notifying

\* defer notifying.Store(false)
ReleasedFlag == FALSE

\* Return from the pass: the flag is released and the locals are gone.
Leave(p) ==
  /\ notifying' = ReleasedFlag
  /\ Goto(p, "idle")
  /\ batch' = [batch EXCEPT ![p] = {}]
  /\ out' = [out EXCEPT ![p] = {}]
  /\ dig' = IF p = Digester THEN NoRun ELSE dig

\* A failing call: either one more fault, or the cancelled context's doing.
Trouble ==
  \/ ~cancelled /\ faults < MaxFaults /\ faults' = faults + 1
  \/ cancelled /\ UNCHANGED faults

\* Discord shows one more message with the rows of S.
Shown(p, S) ==
  /\ copies' = Bump(copies, S)
  /\ leaked' = IF p \in Pollers /\ cfg.enabled THEN leaked + 1 ELSE leaked

\* The CAS at the top of both senders.  A process that finds the flag taken
\* returns at once, which changes nothing.  The digest's tick carries the time
\* at which the check began.
Acquire(p) ==
  /\ pc[p] = "idle" /\ CanAcquire
  /\ notifying' = TRUE
  /\ Goto(p, "settings")
  /\ dig' = IF p = Digester THEN [NoRun EXCEPT !.at = now] ELSE dig
  /\ UNCHANGED <<outbox, batch, out, observed, worldVars>>

\* A read fails (or the context under it is cancelled): the pass returns and
\* writes nothing.  So does the mark of a suppressed row.
ReadFails(p) ==
  /\ \/ pc[p] \in {"settings", "list", "recheck"}
     \/ pc[p] = "row" /\ batch[p] # {}
  /\ Trouble
  /\ Leave(p)
  /\ UNCHANGED <<outbox, observed, now, cancelled>>

-----------------------------------------------------------------------------
(* NotifyPending                                                           *)

PollerReadsMode(p) ==
  /\ pc[p] = "settings" /\ ~cancelled
  /\ IF cfg.enabled
     THEN Leave(p)
     ELSE Goto(p, "list") /\ UNCHANGED <<notifying, batch, out, dig>>
  /\ UNCHANGED <<outbox, observed, worldVars>>

PollerLists(p) ==
  /\ pc[p] = "list" /\ ~cancelled
  /\ batch' = [batch EXCEPT ![p] = Pending]
  /\ Goto(p, "row")
  /\ UNCHANGED <<outbox, notifying, out, dig, observed, worldVars>>

\* The next row is too old: settle it without a message and without a wait.
PollerSuppresses(p) ==
  /\ pc[p] = "row" /\ ~cancelled
  /\ \E e \in Stale :
       /\ IsFirst(e, batch[p])
       /\ row' = Acked({e})
       /\ batch' = [batch EXCEPT ![p] = @ \ {e}]
  /\ UNCHANGED <<cfg, notifying, pc, out, dig, observed, worldVars>>

\* Mutant: the mode is read once, at the top of the pass.
StopsForDigestModeNever == FALSE

\* The re-read before every send finds digest mode on.
StopsForDigestMode == cfg.enabled

PollerRereadsMode(p) ==
  /\ pc[p] = "row" /\ ~cancelled
  /\ \E e \in Events \ Stale : IsFirst(e, batch[p])
  /\ IF StopsForDigestMode
     THEN Leave(p)
     ELSE Goto(p, "send") /\ UNCHANGED <<notifying, batch, out, dig>>
  /\ UNCHANGED <<outbox, observed, worldVars>>

\* Send returns nil: Discord answered 204.
PollerSends(p) ==
  /\ pc[p] = "send" /\ ~cancelled
  /\ \E e \in Events :
       /\ IsFirst(e, batch[p])
       /\ Shown(p, {e})
       /\ out' = [out EXCEPT ![p] = {e}]
       /\ batch' = [batch EXCEPT ![p] = @ \ {e}]
  /\ Goto(p, "ack")
  /\ UNCHANGED <<outbox, notifying, dig, excuse, worldVars>>

\* Send returns an error.  The row stays pending and the pass goes on with the
\* next one.  A lost answer, or a request cancelled half way, looks the same
\* here, but Discord shows the message.
PollerSendFails(p) ==
  /\ pc[p] = "send" /\ Trouble
  /\ \E e \in Events :
       /\ IsFirst(e, batch[p])
       /\ batch' = [batch EXCEPT ![p] = @ \ {e}]
       /\ \/ UNCHANGED observed
          \/ Shown(p, {e}) /\ excuse' = Bump(excuse, {e})
  /\ Goto(p, "row")
  /\ UNCHANGED <<outbox, notifying, out, dig, now, cancelled>>

PollerAcks(p) ==
  /\ pc[p] = "ack" /\ ~cancelled
  /\ row' = Acked(out[p])
  /\ out' = [out EXCEPT ![p] = {}]
  /\ Goto(p, "row")
  /\ UNCHANGED <<cfg, notifying, batch, dig, observed, worldVars>>

PollerDone(p) ==
  /\ pc[p] = "row" /\ batch[p] = {}
  /\ Leave(p)
  /\ UNCHANGED <<outbox, observed, worldVars>>

-----------------------------------------------------------------------------
(* SendDigestIfDue                                                         *)

DigesterChecks ==
  /\ pc[Digester] = "settings" /\ ~cancelled
  /\ IF DigestDue(cfg, dig.at)
     THEN /\ dig' = [dig EXCEPT !.slot = MostRecentSlot(dig.at, cfg.cadence)]
          /\ Goto(Digester, "list")
          /\ UNCHANGED <<notifying, batch, out>>
     ELSE Leave(Digester)
  /\ UNCHANGED <<outbox, observed, worldVars>>

\* With nothing to send the run goes straight to its completing ack.
DigesterLists ==
  /\ pc[Digester] = "list" /\ ~cancelled
  /\ dig' = [dig EXCEPT !.listed = Pending]
  /\ batch' = [batch EXCEPT ![Digester] = Pending \ Stale]
  /\ Goto(Digester, IF Pending \subseteq Stale THEN "ack" ELSE "recheck")
  /\ UNCHANGED <<outbox, notifying, out, observed, worldVars>>

\* The one re-read, before the first chunk.  The slot is not computed again.
DigesterRechecks ==
  /\ pc[Digester] = "recheck" /\ ~cancelled
  /\ IF cfg.enabled
     THEN Goto(Digester, "send") /\ UNCHANGED <<notifying, batch, out, dig>>
     ELSE Leave(Digester)
  /\ UNCHANGED <<outbox, observed, worldVars>>

\* The next chunk: buildDigestChunks cuts the sendable rows into disjoint
\* non-empty chunks, here one at a time.
Chunks == (SUBSET batch[Digester]) \ {{}}

DigesterSends ==
  /\ pc[Digester] = "send" /\ ~cancelled
  /\ \E S \in Chunks :
       /\ Shown(Digester, S)
       /\ out' = [out EXCEPT ![Digester] = S]
       /\ batch' = [batch EXCEPT ![Digester] = @ \ S]
  /\ dig' = [dig EXCEPT !.chunkNo = @ + 1]
  /\ Goto(Digester, "ack")
  /\ UNCHANGED <<outbox, notifying, excuse, worldVars>>

\* A failed send ends the run; so do the time budget and a cancelled context
\* at a chunk boundary.
DigesterSendFails ==
  /\ pc[Digester] = "send" /\ Trouble
  /\ \/ UNCHANGED observed
     \/ \E S \in Chunks : Shown(Digester, S) /\ excuse' = Bump(excuse, S)
  /\ Leave(Digester)
  /\ UNCHANGED <<outbox, now, cancelled>>

\* Mutant: a capped run counts as complete after its last kept chunk.
RunCompleteAtCap == batch[Digester] = {} \/ dig.chunkNo = MaxChunks

\* The chunk in hand is the last one and nothing was deferred.
RunComplete == batch[Digester] = {}

\* Mutant: the cap is compared after the chunk it should have stopped.
CappedLate == dig.chunkNo > MaxChunks

\* This was the last chunk maxDigestChunks allows; the rest was deferred.
Capped == dig.chunkNo = MaxChunks

\* Mutant: each chunk's ack carries the whole sendable slice.
ChunkRowsAll == dig.listed \ Stale

\* The ids one chunk rendered.
ChunkRows == out[Digester]

\* Mutant: every chunk is acked by AckDigestBatch.
MovesSlotPerChunk == TRUE

\* Mutant: a digest with nothing to send returns without its ack.
MovesSlotIfSent == RunComplete /\ out[Digester] # {}

\* Only the completing ack is AckDigestBatch; the others are AckEventsOnly.
MovesSlot == RunComplete

\* AckDigestBatch (rows, slot and, if anything was sent, watermark in one
\* statement) or AckEventsOnly.
DigestAckEffect ==
  /\ row' = Acked(IF MovesSlot THEN ChunkRows \cup (dig.listed \cap Stale)
                               ELSE ChunkRows)
  /\ cfg' = IF MovesSlot
            THEN [cfg EXCEPT !.lastSlot = dig.slot,
                             !.lastSent = IF out[Digester] = {} THEN @ ELSE dig.at]
            ELSE cfg

DigesterAcks ==
  /\ pc[Digester] = "ack"
  /\ DigestAckEffect
  /\ IF RunComplete \/ Capped
     THEN Leave(Digester)
     ELSE /\ Goto(Digester, "send")
          /\ out' = [out EXCEPT ![Digester] = {}]
          /\ UNCHANGED <<notifying, batch, dig>>
  /\ UNCHANGED <<observed, worldVars>>

-----------------------------------------------------------------------------
(* Acks that do not come back                                              *)

\* The statement times out or errors: it took effect or it did not, and the
\* pass returns either way.
AckFails(p) ==
  /\ pc[p] = "ack" /\ faults < MaxFaults /\ faults' = faults + 1
  /\ \/ /\ IF p = Digester THEN DigestAckEffect
                           ELSE row' = Acked(out[p]) /\ UNCHANGED cfg
        /\ UNCHANGED excuse
     \/ UNCHANGED outbox /\ excuse' = Bump(excuse, out[p])
  /\ Leave(p)
  /\ UNCHANGED <<copies, leaked, now, cancelled>>

\* Mutant: the digest's acks run under the pass's own context.
AckOutlivesCancelNever(p) == FALSE

\* context.WithoutCancel: the digest's acks do, markNotified does not.
AckOutlivesCancel(p) == p = Digester

\* The context was cancelled after Discord accepted: the row stays pending.
\* For the real-time pass that is a known reason to send it again.
AckCancelled(p) ==
  /\ pc[p] = "ack" /\ cancelled /\ ~AckOutlivesCancel(p)
  /\ Leave(p)
  /\ excuse' = IF p \in Pollers THEN Bump(excuse, out[p]) ELSE excuse
  /\ UNCHANGED <<outbox, copies, leaked, worldVars>>

-----------------------------------------------------------------------------
(* The world around a pass                                                 *)

\* A detection cycle inserts the row, pending or already settled.
Record(e, how) ==
  /\ row[e] = "absent"
  /\ row' = [row EXCEPT ![e] = how]
  /\ UNCHANGED <<cfg, passVars, observed, worldVars>>

\* PUT /settings/notifications
Update(enabled, cadence) ==
  /\ cfg' = UpdatedSettings(cfg, enabled, cadence, now)
  /\ leaked' = IF enabled # cfg.enabled THEN 0 ELSE leaked
  /\ UNCHANGED <<row, passVars, copies, excuse, worldVars>>

Tick ==
  /\ now < Horizon
  /\ now' = now + 1
  /\ UNCHANGED <<outbox, passVars, observed, cancelled, faults>>

Cancel ==
  /\ ~cancelled /\ faults < MaxFaults
  /\ cancelled' = TRUE /\ faults' = faults + 1
  /\ UNCHANGED <<outbox, passVars, observed, now>>

\* The drained process exits and the next one starts.
Restart ==
  /\ cancelled /\ \A p \in Procs : pc[p] = "idle"
  /\ cancelled' = FALSE
  /\ UNCHANGED <<outbox, passVars, observed, now, faults>>

\* Killed at any point, past the drain deadline included.
Crash ==
  /\ faults < MaxFaults /\ faults' = faults + 1
  /\ excuse' = Bump(excuse, UNION {out[p] : p \in Procs})
  /\ notifying' = FALSE /\ cancelled' = FALSE
  /\ pc' = [p \in Procs |-> "idle"]
  /\ batch' = [p \in Procs |-> {}] /\ out' = [p \in Procs |-> {}]
  /\ dig' = NoRun
  /\ UNCHANGED <<outbox, copies, leaked, now>>

-----------------------------------------------------------------------------

PollerStep(p) ==
  \/ PollerReadsMode(p) \/ PollerLists(p) \/ PollerSuppresses(p)
  \/ PollerRereadsMode(p) \/ PollerSends(p) \/ PollerAcks(p)
  \/ PollerDone(p)

DigesterStep ==
  \/ DigesterChecks \/ DigesterLists \/ DigesterRechecks
  \/ DigesterSends \/ DigesterAcks

Failure ==
  \/ \E p \in Procs : ReadFails(p) \/ AckFails(p) \/ AckCancelled(p)
  \/ \E p \in Pollers : PollerSendFails(p)
  \/ DigesterSendFails \/ Cancel \/ Crash

Environment ==
  \/ \E e \in Events, how \in {"pending", "seeded"} : Record(e, how)
  \/ \E enabled \in BOOLEAN, cadence \in Cadences : Update(enabled, cadence)
  \/ Tick \/ Restart

Next ==
  \/ \E p \in Procs : Acquire(p)
  \/ \E p \in Pollers : PollerStep(p)
  \/ DigesterStep \/ Failure \/ Environment

Spec == Init /\ [][Next]_vars

-----------------------------------------------------------------------------
(* Fairness.  A pass that is running keeps going, because every call in it *)
(* is bounded by a timeout.  The flag is tried on a schedule and a busy    *)
(* flag skips the attempt, so getting it needs strong fairness: not every  *)
(* cycle of a poller, and not every 5-minute check, coincides with another *)
(* pass.  The clock, the operator and detection promise nothing, and after *)
(* MaxFaults failures calls succeed.                                       *)

Unwind(p) == cancelled /\ (ReadFails(p) \/ AckCancelled(p))

PollerGoesOn(p) ==
  PollerStep(p) \/ Unwind(p) \/ (cancelled /\ PollerSendFails(p))

DigesterGoesOn ==
  DigesterStep \/ Unwind(Digester) \/ (cancelled /\ DigesterSendFails)

Fairness ==
  /\ \A p \in Procs : SF_vars(Acquire(p))
  /\ \A p \in Pollers : WF_vars(PollerGoesOn(p))
  /\ WF_vars(DigesterGoesOn)
  /\ SF_vars(Restart)

FairSpec == Spec /\ Fairness

-----------------------------------------------------------------------------
(* Properties                                                              *)

Labels ==
  {"idle", "settings", "list", "row", "send", "ack", "recheck"}

\* Every variable has its type.
TypeOK ==
  /\ row \in [Events -> {"absent", "pending", "acked", "seeded"}]
  /\ cfg \in Settings
  /\ now \in Instants /\ cancelled \in BOOLEAN /\ notifying \in BOOLEAN
  /\ pc \in [Procs -> Labels]
  /\ batch \in [Procs -> SUBSET Events] /\ out \in [Procs -> SUBSET Events]
  /\ dig \in Runs
  /\ copies \in [Events -> Nat] /\ excuse \in [Events -> Nat]
  /\ leaked \in Nat /\ faults \in 0 .. MaxFaults

\* Two senders never run at once, whatever the operator toggles between them,
\* and the flag is up exactly while one of them runs: no return path leaves it
\* up, which would end all delivery until a restart (ADR 0002).
SingleSender ==
  /\ \A p, q \in Procs : pc[p] # "idle" /\ pc[q] # "idle" => p = q
  /\ notifying = (\E p \in Procs : pc[p] # "idle")

\* No event is forgotten: a row a sender acked was shown on Discord, unless it
\* was too old to be announced at all, and then it never was.  A digest that
\* is cut short by its cap, its budget or a failure must not ack what it did
\* not send (ADR 0003).
AckedWasAnnounced ==
  \A e \in Events :
    row[e] = "acked" => IF e \in Stale THEN copies[e] = 0 ELSE copies[e] >= 1

\* An event is announced again only for a documented reason: Discord's answer
\* was lost, the ack failed, the process died between the two, or a shutdown
\* cancelled a real-time ack.  A shutdown during a digest is not one of them
\* (digest.go acks under context.WithoutCancel).
DuplicatesAreExcused ==
  \A e \in Events :
    /\ copies[e] <= 1 + excuse[e]
    /\ row[e] = "pending" /\ (\A p \in Procs : e \notin out[p])
         => copies[e] <= excuse[e]

\* ADR 0002's residual: after an operator turns digest mode on, at most the one
\* message already in flight still goes out in real time.
OneRealTimeLeak == leaked <= 1

\* The digest moves the slot record or the watermark only when nothing it
\* listed is still pending, so a partial run stays due (ADR 0003).
DrainedIfMoved ==
  \/ cfg'.lastSent # cfg.lastSent
  \/ /\ cfg'.lastSlot # cfg.lastSlot
     /\ cfg'.enabled = cfg.enabled /\ cfg'.cadence = cfg.cadence
  => dig.listed \cap Pending' = {}
CompletionMeansDrained == [][DrainedIfMoved]_vars

\* The notifier keeps the outbox's promise.
Promise == INSTANCE Outbox WITH told <- {e \in Events : copies[e] > 0}
ImplementsOutbox == Promise!Spec

\* With digest mode off for good, every pending event is settled: skipped
\* passes, lost answers, restarts and a digest check in the way only delay it.
RealTimeDrains ==
  <>[](~cfg.enabled) => \A e \in Events : row[e] = "pending" ~> row[e] = "acked"

\* With digest mode on for good, a due digest completes, over as many checks as
\* its cap makes it take, unless its grace window closes or the operator
\* re-anchors the slot record.
DueDigestCompletes == <>[](cfg.enabled) => []<>(~DigestDue(cfg, now))
=============================================================================
