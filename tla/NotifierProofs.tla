--------------------------- MODULE NotifierProofs ---------------------------
(***************************************************************************)
(* What Notifier guarantees for every set of pollers and rows, every       *)
(* calendar, every chunk cap and any number of faults.                     *)
(***************************************************************************)
EXTENDS Notifier, TLAPS

-----------------------------------------------------------------------------
(* The calendar                                                            *)

LEMMA LatestSlotExists ==
  ASSUME NEW t \in Instants, NEW c \in Cadences
  PROVE  MostRecentSlot(t, c) \in Instants
<1>1. Slots(c) \subseteq Instants
  BY SlotAssumption DEF Slots
<1>2. \E s \in Slots(c) : s <= t /\ \A u \in Slots(c) : u <= t => u <= s
  BY SlotAssumption
<1>3. MostRecentSlot(t, c) \in Slots(c)
  BY <1>2 DEF MostRecentSlot
<1>. QED
  BY <1>1, <1>3

LEMMA UpdatedIsSettings ==
  ASSUME NEW s \in Settings, NEW b \in BOOLEAN, NEW c \in Cadences,
         NEW t \in Instants
  PROVE  UpdatedSettings(s, b, c, t) \in Settings
<1>. DEFINE slot == IF b /\ (~s.enabled \/ s.cadence # c)
                    THEN MostRecentSlot(t, c) ELSE s.lastSlot
<1>1. slot \in Instants \cup {NoTime}
  BY LatestSlotExists DEF Settings
<1>2. UpdatedSettings(s, b, c, t)
        = [s EXCEPT !.enabled = b, !.cadence = c, !.lastSlot = slot]
  BY DEF UpdatedSettings
<1>. HIDE DEF slot
<1>. QED
  BY <1>1, <1>2 DEF Settings

-----------------------------------------------------------------------------
(* Types.  The chunk counter stays within the cap because a run in "send"  *)
(* still has a chunk to spend.                                             *)

RunLocals ==
  /\ pc[Digester] \in {"idle", "settings", "list", "recheck"} => dig.chunkNo = 0
  /\ pc[Digester] = "send" => dig.chunkNo < MaxChunks
  /\ pc[Digester] # "idle" => dig.at \in Instants
  /\ pc[Digester] \notin {"idle", "settings"} => dig.slot \in Instants

LEMMA NoRunType == NoRun \in Runs
  BY NotifierAssumption DEF NoRun, Runs

LEMMA TypeInit == Init => TypeOK /\ RunLocals
<1>. SUFFICES ASSUME Init PROVE TypeOK /\ RunLocals
  OBVIOUS
<1>1. SeededSettings \in Settings
  BY DEF SeededSettings, Settings, Cadences
<1>2. 0 \in Instants
  BY SlotAssumption DEF Instants
<1>3. faults \in 0 .. MaxFaults /\ leaked \in Nat
  BY NotifierAssumption DEF Init
<1>4. TypeOK
  BY <1>1, <1>2, <1>3, NoRunType DEF Init, TypeOK, Labels
<1>5. pc[Digester] = "idle" /\ dig.chunkNo = 0
  BY DEF Init, Procs, NoRun
<1>. QED
  BY <1>4, <1>5 DEF RunLocals

LEMMA LeaveType ==
  ASSUME TypeOK, NEW p \in Procs, Leave(p)
  PROVE  /\ notifying' \in BOOLEAN
         /\ pc' \in [Procs -> Labels]
         /\ batch' \in [Procs -> SUBSET Events]
         /\ out' \in [Procs -> SUBSET Events]
         /\ dig' \in Runs
  BY NoRunType DEF TypeOK, Leave, Goto, ReleasedFlag, Labels

LEMMA LeaveRun ==
  ASSUME TypeOK, RunLocals, NEW p \in Procs, Leave(p)
  PROVE  RunLocals'
<1>1. CASE p = Digester
  <2>1. pc'[Digester] = "idle" /\ dig'.chunkNo = 0
    BY <1>1 DEF Leave, Goto, TypeOK, NoRun
  <2>. QED
    BY <2>1 DEF RunLocals
<1>2. CASE p # Digester
  <2>1. pc'[Digester] = pc[Digester] /\ dig' = dig
    BY <1>2 DEF Leave, Goto, TypeOK, Procs
  <2>. QED
    BY <2>1 DEF RunLocals
<1>. QED
  BY <1>1, <1>2

LEMMA AckedType ==
  ASSUME TypeOK, NEW S
  PROVE  Acked(S) \in [Events -> {"absent", "pending", "acked", "seeded"}]
  BY DEF TypeOK, Acked

LEMMA BumpType ==
  ASSUME NEW count \in [Events -> Nat], NEW S
  PROVE  Bump(count, S) \in [Events -> Nat]
  BY DEF Bump

LEMMA ShownType ==
  ASSUME TypeOK, NEW p, NEW S, Shown(p, S)
  PROVE  copies' \in [Events -> Nat] /\ leaked' \in Nat
  BY BumpType DEF TypeOK, Shown

LEMMA TroubleType ==
  ASSUME TypeOK, Trouble PROVE faults' \in 0 .. MaxFaults
  BY NotifierAssumption DEF TypeOK, Trouble

\* A poller's step that leaves the digest's locals alone keeps what is known
\* of them.
LEMMA PollerRun ==
  ASSUME TypeOK, RunLocals, NEW p \in Pollers, NEW label, Goto(p, label),
         dig' = dig
  PROVE  RunLocals'
<1>1. pc'[Digester] = pc[Digester]
  BY NotifierAssumption DEF Goto, TypeOK, Procs
<1>. QED
  BY <1>1 DEF RunLocals

LEMMA AcquireType ==
  ASSUME TypeOK, RunLocals, NEW p \in Procs, Acquire(p)
  PROVE  TypeOK' /\ RunLocals'
<1>1. pc' \in [Procs -> Labels]
  BY DEF TypeOK, Acquire, Goto, Labels
<1>2. dig' \in Runs /\ (p = Digester => dig'.chunkNo = 0 /\ dig'.at = now)
  BY NotifierAssumption DEF TypeOK, Acquire, NoRun, Runs
<1>3. TypeOK'
  BY <1>1, <1>2
  DEF TypeOK, Acquire, outbox, observed, worldVars
<1>4. CASE p = Digester
  <2>1. pc'[Digester] = "settings"
    BY <1>4 DEF Acquire, Goto, TypeOK
  <2>. QED
    BY <2>1, <1>2, <1>3, <1>4 DEF RunLocals, TypeOK
<1>5. CASE p # Digester
  <2>1. p \in Pollers /\ dig' = dig /\ Goto(p, "settings")
    BY <1>5 DEF Acquire, Procs
  <2>. QED
    BY <2>1, <1>3, PollerRun
<1>. QED
  BY <1>4, <1>5, <1>3

LEMMA PollerType ==
  ASSUME TypeOK, RunLocals, NEW p \in Pollers,
         PollerStep(p) \/ PollerSendFails(p)
  PROVE  TypeOK' /\ RunLocals'
<1>. p \in Procs
  BY DEF Procs
<1>1. CASE PollerReadsMode(p) \/ PollerRereadsMode(p) \/ PollerDone(p)
  <2>1. CASE Leave(p)
    BY <1>1, <2>1, LeaveType, LeaveRun
    DEF PollerReadsMode, PollerRereadsMode, PollerDone, TypeOK, outbox,
        observed, worldVars
  <2>2. CASE ~Leave(p)
    <3>1. PICK label \in Labels : Goto(p, label)
      BY <1>1, <2>2
      DEF PollerReadsMode, PollerRereadsMode, PollerDone, Labels
    <3>2. UNCHANGED <<outbox, notifying, batch, out, dig, observed, worldVars>>
      BY <1>1, <2>2 DEF PollerReadsMode, PollerRereadsMode, PollerDone
    <3>3. TypeOK'
      BY <3>1, <3>2 DEF TypeOK, Goto, outbox, observed, worldVars
    <3>. QED
      BY <3>1, <3>2, <3>3, PollerRun
  <2>. QED
    BY <2>1, <2>2
<1>2. CASE PollerLists(p)
  <2>1. TypeOK'
    BY <1>2
    DEF PollerLists, TypeOK, Goto, Labels, Pending, outbox, observed, worldVars
  <2>. QED
    BY <2>1, <1>2, PollerRun DEF PollerLists
<1>3. CASE PollerSuppresses(p)
  <2>1. row' \in [Events -> {"absent", "pending", "acked", "seeded"}]
    BY <1>3, AckedType DEF PollerSuppresses
  <2>2. batch' \in [Procs -> SUBSET Events]
    BY <1>3 DEF PollerSuppresses, TypeOK
  <2>. QED
    BY <1>3, <2>1, <2>2
    DEF PollerSuppresses, TypeOK, RunLocals, observed, worldVars
<1>4. CASE PollerSends(p)
  <2>1. PICK e \in Events :
          Shown(p, {e}) /\ out' = [out EXCEPT ![p] = {e}]
          /\ batch' = [batch EXCEPT ![p] = @ \ {e}]
    BY <1>4 DEF PollerSends
  <2>2. copies' \in [Events -> Nat] /\ leaked' \in Nat
    BY <2>1, ShownType
  <2>3. TypeOK'
    BY <1>4, <2>1, <2>2
    DEF PollerSends, TypeOK, Goto, Labels, outbox, worldVars
  <2>. QED
    BY <1>4, <2>3, PollerRun DEF PollerSends
<1>5. CASE PollerSendFails(p)
  <2>1. PICK e \in Events :
          /\ batch' = [batch EXCEPT ![p] = @ \ {e}]
          /\ \/ UNCHANGED observed
             \/ Shown(p, {e}) /\ excuse' = Bump(excuse, {e})
    BY <1>5, Zenon DEF PollerSendFails
  <2>2. /\ copies' \in [Events -> Nat] /\ excuse' \in [Events -> Nat]
        /\ leaked' \in Nat
    BY <2>1, ShownType, BumpType DEF TypeOK, observed
  <2>3. faults' \in 0 .. MaxFaults
    BY <1>5, TroubleType DEF PollerSendFails
  <2>4. TypeOK'
    BY <1>5, <2>1, <2>2, <2>3
    DEF PollerSendFails, TypeOK, Goto, Labels, outbox
  <2>. QED
    BY <1>5, <2>4, PollerRun DEF PollerSendFails
<1>6. CASE PollerAcks(p)
  <2>1. row' \in [Events -> {"absent", "pending", "acked", "seeded"}]
    BY <1>6, AckedType DEF PollerAcks
  <2>2. TypeOK'
    BY <1>6, <2>1
    DEF PollerAcks, TypeOK, Goto, Labels, observed, worldVars
  <2>. QED
    BY <1>6, <2>2, PollerRun DEF PollerAcks
<1>. QED
  BY <1>1, <1>2, <1>3, <1>4, <1>5, <1>6 DEF PollerStep

LEMMA DigestAckType ==
  ASSUME TypeOK, RunLocals, pc[Digester] = "ack", DigestAckEffect
  PROVE  /\ row' \in [Events -> {"absent", "pending", "acked", "seeded"}]
         /\ cfg' \in Settings
<1>1. row' \in [Events -> {"absent", "pending", "acked", "seeded"}]
  BY AckedType DEF DigestAckEffect
<1>2. dig.slot \in Instants /\ dig.at \in Instants
  BY DEF RunLocals
<1>3. cfg' \in Settings
  BY <1>2 DEF DigestAckEffect, TypeOK, Settings
<1>. QED
  BY <1>1, <1>3

LEMMA DigesterType ==
  ASSUME TypeOK, RunLocals, DigesterStep \/ DigesterSendFails
  PROVE  TypeOK' /\ RunLocals'
<1>. Digester \in Procs
  BY DEF Procs
<1>1. CASE DigesterChecks
  <2>1. CASE DigestDue(cfg, dig.at)
    <3>1. dig.at \in Instants /\ cfg.cadence \in Cadences
      BY <1>1 DEF DigesterChecks, RunLocals, TypeOK, Settings
    <3>. DEFINE slot == MostRecentSlot(dig.at, cfg.cadence)
    <3>2. slot \in Instants
      BY <3>1, LatestSlotExists
    <3>3. dig' = [dig EXCEPT !.slot = slot]
      BY <1>1, <2>1 DEF DigesterChecks
    <3>. HIDE DEF slot
    <3>4. dig' \in Runs /\ dig'.slot = slot /\ dig'.at = dig.at
          /\ dig'.chunkNo = dig.chunkNo
      BY <3>2, <3>3 DEF TypeOK, Runs
    <3>5. pc'[Digester] = "list" /\ pc' \in [Procs -> Labels]
      BY <1>1, <2>1 DEF DigesterChecks, Goto, TypeOK, Labels
    <3>6. TypeOK'
      BY <1>1, <2>1, <3>4, <3>5
      DEF DigesterChecks, TypeOK, outbox, observed, worldVars
    <3>7. dig.chunkNo = 0
      BY <1>1 DEF DigesterChecks, RunLocals
    <3>. QED
      BY <3>1, <3>2, <3>4, <3>5, <3>6, <3>7 DEF RunLocals
  <2>2. CASE ~DigestDue(cfg, dig.at)
    BY <1>1, <2>2, LeaveType, LeaveRun
    DEF DigesterChecks, TypeOK, outbox, observed, worldVars
  <2>. QED
    BY <2>1, <2>2
<1>2. CASE DigesterLists
  <2>1. dig' \in Runs /\ dig'.chunkNo = dig.chunkNo /\ dig'.at = dig.at
        /\ dig'.slot = dig.slot
    BY <1>2 DEF DigesterLists, TypeOK, Runs, Pending
  <2>2. pc' \in [Procs -> Labels] /\ pc'[Digester] \in {"ack", "recheck"}
    BY <1>2 DEF DigesterLists, Goto, TypeOK, Labels
  <2>3. batch' \in [Procs -> SUBSET Events]
    BY <1>2 DEF DigesterLists, TypeOK, Pending
  <2>4. TypeOK'
    BY <1>2, <2>1, <2>2, <2>3
    DEF DigesterLists, TypeOK, outbox, observed, worldVars
  <2>. QED
    BY <1>2, <2>1, <2>2, <2>4 DEF DigesterLists, RunLocals
<1>3. CASE DigesterRechecks
  <2>1. CASE cfg.enabled
    <3>1. pc' \in [Procs -> Labels] /\ pc'[Digester] = "send" /\ dig' = dig
      BY <1>3, <2>1 DEF DigesterRechecks, Goto, TypeOK, Labels
    <3>2. TypeOK'
      BY <1>3, <2>1, <3>1
      DEF DigesterRechecks, TypeOK, outbox, observed, worldVars
    <3>. QED
      BY <1>3, <3>1, <3>2, NotifierAssumption DEF DigesterRechecks, RunLocals
  <2>2. CASE ~cfg.enabled
    BY <1>3, <2>2, LeaveType, LeaveRun
    DEF DigesterRechecks, TypeOK, outbox, observed, worldVars
  <2>. QED
    BY <2>1, <2>2
<1>4. CASE DigesterSends
  <2>1. PICK S \in Chunks :
          /\ Shown(Digester, S)
          /\ out' = [out EXCEPT ![Digester] = S]
          /\ batch' = [batch EXCEPT ![Digester] = @ \ S]
    BY <1>4, Zenon DEF DigesterSends
  <2>2. S \subseteq Events
    BY DEF Chunks, TypeOK
  <2>3. dig.chunkNo + 1 \in 0 .. MaxChunks
    BY <1>4, NotifierAssumption DEF DigesterSends, RunLocals, TypeOK, Runs
  <2>4. dig' \in Runs /\ dig'.at = dig.at /\ dig'.slot = dig.slot
    BY <1>4, <2>3 DEF DigesterSends, TypeOK, Runs
  <2>5. pc' \in [Procs -> Labels] /\ pc'[Digester] = "ack"
    BY <1>4 DEF DigesterSends, Goto, TypeOK, Labels
  <2>6. copies' \in [Events -> Nat] /\ leaked' \in Nat
    BY <2>1, ShownType
  <2>7. out' \in [Procs -> SUBSET Events] /\ batch' \in [Procs -> SUBSET Events]
    BY <2>1, <2>2 DEF TypeOK
  <2>8. TypeOK'
    BY <1>4, <2>4, <2>5, <2>6, <2>7 DEF DigesterSends, TypeOK, outbox, worldVars
  <2>. QED
    BY <1>4, <2>4, <2>5, <2>8 DEF DigesterSends, RunLocals
<1>5. CASE DigesterSendFails
  <2>1. \/ UNCHANGED observed
        \/ \E S \in Chunks :
             Shown(Digester, S) /\ excuse' = Bump(excuse, S)
    BY <1>5, Zenon DEF DigesterSendFails
  <2>2. /\ copies' \in [Events -> Nat] /\ excuse' \in [Events -> Nat]
        /\ leaked' \in Nat
    BY <2>1, ShownType, BumpType DEF TypeOK, observed
  <2>3. faults' \in 0 .. MaxFaults
    BY <1>5, TroubleType DEF DigesterSendFails
  <2>4. TypeOK'
    BY <1>5, <2>2, <2>3, LeaveType DEF DigesterSendFails, TypeOK, outbox
  <2>. QED
    BY <1>5, <2>4, LeaveRun DEF DigesterSendFails
<1>6. CASE DigesterAcks
  <2>1. /\ row' \in [Events -> {"absent", "pending", "acked", "seeded"}]
        /\ cfg' \in Settings
    BY <1>6, DigestAckType DEF DigesterAcks
  <2>2. CASE Leave(Digester)
    BY <1>6, <2>1, <2>2, LeaveType, LeaveRun
    DEF DigesterAcks, TypeOK, observed, worldVars
  <2>3. CASE ~Leave(Digester)
    <3>1. pc' \in [Procs -> Labels] /\ pc'[Digester] = "send" /\ dig' = dig
      BY <1>6, <2>3 DEF DigesterAcks, Goto, TypeOK, Labels
    <3>2. out' \in [Procs -> SUBSET Events]
      BY <1>6, <2>3 DEF DigesterAcks, TypeOK
    <3>3. TypeOK'
      BY <1>6, <2>1, <2>3, <3>1, <3>2
      DEF DigesterAcks, TypeOK, observed, worldVars
    <3>4. dig.chunkNo < MaxChunks
      BY <1>6, <2>3, NotifierAssumption DEF DigesterAcks, Capped, TypeOK, Runs
    <3>. QED
      BY <1>6, <3>1, <3>3, <3>4 DEF DigesterAcks, RunLocals
  <2>. QED
    BY <2>2, <2>3
<1>. QED
  BY <1>1, <1>2, <1>3, <1>4, <1>5, <1>6 DEF DigesterStep

LEMMA FailureType ==
  ASSUME TypeOK, RunLocals, Failure
  PROVE  TypeOK' /\ RunLocals'
<1>1. ASSUME NEW p \in Procs, ReadFails(p)
      PROVE  TypeOK' /\ RunLocals'
  BY <1>1, LeaveType, LeaveRun, TroubleType
  DEF ReadFails, TypeOK, outbox, observed
<1>2. ASSUME NEW p \in Procs, AckFails(p)
      PROVE  TypeOK' /\ RunLocals'
  <2>1. /\ row' \in [Events -> {"absent", "pending", "acked", "seeded"}]
        /\ cfg' \in Settings
    BY <1>2, DigestAckType, AckedType DEF AckFails, TypeOK, outbox
  <2>2. excuse' \in [Events -> Nat]
    BY <1>2, BumpType DEF AckFails, TypeOK
  <2>3. faults' \in 0 .. MaxFaults
    BY <1>2, NotifierAssumption DEF AckFails, TypeOK
  <2>. QED
    BY <1>2, <2>1, <2>2, <2>3, LeaveType, LeaveRun DEF AckFails, TypeOK
<1>3. ASSUME NEW p \in Procs, AckCancelled(p)
      PROVE  TypeOK' /\ RunLocals'
  <2>1. excuse' \in [Events -> Nat]
    BY <1>3, BumpType DEF AckCancelled, TypeOK
  <2>. QED
    BY <1>3, <2>1, LeaveType, LeaveRun
    DEF AckCancelled, TypeOK, outbox, worldVars
<1>4. CASE Cancel
  BY <1>4, NotifierAssumption
  DEF Cancel, TypeOK, RunLocals, outbox, passVars, observed
<1>5. CASE Crash
  <2>1. /\ excuse' \in [Events -> Nat] /\ faults' \in 0 .. MaxFaults
        /\ dig' \in Runs
    BY <1>5, BumpType, NoRunType, NotifierAssumption DEF Crash, TypeOK
  <2>2. /\ pc' \in [Procs -> Labels] /\ pc'[Digester] = "idle"
        /\ dig'.chunkNo = 0
    BY <1>5 DEF Crash, Labels, NoRun, Procs
  <2>3. TypeOK'
    BY <1>5, <2>1, <2>2 DEF Crash, TypeOK, outbox
  <2>. QED
    BY <2>2, <2>3 DEF RunLocals
<1>. QED
  BY <1>1, <1>2, <1>3, <1>4, <1>5, PollerType, DigesterType DEF Failure

LEMMA EnvironmentType ==
  ASSUME TypeOK, RunLocals, Environment
  PROVE  TypeOK' /\ RunLocals'
<1>1. ASSUME NEW e \in Events, NEW how \in {"pending", "seeded"}, Record(e, how)
      PROVE  TypeOK' /\ RunLocals'
  BY <1>1 DEF Record, TypeOK, RunLocals, passVars, observed, worldVars
<1>2. ASSUME NEW enabled \in BOOLEAN, NEW cadence \in Cadences,
             Update(enabled, cadence)
      PROVE  TypeOK' /\ RunLocals'
  <2>1. cfg' \in Settings
    BY <1>2, UpdatedIsSettings DEF Update, TypeOK
  <2>. QED
    BY <1>2, <2>1 DEF Update, TypeOK, RunLocals, passVars, worldVars
<1>3. CASE Tick
  BY <1>3, SlotAssumption
  DEF Tick, TypeOK, RunLocals, Instants, outbox, passVars, observed
<1>4. CASE Restart
  BY <1>4 DEF Restart, TypeOK, RunLocals, outbox, passVars, observed
<1>. QED
  BY <1>1, <1>2, <1>3, <1>4, Zenon DEF Environment

LEMMA TypeStep ==
  TypeOK /\ RunLocals /\ [Next]_vars => TypeOK' /\ RunLocals'
<1>. SUFFICES ASSUME TypeOK, RunLocals, [Next]_vars
              PROVE  TypeOK' /\ RunLocals'
  OBVIOUS
<1>1. CASE UNCHANGED vars
  BY <1>1 DEF vars, outbox, passVars, observed, worldVars, TypeOK, RunLocals
<1>. QED
  BY <1>1, AcquireType, PollerType, DigesterType, FailureType, EnvironmentType
  DEF Next

\* Every variable keeps its type; in particular no digest run ever counts more
\* chunks than maxDigestChunks (digest_chunk.go).
THEOREM TypeCorrect == Spec => []TypeOK
<1>1. Spec => [](TypeOK /\ RunLocals)
  BY TypeInit, TypeStep, PTL DEF Spec
<1>. QED
  BY <1>1, PTL

-----------------------------------------------------------------------------
(* One sender.  What a step can do to the flag and to the program counters: *)
(* a process takes the free flag, moves on under it, or drops it; a crash   *)
(* drops everything.                                                        *)

Takes(p) == pc[p] = "idle" /\ ~notifying /\ notifying' = TRUE /\ Goto(p, "settings")
Drops(p) == pc[p] # "idle" /\ notifying' = FALSE /\ Goto(p, "idle")
MovesOn(p) ==
  /\ pc[p] # "idle" /\ notifying' = notifying
  /\ \E label \in Labels \ {"idle"} : Goto(p, label)
AllDrop == notifying' = FALSE /\ pc' = [p \in Procs |-> "idle"]

FlagStep ==
  \/ UNCHANGED <<notifying, pc>>
  \/ \E p \in Procs : Takes(p) \/ Drops(p) \/ MovesOn(p)
  \/ AllDrop

LEMMA LeaveDrops ==
  ASSUME NEW p, pc[p] # "idle", Leave(p) PROVE Drops(p)
  BY DEF Leave, Drops, ReleasedFlag

LEMMA StepIsFlagStep ==
  ASSUME [Next]_vars PROVE FlagStep
<1>1. ASSUME NEW p \in Procs, Acquire(p) PROVE FlagStep
  BY <1>1 DEF Acquire, CanAcquire, Takes, FlagStep
<1>2. ASSUME NEW p \in Pollers, PollerStep(p) \/ PollerSendFails(p) PROVE FlagStep
  <2>1. Drops(p) \/ MovesOn(p) \/ UNCHANGED <<notifying, pc>>
    <3>1. CASE PollerReadsMode(p)
      BY <3>1, LeaveDrops DEF PollerReadsMode, MovesOn, Labels
    <3>2. CASE PollerRereadsMode(p)
      BY <3>2, LeaveDrops DEF PollerRereadsMode, MovesOn, Labels
    <3>3. CASE PollerDone(p)
      BY <3>3, LeaveDrops DEF PollerDone
    <3>4. CASE PollerLists(p)
      BY <3>4 DEF PollerLists, MovesOn, Labels
    <3>5. CASE PollerSuppresses(p)
      BY <3>5 DEF PollerSuppresses
    <3>6. CASE PollerSends(p)
      BY <3>6 DEF PollerSends, MovesOn, Labels
    <3>7. CASE PollerSendFails(p)
      BY <3>7 DEF PollerSendFails, MovesOn, Labels
    <3>8. CASE PollerAcks(p)
      BY <3>8 DEF PollerAcks, MovesOn, Labels
    <3>. QED
      BY <1>2, <3>1, <3>2, <3>3, <3>4, <3>5, <3>6, <3>7, <3>8 DEF PollerStep
  <2>. QED
    BY <2>1 DEF FlagStep, Procs
<1>3. ASSUME DigesterStep \/ DigesterSendFails PROVE FlagStep
  <2>1. Drops(Digester) \/ MovesOn(Digester)
    <3>1. CASE DigesterChecks
      BY <3>1, LeaveDrops DEF DigesterChecks, MovesOn, Labels
    <3>2. CASE DigesterLists
      BY <3>2 DEF DigesterLists, MovesOn, Labels
    <3>3. CASE DigesterRechecks
      BY <3>3, LeaveDrops DEF DigesterRechecks, MovesOn, Labels
    <3>4. CASE DigesterSends
      BY <3>4 DEF DigesterSends, MovesOn, Labels
    <3>5. CASE DigesterSendFails
      BY <3>5, LeaveDrops DEF DigesterSendFails
    <3>6. CASE DigesterAcks
      BY <3>6, LeaveDrops DEF DigesterAcks, MovesOn, Labels
    <3>. QED
      BY <1>3, <3>1, <3>2, <3>3, <3>4, <3>5, <3>6 DEF DigesterStep
  <2>. QED
    BY <2>1 DEF FlagStep, Procs
<1>4. ASSUME NEW p \in Procs, ReadFails(p) \/ AckFails(p) \/ AckCancelled(p)
      PROVE  FlagStep
  BY <1>4, LeaveDrops DEF ReadFails, AckFails, AckCancelled, FlagStep
<1>5. CASE Cancel \/ Environment
  BY <1>5
  DEF Cancel, Environment, Record, Update, Tick, Restart, passVars, FlagStep
<1>6. CASE Crash
  BY <1>6 DEF Crash, AllDrop, FlagStep
<1>7. CASE UNCHANGED vars
  BY <1>7 DEF vars, passVars, FlagStep
<1>. QED
  BY <1>1, <1>2, <1>3, <1>4, <1>5, <1>6, <1>7 DEF Next, Failure

LEMMA SingleSenderStep ==
  ASSUME TypeOK, SingleSender, [Next]_vars PROVE SingleSender'
<1>1. FlagStep
  BY StepIsFlagStep
<1>2. CASE UNCHANGED <<notifying, pc>>
  BY <1>2 DEF SingleSender
<1>3. ASSUME NEW p \in Procs, Takes(p) PROVE SingleSender'
  <2>1. \A q \in Procs : pc[q] = "idle"
    BY <1>3 DEF Takes, SingleSender
  <2>2. \A q \in Procs : pc'[q] # "idle" <=> q = p
    BY <1>3, <2>1 DEF Takes, Goto, TypeOK
  <2>. QED
    BY <1>3, <2>2 DEF Takes, SingleSender
<1>4. ASSUME NEW p \in Procs, Drops(p) PROVE SingleSender'
  <2>1. \A q \in Procs : pc'[q] = "idle"
    BY <1>4 DEF Drops, Goto, TypeOK, SingleSender
  <2>. QED
    BY <1>4, <2>1 DEF Drops, SingleSender
<1>5. ASSUME NEW p \in Procs, MovesOn(p) PROVE SingleSender'
  <2>1. \A q \in Procs : pc'[q] # "idle" <=> q = p
    BY <1>5 DEF MovesOn, Goto, TypeOK, SingleSender
  <2>2. notifying' = TRUE
    BY <1>5 DEF MovesOn, SingleSender
  <2>. QED
    BY <2>1, <2>2 DEF SingleSender
<1>6. CASE AllDrop
  BY <1>6 DEF AllDrop, SingleSender
<1>. QED
  BY <1>1, <1>2, <1>3, <1>4, <1>5, <1>6 DEF FlagStep

\* The one flag (notifier.go, Notifier.notifying) keeps the two poll cycles and
\* the digest apart for any number of pollers, and no return path of either
\* sender leaves it up.
THEOREM SenderExclusion == Spec => []SingleSender
<1>1. Init => SingleSender
  BY DEF Init, SingleSender
<1>2. TypeOK /\ SingleSender /\ [Next]_vars => SingleSender'
  BY SingleSenderStep
<1>. QED
  BY <1>1, <1>2, TypeCorrect, PTL DEF Spec

-----------------------------------------------------------------------------
(* The ledger.  What a process still holds is pending, and nobody else can  *)
(* settle it: that is what the flag is for.                                 *)

Holds(p) ==
  /\ pc[p] = "idle" => batch[p] = {}
  /\ pc[p] # "ack" => out[p] = {}
  /\ batch[p] \cup out[p] \subseteq Pending
  /\ batch[p] \cap out[p] = {}
  /\ out[p] \cap Stale = {}
  /\ p \in Pollers /\ pc[p] = "send" =>
       \E e \in Events \ Stale : IsFirst(e, batch[p])
  /\ p = Digester => batch[p] \cap Stale = {}

Holdings == \A p \in Procs : Holds(p)

\* Only one process holds anything.
LEMMA OthersHoldNothing ==
  ASSUME SingleSender, Holdings, NEW p \in Procs, pc[p] # "idle",
         NEW q \in Procs, q # p
  PROVE  pc[q] = "idle" /\ batch[q] = {} /\ out[q] = {}
<1>1. pc[q] = "idle"
  BY DEF SingleSender
<1>. QED
  BY <1>1 DEF Holdings, Holds

\* So a step of p has only its own holdings to answer for.
LEMMA OwnHoldings ==
  ASSUME SingleSender, Holdings, NEW p \in Procs, pc[p] # "idle", Holds(p)',
         \A q \in Procs \ {p} :
           pc'[q] = pc[q] /\ batch'[q] = batch[q] /\ out'[q] = out[q]
  PROVE  Holdings'
<1>1. ASSUME NEW q \in Procs, q # p PROVE Holds(q)'
  <2>1. pc'[q] = "idle" /\ batch'[q] = {} /\ out'[q] = {}
    BY <1>1, OthersHoldNothing
  <2>. QED
    BY <2>1 DEF Holds
<1>. QED
  BY <1>1 DEF Holdings

LEMMA LeaveHoldings ==
  ASSUME TypeOK, SingleSender, Holdings, NEW p \in Procs, pc[p] # "idle", Leave(p)
  PROVE  Holdings'
<1>1. Holds(p)'
  BY DEF Leave, Goto, TypeOK, Holds
<1>2. \A q \in Procs \ {p} :
        pc'[q] = pc[q] /\ batch'[q] = batch[q] /\ out'[q] = out[q]
  BY DEF Leave, Goto, TypeOK
<1>. QED
  BY <1>1, <1>2, OwnHoldings

\* A step of p to a label where no message is in hand.
LEMMA GotoHoldings ==
  ASSUME TypeOK, SingleSender, Holdings, NEW p \in Procs, pc[p] \notin {"idle", "ack"},
         NEW label \in Labels \ {"idle", "send"}, Goto(p, label),
         UNCHANGED <<row, batch, out>>
  PROVE  Holdings'
<1>1. Holds(p)'
  BY DEF Goto, TypeOK, Holds, Holdings, Pending
<1>2. \A q \in Procs \ {p} :
        pc'[q] = pc[q] /\ batch'[q] = batch[q] /\ out'[q] = out[q]
  BY DEF Goto, TypeOK
<1>. QED
  BY <1>1, <1>2, OwnHoldings

LEMMA FirstIsOne ==
  ASSUME NEW S \in SUBSET Events, NEW e, NEW f, IsFirst(e, S), IsFirst(f, S)
  PROVE  e = f
  BY NotifierAssumption DEF IsFirst

LEMMA SettledStays ==
  ASSUME TypeOK, NEW S, row' = Acked(S)
  PROVE  Pending' = Pending \ S
  BY DEF Acked, Pending, TypeOK

LEMMA PollerHoldings ==
  ASSUME TypeOK, SingleSender, Holdings, NEW p \in Pollers,
         PollerStep(p) \/ PollerSendFails(p)
  PROVE  Holdings'
<1>. p \in Procs /\ p # Digester
  BY NotifierAssumption DEF Procs
<1>. Holds(p)
  BY DEF Holdings
<1>1. CASE PollerReadsMode(p)
  <2>1. CASE Leave(p)
    BY <1>1, <2>1, LeaveHoldings DEF PollerReadsMode
  <2>2. CASE ~Leave(p)
    <3>1. Goto(p, "list") /\ UNCHANGED <<row, batch, out>>
      BY <1>1, <2>2 DEF PollerReadsMode, outbox
    <3>. QED
      BY <1>1, <3>1, GotoHoldings DEF PollerReadsMode, Labels
  <2>. QED
    BY <2>1, <2>2
<1>2. CASE PollerRereadsMode(p)
  <2>1. CASE Leave(p)
    BY <1>2, <2>1, LeaveHoldings DEF PollerRereadsMode
  <2>2. CASE ~Leave(p)
    <3>1. Goto(p, "send") /\ UNCHANGED <<row, batch, out>>
      BY <1>2, <2>2 DEF PollerRereadsMode, outbox
    <3>2. \E e \in Events \ Stale : IsFirst(e, batch'[p])
      BY <1>2, <3>1 DEF PollerRereadsMode
    <3>3. pc'[p] = "send" /\ pc[p] = "row" /\ Pending' = Pending
      BY <1>2, <3>1 DEF PollerRereadsMode, Goto, TypeOK, Pending
    <3>4. Holds(p)'
      BY <3>1, <3>2, <3>3 DEF Holds, IsFirst
    <3>. QED
      BY <1>2, <3>1, <3>4, OwnHoldings DEF PollerRereadsMode, Goto, TypeOK
  <2>. QED
    BY <2>1, <2>2
<1>3. CASE PollerDone(p)
  BY <1>3, LeaveHoldings DEF PollerDone
<1>4. CASE PollerLists(p)
  <2>1. Holds(p)'
    BY <1>4 DEF PollerLists, Goto, TypeOK, Holds, Pending, outbox
  <2>. QED
    BY <1>4, <2>1, OwnHoldings DEF PollerLists, Goto, TypeOK
<1>5. CASE PollerSuppresses(p)
  <2>1. PICK e \in Stale :
          row' = Acked({e}) /\ batch' = [batch EXCEPT ![p] = @ \ {e}]
    BY <1>5 DEF PollerSuppresses
  <2>2. batch'[p] = batch[p] \ {e} /\ Pending' = Pending \ {e}
        /\ UNCHANGED <<pc, out>> /\ pc[p] = "row"
    BY <1>5, <2>1, SettledStays DEF PollerSuppresses, TypeOK
  <2>3. Holds(p)'
    BY <2>2 DEF Holds
  <2>. QED
    BY <2>1, <2>2, <2>3, OwnHoldings DEF TypeOK
<1>6. CASE PollerSends(p)
  <2>1. PICK e \in Events :
          /\ IsFirst(e, batch[p])
          /\ out' = [out EXCEPT ![p] = {e}]
          /\ batch' = [batch EXCEPT ![p] = @ \ {e}]
    BY <1>6, Zenon DEF PollerSends
  <2>2. e \notin Stale /\ e \in batch[p]
    BY <1>6, <2>1, FirstIsOne DEF PollerSends, Holds, IsFirst, TypeOK
  <2>3. /\ batch'[p] = batch[p] \ {e} /\ out'[p] = {e} /\ Pending' = Pending
        /\ pc'[p] = "ack"
    BY <1>6, <2>1 DEF PollerSends, Goto, TypeOK, Pending, outbox
  <2>4. Holds(p)'
    BY <2>2, <2>3 DEF Holds
  <2>. QED
    BY <1>6, <2>1, <2>4, OwnHoldings DEF PollerSends, Goto, TypeOK
<1>7. CASE PollerSendFails(p)
  <2>1. PICK e \in Events : batch' = [batch EXCEPT ![p] = @ \ {e}]
    BY <1>7, Zenon DEF PollerSendFails
  <2>2. /\ batch'[p] = batch[p] \ {e} /\ out'[p] = {} /\ Pending' = Pending
        /\ pc'[p] = "row"
    BY <1>7, <2>1 DEF PollerSendFails, Goto, TypeOK, Pending, outbox, Holds
  <2>3. Holds(p)'
    BY <2>2 DEF Holds
  <2>. QED
    BY <1>7, <2>1, <2>3, OwnHoldings DEF PollerSendFails, Goto, TypeOK
<1>8. CASE PollerAcks(p)
  <2>1. Pending' = Pending \ out[p]
    BY <1>8, SettledStays DEF PollerAcks
  <2>2. batch'[p] = batch[p] /\ out'[p] = {} /\ pc'[p] = "row"
    BY <1>8 DEF PollerAcks, Goto, TypeOK
  <2>3. Holds(p)'
    BY <2>1, <2>2 DEF Holds
  <2>. QED
    BY <1>8, <2>3, OwnHoldings DEF PollerAcks, Goto, TypeOK
<1>. QED
  BY <1>1, <1>2, <1>3, <1>4, <1>5, <1>6, <1>7, <1>8 DEF PollerStep

LEMMA DigesterHoldings ==
  ASSUME TypeOK, SingleSender, Holdings, DigesterStep \/ DigesterSendFails
  PROVE  Holdings'
<1>. Digester \in Procs /\ Digester \notin Pollers
  BY NotifierAssumption DEF Procs
<1>. Holds(Digester)
  BY DEF Holdings
<1>1. CASE DigesterChecks
  <2>1. CASE Leave(Digester)
    BY <1>1, <2>1, LeaveHoldings DEF DigesterChecks
  <2>2. CASE ~Leave(Digester)
    <3>1. Goto(Digester, "list") /\ UNCHANGED <<row, batch, out>>
      BY <1>1, <2>2 DEF DigesterChecks, outbox
    <3>. QED
      BY <1>1, <3>1, GotoHoldings DEF DigesterChecks, Labels
  <2>. QED
    BY <2>1, <2>2
<1>2. CASE DigesterLists
  <2>1. /\ batch'[Digester] = Pending \ Stale /\ out'[Digester] = {}
        /\ Pending' = Pending /\ pc'[Digester] # "idle"
    BY <1>2 DEF DigesterLists, Goto, TypeOK, Pending, outbox, Holds
  <2>2. Holds(Digester)'
    BY <2>1 DEF Holds
  <2>. QED
    BY <1>2, <2>2, OwnHoldings DEF DigesterLists, Goto, TypeOK
<1>3. CASE DigesterRechecks
  <2>1. CASE Leave(Digester)
    BY <1>3, <2>1, LeaveHoldings DEF DigesterRechecks
  <2>2. CASE ~Leave(Digester)
    <3>1. Goto(Digester, "send") /\ UNCHANGED <<row, batch, out>>
      BY <1>3, <2>2 DEF DigesterRechecks, outbox
    <3>2. Holds(Digester)'
      BY <1>3, <3>1 DEF DigesterRechecks, Goto, TypeOK, Holds, Pending
    <3>. QED
      BY <1>3, <3>1, <3>2, OwnHoldings DEF DigesterRechecks, Goto, TypeOK
  <2>. QED
    BY <2>1, <2>2
<1>4. CASE DigesterSends
  <2>1. PICK S \in Chunks :
          /\ out' = [out EXCEPT ![Digester] = S]
          /\ batch' = [batch EXCEPT ![Digester] = @ \ S]
    BY <1>4, Zenon DEF DigesterSends
  <2>2. S \subseteq batch[Digester]
    BY DEF Chunks
  <2>3. /\ batch'[Digester] = batch[Digester] \ S /\ out'[Digester] = S
        /\ Pending' = Pending /\ pc'[Digester] = "ack"
    BY <1>4, <2>1 DEF DigesterSends, Goto, TypeOK, Pending, outbox
  <2>4. Holds(Digester)'
    BY <2>2, <2>3 DEF Holds
  <2>. QED
    BY <1>4, <2>1, <2>4, OwnHoldings DEF DigesterSends, Goto, TypeOK
<1>5. CASE DigesterSendFails
  BY <1>5, LeaveHoldings DEF DigesterSendFails
<1>6. CASE DigesterAcks
  <2>1. CASE Leave(Digester)
    BY <1>6, <2>1, LeaveHoldings DEF DigesterAcks
  <2>2. CASE ~Leave(Digester)
    <3>1. row' = Acked(out[Digester])
      BY <1>6, <2>2 DEF DigesterAcks, DigestAckEffect, MovesSlot, ChunkRows
    <3>2. Pending' = Pending \ out[Digester]
      BY <3>1, SettledStays
    <3>3. /\ batch'[Digester] = batch[Digester] /\ out'[Digester] = {}
          /\ pc'[Digester] = "send"
      BY <1>6, <2>2 DEF DigesterAcks, Goto, TypeOK
    <3>4. Holds(Digester)'
      BY <3>2, <3>3 DEF Holds
    <3>. QED
      BY <1>6, <2>2, <3>4, OwnHoldings DEF DigesterAcks, Goto, TypeOK
  <2>. QED
    BY <2>1, <2>2
<1>. QED
  BY <1>1, <1>2, <1>3, <1>4, <1>5, <1>6 DEF DigesterStep

LEMMA HoldingsStep ==
  ASSUME TypeOK, SingleSender, Holdings, [Next]_vars PROVE Holdings'
<1>1. ASSUME NEW p \in Procs, Acquire(p) PROVE Holdings'
  <2>1. ASSUME NEW q \in Procs PROVE Holds(q)'
    <3>1. Holds(q) /\ UNCHANGED <<row, batch, out>>
      BY <1>1 DEF Holdings, Acquire, outbox
    <3>2. pc[p] = "idle" /\ pc' = [pc EXCEPT ![p] = "settings"]
      BY <1>1 DEF Acquire, Goto
    <3>3. q # p => pc'[q] = pc[q]
      BY <3>2 DEF TypeOK
    <3>4. q = p => pc[q] = "idle" /\ pc'[q] = "settings"
      BY <3>2 DEF TypeOK
    <3>5. CASE q # p
      BY <3>1, <3>3, <3>5 DEF Holds, Pending, IsFirst
    <3>6. CASE q = p
      BY <3>1, <3>4, <3>6 DEF Holds, Pending
    <3>. QED
      BY <3>5, <3>6
  <2>. QED
    BY <2>1 DEF Holdings
<1>2. ASSUME NEW p \in Procs, ReadFails(p) \/ AckFails(p) \/ AckCancelled(p)
      PROVE  Holdings'
  BY <1>2, LeaveHoldings DEF ReadFails, AckFails, AckCancelled
<1>3. CASE Crash
  <2>1. \A p \in Procs : pc'[p] = "idle" /\ batch'[p] = {} /\ out'[p] = {}
    BY <1>3 DEF Crash
  <2>. QED
    BY <2>1 DEF Holdings, Holds
<1>4. ASSUME NEW e \in Events, NEW how \in {"pending", "seeded"}, Record(e, how)
      PROVE  Holdings'
  <2>1. Pending \subseteq Pending' /\ UNCHANGED <<pc, batch, out>>
    BY <1>4 DEF Record, Pending, TypeOK, passVars
  <2>. QED
    BY <2>1 DEF Holdings, Holds, IsFirst
<1>5. ASSUME UNCHANGED <<row, pc, batch, out>> PROVE Holdings'
  BY <1>5 DEF Holdings, Holds, Pending, IsFirst
<1>6. CASE Cancel \/ Tick \/ Restart \/ UNCHANGED vars
           \/ \E enabled \in BOOLEAN, cadence \in Cadences : Update(enabled, cadence)
  BY <1>6, <1>5 DEF Cancel, Tick, Restart, Update, vars, outbox, passVars
<1>. QED
  BY <1>1, <1>2, <1>3, <1>4, <1>6, PollerHoldings, DigesterHoldings
  DEF Next, Failure, Environment

LEMMA HoldingsInit == Init => Holdings
  BY DEF Init, Holdings, Holds

-----------------------------------------------------------------------------
(* What any step does to the books: the outbox, the messages in hand, the   *)
(* copies on Discord and the excuses for more of them.                      *)

Books == <<row, out, copies, excuse>>

Records ==
  /\ \E e \in Events, how \in {"pending", "seeded"} :
       row[e] = "absent" /\ row' = [row EXCEPT ![e] = how]
  /\ UNCHANGED <<out, copies, excuse>>

\* Discord accepted S and the sender knows it.
Announces(p, S) ==
  /\ (\A q \in Procs : out[q] = {}) /\ out' = [out EXCEPT ![p] = S]
  /\ copies' = Bump(copies, S)
  /\ UNCHANGED <<row, excuse>>

\* Discord accepted S and the answer was lost.
AnnouncesUnheard(S) ==
  /\ copies' = Bump(copies, S) /\ excuse' = Bump(excuse, S)
  /\ UNCHANGED <<row, out>>

\* What p has in hand is settled, with nothing but stale rows besides.
Settles(p, S) ==
  /\ out[p] \subseteq S /\ S \subseteq out[p] \cup Stale
  /\ row' = Acked(S) /\ out' = [out EXCEPT ![p] = {}]
  /\ UNCHANGED <<copies, excuse>>

\* What p has in hand is lost.
Forgets(p) ==
  /\ excuse' = Bump(excuse, out[p]) /\ out' = [out EXCEPT ![p] = {}]
  /\ UNCHANGED <<row, copies>>

ForgetsAll ==
  /\ excuse' = Bump(excuse, UNION {out[p] : p \in Procs})
  /\ out' = [p \in Procs |-> {}]
  /\ UNCHANGED <<row, copies>>

BookStep ==
  \/ UNCHANGED Books
  \/ Records
  \/ \E p \in Procs, S \in SUBSET (Pending \ Stale) :
       Announces(p, S) \/ AnnouncesUnheard(S)
  \/ \E p \in Procs, S \in SUBSET Events : Settles(p, S)
  \/ \E p \in Procs : Forgets(p)
  \/ ForgetsAll

\* Leaving with nothing in hand leaves every hand as it was.
LEMMA LeaveEmptyHanded ==
  ASSUME TypeOK, Holdings, NEW p \in Procs, pc[p] # "ack", Leave(p)
  PROVE  out' = out
<1>1. out[p] = {}
  BY DEF Holdings, Holds
<1>. QED
  BY <1>1 DEF Leave, TypeOK

LEMMA NoneInHand ==
  ASSUME SingleSender, Holdings, NEW p \in Procs, pc[p] = "send"
  PROVE  \A q \in Procs : out[q] = {}
  BY OthersHoldNothing DEF Holdings, Holds

LEMMA PollerBooks ==
  ASSUME TypeOK, SingleSender, Holdings, NEW p \in Pollers,
         PollerStep(p) \/ PollerSendFails(p)
  PROVE  BookStep
<1>. p \in Procs
  BY DEF Procs
<1>. Holds(p)
  BY DEF Holdings
<1>1. CASE PollerReadsMode(p) \/ PollerRereadsMode(p) \/ PollerDone(p)
  <2>1. out' = out
    BY <1>1, LeaveEmptyHanded DEF PollerReadsMode, PollerRereadsMode, PollerDone
  <2>. QED
    BY <1>1, <2>1
    DEF PollerReadsMode, PollerRereadsMode, PollerDone, outbox, observed,
        BookStep, Books
<1>2. CASE PollerLists(p)
  BY <1>2 DEF PollerLists, outbox, observed, BookStep, Books
<1>3. CASE PollerSuppresses(p)
  <2>1. PICK e \in Stale : row' = Acked({e})
    BY <1>3 DEF PollerSuppresses
  <2>2. pc[p] = "row" /\ out[p] = {} /\ UNCHANGED <<out, copies, excuse>>
    BY <1>3 DEF PollerSuppresses, Holds, observed
  <2>3. out' = [out EXCEPT ![p] = {}]
    BY <2>2 DEF TypeOK
  <2>4. Settles(p, {e}) /\ {e} \in SUBSET Events
    BY <2>1, <2>2, <2>3, NotifierAssumption DEF Settles
  <2>. QED
    BY <2>4 DEF BookStep
<1>4. CASE PollerSends(p)
  <2>1. PICK e \in Events :
          /\ IsFirst(e, batch[p])
          /\ Shown(p, {e})
          /\ out' = [out EXCEPT ![p] = {e}]
    BY <1>4, Zenon DEF PollerSends
  <2>2. e \in Pending \ Stale
    BY <1>4, <2>1, FirstIsOne DEF PollerSends, Holds, IsFirst, TypeOK
  <2>3. Announces(p, {e})
    BY <1>4, <2>1, NoneInHand DEF PollerSends, Shown, Announces, outbox
  <2>. QED
    BY <2>2, <2>3 DEF BookStep
<1>5. CASE PollerSendFails(p)
  <2>1. PICK e \in Events :
          /\ IsFirst(e, batch[p])
          /\ \/ UNCHANGED observed
             \/ Shown(p, {e}) /\ excuse' = Bump(excuse, {e})
    BY <1>5, Zenon DEF PollerSendFails
  <2>2. e \in Pending \ Stale
    BY <1>5, <2>1, FirstIsOne DEF PollerSendFails, Holds, IsFirst, TypeOK
  <2>3. UNCHANGED Books \/ AnnouncesUnheard({e})
    BY <1>5, <2>1
    DEF PollerSendFails, Shown, AnnouncesUnheard, Books, outbox, observed
  <2>. QED
    BY <2>2, <2>3 DEF BookStep
<1>6. CASE PollerAcks(p)
  <2>1. Settles(p, out[p]) /\ out[p] \in SUBSET Events
    BY <1>6 DEF PollerAcks, Settles, observed, TypeOK
  <2>. QED
    BY <2>1 DEF BookStep
<1>. QED
  BY <1>1, <1>2, <1>3, <1>4, <1>5, <1>6 DEF PollerStep

LEMMA DigestAckSettles ==
  ASSUME TypeOK, DigestAckEffect, out' = [out EXCEPT ![Digester] = {}],
         UNCHANGED <<copies, excuse>>
  PROVE  BookStep
<1>. DEFINE S == IF MovesSlot THEN ChunkRows \cup (dig.listed \cap Stale)
                             ELSE ChunkRows
<1>1. Settles(Digester, S)
  BY DEF DigestAckEffect, Settles, ChunkRows
<1>2. Digester \in Procs /\ S \in SUBSET Events
  BY DEF Procs, ChunkRows, TypeOK, Runs
<1>. HIDE DEF S
<1>. QED
  BY <1>1, <1>2 DEF BookStep

LEMMA DigesterBooks ==
  ASSUME TypeOK, SingleSender, Holdings, DigesterStep \/ DigesterSendFails
  PROVE  BookStep
<1>. Digester \in Procs
  BY DEF Procs
<1>. Holds(Digester)
  BY DEF Holdings
<1>1. CASE DigesterChecks \/ DigesterLists \/ DigesterRechecks
  <2>1. out' = out
    BY <1>1, LeaveEmptyHanded DEF DigesterChecks, DigesterLists, DigesterRechecks
  <2>. QED
    BY <1>1, <2>1
    DEF DigesterChecks, DigesterLists, DigesterRechecks, outbox, observed,
        BookStep, Books
<1>2. CASE DigesterSends
  <2>1. PICK S \in Chunks :
          Shown(Digester, S) /\ out' = [out EXCEPT ![Digester] = S]
    BY <1>2, Zenon DEF DigesterSends
  <2>2. S \in SUBSET (Pending \ Stale)
    BY DEF Chunks, Holds
  <2>3. Announces(Digester, S)
    BY <1>2, <2>1, NoneInHand DEF DigesterSends, Shown, Announces, outbox
  <2>. QED
    BY <2>2, <2>3 DEF BookStep
<1>3. CASE DigesterSendFails
  <2>1. out' = out /\ row' = row
    BY <1>3, LeaveEmptyHanded DEF DigesterSendFails, outbox
  <2>2. CASE UNCHANGED observed
    BY <2>1, <2>2 DEF observed, BookStep, Books
  <2>3. CASE \E S \in Chunks : Shown(Digester, S) /\ excuse' = Bump(excuse, S)
    <3>1. PICK S \in Chunks : Shown(Digester, S) /\ excuse' = Bump(excuse, S)
      BY <2>3
    <3>2. S \in SUBSET (Pending \ Stale)
      BY DEF Chunks, Holds
    <3>3. AnnouncesUnheard(S)
      BY <2>1, <3>1 DEF Shown, AnnouncesUnheard
    <3>. QED
      BY <3>2, <3>3 DEF BookStep
  <2>. QED
    BY <1>3, <2>2, <2>3, Zenon DEF DigesterSendFails
<1>4. CASE DigesterAcks
  <2>1. out' = [out EXCEPT ![Digester] = {}]
    BY <1>4 DEF DigesterAcks, Leave
  <2>. QED
    BY <1>4, <2>1, DigestAckSettles DEF DigesterAcks, observed
<1>. QED
  BY <1>1, <1>2, <1>3, <1>4 DEF DigesterStep

LEMMA StepIsBookStep ==
  ASSUME TypeOK, SingleSender, Holdings, [Next]_vars PROVE BookStep
<1>1. ASSUME NEW p \in Procs, ReadFails(p) PROVE BookStep
  <2>1. out' = out
    BY <1>1, LeaveEmptyHanded DEF ReadFails
  <2>. QED
    BY <1>1, <2>1 DEF ReadFails, outbox, observed, BookStep, Books
<1>2. ASSUME NEW p \in Procs, AckFails(p) PROVE BookStep
  <2>1. out' = [out EXCEPT ![p] = {}] /\ copies' = copies
    BY <1>2 DEF AckFails, Leave
  <2>2. CASE p = Digester /\ DigestAckEffect /\ UNCHANGED excuse
    BY <2>1, <2>2, DigestAckSettles
  <2>3. CASE p # Digester /\ row' = Acked(out[p]) /\ UNCHANGED excuse
    <3>1. Settles(p, out[p]) /\ out[p] \in SUBSET Events
      BY <2>1, <2>3 DEF Settles, TypeOK
    <3>. QED
      BY <3>1 DEF BookStep
  <2>4. CASE UNCHANGED outbox /\ excuse' = Bump(excuse, out[p])
    BY <2>1, <2>4 DEF Forgets, BookStep, outbox
  <2>. QED
    BY <1>2, <2>2, <2>3, <2>4 DEF AckFails
<1>3. ASSUME NEW p \in Procs, AckCancelled(p) PROVE BookStep
  <2>1. p \in Pollers
    BY <1>3 DEF AckCancelled, AckOutlivesCancel, Procs
  <2>2. Forgets(p)
    BY <1>3, <2>1 DEF AckCancelled, Leave, Forgets, outbox
  <2>. QED
    BY <2>2 DEF BookStep
<1>4. CASE Crash
  BY <1>4 DEF Crash, ForgetsAll, BookStep, outbox
<1>5. ASSUME NEW e \in Events, NEW how \in {"pending", "seeded"}, Record(e, how)
      PROVE  BookStep
  BY <1>5 DEF Record, Records, BookStep, passVars, observed
<1>6. CASE UNCHANGED vars \/ Cancel \/ Tick \/ Restart
           \/ (\E p \in Procs : Acquire(p))
           \/ \E enabled \in BOOLEAN, cadence \in Cadences : Update(enabled, cadence)
  <2>1. UNCHANGED Books
    BY <1>6
    DEF vars, outbox, passVars, observed, Cancel, Tick, Restart, Acquire, Update,
        Books
  <2>. QED
    BY <2>1 DEF BookStep
<1>. QED
  BY <1>1, <1>2, <1>3, <1>4, <1>5, <1>6, PollerBooks, DigesterBooks
  DEF Next, Failure, Environment

\* Copies against settled rows and excuses.
Accounts ==
  \A e \in Events :
    /\ row[e] \in {"absent", "seeded"} \/ e \in Stale => copies[e] = 0
    /\ row[e] = "acked" /\ e \notin Stale => copies[e] >= 1
    /\ \A p \in Procs : e \in out[p] => copies[e] >= 1

LEMMA AccountsStep ==
  ASSUME TypeOK, Accounts, DuplicatesAreExcused, BookStep
  PROVE  Accounts' /\ DuplicatesAreExcused'
<1>. USE DEF Accounts, DuplicatesAreExcused
<1>1. CASE UNCHANGED Books
  BY <1>1 DEF Books
<1>2. CASE Records
  BY <1>2 DEF Records, TypeOK
<1>3. ASSUME NEW p \in Procs, NEW S \in SUBSET (Pending \ Stale), Announces(p, S)
      PROVE  Accounts' /\ DuplicatesAreExcused'
  <2>1. \A e \in Events : copies'[e] = IF e \in S THEN copies[e] + 1 ELSE copies[e]
    BY <1>3 DEF Announces, Bump
  <2>2. \A e \in S : e \in Events /\ row[e] = "pending" /\ e \notin Stale
                   /\ copies[e] <= excuse[e]
    BY <1>3 DEF Announces, Pending
  <2>3. \A q \in Procs : out'[q] = IF q = p THEN S ELSE {}
    BY <1>3 DEF Announces, TypeOK
  <2>4. Accounts'
    BY <1>3, <2>1, <2>2, <2>3 DEF Announces, TypeOK
  <2>5. DuplicatesAreExcused'
    BY <1>3, <2>1, <2>2, <2>3 DEF Announces, TypeOK
  <2>. QED
    BY <2>4, <2>5
<1>4. ASSUME NEW S \in SUBSET (Pending \ Stale), AnnouncesUnheard(S)
      PROVE  Accounts' /\ DuplicatesAreExcused'
  <2>1. \A e \in Events :
          /\ copies'[e] = IF e \in S THEN copies[e] + 1 ELSE copies[e]
          /\ excuse'[e] = IF e \in S THEN excuse[e] + 1 ELSE excuse[e]
    BY <1>4 DEF AnnouncesUnheard, Bump
  <2>. QED
    BY <1>4, <2>1 DEF AnnouncesUnheard, Pending, TypeOK
<1>5. ASSUME NEW p \in Procs, NEW S \in SUBSET Events, Settles(p, S)
      PROVE  Accounts' /\ DuplicatesAreExcused'
  <2>1. \A e \in Events :
          row'[e] = IF e \in S /\ row[e] = "pending" THEN "acked" ELSE row[e]
    BY <1>5 DEF Settles, Acked
  <2>2. \A q \in Procs : out'[q] = IF q = p THEN {} ELSE out[q]
    BY <1>5 DEF Settles, TypeOK
  <2>3. out[p] \subseteq S /\ S \subseteq out[p] \cup Stale
        /\ UNCHANGED <<copies, excuse>>
    BY <1>5 DEF Settles
  <2>4. Accounts'
    BY <2>1, <2>2, <2>3 DEF TypeOK
  <2>5. DuplicatesAreExcused'
    BY <2>1, <2>2, <2>3 DEF TypeOK
  <2>. QED
    BY <2>4, <2>5
<1>6. ASSUME NEW p \in Procs, Forgets(p)
      PROVE  Accounts' /\ DuplicatesAreExcused'
  <2>1. \A e \in Events :
          excuse'[e] = IF e \in out[p] THEN excuse[e] + 1 ELSE excuse[e]
    BY <1>6 DEF Forgets, Bump
  <2>2. \A q \in Procs : out'[q] = IF q = p THEN {} ELSE out[q]
    BY <1>6 DEF Forgets, TypeOK
  <2>. QED
    BY <1>6, <2>1, <2>2 DEF Forgets, TypeOK
<1>7. CASE ForgetsAll
  <2>1. \A e \in Events :
          excuse'[e] = IF \E p \in Procs : e \in out[p]
                       THEN excuse[e] + 1 ELSE excuse[e]
    BY <1>7 DEF ForgetsAll, Bump
  <2>. QED
    BY <1>7, <2>1 DEF ForgetsAll, TypeOK
<1>. QED
  BY <1>1, <1>2, <1>3, <1>4, <1>5, <1>6, <1>7 DEF BookStep

LEMMA AccountsInit == Init => Accounts /\ DuplicatesAreExcused
  BY DEF Init, Accounts, DuplicatesAreExcused

LEMMA LedgerCorrect == Spec => [](Holdings /\ Accounts /\ DuplicatesAreExcused)
<1>1. TypeOK /\ SingleSender /\ Holdings /\ Accounts /\ DuplicatesAreExcused
        /\ [Next]_vars => Holdings' /\ Accounts' /\ DuplicatesAreExcused'
  BY HoldingsStep, StepIsBookStep, AccountsStep
<1>. QED
  BY <1>1, HoldingsInit, AccountsInit, TypeCorrect, SenderExclusion, PTL DEF Spec

\* No row is acked without having been announced, and no stale row ever is
\* (ADR 0003: a digest acks what it sent): with any number of chunks, a run
\* that was capped, failed or lost its answer included.
THEOREM NothingForgotten == Spec => []AckedWasAnnounced
<1>1. Accounts => AckedWasAnnounced
  BY DEF Accounts, AckedWasAnnounced
<1>. QED
  BY <1>1, LedgerCorrect, PTL

\* At least once, and more often only with an excuse: a lost answer, a failed
\* ack, a crash, a shutdown in the middle of a real-time ack.
THEOREM OnlyExcusedDuplicates == Spec => []DuplicatesAreExcused
  BY LedgerCorrect, PTL

-----------------------------------------------------------------------------
(* The slot record                                                         *)

\* Every row a digest run listed is settled, in hand or stale.
DigestListed ==
  pc[Digester] \in {"recheck", "send", "ack"} =>
    \A e \in dig.listed :
      row[e] = "acked" \/ e \in batch[Digester] \cup out[Digester] \cup Stale

LEMMA AckedStays ==
  ASSUME TypeOK, BookStep, NEW e \in Events, row[e] = "acked"
  PROVE  row'[e] = "acked"
  BY DEF BookStep, Books, Records, Announces, AnnouncesUnheard, Settles, Acked,
         Forgets, ForgetsAll, TypeOK

LEMMA PollerLeavesDigest ==
  ASSUME TypeOK, SingleSender, NEW p \in Procs, p # Digester, pc[p] # "idle",
         Leave(p) \/ \E label \in Labels : Goto(p, label)
  PROVE  pc'[Digester] = "idle"
<1>1. pc[Digester] = "idle" /\ Digester \in Procs
  BY DEF SingleSender, Procs
<1>. QED
  BY <1>1 DEF Leave, Goto, TypeOK

LEMMA DigestListedStep ==
  ASSUME TypeOK, TypeOK', SingleSender, Holdings, DigestListed, [Next]_vars
  PROVE  DigestListed'
<1>. Digester \in Procs /\ Digester \notin Pollers /\ Pollers \subseteq Procs
  BY NotifierAssumption DEF Procs
<1>0. \A e \in Events : row[e] = "acked" => row'[e] = "acked"
  BY StepIsBookStep, AckedStays
<1>1. ASSUME NEW p \in Procs, Acquire(p) PROVE DigestListed'
  <2>1. pc'[Digester] \notin {"recheck", "send", "ack"}
    <3>1. \A q \in Procs : pc[q] = "idle"
      BY <1>1 DEF Acquire, CanAcquire, SingleSender
    <3>2. pc' = [pc EXCEPT ![p] = "settings"]
      BY <1>1 DEF Acquire, Goto
    <3>. QED
      BY <3>1, <3>2 DEF TypeOK
  <2>. QED
    BY <2>1 DEF DigestListed
<1>2. ASSUME NEW p \in Pollers, PollerStep(p) \/ PollerSendFails(p)
      PROVE  DigestListed'
  <2>1. CASE PollerSuppresses(p)
    <3>1. pc[p] # "idle" /\ pc' = pc
      BY <2>1 DEF PollerSuppresses
    <3>. QED
      BY <3>1 DEF SingleSender, DigestListed
  <2>2. CASE ~PollerSuppresses(p)
    <3>1. pc[p] # "idle" /\ (Leave(p) \/ \E label \in Labels : Goto(p, label))
      BY <1>2, <2>2
      DEF PollerStep, PollerReadsMode, PollerLists, PollerRereadsMode, PollerSends,
          PollerSendFails, PollerAcks, PollerDone, Labels
    <3>. QED
      BY <3>1, PollerLeavesDigest DEF DigestListed
  <2>. QED
    BY <2>1, <2>2
<1>3. ASSUME Leave(Digester) PROVE DigestListed'
  BY <1>3 DEF Leave, Goto, TypeOK, DigestListed
<1>4. CASE DigesterStep \/ DigesterSendFails
  <2>1. CASE DigesterChecks
    BY <2>1, <1>3 DEF DigesterChecks, Goto, TypeOK, DigestListed
  <2>2. CASE DigesterLists
    <3>1. dig'.listed = Pending /\ batch'[Digester] = Pending \ Stale
      BY <2>2 DEF DigesterLists, TypeOK, Runs
    <3>. QED
      BY <3>1 DEF DigestListed
  <2>3. CASE DigesterRechecks
    <3>1. CASE Leave(Digester)
      BY <3>1, <1>3
    <3>2. CASE ~Leave(Digester)
      BY <2>3, <3>2 DEF DigesterRechecks, DigestListed, outbox
    <3>. QED
      BY <3>1, <3>2
  <2>4. CASE DigesterSends
    <3>1. PICK S \in Chunks :
            /\ out' = [out EXCEPT ![Digester] = S]
            /\ batch' = [batch EXCEPT ![Digester] = @ \ S]
      BY <2>4, Zenon DEF DigesterSends
    <3>2. /\ out'[Digester] = S /\ batch'[Digester] = batch[Digester] \ S
          /\ out[Digester] = {}
      BY <2>4, <3>1 DEF DigesterSends, TypeOK, Holdings, Holds
    <3>3. dig'.listed = dig.listed /\ row' = row /\ pc[Digester] = "send"
      BY <2>4 DEF DigesterSends, TypeOK, Runs, outbox
    <3>. QED
      BY <3>2, <3>3 DEF DigestListed
  <2>5. CASE DigesterSendFails
    BY <2>5, <1>3 DEF DigesterSendFails
  <2>6. CASE DigesterAcks
    <3>1. CASE Leave(Digester)
      BY <3>1, <1>3
    <3>2. CASE ~Leave(Digester)
      <4>1. row' = Acked(out[Digester])
        BY <2>6, <3>2 DEF DigesterAcks, DigestAckEffect, MovesSlot, ChunkRows
      <4>2. \A e \in out[Digester] : row'[e] = "acked"
        BY <4>1 DEF Acked, Holdings, Holds, Pending
      <4>3. dig' = dig /\ batch' = batch /\ pc[Digester] = "ack"
        BY <2>6, <3>2 DEF DigesterAcks
      <4>4. dig.listed \subseteq Events
        BY DEF TypeOK, Runs
      <4>. QED
        BY <4>2, <4>3, <4>4, <1>0 DEF DigestListed
    <3>. QED
      BY <3>1, <3>2
  <2>. QED
    BY <1>4, <2>1, <2>2, <2>3, <2>4, <2>5, <2>6 DEF DigesterStep
<1>5. ASSUME NEW p \in Procs, ReadFails(p) \/ AckFails(p) \/ AckCancelled(p)
      PROVE  DigestListed'
  <2>1. pc[p] # "idle" /\ Leave(p)
    BY <1>5 DEF ReadFails, AckFails, AckCancelled
  <2>. QED
    BY <2>1, <1>3, PollerLeavesDigest DEF DigestListed
<1>6. CASE Crash
  BY <1>6 DEF Crash, DigestListed
<1>7. ASSUME UNCHANGED <<pc, batch, out, dig>> PROVE DigestListed'
  <2>1. dig.listed \subseteq Events
    BY DEF TypeOK, Runs
  <2>. QED
    BY <1>0, <1>7, <2>1 DEF DigestListed
<1>8. CASE UNCHANGED vars \/ Cancel \/ Environment
  BY <1>8, <1>7
  DEF vars, passVars, Cancel, Environment, Record, Update, Tick, Restart
<1>. QED
  BY <1>1, <1>2, <1>4, <1>5, <1>6, <1>8 DEF Next, Failure

LEMMA DigestAckDrains ==
  ASSUME TypeOK, DigestListed, pc[Digester] = "ack", DigestAckEffect
  PROVE  DrainedIfMoved
<1>1. CASE MovesSlot
  <2>1. row' = Acked(out[Digester] \cup (dig.listed \cap Stale))
    BY <1>1 DEF DigestAckEffect, ChunkRows
  <2>2. \A e \in dig.listed :
          row[e] = "acked" \/ e \in out[Digester] \cup Stale
    BY <1>1 DEF DigestListed, MovesSlot, RunComplete
  <2>3. Pending' = Pending \ (out[Digester] \cup (dig.listed \cap Stale))
    BY <2>1, SettledStays
  <2>4. \A e \in Pending : row[e] # "acked"
    BY DEF Pending
  <2>5. dig.listed \cap Pending' = {}
    BY <2>2, <2>3, <2>4
  <2>. QED
    BY <2>5 DEF DrainedIfMoved
<1>2. CASE ~MovesSlot
  BY <1>2 DEF DigestAckEffect, DrainedIfMoved
<1>. QED
  BY <1>1, <1>2

LEMMA DrainedStep ==
  ASSUME TypeOK, DigestListed, [Next]_vars PROVE DrainedIfMoved
<1>1. CASE UNCHANGED cfg
  BY <1>1 DEF DrainedIfMoved
<1>2. CASE DigesterAcks
  BY <1>2, DigestAckDrains DEF DigesterAcks
<1>3. ASSUME NEW p \in Procs, AckFails(p) PROVE DrainedIfMoved
  BY <1>3, <1>1, DigestAckDrains DEF AckFails, outbox
<1>4. ASSUME NEW enabled \in BOOLEAN, NEW cadence \in Cadences,
             Update(enabled, cadence)
      PROVE  DrainedIfMoved
  <2>1. cfg'.enabled = enabled /\ cfg'.cadence = cadence
        /\ cfg'.lastSent = cfg.lastSent
    BY <1>4 DEF Update, UpdatedSettings, TypeOK, Settings
  <2>2. enabled = cfg.enabled /\ cadence = cfg.cadence => cfg'.lastSlot = cfg.lastSlot
    BY <1>4 DEF Update, UpdatedSettings, TypeOK, Settings
  <2>. QED
    BY <2>1, <2>2 DEF DrainedIfMoved
<1>5. ASSUME NEW p \in Pollers, PollerStep(p) \/ PollerSendFails(p)
      PROVE  UNCHANGED cfg
  BY <1>5
  DEF PollerStep, PollerReadsMode, PollerLists, PollerSuppresses,
      PollerRereadsMode, PollerSends, PollerSendFails, PollerAcks, PollerDone,
      outbox
<1>6. CASE DigesterChecks \/ DigesterLists \/ DigesterRechecks \/ DigesterSends
           \/ DigesterSendFails
  BY <1>6, <1>1
  DEF DigesterChecks, DigesterLists, DigesterRechecks, DigesterSends,
      DigesterSendFails, outbox
<1>7. ASSUME NEW p \in Procs, Acquire(p) \/ ReadFails(p) \/ AckCancelled(p)
      PROVE  UNCHANGED cfg
  BY <1>7 DEF Acquire, ReadFails, AckCancelled, outbox
<1>8. CASE UNCHANGED vars \/ Cancel \/ Crash \/ Tick \/ Restart
           \/ \E e \in Events, how \in {"pending", "seeded"} : Record(e, how)
  BY <1>8, <1>1 DEF vars, Cancel, Crash, Tick, Restart, Record, outbox
<1>. QED
  BY <1>1, <1>2, <1>3, <1>4, <1>5, <1>6, <1>7, <1>8
  DEF Next, DigesterStep, Failure, Environment

\* The slot record and the watermark move only for a run that drained all it
\* listed, under every cap and every failure (digest.go, the final ack).
THEOREM SlotMovesOnceDrained == Spec => CompletionMeansDrained
<1>1. Init => DigestListed
  BY DEF Init, DigestListed, Procs
<1>2. TypeOK /\ TypeOK' /\ SingleSender /\ Holdings /\ DigestListed /\ [Next]_vars
        => DigestListed'
  BY DigestListedStep
<1>3. TypeOK /\ DigestListed /\ [Next]_vars => [DrainedIfMoved]_vars
  BY DrainedStep
<1>. QED
  BY <1>1, <1>2, <1>3, TypeCorrect, SenderExclusion, LedgerCorrect, PTL
  DEF Spec, CompletionMeansDrained

-----------------------------------------------------------------------------
(* The residual of ADR 0002                                                *)

\* Only a message already past its re-read can leak, and while one is there
\* none has leaked since the mode went on.
NoLeakYet ==
  /\ leaked <= 1
  /\ ~cfg.enabled \/ (\E p \in Pollers : pc[p] = "send") => leaked = 0

LEMMA LeakFrame ==
  ASSUME NoLeakYet, leaked' = leaked, cfg'.enabled = cfg.enabled,
         \A p \in Pollers : pc'[p] = "send" => pc[p] = "send"
  PROVE  NoLeakYet'
  BY DEF NoLeakYet

\* A step of p that neither shows a message nor enters "send".
LEMMA QuietLeak ==
  ASSUME TypeOK, NoLeakYet, leaked' = leaked, cfg'.enabled = cfg.enabled,
         NEW p \in Procs,
         Leave(p) \/ \E label \in Labels : Goto(p, label) /\ (p \in Pollers => label # "send")
  PROVE  NoLeakYet'
<1>1. \A q \in Pollers : pc'[q] = "send" => pc[q] = "send"
  BY DEF Leave, Goto, TypeOK, Procs
<1>. QED
  BY <1>1, LeakFrame

LEMMA PollerLeak ==
  ASSUME TypeOK, SingleSender, NoLeakYet, NEW p \in Pollers,
         PollerStep(p) \/ PollerSendFails(p)
  PROVE  NoLeakYet'
<1>. p \in Procs /\ Pollers \subseteq Procs
  BY DEF Procs
<1>1. CASE PollerReadsMode(p) \/ PollerLists(p) \/ PollerAcks(p) \/ PollerDone(p)
  <2>1. leaked' = leaked /\ cfg' = cfg
    BY <1>1
    DEF PollerReadsMode, PollerLists, PollerAcks, PollerDone, outbox, observed
  <2>2. Leave(p) \/ \E label \in Labels : Goto(p, label) /\ label # "send"
    BY <1>1 DEF PollerReadsMode, PollerLists, PollerAcks, PollerDone, Labels
  <2>. QED
    BY <2>1, <2>2, QuietLeak
<1>2. CASE PollerSuppresses(p)
  BY <1>2, LeakFrame DEF PollerSuppresses, observed
<1>3. CASE PollerRereadsMode(p)
  <2>1. leaked' = leaked /\ cfg' = cfg
    BY <1>3 DEF PollerRereadsMode, outbox, observed
  <2>2. CASE Leave(p)
    BY <2>1, <2>2, QuietLeak
  <2>3. CASE ~Leave(p)
    <3>1. ~cfg.enabled
      BY <1>3, <2>3 DEF PollerRereadsMode, StopsForDigestMode
    <3>. QED
      BY <2>1, <3>1 DEF NoLeakYet
  <2>. QED
    BY <2>2, <2>3
<1>4. CASE PollerSends(p) \/ PollerSendFails(p)
  <2>1. leaked = 0 /\ cfg' = cfg
    BY <1>4 DEF PollerSends, PollerSendFails, NoLeakYet, outbox
  <2>2. leaked' = leaked \/ leaked' = IF cfg.enabled THEN leaked + 1 ELSE leaked
    BY <1>4, Zenon DEF PollerSends, PollerSendFails, Shown, observed
  <2>3. \A q \in Pollers : pc'[q] # "send"
    <3>1. pc[p] = "send" /\ (Goto(p, "ack") \/ Goto(p, "row"))
      BY <1>4 DEF PollerSends, PollerSendFails
    <3>2. \A q \in Procs : q # p => pc[q] = "idle"
      BY <3>1 DEF SingleSender
    <3>. QED
      BY <3>1, <3>2 DEF Goto, TypeOK
  <2>. QED
    BY <2>1, <2>2, <2>3 DEF NoLeakYet
<1>. QED
  BY <1>1, <1>2, <1>3, <1>4 DEF PollerStep

LEMMA DigesterLeak ==
  ASSUME TypeOK, NoLeakYet, DigesterStep \/ DigesterSendFails
  PROVE  NoLeakYet'
<1>. Digester \in Procs /\ Digester \notin Pollers
  BY NotifierAssumption DEF Procs
<1>1. leaked' = leaked
  BY Zenon
  DEF DigesterStep, DigesterChecks, DigesterLists, DigesterRechecks,
      DigesterSends, DigesterSendFails, DigesterAcks, Shown, observed
<1>2. cfg'.enabled = cfg.enabled
  <2>1. CASE DigesterAcks
    BY <2>1 DEF DigesterAcks, DigestAckEffect, TypeOK, Settings
  <2>2. CASE ~DigesterAcks
    BY <2>2
    DEF DigesterStep, DigesterChecks, DigesterLists, DigesterRechecks,
        DigesterSends, DigesterSendFails, outbox
  <2>. QED
    BY <2>1, <2>2
<1>3. Leave(Digester) \/ \E label \in Labels : Goto(Digester, label)
  BY DEF DigesterStep, DigesterChecks, DigesterLists, DigesterRechecks,
         DigesterSends, DigesterSendFails, DigesterAcks, Labels
<1>. QED
  BY <1>1, <1>2, <1>3, QuietLeak

LEMMA NoLeakStep ==
  ASSUME TypeOK, SingleSender, NoLeakYet, [Next]_vars PROVE NoLeakYet'
<1>. Digester \notin Pollers /\ Pollers \subseteq Procs
  BY NotifierAssumption DEF Procs
<1>1. ASSUME NEW p \in Procs, Acquire(p) PROVE NoLeakYet'
  BY <1>1, QuietLeak DEF Acquire, Labels, outbox, observed
<1>2. ASSUME NEW p \in Procs, ReadFails(p) \/ AckCancelled(p) PROVE NoLeakYet'
  BY <1>2, QuietLeak DEF ReadFails, AckCancelled, outbox, observed
<1>3. ASSUME NEW p \in Procs, AckFails(p) PROVE NoLeakYet'
  <2>1. cfg'.enabled = cfg.enabled
    BY <1>3 DEF AckFails, DigestAckEffect, TypeOK, Settings, outbox
  <2>. QED
    BY <1>3, <2>1, QuietLeak DEF AckFails
<1>4. CASE Crash
  BY <1>4, LeakFrame DEF Crash, outbox
<1>5. ASSUME NEW enabled \in BOOLEAN, NEW cadence \in Cadences,
             Update(enabled, cadence)
      PROVE  NoLeakYet'
  <2>1. cfg'.enabled = enabled
    BY <1>5 DEF Update, UpdatedSettings, TypeOK, Settings
  <2>2. CASE enabled = cfg.enabled
    BY <1>5, <2>1, <2>2, LeakFrame DEF Update, passVars
  <2>3. CASE enabled # cfg.enabled
    BY <1>5, <2>3 DEF Update, NoLeakYet
  <2>. QED
    BY <2>2, <2>3
<1>6. CASE UNCHANGED vars \/ Cancel \/ Tick \/ Restart
           \/ \E e \in Events, how \in {"pending", "seeded"} : Record(e, how)
  BY <1>6, LeakFrame
  DEF vars, Cancel, Tick, Restart, Record, outbox, passVars, observed
<1>. QED
  BY <1>1, <1>2, <1>3, <1>4, <1>5, <1>6, PollerLeak, DigesterLeak
  DEF Next, Failure, Environment

\* ADR 0002's residual, for any number of poll cycles: at most one message
\* still goes out in real time after digest mode is turned on.
THEOREM LeakBounded == Spec => []OneRealTimeLeak
<1>1. Init => NoLeakYet
  BY DEF Init, NoLeakYet
<1>2. TypeOK /\ SingleSender /\ NoLeakYet /\ [Next]_vars => NoLeakYet'
  BY NoLeakStep
<1>3. NoLeakYet => OneRealTimeLeak
  BY DEF NoLeakYet, OneRealTimeLeak
<1>. QED
  BY <1>1, <1>2, <1>3, TypeCorrect, SenderExclusion, PTL DEF Spec

-----------------------------------------------------------------------------
(* The outbox's promise                                                    *)

Told == {e \in Events : copies[e] > 0}

LEMMA BooksKeepPromise ==
  ASSUME TypeOK, Accounts, BookStep
  PROVE  [Promise!Next]_(Promise!vars)
<1>. USE DEF Promise!vars, Promise!Next
<1>1. CASE UNCHANGED Books
  BY <1>1 DEF Books
<1>2. CASE Records
  <2>1. PICK e \in Events, how \in {"pending", "seeded"} :
          row[e] = "absent" /\ row' = [row EXCEPT ![e] = how]
    BY <1>2 DEF Records
  <2>2. Promise!Record(e, how)
    BY <1>2, <2>1 DEF Records, Promise!Record
  <2>. QED
    BY <2>2
<1>3. ASSUME NEW S \in SUBSET (Pending \ Stale), copies' = Bump(copies, S), row' = row
      PROVE  [Promise!Next]_(Promise!vars)
  <2>1. Told' = Told \cup S
    BY <1>3 DEF Told, Bump, Pending, TypeOK
  <2>2. S \subseteq Promise!Pending \ Stale /\ S \in SUBSET Events
    BY DEF Pending, Promise!Pending
  <2>3. Promise!Tell(S)
    BY <1>3, <2>1, <2>2 DEF Promise!Tell, Told
  <2>. QED
    BY <2>2, <2>3
<1>4. ASSUME NEW p \in Procs, NEW S \in SUBSET Events, Settles(p, S)
      PROVE  [Promise!Next]_(Promise!vars)
  <2>. DEFINE T == S \cap Pending
  <2>1. T \subseteq Promise!Pending \cap (Told \cup Stale)
    BY <1>4 DEF Settles, Accounts, Told, Pending, Promise!Pending, TypeOK
  <2>2. row' = [e \in Events |-> IF e \in T THEN "acked" ELSE row[e]]
    BY <1>4 DEF Settles, Acked, Pending
  <2>3. Promise!Settle(T)
    BY <1>4, <2>1, <2>2 DEF Settles, Promise!Settle, Told
  <2>. QED
    BY <2>3
<1>5. CASE (\E p \in Procs : Forgets(p)) \/ ForgetsAll
  BY <1>5 DEF Forgets, ForgetsAll
<1>. QED
  BY <1>1, <1>2, <1>3, <1>4, <1>5 DEF BookStep, Announces, AnnouncesUnheard

\* The notifier implements the at-least-once outbox of module Outbox.
THEOREM NotifierKeepsPromise == Spec => ImplementsOutbox
<1>1. Init => Promise!Init
  BY DEF Init, Promise!Init
<1>2. TypeOK /\ SingleSender /\ Holdings /\ Accounts /\ [Next]_vars
        => [Promise!Next]_(Promise!vars)
  BY StepIsBookStep, BooksKeepPromise
<1>. QED
  BY <1>1, <1>2, TypeCorrect, SenderExclusion, LedgerCorrect, PTL
  DEF Spec, ImplementsOutbox, Promise!Spec
=============================================================================
