--------------------------- MODULE DigestSchedule ---------------------------
(***************************************************************************)
(* The digest calendar of internal/settings: which slot is the latest one, *)
(* when it is due, how late it may still be sent, and what a settings      *)
(* write does to the slot record.  A slot is an instant; the sets of slots *)
(* are parameters, so nothing here depends on how long a day is (a DST day *)
(* has 23 or 25 hours, and slot.go never adds durations).                  *)
(***************************************************************************)
EXTENDS Integers

CONSTANTS
  DailySlots,    \* instants of 00:05 New York, every day
  WeeklySlots,   \* the Fridays among them
  GraceDaily,    \* how late a daily digest may still start
  GraceWeekly,   \* how late a weekly digest may still start
  Horizon        \* bound: the last instant the clock reaches

NoTime == -1     \* SQL NULL in digest_last_slot_at / digest_last_sent_at

Instants == 0 .. Horizon
Cadences == {"daily", "weekly"}

Slots(cadence) == IF cadence = "weekly" THEN WeeklySlots ELSE DailySlots

\* Every Friday slot is also a daily slot, and MostRecentSlot has an answer at
\* every instant of the run (slot.go steps one period back when today's slot
\* still lies ahead).
ASSUME SlotAssumption ==
  /\ Horizon \in Nat
  /\ GraceDaily \in Nat /\ GraceWeekly \in Nat
  /\ WeeklySlots \subseteq DailySlots
  /\ DailySlots \subseteq Instants
  /\ \A t \in Instants, c \in Cadences :
       \E s \in Slots(c) : s <= t /\ \A u \in Slots(c) : u <= t => u <= s

MostRecentSlot(t, cadence) ==
  CHOOSE s \in Slots(cadence) :
    s <= t /\ \A u \in Slots(cadence) : u <= t => u <= s

GraceFor(cadence) == IF cadence = "weekly" THEN GraceWeekly ELSE GraceDaily

\* The slot record is NULL or older than the slot.
NotYetHandled(recorded, slot) == recorded = NoTime \/ recorded < slot

InGrace(t, slot, cadence) == t - slot <= GraceFor(cadence)

\* The row of notification_settings, as settings.Service reads it.
Settings ==
  [enabled : BOOLEAN, cadence : Cadences,
   lastSlot : Instants \cup {NoTime}, lastSent : Instants \cup {NoTime}]

SeededSettings ==
  [enabled |-> FALSE, cadence |-> "daily", lastSlot |-> NoTime, lastSent |-> NoTime]

\* Would a due-check at t, reading settings s, go on to list the outbox?
DigestDue(s, t) ==
  LET slot == MostRecentSlot(t, s.cadence)
  IN  s.enabled /\ NotYetHandled(s.lastSlot, slot) /\ InGrace(t, slot, s.cadence)

\* PUT /settings/notifications at t: the slot record moves to the latest slot
\* of the NEW cadence when digest mode is being turned on or its cadence
\* changes while on, and is kept otherwise.
UpdatedSettings(s, enabled, cadence, t) ==
  [s EXCEPT
     !.enabled  = enabled,
     !.cadence  = cadence,
     !.lastSlot = IF enabled /\ (~s.enabled \/ s.cadence # cadence)
                  THEN MostRecentSlot(t, cadence) ELSE @]
=============================================================================
