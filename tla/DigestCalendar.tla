--------------------------- MODULE DigestCalendar ---------------------------
(* How settings/slot.go finds the latest slot: by calendar dates in a zone  *)
(* whose clocks are put forward and back.  DigestSchedule says which slot   *)
(* that should be.                                                          *)
(*                                                                          *)
(* An instant counts units of time since a midnight of the zone's winter    *)
(* time; a local time counts them on the zone's clocks.  A date is a number *)
(* of days, of which year and month are left out.                           *)
EXTENDS Integers

CONSTANTS
  DayLength,    \* units in a day without a switch
  SlotTime,     \* slotHour and slotMinute
  Forward,      \* the instant at which the clocks are put forward
  Back,         \* the instant at which they are put back
  Shift,        \* by how much
  SlotWeekday,  \* weeklySlotWeekday, the date modulo seven
  LastInstant,  \* bound of the clock
  GraceDaily, GraceWeekly

\* "00:05 sits outside the ~02:00 local transition window" (slot.go), and a
\* switch, either way, is over within the date on which it begins.
ASSUME CalendarAssumption ==
  /\ {SlotTime, Forward, Back, LastInstant, GraceDaily, GraceWeekly} \subseteq Nat
  /\ {DayLength, Shift} \subseteq Nat \ {0}
  /\ Forward + Shift < Back /\ SlotWeekday \in 0..6
  /\ SlotTime < Forward % DayLength /\ SlotTime < Back % DayLength
  /\ Shift <= Forward % DayLength /\ (Forward % DayLength) + 2 * Shift <= DayLength
  /\ (Back % DayLength) + Shift <= DayLength

Cadence == {"daily", "weekly"}

-----------------------------------------------------------------------------
(* Go's time package, for one zone.                                          *)

Offset(t) == IF Forward <= t /\ t < Back THEN Shift ELSE 0

\* now.In(loc).
In(t) == t + Offset(t)

Date(l)      == l \div DayLength
TimeOfDay(l) == l % DayLength
Weekday(l)   == Date(l) % 7

\* time.Date: the instant at which the clocks show that; one of the two of an
\* hour that comes twice; of an hour that is skipped, as before or after it.
At(date, time) ==
  LET l == date * DayLength + time
      shown == {t \in {l, l - Shift} : In(t) = l}
  IN  IF shown # {} THEN shown ELSE {l, l - Shift}

\* A day taken for twenty-four hours.
AddDuration(t, n) == {t - n * DayLength}

\* AddDate(0, 0, -n): the same time of day on an earlier date.
AddDate(t, n) == At(Date(In(t)) - n, TimeOfDay(In(t)))

-----------------------------------------------------------------------------
(* MostRecentSlot.                                                           *)

\* The slot on the date of an instant.
Candidate(t) == At(Date(In(t)), SlotTime)

DaysBack(t, cadence) ==
  IF cadence = "weekly" THEN (Weekday(In(t)) - SlotWeekday + 7) % 7 ELSE 0

Period(cadence) == IF cadence = "weekly" THEN 7 ELSE 1

\* Each result that Go's choice of an ambiguous time allows.
MostRecentSlot(t, cadence) ==
  UNION {Candidate(date) : date \in
           UNION {IF \E slot \in Candidate(anchor) : t < slot
                    THEN AddDate(anchor, Period(cadence)) ELSE {anchor}
                  : anchor \in AddDate(t, DaysBack(t, cadence))}}

-----------------------------------------------------------------------------
VARIABLE now

Horizon == LastInstant

\* Every instant at which the clocks show the slot's time, on any day or on
\* the day of the week.
DailySlots  == {t \in 0..Horizon : TimeOfDay(In(t)) = SlotTime}
WeeklySlots == {t \in DailySlots : Weekday(In(t)) = SlotWeekday}

Schedule == INSTANCE DigestSchedule

\* From the first weekly slot on.
CalendarInit == now \in WeeklySlots /\ \A t \in WeeklySlots : now <= t

CalendarNext == now < LastInstant /\ now' = now + 1

(* At every instant, also while the clocks are being switched, the slot that *)
(* slot.go finds is the latest one there is, and no other (its comment: "a   *)
(* DST day is 23 or 25 hours long, so duration arithmetic would land at      *)
(* 23:05 or 01:05"): no day is announced twice and none is left out.  Two    *)
(* slots of a cadence are a day or a week of the calendar apart.             *)
SlotIsTheLatest ==
  \A c \in Cadence :
    /\ MostRecentSlot(now, c) = {Schedule!MostRecentSlot(now, c)}
    /\ \A s \in MostRecentSlot(now, c), r \in MostRecentSlot(now + 1, c) :
         r = s \/ (r = now + 1 /\ Date(In(r)) = Date(In(s)) + Period(c))
=============================================================================
