------------------------------ MODULE Scheduling ------------------------------
(***************************************************************************)
(* The slot arithmetic of store.py as constant operators: which slots an   *)
(* agent offers, given its timezone, its weekly business hours and the     *)
(* bookings already stored.                                                *)
(*                                                                         *)
(* Time is a number of minutes; day 0 is a Monday.  An agent's schedule is *)
(*   [offset : minutes its local clock is ahead of UTC (no DST change),    *)
(*    hours  : function from business-hour keys to sequences of ranges],   *)
(* and a range is [open, close] in minutes of the day.                     *)
(***************************************************************************)
EXTENDS Integers, Sequences, FiniteSets

CONSTANTS
    BookingSlotMinutes, \* settings.booking_slot_minutes
    NaiveStore          \* TRUE: the database drops the UTC offset of a datetime
                        \* (SQLite, the default); FALSE: PostgreSQL

ASSUME SchedulingAssumption ==
    /\ BookingSlotMinutes \in 1..1440
    /\ NaiveStore \in BOOLEAN

DayMinutes == 1440

\* The limit _ensure_booking_slot_available passes for the slots of one day.
EnsureLimit == 48

-------------------------------------------------------------------------------
(* Weekly business hours *)

Weekdays == <<"mon", "tue", "wed", "thu", "fri", "sat", "sun">>

BusinessHourKeys(weekday) ==
    <<Weekdays[weekday + 1], "daily">>
        \o IF weekday < 5 THEN <<"mon_fri", "weekdays">>
                          ELSE <<"sat_sun", "weekend", "weekends">>

\* A range the code accepts: within one day ("24:00" is refused) and not empty.
IsBusinessRange(range) ==
    /\ 0 <= range.open
    /\ range.open < range.close
    /\ range.close < DayMinutes

\* The ranges listed under the k-th key that applies on a day.
RangesOf(hours, day, k) ==
    LET key == BusinessHourKeys(day % 7)[k]
    IN  IF key \in DOMAIN hours THEN hours[key] ELSE <<>>

-------------------------------------------------------------------------------
(* The slot loop.  A cursor <<day, k, i, n>> is the n-th slot of the i-th  *)
(* range under the k-th key of a day; the loop visits them in that order.  *)

SlotCount(range, len) ==
    IF IsBusinessRange(range) THEN (range.close - range.open) \div len ELSE 0

Cursors(hours, days, len) ==
    UNION { UNION { UNION {
        { <<day, k, i, n>> : n \in 0..SlotCount(RangesOf(hours, day, k)[i], len) - 1 }
        : i \in DOMAIN RangesOf(hours, day, k) }
        : k \in DOMAIN BusinessHourKeys(day % 7) }
        : day \in days }

Before(p, q) ==
    \E j \in 1..4 : p[j] < q[j] /\ \A m \in 1..(j - 1) : p[m] = q[m]

\* The UTC start of the slot a cursor stands on.
SlotStart(schedule, c, len) ==
    c[1] * DayMinutes + RangesOf(schedule.hours, c[1], c[2])[c[3]].open
        + c[4] * len - schedule.offset

\* How a stored start is read back: a naive value is taken for agent-local time.
ReadBack(schedule, start) ==
    IF NaiveStore THEN start - schedule.offset ELSE start

\* Variants with a plausible bug, for the mutation runs: a query that starts at the
\* reference; a conflict only for equal starts; a slot begun before the reference
\* left out.
SelectedFromReference(busy, ref, days, len) ==
    { b \in busy : ref <= b /\ b <= ref + (days + 1) * DayMinutes }

OverlapEqualStarts(startA, startB, len) == startA = startB

NotBegun(start, len, ref) == start > ref

Overlap(startA, startB, len) == startA < startB + len /\ startB < startA + len

\* The bookings the availability query selects, by their stored start.
Selected(busy, ref, days, len) ==
    { b \in busy : ref - len <= b /\ b <= ref + (days + 1) * DayMinutes }

\* The loop skips the slots that are over at the reference instant.
NotOver(start, len, ref) == start + len > ref

\* The loop's own conflict test: a booking is assumed to last one slot of the
\* requested length.
Conflicts(schedule, busy, start, ref, days, len) ==
    \E b \in Selected(busy, ref, days, len) :
        Overlap(start, ReadBack(schedule, b), len)

\* The starts of the slots returned: slots that end after the reference, free
\* of conflicts, each start once, the first `limit' of them.
AvailableSlots(schedule, busy, ref, days, len, limit) ==
    LET today  == (ref + schedule.offset) \div DayMinutes
        At(c)  == SlotStart(schedule, c, len)
        open   == { c \in Cursors(schedule.hours, today..(today + days - 1), len) :
                        /\ NotOver(At(c), len, ref)
                        /\ ~Conflicts(schedule, busy, At(c), ref, days, len) }
        Earlier(c) == { At(d) : d \in { e \in open : Before(e, c) } }
    IN  { At(c) : c \in { d \in open : Cardinality(Earlier(d)) < limit } }

\* _ensure_booking_slot_available: the request is one of the slots of its own day.
SlotAvailable(schedule, busy, start) ==
    start \in AvailableSlots(schedule, busy, start, 1, BookingSlotMinutes, EnsureLimit)
===============================================================================
