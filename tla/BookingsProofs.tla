---------------------------- MODULE BookingsProofs ----------------------------
(***************************************************************************)
(* Theorems about Bookings, Availability and the slot arithmetic.          *)
(*                                                                         *)
(* Types are correct, and availability offers only free and bookable       *)
(* slots, for any number of replicas.  What the handlers write is safe     *)
(* about every agent whose writes come one at a time (Serial), which one   *)
(* replica gives and the run bookings_two_replicas shows to be needed.     *)
(* What depends on the times read back from the database assumes that      *)
(* offsets are kept (OffsetsKept): PostgreSQL, or agents on UTC.           *)
(***************************************************************************)
EXTENDS Availability, FiniteSetTheorems, TLAPS

Window == BookingSlotMinutes

-------------------------------------------------------------------------------
(* Type correctness *)

LEMMA PatchedType ==
    ASSUME NEW row \in Row, NEW p \in Patch
    PROVE  Patched(row, p) \in Row
BY DEF Patched, Row, Patch

LEMMA WrittenType ==
    ASSUME NEW old \in Row \cup {Null}, NEW w \in Write,
           old = Null => w.columns = Columns
    PROVE  Written(old, w) \in Row
BY DEF Written, Write, Row, Columns

\* A booking that does not exist yet is only written by an INSERT.
InsertsAreWhole ==
    \A r \in Replicas :
        pending[r] # Null /\ rows[pending[r].booking] = Null
            => pending[r].columns = Columns

TypeInv == TypeOK /\ InsertsAreWhole

LEMMA TypeInit == Init => TypeInv
BY DEF Init, TypeInv, TypeOK, InsertsAreWhole

LEMMA TypeStep == TypeInv /\ [Next]_vars => TypeInv'
<1> SUFFICES ASSUME TypeInv, [Next]_vars
             PROVE  TypeInv'
    OBVIOUS
<1> USE DEF TypeInv, TypeOK
<1>1. ASSUME NEW r \in Replicas, NEW b \in Bookings, NEW a \in Agents,
             NEW t \in Times, CheckCreate(r, b, a, t)
      PROVE  TypeInv'
    <2> DEFINE w == [booking |-> b,
                     row     |-> [agent |-> a, start |-> t, status |-> "confirmed"],
                     columns |-> Columns]
    <2>1. w \in Write
        BY DEF Write, Row, Status, Active, Columns
    <2>2. pending' = [pending EXCEPT ![r] = w]
        BY <1>1 DEF CheckCreate
    <2>3. QED
        BY <1>1, <2>1, <2>2 DEF CheckCreate, InsertsAreWhole
<1>2. ASSUME NEW r \in Replicas, NEW b \in Bookings, NEW p \in Patch,
             CheckUpdate(r, b, p)
      PROVE  TypeInv'
    <2> DEFINE new == Patched(rows[b], p)
               w == [booking |-> b, row |-> new, columns |-> Changed(rows[b], new)]
    <2>1. rows[b] # Null /\ pending' = [pending EXCEPT ![r] = w]
          /\ UNCHANGED <<agents, rows, published>>
        BY <1>2 DEF CheckUpdate
    <2>2. new \in Row
        BY <2>1, PatchedType
    <2>3. Changed(rows[b], new) \in SUBSET Columns
        BY DEF Changed, Columns
    <2>4. w \in Write
        BY <2>2, <2>3 DEF Write
    <2>5. QED
        BY <2>1, <2>4 DEF InsertsAreWhole
<1>3. ASSUME NEW r \in Replicas, Commit(r)
      PROVE  TypeInv'
    <2> DEFINE w == pending[r]
    <2>1. w \in Write /\ w.booking \in Bookings /\ w.row \in Row
        BY <1>3 DEF Commit, Write
    <2>2. Written(rows[w.booking], w) \in Row
        BY <1>3, <2>1, WrittenType DEF Commit, InsertsAreWhole
    <2>3. TypeOK'
        BY <1>3, <2>1, <2>2 DEF Commit
    <2>4. InsertsAreWhole'
        BY <1>3, <2>1, <2>2, BookingsAssumption DEF Commit, InsertsAreWhole
    <2>5. QED
        BY <2>3, <2>4
<1>4. ASSUME NEW r \in Replicas, Rollback(r)
      PROVE  TypeInv'
    BY <1>4 DEF Rollback, InsertsAreWhole
<1>5. ASSUME NEW r \in Replicas, NEW a \in Agents, NEW s \in Schedules,
             UpdateAgent(r, a, s)
      PROVE  TypeInv'
    BY <1>5 DEF UpdateAgent, InsertsAreWhole
<1>6. CASE UNCHANGED vars
    BY <1>6 DEF vars, InsertsAreWhole
<1>7. QED
    BY <1>1, <1>2, <1>3, <1>4, <1>5, <1>6 DEF Next

\* Every variable keeps its type, whatever the replicas do.
THEOREM TypeCorrect == Spec => []TypeOK
<1>1. TypeInv => TypeOK
    BY DEF TypeInv
<1>2. QED
    BY <1>1, TypeInit, TypeStep, PTL DEF Spec

-------------------------------------------------------------------------------
(* The slots of a day *)

LEMMA DivisionBound ==
    ASSUME NEW d \in Int, NEW len \in Nat \ {0}, NEW n \in Nat, n < d \div len
    PROVE  (n + 1) * len <= d
<1> DEFINE q == d \div len
<1>1. q \in Int /\ q * len <= d
    OBVIOUS
<1>2. n + 1 <= q
    BY <1>1
<1>3. (n + 1) * len <= q * len
    BY <1>1, <1>2
<1>4. QED
    BY <1>1, <1>3

LEMMA ElementOfSeq ==
    ASSUME NEW S, NEW seq \in Seq(S), NEW i \in DOMAIN seq
    PROVE  seq[i] \in S
OBVIOUS

\* A cursor stands on a slot of one of the ranges of its day.
LEMMA CursorShape ==
    ASSUME NEW hours, NEW days, NEW len, NEW c \in Cursors(hours, days, len)
    PROVE  /\ c = <<c[1], c[2], c[3], c[4]>>
           /\ c[1] \in days
           /\ c[2] \in DOMAIN BusinessHourKeys(c[1] % 7)
           /\ c[3] \in DOMAIN RangesOf(hours, c[1], c[2])
           /\ c[4] \in 0..SlotCount(RangesOf(hours, c[1], c[2])[c[3]], len) - 1
<1>1. PICK day \in days :
          c \in UNION { UNION {
              { <<day, k, i, n>> : n \in 0..SlotCount(RangesOf(hours, day, k)[i], len) - 1 }
              : i \in DOMAIN RangesOf(hours, day, k) }
              : k \in DOMAIN BusinessHourKeys(day % 7) }
    BY DEF Cursors
<1>2. PICK k \in DOMAIN BusinessHourKeys(day % 7) :
          c \in UNION {
              { <<day, k, i, n>> : n \in 0..SlotCount(RangesOf(hours, day, k)[i], len) - 1 }
              : i \in DOMAIN RangesOf(hours, day, k) }
    BY <1>1
<1>3. PICK i \in DOMAIN RangesOf(hours, day, k) :
          c \in { <<day, k, i, n>> : n \in 0..SlotCount(RangesOf(hours, day, k)[i], len) - 1 }
    BY <1>2
<1>4. PICK n \in 0..SlotCount(RangesOf(hours, day, k)[i], len) - 1 : c = <<day, k, i, n>>
    BY <1>3
<1>5. QED
    BY <1>1, <1>2, <1>3, <1>4

\* Every such position is a cursor.
LEMMA CursorOf ==
    ASSUME NEW hours, NEW days, NEW len, NEW day \in days,
           NEW k \in DOMAIN BusinessHourKeys(day % 7),
           NEW i \in DOMAIN RangesOf(hours, day, k),
           NEW n \in 0..SlotCount(RangesOf(hours, day, k)[i], len) - 1
    PROVE  <<day, k, i, n>> \in Cursors(hours, days, len)
<1>1. <<day, k, i, n>> \in
          { <<day, k, i, m>> : m \in 0..SlotCount(RangesOf(hours, day, k)[i], len) - 1 }
    OBVIOUS
<1>2. <<day, k, i, n>> \in UNION {
              { <<day, k, j, m>> : m \in 0..SlotCount(RangesOf(hours, day, k)[j], len) - 1 }
              : j \in DOMAIN RangesOf(hours, day, k) }
    BY <1>1
<1>3. <<day, k, i, n>> \in UNION { UNION {
              { <<day, l, j, m>> : m \in 0..SlotCount(RangesOf(hours, day, l)[j], len) - 1 }
              : j \in DOMAIN RangesOf(hours, day, l) }
              : l \in DOMAIN BusinessHourKeys(day % 7) }
    BY <1>2
<1>4. QED
    BY <1>3 DEF Cursors

\* A slot lies within an accepted range of its local day.
LEMMA SlotInRange ==
    ASSUME NEW schedule \in Schedules, NEW days \in SUBSET Int, NEW len \in Nat \ {0},
           NEW c \in Cursors(schedule.hours, days, len)
    PROVE  LET range == RangesOf(schedule.hours, c[1], c[2])[c[3]]
               local == c[1] * DayMinutes
               start == SlotStart(schedule, c, len)
           IN  /\ IsBusinessRange(range)
               /\ start \in Int /\ c[1] \in Int /\ schedule.offset \in Int
               /\ range.open \in Int /\ range.close \in Int
               /\ local + range.open <= start + schedule.offset
               /\ start + schedule.offset + len <= local + range.close
<1> DEFINE range == RangesOf(schedule.hours, c[1], c[2])[c[3]]
           start == SlotStart(schedule, c, len)
           n == c[4]
<1>1. /\ c[1] \in Int
      /\ c[3] \in DOMAIN RangesOf(schedule.hours, c[1], c[2])
      /\ n \in 0..SlotCount(range, len) - 1
    BY CursorShape
<1>2. range.open \in Int /\ range.close \in Int /\ schedule.offset \in Int
    <2>1. RangesOf(schedule.hours, c[1], c[2]) # <<>>
        BY <1>1
    <2>2. PICK key \in DOMAIN schedule.hours :
              RangesOf(schedule.hours, c[1], c[2]) = schedule.hours[key]
        BY <2>1 DEF RangesOf
    <2>3. schedule.hours[key] \in Seq([open : Int, close : Int])
        BY BookingsAssumption
    <2>4. range \in [open : Int, close : Int]
        BY <1>1, <2>2, <2>3, ElementOfSeq
    <2>5. QED
        BY <2>4, BookingsAssumption
<1>3. IsBusinessRange(range)
    BY <1>1 DEF SlotCount
<1>4. n \in Nat /\ n < (range.close - range.open) \div len
    <2>1. (range.close - range.open) \div len \in Int
        BY <1>2
    <2>2. QED
        BY <1>1, <1>3, <2>1 DEF SlotCount
<1>5. (n + 1) * len <= range.close - range.open
    BY <1>2, <1>4, DivisionBound
<1>6. 0 <= n * len /\ n * len \in Int /\ (n + 1) * len = n * len + len
    BY <1>4
<1>7. start = c[1] * DayMinutes + range.open + n * len - schedule.offset
    BY DEF SlotStart
<1>8. QED
    BY <1>1, <1>2, <1>3, <1>5, <1>6, <1>7 DEF DayMinutes

-------------------------------------------------------------------------------
(* What a slot offered is *)

\* The agent's calendar day an instant falls on.
LocalDay(schedule, start) == (start + schedule.offset) \div DayMinutes

\* The starts of the slots of one day, free or not.
DayStarts(schedule, day, len) ==
    { SlotStart(schedule, c, len) : c \in Cursors(schedule.hours, {day}, len) }

\* A slot begins on the day its cursor stands on.
LEMMA SlotDay ==
    ASSUME NEW schedule \in Schedules, NEW days \in SUBSET Int, NEW len \in Nat \ {0},
           NEW c \in Cursors(schedule.hours, days, len)
    PROVE  /\ LocalDay(schedule, SlotStart(schedule, c, len)) = c[1]
           /\ c \in Cursors(schedule.hours, {c[1]}, len)
<1> DEFINE start == SlotStart(schedule, c, len)
           range == RangesOf(schedule.hours, c[1], c[2])[c[3]]
<1>1. /\ 0 <= range.open /\ range.close < DayMinutes
      /\ start \in Int /\ c[1] \in Int /\ schedule.offset \in Int
      /\ range.open \in Int /\ range.close \in Int
      /\ c[1] * DayMinutes + range.open <= start + schedule.offset
      /\ start + schedule.offset + len <= c[1] * DayMinutes + range.close
    BY SlotInRange DEF IsBusinessRange
<1>2. LocalDay(schedule, start) = c[1]
    BY <1>1 DEF LocalDay, DayMinutes
<1>3. c \in Cursors(schedule.hours, {c[1]}, len)
    <2>1. /\ c = <<c[1], c[2], c[3], c[4]>>
          /\ c[2] \in DOMAIN BusinessHourKeys(c[1] % 7)
          /\ c[3] \in DOMAIN RangesOf(schedule.hours, c[1], c[2])
          /\ c[4] \in 0..SlotCount(RangesOf(schedule.hours, c[1], c[2])[c[3]], len) - 1
        BY CursorShape
    <2>2. <<c[1], c[2], c[3], c[4]>> \in Cursors(schedule.hours, {c[1]}, len)
        BY <2>1, CursorOf
    <2>3. QED
        BY <2>1, <2>2
<1>4. QED
    BY <1>2, <1>3

\* A slot of one of the days asked for is over when they are.
LEMMA DaysAhead ==
    ASSUME NEW start \in Int, NEW len \in Int, NEW offset \in Int, NEW ref \in Int,
           NEW day \in Int, NEW today \in Int, NEW days \in Int, NEW close \in Int,
           start + offset + len <= day * DayMinutes + close, close < DayMinutes,
           day <= today + days - 1, today * DayMinutes <= ref + offset
    PROVE  start + len < ref + days * DayMinutes
BY DEF DayMinutes

\* A slot offered is one of the slots of a day asked for; it ends after the
\* reference instant and before the days asked for are over, and no booking the
\* query selects stands in its way.
LEMMA OfferedSlot ==
    ASSUME NEW schedule \in Schedules, NEW busy, NEW ref \in Int, NEW days \in Nat,
           NEW len \in Nat \ {0}, NEW limit,
           NEW start \in AvailableSlots(schedule, busy, ref, days, len, limit)
    PROVE  /\ start \in Int
           /\ start \in DayStarts(schedule, LocalDay(schedule, start), len)
           /\ ref < start + len
           /\ start + len < ref + days * DayMinutes
           /\ ~Conflicts(schedule, busy, start, ref, days, len)
<1> DEFINE today == (ref + schedule.offset) \div DayMinutes
           open == { c \in Cursors(schedule.hours, today..(today + days - 1), len) :
                        /\ NotOver(SlotStart(schedule, c, len), len, ref)
                        /\ ~Conflicts(schedule, busy, SlotStart(schedule, c, len),
                                      ref, days, len) }
<1>1. PICK c \in open : start = SlotStart(schedule, c, len)
    BY DEF AvailableSlots
<1>2. schedule.offset \in Int
    BY BookingsAssumption
<1>3. today \in Int /\ today * DayMinutes <= ref + schedule.offset
    BY <1>2 DEF DayMinutes
<1>4. today..(today + days - 1) \in SUBSET Int
    BY <1>3
<1>5. c \in Cursors(schedule.hours, today..(today + days - 1), len)
    BY <1>1
<1> DEFINE range == RangesOf(schedule.hours, c[1], c[2])[c[3]]
<1>6. /\ 0 <= range.open /\ range.close < DayMinutes
      /\ start \in Int /\ c[1] \in Int
      /\ range.open \in Int /\ range.close \in Int
      /\ start + schedule.offset + len <= c[1] * DayMinutes + range.close
    BY <1>1, <1>4, <1>5, SlotInRange DEF IsBusinessRange
<1>7. c[1] <= today + days - 1
    BY <1>3, <1>5, <1>6, CursorShape
<1>8. start + len < ref + days * DayMinutes
    <2> HIDE DEF today, range
    <2> DEFINE day == c[1]
               close == range.close
    <2>1. /\ day \in Int /\ close \in Int /\ today \in Int
          /\ len \in Int /\ days \in Int /\ ref \in Int
          /\ start \in Int /\ schedule.offset \in Int
        BY <1>2, <1>3, <1>6
    <2>2. /\ start + schedule.offset + len <= day * DayMinutes + close
          /\ close < DayMinutes
          /\ day <= today + days - 1
          /\ today * DayMinutes <= ref + schedule.offset
        BY <1>3, <1>6, <1>7
    <2> HIDE DEF day, close
    <2>3. QED
        BY <2>1, <2>2, DaysAhead
<1>9. start \in DayStarts(schedule, LocalDay(schedule, start), len)
    <2>1. LocalDay(schedule, start) = c[1] /\ c \in Cursors(schedule.hours, {c[1]}, len)
        BY <1>1, <1>4, <1>5, SlotDay
    <2>2. QED
        BY <1>1, <2>1 DEF DayStarts
<1>10. ref < start + len
    BY <1>1, <1>6 DEF NotOver
<1>11. QED
    BY <1>1, <1>6, <1>8, <1>9, <1>10

-------------------------------------------------------------------------------
(* Offered slots are free *)

\* A stored start is read back as it was written.
OffsetsKept == ~NaiveStore \/ \A s \in Schedules : s.offset = 0

LEMMA ReadBackKept ==
    ASSUME OffsetsKept, NEW schedule \in Schedules, NEW b \in Int
    PROVE  ReadBack(schedule, b) = b
BY DEF OffsetsKept, ReadBack

\* What the query leaves out is too far away to overlap a slot to come.
LEMMA OfferedIsFree ==
    ASSUME OffsetsKept, NEW schedule \in Schedules, NEW busy \in SUBSET Int,
           NEW ref \in Int, NEW days \in Nat, NEW len \in Nat \ {0}, NEW limit,
           NEW start \in AvailableSlots(schedule, busy, ref, days, len, limit),
           ref <= start, NEW b \in busy
    PROVE  ~Overlap(start, b, len)
<1>1. /\ start \in Int
      /\ start + len < ref + days * DayMinutes
      /\ ~Conflicts(schedule, busy, start, ref, days, len)
    BY OfferedSlot
<1>2. ASSUME Overlap(start, b, len) PROVE FALSE
    <2>1. b \in Selected(busy, ref, days, len)
        BY <1>1, <1>2 DEF Selected, Overlap, DayMinutes
    <2>2. Overlap(start, ReadBack(schedule, b), len)
        BY <1>2, ReadBackKept
    <2>3. QED
        BY <1>1, <2>1, <2>2 DEF Conflicts
<1>3. QED
    BY <1>2

LEMMA BusyType ==
    ASSUME TypeOK, NEW a \in Agents, NEW except
    PROVE  Busy(a, except) \in SUBSET Times /\ Times \subseteq Int
BY BookingsAssumption DEF Busy, IsActive, TypeOK, Row

LEMMA OffersFree ==
    ASSUME OffsetsKept, TypeOK
    PROVE  OffersAreFree
<1> SUFFICES ASSUME NEW len \in Lengths, len >= Window, NEW a \in Agents,
                    NEW ref \in References, NEW days \in Days, NEW limit \in Limits,
                    NEW s \in Offer(a, ref, days, len, limit), s >= ref,
                    Taken(a, s, len)
             PROVE  FALSE
    BY DEF OffersAreFree, FreeAtLength, Window
<1>1. len \in Nat \ {0} /\ ref \in Int /\ days \in Nat /\ Window \in Nat
    BY AvailabilityAssumption, SchedulingAssumption DEF Window
<1>2. agents[a] \in Schedules /\ Busy(a, {}) \in SUBSET Int
    BY BusyType DEF TypeOK
<1>3. s \in Int
    BY <1>1, <1>2, OfferedSlot DEF Offer
<1>4. PICK b \in Bookings : /\ IsActive(b) /\ rows[b].agent = a
                            /\ rows[b].start < s + len
                            /\ s < rows[b].start + Window
    BY DEF Taken, Window
<1>5. rows[b].start \in Busy(a, {})
    BY <1>4 DEF Busy
<1>6. ~Overlap(s, rows[b].start, len)
    BY <1>1, <1>2, <1>3, <1>5, OfferedIsFree DEF Offer
<1>7. QED
    BY <1>1, <1>2, <1>3, <1>4, <1>5, <1>6 DEF Overlap

-------------------------------------------------------------------------------
(* What the check accepts *)

LEMMA DayStartsFinite ==
    ASSUME NEW schedule \in Schedules, NEW day \in Int, NEW len \in Nat \ {0}
    PROVE  /\ IsFiniteSet(DayStarts(schedule, day, len))
           /\ \A start \in DayStarts(schedule, day, len) :
                  start \in Int /\ LocalDay(schedule, start) = day
<1>1. ASSUME NEW c \in Cursors(schedule.hours, {day}, len)
      PROVE  /\ SlotStart(schedule, c, len) \in Int
             /\ LocalDay(schedule, SlotStart(schedule, c, len)) = day
    <2>1. c[1] = day
        BY CursorShape
    <2>2. QED
        BY <2>1, SlotInRange, SlotDay
<1> DEFINE first == day * DayMinutes - schedule.offset
<1>2. schedule.offset \in Int /\ first \in Int /\ first + DayMinutes \in Int
    BY BookingsAssumption DEF DayMinutes
<1>3. ASSUME NEW start \in Int, LocalDay(schedule, start) = day
      PROVE  start \in first..(first + DayMinutes)
    BY <1>2, <1>3 DEF LocalDay, DayMinutes
<1>4. DayStarts(schedule, day, len) \in SUBSET (first..(first + DayMinutes))
    BY <1>1, <1>3 DEF DayStarts
<1>5. IsFiniteSet(first..(first + DayMinutes))
    BY <1>2, FS_Interval
<1>6. IsFiniteSet(DayStarts(schedule, day, len))
    BY <1>4, <1>5, FS_Subset
<1>7. QED
    BY <1>1, <1>6 DEF DayStarts

\* The limit of 48 slots hides no slot of an empty calendar from the check.
CheckReaches ==
    \A schedule \in Schedules : \A start \in Int :
        start \in DayStarts(schedule, LocalDay(schedule, start), Window)
            => SlotAvailable(schedule, {}, start)

\* Bookings only shorten the list the limit cuts: what the check reaches in an
\* empty calendar it reaches in any.
LEMMA CheckAccepts ==
    ASSUME CheckReaches, NEW schedule \in Schedules, NEW busy, NEW start \in Int,
           start \in DayStarts(schedule, LocalDay(schedule, start), Window),
           ~Conflicts(schedule, busy, start, start, 1, Window)
    PROVE  SlotAvailable(schedule, busy, start)
<1> DEFINE At(c) == SlotStart(schedule, c, Window)
           today == (start + schedule.offset) \div DayMinutes
           open(held) ==
               { c \in Cursors(schedule.hours, today..(today + 1 - 1), Window) :
                     /\ NotOver(At(c), Window, start)
                     /\ ~Conflicts(schedule, held, At(c), start, 1, Window) }
           Earlier(held, c) == { At(d) : d \in { e \in open(held) : Before(e, c) } }
<1>1. Window \in Nat \ {0}
    BY SchedulingAssumption DEF Window
<1>2. today \in Int /\ today..(today + 1 - 1) = {today}
    BY BookingsAssumption DEF DayMinutes
<1>3. SlotAvailable(schedule, {}, start)
    BY DEF CheckReaches
<1>4. PICK c \in open({}) :
          At(c) = start /\ Cardinality(Earlier({}, c)) < EnsureLimit
    BY <1>3 DEF SlotAvailable, AvailableSlots, Window
<1>5. c \in open(busy)
    BY <1>4
<1>6. open(busy) \subseteq open({})
    BY DEF Conflicts, Selected
<1>7. Earlier(busy, c) \in SUBSET Earlier({}, c)
    BY <1>6
<1>8. Earlier({}, c) \in SUBSET DayStarts(schedule, today, Window)
    BY <1>2 DEF DayStarts
<1>9. IsFiniteSet(DayStarts(schedule, today, Window))
    BY <1>1, <1>2, DayStartsFinite
<1>10. IsFiniteSet(Earlier({}, c))
    BY <1>8, <1>9, FS_Subset
<1>11. /\ IsFiniteSet(Earlier(busy, c))
       /\ Cardinality(Earlier(busy, c)) <= Cardinality(Earlier({}, c))
    BY <1>7, <1>10, FS_Subset
<1>12. Cardinality(Earlier(busy, c)) < EnsureLimit
    BY <1>4, <1>10, <1>11, FS_CardinalityType DEF EnsureLimit
<1>13. QED
    BY <1>4, <1>5, <1>12 DEF SlotAvailable, AvailableSlots, Window

\* The check accepts exactly the slots of the agent's grid that overlap no active
\* booking, when its limit hides none.
THEOREM CheckIsExact ==
    ASSUME OffsetsKept, CheckReaches, NEW schedule \in Schedules,
           NEW busy \in SUBSET Int, NEW start \in Int
    PROVE  SlotAvailable(schedule, busy, start)
               <=> /\ start \in DayStarts(schedule, LocalDay(schedule, start), Window)
                   /\ \A b \in busy : ~Overlap(start, b, Window)
<1>1. Window \in Nat \ {0}
    BY SchedulingAssumption DEF Window
<1>2. ASSUME SlotAvailable(schedule, busy, start)
      PROVE  /\ start \in DayStarts(schedule, LocalDay(schedule, start), Window)
             /\ \A b \in busy : ~Overlap(start, b, Window)
    <2>1. start \in AvailableSlots(schedule, busy, start, 1, Window, EnsureLimit)
        BY <1>2 DEF SlotAvailable, Window
    <2>2. QED
        BY <1>1, <2>1, OfferedSlot, OfferedIsFree
<1>3. ASSUME start \in DayStarts(schedule, LocalDay(schedule, start), Window),
             \A b \in busy : ~Overlap(start, b, Window)
      PROVE  SlotAvailable(schedule, busy, start)
    <2>1. ~Conflicts(schedule, busy, start, start, 1, Window)
        BY <1>3, ReadBackKept DEF Conflicts, Selected
    <2>2. QED
        BY <1>3, <2>1, CheckAccepts
<1>4. QED
    BY <1>2, <1>3

\* A conflict the check sees is one the earlier query saw, offsets kept or not.
LEMMA OffersBookable ==
    ASSUME CheckReaches, TypeOK
    PROVE  OffersAreBookable
<1> SUFFICES ASSUME NEW a \in Agents, NEW ref \in References, NEW days \in Days,
                    NEW limit \in Limits, NEW s \in Offer(a, ref, days, Window, limit),
                    s >= ref
             PROVE  SlotAvailable(agents[a], Busy(a, {}), s)
    BY DEF OffersAreBookable, Window
<1>1. Window \in Nat \ {0} /\ ref \in Int /\ days \in Nat
    BY AvailabilityAssumption, SchedulingAssumption DEF Window
<1>2. agents[a] \in Schedules /\ Busy(a, {}) \in SUBSET Int
    BY BusyType DEF TypeOK
<1>3. s \in AvailableSlots(agents[a], Busy(a, {}), ref, days, Window, limit)
    BY DEF Offer
<1>4. /\ s \in Int /\ s \in DayStarts(agents[a], LocalDay(agents[a], s), Window)
      /\ s + Window < ref + days * DayMinutes
      /\ ~Conflicts(agents[a], Busy(a, {}), s, ref, days, Window)
    BY <1>1, <1>2, <1>3, OfferedSlot
<1>5. ASSUME NEW b \in Selected(Busy(a, {}), s, 1, Window),
             Overlap(s, ReadBack(agents[a], b), Window)
      PROVE  b \in Selected(Busy(a, {}), ref, days, Window)
    <2>1. b \in Busy(a, {}) /\ b \in Int /\ s - Window <= b
        BY <1>2 DEF Selected
    <2>2. /\ agents[a].offset \in Int
          /\ -1440 < agents[a].offset /\ agents[a].offset < 1440
        BY <1>2, BookingsAssumption DEF DayMinutes
    <2>3. ReadBack(agents[a], b) \in {b, b - agents[a].offset}
        BY DEF ReadBack
    <2>4. b < s + Window + 1440
        BY <1>1, <1>4, <1>5, <2>1, <2>2, <2>3 DEF Overlap
    <2>5. ref - Window <= b /\ b <= ref + (days + 1) * 1440
        BY <1>1, <1>4, <2>1, <2>4 DEF DayMinutes
    <2>6. QED
        BY <2>1, <2>5 DEF Selected, DayMinutes
<1>6. ~Conflicts(agents[a], Busy(a, {}), s, s, 1, Window)
    BY <1>4, <1>5 DEF Conflicts
<1>7. QED
    BY <1>2, <1>4, <1>6, CheckAccepts

-------------------------------------------------------------------------------
(* When the limit of 48 hides nothing *)

\* The accepted ranges of a day follow one another, in the order the keys and
\* their ranges are visited.
ListedInOrder(schedule) ==
    \A day \in Int :
        \A k, l \in DOMAIN BusinessHourKeys(day % 7) :
            \A i \in DOMAIN RangesOf(schedule.hours, day, k) :
                \A j \in DOMAIN RangesOf(schedule.hours, day, l) :
                    LET first == RangesOf(schedule.hours, day, k)[i]
                        next  == RangesOf(schedule.hours, day, l)[j]
                    IN  /\ k < l \/ (k = l /\ i < j)
                        /\ IsBusinessRange(first) /\ IsBusinessRange(next)
                        => first.close <= next.open

\* The ranges of every day open on one grid of slots of the booking length.
OnOneGrid(schedule) ==
    \E origin \in Int : \A key \in DOMAIN schedule.hours :
        \A i \in DOMAIN schedule.hours[key] :
            IsBusinessRange(schedule.hours[key][i])
                => \E m \in Int : schedule.hours[key][i].open = origin + m * Window

\* It is enough that few slots are visited before a slot's own cursor and are not
\* over when it starts.
LEMMA ReachedCursor ==
    ASSUME NEW schedule \in Schedules, NEW day \in Int,
           NEW c \in Cursors(schedule.hours, {day}, Window),
           NEW few, IsFiniteSet(few), Cardinality(few) < EnsureLimit,
           \A d \in Cursors(schedule.hours, {day}, Window) :
               /\ Before(d, c)
               /\ SlotStart(schedule, c, Window) < SlotStart(schedule, d, Window) + Window
               => SlotStart(schedule, d, Window) \in few
    PROVE  SlotAvailable(schedule, {}, SlotStart(schedule, c, Window))
<1> DEFINE At(d) == SlotStart(schedule, d, Window)
           start == At(c)
           today == (start + schedule.offset) \div DayMinutes
           open == { d \in Cursors(schedule.hours, today..(today + 1 - 1), Window) :
                         /\ NotOver(At(d), Window, start)
                         /\ ~Conflicts(schedule, {}, At(d), start, 1, Window) }
           Earlier(d) == { At(e) : e \in { f \in open : Before(f, d) } }
<1>1. Window \in Nat \ {0}
    BY SchedulingAssumption DEF Window
<1>2. c[1] = day /\ start \in Int
    <2>1. c[1] \in {day}
        BY CursorShape
    <2>2. QED
        BY <1>1, <2>1, SlotInRange
<1>3. today = day
    BY <1>1, <1>2, SlotDay DEF LocalDay
<1>4. today..(today + 1 - 1) = {day}
    BY <1>3
<1>5. c \in open
    <2>1. NotOver(At(c), Window, start)
        BY <1>1, <1>2 DEF NotOver
    <2>2. QED
        BY <1>4, <2>1 DEF Conflicts, Selected
<1>6. Earlier(c) \in SUBSET few
    <2>1. ASSUME NEW d \in open, Before(d, c)
          PROVE  At(d) \in few
        <3>1. d \in Cursors(schedule.hours, {day}, Window) /\ At(d) + Window > start
            BY <1>4 DEF NotOver
        <3>2. At(d) \in Int
            BY <1>1, <3>1, SlotInRange
        <3>3. QED
            BY <1>1, <1>2, <2>1, <3>1, <3>2
    <2>2. QED
        BY <2>1
<1>7. IsFiniteSet(Earlier(c)) /\ Cardinality(Earlier(c)) <= Cardinality(few)
    BY <1>6, FS_Subset
<1>8. Cardinality(Earlier(c)) < EnsureLimit
    BY <1>7, FS_CardinalityType DEF EnsureLimit
<1>9. QED
    BY <1>5, <1>8 DEF SlotAvailable, AvailableSlots, Window

LEMMA LaterCursor ==
    ASSUME NEW schedule \in Schedules, ListedInOrder(schedule), NEW day \in Int,
           NEW c \in Cursors(schedule.hours, {day}, Window),
           NEW d \in Cursors(schedule.hours, {day}, Window), Before(d, c)
    PROVE  SlotStart(schedule, d, Window) + Window <= SlotStart(schedule, c, Window)
<1> DEFINE first == RangesOf(schedule.hours, day, d[2])[d[3]]
           next  == RangesOf(schedule.hours, day, c[2])[c[3]]
<1>1. Window \in Nat \ {0}
    BY SchedulingAssumption DEF Window
<1>2. /\ c[1] = day /\ d[1] = day
      /\ c[2] \in DOMAIN BusinessHourKeys(day % 7)
      /\ d[2] \in DOMAIN BusinessHourKeys(day % 7)
      /\ c[3] \in DOMAIN RangesOf(schedule.hours, day, c[2])
      /\ d[3] \in DOMAIN RangesOf(schedule.hours, day, d[2])
      /\ c[4] \in 0..SlotCount(next, Window) - 1
      /\ d[4] \in 0..SlotCount(first, Window) - 1
    BY CursorShape
<1>3. c[4] \in Nat /\ d[4] \in Nat
    BY <1>2
<1>4. /\ IsBusinessRange(first) /\ IsBusinessRange(next)
      /\ first.open \in Int /\ first.close \in Int
      /\ next.open \in Int /\ next.close \in Int /\ schedule.offset \in Int
      /\ SlotStart(schedule, d, Window) \in Int /\ SlotStart(schedule, c, Window) \in Int
      /\ SlotStart(schedule, d, Window) + schedule.offset + Window
             <= day * DayMinutes + first.close
      /\ day * DayMinutes + next.open <= SlotStart(schedule, c, Window) + schedule.offset
    BY <1>1, <1>2, SlotInRange
<1>5. \/ d[2] < c[2] \/ (d[2] = c[2] /\ d[3] < c[3])
      \/ (d[2] = c[2] /\ d[3] = c[3] /\ d[4] < c[4])
    <2>1. PICK j \in 1..4 : d[j] < c[j] /\ \A m \in 1..(j - 1) : d[m] = c[m]
        BY DEF Before
    <2>2. j # 1
        BY <1>2, <2>1
    <2>3. CASE j = 2
        BY <2>1, <2>3
    <2>4. CASE j = 3
        BY <2>1, <2>4
    <2>5. CASE j = 4
        BY <2>1, <2>5
    <2>6. QED
        BY <2>1, <2>2, <2>3, <2>4, <2>5
<1>6. CASE d[2] < c[2] \/ (d[2] = c[2] /\ d[3] < c[3])
    <2>1. first.close <= next.open
        BY <1>2, <1>4, <1>6 DEF ListedInOrder
    <2>2. QED
        BY <1>1, <1>4, <2>1 DEF DayMinutes
<1>7. CASE d[2] = c[2] /\ d[3] = c[3] /\ d[4] < c[4]
    <2>1. (d[4] + 1) * Window <= c[4] * Window
        BY <1>1, <1>3, <1>7
    <2>2. (d[4] + 1) * Window = d[4] * Window + Window
        BY <1>1, <1>3
    <2>3. d[4] * Window \in Int /\ c[4] * Window \in Int
        BY <1>1, <1>3
    <2>4. /\ SlotStart(schedule, d, Window)
                 = day * DayMinutes + first.open + d[4] * Window - schedule.offset
          /\ SlotStart(schedule, c, Window)
                 = day * DayMinutes + first.open + c[4] * Window - schedule.offset
        BY <1>2, <1>7 DEF SlotStart
    <2>5. QED
        BY <1>1, <1>4, <2>1, <2>2, <2>3, <2>4 DEF DayMinutes
<1>8. QED
    BY <1>5, <1>6, <1>7

LEMMA QuotientBound ==
    ASSUME NEW x \in Nat, NEW w \in Nat, w >= 30, x + w < DayMinutes
    PROVE  x \div w \in 0..(EnsureLimit - 2)
<1> DEFINE q == x \div w
<1>1. q \in Int /\ 0 <= q /\ q * w <= x
    OBVIOUS
<1> HIDE DEF q
<1>2. ASSUME q >= 47 PROVE FALSE
    <2>1. 47 * w <= q * w
        BY <1>1, <1>2
    <2>2. QED
        BY <1>1, <2>1 DEF DayMinutes
<1>3. q \in 0..(EnsureLimit - 2)
    BY <1>1, <1>2 DEF EnsureLimit
<1>4. QED
    BY <1>3 DEF q

\* Two points of one grid in the same period are one point.
LEMMA QuotientsTellApart ==
    ASSUME NEW w \in Nat \ {0}, NEW origin \in Int, NEW m \in Int, NEW n \in Int,
           (origin + m * w) \div w = (origin + n * w) \div w
    PROVE  m = n
<1> DEFINE x == origin + m * w
           y == origin + n * w
           q == x \div w
<1>1. x \in Int /\ y \in Int /\ q \in Int
    OBVIOUS
<1>2. q * w <= x /\ x < q * w + w /\ q * w <= y /\ y < q * w + w
    BY <1>1
<1>3. (m - n) * w < w /\ (n - m) * w < w
    BY <1>1, <1>2
<1>4. ~(m - n >= 1) /\ ~(n - m >= 1)
    BY <1>3
<1>5. QED
    BY <1>4

LEMMA Initial ==
    ASSUME NEW n \in Nat
    PROVE  IsFiniteSet(0..n) /\ Cardinality(0..n) = n + 1
<1>1. 0 \in Int /\ n \in Int /\ ~(0 > n)
    OBVIOUS
<1>2. IsFiniteSet(0..n) /\ Cardinality(0..n) = IF 0 > n THEN 0 ELSE n - 0 + 1
    BY <1>1, FS_Interval
<1>3. QED
    BY <1>1, <1>2

LEMMA FewOnGrid ==
    ASSUME NEW schedule \in Schedules, OnOneGrid(schedule), Window >= 30, NEW day \in Int
    PROVE  /\ IsFiniteSet(DayStarts(schedule, day, Window))
           /\ Cardinality(DayStarts(schedule, day, Window)) < EnsureLimit
<1> DEFINE starts == DayStarts(schedule, day, Window)
           local(start) == start + schedule.offset - day * DayMinutes
           period == [start \in starts |-> local(start) \div Window]
           periods == 0..(EnsureLimit - 2)
<1>1. Window \in Nat \ {0} /\ schedule.offset \in Int /\ day * DayMinutes \in Int
    <2>1. Window \in Nat \ {0}
        BY SchedulingAssumption DEF Window
    <2>2. schedule.offset \in Int /\ day * DayMinutes \in Int
        BY BookingsAssumption DEF DayMinutes
    <2>3. QED
        BY <2>1, <2>2
<1>2. PICK origin \in Int : \A key \in DOMAIN schedule.hours :
          \A i \in DOMAIN schedule.hours[key] :
              IsBusinessRange(schedule.hours[key][i])
                  => \E m \in Int : schedule.hours[key][i].open = origin + m * Window
    BY DEF OnOneGrid
<1>3. ASSUME NEW start \in starts
      PROVE  /\ start \in Int /\ local(start) \in Nat
             /\ local(start) + Window < DayMinutes
             /\ \E m \in Int : local(start) = origin + m * Window
    <2>1. PICK c \in Cursors(schedule.hours, {day}, Window) :
              start = SlotStart(schedule, c, Window)
        BY DEF DayStarts
    <2> DEFINE range == RangesOf(schedule.hours, day, c[2])[c[3]]
    <2>2. /\ c[1] = day
          /\ c[3] \in DOMAIN RangesOf(schedule.hours, day, c[2])
          /\ c[4] \in 0..SlotCount(range, Window) - 1
        BY CursorShape
    <2>3. /\ IsBusinessRange(range) /\ start \in Int
          /\ range.open \in Int /\ range.close \in Int
          /\ day * DayMinutes + range.open <= start + schedule.offset
          /\ start + schedule.offset + Window <= day * DayMinutes + range.close
        BY <1>1, <2>1, <2>2, SlotInRange
    <2>4. local(start) \in Nat /\ local(start) + Window < DayMinutes
        BY <1>1, <2>3 DEF DayMinutes, IsBusinessRange
    <2>5. PICK m \in Int : range.open = origin + m * Window
        <3>1. RangesOf(schedule.hours, day, c[2]) # <<>>
            BY <2>2
        <3>2. PICK key \in DOMAIN schedule.hours :
                  RangesOf(schedule.hours, day, c[2]) = schedule.hours[key]
            BY <3>1 DEF RangesOf
        <3>3. QED
            BY <1>2, <2>2, <2>3, <3>2
    <2>6. c[4] \in Int
        BY <2>2
    <2>7. start = day * DayMinutes + range.open + c[4] * Window - schedule.offset
        BY <2>1, <2>2 DEF SlotStart
    <2>8. local(start) = origin + (m + c[4]) * Window
        <3>1. (m + c[4]) * Window = m * Window + c[4] * Window
            BY <1>1, <2>6
        <3>2. m * Window \in Int /\ c[4] * Window \in Int
            BY <1>1, <2>6
        <3>3. QED
            BY <1>1, <2>3, <2>5, <2>7, <3>1, <3>2 DEF DayMinutes
    <2>9. m + c[4] \in Int
        BY <2>6
    <2>10. QED
        BY <2>3, <2>4, <2>8, <2>9
<1>4. period \in [starts -> periods]
    BY <1>1, <1>3, QuotientBound
<1>5. ASSUME NEW s \in starts, NEW t \in starts, period[s] = period[t]
      PROVE  s = t
    <2>1. PICK m \in Int : local(s) = origin + m * Window
        BY <1>3
    <2>2. PICK n \in Int : local(t) = origin + n * Window
        BY <1>3
    <2>3. m = n
        BY <1>1, <1>5, <2>1, <2>2, QuotientsTellApart
    <2>4. QED
        <3>1. local(s) = local(t)
            BY <2>1, <2>2, <2>3
        <3>2. s \in Int /\ t \in Int
            BY <1>3
        <3>3. QED
            BY <1>1, <3>1, <3>2
<1>6. period \in Injection(starts, periods)
    BY <1>4, <1>5 DEF Injection, IsInjective
<1>7. IsFiniteSet(periods) /\ Cardinality(periods) = 47
    <2>1. EnsureLimit - 2 \in Nat /\ EnsureLimit - 2 + 1 = 47
        BY DEF EnsureLimit
    <2>2. QED
        BY <2>1, Initial
<1>8. IsFiniteSet(starts) /\ Cardinality(starts) <= Cardinality(periods)
    BY <1>6, <1>7, FS_Injection
<1>9. QED
    BY <1>7, <1>8, FS_CardinalityType DEF EnsureLimit

\* The limit hides no slot from the check when every agent lists its ranges in the
\* order of the day, or keeps them on one grid of slots of half an hour or more.
THEOREM LimitHidesNothing ==
    ASSUME \A schedule \in Schedules :
               ListedInOrder(schedule) \/ (OnOneGrid(schedule) /\ Window >= 30)
    PROVE  CheckReaches
<1> SUFFICES ASSUME NEW schedule \in Schedules, NEW start \in Int,
                    start \in DayStarts(schedule, LocalDay(schedule, start), Window)
             PROVE  SlotAvailable(schedule, {}, start)
    BY DEF CheckReaches
<1> DEFINE day == LocalDay(schedule, start)
<1>1. day \in Int
    BY BookingsAssumption DEF LocalDay, DayMinutes
<1>2. PICK c \in Cursors(schedule.hours, {day}, Window) :
          start = SlotStart(schedule, c, Window)
    BY DEF DayStarts
<1> HIDE DEF day
<1>3. CASE ListedInOrder(schedule)
    <2>1. Window \in Nat \ {0}
        BY SchedulingAssumption DEF Window
    <2>2. ASSUME NEW d \in Cursors(schedule.hours, {day}, Window), Before(d, c)
          PROVE  ~(start < SlotStart(schedule, d, Window) + Window)
        <3>1. SlotStart(schedule, d, Window) + Window <= start
            BY <1>1, <1>2, <1>3, <2>2, LaterCursor
        <3>2. {day} \in SUBSET Int
            BY <1>1
        <3>3. SlotStart(schedule, d, Window) \in Int
            BY <2>1, <3>2, SlotInRange
        <3>4. QED
            BY <2>1, <3>1, <3>3
    <2>3. IsFiniteSet({}) /\ Cardinality({}) < EnsureLimit
        BY FS_EmptySet DEF EnsureLimit
    <2>4. QED
        BY <1>1, <1>2, <2>2, <2>3, ReachedCursor
<1>4. CASE OnOneGrid(schedule) /\ Window >= 30
    <2>1. /\ IsFiniteSet(DayStarts(schedule, day, Window))
          /\ Cardinality(DayStarts(schedule, day, Window)) < EnsureLimit
        BY <1>1, <1>4, FewOnGrid
    <2>2. \A d \in Cursors(schedule.hours, {day}, Window) :
              SlotStart(schedule, d, Window) \in DayStarts(schedule, day, Window)
        BY DEF DayStarts
    <2>3. QED
        BY <1>1, <1>2, <2>1, <2>2, ReachedCursor
<1>5. QED
    BY <1>3, <1>4

-------------------------------------------------------------------------------
(* Writes on their way *)

\* A booking being created is pending on one replica only.
InsertsAreAlone ==
    \A q, r \in Replicas :
        /\ pending[q] # Null /\ pending[r] # Null
        /\ pending[q].booking = pending[r].booking
        /\ rows[pending[r].booking] = Null
        => q = r

\* No write moves a booking to another agent.
AgentsKept ==
    \A r \in Replicas :
        pending[r] # Null /\ rows[pending[r].booking] # Null
            => rows[pending[r].booking].agent = pending[r].row.agent

BaseInv == TypeInv /\ InsertsAreAlone /\ AgentsKept

\* Replica r is about to write a booking of agent a.
About(r, a) == pending[r] # Null /\ pending[r].row.agent = a

\* The row a write leaves behind is the row its handler saw.
Current(w) == Written(rows[w.booking], w) = w.row

\* The slot of a write is offered, its own booking put aside.
Offered(w) ==
    w.row.status \in Active =>
        SlotAvailable(agents[w.row.agent], Busy(w.row.agent, {w.booking}), w.row.start)

\* What either handler has done when it reaches its commit.
Checked(r, w) ==
    /\ pending[r] = Null
    /\ pending' = [pending EXCEPT ![r] = w]
    /\ UNCHANGED <<agents, rows, published>>
    /\ Current(w)
    /\ Offered(w)
    /\ \/ /\ rows[w.booking] = Null
          /\ \A q \in Replicas : pending[q] # Null => pending[q].booking # w.booking
       \/ /\ rows[w.booking] # Null
          /\ rows[w.booking].agent = w.row.agent

LEMMA CreateChecks ==
    ASSUME TypeOK, NEW r \in Replicas, NEW b \in Bookings, NEW a \in Agents,
           NEW t \in Times, CheckCreate(r, b, a, t)
    PROVE  \E w \in Write : Checked(r, w)
<1> DEFINE row == [agent |-> a, start |-> t, status |-> "confirmed"]
           w == [booking |-> b, row |-> row, columns |-> Columns]
<1>1. /\ pending[r] = Null /\ rows[b] = Null
      /\ \A q \in Replicas : pending[q] # Null => pending[q].booking # b
      /\ SlotAvailable(agents[a], Busy(a, {}), t)
      /\ pending' = [pending EXCEPT ![r] = w]
      /\ UNCHANGED <<agents, rows, published>>
    BY DEF CheckCreate
<1>2. w \in Write
    BY DEF Write, Row, Status, Active, Columns
<1>3. Busy(a, {}) = Busy(a, {b})
    BY <1>1 DEF Busy, IsActive
<1>4. Current(w)
    BY DEF Current, Written, Columns
<1>5. Offered(w)
    BY <1>1, <1>3 DEF Offered
<1>6. QED
    BY <1>1, <1>2, <1>4, <1>5 DEF Checked

LEMMA UpdateChecks ==
    ASSUME TypeOK, NEW r \in Replicas, NEW b \in Bookings, NEW p \in Patch,
           CheckUpdate(r, b, p)
    PROVE  \E w \in Write : Checked(r, w)
<1> DEFINE old == rows[b]
           new == Patched(old, p)
           w == [booking |-> b, row |-> new, columns |-> Changed(old, new)]
<1>1. /\ pending[r] = Null /\ old # Null
      /\ new.status # "cancelled" =>
             SlotAvailable(agents[old.agent], Busy(old.agent, {b}), new.start)
      /\ pending' = [pending EXCEPT ![r] = w]
      /\ UNCHANGED <<agents, rows, published>>
    BY DEF CheckUpdate, NeedsSlot
<1>2. old \in Row /\ new \in Row
    BY <1>1, PatchedType DEF TypeOK
<1>3. new.agent = old.agent
    BY <1>2 DEF Patched, Row
<1>4. w \in Write
    BY <1>2 DEF Write, Changed, Columns
<1>5. Current(w)
    BY <1>2, <1>3 DEF Current, Written, Changed, Row
<1>6. Offered(w)
    BY <1>1, <1>3 DEF Offered, Active
<1>7. QED
    BY <1>1, <1>3, <1>4, <1>5, <1>6 DEF Checked

\* The steps of the system, the two handlers taken together.
LEMMA Steps ==
    ASSUME TypeOK, [Next]_vars
    PROVE  \/ \E r \in Replicas : \E w \in Write : Checked(r, w)
           \/ \E r \in Replicas : Commit(r)
           \/ \E r \in Replicas : Rollback(r)
           \/ \E r \in Replicas, a \in Agents, s \in Schedules : UpdateAgent(r, a, s)
           \/ UNCHANGED vars
BY CreateChecks, UpdateChecks DEF Next

\* A commit writes one row, and leaves it with the agent of the write.
LEMMA CommitWrites ==
    ASSUME BaseInv, NEW r \in Replicas, Commit(r), NEW w, w = pending[r],
           NEW b, b = w.booking
    PROVE  /\ w \in Write /\ b \in Bookings /\ w.row \in Row /\ w # Null
           /\ Written(rows[b], w) \in Row
           /\ Written(rows[b], w).agent = w.row.agent
           /\ rows' = [rows EXCEPT ![b] = Written(rows[b], w)]
           /\ rows'[b] = Written(rows[b], w) /\ rows'[b] # Null
           /\ \A c \in Bookings \ {b} : rows'[c] = rows[c]
           /\ rows[b] # Null => rows[b].agent = w.row.agent
           /\ pending' = [pending EXCEPT ![r] = Null]
           /\ published' = [published EXCEPT ![b] = w.row]
           /\ agents' = agents
<1> USE DEF BaseInv, TypeInv, TypeOK
<1>1. w \in Write /\ b \in Bookings /\ w.row \in Row /\ w # Null
    BY DEF Commit, Write
<1>2. /\ rows' = [rows EXCEPT ![b] = Written(rows[b], w)]
      /\ pending' = [pending EXCEPT ![r] = Null]
      /\ published' = [published EXCEPT ![b] = w.row]
      /\ agents' = agents
    BY <1>1 DEF Commit
<1>3. rows[b] = Null => w.columns = Columns
    BY <1>1 DEF InsertsAreWhole
<1>4. rows[b] # Null => rows[b].agent = w.row.agent
    BY <1>1 DEF AgentsKept
<1>5. Written(rows[b], w) \in Row
    BY <1>1, <1>3, WrittenType
<1>6. Written(rows[b], w).agent = w.row.agent
    BY <1>3, <1>4 DEF Written, Columns
<1>7. QED
    BY <1>1, <1>2, <1>4, <1>5, <1>6, BookingsAssumption

LEMMA BaseInit == Init => BaseInv
BY TypeInit DEF Init, BaseInv, InsertsAreAlone, AgentsKept

LEMMA BaseStep == BaseInv /\ [Next]_vars => BaseInv'
<1> SUFFICES ASSUME BaseInv, [Next]_vars
             PROVE  BaseInv'
    OBVIOUS
<1>1. TypeInv' /\ TypeOK
    BY TypeStep DEF BaseInv, TypeInv
<1>2. ASSUME NEW r \in Replicas, NEW w \in Write, Checked(r, w)
      PROVE  InsertsAreAlone' /\ AgentsKept'
    <2>1. /\ pending' = [pending EXCEPT ![r] = w]
          /\ rows' = rows
          /\ \/ /\ rows[w.booking] = Null
                /\ \A q \in Replicas : pending[q] # Null => pending[q].booking # w.booking
             \/ /\ rows[w.booking] # Null
                /\ rows[w.booking].agent = w.row.agent
        BY <1>2 DEF Checked
    <2>2. QED
        BY <1>1, <2>1 DEF BaseInv, TypeOK, InsertsAreAlone, AgentsKept
<1>3. ASSUME NEW r \in Replicas, Commit(r)
      PROVE  InsertsAreAlone' /\ AgentsKept'
    <2> DEFINE w == pending[r]
               b == w.booking
    <2>1. /\ w # Null /\ b \in Bookings
          /\ rows'[b] # Null /\ rows'[b].agent = w.row.agent
          /\ \A c \in Bookings \ {b} : rows'[c] = rows[c]
          /\ rows[b] # Null => rows[b].agent = w.row.agent
          /\ pending' = [pending EXCEPT ![r] = Null]
        BY <1>3, CommitWrites
    <2>2. \A q \in Replicas : pending'[q] # Null => pending'[q] = pending[q] /\ q # r
        BY <1>1, <2>1 DEF TypeOK
    <2>3. \A q \in Replicas : pending[q] # Null => pending[q].booking \in Bookings
        BY <1>1 DEF TypeOK, Write
    <2>4. InsertsAreAlone'
        <3> SUFFICES ASSUME NEW p \in Replicas, NEW q \in Replicas,
                            pending'[p] # Null, pending'[q] # Null,
                            pending'[p].booking = pending'[q].booking,
                            rows'[pending'[q].booking] = Null
                     PROVE  p = q
            BY DEF InsertsAreAlone
        <3>1. pending'[p] = pending[p] /\ pending'[q] = pending[q]
            BY <2>2
        <3>2. rows[pending[q].booking] = Null
            BY <2>1, <2>3, <3>1
        <3>3. QED
            BY <3>1, <3>2 DEF BaseInv, InsertsAreAlone
    <2>5. AgentsKept'
        <3> SUFFICES ASSUME NEW q \in Replicas, pending'[q] # Null,
                            rows'[pending'[q].booking] # Null
                     PROVE  rows'[pending'[q].booking].agent = pending'[q].row.agent
            BY DEF AgentsKept
        <3>1. pending'[q] = pending[q] /\ q # r
            BY <2>2
        <3>2. CASE pending[q].booking # b
            BY <2>1, <2>3, <3>1, <3>2 DEF BaseInv, AgentsKept
        <3>3. CASE pending[q].booking = b
            <4>1. rows[b] # Null
                BY <2>1, <3>1, <3>3 DEF BaseInv, InsertsAreAlone
            <4>2. pending[q].row.agent = w.row.agent
                BY <2>1, <3>1, <3>3, <4>1 DEF BaseInv, AgentsKept
            <4>3. QED
                BY <2>1, <3>1, <3>3, <4>2
        <3>4. QED
            BY <3>2, <3>3
    <2>6. QED
        BY <2>4, <2>5
<1>4. ASSUME NEW r \in Replicas, Rollback(r)
      PROVE  InsertsAreAlone' /\ AgentsKept'
    BY <1>1, <1>4 DEF Rollback, BaseInv, TypeOK, InsertsAreAlone, AgentsKept
<1>5. ASSUME NEW r \in Replicas, NEW a \in Agents, NEW s \in Schedules,
             UpdateAgent(r, a, s)
      PROVE  InsertsAreAlone' /\ AgentsKept'
    BY <1>5 DEF UpdateAgent, BaseInv, InsertsAreAlone, AgentsKept
<1>6. ASSUME UNCHANGED vars
      PROVE  InsertsAreAlone' /\ AgentsKept'
    BY <1>6 DEF vars, BaseInv, InsertsAreAlone, AgentsKept
<1>7. InsertsAreAlone' /\ AgentsKept'
    BY <1>1, <1>2, <1>3, <1>4, <1>5, <1>6, Steps
<1>8. QED
    BY <1>1, <1>7 DEF BaseInv

-------------------------------------------------------------------------------
(* An agent whose writes come one at a time *)

\* No two replicas are about to write bookings of agent a.
Serial(a) == \A q, r \in Replicas : About(q, a) /\ About(r, a) => q = r

SerialFor(A) == \A a \in A : Serial(a)

\* What is about to be written about agent a is still what its handler saw.
PendingIsCurrent(a) ==
    \A r \in Replicas : About(r, a) => Current(pending[r])

\* The rows of agent a stay as they are.
RowsStay(a) ==
    \A b \in Bookings :
        \/ rows'[b] = rows[b]
        \/ /\ rows'[b] # Null /\ rows'[b].agent # a
           /\ rows[b] # Null => rows[b].agent # a

\* A step that does not commit a write about agent a leaves its rows alone, and
\* the rows its pending writes are about.
LEMMA OthersStay ==
    ASSUME BaseInv, NEW a, NEW r \in Replicas, Commit(r), ~About(r, a)
    PROVE  /\ RowsStay(a)
           /\ \A q \in Replicas : About(q, a) =>
                  rows'[pending[q].booking] = rows[pending[q].booking]
           /\ \A q \in Replicas : About(q, a)' =>
                  About(q, a) /\ pending'[q] = pending[q]
<1> DEFINE w == pending[r]
           b == w.booking
<1>1. /\ b \in Bookings /\ w # Null
      /\ rows'[b] # Null /\ rows'[b].agent = w.row.agent
      /\ \A c \in Bookings \ {b} : rows'[c] = rows[c]
      /\ rows[b] # Null => rows[b].agent = w.row.agent
      /\ pending' = [pending EXCEPT ![r] = Null]
    BY CommitWrites
<1>2. w.row.agent # a
    BY <1>1 DEF About
<1>3. RowsStay(a)
    BY <1>1, <1>2 DEF RowsStay
<1>4. ASSUME NEW q \in Replicas, About(q, a)
      PROVE  rows'[pending[q].booking] = rows[pending[q].booking]
    <2>1. pending[q] # Null /\ pending[q].row.agent = a /\ q # r
        BY <1>2, <1>4 DEF About
    <2>2. pending[q].booking \in Bookings
        BY <2>1 DEF BaseInv, TypeInv, TypeOK, Write
    <2>3. ASSUME pending[q].booking = b PROVE FALSE
        <3>1. rows[b] # Null
            BY <1>1, <2>1, <2>3 DEF BaseInv, InsertsAreAlone
        <3>2. rows[b].agent = a
            BY <2>1, <2>3, <3>1 DEF BaseInv, AgentsKept
        <3>3. QED
            BY <1>1, <1>2, <3>1, <3>2
    <2>4. QED
        BY <1>1, <2>2, <2>3
<1>5. \A q \in Replicas : About(q, a)' => About(q, a) /\ pending'[q] = pending[q]
    BY <1>1 DEF About, BaseInv, TypeInv, TypeOK
<1>6. QED
    BY <1>3, <1>4, <1>5

\* Once the one write about agent a is committed none is pending.
LEMMA NoneLeft ==
    ASSUME BaseInv, NEW a, Serial(a), NEW r \in Replicas, Commit(r), About(r, a),
           NEW q \in Replicas
    PROVE  ~About(q, a)'
<1>1. pending' = [pending EXCEPT ![r] = Null]
    BY DEF Commit
<1>2. CASE q = r
    BY <1>1, <1>2 DEF About, BaseInv, TypeInv, TypeOK
<1>3. CASE q # r
    <2>1. ~About(q, a)
        BY <1>3 DEF Serial
    <2>2. pending'[q] = pending[q]
        BY <1>1, <1>3 DEF BaseInv, TypeInv, TypeOK
    <2>3. QED
        BY <2>1, <2>2 DEF About
<1>4. QED
    BY <1>2, <1>3

\* A step other than a commit adds at most the write it has checked.
LEMMA ChecksAdd ==
    ASSUME TypeOK, NEW r \in Replicas, NEW w \in Write, Checked(r, w)
    PROVE  /\ w # Null /\ rows' = rows /\ agents' = agents /\ published' = published
           /\ pending'[r] = w /\ Current(w) /\ Offered(w)
           /\ \A q \in Replicas \ {r} : pending'[q] = pending[q]
BY BookingsAssumption DEF Checked, TypeOK

LEMMA RollbackDrops ==
    ASSUME TypeOK, NEW r \in Replicas, Rollback(r)
    PROVE  /\ rows' = rows /\ agents' = agents /\ published' = published
           /\ \A q \in Replicas : pending'[q] # Null => pending'[q] = pending[q]
BY DEF Rollback, TypeOK

LEMMA CurrentStep ==
    ASSUME NEW a
    PROVE  BaseInv /\ PendingIsCurrent(a) /\ Serial(a) /\ [Next]_vars
               => PendingIsCurrent(a)'
<1> SUFFICES ASSUME BaseInv, PendingIsCurrent(a), Serial(a), [Next]_vars
             PROVE  PendingIsCurrent(a)'
    OBVIOUS
<1>0. TypeOK
    BY DEF BaseInv, TypeInv
<1>1. ASSUME NEW r \in Replicas, NEW w \in Write, Checked(r, w)
      PROVE  PendingIsCurrent(a)'
    <2>1. /\ rows' = rows /\ pending'[r] = w /\ Current(w)
          /\ \A q \in Replicas \ {r} : pending'[q] = pending[q]
        BY <1>0, <1>1, ChecksAdd
    <2>2. QED
        BY <2>1 DEF PendingIsCurrent, About, Current
<1>2. ASSUME NEW r \in Replicas, Commit(r), About(r, a)
      PROVE  PendingIsCurrent(a)'
    BY <1>2, NoneLeft DEF PendingIsCurrent
<1>3. ASSUME NEW r \in Replicas, Commit(r), ~About(r, a)
      PROVE  PendingIsCurrent(a)'
    <2>1. ASSUME NEW q \in Replicas, About(q, a)'
          PROVE  Current(pending[q])'
        <3>1. /\ About(q, a) /\ pending'[q] = pending[q]
              /\ rows'[pending[q].booking] = rows[pending[q].booking]
            BY <1>3, <2>1, OthersStay
        <3>2. Current(pending[q])
            BY <3>1 DEF PendingIsCurrent
        <3>3. QED
            BY <3>1, <3>2 DEF Current
    <2>2. QED
        BY <2>1 DEF PendingIsCurrent
<1>4. ASSUME NEW r \in Replicas, Rollback(r)
      PROVE  PendingIsCurrent(a)'
    <2>1. /\ rows' = rows
          /\ \A q \in Replicas : pending'[q] # Null => pending'[q] = pending[q]
        BY <1>0, <1>4, RollbackDrops
    <2>2. QED
        BY <2>1 DEF PendingIsCurrent, About, Current
<1>5. CASE rows' = rows /\ pending' = pending
    BY <1>5 DEF PendingIsCurrent, About, Current
<1>6. QED
    BY <1>0, <1>1, <1>2, <1>3, <1>4, <1>5, Steps DEF UpdateAgent, vars

-------------------------------------------------------------------------------
(* Events *)

\* What the last event told of a booking of agent a is what its row says.
EventsTellOf(a) ==
    \A b \in Bookings :
        published[b] # Null /\ published[b].agent = a => published[b] = rows[b]

TellInv(a) == PendingIsCurrent(a) /\ EventsTellOf(a)

LEMMA TellStep ==
    ASSUME NEW a
    PROVE  BaseInv /\ TellInv(a) /\ Serial(a) /\ [Next]_vars => TellInv(a)'
<1> SUFFICES ASSUME BaseInv, TellInv(a), Serial(a), [Next]_vars
             PROVE  EventsTellOf(a)'
    BY CurrentStep DEF TellInv
<1>0. TypeOK
    BY DEF BaseInv, TypeInv
<1>1. CASE rows' = rows /\ published' = published
    BY <1>1 DEF TellInv, EventsTellOf
<1>2. ASSUME NEW r \in Replicas, Commit(r)
      PROVE  EventsTellOf(a)'
    <2> DEFINE w == pending[r]
               b == w.booking
    <2>1. /\ b \in Bookings /\ w # Null
          /\ rows'[b] = Written(rows[b], w)
          /\ \A c \in Bookings \ {b} : rows'[c] = rows[c]
          /\ published' = [published EXCEPT ![b] = w.row]
        BY <1>2, CommitWrites
    <2>2. w.row.agent = a => Written(rows[b], w) = w.row
        BY <2>1 DEF TellInv, PendingIsCurrent, About, Current
    <2>3. published'[b] = w.row /\ \A c \in Bookings \ {b} : published'[c] = published[c]
        BY <1>0, <2>1 DEF TypeOK
    <2>4. QED
        BY <2>1, <2>2, <2>3 DEF TellInv, EventsTellOf
<1>3. QED
    BY <1>0, <1>1, <1>2, Steps DEF Checked, Rollback, UpdateAgent, vars

TellAll(A) == BaseInv /\ \A a \in A : TellInv(a)

LEMMA TellAllInit ==
    ASSUME NEW A
    PROVE  Init => TellAll(A)
<1>1. Init => \A a \in A : TellInv(a)
    BY DEF Init, TellInv, PendingIsCurrent, About, EventsTellOf
<1>2. QED
    BY <1>1, BaseInit DEF TellAll

LEMMA TellAllStep ==
    ASSUME NEW A
    PROVE  TellAll(A) /\ SerialFor(A) /\ [Next]_vars => TellAll(A)'
<1> SUFFICES ASSUME TellAll(A), SerialFor(A), [Next]_vars
             PROVE  TellAll(A)'
    OBVIOUS
<1>1. BaseInv'
    BY BaseStep DEF TellAll
<1>2. ASSUME NEW a \in A PROVE TellInv(a)'
    BY TellStep DEF TellAll, SerialFor
<1>3. QED
    BY <1>1, <1>2 DEF TellAll

\* The last event about a booking tells what its row says, for the agents whose
\* writes come one at a time.
THEOREM EventsTellWhereSerial ==
    ASSUME NEW A
    PROVE  Spec /\ []SerialFor(A) => [](\A a \in A : EventsTellOf(a))
<1>1. TellAll(A) => \A a \in A : EventsTellOf(a)
    BY DEF TellAll, TellInv
<1>2. QED
    BY <1>1, TellAllInit, TellAllStep, PTL DEF Spec

OneReplica == \A q, r \in Replicas : q = r

LEMMA OneReplicaIsSerial ==
    ASSUME OneReplica, NEW A
    PROVE  SerialFor(A)
BY DEF OneReplica, SerialFor, Serial

\* With one replica the last event about a booking tells what its row says.
THEOREM EventsTellTheRowOneReplica ==
    ASSUME OneReplica
    PROVE  Spec => []EventsTellTheRow
<1>1. TellAll(Agents) => EventsTellTheRow
    BY DEF TellAll, BaseInv, TypeInv, TypeOK, TellInv, EventsTellOf, EventsTellTheRow, Row
<1>2. SerialFor(Agents)
    BY OneReplicaIsSerial
<1>3. Init => TellAll(Agents)
    BY TellAllInit
<1>4. TellAll(Agents) /\ [Next]_vars => TellAll(Agents)'
    BY <1>2, TellAllStep
<1>5. QED
    BY <1>1, <1>3, <1>4, PTL DEF Spec

-------------------------------------------------------------------------------
(* Double bookings *)

\* No active booking of the row's agent, other than b, overlaps the row.
Clear(b, row) ==
    \A c \in Bookings \ {b} :
        IsActive(c) /\ rows[c].agent = row.agent
            => ~Overlap(rows[c].start, row.start, Window)

LEMMA OfferedIsClear ==
    ASSUME OffsetsKept, TypeOK, NEW w \in Write, Offered(w), w.row.status \in Active
    PROVE  Clear(w.booking, w.row)
<1> DEFINE a == w.row.agent
           start == w.row.start
           busy == Busy(a, {w.booking})
<1>1. a \in Agents /\ start \in Times
    BY DEF Write, Row
<1>2. agents[a] \in Schedules /\ busy \in SUBSET Int /\ start \in Int
    BY <1>1, BusyType DEF TypeOK
<1>3. start \in AvailableSlots(agents[a], busy, start, 1, Window, EnsureLimit)
    BY DEF Offered, SlotAvailable, Window
<1>4. Window \in Nat \ {0}
    BY SchedulingAssumption DEF Window
<1>5. ASSUME NEW c \in Bookings \ {w.booking}, IsActive(c), rows[c].agent = a
      PROVE  ~Overlap(rows[c].start, start, Window)
    <2>1. rows[c].start \in busy
        BY <1>5 DEF Busy
    <2>2. ~Overlap(start, rows[c].start, Window)
        BY <1>2, <1>3, <1>4, <2>1, OfferedIsFree
    <2>3. QED
        BY <2>2 DEF Overlap
<1>6. QED
    BY <1>5 DEF Clear

\* What is about to be written about agent a still has its slot to itself.
PendingIsClear(a) ==
    \A r \in Replicas :
        About(r, a) /\ pending[r].row.status \in Active
            => Clear(pending[r].booking, pending[r].row)

\* Two active bookings of agent a never overlap.
NoDoubleBookingOf(a) ==
    \A b, c \in Bookings :
        /\ b # c /\ IsActive(b) /\ IsActive(c)
        /\ rows[b].agent = a /\ rows[c].agent = a
        => ~Overlap(rows[b].start, rows[c].start, Window)

FreeInv(a) ==
    /\ PendingIsCurrent(a)
    /\ PendingIsClear(a)
    /\ NoDoubleBookingOf(a)

LEMMA ClearStep ==
    ASSUME OffsetsKept, NEW a
    PROVE  BaseInv /\ PendingIsClear(a) /\ Serial(a) /\ [Next]_vars
               => PendingIsClear(a)'
<1> SUFFICES ASSUME BaseInv, PendingIsClear(a), Serial(a), [Next]_vars
             PROVE  PendingIsClear(a)'
    OBVIOUS
<1>0. TypeOK
    BY DEF BaseInv, TypeInv
<1>1. ASSUME NEW r \in Replicas, NEW w \in Write, Checked(r, w)
      PROVE  PendingIsClear(a)'
    <2>1. /\ rows' = rows /\ pending'[r] = w /\ Offered(w)
          /\ \A q \in Replicas \ {r} : pending'[q] = pending[q]
        BY <1>0, <1>1, ChecksAdd
    <2>2. w.row.status \in Active => Clear(w.booking, w.row)
        BY <1>0, <2>1, OfferedIsClear
    <2>3. QED
        BY <2>1, <2>2 DEF PendingIsClear, About, Clear, IsActive
<1>2. ASSUME NEW r \in Replicas, Commit(r), About(r, a)
      PROVE  PendingIsClear(a)'
    BY <1>2, NoneLeft DEF PendingIsClear
<1>3. ASSUME NEW r \in Replicas, Commit(r), ~About(r, a)
      PROVE  PendingIsClear(a)'
    <2>1. ASSUME NEW q \in Replicas, About(q, a)', pending'[q].row.status \in Active
          PROVE  Clear(pending[q].booking, pending[q].row)'
        <3>1. About(q, a) /\ pending'[q] = pending[q] /\ RowsStay(a)
            BY <1>3, <2>1, OthersStay
        <3>2. Clear(pending[q].booking, pending[q].row) /\ pending[q].row.agent = a
            BY <2>1, <3>1 DEF PendingIsClear, About
        <3>3. QED
            BY <3>1, <3>2 DEF Clear, RowsStay, IsActive
    <2>2. QED
        BY <2>1 DEF PendingIsClear
<1>4. ASSUME NEW r \in Replicas, Rollback(r)
      PROVE  PendingIsClear(a)'
    <2>1. /\ rows' = rows
          /\ \A q \in Replicas : pending'[q] # Null => pending'[q] = pending[q]
        BY <1>0, <1>4, RollbackDrops
    <2>2. QED
        BY <2>1 DEF PendingIsClear, About, Clear, IsActive
<1>5. CASE rows' = rows /\ pending' = pending
    BY <1>5 DEF PendingIsClear, About, Clear, IsActive
<1>6. QED
    BY <1>0, <1>1, <1>2, <1>3, <1>4, <1>5, Steps DEF UpdateAgent, vars

LEMMA FreeStep ==
    ASSUME OffsetsKept, NEW a
    PROVE  BaseInv /\ FreeInv(a) /\ Serial(a) /\ [Next]_vars => FreeInv(a)'
<1> SUFFICES ASSUME BaseInv, FreeInv(a), Serial(a), [Next]_vars
             PROVE  NoDoubleBookingOf(a)'
    BY CurrentStep, ClearStep DEF FreeInv
<1>0. TypeOK
    BY DEF BaseInv, TypeInv
<1>1. CASE rows' = rows
    BY <1>1 DEF FreeInv, NoDoubleBookingOf, IsActive
<1>2. ASSUME NEW r \in Replicas, Commit(r), ~About(r, a)
      PROVE  NoDoubleBookingOf(a)'
    <2>1. RowsStay(a)
        BY <1>2, OthersStay
    <2>2. QED
        BY <2>1 DEF FreeInv, NoDoubleBookingOf, RowsStay, IsActive
<1>3. ASSUME NEW r \in Replicas, Commit(r), About(r, a)
      PROVE  NoDoubleBookingOf(a)'
    <2>0. PICK w, b : w = pending[r] /\ b = w.booking
        OBVIOUS
    <2>1. /\ w \in Write /\ b \in Bookings
          /\ rows'[b] = w.row
          /\ \A c \in Bookings \ {b} : rows'[c] = rows[c]
        BY <1>3, <2>0, CommitWrites DEF FreeInv, PendingIsCurrent, Current
    <2>2. w.row.agent = a /\ (w.row.status \in Active => Clear(b, w.row))
        BY <1>3, <2>0 DEF FreeInv, PendingIsClear, About
    <2>3. ASSUME NEW x \in Bookings \ {b}, IsActive(x)', IsActive(b)', rows'[x].agent = a
          PROVE  ~Overlap(rows'[x].start, rows'[b].start, Window)
        BY <2>1, <2>2, <2>3 DEF Clear, IsActive
    <2>4. ASSUME NEW c \in Bookings, NEW d \in Bookings, c # d,
                 IsActive(c)', IsActive(d)', rows'[c].agent = a, rows'[d].agent = a
          PROVE  ~Overlap(rows'[c].start, rows'[d].start, Window)
        <3>1. CASE c # b /\ d # b
            BY <2>1, <2>4, <3>1 DEF FreeInv, NoDoubleBookingOf, IsActive
        <3>2. CASE d = b
            BY <2>3, <2>4, <3>2
        <3>3. CASE c = b
            BY <2>3, <2>4, <3>3 DEF Overlap
        <3>4. QED
            BY <3>1, <3>2, <3>3
    <2>5. QED
        BY <2>4 DEF NoDoubleBookingOf
<1>4. QED
    BY <1>0, <1>1, <1>2, <1>3, Steps DEF Checked, Rollback, UpdateAgent, vars

FreeAll(A) == BaseInv /\ \A a \in A : FreeInv(a)

LEMMA FreeAllInit ==
    ASSUME NEW A
    PROVE  Init => FreeAll(A)
<1>1. Init => \A a \in A : FreeInv(a)
    BY DEF Init, FreeInv, PendingIsCurrent, PendingIsClear, About,
           NoDoubleBookingOf, IsActive
<1>2. QED
    BY <1>1, BaseInit DEF FreeAll

LEMMA FreeAllStep ==
    ASSUME OffsetsKept, NEW A
    PROVE  FreeAll(A) /\ SerialFor(A) /\ [Next]_vars => FreeAll(A)'
<1> SUFFICES ASSUME FreeAll(A), SerialFor(A), [Next]_vars
             PROVE  FreeAll(A)'
    OBVIOUS
<1>1. BaseInv'
    BY BaseStep DEF FreeAll
<1>2. ASSUME NEW a \in A PROVE FreeInv(a)'
    BY FreeStep DEF FreeAll, SerialFor
<1>3. QED
    BY <1>1, <1>2 DEF FreeAll

\* Where the database keeps UTC offsets, or agents live on UTC, two active bookings
\* of an agent whose writes come one at a time never overlap, however many replicas
\* there are and whatever happens to other agents: for any slot length, schedules
\* and request times.
THEOREM NoDoubleBookingWhereSerial ==
    ASSUME OffsetsKept, NEW A
    PROVE  Spec /\ []SerialFor(A) => [](\A a \in A : NoDoubleBookingOf(a))
<1>1. FreeAll(A) => \A a \in A : NoDoubleBookingOf(a)
    BY DEF FreeAll, FreeInv
<1>2. QED
    BY <1>1, FreeAllInit, FreeAllStep, PTL DEF Spec

\* With one replica, under the same assumption, no two active bookings of an agent
\* overlap.
THEOREM NoDoubleBookingOneReplica ==
    ASSUME OneReplica, OffsetsKept
    PROVE  Spec => []NoDoubleBooking
<1>1. FreeAll(Agents) => NoDoubleBooking
    BY DEF FreeAll, BaseInv, TypeInv, TypeOK, FreeInv, NoDoubleBookingOf,
           NoDoubleBooking, IsActive, Row, Window
<1>2. SerialFor(Agents)
    BY OneReplicaIsSerial
<1>3. Init => FreeAll(Agents)
    BY FreeAllInit
<1>4. FreeAll(Agents) /\ [Next]_vars => FreeAll(Agents)'
    BY <1>2, FreeAllStep
<1>5. QED
    BY <1>1, <1>3, <1>4, PTL DEF Spec

-------------------------------------------------------------------------------
(* Bookings land on offered slots *)

\* No edit of agent a's timezone or hours comes between the check of a write about
\* it and its commit.
HoursKept(a) == (\E r \in Replicas : About(r, a)) => agents'[a] = agents[a]

\* The slots about to be written are still offered.
PendingIsOffered(a) ==
    \A r \in Replicas : About(r, a) => Offered(pending[r])

OfferInv(a) == PendingIsCurrent(a) /\ PendingIsOffered(a)

OfferAll(A) == BaseInv /\ \A a \in A : OfferInv(a)

\* A booking of agent a that becomes active, or moves, takes an offered slot.
ActivationOf(a) ==
    \A b \in Bookings :
        IsActive(b)' /\ rows'[b] # rows[b] /\ rows'[b].agent = a
            => SlotAvailable(agents[a], Busy(a, {b}), rows'[b].start)

LEMMA BusyStays ==
    ASSUME NEW a, RowsStay(a), NEW except
    PROVE  Busy(a, except)' = Busy(a, except)
<1>1. \A b \in Bookings : (IsActive(b) /\ rows[b].agent = a)'
                              <=> IsActive(b) /\ rows[b].agent = a
    BY DEF RowsStay, IsActive
<1>2. \A b \in Bookings : IsActive(b) /\ rows[b].agent = a => rows'[b] = rows[b]
    BY DEF RowsStay, IsActive
<1>3. QED
    BY <1>1, <1>2 DEF Busy

LEMMA OfferedStep ==
    ASSUME NEW a \in Agents
    PROVE  BaseInv /\ PendingIsOffered(a) /\ Serial(a) /\ HoursKept(a) /\ [Next]_vars
               => PendingIsOffered(a)'
<1> SUFFICES ASSUME BaseInv, PendingIsOffered(a), Serial(a), HoursKept(a), [Next]_vars
             PROVE  PendingIsOffered(a)'
    OBVIOUS
<1>0. TypeOK
    BY DEF BaseInv, TypeInv
<1>1. ASSUME NEW r \in Replicas, NEW w \in Write, Checked(r, w)
      PROVE  PendingIsOffered(a)'
    <2>1. /\ rows' = rows /\ agents' = agents /\ pending'[r] = w /\ Offered(w)
          /\ \A q \in Replicas \ {r} : pending'[q] = pending[q]
        BY <1>0, <1>1, ChecksAdd
    <2>2. \A v : Offered(v)' <=> Offered(v)
        BY <2>1 DEF Offered, Busy, IsActive
    <2>3. QED
        BY <2>1, <2>2 DEF PendingIsOffered, About
<1>2. ASSUME NEW r \in Replicas, Commit(r), About(r, a)
      PROVE  PendingIsOffered(a)'
    BY <1>2, NoneLeft DEF PendingIsOffered
<1>3. ASSUME NEW r \in Replicas, Commit(r), ~About(r, a)
      PROVE  PendingIsOffered(a)'
    <2>1. ASSUME NEW q \in Replicas, About(q, a)'
          PROVE  Offered(pending[q])'
        <3>1. About(q, a) /\ pending'[q] = pending[q] /\ RowsStay(a) /\ agents' = agents
            BY <1>3, <2>1, OthersStay DEF Commit
        <3>2. Offered(pending[q]) /\ pending[q].row.agent = a
            BY <3>1 DEF PendingIsOffered, About
        <3>3. Busy(a, {pending[q].booking})' = Busy(a, {pending[q].booking})
            <4>1. PICK b : b = pending[q].booking
                OBVIOUS
            <4>2. Busy(a, {b})' = Busy(a, {b})
                BY <3>1, BusyStays
            <4>3. QED
                BY <3>1, <4>1, <4>2
        <3>4. QED
            BY <3>1, <3>2, <3>3 DEF Offered
    <2>2. QED
        BY <2>1 DEF PendingIsOffered
<1>4. ASSUME NEW r \in Replicas, Rollback(r)
      PROVE  PendingIsOffered(a)'
    <2>1. /\ rows' = rows /\ agents' = agents
          /\ \A q \in Replicas : pending'[q] # Null => pending'[q] = pending[q]
        BY <1>0, <1>4, RollbackDrops
    <2>2. \A v : Offered(v)' <=> Offered(v)
        BY <2>1 DEF Offered, Busy, IsActive
    <2>3. QED
        BY <2>1, <2>2 DEF PendingIsOffered, About
<1>5. CASE rows' = rows /\ pending' = pending
    <2>1. ASSUME NEW q \in Replicas, About(q, a)
          PROVE  Offered(pending[q])'
        <3>1. pending[q].row.agent = a /\ agents'[a] = agents[a] /\ Offered(pending[q])
            BY <2>1 DEF About, HoursKept, PendingIsOffered
        <3>2. QED
            BY <1>5, <3>1 DEF Offered, Busy, IsActive
    <2>2. QED
        BY <1>5, <2>1 DEF PendingIsOffered, About
<1>6. QED
    BY <1>0, <1>1, <1>2, <1>3, <1>4, <1>5, Steps DEF UpdateAgent, vars

LEMMA ActivationStep ==
    ASSUME NEW a
    PROVE  BaseInv /\ OfferInv(a) /\ [Next]_vars => ActivationOf(a)
<1> SUFFICES ASSUME BaseInv, OfferInv(a), [Next]_vars,
                    NEW b \in Bookings, IsActive(b)', rows'[b] # rows[b], rows'[b].agent = a
             PROVE  SlotAvailable(agents[a], Busy(a, {b}), rows'[b].start)
    BY DEF ActivationOf
<1>0. TypeOK
    BY DEF BaseInv, TypeInv
<1>1. PICK r \in Replicas : Commit(r)
    BY <1>0, Steps DEF Checked, Rollback, UpdateAgent, vars
<1>2. PICK w : w = pending[r]
    OBVIOUS
<1>3. /\ w # Null /\ w.booking \in Bookings
      /\ rows'[w.booking] = Written(rows[w.booking], w)
      /\ Written(rows[w.booking], w).agent = w.row.agent
      /\ \A c \in Bookings \ {w.booking} : rows'[c] = rows[c]
    BY <1>1, <1>2, CommitWrites
<1>4. w.booking = b /\ w.row.agent = a
    BY <1>3
<1>5. Current(w) /\ Offered(w)
    BY <1>2, <1>3, <1>4 DEF OfferInv, PendingIsCurrent, PendingIsOffered, About
<1>6. rows'[b] = w.row
    BY <1>3, <1>4, <1>5 DEF Current
<1>7. QED
    BY <1>4, <1>5, <1>6 DEF Offered, IsActive

LEMMA OfferAllInit ==
    ASSUME NEW A
    PROVE  Init => OfferAll(A)
<1>1. Init => \A a \in A : OfferInv(a)
    BY DEF Init, OfferInv, PendingIsCurrent, PendingIsOffered, About
<1>2. QED
    BY <1>1, BaseInit DEF OfferAll

LEMMA OfferAllStep ==
    ASSUME NEW A \in SUBSET Agents
    PROVE  /\ OfferAll(A) /\ SerialFor(A) /\ [Next]_vars /\ (\A a \in A : HoursKept(a))
                  => OfferAll(A)'
           /\ OfferAll(A) /\ [Next]_vars => \A a \in A : ActivationOf(a)
<1>1. ASSUME OfferAll(A), SerialFor(A), [Next]_vars, \A a \in A : HoursKept(a)
      PROVE  OfferAll(A)'
    <2>1. BaseInv'
        BY <1>1, BaseStep DEF OfferAll
    <2>2. ASSUME NEW a \in A PROVE OfferInv(a)'
        BY <1>1, CurrentStep, OfferedStep DEF OfferAll, OfferInv, SerialFor
    <2>3. QED
        BY <2>1, <2>2 DEF OfferAll
<1>2. ASSUME OfferAll(A), [Next]_vars, NEW a \in A
      PROVE  ActivationOf(a)
    BY <1>2, ActivationStep DEF OfferAll
<1>3. QED
    BY <1>1, <1>2

\* A booking that becomes active, or moves while active, lands on a slot its agent's
\* hours offer at the moment of the commit, for the agents whose writes come one at
\* a time and whose hours are not edited while one is on its way.
THEOREM ActivationOfferedWhereSerial ==
    ASSUME NEW A \in SUBSET Agents
    PROVE  Spec /\ []SerialFor(A) /\ [][\A a \in A : HoursKept(a)]_vars
               => [][\A a \in A : ActivationOf(a)]_vars
<1>1. UNCHANGED vars => \A a \in A : HoursKept(a)
    BY DEF vars, HoursKept
<1>2. QED
    BY <1>1, OfferAllInit, OfferAllStep, PTL DEF Spec

LEMMA HoursKeptOneReplica ==
    ASSUME OneReplica, TypeOK, [Next]_vars, NEW a
    PROVE  HoursKept(a)
<1>1. CASE agents' = agents
    BY <1>1 DEF HoursKept
<1>2. ASSUME NEW r \in Replicas, pending[r] = Null
      PROVE  HoursKept(a)
    BY <1>2 DEF HoursKept, About, OneReplica
<1>3. QED
    BY <1>1, <1>2, Steps DEF Checked, Commit, Rollback, UpdateAgent, vars

\* With one replica every booking that becomes active, or moves while active, lands
\* on a slot offered at the moment of the commit.
THEOREM ActivationIsOfferedOneReplica ==
    ASSUME OneReplica
    PROVE  Spec => ActivationIsOffered
<1> DEFINE Lands ==
        \A b \in Bookings :
            IsActive(b)' /\ rows'[b] # rows[b]
                => SlotAvailable(agents[rows'[b].agent],
                                 Busy(rows'[b].agent, {b}), rows'[b].start)
<1>1. Init => OfferAll(Agents)
    BY OfferAllInit
<1>2. OfferAll(Agents) /\ [Next]_vars => OfferAll(Agents)'
    BY OneReplicaIsSerial, OfferAllStep, HoursKeptOneReplica
       DEF OfferAll, BaseInv, TypeInv
<1>3. OfferAll(Agents) /\ [Next]_vars => Lands
    <2> SUFFICES ASSUME OfferAll(Agents), [Next]_vars, NEW b \in Bookings,
                        IsActive(b)', rows'[b] # rows[b]
                 PROVE  SlotAvailable(agents[rows'[b].agent],
                                      Busy(rows'[b].agent, {b}), rows'[b].start)
        OBVIOUS
    <2>1. TypeOK'
        BY BaseStep DEF OfferAll, BaseInv, TypeInv
    <2>2. rows'[b].agent \in Agents
        BY <2>1 DEF TypeOK, Row, IsActive
    <2>3. PICK a \in Agents : a = rows'[b].agent
        BY <2>2
    <2>4. ActivationOf(a)
        BY OfferAllStep
    <2>5. QED
        BY <2>3, <2>4 DEF ActivationOf
<1>4. QED
    BY <1>1, <1>2, <1>3, PTL DEF Spec, ActivationIsOffered

-------------------------------------------------------------------------------
(* The handlers implement the calendar *)

Held(b) ==
    IF IsActive(b) THEN [agent |-> rows[b].agent, start |-> rows[b].start] ELSE Null

\* A commit holds, moves or releases the slot of the booking it writes; every
\* other step leaves the calendar alone.
LEMMA CalendarStep ==
    FreeAll(Agents) /\ [Next]_vars => [Cal!Next]_([b \in Bookings |-> Held(b)])
<1> DEFINE held == [b \in Bookings |-> Held(b)]
<1> SUFFICES ASSUME FreeAll(Agents), [Next]_vars
             PROVE  Cal!Next \/ held' = held
    BY DEF Held
<1>0. BaseInv /\ TypeOK
    BY DEF FreeAll, BaseInv, TypeInv
<1>1. CASE rows' = rows
    BY <1>1 DEF Held, IsActive
<1>2. ASSUME NEW r \in Replicas, Commit(r)
      PROVE  Cal!Next \/ held' = held
    <2>0. PICK w, b : w = pending[r] /\ b = w.booking
        OBVIOUS
    <2> DEFINE s == [agent |-> w.row.agent, start |-> w.row.start]
    <2>1. /\ w \in Write /\ w # Null /\ b \in Bookings /\ w.row \in Row
          /\ rows' = [rows EXCEPT ![b] = Written(rows[b], w)]
        BY <1>0, <1>2, <2>0, CommitWrites
    <2>2. /\ Written(rows[b], w) = w.row
          /\ w.row.status \in Active => Clear(b, w.row)
        <3>1. w.row.agent \in Agents
            BY <2>1 DEF Row
        <3>2. PICK a \in Agents : a = w.row.agent
            BY <3>1
        <3>3. PendingIsCurrent(a) /\ PendingIsClear(a) /\ About(r, a)
            BY <2>0, <2>1, <3>2 DEF FreeAll, FreeInv, About
        <3>4. QED
            BY <2>0, <3>3 DEF PendingIsCurrent, PendingIsClear, Current
    <2>3. rows' = [rows EXCEPT ![b] = w.row]
        BY <2>1, <2>2
    <2>4. w.row # Null
        BY <2>1, BookingsAssumption
    <2>5. CASE w.row.status \in Active
        <3>1. held' = [held EXCEPT ![b] = s]
            BY <1>0, <2>1, <2>3, <2>4, <2>5 DEF Held, IsActive, TypeOK
        <3>2. s \in Cal!Slot
            BY <2>1 DEF Cal!Slot, Row
        <3>3. ASSUME NEW c \in Bookings \ {b}, held[c] # Null
              PROVE  ~Cal!Clash(held[c], s)
            <4>1. IsActive(c) /\ held[c] = [agent |-> rows[c].agent, start |-> rows[c].start]
                BY <3>3 DEF Held
            <4>2. rows[c].agent = w.row.agent => ~Overlap(rows[c].start, w.row.start, Window)
                BY <2>2, <2>5, <4>1 DEF Clear
            <4>3. QED
                BY <4>1, <4>2 DEF Cal!Clash, Overlap, Window
        <3>4. QED
            BY <2>1, <3>1, <3>2, <3>3 DEF Cal!Next, Cal!Hold, Held
    <2>6. CASE w.row.status \notin Active
        <3>1. held' = [held EXCEPT ![b] = Null]
            BY <1>0, <2>1, <2>3, <2>6 DEF Held, IsActive, TypeOK
        <3>2. CASE held[b] = Null
            BY <3>1, <3>2
        <3>3. CASE held[b] # Null
            BY <2>1, <3>1, <3>3 DEF Cal!Next, Cal!Release, Held
        <3>4. QED
            BY <3>2, <3>3
    <2>7. QED
        BY <2>5, <2>6
<1>3. QED
    BY <1>0, <1>1, <1>2, Steps DEF Checked, Rollback, UpdateAgent, vars

LEMMA CalendarInit == Init => Cal!Init
BY DEF Init, Cal!Init, IsActive

\* Where offsets are kept and no two writes about one agent are on their way at
\* once, the booking handlers of any number of replicas implement the calendar in
\* which every slot is held, moved or released in one step: a lock per agent from
\* the check to the commit is enough.
THEOREM ImplementsCalendarWhereSerial ==
    ASSUME OffsetsKept
    PROVE  Spec /\ []SerialFor(Agents) => ImplementsCalendar
<1>1. Init => FreeAll(Agents)
    BY FreeAllInit
<1>2. FreeAll(Agents) /\ SerialFor(Agents) /\ [Next]_vars => FreeAll(Agents)'
    BY FreeAllStep
<1>3. QED
    BY <1>1, <1>2, CalendarInit, CalendarStep, PTL
       DEF Spec, ImplementsCalendar, Cal!Spec, Held

\* With one replica, under the same assumption, they implement it.
THEOREM ImplementsCalendarOneReplica ==
    ASSUME OneReplica, OffsetsKept
    PROVE  Spec => ImplementsCalendar
<1>1. SerialFor(Agents)
    BY OneReplicaIsSerial
<1>2. Init => FreeAll(Agents)
    BY FreeAllInit
<1>3. FreeAll(Agents) /\ [Next]_vars => FreeAll(Agents)'
    BY <1>1, FreeAllStep
<1>4. QED
    BY <1>2, <1>3, CalendarInit, CalendarStep, PTL
       DEF Spec, ImplementsCalendar, Cal!Spec, Held

LEMMA ExclusiveStep ==
    Cal!Exclusive /\ [Cal!Next]_([b \in Bookings |-> Held(b)]) => Cal!Exclusive'
<1> DEFINE held == [b \in Bookings |-> Held(b)]
           Apart == \A b, c \in Bookings :
                        b # c /\ held[b] # Null /\ held[c] # Null
                            => ~Cal!Clash(held[b], held[c])
<1>1. (Cal!Exclusive <=> Apart) /\ (Cal!Exclusive' <=> Apart')
    BY DEF Cal!Exclusive, Held
<1> SUFFICES ASSUME Apart, Cal!Next \/ held' = held
             PROVE  Apart'
    BY <1>1 DEF Held
<1>2. CASE held' = held
    BY <1>2
<1>3. ASSUME NEW b \in Bookings, Cal!Release(b)
      PROVE  Apart'
    <2>1. held' = [held EXCEPT ![b] = Null]
        BY <1>3 DEF Cal!Release, Held
    <2> HIDE DEF held
    <2>2. \A c \in Bookings : held'[c] # Null => held'[c] = held[c]
        BY <2>1 DEF held
    <2>3. QED
        BY <2>2
<1>4. ASSUME NEW b \in Bookings, NEW s, Cal!Hold(b, s)
      PROVE  Apart'
    <2>1. /\ held' = [held EXCEPT ![b] = s]
          /\ \A c \in Bookings \ {b} : held[c] # Null => ~Cal!Clash(held[c], s)
        BY <1>4 DEF Cal!Hold, Held
    <2>2. held'[b] = s /\ \A c \in Bookings \ {b} : held'[c] = held[c]
        BY <2>1
    <2>3. \A t, u : Cal!Clash(t, u) => Cal!Clash(u, t)
        BY DEF Cal!Clash
    <2> HIDE DEF held
    <2>4. QED
        BY <2>1, <2>2, <2>3
<1>5. QED
    BY <1>2, <1>3, <1>4 DEF Cal!Next

\* Whatever implements the calendar never books an agent twice.
THEOREM CalendarIsExclusive == Spec /\ ImplementsCalendar => []NoDoubleBooking
<1>1. Cal!Init => Cal!Exclusive
    BY DEF Cal!Init, Cal!Exclusive
<1>2. TypeOK /\ Cal!Exclusive => NoDoubleBooking
    <2> SUFFICES ASSUME TypeOK, Cal!Exclusive, NEW b \in Bookings, NEW c \in Bookings,
                        b # c, IsActive(b), IsActive(c), rows[b].agent = rows[c].agent,
                        Overlap(rows[b].start, rows[c].start, Window)
                 PROVE  FALSE
        BY DEF NoDoubleBooking, Window
    <2>1. ASSUME NEW x \in Bookings, IsActive(x)
          PROVE  [agent |-> rows[x].agent, start |-> rows[x].start] # Null
        BY <2>1, BookingsAssumption DEF IsActive, TypeOK, Row
    <2>2. QED
        BY <2>1 DEF Cal!Exclusive, Cal!Clash, Overlap, Window
<1>3. QED
    BY <1>1, <1>2, ExclusiveStep, TypeCorrect, PTL
       DEF ImplementsCalendar, Cal!Spec, Held

-------------------------------------------------------------------------------
(* Availability *)

\* Where offsets are kept, no slot to come that the availability endpoint offers is
\* taken, whatever the replicas do, for any schedules, days and limits and every
\* slot length from that of a booking up.
THEOREM OffersAreFreeAlways ==
    ASSUME OffsetsKept
    PROVE  Spec => []OffersAreFree
BY OffersFree, TypeCorrect, PTL

\* Every slot to come that is offered at the booking length can be booked, whatever
\* the replicas do and the database keeps, when the check's limit hides no slot of
\* an empty calendar from it.
THEOREM OffersAreBookableAlways ==
    ASSUME CheckReaches
    PROVE  Spec => []OffersAreBookable
BY OffersBookable, TypeCorrect, PTL
===============================================================================
