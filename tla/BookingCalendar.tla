---------------------------- MODULE BookingCalendar ----------------------------
(***************************************************************************)
(* What the bookings of an agent promise, whatever the handlers do: a      *)
(* calendar in which a booking holds at most one slot and no two bookings  *)
(* of one agent hold overlapping slots.  A booking is reserved, moved or   *)
(* released in one step.                                                   *)
(***************************************************************************)
EXTENDS Integers

CONSTANTS Agents, Bookings, Times, SlotLen, Free

VARIABLE held   \* held[b]: the slot [agent, start] booking b holds, or Free

Slot == [agent : Agents, start : Times]

Clash(s, t) ==
    /\ s.agent = t.agent
    /\ s.start < t.start + SlotLen
    /\ t.start < s.start + SlotLen

Init == held = [b \in Bookings |-> Free]

\* Give booking b the slot s, dropping the one it holds.
Hold(b, s) ==
    /\ \A c \in Bookings \ {b} : held[c] # Free => ~Clash(held[c], s)
    /\ held' = [held EXCEPT ![b] = s]

Release(b) ==
    /\ held[b] # Free
    /\ held' = [held EXCEPT ![b] = Free]

Next == \E b \in Bookings : Release(b) \/ \E s \in Slot : Hold(b, s)

Spec == Init /\ [][Next]_held

\* No two bookings of the calendar hold overlapping slots.
Exclusive ==
    \A b, c \in Bookings :
        b # c /\ held[b] # Free /\ held[c] # Free => ~Clash(held[b], held[c])
===============================================================================
