----------------------------- MODULE Availability -----------------------------
(***************************************************************************)
(* GET /v1/agents/{agent_id}/availability over the state of Bookings: a    *)
(* read, in a transaction of its own, whose caller chooses the reference   *)
(* instant, the number of days, the length and the number of slots.        *)
(***************************************************************************)
EXTENDS Bookings

CONSTANTS
    References, \* start_at, or the time of the request
    Lengths,    \* slot_minutes, or the length of a booking
    Days,       \* days
    Limits      \* limit

ASSUME AvailabilityAssumption ==
    /\ References \subseteq Int
    /\ Lengths \subseteq (15..180) \cup {BookingSlotMinutes}
    /\ Days \subseteq 1..14
    /\ Limits \subseteq 1..24

\* The starts of the slots offered for agent a.
Offer(a, ref, days, len, limit) ==
    AvailableSlots(agents[a], Busy(a, {}), ref, days, len, limit)

-------------------------------------------------------------------------------
(* Properties of the answer in every reachable state.  They are about the  *)
(* slots to come: one in progress at the reference instant may be offered  *)
(* too.                                                                    *)

\* A booking of the agent takes part of the slot.
Taken(a, start, len) ==
    \E b \in Bookings :
        /\ IsActive(b) /\ rows[b].agent = a
        /\ rows[b].start < start + len
        /\ start < rows[b].start + BookingSlotMinutes

FreeAtLength(len) ==
    \A a \in Agents, ref \in References, days \in Days, limit \in Limits :
        \A s \in Offer(a, ref, days, len, limit) : s >= ref => ~Taken(a, s, len)

\* No booking takes part of a slot offered, when the slots asked for are at
\* least as long as a booking.
OffersAreFree ==
    \A len \in Lengths : len >= BookingSlotMinutes => FreeAtLength(len)

\* The same for the shorter slots the endpoint accepts (slot_minutes >= 15).
ShortOffersAreFree ==
    \A len \in Lengths : len < BookingSlotMinutes => FreeAtLength(len)

\* Every slot offered at the booking length can be booked: the availability
\* endpoint and the check in create_booking agree, though they start from
\* different reference instants and stop at different limits.
OffersAreBookable ==
    \A a \in Agents, ref \in References, days \in Days, limit \in Limits :
        \A s \in Offer(a, ref, days, BookingSlotMinutes, limit) :
            s >= ref => SlotAvailable(agents[a], Busy(a, {}), s)
===============================================================================
