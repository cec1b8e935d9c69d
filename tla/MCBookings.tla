------------------------------ MODULE MCBookings ------------------------------
(***************************************************************************)
(* A small instance for TLC.  Monday, a half-hour grid; the schedules      *)
(* overlap, disagree on the grid and differ in timezone.                   *)
(***************************************************************************)
EXTENDS Availability

At(h, m) == h * 60 + m

\* Nine to half past ten under two keys: the later part is visited first, and
\* half past nine twice.
Morning == [offset |-> 0,
            hours  |-> [mon   |-> <<[open |-> At(9, 30), close |-> At(10, 30)]>>,
                        daily |-> <<[open |-> At(9, 0), close |-> At(10, 0)]>>]]

\* Same instants seen from UTC+2, on a grid shifted by a quarter of an hour,
\* with a range the parser refuses.
Shifted == [offset |-> 120,
            hours  |-> [weekdays |-> <<[open |-> At(12, 0), close |-> At(24, 0)],
                                       [open |-> At(11, 15), close |-> At(12, 15)]>>]]

MCSchedules == {Morning, Shifted}

\* On either grid and off both.
MCTimes == {At(9, 0), At(9, 15), At(9, 30), At(9, 40)}

\* Availability is asked for slots of half a booking, one and two, from instants
\* before, on and after the starts above.
MCReferences == MCTimes \cup {At(8, 0)}
===============================================================================
