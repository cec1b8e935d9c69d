------------------------------- MODULE Bookings -------------------------------
(***************************************************************************)
(* The booking handlers of the API (create_booking, update_booking) and    *)
(* the edits of an agent's timezone and business hours.                    *)
(*                                                                         *)
(* A handler is synchronous: a replica runs one at a time, in one database *)
(* transaction.  It reads and checks first and writes when it commits;     *)
(* nothing is locked in between, so the handlers of two replicas           *)
(* interleave at those two points.                                         *)
(***************************************************************************)
EXTENDS Scheduling

CONSTANTS
    Replicas,   \* API processes
    Agents,
    Bookings,   \* booking ids (uuid4: a create takes an unused one)
    Times,      \* UTC instants clients ask for
    Schedules,  \* timezone and business hours an agent may be given
    Null        \* "no value" and "no request in flight"

VARIABLES
    agents,     \* agents[a]: the timezone and hours columns of agent a
    rows,       \* rows[b]: the booking row, Null before its creation
    pending,    \* pending[r]: the write replica r has checked and not committed
    published   \* published[b]: what the last event about b says of it

vars == <<agents, rows, pending, published>>

Active == {"confirmed", "rescheduled"}
Status == Active \cup {"cancelled"}

Row == [agent : Agents, start : Times, status : Status]

\* The columns an UPDATE carries: the ORM writes those that changed, and an
\* INSERT carries all of them.
Columns == {"agent", "start", "status"}

\* A write waiting for its commit: the booking, the row as the handler sees it
\* and the columns it will write.
Write == [booking : Bookings, row : Row, columns : SUBSET Columns]

\* PATCH payload: a field left out is Null.
Patch == [start : Times \cup {Null}, status : Status \cup {Null}]

ASSUME BookingsAssumption ==
    /\ Times \subseteq Int
    /\ Null \notin Times /\ Null \notin Status
    /\ Null \notin Row /\ Null \notin Write
    /\ Null \notin [agent : Agents, start : Times]
    /\ \A s \in Schedules :
           /\ s.offset \in Int
           /\ -DayMinutes < s.offset /\ s.offset < DayMinutes
           /\ \A key \in DOMAIN s.hours :
                  s.hours[key] \in Seq([open : Int, close : Int])

TypeOK ==
    /\ agents \in [Agents -> Schedules]
    /\ rows \in [Bookings -> Row \cup {Null}]
    /\ pending \in [Replicas -> Write \cup {Null}]
    /\ published \in [Bookings -> Row \cup {Null}]

IsActive(b) == rows[b] # Null /\ rows[b].status \in Active

\* Variants with a plausible bug, for the mutation runs: rescheduled bookings
\* forgotten, a status left out of the payload not defaulted, the status not
\* written, no check when the start is not in the payload.
BusyConfirmed(a, except) ==
    { rows[b].start : b \in { c \in Bookings \ except :
                                /\ rows[c] # Null /\ rows[c].status = "confirmed"
                                /\ rows[c].agent = a } }

PatchedWithoutDefaults(row, p) ==
    [row EXCEPT !.start  = IF p.start = Null THEN @ ELSE p.start,
                !.status = p.status]

ChangedStart(old, new) == IF new.start # old.start THEN {"start"} ELSE {}

NeedsSlotWhenMoved(new, p) == new.status # "cancelled" /\ p.start # Null

\* The starts of the agent's active bookings, leaving out the booking edited.
Busy(a, except) ==
    { rows[b].start : b \in { c \in Bookings \ except :
                                IsActive(c) /\ rows[c].agent = a } }

Init ==
    /\ agents \in [Agents -> Schedules]
    /\ rows = [b \in Bookings |-> Null]
    /\ pending = [r \in Replicas |-> Null]
    /\ published = [b \in Bookings |-> Null]

-------------------------------------------------------------------------------
(* create_booking up to its commit: the slot must be available, and the    *)
(* calendar adapter confirms the booking.                                  *)
CheckCreate(r, b, a, t) ==
    /\ pending[r] = Null
    /\ rows[b] = Null
    /\ \A q \in Replicas : pending[q] # Null => pending[q].booking # b
    /\ SlotAvailable(agents[a], Busy(a, {}), t)
    /\ pending' = [pending EXCEPT ![r] =
            [booking |-> b,
             row     |-> [agent |-> a, start |-> t, status |-> "confirmed"],
             columns |-> Columns]]
    /\ UNCHANGED <<agents, rows, published>>

(* update_booking up to its commit.  Fields the payload leaves out keep    *)
(* the values read; unless the result is cancelled the slot is checked     *)
(* again, against the other bookings.                                      *)
Patched(row, p) ==
    [row EXCEPT !.start  = IF p.start = Null THEN @ ELSE p.start,
                !.status = IF p.status = Null THEN @ ELSE p.status]

Changed(old, new) ==
    (IF new.start # old.start THEN {"start"} ELSE {})
        \cup (IF new.status # old.status THEN {"status"} ELSE {})

NeedsSlot(new, p) == new.status # "cancelled"

CheckUpdate(r, b, p) ==
    LET old == rows[b]
        new == Patched(old, p)
    IN  /\ pending[r] = Null
        /\ old # Null
        /\ NeedsSlot(new, p) =>
               SlotAvailable(agents[old.agent], Busy(old.agent, {b}), new.start)
        /\ pending' = [pending EXCEPT ![r] =
                [booking |-> b,
                 row     |-> new,
                 columns |-> Changed(old, new)]]
        /\ UNCHANGED <<agents, rows, published>>

\* The row after the write: the columns not written keep what the database has.
Written(old, w) ==
    [agent  |-> IF "agent"  \in w.columns THEN w.row.agent  ELSE old.agent,
     start  |-> IF "start"  \in w.columns THEN w.row.start  ELSE old.start,
     status |-> IF "status" \in w.columns THEN w.row.status ELSE old.status]

\* The commit of either handler; the event added in the same transaction
\* carries the row as the handler sees it.
Commit(r) ==
    /\ pending[r] # Null
    /\ rows' = [rows EXCEPT ![pending[r].booking] = Written(@, pending[r])]
    /\ published' = [published EXCEPT ![pending[r].booking] = pending[r].row]
    /\ pending' = [pending EXCEPT ![r] = Null]
    /\ UNCHANGED agents

\* An exception (event delivery, database) or a crash before the commit.
Rollback(r) ==
    /\ pending[r] # Null
    /\ pending' = [pending EXCEPT ![r] = Null]
    /\ UNCHANGED <<agents, rows, published>>

\* update_agent, as far as the calendar can tell: timezone and business hours.
UpdateAgent(r, a, s) ==
    /\ pending[r] = Null
    /\ agents' = [agents EXCEPT ![a] = s]
    /\ UNCHANGED <<rows, pending, published>>

Next ==
    \E r \in Replicas :
        \/ \E b \in Bookings, a \in Agents, t \in Times : CheckCreate(r, b, a, t)
        \/ \E b \in Bookings, p \in Patch : CheckUpdate(r, b, p)
        \/ Commit(r)
        \/ Rollback(r)
        \/ \E a \in Agents, s \in Schedules : UpdateAgent(r, a, s)

Spec == Init /\ [][Next]_vars

-------------------------------------------------------------------------------
(* Properties *)

\* Two active bookings of one agent never overlap: the promise of the slot check
\* in create_booking and update_booking.
NoDoubleBooking ==
    \A b, c \in Bookings :
        /\ b # c /\ IsActive(b) /\ IsActive(c)
        /\ rows[b].agent = rows[c].agent
        => ~Overlap(rows[b].start, rows[c].start, BookingSlotMinutes)

\* What the last booking.created / booking.updated event told subscribers is
\* what the booking's row says.
EventsTellTheRow ==
    \A b \in Bookings : published[b] # Null => published[b] = rows[b]

\* A booking that becomes active, or moves while active, lands on a slot the
\* agent's hours offer at the moment of the commit.
ActivationIsOffered ==
    [][\A b \in Bookings :
        IsActive(b)' /\ rows'[b] # rows[b]
            => SlotAvailable(agents[rows'[b].agent],
                             Busy(rows'[b].agent, {b}), rows'[b].start)]_vars

Cal == INSTANCE BookingCalendar WITH
    SlotLen <- BookingSlotMinutes,
    Free <- Null,
    held <- [b \in Bookings |->
                IF IsActive(b) THEN [agent |-> rows[b].agent, start |-> rows[b].start]
                               ELSE Null]

\* The handlers implement the calendar in which slots are held one at a time.
ImplementsCalendar == Cal!Spec
===============================================================================
