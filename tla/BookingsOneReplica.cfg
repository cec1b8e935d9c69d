SPECIFICATION Spec
CONSTANTS
    Replicas = {r1}
    Agents = {a1}
    Bookings = {b1, b2, b3}
    Null = Null
    Times <- MCTimes
    Schedules <- MCSchedules
    BookingSlotMinutes = 30
    NaiveStore = FALSE
    References <- MCReferences
    Lengths = {30, 60}
    Days = {1, 2}
    Limits = {1, 8}
INVARIANTS
    TypeOK
    NoDoubleBooking
    EventsTellTheRow
    OffersAreFree
    OffersAreBookable
PROPERTIES
    ActivationIsOffered
    ImplementsCalendar
