SPECIFICATION Spec
CONSTANTS
    Replicas = {r1}
    Agents = {a1}
    Bookings = {b1, b2}
    Null = Null
    Times <- MCTimes
    Schedules <- MCSchedules
    BookingSlotMinutes = 30
    NaiveStore = FALSE
    References <- MCReferences
    Lengths = {15, 30, 60}
    Days = {1}
    Limits = {8}
INVARIANT ShortOffersAreFree
