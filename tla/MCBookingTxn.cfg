CONSTANTS
    x1 = x1
    x2 = x2
    a = a
    b = b
    g = g
    double = double
    NoReservation = NoReservation
    NoJob = NoJob
    Folios = {x1, x2}
    Rooms = {a, b}
    Guests = {g}
    RoomTypes = {double}
    LineAmounts <- OneExtra
    PaymentAmounts <- NoAmounts
    Rates = {1}
    Parties = {1}
    Capacities = {1}
    LastDay = 4
    MaxNights = 3
    MaxCents = 20
    MaxEntries = 5
    MaxRequests = 2
    MaxOpen = 2
    Midnights = 1
    BookingJobs <- SomeJobs
SPECIFICATION BookingSpec
INVARIANTS BookingTypeOK ConfirmationNumbers ArrivalsAreCharged StuckOnlyByRace RoomLostOnlyByOverlap DoubleBookedOnlyByOverlap
PROPERTIES FreshCommitsAreAtomic BookingRequestsEnd
CHECK_DEADLOCK FALSE
