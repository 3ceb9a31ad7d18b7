CONSTANTS
    r1 = r1
    r2 = r2
    a = a
    b = b
    g1 = g1
    g2 = g2
    standard = standard
    NoReservation = NoReservation
    Folios = {r1}
    Rooms = {a}
    Guests = {g1}
    RoomTypes = {standard}
    LineAmounts <- NoAmounts
    PaymentAmounts <- NoAmounts
    Rates = {2}
    Parties = {1}
    Capacities = {1}
    LastDay = 1
    MaxNights = 2
    MaxCents = 8
    MaxEntries = 2
SPECIFICATION HotelSpec
SYMMETRY Symmetric
INVARIANT NoNightChargedTwice
CHECK_DEADLOCK FALSE
