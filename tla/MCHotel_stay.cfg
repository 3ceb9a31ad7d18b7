CONSTANTS
    r1 = r1
    r2 = r2
    a = a
    b = b
    g1 = g1
    g2 = g2
    standard = standard
    NoReservation = NoReservation
    Folios = {r1}
    Rooms = {a}
    Guests = {g1, g2}
    RoomTypes = {standard}
    LineAmounts <- NoAmounts
    PaymentAmounts <- OneNight
    Rates = {1, 2}
    Parties = {1, 2}
    Capacities = {1, 2}
    LastDay = 3
    MaxNights = 2
    MaxCents = 8
    MaxEntries = 3
SPECIFICATION HotelSpec
SYMMETRY Symmetric
INVARIANT RoomChargesOfStay
PROPERTY EndedStayIsFinal
CHECK_DEADLOCK FALSE
