CONSTANTS
    r1 = r1
    r2 = r2
    a = a
    b = b
    g1 = g1
    g2 = g2
    standard = standard
    NoReservation = NoReservation
    Folios = {r1, r2}
    Rooms = {a, b}
    Guests = {g1}
    RoomTypes = {standard}
    LineAmounts <- NoAmounts
    PaymentAmounts <- NoAmounts
    Rates = {1}
    Parties = {1}
    Capacities = {1}
    LastDay = 2
    MaxNights = 2
    MaxCents = 10
    MaxEntries = 2
SPECIFICATION HotelSpec
SYMMETRY Symmetric
INVARIANTS HotelTypeOK OccupiedHasGuest GuestHasRoomUnlessShared ReservationsKeepTheirGuest
PROPERTIES DoubleBookedByRedating KeepsPromise
CHECK_DEADLOCK FALSE
