CONSTANTS
    i1 = i1
    i2 = i2
    i3 = i3
    n1 = n1
    n2 = n2
    NoName = NoName
    Absent = Absent
    NoRow = NoRow
    NoJob = NoJob
    Requests = {1, 2}
    Ids = {i1, i2, i3}
    Lodgers = {i1}
    Names = {n1, n2}
    MaxOpen = 2
SPECIFICATION RegistrySpec
INVARIANTS RegistryTypeOK UniqueNames StaysKeepTheirGuest AloneOnlyKnownErrors
    DeletedStaysDeleted
PROPERTY RegistryRequestsEnd
CHECK_DEADLOCK FALSE
