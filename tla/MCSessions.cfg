CONSTANTS
    u1 = u1
    old = old
    new = new
    Nobody = Nobody
    NoToken = NoToken
    NoJob = NoJob
    Users = {u1}
    Passwords = {old, new}
    FirstPassword = old
    MaxRequests = 3
    MaxOpen = 2
SPECIFICATION SessionSpec
INVARIANTS SessionTypeOK SpentTokensStaySpent RevokeAllIsComplete DeactivatedStaysOut
PROPERTY SessionRequestsEnd
CHECK_DEADLOCK FALSE
