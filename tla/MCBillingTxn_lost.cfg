CONSTANTS
    f1 = f1
    q1 = q1
    q2 = q2
    q3 = q3
    NoRequest = NoRequest
    Folios = {f1}
    Requests = {q1, q2}
    Jobs <- TwoCharges
    MaxOpen = 2
    LineAmounts <- Amounts
    PaymentAmounts <- Deposits
    Rates = {7}
    MaxNights = 1
    MaxCents = 14
    MaxEntries = 4
SPECIFICATION TxnSpec
INVARIANT ExactBooks
CHECK_DEADLOCK FALSE
