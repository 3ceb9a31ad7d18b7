CONSTANTS
    f1 = f1
    q1 = q1
    q2 = q2
    q3 = q3
    NoRequest = NoRequest
    Folios = {f1}
    Requests = {q1, q2, q3}
    Jobs <- AllJobs
    MaxOpen = 3
    LineAmounts <- Amounts
    PaymentAmounts <- Deposits
    Rates = {7}
    MaxNights = 1
    MaxCents = 12
    MaxEntries = 4
SPECIFICATION TxnSpec
INVARIANTS TxnTypeOK TotalsAreSomeEntries
PROPERTIES ClosesOnceSettled FreshCommitsImplementBilling RequestsEnd
CHECK_DEADLOCK FALSE
