CONSTANTS
    Folios = {f1, f2}
    LineAmounts <- FractionalLines
    PaymentAmounts <- FractionalPayments
    Rates <- NightlyRates
    MaxNights = 2
    MaxCents = 4
    MaxEntries = 2
SPECIFICATION BillingSpec
INVARIANTS BillingTypeOK BalanceWithinACent TotalsFollowEntries
PROPERTY AuditTrail
CHECK_DEADLOCK FALSE
