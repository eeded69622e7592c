SPECIFICATION LiveSpec
CONSTANTS
    Call = {c1, c2}
    MaxUser = 2
    Released <- AllOrNone
INVARIANTS TypeOK WaitCountExact SuccessMeansSent CallOutlivesItsMessages CallsCounted KeyExpires
PROPERTIES ImplementsDelivery CallsSettle
