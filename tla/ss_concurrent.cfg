\* Two requester threads, one request each.
CONSTANTS
    r1 = r1
    r2 = r2
    Requesters <- MC_TwoRequesters
    MaxRequestCount = 2
    MaxRequests = 2
    MaxOutstanding = 2
    RilMayDrop = FALSE
SPECIFICATION Spec
INVARIANT ResponseFindsItsCommand
