\* One requester thread; four requests over indices 0..3, so the index wraps
\* once without reuse; the RIL may drop a request.
CONSTANTS
    r1 = r1
    r2 = r2
    Requesters <- MC_OneRequester
    MaxRequestCount = 3
    MaxRequests = 4
    MaxOutstanding = 3
    RilMayDrop = TRUE
SPECIFICATION FairSpec
INVARIANT TypeOK
PROPERTY ImplementsSsRequests
