\* A modem that serves every request, two requests in flight (a switch and a
\* dial, or a switch and an answer), and a call manager that may register late.
CONSTANTS
    Idx <- MC_Idx
    MaxSerial = 2
    MaxEvents = 2
    MaxRil = 2
    MaxQuery = 1
    MaxCallable = 2
    MaxRilDeaths = 0
    Coalesce = FALSE
    RilCanFail = FALSE
    ListCanFail = FALSE
    CallIdIsIndex = TRUE
    ImsDomain = FALSE
    InitRegistered = {FALSE, TRUE}
    StrNotify = FALSE
    InitNvDone = {TRUE}
    Rsrvcc = FALSE
SPECIFICATION Spec
INVARIANT TypeOK
INVARIANT Agreement
INVARIANT ReasonAttribution
INVARIANT DisconnectReasonKnown
INVARIANT EndReported
