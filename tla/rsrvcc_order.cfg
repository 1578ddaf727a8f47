\* Reverse SRVCC: the RSRVCC status report and the CS calls leaving the CS
\* list come in either order, and new calls may arrive around them.
CONSTANTS
    Idx <- MC_Idx
    MaxSerial = 2
    MaxEvents = 2
    MaxRil = 2
    MaxQuery = 1
    MaxCallable = 2
    MaxRilDeaths = 0
    Coalesce = FALSE
    RilCanFail = FALSE
    ListCanFail = FALSE
    CallIdIsIndex = TRUE
    ImsDomain = FALSE
    InitRegistered = {TRUE}
    StrNotify = FALSE
    InitNvDone = {TRUE}
    Rsrvcc = TRUE
SPECIFICATION Spec
INVARIANT LiveCallsShown
