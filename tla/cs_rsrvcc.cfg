\* A reverse SRVCC that hands the established CS calls over to IMS once, its
\* status report and the calls leaving the CS list in either order; a modem
\* that may refuse requests and a call manager that may register late.
CONSTANTS
    Idx <- MC_Idx
    MaxSerial = 2
    MaxEvents = 2
    MaxRil = 1
    MaxQuery = 1
    MaxCallable = 2
    MaxRilDeaths = 0
    Coalesce = FALSE
    RilCanFail = TRUE
    ListCanFail = TRUE
    CallIdIsIndex = TRUE
    ImsDomain = FALSE
    InitRegistered = {FALSE, TRUE}
    StrNotify = FALSE
    InitNvDone = {TRUE}
    Rsrvcc = TRUE
SPECIFICATION Spec
INVARIANT DisconnectReasonKnown
