\* A modem that may refuse requests, a RIL adapter host that may die once (every
\* call is then released), a call manager that may register late, an NV refresh
\* that may still be running, and an ENTER_STR notification delivered once.
CONSTANTS
    Idx <- MC_Idx
    MaxSerial = 2
    MaxEvents = 2
    MaxRil = 1
    MaxQuery = 1
    MaxCallable = 2
    MaxRilDeaths = 1
    Coalesce = FALSE
    RilCanFail = TRUE
    ListCanFail = FALSE
    CallIdIsIndex = TRUE
    ImsDomain = FALSE
    InitRegistered = {FALSE, TRUE}
    StrNotify = TRUE
    InitNvDone = {FALSE, TRUE}
    Rsrvcc = FALSE
SPECIFICATION Spec
INVARIANT ReasonAttribution
INVARIANT DisconnectReasonKnown
INVARIANT EndReported
