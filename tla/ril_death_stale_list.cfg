\* A RIL death leaves currentCsCallInfoList_ stale for a late fail-cause answer.
CONSTANTS
    Idx <- MC_Idx
    MaxSerial = 2
    MaxEvents = 2
    MaxRil = 2
    MaxQuery = 1
    MaxCallable = 2
    MaxRilDeaths = 1
    Coalesce = FALSE
    RilCanFail = FALSE
    ListCanFail = FALSE
    CallIdIsIndex = TRUE
    ImsDomain = FALSE
    InitRegistered = {TRUE}
    StrNotify = FALSE
    InitNvDone = {TRUE}
    Rsrvcc = FALSE
SPECIFICATION Spec
INVARIANT Agreement
