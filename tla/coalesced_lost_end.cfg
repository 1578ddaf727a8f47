\* Changes between two queries coalesce: one index ends and is reused.
CONSTANTS
    Idx <- MC_Idx
    MaxSerial = 2
    MaxEvents = 2
    MaxRil = 2
    MaxQuery = 1
    MaxCallable = 2
    MaxRilDeaths = 0
    Coalesce = TRUE
    RilCanFail = FALSE
    ListCanFail = FALSE
    CallIdIsIndex = TRUE
    ImsDomain = FALSE
    InitRegistered = {TRUE}
    StrNotify = FALSE
    InitNvDone = {TRUE}
    Rsrvcc = FALSE
SPECIFICATION Spec
INVARIANT EndReported
