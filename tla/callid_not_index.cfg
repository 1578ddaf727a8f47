\* The call id of a hang-up is not the modem index of the call.
CONSTANTS
    Idx <- MC_Idx
    MaxSerial = 2
    MaxEvents = 2
    MaxRil = 2
    MaxQuery = 1
    MaxCallable = 2
    MaxRilDeaths = 0
    Coalesce = FALSE
    RilCanFail = FALSE
    ListCanFail = FALSE
    CallIdIsIndex = FALSE
    ImsDomain = FALSE
    InitRegistered = {TRUE}
    StrNotify = FALSE
    InitNvDone = {TRUE}
    Rsrvcc = FALSE
SPECIFICATION Spec
INVARIANT ReasonAttribution
