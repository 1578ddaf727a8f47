\* An IMS control that competes for the fail-cause answer.
CONSTANTS
    Idx <- MC_Idx
    MaxSerial = 2
    MaxEvents = 2
    MaxRil = 1
    MaxQuery = 1
    MaxCallable = 2
    MaxRilDeaths = 0
    Coalesce = FALSE
    RilCanFail = FALSE
    ListCanFail = FALSE
    CallIdIsIndex = TRUE
    ImsDomain = TRUE
    InitRegistered = {TRUE}
    StrNotify = FALSE
    InitNvDone = {TRUE}
    Rsrvcc = FALSE
SPECIFICATION Spec
INVARIANT ReasonAttribution
INVARIANT DisconnectReasonKnown
