\* Every string of up to six characters over three digits (enough for the
\* service codes 03, 30, 31, 33, 330, 331 and 333 and for the short-code
\* rule of a leading '1'), '*', '#', a separator and a character that
\* RemoveSeparatorsPhoneNumber drops.
CONSTANTS
    Chars = {"0", "1", "3", "*", "#", ";", "-"}
    MaxLen = 6
SPECIFICATION Spec
INVARIANT AddressMatchesSpec
INVARIANT CleaningKeepsTheSplit
INVARIANT RegexFindsTheProcedure
INVARIANT MmiIsNeverDropped
