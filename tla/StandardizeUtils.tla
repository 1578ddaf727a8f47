-------------------------- MODULE StandardizeUtils --------------------------
(***************************************************************************)
(* The dialled-number helpers of StandardizeUtils, as operators on         *)
(* strings (sequences of one-character strings), checked for every string *)
(* up to MaxLen characters over the alphabet Chars.                        *)
(*                                                                         *)
(* DialGsm and DialCdma dial RemoveSeparatorsPhoneNumber(number);         *)
(* PostDialProceed splits a number with ExtractAddressAndPostDial into the *)
(* network address and the post-dial string.                              *)
(***************************************************************************)
EXTENDS Naturals, Sequences, FiniteSets, SequencesExt

CONSTANTS
    Chars,   \* the characters the checked strings are made of
    MaxLen   \* the longest string checked

Strings == UNION {[1..n -> Chars] : n \in 0..MaxLen}

\* `(c >= '0' && c <= '9') || c == '*' || c == '#' || c == '+' || c == 'N'`
Dialable == {"0", "1", "2", "3", "4", "5", "6", "7", "8", "9", "*", "#", "+", "N"}
\* `c == ',' || c == ';'`
Separators == {",", ";"}

VARIABLE number   \* the number under test

-----------------------------------------------------------------------------
(* RemoveSeparatorsPhoneNumber: keep the dialable characters and the post- *)
(* dial separators, drop everything else.                                  *)

\* Mutation: ';' is not kept.
RemoveSeparatorsDropsSemicolon(s) == SelectSeq(s, LAMBDA c : c \in Dialable \cup {","})

RemoveSeparatorsPhoneNumber(s) == SelectSeq(s, LAMBDA c : c \in Dialable \cup Separators)

-----------------------------------------------------------------------------
(* ExtractAddressAndPostDial: scan left to right, collect dialable         *)
(* characters into the address and skip the others, until the first      *)
(* separator; the post-dial string is the rest of the number from that     *)
(* separator on.                                                           *)

\* Mutation: the scan does not break at the first separator, and the
\* post-dial string starts at the last one.
RECURSIVE ScanNoBreak(_, _, _)
ScanNoBreak(s, addr, post) ==
    IF s = << >> THEN [address |-> addr, postDial |-> post]
    ELSE IF Head(s) \in Dialable THEN ScanNoBreak(Tail(s), Append(addr, Head(s)), post)
    ELSE IF Head(s) \in Separators THEN ScanNoBreak(Tail(s), addr, s)
    ELSE ScanNoBreak(Tail(s), addr, post)

RECURSIVE Scan(_, _, _)
Scan(s, addr, post) ==
    IF s = << >> THEN [address |-> addr, postDial |-> post]
    ELSE IF Head(s) \in Dialable THEN Scan(Tail(s), Append(addr, Head(s)), post)
    ELSE IF Head(s) \in Separators THEN [address |-> addr, postDial |-> s]
    ELSE Scan(Tail(s), addr, post)

ExtractAddressAndPostDial(s) == Scan(s, << >>, << >>)

-----------------------------------------------------------------------------
(* What the numbers mean (spec, Scenario C: "1234,5678" has network        *)
(* address "1234" and post-dial "5678"): the address is the dialable part *)
(* before the first separator, the post-dial string what follows it.       *)

SeparatorAt(s) == {i \in 1..Len(s) : s[i] \in Separators}

SpecAddress(s) ==
    LET end == IF SeparatorAt(s) = {} THEN Len(s) ELSE Min(SeparatorAt(s)) - 1
    IN  SelectSeq(SubSeq(s, 1, end), LAMBDA c : c \in Dialable)

SpecPostDial(s) ==
    IF SeparatorAt(s) = {} THEN << >> ELSE SubSeq(s, Min(SeparatorAt(s)) + 1, Len(s))

-----------------------------------------------------------------------------

Init == number \in Strings
Next == UNCHANGED number
Spec == Init /\ [][Next]_number

\* ExtractAddressAndPostDial finds the network address the spec means: the
\* dialable characters before the first ',' or ';'.
AddressMatchesSpec == ExtractAddressAndPostDial(number).address = SpecAddress(number)

\* The post-dial string ExtractAddressAndPostDial returns is the spec's:
\* the characters after the separator.
PostDialMatchesSpec == ExtractAddressAndPostDial(number).postDial = SpecPostDial(number)

\* Cleaning the number first, as DialGsm does before the modem sees it,
\* changes neither the network address nor the post-dial digits: splitting
\* the cleaned number gives the address of the raw one and its post-dial
\* string cleaned.
CleaningKeepsTheSplit ==
    LET raw == ExtractAddressAndPostDial(number)
        clean == ExtractAddressAndPostDial(RemoveSeparatorsPhoneNumber(number))
    IN  /\ clean.address = raw.address
        /\ clean.postDial = RemoveSeparatorsPhoneNumber(raw.postDial)

=============================================================================
