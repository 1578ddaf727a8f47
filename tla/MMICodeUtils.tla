---------------------------- MODULE MMICodeUtils ----------------------------
(***************************************************************************)
(* MMICodeUtils (mmi_code_utils.cpp): whether a dialled string is an MMI   *)
(* procedure rather than a number (IsNeedExecuteMmi), its parse by the     *)
(* 3GPP TS 22.030 pattern (RegexMatchMmi), and what ExecuteMmiCode does    *)
(* with it.  The strings are those of StandardizeUtils: DialGsm and        *)
(* DialCdma clean the number with RemoveSeparatorsPhoneNumber before they  *)
(* ask whether it is an MMI code, so the run checks both helpers over the  *)
(* same numbers.  Whether a call exists (HasCellularCallExist) and whether *)
(* IMS is in use are inputs, quantified over in the properties.            *)
(***************************************************************************)
EXTENDS StandardizeUtils

Digit == {"0", "1", "2", "3", "4", "5", "6", "7", "8", "9"}

\* The MMIData fields the code fills in: fullString, actionString,
\* serviceCode, serviceInfoA..C with pwdString (the parts separated by '*'),
\* dialString.
NoData == [full |-> << >>, action |-> << >>, code |-> << >>, info |-> << >>, dial |-> << >>]

-----------------------------------------------------------------------------
(* IsShortCode                                                             *)

\* MAX_LENGTH_SHORT_CODE = 2; `analyseString[1]` of a one-character string
\* is the terminating '\0', not a digit.
IsShortCodeWithoutCellularCall(s) ==
    /\ Len(s) <= 2
    /\ ~(s[1] = "1" /\ Len(s) = 2 /\ s[2] \in Digit)

IsShortCodeWithCellularCall(s) == Len(s) >= 1 /\ Len(s) <= 2

IsShortCode(s, hasCall) ==
    IF hasCall THEN IsShortCodeWithCellularCall(s) ELSE IsShortCodeWithoutCellularCall(s)

-----------------------------------------------------------------------------
\* RegexMatchMmi: regex_match of the pattern
\*   ((\*|#|\*#|\*\*|##)(\d{2,3})(\*([^*#]*)(\*([^*#]*)(\*([^*#]*)(\*([^*#]*))?)?)?)?#)(.*)
\* An ECMAScript match tries the action alternatives in order and the
\* service code longest first; the parts cannot hold '*' or '#', so the
\* procedure ends at the first '#' after the code, and holds at most four
\* parts.

Actions == << <<"*">>, <<"#">>, <<"*", "#">>, <<"*", "*">>, <<"#", "#">> >>
MaxParts == 4

\* Positions of the characters of S in s.
PosIn(s, S) == {i \in 1..Len(s) : s[i] \in S}

\* "*F1*F2...*Fk" split into <<F1, ..., Fk>>; the empty string has no parts.
Parts(body) ==
    LET stars == SetToSortSeq(PosIn(body, {"*"}), <)
        k == Len(stars)
    IN  [j \in 1..k |-> SubSeq(body, stars[j] + 1,
                                IF j < k THEN stars[j + 1] - 1 ELSE Len(body))]

\* The match that takes action a and a code of n digits, if there is one.
Attempt(s, a, n) ==
    LET codeEnd == Len(a) + n
        rest == SubSeq(s, codeEnd + 1, Len(s))
        hash == IF PosIn(rest, {"#"}) = {} THEN 0 ELSE Min(PosIn(rest, {"#"}))
        body == SubSeq(rest, 1, hash - 1)
    IN  IF /\ IsPrefix(a, s) /\ codeEnd < Len(s)
           /\ \A i \in Len(a) + 1..codeEnd : s[i] \in Digit
           /\ hash > 0
           /\ body = << >> \/ body[1] = "*"
           /\ Cardinality(PosIn(body, {"*"})) <= MaxParts
        THEN {[full |-> SubSeq(s, 1, codeEnd + hash), action |-> a,
               code |-> SubSeq(s, Len(a) + 1, codeEnd), info |-> Parts(body),
               dial |-> SubSeq(rest, hash + 1, Len(rest))]}
        ELSE {}

\* The first match in the regex's order of preference, or none.
FirstMatch(s) ==
    LET tries == [k \in 1..2 * Len(Actions) |->
                    Attempt(s, Actions[(k + 1) \div 2], IF k % 2 = 1 THEN 3 ELSE 2)]
        hits == {k \in DOMAIN tries : tries[k] # {}}
    IN  IF hits = {} THEN {} ELSE tries[Min(hits)]

\* Mutation: the service code may have one to three digits.
RegexMatchMmiShortCode(s) ==
    LET tries == [k \in 1..3 * Len(Actions) |->
                    Attempt(s, Actions[(k + 2) \div 3], 3 - ((k + 2) % 3))]
        hits == {k \in DOMAIN tries : tries[k] # {}}
        m == IF hits = {} THEN {} ELSE tries[Min(hits)]
    IN  IF m = {} THEN [match |-> FALSE, data |-> NoData]
        ELSE LET d == CHOOSE d \in m : TRUE
             IN  [match |-> TRUE,
                  data |-> IF Last(s) = "#" /\ d.dial # << >> /\ Last(d.dial) = "#"
                           THEN [d EXCEPT !.full = s] ELSE d]

\* The captured groups; when the whole string and the dialString both end
\* with '#', fullString becomes the whole string.
RegexMatchMmi(s) ==
    IF FirstMatch(s) = {} THEN [match |-> FALSE, data |-> NoData]
    ELSE LET d == CHOOSE d \in FirstMatch(s) : TRUE
         IN  [match |-> TRUE,
              data |-> IF Last(s) = "#" /\ d.dial # << >> /\ Last(d.dial) = "#"
                       THEN [d EXCEPT !.full = s] ELSE d]

-----------------------------------------------------------------------------
(* IsNeedExecuteMmi: a short code, a match of the pattern, or any string  *)
(* that starts with '*' or '#' and ends with '#'.                          *)

\* Mutation: a short code is accepted without keeping it as fullString.
IsNeedExecuteMmiShortCodeEmpty(s, hasCall) ==
    CASE s = << >> -> [need |-> FALSE, data |-> NoData]
      [] IsShortCode(s, hasCall) -> [need |-> TRUE, data |-> NoData]
      [] RegexMatchMmi(s).match -> [need |-> TRUE, data |-> RegexMatchMmi(s).data]
      [] s[1] \in {"*", "#"} /\ Last(s) = "#" ->
           [need |-> TRUE, data |-> [NoData EXCEPT !.full = s]]
      [] OTHER -> [need |-> FALSE, data |-> NoData]

IsNeedExecuteMmi(s, hasCall) ==
    CASE s = << >> -> [need |-> FALSE, data |-> NoData]
      [] IsShortCode(s, hasCall) -> [need |-> TRUE, data |-> [NoData EXCEPT !.full = s]]
      [] RegexMatchMmi(s).match -> [need |-> TRUE, data |-> RegexMatchMmi(s).data]
      [] s[1] \in {"*", "#"} /\ Last(s) = "#" ->
           [need |-> TRUE, data |-> [NoData EXCEPT !.full = s]]
      [] OTHER -> [need |-> FALSE, data |-> NoData]

-----------------------------------------------------------------------------
(* ExecuteMmiCode: the handler registered for the service code (the IMS   *)
(* codes only when IMS is used), nothing for "03", otherwise USSD with     *)
(* fullString; FALSE when there is nothing to send.                        *)

\* InitCallTransferMmiCodeFunc: 21, 61, 62, 67, 002, 004
TransferCodes ==
    {<<"2", "1">>, <<"6", "1">>, <<"6", "2">>, <<"6", "7">>, <<"0", "0", "2">>, <<"0", "0", "4">>}

\* InitCallRestrictionCodeFunc: 33, 330, 331, 332, 333, 35, 351, 353
RestrictionCodes ==
    {<<"3", "3">>, <<"3", "3", "0">>, <<"3", "3", "1">>, <<"3", "3", "2">>, <<"3", "3", "3">>,
     <<"3", "5">>, <<"3", "5", "1">>, <<"3", "5", "3">>}

\* The service-code table ExecuteMmiCode builds; InitAdditionalMmiCodeFunc
\* and, with IMS, InitImsMmiCodeFunc add their codes.
MmiCodeFunc(ims) ==
    [c \in TransferCodes |-> "HandleCallTransfer"]
    @@ [c \in RestrictionCodes |-> "HandleCallRestriction"]
    @@ (<<"3", "0">> :> "HandleClip" @@ <<"3", "1">> :> "HandleClir"
        @@ <<"0", "4">> :> "AlterPinPassword" @@ <<"0", "5">> :> "UnlockPuk"
        @@ <<"0", "4", "2">> :> "AlterPin2Password" @@ <<"0", "5", "2">> :> "UnlockPuk2"
        @@ <<"4", "3">> :> "HandleCallWaiting")
    @@ (IF ims THEN <<"7", "6">> :> "HandleColp" @@ <<"7", "7">> :> "HandleColr" ELSE << >>)

\* What ExecuteMmiCode calls; "NotExecuted" is its FALSE.
ExecuteMmiCode(d, ims) ==
    CASE d.code = <<"0", "3">> -> "Nothing"
      [] d.code \in DOMAIN MmiCodeFunc(ims) -> MmiCodeFunc(ims)[d.code]
      [] d.full # << >> -> "SendUssd"
      [] OTHER -> "NotExecuted"

-----------------------------------------------------------------------------
(* The procedure structure of 3GPP TS 22.030 6.5.2, as the comment in     *)
(* RegexMatchMmi states it: it starts with *, #, **, ## or *#, then a      *)
(* service code of two or three digits, then up to four parts each         *)
(* introduced by '*' and holding neither '*' nor '#', finished by '#';     *)
(* whatever follows is the dialling number.                                *)

ActionPrefixes == {<<"*">>, <<"#">>, <<"*", "#">>, <<"*", "*">>, <<"#", "#">>}

\* s read as a procedure whose action ends at i, code at j and '#' is at h.
Cut(s, i, j, h) ==
    [full |-> SubSeq(s, 1, h), action |-> SubSeq(s, 1, i), code |-> SubSeq(s, i + 1, j),
     parts |-> SubSeq(s, j + 1, h - 1), dial |-> SubSeq(s, h + 1, Len(s))]

\* Every way of reading s as a procedure.
SpecProcedure(s) ==
    {p \in UNION {UNION {{Cut(s, i, j, h) : h \in j + 1..Len(s)} : j \in i + 2..i + 3} : i \in 1..2} :
        /\ p.action \in ActionPrefixes
        /\ Range(p.code) \subseteq Digit
        /\ Last(p.full) = "#"
        /\ "#" \notin Range(p.parts)
        /\ p.parts = << >> \/ p.parts[1] = "*"
        /\ Cardinality(PosIn(p.parts, {"*"})) <= MaxParts}

\* The parts, each introduced by '*', put back together.
Joined(info) == FoldLeft(LAMBDA acc, f : acc \o <<"*">> \o f, << >>, info)

-----------------------------------------------------------------------------

\* RegexMatchMmi recognises exactly the strings that begin with a TS 22.030
\* procedure, and its groups are that procedure's action, service code,
\* parts and trailing dialString, with fullString the procedure (the whole
\* string when the dialString is itself finished by '#').
RegexFindsTheProcedure ==
    LET r == RegexMatchMmi(number)
    IN  /\ r.match <=> SpecProcedure(number) # {}
        /\ r.match =>
             \E p \in SpecProcedure(number) :
                /\ r.data.action = p.action /\ r.data.code = p.code
                /\ r.data.dial = p.dial
                /\ Joined(r.data.info) = p.parts
                /\ \A k \in DOMAIN r.data.info : "*" \notin Range(r.data.info[k])
                /\ r.data.full = IF Last(number) = "#" /\ p.dial # << >> /\ Last(p.dial) = "#"
                                 THEN number ELSE p.full

\* A cleaned number (RemoveSeparatorsPhoneNumber, as DialGsm does) that
\* IsNeedExecuteMmi accepts, and that is therefore not dialled, is acted on
\* by ExecuteMmiCode whether or not a call exists and IMS is used: a
\* supplementary-service handler, USSD, or the deliberate no-op of "03";
\* it is never silently dropped.
MmiIsNeverDropped ==
    \A hasCall, ims \in BOOLEAN :
       LET m == IsNeedExecuteMmi(RemoveSeparatorsPhoneNumber(number), hasCall)
       IN  m.need => ExecuteMmiCode(m.data, ims) # "NotExecuted"

====
