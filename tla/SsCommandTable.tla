--------------------------- MODULE SsCommandTable ---------------------------
(***************************************************************************)
(* The supplementary-service command table of CellularCallHandler.  A      *)
(* requester (a call of the supplementary-service API) takes a command     *)
(* index with RequestSsRequestCommandIndex, stores its command with        *)
(* SaveSsRequestCommand and sends its request to the RIL carrying the      *)
(* index.  The network's answer comes back on the handler thread, which    *)
(* finds the command again with ConfirmAndRemoveSsRequestCommand and       *)
(* reports the result with that command's flag and action.                 *)
(* GetCallTransferResponse first copies the forwarding reason out of the   *)
(* command with GetSsRequestCommand, under its own hold of mutex_.         *)
(*                                                                         *)
(* indexCommand_ is read and written without a lock; utCommandMap_ is      *)
(* guarded by mutex_.  Each unlocked access to indexCommand_ is a step of  *)
(* its own, so requesters on different threads interleave between them.   *)
(* A command is identified by the request that created it.                 *)
(***************************************************************************)
EXTENDS Naturals, FiniteSets, Functions, TLC

CONSTANTS
    Requesters,       \* threads that call the supplementary-service API
    MaxRequestCount,  \* MAX_REQUEST_COUNT
    MaxRequests,      \* requests made in a behaviour
    MaxOutstanding,   \* requests the application leaves unanswered at once
    RilMayDrop        \* whether the RIL may never answer a request

ASSUME MaxRequestCount \in Nat /\ MaxRequests \in Nat \ {0}
       /\ MaxOutstanding \in Nat \ {0} /\ RilMayDrop \in BOOLEAN

Ids == 1..MaxRequests
NoId == 0
\* The values indexCommand_ can hold: MAX_REQUEST_COUNT, and one more for
\* each further requester whose wrap test passed before the member reached it.
Indices == 0..MaxRequestCount + Cardinality(Requesters) - 1

\* A call-forwarding query ("cf"), whose answer is GetCallTransferResponse,
\* or any other supplementary-service request ("ss").
Kinds == {"ss", "cf"}
NoLookup == [id |-> NoId, index |-> 0, reason |-> NoId]

VARIABLES
    indexCommand,   \* indexCommand_
    utCommandMap,   \* utCommandMap_: command index -> the command (its request)
    pc,             \* where each requester is
    reg,            \* the value of indexCommand_ a requester last read
    index,          \* the index RequestSsRequestCommandIndex handed out
    cur,            \* the request a requester is making
    nextId,
    kind,           \* the kind of request a requester is making
    inFlight,       \* requests sent to the RIL: [id, kind, index]
    lookup,         \* GetCallTransferResponse between its two holds of mutex_
    answered,       \* reports: [id, flag, reason], the commands whose flag and
                    \* action, and whose forwarding reason, reported request id
    dropped         \* ghost: requests the RIL never answered

vars == <<indexCommand, utCommandMap, pc, reg, index, cur, nextId, kind, inFlight,
          lookup, answered, dropped>>

Busy == {t \in Requesters : pc[t] # "idle"}

-----------------------------------------------------------------------------
(* RequestSsRequestCommandIndex: the next index, wrapping to 0 after       *)
(* MAX_REQUEST_COUNT.  The test and `indexCommand_++` read the member      *)
(* separately, and ++ itself is a load and a store, so between the test    *)
(* and the store another requester may have moved the member on: two       *)
(* requesters whose tests both passed can take it past MAX_REQUEST_COUNT.  *)

\* Mutation: the wrap test is > instead of >=.
WrapsIndexLate(v) == v > MaxRequestCount

\* `indexCommand_ >= MAX_REQUEST_COUNT`
WrapsIndex(v) == v >= MaxRequestCount

\* Mutation: the index wraps to 1 instead of 0.
ResetIndexToOne == 1

\* `indexCommand_ = 0`
ResetIndex == 0

\* A requester starts a request; `if (indexCommand_ >= MAX_REQUEST_COUNT)`
\* reads the member.
RequestIndexRead(t) ==
    /\ pc[t] = "idle" /\ nextId <= MaxRequests
    /\ Cardinality(inFlight) + Cardinality(Busy) < MaxOutstanding
    /\ cur' = [cur EXCEPT ![t] = nextId]
    /\ \E k \in Kinds : kind' = [kind EXCEPT ![t] = k]
    /\ nextId' = nextId + 1
    /\ reg' = [reg EXCEPT ![t] = indexCommand]
    /\ pc' = [pc EXCEPT ![t] = "write"]
    /\ UNCHANGED <<indexCommand, utCommandMap, index, inFlight, lookup, answered, dropped>>

\* ... then, on the value the test read, either stores 0, or starts
\* `indexCommand_++` by loading the member again ...
RequestIndexWrite(t) ==
    /\ pc[t] = "write"
    /\ \/ /\ WrapsIndex(reg[t])
          /\ indexCommand' = ResetIndex
          /\ pc' = [pc EXCEPT ![t] = "readBack"]
          /\ UNCHANGED reg
       \/ /\ ~WrapsIndex(reg[t])
          /\ reg' = [reg EXCEPT ![t] = indexCommand]
          /\ pc' = [pc EXCEPT ![t] = "increment"]
          /\ UNCHANGED indexCommand
    /\ UNCHANGED <<utCommandMap, index, cur, nextId, kind, inFlight, lookup,
                   answered, dropped>>

\* ... and stores what it loaded plus one ...
RequestIndexIncrement(t) ==
    /\ pc[t] = "increment"
    /\ indexCommand' = reg[t] + 1
    /\ pc' = [pc EXCEPT ![t] = "readBack"]
    /\ UNCHANGED <<utCommandMap, reg, index, cur, nextId, kind, inFlight, lookup,
                   answered, dropped>>

\* ... and `index = indexCommand_` reads the member again.
RequestIndexReadBack(t) ==
    /\ pc[t] = "readBack"
    /\ index' = [index EXCEPT ![t] = indexCommand]
    /\ pc' = [pc EXCEPT ![t] = "saveRead"]
    /\ UNCHANGED <<indexCommand, utCommandMap, reg, cur, nextId, kind, inFlight, lookup,
                   answered, dropped>>

\* SaveSsRequestCommand: `int32_t indexCommand = indexCommand_;` before the
\* lock (the index argument is not used) ...
SaveRead(t) ==
    /\ pc[t] = "saveRead"
    /\ reg' = [reg EXCEPT ![t] = indexCommand]
    /\ pc' = [pc EXCEPT ![t] = "insert"]
    /\ UNCHANGED <<indexCommand, utCommandMap, index, cur, nextId, kind, inFlight, lookup,
                   answered, dropped>>

\* ... then, under mutex_, utCommandMap_.insert, which keeps an existing
\* entry.  The requester then sends its request with the index it was given.
SaveInsert(t) ==
    /\ pc[t] = "insert"
    /\ utCommandMap' = IF reg[t] \in DOMAIN utCommandMap THEN utCommandMap
                       ELSE utCommandMap @@ (reg[t] :> cur[t])
    /\ inFlight' = inFlight \cup {[id |-> cur[t], kind |-> kind[t], index |-> index[t]]}
    /\ pc' = [pc EXCEPT ![t] = "idle"]
    /\ UNCHANGED <<indexCommand, reg, index, cur, nextId, kind, lookup, answered, dropped>>

-----------------------------------------------------------------------------
(* The handler thread: the answer to one request at a time, in any order. *)

\* ConfirmAndRemoveSsRequestCommand(index, flag[, action]): under mutex_,
\* the command at index (its flag and action) and the map without it; a
\* missing entry is an error and nothing is reported.
ConfirmAndRemoveSsRequestCommand(i) ==
    IF i \in DOMAIN utCommandMap
    THEN [found |-> utCommandMap[i],
          map |-> Restrict(utCommandMap, DOMAIN utCommandMap \ {i})]
    ELSE [found |-> NoId, map |-> utCommandMap]

\* GetSsRequestCommand(index, ss): under mutex_, a copy of the command at
\* index (cfReason among its fields), or an error.
GetSsRequestCommand(i) ==
    IF i \in DOMAIN utCommandMap THEN utCommandMap[i] ELSE NoId

\* The report of a response: with the flag and action of the command found,
\* and the forwarding reason of the command looked up; nothing is reported
\* when ConfirmAndRemoveSsRequestCommand finds no command.
Report(id, found, reason) ==
    answered' = answered \cup {[id |-> id, flag |-> found, reason |-> reason]}

\* SetCallWaitingResponse, Get/SetClirResponse, Get/SetClipResponse,
\* Get/SetColrResponse, Get/SetColpResponse (and GetCallWaitingResponse,
\* SetCallTransferInfoResponse, Get/SetCallRestrictionResponse and
\* SetBarringPasswordResponse, which have the same shape): confirm and
\* remove the command, then report with its flag and action.
SsResponse ==
    /\ lookup = NoLookup
    /\ \E r \in inFlight :
       LET res == ConfirmAndRemoveSsRequestCommand(r.index)
       IN  /\ r.kind = "ss"
           /\ utCommandMap' = res.map
           /\ Report(r.id, res.found, NoId)
           /\ inFlight' = inFlight \ {r}
    /\ UNCHANGED <<indexCommand, pc, reg, index, cur, nextId, kind, lookup, dropped>>

\* GetCallTransferResponse, first hold of mutex_: GetSsRequestCommand; its
\* cfReason replaces the reason of the answer when the look-up succeeds.
GetCallTransferLookup ==
    /\ lookup = NoLookup
    /\ \E r \in inFlight :
         /\ r.kind = "cf"
         /\ lookup' = [id |-> r.id, index |-> r.index, reason |-> GetSsRequestCommand(r.index)]
         /\ inFlight' = inFlight \ {r}
    /\ UNCHANGED <<indexCommand, utCommandMap, pc, reg, index, cur, nextId, kind,
                   answered, dropped>>

\* ... second hold: ConfirmAndRemoveSsRequestCommand, then the report.
GetCallTransferResponse ==
    /\ lookup # NoLookup
    /\ LET res == ConfirmAndRemoveSsRequestCommand(lookup.index)
       IN  /\ utCommandMap' = res.map
           /\ Report(lookup.id, res.found, lookup.reason)
    /\ lookup' = NoLookup
    /\ UNCHANGED <<indexCommand, pc, reg, index, cur, nextId, kind, inFlight, dropped>>

\* The RIL never answers a request, or answers it with a null result object,
\* on which every response handler returns before the look-up: the entry
\* stays in utCommandMap_.
RilDropsRequest ==
    /\ RilMayDrop
    /\ \E r \in inFlight :
         /\ inFlight' = inFlight \ {r}
         /\ dropped' = dropped \cup {r.id}
    /\ UNCHANGED <<indexCommand, utCommandMap, pc, reg, index, cur, nextId, kind, lookup,
                   answered>>

-----------------------------------------------------------------------------

Init ==
    /\ indexCommand = 0
    /\ utCommandMap = << >>
    /\ pc = [t \in Requesters |-> "idle"]
    /\ reg = [t \in Requesters |-> 0]
    /\ index = [t \in Requesters |-> 0]
    /\ cur = [t \in Requesters |-> NoId]
    /\ nextId = 1
    /\ kind = [t \in Requesters |-> "ss"]
    /\ inFlight = {}
    /\ lookup = NoLookup
    /\ answered = {}
    /\ dropped = {}

\* Every request made, and answered or dropped.
Done == /\ nextId > MaxRequests /\ Busy = {} /\ inFlight = {} /\ lookup = NoLookup
        /\ UNCHANGED vars

RequesterStep(t) ==
    \/ RequestIndexWrite(t) \/ RequestIndexIncrement(t) \/ RequestIndexReadBack(t) \/ SaveRead(t) \/ SaveInsert(t)

HandlerStep == SsResponse \/ GetCallTransferLookup \/ GetCallTransferResponse

Next ==
    \/ \E t \in Requesters : RequestIndexRead(t) \/ RequesterStep(t)
    \/ HandlerStep
    \/ RilDropsRequest
    \/ Done

Spec == Init /\ [][Next]_vars

\* A requester that has started a request runs it to the end, and the
\* handler thread takes every answer the RIL delivers.  Starting a request is
\* the application's choice and is not fair.
Fairness ==
    /\ \A t \in Requesters : WF_vars(RequesterStep(t))
    /\ WF_vars(HandlerStep)

FairSpec == Spec /\ Fairness

-----------------------------------------------------------------------------

\* The type of every variable; with one requester, indexCommand_ and every
\* index handed out stay within 0..MAX_REQUEST_COUNT across the wrap.
TypeOK ==
    /\ indexCommand \in Indices
    /\ DOMAIN utCommandMap \subseteq Indices /\ Range(utCommandMap) \subseteq Ids
    /\ pc \in [Requesters -> {"idle", "write", "increment", "readBack", "saveRead", "insert"}]
    /\ reg \in [Requesters -> Indices] /\ index \in [Requesters -> Indices]
    /\ cur \in [Requesters -> Ids \cup {NoId}]
    /\ nextId \in 1..MaxRequests + 1
    /\ kind \in [Requesters -> Kinds]
    /\ inFlight \subseteq [id : Ids, kind : Kinds, index : Indices]
    /\ lookup \in [id : Ids, index : Indices, reason : Ids \cup {NoId}] \cup {NoLookup}
    /\ answered \subseteq [id : Ids, flag : Ids \cup {NoId}, reason : Ids \cup {NoId}]
    /\ dropped \subseteq Ids

\* The refinement mapping: a request is made once it has an id; it is
\* reported by the flag of the command ConfirmAndRemoveSsRequestCommand
\* finds and, for a forwarding query, by the cfReason of the command
\* GetSsRequestCommand found; nothing is reported when no command is found.
Abs == INSTANCE SsRequests WITH
         made <- {i \in Ids : i < nextId},
         reported <- {<<a.id, a.flag>> : a \in {b \in answered : b.flag # NoId}}
                     \cup {<<a.id, a.reason>> :
                             a \in {b \in answered : b.flag # NoId /\ b.reason # NoId}},
         lost <- dropped

\* The command table implements what the supplementary-service path
\* promises (SsRequests): RequestSsRequestCommandIndex, SaveSsRequestCommand
\* and the response handlers report every request at most once, only with
\* its own command's flag, action and forwarding reason, and, unless the RIL
\* drops it, eventually.
ImplementsSsRequests == Abs!Spec

\* Each answer from the network is reported with the flag and action of the
\* command of the request it answers: ConfirmAndRemoveSsRequestCommand finds
\* that request's own entry, neither another request's nor none.
ResponseFindsItsCommand == \A a \in answered : a.flag = a.id

=============================================================================
