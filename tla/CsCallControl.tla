--------------------------- MODULE CsCallControl ---------------------------
(***************************************************************************)
(* The circuit-switched call control of one SIM slot: the connection map  *)
(* of CSControl (cs_control.cpp), reconciled against the "current calls"  *)
(* snapshots the modem returns, and the CS path of the slot's event       *)
(* handler (cellular_call_handler.cpp) that creates, feeds and tears down *)
(* the CSControl.  The modem is the environment: it owns the real calls,  *)
(* serves RIL requests in order, raises call-status indications and       *)
(* answers list and fail-cause queries.  The call manager is represented  *)
(* by the view it builds from ReportCallsInfo / ReportSingleCallInfo.     *)
(***************************************************************************)
EXTENDS Naturals, Sequences, FiniteSets, SequencesExt

CONSTANTS
    Idx,              \* modem call indices of the slot
    MaxSerial,        \* distinct calls the modem may create in a behaviour
    MaxEvents,        \* capacity of the handler's event queue
    MaxRil,           \* outstanding RIL call-control requests
    MaxQuery,         \* outstanding list / fail-cause queries of each kind
    MaxRilDeaths,     \* deaths of the RIL adapter host in a behaviour
    MaxCallable,      \* CanCall: connections allowed before a new dial
    Coalesce,         \* may the modem change calls while a snapshot is in flight
    RilCanFail,       \* may the modem reject a call-control request
    ListCanFail,      \* may the modem answer a current-calls query with an error
    CallIdIsIndex,    \* does CellularCallInfo.callId name the released call's index
    ImsDomain,        \* may an IMSControl exist on the slot
    InitRegistered,   \* possible initial values of the call manager registration
    StrNotify,        \* is ENTER_STR_TELEPHONY_NOTIFY delivered (once) to the handler
    InitNvDone,       \* possible initial values of isNvCfgFinish_
    Rsrvcc            \* may the modem hand its CS calls over to IMS (once)

ASSUME /\ Idx \subseteq Nat \ {0} /\ Idx # {}
       /\ MaxSerial \in Nat \ {0}
       /\ {MaxEvents, MaxRil, MaxQuery, MaxCallable} \subseteq Nat \ {0}
       /\ MaxRilDeaths \in Nat
       /\ {Coalesce, RilCanFail, ListCanFail, CallIdIsIndex, ImsDomain} \subseteq BOOLEAN
       /\ InitRegistered \subseteq BOOLEAN /\ InitRegistered # {}
       /\ {StrNotify, Rsrvcc} \subseteq BOOLEAN /\ InitNvDone \subseteq BOOLEAN /\ InitNvDone # {}

Serials == 1..MaxSerial

\* TelCallState values a modem snapshot can carry (<stat> of +CLCC).
CallStates == {"ACTIVE", "HOLDING", "DIALING", "ALERTING", "INCOMING", "WAITING"}
RingingStates == {"INCOMING", "ALERTING", "WAITING"}

\* RilDisconnectedReason values the model tells apart.  "NET" stands for any
\* cause the modem returns to the fail-cause query.
Reasons == {"INVALID", "USER_TERMINATED", "USER_DECLINE", "NORMAL", "NET"}
UserReasons == {"USER_TERMINATED", "USER_DECLINE"}

\* A modem call, or its absence at an index.  serial is ghost identity.
ModemCall == [st : CallStates, serial : Serials]
NoCall == [st |-> "NONE", serial |-> 0]

\* A CellularCallConnectionCS in connectionMap_; serial is ghost: the modem
\* call the connection was last matched to.
Conn == [st : CallStates, reason : Reasons, serial : Serials]
NoConn == [st |-> "NONE", reason |-> "INVALID", serial |-> 0]

Snapshot == [Idx -> ModemCall \cup {NoCall}]

Event == [kind : {"status", "died", "nv", "rsrvcc", "callsFailed"}]
         \cup [kind : {"calls"}, list : Snapshot]
         \cup [kind : {"reason"}, r : {"NET", "NULL"}]

ReqKinds == {"dial", "hangup", "reject", "answer", "hold", "unhold", "switch",
             "combine", "separate", "supHoldWait", "supActive"}
Request == [kind : ReqKinds, idx : Idx \cup {0}]

\* The call manager's view of an index.
CmStates == CallStates \cup {"DISCONNECTING", "IDLE"}

VARIABLES
    modem,       \* the modem's calls
    nextSerial,  \* next ghost serial the modem hands out
    rilDeaths,   \* deaths of the RIL adapter host so far
    endedBy,     \* ghost: how each modem call ended
    evq,         \* the handler's event queue (one thread per slot)
    ril,         \* call-control requests sent to the modem, served in order
    listQ,       \* outstanding current-calls queries
    reasonQ,     \* outstanding last-call-fail-cause queries
    ctl,         \* CellularCallService holds a CSControl for the slot
    conn,        \* CSControl::connectionMap_
    ignored,     \* CSControl::isIgnoredIncomingCall_
    pending,     \* CSControl::pendingPhoneNumber_ is non-empty
    curList,     \* CellularCallHandler::currentCsCallInfoList_
    ims,         \* IMSControl of the slot: "none", "calls" or "awaitReason"
    imsListEmpty,\* CellularCallHandler::currentCallList_.callSize == 0
    cmReg,       \* the call manager callback is registered
    cm,          \* the call manager's view of each index
    userAsked,   \* ghost: calls the user asked to end
    shown,       \* ghost: calls the call manager has been shown live
    reported,    \* ghost: disconnect reason reported for each call
    strPc,       \* the common-event thread in OnReceiveEvent(ENTER_STR_TELEPHONY_NOTIFY)
    strHeld,     \* CellularCallHandler::strEnterEventResult_ is not null
    nvDone,      \* CellularCallHandler::isNvCfgFinish_
    isDuringRSRVCC, \* CellularCallHandler::isDuringRSRVCC_
    hoPhase,     \* the modem's RSRVCC handover: "idle", "reported", "left", "done"
    handed       \* ghost: the calls the RSRVCC handover took from the CS side

modemVars == <<modem, nextSerial, endedBy, rilDeaths, hoPhase, handed>>
ctlVars == <<ctl, conn, ignored, pending>>
strVars == <<strPc, strHeld, nvDone>>
hoVars == <<hoPhase, handed>>
vars == <<modem, nextSerial, endedBy, rilDeaths, evq, ril, listQ, reasonQ, ctl, conn,
          ignored, pending, curList, isDuringRSRVCC, ims, imsListEmpty, cmReg, cm, userAsked,
          shown, reported, strPc, strHeld, nvDone, hoPhase, handed>>


-----------------------------------------------------------------------------
(***************************************************************************)
(* CSControl as pure operators.  A control state is a record              *)
(* [map, ignored, pending] (connectionMap_, isIgnoredIncomingCall_,       *)
(* pendingPhoneNumber_ non-empty); an operation returns the new control   *)
(* state together with what it sends: the report to the call manager      *)
(* (sent, out) and whether it issued a fail-cause query (query).           *)
(***************************************************************************)

LiveIdx(list) == {i \in Idx : list[i] # NoCall}
CallSize(list) == Cardinality(LiveIdx(list))
MapIdx(m) == {i \in Idx : m[i] # NoConn}
EmptyMap == [i \in Idx |-> NoConn]
Fresh == [map |-> EmptyMap, ignored |-> FALSE, pending |-> FALSE]

\* ControlBase::IsInState over connectionMap_
IsInState(m, st) == \E i \in MapIdx(m) : m[i].st = st

\* CellularCallConnection::SetDisconnectReason: the first reason wins.
SetDisconnectReason(c, r) ==
    IF c.reason = "INVALID" THEN [c EXCEPT !.reason = r] ELSE c

\* A connection without a reason whose index the snapshot no longer lists.
EndedWithoutReason(m, list) ==
    {i \in MapIdx(m) : m[i].reason = "INVALID" /\ i \notin LiveIdx(list)}

\* CSControl::HasEndCallWithoutReason
HasEndCallWithoutReason(m, list) == EndedWithoutReason(m, list) # {}

\* CSControl::UpdateDisconnectedReason
UpdateDisconnectedReason(m, list, r) ==
    [i \in Idx |-> IF i \in EndedWithoutReason(m, list)
                   THEN [m[i] EXCEPT !.reason = r] ELSE m[i]]

\* ControlBase::IsConnectedOut: an outgoing call left DIALING / ALERTING.
IsConnectedOut(pre, cur) ==
    pre \in {"DIALING", "ALERTING"} /\ cur \notin {"DIALING", "ALERTING"}

\* Report entries: [idx, st, serial, reason]; serial is ghost.
Entry(i, st, serial, r) == [idx |-> i, st |-> st, serial |-> serial, reason |-> r]
Gone(m, idxs) == {Entry(i, "DISCONNECTED", m[i].serial, m[i].reason) : i \in idxs}
\* The entry ReportHangUpInfo sends for an empty map: no index, no call.
Synthetic == Entry(0, "DISCONNECTED", 0, "INVALID")

Result(s, sent, out, query) == [ctl |-> s, sent |-> sent, out |-> out, query |-> query]

\* CSControl::ReportHangUpInfo, with the trailing ReleaseAllConnection.
ReportHangUpInfo(s) ==
    LET out == IF MapIdx(s.map) = {} THEN {Synthetic} ELSE Gone(s.map, MapIdx(s.map))
    IN Result([s EXCEPT !.map = EmptyMap, !.ignored = FALSE], ~s.ignored, out, FALSE)

\* CSControl::ReportIncomingInfo.  calls[0] is the lowest listed index.
ReportIncomingInfo(s, list, registered) ==
    LET live == LiveIdx(list)
        ignore == ~registered /\ list[Min(live)].st = "INCOMING"
    IN Result([s EXCEPT
                 !.map = [i \in Idx |-> IF i \in live
                                        THEN [st |-> list[i].st, reason |-> "INVALID",
                                              serial |-> list[i].serial]
                                        ELSE s.map[i]],
                 !.ignored = s.ignored \/ ignore],
              ~ignore,
              {Entry(i, list[i].st, list[i].serial, "INVALID") : i \in live},
              FALSE)

\* Mutation of ReportUpdateInfo: a lone WAITING call is reported as it is.
ReportUpdateInfoKeepsWaiting(s, list) ==
    LET live == LiveIdx(list)
        connectedOut == {i \in live \cap MapIdx(s.map) :
                           IsConnectedOut(s.map[i].st, list[i].st)}
    IN Result([s EXCEPT
                 !.map = [i \in Idx |->
                            IF i \in live
                            THEN [st |-> list[i].st, serial |-> list[i].serial,
                                  reason |-> IF i \in MapIdx(s.map)
                                             THEN s.map[i].reason ELSE "INVALID"]
                            ELSE NoConn],
                 !.pending = s.pending /\ connectedOut = {}],
              ~s.ignored,
              {Entry(i, list[i].st, list[i].serial, "INVALID") : i \in live}
                \cup Gone(s.map, MapIdx(s.map) \ live),
              FALSE)

\* CSControl::ReportUpdateInfo with DeleteConnection: find-or-create every
\* listed index (a lone WAITING call is reported INCOMING), keep the reason
\* a matched connection already has, move the pending number to a call that
\* has just connected out, then sweep the unlisted connections.
ReportUpdateInfo(s, list) ==
    LET live == LiveIdx(list)
        Shown(i) == IF CallSize(list) = 1 /\ list[i].st = "WAITING"
                    THEN "INCOMING" ELSE list[i].st
        connectedOut == {i \in live \cap MapIdx(s.map) :
                           IsConnectedOut(s.map[i].st, Shown(i))}
        swept == MapIdx(s.map) \ live
    IN Result([s EXCEPT
                 !.map = [i \in Idx |->
                            IF i \in live
                            THEN [st |-> Shown(i), serial |-> list[i].serial,
                                  reason |-> IF i \in MapIdx(s.map)
                                             THEN s.map[i].reason ELSE "INVALID"]
                            ELSE NoConn],
                 !.pending = s.pending /\ connectedOut = {}],
              ~s.ignored,
              {Entry(i, Shown(i), list[i].serial, "INVALID") : i \in live}
                \cup Gone(s.map, swept),
              FALSE)

\* Mutation of ReportCsCallsData: an empty list is reported as a hang-up at
\* once, without asking for the cause of the calls that ended.
ReportCsCallsDataNoQueryOnEmpty(s, list, isNeedQuery, registered) ==
    CASE CallSize(list) = 0 -> ReportHangUpInfo(s)
      [] MapIdx(s.map) = {} -> ReportIncomingInfo(s, list, registered)
      [] OTHER ->
           IF isNeedQuery /\ HasEndCallWithoutReason(s.map, list)
           THEN Result(s, FALSE, {}, TRUE)
           ELSE ReportUpdateInfo(s, list)

\* CSControl::ReportCsCallsData(slotId, callInfoList, isNeedQuery)
ReportCsCallsData(s, list, isNeedQuery, registered) ==
    CASE CallSize(list) = 0 ->
           IF isNeedQuery /\ HasEndCallWithoutReason(s.map, list)
           THEN Result(s, FALSE, {}, TRUE)
           ELSE ReportHangUpInfo(s)
      [] MapIdx(s.map) = {} -> ReportIncomingInfo(s, list, registered)
      [] OTHER ->
           IF isNeedQuery /\ HasEndCallWithoutReason(s.map, list)
           THEN Result(s, FALSE, {}, TRUE)
           ELSE ReportUpdateInfo(s, list)

-----------------------------------------------------------------------------
(* Applying a CSControl result to the state.                               *)

CtlState == [map |-> conn, ignored |-> ignored, pending |-> pending]

\* CellularCallRegister::ReportCallsInfo as the call manager applies it: an
\* entry sets the view of its index (DISCONNECTED clears it) and a
\* DISCONNECTED entry records the reason of the call it names.  Nothing is
\* delivered while no callback is registered.
Deliver(sent, out) ==
    /\ cm' = IF sent /\ cmReg
             THEN [i \in Idx |-> IF \E e \in out : e.idx = i
                                 THEN LET e == CHOOSE e \in out : e.idx = i
                                      IN IF e.st = "DISCONNECTED" THEN "IDLE" ELSE e.st
                                 ELSE cm[i]]
             ELSE cm
    /\ reported' = IF sent /\ cmReg
                   THEN [n \in Serials |->
                           IF \E e \in out : e.serial = n /\ e.st = "DISCONNECTED"
                           THEN (CHOOSE e \in out : e.serial = n).reason
                           ELSE reported[n]]
                   ELSE reported
    /\ shown' = IF sent /\ cmReg
                THEN shown \cup {e.serial : e \in {e \in out : e.st # "DISCONNECTED"}}
                ELSE shown

\* CellularCallService::SetCsControl(slotId, nullptr): the control and its
\* connection map are gone.
DropControl == /\ ctl' = FALSE /\ conn' = EmptyMap /\ ignored' = FALSE /\ pending' = FALSE

\* Send the report and the query of a result; then the slot keeps the
\* control in the result's state, or drops it.
Settle(res, keep) ==
    /\ Deliver(res.sent, res.out)
    /\ reasonQ' = IF res.query THEN reasonQ + 1 ELSE reasonQ
    /\ IF keep
       THEN /\ ctl' = TRUE
            /\ conn' = res.ctl.map
            /\ ignored' = res.ctl.ignored
            /\ pending' = res.ctl.pending
       ELSE DropControl

-----------------------------------------------------------------------------
(* The event handler of the slot: one event at a time, in queue order.     *)

\* CellularCallHandler::ProcessFinishCommonEvent: a held ENTER_STR event is
\* finished (FinishCommonEvent) and strEnterEventResult_ reset.
ProcessFinishCommonEvent == strHeld' = FALSE

\* CsCallStatusInfoReport -> GetCsCallData -> GetCsCallsDataRequest: a
\* call-status indication makes the handler query the current calls.
CsCallStatusInfoReport ==
    /\ evq # << >> /\ Head(evq).kind = "status"
    /\ evq' = Tail(evq)
    /\ listQ' = listQ + 1
    /\ UNCHANGED <<modemVars, ril, reasonQ, ctlVars, curList, isDuringRSRVCC, ims, imsListEmpty,
                   cmReg, cm, userAsked, shown, reported, strVars>>

\* Mutation of ReportNoCsCallsData: the control is dropped even while a
\* fail-cause query is outstanding for it.
ReportNoCsCallsDataAlwaysDrops(list) ==
    CASE isDuringRSRVCC ->
           /\ isDuringRSRVCC' = FALSE
           /\ UNCHANGED <<ctlVars, reasonQ, cm, shown, reported, strHeld>>
      [] ctl ->
           /\ ProcessFinishCommonEvent
           /\ Settle(ReportCsCallsData(CtlState, list, TRUE, cmReg), FALSE)
           /\ UNCHANGED isDuringRSRVCC
      [] OTHER -> UNCHANGED <<ctlVars, reasonQ, cm, shown, reported, strHeld, isDuringRSRVCC>>

\* CellularCallHandler::ReportNoCsCallsData: during RSRVCC the empty list
\* only clears isDuringRSRVCC_; without a control nothing happens;
\* otherwise the ENTER_STR hold is finished, the empty list is passed to
\* the control, and the control is dropped unless a fail-cause query is
\* outstanding for one of its calls.
ReportNoCsCallsData(list) ==
    CASE isDuringRSRVCC ->
           /\ isDuringRSRVCC' = FALSE
           /\ UNCHANGED <<ctlVars, reasonQ, cm, shown, reported, strHeld>>
      [] ctl ->
           LET res == ReportCsCallsData(CtlState, list, TRUE, cmReg)
           IN  /\ ProcessFinishCommonEvent
               /\ Settle(res, HasEndCallWithoutReason(res.ctl.map, list))
               /\ UNCHANGED isDuringRSRVCC
      [] OTHER -> UNCHANGED <<ctlVars, reasonQ, cm, shown, reported, strHeld, isDuringRSRVCC>>

\* CellularCallHandler::ReportCsCallsData: the list becomes
\* currentCsCallInfoList_; a non-empty list is ignored during RSRVCC; a list
\* of one call creates the control when there is none; without a control a
\* non-empty list is dropped.
HandlerReportCsCallsData(list) ==
    /\ curList' = list
    /\ CASE CallSize(list) = 0 -> ReportNoCsCallsData(list)
         [] ~isDuringRSRVCC /\ (ctl \/ CallSize(list) = 1) ->
              /\ Settle(ReportCsCallsData(IF ctl THEN CtlState ELSE Fresh,
                                          list, TRUE, cmReg), TRUE)
              /\ UNCHANGED <<strHeld, isDuringRSRVCC>>
         [] OTHER ->
              UNCHANGED <<ctlVars, reasonQ, cm, shown, reported, strHeld, isDuringRSRVCC>>

\* GetCsCallsDataResponse: the answer to the current-calls query.  An
\* answer that carries no list but a RIL error only reports
\* RESULT_GET_CURRENT_CALLS_FAILED to the call manager: no list is
\* processed, and nothing queries again.
GetCsCallsDataResponse ==
    /\ evq # << >>
    /\ evq' = Tail(evq)
    /\ \/ /\ Head(evq).kind = "calls"
          /\ HandlerReportCsCallsData(Head(evq).list)
       \/ /\ Head(evq).kind = "callsFailed"
          /\ UNCHANGED <<ctlVars, reasonQ, curList, cm, shown, reported, strHeld, isDuringRSRVCC>>
    /\ UNCHANGED <<modemVars, ril, listQ, ims, imsListEmpty, cmReg, userAsked, strPc,
                   nvDone>>

\* HandleCallDisconnectReason: an IMS control takes the reason in preference
\* to the CS control; then each control whose current list is empty is
\* dropped.
HandleCallDisconnectReason(r) ==
    LET upd == [CtlState EXCEPT !.map = UpdateDisconnectedReason(conn, curList, r)]
        res == ReportCsCallsData(upd, curList, FALSE, cmReg)
    IN  CASE ims # "none" ->
               /\ ims' = IF imsListEmpty THEN "none" ELSE "calls"
               /\ IF CallSize(curList) = 0 /\ ctl
                  THEN DropControl
                  ELSE UNCHANGED ctlVars
               /\ UNCHANGED <<reasonQ, cm, shown, reported>>
          [] ctl ->
               /\ Settle(res, CallSize(curList) # 0)
               /\ UNCHANGED ims
          [] OTHER -> UNCHANGED <<ctlVars, reasonQ, cm, shown, reported, ims>>

\* GetCallFailReasonResponse: a missing cause becomes NORMAL.
GetCallFailReasonResponse ==
    /\ evq # << >> /\ Head(evq).kind = "reason"
    /\ evq' = Tail(evq)
    /\ HandleCallDisconnectReason(IF Head(evq).r = "NULL" THEN "NORMAL" ELSE Head(evq).r)
    /\ UNCHANGED <<modemVars, ril, listQ, curList, isDuringRSRVCC, imsListEmpty, cmReg, userAsked,
                   strVars>>

\* OnRilAdapterHostDied: every CS connection is reported disconnected and the
\* CS and IMS controls are dropped.
OnRilAdapterHostDied ==
    /\ evq # << >> /\ Head(evq).kind = "died"
    /\ evq' = Tail(evq)
    /\ IF ctl
       THEN Settle(ReportHangUpInfo(CtlState), FALSE)
       ELSE UNCHANGED <<ctlVars, reasonQ, cm, shown, reported>>
    /\ ims' = "none"
    /\ UNCHANGED <<modemVars, ril, listQ, curList, isDuringRSRVCC, imsListEmpty, cmReg, userAsked,
                   strVars>>

\* NvCfgFinishedIndication with a finished NV refresh: isNvCfgFinish_ is set
\* and the ENTER_STR hold finished.  What follows (the IMS capabilities of a
\* slot with a SIM card) is configuration and left out.
NvCfgFinishedIndication ==
    /\ evq # << >> /\ Head(evq).kind = "nv"
    /\ evq' = Tail(evq)
    /\ nvDone' = TRUE
    /\ ProcessFinishCommonEvent
    /\ UNCHANGED <<modemVars, ril, listQ, reasonQ, ctlVars, curList, isDuringRSRVCC, ims, imsListEmpty,
                   cmReg, cm, userAsked, shown, reported, strPc>>

\* Mutation of UpdateRsrvccStateReport: the control reports its calls hung
\* up (ReportHangUpInfo, as OnRilAdapterHostDied does) before it is dropped.
UpdateRsrvccStateReportHangsUp ==
    /\ evq # << >> /\ Head(evq).kind = "rsrvcc"
    /\ evq' = Tail(evq)
    /\ isDuringRSRVCC' = TRUE
    /\ IF ctl
       THEN Settle(ReportHangUpInfo(CtlState), FALSE)
       ELSE UNCHANGED <<ctlVars, reasonQ, cm, shown, reported>>
    /\ UNCHANGED <<modemVars, ril, listQ, curList, ims, imsListEmpty, cmReg, userAsked,
                   strVars>>

\* UpdateRsrvccStateReport: whatever the status, isDuringRSRVCC_ is set and
\* the CS control dropped, its connections unreported (the call manager
\* moves the calls to IMS itself).
UpdateRsrvccStateReport ==
    /\ evq # << >> /\ Head(evq).kind = "rsrvcc"
    /\ evq' = Tail(evq)
    /\ isDuringRSRVCC' = TRUE
    /\ DropControl
    /\ UNCHANGED <<modemVars, ril, listQ, reasonQ, curList, ims, imsListEmpty, cmReg,
                   cm, userAsked, shown, reported, strVars>>

-----------------------------------------------------------------------------
(***************************************************************************)
(* The modem (environment).  It allocates the lowest free index, keeps at *)
(* most one ringing call, serves RIL requests in order with the +CHLD      *)
(* semantics of 3GPP TS 27.007, and raises a call-status indication after *)
(* every change.  Unless Coalesce holds it changes calls only once the    *)
(* handler has absorbed the previous change, so every snapshot shows one  *)
(* change at a time.                                                       *)
(***************************************************************************)

In(m, sts) == {i \in Idx : m[i].st \in sts}
FreeIdx == In(modem, {"NONE"})
Ringing == {"INCOMING", "WAITING"}

Settled == evq = << >> /\ listQ = 0 /\ reasonQ = 0

ModemMayChange ==
    /\ Len(evq) < MaxEvents /\ listQ < MaxQuery /\ reasonQ < MaxQuery
    /\ Coalesce \/ Settled

Retag(m, idxs, st) == [i \in Idx |-> IF i \in idxs THEN [m[i] EXCEPT !.st = st] ELSE m[i]]
Release(m, idxs) == [i \in Idx |-> IF i \in idxs THEN NoCall ELSE m[i]]

\* The calls a served request releases and the modem after it.
Serve(m, q) ==
    LET A == In(m, {"ACTIVE"})
        H == In(m, {"HOLDING"})
        R == In(m, Ringing)
    IN CASE q.kind = "hangup" -> Release(m, {q.idx} \ FreeIdx)
         [] q.kind = "reject" -> Release(m, IF R # {} THEN R ELSE Idx \ FreeIdx)
         [] q.kind = "answer" /\ A = {} -> Retag(m, R, "ACTIVE")
         [] q.kind = "switch" /\ R # {} -> Retag(Retag(m, A, "HOLDING"), R, "ACTIVE")
         [] q.kind = "switch" -> Retag(Retag(m, A, "HOLDING"), H, "ACTIVE")
         [] q.kind = "hold" -> Retag(m, A, "HOLDING")
         [] q.kind = "unhold" /\ A = {} -> Retag(m, H, "ACTIVE")
         [] q.kind = "combine" /\ A # {} -> Retag(m, H, "ACTIVE")
         [] q.kind = "separate" /\ q.idx \in A ->
              Retag(m, IF Cardinality(A) > 1 THEN A \ {q.idx} ELSE {}, "HOLDING")
         [] q.kind = "supHoldWait" -> Release(m, IF R # {} THEN R ELSE H)
         [] q.kind = "supActive" ->
              Retag(Release(m, A), IF R # {} THEN R ELSE H, "ACTIVE")
         [] OTHER -> m

\* Record a modem change: ended calls get their cause, an indication follows.
Change(m2, cause) ==
    /\ modem' = m2
    /\ endedBy' = [n \in Serials |->
                     IF \E i \in Idx : modem[i].serial = n /\ m2[i] = NoCall
                     THEN cause ELSE endedBy[n]]
    /\ evq' = Append(evq, [kind |-> "status"])
    /\ UNCHANGED rilDeaths

EnvUnchanged == UNCHANGED <<ril, listQ, reasonQ, ctlVars, curList, isDuringRSRVCC, ims, imsListEmpty,
                            cmReg, cm, userAsked, shown, reported, strVars>>

\* A mobile-terminated call arrives: INCOMING, or WAITING beside other calls.
MtArrive ==
    /\ ModemMayChange
    /\ FreeIdx # {} /\ nextSerial <= MaxSerial /\ In(modem, Ringing) = {}
    /\ Change([modem EXCEPT ![Min(FreeIdx)] =
                 [st |-> IF FreeIdx = Idx THEN "INCOMING" ELSE "WAITING",
                  serial |-> nextSerial]], "live")
    /\ nextSerial' = nextSerial + 1 /\ UNCHANGED hoVars
    /\ EnvUnchanged

\* An outgoing call progresses: DIALING -> ALERTING -> ACTIVE.
MoProgress ==
    /\ ModemMayChange
    /\ \E i \in In(modem, {"DIALING", "ALERTING"}) :
         Change([modem EXCEPT ![i].st = IF @ = "DIALING" THEN "ALERTING" ELSE "ACTIVE"],
                "live")
    /\ UNCHANGED <<nextSerial, hoVars>>
    /\ EnvUnchanged

\* The remote party or the network ends a call.
RemoteEnd ==
    /\ ModemMayChange
    /\ \E i \in Idx \ FreeIdx : Change(Release(modem, {i}), "remote")
    /\ UNCHANGED <<nextSerial, hoVars>>
    /\ EnvUnchanged

\* The modem serves the oldest RIL request.  A dial needs no call in set-up,
\* no active call, a free index and a fresh serial.  A request the current
\* calls make void changes nothing.
ServeRequest ==
    /\ ModemMayChange
    /\ UNCHANGED hoVars
    /\ ril # << >>
    /\ ril' = Tail(ril)
    /\ LET q == Head(ril)
           dialOk == /\ In(modem, {"DIALING", "ALERTING", "ACTIVE"} \cup Ringing) = {}
                     /\ FreeIdx # {} /\ nextSerial <= MaxSerial
       IN IF q.kind = "dial"
          THEN IF dialOk
               THEN /\ Change([modem EXCEPT ![Min(FreeIdx)] =
                                 [st |-> "DIALING", serial |-> nextSerial]], "live")
                    /\ nextSerial' = nextSerial + 1
               ELSE UNCHANGED <<modemVars, evq>>
          ELSE /\ IF Serve(modem, q) # modem
                  THEN Change(Serve(modem, q), "user")
                  ELSE UNCHANGED <<modem, endedBy, evq, rilDeaths>>
               /\ UNCHANGED nextSerial
    /\ UNCHANGED <<listQ, reasonQ, ctlVars, curList, isDuringRSRVCC, ims, imsListEmpty, cmReg, cm,
                   userAsked, shown, reported, strVars>>

\* The modem refuses the oldest request (the failure goes to the event-result
\* channel, which only informs the call manager).
RilRejectRequest ==
    /\ RilCanFail
    /\ ril # << >>
    /\ ril' = Tail(ril)
    /\ UNCHANGED <<modemVars, evq, listQ, reasonQ, ctlVars, curList, isDuringRSRVCC, ims, imsListEmpty,
                   cmReg, cm, userAsked, shown, reported, strVars>>

\* The modem answers the oldest current-calls query with its calls now,
\* or, when it may refuse the query, with an error.
AnswerCallList ==
    /\ listQ > 0 /\ Len(evq) < MaxEvents
    /\ listQ' = listQ - 1
    /\ \/ evq' = Append(evq, [kind |-> "calls", list |-> modem])
       \/ ListCanFail /\ evq' = Append(evq, [kind |-> "callsFailed"])
    /\ UNCHANGED <<modemVars, ril, reasonQ, ctlVars, curList, isDuringRSRVCC, ims, imsListEmpty,
                   cmReg, cm, userAsked, shown, reported, strVars>>

\* The modem answers a last-call-fail-cause query, with a cause or without.
AnswerFailReason ==
    /\ reasonQ > 0 /\ Len(evq) < MaxEvents
    /\ reasonQ' = reasonQ - 1
    /\ \E r \in {"NET", "NULL"} : evq' = Append(evq, [kind |-> "reason", r |-> r])
    /\ UNCHANGED <<modemVars, ril, listQ, ctlVars, curList, isDuringRSRVCC, ims, imsListEmpty,
                   cmReg, cm, userAsked, shown, reported, strVars>>

\* The modem indicates, once, that its NV refresh has finished (like its
\* other unsolicited reports, one at a time).
NvRefreshFinished ==
    /\ ~nvDone /\ ModemMayChange
    /\ \A k \in 1..Len(evq) : evq[k].kind # "nv"
    /\ evq' = Append(evq, [kind |-> "nv"])
    /\ UNCHANGED <<modemVars, ril, listQ, reasonQ, ctlVars, curList, isDuringRSRVCC, ims, imsListEmpty,
                   cmReg, cm, userAsked, shown, reported, strVars>>

\* Reverse SRVCC, once: the modem hands its established CS calls over to
\* IMS.  It sends the RSRVCC status report and drops the calls from its CS
\* list (with a call-status indication) as two unsolicited reports, in
\* either order.
Established == LiveIdx(modem) # {} /\ LiveIdx(modem) = In(modem, {"ACTIVE", "HOLDING"})

RsrvccReport ==
    /\ Rsrvcc /\ Len(evq) < MaxEvents
    /\ \/ /\ hoPhase = "idle" /\ Established /\ hoPhase' = "reported"
          /\ handed' = {modem[i].serial : i \in LiveIdx(modem)}
       \/ hoPhase = "left" /\ hoPhase' = "done" /\ UNCHANGED handed
    /\ evq' = Append(evq, [kind |-> "rsrvcc"])
    /\ UNCHANGED <<modem, nextSerial, endedBy, rilDeaths, ril, listQ, reasonQ, ctlVars,
                   curList, isDuringRSRVCC, ims, imsListEmpty, cmReg, cm, userAsked,
                   shown, reported, strVars>>

RsrvccCallsLeave ==
    /\ Rsrvcc /\ ModemMayChange /\ Established
    /\ hoPhase \in {"idle", "reported"}
    /\ Change(Release(modem, Idx), "handover")
    /\ hoPhase' = IF hoPhase = "idle" THEN "left" ELSE "done"
    /\ handed' = handed \cup {modem[i].serial : i \in LiveIdx(modem)}
    /\ UNCHANGED nextSerial
    /\ EnvUnchanged

\* The RIL adapter host dies: its calls are gone, its pending answers lost.
RilAdapterHostDies ==
    /\ rilDeaths < MaxRilDeaths /\ Len(evq) < MaxEvents
    /\ rilDeaths' = rilDeaths + 1
    /\ modem' = Release(modem, Idx)
    /\ endedBy' = [n \in Serials |->
                     IF \E i \in Idx : modem[i].serial = n THEN "crash" ELSE endedBy[n]]
    /\ evq' = Append(evq, [kind |-> "died"])
    /\ ril' = << >> /\ listQ' = 0 /\ reasonQ' = 0
    /\ UNCHANGED <<nextSerial, hoVars, ctlVars, curList, isDuringRSRVCC, ims,
                   imsListEmpty, cmReg, cm, userAsked, shown, reported, strVars>>

-----------------------------------------------------------------------------
(***************************************************************************)
(* Commands of CSControl, called from the service's binder threads under  *)
(* connectionMapMutex_, so each is one step.  A command that returns an   *)
(* error before changing anything is a stuttering step and left out.  A   *)
(* RIL request is sent fire-and-forget onto the ordered request channel.  *)
(***************************************************************************)

Req(k, i) == [kind |-> k, idx |-> i]
RilRoom(k) == Len(ril) + k <= MaxRil
Serial(idxs) == {conn[i].serial : i \in idxs}

\* CellularCallInfo.index names a call the call manager shows.
CmShows(i) == cm[i] # "IDLE"

\* Mutation of ReportDisconnecting: CALL_STATUS_DISCONNECTED is sent
\* instead of CALL_STATUS_DISCONNECTING.
ReportDisconnectingWrongStatus(i) ==
    cm' = IF cmReg THEN [cm EXCEPT ![i] = "DISCONNECTED"] ELSE cm

\* CellularCallRegister::ReportSingleCallInfo(info, CALL_STATUS_DISCONNECTING)
ReportDisconnecting(i) ==
    cm' = IF cmReg THEN [cm EXCEPT ![i] = "DISCONNECTING"] ELSE cm

\* Commands come from the call manager, which registers its callback first.
CmdUnchanged == /\ cmReg
                /\ UNCHANGED <<modemVars, evq, listQ, reasonQ, curList, isDuringRSRVCC, ims, imsListEmpty,
                               cmReg, shown, reported, strVars>>

\* CSControl::Dial / DialGsm / EncapsulateDialCommon.  The service creates the
\* control when the slot has none; CanCall bounds the connections; an
\* active call is switched to hold before the dial request.
Dial ==
    /\ RilRoom(2)
    /\ LET s == IF ctl THEN CtlState ELSE Fresh
       IN /\ Cardinality(MapIdx(s.map)) < MaxCallable
          /\ ril' = ril \o (IF IsInState(s.map, "ACTIVE") THEN << Req("switch", 0) >> ELSE << >>)
                        \o << Req("dial", 0) >>
          /\ ctl' = TRUE /\ conn' = s.map /\ ignored' = s.ignored
    /\ pending' = TRUE
    /\ UNCHANGED <<cm, userAsked>>
    /\ CmdUnchanged

\* CSControl::HangUp, TYPE_DEFAULT: report DISCONNECTING, attribute the end
\* to the user, then request the hang-up of that index.
HangUp ==
    /\ ctl /\ RilRoom(1)
    /\ \E i \in MapIdx(conn) :
         /\ CmShows(i)
         /\ ReportDisconnecting(i)
         /\ conn' = [conn EXCEPT ![i] = SetDisconnectReason(@, "USER_TERMINATED")]
         /\ userAsked' = userAsked \cup Serial({i})
         /\ ril' = Append(ril, Req("hangup", i))
    /\ UNCHANGED <<ctl, ignored, pending>>
    /\ CmdUnchanged

\* CSControl::UpdateCallDisconnectReason(callId, reason): the connection
\* whose index equals callId takes the reason.
UpdateCallDisconnectReason(m, callId, r) ==
    IF callId \in MapIdx(m) THEN [m EXCEPT ![callId] = SetDisconnectReason(@, r)] ELSE m

\* The callId a CellularCallInfo carries for the call at index i.
CallIdOf(i) == IF CallIdIsIndex THEN {i} ELSE Idx

\* Mutation of HangUpSupplement: the case falls through into
\* TYPE_HANG_UP_ALL and every connection takes USER_TERMINATED.
HangUpSupplementFallsThrough ==
    /\ ctl /\ RilRoom(1)
    /\ \E t \in {"supHoldWait", "supActive"}, i \in MapIdx(conn) :
         /\ CmShows(i)
         /\ conn[i].st \in IF t = "supActive" THEN {"ACTIVE"} ELSE {"HOLDING", "WAITING"}
         /\ conn' = [j \in Idx |-> IF j \in MapIdx(conn)
                                   THEN SetDisconnectReason(conn[j], "USER_TERMINATED")
                                   ELSE conn[j]]
         /\ userAsked' = userAsked \cup Serial({i})
         /\ ril' = Append(ril, Req(t, 0))
    /\ UNCHANGED <<ctl, ignored, pending, cm>>
    /\ CmdUnchanged

\* CSControl::HangUp, TYPE_HANG_UP_HOLD_WAIT (+CHLD=0, on a held or waiting
\* call) and TYPE_HANG_UP_ACTIVE (+CHLD=1, on an active call).
HangUpSupplement ==
    /\ ctl /\ RilRoom(1)
    /\ \E t \in {"supHoldWait", "supActive"}, i \in MapIdx(conn) :
         /\ CmShows(i)
         /\ conn[i].st \in IF t = "supActive" THEN {"ACTIVE"} ELSE {"HOLDING", "WAITING"}
         /\ \E callId \in CallIdOf(i) :
              conn' = UpdateCallDisconnectReason(conn, callId, "USER_TERMINATED")
         /\ userAsked' = userAsked \cup Serial({i})
         /\ ril' = Append(ril, Req(t, 0))
    /\ UNCHANGED <<ctl, ignored, pending, cm>>
    /\ CmdUnchanged

\* CSControl::HangUp, TYPE_HANG_UP_ALL: every connection is attributed to
\* the user, then the reject request (the same AT command) is sent.
HangUpAll ==
    /\ ctl /\ RilRoom(1)
    /\ conn' = [i \in Idx |-> IF i \in MapIdx(conn)
                              THEN SetDisconnectReason(conn[i], "USER_TERMINATED")
                              ELSE conn[i]]
    /\ userAsked' = userAsked \cup Serial(MapIdx(conn))
    /\ ril' = Append(ril, Req("reject", 0))
    /\ UNCHANGED <<ctl, ignored, pending, cm>>
    /\ CmdUnchanged

\* CSControl::Answer with CheckAndHangupHoldingCall: with a held and an
\* active call the held calls are hung up first; an active call is switched
\* to hold; then the target is answered if it is ringing.  The requests
\* already sent stay sent when the target turns out not to be ringing.
Answer ==
    /\ ctl
    /\ \E i \in MapIdx(conn) :
         LET held == IF IsInState(conn, "HOLDING") /\ IsInState(conn, "ACTIVE")
                     THEN In(conn, {"HOLDING"}) ELSE {}
             reqs == [k \in 1..Cardinality(held) |->
                        Req("hangup", SetToSortSeq(held, <)[k])]
                     \o (IF IsInState(conn, "ACTIVE") THEN << Req("switch", 0) >> ELSE << >>)
                     \o (IF conn[i].st \in RingingStates THEN << Req("answer", 0) >> ELSE << >>)
         IN /\ CmShows(i) /\ reqs # << >> /\ RilRoom(Len(reqs))
            /\ ril' = ril \o reqs
            /\ userAsked' = userAsked \cup Serial(held)
    /\ UNCHANGED <<ctlVars, cm>>
    /\ CmdUnchanged

\* CSControl::Reject: only a ringing call; report DISCONNECTING, attribute
\* the end to the user's decline, send the reject request.
Reject ==
    /\ ctl /\ RilRoom(1)
    /\ \E i \in MapIdx(conn) :
         /\ CmShows(i) /\ conn[i].st \in RingingStates
         /\ ReportDisconnecting(i)
         /\ conn' = [conn EXCEPT ![i] = SetDisconnectReason(@, "USER_DECLINE")]
         /\ userAsked' = userAsked \cup Serial({i})
         /\ ril' = Append(ril, Req("reject", 0))
    /\ UNCHANGED <<ctl, ignored, pending>>
    /\ CmdUnchanged

\* CSControl::HoldCall, UnHoldCall, SwitchCall: refused while a call is
\* INCOMING, otherwise the request is sent.
HoldUnHoldSwitch ==
    /\ ctl /\ RilRoom(1) /\ ~IsInState(conn, "INCOMING")
    /\ \E k \in {"hold", "unhold", "switch"} : ril' = Append(ril, Req(k, 0))
    /\ UNCHANGED <<ctlVars, cm, userAsked>>
    /\ CmdUnchanged

\* CSControl::CombineConference
CombineConference ==
    /\ ctl /\ RilRoom(1)
    /\ ril' = Append(ril, Req("combine", 0))
    /\ UNCHANGED <<ctlVars, cm, userAsked>>
    /\ CmdUnchanged

\* CSControl::SeparateConference: the matched connection's index, or the
\* given index when no connection matches.
SeparateConference ==
    /\ ctl /\ RilRoom(1)
    /\ \E i \in Idx : CmShows(i) /\ ril' = Append(ril, Req("separate", i))
    /\ UNCHANGED <<ctlVars, cm, userAsked>>
    /\ CmdUnchanged

\* CSControl::HangUpAllConnection: the reject request, no reason attributed.
HangUpAllConnection ==
    /\ ctl /\ RilRoom(1)
    /\ ril' = Append(ril, Req("reject", 0))
    /\ UNCHANGED <<ctlVars, cm, userAsked>>
    /\ CmdUnchanged

-----------------------------------------------------------------------------
(***************************************************************************)
(* OnReceiveEvent(ENTER_STR_TELEPHONY_NOTIFY), BASE_POWER_IMPROVEMENT_     *)
(* FEATURE: the device is about to suspend.  It runs on the common-event   *)
(* thread, beside the handler thread: it reads the controls' connection    *)
(* maps (each under its control's mutex) and then the static               *)
(* strEnterEventResult_ without a lock, so the test and the act are two    *)
(* steps.  The hold it takes is finished only by ProcessFinishCommonEvent  *)
(* on the handler thread.                                                  *)
(***************************************************************************)

\* IsCellularCallExist: a CS or IMS control of the slot holds a connection.
IsCellularCallExist == (ctl /\ MapIdx(conn) # {}) \/ ims # "none"

\* `if (IsCellularCallExist() || !isNvCfgFinish_)`
OnReceiveEventCheck ==
    /\ StrNotify /\ strPc = "idle"
    /\ strPc' = IF IsCellularCallExist \/ ~nvDone THEN "hold" ELSE "done"
    /\ UNCHANGED <<modemVars, evq, ril, listQ, reasonQ, ctlVars, curList, isDuringRSRVCC, ims,
                   imsListEmpty, cmReg, cm, userAsked, shown, reported, strHeld, nvDone>>

\* strEnterEventResult_ = GoAsyncCommonEvent(), then
\* CellularCallService::HangUpAllConnection: CSControl::HangUpAllConnection
\* sends the reject request when the slot has a CS control (the IMS
\* control's calls end through the IMS lists).
OnReceiveEventHold ==
    /\ strPc = "hold" /\ (ctl => RilRoom(1))
    /\ strPc' = "done" /\ strHeld' = TRUE
    /\ ril' = IF ctl THEN Append(ril, Req("reject", 0)) ELSE ril
    /\ UNCHANGED <<modemVars, evq, listQ, reasonQ, ctlVars, curList, isDuringRSRVCC, ims, imsListEmpty,
                   cmReg, cm, userAsked, shown, reported, nvDone>>

-----------------------------------------------------------------------------
(***************************************************************************)
(* The IMS side of the slot, as far as it meets the CS path: whether an   *)
(* IMSControl exists and whether currentCallList_ is empty.  IMS snapshots *)
(* come from the IMS stack, independently of the CS modem.                 *)
(***************************************************************************)

ImsUnchanged == UNCHANGED <<modemVars, evq, ril, listQ, ctlVars, curList, isDuringRSRVCC, cmReg, cm,
                            userAsked, shown, reported, strPc, nvDone>>

\* GetImsCallsDataResponse -> ReportImsCallsData with a non-empty list: a
\* list of one call creates the IMS control; without one the list is dropped.
ReportImsCallsData ==
    /\ ImsDomain
    /\ \E size \in {1, 2} :
         ims' = IF ims = "none" /\ size > 1 THEN "none" ELSE "calls"
    /\ imsListEmpty' = FALSE
    /\ UNCHANGED <<reasonQ, strHeld>>
    /\ ImsUnchanged

\* ReportNoImsCallsData: without an IMS control nothing happens; otherwise
\* the ENTER_STR hold is finished, and the IMS control queries the fail
\* cause when a call ended without one (HasEndCallWithoutReason of
\* IMSControl) and is kept, or reports and is dropped.
ReportNoImsCallsData ==
    /\ ImsDomain /\ ~imsListEmpty /\ reasonQ < MaxQuery
    /\ imsListEmpty' = TRUE
    /\ \/ ims = "none" /\ UNCHANGED <<ims, reasonQ, strHeld>>
       \/ /\ ims # "none" /\ ProcessFinishCommonEvent
          /\ \/ ims' = "awaitReason" /\ reasonQ' = reasonQ + 1
             \/ ims' = "none" /\ UNCHANGED reasonQ
    /\ ImsUnchanged

-----------------------------------------------------------------------------
(* The call manager registers its callback (CellularCallRegister).         *)

RegisterCallManagerCallBack ==
    /\ ~cmReg
    /\ cmReg' = TRUE
    /\ UNCHANGED <<modemVars, evq, ril, listQ, reasonQ, ctlVars, curList, isDuringRSRVCC, ims,
                   imsListEmpty, cm, userAsked, shown, reported, strVars>>

-----------------------------------------------------------------------------

Init ==
    /\ modem = [i \in Idx |-> NoCall]
    /\ nextSerial = 1
    /\ endedBy = [n \in Serials |-> "unborn"]
    /\ rilDeaths = 0
    /\ evq = << >> /\ ril = << >> /\ listQ = 0 /\ reasonQ = 0
    /\ ctl = FALSE /\ conn = EmptyMap /\ ignored = FALSE /\ pending = FALSE
    /\ curList = [i \in Idx |-> NoCall]
    /\ ims = "none" /\ imsListEmpty = TRUE
    /\ cmReg \in InitRegistered
    /\ cm = [i \in Idx |-> "IDLE"]
    /\ userAsked = {}
    /\ shown = {}
    /\ reported = [n \in Serials |-> "NONE"]
    /\ strPc = "idle" /\ strHeld = FALSE /\ nvDone \in InitNvDone
    /\ isDuringRSRVCC = FALSE /\ hoPhase = "idle" /\ handed = {}

\* Everything the modem did has been absorbed and no request is outstanding.
Quiescent == Settled /\ ril = << >>

\* An idle slot waits for the next call.
Idle == Quiescent /\ UNCHANGED vars

HandlerStep ==
    \/ CsCallStatusInfoReport \/ GetCsCallsDataResponse
    \/ GetCallFailReasonResponse \/ OnRilAdapterHostDied \/ NvCfgFinishedIndication
    \/ UpdateRsrvccStateReport

ModemStep ==
    \/ MtArrive \/ MoProgress \/ RemoteEnd \/ ServeRequest \/ RilRejectRequest
    \/ AnswerCallList \/ AnswerFailReason \/ RilAdapterHostDies \/ NvRefreshFinished
    \/ RsrvccReport \/ RsrvccCallsLeave

CommandStep ==
    \/ Dial \/ HangUp \/ HangUpSupplement \/ HangUpAll \/ Answer \/ Reject
    \/ HoldUnHoldSwitch \/ CombineConference \/ SeparateConference
    \/ HangUpAllConnection

Next ==
    \/ HandlerStep \/ ModemStep \/ CommandStep
    \/ ReportImsCallsData \/ ReportNoImsCallsData
    \/ RegisterCallManagerCallBack
    \/ OnReceiveEventCheck \/ OnReceiveEventHold
    \/ Idle

Spec == Init /\ [][Next]_vars

-----------------------------------------------------------------------------
(* Properties.                                                             *)

TypeOK ==
    /\ modem \in Snapshot
    /\ nextSerial \in 1..MaxSerial + 1
    /\ endedBy \in [Serials -> {"unborn", "live", "user", "remote", "crash", "handover"}]
    /\ rilDeaths \in 0..MaxRilDeaths
    /\ evq \in Seq(Event) /\ Len(evq) <= MaxEvents
    /\ ril \in Seq(Request) /\ Len(ril) <= MaxRil
    /\ listQ \in Nat /\ reasonQ \in Nat
    /\ ctl \in BOOLEAN /\ ignored \in BOOLEAN /\ pending \in BOOLEAN
    /\ conn \in [Idx -> Conn \cup {NoConn}]
    /\ curList \in Snapshot
    /\ ims \in {"none", "calls", "awaitReason"} /\ imsListEmpty \in BOOLEAN
    /\ cmReg \in BOOLEAN
    /\ cm \in [Idx -> CmStates]
    /\ userAsked \subseteq Serials
    /\ shown \subseteq Serials
    /\ reported \in [Serials -> Reasons \cup {"NONE"}]
    /\ strPc \in {"idle", "hold", "done"} /\ strHeld \in BOOLEAN /\ nvDone \in BOOLEAN
    /\ isDuringRSRVCC \in BOOLEAN /\ hoPhase \in {"idle", "reported", "left", "done"}
    /\ handed \subseteq Serials

\* The state the call manager should show for a modem call: a lone WAITING
\* call is shown INCOMING (ReportUpdateInfo's normalisation).
Shown(m, i) == IF CallSize(m) = 1 /\ m[i].st = "WAITING" THEN "INCOMING" ELSE m[i].st

\* Once the slot is quiescent, the call manager's view agrees with the modem
\* index by index: a call the modem has is shown in its state (or as
\* DISCONNECTING after a hang-up the modem refused), and an index the modem
\* has freed is idle.  This is what the whole chain of status indication,
\* current-calls query, ReportCsCallsData reconciliation and fail-cause
\* query must achieve; it excludes the deliberate silence while an incoming
\* call is ignored before the call manager registered.
Agreement ==
    (Quiescent /\ cmReg /\ ~ignored) =>
        \A i \in Idx :
            IF modem[i] = NoCall THEN cm[i] = "IDLE"
            ELSE cm[i] \in {Shown(modem, i), "DISCONNECTING"}

\* A call is reported as ended by the user (USER_TERMINATED or USER_DECLINE)
\* only if the user asked to end that very call: the reason HangUp, Reject
\* and HangUpAll attach to a connection must stay with the call it was
\* attached for, through index reuse and reconciliation.
ReasonAttribution ==
    \A n \in Serials : reported[n] \in UserReasons => n \in userAsked

\* A call is reported with no disconnect reason (INVALID) only by the
\* RIL-death path (OnRilAdapterHostDied reports every connection as it is):
\* while the RIL adapter lives, every DISCONNECTED report is held back by
\* HasEndCallWithoutReason until a command attributed the end or the
\* fail-cause query supplied one.
DisconnectReasonKnown ==
    \A n \in Serials : reported[n] = "INVALID" => rilDeaths > 0

\* Once the slot is quiescent, every call the call manager was shown and the
\* modem has ended has been reported DISCONNECTED: the end of a call is
\* never lost between the snapshots, the fail-cause query and the control's
\* teardown, even when the modem reuses the call's index.  (A call an RSRVCC
\* handover took is dropped from the control unreported, by design: the call
\* manager follows it to IMS.)
EndReported ==
    (Quiescent /\ cmReg) =>
        \A n \in shown \ handed : endedBy[n] \in {"user", "remote", "crash"} => reported[n] # "NONE"

\* Once the slot is quiescent, OnReceiveEvent has finished, no call is left
\* on the modem or in an IMS control and the NV refresh has finished, the
\* ENTER_STR event OnReceiveEvent held (GoAsyncCommonEvent) has been
\* finished: whatever ended the calls it hung up also ran
\* ProcessFinishCommonEvent, so the device is not kept from suspending.
StrReleased ==
    (Quiescent /\ strPc # "hold" /\ nvDone /\ LiveIdx(modem) = {} /\ ims = "none")
        => ~strHeld

\* Once the slot is quiescent, with the call manager registered and no
\* incoming call ignored, every call the modem has on its CS list has been
\* shown to the call manager, or is one the call manager moves to IMS: ReportCsCallsData does not go on ignoring the
\* lists of a new call because isDuringRSRVCC_, set by an earlier RSRVCC
\* status report, was never cleared by the empty list it waits for.
LiveCallsShown ==
    (Quiescent /\ cmReg /\ ~ignored) =>
        \A i \in LiveIdx(modem) : modem[i].serial \in shown \cup handed

=============================================================================
