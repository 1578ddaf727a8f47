# TLA+ models of the cellular call service

This directory holds TLA+ models of `telephony_cellular_call` and the TLC
configurations that check them. Every definition is translated from the C++
under `src/`. `PROJECT.json` maps each definition to the lines it models, lists
the runs, their mutants, the findings and the hazards of the code.

## The system

Per SIM slot, the service keeps:

* a **CellularCallHandler** (`cellular_call_handler.cpp`): one event queue,
  handled one event at a time. A modem call-status indication
  (`CsCallStatusInfoReport`) makes it query the current calls. The answer
  (`GetCsCallsDataResponse`) is passed to the CS control. When calls end
  without a known cause, the control asks the modem for the last fail cause.
  The answer (`GetCallFailReasonResponse` → `HandleCallDisconnectReason`) sets
  the reasons and makes the control report again. `OnRilAdapterHostDied`
  reports every call disconnected and drops the controls.
* a **CSControl** (`cs_control.cpp`): the map from modem index to connection,
  under a recursive mutex. It reconciles each call list with the map:
  `ReportIncomingInfo` for an empty map, `ReportUpdateInfo` plus
  `DeleteConnection` otherwise, `ReportHangUpInfo` for an empty list. It
  reports the result to the call manager through `CellularCallRegister`. It
  also turns the call manager's commands (dial, hang up, answer, reject,
  hold, switch, conference) into RIL requests.
* an **IMSControl** and its call list (`currentCallList_`). They meet the CS
  path in `HandleCallDisconnectReason`, which prefers the IMS control.
* **RSRVCC** (reverse SRVCC: CS calls handed over to IMS). The modem sends
  an RSRVCC status report; `UpdateRsrvccStateReport` sets `isDuringRSRVCC_`
  and drops the CS control. While the flag is set, `ReportCsCallsData`
  ignores every non-empty CS list, and the next empty list only clears it.

## Module `CsCallControl`

* **State.**
  * The modem: `modem`, its call list with a serial number as each call's identity.
  * The handler queue `evq` and the RIL request queue `ril`.
  * The counters of outstanding queries: `listQ`, `reasonQ`.
  * The control:
    * `ctl`: whether it exists;
    * `conn`: connectionMap_;
    * `ignored`: isIgnoredIncomingCall_;
    * `pending`: whether pendingPhoneNumber_ is set.
  * `curList`: currentCsCallInfoList_.
  * The IMS side: `ims`, `imsListEmpty`.
  * The call manager:
    * `cmReg`: its callback is registered;
    * `cm`: the state it shows per index.
  * The ENTER_STR hold of the `BASE_POWER_IMPROVEMENT_FEATURE` build:
    `strPc` (where the common-event thread is in OnReceiveEvent), `strHeld`
    (strEnterEventResult_ is set) and `nvDone` (isNvCfgFinish_).
  * RSRVCC: `isDuringRSRVCC` (isDuringRSRVCC_), and the modem's handover
    progress `hoPhase` (idle, reported, left, done).
  * Ghost history: `endedBy`, `userAsked`, `shown`, `reported`, and
    `handed`, the calls the handover took to IMS.
* **Pure operators.** The CSControl functions are pure operators over a
  record `[map, ignored, pending]`: `ReportCsCallsData`, `ReportIncomingInfo`,
  `ReportUpdateInfo`, `ReportHangUpInfo`, `HasEndCallWithoutReason`,
  `UpdateDisconnectedReason`. Each returns the new control, what it reports and
  whether it queries the fail cause. `Settle` applies that result in the same
  step, as the code does under the handler's single thread.
* **Handler actions.** One action per handler: `CsCallStatusInfoReport`,
  `GetCsCallsDataResponse` (through the handler's `ReportCsCallsData` /
  `ReportNoCsCallsData`), `GetCallFailReasonResponse`, `OnRilAdapterHostDied`,
  `ReportImsCallsData`, `ReportNoImsCallsData`, `NvCfgFinishedIndication`,
  `UpdateRsrvccStateReport`. While `isDuringRSRVCC` holds, `ReportCsCallsData`
  ignores a non-empty list and `ReportNoCsCallsData` clears the flag and returns.
  `ReportNoCsCallsData` (once it has a control), `ReportNoImsCallsData` (with
  an IMS control) and `NvCfgFinishedIndication` run `ProcessFinishCommonEvent`,
  which finishes the ENTER_STR hold; `OnRilAdapterHostDied` does not.
* **The common-event thread.** OnReceiveEvent(ENTER_STR_TELEPHONY_NOTIFY)
  runs beside the handler thread, not on it. It is two steps:
  `OnReceiveEventCheck` tests `IsCellularCallExist() || !isNvCfgFinish_`, and
  `OnReceiveEventHold` takes the hold (GoAsyncCommonEvent) and hangs up every
  call (CSControl::HangUpAllConnection's reject request when there is a CS
  control). The handler can run between the two. The constant `StrNotify`
  says whether the notification is delivered (once). IsCellularCallExist
  looks at every slot; the model has one.
* **Commands.** One action per CSControl command: `Dial` (DialGsm +
  EncapsulateDialCommon), `HangUp`, `HangUpSupplement`, `HangUpAll`, `Answer`
  (with CheckAndHangupHoldingCall), `Reject`, `HoldUnHoldSwitch`,
  `CombineConference`, `SeparateConference`, `HangUpAllConnection`.
  * They are issued only while the call manager is registered.
  * They target an index the call manager shows.
* **The modem (environment).**
  * It allocates the lowest free index and keeps at most one ringing call.
  * It serves requests with the +CHLD semantics of 3GPP TS 27.007.
  * It raises a status indication per change and answers queries.
  * It may refuse a call-control request (`RilCanFail`).
  * It may answer a current-calls query with an error (`ListCanFail`).
    GetCsCallsDataResponse then processes no list; it only reports
    RESULT_GET_CURRENT_CALLS_FAILED, and nothing queries again.
  * With `Coalesce` FALSE it changes only when nothing is in flight. This is
    the ordinary case: one change is seen by one query.
  * With `Coalesce` TRUE several changes may happen between two queries.
  * With `Rsrvcc` TRUE it hands its established calls (all ACTIVE or
    HOLDING) over to IMS once: `RsrvccReport` sends the status report and
    `RsrvccCallsLeave` removes the calls from the CS list, in either order.
* **Switches.** `CallIdIsIndex` says whether a call's callId equals its modem
  index. `ImsDomain` enables the IMS side, `Rsrvcc` the handover.

## Properties

* `TypeOK`, checked in `cs_reliable`.
* `Agreement`: whenever the slot is quiet, the call manager is registered and
  no incoming call is being ignored, the call manager's view of each index is
  what the modem has. IDLE means no call; otherwise it shows the call's state
  (a lone WAITING shown as INCOMING), or DISCONNECTING after a hang-up.
* `ReasonAttribution`: a call reported ended with a user reason
  (USER_TERMINATED, USER_DECLINE) is one the user hung up or rejected.
* `DisconnectReasonKnown`: an end reported with no reason (INVALID) only
  happens after a RIL death.
* `EndReported`: once the slot is quiet, every call the call manager was shown
  and that has ended has been reported ended. Calls handed over to IMS are
  excluded: the handler drops them unreported by design.
* `LiveCallsShown`: once the slot is quiet, with the call manager registered
  and no incoming call ignored, every call the modem has on CS was shown to
  the call manager or is one the RSRVCC handover took.
* `StrReleased`: once the slot is quiet, OnReceiveEvent has finished, no call
  is left and the NV refresh has finished, the ENTER_STR hold has been
  finished, so the device can suspend.

## Runs of `CsCallControl` (on `MCCsCallControl`, two modem indices)

| run | setting | checks | result |
|---|---|---|---|
| cs_reliable | modem serves every request; two requests in flight; call manager may register late | all five | pass, 979k states, ~30 s |
| cs_ril_failures | RIL may refuse call-control requests and its host may die once; list queries always answered; one request in flight; late registration; NV refresh may be running; ENTER_STR delivered once | ReasonAttribution, DisconnectReasonKnown, EndReported | pass, 2.7M states, ~110 s |
| cs_ims | IMS control present, one request in flight | ReasonAttribution, DisconnectReasonKnown | pass, 1.9M states, ~70 s |
| cs_rsrvcc | RSRVCC once, RIL may refuse requests and answer list queries with an error, one request in flight, late registration | DisconnectReasonKnown | pass, 1.06M states, ~50 s |
| ril_death_stale_list | one RIL death | Agreement | violation |
| coalesced_lost_end | changes coalesce | EndReported | violation |
| callid_not_index | callId differs from the index | ReasonAttribution | violation |
| str_hold_race | ENTER_STR delivered once, modem serves every request | StrReleased | violation |
| rsrvcc_order | RSRVCC once, registered | LiveCallsShown | violation |

What the violations show (see `findings` in PROJECT.json):

* **A RIL death leaves `currentCsCallInfoList_` stale.** A later fail-cause
  answer reports a call that no longer exists
  (`cellular_call_handler.cpp:2145`). This is why `cs_ril_failures` does not check
  Agreement.
* **The fail cause goes to the IMS control whenever one exists.** The CS
  control is then dropped with its ended calls unreported (line 2140). This is
  why `cs_ims` does not check EndReported. (Reproduce: the cs_ims settings
  with `INVARIANT EndReported`.)
* **Index reuse between two queries.** It loses the first call's end and
  passes its reason on to the new call (`cs_control.cpp:485-499`). The
  reason reuse shows with the coalesced_lost_end settings and
  `INVARIANT ReasonAttribution`.
* **RSRVCC hides CS calls** (`cellular_call_handler.cpp:417`, 1825).
  `UpdateRsrvccStateReport` sets `isDuringRSRVCC_` whatever the status says,
  and only an empty CS list clears it. A call that is not part of the
  handover (a waiting call that arrives during it, or any call after a report
  that came once the handed calls had already left) is never shown. The same
  gate loses the end of a call that ended just before the report, which is
  why `cs_rsrvcc` does not check EndReported or Agreement.

A list query answered with an error (`cellular_call_handler.cpp:529-549`,
`ListCanFail`) breaks two properties, which is why only `cs_rsrvcc` runs with
it and checks neither:

* **EndReported.** A call ends, the query its status indication starts is
  refused, and nothing queries again: the call manager goes on showing the
  ended call until the next indication. Reproduce with the cs_ril_failures
  settings, `ListCanFail = TRUE` and `INVARIANT EndReported`.
* **ReasonAttribution.** The control keeps the ended call's connection. A new
  call takes the same index, the user hangs up what the call manager still
  shows (USER_TERMINATED on that connection), and the new call's list is
  matched to it by index (`cs_control.cpp:485`): the new call, which nobody
  hung up, is reported USER_TERMINATED. Reproduce with the cs_rsrvcc settings
  and `INVARIANT ReasonAttribution`.

Whether the call manager re-queries on RESULT_GET_CURRENT_CALLS_FAILED is
decided outside this tree, so these are listed as a hazard, not as findings.
* **callId compared with the modem index.** A supplementary hang-up can
  attribute USER_TERMINATED to the wrong call (`cs_control.cpp:198`, 789).
* **The ENTER_STR hold can outlive every call** (`cellular_call_handler.cpp:333`).
  OnReceiveEvent sees the last call, then the handler handles that call's
  empty list: ProcessFinishCommonEvent finds no hold and the control is
  dropped. Only then does OnReceiveEvent take the hold, and
  HangUpAllConnection has nothing to hang up. Nothing finishes the event
  until another call ends. `cs_ril_failures` runs the same two threads
  without checking StrReleased. The same property covers the RIL-death path:
  OnRilAdapterHostDied drops the control without finishing the hold (line
  1941). No run traces that path on its own, because with deaths TLC reports
  the shorter race trace first.

Each property of each passing run has a mutant in PROJECT.json: a plausible
bug in a mapped definition that TLC finds.

* `ReportDisconnecting` sends the wrong status.
* `ReportUpdateInfo` does not normalise a lone WAITING call.
* `HangUpSupplement` falls through into HANG_UP_ALL.
* `ReportCsCallsData` does not query the cause on an empty list.
* `ReportNoCsCallsData` always drops the control.
* `UpdateRsrvccStateReport` hangs the connections up instead of dropping
  them unreported.

## Module `SsCommandTable`

The supplementary-service command table of CellularCallHandler
(`cellular_call_handler.cpp:1834-1890`). A call of the supplementary-service
API takes an index with `RequestSsRequestCommandIndex`, stores its command
with `SaveSsRequestCommand` and sends the request carrying the index. The
answer comes back on the handler thread, which looks the command up and
removes it with `ConfirmAndRemoveSsRequestCommand` and reports with that
command's flag and action.

* **State.** `indexCommand` (indexCommand_), `utCommandMap` (utCommandMap_,
  index to the request that stored it), per requester thread its program
  counter, the value it last read, the index it was given and the kind of
  request (`"ss"` for call waiting, CLIR, CLIP, COLR, COLP and barring, `"cf"`
  for call forwarding), the requests in flight, the forwarding look-up in
  progress (`lookup`), the reports made (`answered`: request, flag found,
  forwarding reason found) and the requests the RIL dropped (`dropped`).
* **Actions.** `indexCommand_` is read and written without a lock, so each
  access is a step of its own: `RequestIndexRead` (the test
  `indexCommand_ >= MAX_REQUEST_COUNT`), `RequestIndexWrite` (on the value
  tested, either stores 0 or starts `indexCommand_++` by loading the member
  again), `RequestIndexIncrement` (stores what it loaded plus one),
  `RequestIndexReadBack`, then `SaveRead` (SaveSsRequestCommand reads the
  member `indexCommand_`, not its index argument) and `SaveInsert` (under
  mutex_, `insert`, which keeps an existing entry). `SsResponse` is the shared
  look-up of the `"ss"` responses (lines 1522-1671), in any order.
  `GetCallTransferResponse` takes `mutex_` twice (lines 1674-1693): first it
  reads the entry's forwarding reason with `GetSsRequestCommand`
  (`GetCallTransferLookup`), then, after the lock is released, it confirms
  and removes the entry and reports both (`GetCallTransferResponse`).
  `RilDropsRequest` lets the RIL never answer: every response returns before
  its look-up when its result object is null, so the entry stays.
* **Abstract specification `SsRequests`.** What the path promises the
  application: each request is reported at most once, with its own command's
  flag and forwarding reason, and a request is reported eventually unless the
  RIL drops it. `ImplementsSsRequests` is `SsRequests!Spec` under the mapping
  made = the ids handed out, reported = the pairs (request, command whose flag
  or reason it was reported with), lost = `dropped`.
* **Fairness (`FairSpec`).** Weak fairness on each requester's own steps (a
  thread that has started a request runs it to the end: nothing in
  `RequestSsRequestCommandIndex` or `SaveSsRequestCommand` blocks except the
  short `mutex_`) and on the handler's steps (the event loop takes every
  answer it is given). Starting a request is not fair: the application need
  not ask again.
* **Properties.** `ImplementsSsRequests` (safety and liveness together);
  `ResponseFindsItsCommand`: every report carries the command of the request
  it answers.

| run | setting | checks | result |
|---|---|---|---|
| ss_serial | one requester, MAX_REQUEST_COUNT 3, four requests, three outstanding, RIL may drop; `FairSpec` | TypeOK, ImplementsSsRequests | pass, 3485 states |
| ss_concurrent | two requesters | ResponseFindsItsCommand | violation |

With one requester the index wraps once and every answer finds its own
command, and every request not dropped is reported. With two, both threads can
read the same `indexCommand_` before either writes; they are handed different
indices, but `SaveSsRequestCommand` re-reads the member, both save under the
same key, `insert` keeps the first, and the second answer finds nothing or the
other request's command (`cellular_call_handler.cpp:1851`). MAX_REQUEST_COUNT
is 50 in the code; 2 or 3 is enough to wrap the index, and the race needs no
wrap at all.

`TypeOK` bounds `indexCommand_` and every index handed out by
MAX_REQUEST_COUNT with one requester (its mutant tests `>` for `>=`). The
type allows one more per further requester: two requesters whose tests both
saw MAX_REQUEST_COUNT - 1 store MAX_REQUEST_COUNT and then, loading it
again for `++`, MAX_REQUEST_COUNT + 1.

The entry a dropped request leaves behind (`cellular_call_handler.cpp:1450`
and the other early returns) is a second way to a wrong report: once the
index wraps, `insert` keeps the stale entry and the next request with that
index is reported with the old command. ss_serial does not reach it (four
requests over the four indices 0..3). With MaxRequests = MaxRequestCount + 2 and
MaxOutstanding = 1, TLC finds `ImplementsSsRequests` violated with request 5
reported with request 1's command; that setting has no run of its own yet.

## Module `StandardizeUtils`

`RemoveSeparatorsPhoneNumber` (what DialGsm and DialCdma dial) and
`ExtractAddressAndPostDial` (what PostDialProceed splits a number with), as
operators on strings; the scan that stops at the first separator is a
RECURSIVE operator `Scan`. The only variable is the number under test: any
string of up to `MaxLen` characters over the alphabet `Chars`, both set by the
run (digits, a separator and a character the code drops). The spec's meaning
of the split (`SpecAddress`, `SpecPostDial`, from its Scenario C) is the
reference. The first two properties below are checked by the `dial_string`
run of `MMICodeUtils`, which extends this module.

* `AddressMatchesSpec`: the address is the dialable characters before the
  first separator.
* `CleaningKeepsTheSplit`: splitting the cleaned number gives the raw number's
  address and its post-dial string cleaned.
* `PostDialMatchesSpec` is stated but checked by no run. The code's
  post-dial string starts with the separator (`standardize_utils.cpp:58`), so
  "1234,5678" gives ",5678" where the spec's Scenario C has "5678".
  PostDialProceed (`cs_control.cpp:682`) computes both strings and then uses
  neither, so the call manager sees no difference. That divergence gave up its
  run slot to `str_hold_race`; `tlc -config` with `INVARIANT
  PostDialMatchesSpec` over `MaxLen` 5 and `Chars` `1 2 , ; -` shows it.

## Module `MMICodeUtils`

It EXTENDS `StandardizeUtils`: DialGsm and DialCdma clean the number with
`RemoveSeparatorsPhoneNumber` and then ask whether the result is an MMI code,
so one run checks both helpers over the same numbers.

* `IsNeedExecuteMmi`: a short code (`IsShortCode`, whose rule depends on
  whether a call exists), a match of the TS 22.030 pattern (`RegexMatchMmi`),
  or any string that starts with '*' or '#' and ends with '#'.
* `RegexMatchMmi`: the regular expression as what an ECMAScript match does.
  `Attempt(s, a, n)` is the match with action `a` and an `n`-digit code.
  `FirstMatch` takes the first that succeeds, in the order the alternatives
  and the greedy `\d{2,3}` are tried.
* `ExecuteMmiCode`: the handler the service-code table holds (the IMS codes
  76 and 77 only when IMS is used), nothing for "03", otherwise USSD with
  fullString.
* Whether a call exists and whether IMS is used are inputs; the properties
  quantify over both.

Properties:

* `RegexFindsTheProcedure`: the pattern matches exactly the strings that
  begin with a procedure as the comment in `RegexMatchMmi` states TS 22.030
  (`SpecProcedure`). Its groups are that procedure's parts.
* `MmiIsNeverDropped`: a cleaned number that `IsNeedExecuteMmi` accepts,
  and that is therefore not dialled, is always acted on by `ExecuteMmiCode`: a handler, USSD, or the deliberate
  no-op of "03".

| run | setting | checks | result |
|---|---|---|---|
| dial_string | every string of up to 6 characters over `0 1 3 * # ; -` | AddressMatchesSpec, CleaningKeepsTheSplit, RegexFindsTheProcedure, MmiIsNeverDropped | pass, 137,257 states, ~30 s |

The digits 0, 1 and 3 reach the service codes 03, 30, 31, 33, 330, 331 and
333, and the short-code rule for a leading '1'. Six characters hold a
procedure with a two- or three-digit code and up to two parts. The limit of
four parts is not reached: that needs nine characters.

## Bounds, deadlock and fairness

* **Indices.** Two indices are enough for the cases that matter: an active
  call beside a held or waiting one, a lone waiting call, an index ended and
  reused, and the callId/index confusion.
* **Other bounds.**
  * `MaxSerial` = 2: calls created.
  * `MaxEvents` = 2: queued events.
  * `MaxRil` = 2, or 1 where the state space needs it: requests in flight.
    Two allow a switch followed by a dial or an answer.
  * `MaxQuery` = 1: outstanding queries.
  * `MaxCallable` = 2: CanCall.
  * `MaxRilDeaths`: deaths of the RIL adapter host.
  * RSRVCC happens at most once: one report and one departure of the
    handed calls, in both orders, are enough to reach the flag left set.
* **Deadlock.** `Idle` lets a quiet slot stutter, so deadlock checking still
  finds any state that is not quiet and has no step. No cfg turns it off.
* **ENTER_STR.** `StrNotify` delivers the notification once and the NV
  indication comes once. One ENTER_STR is enough: the race needs only one
  check, one hold and one empty list between them. The NV indication is
  treated like the modem's other unsolicited reports, and comes when the
  handler has caught up.
* **Fairness.** `CsCallControl` checks safety only; eventual reporting is
  stated at quiescence (EndReported), which asks nothing of fairness. A
  liveness form of it (every ended call eventually reported under weak
  fairness of the handler, the modem and the query) was tried: at the bounds
  above TLC needs 5 to 10 minutes for it, past the five-minute budget of a
  run. `SsCommandTable` has the fairness described in its section, and its
  liveness is checked through `ImplementsSsRequests`.

## Not modelled, and the plan for the next sittings

1. **SRVCC** (`UpdateSrvccStateReport`, `SrvccStateCompleted`). It gates
   CS reports (line 1201) and recreates the control; `srvccState_` keeps its
   initial value. Two things a faithful model needs are not in this tree: how
   the call manager moves its calls between IMS and CS, and whether the modem
   sends the CS indication of a handed-over call before or after the SRVCC
   completion. The second decides whether line 1201 drops that indication.
   RSRVCC is modelled (see `CsCallControl`).
2. **Post-dial digits** (`ExecutePostDial`, `PostDialProceed`) and
   `pendingPhoneNumber_`. A wrong post-dial number needs a second dial while
   the first is still dialing; whether the call manager ever does that is
   decided outside this tree.
3. **A run for the stale supplementary-service entry** (above): it waits for a
   run slot. The ECC list re-query (line 1397) is bounded: the
   answer to the query never queries again. What a dropped chunk costs lies in
   the ECC configuration code, which is not in this tree.
4. **An abstract call-table specification** that CsCallControl refines under
   the reliable, non-coalescing modem, with the refinement as a PROPERTY.
5. **Agreement under refused requests.** A refusing RIL with two requests in
   flight is over 3M states, too many for a five-minute run, and refusal
   shares its run with the RIL death, under which Agreement is violated. A run
   of its own (refusal, one request in flight: 90k states) is the first to add
   when the run budget allows.
6. **Left out entirely:**
   * DialCdma: its three-way flash needs a CDMA modem model.
   * `ControlBase::IsNeedExecuteMMI`, the glue between DialGsm and
     `MMICodeUtils` (with its CLIR prefixes), is not in this tree.
   * Satellite calls: the SatelliteControl code is not in this tree.
   * An NV indication whose state is not finished (it clears
     isNvCfgFinish_): the model's modem finishes its refresh once. What the
     modem sends, and in what order, is decided outside this tree.
   * The IPC stubs: marshalling only.
   * Responses that only forward a result to the call manager (DialResponse,
     CommonResultResponse, and the supplementary-service responses beyond their
     command look-up). Their
     effect on call state is nil; a refused request is modelled as the modem
     dropping it.
