----------------------------- MODULE SsRequests -----------------------------
(***************************************************************************)
(* What the supplementary-service path promises the application that asks *)
(* for call waiting, CLIR, CLIP, COLR, COLP, forwarding or barring: each    *)
(* request it makes is reported back at most once, with the flag, action   *)
(* and forwarding reason of that request's own command; and a request the  *)
(* network answers is reported eventually.  Only a request the RIL never   *)
(* answers may stay unreported.                                            *)
(***************************************************************************)
EXTENDS FiniteSets

CONSTANTS
    Ids,         \* the requests of a behaviour
    RilMayDrop   \* whether the RIL may leave a request unanswered

VARIABLES
    made,        \* requests the application has made
    reported,    \* <<request, command whose data reported it>>
    lost         \* requests the RIL never answered

avars == <<made, reported, lost>>

Resolved == {p[1] : p \in reported} \cup lost
Pending == made \ Resolved

Init == made = {} /\ reported = {} /\ lost = {}

\* The application makes a request.
Request ==
    /\ \E i \in Ids \ made : made' = made \cup {i}
    /\ UNCHANGED <<reported, lost>>

\* A pending request is reported with its own command.
Answer ==
    /\ \E i \in Pending : reported' = reported \cup {<<i, i>>}
    /\ UNCHANGED <<made, lost>>

\* The RIL leaves a pending request unanswered for good.
Lose ==
    /\ RilMayDrop
    /\ \E i \in Pending : lost' = lost \cup {i}
    /\ UNCHANGED <<made, reported>>

Next == Request \/ Answer \/ Lose

Spec == Init /\ [][Next]_avars /\ WF_avars(Answer)

=============================================================================
