-------------------------- MODULE MCSsCommandTable --------------------------
(***************************************************************************)
(* Model-checking instance of SsCommandTable: requesters as model values. *)
(***************************************************************************)
EXTENDS SsCommandTable

CONSTANTS r1, r2

MC_OneRequester == {r1}
MC_TwoRequesters == {r1, r2}
=============================================================================
