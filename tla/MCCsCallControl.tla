-------------------------- MODULE MCCsCallControl --------------------------
(***************************************************************************)
(* Model-checking instance of CsCallControl: two call indices (enough for *)
(* an active call beside a held or waiting one, and for index reuse), and *)
(* the bounds of the queues named in the configurations.                  *)
(***************************************************************************)
EXTENDS CsCallControl

MC_Idx == {1, 2}

=============================================================================
