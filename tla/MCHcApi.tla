------------------------------ MODULE MCHcApi -------------------------------
(* The calls, their events and their results are fixed by the code; only the *)
(* number of calls is left to the configurations.                            *)
EXTENDS HcApi
=============================================================================
