----------------------------- MODULE MCSerialApi -----------------------------
(* Small instances of SerialApi; the constants are given by the configurations. *)
EXTENDS SerialApi
=============================================================================
