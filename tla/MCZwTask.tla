------------------------------ MODULE MCZwTask ------------------------------
(* Small instances of ZwTask: requests of each kind that is processed in a  *)
(* way of its own; the events and the periodic checks concern every device. *)
EXTENDS ZwTask

CONSTANT d1

MCEngineRequests == {"add", "set", "na_delete", "cfg_set"} \X {d1}
MCDuplicateRequests == {"set", "get"} \X {d1}
=============================================================================
