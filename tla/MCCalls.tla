------------------------------ MODULE MCCalls ------------------------------
(***************************************************************************)
(* Three systems in which answers find their way through something shared, *)
(* each checked by itself in one run: the calls of an application over its *)
(* command socket (HcApi), the calls of the DECT daemon over its queue of  *)
(* answers (Cmbs) and the controller of that daemon (Dect).  The first     *)
(* state says which one moves; the others stay as they begin.              *)
(***************************************************************************)
EXTENDS HcApi, Cmbs, Dect

VARIABLE part

CallsInit ==
  /\ part \in {"hcapi", "cmbs", "dect"}
  /\ Init /\ CmbsInit /\ DectInit

CallsNext ==
  /\ \/ part = "hcapi" /\ Next /\ UNCHANGED <<cmbsVars, dectVars>>
     \/ part = "cmbs" /\ CmbsNext /\ UNCHANGED <<vars, dectVars>>
     \/ part = "dect" /\ DectNext /\ UNCHANGED <<vars, cmbsVars>>
  /\ UNCHANGED part

CallsSpec == CallsInit /\ [][CallsNext]_<<part, vars, cmbsVars, dectVars>> /\ WF_vars(Client)
=============================================================================
