------------------------------- MODULE HcApi -------------------------------
(***************************************************************************)
(* The blocking calls of HCAPI (hcapi.c) as one application thread makes   *)
(* them on its COMMAND socket: a call throws away what it finds unread,    *)
(* sends its request, takes the first message that comes, whatever it      *)
(* answers, and translates that message's event to its result.             *)
(* hcapi_dev_result_handle takes a message without having sent anything,   *)
(* to fetch the completion of a deletion.                                  *)
(* The dispatcher and the daemons are reduced to the answers they still    *)
(* owe each request, which they give in order, any time later or never.    *)
(* The guard of send_command and receive_reply on iadding is left out:     *)
(* nothing sets iadding (hcapi.c:471 and 599 are commented out).           *)
(***************************************************************************)
EXTENDS Naturals, Sequences

CONSTANTS
  MaxCalls      \* bound: calls the application makes

ASSUME BoundsAssumption == MaxCalls \in Nat \ {0}

\* "set" stands for the calls with one answer of their own (set, get, detect,
\* the configurations and associations), "default" for the calls that do not
\* look at the answer (hcapi_host_module_default, ..._restart).
Requests == {"set", "add", "delete", "stop", "default"}
Kinds == Requests \cup {"handle"}
Ids == 1 .. MaxCalls

Succeeds ==
  [set     |-> {"set_success"},
   add     |-> {"added_success", "add_complete"},
   delete  |-> {"deleted_success", "delete_complete"},
   stop    |-> {"stop_success"},
   default |-> {"default_success"},
   handle  |-> {"added_success", "add_complete", "deleted_success", "delete_complete"}]

Fails ==
  [set     |-> {"set_failure"},   add    |-> {"added_failure"},
   delete  |-> {"deleted_failure"}, stop |-> {"stop_failure"},
   default |-> {},                handle |-> {"added_failure"}]

\* What a daemon may send to the application in answer to a request.  A
\* deletion is answered when it begins and when it is over; the default
\* request goes to every daemon.  Without the daemon the dispatcher answers.
NotSupported == <<"not_supported">>
Answers ==
  [set     |-> {<<"set_success">>, <<"set_failure">>, NotSupported},
   add     |-> {<<"add_mode">>, <<"delete_mode">>, NotSupported},
   delete  |-> {<<"delete_mode", "delete_complete">>, <<"delete_mode">>, <<"add_mode">>,
                NotSupported},
   stop    |-> {<<"stop_success">>, <<"stop_failure">>, NotSupported},
   default |-> {<<"default_success">>, <<"default_success", "default_success">>}]

Modes == {"add_mode", "delete_mode"}
Events ==
  {"set_success", "set_failure", "stop_success", "stop_failure", "default_success",
   "added_success", "added_failure", "add_complete",
   "deleted_success", "deleted_failure", "delete_complete", "not_supported"} \cup Modes
Results ==
  {"success", "operation_failure", "adding_mode", "deleting_mode", "not_supported",
   "unexpected_event", "timeout", "recv_failure", "send_failure"}

VARIABLES
  at,         \* where the thread is
  call,       \* the call it is in
  calls,      \* bound: calls begun so far
  due,        \* for each call, the answers still to come
  inbox,      \* unread messages on g_command_handle: the call answered, the event
  connected,  \* the dispatcher has the other end open
  last,       \* history: the call that returned last and what it took
  awaiting    \* history: the deletion whose completion the application may fetch

vars == <<at, call, calls, due, inbox, connected, last, awaiting>>

\* clean: history, nothing was due when the call began.
Call == [id : 0 .. MaxCalls, kind : Kinds, clean : BOOLEAN]
Message == [of : Ids, event : Events]
NoCall == [id |-> 0, kind |-> "handle", clean |-> FALSE]

TypeOK ==
  /\ at \in {"idle", "drain", "send", "wait"}
  /\ call \in Call /\ calls \in 0 .. MaxCalls
  /\ due \in [Ids -> Seq(Events)] /\ \A i \in Ids : Len(due[i]) <= 2
  /\ inbox \in Seq(Message)
  /\ connected \in BOOLEAN
  /\ last \in [call : Call, result : Results, of : 0 .. MaxCalls]
  /\ awaiting \in 0 .. MaxCalls

Init ==
  /\ at = "idle" /\ call = NoCall /\ calls = 0
  /\ due = [i \in Ids |-> << >>] /\ inbox = << >>
  /\ connected = TRUE
  /\ last = [call |-> NoCall, result |-> "timeout", of |-> 0]
  /\ awaiting = 0

\* The event to the result; the default request takes any answer for success.
Result(kind, event) ==
  CASE kind = "default" \/ event \in Succeeds[kind] -> "success"
    [] event \in Fails[kind] -> "operation_failure"
    [] event = "add_mode" /\ kind # "stop" -> "adding_mode"
    [] event = "delete_mode" /\ kind # "stop" -> "deleting_mode"
    [] event = "not_supported" -> "not_supported"
    [] OTHER -> "unexpected_event"

-----------------------------------------------------------------------------
\* Mutant of Begin: waiting for a result throws away what is unread, too.
BeginDraining(k) ==
  /\ at = "idle" /\ calls < MaxCalls
  /\ calls' = calls + 1
  /\ call' = [id |-> calls + 1, kind |-> k, clean |-> \A i \in Ids : due[i] = << >>]
  /\ at' = IF k = "handle" THEN "wait" ELSE "drain"
  /\ inbox' = << >>
  /\ awaiting' = IF k = "handle" THEN awaiting ELSE 0
  /\ UNCHANGED <<due, connected, last>>

Begin(k) ==
  /\ at = "idle" /\ calls < MaxCalls
  /\ calls' = calls + 1
  /\ call' = [id |-> calls + 1, kind |-> k, clean |-> \A i \in Ids : due[i] = << >>]
  /\ at' = IF k = "handle" THEN "wait" ELSE "drain"
  /\ awaiting' = IF k = "handle" THEN awaiting ELSE 0
  /\ UNCHANGED <<due, inbox, connected, last>>

\* Mutant of Drain: only one message is thrown away.
DrainOne ==
  /\ at = "drain" /\ inbox # << >>
  /\ inbox' = Tail(inbox) /\ at' = "send"
  /\ UNCHANGED <<call, calls, due, connected, last, awaiting>>

\* send_command throws away every message ...
Drain ==
  /\ at = "drain" /\ inbox # << >>
  /\ inbox' = Tail(inbox)
  /\ UNCHANGED <<at, call, calls, due, connected, last, awaiting>>

\* ... until there was none for 100 ms ...
Silence ==
  /\ at = "drain" /\ inbox = << >> /\ connected
  /\ at' = "send"
  /\ UNCHANGED <<call, calls, due, inbox, connected, last, awaiting>>

Send ==
  /\ at = "send" /\ connected
  /\ at' = "wait"
  /\ \E answers \in Answers[call.kind] : due' = [due EXCEPT ![call.id] = answers]
  /\ UNCHANGED <<call, calls, inbox, connected, last, awaiting>>

Return(result, of) ==
  /\ at' = "idle"
  /\ last' = [call |-> call, result |-> result, of |-> of]
  /\ UNCHANGED <<call, calls, due, connected>>

\* A completion is to be fetched after a deletion that has begun.
Fetchable(m) ==
  IF call.kind = "delete" /\ m.of = call.id /\ due[m.of] # << >> THEN call.id
  ELSE IF m.of = awaiting THEN 0 ELSE awaiting

\* receive_reply: there is nothing in it that would tell whose answer this is.
Receive ==
  /\ at = "wait" /\ inbox # << >>
  /\ inbox' = Tail(inbox)
  /\ Return(Result(call.kind, Head(inbox).event), Head(inbox).of)
  /\ awaiting' = Fetchable(Head(inbox))

\* Mutant of TimeOut: the wait is given no time limit.
TimeOutNever == FALSE /\ UNCHANGED vars

TimeOut ==
  /\ at = "wait" /\ inbox = << >> /\ connected
  /\ Return("timeout", 0)
  /\ UNCHANGED <<inbox, awaiting>>

\* Without a dispatcher a read finds the end of the stream; nothing reconnects.
Fail ==
  /\ ~ connected
  /\ \/ at \in {"drain", "wait"} /\ inbox = << >> /\ Return("recv_failure", 0)
     \/ at = "send" /\ Return("send_failure", 0)
  /\ UNCHANGED <<inbox, awaiting>>

Client == Drain \/ Silence \/ Send \/ Receive \/ TimeOut \/ Fail

-----------------------------------------------------------------------------
Deliver(i) ==
  /\ connected /\ due[i] # << >>
  /\ inbox' = Append(inbox, [of |-> i, event |-> Head(due[i])])
  /\ due' = [due EXCEPT ![i] = Tail(@)]
  /\ UNCHANGED <<at, call, calls, connected, last, awaiting>>

Disconnect ==
  /\ connected /\ connected' = FALSE
  /\ UNCHANGED <<at, call, calls, due, inbox, last, awaiting>>

Next ==
  \/ \E k \in Kinds : Begin(k)
  \/ Client
  \/ \E i \in Ids : Deliver(i)
  \/ Disconnect

Spec == Init /\ [][Next]_vars

\* The thread runs and its waits are bounded in time; the daemons owe nothing.
FairSpec == Spec /\ WF_vars(Client)

-----------------------------------------------------------------------------
\* A call that begins when every earlier request has got all its answers takes
\* its own answer or none, although those answers may lie unread in its socket:
\* send_command has thrown them away by the time it sends.
OwnAnswerWhenClean ==
  last.call.clean /\ last.call.kind # "handle" /\ last.of # 0 => last.of = last.call.id

\* After a deletion has begun, its completion is not lost until the application
\* sends another request: it is still due or lies unread.
CompletionKept ==
  awaiting # 0 =>
    \/ due[awaiting] # << >>
    \/ \E n \in 1 .. Len(inbox) : inbox[n].of = awaiting

\* A call returns, also when the daemon never answers or the dispatcher is gone.
CallReturns == (at # "idle") ~> (at = "idle")

\* HCAPI/hcapi.h:1213 of hcapi_dev_set: "Set value of the specified device.
\* \return 0-success, >0-failure."  The success is that of the call's own request.
SuccessIsOwn ==
  last.result = "success" /\ last.call.kind = "set" => last.of = last.call.id
=============================================================================
