----------------------------- MODULE ZwSession -----------------------------
(***************************************************************************)
(* An add or remove session of the Z-Wave driver (zwave_lib), in which a   *)
(* node joins or leaves the radio network.  Five threads take part:        *)
(*   task   the daemon's task thread, which opens the session and waits    *)
(*          for its completion, or runs another call of the driver;        *)
(*   msg    the daemon's message thread, which stops a session on request; *)
(*   learn  ZW_msgProcess2, which runs the learn handler on a frame;       *)
(*   proc   ZW_msgProcess, which handles a timeout and reports the nodes;  *)
(*   timer  ZW_timerInit, which notices that the minute is over.           *)
(* g_cmd_mutex is locked by the thread that opens the session and unlocked *)
(* by whichever thread ends it: a STOP request, the learn handler or the   *)
(* timeout.  The flag, the callbacks, the timer and the learn handler are  *)
(* read and written without a lock, which is why a test and the assignment *)
(* that follows it are steps of their own here.                            *)
(***************************************************************************)
EXTENDS Naturals, Sequences

CONSTANTS
  MaxCalls      \* bound: sessions and other driver calls of the task thread

ASSUME BoundsAssumption == MaxCalls \in Nat \ {0}

Kinds == {"add", "remove"}
Threads == {"task", "msg", "learn", "proc", "timer"}

VARIABLES
  at,        \* where each thread is
  kind,      \* the session the task thread opened last
  cmd,       \* g_cmd_mutex: "free", or the thread that locked it
  flag,      \* add_remove_node_flag
  callback,  \* cbFuncAddRemoveNodeSuccess and ...Fail, set and cleared together
  learner,   \* cbFuncLearnModeHandler
  timer,     \* timer_array[TIMER_ADD_DELETE_NODES]
  inbox,     \* messages for ZW_msgProcess, on one socket
  mode,      \* g_zw_controller_mode: "IDLE", or the session's
  frame,     \* what the learn thread was told last, until it has passed it on
  calls,     \* bound: sessions and other calls begun so far
  missed,    \* history: a completion was notified before the task thread waited
  silent,    \* history: a node of unknown type ended the session unreported
  raced      \* history: two ends of a session overlapped, or the wait ended by itself

daemon == <<kind, mode, calls>>
messages == <<inbox, frame>>
history == <<missed, silent>>
vars == <<at, daemon, cmd, flag, callback, learner, timer, messages, history, raced>>

None == "none"
NoFrame == [type |-> None, session |-> "add"]
Messages == {"timeout", "added", "removed"}

Stages ==
  [task  : {"idle", "lock", "ask", "register", "start_timer", "set_mode", "enter",
            "waiting", "woken", "op_lock", "op",
            "test", "clear", "halt", "unlock", "notify"},
   msg   : {"idle", "test", "clear", "halt", "unlock", "notify"},
   learn : {"idle", "cancel", "halt", "unlock"},
   proc  : {"idle", "timeout", "clear", "fail", "lock", "prepare",
            "report_added", "query", "report_removed", "notify"},
   timer : {"idle", "fire"}]

TypeOK ==
  /\ at \in Stages
  /\ kind \in Kinds
  /\ cmd \in {"free", "task", "proc"}
  /\ flag \in Kinds \cup {None} /\ callback \in Kinds \cup {None}
  /\ learner \in Kinds \cup {None}
  /\ timer \in {"off", "armed", "deaf"}
  /\ inbox \in Seq(Messages) /\ Len(inbox) <= 2 * calls
  /\ mode \in Kinds \cup {"IDLE"}
  /\ frame \in [type : {None, "known", "unknown"}, session : Kinds]
  /\ calls \in 0 .. MaxCalls
  /\ missed \in BOOLEAN /\ silent \in BOOLEAN /\ raced \in BOOLEAN

Init ==
  /\ at = [t \in Threads |-> "idle"]
  /\ kind = "add"
  /\ cmd = "free" /\ flag = None /\ callback = None /\ learner = None
  /\ timer = "off" /\ inbox = << >> /\ mode = "IDLE"
  /\ frame = NoFrame
  /\ calls = 0 /\ missed = FALSE /\ silent = FALSE /\ raced = FALSE

Go(t, from, to) == at[t] = from /\ at' = [at EXCEPT ![t] = to]

\* ZWapi_NotifyAddRemoveCompleted: a broadcast nobody waits for is lost.
Notify(t, from) ==
  /\ at[t] = from
  /\ at' = [at EXCEPT !.task = IF @ = "waiting" THEN "woken" ELSE @, ![t] = "idle"]
  /\ missed' = (missed \/ at.task \in {"register", "start_timer", "set_mode", "enter"})

-----------------------------------------------------------------------------
(* The task thread: ZWapi_AddNodeToNetwork, ZWapi_RemoveNodeFromNetwork.   *)

BeginSession(k) ==
  /\ calls < MaxCalls
  /\ Go("task", "idle", "lock")
  /\ kind' = k /\ calls' = calls + 1
  /\ missed' = FALSE /\ silent' = FALSE
  /\ UNCHANGED <<cmd, flag, callback, learner, timer, mode, messages>>

\* With the mutex, the controller is stopped, which clears the learn handler ...
LockCmd ==
  /\ Go("task", "lock", "ask")
  /\ cmd = "free" /\ cmd' = "task"
  /\ learner' = None
  /\ UNCHANGED <<flag, callback, timer, daemon, messages, history>>

\* Mutant of Ask: a failure returns with the mutex locked.
AskKeepingLock ==
  /\ learner' = kind
  /\ Go("task", "ask", "register") \/ Go("task", "ask", "test")
  /\ UNCHANGED <<cmd, flag, callback, timer, daemon, messages, history>>

\* ... then told to learn, with the handler in place whether or not it
\* acknowledges.  On a failure the daemon calls the stop function and starts over.
Ask ==
  /\ learner' = kind
  /\ \/ Go("task", "ask", "register") /\ UNCHANGED cmd
     \/ Go("task", "ask", "test") /\ cmd' = "free"
  /\ UNCHANGED <<flag, callback, timer, daemon, messages, history>>

Register ==
  /\ Go("task", "register", "start_timer")
  /\ callback' = kind /\ flag' = kind
  /\ UNCHANGED <<cmd, learner, timer, daemon, messages, history>>

\* A timeout on the very microsecond of a full second reads as no timeout: the
\* timer never goes off.
StartTimer ==
  /\ Go("task", "start_timer", "set_mode")
  /\ timer' \in {"armed", "deaf"}
  /\ UNCHANGED <<cmd, flag, callback, learner, daemon, messages, history>>

\* process_task, once the driver returned.
SetMode ==
  /\ Go("task", "set_mode", "enter")
  /\ mode' = kind
  /\ UNCHANGED <<kind, cmd, flag, callback, learner, timer, calls, messages, history>>

\* ZWapi_WaitAddRemoveCompleted: there is no predicate to test before the wait,
\* nor after it.
EnterWait ==
  /\ Go("task", "enter", "waiting")
  /\ UNCHANGED <<cmd, flag, callback, learner, timer, daemon, messages, history>>

WakeSpuriously ==
  /\ Go("task", "waiting", "woken")
  /\ UNCHANGED <<cmd, flag, callback, learner, timer, daemon, messages, history>>

LeaveSession ==
  /\ Go("task", "woken", "idle")
  /\ mode' = "IDLE"
  /\ UNCHANGED <<kind, cmd, flag, callback, learner, timer, calls, messages, history>>

\* Any other call of the driver by the task thread, under g_cmd_mutex.
BeginOp ==
  /\ calls < MaxCalls /\ calls' = calls + 1
  /\ Go("task", "idle", "op_lock")
  /\ UNCHANGED <<kind, mode, cmd, flag, callback, learner, timer, messages, history>>

LockOp ==
  /\ Go("task", "op_lock", "op")
  /\ cmd = "free" /\ cmd' = "task"
  /\ UNCHANGED <<flag, callback, learner, timer, daemon, messages, history>>

EndOp ==
  /\ Go("task", "op", "idle")
  /\ cmd' = "free"
  /\ UNCHANGED <<flag, callback, learner, timer, daemon, messages, history>>

-----------------------------------------------------------------------------
(* ZWapi_StopAddNodeToNetwork, ZWapi_StopRemoveNodeFromNetwork: by the     *)
(* message thread on a STOP request, by the task thread after a failed Ask.*)

StopRequest ==
  /\ mode # "IDLE"
  /\ Go("msg", "idle", "test")
  /\ UNCHANGED <<cmd, flag, callback, learner, timer, daemon, messages, history>>

\* Without a session there is nothing to do, which counts as success.
TestFlag(t) ==
  /\ IF flag = None THEN Go(t, "test", "idle") ELSE Go(t, "test", "clear")
  /\ UNCHANGED <<cmd, flag, callback, learner, timer, daemon, messages, history>>

ClearFlag(t) ==
  /\ Go(t, "clear", "halt")
  /\ flag' = None /\ timer' = "off" /\ callback' = None
  /\ UNCHANGED <<cmd, learner, daemon, messages, history>>

HaltLearning(t) ==
  /\ Go(t, "halt", "unlock")
  /\ learner' = None
  /\ UNCHANGED <<cmd, flag, callback, timer, daemon, messages, history>>

UnlockCmd(t) ==
  /\ Go(t, "unlock", "notify")
  /\ cmd' = "free"
  /\ UNCHANGED <<flag, callback, learner, timer, daemon, messages, history>>

NotifyStopped(t) ==
  /\ Notify(t, "notify")
  /\ UNCHANGED <<cmd, flag, callback, learner, timer, silent, daemon, messages>>

Stop(t) ==
  TestFlag(t) \/ ClearFlag(t) \/ HaltLearning(t) \/ UnlockCmd(t) \/ NotifyStopped(t)

-----------------------------------------------------------------------------
(* ZW_msgProcess2: AddNodeLearnHandler and RemoveNodeLearnHandler.         *)

\* A frame that ends the learning, with a node of a type the driver knows
\* or not.  Frames that come without a handler are dropped.
LearnDone(type) ==
  /\ learner # None
  /\ Go("learn", "idle", "cancel")
  /\ flag' = None
  /\ frame' = [type |-> type, session |-> learner]
  /\ UNCHANGED <<cmd, callback, learner, timer, inbox, daemon, history>>

\* Mutant of LearnFailed: the timer that would end the session is cancelled.
LearnFailedForGood ==
  /\ learner # None /\ at.learn = "idle"
  /\ learner' = None /\ timer' = "off"
  /\ UNCHANGED <<at, cmd, flag, callback, daemon, messages, history>>

\* A frame that says that the learning failed only stops the controller: the
\* session stays open until its timeout.
LearnFailed ==
  /\ learner # None /\ at.learn = "idle"
  /\ learner' = None
  /\ UNCHANGED <<at, cmd, flag, callback, timer, daemon, messages, history>>

\* Mutant of LearnCancel: the timer of the session goes on.
LearnCancelNothing ==
  /\ Go("learn", "cancel", "halt")
  /\ UNCHANGED <<cmd, flag, callback, timer, learner, daemon, messages, history>>

LearnCancel ==
  /\ Go("learn", "cancel", "halt")
  /\ timer' = "off"
  /\ UNCHANGED <<cmd, flag, callback, learner, daemon, messages, history>>

\* Mutant of LearnHalt: a frame of an unknown session is taken for an addition.
LearnHaltAsAdded ==
  /\ Go("learn", "halt", "unlock")
  /\ learner' = None /\ frame' = NoFrame
  /\ inbox' = Append(inbox, "added")
  /\ UNCHANGED <<cmd, flag, callback, timer, history, daemon>>

\* A node of unknown type is not passed on, and nobody notifies its session.
LearnHalt ==
  /\ Go("learn", "halt", "unlock")
  /\ learner' = None /\ frame' = NoFrame
  /\ IF frame.type = "known"
     THEN /\ inbox' = Append(inbox, IF frame.session = "add" THEN "added" ELSE "removed")
          /\ UNCHANGED silent
     ELSE silent' = TRUE /\ UNCHANGED inbox
  /\ UNCHANGED <<cmd, flag, callback, timer, missed, daemon>>

LearnUnlock ==
  /\ Go("learn", "unlock", "idle")
  /\ cmd' = "free"
  /\ UNCHANGED <<flag, callback, learner, timer, daemon, messages, history>>

LearnThread == LearnCancel \/ LearnHalt \/ LearnUnlock

-----------------------------------------------------------------------------
(* ZW_timerInit: it looks at the timers and clears them without the timer  *)
(* mutex, so a timer may be cancelled, or started anew, in between.        *)

TimerExpires ==
  /\ timer = "armed"
  /\ Go("timer", "idle", "fire")
  /\ UNCHANGED <<cmd, flag, callback, learner, timer, daemon, messages, history>>

TimerFires ==
  /\ Go("timer", "fire", "idle")
  /\ timer' = "off"
  /\ inbox' = Append(inbox, "timeout")
  /\ UNCHANGED <<cmd, flag, callback, learner, frame, daemon, history>>

-----------------------------------------------------------------------------
(* ZW_msgProcess *)

TakeMessage ==
  /\ inbox # << >>
  /\ Go("proc", "idle", CASE Head(inbox) = "timeout" -> "timeout"
                          [] Head(inbox) = "added"   -> "lock"
                          [] OTHER                   -> "report_removed")
  /\ inbox' = Tail(inbox)
  /\ UNCHANGED <<cmd, flag, callback, learner, timer, frame, daemon, history>>

\* The minute is over: stop the controller if the flag says so ...
TimeoutHalt ==
  /\ Go("proc", "timeout", "clear")
  /\ learner' = IF flag = None THEN learner ELSE None
  /\ UNCHANGED <<cmd, flag, callback, timer, daemon, messages, history>>

\* ... and unlock, whatever the flag said.
TimeoutUnlock ==
  /\ Go("proc", "clear", "fail")
  /\ flag' = None /\ cmd' = "free"
  /\ UNCHANGED <<callback, learner, timer, daemon, messages, history>>

ReportFailure ==
  /\ Go("proc", "fail", "notify")
  /\ UNCHANGED <<cmd, flag, callback, learner, timer, daemon, messages, history>>

\* GenVirtualSubNode and ConfigNodesDefaultValue question the new node.
LockNode ==
  /\ Go("proc", "lock", "prepare")
  /\ cmd = "free" /\ cmd' = "proc"
  /\ UNCHANGED <<flag, callback, learner, timer, daemon, messages, history>>

PrepareNode ==
  /\ cmd' = "free"
  /\ Go("proc", "prepare", "report_added") \/ Go("proc", "prepare", "fail")
  /\ UNCHANGED <<flag, callback, learner, timer, daemon, messages, history>>

\* AddNodesReport through the callback, which asks nodes of most types for their
\* state first; the questions of one report are taken together.
QueryNode ==
  /\ Go("proc", "report_added", "query")
  /\ callback = "add" /\ cmd = "free" /\ cmd' = "proc"
  /\ UNCHANGED <<flag, callback, learner, timer, daemon, messages, history>>

EndQuery ==
  /\ Go("proc", "query", "notify")
  /\ cmd' = "free"
  /\ UNCHANGED <<flag, callback, learner, timer, daemon, messages, history>>

\* A node that needs no question, a removed node, or no callback to report to.
ReportNode ==
  /\ Go("proc", "report_added", "notify") \/ Go("proc", "report_removed", "notify")
  /\ UNCHANGED <<cmd, flag, callback, learner, timer, daemon, messages, history>>

NotifyDone ==
  /\ Notify("proc", "notify")
  /\ UNCHANGED <<cmd, flag, callback, learner, timer, silent, daemon, messages>>

ProcThread ==
  \/ TakeMessage \/ TimeoutHalt \/ TimeoutUnlock \/ ReportFailure
  \/ LockNode \/ PrepareNode \/ QueryNode \/ EndQuery \/ ReportNode \/ NotifyDone

-----------------------------------------------------------------------------
TaskThread ==
  \/ LockCmd \/ Ask \/ Register \/ StartTimer \/ SetMode \/ EnterWait \/ LeaveSession
  \/ LockOp \/ EndOp
  \/ Stop("task")

TimerThread == TimerExpires \/ TimerFires

Environment ==
  \/ \E k \in Kinds : BeginSession(k)
  \/ BeginOp
  \/ StopRequest
  \/ \E type \in {"known", "unknown"} : LearnDone(type)
  \/ LearnFailed

Step == TaskThread \/ Stop("msg") \/ LearnThread \/ TimerThread \/ ProcThread \/ Environment

\* The ends of a session: each clears the flag and unlocks.
Stopping(t) == at[t] \in {"clear", "halt", "unlock"}
LearnEnding == at.learn # "idle"
TimingOut ==
  \/ at.timer = "fire"
  \/ \E i \in 1 .. Len(inbox) : inbox[i] = "timeout"
  \/ at.proc \in {"timeout", "clear"}

\* Two of them at once, or a stop or a learn frame that finds no session open.
Open == at.task \in {"set_mode", "enter", "waiting"}
Race ==
  \/ (Stopping("msg") \/ Stopping("task")) /\ (LearnEnding \/ TimingOut)
  \/ Stopping("msg") /\ Stopping("task")
  \/ LearnEnding /\ TimingOut
  \/ ~ Open /\ (Stopping("msg") \/ at.learn = "cancel")

Next ==
  \/ Step /\ raced' = (raced \/ Race')
  \/ WakeSpuriously /\ raced' = TRUE

Spec == Init /\ [][Next]_vars

\* The threads run and the timer counts.  Nothing makes a node answer, an
\* application ask, or the wait end by itself.
FairSpec ==
  /\ Spec
  /\ WF_vars(TaskThread /\ raced' = (raced \/ Race'))
  /\ WF_vars(Stop("msg") /\ raced' = (raced \/ Race'))
  /\ WF_vars(LearnThread /\ raced' = (raced \/ Race'))
  /\ WF_vars(TimerThread /\ raced' = (raced \/ Race'))
  /\ WF_vars(ProcThread /\ raced' = (raced \/ Race'))

-----------------------------------------------------------------------------
\* The mutex of a session is never left locked for good: once the session is
\* open, either the flag is up, so that a STOP request or the timeout will
\* unlock it, or a thread that cleared the flag is on its way to do so.  This
\* holds however the ends of sessions overlap.
LockHasReleaser ==
  cmd = "task" /\ at.task \notin {"ask", "register", "op"} =>
    \/ flag # None
    \/ Stopping("msg") \/ Stopping("task") \/ LearnEnding

\* As long as the ends of sessions do not overlap, unlocking from another
\* thread never takes g_cmd_mutex from a driver call that holds it.
HolderKeepsLock ==
  ~ raced =>
    /\ at.task \in {"ask", "register", "start_timer", "op"} => cmd = "task"
    /\ at.proc \in {"prepare", "query"} => cmd = "proc"

\* As long as they do not overlap, a node is reported by the callback of the
\* session it joined or left in, while the daemon is still in that session.
ReportInSession ==
  ~ raced /\ at.proc \in {"report_added", "query", "report_removed"} =>
    /\ Open
    /\ callback = kind
    /\ kind = (IF at.proc = "report_removed" THEN "remove" ELSE "add")

\* The task thread does not wait for ever, unless the timer was started deaf, the
\* completion was notified before it waited, the node's type was unknown, or two
\* ends overlapped.
SessionEnds ==
  (at.task = "waiting") ~>
    (at.task # "waiting" \/ timer = "deaf" \/ missed \/ silent \/ raced)

\* HCAPI/hcapi.h:1161 of the call that ends in a STOP request: "Stop adding a
\* device to network. \return 0-success, >0-failure."
StopEndsSession == (at.msg = "notify") ~> (mode = "IDLE")
=============================================================================
