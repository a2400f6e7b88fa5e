------------------------------- MODULE ZwTask -------------------------------
(***************************************************************************)
(* The task engine of the Z-Wave daemon (zwave_daemon/zw_task.c and the    *)
(* request handling of zw_msg.c).  Three threads add tasks: the message    *)
(* thread for the requests of applications, the detect thread for the      *)
(* periodic device checks, the driver's thread for device events.  One     *)
(* thread, the task thread, takes them from the priority queue and runs    *)
(* them against the radio.  They share the queue, the controller mode and  *)
(* the copy of the running task, the last two without any lock; task_mutex *)
(* is taken by the task thread alone, so task_add signals without it.      *)
(*                                                                         *)
(* A call of the driver (ZWapi_...) is one step with a nondeterministic    *)
(* result; the add and remove sessions themselves are in ZwSession.        *)
(***************************************************************************)
EXTENDS Naturals, Sequences, FiniteSets

CONSTANTS
  Apps,          \* application ids
  NoApp,         \* appid 0: the daemon's own tasks
  NoTask,        \* no task: a unit that is not in use
  Devices,       \* device ids
  AppRequests,   \* the requests the applications of an instance send: type and device
  MaxFail,       \* MAX_GET_DEV_FAIL_NUM
  MaxRetry,      \* MAX_GET_DEV_RETRY_NUM
  MaxStart,      \* MAX_ADD_DELETE_DEV_FAIL_NUM
  MaxQueue       \* bound: tasks queued and being added

\* The requests that are one driver call and one answer.
Simple == {"cfg_set", "cfg_get", "default", "assoc_set", "assoc_remove",
           "module_upgrade"}
Sessions == {"add", "delete"}
Requests == Simple \cup Sessions
              \cup {"set", "get", "detect", "na_delete", "restart", "unsupported"}

ASSUME AppsAssumption == NoApp \notin Apps
ASSUME RequestsAssumption == AppRequests \subseteq Requests \X Devices
ASSUME LimitsAssumption ==
  MaxFail \in Nat \ {0} /\ MaxRetry \in Nat \ {0} /\ MaxStart \in Nat \ {0}
ASSUME BoundsAssumption == MaxQueue \in Nat

\* ZW_TASK_PRIORITY_E
PROTOCOL == 1
UI       == 2
DETECT   == 3

Task == [type : Requests, app : Apps \cup {NoApp}, priority : {PROTOCOL, UI, DETECT},
         dev : Devices]
ASSUME NoTaskAssumption == NoTask \notin Task

\* A unit taken from the queue: its task, and whether its next link is NULL,
\* which it is if nothing was queued behind it.
Unit == [task : Task \cup {NoTask}, alone : BOOLEAN]
NoUnit == [task |-> NoTask, alone |-> TRUE]

Modes == {"IDLE", "ADDING", "DELETING", "RUNNING"}     \* ZW_CONTROLLER_MODE_E
Adders == {"msg", "detect", "event"}                   \* the threads that call task_add

VARIABLES
  queue,     \* the task queue, as a sequence (see ZwQueue)
  mode,      \* g_zw_controller_mode
  running,   \* g_running_task, a copy of the unit taken last
  fwLocked,  \* g_fw_upgrade_flag
  adder,     \* per adding thread: where it is in task_add, and with what
  scanning,  \* the detect thread is past its test of mode and lock
  pc,        \* where the task thread is
  cur,       \* its local "task": the unit it took from the queue
  fails,     \* fail_count
  tries,     \* retry_count
  missed,    \* history: a signal found the task thread awake but past its test
  answers,   \* history: answers the running request's application was sent
  muted      \* history: one of its answers was dropped for the upgrade lock

taskVars == <<pc, cur, fails, tries, answers, muted>>
vars == <<queue, mode, running, fwLocked, adder, scanning, missed, taskVars>>

Q == INSTANCE TaskQueue WITH tasks <- queue

AddStages == {"idle", "mode", "running", "found", "insert", "signal"}
InTask == {"begin", "started", "session", "ended", "set", "readback", "get", "call",
           "probe", "poll", "group", "na_probe", "na_remove", "leave"}
MaxAnswers == 3      \* bound: answers counted

TypeOK ==
  /\ queue \in Seq(Task)
  /\ mode \in Modes
  /\ running \in Unit
  /\ fwLocked \in BOOLEAN
  /\ adder \in [Adders -> [stage : AddStages, task : Task \cup {NoTask}]]
  /\ \A a \in Adders : adder[a].stage # "idle" => adder[a].task \in Task
  /\ scanning \in BOOLEAN
  /\ pc \in {"check", "sleep", "wait", "pop", "copy", "start", "stopped"} \cup InTask
  /\ cur \in Unit
  /\ pc \in {"copy", "start"} \cup InTask <=> cur.task \in Task
  /\ fails \in Nat /\ tries \in Nat
  /\ missed \in BOOLEAN
  /\ answers \in 0 .. MaxAnswers /\ muted \in BOOLEAN

Init ==
  /\ queue = << >>
  /\ mode = "IDLE"
  /\ running = NoUnit
  /\ fwLocked = FALSE
  /\ adder = [a \in Adders |-> [stage |-> "idle", task |-> NoTask]]
  /\ scanning = FALSE
  /\ pc = "check" /\ cur = NoUnit /\ fails = 0 /\ tries = 0
  /\ missed = FALSE
  /\ answers = 0 /\ muted = FALSE

-----------------------------------------------------------------------------
(* task_add, run by one of the adding threads. *)

\* bound: what is queued or about to be
Room == Len(queue) + Cardinality({a \in Adders : adder[a].stage # "idle"}) < MaxQueue

GoTo(a, stage) ==
  adder' = [adder EXCEPT ![a] = [stage |-> stage, task |-> adder[a].task]]
Drop(a) == adder' = [adder EXCEPT ![a] = [stage |-> "idle", task |-> NoTask]]

CallTaskAdd(a, type, app, priority, dev) ==
  /\ adder[a].stage = "idle"
  /\ Room
  /\ adder' = [adder EXCEPT ![a] =
       [stage |-> "mode",
        task |-> [type |-> type, app |-> app, priority |-> priority, dev |-> dev]]]

ReadMode(a) ==
  /\ adder[a].stage = "mode"
  /\ GoTo(a, IF mode # "IDLE" THEN "running" ELSE "found")
  /\ UNCHANGED <<queue, mode, running, fwLocked, scanning, missed, taskVars>>

\* memcmp with g_running_task, links included: a new unit has none.  While
\* the task thread is copying a unit there, either result is possible.
MatchesRunning(a) ==
  IF pc = "copy" THEN BOOLEAN
  ELSE {running.task = adder[a].task /\ running.alone}

CompareRunning(a) ==
  /\ adder[a].stage = "running"
  /\ \E same \in MatchesRunning(a) : IF same THEN Drop(a) ELSE GoTo(a, "found")
  /\ UNCHANGED <<queue, mode, running, fwLocked, scanning, missed, taskVars>>

\* queue_found recognises an equal task only when it is alone (see ZwQueue).
LookInQueue(a) ==
  /\ adder[a].stage = "found"
  /\ IF queue = <<adder[a].task>> THEN Drop(a) ELSE GoTo(a, "insert")
  /\ UNCHANGED <<queue, mode, running, fwLocked, scanning, missed, taskVars>>

\* Mutant of InsertTask: queue_push, which appends.
PushTask(a) ==
  /\ adder[a].stage = "insert"
  /\ queue' = Append(queue, adder[a].task)
  /\ GoTo(a, "signal")
  /\ UNCHANGED <<mode, running, fwLocked, scanning, missed, taskVars>>

\* queue_insert_priority
InsertTask(a) ==
  /\ adder[a].stage = "insert"
  /\ \E p \in 1 .. Len(queue) + 1 :
       /\ Q!PlaceFor(queue, adder[a].task, p)
       /\ queue' = Q!PutAt(queue, p, adder[a].task)
  /\ GoTo(a, "signal")
  /\ UNCHANGED <<mode, running, fwLocked, scanning, missed, taskVars>>

\* Mutant of Signal: pthread_cond_signal is missing.
SignalNobody(a) ==
  /\ adder[a].stage = "signal"
  /\ Drop(a)
  /\ UNCHANGED <<queue, mode, running, fwLocked, scanning, missed, taskVars>>

\* pthread_cond_signal wakes the task thread if it waits, and is lost otherwise.
Signal(a) ==
  /\ adder[a].stage = "signal"
  /\ Drop(a)
  /\ pc' = IF pc = "wait" THEN "check" ELSE pc
  /\ missed' = (IF pc = "wait" THEN FALSE ELSE missed \/ pc = "sleep")
  /\ UNCHANGED <<queue, mode, running, fwLocked, scanning, cur, fails, tries, answers, muted>>

TaskAdd(a) ==
  \/ ReadMode(a) \/ CompareRunning(a) \/ LookInQueue(a) \/ InsertTask(a) \/ Signal(a)

-----------------------------------------------------------------------------
(* The threads that add tasks. *)

\* process_msg for a request that becomes a task.  While the upgrade lock is
\* set only the module upgrade is accepted; while a session runs, another
\* one is answered with the mode and not queued.
Request(app, type, dev) ==
  /\ fwLocked => type = "module_upgrade"
  /\ ~ (type \in Sessions /\ mode \in {"ADDING", "DELETING"})
  /\ CallTaskAdd("msg", type, app, UI, dev)
  /\ UNCHANGED <<queue, mode, running, fwLocked, scanning, missed, taskVars>>

\* process_msg for HC_EVNET_EXT_ARMMODE_CHANGED to disarm: silence the siren.
Disarm(dev) ==
  /\ ~ fwLocked
  /\ CallTaskAdd("msg", "set", NoApp, UI, dev)
  /\ UNCHANGED <<queue, mode, running, fwLocked, scanning, missed, taskVars>>

\* The lock is refused while a session runs; the message thread handles one
\* message at a time, so it is not in task_add now.
FwLock ==
  /\ adder["msg"].stage = "idle"
  /\ mode \notin {"ADDING", "DELETING"}
  /\ fwLocked' = TRUE
  /\ UNCHANGED <<queue, mode, running, adder, scanning, missed, taskVars>>

FwUnlock ==
  /\ adder["msg"].stage = "idle"
  /\ fwLocked' = FALSE
  /\ UNCHANGED <<queue, mode, running, adder, scanning, missed, taskVars>>

\* msg_ZWEventCB: node information or a wake-up of a known device.
DeviceEvent(dev) ==
  /\ CallTaskAdd("event", "get", NoApp, PROTOCOL, dev)
  /\ UNCHANGED <<queue, mode, running, fwLocked, scanning, missed, taskVars>>

\* detect_handle_thread: once a second, unless a task runs or the upgrade
\* lock is set, it walks through the devices ...
BeginScan ==
  /\ ~ scanning
  /\ mode = "IDLE" /\ ~ fwLocked
  /\ scanning' = TRUE
  /\ UNCHANGED <<queue, mode, running, fwLocked, adder, missed, taskVars>>

\* Mutant of DetectDue: the queue need not be empty.
DetectDueAnyway(dev) ==
  /\ scanning
  /\ CallTaskAdd("detect", "detect", NoApp, DETECT, dev)
  /\ UNCHANGED <<queue, mode, running, fwLocked, scanning, missed, taskVars>>

\* ... and adds a check for each one whose interval has passed, provided the
\* queue is empty at that moment.
DetectDue(dev) ==
  /\ scanning
  /\ queue = << >>
  /\ CallTaskAdd("detect", "detect", NoApp, DETECT, dev)
  /\ UNCHANGED <<queue, mode, running, fwLocked, scanning, missed, taskVars>>

EndScan ==
  /\ scanning /\ adder["detect"].stage = "idle"
  /\ scanning' = FALSE
  /\ UNCHANGED <<queue, mode, running, fwLocked, adder, missed, taskVars>>

-----------------------------------------------------------------------------
(* task_handle_thread: wait for a task, take it, keep a copy, run it. *)

Others == <<fwLocked, adder, scanning>>

\* Mutant of FindWork: the thread does not look before it waits.
FindNoWork ==
  /\ pc = "check"
  /\ pc' = "sleep"
  /\ UNCHANGED <<queue, mode, running, Others, missed, cur, fails, tries, answers, muted>>

\* while (queue_empty()): q_task_mutex is not held.
FindWork ==
  /\ pc = "check"
  /\ pc' = IF queue = << >> THEN "sleep" ELSE "pop"
  /\ UNCHANGED <<queue, mode, running, Others, missed, cur, fails, tries, answers, muted>>

FallAsleep ==
  /\ pc = "sleep"
  /\ pc' = "wait"
  /\ UNCHANGED <<queue, mode, running, Others, missed, cur, fails, tries, answers, muted>>

\* Mutant of WakeSpuriously: "if" instead of "while" around the wait.
WakeToPop ==
  /\ pc = "wait"
  /\ pc' = "pop" /\ missed' = FALSE
  /\ UNCHANGED <<queue, mode, running, Others, cur, fails, tries, answers, muted>>

\* pthread_cond_wait may return without a signal.
WakeSpuriously ==
  /\ pc = "wait"
  /\ pc' = "check" /\ missed' = FALSE
  /\ UNCHANGED <<queue, mode, running, Others, cur, fails, tries, answers, muted>>

\* An empty queue here would end the thread.
Pop ==
  /\ pc = "pop"
  /\ IF queue = << >>
     THEN pc' = "stopped" /\ UNCHANGED <<queue, cur>>
     ELSE /\ pc' = "copy"
          /\ cur' = [task |-> Head(queue), alone |-> Tail(queue) = << >>]
          /\ queue' = Tail(queue)
  /\ answers' = 0 /\ muted' = FALSE
  /\ UNCHANGED <<mode, running, Others, missed, fails, tries>>

Copy ==
  /\ pc = "copy"
  /\ running' = cur
  /\ pc' = "start"
  /\ UNCHANGED <<queue, mode, Others, missed, cur, fails, tries, answers, muted>>

-----------------------------------------------------------------------------
(* process_task *)

Shared == <<queue, running, Others, missed>>

\* send_msg_to_app drops the events about a device while the upgrade lock is
\* set.
DeviceEvents == {"SET_SUCCESS", "STATUS_CHANGED", "CONNECTED", "DISCONNECTED",
                 "DELETED_SUCCESS"}
Dropped(event) == fwLocked /\ event \in DeviceEvents

Answer(event) ==
  /\ muted' = (muted \/ Dropped(event))
  /\ answers' = IF cur.task.app = NoApp \/ Dropped(event) \/ answers = MaxAnswers
                THEN answers ELSE answers + 1
NoAnswer == UNCHANGED <<answers, muted>>

\* Mutant of Return: the unit is still in use after free().
ReturnKeepingUnit == pc' = "check" /\ UNCHANGED cur /\ fails' = 0 /\ tries' = 0

\* Back in the loop of the task thread, which frees the unit.
Return == pc' = "check" /\ cur' = NoUnit /\ fails' = 0 /\ tries' = 0
Continue(stage) == pc' = stage /\ UNCHANGED cur
Count(f, t) == fails' = f /\ tries' = t
Still == UNCHANGED <<fails, tries>>

OneCall == Simple \cup {"set", "get", "detect", "na_delete"}
FirstStage(type) ==
  CASE type \in Sessions  -> "begin"
    [] type \in Simple    -> "call"
    [] type = "detect"    -> "probe"
    [] type = "na_delete" -> "na_probe"
    [] OTHER              -> type

\* A task that finds the controller in a session is refused; a restart and
\* an unsupported request end here without an answer.
Start ==
  /\ pc = "start"
  /\ IF mode \in {"ADDING", "DELETING"}
     THEN /\ Return /\ UNCHANGED mode
          /\ IF cur.task.type = "detect" THEN NoAnswer ELSE Answer("MODE")
     ELSE /\ NoAnswer
          /\ mode' = IF cur.task.type \in OneCall THEN "RUNNING" ELSE mode
          /\ IF cur.task.type \in OneCall \cup Sessions
             THEN Continue(FirstStage(cur.task.type)) /\ Still
             ELSE Return
  /\ UNCHANGED Shared

\* The driver starts the session, or fails and is told to stop, up to
\* MaxStart times; a stop that fails ends the task.  A session that never
\* starts is not answered ("just let UI wait timeout").
BeginSession ==
  /\ pc = "begin"
  /\ \/ Continue("started") /\ Still
     \/ fails + 1 < MaxStart /\ Continue("begin") /\ Count(fails + 1, tries)
     \/ Return
  /\ NoAnswer
  /\ UNCHANGED <<mode, Shared>>

EnterSession ==
  /\ pc = "started"
  /\ mode' = IF cur.task.type = "add" THEN "ADDING" ELSE "DELETING"
  /\ Answer("MODE")
  /\ Continue("session") /\ Still
  /\ UNCHANGED Shared

\* ZWapi_WaitAddRemoveCompleted returns.
SessionOver ==
  /\ pc = "session"
  /\ Continue("ended") /\ Still /\ NoAnswer
  /\ UNCHANGED <<mode, Shared>>

\* ADD_COMPLETE is broadcast, DELETE_COMPLETE goes to the application.
Conclude ==
  /\ pc = "ended"
  /\ IF cur.task.type = "delete" THEN Answer("DELETE_COMPLETE") ELSE NoAnswer
  /\ Continue("leave") /\ Still
  /\ UNCHANGED <<mode, Shared>>

Finish(event) == Answer(event) /\ Continue("leave") /\ Still
Retry(stage) == fails + 1 < MaxFail /\ NoAnswer /\ Continue(stage) /\ Count(fails + 1, tries)
GaveUp == fails + 1 >= MaxFail

\* HC_EVENT_REQ_DEVICE_SET: write the value ...
SetValue ==
  /\ pc = "set"
  /\ \/ NoAnswer /\ Continue("readback") /\ Count(0, 0)
     \/ Retry("set")
     \/ GaveUp /\ Finish("SET_FAILURE")
  /\ UNCHANGED <<mode, Shared>>

\* Mutant of ReadBack: no return after the answer to a failed read.
ReadBackOn ==
  /\ pc = "readback"
  /\ \/ Finish("SET_SUCCESS")
     \/ tries + 1 < MaxRetry /\ NoAnswer /\ Continue("readback") /\ Count(0, tries + 1)
     \/ tries + 1 >= MaxRetry /\ Finish("SET_FAILURE")
     \/ Retry("readback")
     \/ GaveUp /\ Answer("SET_FAILURE") /\ Continue("readback") /\ Count(0, tries)
  /\ UNCHANGED <<mode, Shared>>

\* ... then read it back until it is the one written.
ReadBack ==
  /\ pc = "readback"
  /\ \/ Finish("SET_SUCCESS")
     \/ tries + 1 < MaxRetry /\ NoAnswer /\ Continue("readback") /\ Count(0, tries + 1)
     \/ tries + 1 >= MaxRetry /\ Finish("SET_FAILURE")
     \/ Retry("readback")
     \/ GaveUp /\ Finish("SET_FAILURE")
  /\ UNCHANGED <<mode, Shared>>

GetValue ==
  /\ pc = "get"
  /\ \/ Finish("STATUS_CHANGED")
     \/ Retry("get")
     \/ GaveUp /\ Finish("GET_FAILURE")
  /\ UNCHANGED <<mode, Shared>>

\* The requests answered with the result of one call.
CallOnce ==
  /\ pc = "call"
  /\ Finish("RESULT")
  /\ UNCHANGED <<mode, Shared>>

\* HC_EVENT_REQ_DEVICE_DETECT: is the node there?  A lock or a meter that is
\* is then read, as are the other devices of a thermostat or a switch.
Probe ==
  /\ pc = "probe"
  /\ \/ Finish("DISCONNECTED")
     \/ Finish("DETECT_FAILURE")
     \/ /\ Answer("CONNECTED") /\ Still
        /\ \E stage \in {"poll", "group", "leave"} : Continue(stage)
  /\ UNCHANGED <<mode, Shared>>

Poll ==
  /\ pc = "poll"
  /\ \/ Finish("STATUS_CHANGED")
     \/ Retry("poll")
     \/ GaveUp /\ NoAnswer /\ Continue("leave") /\ Still
  /\ UNCHANGED <<mode, Shared>>

ReadGroup ==
  /\ pc = "group"
  /\ Answer("STATUS_CHANGED") \/ NoAnswer
  /\ \/ tries + 1 < Cardinality(Devices) /\ Continue("group") /\ Count(fails, tries + 1)
     \/ Continue("leave") /\ Still
  /\ UNCHANGED <<mode, Shared>>

\* HC_EVENT_REQ_DEVICE_NA_DELETE: only a node that does not answer is removed.
\* Its other devices are reported in broadcasts.
NaProbe ==
  /\ pc = "na_probe"
  /\ \/ Finish("DELETED_FAILURE")
     \/ NoAnswer /\ Continue("na_remove") /\ Still
  /\ UNCHANGED <<mode, Shared>>

NaRemove ==
  /\ pc = "na_remove"
  /\ Finish("DELETED_FAILURE") \/ Finish("DELETED_SUCCESS")
  /\ UNCHANGED <<mode, Shared>>

\* Mutant of Leave: the mode stays.
LeaveBusy ==
  /\ pc = "leave"
  /\ Return
  /\ NoAnswer
  /\ UNCHANGED <<mode, Shared>>

Leave ==
  /\ pc = "leave"
  /\ mode' = "IDLE"
  /\ Return
  /\ NoAnswer
  /\ UNCHANGED Shared

ProcessTask ==
  \/ Start \/ BeginSession \/ EnterSession \/ Conclude
  \/ SetValue \/ ReadBack \/ GetValue \/ CallOnce
  \/ Probe \/ Poll \/ ReadGroup \/ NaProbe \/ NaRemove \/ Leave

TaskThread == FindWork \/ FallAsleep \/ Pop \/ Copy \/ ProcessTask

Environment ==
  \/ \E app \in Apps, r \in AppRequests : Request(app, r[1], r[2])
  \/ \E dev \in Devices : Disarm(dev) \/ DeviceEvent(dev) \/ DetectDue(dev)
  \/ FwLock \/ FwUnlock
  \/ BeginScan

Next ==
  \/ \E a \in Adders : TaskAdd(a)
  \/ TaskThread \/ WakeSpuriously \/ SessionOver
  \/ EndScan
  \/ Environment

Spec == Init /\ [][Next]_vars

\* The threads run; nothing makes the radio end a session, an application
\* send a request, or a wait return without a signal.
FairSpec ==
  /\ Spec
  /\ \A a \in Adders : WF_vars(TaskAdd(a))
  /\ WF_vars(TaskThread)
  /\ WF_vars(EndScan)

-----------------------------------------------------------------------------
\* Urgent tasks first: the queue is in priority order whatever the three
\* adding threads do (queue_insert_priority).
QueueInOrder == Q!InPriorityOrder(queue)

\* The task thread never finds the queue empty after its wait, the case
\* task_handle_thread reports as "=== Bug fix me. queue_popup() return NULL. ==="
\* and leaves its loop on.
NeverStops == pc # "stopped"

\* If the task thread sleeps, or is about to, while tasks are queued, then a
\* signal is on its way, or one was sent between its look at the queue and
\* its wait (task_add does not take task_mutex) and is lost.
StrandedOnlyByMissedSignal ==
  pc \in {"sleep", "wait"} /\ queue # << >> =>
    missed \/ \E a \in Adders : adder[a].stage = "signal"

\* Device checks do not pile up: the detect thread tests the queue and adds
\* without a lock between, but at most one of its tasks is ever queued.
OneDetectQueued ==
  \A i, j \in 1 .. Len(queue) :
    queue[i].priority = DETECT /\ queue[j].priority = DETECT => i = j

\* The mode that the other threads read is the one of the task that runs,
\* so that process_task itself never has to refuse a task.
ModeOfTask ==
  IF pc \notin InTask \ {"begin", "started"} THEN "IDLE"
  ELSE CASE cur.task.type = "add"    -> "ADDING"
         [] cur.task.type = "delete" -> "DELETING"
         [] OTHER                    -> "RUNNING"
ModeMatchesTask == mode = ModeOfTask

\* On every path, errors included, an application is sent exactly the answers
\* its request has coming, unless the upgrade lock suppressed one.
AnsweredWhenDone ==
  pc = "leave" /\ cur.task.app # NoApp /\ ~ muted =>
    CASE cur.task.type = "detect" -> answers >= 1
      [] cur.task.type = "delete" -> answers = 2
      [] OTHER                    -> answers = 1

\* The queue is served: a queued task is eventually followed by the task
\* thread taking one, unless a session never ends or a lost signal leaves
\* the thread asleep; then the signal of the next task_add gets it going.
QueueIsServed ==
  /\ (queue # << >>) ~> (pc \in {"copy", "session"} \/ (pc = "wait" /\ missed))
  /\ (/\ pc = "wait" /\ queue # << >>
      /\ \E a \in Adders : adder[a].stage = "signal") ~> (pc = "copy")

\* zw_task.c:761: "if there is a same task in the queue, do not add it."
NoDuplicateQueued ==
  \A i, j \in 1 .. Len(queue) : i < j => queue[i] # queue[j]
=============================================================================
