---------------------------- MODULE ZwTaskProofs ----------------------------
(***************************************************************************)
(* What holds of the task engine for any applications, devices and limits, *)
(* and for queues of any length (the bound on them plays no part).         *)
(***************************************************************************)
EXTENDS ZwTask, SequenceTheorems, TLAPS

-----------------------------------------------------------------------------
(* The priority queue.                                                     *)

\* Putting t at place p shifts what was there and behind by one.
LEMMA PutAtProperties ==
  ASSUME NEW s \in Seq(Task), NEW t \in Task, NEW p \in 1 .. Len(s) + 1
  PROVE  /\ Q!PutAt(s, p, t) \in Seq(Task)
         /\ Len(Q!PutAt(s, p, t)) = Len(s) + 1
         /\ \A j \in 1 .. Len(s) + 1 :
              Q!PutAt(s, p, t)[j] =
                IF j < p THEN s[j] ELSE IF j = p THEN t ELSE s[j - 1]
<1> DEFINE r == Q!PutAt(s, p, t)
           n == Len(s) + 1
<1>1. Len(s) \in Nat /\ \A j \in 1 .. Len(s) : s[j] \in Task
  BY ElementOfSeq, LenProperties
<1>2. \A j \in 1 .. n :
        (IF j < p THEN s[j] ELSE IF j = p THEN t ELSE s[j - 1]) \in Task
  BY <1>1
<1>3. r \in [1 .. n -> Task]
  BY <1>2 DEF Q!PutAt
<1>4. r \in Seq(Task)
  BY <1>1, <1>3, SeqDef
<1>5. Len(r) = n
  BY <1>1, <1>3, <1>4, LenProperties
<1> QED
  BY <1>4, <1>5 DEF Q!PutAt

\* The place queue_insert_priority finds keeps the queue in order.
LEMMA InsertKeepsOrder ==
  ASSUME NEW s \in Seq(Task), NEW t \in Task, NEW p \in 1 .. Len(s) + 1,
         Q!InPriorityOrder(s), Q!PlaceFor(s, t, p)
  PROVE  Q!InPriorityOrder(Q!PutAt(s, p, t))
<1> DEFINE r == Q!PutAt(s, p, t)
<1>1. Len(s) \in Nat /\ \A j \in 1 .. Len(s) : s[j].priority \in Nat
  <2>1. \A j \in 1 .. Len(s) : s[j] \in Task
    BY ElementOfSeq
  <2> QED
    BY <2>1, LenProperties DEF Task, PROTOCOL, UI, DETECT
<1>2. t.priority \in Nat
  BY DEF Task, PROTOCOL, UI, DETECT
<1>3. /\ Len(r) = Len(s) + 1
      /\ \A j \in 1 .. Len(s) + 1 :
           r[j] = IF j < p THEN s[j] ELSE IF j = p THEN t ELSE s[j - 1]
  BY PutAtProperties
<1>4. \A j \in 1 .. Len(s) : j < p => s[j].priority <= t.priority
  BY DEF Q!PlaceFor
<1>5. \A j \in 1 .. Len(s) : p <= j => t.priority <= s[j].priority
  BY <1>1, <1>2 DEF Q!PlaceFor, Q!InPriorityOrder
<1>6. SUFFICES ASSUME NEW i \in 1 .. Len(r), NEW j \in 1 .. Len(r), i < j
               PROVE  r[i].priority <= r[j].priority
  BY DEF Q!InPriorityOrder
<1>7. CASE j < p
  BY <1>1, <1>3, <1>6, <1>7 DEF Q!InPriorityOrder
<1>8. CASE j = p
  BY <1>1, <1>3, <1>4, <1>6, <1>8
<1>9. CASE i = p
  BY <1>1, <1>3, <1>5, <1>6, <1>9
<1>10. CASE i < p /\ p < j
  <2>1. r[i] = s[i] /\ r[j] = s[j - 1] /\ i \in 1 .. Len(s) /\ j - 1 \in 1 .. Len(s)
    BY <1>1, <1>3, <1>6, <1>10
  <2>2. i < j - 1
    BY <1>10
  <2> QED
    BY <2>1, <2>2, <1>1 DEF Q!InPriorityOrder
<1>11. CASE p < i
  <2>1. r[i] = s[i - 1] /\ r[j] = s[j - 1]
        /\ i - 1 \in 1 .. Len(s) /\ j - 1 \in 1 .. Len(s) /\ i - 1 < j - 1
    BY <1>1, <1>3, <1>6, <1>11
  <2> QED
    BY <2>1, <1>1 DEF Q!InPriorityOrder
<1> QED
  BY <1>1, <1>6, <1>7, <1>8, <1>9, <1>10, <1>11

\* So does taking the first task.
LEMMA TailKeepsOrder ==
  ASSUME NEW s \in Seq(Task), s # << >>, Q!InPriorityOrder(s)
  PROVE  Tail(s) \in Seq(Task) /\ Head(s) \in Task /\ Q!InPriorityOrder(Tail(s))
<1>1. /\ Head(s) \in Task /\ Tail(s) \in Seq(Task)
      /\ Len(Tail(s)) = Len(s) - 1
      /\ \A i \in 1 .. Len(Tail(s)) : Tail(s)[i] = s[i + 1]
  BY HeadTailProperties
<1>2. Len(s) \in Nat
  BY LenProperties
<1> QED
  BY <1>1, <1>2 DEF Q!InPriorityOrder

-----------------------------------------------------------------------------
(* What each thread leaves alone, and the types.                           *)

\* process_task and the end of a session touch none of what the adding
\* threads own, nor the queue.
LEMMA ProcessTaskFrame ==
  ASSUME ProcessTask \/ SessionOver
  PROVE  UNCHANGED Shared
BY DEF ProcessTask, SessionOver, Start, BeginSession, EnterSession, Conclude,
       SetValue, ReadBack, GetValue, CallOnce, Probe, Poll, ReadGroup, NaProbe,
       NaRemove, Leave

\* The threads that call task_add do not touch the queue before they are in it.
LEMMA EnvironmentFrame ==
  ASSUME TypeOK, Environment \/ EndScan
  PROVE  /\ UNCHANGED <<queue, mode, running, missed, taskVars>>
         /\ \A a \in Adders : adder[a].stage # "idle" => adder'[a] = adder[a]
BY DEF Environment, EndScan, Request, Disarm, DeviceEvent, DetectDue, FwLock,
       FwUnlock, BeginScan, CallTaskAdd, TypeOK

\* A call of task_add begins with a well-formed task.
LEMMA CallTypes ==
  ASSUME TypeOK, NEW a \in Adders, NEW type \in Requests,
         NEW app \in Apps \cup {NoApp}, NEW priority \in {PROTOCOL, UI, DETECT},
         NEW dev \in Devices, CallTaskAdd(a, type, app, priority, dev)
  PROVE  /\ adder' \in [Adders -> [stage : AddStages, task : Task \cup {NoTask}]]
         /\ \A b \in Adders : adder'[b].stage # "idle" => adder'[b].task \in Task
<1> DEFINE t == [type |-> type, app |-> app, priority |-> priority, dev |-> dev]
<1>1. t \in Task
  BY DEF Task
<1>2. adder' = [adder EXCEPT ![a] = [stage |-> "mode", task |-> t]]
  BY DEF CallTaskAdd
<1>3. [stage |-> "mode", task |-> t] \in [stage : AddStages, task : Task \cup {NoTask}]
  BY <1>1 DEF AddStages
<1> HIDE DEF t
<1> QED
  BY <1>1, <1>2, <1>3 DEF TypeOK

\* task_add moves on, or drops its unit.
LEMMA AdvanceTypes ==
  ASSUME TypeOK, NEW a \in Adders, adder[a].stage # "idle",
         Drop(a) \/ \E stage \in AddStages : GoTo(a, stage)
  PROVE  /\ adder' \in [Adders -> [stage : AddStages, task : Task \cup {NoTask}]]
         /\ \A b \in Adders : adder'[b].stage # "idle" => adder'[b].task \in Task
<1>1. CASE Drop(a)
  <2>1. [stage |-> "idle", task |-> NoTask] \in [stage : AddStages, task : Task \cup {NoTask}]
    BY DEF AddStages
  <2> QED
    BY <1>1, <2>1 DEF Drop, TypeOK
<1>2. ASSUME NEW stage \in AddStages, GoTo(a, stage)
      PROVE  /\ adder' \in [Adders -> [stage : AddStages, task : Task \cup {NoTask}]]
             /\ \A b \in Adders : adder'[b].stage # "idle" => adder'[b].task \in Task
  <2>1. adder[a] \in [stage : AddStages, task : Task \cup {NoTask}]
        /\ adder[a].task \in Task
    BY DEF TypeOK
  <2>2. adder' = [adder EXCEPT ![a] = [stage |-> stage, task |-> adder[a].task]]
    BY <1>2 DEF GoTo
  <2>3. [stage |-> stage, task |-> adder[a].task]
           \in [stage : AddStages, task : Task \cup {NoTask}]
    BY <2>1
  <2> QED
    BY <2>1, <2>2, <2>3 DEF TypeOK
<1> QED
  BY <1>1, <1>2

\* What the first step of process_task leads to.
LEMMA FirstStageInTask ==
  ASSUME NEW type \in OneCall \cup Sessions
  PROVE  /\ FirstStage(type) \in InTask \ {"leave", "started", "session", "ended",
                                           "readback", "poll", "group", "na_remove"}
         /\ type \in Sessions <=> FirstStage(type) = "begin"
         /\ type = "detect" <=> FirstStage(type) = "probe"
BY DEF FirstStage, OneCall, Sessions, Simple, InTask

AdderTypes ==
  /\ adder \in [Adders -> [stage : AddStages, task : Task \cup {NoTask}]]
  /\ \A a \in Adders : adder[a].stage # "idle" => adder[a].task \in Task

TaskThreadTypes ==
  /\ pc \in {"check", "sleep", "wait", "pop", "copy", "start", "stopped"} \cup InTask
  /\ cur \in Unit
  /\ pc \in {"copy", "start"} \cup InTask <=> cur.task \in Task
  /\ fails \in Nat /\ tries \in Nat
  /\ answers \in 0 .. MaxAnswers /\ muted \in BOOLEAN
  /\ mode \in Modes

\* Every step of process_task moves on within it or returns ...
Moves ==
  \/ Return
  \/ /\ pc \in {"start"} \cup InTask
     /\ \E stage \in InTask : Continue(stage)
     /\ fails' \in Nat /\ tries' \in Nat

\* ... and sends the application at most one answer.
Replies ==
  /\ answers' \in 0 .. MaxAnswers
  /\ answers' # answers => answers' = answers + 1 /\ cur.task.app # NoApp
  /\ muted' \in BOOLEAN

LEMMA MovesTypes ==
  ASSUME TypeOK, Moves
  PROVE  /\ pc' \in {"check"} \cup InTask
         /\ cur' \in Unit
         /\ pc' \in InTask <=> cur'.task \in Task
         /\ fails' \in Nat /\ tries' \in Nat
<1>1. CASE Return
  <2>1. NoUnit \in Unit /\ NoUnit.task \notin Task
    BY NoTaskAssumption DEF NoUnit, Unit
  <2> QED
    BY <1>1, <2>1 DEF Return, InTask
<1>2. CASE ~ Return
  BY <1>2 DEF Moves, Continue, TypeOK
<1> QED
  BY <1>1, <1>2

LEMMA AnswerReplies ==
  ASSUME TypeOK, NEW event, NoAnswer \/ Answer(event)
  PROVE  Replies
<1>1. CASE NoAnswer
  BY <1>1 DEF NoAnswer, TypeOK, Replies
<1>2. CASE Answer(event)
  <2>1. muted' \in BOOLEAN
    <3>1. muted' = (muted \/ Dropped(event))
      BY <1>2 DEF Answer
    <3>2. (muted \/ Dropped(event)) \in BOOLEAN
      OBVIOUS
    <3> QED
      BY <3>1, <3>2, Zenon
  <2>2. /\ answers' \in {answers, answers + 1}
        /\ cur.task.app = NoApp \/ answers = MaxAnswers => answers' = answers
    BY <1>2 DEF Answer
  <2> QED
    BY <2>1, <2>2 DEF TypeOK, MaxAnswers, Replies
<1> QED
  BY <1>1, <1>2

LEMMA ProcessTaskShape ==
  ASSUME TypeOK, ProcessTask \/ SessionOver
  PROVE  Moves /\ Replies /\ mode' \in Modes
<1> USE AnswerReplies DEF Moves, Finish, Still, Count, Retry
<1>t. fails \in Nat /\ tries \in Nat /\ mode \in Modes /\ fails + 1 \in Nat /\ tries + 1 \in Nat
  BY DEF TypeOK
<1>1. CASE Start
  BY <1>t, <1>1, FirstStageInTask DEF Start, Modes
<1>2. CASE BeginSession
  BY <1>t, <1>2 DEF BeginSession, InTask
<1>3. CASE EnterSession
  BY <1>t, <1>3 DEF EnterSession, InTask, Modes
<1>4. CASE SessionOver
  BY <1>t, <1>4 DEF SessionOver, InTask
<1>5. CASE Conclude
  BY <1>t, <1>5 DEF Conclude, InTask
<1>6. CASE SetValue
  BY <1>t, <1>6 DEF SetValue, InTask
<1>7. CASE ReadBack
  BY <1>t, <1>7 DEF ReadBack, InTask
<1>8. CASE GetValue
  BY <1>t, <1>8 DEF GetValue, InTask
<1>9. CASE CallOnce
  BY <1>t, <1>9 DEF CallOnce, InTask
<1>10. CASE Probe
  BY <1>t, <1>10 DEF Probe, InTask
<1>11. CASE Poll
  BY <1>t, <1>11 DEF Poll, InTask
<1>12. CASE ReadGroup
  BY <1>t, <1>12 DEF ReadGroup, InTask
<1>13. CASE NaProbe
  BY <1>t, <1>13 DEF NaProbe, InTask
<1>14. CASE NaRemove
  BY <1>t, <1>14 DEF NaRemove, InTask
<1>15. CASE Leave
  BY <1>15 DEF Leave, Modes
<1> QED
  BY <1>1, <1>2, <1>3, <1>4, <1>5, <1>6, <1>7, <1>8, <1>9, <1>10, <1>11, <1>12,
     <1>13, <1>14, <1>15 DEF ProcessTask

\* Every variable has its type: the thread that adds, the thread that runs.
THEOREM TypeInvariant == Spec => []TypeOK
<1>1. Init => TypeOK
  <2> SUFFICES ASSUME Init PROVE TypeOK
    OBVIOUS
  <2>1. NoUnit \in Unit /\ NoUnit.task = NoTask
    BY DEF NoUnit, Unit
  <2>2. queue \in Seq(Task)
    BY EmptySeq DEF Init
  <2>3. AdderTypes
    BY DEF Init, AdderTypes, AddStages
  <2>4. TaskThreadTypes
    <3>1. pc = "check" /\ cur = NoUnit
      BY DEF Init
    <3>2. cur \in Unit /\ ~ (cur.task \in Task)
      BY <2>1, <3>1, NoTaskAssumption
    <3>3. ~ (pc \in {"copy", "start"} \cup InTask)
      BY <3>1 DEF InTask
    <3>4. muted \in BOOLEAN
      BY Zenon DEF Init
    <3>5. answers \in 0 .. MaxAnswers /\ fails \in Nat /\ tries \in Nat /\ mode \in Modes
      BY DEF Init, MaxAnswers, Modes
    <3> QED
      BY <3>1, <3>2, <3>3, <3>4, <3>5 DEF TaskThreadTypes
  <2> QED
    BY <2>1, <2>2, <2>3, <2>4 DEF TypeOK, Init, AdderTypes, TaskThreadTypes
<1>2. TypeOK /\ [Next]_vars => TypeOK'
  <2> SUFFICES ASSUME TypeOK, [Next]_vars PROVE TypeOK'
    OBVIOUS
  <2> USE DEF AdderTypes, TaskThreadTypes
  <2>1. ASSUME NEW a \in Adders, TaskAdd(a) PROVE TypeOK'
    <3>1. CASE ReadMode(a) \/ CompareRunning(a) \/ LookInQueue(a)
      <4>1. AdderTypes'
        BY <3>1, AdvanceTypes DEF ReadMode, CompareRunning, LookInQueue, AddStages
      <4> QED
        BY <3>1, <4>1 DEF ReadMode, CompareRunning, LookInQueue, TypeOK, taskVars
    <3>2. CASE InsertTask(a)
      <4>1. AdderTypes'
        BY <3>2, AdvanceTypes DEF InsertTask, AddStages
      <4>2. adder[a].task \in Task
        BY <3>2 DEF InsertTask, TypeOK
      <4>3. queue' \in Seq(Task)
        BY <3>2, <4>2, PutAtProperties DEF InsertTask, TypeOK
      <4> QED
        BY <3>2, <4>1, <4>3 DEF InsertTask, TypeOK, taskVars
    <3>3. CASE Signal(a)
      <4>1. AdderTypes'
        BY <3>3, AdvanceTypes DEF Signal
      <4> QED
        BY <3>3, <4>1 DEF Signal, TypeOK, InTask
    <3> QED
      BY <2>1, <3>1, <3>2, <3>3 DEF TaskAdd
  <2>2. CASE Environment \/ EndScan
    <3>1. UNCHANGED <<queue, mode, running, missed, taskVars>>
      BY <2>2, EnvironmentFrame
    <3>2. AdderTypes'
      <4>1. ASSUME NEW app \in Apps, NEW r \in AppRequests, Request(app, r[1], r[2])
            PROVE  AdderTypes'
        <5>1. r[1] \in Requests /\ r[2] \in Devices
          BY RequestsAssumption
        <5> QED
          BY <4>1, <5>1, CallTypes DEF Request, Adders
      <4>2. ASSUME NEW dev \in Devices, Disarm(dev) PROVE AdderTypes'
        BY <4>2, CallTypes DEF Disarm, Adders, Requests
      <4>3. ASSUME NEW dev \in Devices, DeviceEvent(dev) PROVE AdderTypes'
        BY <4>3, CallTypes DEF DeviceEvent, Adders, Requests
      <4>4. ASSUME NEW dev \in Devices, DetectDue(dev) PROVE AdderTypes'
        BY <4>4, CallTypes DEF DetectDue, Adders, Requests
      <4>5. CASE FwLock \/ FwUnlock \/ BeginScan \/ EndScan
        BY <4>5 DEF FwLock, FwUnlock, BeginScan, EndScan, TypeOK
      <4> QED
        BY <2>2, <4>1, <4>2, <4>3, <4>4, <4>5 DEF Environment
    <3>3. fwLocked' \in BOOLEAN /\ scanning' \in BOOLEAN
      BY <2>2 DEF Environment, EndScan, Request, Disarm, DeviceEvent, DetectDue,
                  FwLock, FwUnlock, BeginScan, TypeOK
    <3> QED
      BY <3>1, <3>2, <3>3 DEF TypeOK, taskVars
  <2>3. CASE FindWork \/ FallAsleep \/ WakeSpuriously
    BY <2>3 DEF FindWork, FallAsleep, WakeSpuriously, TypeOK, Others, InTask
  <2>4. CASE Pop
    <3>1. CASE queue = << >>
      <4>1. pc = "pop" /\ pc' = "stopped" /\ UNCHANGED <<queue, cur>>
        BY <2>4, <3>1, Zenon DEF Pop
      <4>2. answers' = 0 /\ muted' \in BOOLEAN
            /\ UNCHANGED <<mode, running, fwLocked, adder, scanning, missed, fails, tries>>
        BY <2>4, Zenon DEF Pop, Others
      <4> QED
        BY <4>1, <4>2 DEF TypeOK, InTask, MaxAnswers
    <3>2. CASE queue # << >>
      <4>1. Head(queue) \in Task /\ Tail(queue) \in Seq(Task)
        BY <3>2, HeadTailProperties DEF TypeOK
      <4>2. /\ pc = "pop" /\ pc' = "copy" /\ queue' = Tail(queue)
            /\ \E b \in BOOLEAN : cur' = [task |-> Head(queue), alone |-> b]
        <5>1. cur' = [task |-> Head(queue), alone |-> Tail(queue) = << >>]
          BY <2>4, <3>2, Zenon DEF Pop
        <5>2. (Tail(queue) = << >>) \in BOOLEAN
          OBVIOUS
        <5>3. pc = "pop" /\ pc' = "copy" /\ queue' = Tail(queue)
          BY <2>4, <3>2, Zenon DEF Pop
        <5> QED
          BY <5>1, <5>2, <5>3, Zenon
      <4>3. cur' \in Unit /\ cur'.task \in Task
        BY <4>1, <4>2 DEF Unit
      <4>4. answers' = 0 /\ muted' \in BOOLEAN
            /\ UNCHANGED <<mode, running, fwLocked, adder, scanning, missed, fails, tries>>
        BY <2>4, Zenon DEF Pop, Others
      <4> QED
        BY <4>1, <4>2, <4>3, <4>4 DEF TypeOK, MaxAnswers
    <3> QED
      BY <3>1, <3>2
  <2>5. CASE Copy
    BY <2>5 DEF Copy, TypeOK, Others
  <2>6. CASE ProcessTask \/ SessionOver
    <3>1. UNCHANGED Shared
      BY <2>6, ProcessTaskFrame
    <3>2. TaskThreadTypes'
      BY <2>6, ProcessTaskShape, MovesTypes DEF Replies
    <3> QED
      BY <3>1, <3>2 DEF TypeOK, Shared, Others
  <2>7. CASE UNCHANGED vars
    BY <2>7 DEF vars, taskVars, TypeOK
  <2> QED
    BY <2>1, <2>2, <2>3, <2>4, <2>5, <2>6, <2>7 DEF Next, TaskThread
<1> QED
  BY <1>1, <1>2, PTL DEF Spec

-----------------------------------------------------------------------------
(* The queue and the wait for work.                                        *)

\* The task thread goes on to take a task only when there is one; the adding
\* threads never take any.
TasksToPop == pc = "pop" => queue # << >>

QueueInv == TypeOK /\ QueueInOrder /\ NeverStops /\ TasksToPop /\ StrandedOnlyByMissedSignal

\* Whatever the threads that add tasks do, the queue is in priority order, the
\* task thread never ends, and it sleeps with tasks queued only if a signal is
\* on its way or fell between its look at the queue and its wait.
THEOREM QueueIsSafe ==
  Spec => [](QueueInOrder /\ NeverStops /\ StrandedOnlyByMissedSignal)
<1> USE DEF QueueInOrder, NeverStops, TasksToPop, StrandedOnlyByMissedSignal
<1>1. Init /\ TypeOK => QueueInv
  BY DEF Init, QueueInv, Q!InPriorityOrder
<1>2. QueueInv /\ TypeOK' /\ [Next]_vars => QueueInv'
  <2> SUFFICES ASSUME QueueInv, TypeOK', [Next]_vars PROVE QueueInv'
    OBVIOUS
  <2> USE DEF QueueInv
  <2>1. ASSUME NEW a \in Adders, TaskAdd(a) PROVE QueueInv'
    <3>1. CASE ReadMode(a) \/ CompareRunning(a) \/ LookInQueue(a)
      <4>1. UNCHANGED <<queue, missed, taskVars>>
        BY <3>1 DEF ReadMode, CompareRunning, LookInQueue
      <4>2. adder[a].stage # "signal"
            /\ \A b \in Adders : b # a => adder'[b] = adder[b]
        BY <3>1 DEF ReadMode, CompareRunning, LookInQueue, GoTo, Drop, TypeOK
      <4> QED
        BY <4>1, <4>2 DEF taskVars, Q!InPriorityOrder
    <3>2. CASE InsertTask(a)
      <4>1. PICK p \in 1 .. Len(queue) + 1 :
              /\ Q!PlaceFor(queue, adder[a].task, p)
              /\ queue' = Q!PutAt(queue, p, adder[a].task)
        BY <3>2 DEF InsertTask
      <4>2. queue \in Seq(Task) /\ adder[a].task \in Task
        BY <3>2 DEF InsertTask, TypeOK
      <4>3. Q!InPriorityOrder(queue')
        BY <4>1, <4>2, InsertKeepsOrder
      <4>4. queue' # << >>
        BY <4>1, <4>2, PutAtProperties, LenProperties
      <4>5. adder'[a].stage = "signal" /\ UNCHANGED pc
        BY <3>2 DEF InsertTask, GoTo, TypeOK, taskVars
      <4> QED
        BY <4>3, <4>4, <4>5 DEF Q!InPriorityOrder
    <3>3. CASE Signal(a)
      <4>1. UNCHANGED queue
            /\ pc' = (IF pc = "wait" THEN "check" ELSE pc)
            /\ (pc = "sleep" => missed')
        BY <3>3 DEF Signal
      <4> QED
        BY <4>1 DEF Q!InPriorityOrder
    <3> QED
      BY <2>1, <3>1, <3>2, <3>3 DEF TaskAdd
  <2>2. CASE Environment \/ EndScan
    <3>1. /\ UNCHANGED <<queue, mode, running, missed, taskVars>>
          /\ \A a \in Adders : adder[a].stage # "idle" => adder'[a] = adder[a]
      BY <2>2, EnvironmentFrame
    <3> QED
      BY <3>1 DEF taskVars, Q!InPriorityOrder
  <2>3. CASE FindWork \/ FallAsleep
    BY <2>3 DEF FindWork, FallAsleep, Others, Q!InPriorityOrder
  <2>4. CASE WakeSpuriously
    BY <2>4 DEF WakeSpuriously, Others, Q!InPriorityOrder
  <2>5. CASE Pop
    <3>1. queue # << >> /\ queue \in Seq(Task)
      BY <2>5 DEF Pop, TypeOK
    <3>2. pc' = "copy" /\ queue' = Tail(queue)
      BY <2>5, <3>1, Zenon DEF Pop
    <3>3. Q!InPriorityOrder(queue')
      BY <3>1, <3>2, TailKeepsOrder
    <3> QED
      BY <3>2, <3>3 DEF Q!InPriorityOrder
  <2>6. CASE Copy
    BY <2>6 DEF Copy, Others, Q!InPriorityOrder
  <2>7. CASE ProcessTask \/ SessionOver
    <3>1. UNCHANGED queue
      BY <2>7, ProcessTaskFrame DEF Shared
    <3>2. pc' \in {"check"} \cup InTask
      BY <2>7, ProcessTaskShape, MovesTypes
    <3> QED
      BY <3>1, <3>2 DEF InTask, Q!InPriorityOrder
  <2>8. CASE UNCHANGED vars
    BY <2>8 DEF vars, taskVars, Q!InPriorityOrder
  <2> QED
    BY <2>1, <2>2, <2>3, <2>4, <2>5, <2>6, <2>7, <2>8 DEF Next, TaskThread
<1>3. QueueInv => QueueInOrder /\ NeverStops /\ StrandedOnlyByMissedSignal
  BY DEF QueueInv
<1> QED
  BY <1>1, <1>2, <1>3, TypeInvariant, PTL DEF Spec

\* task_handle_thread never finds the queue empty where it takes a task, the one
\* thing that would end it.
THEOREM ThreadNeverEnds == Spec => []NeverStops
<1> QED
  BY QueueIsSafe, PTL

\* The task thread is not left asleep with tasks queued, but for the one order
\* in which task_add's signal falls between its test and its wait.
THEOREM TasksAreSeen == Spec => []StrandedOnlyByMissedSignal
<1> QED
  BY QueueIsSafe, PTL

-----------------------------------------------------------------------------
(* The device checks.                                                      *)

NoDetect(s) == \A i \in 1 .. Len(s) : s[i].priority # DETECT
OneDetect(s) == \A i, j \in 1 .. Len(s) :
                  s[i].priority = DETECT /\ s[j].priority = DETECT => i = j

LEMMA InsertDetect ==
  ASSUME NEW s \in Seq(Task), NEW t \in Task, NEW p \in 1 .. Len(s) + 1
  PROVE  /\ NoDetect(s) => OneDetect(Q!PutAt(s, p, t))
         /\ NoDetect(s) /\ t.priority # DETECT => NoDetect(Q!PutAt(s, p, t))
         /\ OneDetect(s) /\ t.priority # DETECT => OneDetect(Q!PutAt(s, p, t))
<1> DEFINE r == Q!PutAt(s, p, t)
<1>1. /\ Len(s) \in Nat /\ Len(r) = Len(s) + 1
      /\ \A j \in 1 .. Len(s) + 1 :
           r[j] = IF j < p THEN s[j] ELSE IF j = p THEN t ELSE s[j - 1]
  BY PutAtProperties, LenProperties
<1> HIDE DEF r
<1>2. \A j \in 1 .. Len(r) : j # p =>
        \E k \in 1 .. Len(s) : k = (IF j < p THEN j ELSE j - 1) /\ r[j] = s[k]
  BY <1>1
<1>3. r[p] = t /\ p \in 1 .. Len(r)
  BY <1>1
<1>4. NoDetect(s) => OneDetect(r)
  BY <1>2 DEF NoDetect, OneDetect
<1>5. NoDetect(s) /\ t.priority # DETECT => NoDetect(r)
  BY <1>2, <1>3 DEF NoDetect
<1>6. OneDetect(s) /\ t.priority # DETECT => OneDetect(r)
  <2> SUFFICES ASSUME OneDetect(s), t.priority # DETECT,
                      NEW i \in 1 .. Len(r), NEW j \in 1 .. Len(r),
                      r[i].priority = DETECT, r[j].priority = DETECT
               PROVE  i = j
    BY DEF OneDetect
  <2>1. i # p /\ j # p
    BY <1>3
  <2>2. PICK k \in 1 .. Len(s), l \in 1 .. Len(s) :
          /\ k = (IF i < p THEN i ELSE i - 1) /\ r[i] = s[k]
          /\ l = (IF j < p THEN j ELSE j - 1) /\ r[j] = s[l]
    BY <1>2, <2>1
  <2>3. k = l
    BY <2>2 DEF OneDetect
  <2> QED
    BY <1>1, <2>1, <2>2, <2>3
<1> QED
  BY <1>4, <1>5, <1>6 DEF r

LEMMA TailDetect ==
  ASSUME NEW s \in Seq(Task), s # << >>
  PROVE  /\ NoDetect(s) => NoDetect(Tail(s))
         /\ OneDetect(s) => OneDetect(Tail(s))
<1>1. /\ Len(Tail(s)) = Len(s) - 1 /\ Len(s) \in Nat
      /\ \A i \in 1 .. Len(Tail(s)) : Tail(s)[i] = s[i + 1]
  BY HeadTailProperties, LenProperties
<1> QED
  BY <1>1 DEF NoDetect, OneDetect

\* Only the detect thread adds at that priority, and while it has a check in
\* its hands none is queued.
DetectInv ==
  /\ TypeOK /\ OneDetect(queue)
  /\ \A a \in {"msg", "event"} :
       adder[a].stage # "idle" => adder[a].task.priority # DETECT
  /\ adder["detect"].stage \notin {"idle", "signal"} => NoDetect(queue)

\* The detect thread tests the queue and adds to it without a lock between,
\* and still its checks never pile up.
THEOREM ChecksDoNotPileUp == Spec => []OneDetectQueued
<1>1. Init /\ TypeOK => DetectInv
  BY DEF Init, DetectInv, OneDetect, Adders
<1>2. DetectInv /\ TypeOK' /\ [Next]_vars => DetectInv'
  <2> SUFFICES ASSUME DetectInv, TypeOK', [Next]_vars PROVE DetectInv'
    OBVIOUS
  <2> USE DEF DetectInv
  <2>1. ASSUME NEW a \in Adders, TaskAdd(a) PROVE DetectInv'
    <3>1. CASE ReadMode(a) \/ CompareRunning(a) \/ LookInQueue(a) \/ Signal(a)
      <4>1. UNCHANGED queue /\ adder[a].stage # "idle"
        BY <3>1 DEF ReadMode, CompareRunning, LookInQueue, Signal
      <4>2. Drop(a) \/ (adder[a].stage # "signal" /\ \E stage \in AddStages : GoTo(a, stage))
        BY <3>1 DEF ReadMode, CompareRunning, LookInQueue, Signal, AddStages
      <4>3. \A b \in Adders : adder'[b].stage \notin {"idle", "signal"} =>
              adder[b].stage \notin {"idle", "signal"}
        BY <4>1, <4>2 DEF Drop, GoTo, TypeOK
      <4>4. \A b \in Adders : adder'[b].stage # "idle" =>
              adder[b].stage # "idle" /\ adder'[b].task = adder[b].task
        BY <4>1, <4>2 DEF Drop, GoTo, TypeOK
      <4>5. {"msg", "event", "detect"} \subseteq Adders
        BY DEF Adders
      <4> QED
        BY <4>1, <4>3, <4>4, <4>5 DEF OneDetect, NoDetect
    <3>2. CASE InsertTask(a)
      <4>1. PICK p \in 1 .. Len(queue) + 1 : queue' = Q!PutAt(queue, p, adder[a].task)
        BY <3>2 DEF InsertTask
      <4>2. queue \in Seq(Task) /\ adder[a].task \in Task /\ adder[a].stage = "insert"
        BY <3>2 DEF InsertTask, TypeOK
      <4>3. /\ adder'[a] = [stage |-> "signal", task |-> adder[a].task]
            /\ \A b \in Adders : b # a => adder'[b] = adder[b]
        BY <3>2 DEF InsertTask, GoTo, TypeOK
      <4>4. CASE a = "detect"
        BY <4>1, <4>2, <4>3, <4>4, InsertDetect DEF Adders
      <4>5. CASE a # "detect"
        BY <4>1, <4>2, <4>3, <4>5, InsertDetect DEF Adders
      <4> QED
        BY <4>4, <4>5
    <3> QED
      BY <2>1, <3>1, <3>2 DEF TaskAdd
  <2>2. ASSUME NEW dev \in Devices, DetectDue(dev) PROVE DetectInv'
    <3>1. queue = << >> /\ UNCHANGED queue
      BY <2>2 DEF DetectDue
    <3>2. \A b \in Adders : b # "detect" => adder'[b] = adder[b]
      BY <2>2 DEF DetectDue, CallTaskAdd, TypeOK
    <3> QED
      BY <3>1, <3>2 DEF OneDetect, NoDetect, Adders
  <2>3. ASSUME NEW a \in {"msg", "event"}, NEW type, NEW app, NEW dev,
               NEW priority \in {UI, PROTOCOL},
               CallTaskAdd(a, type, app, priority, dev), UNCHANGED queue
        PROVE  DetectInv'
    <3>1. /\ adder'[a].task.priority = priority
          /\ \A b \in Adders : b # a => adder'[b] = adder[b]
      BY <2>3 DEF CallTaskAdd, TypeOK, Adders
    <3>2. priority # DETECT
      BY DEF UI, PROTOCOL, DETECT
    <3> QED
      BY <2>3, <3>1, <3>2 DEF OneDetect, NoDetect, Adders
  <2>4. CASE (Environment \/ EndScan) /\ ~ (\E dev \in Devices : DetectDue(dev))
    <3>1. CASE UNCHANGED <<queue, adder>>
      BY <3>1 DEF OneDetect, NoDetect
    <3>2. CASE ~ UNCHANGED <<queue, adder>>
      BY <2>3, <2>4, <3>2
         DEF Environment, EndScan, Request, Disarm, DeviceEvent, FwLock, FwUnlock, BeginScan
    <3> QED
      BY <3>1, <3>2
  <2>5. CASE Pop
    <3>1. (queue # << >> /\ queue' = Tail(queue)) \/ UNCHANGED queue
      BY <2>5, Zenon DEF Pop
    <3>2. UNCHANGED adder
      BY <2>5, Zenon DEF Pop, Others
    <3> QED
      BY <3>1, <3>2, TailDetect DEF TypeOK, OneDetect, NoDetect
  <2>6. CASE \/ FindWork \/ FallAsleep \/ WakeSpuriously \/ Copy
            \/ ProcessTask \/ SessionOver \/ UNCHANGED vars
    <3>1. UNCHANGED <<queue, adder>>
      BY <2>6, ProcessTaskFrame
         DEF FindWork, FallAsleep, WakeSpuriously, Copy, Others, Shared, vars
    <3> QED
      BY <3>1 DEF OneDetect, NoDetect
  <2> QED
    BY <2>1, <2>2, <2>4, <2>5, <2>6 DEF Next, TaskThread, Environment
<1>3. DetectInv => OneDetectQueued
  BY DEF DetectInv, OneDetect, OneDetectQueued
<1> QED
  BY <1>1, <1>2, <1>3, TypeInvariant, PTL DEF Spec

-----------------------------------------------------------------------------
(* The mode and the answers.                                               *)

\* Which kind of task each part of process_task handles.
StageOfType ==
  /\ pc \in {"begin", "started", "session", "ended"} => cur.task.type \in Sessions
  /\ pc \in {"probe", "poll", "group"} => cur.task.type = "detect"
  /\ pc \in {"set", "readback", "get", "call", "na_probe", "na_remove"} =>
       cur.task.type \in OneCall \ {"detect"}

\* The running task has an application that is owed an answer, and none of
\* its answers was suppressed.
Due == cur.task.app # NoApp /\ ~ muted

Unanswered == {"copy", "start", "begin", "started", "set", "readback", "get", "call",
               "probe", "na_probe", "na_remove"}

\* How many answers have gone out where.
AnswersSoFar ==
  /\ pc \in Unanswered /\ Due => answers = 0
  /\ pc \in {"session", "ended"} /\ Due => answers = 1
  /\ pc \in {"poll", "group"} /\ Due => answers >= 1

TaskInv == TypeOK /\ ModeMatchesTask /\ StageOfType /\ AnswersSoFar /\ AnsweredWhenDone

\* An answer that is not suppressed counts, whatever it says.
LEMMA AnswerCounts ==
  ASSUME TypeOK, NEW event, Answer(event), UNCHANGED cur, Due'
  PROVE  Due /\ answers' = IF answers = MaxAnswers THEN answers ELSE answers + 1
<1>1. ~ muted' /\ cur.task.app # NoApp
  BY DEF Due
<1>2. muted' = (muted \/ Dropped(event))
  BY DEF Answer
<1>3. ~ muted /\ ~ Dropped(event)
  BY <1>1, <1>2, Zenon
<1> QED
  BY <1>1, <1>3 DEF Due, Answer

LEMMA NoAnswerCounts ==
  ASSUME NoAnswer, UNCHANGED cur
  PROVE  (Due' <=> Due) /\ answers' = answers
BY DEF NoAnswer, Due

\* What AnsweredWhenDone asks of a task, in terms of Due.
LEMMA DoneMeans ==
  ASSUME TypeOK,
         pc = "leave" /\ Due =>
           /\ cur.task.type = "detect" => answers >= 1
           /\ cur.task.type = "delete" => answers = 2
           /\ cur.task.type \notin {"detect", "delete"} => answers = 1
  PROVE  AnsweredWhenDone
BY DEF AnsweredWhenDone, Due

\* Where nothing of the running task changes, neither do its invariants.
LEMMA TaskUntouched ==
  ASSUME TaskInv, UNCHANGED <<mode, cur, answers, muted>>,
         pc' = pc \/ {pc, pc'} \subseteq {"check", "sleep", "wait", "pop"}
  PROVE  ModeMatchesTask' /\ StageOfType' /\ AnswersSoFar' /\ AnsweredWhenDone'
<1>1. CASE pc' = pc
  BY <1>1 DEF TaskInv, ModeMatchesTask, ModeOfTask, StageOfType, AnswersSoFar,
              AnsweredWhenDone, Due
<1>2. CASE {pc, pc'} \subseteq {"check", "sleep", "wait", "pop"}
  BY <1>2 DEF TaskInv, ModeMatchesTask, ModeOfTask, StageOfType, AnswersSoFar,
              AnsweredWhenDone, InTask, Unanswered
<1> QED
  BY <1>1, <1>2

\* A task that is over leaves the mode IDLE.
LEMMA ReturnInv ==
  ASSUME Return, mode' = "IDLE"
  PROVE  ModeMatchesTask' /\ StageOfType' /\ AnswersSoFar' /\ AnsweredWhenDone'
BY DEF Return, ModeMatchesTask, ModeOfTask, StageOfType, AnswersSoFar,
       AnsweredWhenDone, InTask, Unanswered

\* A task that goes on, from one place to another, with the answers it owes.
LEMMA ContinueInv ==
  ASSUME TaskInv, TypeOK', UNCHANGED cur, pc' \in InTask,
         StageOfType', mode' = ModeOfTask',
         Due' => /\ pc' \in Unanswered => answers' = 0
                 /\ pc' \in {"session", "ended"} => answers' = 1
                 /\ pc' \in {"poll", "group"} => answers' >= 1
                 /\ pc' = "leave" =>
                      /\ cur.task.type = "detect" => answers' >= 1
                      /\ cur.task.type = "delete" => answers' = 2
                      /\ cur.task.type \notin {"detect", "delete"} => answers' = 1
  PROVE  ModeMatchesTask' /\ StageOfType' /\ AnswersSoFar' /\ AnsweredWhenDone'
<1>1. ModeMatchesTask' /\ AnswersSoFar'
  BY DEF ModeMatchesTask, AnswersSoFar
<1>2. AnsweredWhenDone'
  BY DEF AnsweredWhenDone, Due
<1> QED
  BY <1>1, <1>2

\* The mode other threads read is that of the running task, so process_task
\* never refuses one; and on every path through it the application is sent
\* the answers its request has coming, no more and no fewer.
THEOREM TaskIsAnswered == Spec => [](ModeMatchesTask /\ AnsweredWhenDone)
<1>1. Init /\ TypeOK => TaskInv
  BY DEF Init, TaskInv, ModeMatchesTask, ModeOfTask, StageOfType, AnswersSoFar,
         AnsweredWhenDone, InTask, Unanswered
<1>2. TaskInv /\ TypeOK' /\ [Next]_vars => TaskInv'
  <2> SUFFICES ASSUME TaskInv, TypeOK', [Next]_vars
               PROVE  ModeMatchesTask' /\ StageOfType' /\ AnswersSoFar' /\ AnsweredWhenDone'
    BY DEF TaskInv
  <2>t. TypeOK
    BY DEF TaskInv
  <2> DEFINE Goal == ModeMatchesTask' /\ StageOfType' /\ AnswersSoFar' /\ AnsweredWhenDone'
  <2>1. ASSUME NEW a \in Adders, TaskAdd(a) PROVE Goal
    BY <2>1, TaskUntouched
       DEF TaskAdd, ReadMode, CompareRunning, LookInQueue, InsertTask, Signal, taskVars
  <2>2. CASE Environment \/ EndScan
    BY <2>t, <2>2, EnvironmentFrame, TaskUntouched DEF taskVars
  <2>3. CASE FindWork \/ FallAsleep \/ WakeSpuriously
    BY <2>3, TaskUntouched DEF FindWork, FallAsleep, WakeSpuriously
  <2>4. CASE Pop
    <3>1. pc = "pop" /\ pc' \in {"stopped", "copy"} /\ answers' = 0 /\ UNCHANGED mode
      <4>1. pc = "pop" /\ pc' \in {"stopped", "copy"}
        BY <2>4, Zenon DEF Pop
      <4>2. answers' = 0 /\ UNCHANGED mode
        BY <2>4, Zenon DEF Pop
      <4> QED
        BY <4>1, <4>2
    <3> QED
      BY <3>1 DEF TaskInv, ModeMatchesTask, ModeOfTask, StageOfType, AnswersSoFar,
                  AnsweredWhenDone, InTask, Unanswered
  <2>5. CASE Copy
    BY <2>5 DEF Copy, TaskInv, ModeMatchesTask, ModeOfTask, StageOfType, AnswersSoFar,
                AnsweredWhenDone, InTask, Unanswered, Due
  <2>6. CASE Start
    <3>1. pc = "start" /\ mode = "IDLE"
      BY <2>6 DEF Start, TaskInv, ModeMatchesTask, ModeOfTask, InTask
    <3>2. /\ NoAnswer
          /\ mode' = IF cur.task.type \in OneCall THEN "RUNNING" ELSE "IDLE"
          /\ IF cur.task.type \in OneCall \cup Sessions
             THEN Continue(FirstStage(cur.task.type)) ELSE Return
      BY <2>6, <3>1 DEF Start
    <3>3. CASE cur.task.type \in OneCall \cup Sessions
      <4>1. pc' = FirstStage(cur.task.type) /\ UNCHANGED cur
        BY <3>2, <3>3 DEF Continue
      <4>2. OneCall \cap Sessions = {}
        BY DEF OneCall, Simple, Sessions
      <4>3. pc' \in Unanswered /\ pc' \in InTask /\ StageOfType'
        BY <3>3, <4>1, FirstStageInTask DEF StageOfType, Unanswered, InTask, OneCall, Sessions
      <4>4. mode' = ModeOfTask'
        BY <3>2, <3>3, <4>1, <4>2, FirstStageInTask DEF ModeOfTask, InTask, Sessions
      <4>5. Due' => answers' = 0
        BY <3>1, <3>2, <4>1, NoAnswerCounts DEF TaskInv, AnswersSoFar, Unanswered
      <4> QED
        BY <4>1, <4>3, <4>4, <4>5, ContinueInv DEF Unanswered
    <3>4. CASE cur.task.type \notin OneCall \cup Sessions
      BY <3>2, <3>4, ReturnInv
    <3> QED
      BY <3>3, <3>4
  <2>7. CASE Leave
    BY <2>7, ReturnInv DEF Leave
  <2> USE DEF Finish, Retry, Count, Still, Continue
  <2>8. CASE BeginSession
    <3>1. /\ pc = "begin" /\ NoAnswer /\ UNCHANGED mode /\ mode = "IDLE"
          /\ cur.task.type \in Sessions
          /\ Return \/ (pc' \in {"begin", "started"} /\ UNCHANGED cur)
      BY <2>8 DEF BeginSession, TaskInv, ModeMatchesTask, ModeOfTask, StageOfType
    <3>2. CASE Return
      BY <3>1, <3>2, ReturnInv
    <3>3. CASE pc' \in {"begin", "started"} /\ UNCHANGED cur
      <4>1. StageOfType' /\ mode' = ModeOfTask' /\ pc' \in InTask
        BY <3>1, <3>3 DEF StageOfType, ModeOfTask, InTask
      <4>2. Due' => answers' = 0
        BY <3>1, <3>3, NoAnswerCounts DEF TaskInv, AnswersSoFar, Unanswered
      <4> QED
        BY <3>3, <4>1, <4>2, ContinueInv
    <3> QED
      BY <3>1, <3>2, <3>3
  <2>9. CASE EnterSession
    <3>1. /\ pc = "started" /\ UNCHANGED cur /\ pc' \in InTask
          /\ StageOfType' /\ mode' = ModeOfTask'
      BY <2>9 DEF EnterSession, TaskInv, ModeMatchesTask, ModeOfTask, StageOfType, InTask,
                    Sessions, OneCall, Simple
    <3>2. Due' => /\ pc' \in Unanswered => answers' = 0
                  /\ pc' \in {"session", "ended"} => answers' = 1
                  /\ pc' \in {"poll", "group"} => answers' >= 1
                  /\ pc' = "leave" =>
                       /\ cur.task.type = "detect" => answers' >= 1
                       /\ cur.task.type = "delete" => answers' = 2
                       /\ cur.task.type \notin {"detect", "delete"} => answers' = 1
      BY <2>t, <2>9, <3>1, AnswerCounts, NoAnswerCounts
         DEF EnterSession, TaskInv, AnswersSoFar, StageOfType, Unanswered, TypeOK, MaxAnswers,
             OneCall, Sessions, Simple
    <3> QED
      BY <3>1, <3>2, ContinueInv
  <2>10. CASE SessionOver
    <3>1. /\ pc = "session" /\ UNCHANGED cur /\ pc' \in InTask
          /\ StageOfType' /\ mode' = ModeOfTask'
      BY <2>10 DEF SessionOver, TaskInv, ModeMatchesTask, ModeOfTask, StageOfType, InTask,
                    Sessions, OneCall, Simple
    <3>2. Due' => /\ pc' \in Unanswered => answers' = 0
                  /\ pc' \in {"session", "ended"} => answers' = 1
                  /\ pc' \in {"poll", "group"} => answers' >= 1
                  /\ pc' = "leave" =>
                       /\ cur.task.type = "detect" => answers' >= 1
                       /\ cur.task.type = "delete" => answers' = 2
                       /\ cur.task.type \notin {"detect", "delete"} => answers' = 1
      BY <2>t, <2>10, <3>1, AnswerCounts, NoAnswerCounts
         DEF SessionOver, TaskInv, AnswersSoFar, StageOfType, Unanswered, TypeOK, MaxAnswers,
             OneCall, Sessions, Simple
    <3> QED
      BY <3>1, <3>2, ContinueInv
  <2>11. CASE Conclude
    <3>1. /\ pc = "ended" /\ UNCHANGED cur /\ pc' \in InTask
          /\ StageOfType' /\ mode' = ModeOfTask'
      BY <2>11 DEF Conclude, TaskInv, ModeMatchesTask, ModeOfTask, StageOfType, InTask,
                    Sessions, OneCall, Simple
    <3>2. Due' => /\ pc' \in Unanswered => answers' = 0
                  /\ pc' \in {"session", "ended"} => answers' = 1
                  /\ pc' \in {"poll", "group"} => answers' >= 1
                  /\ pc' = "leave" =>
                       /\ cur.task.type = "detect" => answers' >= 1
                       /\ cur.task.type = "delete" => answers' = 2
                       /\ cur.task.type \notin {"detect", "delete"} => answers' = 1
      BY <2>t, <2>11, <3>1, AnswerCounts, NoAnswerCounts
         DEF Conclude, TaskInv, AnswersSoFar, StageOfType, Unanswered, TypeOK, MaxAnswers,
             OneCall, Sessions, Simple
    <3> QED
      BY <3>1, <3>2, ContinueInv
  <2>12. CASE SetValue
    <3>1. /\ pc = "set" /\ UNCHANGED cur /\ pc' \in InTask
          /\ StageOfType' /\ mode' = ModeOfTask'
      BY <2>12 DEF SetValue, TaskInv, ModeMatchesTask, ModeOfTask, StageOfType, InTask,
                    Sessions, OneCall, Simple
    <3>2. Due' => /\ pc' \in Unanswered => answers' = 0
                  /\ pc' \in {"session", "ended"} => answers' = 1
                  /\ pc' \in {"poll", "group"} => answers' >= 1
                  /\ pc' = "leave" =>
                       /\ cur.task.type = "detect" => answers' >= 1
                       /\ cur.task.type = "delete" => answers' = 2
                       /\ cur.task.type \notin {"detect", "delete"} => answers' = 1
      BY <2>t, <2>12, <3>1, AnswerCounts, NoAnswerCounts
         DEF SetValue, TaskInv, AnswersSoFar, StageOfType, Unanswered, TypeOK, MaxAnswers,
             OneCall, Sessions, Simple
    <3> QED
      BY <3>1, <3>2, ContinueInv
  <2>13. CASE ReadBack
    <3>1. /\ pc = "readback" /\ UNCHANGED cur /\ pc' \in InTask
          /\ StageOfType' /\ mode' = ModeOfTask'
      BY <2>13 DEF ReadBack, TaskInv, ModeMatchesTask, ModeOfTask, StageOfType, InTask,
                    Sessions, OneCall, Simple
    <3>2. Due' => /\ pc' \in Unanswered => answers' = 0
                  /\ pc' \in {"session", "ended"} => answers' = 1
                  /\ pc' \in {"poll", "group"} => answers' >= 1
                  /\ pc' = "leave" =>
                       /\ cur.task.type = "detect" => answers' >= 1
                       /\ cur.task.type = "delete" => answers' = 2
                       /\ cur.task.type \notin {"detect", "delete"} => answers' = 1
      BY <2>t, <2>13, <3>1, AnswerCounts, NoAnswerCounts
         DEF ReadBack, TaskInv, AnswersSoFar, StageOfType, Unanswered, TypeOK, MaxAnswers,
             OneCall, Sessions, Simple
    <3> QED
      BY <3>1, <3>2, ContinueInv
  <2>14. CASE GetValue
    <3>1. /\ pc = "get" /\ UNCHANGED cur /\ pc' \in InTask
          /\ StageOfType' /\ mode' = ModeOfTask'
      BY <2>14 DEF GetValue, TaskInv, ModeMatchesTask, ModeOfTask, StageOfType, InTask,
                    Sessions, OneCall, Simple
    <3>2. Due' => /\ pc' \in Unanswered => answers' = 0
                  /\ pc' \in {"session", "ended"} => answers' = 1
                  /\ pc' \in {"poll", "group"} => answers' >= 1
                  /\ pc' = "leave" =>
                       /\ cur.task.type = "detect" => answers' >= 1
                       /\ cur.task.type = "delete" => answers' = 2
                       /\ cur.task.type \notin {"detect", "delete"} => answers' = 1
      BY <2>t, <2>14, <3>1, AnswerCounts, NoAnswerCounts
         DEF GetValue, TaskInv, AnswersSoFar, StageOfType, Unanswered, TypeOK, MaxAnswers,
             OneCall, Sessions, Simple
    <3> QED
      BY <3>1, <3>2, ContinueInv
  <2>15. CASE CallOnce
    <3>1. /\ pc = "call" /\ UNCHANGED cur /\ pc' \in InTask
          /\ StageOfType' /\ mode' = ModeOfTask'
      BY <2>15 DEF CallOnce, TaskInv, ModeMatchesTask, ModeOfTask, StageOfType, InTask,
                    Sessions, OneCall, Simple
    <3>2. Due' => /\ pc' \in Unanswered => answers' = 0
                  /\ pc' \in {"session", "ended"} => answers' = 1
                  /\ pc' \in {"poll", "group"} => answers' >= 1
                  /\ pc' = "leave" =>
                       /\ cur.task.type = "detect" => answers' >= 1
                       /\ cur.task.type = "delete" => answers' = 2
                       /\ cur.task.type \notin {"detect", "delete"} => answers' = 1
      BY <2>t, <2>15, <3>1, AnswerCounts, NoAnswerCounts
         DEF CallOnce, TaskInv, AnswersSoFar, StageOfType, Unanswered, TypeOK, MaxAnswers,
             OneCall, Sessions, Simple
    <3> QED
      BY <3>1, <3>2, ContinueInv
  <2>16. CASE Probe
    <3>1. /\ pc = "probe" /\ UNCHANGED cur /\ pc' \in InTask
          /\ StageOfType' /\ mode' = ModeOfTask'
      BY <2>16 DEF Probe, TaskInv, ModeMatchesTask, ModeOfTask, StageOfType, InTask,
                    Sessions, OneCall, Simple
    <3>2. Due' => /\ pc' \in Unanswered => answers' = 0
                  /\ pc' \in {"session", "ended"} => answers' = 1
                  /\ pc' \in {"poll", "group"} => answers' >= 1
                  /\ pc' = "leave" =>
                       /\ cur.task.type = "detect" => answers' >= 1
                       /\ cur.task.type = "delete" => answers' = 2
                       /\ cur.task.type \notin {"detect", "delete"} => answers' = 1
      BY <2>t, <2>16, <3>1, AnswerCounts, NoAnswerCounts
         DEF Probe, TaskInv, AnswersSoFar, StageOfType, Unanswered, TypeOK, MaxAnswers,
             OneCall, Sessions, Simple
    <3> QED
      BY <3>1, <3>2, ContinueInv
  <2>17. CASE Poll
    <3>1. /\ pc = "poll" /\ UNCHANGED cur /\ pc' \in InTask
          /\ StageOfType' /\ mode' = ModeOfTask'
      BY <2>17 DEF Poll, TaskInv, ModeMatchesTask, ModeOfTask, StageOfType, InTask,
                    Sessions, OneCall, Simple
    <3>2. Due' => /\ pc' \in Unanswered => answers' = 0
                  /\ pc' \in {"session", "ended"} => answers' = 1
                  /\ pc' \in {"poll", "group"} => answers' >= 1
                  /\ pc' = "leave" =>
                       /\ cur.task.type = "detect" => answers' >= 1
                       /\ cur.task.type = "delete" => answers' = 2
                       /\ cur.task.type \notin {"detect", "delete"} => answers' = 1
      BY <2>t, <2>17, <3>1, AnswerCounts, NoAnswerCounts
         DEF Poll, TaskInv, AnswersSoFar, StageOfType, Unanswered, TypeOK, MaxAnswers,
             OneCall, Sessions, Simple
    <3> QED
      BY <3>1, <3>2, ContinueInv
  <2>18. CASE ReadGroup
    <3>1. /\ pc = "group" /\ UNCHANGED cur /\ pc' \in InTask
          /\ StageOfType' /\ mode' = ModeOfTask'
      BY <2>18 DEF ReadGroup, TaskInv, ModeMatchesTask, ModeOfTask, StageOfType, InTask,
                    Sessions, OneCall, Simple
    <3>2. Due' => /\ pc' \in Unanswered => answers' = 0
                  /\ pc' \in {"session", "ended"} => answers' = 1
                  /\ pc' \in {"poll", "group"} => answers' >= 1
                  /\ pc' = "leave" =>
                       /\ cur.task.type = "detect" => answers' >= 1
                       /\ cur.task.type = "delete" => answers' = 2
                       /\ cur.task.type \notin {"detect", "delete"} => answers' = 1
      BY <2>t, <2>18, <3>1, AnswerCounts, NoAnswerCounts
         DEF ReadGroup, TaskInv, AnswersSoFar, StageOfType, Unanswered, TypeOK, MaxAnswers,
             OneCall, Sessions, Simple
    <3> QED
      BY <3>1, <3>2, ContinueInv
  <2>19. CASE NaProbe
    <3>1. /\ pc = "na_probe" /\ UNCHANGED cur /\ pc' \in InTask
          /\ StageOfType' /\ mode' = ModeOfTask'
      BY <2>19 DEF NaProbe, TaskInv, ModeMatchesTask, ModeOfTask, StageOfType, InTask,
                    Sessions, OneCall, Simple
    <3>2. Due' => /\ pc' \in Unanswered => answers' = 0
                  /\ pc' \in {"session", "ended"} => answers' = 1
                  /\ pc' \in {"poll", "group"} => answers' >= 1
                  /\ pc' = "leave" =>
                       /\ cur.task.type = "detect" => answers' >= 1
                       /\ cur.task.type = "delete" => answers' = 2
                       /\ cur.task.type \notin {"detect", "delete"} => answers' = 1
      BY <2>t, <2>19, <3>1, AnswerCounts, NoAnswerCounts
         DEF NaProbe, TaskInv, AnswersSoFar, StageOfType, Unanswered, TypeOK, MaxAnswers,
             OneCall, Sessions, Simple
    <3> QED
      BY <3>1, <3>2, ContinueInv
  <2>20. CASE NaRemove
    <3>1. /\ pc = "na_remove" /\ UNCHANGED cur /\ pc' \in InTask
          /\ StageOfType' /\ mode' = ModeOfTask'
      BY <2>20 DEF NaRemove, TaskInv, ModeMatchesTask, ModeOfTask, StageOfType, InTask,
                    Sessions, OneCall, Simple
    <3>2. Due' => /\ pc' \in Unanswered => answers' = 0
                  /\ pc' \in {"session", "ended"} => answers' = 1
                  /\ pc' \in {"poll", "group"} => answers' >= 1
                  /\ pc' = "leave" =>
                       /\ cur.task.type = "detect" => answers' >= 1
                       /\ cur.task.type = "delete" => answers' = 2
                       /\ cur.task.type \notin {"detect", "delete"} => answers' = 1
      BY <2>t, <2>20, <3>1, AnswerCounts, NoAnswerCounts
         DEF NaRemove, TaskInv, AnswersSoFar, StageOfType, Unanswered, TypeOK, MaxAnswers,
             OneCall, Sessions, Simple
    <3> QED
      BY <3>1, <3>2, ContinueInv
  <2>21. CASE UNCHANGED vars
    BY <2>21, TaskUntouched DEF vars, taskVars
  <2> QED
    BY <2>1, <2>2, <2>3, <2>4, <2>5, <2>6, <2>7, <2>8, <2>9, <2>10, <2>11, <2>12, <2>13, <2>14, <2>15, <2>16, <2>17, <2>18, <2>19, <2>20, <2>21 DEF Next, TaskThread, ProcessTask
<1>3. TaskInv => ModeMatchesTask /\ AnsweredWhenDone
  BY DEF TaskInv
<1> QED
  BY <1>1, <1>2, <1>3, TypeInvariant, PTL DEF Spec

\* g_zw_controller_mode says what the task thread is at, for every order of the
\* threads that read it.
THEOREM ModeFollowsTask == Spec => []ModeMatchesTask
<1> QED
  BY TaskIsAnswered, PTL
=============================================================================
