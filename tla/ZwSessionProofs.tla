-------------------------- MODULE ZwSessionProofs --------------------------
(***************************************************************************)
(* Proofs about the add and remove sessions of the Z-Wave driver, for any  *)
(* number of calls: the types, that the mutex of an open session always    *)
(* has a thread to release it, and what holds as long as no two ends of a  *)
(* session overlap.                                                        *)
(***************************************************************************)
EXTENDS ZwSession, SequenceTheorems, TLAPS

-----------------------------------------------------------------------------
(* The inductive invariant.                                                *)

\* The messages of ZW_msgProcess are bounded: a session's timer and learn handler
\* add one each.
One(b) == IF b THEN 1 ELSE 0
ToCome ==
  One(timer = "armed" \/ at.timer = "fire")
  + One(learner # None \/ at.learn \in {"cancel", "halt"})
  + One(at.task \in {"lock", "ask"})
  + One(at.task \in {"lock", "ask", "register", "start_timer"})
CountInv == Len(inbox) + ToCome <= 2 * calls

\* As long as no two ends overlapped: the message thread is not stopping a session ...
Idle == at.msg \in {"idle", "test"}
NoTimeout == at.timer = "idle"
Empty == inbox = << >> /\ at.proc = "idle"

\* ... outside sessions nothing is under way, but for the learn thread's unlock.
OutsideInv ==
  /\ at.task \notin {"clear", "halt", "unlock", "notify"}
  /\ ~ Open => /\ Idle /\ NoTimeout /\ Empty /\ at.learn \in {"idle", "unlock"}
               /\ timer = "off" /\ (flag # None <=> at.task = "start_timer")

\* The flag stands for the session and its mutex.
FlagInv == flag # None => flag = kind /\ callback = kind /\ cmd = "task"

LockInv ==
  at.task \in {"ask", "register", "start_timer", "op"} => cmd = "task" /\ at.learn = "idle"

\* The timer and the learn handler are those of a session that was not ended.
LiveInv ==
  /\ timer = "armed" => flag # None \/ at.learn = "cancel"
  /\ Open \/ at.task \in {"register", "start_timer"} => learner \in {None, kind}
  /\ Open /\ learner # None =>
       flag # None \/ at.learn \in {"cancel", "halt"} \/ at.msg = "halt"

\* Ended by a stop: nothing else is.
StopInv ==
  /\ ~ Idle => NoTimeout /\ Empty /\ at.learn = "idle"
  /\ at.msg \in {"clear", "halt", "unlock"} => cmd = "task"
  /\ at.msg = "clear" => flag # None
  /\ at.msg \in {"halt", "unlock", "notify"} => flag = None /\ timer = "off"
  /\ at.msg \in {"unlock", "notify"} => learner = None

\* Ended by a frame.
LearnInv ==
  /\ at.learn # "idle" => flag = None /\ cmd = "task"
  /\ at.learn \in {"cancel", "halt"} =>
       NoTimeout /\ Empty /\ callback = kind /\ frame.session = kind
  /\ at.learn \in {"halt", "unlock"} => timer = "off"
  /\ at.learn = "unlock" => learner = None

\* Ended by the minute.
TimeoutInv ==
  at.timer = "fire" => timer = "armed" /\ flag # None /\ Empty /\ at.learn = "idle"

\* What is still to be told to ZW_msgProcess, and what it is at.
Reported == IF kind = "add" THEN "added" ELSE "removed"

InboxInv ==
  inbox # << >> =>
    /\ Len(inbox) = 1 /\ at.proc = "idle" /\ timer = "off" /\ NoTimeout
    /\ inbox[1] = "timeout" => flag # None /\ at.learn = "idle"
    /\ inbox[1] # "timeout" =>
         inbox[1] = Reported /\ flag = None /\ learner = None /\ callback = kind

ProcInv ==
  at.proc # "idle" =>
    /\ timer = "off" /\ NoTimeout /\ inbox = << >>
    /\ at.proc \in {"timeout", "clear"} => flag # None /\ at.learn = "idle"
    /\ at.proc = "clear" => learner = None
    /\ at.proc \notin {"timeout", "clear"} => flag = None /\ learner = None
    /\ at.proc \in {"lock", "prepare", "report_added", "query"} =>
         callback = kind /\ kind = "add"
    /\ at.proc = "report_removed" => callback = kind /\ kind = "remove"
    /\ at.proc \in {"prepare", "query"} => cmd = "proc"

Calm ==
  /\ ~ Race /\ OutsideInv /\ FlagInv /\ LockInv /\ LiveInv
  /\ StopInv /\ LearnInv /\ TimeoutInv /\ InboxInv /\ ProcInv

CalmInv == ~ raced => Calm

Inv == TypeOK /\ CountInv /\ LockHasReleaser /\ CalmInv

-----------------------------------------------------------------------------
(* Types and the bound on messages.                                        *)

LEMMA InboxAppend ==
  ASSUME NEW S, NEW s \in Seq(S), NEW e \in S
  PROVE  Append(s, e) \in Seq(S) /\ Len(Append(s, e)) = Len(s) + 1
  BY AppendProperties

LEMMA InboxTail ==
  ASSUME NEW S, NEW s \in Seq(S), s # << >>
  PROVE  Tail(s) \in Seq(S) /\ Len(Tail(s)) = Len(s) - 1 /\ Head(s) \in S /\ Len(s) \in Nat
  BY HeadTailProperties, LenProperties

LEMMA TypeInit == Init => TypeOK /\ CountInv
<1> SUFFICES ASSUME Init PROVE TypeOK /\ CountInv
  OBVIOUS
<1>1. at =
         [task |-> "idle", msg |-> "idle", learn |-> "idle",
          proc |-> "idle", timer |-> "idle"]
  BY DEF Init, Threads
<1>2. at \in Stages
  BY <1>1 DEF Stages
<1>3. inbox = << >> /\ inbox \in Seq(Messages) /\ Len(inbox) = 0
  BY EmptySeq DEF Init
<1>4. frame \in [type : {None, "known", "unknown"}, session : Kinds]
  BY DEF Init, NoFrame, Kinds
<1>5. missed \in BOOLEAN /\ silent \in BOOLEAN /\ raced \in BOOLEAN
  BY DEF Init
<1>6. TypeOK
  BY <1>2, <1>3, <1>4, <1>5, BoundsAssumption DEF Init, TypeOK, Kinds, None
<1>7. ToCome = 0
  BY <1>1, <1>3 DEF Init, ToCome, One
<1> QED
  BY <1>3, <1>6, <1>7, BoundsAssumption DEF Init, CountInv

\* A notification moves its thread and, if it waits, the task thread.
LEMMA NotifyMoves ==
  ASSUME NEW t \in {"task", "msg", "proc"}, TypeOK, Notify(t, "notify")
  PROVE  /\ at' \in Stages /\ missed' \in BOOLEAN
         /\ at[t] = "notify" /\ at'[t] = "idle"
         /\ at'.timer = at.timer /\ at'.learn = at.learn
         /\ t # "msg" => at'.msg = at.msg
         /\ t # "proc" => at'.proc = at.proc
         /\ t # "task" => at'.task = (IF at.task = "waiting" THEN "woken" ELSE at.task)
<1>1. missed' \in BOOLEAN
  BY DEF Notify, TypeOK
<1>2. at \in Stages
  BY DEF TypeOK
<1>3. CASE t = "task"
  BY <1>1, <1>2, <1>3 DEF Notify, Stages
<1>4. CASE t = "msg"
  BY <1>1, <1>2, <1>4 DEF Notify, Stages
<1>5. CASE t = "proc"
  BY <1>1, <1>2, <1>5 DEF Notify, Stages
<1> QED
  BY <1>3, <1>4, <1>5

LEMMA TypeTaskThread ==
  ASSUME TypeOK, CountInv, TaskThread, raced' \in BOOLEAN, ~ Stop("task")
  PROVE  TypeOK' /\ CountInv'
<1> USE BoundsAssumption DEF TypeOK, CountInv, ToCome, One, Go, Stages, None, Kinds,
      daemon, messages, history
<1>1. CASE LockCmd
  BY <1>1 DEF LockCmd
<1>2. CASE Ask
  BY <1>2 DEF Ask
<1>3. CASE Register
  BY <1>3 DEF Register
<1>4. CASE StartTimer
  BY <1>4 DEF StartTimer
<1>5. CASE SetMode
  BY <1>5 DEF SetMode
<1>6. CASE EnterWait
  BY <1>6 DEF EnterWait
<1>7. CASE LeaveSession
  BY <1>7 DEF LeaveSession
<1>8. CASE LockOp
  BY <1>8 DEF LockOp
<1>9. CASE EndOp
  BY <1>9 DEF EndOp
<1> QED
  BY <1>1, <1>2, <1>3, <1>4, <1>5, <1>6, <1>7, <1>8, <1>9 DEF TaskThread

LEMMA TypeStop ==
  ASSUME NEW t \in {"task", "msg"}, TypeOK, CountInv, Stop(t), raced' \in BOOLEAN
  PROVE  TypeOK' /\ CountInv'
<1> USE BoundsAssumption DEF TypeOK, CountInv, ToCome, One, Go, Stages, None, Kinds,
      daemon, messages, history
<1>1. CASE TestFlag(t)
  BY <1>1 DEF TestFlag
<1>2. CASE ClearFlag(t)
  BY <1>2 DEF ClearFlag
<1>3. CASE HaltLearning(t)
  BY <1>3 DEF HaltLearning
<1>4. CASE UnlockCmd(t)
  BY <1>4 DEF UnlockCmd
<1>5. CASE NotifyStopped(t)
  BY <1>5, NotifyMoves DEF NotifyStopped
<1> QED
  BY <1>1, <1>2, <1>3, <1>4, <1>5 DEF Stop

LEMMA TypeLearnHalt ==
  ASSUME TypeOK, CountInv, LearnHalt, raced' \in BOOLEAN
  PROVE  TypeOK' /\ CountInv'
<1>1. inbox' \in {inbox, Append(inbox, "added"), Append(inbox, "removed")}
  BY DEF LearnHalt
<1>2. inbox' \in Seq(Messages) /\ Len(inbox) \in Nat /\ Len(inbox') \in Nat
      /\ Len(inbox') <= Len(inbox) + 1
  BY SMTT(30), <1>1, InboxAppend, LenProperties DEF TypeOK, Messages
<1>3. at' \in Stages /\ at.learn = "halt" /\ at'.learn = "unlock" /\ at'.task = at.task
      /\ at'.timer = at.timer
  BY DEF LearnHalt, Go, TypeOK, Stages
<1>4. silent' \in BOOLEAN
  BY DEF LearnHalt, TypeOK
<1>5. frame' \in [type : {None, "known", "unknown"}, session : Kinds]
  BY DEF LearnHalt, NoFrame, Kinds
<1>6. CountInv'
  BY <1>2, <1>3, BoundsAssumption DEF LearnHalt, CountInv, ToCome, One, TypeOK, daemon, None
<1>7. TypeOK'
  BY <1>2, <1>3, <1>4, <1>5, <1>6, BoundsAssumption
     DEF LearnHalt, CountInv, ToCome, One, TypeOK, daemon, None
<1> QED
  BY <1>6, <1>7

LEMMA TypeLearnThread ==
  ASSUME TypeOK, CountInv, LearnThread, raced' \in BOOLEAN
  PROVE  TypeOK' /\ CountInv'
<1> USE BoundsAssumption DEF TypeOK, CountInv, ToCome, One, Go, Stages, None, Kinds,
      daemon, messages, history
<1>1. CASE LearnCancel
  BY <1>1 DEF LearnCancel
<1>2. CASE LearnHalt
  BY <1>2, TypeLearnHalt
<1>3. CASE LearnUnlock
  BY <1>3 DEF LearnUnlock
<1> QED
  BY <1>1, <1>2, <1>3 DEF LearnThread

LEMMA TypeTimerThread ==
  ASSUME TypeOK, CountInv, TimerThread, raced' \in BOOLEAN
  PROVE  TypeOK' /\ CountInv'
<1> USE BoundsAssumption DEF TypeOK, CountInv, ToCome, One, Go, Stages, None, Kinds,
      daemon, messages, history
<1>1. CASE TimerExpires
  BY <1>1 DEF TimerExpires
<1>2. CASE TimerFires
  BY <1>2, InboxAppend DEF TimerFires, Messages
<1> QED
  BY <1>1, <1>2 DEF TimerThread

LEMMA TypeProcThread ==
  ASSUME TypeOK, CountInv, ProcThread, raced' \in BOOLEAN
  PROVE  TypeOK' /\ CountInv'
<1> USE BoundsAssumption DEF TypeOK, CountInv, ToCome, One, Go, Stages, None, Kinds,
      daemon, messages, history
<1>1. CASE TakeMessage
  BY <1>1, InboxTail DEF TakeMessage
<1>2. CASE TimeoutHalt
  BY <1>2 DEF TimeoutHalt
<1>3. CASE TimeoutUnlock
  BY <1>3 DEF TimeoutUnlock
<1>4. CASE ReportFailure
  BY <1>4 DEF ReportFailure
<1>5. CASE LockNode
  BY <1>5 DEF LockNode
<1>6. CASE PrepareNode
  BY <1>6 DEF PrepareNode
<1>7. CASE QueryNode
  BY <1>7 DEF QueryNode
<1>8. CASE EndQuery
  BY <1>8 DEF EndQuery
<1>9. CASE ReportNode
  BY <1>9 DEF ReportNode
<1>10. CASE NotifyDone
  BY <1>10, NotifyMoves DEF NotifyDone
<1> QED
  BY <1>1, <1>2, <1>3, <1>4, <1>5, <1>6, <1>7, <1>8, <1>9, <1>10 DEF ProcThread

LEMMA TypeEnvironment ==
  ASSUME TypeOK, CountInv, Environment, raced' \in BOOLEAN
  PROVE  TypeOK' /\ CountInv'
<1> USE BoundsAssumption DEF TypeOK, CountInv, ToCome, One, Go, Stages, None, Kinds,
      daemon, messages, history
<1>1. CASE \E k \in Kinds : BeginSession(k)
  <2>1. missed' \in BOOLEAN /\ silent' \in BOOLEAN
    BY <1>1 DEF BeginSession
  <2> QED
    BY <1>1, <2>1, LenProperties DEF BeginSession
<1>2. CASE BeginOp
  BY <1>2 DEF BeginOp
<1>3. CASE StopRequest
  BY <1>3 DEF StopRequest
<1>4. CASE \E type \in {"known", "unknown"} : LearnDone(type)
  BY <1>4 DEF LearnDone
<1>5. CASE LearnFailed
  BY <1>5 DEF LearnFailed
<1> QED
  BY <1>1, <1>2, <1>3, <1>4, <1>5 DEF Environment

LEMMA TypeWake ==
  ASSUME TypeOK, CountInv, WakeSpuriously, raced' \in BOOLEAN
  PROVE  TypeOK' /\ CountInv'
  BY BoundsAssumption DEF TypeOK, CountInv, ToCome, One, Go, Stages, None, Kinds, daemon,
     messages, history, WakeSpuriously

-----------------------------------------------------------------------------
(* The mutex of a session.                                                 *)

LEMMA LockTaskThread ==
  ASSUME TypeOK, LockHasReleaser, TaskThread, ~ Stop("task")
  PROVE  LockHasReleaser'
<1> USE DEF TypeOK, Stages, None, Kinds, LockHasReleaser, Stopping, LearnEnding, Go,
      daemon, messages, history
<1>1. CASE LockCmd
  BY <1>1 DEF LockCmd
<1>2. CASE Ask
  BY <1>2 DEF Ask
<1>3. CASE Register
  BY <1>3 DEF Register
<1>4. CASE StartTimer
  BY <1>4 DEF StartTimer
<1>5. CASE SetMode
  BY <1>5 DEF SetMode
<1>6. CASE EnterWait
  BY <1>6 DEF EnterWait
<1>7. CASE LeaveSession
  BY <1>7 DEF LeaveSession
<1>8. CASE LockOp
  BY <1>8 DEF LockOp
<1>9. CASE EndOp
  BY <1>9 DEF EndOp
<1> QED
  BY <1>1, <1>2, <1>3, <1>4, <1>5, <1>6, <1>7, <1>8, <1>9 DEF TaskThread

LEMMA LockStop ==
  ASSUME NEW t \in {"task", "msg"}, TypeOK, LockHasReleaser, Stop(t)
  PROVE  LockHasReleaser'
<1> USE DEF TypeOK, Stages, None, Kinds, LockHasReleaser, Stopping, LearnEnding, Go,
      daemon, messages, history
<1>1. CASE TestFlag(t)
  BY <1>1 DEF TestFlag
<1>2. CASE ClearFlag(t)
  BY <1>2 DEF ClearFlag
<1>3. CASE HaltLearning(t)
  BY <1>3 DEF HaltLearning
<1>4. CASE UnlockCmd(t)
  BY <1>4 DEF UnlockCmd
<1>5. CASE NotifyStopped(t)
  BY <1>5, NotifyMoves DEF NotifyStopped
<1> QED
  BY <1>1, <1>2, <1>3, <1>4, <1>5 DEF Stop

LEMMA LockLearnThread ==
  ASSUME TypeOK, LockHasReleaser, LearnThread
  PROVE  LockHasReleaser'
<1> USE DEF TypeOK, Stages, None, Kinds, LockHasReleaser, Stopping, LearnEnding, Go,
      daemon, messages, history
<1>1. CASE LearnCancel
  BY <1>1 DEF LearnCancel
<1>2. CASE LearnHalt
  BY <1>2 DEF LearnHalt
<1>3. CASE LearnUnlock
  BY <1>3 DEF LearnUnlock
<1> QED
  BY <1>1, <1>2, <1>3 DEF LearnThread

LEMMA LockTimerThread ==
  ASSUME TypeOK, LockHasReleaser, TimerThread
  PROVE  LockHasReleaser'
<1> USE DEF TypeOK, Stages, None, Kinds, LockHasReleaser, Stopping, LearnEnding, Go,
      daemon, messages, history
<1>1. CASE TimerExpires
  BY <1>1 DEF TimerExpires
<1>2. CASE TimerFires
  BY <1>2 DEF TimerFires
<1> QED
  BY <1>1, <1>2 DEF TimerThread

LEMMA LockProcThread ==
  ASSUME TypeOK, LockHasReleaser, ProcThread
  PROVE  LockHasReleaser'
<1> USE DEF TypeOK, Stages, None, Kinds, LockHasReleaser, Stopping, LearnEnding, Go,
      daemon, messages, history
<1>1. CASE TakeMessage
  BY <1>1 DEF TakeMessage
<1>2. CASE TimeoutHalt
  BY <1>2 DEF TimeoutHalt
<1>3. CASE TimeoutUnlock
  BY <1>3 DEF TimeoutUnlock
<1>4. CASE ReportFailure
  BY <1>4 DEF ReportFailure
<1>5. CASE LockNode
  BY <1>5 DEF LockNode
<1>6. CASE PrepareNode
  BY <1>6 DEF PrepareNode
<1>7. CASE QueryNode
  BY <1>7 DEF QueryNode
<1>8. CASE EndQuery
  BY <1>8 DEF EndQuery
<1>9. CASE ReportNode
  BY <1>9 DEF ReportNode
<1>10. CASE NotifyDone
  BY <1>10, NotifyMoves DEF NotifyDone
<1> QED
  BY <1>1, <1>2, <1>3, <1>4, <1>5, <1>6, <1>7, <1>8, <1>9, <1>10 DEF ProcThread

LEMMA LockEnvironment ==
  ASSUME TypeOK, LockHasReleaser, Environment
  PROVE  LockHasReleaser'
<1> USE DEF TypeOK, Stages, None, Kinds, LockHasReleaser, Stopping, LearnEnding, Go,
      daemon, messages, history
<1>1. CASE \E k \in Kinds : BeginSession(k)
  BY <1>1 DEF BeginSession
<1>2. CASE BeginOp
  BY <1>2 DEF BeginOp
<1>3. CASE StopRequest
  BY <1>3 DEF StopRequest
<1>4. CASE \E type \in {"known", "unknown"} : LearnDone(type)
  BY <1>4 DEF LearnDone
<1>5. CASE LearnFailed
  BY <1>5 DEF LearnFailed
<1> QED
  BY <1>1, <1>2, <1>3, <1>4, <1>5 DEF Environment

LEMMA LockWake ==
  ASSUME TypeOK, LockHasReleaser, WakeSpuriously
  PROVE  LockHasReleaser'
  BY DEF TypeOK, Stages, None, Kinds, LockHasReleaser, Stopping, LearnEnding, Go, daemon,
     messages, history, WakeSpuriously

-----------------------------------------------------------------------------
(* What holds until two ends overlap.                                      *)

LEMMA CalmTaskThread ==
  ASSUME TypeOK, TypeOK', Calm, ~ Race', TaskThread, ~ Stop("task")
  PROVE  Calm'
<1> USE DEF TypeOK, Stages, None, Kinds, Stopping, LearnEnding, Go, daemon, messages,
      history, Calm, Race, Open, TimingOut, OutsideInv, FlagInv, LockInv, LiveInv,
      StopInv, LearnInv, TimeoutInv, InboxInv, ProcInv, Idle, NoTimeout, Empty,
      Reported
<1>1. CASE LockCmd
  BY <1>1 DEF LockCmd
<1>2. CASE Ask
  BY <1>2 DEF Ask
<1>3. CASE Register
  BY <1>3 DEF Register
<1>4. CASE StartTimer
  BY <1>4 DEF StartTimer
<1>5. CASE SetMode
  BY <1>5 DEF SetMode
<1>6. CASE EnterWait
  BY <1>6 DEF EnterWait
<1>7. CASE LeaveSession
  BY <1>7 DEF LeaveSession
<1>8. CASE LockOp
  BY <1>8 DEF LockOp
<1>9. CASE EndOp
  BY <1>9 DEF EndOp
<1> QED
  BY <1>1, <1>2, <1>3, <1>4, <1>5, <1>6, <1>7, <1>8, <1>9 DEF TaskThread

LEMMA CalmStop ==
  ASSUME NEW t \in {"task", "msg"}, TypeOK, TypeOK', Calm, ~ Race', Stop(t)
  PROVE  Calm'
<1> USE DEF TypeOK, Stages, None, Kinds, Stopping, LearnEnding, Go, daemon, messages,
      history, Calm, Race, Open, TimingOut, OutsideInv, FlagInv, LockInv, LiveInv,
      StopInv, LearnInv, TimeoutInv, InboxInv, ProcInv, Idle, NoTimeout, Empty,
      Reported
<1>1. CASE TestFlag(t)
  BY <1>1 DEF TestFlag
<1>2. CASE ClearFlag(t)
  BY <1>2 DEF ClearFlag
<1>3. CASE HaltLearning(t)
  BY <1>3 DEF HaltLearning
<1>4. CASE UnlockCmd(t)
  BY <1>4 DEF UnlockCmd
<1>5. CASE NotifyStopped(t)
  BY <1>5, NotifyMoves DEF NotifyStopped
<1> QED
  BY <1>1, <1>2, <1>3, <1>4, <1>5 DEF Stop

LEMMA CalmLearnThread ==
  ASSUME TypeOK, TypeOK', Calm, ~ Race', LearnThread
  PROVE  Calm'
<1> USE DEF TypeOK, Stages, None, Kinds, Stopping, LearnEnding, Go, daemon, messages,
      history, Calm, Race, Open, TimingOut, OutsideInv, FlagInv, LockInv, LiveInv,
      StopInv, LearnInv, TimeoutInv, InboxInv, ProcInv, Idle, NoTimeout, Empty,
      Reported
<1>1. CASE LearnCancel
  BY <1>1 DEF LearnCancel
<1>2. CASE LearnHalt
  BY <1>2, InboxAppend DEF LearnHalt, Messages
<1>3. CASE LearnUnlock
  BY <1>3 DEF LearnUnlock
<1> QED
  BY <1>1, <1>2, <1>3 DEF LearnThread

LEMMA CalmTimerThread ==
  ASSUME TypeOK, TypeOK', Calm, ~ Race', TimerThread
  PROVE  Calm'
<1> USE DEF TypeOK, Stages, None, Kinds, Stopping, LearnEnding, Go, daemon, messages,
      history, Calm, Race, Open, TimingOut, OutsideInv, FlagInv, LockInv, LiveInv,
      StopInv, LearnInv, TimeoutInv, InboxInv, ProcInv, Idle, NoTimeout, Empty,
      Reported
<1>1. CASE TimerExpires
  BY <1>1 DEF TimerExpires
<1>2. CASE TimerFires
  BY <1>2, InboxAppend DEF TimerFires, Messages
<1> QED
  BY <1>1, <1>2 DEF TimerThread

LEMMA CalmProcThread ==
  ASSUME TypeOK, TypeOK', Calm, ~ Race', ProcThread
  PROVE  Calm'
<1> USE DEF TypeOK, Stages, None, Kinds, Stopping, LearnEnding, Go, daemon, messages,
      history, Calm, Race, Open, TimingOut, OutsideInv, FlagInv, LockInv, LiveInv,
      StopInv, LearnInv, TimeoutInv, InboxInv, ProcInv, Idle, NoTimeout, Empty,
      Reported
<1>1. CASE TakeMessage
  BY <1>1, InboxTail DEF TakeMessage, Messages
<1>2. CASE TimeoutHalt
  BY <1>2 DEF TimeoutHalt
<1>3. CASE TimeoutUnlock
  BY <1>3 DEF TimeoutUnlock
<1>4. CASE ReportFailure
  BY <1>4 DEF ReportFailure
<1>5. CASE LockNode
  BY <1>5 DEF LockNode
<1>6. CASE PrepareNode
  BY <1>6 DEF PrepareNode
<1>7. CASE QueryNode
  BY <1>7 DEF QueryNode
<1>8. CASE EndQuery
  BY <1>8 DEF EndQuery
<1>9. CASE ReportNode
  BY <1>9 DEF ReportNode
<1>10. CASE NotifyDone
  BY <1>10, NotifyMoves DEF NotifyDone
<1> QED
  BY <1>1, <1>2, <1>3, <1>4, <1>5, <1>6, <1>7, <1>8, <1>9, <1>10 DEF ProcThread

LEMMA CalmEnvironment ==
  ASSUME TypeOK, TypeOK', Calm, ~ Race', Environment
  PROVE  Calm'
<1> USE DEF TypeOK, Stages, None, Kinds, Stopping, LearnEnding, Go, daemon, messages,
      history, Calm, Race, Open, TimingOut, OutsideInv, FlagInv, LockInv, LiveInv,
      StopInv, LearnInv, TimeoutInv, InboxInv, ProcInv, Idle, NoTimeout, Empty,
      Reported
<1>1. CASE \E k \in Kinds : BeginSession(k)
  BY <1>1 DEF BeginSession
<1>2. CASE BeginOp
  BY <1>2 DEF BeginOp
<1>3. CASE StopRequest
  BY <1>3 DEF StopRequest
<1>4. CASE \E type \in {"known", "unknown"} : LearnDone(type)
  BY <1>4 DEF LearnDone
<1>5. CASE LearnFailed
  BY <1>5 DEF LearnFailed
<1> QED
  BY <1>1, <1>2, <1>3, <1>4, <1>5 DEF Environment

-----------------------------------------------------------------------------
(* The theorems.                                                           *)

LEMMA InvInit == Init => Inv
<1> SUFFICES ASSUME Init PROVE Inv
  OBVIOUS
<1>1. TypeOK /\ CountInv
  BY TypeInit
<1>2. at =
         [task |-> "idle", msg |-> "idle", learn |-> "idle",
          proc |-> "idle", timer |-> "idle"]
  BY DEF Init, Threads
<1>3. inbox = << >> /\ Len(inbox) = 0
  BY DEF Init
<1>4. LockHasReleaser
  BY DEF Init, LockHasReleaser
<1>5. Calm
  BY <1>2, <1>3 DEF Init, Calm, Race, Stopping, LearnEnding, TimingOut, Open, OutsideInv,
     FlagInv, LockInv, LiveInv, StopInv, LearnInv, TimeoutInv, InboxInv, ProcInv, Idle,
     NoTimeout, Empty, None
<1> QED
  BY <1>1, <1>4, <1>5 DEF Inv, CalmInv

\* One step of a thread or of the environment keeps all three parts.
LEMMA StepKeeps ==
  ASSUME TypeOK, CountInv, LockHasReleaser, Step, raced' \in BOOLEAN
  PROVE  TypeOK' /\ CountInv' /\ LockHasReleaser' /\ (Calm /\ ~ Race' => Calm')
<1>1. CASE \E t \in {"task", "msg"} : Stop(t)
  <2> PICK t \in {"task", "msg"} : Stop(t)
    BY <1>1
  <2>1. TypeOK' /\ CountInv'
    BY TypeStop
  <2>2. LockHasReleaser'
    BY LockStop
  <2> QED
    BY <2>1, <2>2, CalmStop
<1>2. CASE TaskThread /\ ~ Stop("task")
  <2>1. TypeOK' /\ CountInv'
    BY <1>2, TypeTaskThread
  <2> QED
    BY <1>2, <2>1, LockTaskThread, CalmTaskThread
<1>3. CASE LearnThread
  <2>1. TypeOK' /\ CountInv'
    BY <1>3, TypeLearnThread
  <2> QED
    BY <1>3, <2>1, LockLearnThread, CalmLearnThread
<1>4. CASE TimerThread
  <2>1. TypeOK' /\ CountInv'
    BY <1>4, TypeTimerThread
  <2> QED
    BY <1>4, <2>1, LockTimerThread, CalmTimerThread
<1>5. CASE ProcThread
  <2>1. TypeOK' /\ CountInv'
    BY <1>5, TypeProcThread
  <2> QED
    BY <1>5, <2>1, LockProcThread, CalmProcThread
<1>6. CASE Environment
  <2>1. TypeOK' /\ CountInv'
    BY <1>6, TypeEnvironment
  <2> QED
    BY <1>6, <2>1, LockEnvironment, CalmEnvironment
<1> QED
  BY <1>1, <1>2, <1>3, <1>4, <1>5, <1>6 DEF Step

LEMMA InvNext == Inv /\ [Next]_vars => Inv'
<1> SUFFICES ASSUME Inv, [Next]_vars PROVE Inv'
  OBVIOUS
<1> USE DEF Inv, CalmInv
<1>1. CASE Step /\ raced' = (raced \/ Race')
  <2>1. raced' \in BOOLEAN
    BY <1>1 DEF TypeOK
  <2>2. TypeOK' /\ CountInv' /\ LockHasReleaser' /\ (Calm /\ ~ Race' => Calm')
    BY <1>1, <2>1, StepKeeps
  <2>3. ~ raced' => ~ raced /\ ~ Race'
    BY <1>1
  <2> QED
    BY <2>2, <2>3
<1>2. CASE WakeSpuriously /\ raced' = TRUE
  <2>1. raced' \in BOOLEAN
    BY <1>2
  <2>2. TypeOK' /\ CountInv'
    BY <1>2, <2>1, TypeWake
  <2> QED
    BY <1>2, <2>2, LockWake
<1>3. CASE UNCHANGED vars
  BY <1>3 DEF vars, daemon, messages, history, TypeOK, CountInv, ToCome, One,
     LockHasReleaser, Calm, Race, Stopping, LearnEnding, TimingOut, Open, OutsideInv,
     FlagInv, LockInv, LiveInv, StopInv, LearnInv, TimeoutInv, InboxInv, ProcInv, Idle,
     NoTimeout, Empty, Reported
<1> QED
  BY <1>1, <1>2, <1>3 DEF Next

LEMMA InvAlways == Spec => []Inv
  BY InvInit, InvNext, PTL DEF Spec

\* Every variable has its type, and ZW_msgProcess is told of at most two things per
\* session.
THEOREM TypeInvariant == Spec => []TypeOK
<1>1. Inv => TypeOK
  BY DEF Inv
<1> QED
  BY <1>1, InvAlways, PTL

\* ZWapi_AddNodeToNetwork: the mutex of an open session has a thread to release it,
\* however the ends of sessions overlap.
THEOREM MutexIsReleased == Spec => []LockHasReleaser
<1>1. Inv => LockHasReleaser
  BY DEF Inv
<1> QED
  BY <1>1, InvAlways, PTL

\* No thread's unlock takes g_cmd_mutex from a driver call that holds it, unless two
\* ends of a session overlapped.
THEOREM HoldersKeepTheMutex == Spec => []HolderKeepsLock
<1>1. Inv => HolderKeepsLock
  BY DEF Inv, CalmInv, Calm, HolderKeepsLock, LockInv, ProcInv
<1> QED
  BY <1>1, InvAlways, PTL

\* A node is reported in the session in which it joined or left, unless two ends
\* overlapped.
THEOREM ReportsInSession == Spec => []ReportInSession
<1>1. Inv => ReportInSession
  BY DEF Inv, CalmInv, Calm, ReportInSession, OutsideInv, Empty, ProcInv
<1> QED
  BY <1>1, InvAlways, PTL
=============================================================================
