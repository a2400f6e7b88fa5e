----------------------------- MODULE TaskQueue ------------------------------
(***************************************************************************)
(* What the task queue of the Z-Wave daemon (zwave_daemon/zw_queue.c)      *)
(* promises to its users: a sequence of tasks kept in priority order, the  *)
(* most urgent (the smallest number) first, where a new task goes behind   *)
(* every queued task that is at least as urgent.  ZwQueue shows that the   *)
(* linked list of the code implements it, and ZwTask uses its operators.   *)
(***************************************************************************)
EXTENDS Naturals, Sequences

\* p is the place queue_insert_priority gives to t: in front of the first
\* task of s that is strictly less urgent, or at the end.
PlaceFor(s, t, p) ==
  /\ p \in 1 .. Len(s) + 1
  /\ \A j \in 1 .. Len(s) : j < p => s[j].priority <= t.priority
  /\ p <= Len(s) => t.priority < s[p].priority

PutAt(s, p, t) ==
  [j \in 1 .. Len(s) + 1 |->
     IF j < p THEN s[j] ELSE IF j = p THEN t ELSE s[j - 1]]

InPriorityOrder(s) ==
  \A i, j \in 1 .. Len(s) : i < j => s[i].priority <= s[j].priority

-----------------------------------------------------------------------------
CONSTANT Task        \* the tasks: records with a number in their field "priority"

VARIABLE tasks       \* the queued tasks, next one to run first

Init == tasks = << >>

Insert ==
  \E before \in {tasks}, after \in {tasks'} :
    /\ Len(after) = Len(before) + 1
    /\ \E p \in 1 .. Len(after) :
         /\ after[p] \in Task
         /\ PlaceFor(before, after[p], p)
         /\ after = PutAt(before, p, after[p])

PopUp == tasks # << >> /\ tasks' = Tail(tasks)

Next == Insert \/ PopUp

Spec == Init /\ [][Next]_tasks
=============================================================================
