------------------------------ MODULE ZwQueue -------------------------------
(***************************************************************************)
(* The doubly linked list of zwave_daemon/zw_queue.c: q_task_head,         *)
(* q_task_tail, q_task_count, and the prev and next fields of the units.   *)
(* A unit is a heap cell: task_add callocs it (both links NULL), the queue *)
(* links it in, queue_popup unlinks it and the task thread frees it, after *)
(* which the cell may be allocated again.  Every operation runs under      *)
(* q_task_mutex, so each is one action; queue_empty reads only the head.   *)
(***************************************************************************)
EXTENDS Naturals, Sequences, FiniteSets

CONSTANTS
  Units,        \* heap cells
  Null,         \* NULL
  Priorities,   \* ZW_TASK_PRIORITY_E
  Payloads      \* what else a unit holds: msgtype, appid, device

ASSUME UnitsAssumption == Null \notin Units /\ IsFiniteSet(Units)
ASSUME PrioritiesAssumption == Priorities \subseteq Nat /\ Priorities # {} /\ Payloads # {}

VARIABLES
  head, tail, count,   \* q_task_head, q_task_tail, q_task_count
  prev, next,          \* the link fields of every cell
  data,                \* [priority, payload] of every cell
  where                \* "free", "fresh" (allocated), "queued" or "popped"

vars == <<head, tail, count, prev, next, data, where>>

Link == Units \cup {Null}
Data == [priority : Priorities, payload : Payloads]

\* What a cell that is not allocated holds, which nothing reads.
Blank == CHOOSE d \in Data : TRUE

TypeOK ==
  /\ head \in Link /\ tail \in Link
  /\ count \in Nat
  /\ prev \in [Units -> Link] /\ next \in [Units -> Link]
  /\ data \in [Units -> Data]
  /\ where \in [Units -> {"free", "fresh", "queued", "popped"}]

Init ==
  /\ head = Null /\ tail = Null /\ count = 0
  /\ prev = [u \in Units |-> Null] /\ next = [u \in Units |-> Null]
  /\ data = [u \in Units |-> Blank]
  /\ where = [u \in Units |-> "free"]

-----------------------------------------------------------------------------
\* The units met by following next from the head, at most one per cell.
Chain ==
  LET walk[n \in 0 .. Cardinality(Units)] ==
        IF n = 0 THEN << >>
        ELSE LET w == walk[n - 1]
                 u == IF w = << >> THEN head ELSE next[w[Len(w)]]
             IN IF Len(w) < n - 1 \/ u = Null THEN w ELSE Append(w, u)
  IN IF head = Null THEN << >> ELSE walk[Cardinality(Units)]

Empty == head = Null

\* task_add: calloc, then the task's parameters.
Allocate(u, d) ==
  /\ where[u] = "free"
  /\ where' = [where EXCEPT ![u] = "fresh"]
  /\ data' = [data EXCEPT ![u] = d]
  /\ prev' = [prev EXCEPT ![u] = Null]
  /\ next' = [next EXCEPT ![u] = Null]
  /\ UNCHANGED <<head, tail, count>>

\* Mutant of FirstLessUrgent: "<=" in the comparison of priorities.
InsertBeforeEqual(u) ==
  LET chain == Chain
      later == {i \in DOMAIN chain : data[u].priority <= data[chain[i]].priority}
  IN IF later = {} THEN Null
     ELSE chain[CHOOSE i \in later : \A j \in later : i <= j]

\* The unit the loop of queue_insert_priority stops in front of, or Null.
\* "<" rather than "<=" is what makes equal priorities first come, first
\* served.
FirstLessUrgent(u) ==
  LET chain == Chain
      later == {i \in DOMAIN chain : data[u].priority < data[chain[i]].priority}
  IN IF later = {} THEN Null
     ELSE chain[CHOOSE i \in later : \A j \in later : i <= j]

LinkFirst(u) ==
  /\ prev' = [prev EXCEPT ![u] = Null]
  /\ next' = [next EXCEPT ![u] = Null]
  /\ head' = u /\ tail' = u

LinkLast(u) ==
  /\ prev' = [prev EXCEPT ![u] = tail]
  /\ next' = [next EXCEPT ![u] = Null, ![tail] = u]
  /\ tail' = u
  /\ UNCHANGED head

\* Mutant of LinkBefore: the old neighbour's prev is not updated.
LinkBeforeForgettingPrev(u, t) ==
  /\ prev' = [prev EXCEPT ![u] = prev[t]]
  /\ tail' = tail
  /\ IF prev[t] = Null
     THEN /\ next' = [next EXCEPT ![u] = t]
          /\ head' = u
     ELSE /\ next' = [next EXCEPT ![u] = t, ![prev[t]] = u]
          /\ head' = head

LinkBefore(u, t) ==
  /\ prev' = [prev EXCEPT ![u] = prev[t], ![t] = u]
  /\ tail' = tail
  /\ IF prev[t] = Null
     THEN /\ next' = [next EXCEPT ![u] = t]
          /\ head' = u
     ELSE /\ next' = [next EXCEPT ![u] = t, ![prev[t]] = u]
          /\ head' = head

\* Mutant of InsertPriority: q_task_count++ is missing.
InsertUncounted(u) ==
  /\ where[u] = "fresh"
  /\ IF Empty THEN LinkFirst(u)
     ELSE IF FirstLessUrgent(u) = Null THEN LinkLast(u)
     ELSE \E t \in {FirstLessUrgent(u)} : LinkBefore(u, t)
  /\ where' = [where EXCEPT ![u] = "queued"]
  /\ UNCHANGED <<data, count>>

InsertPriority(u) ==
  /\ where[u] = "fresh"
  /\ IF Empty THEN LinkFirst(u)
     ELSE IF FirstLessUrgent(u) = Null THEN LinkLast(u)
     ELSE \E t \in {FirstLessUrgent(u)} : LinkBefore(u, t)
  /\ count' = count + 1
  /\ where' = [where EXCEPT ![u] = "queued"]
  /\ UNCHANGED data

PopUp ==
  /\ ~ Empty
  /\ head' = next[head]
  /\ prev' = IF next[head] # Null
             THEN [prev EXCEPT ![next[head]] = Null] ELSE prev
  /\ tail' = IF next[head] # Null THEN tail ELSE Null
  /\ count' = count - 1
  /\ where' = [where EXCEPT ![head] = "popped"]
  /\ UNCHANGED <<next, data>>

\* A unit task_add drops as a duplicate, and one the task thread is done
\* with, go back to the heap.
Free(u) ==
  /\ where[u] \in {"fresh", "popped"}
  /\ where' = [where EXCEPT ![u] = "free"]
  /\ data' = [data EXCEPT ![u] = Blank]
  /\ prev' = [prev EXCEPT ![u] = Null]
  /\ next' = [next EXCEPT ![u] = Null]
  /\ UNCHANGED <<head, tail, count>>

Next ==
  \/ \E u \in Units : \/ \E d \in Data : Allocate(u, d)
                      \/ InsertPriority(u)
                      \/ Free(u)
  \/ PopUp

Spec == Init /\ [][Next]_vars

-----------------------------------------------------------------------------
\* Mutant of SameBytes: only the data is compared.
SameData(u, v) == data[u] = data[v]

\* memcmp over whole units: the data and both links.
SameBytes(u, v) ==
  data[u] = data[v] /\ prev[u] = prev[v] /\ next[u] = next[v]

\* queue_found
Found(u) == \E i \in DOMAIN Chain : SameBytes(Chain[i], u)

\* The list is one chain from head to tail, the same in both directions, and
\* holds exactly the queued units; q_task_count is its length.  (The links
\* insert and popup leave behind; a wrong one loses or repeats a task.)
LinkedBothWays ==
  LET chain == Chain
      n == Len(chain)
  IN /\ count = n /\ Cardinality({u \in Units : where[u] = "queued"}) = n
     /\ {chain[i] : i \in 1 .. n} = {u \in Units : where[u] = "queued"}
     /\ tail = IF n = 0 THEN Null ELSE chain[n]
     /\ \A i \in 1 .. n :
          /\ next[chain[i]] = IF i = n THEN Null ELSE chain[i + 1]
          /\ prev[chain[i]] = IF i = 1 THEN Null ELSE chain[i - 1]

\* queue_found compares the links too, and those of a freshly allocated unit
\* are NULL: it recognises an equal task only when that task is the only one
\* queued.  ZwTask models the duplicate check of task_add by this fact.
FoundOnlyWhenAlone ==
  \A u \in Units :
    where[u] = "fresh" =>
      (Found(u) <=> Len(Chain) = 1 /\ data[Chain[1]] = data[u])

\* The list implements the priority queue.
Queued ==
  LET chain == Chain
  IN [i \in DOMAIN chain |-> [unit     |-> chain[i],
                              priority |-> data[chain[i]].priority,
                              payload  |-> data[chain[i]].payload]]

Abstract == INSTANCE TaskQueue
              WITH Task <- [unit : Units, priority : Priorities, payload : Payloads],
                   tasks <- Queued

ImplementsTaskQueue == Abstract!Spec
=============================================================================
