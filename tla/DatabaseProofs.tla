--------------------------- MODULE DatabaseProofs ---------------------------
(***************************************************************************)
(* The calls on the database for any number of callers, devices, columns   *)
(* and keys: their types, the bound of the log, the rows of a column, and  *)
(* that what a call stores is stored.                                      *)
(*                                                                         *)
(* CallsInv says of each call where it can be and what its script holds,   *)
(* operation by operation; it is inductive together with the types. LogInv *)
(* counts the callers that have found room in the log and not inserted     *)
(* yet.                                                                    *)
(*                                                                         *)
(* The two theorems about rows rest on one invariant, DataInvariant. A     *)
(* target that is being written has no known content (UnknownInv), two     *)
(* calls that write the same are not alone (ApartInv), and what was        *)
(* written by a call that was not alone is disturbed (DisturbedInv). So a  *)
(* call that is alone knows the rows of its own target, statement by       *)
(* statement (KnowsInv), and no other call changes them (Footprint).       *)
(* RowsInv adds that the rest of its script inserts only into columns      *)
(* without rows, ConfInv which row of a configuration its counter reads,   *)
(* and StoredInv what the last call that was alone has left.               *)
(***************************************************************************)
EXTENDS Database, FiniteSetTheorems, TLAPS

\* The statements of a script that writes a device, one for each column so far.
Planned(c) ==
  \A i \in 1 .. Len(c.script) : c.script[i].at = i /\ c.script[i].do \in {"insert", "update"}

\* Where a call can be, what it is for and what its script is, operation by operation.
Writes(c) ==
  c.op \in {"add", "set"} =>
    /\ c.on \in Devices /\ c.value \in Values
    /\ c.at \in {"read", "values", "count", "device", "plan", "run", "online"}
    /\ c.at \in {"read", "values"} => c.op = "set"
    /\ c.at = "online" => c.op = "add"
    /\ c.at \in {"read", "values", "count", "device", "plan"} => c.next = 1
    /\ c.at = "plan" => Planned(c) /\ Len(c.script) < ColumnCount
    /\ c.at = "run" => Planned(c) /\ Len(c.script) = ColumnCount /\ c.next \in 1 .. ColumnCount

Deletes(c) ==
  c.op = "delete" =>
    /\ c.on \in Devices /\ c.at = "run" /\ c.next \in 1 .. 2
    /\ c.script = <<[do |-> "device", at |-> c.on], [do |-> "values", at |-> c.on]>>

OtherCalls(c) ==
  /\ c.op = "get" => c.on \in Devices /\ c.at \in {"read", "values"}
  /\ c.op = "default" => c.at \in {"run", "clear"}
  /\ c.op = "key" => c.on \in Keys /\ c.value \in Values /\ c.at \in {"found", "write"}
  /\ c.op = "unkey" => c.on \in Keys /\ c.at = "write"
  /\ c.op = "log" => c.at \in {"logged", "append"}

InScript(c) == c.at # "idle" => Writes(c) /\ Deletes(c) /\ OtherCalls(c)

CallsInv == \A p \in Callers : InScript(call[p])

-----------------------------------------------------------------------------
\* A call goes on as c: it is still about the same, and alone if it was, unless
\* a count of its rows failed.
CallGoesOn(p, c) ==
  /\ call[p].at # "idle" /\ call' = [call EXCEPT ![p] = c]
  /\ c \in Call /\ c.at # "idle" /\ InScript(c)
  /\ c.op = call[p].op /\ c.on = call[p].on /\ c.value = call[p].value
  /\ c.alone => call[p].alone
  /\ call[p].alone => c.alone \/ c.on \in disturbed'
  /\ UNCHANGED stored

\* What every step of a call but its first does.
Continues(p) ==
  \/ \E c \in Call : CallGoesOn(p, c)
  \/ \E what \in Values \cup {Gone, Unknown} : Ends(p, what)

\* A caller between two calls is well formed.
LEMMA IdleIsCall == Idle \in Call /\ InScript(Idle)
<1>1. Idle.script \in Seq(Statements)
  BY DEF Idle
<1> QED BY <1>1 DEF Idle, Call, InScript, Operations

\* A call that fails ends.
LEMMA FailsContinues ==
  ASSUME NEW p \in Callers, CallFails(p)
  PROVE  Continues(p)
BY DEF CallFails, Continues


\* The call of p before its step, for the actions that go on with it.
LEMMA GoesOnAs ==
  ASSUME DatabaseTypeOK, CallsInv, NEW p \in Callers, NEW c,
         call[p].at # "idle", call' = [call EXCEPT ![p] = c], UNCHANGED stored,
         c \in Call, c.at # "idle", InScript(c),
         c.op = call[p].op, c.on = call[p].on, c.value = call[p].value,
         c.alone = call[p].alone \/ (~ c.alone /\ c.on \in disturbed')
  PROVE  Continues(p)
BY DEF Continues, CallGoesOn

\* The steps of the calls, one by one: each goes on with the same call or ends
\* it.
LEMMA ReadDeviceContinues ==
  ASSUME DatabaseTypeOK, CallsInv, NEW p \in Callers, ReadDevice(p)
  PROVE  Continues(p)
<1> DEFINE c == [call[p] EXCEPT !.at = "values"]
<1>1. CASE call[p].on \in devices
  <2>1. call[p] \in Call /\ InScript(call[p]) /\ call[p].at = "read"
    BY DEF DatabaseTypeOK, CallsInv, ReadDevice
  <2>2. c \in Call /\ InScript(c)
    BY <2>1 DEF Call, InScript, Writes, Deletes, OtherCalls
  <2>3. call' = [call EXCEPT ![p] = c] /\ UNCHANGED stored
    BY <1>1, <2>1 DEF ReadDevice, Step, DatabaseTypeOK
  <2> QED BY <2>1, <2>2, <2>3, GoesOnAs DEF Call
<1>2. CASE call[p].on \notin devices
  BY <1>2, FailsContinues DEF ReadDevice
<1> QED BY <1>1, <1>2

LEMMA ReadValuesContinues ==
  ASSUME DatabaseTypeOK, CallsInv, NEW p \in Callers, ReadValues(p)
  PROVE  Continues(p)
<1> DEFINE c == [call[p] EXCEPT !.at = "count"]
<1>1. call[p] \in Call /\ InScript(call[p]) /\ call[p].at = "values"
  BY DEF DatabaseTypeOK, CallsInv, ReadValues
<1>2. CASE CallFails(p)
  BY <1>2, FailsContinues
<1>3. CASE Ends(p, call[p].value)
  BY <1>1, <1>3 DEF Continues, Call
<1>4. CASE call[p].op # "get" /\ Step(p, "count") /\ UNCHANGED stored
  <2>1. c \in Call /\ InScript(c)
    BY <1>1, <1>4 DEF Call, InScript, Writes, Deletes, OtherCalls
  <2>2. call' = [call EXCEPT ![p] = c] /\ UNCHANGED stored
    BY <1>4, <1>1 DEF Step, DatabaseTypeOK
  <2> QED BY <1>1, <2>1, <2>2, GoesOnAs DEF Call
<1> QED BY <1>2, <1>3, <1>4 DEF ReadValues

LEMMA CountDeviceContinues ==
  ASSUME DatabaseTypeOK, CallsInv, NEW p \in Callers, CountDevice(p)
  PROVE  Continues(p)
<1> DEFINE n == IF call[p].on \in devices THEN 1 ELSE 0
           c == [call[p] EXCEPT !.at = "device", !.count = n]
<1>1. call[p] \in Call /\ InScript(call[p]) /\ call[p].at = "count"
  BY DEF DatabaseTypeOK, CallsInv, CountDevice
<1>2. c \in Call /\ InScript(c)
  BY <1>1 DEF Call, InScript, Writes, Deletes, OtherCalls
<1>3. call' = [call EXCEPT ![p] = c] /\ UNCHANGED stored
  BY <1>1 DEF CountDevice, DatabaseTypeOK
<1> QED BY <1>1, <1>2, <1>3, GoesOnAs DEF Call

LEMMA WriteDeviceContinues ==
  ASSUME DatabaseTypeOK, CallsInv, NEW p \in Callers, WriteDevice(p)
  PROVE  Continues(p)
<1> DEFINE c == [call[p] EXCEPT !.at = "plan", !.script = << >>]
<1>1. call[p] \in Call /\ InScript(call[p]) /\ call[p].at = "device"
  BY DEF DatabaseTypeOK, CallsInv, WriteDevice
<1>2. CASE CallFails(p)
  BY <1>2, FailsContinues
<1>3. CASE call' = [call EXCEPT ![p].at = "plan", ![p].script = <<>>] /\ UNCHANGED stored
  <2>1. c \in Call
    <3>1. << >> \in Seq(Statements)
      OBVIOUS
    <3> QED BY <1>1, <3>1 DEF Call
  <2>2. Planned(c) /\ Len(c.script) < ColumnCount
    BY <1>1, DatabaseAssumption DEF Planned, Call
  <2>3. InScript(c)
    BY <1>1, <2>2 DEF Call, InScript, Writes, Deletes, OtherCalls
  <2>4. call' = [call EXCEPT ![p] = c]
    BY <1>1, <1>3 DEF DatabaseTypeOK
  <2> QED BY <1>1, <1>3, <2>1, <2>3, <2>4, GoesOnAs DEF Call
<1> QED BY <1>2, <1>3 DEF WriteDevice

LEMMA PlanContinues ==
  ASSUME DatabaseTypeOK, CallsInv, NEW p \in Callers, Plan(p)
  PROVE  Continues(p)
<1> DEFINE k == Len(call[p].script) + 1
<1>1. call[p] \in Call /\ InScript(call[p]) /\ call[p].at = "plan"
  BY DEF DatabaseTypeOK, CallsInv, Plan
<1>2. /\ call[p].op \in {"add", "set"} /\ Planned(call[p]) /\ Len(call[p].script) < ColumnCount
      /\ call[p].script \in Seq(Statements) /\ Len(call[p].script) \in Nat /\ k \in Columns
  <2>1. call[p].op \in {"add", "set"}
    BY <1>1 DEF InScript, Writes, Deletes, OtherCalls, Call, Operations
  <2>2. Planned(call[p]) /\ Len(call[p].script) < ColumnCount
    BY <1>1, <2>1 DEF InScript, Writes
  <2>3. call[p].script \in Seq(Statements) /\ Len(call[p].script) \in Nat
    BY <1>1 DEF Call
  <2> QED BY <2>1, <2>2, <2>3, DatabaseAssumption DEF Columns
<1>3. PICK n \in Nat :
        /\ call' = [call EXCEPT ![p].script = Append(@, Combined(n, k)),
                                ![p].at = IF k = ColumnCount THEN "run" ELSE "plan"]
        /\ UNCHANGED stored
  <2>1. Len(values[call[p].on][k]) \in Nat
    <3>1. call[p].on \in Devices
      BY <1>1, <1>2 DEF InScript, Writes
    <3>2. values[call[p].on][k] \in Seq(Values)
      BY <1>2, <3>1 DEF DatabaseTypeOK
    <3> HIDE DEF k
    <3> QED BY <3>2
  <2> QED BY <2>1 DEF Plan
<1> DEFINE t == Append(call[p].script, Combined(n, k))
           c == [call[p] EXCEPT !.script = t, !.at = IF k = ColumnCount THEN "run" ELSE "plan"]
<1>4. Combined(n, k) \in Statements /\ Combined(n, k).at = k
      /\ Combined(n, k).do \in {"insert", "update"}
  BY <1>2 DEF Combined, Statements
<1>5. t \in Seq(Statements) /\ Len(t) = k
      /\ \A i \in 1 .. k : t[i] = IF i = k THEN Combined(n, k) ELSE call[p].script[i]
  BY <1>2, <1>4
<1> HIDE DEF t
<1>6. /\ c \in Call /\ c.script = t /\ c.next = call[p].next
      /\ c.at = (IF k = ColumnCount THEN "run" ELSE "plan")
      /\ c.op = call[p].op /\ c.on = call[p].on /\ c.value = call[p].value
      /\ c.alone = call[p].alone
  BY <1>1, <1>5 DEF Call
<1>7. Planned(c)
  BY <1>2, <1>4, <1>5, <1>6 DEF Planned
<1>8. InScript(c)
  <2>1. call[p].next = 1 /\ call[p].on \in Devices /\ call[p].value \in Values
    BY <1>1, <1>2 DEF InScript, Writes
  <2>2. k < ColumnCount \/ k = ColumnCount
    BY <1>2, DatabaseAssumption DEF Columns
  <2>3. 1 \in 1 .. ColumnCount
    BY DatabaseAssumption
  <2> HIDE DEF c, k
  <2> QED BY <1>2, <1>5, <1>6, <1>7, <2>1, <2>2, <2>3 DEF InScript, Writes, Deletes, OtherCalls
<1>9. call' = [call EXCEPT ![p] = c]
  BY <1>1, <1>3, <1>5 DEF DatabaseTypeOK, t
<1> HIDE DEF c
<1>10. call[p].at # "idle" /\ c.at # "idle"
  BY <1>1, <1>6
<1> QED BY <1>1, <1>3, <1>6, <1>8, <1>9, <1>10, GoesOnAs

LEMMA RunStatementContinues ==
  ASSUME DatabaseTypeOK, CallsInv, NEW p \in Callers, RunStatement(p)
  PROVE  Continues(p)
<1> DEFINE m == [call[p] EXCEPT !.next = call[p].next + 1]
           o == [call[p] EXCEPT !.at = "online"]
<1>1. call[p] \in Call /\ InScript(call[p]) /\ call[p].at = "run" /\ call[p].op # "default"
  BY DEF DatabaseTypeOK, CallsInv, RunStatement
<1>2. call[p].op \in {"add", "set", "delete"} /\ call[p].value \in Values \cup {Unknown}
  BY <1>1 DEF InScript, OtherCalls, Call, Operations
<1>3. CASE call[p].next < Len(call[p].script) /\ call' = [call EXCEPT ![p].next = call[p].next + 1]
           /\ UNCHANGED stored
  <2>1. m \in Call
    BY <1>1 DEF Call
  <2>2. m.next = call[p].next + 1 /\ m.script = call[p].script /\ m.at = "run"
        /\ m.op = call[p].op /\ m.on = call[p].on /\ m.value = call[p].value /\ m.alone = call[p].alone
    BY <1>1 DEF Call
  <2> HIDE DEF m
  <2>3. call' = [call EXCEPT ![p] = m]
    BY <1>1, <1>3 DEF DatabaseTypeOK, m
  <2>4. SUFFICES InScript(m)
    BY <1>1, <1>3, <2>1, <2>2, <2>3, GoesOnAs
  <2>5. CASE call[p].op = "delete"
    <3>1. Len(call[p].script) = 2 /\ call[p].next \in 1 .. 2
      BY <1>1, <2>5 DEF InScript, Deletes
    <3>2. m.next \in 1 .. 2
      BY <1>3, <2>2, <3>1
    <3> QED BY <1>1, <2>2, <2>5, <3>2 DEF InScript, Writes, Deletes, OtherCalls
  <2>6. CASE call[p].op # "delete"
    <3>1. Len(call[p].script) = ColumnCount /\ call[p].next \in 1 .. ColumnCount /\ Planned(call[p])
      BY <1>1, <1>2, <2>6 DEF InScript, Writes
    <3>2. m.next \in 1 .. ColumnCount /\ Planned(m)
      BY <1>3, <2>2, <3>1, DatabaseAssumption DEF Planned
    <3> QED BY <1>1, <1>2, <2>2, <2>6, <3>1, <3>2 DEF InScript, Writes, Deletes, OtherCalls
  <2> QED BY <2>5, <2>6
<1>4. CASE call[p].op = "add" /\ Step(p, "online") /\ UNCHANGED stored
  <2>1. o \in Call /\ InScript(o)
    BY <1>1, <1>4 DEF Call, InScript, Writes, Deletes, OtherCalls
  <2>2. call' = [call EXCEPT ![p] = o]
    BY <1>1, <1>4 DEF Step, DatabaseTypeOK
  <2> QED BY <1>1, <1>4, <2>1, <2>2, GoesOnAs DEF Call
<1>5. CASE Ends(p, IF call[p].op = "set" THEN call[p].value ELSE Gone)
  BY <1>2, <1>5 DEF Continues
<1> QED BY <1>3, <1>4, <1>5 DEF RunStatement

LEMMA RunAgainContinues ==
  ASSUME DatabaseTypeOK, CallsInv, NEW p \in Callers, RunAgain(p)
  PROVE  Continues(p)
<1> DEFINE c == [call[p] EXCEPT !.next = 1, !.tries = call[p].tries + 1]
<1>1. call[p] \in Call /\ InScript(call[p]) /\ call[p].at = "run" /\ call[p].op # "default"
  BY DEF DatabaseTypeOK, CallsInv, RunAgain
<1>2. CASE CallFails(p)
  BY <1>2, FailsContinues
<1>3. CASE call' = [call EXCEPT ![p].next = 1, ![p].tries = call[p].tries + 1] /\ UNCHANGED stored
  <2>1. c \in Call
    <3>1. call[p].tries + 1 \in Nat /\ 1 \in Nat
      BY <1>1 DEF Call
    <3> QED BY <1>1, <3>1 DEF Call
  <2>2. 1 \in 1 .. ColumnCount /\ 1 \in 1 .. 2
    BY DatabaseAssumption
  <2>3. c.next = 1 /\ c.script = call[p].script /\ c.at = "run" /\ call[p].alone = c.alone
        /\ c.op = call[p].op /\ c.on = call[p].on /\ c.value = call[p].value
    BY <1>1 DEF Call
  <2>4. call' = [call EXCEPT ![p] = c]
    BY <1>1, <1>3 DEF DatabaseTypeOK
  <2> HIDE DEF c
  <2>5. InScript(c)
    BY <1>1, <2>2, <2>3 DEF InScript, Writes, Deletes, OtherCalls, Planned
  <2> QED BY <1>1, <1>3, <2>1, <2>3, <2>4, <2>5, GoesOnAs
<1> QED BY <1>2, <1>3 DEF RunAgain

LEMMA ClearValuesContinues ==
  ASSUME DatabaseTypeOK, CallsInv, NEW p \in Callers, ClearValues(p)
  PROVE  Continues(p)
<1> DEFINE c == [call[p] EXCEPT !.at = "clear"]
<1>1. call[p] \in Call /\ InScript(call[p]) /\ call[p].at = "run" /\ call[p].op = "default"
  BY DEF DatabaseTypeOK, CallsInv, ClearValues
<1>2. CASE CallFails(p)
  BY <1>2, FailsContinues
<1>3. CASE Step(p, "clear") /\ UNCHANGED stored
  <2>1. c \in Call /\ InScript(c)
    BY <1>1 DEF Call, InScript, Writes, Deletes, OtherCalls
  <2>2. call' = [call EXCEPT ![p] = c]
    BY <1>1, <1>3 DEF Step, DatabaseTypeOK
  <2> QED BY <1>1, <1>3, <2>1, <2>2, GoesOnAs DEF Call
<1> QED BY <1>2, <1>3 DEF ClearValues

LEMMA CountKeyContinues ==
  ASSUME DatabaseTypeOK, CallsInv, NEW p \in Callers, CountKey(p)
  PROVE  Continues(p)
<1>1. call[p] \in Call /\ InScript(call[p]) /\ call[p].at = "found"
  BY DEF DatabaseTypeOK, CallsInv, CountKey
<1>2. call[p].op = "key" /\ call[p].on \in Keys /\ call[p].value \in Values
  BY <1>1 DEF InScript, Writes, Deletes, OtherCalls, Call, Operations
<1>3. UNCHANGED stored
  BY DEF CountKey
<1>4. CASE \E n \in {0, 1} : call' = [call EXCEPT ![p].at = "write", ![p].count = n]
  <2>1. PICK n \in {0, 1} : call' = [call EXCEPT ![p].at = "write", ![p].count = n]
    BY <1>4
  <2> DEFINE c == [call[p] EXCEPT !.at = "write", !.count = n]
  <2>2. c \in Call /\ c.at = "write" /\ c.op = call[p].op /\ c.on = call[p].on
        /\ c.value = call[p].value /\ c.alone = call[p].alone
    <3>1. n \in Nat
      OBVIOUS
    <3> QED BY <1>1, <3>1 DEF Call
  <2>4. InScript(c)
    <3> HIDE DEF c
    <3> QED BY <1>1, <1>2, <2>2 DEF Call, InScript, Writes, Deletes, OtherCalls
  <2>3. call' = [call EXCEPT ![p] = c]
    BY <1>1, <2>1 DEF DatabaseTypeOK
  <2> QED BY <1>1, <1>3, <2>2, <2>3, <2>4, GoesOnAs DEF Call
<1>5. CASE /\ call' = [call EXCEPT ![p].at = "write", ![p].count = 0, ![p].alone = FALSE]
           /\ disturbed' = disturbed \cup {call[p].on}
  <2> DEFINE c == [call[p] EXCEPT !.at = "write", !.count = 0, !.alone = FALSE]
  <2>2. c \in Call /\ InScript(c)
    BY <1>1, <1>2 DEF Call, InScript, Writes, Deletes, OtherCalls
  <2>3. call' = [call EXCEPT ![p] = c]
    BY <1>1, <1>5 DEF DatabaseTypeOK
  <2>4. ~ c.alone /\ c.on = call[p].on
    BY <1>1 DEF Call
  <2> QED BY <1>1, <1>3, <1>5, <2>2, <2>3, <2>4, GoesOnAs DEF Call
<1> QED BY <1>4, <1>5 DEF CountKey

LEMMA CountLogContinues ==
  ASSUME DatabaseTypeOK, CallsInv, NEW p \in Callers, CountLog(p)
  PROVE  Continues(p)
<1>1. call[p] \in Call /\ InScript(call[p]) /\ call[p].at = "logged"
  BY DEF DatabaseTypeOK, CallsInv, CountLog
<1>2. PICK n \in {0, log} : call' = [call EXCEPT ![p].at = "append", ![p].count = n]
  BY DEF CountLog
<1> DEFINE c == [call[p] EXCEPT !.at = "append", !.count = n]
<1>3. c \in Call /\ InScript(c)
  <2>1. n \in Nat
    BY DEF DatabaseTypeOK
  <2> QED BY <1>1, <2>1 DEF Call, InScript, Writes, Deletes, OtherCalls
<1>4. call' = [call EXCEPT ![p] = c] /\ UNCHANGED stored
  BY <1>1, <1>2 DEF DatabaseTypeOK, CountLog
<1> QED BY <1>1, <1>3, <1>4, GoesOnAs DEF Call

\* What a call that begins puts in its place.
Fresh(p, op, t, v) ==
  [Idle EXCEPT !.at = First(op), !.op = op, !.on = t, !.value = v,
     !.script = IF op = "delete" THEN <<[do |-> "device", at |-> t],
                                        [do |-> "values", at |-> t]>> ELSE <<>>]

Begins(p) ==
  \E op \in Operations, t \in Targets \cup {Unknown}, v \in Values \cup {Unknown} :
    /\ Begin(p, op, t, v)
    /\ op \in {"add", "set", "get", "delete"} => t \in Devices
    /\ op \in {"key", "unkey"} => t \in Keys
    /\ op \in {"add", "set", "key"} => v \in Values
    /\ op \in {"default", "log"} => t = Unknown

\* Every step of a caller begins a call, or goes on with one or ends it.
LEMMA ProcessSteps ==
  ASSUME DatabaseTypeOK, CallsInv, NEW p \in Callers, Process(p)
  PROVE  Begins(p) \/ Continues(p)
<1>1. ASSUME CallDevice(p) \/ CallKey(p) \/ CallLog(p) \/ CallDefault(p)
      PROVE  Begins(p)
  BY <1>1 DEF CallDevice, CallKey, CallLog, CallDefault, Begins, Operations, Targets, Keys
<1>2. ASSUME Busy(p) PROVE Continues(p)
  BY <1>2, FailsContinues DEF Busy
<1>3. ASSUME SetOnline(p) PROVE Continues(p)
  <2>1. call[p].value \in Values \cup {Unknown}
    BY DEF DatabaseTypeOK, Call
  <2> QED BY <1>3, <2>1, FailsContinues DEF SetOnline, Continues
<1>4. ASSUME ClearDevices(p) PROVE Continues(p)
  BY <1>4, FailsContinues DEF ClearDevices, Continues
<1>5. ASSUME WriteKey(p) PROVE Continues(p)
  <2>1. call[p].value \in Values \cup {Unknown}
    BY DEF DatabaseTypeOK, Call
  <2> QED BY <1>5, <2>1 DEF WriteKey, Continues
<1>6. ASSUME AppendLog(p) PROVE Continues(p)
  BY <1>6 DEF AppendLog, Continues
<1> QED BY <1>1, <1>2, <1>3, <1>4, <1>5, <1>6, ReadDeviceContinues, ReadValuesContinues,
           CountDeviceContinues, WriteDeviceContinues, PlanContinues, RunStatementContinues,
           RunAgainContinues, ClearValuesContinues, CountKeyContinues, CountLogContinues
        DEF Process

\* The call that begins, and the others, which it may meet.
LEMMA BeginCalls ==
  ASSUME DatabaseTypeOK, CallsInv, NEW p \in Callers, NEW op \in Operations,
         NEW t \in Targets \cup {Unknown}, NEW v \in Values \cup {Unknown}, Begin(p, op, t, v),
         op \in {"add", "set", "get", "delete"} => t \in Devices,
         op \in {"key", "unkey"} => t \in Keys, op \in {"add", "set", "key"} => v \in Values
  PROVE  /\ call' \in [Callers -> Call] /\ CallsInv'
         /\ call[p].at = "idle" /\ call'[p].at = First(op) /\ call'[p].op = op
         /\ call'[p].on = t /\ call'[p].value = v
         /\ \A q \in Callers : q # p =>
              call'[q] = IF Written(call[q]) \cap Written(call'[p]) # {}
                         THEN [call[q] EXCEPT !.alone = FALSE] ELSE call[q]
         /\ call'[p].alone <=>
              \A q \in Callers : q # p => Written(call[q]) \cap Written(call'[p]) = {}
         /\ stored' = [u \in Targets |-> IF u \in Written(call'[p]) THEN Unknown ELSE stored[u]]
         /\ \A q \in Callers : q # p => Written(call[q]) \cap Written(call'[p]) \subseteq disturbed'
         /\ UNCHANGED databaseTables
<1> DEFINE c == Fresh(p, op, t, v)
           met == {q \in Callers : Written(call[q]) \cap Written(c) # {}}
<1>1. c \in Call /\ c.at = First(op) /\ c.op = op /\ c.on = t /\ c.value = v
      /\ c.at # "idle" /\ c.next = 1 /\ c.count = 0
      /\ c.script = IF op = "delete" THEN <<[do |-> "device", at |-> t],
                                            [do |-> "values", at |-> t]>> ELSE <<>>
  <2> DEFINE s == IF op = "delete" THEN <<[do |-> "device", at |-> t],
                                          [do |-> "values", at |-> t]>> ELSE <<>>
  <2>1. s \in Seq(Statements)
    <3>1. CASE op = "delete"
      <4>1. [do |-> "device", at |-> t] \in Statements /\ [do |-> "values", at |-> t] \in Statements
        BY <3>1 DEF Statements
      <4> QED BY <3>1, <4>1
    <3>2. CASE op # "delete"
      BY <3>2
    <3> QED BY <3>1, <3>2
  <2> HIDE DEF s
  <2>2. First(op) \in {"read", "count", "run", "found", "write", "logged"}
    BY DEF First, Operations
  <2>3. c = [at |-> First(op), op |-> op, on |-> t, value |-> v, count |-> 0, script |-> s,
             next |-> 1, tries |-> 0, alone |-> TRUE]
    <3>1. c = [Idle EXCEPT !.at = First(op), !.op = op, !.on = t, !.value = v, !.script = s]
      BY DEF Fresh, s
    <3> HIDE DEF c
    <3> QED BY <3>1 DEF Idle
  <2> HIDE DEF c
  <2> QED BY <2>1, <2>2, <2>3 DEF Call, s
<1>2. InScript(c)
  <2> HIDE DEF c
  <2> QED BY <1>1 DEF InScript, Writes, Deletes, OtherCalls, First, Operations
<1>3. call[p].at = "idle"
      /\ call' = [q \in Callers |-> IF q = p THEN [c EXCEPT !.alone = (met = {})]
                                    ELSE IF q \in met THEN [call[q] EXCEPT !.alone = FALSE]
                                    ELSE call[q]]
  BY DEF Begin, Fresh
<1> HIDE DEF c
<1> DEFINE d == [c EXCEPT !.alone = (met = {})]
<1>4. d \in Call /\ InScript(d) /\ Written(d) = Written(c) /\ (d.alone <=> met = {})
      /\ d.at = c.at /\ d.op = op /\ d.on = t /\ d.value = v
  <2> DEFINE b == (met = {})
  <2>0. b \in BOOLEAN /\ d = [c EXCEPT !.alone = b]
    OBVIOUS
  <2> HIDE DEF b, d
  <2>1. d \in Call /\ d.at = c.at /\ d.op = op /\ d.on = t /\ d.value = v /\ d.next = c.next
        /\ d.script = c.script /\ d.alone = b
    BY <1>1, <2>0 DEF Call
  <2>2. c.op = op /\ c.on = t /\ c.value = v
    BY <1>1
  <2>3. InScript(d)
    BY <1>2, <2>1, <2>2 DEF InScript, Writes, Deletes, OtherCalls, Planned
  <2>4. Written(d) = Written(c)
    BY <2>1, <2>2 DEF Written
  <2> QED BY <2>1, <2>3, <2>4 DEF b
<1>5. ASSUME NEW q \in Callers
      PROVE  LET e == [call[q] EXCEPT !.alone = FALSE] IN
             e \in Call /\ InScript(e) /\ ~ e.alone
  <2> DEFINE e == [call[q] EXCEPT !.alone = FALSE]
  <2>1. call[q] \in Call /\ InScript(call[q])
    BY DEF DatabaseTypeOK, CallsInv
  <2>2. e \in Call /\ ~ e.alone /\ e.at = call[q].at /\ e.op = call[q].op /\ e.on = call[q].on
        /\ e.value = call[q].value /\ e.next = call[q].next /\ e.script = call[q].script
    BY <2>1 DEF Call
  <2> HIDE DEF e
  <2>3. InScript(e)
    BY <2>1, <2>2 DEF InScript, Writes, Deletes, OtherCalls, Planned
  <2> QED BY <2>2, <2>3 DEF e
<1>6. call'[p] = d /\ \A q \in Callers : q # p =>
         call'[q] = IF q \in met THEN [call[q] EXCEPT !.alone = FALSE] ELSE call[q]
  BY <1>3
<1> HIDE DEF d, met
<1>7. \A q \in Callers : call[q] \in Call /\ InScript(call[q])
  BY DEF DatabaseTypeOK, CallsInv
<1>8. \A q \in Callers : call'[q] \in Call /\ InScript(call'[q])
  BY <1>4, <1>5, <1>6, <1>7
<1>9. call' \in [Callers -> Call] /\ CallsInv'
  BY <1>3, <1>8 DEF CallsInv
<1>10. \A q \in Callers : q # p =>
              call'[q] = IF Written(call[q]) \cap Written(call'[p]) # {}
                         THEN [call[q] EXCEPT !.alone = FALSE] ELSE call[q]
  BY <1>4, <1>6 DEF met
<1>11. call'[p].alone <=>
              \A q \in Callers : q # p => Written(call[q]) \cap Written(call'[p]) = {}
  <2>1. Written(call[p]) = {}
    BY <1>3 DEF Written
  <2> QED BY <1>4, <1>6, <2>1 DEF met
<1>12. stored' = [u \in Targets |-> IF u \in Written(call'[p]) THEN Unknown ELSE stored[u]]
  <2>1. stored' = [u \in Targets |-> IF u \in Written(c) THEN Unknown ELSE stored[u]]
    BY DEF Begin, Fresh, c
  <2> QED BY <1>4, <1>6, <2>1
<1>13. \A q \in Callers : q # p => Written(call[q]) \cap Written(call'[p]) \subseteq disturbed'
  <2>1. disturbed' = disturbed \cup UNION {Written(call[q]) \cap Written(c) : q \in met}
    BY DEF Begin, Fresh, c, met
  <2>2. ASSUME NEW q \in Callers, NEW t1 \in Written(call[q]) \cap Written(c)
        PROVE  t1 \in disturbed'
    <3>1. q \in met
      BY DEF met
    <3> QED BY <2>1, <3>1
  <2> QED BY <1>4, <1>6, <2>2
<1>14. UNCHANGED databaseTables
  BY DEF Begin, databaseTables
<1> QED BY <1>1, <1>3, <1>4, <1>6, <1>9, <1>10, <1>11, <1>12, <1>13, <1>14

\* The other calls are where they were, and none begins.
LEMMA ContinuesCalls ==
  ASSUME DatabaseTypeOK, CallsInv, NEW p \in Callers, Continues(p)
  PROVE  /\ call' \in [Callers -> Call] /\ CallsInv'
         /\ stored' \in [Targets -> Values \cup {Gone, Unknown}]
         /\ \A q \in Callers : q # p => call'[q] = call[q]
<1>1. call \in [Callers -> Call] /\ \A q \in Callers : InScript(call[q])
  BY DEF DatabaseTypeOK, CallsInv
<1>2. ASSUME NEW c \in Call, CallGoesOn(p, c)
      PROVE  call' = [call EXCEPT ![p] = c] /\ InScript(c) /\ stored' = stored
  BY <1>2 DEF CallGoesOn
<1>3. ASSUME NEW what \in Values \cup {Gone, Unknown}, Ends(p, what)
      PROVE  /\ call' = [call EXCEPT ![p] = Idle]
             /\ stored' \in [Targets -> Values \cup {Gone, Unknown}]
  BY <1>3 DEF Ends, DatabaseTypeOK
<1>4. PICK c \in Call : InScript(c) /\ call' = [call EXCEPT ![p] = c]
  BY <1>2, <1>3, IdleIsCall DEF Continues
<1>5. stored' \in [Targets -> Values \cup {Gone, Unknown}]
  BY <1>2, <1>3 DEF Continues, DatabaseTypeOK
<1>6. \A q \in Callers : call'[q] = IF q = p THEN c ELSE call[q]
  BY <1>1, <1>4
<1>7. call' \in [Callers -> Call]
  BY <1>1, <1>4
<1> QED BY <1>1, <1>4, <1>5, <1>6, <1>7 DEF CallsInv

\* The statement of the script that is next, and what it does to the tables.
LEMMA RunStatementTables ==
  ASSUME DatabaseTypeOK, CallsInv, NEW p \in Callers, RunStatement(p)
  PROVE  LET c == call[p] IN
         /\ c.at = "run" /\ c.on \in Devices
         /\ UNCHANGED <<keyed, log, calls, busy, disturbed, blind>>
         /\ \/ /\ c.op \in {"add", "set"} /\ c.value \in Values /\ c.next \in Columns
               /\ Planned(c) /\ Len(c.script) = ColumnCount
               /\ devices' = devices
               /\ values' = [values EXCEPT ![c.on][c.next] =
                               IF c.script[c.next].do = "insert" THEN Append(@, c.value)
                               ELSE [i \in DOMAIN @ |-> c.value]]
            \/ /\ c.op = "delete" /\ c.next = 1 /\ Len(c.script) = 2
               /\ devices' = devices \ {c.on} /\ values' = values
            \/ /\ c.op = "delete" /\ c.next = 2 /\ Len(c.script) = 2
               /\ devices' = devices /\ values' = [values EXCEPT ![c.on] = [k \in Columns |-> <<>>]]
<1> DEFINE c == call[p]
           s == c.script[c.next]
<1>1. c \in Call /\ InScript(c) /\ c.at = "run" /\ c.op # "default" /\ Done(s, c.on, c.value)
      /\ UNCHANGED <<keyed, log, calls, busy, disturbed, blind>>
  BY DEF DatabaseTypeOK, CallsInv, RunStatement
<1>2. c.op \in {"add", "set", "delete"} /\ c.on \in Devices
  BY <1>1 DEF InScript, Writes, Deletes, OtherCalls, Call, Operations
<1>3. CASE c.op = "delete"
  <2>1. c.next \in 1 .. 2 /\ c.script = <<[do |-> "device", at |-> c.on], [do |-> "values", at |-> c.on]>>
    BY <1>1, <1>3 DEF InScript, Deletes
  <2>2. CASE c.next = 1
    <3>1. s.do = "device"
      BY <2>1, <2>2
    <3>2. devices' = devices \ {c.on} /\ values' = values
      BY <1>1, <3>1 DEF Done
    <3> QED BY <1>1, <1>2, <1>3, <2>1, <2>2, <3>2
  <2>3. CASE c.next = 2
    <3>1. s.do = "values"
      BY <2>1, <2>3
    <3>2. devices' = devices /\ values' = [values EXCEPT ![c.on] = [k \in Columns |-> <<>>]]
      BY <1>1, <3>1 DEF Done
    <3> QED BY <1>1, <1>2, <1>3, <2>1, <2>3, <3>2
  <2> QED BY <2>1, <2>2, <2>3
<1>4. CASE c.op \in {"add", "set"}
  <2>1. /\ c.value \in Values /\ Planned(c) /\ Len(c.script) = ColumnCount
        /\ c.next \in Columns
    BY <1>1, <1>4 DEF InScript, Writes, Columns
  <2>2. s.at = c.next /\ s.do \in {"insert", "update"}
    BY <2>1 DEF Planned, Columns
  <2>3. devices' = devices
    BY <1>1, <2>2 DEF Done
  <2>4. values' = [values EXCEPT ![c.on][c.next] = IF s.do = "insert" THEN Append(@, c.value)
                                                  ELSE [i \in DOMAIN @ |-> c.value]]
    <3>1. CASE s.do = "insert"
      BY <1>1, <2>2, <3>1 DEF Done
    <3>2. CASE s.do = "update"
      BY <1>1, <2>2, <3>2 DEF Done
    <3> QED BY <2>2, <3>1, <3>2
  <2> QED BY <1>1, <1>2, <1>4, <2>1, <2>3, <2>4
<1> QED BY <1>2, <1>3, <1>4

\* The two things a statement does to the rows of a column.
LEMMA RowsOfAColumn ==
  ASSUME NEW S, NEW r \in Seq(S), NEW v \in S
  PROVE  /\ Append(r, v) \in Seq(S) /\ Len(Append(r, v)) = Len(r) + 1
         /\ Append(r, v) # << >> /\ Append(r, v)[Len(Append(r, v))] = v
         /\ r # << >> => Append(r, v)[1] = r[1]
         /\ [i \in DOMAIN r |-> v] \in Seq(S) /\ Len([i \in DOMAIN r |-> v]) = Len(r)
         /\ r # << >> => [i \in DOMAIN r |-> v] # << >> /\ [i \in DOMAIN r |-> v][1] = v
                         /\ [i \in DOMAIN r |-> v][Len([i \in DOMAIN r |-> v])] = v
         /\ Len(r) \in Nat /\ (r = << >> <=> Len(r) = 0)
<1>1. Len(r) \in Nat /\ DOMAIN r = 1 .. Len(r) /\ (r = << >> <=> Len(r) = 0)
  OBVIOUS
<1>2. r # << >> => 1 \in 1 .. Len(r) /\ Len(r) \in 1 .. Len(r)
  BY <1>1
<1> DEFINE u == [i \in DOMAIN r |-> v]
<1>3. u \in Seq(S) /\ Len(u) = Len(r) /\ \A i \in 1 .. Len(r) : u[i] = v
  BY <1>1
<1>4. r # << >> => u # << >>
  BY <1>1, <1>3
<1>5. /\ Append(r, v) \in Seq(S) /\ Len(Append(r, v)) = Len(r) + 1
      /\ Append(r, v) # << >> /\ Append(r, v)[Len(r) + 1] = v
      /\ r # << >> => Append(r, v)[1] = r[1]
  BY <1>1, <1>2
<1> HIDE DEF u
<1> QED BY <1>1, <1>2, <1>3, <1>4, <1>5 DEF u

LEMMA RunStatementTypes ==
  ASSUME DatabaseTypeOK, CallsInv, NEW p \in Callers, RunStatement(p)
  PROVE  devices' \subseteq Devices /\ values' \in [Devices -> [Columns -> Seq(Values)]]
<1> DEFINE c == call[p]
<1>1. devices \subseteq Devices /\ values \in [Devices -> [Columns -> Seq(Values)]]
  BY DEF DatabaseTypeOK
<1>2. CASE c.op \in {"add", "set"}
  <2>1. /\ c.on \in Devices /\ c.value \in Values /\ c.next \in Columns
        /\ devices' = devices
        /\ values' = [values EXCEPT ![c.on][c.next] =
                               IF c.script[c.next].do = "insert" THEN Append(@, c.value)
                               ELSE [i \in DOMAIN @ |-> c.value]]
    BY <1>2, RunStatementTables
  <2> DEFINE r == values[c.on][c.next]
             n == IF c.script[c.next].do = "insert" THEN Append(r, c.value)
                  ELSE [i \in DOMAIN r |-> c.value]
  <2>2. n \in Seq(Values)
    <3>1. r \in Seq(Values)
      BY <1>1, <2>1
    <3> HIDE DEF r, c
    <3>2. Append(r, c.value) \in Seq(Values) /\ [i \in DOMAIN r |-> c.value] \in Seq(Values)
      BY <2>1, <3>1, RowsOfAColumn
    <3> QED BY <3>2
  <2>3. values' = [values EXCEPT ![c.on][c.next] = n]
    BY <2>1
  <2> HIDE DEF n, c
  <2>4. [values[c.on] EXCEPT ![c.next] = n] \in [Columns -> Seq(Values)]
    BY <1>1, <2>1, <2>2
  <2> QED BY <1>1, <2>1, <2>3, <2>4
<1>3. CASE c.op = "delete"
  <2>1. [k \in Columns |-> <<>>] \in [Columns -> Seq(Values)]
    OBVIOUS
  <2> HIDE DEF c
  <2> QED BY <1>1, <1>3, <2>1, RunStatementTables DEF c
<1> QED BY <1>2, <1>3, RunStatementTables

\* The tables and counters keep their types whatever a process does.
LEMMA TablesTypes ==
  ASSUME DatabaseTypeOK, CallsInv, NEW p \in Callers, Process(p)
  PROVE  /\ devices' \subseteq Devices
         /\ values' \in [Devices -> [Columns -> Seq(Values)]]
         /\ keyed' \in [Keys -> Seq(Values)]
         /\ log' \in Nat
<1>1. /\ devices \subseteq Devices /\ values \in [Devices -> [Columns -> Seq(Values)]]
      /\ keyed \in [Keys -> Seq(Values)] /\ log \in Nat
      /\ call[p] \in Call /\ InScript(call[p])
  BY DEF DatabaseTypeOK, CallsInv
<1>2. ASSUME UNCHANGED databaseTables
      PROVE  /\ devices' \subseteq Devices /\ values' \in [Devices -> [Columns -> Seq(Values)]]
             /\ keyed' \in [Keys -> Seq(Values)] /\ log' \in Nat
  BY <1>1, <1>2 DEF databaseTables
<1>3. ASSUME \/ CallDevice(p) \/ CallKey(p) \/ CallLog(p) \/ CallDefault(p) \/ Busy(p)
             \/ ReadDevice(p) \/ ReadValues(p) \/ CountDevice(p) \/ Plan(p) \/ RunAgain(p)
             \/ SetOnline(p) \/ CountKey(p) \/ CountLog(p)
      PROVE  UNCHANGED databaseTables
  <2>1. ASSUME CallDevice(p) \/ CallKey(p) \/ CallLog(p) \/ CallDefault(p)
        PROVE  UNCHANGED databaseTables
    <3>1. ASSUME NEW op, NEW t, NEW v, Begin(p, op, t, v)
          PROVE  UNCHANGED databaseTables
      BY <3>1 DEF Begin, databaseTables
    <3> QED BY <2>1, <3>1 DEF CallDevice, CallKey, CallLog, CallDefault
  <2>2. ASSUME Busy(p) \/ ReadDevice(p) \/ ReadValues(p) \/ CountDevice(p) \/ Plan(p)
        PROVE  UNCHANGED databaseTables
    BY <2>2 DEF Busy, ReadDevice, ReadValues, CountDevice, Plan, databaseTables
  <2>3. ASSUME RunAgain(p) \/ SetOnline(p) \/ CountKey(p) \/ CountLog(p)
        PROVE  UNCHANGED databaseTables
    BY <2>3 DEF RunAgain, SetOnline, CountKey, CountLog, databaseTables
  <2> QED BY <1>3, <2>1, <2>2, <2>3
<1>4. ASSUME WriteDevice(p)
      PROVE  devices' \subseteq Devices /\ UNCHANGED <<values, keyed, log>>
  <2>1. call[p].on \in Devices
    <3>1. call[p].at = "device"
      BY <1>4 DEF WriteDevice
    <3> QED BY <1>1, <3>1 DEF InScript, Writes, Deletes, OtherCalls, Call, Operations
  <2> QED BY <1>1, <1>4, <2>1 DEF WriteDevice
<1>5. ASSUME RunStatement(p)
      PROVE  /\ devices' \subseteq Devices /\ values' \in [Devices -> [Columns -> Seq(Values)]]
             /\ UNCHANGED <<keyed, log>>
  BY <1>5, RunStatementTypes DEF RunStatement
<1>6. ASSUME ClearValues(p)
      PROVE  values' \in [Devices -> [Columns -> Seq(Values)]] /\ UNCHANGED <<devices, keyed, log>>
  <2>1. [k \in Columns |-> <<>>] \in [Columns -> Seq(Values)]
    OBVIOUS
  <2>2. [d \in Devices |-> [k \in Columns |-> <<>>]] \in [Devices -> [Columns -> Seq(Values)]]
    BY <2>1
  <2> QED BY <1>1, <1>6, <2>2 DEF ClearValues
<1>7. ASSUME ClearDevices(p)
      PROVE  devices' \subseteq Devices /\ UNCHANGED <<values, keyed, log>>
  BY <1>1, <1>7 DEF ClearDevices
<1>8. ASSUME WriteKey(p)
      PROVE  keyed' \in [Keys -> Seq(Values)] /\ UNCHANGED <<devices, values, log>>
  <2> DEFINE k == call[p].on
             r == keyed[k]
             n == IF call[p].op = "unkey" THEN <<>>
                  ELSE IF call[p].count = 0 THEN Append(r, call[p].value)
                  ELSE [i \in DOMAIN r |-> call[p].value]
  <2>1. k \in Keys /\ call[p].op \in {"key", "unkey"} /\ (call[p].op = "key" => call[p].value \in Values)
    <3>1. call[p].at = "write"
      BY <1>8 DEF WriteKey
    <3> QED BY <1>1, <3>1 DEF InScript, Writes, Deletes, OtherCalls, Call, Operations
  <2>2. n \in Seq(Values)
    <3>1. CASE call[p].op = "unkey"
      BY <3>1
    <3>2. CASE call[p].op = "key"
      <4>1. r \in Seq(Values)
        BY <1>1, <2>1
      <4> HIDE DEF r
      <4>2. Append(r, call[p].value) \in Seq(Values) /\ [i \in DOMAIN r |-> call[p].value] \in Seq(Values)
        BY <2>1, <3>2, <4>1, RowsOfAColumn
      <4> QED BY <3>2, <4>2
    <3> QED BY <2>1, <3>1, <3>2
  <2>3. keyed' = [keyed EXCEPT ![k] = n]
    BY <1>8 DEF WriteKey
  <2> HIDE DEF n
  <2> QED BY <1>1, <1>8, <2>1, <2>2, <2>3 DEF WriteKey
<1>9. ASSUME AppendLog(p)
      PROVE  log' \in Nat /\ UNCHANGED <<devices, values, keyed>>
  BY <1>1, <1>9 DEF AppendLog
<1> QED BY <1>1, <1>2, <1>3, <1>4, <1>5, <1>6, <1>7, <1>8, <1>9 DEF Process

LEMMA CountersTypes ==
  ASSUME DatabaseTypeOK, blind <= busy, NEW p \in Callers, Process(p)
  PROVE  /\ calls' \in 0 .. MaxCalls /\ busy' \in 0 .. MaxBusy
         /\ blind' \in 0 .. MaxBusy /\ blind' <= busy'
<1> DEFINE MoreCalls == calls < MaxCalls /\ calls' = calls + 1 /\ UNCHANGED <<busy, blind>>
           Same == UNCHANGED <<calls, busy, blind>>
           MoreBusy == busy < MaxBusy /\ busy' = busy + 1 /\ UNCHANGED <<calls, blind>>
           Blinded == busy < MaxBusy /\ busy' = busy + 1 /\ blind' = blind + 1 /\ UNCHANGED calls
<1>1. ASSUME CallDevice(p) \/ CallKey(p) \/ CallLog(p) \/ CallDefault(p) PROVE MoreCalls
  <2>1. ASSUME NEW op, NEW t, NEW v, Begin(p, op, t, v) PROVE MoreCalls
    BY <2>1 DEF Begin
  <2> QED BY <1>1, <2>1 DEF CallDevice, CallKey, CallLog, CallDefault
<1>2. ASSUME Busy(p) \/ RunAgain(p) PROVE MoreBusy
  BY <1>2 DEF Busy, RunAgain
<1>3. ASSUME ReadDevice(p) \/ ReadValues(p) \/ CountDevice(p) \/ WriteDevice(p) PROVE Same
  BY <1>3 DEF ReadDevice, ReadValues, CountDevice, WriteDevice
<1>4. ASSUME RunStatement(p) \/ SetOnline(p) \/ WriteKey(p) \/ AppendLog(p) PROVE Same
  BY <1>4 DEF RunStatement, SetOnline, WriteKey, AppendLog
<1>5. ASSUME Plan(p) \/ CountKey(p) PROVE Same \/ MoreBusy
  BY <1>5 DEF Plan, CountKey
<1>6. ASSUME ClearValues(p) \/ ClearDevices(p) PROVE Same \/ MoreBusy
  BY <1>6 DEF ClearValues, ClearDevices
<1>7. ASSUME CountLog(p) PROVE Same \/ Blinded
  BY <1>7 DEF CountLog
<1>8. MoreCalls \/ Same \/ MoreBusy \/ Blinded
  BY <1>1, <1>2, <1>3, <1>4, <1>5, <1>6, <1>7 DEF Process
<1>9. /\ calls \in Nat /\ calls <= MaxCalls /\ busy \in Nat /\ busy <= MaxBusy
      /\ blind \in Nat /\ blind <= MaxBusy /\ blind <= busy /\ MaxCalls \in Nat /\ MaxBusy \in Nat
  BY DatabaseAssumption DEF DatabaseTypeOK
<1> QED BY <1>8, <1>9

LEMMA DisturbedTypes ==
  ASSUME DatabaseTypeOK, CallsInv, NEW p \in Callers, Process(p)
  PROVE  disturbed' \subseteq Targets /\ disturbed \subseteq disturbed'
<1>1. disturbed \subseteq Targets /\ call[p] \in Call /\ InScript(call[p])
      /\ \A q \in Callers : Written(call[q]) \subseteq Targets
  <2>1. ASSUME NEW q \in Callers PROVE Written(call[q]) \subseteq Targets
    <3>1. call[q] \in Call /\ InScript(call[q])
      BY DEF DatabaseTypeOK, CallsInv
    <3> QED BY <3>1 DEF Written, InScript, Writes, Deletes, OtherCalls, Call, Writing, Targets
  <2> QED BY <2>1 DEF DatabaseTypeOK, CallsInv
<1>2. call[p].at \in {"plan", "found"} \/ (call[p].at = "run" /\ call[p].op # "default") => call[p].on \in Targets
  BY <1>1 DEF InScript, Writes, Deletes, OtherCalls, Call, Operations, Targets
<1>3. ASSUME NEW op, NEW t, NEW v, Begin(p, op, t, v)
      PROVE  disturbed' \subseteq Targets /\ disturbed \subseteq disturbed'
  BY <1>1, <1>3 DEF Begin
<1>4. ASSUME CallDevice(p) \/ CallKey(p) \/ CallLog(p) \/ CallDefault(p)
      PROVE  disturbed' \subseteq Targets /\ disturbed \subseteq disturbed'
  BY <1>3, <1>4 DEF CallDevice, CallKey, CallLog, CallDefault
<1>5. ASSUME Busy(p) \/ ReadDevice(p) \/ ReadValues(p) \/ CountDevice(p) \/ WriteDevice(p)
      PROVE  disturbed' = disturbed
  BY <1>5 DEF Busy, ReadDevice, ReadValues, CountDevice, WriteDevice
<1>6. ASSUME RunStatement(p) \/ SetOnline(p) \/ WriteKey(p) \/ AppendLog(p) \/ CountLog(p)
      PROVE  disturbed' = disturbed
  BY <1>6 DEF RunStatement, SetOnline, WriteKey, AppendLog, CountLog
<1>7. ASSUME ClearValues(p) \/ ClearDevices(p)
      PROVE  disturbed' = disturbed
  BY <1>7 DEF ClearValues, ClearDevices
<1>8. ASSUME Plan(p) \/ CountKey(p) \/ RunAgain(p)
      PROVE  disturbed' = disturbed \/ (disturbed' = disturbed \cup {call[p].on} /\ call[p].on \in Targets)
  BY <1>2, <1>8 DEF Plan, CountKey, RunAgain
<1> QED BY <1>1, <1>4, <1>5, <1>6, <1>7, <1>8 DEF Process

TypesInv == DatabaseTypeOK /\ CallsInv /\ blind <= busy

LEMMA StartOfTypes ==
  ASSUME DatabaseInit
  PROVE  TypesInv
<1>1. [c \in Columns |-> <<>>] \in [Columns -> Seq(Values)]
  OBVIOUS
<1>2. values \in [Devices -> [Columns -> Seq(Values)]]
  BY <1>1 DEF DatabaseInit
<1>3. keyed \in [Keys -> Seq(Values)]
  <2>1. << >> \in Seq(Values)
    OBVIOUS
  <2> QED BY <2>1 DEF DatabaseInit
<1>4. call \in [Callers -> Call] /\ CallsInv
  BY IdleIsCall DEF DatabaseInit, CallsInv
<1>5. calls \in 0 .. MaxCalls /\ busy \in 0 .. MaxBusy /\ blind \in 0 .. MaxBusy /\ blind <= busy
  BY DatabaseAssumption DEF DatabaseInit
<1>6. devices \subseteq Devices /\ log \in Nat /\ disturbed \subseteq Targets
      /\ stored \in [Targets -> Values \cup {Gone, Unknown}]
  BY DEF DatabaseInit
<1> QED BY <1>2, <1>3, <1>4, <1>5, <1>6 DEF TypesInv, DatabaseTypeOK

\* Every step keeps the types.
LEMMA TypesInductive ==
  ASSUME TypesInv, [DatabaseNext]_databaseVars
  PROVE  TypesInv'
<1>1. CASE UNCHANGED databaseVars
  BY <1>1 DEF TypesInv, DatabaseTypeOK, CallsInv, databaseVars
<1>2. ASSUME NEW p \in Callers, Process(p)
      PROVE  TypesInv'
  <2>1. DatabaseTypeOK /\ CallsInv /\ blind <= busy
    BY DEF TypesInv
  <2>2. /\ call' \in [Callers -> Call] /\ CallsInv'
        /\ stored' \in [Targets -> Values \cup {Gone, Unknown}]
    <3>1. CASE Continues(p)
      BY <2>1, <3>1, ContinuesCalls
    <3>2. CASE Begins(p)
      <4>1. call' \in [Callers -> Call] /\ CallsInv'
        BY <2>1, <3>2, BeginCalls DEF Begins
      <4>2. stored' \in [Targets -> Values \cup {Gone, Unknown}]
        <5>1. ASSUME NEW op, NEW t, NEW v, Begin(p, op, t, v)
              PROVE  \E W : stored' = [u \in Targets |-> IF u \in W THEN Unknown ELSE stored[u]]
          BY <5>1 DEF Begin
        <5>2. \E W : stored' = [u \in Targets |-> IF u \in W THEN Unknown ELSE stored[u]]
          BY <3>2, <5>1 DEF Begins
        <5> QED BY <2>1, <5>2 DEF DatabaseTypeOK
      <4> QED BY <4>1, <4>2
    <3> QED BY <1>2, <2>1, <3>1, <3>2, ProcessSteps
  <2> QED BY <1>2, <2>1, <2>2, TablesTypes, CountersTypes, DisturbedTypes DEF TypesInv, DatabaseTypeOK
<1> QED BY <1>1, <1>2 DEF DatabaseNext

\* The types hold in every state.
LEMMA TypesInvariant == DatabaseSpec => []TypesInv
<1>1. DatabaseInit => TypesInv
  BY StartOfTypes
<1>2. TypesInv /\ [DatabaseNext]_databaseVars => TypesInv'
  BY TypesInductive
<1> QED BY <1>1, <1>2, PTL DEF DatabaseSpec

\* The tables, the counters and every call, its script included, stay well
\* formed however the statements of the processes interleave.
THEOREM DatabaseTypes == DatabaseSpec => []DatabaseTypeOK
<1>1. TypesInv => DatabaseTypeOK
  BY DEF TypesInv
<1> QED BY <1>1, TypesInvariant, PTL

-----------------------------------------------------------------------------
\* The calls that counted the log while there was room, and are to insert.
Inserting == {p \in Callers : call[p].at = "append" /\ Room(call[p].count)}

\* Each of them makes the log longer by one.
LogInv == log + Cardinality(Inserting) <= MaxLog + Cardinality(Callers) - 1 + blind

LEMMA InsertingIsFinite ==
  /\ IsFiniteSet(Inserting) /\ Cardinality(Inserting) \in Nat
  /\ Cardinality(Callers) \in Nat /\ Cardinality(Inserting) <= Cardinality(Callers)
BY DatabaseAssumption, FS_Subset, FS_CardinalityType DEF Inserting

LEMMA InsertingIsFiniteNext ==
  (/\ IsFiniteSet(Inserting) /\ Cardinality(Inserting) \in Nat
   /\ Cardinality(Callers) \in Nat /\ Cardinality(Inserting) <= Cardinality(Callers))'
BY InsertingIsFinite, PTL

\* A call that is not at its insertion after the step is none of them.
LEMMA NoMoreInserting ==
  ASSUME NEW p \in Callers, \A q \in Callers : q # p =>
           call'[q].at = call[q].at /\ call'[q].count = call[q].count,
         call'[p].at # "append"
  PROVE  /\ Cardinality(Inserting') <= Cardinality(Inserting)
         /\ p \in Inserting => Cardinality(Inserting') = Cardinality(Inserting) - 1
<1>1. Inserting' = Inserting \ {p}
  BY DEF Inserting, Room
<1> QED BY <1>1, InsertingIsFinite, InsertingIsFiniteNext, FS_RemoveElement, FS_Subset

LEMMA LogArithmetic ==
  ASSUME NEW l \in Nat, NEW l2 \in Nat, NEW w \in Nat, NEW w2 \in Nat, NEW bound \in Int,
         l + w <= bound, (l2 = l /\ w2 <= w) \/ (l2 = l + 1 /\ w2 = w - 1)
  PROVE  l2 + w2 <= bound
OBVIOUS

\* Only a call that has counted the log goes to insert.
LEMMA NotToInsert ==
  ASSUME DatabaseTypeOK, NEW p \in Callers, Process(p), ~ CountLog(p),
         ~ (CallDevice(p) \/ CallKey(p) \/ CallLog(p) \/ CallDefault(p))
  PROVE  call'[p].at # "append"
<1> DEFINE c == call[p]
<1>1. call \in [Callers -> Call] /\ c \in Call
  BY DEF DatabaseTypeOK
<1>2. ASSUME NEW what, Ends(p, what)
      PROVE  call'[p].at = "idle"
  BY <1>1, <1>2 DEF Ends, Idle
<1>3. ASSUME NEW s, Step(p, s)
      PROVE  call'[p].at = s
  BY <1>1, <1>3 DEF Step, Call
<1>4. ASSUME Busy(p) \/ ReadDevice(p) \/ ReadValues(p) \/ SetOnline(p)
      PROVE  call'[p].at # "append"
  BY <1>2, <1>3, <1>4 DEF Busy, ReadDevice, ReadValues, SetOnline, CallFails
<1>5. ASSUME CountDevice(p) \/ WriteDevice(p)
      PROVE  call'[p].at # "append"
  BY <1>1, <1>2, <1>5 DEF CountDevice, WriteDevice, CallFails, Call
<1>6. ASSUME Plan(p)
      PROVE  call'[p].at # "append"
  BY <1>1, <1>6 DEF Plan, Call
<1>7. ASSUME RunStatement(p) \/ RunAgain(p)
      PROVE  call'[p].at # "append"
  <2>1. ASSUME call' = [call EXCEPT ![p].next = c.next + 1]
        PROVE  call'[p].at = c.at
    BY <1>1, <2>1 DEF Call
  <2>2. ASSUME call' = [call EXCEPT ![p].next = 1, ![p].tries = c.tries + 1]
        PROVE  call'[p].at = c.at
    BY <1>1, <2>2 DEF Call
  <2> QED BY <1>2, <1>3, <1>7, <2>1, <2>2 DEF RunStatement, RunAgain, CallFails
<1>8. ASSUME ClearValues(p) \/ ClearDevices(p) \/ WriteKey(p) \/ AppendLog(p)
      PROVE  call'[p].at # "append"
  BY <1>2, <1>3, <1>8 DEF ClearValues, ClearDevices, WriteKey, AppendLog, CallFails
<1>9. ASSUME CountKey(p)
      PROVE  call'[p].at # "append"
  BY <1>1, <1>9 DEF CountKey, Call
<1> QED BY <1>4, <1>5, <1>6, <1>7, <1>8, <1>9 DEF Process

LEMMA LogStep ==
  ASSUME TypesInv, LogInv, NEW p \in Callers, Process(p)
  PROVE  LogInv'
<1> DEFINE w == Cardinality(Inserting)
           n == Cardinality(Callers)
<1>1. /\ DatabaseTypeOK /\ CallsInv /\ log \in Nat /\ blind \in Nat /\ MaxLog \in Nat /\ MaxLog >= 1
      /\ w \in Nat /\ n \in Nat /\ w <= n /\ w' \in Nat /\ w' <= n
  BY DatabaseAssumption, InsertingIsFinite, InsertingIsFiniteNext DEF TypesInv, DatabaseTypeOK
<1>2. log + w <= MaxLog + n - 1 + blind
  BY DEF LogInv
<1>3. ASSUME Begins(p) PROVE w' <= w
  <2>1. PICK op \in Operations, t \in Targets \cup {Unknown}, v \in Values \cup {Unknown} :
          /\ Begin(p, op, t, v)
          /\ op \in {"add", "set", "get", "delete"} => t \in Devices
          /\ op \in {"key", "unkey"} => t \in Keys
          /\ op \in {"add", "set", "key"} => v \in Values
    BY <1>3 DEF Begins
  <2>2. /\ call'[p].at = First(op)
        /\ \A q \in Callers : q # p => call'[q] \in {call[q], [call[q] EXCEPT !.alone = FALSE]}
    BY <1>1, <2>1, BeginCalls
  <2>3. First(op) # "append"
    BY DEF First, Operations
  <2>4. ASSUME NEW q \in Callers, q # p
        PROVE  call'[q].at = call[q].at /\ call'[q].count = call[q].count
    <3>1. call[q] \in Call
      BY <1>1 DEF DatabaseTypeOK
    <3> QED BY <2>2, <2>4, <3>1 DEF Call
  <2> QED BY <2>2, <2>3, <2>4, NoMoreInserting
<1>4. ASSUME Continues(p), call'[p].at # "append"
      PROVE  w' <= w /\ (p \in Inserting => w' = w - 1)
  <2>1. \A q \in Callers : q # p => call'[q] = call[q]
    BY <1>1, <1>4, ContinuesCalls
  <2> QED BY <1>4, <2>1, NoMoreInserting
<1>5. CASE CountLog(p)
  <2>1. call[p] \in Call /\ call[p].at = "logged" /\ log' = log
    BY <1>1, <1>5 DEF CountLog, DatabaseTypeOK, databaseTables
  <2>2. p \notin Inserting
    BY <2>1 DEF Inserting
  <2>3. ASSUME NEW m, call' = [call EXCEPT ![p].at = "append", ![p].count = m]
        PROVE  w' = IF Room(m) THEN w + 1 ELSE w
    <3>1. call'[p].at = "append" /\ call'[p].count = m /\ \A q \in Callers : q # p => call'[q] = call[q]
      BY <1>1, <2>1, <2>3 DEF DatabaseTypeOK, Call
    <3>2. Inserting' = IF Room(m) THEN Inserting \cup {p} ELSE Inserting
      BY <2>2, <3>1 DEF Inserting, Room
    <3> QED BY <2>2, <3>2, InsertingIsFinite, FS_AddElement
  <2>4. CASE blind' = blind /\ call' = [call EXCEPT ![p].at = "append", ![p].count = log]
    <3>1. w' = IF Room(log) THEN w + 1 ELSE w
      BY <2>3, <2>4
    <3>2. log' + w' <= MaxLog + n - 1 + blind'
      <4> HIDE DEF w, n
      <4> QED BY <1>1, <1>2, <2>1, <2>4, <3>1 DEF Room
    <3> QED BY <3>2 DEF LogInv
  <2>5. CASE blind' = blind + 1 /\ call' = [call EXCEPT ![p].at = "append", ![p].count = 0]
    <3>0. Room(0)
      BY <1>1 DEF Room
    <3>1. w' = w + 1
      BY <2>3, <2>5, <3>0
    <3>2. log' + w' <= MaxLog + n - 1 + blind'
      <4> HIDE DEF w, n
      <4> QED BY <1>1, <1>2, <2>1, <2>5, <3>1
    <3> QED BY <3>2 DEF LogInv
  <2> QED BY <1>5, <2>4, <2>5 DEF CountLog
<1>6. CASE AppendLog(p)
  <2>1. Continues(p) /\ call'[p].at = "idle" /\ call[p].at = "append" /\ blind' = blind
        /\ log' = IF Room(call[p].count) THEN log + 1 ELSE log
    BY <1>1, <1>6 DEF AppendLog, Continues, Ends, Idle, DatabaseTypeOK
  <2>2. w' <= w /\ (Room(call[p].count) => w' = w - 1)
    BY <1>4, <2>1 DEF Inserting
  <2>3. MaxLog + n - 1 + blind' \in Int /\ log' \in Nat /\ log + w <= MaxLog + n - 1 + blind'
        /\ ((log' = log /\ w' <= w) \/ (log' = log + 1 /\ w' = w - 1))
    BY <1>1, <1>2, <2>1, <2>2
  <2> QED BY <1>1, <2>3, LogArithmetic DEF LogInv
<1>7. CASE ~ CountLog(p) /\ ~ AppendLog(p)
  <2>1. log' = log /\ blind' = blind
    <3>1. ASSUME NEW op, NEW t, NEW v, Begin(p, op, t, v)
          PROVE  log' = log /\ blind' = blind
      BY <3>1 DEF Begin, databaseTables
    <3>2. ASSUME CallDevice(p) \/ CallKey(p) \/ CallLog(p) \/ CallDefault(p)
          PROVE  log' = log /\ blind' = blind
      BY <3>1, <3>2 DEF CallDevice, CallKey, CallLog, CallDefault
    <3>3. ASSUME Busy(p) \/ ReadDevice(p) \/ ReadValues(p) \/ CountDevice(p) \/ Plan(p)
          PROVE  log' = log /\ blind' = blind
      BY <3>3 DEF Busy, ReadDevice, ReadValues, CountDevice, Plan, databaseTables
    <3>4. ASSUME RunAgain(p) \/ SetOnline(p) \/ CountKey(p) \/ WriteDevice(p)
          PROVE  log' = log /\ blind' = blind
      BY <3>4 DEF RunAgain, SetOnline, CountKey, WriteDevice, databaseTables
    <3>5. ASSUME RunStatement(p) \/ ClearValues(p) \/ ClearDevices(p) \/ WriteKey(p)
          PROVE  log' = log /\ blind' = blind
      BY <3>5 DEF RunStatement, ClearValues, ClearDevices, WriteKey
    <3> QED BY <1>7, <3>2, <3>3, <3>4, <3>5 DEF Process
  <2>2. w' <= w
    <3>1. ASSUME CallDevice(p) \/ CallKey(p) \/ CallLog(p) \/ CallDefault(p) PROVE Begins(p)
      BY <3>1 DEF CallDevice, CallKey, CallLog, CallDefault, Begins, Operations, Targets, Keys
    <3>2. ASSUME ~ (CallDevice(p) \/ CallKey(p) \/ CallLog(p) \/ CallDefault(p))
          PROVE  call'[p].at # "append"
      BY <1>1, <1>7, <3>2, NotToInsert
    <3> QED BY <1>1, <1>3, <1>4, <3>1, <3>2, ProcessSteps
  <2>3. MaxLog + n - 1 + blind' \in Int /\ log' \in Nat /\ log + w <= MaxLog + n - 1 + blind'
    BY <1>1, <1>2, <2>1
  <2> QED BY <1>1, <2>1, <2>2, <2>3, LogArithmetic DEF LogInv
<1> QED BY <1>5, <1>6, <1>7

\* The callers about to insert fit above the limit.
LEMMA LogInvariant == DatabaseSpec => [](TypesInv /\ LogInv)
<1>1. DatabaseInit => LogInv
  <2> SUFFICES ASSUME DatabaseInit PROVE LogInv
    OBVIOUS
  <2>1. Inserting = {}
    BY DEF DatabaseInit, Inserting, Idle
  <2>2. Cardinality(Inserting) = 0
    BY <2>1, FS_EmptySet
  <2>3. log = 0 /\ blind = 0 /\ Cardinality(Callers) \in Nat /\ MaxLog \in Nat /\ MaxLog >= 1
    BY DatabaseAssumption, InsertingIsFinite DEF DatabaseInit
  <2> QED BY <2>2, <2>3 DEF LogInv
<1>2. TypesInv /\ LogInv /\ [DatabaseNext]_databaseVars => LogInv'
  <2> SUFFICES ASSUME TypesInv, LogInv, [DatabaseNext]_databaseVars PROVE LogInv'
    OBVIOUS
  <2>1. CASE UNCHANGED databaseVars
    <3>1. Inserting' = Inserting
      BY <2>1 DEF databaseVars, Inserting
    <3> QED BY <2>1, <3>1 DEF databaseVars, LogInv
  <2> QED BY <2>1, LogStep DEF DatabaseNext
<1> QED BY <1>1, <1>2, TypesInvariant, PTL DEF DatabaseSpec

\* The log of devices is longer than its limit by at most one entry for each
\* caller but one, and for each count of it that failed, for any number of
\* callers: those that counted while there was room all insert.
THEOREM LogIsBounded == DatabaseSpec => []LogBounded
<1>1. TypesInv /\ LogInv => LogBounded
  <2> SUFFICES ASSUME TypesInv, LogInv PROVE LogBounded
    OBVIOUS
  <2>1. log \in Nat /\ blind \in Nat /\ MaxLog \in Nat
    BY DatabaseAssumption DEF TypesInv, DatabaseTypeOK
  <2>2. Cardinality(Inserting) \in Nat /\ Cardinality(Callers) \in Nat
    BY InsertingIsFinite
  <2>3. log + Cardinality(Inserting) <= MaxLog + Cardinality(Callers) - 1 + blind
    BY DEF LogInv
  <2> QED BY <2>1, <2>2, <2>3 DEF LogBounded
<1> QED BY <1>1, LogInvariant, PTL

-----------------------------------------------------------------------------
\* What is being written is not known.
UnknownInv == \A p \in Callers : \A t \in Written(call[p]) : stored[t] = Unknown

\* Who writes what another writes is not alone.
ApartInv ==
  \A p, q \in Callers :
    p # q /\ Written(call[p]) \cap Written(call[q]) # {} => ~ call[p].alone

\* What one wrote that was not alone is disturbed.
DisturbedInv ==
  \A p \in Callers :
    call[p].at # "idle" /\ call[p].op \in Writing \ {"default"} =>
      call[p].alone \/ call[p].on \in disturbed

\* The new calls and those that go on write the same; who ends writes nothing.
LEMMA WrittenStep ==
  ASSUME TypesInv, ApartInv, NEW p \in Callers, Continues(p)
  PROVE  /\ \A q \in Callers : q # p => call'[q] = call[q]
         /\ \/ /\ CallGoesOn(p, call'[p]) /\ Written(call'[p]) = Written(call[p])
            \/ /\ call'[p] = Idle /\ Written(call'[p]) = {}
               /\ \E what \in Values \cup {Gone, Unknown} : Ends(p, what)
<1>1. DatabaseTypeOK /\ CallsInv /\ call \in [Callers -> Call]
  BY DEF TypesInv, DatabaseTypeOK
<1>2. ASSUME NEW c \in Call, CallGoesOn(p, c)
      PROVE  CallGoesOn(p, call'[p]) /\ Written(call'[p]) = Written(call[p])
  <2>1. call'[p] = c
    BY <1>1, <1>2 DEF CallGoesOn
  <2> QED BY <1>2, <2>1 DEF CallGoesOn, Written
<1>3. ASSUME NEW what \in Values \cup {Gone, Unknown}, Ends(p, what)
      PROVE  call'[p] = Idle /\ Written(call'[p]) = {}
  BY <1>1, <1>3 DEF Ends, Written, Idle
<1> QED BY <1>1, <1>2, <1>3, ContinuesCalls DEF Continues

\* Where what is stored changes.
LEMMA StoredStep ==
  ASSUME TypesInv, ApartInv, UnknownInv, NEW p \in Callers, Continues(p), NEW t \in Targets
  PROVE  /\ stored'[t] # stored[t] => t \in Written(call[p]) /\ call[p].alone /\ call'[p] = Idle
         /\ \A q \in Callers : q # p /\ t \in Written(call[q]) => stored'[t] = Unknown
<1>1. DatabaseTypeOK
  BY DEF TypesInv
<1>2. stored'[t] # stored[t] => t \in Written(call[p]) /\ call[p].alone /\ call'[p] = Idle
  <2>1. ASSUME UNCHANGED stored PROVE stored'[t] = stored[t]
    BY <2>1
  <2>2. ASSUME NEW what, Ends(p, what)
        PROVE  stored'[t] # stored[t] => t \in Written(call[p]) /\ call[p].alone
    BY <2>2 DEF Ends
  <2> QED BY <2>1, <2>2, WrittenStep DEF CallGoesOn
<1>3. ASSUME NEW q \in Callers, q # p, t \in Written(call[q])
      PROVE  stored'[t] = Unknown
  <2>1. stored[t] = Unknown
    BY <1>3 DEF UnknownInv
  <2>2. t \in Written(call[p]) => ~ call[p].alone
    BY <1>3 DEF ApartInv
  <2> QED BY <1>2, <2>1, <2>2
<1> QED BY <1>2, <1>3

\* A call that begins, in the words of the invariants.
LEMMA BeginStep ==
  ASSUME TypesInv, NEW p \in Callers, Begins(p)
  PROVE  /\ call[p].at = "idle" /\ Written(call[p]) = {}
         /\ call'[p].at \in {"read", "count", "run", "found", "write", "logged"}
         /\ call'[p].op \in {"add", "set"} => call'[p].at \in {"read", "count"}
         /\ call'[p].op = "delete" => call'[p].next = 1
         /\ call'[p].op = "default" => call'[p].at = "run"
         /\ call'[p].op = "key" => call'[p].at = "found"
         /\ \A q \in Callers : q # p =>
              /\ call'[q] \in {call[q], [call[q] EXCEPT !.alone = FALSE]}
              /\ Written(call'[q]) = Written(call[q])
              /\ call'[q].alone <=> call[q].alone /\ Written(call[q]) \cap Written(call'[p]) = {}
         /\ call'[p].alone <=>
              \A q \in Callers : q # p => Written(call[q]) \cap Written(call'[p]) = {}
         /\ stored' = [u \in Targets |-> IF u \in Written(call'[p]) THEN Unknown ELSE stored[u]]
         /\ \A q \in Callers : q # p => Written(call[q]) \cap Written(call'[p]) \subseteq disturbed'
         /\ UNCHANGED databaseTables
<1>1. DatabaseTypeOK /\ CallsInv /\ call \in [Callers -> Call]
  BY DEF TypesInv, DatabaseTypeOK
<1>2. PICK op \in Operations, t \in Targets \cup {Unknown}, v \in Values \cup {Unknown} :
          /\ Begin(p, op, t, v)
          /\ op \in {"add", "set", "get", "delete"} => t \in Devices
          /\ op \in {"key", "unkey"} => t \in Keys
          /\ op \in {"add", "set", "key"} => v \in Values
  BY DEF Begins
<1>3. /\ call[p].at = "idle" /\ call'[p].at = First(op) /\ call'[p].op = op
      /\ \A q \in Callers : q # p =>
              call'[q] = IF Written(call[q]) \cap Written(call'[p]) # {}
                         THEN [call[q] EXCEPT !.alone = FALSE] ELSE call[q]
      /\ call'[p].alone <=>
              \A q \in Callers : q # p => Written(call[q]) \cap Written(call'[p]) = {}
      /\ stored' = [u \in Targets |-> IF u \in Written(call'[p]) THEN Unknown ELSE stored[u]]
      /\ \A q \in Callers : q # p => Written(call[q]) \cap Written(call'[p]) \subseteq disturbed'
      /\ UNCHANGED databaseTables
  BY <1>1, <1>2, BeginCalls
<1>4. /\ Written(call[p]) = {}
      /\ call'[p].at \in {"read", "count", "run", "found", "write", "logged"}
      /\ call'[p].op \in {"add", "set"} => call'[p].at \in {"read", "count"}
      /\ call'[p].op = "default" => call'[p].at = "run"
      /\ call'[p].op = "key" => call'[p].at = "found"
  BY <1>3 DEF Written, First, Operations
<1>5. call'[p].op = "delete" => call'[p].next = 1
  <2>1. ASSUME NEW b PROVE [Fresh(p, op, t, v) EXCEPT !.alone = b].next = 1
    BY DEF Fresh, Idle
  <2>2. \E b : call'[p] = [Fresh(p, op, t, v) EXCEPT !.alone = b]
    BY <1>2 DEF Begin, Fresh
  <2> QED BY <2>1, <2>2
<1>6. ASSUME NEW q \in Callers, q # p
      PROVE  /\ call'[q] \in {call[q], [call[q] EXCEPT !.alone = FALSE]}
             /\ Written(call'[q]) = Written(call[q])
             /\ call'[q].alone <=> call[q].alone /\ Written(call[q]) \cap Written(call'[p]) = {}
  <2> DEFINE e == [call[q] EXCEPT !.alone = FALSE]
  <2>1. call[q] \in Call
    BY <1>1
  <2>2. e.at = call[q].at /\ e.op = call[q].op /\ e.on = call[q].on /\ ~ e.alone
    BY <2>1 DEF Call
  <2>3. Written(e) = Written(call[q])
    <3> HIDE DEF e
    <3> QED BY <2>2 DEF Written
  <2> HIDE DEF e
  <2>4. call'[q] = IF Written(call[q]) \cap Written(call'[p]) # {} THEN e ELSE call[q]
    BY <1>3, <1>6 DEF e
  <2> QED BY <2>2, <2>3, <2>4 DEF e
<1> QED BY <1>3, <1>4, <1>5, <1>6

LEMMA UnknownInductive ==
  ASSUME TypesInv, UnknownInv, ApartInv, NEW p \in Callers, Process(p)
  PROVE  UnknownInv'
<1>0. DatabaseTypeOK /\ CallsInv
  BY DEF TypesInv
<1>3. \A q \in Callers : Written(call'[q]) \subseteq Targets
  <2>1. TypesInv'
    BY TypesInductive DEF DatabaseNext
  <2>2. \A q \in Callers : call'[q] \in Call /\ InScript(call'[q])
    BY <2>1 DEF TypesInv, DatabaseTypeOK, CallsInv
  <2> QED BY <2>2 DEF Written, InScript, Writes, Deletes, OtherCalls, Call, Writing, Targets, Keys
<1>1. CASE Begins(p)
  <2> SUFFICES ASSUME NEW q \in Callers, NEW t \in Written(call'[q])
               PROVE  stored'[t] = Unknown
    BY DEF UnknownInv
  <2>1. t \in Targets
    BY <1>3
  <2>2. stored'[t] = IF t \in Written(call'[p]) THEN Unknown ELSE stored[t]
    BY <1>1, <2>1, BeginStep
  <2>3. q # p => stored[t] = Unknown
    BY <1>1, BeginStep DEF UnknownInv
  <2> QED BY <2>2, <2>3
<1>2. CASE Continues(p)
  <2> SUFFICES ASSUME NEW q \in Callers, NEW t \in Written(call'[q])
               PROVE  stored'[t] = Unknown
    BY DEF UnknownInv
  <2>1. t \in Targets
    BY <1>3
  <2>2. CASE q # p
    <3>1. t \in Written(call[q])
      BY <1>2, <2>2, WrittenStep
    <3> QED BY <1>2, <2>1, <2>2, <3>1, StoredStep
  <2>3. CASE q = p
    <3>1. CallGoesOn(p, call'[p]) /\ t \in Written(call[p])
      BY <1>2, <2>3, WrittenStep
    <3> QED BY <3>1 DEF CallGoesOn, UnknownInv
  <2> QED BY <2>2, <2>3
<1> QED BY <1>0, <1>1, <1>2, ProcessSteps

LEMMA ApartInductive ==
  ASSUME TypesInv, ApartInv, NEW p \in Callers, Process(p)
  PROVE  ApartInv'
<1>0. DatabaseTypeOK /\ CallsInv
  BY DEF TypesInv
<1>1. CASE Begins(p)
  <2> SUFFICES ASSUME NEW q \in Callers, NEW r \in Callers, q # r, call'[q].alone
               PROVE  Written(call'[q]) \cap Written(call'[r]) = {}
    BY DEF ApartInv
  <2>1. CASE q # p /\ r # p
    BY <1>1, <2>1, BeginStep DEF ApartInv
  <2>2. CASE q = p
    BY <1>1, <2>2, BeginStep
  <2>3. CASE r = p
    BY <1>1, <2>3, BeginStep
  <2> QED BY <2>1, <2>2, <2>3
<1>2. CASE Continues(p)
  <2>1. \A q \in Callers : Written(call'[q]) \subseteq Written(call[q])
    BY <1>2, WrittenStep
  <2>2. \A q \in Callers : call'[q].alone /\ Written(call'[q]) # {} => call[q].alone
    BY <1>2, WrittenStep DEF CallGoesOn
  <2> QED BY <2>1, <2>2 DEF ApartInv
<1> QED BY <1>0, <1>1, <1>2, ProcessSteps

LEMMA DisturbedInductive ==
  ASSUME TypesInv, ApartInv, DisturbedInv, NEW p \in Callers, Process(p)
  PROVE  DisturbedInv'
<1>0. DatabaseTypeOK /\ CallsInv /\ disturbed \subseteq disturbed'
  BY DisturbedTypes DEF TypesInv
<1> SUFFICES ASSUME NEW q \in Callers, call'[q].at # "idle", call'[q].op \in Writing \ {"default"},
                    ~ call'[q].alone
             PROVE  call'[q].on \in disturbed'
  BY DEF DisturbedInv
<1>3. Written(call'[q]) = {call'[q].on}
  BY DEF Written
<1>1. CASE Begins(p)
  <2>1. CASE q = p
    <3>1. PICK r \in Callers : r # p /\ Written(call[r]) \cap Written(call'[p]) # {}
      BY <1>1, <2>1, BeginStep
    <3>2. Written(call[r]) \cap Written(call'[p]) \subseteq disturbed'
      BY <1>1, <3>1, BeginStep
    <3> QED BY <1>3, <2>1, <3>1, <3>2
  <2>2. CASE q # p
    <3>1. call[q] \in Call
      BY <1>0 DEF DatabaseTypeOK
    <3>2. call'[q].at = call[q].at /\ call'[q].op = call[q].op /\ call'[q].on = call[q].on
      BY <1>1, <2>2, <3>1, BeginStep DEF Call
    <3>3. CASE call[q].alone
      <4>1. Written(call[q]) \cap Written(call'[p]) # {} /\ Written(call[q]) = Written(call'[q])
        BY <1>1, <2>2, <3>3, BeginStep
      <4>2. Written(call[q]) \cap Written(call'[p]) \subseteq disturbed'
        BY <1>1, <2>2, BeginStep
      <4> QED BY <1>3, <4>1, <4>2
    <3>4. CASE ~ call[q].alone
      BY <1>0, <3>2, <3>4 DEF DisturbedInv
    <3> QED BY <3>3, <3>4
  <2> QED BY <2>1, <2>2
<1>2. CASE Continues(p)
  <2>1. CASE q # p
    <3>1. call'[q] = call[q]
      BY <1>2, <2>1, WrittenStep
    <3> QED BY <1>0, <3>1 DEF DisturbedInv
  <2>2. CASE q = p
    <3>1. CallGoesOn(p, call'[p])
      BY <1>2, <2>2, WrittenStep DEF Idle
    <3> QED BY <1>0, <2>2, <3>1 DEF CallGoesOn, DisturbedInv
  <2> QED BY <2>1, <2>2
<1> QED BY <1>0, <1>1, <1>2, ProcessSteps

-----------------------------------------------------------------------------
\* What a call changes is what it writes.
LEMMA Footprint ==
  ASSUME TypesInv, NEW p \in Callers, Process(p)
  PROVE  /\ \A d \in Devices \ Written(call[p]) :
              (d \in devices' <=> d \in devices) /\ values'[d] = values[d]
         /\ \A k \in Keys \ Written(call[p]) : keyed'[k] = keyed[k]
<1> DEFINE Kept == /\ \A d \in Devices \ Written(call[p]) :
                        (d \in devices' <=> d \in devices) /\ values'[d] = values[d]
                   /\ \A k \in Keys \ Written(call[p]) : keyed'[k] = keyed[k]
<1>1. DatabaseTypeOK /\ CallsInv /\ call[p] \in Call /\ InScript(call[p])
      /\ values \in [Devices -> [Columns -> Seq(Values)]] /\ keyed \in [Keys -> Seq(Values)]
  BY DEF TypesInv, DatabaseTypeOK, CallsInv
<1>2. ASSUME UNCHANGED databaseTables PROVE Kept
  BY <1>2 DEF databaseTables
<1>3. CASE Begins(p)
  BY <1>2, <1>3, BeginStep
<1>4. ASSUME Busy(p) \/ ReadDevice(p) \/ ReadValues(p) \/ CountDevice(p) \/ Plan(p)
      PROVE  Kept
  BY <1>2, <1>4 DEF Busy, ReadDevice, ReadValues, CountDevice, Plan
<1>5. ASSUME RunAgain(p) \/ SetOnline(p) \/ CountKey(p) \/ CountLog(p)
      PROVE  Kept
  BY <1>2, <1>5 DEF RunAgain, SetOnline, CountKey, CountLog
<1>6. ASSUME WriteDevice(p) PROVE Kept
  <2>1. call[p].at = "device" /\ call[p].op \in {"add", "set"}
    BY <1>1, <1>6 DEF WriteDevice, InScript, Writes, Deletes, OtherCalls, Call, Operations
  <2>2. Written(call[p]) = {call[p].on}
    BY <2>1 DEF Written, Writing
  <2> QED BY <1>6, <2>2 DEF WriteDevice
<1>7. ASSUME RunStatement(p) PROVE Kept
  <2>1. /\ call[p].at = "run" /\ call[p].op \in {"add", "set", "delete"}
        /\ UNCHANGED keyed /\ call[p].on \in Devices
        /\ \A d \in Devices \ {call[p].on} :
             (d \in devices' <=> d \in devices) /\ values'[d] = values[d]
    BY <1>1, <1>7, RunStatementTables
  <2>2. Written(call[p]) = {call[p].on}
    BY <2>1 DEF Written, Writing
  <2> QED BY <2>1, <2>2
<1>8. ASSUME ClearValues(p) \/ ClearDevices(p) PROVE Kept
  <2>1. call[p].at \in {"run", "clear"} /\ call[p].op = "default"
    BY <1>1, <1>8 DEF ClearValues, ClearDevices, InScript, Writes, Deletes, OtherCalls, Call, Operations
  <2>2. Written(call[p]) = Devices
    BY <2>1 DEF Written, Writing
  <2> QED BY <1>8, <2>2 DEF ClearValues, ClearDevices
<1>9. ASSUME WriteKey(p) PROVE Kept
  <2>1. call[p].at = "write" /\ call[p].op \in {"key", "unkey"}
    BY <1>1, <1>9 DEF WriteKey, InScript, Writes, Deletes, OtherCalls, Call, Operations
  <2>2. Written(call[p]) = {call[p].on}
    BY <2>1 DEF Written, Writing
  <2> QED BY <1>1, <1>9, <2>2 DEF WriteKey
<1>10. ASSUME AppendLog(p) PROVE Kept
  BY <1>10 DEF AppendLog
<1>11. ASSUME CallDevice(p) \/ CallKey(p) \/ CallLog(p) \/ CallDefault(p) PROVE Begins(p)
  BY <1>11 DEF CallDevice, CallKey, CallLog, CallDefault, Begins, Operations, Targets, Keys
<1> QED BY <1>3, <1>4, <1>5, <1>6, <1>7, <1>8, <1>9, <1>10, <1>11 DEF Process

\* The column i of d holds v in its oldest or its newest row.
IsStored(d, i, v) ==
  values[d][i] # <<>> /\ v \in {values[d][i][1], values[d][i][Len(values[d][i])]}

\* What a call that writes a device knows of it while it is alone: whether the
\* row is there, that the columns it updates have a row, and what it has stored.
KnowsDevice(c) ==
  c.op \in {"add", "set"} =>
    /\ c.at \in {"values", "plan", "run", "online"} => c.on \in devices
    /\ c.at = "device" => (c.count = 0 <=> c.on \notin devices)
    /\ c.at \in {"plan", "run"} =>
         \A i \in 1 .. Len(c.script) : c.script[i].do = "update" => values[c.on][i] # <<>>
    /\ c.at = "run" => \A i \in Columns : i < c.next => IsStored(c.on, i, c.value)
    /\ c.at = "online" => \A i \in Columns : IsStored(c.on, i, c.value)

\* And the other calls: what is deleted already, and whether the key has rows.
KnowsRest(c) ==
  /\ c.op = "delete" /\ c.at = "run" /\ c.next = 2 => c.on \notin devices
  /\ c.op = "default" /\ c.at = "clear" => \A d \in Devices, i \in Columns : values[d][i] = <<>>
  /\ c.op = "key" /\ c.at = "write" => (c.count = 0 <=> ~ RowsFound(c.on))

Knows(c) == KnowsDevice(c) /\ KnowsRest(c)
KnowsInv == \A p \in Callers : call[p].alone => Knows(call[p])

\* x is what the last call that was alone left of t.
DeviceHolds(d, x) ==
  /\ x \in Values => d \in devices /\ \A i \in Columns : IsStored(d, i, x)
  /\ x = Gone => d \notin devices /\ \A i \in Columns : values[d][i] = <<>>

KeyHolds(k, x) ==
  /\ x = Gone => keyed[k] = <<>>
  /\ x \in Values =>
       /\ keyed[k] # <<>>
       /\ \/ keyed[k][1] = x
          \/ k \in Configurations /\ (k \in disturbed \/ keyed[k][1] \notin Counting)

Holding(t, x) == (t \in Devices => DeviceHolds(t, x)) /\ (t \in Keys => KeyHolds(t, x))
StoredInv == \A t \in Targets : Holding(t, stored[t])

\* Nothing is said of a target that is not known.
LEMMA HoldingUnknown == \A t \in Targets : Holding(t, Unknown)
BY DatabaseAssumption DEF Holding, DeviceHolds, KeyHolds

\* The same after a step.
LEMMA HoldingUnknownNext == (\A t \in Targets : Holding(t, Unknown))'
BY HoldingUnknown, PTL

\* The last conjunct of the invariant is the property.
LEMMA StoredInvIs == DatabaseTypeOK => (StoredInv <=> StoredAsSet)
<1> SUFFICES ASSUME DatabaseTypeOK PROVE StoredInv <=> StoredAsSet
  OBVIOUS
<1>1. Devices \subseteq Targets /\ Keys \subseteq Targets /\ Targets = Devices \cup Keys
      /\ Devices \cap Keys = {}
  BY DatabaseAssumption DEF Targets, Keys
<1>2. ASSUME NEW d \in Devices
      PROVE  DeviceHolds(d, stored[d]) <=>
               /\ stored[d] \in Values =>
                    /\ d \in devices
                    /\ \A c \in Columns : values[d][c] # <<>> /\
                         stored[d] \in {values[d][c][1], values[d][c][Len(values[d][c])]}
               /\ stored[d] = Gone => d \notin devices /\ Missing(d) = Columns
  BY DEF DeviceHolds, IsStored, Missing
<1>3. ASSUME NEW k \in Keys
      PROVE  KeyHolds(k, stored[k]) <=>
               /\ stored[k] = Gone => keyed[k] = <<>>
               /\ stored[k] \in Values =>
                    /\ keyed[k] # <<>>
                    /\ \/ Head(keyed[k]) = stored[k]
                       \/ k \in Configurations /\ (k \in disturbed \/ Head(keyed[k]) \notin Counting)
  <2>1. keyed[k] \in Seq(Values)
    BY DEF DatabaseTypeOK
  <2>2. keyed[k] # <<>> => Head(keyed[k]) = keyed[k][1]
    BY <2>1
  <2> QED BY <2>2 DEF KeyHolds
<1>4. StoredInv <=> (\A d \in Devices : DeviceHolds(d, stored[d])) /\ (\A k \in Keys : KeyHolds(k, stored[k]))
  BY <1>1 DEF StoredInv, Holding
<1> QED BY <1>2, <1>3, <1>4 DEF StoredAsSet, DeviceAsSet, KeyAsSet

\* What nobody writes stays what it was.
LEMMA HoldingFrame ==
  ASSUME NEW t \in Targets, NEW x, Holding(t, x), disturbed \subseteq disturbed',
         t \in Devices => (t \in devices' <=> t \in devices) /\ values'[t] = values[t],
         t \in Keys => keyed'[t] = keyed[t]
  PROVE  Holding(t, x)'
BY DEF Holding, DeviceHolds, KeyHolds, IsStored

LEMMA KnowsFrame ==
  ASSUME NEW c \in Call, c.at # "idle", InScript(c), Knows(c),
         \A d \in Devices \cap Written(c) : (d \in devices' <=> d \in devices) /\ values'[d] = values[d],
         \A k \in Keys \cap Written(c) : keyed'[k] = keyed[k]
  PROVE  Knows(c)'
<1>1. CASE c.op \in {"add", "set", "delete"}
  <2>1. c.on \in Devices /\ c.on \in Written(c)
    BY <1>1 DEF Written, InScript, Writes, Deletes, Writing
  <2>2. (c.on \in devices' <=> c.on \in devices) /\ values'[c.on] = values[c.on]
    BY <2>1
  <2> QED BY <1>1, <2>2 DEF Knows, KnowsDevice, KnowsRest, IsStored
<1>2. CASE c.op = "default"
  <2>1. \A d \in Devices : values'[d] = values[d]
    BY <1>2 DEF Written, Writing
  <2> QED BY <1>2, <2>1 DEF Knows, KnowsDevice, KnowsRest
<1>3. CASE c.op = "key"
  <2>1. c.on \in Keys /\ c.on \in Written(c)
    BY <1>3 DEF Written, InScript, OtherCalls, Writing
  <2>2. keyed'[c.on] = keyed[c.on]
    BY <2>1
  <2> QED BY <1>3, <2>2 DEF Knows, KnowsDevice, KnowsRest, RowsFound
<1>4. CASE c.op \in {"get", "unkey", "log"}
  BY <1>4 DEF Knows, KnowsDevice, KnowsRest
<1> QED BY <1>1, <1>2, <1>3, <1>4 DEF Call, Operations

\* A call that goes on alone knows what it knew, and what it just did.
LEMMA ReadKnows ==
  ASSUME TypesInv, NEW p \in Callers, ReadDevice(p) \/ ReadValues(p) \/ CountDevice(p),
         NEW c, c = call'[p], c.at # "idle"
  PROVE  Knows(c)'
<1>1. call \in [Callers -> Call] /\ call[p] \in Call /\ InScript(call[p])
  BY DEF TypesInv, DatabaseTypeOK, CallsInv
<1>2. ASSUME NEW what, Ends(p, what)
      PROVE  FALSE
  BY <1>1, <1>2 DEF Ends, Idle
<1>3. CASE ReadDevice(p)
  <2>1. call' = [call EXCEPT ![p].at = "values"] /\ call[p].on \in devices /\ devices' = devices
    BY <1>2, <1>3 DEF ReadDevice, CallFails, Step, databaseTables
  <2>2. c.at = "values" /\ c.on = call[p].on /\ c.op = call[p].op /\ call[p].at = "read"
    BY <1>1, <1>3, <2>1 DEF Call, ReadDevice
  <2> QED BY <2>1, <2>2 DEF Knows, KnowsDevice, KnowsRest
<1>4. CASE ReadValues(p)
  <2>1. call' = [call EXCEPT ![p].at = "count"]
    BY <1>2, <1>4 DEF ReadValues, CallFails, Step
  <2>2. c.at = "count"
    BY <1>1, <2>1 DEF Call
  <2> QED BY <2>2 DEF Knows, KnowsDevice, KnowsRest
<1>5. CASE CountDevice(p)
  <2>1. /\ call' = [call EXCEPT ![p].at = "device", ![p].count = IF call[p].on \in devices THEN 1 ELSE 0]
        /\ devices' = devices
    BY <1>5 DEF CountDevice, databaseTables
  <2>2. c.at = "device" /\ c.on = call[p].on /\ c.count = IF call[p].on \in devices THEN 1 ELSE 0
    BY <1>1, <2>1 DEF Call
  <2> QED BY <2>1, <2>2 DEF Knows, KnowsDevice, KnowsRest
<1> QED BY <1>3, <1>4, <1>5

LEMMA WriteDeviceKnows ==
  ASSUME TypesInv, KnowsInv, NEW p \in Callers, WriteDevice(p), call[p].alone,
         NEW c, c = call'[p], c.at # "idle"
  PROVE  Knows(c)'
<1>1. call \in [Callers -> Call] /\ call[p] \in Call /\ InScript(call[p]) /\ Knows(call[p])
      /\ call[p].at = "device"
  BY DEF TypesInv, DatabaseTypeOK, CallsInv, KnowsInv, WriteDevice
<1>2. /\ call' = [call EXCEPT ![p].at = "plan", ![p].script = <<>>]
      /\ devices' = IF call[p].count = 0 THEN devices \cup {call[p].on} ELSE devices
  BY <1>1 DEF WriteDevice, CallFails, Ends, Idle
<1>3. c.at = "plan" /\ c.script = <<>> /\ c.on = call[p].on /\ c.op = call[p].op
  BY <1>1, <1>2 DEF Call
<1>4. c.on \in devices' /\ c.op \in {"add", "set"}
  <2>1. call[p].op \in {"add", "set"}
    BY <1>1 DEF InScript, Deletes, OtherCalls, Call, Operations
  <2> QED BY <1>1, <1>2, <1>3, <2>1 DEF Knows, KnowsDevice
<1>5. 1 .. Len(c.script) = {}
  BY <1>3
<1> QED BY <1>3, <1>4, <1>5 DEF Knows, KnowsDevice, KnowsRest

\* The script Plan makes is one statement longer, and the new one is an update
\* only when the column has its one row.
LEMMA PlanScript ==
  ASSUME TypesInv, NEW p \in Callers, Plan(p), NEW c, c = call'[p],
         NEW k, k = Len(call[p].script) + 1
  PROVE  /\ call[p].op \in {"add", "set"} /\ call[p].on \in Devices /\ call[p].at = "plan"
         /\ c.at \in {"plan", "run"} /\ c.op = call[p].op /\ c.on = call[p].on /\ c.next = 1
         /\ call[p].next = 1 /\ c.alone = call[p].alone /\ k \in Columns
         /\ Len(c.script) = k /\ \A i \in 1 .. k - 1 : c.script[i] = call[p].script[i]
         /\ \/ c.script[k].do = IF Len(values[c.on][k]) = 1 THEN "update" ELSE "insert"
            \/ c.script[k].do = "insert" /\ c.on \in disturbed'
         /\ UNCHANGED databaseTables
<1>1. call \in [Callers -> Call] /\ call[p] \in Call /\ InScript(call[p]) /\ call[p].at = "plan"
  BY DEF TypesInv, DatabaseTypeOK, CallsInv, Plan
<1>2. call[p].op \in {"add", "set"}
  BY <1>1 DEF InScript, Deletes, OtherCalls, Call, Operations
<1>3. /\ call[p].on \in Devices /\ call[p].next = 1 /\ Len(call[p].script) < ColumnCount
      /\ call[p].script \in Seq(Statements) /\ Len(call[p].script) \in Nat
  <2>1. call[p].on \in Devices /\ call[p].next = 1 /\ Len(call[p].script) < ColumnCount
    BY <1>1, <1>2 DEF InScript, Writes
  <2>2. call[p].script \in Seq(Statements)
    BY <1>1 DEF Call
  <2> QED BY <2>1, <2>2
<1>4. k \in Columns
  BY <1>3, DatabaseAssumption DEF Columns
<1>5. PICK n : /\ call' = [call EXCEPT ![p].script = Append(@, Combined(n, k)),
                                       ![p].at = IF k = ColumnCount THEN "run" ELSE "plan"]
               /\ n = Len(values[call[p].on][k]) \/ (n = 0 /\ call[p].on \in disturbed')
  BY DEF Plan
<1> DEFINE t == Append(call[p].script, Combined(n, k))
<1>6. Len(t) = k /\ t[k] = Combined(n, k) /\ \A i \in 1 .. k - 1 : t[i] = call[p].script[i]
  <2>1. Combined(n, k) \in Statements
    BY <1>4 DEF Combined, Statements
  <2> QED BY <1>3, <2>1
<1>7. /\ c.at = IF k = ColumnCount THEN "run" ELSE "plan"
      /\ c.script = t /\ c.op = call[p].op /\ c.on = call[p].on /\ c.next = call[p].next
      /\ c.alone = call[p].alone
  <2>1. c = [call[p] EXCEPT !.script = t, !.at = IF k = ColumnCount THEN "run" ELSE "plan"]
    BY <1>1, <1>5
  <2> HIDE DEF t
  <2> QED BY <1>1, <2>1 DEF Call
<1>8. Combined(n, k).do = IF n = 1 THEN "update" ELSE "insert"
  BY DEF Combined
<1>9. UNCHANGED databaseTables
  BY DEF Plan, databaseTables
<1> HIDE DEF t
<1>10. \/ c.script[k].do = IF Len(values[c.on][k]) = 1 THEN "update" ELSE "insert"
       \/ c.script[k].do = "insert" /\ c.on \in disturbed'
  <2>1. c.script[k].do = IF n = 1 THEN "update" ELSE "insert"
    BY <1>6, <1>7, <1>8
  <2>2. n = Len(values[c.on][k]) \/ (n = 0 /\ c.on \in disturbed')
    BY <1>5, <1>7
  <2>3. CASE n = Len(values[c.on][k])
    BY <2>1, <2>3
  <2>4. CASE n = 0 /\ c.on \in disturbed'
    BY <2>1, <2>4
  <2> QED BY <2>2, <2>3, <2>4
<1>11. c.at \in {"plan", "run"}
  BY <1>7
<1>12. Len(c.script) = k /\ \A i \in 1 .. k - 1 : c.script[i] = call[p].script[i]
  BY <1>6, <1>7
<1> QED BY <1>1, <1>2, <1>3, <1>4, <1>7, <1>9, <1>10, <1>11, <1>12

LEMMA PlanKnows ==
  ASSUME TypesInv, KnowsInv, NEW p \in Callers, Plan(p), call[p].alone, NEW c, c = call'[p]
  PROVE  Knows(c)'
<1> DEFINE k == Len(call[p].script) + 1
<1>1. /\ call[p].op \in {"add", "set"} /\ call[p].on \in Devices /\ call[p].at = "plan"
      /\ c.at \in {"plan", "run"} /\ c.op = call[p].op /\ c.on = call[p].on /\ c.next = 1
      /\ k \in Columns
      /\ Len(c.script) = k /\ \A i \in 1 .. k - 1 : c.script[i] = call[p].script[i]
      /\ c.script[k].do = "update" => Len(values[c.on][k]) = 1
      /\ UNCHANGED databaseTables
  <2> HIDE DEF k
  <2>1. k = Len(call[p].script) + 1
    BY DEF k
  <2> QED BY <2>1, PlanScript
<1>2. Knows(call[p])
  BY DEF KnowsInv
<1>3. c.on \in devices
  BY <1>1, <1>2 DEF Knows, KnowsDevice
<1>4. ASSUME NEW i \in 1 .. k, c.script[i].do = "update"
      PROVE  values[c.on][i] # <<>>
  <2>1. CASE i = k
    <3> HIDE DEF k
    <3>1. values[c.on][k] \in Seq(Values) /\ Len(values[c.on][k]) = 1
      BY <1>1, <1>4, <2>1 DEF TypesInv, DatabaseTypeOK
    <3> QED BY <2>1, <3>1
  <2>2. CASE i # k
    <3>1. Len(call[p].script) \in Nat
      BY DEF TypesInv, DatabaseTypeOK, Call
    <3>2. i \in 1 .. Len(call[p].script) /\ i \in 1 .. k - 1
      BY <2>2, <3>1
    <3> QED BY <1>1, <1>2, <1>4, <3>2 DEF Knows, KnowsDevice
  <2> QED BY <2>1, <2>2
<1>5. devices' = devices /\ values' = values
  BY <1>1 DEF databaseTables
<1>6. \A i \in Columns : ~ (i < c.next)
  BY <1>1, DatabaseAssumption DEF Columns
<1> HIDE DEF k
<1> QED BY <1>1, <1>3, <1>4, <1>5, <1>6 DEF Knows, KnowsDevice, KnowsRest

\* What a statement of a script leaves: its own column holds what is being
\* written, the columns before it still do, and no column loses its rows.
LEMMA RunStatementStores ==
  ASSUME TypesInv, KnowsInv, NEW p \in Callers, RunStatement(p), call[p].alone,
         NEW c, c = call[p]
  PROVE  /\ c.op \in {"add", "set"} =>
              /\ c.on \in devices' /\ c.on \in Devices /\ c.value \in Values
              /\ c.next \in Columns /\ Len(c.script) = ColumnCount
              /\ \A i \in Columns : i < c.next + 1 => IsStored(c.on, i, c.value)'
              /\ \A i \in 1 .. Len(c.script) : c.script[i].do = "update" => values'[c.on][i] # <<>>
         /\ c.op = "delete" =>
              /\ c.on \in Devices /\ c.on \notin devices' /\ c.next \in {1, 2} /\ Len(c.script) = 2
              /\ c.next = 2 => \A i \in Columns : values'[c.on][i] = <<>>
         /\ c.op \in {"add", "set", "delete"} /\ c.at = "run"
<1>1. DatabaseTypeOK /\ CallsInv /\ Knows(c) /\ c \in Call /\ InScript(c)
      /\ values \in [Devices -> [Columns -> Seq(Values)]]
  BY DEF TypesInv, DatabaseTypeOK, CallsInv, KnowsInv
<1>2. /\ c.at = "run" /\ c.on \in Devices
      /\ \/ /\ c.op \in {"add", "set"} /\ c.value \in Values /\ c.next \in Columns
            /\ Planned(c) /\ Len(c.script) = ColumnCount
            /\ devices' = devices
            /\ values' = [values EXCEPT ![c.on][c.next] =
                            IF c.script[c.next].do = "insert" THEN Append(@, c.value)
                            ELSE [i \in DOMAIN @ |-> c.value]]
         \/ /\ c.op = "delete" /\ c.next = 1 /\ Len(c.script) = 2
            /\ devices' = devices \ {c.on} /\ values' = values
         \/ /\ c.op = "delete" /\ c.next = 2 /\ Len(c.script) = 2
            /\ devices' = devices /\ values' = [values EXCEPT ![c.on] = [k \in Columns |-> <<>>]]
  BY <1>1, RunStatementTables
<1>3. CASE c.op \in {"add", "set"}
  <2> DEFINE r == values[c.on][c.next]
             n == IF c.script[c.next].do = "insert" THEN Append(r, c.value)
                  ELSE [i \in DOMAIN r |-> c.value]
  <2>1. /\ c.value \in Values /\ c.next \in Columns /\ Planned(c) /\ Len(c.script) = ColumnCount
        /\ devices' = devices /\ values' = [values EXCEPT ![c.on][c.next] = n]
    BY <1>2, <1>3
  <2>2. /\ c.on \in devices
        /\ \A i \in 1 .. Len(c.script) : c.script[i].do = "update" => values[c.on][i] # <<>>
        /\ \A i \in Columns : i < c.next => IsStored(c.on, i, c.value)
    BY <1>1, <1>2, <1>3 DEF Knows, KnowsDevice
  <2>3. c.next \in 1 .. Len(c.script) /\ c.script[c.next].do \in {"insert", "update"}
    BY <2>1 DEF Columns, Planned
  <2>4. c.script[c.next].do = "insert" \/ r # <<>>
    BY <2>2, <2>3
  <2>5. n # <<>> /\ c.value \in {n[1], n[Len(n)]}
    <3>1. r \in Seq(Values)
      <4>1. c.on \in Devices /\ c.next \in Columns
        BY <1>2, <2>1
      <4> QED BY <1>1, <4>1
    <3> HIDE DEF r
    <3>2. CASE c.script[c.next].do = "insert"
      BY <2>1, <3>1, <3>2, RowsOfAColumn
    <3>3. CASE c.script[c.next].do # "insert"
      BY <2>1, <2>4, <3>1, <3>3, RowsOfAColumn
    <3> QED BY <3>2, <3>3
  <2> HIDE DEF n
  <2>6. values'[c.on][c.next] = n
    BY <1>1, <1>2, <2>1
  <2>7. \A i \in Columns \ {c.next} : values'[c.on][i] = values[c.on][i]
    BY <1>1, <1>2, <2>1
  <2>8. IsStored(c.on, c.next, c.value)'
    BY <2>5, <2>6 DEF IsStored
  <2>9. ASSUME NEW i \in Columns, i < c.next + 1
        PROVE  IsStored(c.on, i, c.value)'
    <3>1. CASE i = c.next
      BY <2>8, <3>1
    <3>2. CASE i # c.next
      <4>1. i < c.next
        BY <2>1, <2>9, <3>2, DatabaseAssumption DEF Columns
      <4> QED BY <2>2, <2>7, <3>2, <4>1 DEF IsStored
    <3> QED BY <3>1, <3>2
  <2>10. ASSUME NEW i \in 1 .. Len(c.script), c.script[i].do = "update"
         PROVE  values'[c.on][i] # <<>>
    <3>1. i \in Columns
      BY <2>1 DEF Columns
    <3> QED BY <2>2, <2>5, <2>6, <2>7, <2>10, <3>1
  <2> QED BY <1>2, <1>3, <2>1, <2>2, <2>9, <2>10
<1>4. CASE c.op = "delete"
  <2>1. CASE c.next = 1
    BY <1>2, <1>4, <2>1
  <2>2. CASE c.next = 2
    <3>1. c.on \notin devices
      BY <1>1, <1>2, <1>4, <2>2 DEF Knows, KnowsRest
    <3>2. devices' = devices /\ values' = [values EXCEPT ![c.on] = [k \in Columns |-> <<>>]]
          /\ Len(c.script) = 2
      BY <1>2, <1>4, <2>2
    <3>3. \A i \in Columns : values'[c.on][i] = <<>>
      BY <1>1, <1>2, <3>2
    <3> QED BY <1>2, <1>4, <2>2, <3>1, <3>2, <3>3
  <2> QED BY <1>2, <1>4, <2>1, <2>2
<1> QED BY <1>2, <1>3, <1>4

\* Where the call is after a statement of its script.
LEMMA RunStatementCall ==
  ASSUME TypesInv, NEW p \in Callers, RunStatement(p), NEW c, c = call'[p]
  PROVE  /\ call[p].next < Len(call[p].script) =>
              c.at = "run" /\ c.next = call[p].next + 1 /\ c.script = call[p].script
              /\ c.op = call[p].op /\ c.on = call[p].on /\ c.value = call[p].value
         /\ ~ (call[p].next < Len(call[p].script)) =>
              IF call[p].op = "add"
              THEN c.at = "online" /\ c.op = "add" /\ c.on = call[p].on /\ c.value = call[p].value
              ELSE c.at = "idle" /\ Ends(p, IF call[p].op = "set" THEN call[p].value ELSE Gone)
<1>1. call \in [Callers -> Call] /\ call[p] \in Call /\ call[p].at = "run"
  BY DEF TypesInv, DatabaseTypeOK, RunStatement
<1>2. CASE call[p].next < Len(call[p].script)
  <2>1. c = [call[p] EXCEPT !.next = call[p].next + 1]
    BY <1>1, <1>2 DEF RunStatement
  <2> QED BY <1>1, <1>2, <2>1 DEF Call
<1>3. CASE ~ (call[p].next < Len(call[p].script)) /\ call[p].op = "add"
  <2>1. c = [call[p] EXCEPT !.at = "online"]
    BY <1>1, <1>3 DEF RunStatement, Step
  <2> QED BY <1>1, <1>3, <2>1 DEF Call
<1>4. CASE ~ (call[p].next < Len(call[p].script)) /\ call[p].op # "add"
  <2>1. Ends(p, IF call[p].op = "set" THEN call[p].value ELSE Gone)
    BY <1>4 DEF RunStatement
  <2>2. c = Idle
    BY <1>1, <2>1 DEF Ends
  <2> QED BY <1>4, <2>1, <2>2 DEF Idle
<1> QED BY <1>2, <1>3, <1>4

LEMMA RunStatementKnows ==
  ASSUME TypesInv, KnowsInv, NEW p \in Callers, RunStatement(p), call[p].alone,
         NEW c, c = call'[p], c.at # "idle"
  PROVE  Knows(c)'
<1>0. PICK b : b = call[p]
  OBVIOUS
<1>1. b \in Call /\ b.op \in {"add", "set", "delete"} /\ b.at = "run"
  BY <1>0, RunStatementStores DEF TypesInv, DatabaseTypeOK
<1>2. CASE b.op = "delete"
  <2>1. b.on \notin devices' /\ b.next \in {1, 2} /\ Len(b.script) = 2
    BY <1>0, <1>2, RunStatementStores
  <2>2. b.next < Len(b.script)
    BY <1>0, <1>2, RunStatementCall
  <2>3. c.op = "delete" /\ c.on = b.on /\ c.at = "run"
    BY <1>0, <1>2, <2>2, RunStatementCall
  <2> QED BY <2>1, <2>3 DEF Knows, KnowsDevice, KnowsRest
<1>3. CASE b.op \in {"add", "set"}
  <2>1. /\ b.on \in devices' /\ b.next \in Columns /\ Len(b.script) = ColumnCount
        /\ \A i \in Columns : i < b.next + 1 => IsStored(b.on, i, b.value)'
        /\ \A i \in 1 .. Len(b.script) : b.script[i].do = "update" => values'[b.on][i] # <<>>
    BY <1>0, <1>3, RunStatementStores
  <2>2. CASE b.next < Len(b.script)
    <3>1. c.at = "run" /\ c.next = b.next + 1 /\ c.script = b.script
          /\ c.op = b.op /\ c.on = b.on /\ c.value = b.value
      BY <1>0, <2>2, RunStatementCall
    <3> QED BY <1>3, <2>1, <3>1 DEF Knows, KnowsDevice, KnowsRest
  <2>3. CASE ~ (b.next < Len(b.script))
    <3>1. c.at = "online" /\ c.op = "add" /\ c.on = b.on /\ c.value = b.value
      BY <1>0, <1>3, <2>3, RunStatementCall
    <3>2. \A i \in Columns : IsStored(b.on, i, b.value)'
      <4>1. \A i \in Columns : i < b.next + 1
        BY <2>1, <2>3, DatabaseAssumption DEF Columns
      <4> QED BY <2>1, <4>1
    <3> QED BY <2>1, <3>1, <3>2 DEF Knows, KnowsDevice, KnowsRest
  <2> QED BY <2>2, <2>3
<1> QED BY <1>1, <1>2, <1>3

LEMMA RunAgainKnows ==
  ASSUME TypesInv, KnowsInv, NEW p \in Callers, RunAgain(p), call[p].alone,
         NEW c, c = call'[p], c.at # "idle"
  PROVE  Knows(c)'
<1>1. call \in [Callers -> Call] /\ call[p] \in Call /\ InScript(call[p]) /\ Knows(call[p])
      /\ call[p].at = "run" /\ call[p].op # "default" /\ UNCHANGED <<devices, values>>
  BY DEF TypesInv, DatabaseTypeOK, CallsInv, KnowsInv, RunAgain, databaseTables
<1>2. call' = [call EXCEPT ![p].next = 1, ![p].tries = call[p].tries + 1]
  BY <1>1 DEF RunAgain, CallFails, Ends, Idle
<1>3. /\ c.at = "run" /\ c.next = 1 /\ c.script = call[p].script /\ c.on = call[p].on
      /\ c.op = call[p].op
  BY <1>1, <1>2 DEF Call
<1>4. \A i \in Columns : ~ (i < c.next)
  BY <1>3, DatabaseAssumption DEF Columns
<1> QED BY <1>1, <1>3, <1>4 DEF Knows, KnowsDevice, KnowsRest

LEMMA ClearValuesKnows ==
  ASSUME TypesInv, NEW p \in Callers, ClearValues(p), NEW c, c = call'[p], c.at # "idle"
  PROVE  Knows(c)'
<1>1. call \in [Callers -> Call] /\ call[p] \in Call /\ call[p].op = "default"
  BY DEF TypesInv, DatabaseTypeOK, ClearValues
<1>2. call' = [call EXCEPT ![p].at = "clear"] /\ values' = [d \in Devices |-> [i \in Columns |-> <<>>]]
  BY <1>1 DEF ClearValues, CallFails, Ends, Idle, Step
<1>3. c.at = "clear" /\ c.op = "default"
  BY <1>1, <1>2 DEF Call
<1> QED BY <1>2, <1>3 DEF Knows, KnowsDevice, KnowsRest

LEMMA CountKnows ==
  ASSUME TypesInv, NEW p \in Callers, CountKey(p) \/ CountLog(p), NEW c, c = call'[p], c.alone
  PROVE  Knows(c)'
<1>1. call \in [Callers -> Call] /\ call[p] \in Call /\ InScript(call[p])
  BY DEF TypesInv, DatabaseTypeOK, CallsInv
<1>2. CASE CountKey(p)
  <2>1. call[p].at = "found" /\ keyed' = keyed /\ call[p].op = "key"
    BY <1>1, <1>2 DEF CountKey, databaseTables, InScript, Writes, Deletes, OtherCalls, Call, Operations
  <2> DEFINE n == IF RowsFound(call[p].on) THEN 1 ELSE 0
  <2>2. \/ call' = [call EXCEPT ![p].at = "write", ![p].count = n]
        \/ call' = [call EXCEPT ![p].at = "write", ![p].count = 0, ![p].alone = FALSE]
    BY <1>2 DEF CountKey
  <2>3. n = 0 <=> ~ RowsFound(call[p].on)
    OBVIOUS
  <2> HIDE DEF n
  <2>4. c.at = "write" /\ c.op = "key" /\ c.on = call[p].on /\ c.count = n
    BY <1>1, <2>1, <2>2 DEF Call
  <2>5. c.count = 0 <=> ~ RowsFound(c.on)
    BY <2>3, <2>4
  <2> QED BY <2>1, <2>4, <2>5 DEF Knows, KnowsDevice, KnowsRest, RowsFound
<1>3. CASE CountLog(p)
  <2>1. call[p].op = "log"
    BY <1>1, <1>3 DEF CountLog, InScript, Writes, Deletes, OtherCalls, Call, Operations
  <2>2. c.at = "append"
    BY <1>1, <1>3 DEF CountLog, Call
  <2> QED BY <2>2 DEF Knows, KnowsDevice, KnowsRest
<1> QED BY <1>2, <1>3

\* What the call of p knows after its own step.
LEMMA OwnStepKnows ==
  ASSUME TypesInv, ApartInv, KnowsInv, NEW p \in Callers, Process(p),
         NEW c, c = call'[p], c.alone, c.at # "idle"
  PROVE  Knows(c)'
<1>0. DatabaseTypeOK /\ CallsInv
  BY DEF TypesInv
<1>1. CASE Begins(p)
  <2>1. /\ c.at \in {"read", "count", "run", "found", "write", "logged"}
        /\ c.op \in {"add", "set"} => c.at \in {"read", "count"}
        /\ c.op = "delete" => c.next = 1
        /\ c.op = "key" => c.at = "found"
    BY <1>1, BeginStep
  <2> QED BY <2>1 DEF Knows, KnowsDevice, KnowsRest
<1>2. CASE Continues(p)
  <2>1. CallGoesOn(p, call'[p]) /\ call[p].alone
    <3>1. call'[p] # Idle
      BY DEF Idle
    <3> QED BY <1>2, <3>1, WrittenStep DEF CallGoesOn
  <2>2. call' # [call EXCEPT ![p] = Idle]
    BY <1>0 DEF Idle, DatabaseTypeOK
  <2>3. CASE ReadDevice(p) \/ ReadValues(p) \/ CountDevice(p)
    BY <2>3, ReadKnows
  <2>4. CASE WriteDevice(p)
    BY <2>1, <2>4, WriteDeviceKnows
  <2>5. CASE Plan(p)
    BY <2>1, <2>5, PlanKnows
  <2>6. CASE RunStatement(p)
    BY <2>1, <2>6, RunStatementKnows
  <2>7. CASE RunAgain(p)
    BY <2>1, <2>7, RunAgainKnows
  <2>8. CASE ClearValues(p)
    BY <2>8, ClearValuesKnows
  <2>9. CASE CountKey(p) \/ CountLog(p)
    BY <2>9, CountKnows
  <2>10. CASE Busy(p) \/ SetOnline(p) \/ ClearDevices(p) \/ WriteKey(p) \/ AppendLog(p)
    BY <2>2, <2>10 DEF Busy, SetOnline, ClearDevices, WriteKey, AppendLog, CallFails, Ends
  <2>11. CASE CallDevice(p) \/ CallKey(p) \/ CallLog(p) \/ CallDefault(p)
    <3>1. ASSUME NEW op, NEW t, NEW v, Begin(p, op, t, v) PROVE FALSE
      BY <2>1, <3>1 DEF CallGoesOn, Begin
    <3> QED BY <2>11, <3>1 DEF CallDevice, CallKey, CallLog, CallDefault
  <2> QED BY <2>3, <2>4, <2>5, <2>6, <2>7, <2>8, <2>9, <2>10, <2>11 DEF Process
<1> QED BY <1>0, <1>1, <1>2, ProcessSteps

\* What another call knows while it is alone: p writes nothing it knows of.
LEMMA OthersKnow ==
  ASSUME TypesInv, ApartInv, KnowsInv, NEW p \in Callers, Process(p),
         NEW q \in Callers, q # p, NEW c, c = call'[q], c.alone, c.at # "idle"
  PROVE  Knows(c)'
<1>0. DatabaseTypeOK /\ CallsInv /\ call[q] \in Call /\ InScript(call[q])
  BY DEF TypesInv, DatabaseTypeOK, CallsInv
<1>1. c = call[q]
  <2>1. CASE Begins(p)
    <3>1. call'[q] \in {call[q], [call[q] EXCEPT !.alone = FALSE]}
      BY <2>1, BeginStep
    <3>2. ~ [call[q] EXCEPT !.alone = FALSE].alone
      BY <1>0 DEF Call
    <3> QED BY <3>1, <3>2
  <2>2. CASE Continues(p)
    BY <2>2, WrittenStep
  <2> QED BY <1>0, <2>1, <2>2, ProcessSteps
<1>2. Knows(c)
  BY <1>1 DEF KnowsInv
<1>3. Written(c) \cap Written(call[p]) = {}
  BY <1>1 DEF ApartInv
<1>4. /\ \A d \in Devices \cap Written(c) : (d \in devices' <=> d \in devices) /\ values'[d] = values[d]
      /\ \A k \in Keys \cap Written(c) : keyed'[k] = keyed[k]
  BY <1>3, Footprint
<1> QED BY <1>0, <1>1, <1>2, <1>4, KnowsFrame

LEMMA KnowsInductive ==
  ASSUME TypesInv, ApartInv, KnowsInv, NEW p \in Callers, Process(p)
  PROVE  KnowsInv'
<1>1. ASSUME NEW q \in Callers, NEW c, c = call'[q], c.alone
      PROVE  Knows(c)'
  <2>1. CASE c.at = "idle"
    BY <2>1 DEF Knows, KnowsDevice, KnowsRest
  <2>2. CASE c.at # "idle" /\ q = p
    BY <1>1, <2>2, OwnStepKnows
  <2>3. CASE c.at # "idle" /\ q # p
    BY <1>1, <2>3, OthersKnow
  <2> QED BY <2>1, <2>2, <2>3
<1>2. ASSUME NEW q \in Callers, call'[q].alone PROVE KnowsDevice(call[q])'
  <2>1. ASSUME NEW c, c = call'[q] PROVE KnowsDevice(c)'
    BY <1>1, <1>2, <2>1 DEF Knows
  <2> QED BY <2>1 DEF KnowsDevice, IsStored
<1>3. ASSUME NEW q \in Callers, call'[q].alone PROVE KnowsRest(call[q])'
  <2>1. ASSUME NEW c, c = call'[q] PROVE KnowsRest(c)'
    BY <1>1, <1>3, <2>1 DEF Knows
  <2> QED BY <2>1 DEF KnowsRest, RowsFound
<1> QED BY <1>2, <1>3 DEF KnowsInv, Knows

-----------------------------------------------------------------------------
\* The number in the last row's value stands for the rows of a configuration
\* only while its oldest row is a number too.
ConfInv ==
  \A k \in Configurations \ disturbed :
    keyed[k] # <<>> /\ keyed[k][Len(keyed[k])] \notin Counting => keyed[k][1] \notin Counting

\* A call writes devices and keys.
LEMMA WrittenTargets == TypesInv => \A q \in Callers : Written(call[q]) \subseteq Targets
<1> SUFFICES ASSUME TypesInv, NEW q \in Callers PROVE Written(call[q]) \subseteq Targets
  OBVIOUS
<1>1. call[q] \in Call /\ InScript(call[q])
  BY DEF TypesInv, DatabaseTypeOK, CallsInv
<1> QED BY <1>1 DEF Written, InScript, Writes, Deletes, OtherCalls, Call, Writing, Targets, Keys

\* What a call that was alone leaves of what it wrote.
LEMMA EndedWith ==
  ASSUME TypesInv, NEW p \in Callers, NEW what, Ends(p, what), call[p].alone,
         NEW t \in Written(call[p])
  PROVE  stored'[t] = what /\ t \in Targets
<1>1. t \in Targets
  BY WrittenTargets
<1> QED BY <1>1 DEF Ends

\* After a call that failed its target is not known.
LEMMA FailedHolds ==
  ASSUME TypesInv, NEW p \in Callers, CallFails(p), call[p].alone,
         NEW t \in Written(call[p]), NEW x, x = stored'[t]
  PROVE  Holding(t, x)'
<1>1. x = Unknown /\ t \in Targets
  BY EndedWith DEF CallFails
<1> QED BY <1>1, HoldingUnknownNext

\* Rows and devices that a device is known to have after a writing call.
LEMMA DeviceHeld ==
  ASSUME NEW d \in Devices, NEW v, v # Gone, d \in devices',
         \A i \in Columns : IsStored(d, i, v)'
  PROVE  Holding(d, v)'
<1>1. d \notin Keys
  BY DatabaseAssumption DEF Keys
<1> QED BY <1>1 DEF Holding, DeviceHolds

\* And after it was deleted.
LEMMA DeviceCleared ==
  ASSUME NEW d \in Devices, d \notin devices', \A i \in Columns : values'[d][i] = <<>>
  PROVE  Holding(d, Gone)'
<1>1. d \notin Keys /\ Gone \notin Values
  BY DatabaseAssumption DEF Keys
<1> QED BY <1>1 DEF Holding, DeviceHolds

LEMMA ReadValuesHolds ==
  ASSUME TypesInv, KnowsInv, NEW p \in Callers, ReadValues(p), call[p].alone,
         call'[p].at = "idle", NEW t \in Written(call[p]), NEW x, x = stored'[t]
  PROVE  Holding(t, x)'
<1>1. /\ call \in [Callers -> Call] /\ call[p] \in Call /\ InScript(call[p]) /\ Knows(call[p])
      /\ call[p].at = "values" /\ values \in [Devices -> [Columns -> Seq(Values)]]
      /\ devices' = devices /\ values' = values
  BY DEF TypesInv, DatabaseTypeOK, CallsInv, KnowsInv, ReadValues, databaseTables
<1>2. call[p].op = "set" /\ call[p].on \in Devices /\ call[p].value \in Values /\ t = call[p].on
      /\ call[p].on \in devices
  <2>1. call[p].op = "set"
    BY <1>1 DEF InScript, Writes, Deletes, OtherCalls, Call, Operations, Written, Writing
  <2> QED BY <1>1, <2>1 DEF InScript, Writes, Written, Writing, Knows, KnowsDevice
<1>3. CASE CallFails(p)
  BY <1>3, FailedHolds
<1>4. CASE /\ Ends(p, call[p].value)
           /\ \A i \in Columns : values[t][i] # <<>> /\ Head(values[t][i]) = call[p].value
  <2>1. x = call[p].value
    BY <1>4, EndedWith
  <2>2. \A i \in Columns : values[t][i] # <<>> /\ values[t][i][1] = x
    BY <1>1, <1>2, <1>4, <2>1
  <2>3. \A i \in Columns : IsStored(t, i, x)'
    BY <1>1, <2>2 DEF IsStored
  <2>4. x # Gone
    BY <1>2, <2>1, DatabaseAssumption
  <2> QED BY <1>1, <1>2, <2>3, <2>4, DeviceHeld
<1>5. ~ Step(p, "count")
  BY <1>1 DEF Step, Call
<1> QED BY <1>2, <1>3, <1>4, <1>5 DEF ReadValues, Missing

LEMMA RunStatementHolds ==
  ASSUME TypesInv, KnowsInv, NEW p \in Callers, RunStatement(p), call[p].alone,
         call'[p].at = "idle", NEW t \in Written(call[p]), NEW x, x = stored'[t]
  PROVE  Holding(t, x)'
<1>0. PICK b : b = call[p]
  OBVIOUS
<1>1. /\ ~ (b.next < Len(b.script)) /\ b.op # "add"
      /\ Ends(p, IF b.op = "set" THEN b.value ELSE Gone)
  BY <1>0, RunStatementCall
<1>2. t = b.on /\ b.op \in {"set", "delete"}
  BY <1>0, <1>1, RunStatementStores DEF Written, Writing
<1>3. CASE b.op = "set"
  <2>1. x = b.value
    BY <1>0, <1>1, <1>3, EndedWith
  <2>2. /\ b.on \in devices' /\ b.on \in Devices /\ b.value \in Values
        /\ b.next \in Columns /\ Len(b.script) = ColumnCount
        /\ \A i \in Columns : i < b.next + 1 => IsStored(b.on, i, b.value)'
    BY <1>0, <1>3, RunStatementStores
  <2>3. \A i \in Columns : i < b.next + 1
    BY <1>1, <2>2, DatabaseAssumption DEF Columns
  <2>4. x # Gone
    BY <2>1, <2>2, DatabaseAssumption
  <2> QED BY <1>2, <2>1, <2>2, <2>3, <2>4, DeviceHeld
<1>4. CASE b.op = "delete"
  <2>1. x = Gone
    BY <1>0, <1>1, <1>4, EndedWith
  <2>2. /\ b.on \in Devices /\ b.on \notin devices' /\ b.next \in {1, 2} /\ Len(b.script) = 2
        /\ b.next = 2 => \A i \in Columns : values'[b.on][i] = <<>>
    BY <1>0, <1>4, RunStatementStores
  <2>3. b.next = 2
    BY <1>1, <2>2
  <2> QED BY <1>2, <2>1, <2>2, <2>3, DeviceCleared
<1> QED BY <1>2, <1>3, <1>4

LEMMA OtherDevicesHold ==
  ASSUME TypesInv, KnowsInv, NEW p \in Callers, SetOnline(p) \/ ClearDevices(p), call[p].alone,
         NEW t \in Written(call[p]), NEW x, x = stored'[t]
  PROVE  Holding(t, x)'
<1>1. call[p] \in Call /\ InScript(call[p]) /\ Knows(call[p])
  BY DEF TypesInv, DatabaseTypeOK, CallsInv, KnowsInv
<1>2. CASE CallFails(p)
  BY <1>2, FailedHolds
<1>3. CASE call[p].at = "online" /\ Ends(p, call[p].value) /\ UNCHANGED <<devices, values>>
  <2>1. call[p].op = "add"
    BY <1>1, <1>3 DEF InScript, Writes, Deletes, OtherCalls, Call, Operations
  <2>2. t = call[p].on /\ t \in Devices /\ call[p].value \in Values
    BY <1>1, <1>3, <2>1 DEF InScript, Writes, Written, Writing
  <2>3. x = call[p].value
    BY <1>3, EndedWith
  <2>4. t \in devices /\ \A i \in Columns : IsStored(t, i, x)
    BY <1>1, <1>3, <2>1, <2>2, <2>3 DEF Knows, KnowsDevice
  <2>5. t \in devices' /\ \A i \in Columns : IsStored(t, i, x)'
    BY <1>3, <2>4 DEF IsStored
  <2>6. x # Gone
    BY <2>2, <2>3, DatabaseAssumption
  <2> QED BY <2>2, <2>5, <2>6, DeviceHeld
<1>4. CASE call[p].at = "clear" /\ Ends(p, Gone) /\ devices' = {} /\ values' = values
  <2>1. call[p].op = "default"
    BY <1>1, <1>4 DEF InScript, Writes, Deletes, OtherCalls, Call, Operations
  <2>2. t \in Devices /\ \A i \in Columns : values[t][i] = <<>>
    BY <1>1, <1>4, <2>1 DEF Written, Writing, Knows, KnowsRest
  <2>3. x = Gone
    BY <1>4, EndedWith
  <2> QED BY <1>4, <2>2, <2>3, DeviceCleared
<1> QED BY <1>2, <1>3, <1>4 DEF SetOnline, ClearDevices, databaseTables

LEMMA WriteKeyHolds ==
  ASSUME TypesInv, KnowsInv, ConfInv, NEW p \in Callers, WriteKey(p), call[p].alone,
         NEW t \in Written(call[p]), NEW x, x = stored'[t]
  PROVE  Holding(t, x)'
<1>1. /\ call[p] \in Call /\ InScript(call[p]) /\ Knows(call[p]) /\ call[p].at = "write"
      /\ keyed \in [Keys -> Seq(Values)] /\ disturbed' = disturbed
  BY DEF TypesInv, DatabaseTypeOK, CallsInv, KnowsInv, WriteKey
<1>2. call[p].op \in {"key", "unkey"}
  BY <1>1 DEF InScript, Writes, Deletes, OtherCalls, Call, Operations
<1>3. t = call[p].on /\ t \in Keys /\ t \notin Devices
  BY <1>1, <1>2, DatabaseAssumption DEF InScript, OtherCalls, Written, Writing, Keys
<1>4. x = IF call[p].op = "unkey" THEN Gone ELSE call[p].value
  BY EndedWith DEF WriteKey
<1> DEFINE r == keyed[t]
<1>5. CASE call[p].op = "unkey"
  <2>1. keyed'[t] = <<>>
    BY <1>1, <1>3, <1>5 DEF WriteKey
  <2>2. x \notin Values
    BY <1>4, <1>5, DatabaseAssumption
  <2> QED BY <1>3, <2>1, <2>2 DEF Holding, KeyHolds
<1>6. CASE call[p].op = "key"
  <2>1. call[p].value \in Values /\ x = call[p].value /\ x # Gone /\ (call[p].count = 0 <=> ~ RowsFound(t))
    BY <1>1, <1>3, <1>4, <1>6, DatabaseAssumption DEF InScript, OtherCalls, Knows, KnowsRest
  <2>2. r \in Seq(Values)
    BY <1>1, <1>3
  <2>3. keyed'[t] = IF call[p].count = 0 THEN Append(r, x) ELSE [i \in DOMAIN r |-> x]
    BY <1>1, <1>3, <1>6, <2>1 DEF WriteKey
  <2>4. RowsFound(t) => r # <<>>
    BY DEF RowsFound
  <2>5. ~ RowsFound(t) => r = <<>> \/ (t \in Configurations /\ r[Len(r)] \notin Counting)
    BY DEF RowsFound
  <2>6. t \in Configurations \ disturbed /\ r # <<>> /\ r[Len(r)] \notin Counting => r[1] \notin Counting
    BY DEF ConfInv
  <2>7. CASE call[p].count = 0 /\ r = <<>>
    <3>1. keyed'[t] = <<x>>
      BY <2>3, <2>7
    <3>2. keyed'[t] # <<>> /\ keyed'[t][1] = x
      BY <3>1
    <3> QED BY <1>3, <2>1, <3>2 DEF Holding, KeyHolds
  <2>8. CASE call[p].count = 0 /\ r # <<>>
    <3>1. keyed'[t] # <<>> /\ keyed'[t][1] = r[1]
      <4> HIDE DEF r
      <4> QED BY <2>1, <2>2, <2>3, <2>8, RowsOfAColumn
    <3>2. t \in Configurations /\ (t \in disturbed' \/ keyed'[t][1] \notin Counting)
      BY <1>1, <2>1, <2>5, <2>6, <2>8, <3>1
    <3> HIDE DEF r
    <3> QED BY <1>3, <2>1, <3>1, <3>2 DEF Holding, KeyHolds
  <2>9. CASE call[p].count # 0
    <3>1. keyed'[t] # <<>> /\ keyed'[t][1] = x
      <4> HIDE DEF r
      <4> QED BY <2>1, <2>2, <2>3, <2>4, <2>9, RowsOfAColumn
    <3> QED BY <1>3, <2>1, <3>1 DEF Holding, KeyHolds
  <2> QED BY <2>7, <2>8, <2>9
<1> QED BY <1>2, <1>5, <1>6

\* Whatever action ends a call that was alone, what it records as stored is so.
LEMMA EndHolds ==
  ASSUME TypesInv, KnowsInv, ConfInv, NEW p \in Callers, Process(p), call[p].alone,
         call[p].at # "idle", call'[p].at = "idle",
         NEW t \in Written(call[p]), NEW x, x = stored'[t]
  PROVE  Holding(t, x)'
<1>1. call \in [Callers -> Call] /\ call[p] \in Call /\ InScript(call[p])
  BY DEF TypesInv, DatabaseTypeOK, CallsInv
<1>2. CASE CallFails(p)
  BY <1>2, FailedHolds
<1>3. ASSUME ReadDevice(p) \/ CountDevice(p) \/ WriteDevice(p) \/ Busy(p) PROVE CallFails(p)
  BY <1>1, <1>3 DEF ReadDevice, CountDevice, WriteDevice, Busy, Step, Call
<1>4. ASSUME RunAgain(p) \/ ClearValues(p) PROVE CallFails(p)
  BY <1>1, <1>4 DEF RunAgain, ClearValues, Step, Call
<1>5. ASSUME CountKey(p) \/ CountLog(p) PROVE FALSE
  BY <1>1, <1>5 DEF CountKey, CountLog, Call
<1>6. ASSUME Plan(p) PROVE FALSE
  <2>1. call'[p].at \in {"plan", "run"}
    BY <1>6, PlanScript
  <2> QED BY <2>1
<1>7. ASSUME AppendLog(p) PROVE FALSE
  BY <1>1, <1>7 DEF AppendLog, InScript, Writes, Deletes, OtherCalls, Call, Operations, Written, Writing
<1>8. ASSUME CallDevice(p) \/ CallKey(p) \/ CallLog(p) \/ CallDefault(p) PROVE FALSE
  <2>1. ASSUME NEW op, NEW u, NEW v, Begin(p, op, u, v) PROVE FALSE
    BY <2>1 DEF Begin
  <2> QED BY <1>8, <2>1 DEF CallDevice, CallKey, CallLog, CallDefault
<1>9. CASE ReadValues(p)
  BY <1>9, ReadValuesHolds
<1>10. CASE RunStatement(p)
  BY <1>10, RunStatementHolds
<1>11. CASE SetOnline(p) \/ ClearDevices(p)
  BY <1>11, OtherDevicesHold
<1>12. CASE WriteKey(p)
  BY <1>12, WriteKeyHolds
<1> QED BY <1>2, <1>3, <1>4, <1>5, <1>6, <1>7, <1>8, <1>9, <1>10, <1>11, <1>12 DEF Process

LEMMA StoredInductive ==
  ASSUME TypesInv, UnknownInv, ApartInv, KnowsInv, ConfInv, StoredInv, NEW p \in Callers, Process(p)
  PROVE  StoredInv'
<1>0. DatabaseTypeOK /\ CallsInv /\ disturbed \subseteq disturbed'
      /\ Devices \subseteq Targets /\ Keys \subseteq Targets
  BY DisturbedTypes DEF TypesInv, Targets
<1>1. ASSUME NEW t \in Targets, NEW x, x = stored'[t]
      PROVE  Holding(t, x)'
  <2>1. CASE x = Unknown
    BY <2>1, HoldingUnknownNext
  <2>2. CASE x # Unknown /\ x = stored[t]
    <3>1. Holding(t, x)
      BY <2>2 DEF StoredInv
    <3>2. t \notin Written(call[p])
      BY <2>2 DEF UnknownInv
    <3>3. /\ t \in Devices => (t \in devices' <=> t \in devices) /\ values'[t] = values[t]
          /\ t \in Keys => keyed'[t] = keyed[t]
      BY <3>2, Footprint
    <3> QED BY <1>0, <3>1, <3>3, HoldingFrame
  <2>3. CASE x # Unknown /\ x # stored[t]
    <3>1. CASE Begins(p)
      <4>1. stored' = [u \in Targets |-> IF u \in Written(call'[p]) THEN Unknown ELSE stored[u]]
        BY <3>1, BeginStep
      <4> QED BY <1>1, <2>3, <4>1
    <3>2. CASE Continues(p)
      <4>1. t \in Written(call[p]) /\ call[p].alone /\ call'[p] = Idle
        BY <1>1, <2>3, <3>2, StoredStep
      <4>2. call[p].at # "idle" /\ call'[p].at = "idle"
        BY <4>1 DEF Written, Idle
      <4> QED BY <1>1, <4>1, <4>2, EndHolds
    <3> QED BY <1>0, <3>1, <3>2, ProcessSteps
  <2> QED BY <2>1, <2>2, <2>3
<1> QED BY <1>1 DEF StoredInv, Holding, DeviceHolds, KeyHolds, IsStored

\* Only one call at a time writes a configuration that was never disturbed, and
\* it has counted: it adds a row to one that has none or whose last is no number.
LEMMA ConfInductive ==
  ASSUME TypesInv, DisturbedInv, KnowsInv, ConfInv, NEW p \in Callers, Process(p)
  PROVE  ConfInv'
<1>0. DatabaseTypeOK /\ CallsInv /\ disturbed \subseteq disturbed' /\ Configurations \subseteq Keys
      /\ keyed \in [Keys -> Seq(Values)]
  BY DisturbedTypes DEF TypesInv, Keys, DatabaseTypeOK
<1> SUFFICES ASSUME NEW k \in Configurations \ disturbed', keyed'[k] # <<>>,
                    keyed'[k][Len(keyed'[k])] \notin Counting
             PROVE  keyed'[k][1] \notin Counting
  BY DEF ConfInv
<1>1. CASE keyed'[k] = keyed[k]
  BY <1>0, <1>1 DEF ConfInv
<1>2. CASE keyed'[k] # keyed[k]
  <2>1. k \in Written(call[p])
    BY <1>0, <1>2, Footprint
  <2>2. WriteKey(p)
    <3>1. ASSUME UNCHANGED keyed PROVE FALSE
      BY <1>2, <3>1
    <3>2. ASSUME RunStatement(p) PROVE UNCHANGED keyed
      BY <3>2 DEF RunStatement
    <3>3. ASSUME NEW op, NEW t, NEW v, Begin(p, op, t, v) PROVE UNCHANGED keyed
      BY <3>3 DEF Begin, databaseTables
    <3>4. CallDevice(p) \/ CallKey(p) \/ CallLog(p) \/ CallDefault(p) => UNCHANGED keyed
      BY <3>3 DEF CallDevice, CallKey, CallLog, CallDefault
    <3>5. Busy(p) \/ ReadDevice(p) \/ ReadValues(p) \/ CountDevice(p) \/ WriteDevice(p) \/ Plan(p)
            => UNCHANGED keyed
      BY DEF Busy, ReadDevice, ReadValues, CountDevice, WriteDevice, Plan, databaseTables
    <3>6. RunAgain(p) \/ SetOnline(p) \/ ClearValues(p) \/ ClearDevices(p) => UNCHANGED keyed
      BY DEF RunAgain, SetOnline, ClearValues, ClearDevices, databaseTables
    <3>7. CountKey(p) \/ CountLog(p) \/ AppendLog(p) => UNCHANGED keyed
      BY DEF CountKey, CountLog, AppendLog, databaseTables
    <3> QED BY <3>1, <3>2, <3>4, <3>5, <3>6, <3>7 DEF Process
  <2>3. /\ call[p] \in Call /\ InScript(call[p]) /\ call[p].at = "write"
        /\ disturbed' = disturbed
    BY <1>0, <2>2 DEF DatabaseTypeOK, CallsInv, WriteKey
  <2>4. call[p].op \in {"key", "unkey"} /\ k = call[p].on
    BY <2>1, <2>3 DEF InScript, Writes, Deletes, OtherCalls, Call, Operations, Written, Writing
  <2>5. call[p].alone
    BY <2>3, <2>4 DEF DisturbedInv, Writing
  <2> DEFINE r == keyed[k]
  <2>6. r \in Seq(Values)
    BY <1>0
  <2>7. call[p].op = "key"
    BY <1>0, <2>2, <2>4 DEF WriteKey
  <2>8. call[p].value \in Values /\ (call[p].count = 0 <=> ~ RowsFound(k))
    BY <2>3, <2>4, <2>5, <2>7 DEF InScript, OtherCalls, KnowsInv, Knows, KnowsRest
  <2>9. keyed'[k] = IF call[p].count = 0 THEN Append(r, call[p].value)
                    ELSE [i \in DOMAIN r |-> call[p].value]
    BY <1>0, <2>2, <2>4, <2>7 DEF WriteKey
  <2>10. CASE call[p].count = 0 /\ r = <<>>
    <3>1. keyed'[k] = <<call[p].value>>
      BY <2>9, <2>10
    <3> QED BY <3>1
  <2>11. CASE call[p].count = 0 /\ r # <<>>
    <3>1. r[Len(r)] \notin Counting
      BY <2>8, <2>11 DEF RowsFound
    <3>2. r[1] \notin Counting
      BY <2>3, <2>11, <3>1 DEF ConfInv
    <3>3. keyed'[k][1] = r[1]
      <4> HIDE DEF r
      <4> QED BY <2>6, <2>8, <2>9, <2>11, RowsOfAColumn
    <3> QED BY <3>2, <3>3
  <2>12. CASE call[p].count # 0
    <3>1. r # <<>>
      BY <2>8, <2>12 DEF RowsFound
    <3>2. keyed'[k][1] = call[p].value /\ keyed'[k][Len(keyed'[k])] = call[p].value
      <4> HIDE DEF r
      <4> QED BY <2>6, <2>8, <2>9, <2>12, <3>1, RowsOfAColumn
    <3> QED BY <3>2
  <2> QED BY <2>10, <2>11, <2>12
<1> QED BY <1>1, <1>2

-----------------------------------------------------------------------------
\* The columns into which the rest of a call's script inserts have no row.
InsertsOnce(c) ==
  c.op \in {"add", "set"} /\ c.at \in {"plan", "run"} =>
    \A i \in 1 .. Len(c.script) : c.script[i].do = "insert" /\ c.next <= i => values[c.on][i] = <<>>

RowsInv ==
  \A d \in Devices \ disturbed :
    /\ \A i \in Columns : Len(values[d][i]) <= 1
    /\ \A p \in Callers : call[p].on = d => InsertsOnce(call[p])

\* The actions that change rows of values.
LEMMA ValuesChange ==
  ASSUME NEW p \in Callers, Process(p), values' # values
  PROVE  RunStatement(p) \/ ClearValues(p)
<1>1. ASSUME NEW op, NEW t, NEW v, Begin(p, op, t, v) PROVE UNCHANGED values
  BY <1>1 DEF Begin, databaseTables
<1>2. CallDevice(p) \/ CallKey(p) \/ CallLog(p) \/ CallDefault(p) => UNCHANGED values
  BY <1>1 DEF CallDevice, CallKey, CallLog, CallDefault
<1>3. Busy(p) \/ ReadDevice(p) \/ ReadValues(p) \/ CountDevice(p) \/ WriteDevice(p) \/ Plan(p)
        => UNCHANGED values
  BY DEF Busy, ReadDevice, ReadValues, CountDevice, WriteDevice, Plan, databaseTables
<1>4. RunAgain(p) \/ SetOnline(p) \/ ClearDevices(p) => UNCHANGED values
  BY DEF RunAgain, SetOnline, ClearDevices, databaseTables
<1>5. CountKey(p) \/ WriteKey(p) \/ CountLog(p) \/ AppendLog(p) => UNCHANGED values
  BY DEF CountKey, WriteKey, CountLog, AppendLog, databaseTables
<1> QED BY <1>2, <1>3, <1>4, <1>5 DEF Process

\* A column gets a row from a statement made when it had none.
LEMMA RowsStayFew ==
  ASSUME TypesInv, RowsInv, NEW p \in Callers, Process(p),
         NEW d \in Devices \ disturbed', NEW i \in Columns
  PROVE  Len(values'[d][i]) <= 1
<1>0. DatabaseTypeOK /\ CallsInv /\ d \in Devices \ disturbed
      /\ values \in [Devices -> [Columns -> Seq(Values)]]
  BY DisturbedTypes DEF TypesInv, DatabaseTypeOK
<1>1. Len(values[d][i]) <= 1
  BY <1>0 DEF RowsInv
<1>2. Len(<<>>) = 0
  OBVIOUS
<1>3. CASE values' = values
  BY <1>1, <1>3
<1>4. CASE ClearValues(p)
  <2>1. values'[d][i] = <<>> \/ values' = values
    BY <1>4 DEF ClearValues
  <2> QED BY <1>1, <1>2, <2>1
<1>5. CASE RunStatement(p)
  <2>0. PICK c : c = call[p]
    OBVIOUS
  <2>1. /\ c.at = "run" /\ c.on \in Devices
        /\ \/ /\ c.op \in {"add", "set"} /\ c.value \in Values /\ c.next \in Columns
              /\ Planned(c) /\ Len(c.script) = ColumnCount
              /\ values' = [values EXCEPT ![c.on][c.next] =
                              IF c.script[c.next].do = "insert" THEN Append(@, c.value)
                              ELSE [j \in DOMAIN @ |-> c.value]]
           \/ values' = values
           \/ values' = [values EXCEPT ![c.on] = [k \in Columns |-> <<>>]]
    <3>1. DatabaseTypeOK /\ CallsInv
      BY <1>0
    <3> QED BY <1>5, <2>0, <3>1, RunStatementTables
  <2>2. CASE values' = [values EXCEPT ![c.on] = [k \in Columns |-> <<>>]]
    <3>1. values'[d][i] = <<>> \/ values'[d][i] = values[d][i]
      BY <1>0, <2>1, <2>2
    <3> QED BY <1>1, <1>2, <3>1
  <2>3. CASE /\ c.op \in {"add", "set"} /\ c.value \in Values /\ c.next \in Columns
             /\ Len(c.script) = ColumnCount
             /\ values' = [values EXCEPT ![c.on][c.next] =
                             IF c.script[c.next].do = "insert" THEN Append(@, c.value)
                             ELSE [j \in DOMAIN @ |-> c.value]]
    <3>1. CASE d = c.on /\ i = c.next
      <4> DEFINE r == values[d][i]
      <4>1. r \in Seq(Values)
        BY <1>0
      <4>2. values'[d][i] = IF c.script[i].do = "insert" THEN Append(r, c.value)
                            ELSE [j \in DOMAIN r |-> c.value]
        BY <1>0, <2>3, <3>1
      <4>3. c.script[i].do = "insert" => r = <<>>
        <5>1. i \in 1 .. Len(c.script) /\ c.next <= i
          BY <2>3, <3>1, DatabaseAssumption DEF Columns
        <5>2. InsertsOnce(call[p])
          BY <1>0, <2>0, <3>1 DEF RowsInv
        <5> QED BY <2>0, <2>1, <2>3, <3>1, <5>1, <5>2 DEF InsertsOnce
      <4> HIDE DEF r
      <4>4. CASE c.script[i].do = "insert"
        <5>1. values'[d][i] = Append(r, c.value) /\ Len(r) = 0
          BY <4>2, <4>3, <4>4
        <5>2. Len(Append(r, c.value)) = Len(r) + 1
          BY <2>3, <4>1, RowsOfAColumn
        <5> QED BY <5>1, <5>2
      <4>5. CASE c.script[i].do # "insert"
        <5>1. values'[d][i] = [j \in DOMAIN r |-> c.value] /\ Len(r) <= 1
          BY <1>1, <4>2, <4>5 DEF r
        <5>2. Len([j \in DOMAIN r |-> c.value]) = Len(r)
          BY <2>3, <4>1, RowsOfAColumn
        <5> QED BY <5>1, <5>2
      <4> QED BY <4>4, <4>5
    <3>2. CASE ~ (d = c.on /\ i = c.next)
      <4>1. values'[d][i] = values[d][i]
        BY <1>0, <2>1, <2>3, <3>2
      <4> QED BY <1>1, <4>1
    <3> QED BY <3>1, <3>2
  <2> QED BY <1>1, <2>1, <2>2, <2>3
<1> QED BY <1>3, <1>4, <1>5, ValuesChange

\* A call that goes on keeps to the columns it found empty, or its device is disturbed.
LEMMA OwnInserts ==
  ASSUME TypesInv, ApartInv, RowsInv, NEW p \in Callers, Process(p), NEW c, c = call'[p],
         c.on \in Devices \ disturbed', c.op \in {"add", "set"}, c.at \in {"plan", "run"},
         NEW i \in 1 .. Len(c.script), c.script[i].do = "insert", c.next <= i
  PROVE  values'[c.on][i] = <<>>
<1>0. /\ DatabaseTypeOK /\ CallsInv /\ c.on \in Devices \ disturbed
      /\ values \in [Devices -> [Columns -> Seq(Values)]]
      /\ call \in [Callers -> Call] /\ call[p] \in Call /\ InScript(call[p])
  BY DisturbedTypes DEF TypesInv, DatabaseTypeOK, CallsInv
<1>1. CASE Begins(p)
  <2>1. c.at \in {"read", "count", "run", "found", "write", "logged"}
        /\ (c.op \in {"add", "set"} => c.at \in {"read", "count"})
    BY <1>1, BeginStep
  <2> QED BY <2>1
<1>2. CASE Continues(p)
  <2>1. CallGoesOn(p, call'[p]) /\ call' # [call EXCEPT ![p] = Idle]
        /\ c.op = call[p].op /\ c.on = call[p].on /\ c.at # "idle"
    <3>1. call'[p] # Idle
      BY DEF Idle
    <3> QED BY <1>0, <1>2, <3>1, WrittenStep DEF CallGoesOn, Idle
  <2>2. ASSUME ReadDevice(p) \/ ReadValues(p) \/ CountDevice(p) PROVE FALSE
    BY <1>0, <2>1, <2>2 DEF ReadDevice, ReadValues, CountDevice, CallFails, Ends, Step, Call
  <2>3. ASSUME Busy(p) \/ SetOnline(p) \/ ClearDevices(p) \/ WriteKey(p) \/ AppendLog(p) PROVE FALSE
    BY <2>1, <2>3 DEF Busy, SetOnline, ClearDevices, WriteKey, AppendLog, CallFails, Ends
  <2>4. ASSUME ClearValues(p) \/ CountKey(p) \/ CountLog(p) PROVE FALSE
    BY <1>0, <2>1, <2>4 DEF ClearValues, CountKey, CountLog, CallFails, Ends, Step, Call
  <2>5. ASSUME CallDevice(p) \/ CallKey(p) \/ CallLog(p) \/ CallDefault(p) PROVE FALSE
    <3>1. ASSUME NEW op, NEW t, NEW v, Begin(p, op, t, v) PROVE FALSE
      BY <2>1, <3>1 DEF CallGoesOn, Begin
    <3> QED BY <2>5, <3>1 DEF CallDevice, CallKey, CallLog, CallDefault
  <2>6. ASSUME WriteDevice(p) PROVE FALSE
    <3>1. call' = [call EXCEPT ![p].at = "plan", ![p].script = <<>>]
      BY <2>1, <2>6 DEF WriteDevice, CallFails, Ends
    <3>2. c.script = <<>>
      BY <1>0, <3>1 DEF Call
    <3> QED BY <3>2
  <2>7. CASE Plan(p)
    <3>1. PICK k : k = Len(call[p].script) + 1
      OBVIOUS
    <3>2. /\ call[p].at = "plan" /\ call[p].next = 1 /\ k \in Columns
          /\ Len(c.script) = k /\ \A j \in 1 .. k - 1 : c.script[j] = call[p].script[j]
          /\ \/ c.script[k].do = IF Len(values[c.on][k]) = 1 THEN "update" ELSE "insert"
             \/ c.script[k].do = "insert" /\ c.on \in disturbed'
          /\ UNCHANGED databaseTables
      <4>1. call[p].at = "plan" /\ call[p].next = 1 /\ k \in Columns /\ UNCHANGED databaseTables
        BY <2>7, <3>1, PlanScript
      <4>2. Len(c.script) = k /\ \A j \in 1 .. k - 1 : c.script[j] = call[p].script[j]
        BY <2>7, <3>1, PlanScript
      <4>3. \/ c.script[k].do = IF Len(values[c.on][k]) = 1 THEN "update" ELSE "insert"
            \/ c.script[k].do = "insert" /\ c.on \in disturbed'
        BY <2>7, <3>1, PlanScript
      <4> QED BY <4>1, <4>2, <4>3
    <3>3. Len(call[p].script) \in Nat
      BY <1>0 DEF Call
    <3>4. CASE i = k
      <4>1. Len(values[c.on][k]) # 1
        BY <3>2, <3>4
      <4>2. Len(values[c.on][k]) <= 1
        BY <1>0, <3>2 DEF RowsInv
      <4>3. values[c.on][k] \in Seq(Values)
        BY <1>0, <3>2
      <4>4. values[c.on][k] = <<>>
        <5>1. ASSUME NEW n \in Nat, n <= 1, n # 1 PROVE n = 0
          BY <5>1
        <5>2. Len(values[c.on][k]) \in Nat
          BY <4>3
        <5>3. Len(values[c.on][k]) = 0
          BY <4>1, <4>2, <5>1, <5>2
        <5> QED BY <4>3, <5>3
      <4> QED BY <3>2, <3>4, <4>4 DEF databaseTables
    <3>5. CASE i # k
      <4>1. i \in 1 .. k - 1 /\ i \in 1 .. Len(call[p].script) /\ call[p].next <= i
        BY <3>1, <3>2, <3>3, <3>5
      <4>2. call[p].script[i].do = "insert"
        BY <3>2, <4>1
      <4>3. values[c.on][i] = <<>>
        BY <1>0, <2>1, <3>2, <4>1, <4>2 DEF RowsInv, InsertsOnce
      <4> QED BY <3>2, <4>3 DEF databaseTables
    <3> QED BY <3>4, <3>5
  <2>8. CASE RunAgain(p)
    <3>1. call' = [call EXCEPT ![p].next = 1, ![p].tries = call[p].tries + 1]
      BY <2>1, <2>8 DEF RunAgain, CallFails, Ends
    <3>2. c.script = call[p].script /\ call[p].at = "run"
      BY <1>0, <2>8, <3>1 DEF RunAgain, Call
    <3>3. ~ (call[p].next > 1)
      BY <2>1, <2>8 DEF RunAgain
    <3>4. call[p].next \in Nat /\ i \in Nat /\ 1 <= i
      BY <1>0 DEF Call
    <3>5. call[p].next <= i
      BY <3>3, <3>4
    <3>6. values[c.on][i] = <<>>
      BY <1>0, <2>1, <3>2, <3>5 DEF RowsInv, InsertsOnce
    <3> QED BY <2>8, <3>6 DEF RunAgain, databaseTables
  <2>9. CASE RunStatement(p)
    <3>0. PICK b : b = call[p]
      OBVIOUS
    <3>1. /\ b.at = "run" /\ b.next \in Columns /\ Len(b.script) = ColumnCount /\ b.on = c.on
          /\ b.op \in {"add", "set"}
          /\ values' = [values EXCEPT ![b.on][b.next] =
                          IF b.script[b.next].do = "insert" THEN Append(@, b.value)
                          ELSE [j \in DOMAIN @ |-> b.value]]
      <4>1. b.on = c.on /\ b.op \in {"add", "set"}
        BY <2>1, <3>0
      <4>2. DatabaseTypeOK /\ CallsInv
        BY <1>0
      <4>3. /\ b.at = "run"
            /\ \/ /\ b.op \in {"add", "set"} /\ b.value \in Values /\ b.next \in Columns
                  /\ Planned(b) /\ Len(b.script) = ColumnCount
                  /\ devices' = devices
                  /\ values' = [values EXCEPT ![b.on][b.next] =
                                  IF b.script[b.next].do = "insert" THEN Append(@, b.value)
                                  ELSE [j \in DOMAIN @ |-> b.value]]
               \/ b.op = "delete"
        BY <2>9, <3>0, <4>2, RunStatementTables
      <4>4. b.op # "delete"
        BY <4>1
      <4> QED BY <4>1, <4>3, <4>4
    <3>2. b.next < Len(b.script) /\ c.next = b.next + 1 /\ c.script = b.script
      BY <2>9, <3>0, RunStatementCall
    <3>3. i # b.next /\ b.next <= i /\ i \in Columns
      BY <3>1, <3>2, DatabaseAssumption DEF Columns
    <3>4. values[c.on][i] = <<>>
      BY <1>0, <3>0, <3>1, <3>2, <3>3 DEF RowsInv, InsertsOnce
    <3>5. values'[c.on][i] = values[c.on][i]
      BY <1>0, <3>1, <3>3
    <3> QED BY <3>4, <3>5
  <2> QED BY <2>2, <2>3, <2>4, <2>5, <2>6, <2>7, <2>8, <2>9 DEF Process
<1> QED BY <1>0, <1>1, <1>2, ProcessSteps

\* Whoever else writes the device of a script keeps it from being undisturbed.
LEMMA OthersInsert ==
  ASSUME TypesInv, ApartInv, DisturbedInv, RowsInv, NEW p \in Callers, Process(p),
         NEW q \in Callers, q # p, NEW c, c = call'[q],
         c.on \in Devices \ disturbed', c.op \in {"add", "set"}, c.at \in {"plan", "run"},
         NEW i \in 1 .. Len(c.script), c.script[i].do = "insert", c.next <= i
  PROVE  values'[c.on][i] = <<>>
<1>0. /\ DatabaseTypeOK /\ CallsInv /\ c.on \in Devices \ disturbed /\ call[q] \in Call
  BY DisturbedTypes DEF TypesInv, DatabaseTypeOK, CallsInv
<1>1. /\ c.on = call[q].on /\ c.op = call[q].op /\ c.at = call[q].at
      /\ c.script = call[q].script /\ c.next = call[q].next
  <2>1. c = call[q] \/ c = [call[q] EXCEPT !.alone = FALSE]
    <3>1. CASE Begins(p)
      BY <3>1, BeginStep
    <3>2. CASE Continues(p)
      BY <3>2, WrittenStep
    <3> QED BY <1>0, <3>1, <3>2, ProcessSteps
  <2> QED BY <1>0, <2>1 DEF Call
<1>2. values[c.on][i] = <<>>
  BY <1>0, <1>1 DEF RowsInv, InsertsOnce
<1>3. Written(call[q]) = {c.on} /\ call[q].alone
  BY <1>0, <1>1 DEF Written, Writing, DisturbedInv
<1>4. c.on \notin Written(call[p])
  BY <1>3 DEF ApartInv
<1> QED BY <1>0, <1>2, <1>4, Footprint

LEMMA RowsInductive ==
  ASSUME TypesInv, ApartInv, DisturbedInv, RowsInv, NEW p \in Callers, Process(p)
  PROVE  RowsInv'
<1>1. ASSUME NEW q \in Callers, NEW c, c = call'[q],
             c.on \in Devices \ disturbed', c.op \in {"add", "set"}, c.at \in {"plan", "run"},
             NEW i \in 1 .. Len(c.script), c.script[i].do = "insert", c.next <= i
      PROVE  values'[c.on][i] = <<>>
  <2>1. CASE q = p
    BY <1>1, <2>1, OwnInserts
  <2>2. CASE q # p
    BY <1>1, <2>2, OthersInsert
  <2> QED BY <2>1, <2>2
<1> QED BY <1>1, RowsStayFew DEF RowsInv, InsertsOnce

-----------------------------------------------------------------------------
\* An empty database is what the tables say.
LEMMA StoredStart ==
  ASSUME DatabaseInit
  PROVE  UnknownInv /\ ApartInv /\ DisturbedInv /\ KnowsInv /\ ConfInv /\ RowsInv /\ StoredInv
<1>1. \A p \in Callers : Written(call[p]) = {} /\ call[p].at = "idle"
  BY DEF DatabaseInit, Idle, Written
<1>2. UnknownInv /\ ApartInv /\ DisturbedInv
  BY <1>1 DEF UnknownInv, ApartInv, DisturbedInv
<1>3. KnowsInv /\ ConfInv
  BY <1>1 DEF KnowsInv, Knows, KnowsDevice, KnowsRest, ConfInv, DatabaseInit, Keys
<1>4. RowsInv
  <2>1. Len(<<>>) <= 1
    OBVIOUS
  <2> QED BY <1>1, <2>1 DEF RowsInv, InsertsOnce, DatabaseInit
<1>5. StoredInv
  <2>1. \A t \in Targets : stored[t] = Gone
    BY DEF DatabaseInit
  <2>2. \A t \in Targets : Holding(t, Gone)
    BY DatabaseAssumption DEF Holding, DeviceHolds, KeyHolds, DatabaseInit
  <2> QED BY <2>1, <2>2 DEF StoredInv
<1> QED BY <1>2, <1>3, <1>4, <1>5

\* Every step keeps what is known of the rows.
LEMMA DataInvariant ==
  DatabaseSpec => [](TypesInv /\ RowsInv /\ StoredInv)
<1> DEFINE Inv == UnknownInv /\ ApartInv /\ DisturbedInv /\ KnowsInv /\ ConfInv /\ RowsInv /\ StoredInv
<1>1. DatabaseInit => Inv
  BY StoredStart
<1>2. TypesInv /\ Inv /\ [DatabaseNext]_databaseVars => Inv'
  <2>1. ASSUME TypesInv, Inv, NEW p \in Callers, Process(p) PROVE Inv'
    BY <2>1, UnknownInductive, ApartInductive, DisturbedInductive, KnowsInductive, ConfInductive,
       RowsInductive, StoredInductive
  <2>2. ASSUME Inv, UNCHANGED databaseVars PROVE Inv'
    <3>1. UnknownInv' /\ ApartInv' /\ DisturbedInv'
      BY <2>2 DEF databaseVars, UnknownInv, ApartInv, DisturbedInv, Written
    <3>2. KnowsInv' /\ ConfInv'
      <4>1. UNCHANGED <<devices, values, keyed, call, disturbed>>
        BY <2>2 DEF databaseVars
      <4>2. ConfInv'
        BY <2>2, <4>1 DEF ConfInv
      <4>3. ASSUME NEW q \in Callers, call'[q].alone
            PROVE  KnowsDevice(call[q])' /\ KnowsRest(call[q])'
        <5>1. KnowsDevice(call[q]) /\ KnowsRest(call[q])
          BY <2>2, <4>1, <4>3 DEF KnowsInv, Knows
        <5>2. KnowsDevice(call[q])'
          BY <4>1, <5>1 DEF KnowsDevice, IsStored
        <5>3. KnowsRest(call[q])'
          BY <4>1, <5>1 DEF KnowsRest, RowsFound
        <5> QED BY <5>2, <5>3
      <4> QED BY <4>2, <4>3 DEF KnowsInv, Knows
    <3>3. RowsInv'
      BY <2>2 DEF databaseVars, RowsInv, InsertsOnce
    <3>4. StoredInv'
      BY <2>2 DEF databaseVars, StoredInv, Holding, DeviceHolds, KeyHolds, IsStored
    <3> QED BY <3>1, <3>2, <3>3, <3>4
  <2> QED BY <2>1, <2>2 DEF DatabaseNext
<1> QED BY <1>1, <1>2, TypesInvariant, PTL DEF DatabaseSpec

\* However the statements of any number of processes interleave, a column of a
\* device that was never written by two at a time, whose script was never begun
\* again and whose counts did not fail has at most one row: hcapi_db_add_dev and
\* hcapi_db_set_dev insert only into a column they have found empty.
THEOREM RowsAreFew == DatabaseSpec => []OneRowPerColumn
<1>1. RowsInv => OneRowPerColumn
  BY DEF RowsInv, OneRowPerColumn
<1> QED BY <1>1, DataInvariant, PTL

\* After a call that wrote alone and succeeded, what it was to store is stored,
\* whatever other calls did meanwhile to other devices and keys.
THEOREM WhatIsSetIsStored == DatabaseSpec => []StoredAsSet
<1>1. TypesInv /\ StoredInv => StoredAsSet
  BY StoredInvIs DEF TypesInv
<1> QED BY <1>1, DataInvariant, PTL
=============================================================================
