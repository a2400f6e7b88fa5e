------------------------------ MODULE Database ------------------------------
(***************************************************************************)
(* The database library as its callers share it (database/db_lib/          *)
(* sql_api.c, HCAPI/hcapi_db.c).  Every daemon and every application links *)
(* it and opens the same file, so that their calls interleave at the SQL   *)
(* statements: there is no transaction, and a call counts the rows, closes *)
(* over the number and then inserts or updates.  A statement that finds    *)
(* the file busy is tried again; a script of several statements is run     *)
(* again from its first statement, those that were done before included.   *)
(*                                                                         *)
(* Modelled: the table of devices (DEV_ID is its key) and the table of     *)
(* their values, one row per column and without a key; the tables of       *)
(* attributes and of configurations, without a key too (scenes and         *)
(* locations are written like attributes); and the log of devices, which   *)
(* keeps the newest MAX_LOG_NUM entries.                                   *)
(***************************************************************************)
EXTENDS Integers, Sequences, FiniteSets

CONSTANTS
  Callers,        \* the processes that use the library
  Devices,        \* device ids
  ColumnCount,    \* the columns of a device of the type at hand
  Attributes,     \* keys of the table of attributes
  Configurations, \* keys of the table of configurations
  Values,         \* what is stored
  Counting,       \* the values that are numbers other than 0 to atoi
  MaxLog,         \* MAX_LOG_NUM
  MaxTries,       \* how often a script is run
  MaxCalls,       \* bound: the calls
  MaxBusy,        \* bound: the times a statement finds the file busy
  Gone, Unknown   \* history only: nothing is stored, or it is not known what

ASSUME DatabaseAssumption ==
  /\ ColumnCount \in Nat \ {0} /\ MaxLog \in Nat \ {0} /\ MaxTries \in Nat \ {0}
  /\ MaxCalls \in Nat /\ MaxBusy \in Nat
  /\ Counting \subseteq Values
  /\ Attributes \cap Configurations = {}
  /\ Devices \cap (Attributes \cup Configurations) = {}
  /\ {Gone, Unknown} \cap Values = {} /\ Gone # Unknown
  /\ IsFiniteSet(Callers)

VARIABLES
  devices,   \* DEVICE_TABLE: the devices with a row
  values,    \* DEVICE_VALUE_TABLE: the rows of a device and a column, oldest first
  keyed,     \* the rows of a key of the other tables, oldest first
  log,       \* the number of rows of DEVICE_LOG
  call,      \* the call each process is in
  calls,     \* the calls so far
  busy,      \* the times the file was busy so far
  stored,    \* history: what the last writing call that was alone stored
  disturbed, \* history: what two wrote at a time, whose script was begun again, or
             \* whose count failed
  blind      \* history: the log's counts that failed

databaseVars == <<devices, values, keyed, log, call, calls, busy, stored, disturbed,
                  blind>>
databaseTables == <<devices, values, keyed, log>>

Columns == 1 .. ColumnCount
Keys == Attributes \cup Configurations
Targets == Devices \cup Keys

Operations == {"add", "set", "get", "delete", "default", "key", "unkey", "log"}
Writing == {"add", "set", "delete", "default", "key", "unkey"}

\* A statement of a script: what it does, and the column or device it is for.
Statements == [do : {"insert", "update"}, at : Columns]
                \cup [do : {"device", "values"}, at : Devices]

\* A call: where it is, what it was asked, the count it closed over, its
\* script with the next statement and the times it was run, and (history)
\* whether no other call wrote the same meanwhile.
Call == [at : {"idle", "read", "values", "count", "device", "plan", "run", "clear",
               "online", "found", "write", "logged", "append"},
         op : Operations, on : Targets \cup {Unknown}, value : Values \cup {Unknown},
         count : Nat, script : Seq(Statements), next : Nat, tries : Nat, alone : BOOLEAN]

Idle == [at |-> "idle", op |-> "get", on |-> Unknown, value |-> Unknown, count |-> 0,
         script |-> <<>>, next |-> 1, tries |-> 0, alone |-> TRUE]

DatabaseTypeOK ==
  /\ devices \subseteq Devices
  /\ values \in [Devices -> [Columns -> Seq(Values)]]
  /\ keyed \in [Keys -> Seq(Values)]
  /\ log \in Nat
  /\ call \in [Callers -> Call]
  /\ calls \in 0 .. MaxCalls /\ busy \in 0 .. MaxBusy /\ blind \in 0 .. MaxBusy
  /\ stored \in [Targets -> Values \cup {Gone, Unknown}]
  /\ disturbed \subseteq Targets

DatabaseInit ==
  /\ devices = {}
  /\ values = [d \in Devices |-> [c \in Columns |-> <<>>]]
  /\ keyed = [k \in Keys |-> <<>>]
  /\ log = 0
  /\ call = [p \in Callers |-> Idle]
  /\ calls = 0 /\ busy = 0 /\ blind = 0
  /\ stored = [t \in Targets |-> Gone]
  /\ disturbed = {}

-----------------------------------------------------------------------------
\* What a call writes: hcapi_db_del_dev_all deletes all devices.
Written(c) == IF c.at = "idle" \/ c.op \notin Writing THEN {}
              ELSE IF c.op = "default" THEN Devices ELSE {c.on}

First(op) == CASE op = "add" -> "count"
               [] op \in {"set", "get"} -> "read"
               [] op \in {"delete", "default"} -> "run"
               [] op = "key" -> "found"
               [] op = "unkey" -> "write"
               [] op = "log" -> "logged"

Step(p, s) == call' = [call EXCEPT ![p].at = s]

\* A call of the library begins; who writes the same is no longer alone.
Begin(p, op, t, v) ==
  LET c == [Idle EXCEPT !.at = First(op), !.op = op, !.on = t, !.value = v,
              !.script = IF op = "delete" THEN <<[do |-> "device", at |-> t],
                                                 [do |-> "values", at |-> t]>> ELSE <<>>]
      Meets(q) == Written(call[q]) \cap Written(c) # {}
      met == {q \in Callers : Meets(q)}
  IN
  /\ call[p].at = "idle" /\ calls < MaxCalls
  /\ calls' = calls + 1
  /\ call' = [q \in Callers |-> IF q = p THEN [c EXCEPT !.alone = (met = {})]
                                ELSE IF q \in met THEN [call[q] EXCEPT !.alone = FALSE]
                                ELSE call[q]]
  /\ stored' = [u \in Targets |-> IF u \in Written(c) THEN Unknown ELSE stored[u]]
  /\ disturbed' = disturbed \cup UNION {Written(call[q]) \cap Written(c) : q \in met}
  /\ UNCHANGED <<databaseTables, busy, blind>>

\* hcapi_db_add_dev, hcapi_db_set_dev, hcapi_db_get_dev_by_dev_id, hcapi_db_del_dev.
CallDevice(p) ==
  \E d \in Devices :
    \/ \E op \in {"add", "set"}, v \in Values : Begin(p, op, d, v)
    \/ \E op \in {"get", "delete"} : Begin(p, op, d, Unknown)

\* hcapi_db_set_attr and hcapi_db_set_conf, and the deletion of an attribute.
CallKey(p) ==
  \/ \E k \in Keys, v \in Values : Begin(p, "key", k, v)
  \/ \E k \in Attributes : Begin(p, "unkey", k, Unknown)

CallLog(p) == Begin(p, "log", Unknown, Unknown)

\* A call ends: what it leaves stored is known if it succeeded alone.
Ends(p, what) ==
  /\ call' = [call EXCEPT ![p] = Idle]
  /\ stored' = [t \in Targets |-> IF t \in Written(call[p]) /\ call[p].alone
                                  THEN what ELSE stored[t]]

CallFails(p) == Ends(p, Unknown)

\* A statement that is not part of a script finds the file busy to the last.
Busy(p) ==
  /\ call[p].at \in {"read", "values", "count", "device", "online", "write", "append"}
  /\ busy < MaxBusy /\ busy' = busy + 1
  /\ CallFails(p)
  /\ UNCHANGED <<databaseTables, calls, disturbed, blind>>

-----------------------------------------------------------------------------
(* Reading a device                                                        *)

\* sql_get_dev: the device's row.
ReadDevice(p) ==
  /\ call[p].at = "read"
  /\ IF call[p].on \in devices THEN Step(p, "values") /\ UNCHANGED stored ELSE CallFails(p)
  /\ UNCHANGED <<databaseTables, calls, busy, disturbed, blind>>

\* sql_get_dev_value: each column is its first row.  It is an error that the
\* last column has none, unless no column has one.  hcapi_db_set_dev writes
\* only what differs.
Missing(d) == {c \in Columns : values[d][c] = <<>>}

ReadValues(p) ==
  LET d == call[p].on
      error == ColumnCount \in Missing(d) /\ Missing(d) # Columns
      same == Missing(d) = {} /\ \A c \in Columns : Head(values[d][c]) = call[p].value
  IN
  /\ call[p].at = "values"
  /\ IF error THEN CallFails(p)
     ELSE IF call[p].op = "get" \/ same THEN Ends(p, call[p].value)
     ELSE Step(p, "count") /\ UNCHANGED stored
  /\ UNCHANGED <<databaseTables, calls, busy, disturbed, blind>>

-----------------------------------------------------------------------------
(* Writing a device: sql_set_dev                                           *)

\* The device's rows are counted.
CountDevice(p) ==
  LET n == IF call[p].on \in devices THEN 1 ELSE 0 IN
  /\ call[p].at = "count"
  /\ call' = [call EXCEPT ![p].at = "device", ![p].count = n]
  /\ UNCHANGED <<databaseTables, calls, busy, stored, disturbed, blind>>

\* The row is inserted, which fails when it is there by now, or updated,
\* which does nothing when it is gone by now.
WriteDevice(p) ==
  LET d == call[p].on IN
  /\ call[p].at = "device"
  /\ IF call[p].count = 0 /\ d \in devices
       THEN CallFails(p) /\ UNCHANGED devices
       ELSE /\ devices' = IF call[p].count = 0 THEN devices \cup {d} ELSE devices
            /\ call' = [call EXCEPT ![p].at = "plan", ![p].script = <<>>]
            /\ UNCHANGED stored
  /\ UNCHANGED <<values, keyed, log, calls, busy, disturbed, blind>>

\* Mutant of Combined: a row is always inserted.
CombinedInserting(n, c) == [do |-> "insert", at |-> c]

\* db_combine_sql_stmt: one row is updated, none or several get another one.
Combined(n, c) == [do |-> IF n = 1 THEN "update" ELSE "insert", at |-> c]

\* sql_set_..._value_cmd: a statement for each column in turn; a count that
\* fails is taken for 0.
Plan(p) ==
  LET d == call[p].on
      c == Len(call[p].script) + 1
      Add(n) == call' = [call EXCEPT ![p].script = Append(@, Combined(n, c)),
                                     ![p].at = IF c = ColumnCount THEN "run" ELSE "plan"]
  IN
  /\ call[p].at = "plan"
  /\ \/ /\ Add(Len(values[d][c]))
        /\ UNCHANGED <<busy, disturbed>>
     \/ /\ busy < MaxBusy /\ busy' = busy + 1
        /\ Add(0)
        /\ disturbed' = disturbed \cup {d}
  /\ UNCHANGED <<databaseTables, calls, stored, blind>>

-----------------------------------------------------------------------------
(* Running a script: sql_exec                                              *)

\* What a statement does to the rows of the device d.
Done(s, d, v) ==
  /\ devices' = IF s.do = "device" THEN devices \ {d} ELSE devices
  /\ values' = CASE s.do = "insert" -> [values EXCEPT ![d][s.at] = Append(@, v)]
                 [] s.do = "update" -> [values EXCEPT ![d][s.at] = [i \in DOMAIN @ |-> v]]
                 [] s.do = "values" -> [values EXCEPT ![d] = [c \in Columns |-> <<>>]]
                 [] OTHER -> values

\* After the last statement an added device is set online; the others are done.
RunStatement(p) ==
  LET c == call[p] IN
  /\ c.at = "run" /\ c.op # "default"
  /\ Done(c.script[c.next], c.on, c.value)
  /\ IF c.next < Len(c.script)
       THEN call' = [call EXCEPT ![p].next = c.next + 1] /\ UNCHANGED stored
       ELSE IF c.op = "add" THEN Step(p, "online") /\ UNCHANGED stored
       ELSE Ends(p, IF c.op = "set" THEN c.value ELSE Gone)
  /\ UNCHANGED <<keyed, log, calls, busy, disturbed, blind>>

\* A statement finds the file busy: the script begins again, or the call fails.
RunAgain(p) ==
  LET c == call[p] IN
  /\ c.at = "run" /\ c.op # "default"
  /\ busy < MaxBusy /\ busy' = busy + 1
  /\ IF c.tries < MaxTries
       THEN /\ call' = [call EXCEPT ![p].next = 1, ![p].tries = c.tries + 1]
            /\ UNCHANGED stored
       ELSE CallFails(p)
  /\ disturbed' = IF c.next > 1 THEN disturbed \cup {c.on} ELSE disturbed
  /\ UNCHANGED <<databaseTables, calls, blind>>

\* sql_update_connection_by_dev_id: the device has to be there still.
SetOnline(p) ==
  /\ call[p].at = "online"
  /\ IF call[p].on \in devices THEN Ends(p, call[p].value) ELSE CallFails(p)
  /\ UNCHANGED <<databaseTables, calls, busy, disturbed, blind>>

\* db_del_dev_all: all values, then all devices.
CallDefault(p) == Begin(p, "default", Unknown, Unknown)

ClearValues(p) ==
  /\ call[p].at = "run" /\ call[p].op = "default"
  /\ \/ /\ values' = [d \in Devices |-> [c \in Columns |-> <<>>]]
        /\ Step(p, "clear") /\ UNCHANGED <<busy, stored>>
     \/ /\ busy < MaxBusy /\ busy' = busy + 1
        /\ CallFails(p) /\ UNCHANGED values
  /\ UNCHANGED <<devices, keyed, log, calls, disturbed, blind>>

ClearDevices(p) ==
  /\ call[p].at = "clear"
  /\ \/ devices' = {} /\ Ends(p, Gone) /\ UNCHANGED busy
     \/ /\ busy < MaxBusy /\ busy' = busy + 1
        /\ CallFails(p) /\ UNCHANGED devices
  /\ UNCHANGED <<values, keyed, log, calls, disturbed, blind>>

-----------------------------------------------------------------------------
(* Attributes, configurations and the log                                  *)

\* Mutant of RowsFound: attributes are counted like configurations.
RowsFoundByValue(k) == keyed[k] # <<>> /\ keyed[k][Len(keyed[k])] \in Counting

\* sql_update_dev_ext_attr counts the rows of the key.  sql_update_conf takes
\* the number in the last row's value for their count.
RowsFound(k) ==
  /\ keyed[k] # <<>>
  /\ k \in Configurations => keyed[k][Len(keyed[k])] \in Counting

\* A count that fails is taken for 0.
CountKey(p) ==
  LET n == IF RowsFound(call[p].on) THEN 1 ELSE 0 IN
  /\ call[p].at = "found"
  /\ \/ /\ call' = [call EXCEPT ![p].at = "write", ![p].count = n]
        /\ UNCHANGED <<busy, disturbed>>
     \/ /\ busy < MaxBusy /\ busy' = busy + 1
        /\ call' = [call EXCEPT ![p].at = "write", ![p].count = 0, ![p].alone = FALSE]
        /\ disturbed' = disturbed \cup {call[p].on}
  /\ UNCHANGED <<databaseTables, calls, stored, blind>>

\* A row is inserted, or all rows of the key are updated; db_del_attr deletes
\* them all.
WriteKey(p) ==
  LET k == call[p].on IN
  /\ call[p].at = "write"
  /\ keyed' = [keyed EXCEPT ![k] =
                 IF call[p].op = "unkey" THEN <<>>
                 ELSE IF call[p].count = 0 THEN Append(@, call[p].value)
                 ELSE [i \in DOMAIN @ |-> call[p].value]]
  /\ Ends(p, IF call[p].op = "unkey" THEN Gone ELSE call[p].value)
  /\ UNCHANGED <<devices, values, log, calls, busy, disturbed, blind>>

\* sql_add_dev_log_v2: the rows are counted; a count that fails is taken for 0.
CountLog(p) ==
  /\ call[p].at = "logged"
  /\ \/ /\ call' = [call EXCEPT ![p].at = "append", ![p].count = log]
        /\ UNCHANGED <<busy, blind>>
     \/ /\ busy < MaxBusy /\ busy' = busy + 1 /\ blind' = blind + 1
        /\ call' = [call EXCEPT ![p].at = "append", ![p].count = 0]
  /\ UNCHANGED <<databaseTables, calls, stored, disturbed>>

\* Mutant of Room: one row too many.
RoomForOneMore(n) == n <= MaxLog

Room(n) == n + 1 <= MaxLog

\* A row is inserted while there is room; then the oldest is overwritten.
AppendLog(p) ==
  /\ call[p].at = "append"
  /\ log' = IF Room(call[p].count) THEN log + 1 ELSE log
  /\ Ends(p, Gone)
  /\ UNCHANGED <<devices, values, keyed, calls, busy, disturbed, blind>>

-----------------------------------------------------------------------------
Process(p) ==
  \/ CallDevice(p) \/ CallKey(p) \/ CallLog(p) \/ CallDefault(p) \/ Busy(p)
  \/ ReadDevice(p) \/ ReadValues(p) \/ CountDevice(p) \/ WriteDevice(p) \/ Plan(p)
  \/ RunStatement(p) \/ RunAgain(p) \/ SetOnline(p) \/ ClearValues(p) \/ ClearDevices(p)
  \/ CountKey(p) \/ WriteKey(p) \/ CountLog(p) \/ AppendLog(p)

DatabaseNext == \E p \in Callers : Process(p)

DatabaseSpec == DatabaseInit /\ [][DatabaseNext]_databaseVars

-----------------------------------------------------------------------------
\* A column of a device has one row, unless two processes wrote the device at
\* a time, a script that had been begun was run again, or a count failed.
\* From two rows on every write inserts another, and reads take the first.
OneRowPerColumn ==
  \A d \in Devices \ disturbed, c \in Columns : Len(values[d][c]) <= 1

\* After a call that wrote alone and succeeded: a device it set is there with
\* every column, whose newest or oldest row is what was set, and its only row
\* when it has one; a device it deleted is gone with all its values.
DeviceAsSet ==
  \A d \in Devices :
    /\ stored[d] \in Values =>
         /\ d \in devices
         /\ \A c \in Columns : values[d][c] # <<>> /\
              stored[d] \in {values[d][c][1], values[d][c][Len(values[d][c])]}
    /\ stored[d] = Gone => d \notin devices /\ Missing(d) = Columns

\* After a call that wrote alone, counted and succeeded, what is read of an
\* attribute is what was set, however many rows it has; what is read of a
\* configuration that was never disturbed is, or else a value that is no
\* number, which it had before.
KeyAsSet ==
  \A k \in Keys :
    /\ stored[k] = Gone => keyed[k] = <<>>
    /\ stored[k] \in Values =>
         /\ keyed[k] # <<>>
         /\ \/ Head(keyed[k]) = stored[k]
            \/ k \in Configurations /\ (k \in disturbed \/ Head(keyed[k]) \notin Counting)

StoredAsSet == DeviceAsSet /\ KeyAsSet

\* The log is at most one entry longer than its limit for every process but
\* one, and for every count that failed: processes that count at a time all
\* insert, and later entries overwrite.
LogBounded == log <= MaxLog + Cardinality(Callers) - 1 + blind
=============================================================================
