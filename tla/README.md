# A TLA+ model of the home-control platform

This directory holds a formal model of the C sources of the home-control
platform: the message broker, the client API, the Z-Wave daemon and its driver,
the DECT daemon, the camera daemon's tables and the database library. TLC checks
the modules on small instances. TLAPS proves the results listed under *What is
proved* for every value of the constants: every safety property that a run
checks is among them.

## 1. The system

Applications link **HCAPI** and call blocking functions. HCAPI writes a request
on a COMMAND socket to the **dispatcher**, which stamps it with the descriptor it
came from (`appid`) and forwards it to a **daemon** (Z-Wave, DECT/ULE, camera,
...). The daemon queues a task, talks to its radio or its cameras, and answers
through the dispatcher with the same `appid`. Status changes are sent with
`appid` 0 and reach every EVENT socket.

| Component | State it keeps | Operations | Talks to |
|---|---|---|---|
| `hc_dispatcher` | slot table, `client_num`, select set, open descriptors | accept, scan, register, stamp, forward, drop | every client, over UNIX sockets |
| `hc_msg` (client library) | the socket | connect, send `CLIENT_INFO`, send, wait, close | dispatcher |
| HCAPI, command calls | one COMMAND socket, unread messages in it | drain, send, wait for one answer, translate | dispatcher; daemons behind it |
| HCAPI database calls, database library (`sql_api.c`) | tables of devices, values, attributes, configurations, the log | statements with retries, in sequences | one SQLite file, shared by every process |
| Z-Wave daemon, queue (`zw_queue.c`) | a doubly linked list under `q_mutex` | insert by priority, pop, search | task engine |
| Z-Wave daemon, tasks (`zw_task.c`, `zw_msg.c`) | queue, `g_zw_controller_mode`, `g_running_task`, `g_fw_upgrade_flag` | `task_add` by three threads, `process_task` by one | dispatcher, driver, database |
| Z-Wave daemon, device table | `g_mid_device_info`, the driver's nodes and file, two tables | report added or removed, choose the watched device, load | driver, database |
| Z-Wave driver, sessions (`zwave_lib`) | `g_cmd_mutex`, session flag, callbacks, learn handler, timer | add, remove, stop, time out, complete | task thread, chip |
| Z-Wave driver, serial API | `g_cmd_internal_mutex`, three status words, response and receive buffers | request, await ACK, response and callback, abort | chip, over the serial line |
| Z-Wave driver, node status | `nodes[]`, `gNodeCmd` and the node waited for | ask, store a report, recognise the answer | serial API, nodes |
| DECT daemon (`dect/src`) | mode, upgrade lock, queue, table of devices, registration window | add, delete, stop, lock, rebuild, report | dispatcher, base station |
| DECT base station calls (`tcm_cmbs.c`, `appcmbs.c`) | one queue of answers, one token | empty, raise, send, take, lower | base station |
| camera daemon | `camerainfo`, `g_cam_map_tab`, rows of the database | search, add, delete, clean, poll | cameras, database |
| BLE controller | SLIP decoder | frame, unframe | BLE chip |

### What is hard, and what makes each component correct

* **Dispatcher.** One thread, but its inputs are any interleaving of clients that
  come, die in the middle of a message and come back. Slots and descriptors are
  reused while answers addressed by descriptor are under way. Correct: the table
  is consistent; a request carries its sender's identity; an answer reaches the
  asker or nobody; a silent or dead client does not stop the others.
* **HCAPI.** Answers carry no request number. Correct: a call takes its own
  answer whenever that can be told; a second, later answer is not lost; a call
  returns.
* **Task engine.** Three threads add and one removes, with a condition variable
  signalled without its mutex and a mode read without a lock. Correct: the queue
  is ordered and served; the mode is that of the running task; every path of
  `process_task` answers as often as it should.
* **Sessions.** A mutex locked by one thread and unlocked by whichever of four
  ends the session; unprotected flags; a condition variable with no predicate.
  Correct: the mutex is always released and never taken from its holder; a
  session ends; a node is reported in its own session.
* **Node status.** What a node reports, asked or not, is written into one union
  per node by one thread and read by another. Correct: a status returned is the
  node's own; an answer that was handled in time is taken.
* **Device table.** A device is recorded in five places by steps that fail one by
  one and may be cut off. Correct: the five agree but for devices whose report
  went wrong; every node that can be watched has one device that is.
* **DECT.** Three threads call the base over one queue of answers without a lock,
  and change the mode and the table of devices in between. Correct: an answer is
  lost only to another thread's call; an add that nobody ends and a slot cleared
  for another device come about only by orders that can be named.
* **Camera.** A thread per answer to a search fills its entry without a lock.
  Correct: rows, entries and feeds agree but for the races that can be named.
* **Database.** Several processes, no transactions, retries of whole scripts.
  Correct: what was set is what is read; a column has one row.
* **Serial API.** Three global status words set by other threads, frames that do
  not name their request, a receive buffer that may hold stray bytes, a callback
  thread that itself needs the mutex. Correct: a call acts on its own signals,
  loses none, and returns.

## 2. Modules

| Module | Models | Checked through |
|---|---|---|
| `Dispatcher` | `hc_dispatcher.c` and the client side of `hc_msg.c` | `MCDispatcher` |
| `DispatcherProofs` | proofs about `Dispatcher` | |
| `TaskQueue` | what the queue promises: a priority queue, first come first served within a priority | |
| `ZwQueue` | `zw_queue.c` at the level of `prev` and `next`; implements `TaskQueue` | `MCTables` |
| `ZwQueueProofs` | proofs about `ZwQueue` and the refinement | |
| `ZwTask` | `zw_task.c`, the request handling of `zw_msg.c`; uses `TaskQueue` | `MCZwTask` |
| `ZwTaskProofs` | proofs about `ZwTask` and the operators of `TaskQueue` | |
| `ZwSession` | add and remove sessions in `zwave_api.c`, `zwave_appl.c`, `zwave_serialapi.c` | `MCZwSession` |
| `ZwSessionProofs` | proofs about `ZwSession` | |
| `SerialApi` | `Request`, `SendRequestAndWaitForResponse` and what is built on them, `ZWapi_Dispatch`, `zw_serial.c` | `MCSerialApi` |
| `SerialApiProofs` | proofs about `SerialApi` | |
| `ZwStatus` | the `ZW_Get...` functions and `ApplicationCommandHandler` of `zwave_appl.c`, `zwave_association.c` | `MCTables` |
| `ZwDevices` | the device table of `zw_task.c`, `update_mid` and `update_device_in_db` of `zw_msg.c`, with the driver's nodes | `MCTables` |
| `HcApi` | the command calls of `hcapi.c` | `MCCalls`, `MCHcApi` |
| `Cmbs` | the calls of `tcm_cmbs.c` over `appcmbs.c` | `MCCalls` |
| `Dect` | `dect_msg.c`, `dect_task.c`, `dect_api.c`, `dect_queue.c` | `MCCalls` |
| `CallsProofs` | proofs about `HcApi`, `Cmbs` and `Dect` | |
| `Camera` | `camera_main.c`, `camera_state.c`, `camera_util.c` | `MCTables` |
| `Database` | `sql_api.c`, `hcapi_db.c` | `MCTables` |
| `DatabaseProofs` | proofs about `Database` | |
| `TablesProofs` | proofs about `ZwStatus`, `ZwDevices`, `Camera` and the types of `MCTables` | |

`ZwTask` composes with `TaskQueue` (`Q == INSTANCE TaskQueue WITH tasks <- queue`);
that the pointer code may be replaced by that abstraction is the property
`ImplementsTaskQueue` of `ZwQueue`, proved in `ZwQueueProofs`, under the mapping
`tasks <- [i \in DOMAIN Chain |-> Data(Chain[i])]`. The other modules meet at
their interfaces: `HcApi` reduces the dispatcher and the daemons to the answers
they still owe, `ZwTask` takes a call of the driver as one step with any result,
`ZwSession` takes the questioning of a node as one step, `ZwStatus` is one such
question, and `SerialApi` is what it does on the serial line. `ZwDevices` takes
from `ZwTask` and `ZwSession` that changes of the network follow one another.
`Dect` takes from `Cmbs` what a call to the base may come to: done or not done,
told or, when the answer went to another thread, not told. `ZwDevices` and
`Camera` take a statement of `Database` as one that is done or fails.

`MCCalls` and `MCTables` check modules that share no state side by side: the
first state says which of them moves, the others stay as they begin.

### How state and actions correspond to the code

* **Dispatcher.** `sockfd`, `clientType`, `socketType` are the fields of
  `g_serv_info.clients[i]`, `clientNum` and `rfds` the two other fields of
  `g_serv_info`; `fdtab` is the process's descriptor table. `pc` follows the
  loop of `main`: `Select`, `AcceptClient`/`AcceptOverLimit`/`AcceptFails`, one
  `Scan...` action for each slot the loop over the slots finds readable,
  `Forward`. The scan ends at the first regular message, as the code's `return`
  does. A client is its two message streams. `origin` in a message is a history
  field.
* **ZwQueue.** A heap of units with `prev`, `next`, `priority`, payload; one
  action per queue function. Each holds the mutex from start to end, so a
  function is one step.
* **ZwTask.** `adder[a].stage` is where an adding thread is in `task_add`: it
  reads the mode, compares with the running task, searches the queue, inserts,
  signals, each under a different lock or none, hence a step each. `pc` is where
  the task thread is; the stages of `process_task` follow its `switch`, `fails`
  and `tries` are its two counters. `answers` counts what went to the
  application through `send_msg_to_app`.
* **ZwSession.** `at` gives the stage of each of the five threads; a test of
  `add_remove_node_flag` and the assignment that follows are two steps. `cmd` is
  the mutex, with its locker. `timer = "deaf"` is the timer whose microseconds
  happen to be zero, which the code takes for a timer that is not set.
* **SerialApi.** `ack_status`, `response_status` and `exe_status` keep the
  number of the request that caused them, which is history: the code sees set or
  not set. `noise` is the number of bytes at the front of `rx_buffer` that start
  no frame: `process_rx_buffer` dispatches an ACK behind k of them k + 1 times.
  `chip` is external: what the chip may still send for a request.
* **ZwStatus.** `query` is what the calling thread wrote down, `air` the frames on
  their way, `nodes` what the entries hold, `value` what the call returns. A frame
  names in `to` the request it answers; the code compares node and command only.
  The handler's look at the command and what it does about it are two steps.
* **ZwDevices.** `zw_nodes` and `saved` are the driver's nodes and its file,
  `g_mid_device_info` the daemon's table, `hcRows` and `zwRows` the two tables of
  the database. `doing` says what the daemon is at, `at` and `device` how far it is with a
  report, statement by statement. `lost` is history: the devices whose report was
  ignored, refused for want of a place, met a statement that failed or was cut off.
* **Cmbs.** `stage` is where each thread is in a call, `unread` the queue of
  answers, `token` the token, `owed` what the base still has to answer.
* **Dect.** `receiver`, `worker` and `reporter` are where the three threads are;
  `window` says whether the base registers, `known` what it has registered.
  `slipped`, `rewritten` and `missed` are history: they name the orders in which
  the properties excuse the code.
* **Camera.** `entry` is `camerainfo`, `feed` and `feeds` the table of feeds and
  its count, `rows` the database; `search[t]` is the thread of an answer, `order`
  the message thread or a poll under `g_task_mutex`. A delete that fails on the
  database loads the table anew (`Load`), as a start of the daemon does.
* **Database.** `call[p]` is where each process is: the statements it has still to
  run and what it has counted. `disturbed` is history: the devices and keys that
  two processes wrote at a time, whose script was run again half done, or whose
  count failed.
* **HcApi.** `inbox` is the COMMAND socket, `due` what the daemons still owe each
  request, `at` where `send_command` and `receive_reply` are.

## 3. The runs

All times are with two workers.

| Run | Asks | Bounds | Size |
|---|---|---|---|
| `dispatcher_routing` | consistency, stamping and routing with slots and descriptors reused | 4 connections, 2 slots, 3 descriptors, 1 message each | 2.6 million states, 70 s |
| `dispatcher_liveness` | is input read, are dead clients forgotten | 2 connections, 2 slots, 2 messages each, crashes in mid-header and mid-payload | 86 000 states, 20 s |
| `dispatcher_fd_reuse` | violation: a reply to an application that asked nothing | 3 connections | seconds |
| `dispatcher_stale_type` | violation: an event on a COMMAND socket | an EVENT and a COMMAND socket share a slot | seconds |
| `zwqueue_list` | five structures, each by itself: the task list (links, refinement of `TaskQueue`, duplicate search); node status; device table; cameras and feeds; database | 4 cells, 2 priorities; 2 nodes, 2 requests, 1 report of the nodes themselves; 3 devices of 2 nodes, 2 places, 3 changes, 1 failing statement, 1 restart; 2 cameras, 2 addresses, 2 answers, 2 messages; 2 processes, 3 calls, 2 busy statements | 2.2 million states, 2 min |
| `zwtask_engine` | the task engine, safety and liveness | 2 devices, 1 application, 2 tasks waiting or being added, limits of 2 failures and 2 retries, 1 attempt to open a session | 1.25 million states, 3 min |
| `zwtask_duplicate` | violation: the same task queued twice | 3 tasks | seconds |
| `zwsession_ends` | a session's mutex, reports and end | 2 calls of the task thread | 2.5 min |
| `zwsession_stop` | violation: a stop that leaves the daemon in the session | 2 calls | seconds |
| `hcapi_calls` | three systems, each by itself: the calls of an application; the calls of the DECT daemon's threads; the DECT controller | 3 calls of every kind; 3 calls; 2 devices, 2 slots, 3 messages, 2 reports | 1.6 million states, 70 s |
| `hcapi_late_answer` | violation: a late answer taken for success | 2 calls | seconds |
| `serialapi_calls` | own signals, no lost signal, return | 2 threads, 2 calls and their aborts | 552 000 states, 90 s |

Why these bounds suffice for the cases that matter:

* Reuse of a slot or a descriptor needs one client that leaves and one that
  comes; a request, its daemon and a third party need three connections. Two
  slots and three descriptors for four clients make the limit
  (`AcceptOverLimit`), its leaked descriptor and then the failure of `accept()`
  (`AcceptFails`) happen in the same run. Three slots for three clients, where
  all are connected at once, have been checked with the same result (1.1 million
  states, about a minute). Messages cut short by a crash are in the liveness run
  and, for the slot table, in the proof.
* Two tasks are enough for an order, for a duplicate and for a task that arrives
  while another is taken; the pointer-level part has four, so that a unit is
  inserted at either end and in the middle with units left on both sides. In the
  engine run the requests of the application concern one device and one kind for
  each way of being processed (session, set, removal, one call); detections,
  status reads and broadcast sets come from the daemon's own threads, for both
  devices.
* Two calls in `ZwSession` are a session and whatever meets its late ends; three
  have been checked as well (13.5 million states, 2.5 minutes without liveness).
* In `MCTables` cells, nodes, cameras, addresses, threads and processes are
  interchangeable and are taken in a fixed order instead of by symmetry, which
  TLC cannot combine with the refinement. One restriction is more than that:
  the node of a single device has one of sort "other" (`DevicesInTurn`); the
  devices of the other node are of any sort.
* Two places for three devices make a device without a place; a node of two
  devices and one of one make the watch pass from device to device and not from
  node to node. One failing statement and one restart reach every state the
  properties excuse and, without `lost`, break them.
* One entry of the log is its limit, so that three calls pass it.
* In `HcApi`, `Cmbs`, `ZwStatus` and `SerialApi` an answer that is late can be taken by the call
  after it; `HcApi` has a third because a completion is fetched by a call of its
  own.

Deadlock is checked where the system never stops (`zwtask_engine`); elsewhere
the bounded number of calls or connections ends, and
the configurations say `CHECK_DEADLOCK FALSE`.

### Fairness

Weak fairness of the threads of the program only. Nobody makes a client send,
an application call, the chip answer, a node join or a condition variable wake
up spuriously.

* `Dispatcher`: the dispatcher's loop. Everything that blocks it is a guard.
* `ZwTask`: each adding thread inside `task_add`, the task thread, the end of a
  walk over the devices. The end of a session has none.
* `ZwSession`: each thread's next step. The timer thread looks twice a second.
* `SerialApi`: each thread's next step, in which the expiry of the timer it waits
  on is included: `ACK_TIMER`, `RESPONSE_TIMER` and `REQUEST_TIMER` are finite.
* `HcApi`: the calling thread, with the limit of `select()` as one of its steps.

### What the violations show

Five runs end in a counterexample; each is a place where the code does not do
what a line of the repository says.

1. `dispatcher_fd_reuse`: `appid` is a descriptor, and the kernel hands a closed
   descriptor to the next client at once. An answer then reaches an application
   that did not ask (`hc_msg.h` on `appid`: "dispatcher use appid to get who is
   the sender"). `ReplyToOpenSender` is what does hold.
2. `dispatcher_stale_type`: a slot keeps its types when it is freed; until the
   new client's registration is read it is served as the old one.
3. `zwtask_duplicate`: `queue_found` compares links, too, so a task is recognised
   only while it is alone in the queue (`zw_task.c:761`: "if there is a same
   task in the queue, do not add it."). `FoundOnlyWhenAlone` states it.
4. `zwsession_stop`: the wait for the end of a session has no predicate. A stop
   request handled just before it is answered with success and leaves the task
   thread waiting, with the timer cancelled.
5. `hcapi_late_answer`: the answer to a call that timed out is the success of
   the next call.

Weaker behaviour that no document contradicts is stated in the properties
themselves: a signal of `task_add` may be lost between the test of the queue and
the wait (`missed` in `StrandedOnlyByMissedSignal` and `QueueIsServed`), a
session of a node of unknown type is not completed (`silent` in `SessionEnds`),
overlapping ends of sessions may unlock the mutex of another call (`raced`), a
serial call that begins while something is overdue may take it for its own
(`clean` in `OwnWhenClean`), a report of another kind may overwrite an answer
before it is read (`overtaken`), a request for associations always runs out of
time (`AnswerIsTaken`), a stop may close the window of a later DECT add
(`slipped`), the report thread may rewrite the slot a deletion is about to clear
(`rewritten`), and two processes that write one device make two rows of a column
(`disturbed`).

## 4. What is proved

The theorems hold for every value of the constants that satisfies the modules'
named assumptions: types of the constants; special values (`NoConn`, `NoTask`,
`NoApp`, `Null`, `NoNode`, `Absent`, `Gone`, `Unknown`, `Nothing`) are distinct
from the others and from each other where both are stored in one place; only
applications open COMMAND sockets; cells, DECT devices and the callers of the
database are finitely many; there is at least one priority, one payload, one node
and one place for a device. None of the properties is inductive on its own.

* **`DispatcherProofs!TableIsConsistent`**: `Spec => [](TypeOK /\ SlotTable)`.
  The inductive invariant `TableInv` adds `Links`: the connections behind open
  descriptors and in the backlog have begun, none is in both places, and none is
  queued twice. Without that, accept() could give a connection a second
  descriptor. From the count follows
  `FreeSlotExists`: below the limit there is a free slot, so the branch of
  `AcceptClient` without one is dead.
* **`DispatcherProofs!RequestsAreStamped`**: `Spec => []StampedWithSender`. The
  types in a slot are stale until the client registers; `SenderInv` says that a
  client's first message is its registration, so that by the time a request is
  read the slot has its sender's types.
* **`DispatcherProofs!AnswersReachTheirSender`**: `Spec => []ReplyToOpenSender`.
  `AnswerInv` follows the `appid` of a request wherever it is: in the
  application's stream, in a daemon's stream, in a daemon's task, in the answer,
  in the dispatcher's hands. Either it is still the descriptor of the sender or
  the sender has closed. For that the dispatcher must never forget a descriptor
  whose client is there: `SnapshotInv` says that what `select()` reported of a slot
  is still so when the scan gets to it.
* **`DispatcherProofs!OnlyRefusedClientsLeak`**: the action property
  `LeakOnlyWhenFull`, from `TableInv`.
* **`ZwQueueProofs!QueueTypes`, `QueueLinks`, `QueueFindsOnlyOne`,
  `QueueIsAbstract`**: the list at pointer level, for any finite number of cells
  used any number of times. `ListInv` says that some sequence of units is linked
  both ways from head to tail without repetition and is exactly what is queued;
  `Unlinked`, that a unit outside the list has no links, on which
  `FoundOnlyWhenAlone` rests. `Chain` is a recursive function over the pointers;
  that it is that sequence (`ChainIs`) needs no induction but a least
  counterexample: two chains that differed would differ at a least place, and do
  not. Every step takes a linked sequence to a linked sequence as `TaskQueue`
  allows (`StepOfTheList`), from which the refinement follows.
* **`ZwTaskProofs!TypeInvariant`**, **`QueueIsSafe`**: order of the queue, the
  task thread never finds it empty after its wait, and tasks are stranded only
  by a lost signal. `QueueInv` adds `TasksToPop`: between the test and the pop
  nobody else removes a task. `PutAtProperties`, `InsertKeepsOrder` and
  `TailKeepsOrder` are lemmas about the operators of `TaskQueue`.
* **`ZwTaskProofs!ChecksDoNotPileUp`**: `DetectInv` says that from the moment the
  detect thread found the queue empty until it inserts, no other check is
  queued, because only that thread adds one.
* **`ZwTaskProofs!TaskIsAnswered`**: the mode and the number of answers, from
  `TaskInv`, which counts the answers already given at each stage of
  `process_task`.
* **`ZwTaskProofs!ThreadNeverEnds`, `TasksAreSeen`, `ModeFollowsTask`**: the parts
  of the above that the engine run checks, by name.
* **`CallsProofs!HcApiTypes`, `AnswersAreOwn`, `CompletionsStay`**: for any
  number of calls. `Inv` adds that what is due or unread belongs to a request
  that was sent (`NumberInv`), that in a call that began clean nothing of an
  earlier request is due (`CleanInv`), and that no completion is awaited while
  another request is under way (`AwaitInv`).
* **`ZwSessionProofs!TypeInvariant`, `MutexIsReleased`**: for any number of calls
  and however the ends of sessions overlap. The types include a bound on the
  messages to `ZW_msgProcess`; `CountInv` counts what timer, learn handler and
  the calls to come may still add.
* **`ZwSessionProofs!HoldersKeepTheMutex`, `ReportsInSession`**: as long as no two
  ends overlap. `Calm` says what is then true of each thread: between sessions
  nothing is under way (`OutsideInv`), the flag stands for session and mutex
  (`FlagInv`), and while one end of a session runs, by stop, frame, minute or
  report, none of the others has anything to do (`StopInv`, `LearnInv`,
  `TimeoutInv`, `InboxInv`, `ProcInv`). `Race`, whose history is `raced`, is the
  one step that leaves `Calm`.
* **`SerialApiProofs!TypeInvariant`, `CleanCallsHearTheirOwn`, `SignalsStay`**: for
  any number of threads and calls. `OwnSignals` and `OwnResponse` say that in a
  call that began clean everything on the line, stored, half copied or handed
  over belongs to the holder of the mutex, since nobody else can have sent;
  `Kept` that no status word is reset between its arrival and the look at it.
* **`CallsProofs!CmbsTypes`, `TokenIsLowered`, `AnswersAreFound`,
  `AloneAnswersAreOwn`**: for any number of calls. `AloneInv`, `AskedInv`, `FindInv`
  and `CleanInv` say of a call that is alone what it has established: it has the
  token, its answer is owed only once it has asked, and what the base has
  answered lies in the queue.
* **`CallsProofs!DectTypes`, `AddsEnd`, `DeletionsClearTheirSlot`,
  `SlotsAreDistinct`, `TasksAreSeen`**: for any devices, slots, messages and
  reports. `SignalInv` extends the last to the moment before the wait;
  `ListingsOnce` shows that the two lists of the base fill the table without
  repetition, by the cardinality of the lists.

* **`DatabaseProofs!DatabaseTypes`**: for any number of callers. `CallsInv` adds,
  operation by operation, where a call can be and what its script holds.
* **`DatabaseProofs!LogIsBounded`**: `LogInv` adds to the length of the log the
  callers that have found room and not inserted yet. It grows only by a count,
  which needs room, or by one that failed (`blind`).
* **`DatabaseProofs!RowsAreFew`, `WhatIsSetIsStored`**: one invariant. While a
  target is written its content is unknown (`UnknownInv`), two calls that write
  one target are not alone (`ApartInv`), and what such a call wrote is disturbed
  (`DisturbedInv`). A call that is alone therefore knows the rows of its target
  statement by statement (`KnowsInv`), because no other call touches them
  (`Footprint`). `RowsInv` adds that the rest of its script inserts only into
  columns without rows, `ConfInv` which row of a configuration is taken for a
  count, `StoredInv` what the last call that was alone left behind.
* **`TablesProofs!StatusTypes`, `ReturnedStatusIsOwn`, `AnswersAreTaken`**: for any
  nodes and any number of requests. `AskInv` ties the two globals that say what
  is waited for to the step of the caller. As long as the request began with
  nothing left to come, `CleanInv` says which frames are in the air (`FramesInv`),
  that one callback is left at most (`VerdictInv`), what the handling thread has
  stored (`HandledInv`), what the status the caller polls says of it
  (`PolledInv`), and that an answer handled in time has set that status
  (`AnsweredInv`).
* **`TablesProofs!DevicesTypes`, `NodesStayWatched`, `RecordsStayTogether`**: for
  any nodes, devices and places. `DevicesInv` says, for each point at which the
  daemon can be in a report, a removal or a load (`StageInv`), which of the five
  records of the device in hand are written already and that the others agree
  (`RecordsInv`), that loaded rows have places (`RoomInv`), and which nodes have
  to be watched while reports about them are still to come (`WatchInv`).
* **`TablesProofs!CameraTypes`, `CameraTablesAgree`**: for any cameras, entries,
  feeds, threads and numbers. `PlaceInv` says where the threads are, `LocksInv`
  and `CountInv` who is counting feeds in or out. While no two used an entry at a
  time, `CamerasInv` says that an entry has one user (`UsersInv`), a number one
  entry and one row (`NumbersInv`), what the message thread has still to free or
  load (`OrderInv`), and that every row has its entry but for those the property
  names (`PlacedInv`). That a load finds an entry for each row is an argument by
  cardinality.
* **`TablesProofs!StructuresTypes`**: the five structures of `MCTables` keep their
  types side by side; each step belongs to one of them.

The proof of `TablesAgree` found it wrong as it was first stated, on an instance larger than the run's (two entries, three numbers, three
orders). A delete that fails on the database leaves its row and frees its entry;
a later camera takes the entry; on the next load there are more rows than entries,
and `camera_info_init` fills the table in the order of the rows (it only warns,
`camera_main.c:729`), so that the row of a camera in order finds no entry. The
history variable `kept` now names these rows, too; without a row left behind
there are never too many.

Only model-checked: the liveness properties (`InputIsRead`, `ClosedIsReleased`,
`QueueIsServed`, `SessionEnds`, both `CallReturns`), which need fairness and
`ENABLED` and are beyond this prover. The five violations are counterexamples on
an instance and need no proof. No theorem is about a computation over all data:
where a function of the model is recursive (`Chain`), what is proved about it
holds in the states of the specification.

## 5. What is not modelled, and the plan

Most of the repository's lines are not the program's own logic: generated
command-class headers (`zwave_appl.h` alone has 25 000 lines), the vendored CMBS
SDK with its sample applications, two copies of `sqlite3.h`. Left out for good:
those, the voice endpoint, the tools, the encoders and decoders of radio command
classes (calls with a result, for their callers), the security class's nonces,
row conversions, HTTP exchanges with cameras, their sensors, clips and firmware,
the database daemon (which is not built). The BLE controller reads its line in
the thread that acts on what it reads, and nothing calls its notification queue.
Frames on the serial line arrive whole; a frame with a wrong checksum counts as
lost.

Hazards that were seen and are not among those `PROJECT.json` lists:

* With the descriptors exhausted `accept()` fails on every pass before the scan
  (`hc_dispatcher.c:209`): the end of the road that `LeakOnlyWhenFull` describes.
* A database failure changes the type in the header after `event_type` was taken
  from it (`zw_msg.c:419`); a firmware upgrade drops reports (`zw_msg.c:404`,
  `zw_msg.c:1050`; the devices are in `lost` of `ZwDevices`).
* More rows than places end the daemon's start (`zw_task.c:1036`; `"exit"` in
  `ZwDevices`). The detect thread looks at an entry that is being reset without a
  lock and may queue a check of device 0 (`zw_task.c:1085`).
* Callbacks are tested and called without a lock (`zwave_appl.c:317`);
  `CB_SendDataComplete` sets a failure before a success (`zwave_serialapi.c:1030`;
  both values are in `SerialApi` and `ZwStatus`).
* The DECT daemon does not connect again once the dispatcher has gone
  (`dect_msg.c:787`: `msg_init;` calls nothing).
* The camera daemon's adding window passes without `enable_add_tick` returning to
  0: until a message says "addon 0" silent cameras are not noticed
  (`camera_main.c:1069`) and upgrades are refused (`camera_util.c:857`). In
  `Camera` this is the window `"past"`.
* The SLIP decoder looks at the byte stored last, which may be an escape already
  decoded (`sp_ble_serial.c:476`).

The order of the work, most important behaviour first:

1. `Dispatcher`, then its proofs. *Done.*
2. `TaskQueue`, `ZwQueue`, `ZwTask`, then their proofs. *Done.*
3. `ZwSession`, then its proofs. *Done.*
4. `HcApi`, then its proofs. *Done.*
5. `SerialApi`, then its proofs. *Done.*
6. `Cmbs`, `Dect`, then their proofs. *Done.*
7. `Camera`, `Database`, `ZwStatus`, `ZwDevices`. *Done.*
8. Proofs about these, and the refinement of `TaskQueue`. *Done.*
9. `ReplyToOpenSender` and `LeakOnlyWhenFull` of `Dispatcher` for every number of
   clients. *Done.*
10. What composition promises: `ZwTask` over the list of `ZwQueue` instead of
    `TaskQueue`, and action properties about what a step of `ZwSession` and
    `SerialApi` may never do.
