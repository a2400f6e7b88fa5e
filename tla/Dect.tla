-------------------------------- MODULE Dect --------------------------------
(***************************************************************************)
(* The controller of the DECT daemon (dect_msg.c, dect_task.c, dect_api.c, *)
(* dect_queue.c): its mode, its queue of tasks, its table of devices and   *)
(* the base station behind it.  Three threads share them without a lock.   *)
(* One handles messages and runs ADD_STOP and the upgrade lock itself, one *)
(* works off the queued tasks, one handles what the base reports.          *)
(*                                                                         *)
(* A call to the base is what Cmbs.tla leaves of it: the base does it or   *)
(* not, and the caller is told or, when it has lost the answer, not told;  *)
(* it is told wrongly only after it has once given up waiting.  Replies    *)
(* and reports to applications and the database are left out, and so are   *)
(* the tasks that touch neither the mode nor the table ("other") and the   *)
(* connection and alarm fields the keep-alive thread resets.               *)
(***************************************************************************)
EXTENDS Integers, Sequences, FiniteSets

CONSTANTS
  Devices,      \* what may be registered: ULE devices and handsets
  Handsets,     \* those that are handsets
  Nobody,       \* the id 0
  Capacity,     \* DECT_CMBS_DEVICES_MAX: as many as the base registers
  MaxMessages,  \* bound: messages from applications
  MaxReports    \* bound: reports of the base

ASSUME DectAssumption ==
  /\ Handsets \subseteq Devices /\ Nobody \notin Devices
  /\ IsFiniteSet(Devices) /\ Capacity \in Nat \ {0} /\ Cardinality(Devices) <= Capacity
  /\ MaxMessages \in Nat /\ MaxReports \in Nat

Slots == 1 .. Capacity
DectModes == {"idle", "adding", "deleting"}

\* A task without a device deletes all of them (id 0), if it is a "delete".
Job == [kind : {"add", "delete", "other"}, device : Devices \cup {Nobody}]
NoJob == [kind |-> "other", device |-> Nobody]

\* "failed" stands for an error in stage 1 or 2 and for the end of the window by
\* timeout; "restarted" for SYS_START_RES, "deleted" for REG_DELETED.
Report == [kind : {"stage_2", "registered", "handset", "failed", "deleted", "restarted"},
           device : Devices \cup {Nobody}]
NoReport == [kind |-> "failed", device |-> Nobody]

VARIABLES
  mode,        \* g_dect_controller_mode
  locked,      \* g_fw_upgrade_flag
  table,       \* g_Device_info.device[].id
  jobs,        \* the task queue
  receiver,    \* where the message thread is
  worker,      \* where the task thread is
  job,         \* the task it is in
  slot,        \* the index it has found for the device to be cleared
  reporter,    \* where the report thread is
  report,      \* the report it is in
  stageTwo,    \* STAGE_2 has left a pointer's low half in g_dect_register_device_id
  window,      \* base: open for registration
  known,       \* base: registered devices
  reports,     \* the queue n_MssgReport
  messages, reported,   \* bounds: messages received, reports given
  gaveUp,      \* history: a call was told nothing of what the base did
  missed,      \* history: the signal came between the empty test and the wait
  slipped,     \* history: adding, but a stop closed the window or it never opened
  rewritten    \* history: the report thread wrote the table since slot was found

dectVars ==
  <<mode, locked, table, jobs, receiver, worker, job, slot, reporter, report, stageTwo,
    window, known, reports, messages, reported, gaveUp, missed, slipped, rewritten>>
baseVars == <<window, known, reports, reported>>
workerVars == <<worker, job, slot>>
reporterVars == <<reporter, report, stageTwo>>
historyVars == <<gaveUp, missed, slipped, rewritten>>

DectTypeOK ==
  /\ mode \in DectModes /\ locked \in BOOLEAN
  /\ table \in [Slots -> Devices \cup {Nobody}]
  /\ jobs \in Seq(Job)
  /\ receiver \in {"listening", "pushed", "closing"}
  /\ worker \in {"test", "enter", "waiting", "start", "opening", "removing", "removed", "clear"}
  /\ job \in Job /\ slot \in Slots
  /\ reporter \in {"idle", "closing", "listing", "dropping", "insert", "clearing", "filling"}
  /\ report \in Report /\ stageTwo \in BOOLEAN
  /\ window \in BOOLEAN /\ known \subseteq Devices
  /\ reports \in Seq(Report)
  /\ messages \in 0 .. MaxMessages /\ reported \in 0 .. MaxReports
  /\ gaveUp \in BOOLEAN /\ missed \in BOOLEAN /\ slipped \in BOOLEAN /\ rewritten \in BOOLEAN

DectInit ==
  /\ mode = "idle" /\ locked = FALSE
  /\ table = [i \in Slots |-> Nobody]
  /\ jobs = << >> /\ receiver = "listening"
  /\ worker = "test" /\ job = NoJob /\ slot = 1
  /\ reporter = "idle" /\ report = NoReport /\ stageTwo = FALSE
  /\ window = FALSE /\ known = {} /\ reports = << >>
  /\ messages = 0 /\ reported = 0
  /\ gaveUp = FALSE /\ missed = FALSE /\ slipped = FALSE /\ rewritten = FALSE

SetMode(m) == mode' = m /\ slipped' = FALSE

\* How a call ends: what the base did, and what the caller is told.
Ending == [done : BOOLEAN, told : BOOLEAN]
CallEnds(e) ==
  /\ e.told => e.done \/ gaveUp
  /\ gaveUp' = (gaveUp \/ (e.done /\ ~ e.told))

-----------------------------------------------------------------------------
\* The message thread (process_msg).  While locked it ignores what is not about
\* the lock.
Accepts == receiver = "listening" /\ messages < MaxMessages /\ messages' = messages + 1

ReceiveIgnored ==
  /\ Accepts /\ locked
  /\ UNCHANGED <<mode, locked, table, jobs, receiver, workerVars, reporterVars, baseVars,
                 historyVars>>

\* The mode is reset first, then the base is told to close the window.
ReceiveStop ==
  /\ Accepts /\ ~ locked
  /\ SetMode("idle") /\ receiver' = "closing"
  /\ UNCHANGED <<locked, table, jobs, workerVars, reporterVars, baseVars, gaveUp, missed,
                 rewritten>>

CloseWindow(e) ==
  /\ receiver = "closing" /\ CallEnds(e)
  /\ window' = (window /\ ~ e.done) /\ receiver' = "listening"
  /\ slipped' = (slipped \/ (e.done /\ mode = "adding"))
  /\ UNCHANGED <<mode, locked, table, jobs, workerVars, reporterVars, known, reports, reported,
                 messages, missed, rewritten>>

ReceiveLock ==
  /\ Accepts
  /\ locked' = (locked \/ mode = "idle")
  /\ UNCHANGED <<mode, table, jobs, receiver, workerVars, reporterVars, baseVars, historyVars>>

ReceiveUnlock ==
  /\ Accepts /\ locked' = FALSE
  /\ UNCHANGED <<mode, table, jobs, receiver, workerVars, reporterVars, baseVars, historyVars>>

\* task_add pushes and signals, and holds task_mutex for neither.
ReceiveTask(j) ==
  /\ Accepts /\ ~ locked
  /\ jobs' = Append(jobs, j) /\ receiver' = "pushed"
  /\ UNCHANGED <<mode, locked, table, workerVars, reporterVars, baseVars, historyVars>>

\* Mutant of SignalTask: without the signal.
SignalNobody ==
  /\ receiver = "pushed" /\ receiver' = "listening"
  /\ missed' = (missed \/ worker = "enter")
  /\ UNCHANGED <<mode, locked, table, jobs, workerVars, reporterVars, baseVars, messages, gaveUp,
                 slipped, rewritten>>

SignalTask ==
  /\ receiver = "pushed" /\ receiver' = "listening"
  /\ worker' = IF worker = "waiting" THEN "test" ELSE worker
  /\ missed' = (worker = "enter" \/ (missed /\ worker # "waiting"))
  /\ UNCHANGED <<mode, locked, table, jobs, job, slot, reporterVars, baseVars, messages, gaveUp,
                 slipped, rewritten>>

MessageThread ==
  \/ (\E e \in Ending : CloseWindow(e))
  \/ SignalTask

-----------------------------------------------------------------------------
\* The task thread (task_handle_thread, process_task).
TestQueue ==
  /\ worker = "test" /\ jobs = << >>
  /\ worker' = "enter"
  /\ UNCHANGED <<mode, locked, table, jobs, receiver, job, slot, reporterVars, baseVars, messages,
                 historyVars>>

WaitForTask ==
  /\ worker = "enter" /\ worker' = "waiting"
  /\ UNCHANGED <<mode, locked, table, jobs, receiver, job, slot, reporterVars, baseVars, messages,
                 historyVars>>

PopTask ==
  /\ worker = "test" /\ jobs # << >>
  /\ job' = Head(jobs) /\ jobs' = Tail(jobs)
  /\ worker' = "start" /\ missed' = FALSE
  /\ UNCHANGED <<mode, locked, table, receiver, slot, reporterVars, baseVars, messages, gaveUp,
                 slipped, rewritten>>

\* The device is in the table.
Listed(d) == \E i \in Slots : table[i] = d

TaskDone == worker' = "test" /\ job' = NoJob /\ slot' = 1

\* An add or a delete under way answers for every task.
RefuseTask ==
  /\ worker = "start" /\ (mode # "idle" \/ job.kind = "other")
  /\ TaskDone
  /\ UNCHANGED <<mode, locked, table, jobs, receiver, reporterVars, baseVars, messages,
                 historyVars>>

StartAdd ==
  /\ worker = "start" /\ mode = "idle" /\ job.kind = "add"
  /\ SetMode("adding") /\ worker' = "opening" /\ stageTwo' = FALSE
  /\ UNCHANGED <<locked, table, jobs, receiver, job, slot, reporter, report, baseVars, messages,
                 gaveUp, missed, rewritten>>

\* Mutant of OpenWindow: a failure leaves the mode as it is.
OpenKeepingMode(e) ==
  /\ worker = "opening" /\ CallEnds(e)
  /\ window' = (window \/ e.done)
  /\ slipped' = (slipped \/ (mode = "adding" /\ e.told /\ ~ e.done))
  /\ TaskDone
  /\ UNCHANGED <<mode, locked, table, jobs, receiver, reporterVars, known, reports, reported,
                 messages, missed, rewritten>>

OpenWindow(e) ==
  /\ worker = "opening" /\ CallEnds(e)
  /\ window' = (window \/ e.done)
  /\ IF e.told
     THEN mode' = mode /\ slipped' = (slipped \/ (mode = "adding" /\ ~ e.done))
     ELSE SetMode("idle")
  /\ TaskDone
  /\ UNCHANGED <<locked, table, jobs, receiver, reporterVars, known, reports, reported, messages,
                 missed, rewritten>>

StartDelete ==
  /\ worker = "start" /\ mode = "idle" /\ job.kind = "delete"
  /\ SetMode("deleting") /\ worker' = "removing"
  /\ UNCHANGED <<locked, table, jobs, receiver, job, slot, reporterVars, baseVars, messages,
                 gaveUp, missed, rewritten>>

\* Id 0 stands for every ULE device; what became of a handset is not looked at.
RemoveFromBase(e) ==
  /\ worker = "removing" /\ CallEnds(e)
  /\ known' = known \ (IF ~ e.done THEN {}
                       ELSE IF job.device = Nobody THEN Devices \ Handsets ELSE {job.device})
  /\ IF e.told \/ job.device \in Handsets
     THEN worker' = "removed" /\ UNCHANGED <<mode, slipped, job, slot>>
     ELSE TaskDone /\ SetMode("idle")
  /\ UNCHANGED <<locked, table, jobs, receiver, reporterVars, window, reports, reported, messages,
                 missed, rewritten>>

\* Mutant of RemoveSuccess: an id it does not find leaves the index at the first slot.
RemoveUnchecked ==
  /\ worker = "removed" /\ job.device # Nobody
  /\ slot' = IF Listed(job.device) THEN CHOOSE i \in Slots : table[i] = job.device ELSE 1
  /\ worker' = "clear" /\ rewritten' = FALSE
  /\ SetMode("idle")
  /\ UNCHANGED <<locked, table, jobs, receiver, job, reporterVars, baseVars, messages, gaveUp,
                 missed>>

\* msg_DECTRemoveSuccess looks for the device; one it does not find is not
\* answered.  The reply, a call to the database, comes before the slot is cleared.
RemoveSuccess ==
  /\ worker = "removed"
  /\ \/ /\ job.device = Nobody
        /\ table' = [i \in Slots |-> Nobody]
        /\ slot' = 1 /\ worker' = "clear" /\ rewritten' = FALSE /\ UNCHANGED job
     \/ \E i \in Slots :
          /\ job.device # Nobody
          /\ table[i] = job.device /\ \A k \in 1 .. (i - 1) : table[k] # job.device
          /\ slot' = i /\ worker' = "clear" /\ rewritten' = FALSE /\ UNCHANGED <<job, table>>
     \/ /\ job.device # Nobody /\ ~ Listed(job.device)
        /\ TaskDone /\ UNCHANGED <<table, rewritten>>
  /\ SetMode("idle")
  /\ UNCHANGED <<locked, jobs, receiver, reporterVars, baseVars, messages, gaveUp, missed>>

ClearSlot ==
  /\ worker = "clear"
  /\ table' = [table EXCEPT ![slot] = Nobody]
  /\ TaskDone /\ SetMode("idle") /\ rewritten' = FALSE
  /\ UNCHANGED <<locked, jobs, receiver, reporterVars, baseVars, messages, gaveUp, missed>>

TaskThread ==
  \/ TestQueue \/ WaitForTask \/ PopTask \/ RefuseTask
  \/ StartAdd \/ (\E e \in Ending : OpenWindow(e))
  \/ StartDelete \/ (\E e \in Ending : RemoveFromBase(e))
  \/ RemoveSuccess \/ ClearSlot

-----------------------------------------------------------------------------
\* The report thread (tcm_DeviceReportThread, dect_device_register_complete).
NextReport(kinds) ==
  /\ reporter = "idle" /\ reports # << >> /\ Head(reports).kind \in kinds
  /\ reports' = Tail(reports)
  /\ UNCHANGED <<locked, table, jobs, receiver, workerVars, window, known, messages, reported,
                 gaveUp, missed, rewritten>>

\* Outside an add the report of a registration is ignored.
ReportStageTwo ==
  /\ NextReport({"stage_2"}) /\ stageTwo' = TRUE
  /\ UNCHANGED <<mode, slipped, reporter, report>>

AddFail == IF mode = "adding" THEN SetMode("idle") ELSE UNCHANGED <<mode, slipped>>

\* Stage 1 resets the id, stage 2 sets it, the timeout leaves it.
ReportFailure ==
  /\ NextReport({"failed"}) /\ AddFail /\ stageTwo' \in BOOLEAN
  /\ UNCHANGED <<reporter, report>>

ReportRegistered ==
  /\ NextReport({"registered", "handset"})
  /\ IF mode = "adding"
     THEN /\ report' = Head(reports)
          /\ reporter' = IF Head(reports).kind = "handset" THEN "insert" ELSE "closing"
     ELSE UNCHANGED <<reporter, report>>
  /\ UNCHANGED <<mode, slipped, stageTwo>>

\* A deletion reported by the base fails an add and then falls into the restart.
ReportRestart ==
  /\ NextReport({"deleted", "restarted"})
  /\ IF Head(reports).kind = "deleted" THEN AddFail ELSE UNCHANGED <<mode, slipped>>
  /\ reporter' = "clearing" /\ report' = Head(reports)
  /\ UNCHANGED stageTwo

RebuildClear ==
  /\ reporter = "clearing" /\ reporter' = "filling"
  /\ table' = [i \in Slots |-> Nobody] /\ rewritten' = TRUE
  /\ UNCHANGED <<mode, locked, jobs, receiver, workerVars, report, stageTwo, baseVars, messages,
                 gaveUp, missed, slipped>>

\* The ULE devices from the first slot on, then the handsets, each list in the
\* order of the base; a list whose answer is lost is empty.
Listings(ule, hs) ==
  LET n == Cardinality(ule)
      m == n + Cardinality(hs)
  IN  {f \in [Slots -> Devices \cup {Nobody}] :
         /\ {f[i] : i \in 1 .. n} = ule
         /\ {f[i] : i \in (n + 1) .. m} = hs
         /\ \A i \in Slots : i > m => f[i] = Nobody}

\* The register id is a number of its own after stage 2: it may be anyone's.
RebuildFill(uleTold, hsTold) ==
  /\ reporter = "filling"
  /\ table' \in Listings(IF uleTold THEN known \ Handsets ELSE {},
                        IF hsTold THEN known \cap Handsets ELSE {})
  /\ gaveUp' = (gaveUp \/ ~ uleTold \/ ~ hsTold) /\ rewritten' = TRUE
  /\ IF mode = "adding" /\ stageTwo
     THEN /\ \E d \in (Devices \ Handsets) \cup {Nobody} :
               report' = [kind |-> "registered", device |-> d]
          /\ reporter' = "closing" /\ UNCHANGED <<mode, slipped>>
     ELSE AddFail /\ reporter' = "idle" /\ report' = NoReport
  /\ UNCHANGED <<locked, jobs, receiver, workerVars, stageTwo, baseVars, messages, missed>>

CompleteClose(e) ==
  /\ reporter = "closing" /\ CallEnds(e)
  /\ window' = (window /\ ~ e.done) /\ reporter' = "listing"
  /\ UNCHANGED <<mode, locked, table, jobs, receiver, workerVars, report, stageTwo, known, reports,
                 reported, messages, missed, slipped, rewritten>>

\* A device the base does not list, or whose list is lost, is deleted there.
CompleteList(told) ==
  /\ reporter = "listing"
  /\ reporter' = IF told /\ report.device \in known \ Handsets THEN "insert" ELSE "dropping"
  /\ gaveUp' = (gaveUp \/ ~ told)
  /\ UNCHANGED <<mode, locked, table, jobs, receiver, workerVars, report, stageTwo, baseVars,
                 messages, missed, slipped, rewritten>>

ReportDone == reporter' = "idle" /\ report' = NoReport /\ SetMode("idle")

CompleteDrop(e) ==
  /\ reporter = "dropping" /\ CallEnds(e)
  /\ known' = known \ (IF e.done THEN {report.device} ELSE {})
  /\ ReportDone
  /\ UNCHANGED <<locked, table, jobs, receiver, workerVars, stageTwo, window, reports, reported,
                 messages, missed, rewritten>>

FirstFree(i) == table[i] = Nobody /\ \A k \in 1 .. (i - 1) : table[k] # Nobody

\* Mutant of CompleteInsert: the device is not looked for.
InsertAgain ==
  /\ reporter = "insert"
  /\ table' = [i \in Slots |-> IF FirstFree(i) THEN report.device ELSE table[i]]
  /\ ReportDone /\ rewritten' = TRUE
  /\ UNCHANGED <<locked, jobs, receiver, workerVars, stageTwo, baseVars, messages, gaveUp, missed>>

\* It replaces an entry with the same id or takes the first free one; without a
\* free one the add has failed.
CompleteInsert ==
  /\ reporter = "insert"
  /\ table' = [i \in Slots |->
                  IF ~ Listed(report.device) /\ FirstFree(i) THEN report.device ELSE table[i]]
  /\ ReportDone /\ rewritten' = TRUE
  /\ UNCHANGED <<locked, jobs, receiver, workerVars, stageTwo, baseVars, messages, gaveUp, missed>>

ReportThread ==
  \/ ReportStageTwo \/ ReportFailure \/ ReportRegistered \/ ReportRestart
  \/ RebuildClear \/ (\E uleTold, hsTold \in BOOLEAN : RebuildFill(uleTold, hsTold))
  \/ (\E e \in Ending : CompleteClose(e)) \/ (\E told \in BOOLEAN : CompleteList(told))
  \/ (\E e \in Ending : CompleteDrop(e)) \/ CompleteInsert

-----------------------------------------------------------------------------
\* The base station, which nothing but its reports is seen of.
BaseReports(kind, d) ==
  /\ reported < MaxReports /\ reported' = reported + 1
  /\ reports' = Append(reports, [kind |-> kind, device |-> d])
  /\ UNCHANGED <<mode, locked, table, jobs, receiver, workerVars, reporterVars, messages,
                 historyVars>>

BaseStage(kind) == window /\ BaseReports(kind, Nobody) /\ UNCHANGED <<window, known>>

BaseRegisters(d) ==
  /\ window /\ d \notin known /\ known' = known \cup {d}
  /\ IF d \in Handsets
     THEN BaseReports("handset", d) /\ window' \in BOOLEAN
     ELSE BaseReports("registered", d) /\ UNCHANGED window

\* A handset that goes is reported like one that comes (appsrv.c:137).
BaseUnregisters(d) ==
  /\ d \in known \cap Handsets /\ known' = known \ {d}
  /\ BaseReports("handset", d) /\ UNCHANGED window

BaseTimesOut == window /\ window' = FALSE /\ BaseReports("failed", Nobody) /\ UNCHANGED known

BaseRestarts ==
  \/ window' = FALSE /\ BaseReports("restarted", Nobody) /\ UNCHANGED known
  \/ \E d \in known \ Handsets :
       BaseReports("deleted", Nobody) /\ known' = known \ {d} /\ UNCHANGED window

Base ==
  \/ \E kind \in {"stage_2", "failed"} : BaseStage(kind)
  \/ \E d \in Devices : BaseRegisters(d) \/ BaseUnregisters(d)
  \/ BaseTimesOut \/ BaseRestarts

Jobs == {j \in Job : j.kind = "delete" \/ j.device = Nobody}

DectNext ==
  \/ ReceiveIgnored \/ ReceiveStop \/ ReceiveLock \/ ReceiveUnlock
  \/ \E j \in Jobs : ReceiveTask(j)
  \/ MessageThread \/ TaskThread \/ ReportThread
  \/ Base

DectSpec == DectInit /\ [][DectNext]_dectVars

-----------------------------------------------------------------------------
\* The mode says adding only while something will still end it: the task thread is
\* opening the window, the window is open, or a report that ends the add is on its
\* way.  Otherwise every task is refused until someone sends a stop.  It happens
\* when a stop, which sets the mode before it closes the window, closes the window
\* of an add that began in between, or when the answer taken was an older one's.
StuckOnlyBySlip ==
  mode = "adding" =>
    \/ window \/ worker = "opening" \/ reporter # "idle" \/ slipped
    \/ \E n \in 1 .. Len(reports) : reports[n].kind # "stage_2"

\* The slot that is cleared, and whose device is taken from the database, still
\* holds the deleted device, unless the report thread has written the table since.
ClearsItsDevice ==
  worker = "clear" => table[slot] \in {job.device, Nobody} \/ rewritten

\* No device is in two slots, however registrations, deletions and the rebuilding
\* of the table mix.
OneSlotPerDevice ==
  \A i, k \in Slots : table[i] = table[k] /\ table[i] # Nobody => i = k

\* A task lies queued while the thread waits only if the signal came between the
\* empty test and the wait: task_add takes no lock.
LeftOnlyByMissedSignal ==
  worker = "waiting" /\ jobs # << >> => receiver = "pushed" \/ missed
=============================================================================
