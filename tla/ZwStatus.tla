------------------------------ MODULE ZwStatus ------------------------------
(***************************************************************************)
(* How the Z-Wave driver asks a node for something: the ZW_Get... functions *)
(* of zwave_appl.c and zwave_association.c, ZW_SendData under them, and     *)
(* ApplicationCommandHandler, which handles what the nodes report.          *)
(*                                                                         *)
(* The calling thread writes down what it waits for in three globals,      *)
(* sends its frame and polls one of them.  The thread of ZW_msgProcess2    *)
(* handles callbacks and reports as they arrive, one by one: it stores     *)
(* every report in the node's entry, a union of all kinds of status, and   *)
(* then decides whether it is the answer or news for the application.      *)
(* Callers take turns (g_cmd_mutex); no lock keeps the two threads apart.  *)
(*                                                                         *)
(* Four requests stand for all.  "status" and "battery": the class and     *)
(* command of the report are written down, and a report nobody asked for   *)
(* goes to the sub-entry of its type if the node's own has another one     *)
(* (battery).  "association": zwave_association.c does not write down the  *)
(* command.  "endpoints": the multi-channel requests, whose answer goes to *)
(* a buffer of its own, whoever waits for what.                            *)
(***************************************************************************)
EXTENDS Naturals

CONSTANTS
  Nodes,        \* nodes of the radio network
  NoNode,       \* ILLEGAL_NODE_ID
  MaxQueries,   \* bound: requests made
  MaxNews       \* bound: reports the nodes make of themselves

ASSUME NodesAssumption == NoNode \notin Nodes /\ Nodes # {}
ASSUME StatusBoundsAssumption == MaxQueries \in Nat /\ MaxNews \in Nat

Asking == {"status", "battery", "association", "endpoints"}
Kept == {"status", "battery"}       \* what nodes[] keeps
Verdicts == {"ok", "fail"}

\* A callback (what is its verdict), or a report: to is the request it answers,
\* 0 for news.
Frame == [what : Asking \cup Verdicts, node : Nodes, to : 0 .. MaxQueries]

\* What a request may return: whose report, of which kind.  All that was
\* stored before it began is told apart from what was stored since, no more.
Value == [node : Nodes, kind : Asking]
Old == [node |-> NoNode, kind |-> "old"]
SomeNode == CHOOSE n \in Nodes : TRUE

\* clean: history, nothing that an earlier request caused was still to come.
Query == [node : Nodes, ask : Asking, clean : BOOLEAN]
NoFrame == [what |-> "ok", node |-> SomeNode, to |-> 0]
NoQuery == [node |-> SomeNode, ask |-> "status", clean |-> FALSE]

VARIABLES
  step,                   \* where the calling thread is
  query,                  \* the request it is at
  queries,                \* bound: requests so far; the number of the last
  gGettingNodeStatus,
  gGettingStatusNodeID,
  gNodeCmd,               \* "none" for 0
  exe_status,             \* what the last callback left
  nodes,                  \* zw_nodes->nodes[].status
  gRequestBuffer,         \* the last multi-channel report
  value, result,          \* what the request returns
  handler, frame,         \* where the handling thread is, and with which frame
  air,                    \* the frames it has yet to handle, in any order
  news,                   \* bound: reports made by the nodes themselves
  overtaken,              \* history: a report was stored over the one taken
  answered                \* history: the answer was handled while it was waited for

askVars == <<gGettingNodeStatus, gGettingStatusNodeID, gNodeCmd>>
queryVars == <<query, queries, value, result>>
storeVars == <<nodes, gRequestBuffer>>
radioVars == <<air, news>>
pastVars == <<overtaken, answered>>
handlerVars == <<handler, frame>>
statusVars == <<step, queryVars, askVars, exe_status, storeVars, handlerVars, radioVars,
                pastVars>>

ZwStatusTypeOK ==
  /\ step \in {"none", "send", "sending", "wait", "sleep", "end"}
  /\ query \in Query /\ queries \in 0 .. MaxQueries
  /\ gGettingNodeStatus \in {"IDLE", "GET_NODE_STATUS", "RECEIVED", "ENDPOINTS_RECEIVED"}
  /\ gGettingStatusNodeID \in Nodes \cup {NoNode}
  /\ gNodeCmd \in Kept \cup {"none"}
  /\ exe_status \in {"IDLE", "SUCCESSFUL", "FAIL"}
  /\ nodes \in [Nodes -> Value \cup {Old}]
  /\ gRequestBuffer \in Value \cup {Old}
  /\ value \in Value \cup {Old}
  /\ result \in {"none", "ok", "timeout", "failed"}
  /\ handler \in {"none", "verdict", "test", "take"}
  /\ frame \in Frame
  /\ air \subseteq Frame
  /\ news \in 0 .. MaxNews
  /\ overtaken \in BOOLEAN /\ answered \in BOOLEAN

ZwStatusInit ==
  /\ step = "none" /\ query = NoQuery /\ queries = 0
  /\ gGettingNodeStatus = "IDLE" /\ gGettingStatusNodeID = NoNode /\ gNodeCmd = "none"
  /\ exe_status = "IDLE"
  /\ nodes = [n \in Nodes |-> Old] /\ gRequestBuffer = Old
  /\ value = Old /\ result = "none"
  /\ handler = "none" /\ frame = NoFrame /\ air = {} /\ news = 0
  /\ overtaken = FALSE /\ answered = FALSE

-----------------------------------------------------------------------------
(* The calling thread. *)

\* A request begins.  The multi-channel ones write down the first global only.
AskNode(n, ask) ==
  /\ step = "none" /\ queries < MaxQueries
  /\ queries' = queries + 1
  /\ query' = [node |-> n, ask |-> ask, clean |-> air = {} /\ handler = "none"]
  /\ gGettingNodeStatus' = "GET_NODE_STATUS"
  /\ gGettingStatusNodeID' = IF ask = "endpoints" THEN gGettingStatusNodeID ELSE n
  /\ gNodeCmd' = IF ask \in Kept THEN ask ELSE gNodeCmd
  /\ step' = "send"
  /\ UNCHANGED <<exe_status, storeVars, value, result, handlerVars, radioVars, pastVars>>

\* ZW_SendData.  The chip may refuse or never call back, the node never answer.
Transmit ==
  /\ step = "send" /\ step' = "sending"
  /\ exe_status' = "IDLE"
  /\ \E verdicts \in {{}} \cup {{v} : v \in Verdicts}, answers \in SUBSET {query.ask} :
       air' = air \cup [what : verdicts \cup answers, node : {query.node}, to : {queries}]
  /\ UNCHANGED <<queryVars, askVars, storeVars, handlerVars, news, pastVars>>

\* Mutant of SendDataOk: the status of the callback is left as it is.
SendDataOkKept ==
  /\ step = "sending" /\ exe_status = "SUCCESSFUL"
  /\ step' = "wait"
  /\ UNCHANGED <<queryVars, askVars, exe_status, storeVars, handlerVars, radioVars,
                 pastVars>>

SendDataOk ==
  /\ step = "sending" /\ exe_status = "SUCCESSFUL"
  /\ step' = "wait" /\ exe_status' = "IDLE"
  /\ UNCHANGED <<queryVars, askVars, storeVars, handlerVars, radioVars, pastVars>>

\* The request is over: what it stored is old from now on.
Over ==
  /\ query' = NoQuery /\ nodes' = [n \in Nodes |-> Old] /\ gRequestBuffer' = Old
  /\ overtaken' = FALSE /\ answered' = FALSE

\* Refused, failed or out of time.  The multi-channel requests return at once
\* and leave gGettingNodeStatus as it is.
SendDataFails ==
  /\ step = "sending" /\ exe_status # "SUCCESSFUL"
  /\ exe_status' = "IDLE"
  /\ IF query.ask = "endpoints"
     THEN step' = "none" /\ Over /\ UNCHANGED result
     ELSE step' = "end" /\ result' = "failed" /\ UNCHANGED <<query, storeVars, pastVars>>
  /\ UNCHANGED <<queries, value, askVars, handlerVars, radioVars>>

Expected == IF query.ask = "endpoints" THEN "ENDPOINTS_RECEIVED" ELSE "RECEIVED"

\* WaitStatusReady finds the status it expects; the caller reads the entry.
ReadStatus ==
  /\ step = "wait" /\ gGettingNodeStatus = Expected
  /\ value' = IF query.ask = "endpoints" THEN gRequestBuffer ELSE nodes[query.node]
  /\ step' = "end" /\ result' = "ok"
  /\ UNCHANGED <<query, queries, askVars, exe_status, storeVars, handlerVars, radioVars,
                 pastVars>>

\* The last millisecond of the time limit: nobody looks after it.
LastSleep ==
  /\ step = "wait" /\ gGettingNodeStatus # Expected
  /\ step' = "sleep"
  /\ UNCHANGED <<queryVars, askVars, exe_status, storeVars, handlerVars, radioVars,
                 pastVars>>

NoStatus ==
  /\ step = "sleep"
  /\ step' = "end" /\ result' = "timeout"
  /\ UNCHANGED <<query, queries, value, askVars, exe_status, storeVars, handlerVars,
                 radioVars, pastVars>>

\* END: zwave_association.c leaves gNodeCmd, which it did not set, at 0.
ReturnStatus ==
  /\ step = "end"
  /\ gGettingNodeStatus' = "IDLE"
  /\ IF query.ask = "endpoints"
     THEN UNCHANGED <<gGettingStatusNodeID, gNodeCmd>>
     ELSE gGettingStatusNodeID' = NoNode /\ gNodeCmd' = "none"
  /\ step' = "none" /\ result' = "none" /\ value' = Old /\ Over
  /\ UNCHANGED <<queries, exe_status, handlerVars, radioVars>>

Asker ==
  \/ \E n \in Nodes, ask \in Asking : AskNode(n, ask)
  \/ Transmit \/ SendDataOk \/ SendDataFails
  \/ ReadStatus \/ LastSleep \/ NoStatus \/ ReturnStatus

-----------------------------------------------------------------------------
(* The chip and the nodes. *)

\* A switch is pressed, a battery runs down.
NodeReports(n, kind) ==
  /\ news < MaxNews /\ news' = news + 1
  /\ air' = air \cup {[what |-> kind, node |-> n, to |-> 0]}
  /\ UNCHANGED <<step, queryVars, askVars, exe_status, storeVars, handlerVars, pastVars>>

-----------------------------------------------------------------------------
(* The thread that handles callbacks and reports, one frame after the other. *)

\* It takes the next frame of those kinds.
Takes(f, kinds) ==
  /\ handler = "none" /\ f \in air /\ f.what \in kinds
  /\ air' = air \ {f}
  /\ UNCHANGED <<step, queryVars, news>>

\* It goes on with the frame it is at.
GoesOn(stage0) == handler = stage0 /\ UNCHANGED <<step, queryVars, radioVars>>

ThenAt(stage1, f) == handler' = stage1 /\ frame' = f
Handled == handler' = "none" /\ frame' = NoFrame

\* CB_SendDataComplete sets FAIL first.  What it does to abort an unanswered
\* frame (SerialApi) only makes the frames behind it wait longer.
SendDataComplete(f) ==
  /\ Takes(f, Verdicts)
  /\ exe_status' = "FAIL" /\ ThenAt("verdict", f)
  /\ UNCHANGED <<askVars, storeVars, pastVars>>

Verdict ==
  /\ GoesOn("verdict")
  /\ exe_status' = IF frame.what = "ok" THEN "SUCCESSFUL" ELSE exe_status
  /\ Handled
  /\ UNCHANGED <<askVars, storeVars, pastVars>>

\* Mutant of Asked: any report of the node is the answer.
AskedOfNode(f) ==
  /\ gGettingNodeStatus = "GET_NODE_STATUS" /\ gGettingStatusNodeID = f.node
  /\ exe_status = "IDLE"

Asked(f) ==
  /\ gGettingNodeStatus = "GET_NODE_STATUS" /\ gGettingStatusNodeID = f.node
  /\ gNodeCmd = f.what /\ exe_status = "IDLE"

\* The frame that is handled now is the answer the caller waits for.
Hears(f) == answered' = (answered \/ (f.to = queries /\ step = "wait"))

Received(f) == IF step = "none" THEN Old ELSE [node |-> f.node, kind |-> f.what]

\* CorrectReportNodeId gives a battery report nobody asks for to the node's
\* sub-entry, which nobody waits for; association reports have their own table.
StoreReport(f) ==
  /\ Takes(f, Kept \cup {"association"})
  /\ IF f.what = "battery" /\ ~ Asked(f)
     THEN Handled /\ Hears(f) /\ UNCHANGED <<nodes, overtaken>>
     ELSE /\ ThenAt("test", f) /\ UNCHANGED answered
          /\ nodes' = IF f.what \in Kept THEN [nodes EXCEPT ![f.node] = Received(f)] ELSE nodes
          /\ overtaken' = (overtaken \/ (gGettingNodeStatus = "RECEIVED" /\ f.what # query.ask))
  /\ UNCHANGED <<askVars, exe_status, gRequestBuffer>>

\* What is not the answer is reported to the application.
TestReport ==
  /\ GoesOn("test")
  /\ IF Asked(frame) THEN ThenAt("take", frame) /\ UNCHANGED answered
     ELSE Handled /\ Hears(frame)
  /\ UNCHANGED <<askVars, exe_status, storeVars, overtaken>>

TakeReport ==
  /\ GoesOn("take")
  /\ gGettingStatusNodeID' = NoNode /\ gGettingNodeStatus' = "RECEIVED"
  /\ Handled /\ Hears(frame)
  /\ UNCHANGED <<gNodeCmd, exe_status, storeVars, overtaken>>

\* A multi-channel report, whoever it comes from and whatever is waited for.
StoreEndpoints(f) ==
  /\ Takes(f, {"endpoints"})
  /\ gRequestBuffer' = Received(f) /\ gGettingNodeStatus' = "ENDPOINTS_RECEIVED"
  /\ Handled /\ Hears(f)
  /\ UNCHANGED <<gGettingStatusNodeID, gNodeCmd, exe_status, nodes, overtaken>>

ReportHandler ==
  \/ \E f \in air : SendDataComplete(f) \/ StoreReport(f) \/ StoreEndpoints(f)
  \/ Verdict \/ TestReport \/ TakeReport

ZwStatusNext ==
  \/ Asker \/ ReportHandler
  \/ \E n \in Nodes, kind \in Kept : NodeReports(n, kind)

ZwStatusSpec == ZwStatusInit /\ [][ZwStatusNext]_statusVars

-----------------------------------------------------------------------------
\* A request that returns OK, and began when nothing of an earlier one was to
\* come, returns what its node reported while it lasted; of the kind asked for,
\* unless another report was stored over the answer before it was read.
StatusIsOwn ==
  result = "ok" /\ query.clean =>
    /\ value.node = query.node
    /\ value.kind = query.ask \/ overtaken

\* A request that began like that and whose answer was handled while it waited
\* does not run out of time, unless it is one for associations: these always do.
AnswerIsTaken ==
  result = "timeout" /\ query.clean /\ answered => query.ask = "association"
=============================================================================
