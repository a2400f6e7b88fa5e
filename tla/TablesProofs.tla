---------------------------- MODULE TablesProofs ----------------------------
(***************************************************************************)
(* Proofs about the entries of the Z-Wave driver's nodes (ZwStatus), the   *)
(* Z-Wave daemon's table of devices (ZwDevices) and the camera daemon's    *)
(* tables (Camera), and that MCTables, which checks these and the queue of *)
(* tasks and the database, keeps the types of each.                        *)
(*                                                                         *)
(* ZwStatus: an answer is told from the many frames that look like one by  *)
(* what the caller has set before it sends (AskInv), by what a frame of    *)
(* this request or another may say (FramesInv, VerdictInv), by what the    *)
(* handling thread has stored (HandledInv) and what it told the caller     *)
(* (PolledInv, AnsweredInv); the last four hold while the request began    *)
(* with nothing of an earlier one under way (CleanInv).                    *)
(*                                                                         *)
(* ZwDevices: the table is well formed, and while a statement, a session   *)
(* or a loading is under way the four records of a device agree but for    *)
(* the one that is being written (DevicesInv).                             *)
(*                                                                         *)
(* Camera: where the threads are (PlaceInv), who counts the feeds          *)
(* (FeedsInv), and, as long as no two used an entry at a time, that an     *)
(* entry has one user, a number one entry and a row its entry (TablesInv). *)
(***************************************************************************)
EXTENDS MCTables, ZwQueueProofs, DatabaseProofs, FiniteSetTheorems, TLAPS

-----------------------------------------------------------------------------
(* ZwStatus: the status of a node                                          *)

\* A report that arrives now is the one the caller waits for only if the
\* caller is at a request whose report is told by its command.
AskInv ==
  /\ step = "none" => /\ gGettingStatusNodeID = NoNode /\ gNodeCmd = "none"
                      /\ ~query.clean
  /\ step # "none" =>
       /\ gGettingStatusNodeID \in
            {NoNode, IF query.ask = "endpoints" THEN NoNode ELSE query.node}
       /\ gNodeCmd = IF query.ask \in Kept THEN query.ask ELSE "none"
  /\ result # "none" => step = "end"
  /\ answered => step \in {"wait", "sleep", "end"}
  /\ handler = "verdict" => frame.what \in Verdicts
  /\ handler \in {"test", "take"} => frame.what \in Kept \cup {"association"}

\* A frame since a request began clean is the request's own or news.
OwnFrame(f) ==
  IF f.to = queries
  THEN f.node = query.node /\ f.what \in Verdicts \cup {query.ask}
  ELSE f.what \in Kept

FramesInv ==
  /\ queries > 0
  /\ \A f \in air : OwnFrame(f)
  /\ handler # "none" => OwnFrame(frame)

\* The callback comes once, so it does not disturb the wait for the report.
NoVerdict == handler # "verdict" /\ \A f \in air : f.what \notin Verdicts
VerdictInv ==
  /\ \A f, g \in air : f.what \in Verdicts /\ g.what \in Verdicts => f = g
  /\ handler = "verdict" => \A f \in air : f.what \notin Verdicts
  /\ step \in {"send", "wait"} => NoVerdict
  /\ step = "sending" /\ exe_status = "SUCCESSFUL" => NoVerdict
  /\ step = "wait" => exe_status = "IDLE"

\* What the handling thread is at, it has stored.
HandledInv ==
  /\ handler \in {"test", "take"} /\ frame.what \in Kept =>
       nodes[frame.node] = [node |-> frame.node, kind |-> frame.what]
  /\ handler = "take" =>
       query.ask \in Kept /\ frame.node = query.node /\ frame.what = query.ask

\* What the status the caller polls says of what is stored.
PolledInv ==
  /\ gGettingNodeStatus # "IDLE"
  /\ gGettingNodeStatus = "GET_NODE_STATUS" /\ query.ask # "endpoints" =>
       gGettingStatusNodeID = query.node
  /\ gGettingNodeStatus = "RECEIVED" =>
       /\ query.ask \in Kept
       /\ nodes[query.node].node = query.node
       /\ nodes[query.node].kind = query.ask \/ overtaken
  /\ gGettingNodeStatus = "ENDPOINTS_RECEIVED" =>
       /\ query.ask = "endpoints"
       /\ gRequestBuffer = [node |-> query.node, kind |-> "endpoints"]

AnsweredInv ==
  answered /\ query.ask # "association" =>
    gGettingNodeStatus = Expected /\ step # "sleep" /\ result # "timeout"

CleanInv ==
  query.clean =>
    FramesInv /\ VerdictInv /\ HandledInv /\ PolledInv /\ AnsweredInv


-----------------------------------------------------------------------------
LEMMA SomeNodeIsOne == SomeNode \in Nodes
<1> QED
  BY NodesAssumption DEF SomeNode

\* Nothing written down, nothing stored: the values of the first state.
LEMMA NoneTypes == NoQuery \in Query /\ NoFrame \in Frame /\ ~NoQuery.clean
<1> QED
  BY SomeNodeIsOne, StatusBoundsAssumption
  DEF NoQuery, Query, NoFrame, Frame, Asking, Verdicts

\* What Over leaves behind.
LEMMA OverTypes ==
  ASSUME Over
  PROVE  /\ query' \in Query /\ ~query'.clean
         /\ nodes' \in [Nodes -> Value \cup {Old}] /\ gRequestBuffer' \in Value \cup {Old}
         /\ overtaken' \in BOOLEAN /\ answered' \in BOOLEAN
<1> QED
  BY NoneTypes DEF Over

LEMMA AskerTypes == ASSUME ZwStatusTypeOK, Asker PROVE ZwStatusTypeOK'
<1> USE DEF ZwStatusTypeOK
<1>1. ASSUME NEW n \in Nodes, NEW ask \in Asking, AskNode(n, ask) PROVE ZwStatusTypeOK'
  <2>1. query' \in Query /\ queries' \in 0 .. MaxQueries
    BY <1>1, StatusBoundsAssumption DEF AskNode, Query
  <2>2. gGettingStatusNodeID' \in Nodes \cup {NoNode} /\ gNodeCmd' \in Kept \cup {"none"}
    BY <1>1 DEF AskNode
  <2> QED
    BY <1>1, <2>1, <2>2 DEF AskNode, storeVars, handlerVars, radioVars, pastVars
<1>2. CASE Transmit
  <2>1. PICK verdicts \in {{}} \cup {{v} : v \in Verdicts}, told \in SUBSET {query.ask} :
          air' = air \cup [what : verdicts \cup told, node : {query.node}, to : {queries}]
    BY <1>2 DEF Transmit
  <2>2. verdicts \cup told \subseteq Asking \cup Verdicts
    BY DEF Query
  <2>3. query.node \in Nodes
    BY DEF Query
  <2>4. air' \subseteq Frame
    BY <2>1, <2>2, <2>3 DEF Frame
  <2> QED
    BY <1>2, <2>4 DEF Transmit, queryVars, askVars, storeVars, handlerVars, pastVars
<1>3. CASE SendDataOk
  BY <1>3 DEF SendDataOk, queryVars, askVars, storeVars, handlerVars, radioVars, pastVars
<1>4. CASE SendDataFails
  <2>1. CASE query.ask = "endpoints"
    BY <1>4, <2>1, OverTypes DEF SendDataFails, askVars, handlerVars, radioVars
  <2>2. CASE query.ask # "endpoints"
    BY <1>4, <2>2 DEF SendDataFails, askVars, storeVars, handlerVars, radioVars, pastVars
  <2> QED
    BY <2>1, <2>2
<1>5. CASE ReadStatus
  <2>1. query.node \in Nodes
    BY DEF Query
  <2>2. value' \in Value \cup {Old}
    BY <1>5, <2>1 DEF ReadStatus
  <2> QED
    BY <1>5, <2>2 DEF ReadStatus, askVars, storeVars, handlerVars, radioVars, pastVars
<1>6. CASE LastSleep \/ NoStatus
  BY <1>6 DEF LastSleep, NoStatus, queryVars, askVars, storeVars, handlerVars, radioVars, pastVars
<1>7. CASE ReturnStatus
  BY <1>7, OverTypes DEF ReturnStatus, handlerVars, radioVars
<1> QED
  BY <1>1, <1>2, <1>3, <1>4, <1>5, <1>6, <1>7 DEF Asker

\* What the handling thread stores is a value.
LEMMA ReceivedType ==
  ASSUME NEW f \in Frame, f.what \in Asking PROVE Received(f) \in Value \cup {Old}
<1> QED
  BY DEF Received, Frame, Value

LEMMA HandlerTypes ==
  ASSUME ZwStatusTypeOK,
         ReportHandler \/ \E n \in Nodes, kind \in Kept : NodeReports(n, kind)
  PROVE  ZwStatusTypeOK'
<1> USE DEF ZwStatusTypeOK
<1>1. ASSUME NEW n \in Nodes, NEW kind \in Kept, NodeReports(n, kind) PROVE ZwStatusTypeOK'
  <2>1. [what |-> kind, node |-> n, to |-> 0] \in Frame
    BY StatusBoundsAssumption DEF Frame, Kept, Asking
  <2>2. news' \in 0 .. MaxNews
    BY <1>1, StatusBoundsAssumption DEF NodeReports
  <2> QED
    BY <1>1, <2>1, <2>2
    DEF NodeReports, queryVars, askVars, storeVars, handlerVars, pastVars
<1>2. ASSUME NEW f \in air, SendDataComplete(f) PROVE ZwStatusTypeOK'
  BY <1>2 DEF SendDataComplete, Takes, ThenAt, queryVars, askVars, storeVars, pastVars
<1>3. ASSUME NEW f \in air, StoreReport(f) PROVE ZwStatusTypeOK'
  <2>1. f \in Frame /\ f.what \in Asking /\ f.node \in Nodes
    BY <1>3 DEF StoreReport, Takes, Kept, Asking, Frame
  <2>2. /\ air' \subseteq Frame /\ UNCHANGED <<step, queryVars, news, askVars, exe_status, gRequestBuffer>>
    BY <1>3 DEF StoreReport, Takes
  <2>3. CASE Handled /\ Hears(f) /\ UNCHANGED <<nodes, overtaken>>
    BY <2>2, <2>3, NoneTypes DEF Handled, Hears, queryVars, askVars
  <2>4. CASE /\ ThenAt("test", f) /\ UNCHANGED answered
             /\ nodes' = IF f.what \in Kept THEN [nodes EXCEPT ![f.node] = Received(f)] ELSE nodes
             /\ overtaken' = (overtaken \/ (gGettingNodeStatus = "RECEIVED" /\ f.what # query.ask))
    <3>1. Received(f) \in Value \cup {Old}
      BY <2>1, ReceivedType
    <3>2. nodes' \in [Nodes -> Value \cup {Old}]
      BY <2>1, <2>4, <3>1
    <3> QED
      BY <2>1, <2>2, <2>4, <3>2 DEF ThenAt, queryVars, askVars
  <2> QED
    BY <1>3, <2>3, <2>4 DEF StoreReport
<1>4. ASSUME NEW f \in air, StoreEndpoints(f) PROVE ZwStatusTypeOK'
  <2>1. Received(f) \in Value \cup {Old}
    BY <1>4, ReceivedType DEF StoreEndpoints, Takes, Asking
  <2> QED
    BY <1>4, <2>1, NoneTypes DEF StoreEndpoints, Takes, Handled, Hears, queryVars
<1>5. CASE Verdict
  BY <1>5, NoneTypes DEF Verdict, GoesOn, Handled, queryVars, radioVars, askVars, storeVars, pastVars
<1>6. CASE TestReport
  <2>1. /\ UNCHANGED <<step, queryVars, radioVars, askVars, exe_status, storeVars, overtaken>>
        /\ \/ ThenAt("take", frame) /\ UNCHANGED answered
           \/ Handled /\ Hears(frame)
    BY <1>6 DEF TestReport, GoesOn
  <2>2. answered' \in BOOLEAN
    BY <2>1 DEF Hears
  <2>3. handler' \in {"take", "none"} /\ frame' \in Frame
    BY <2>1, NoneTypes DEF ThenAt, Handled
  <2> QED
    BY <2>1, <2>2, <2>3 DEF queryVars, radioVars, askVars, storeVars
<1>7. CASE TakeReport
  BY <1>7, NoneTypes DEF TakeReport, GoesOn, Handled, Hears, queryVars, radioVars, storeVars
<1> QED
  BY <1>1, <1>2, <1>3, <1>4, <1>5, <1>6, <1>7 DEF ReportHandler

-----------------------------------------------------------------------------
LEMMA AskKept ==
  ASSUME ZwStatusTypeOK, AskInv, ZwStatusNext
  PROVE  AskInv'
<1> USE DEF AskInv
<1>1. ASSUME NEW n \in Nodes, NEW ask \in Asking, AskNode(n, ask) PROVE AskInv'
  <2>1. /\ step = "none" /\ step' = "send"
        /\ query'.node = n /\ query'.ask = ask
        /\ gGettingStatusNodeID' = IF ask = "endpoints" THEN NoNode ELSE n
        /\ gNodeCmd' = IF ask \in Kept THEN ask ELSE "none"
        /\ UNCHANGED <<result, handler, frame, answered>>
    BY <1>1 DEF AskNode, handlerVars, pastVars
  <2> QED
    BY <2>1
<1>2. CASE Transmit \/ SendDataOk \/ LastSleep \/ NoStatus \/ ReadStatus
  <2>1. /\ step # "none" /\ step' # "none" /\ (result' # "none" => step' = "end" \/ result' = result)
        /\ UNCHANGED <<query, gGettingStatusNodeID, gNodeCmd, handler, frame, answered>>
    BY <1>2 DEF Transmit, SendDataOk, LastSleep, NoStatus, ReadStatus, queryVars, askVars,
       handlerVars, pastVars
  <2>2. /\ step # "end"
        /\ step \in {"wait", "sleep"} => step' \in {"wait", "sleep", "end"}
    BY <1>2 DEF Transmit, SendDataOk, LastSleep, NoStatus, ReadStatus
  <2> QED
    BY <2>1, <2>2
<1>3. CASE SendDataFails \/ ReturnStatus
  <2>1. CASE step' = "none"
    <3>1. Over /\ result' = "none" /\ gGettingStatusNodeID' = NoNode /\ gNodeCmd' = "none"
          /\ UNCHANGED <<handler, frame>> /\ ~answered'
      BY <1>3, <2>1 DEF SendDataFails, ReturnStatus, handlerVars, askVars, Kept, Over
    <3> QED
      BY <2>1, <3>1, OverTypes
  <2>2. CASE step' # "none"
    BY <1>3, <2>2 DEF SendDataFails, ReturnStatus, handlerVars, askVars, pastVars
  <2> QED
    BY <2>1, <2>2
<1>4. ASSUME ReportHandler \/ \E n \in Nodes, kind \in Kept : NodeReports(n, kind)
      PROVE  AskInv'
  <2>1. /\ UNCHANGED <<step, query, result, gNodeCmd>>
        /\ gGettingStatusNodeID' \in {gGettingStatusNodeID, NoNode}
    BY <1>4 DEF ReportHandler, NodeReports, SendDataComplete, StoreReport, StoreEndpoints,
       Verdict, TestReport, TakeReport, Takes, GoesOn, queryVars, askVars
  <2>2. answered' => answered \/ step = "wait"
    BY <1>4 DEF ReportHandler, NodeReports, SendDataComplete, StoreReport, StoreEndpoints,
       Verdict, TestReport, TakeReport, Hears, pastVars
  <2>3. /\ handler' = "verdict" => frame'.what \in Verdicts
        /\ handler' \in {"test", "take"} => frame'.what \in Kept \cup {"association"}
    BY <1>4 DEF ReportHandler, NodeReports, SendDataComplete, StoreReport, StoreEndpoints,
       Verdict, TestReport, TakeReport, Takes, GoesOn, ThenAt, Handled, handlerVars
  <2> QED
    BY <2>1, <2>2, <2>3
<1> QED
  BY <1>1, <1>2, <1>3, <1>4 DEF ZwStatusNext, Asker

-----------------------------------------------------------------------------
\* The steps of the caller, while its request is clean.  A request that
\* begins, or is over, has nothing to show.
LEMMA OverClean == ASSUME Over PROVE CleanInv' /\ ~query'.clean
<1> QED
  BY OverTypes DEF CleanInv

LEMMA AskNodeClean ==
  ASSUME ZwStatusTypeOK, AskInv, CleanInv, StatusIsOwn,
         NEW n \in Nodes, NEW ask \in Asking, AskNode(n, ask)
  PROVE  CleanInv' /\ StatusIsOwn'
<1>1. /\ step = "none" /\ result' = "none" /\ step' = "send"
      /\ query' = [node |-> n, ask |-> ask, clean |-> air = {} /\ handler = "none"]
      /\ queries' = queries + 1 /\ queries \in Nat
      /\ UNCHANGED <<air, handler, frame, exe_status, nodes, gRequestBuffer, overtaken, answered>>
      /\ gGettingNodeStatus' = "GET_NODE_STATUS"
      /\ gGettingStatusNodeID' = IF ask = "endpoints" THEN gGettingStatusNodeID ELSE n
  BY StatusBoundsAssumption
  DEF AskNode, AskInv, ZwStatusTypeOK, handlerVars, radioVars, storeVars, pastVars
<1>2. SUFFICES ASSUME query'.clean PROVE CleanInv'
  BY <1>1 DEF CleanInv, StatusIsOwn
<1>3. air = {} /\ handler = "none"
  BY <1>1, <1>2
<1>4. FramesInv' /\ VerdictInv' /\ HandledInv'
  BY <1>1, <1>3 DEF FramesInv, VerdictInv, NoVerdict, HandledInv
<1>5. PolledInv'
  BY <1>1 DEF PolledInv
<1>6. ~answered
  BY <1>1 DEF AskInv
<1> QED
  BY <1>1, <1>4, <1>5, <1>6 DEF CleanInv, AnsweredInv

LEMMA TransmitClean ==
  ASSUME ZwStatusTypeOK, AskInv, CleanInv, StatusIsOwn, Transmit
  PROVE  CleanInv' /\ StatusIsOwn'
<1>1. /\ step = "send" /\ step' = "sending" /\ exe_status' = "IDLE"
      /\ UNCHANGED <<query, queries, value, result, gGettingNodeStatus, gGettingStatusNodeID,
                     nodes, gRequestBuffer, handler, frame, overtaken, answered>>
  BY DEF Transmit, queryVars, askVars, storeVars, handlerVars, pastVars
<1>2. PICK verdicts \in {{}} \cup {{v} : v \in Verdicts}, told \in SUBSET {query.ask} :
        air' = air \cup [what : verdicts \cup told, node : {query.node}, to : {queries}]
  BY DEF Transmit
<1>3. SUFFICES ASSUME query.clean PROVE CleanInv'
  BY <1>1 DEF CleanInv, StatusIsOwn
<1>4. FramesInv /\ VerdictInv /\ NoVerdict /\ HandledInv /\ PolledInv /\ AnsweredInv
  BY <1>1, <1>3 DEF CleanInv, VerdictInv
<1>5. \A f \in air' : f \in air \/ (/\ f.to = queries /\ f.node = query.node
                                    /\ f.what \in verdicts \cup told)
  BY <1>2
<1>6. FramesInv'
  BY <1>1, <1>4, <1>5 DEF FramesInv, OwnFrame
<1>7. VerdictInv'
  <2>1. \A f \in air' : f.what \in Verdicts =>
          /\ f \in [what : verdicts \cup told, node : {query.node}, to : {queries}]
          /\ f.what \in verdicts
    BY <1>2, <1>4 DEF NoVerdict, ZwStatusTypeOK, Query, Asking, Verdicts
  <2>2. ASSUME NEW f \in air', NEW g \in air', f.what \in Verdicts, g.what \in Verdicts
        PROVE  f = g
    <3>1. f.what = g.what
      BY <2>1, <2>2
    <3>2. PICK w \in verdicts \cup told :
            f = [what |-> w, node |-> query.node, to |-> queries]
      BY <2>1, <2>2
    <3>3. PICK v \in verdicts \cup told :
            g = [what |-> v, node |-> query.node, to |-> queries]
      BY <2>1, <2>2
    <3> QED
      BY <3>1, <3>2, <3>3
  <2> QED
    BY <1>1, <1>4, <2>2 DEF VerdictInv, NoVerdict
<1>8. HandledInv' /\ PolledInv'
  BY <1>1, <1>4 DEF HandledInv, PolledInv
<1>9. AnsweredInv'
  BY <1>1, <1>4 DEF AnsweredInv, Expected
<1> QED
  BY <1>6, <1>7, <1>8, <1>9 DEF CleanInv

\* The caller goes on, or reads the answer.
LEMMA WaitClean ==
  ASSUME ZwStatusTypeOK, AskInv, CleanInv, StatusIsOwn,
         SendDataOk \/ ReadStatus \/ LastSleep \/ NoStatus
  PROVE  CleanInv' /\ StatusIsOwn'
<1>1. /\ step' \in {"wait", "sleep", "end"} /\ step # "end" /\ result = "none"
      /\ UNCHANGED <<query, queries, gGettingNodeStatus, gGettingStatusNodeID,
                     nodes, gRequestBuffer, handler, frame, air, overtaken, answered>>
  BY DEF SendDataOk, ReadStatus, LastSleep, NoStatus, queryVars, askVars, storeVars,
         handlerVars, radioVars, pastVars, AskInv
<1>2. SUFFICES ASSUME query.clean PROVE CleanInv' /\ StatusIsOwn'
  BY <1>1 DEF CleanInv, StatusIsOwn
<1>3. FramesInv /\ VerdictInv /\ HandledInv /\ PolledInv /\ AnsweredInv
  BY <1>2 DEF CleanInv
<1>4. FramesInv'
  BY <1>1, <1>3 DEF FramesInv, OwnFrame
<1>5. VerdictInv'
  <2>1. step' = "wait" => NoVerdict /\ exe_status' = "IDLE"
    BY <1>3 DEF SendDataOk, ReadStatus, LastSleep, NoStatus, VerdictInv
  <2> QED
    BY <1>1, <1>3, <2>1 DEF VerdictInv, NoVerdict
<1>6. HandledInv'
  BY <1>1, <1>3 DEF HandledInv
<1>7. PolledInv'
  BY <1>1, <1>3 DEF PolledInv
<1>8. AnsweredInv'
  BY <1>1, <1>3 DEF AnsweredInv, Expected, SendDataOk, ReadStatus, LastSleep, NoStatus, queryVars
<1>9. StatusIsOwn'
  <2>1. CASE ReadStatus
    BY <1>1, <1>3, <2>1 DEF ReadStatus, PolledInv, StatusIsOwn, Expected
  <2>2. CASE ~ReadStatus
    BY <1>1, <2>2 DEF SendDataOk, LastSleep, NoStatus, queryVars, StatusIsOwn
  <2> QED
    BY <2>1, <2>2
<1> QED
  BY <1>2, <1>4, <1>5, <1>6, <1>7, <1>8, <1>9 DEF CleanInv

LEMMA EndClean ==
  ASSUME ZwStatusTypeOK, AskInv, CleanInv, StatusIsOwn, SendDataFails \/ ReturnStatus
  PROVE  CleanInv' /\ StatusIsOwn'
<1>1. CASE Over
  BY <1>1, OverClean DEF StatusIsOwn
<1>2. CASE ~Over
  <2>1. /\ step' = "end" /\ result' = "failed" /\ step = "sending"
        /\ UNCHANGED <<query, queries, gGettingNodeStatus, gGettingStatusNodeID,
                       nodes, gRequestBuffer, handler, frame, air, overtaken, answered>>
    BY <1>2 DEF SendDataFails, ReturnStatus, askVars, storeVars, handlerVars, radioVars, pastVars
  <2>2. SUFFICES ASSUME query.clean PROVE CleanInv'
    BY <2>1 DEF CleanInv, StatusIsOwn
  <2>3. FramesInv /\ VerdictInv /\ HandledInv /\ PolledInv /\ AnsweredInv
    BY <2>2 DEF CleanInv
  <2>4. FramesInv'
    BY <2>1, <2>3 DEF FramesInv, OwnFrame
  <2>5. VerdictInv'
    BY <2>1, <2>3 DEF VerdictInv
  <2>6. HandledInv' /\ PolledInv'
    BY <2>1, <2>3 DEF HandledInv, PolledInv
  <2>7. AnsweredInv'
    BY <2>1, <2>3 DEF AnsweredInv, Expected
  <2> QED
    BY <2>4, <2>5, <2>6, <2>7 DEF CleanInv
<1> QED
  BY <1>1, <1>2

-----------------------------------------------------------------------------
\* The steps of the handling thread and of the nodes, while a request is clean:
\* they leave it as it is.
LEMMA HandlerLeaves ==
  ASSUME ReportHandler \/ \E n \in Nodes, kind \in Kept : NodeReports(n, kind)
  PROVE  UNCHANGED <<step, query, queries, value, result>>
<1> QED
  BY DEF ReportHandler, NodeReports, SendDataComplete, StoreReport, StoreEndpoints, Verdict,
         TestReport, TakeReport, Takes, GoesOn, queryVars

\* The request's answer is told by its command, and by its node.
LEMMA AskedIsAnswer ==
  ASSUME ZwStatusTypeOK, AskInv, NEW f \in Frame, Asked(f)
  PROVE  query.ask \in Kept /\ f.node = query.node /\ f.what = query.ask /\ step # "none"
<1>1. f.what # "none" /\ f.node \in Nodes
  BY DEF Frame, Asking, Verdicts
<1>2. gGettingStatusNodeID = f.node /\ gNodeCmd = f.what
  BY DEF Asked
<1> QED
  BY <1>1, <1>2, NodesAssumption DEF AskInv, Kept

\* The other way round: while the caller waits, its answer is recognised or
\* has been already.
LEMMA AnswerIsAsked ==
  ASSUME ZwStatusTypeOK, AskInv, query.clean, FramesInv, VerdictInv, PolledInv, step = "wait",
         query.ask \in Kept, NEW f \in Frame, OwnFrame(f), f.to = queries, f.what \notin Verdicts
  PROVE  Asked(f) \/ gGettingNodeStatus = "RECEIVED"
<1>1. f.node = query.node /\ f.what = query.ask
  BY DEF OwnFrame
<1>2. gGettingNodeStatus \in {"GET_NODE_STATUS", "RECEIVED"} /\ exe_status = "IDLE"
  BY DEF PolledInv, VerdictInv, ZwStatusTypeOK, Kept
<1>3. gNodeCmd = query.ask /\ query.ask # "endpoints"
  BY DEF AskInv, Kept
<1> QED
  BY <1>1, <1>2, <1>3 DEF PolledInv, Asked

LEMMA NodeReportsClean ==
  ASSUME ZwStatusTypeOK, AskInv, CleanInv, NEW n \in Nodes, NEW kind \in Kept, NodeReports(n, kind)
  PROVE  CleanInv'
<1>1. UNCHANGED <<step, query, queries, value, result, gGettingNodeStatus, gGettingStatusNodeID,
                  exe_status, nodes, gRequestBuffer, handler, frame, overtaken, answered>>
  BY DEF NodeReports, queryVars, askVars, storeVars, handlerVars, pastVars
<1>2. SUFFICES ASSUME query.clean PROVE CleanInv'
  BY <1>1 DEF CleanInv
<1>3. FramesInv /\ VerdictInv /\ HandledInv /\ PolledInv /\ AnsweredInv
  BY <1>2 DEF CleanInv
<1>4. ASSUME NEW f \in air', f \notin air
      PROVE  f.to = 0 /\ f.what \in Kept /\ f.what \notin Verdicts
  BY <1>4 DEF NodeReports, Kept, Verdicts
<1>5. FramesInv'
  BY <1>1, <1>3, <1>4 DEF FramesInv, OwnFrame
<1>6. VerdictInv'
  BY <1>1, <1>3, <1>4 DEF VerdictInv, NoVerdict
<1>7. HandledInv' /\ PolledInv' /\ AnsweredInv'
  BY <1>1, <1>3 DEF HandledInv, PolledInv, AnsweredInv, Expected
<1> QED
  BY <1>5, <1>6, <1>7 DEF CleanInv

\* A frame the handling thread takes is one of the request's own or news, and
\* leaves the others in the air.
LEMMA TakesFrames ==
  ASSUME ZwStatusTypeOK, FramesInv, VerdictInv, NEW f \in air,
         air' = air \ {f}, UNCHANGED <<query, queries>>,
         handler' = "none" \/ frame' = f
  PROVE  FramesInv' /\ OwnFrame(f) /\ f \in Frame
<1> QED
  BY DEF FramesInv, OwnFrame, ZwStatusTypeOK

LEMMA VerdictClean ==
  ASSUME ZwStatusTypeOK, AskInv, CleanInv,
         Verdict \/ \E f \in air : SendDataComplete(f)
  PROVE  CleanInv'
<1>1. UNCHANGED <<step, query, queries, value, result, gGettingNodeStatus, gGettingStatusNodeID,
                  nodes, gRequestBuffer, overtaken, answered>>
  BY DEF Verdict, SendDataComplete, Takes, GoesOn, queryVars, askVars, storeVars, pastVars
<1>2. SUFFICES ASSUME query.clean PROVE CleanInv'
  BY <1>1 DEF CleanInv
<1>3. FramesInv /\ VerdictInv /\ HandledInv /\ PolledInv /\ AnsweredInv
  BY <1>2 DEF CleanInv
<1>4. FramesInv'
  <2>1. CASE Verdict
    BY <1>1, <1>3, <2>1 DEF Verdict, GoesOn, Handled, radioVars, FramesInv, OwnFrame
  <2>2. ASSUME NEW f \in air, SendDataComplete(f) PROVE FramesInv'
    BY <1>1, <1>3, <2>2, TakesFrames DEF SendDataComplete, Takes, ThenAt
  <2> QED
    BY <2>1, <2>2
<1>5. VerdictInv'
  <2>1. CASE Verdict
    BY <1>1, <1>3, <2>1 DEF Verdict, GoesOn, Handled, radioVars, VerdictInv, NoVerdict
  <2>2. ASSUME NEW f \in air, SendDataComplete(f) PROVE VerdictInv'
    <3>1. /\ f.what \in Verdicts /\ air' = air \ {f} /\ handler' = "verdict"
          /\ exe_status' = "FAIL"
      BY <2>2 DEF SendDataComplete, Takes, ThenAt
    <3>2. step \notin {"send", "wait"}
      BY <1>3, <3>1 DEF VerdictInv, NoVerdict
    <3> QED
      BY <1>1, <1>3, <3>1, <3>2 DEF VerdictInv
  <2> QED
    BY <2>1, <2>2
<1>6. HandledInv'
  <2>1. handler' \notin {"test", "take"}
    BY DEF Verdict, SendDataComplete, ThenAt, Handled
  <2> QED
    BY <2>1 DEF HandledInv
<1>7. PolledInv' /\ AnsweredInv'
  BY <1>1, <1>3 DEF PolledInv, AnsweredInv, Expected
<1> QED
  BY <1>4, <1>5, <1>6, <1>7 DEF CleanInv

\* No verdict is made or unmade by the handling of a report.
LEMMA ReportVerdicts ==
  ASSUME VerdictInv, UNCHANGED <<step, exe_status>>, air' \subseteq air, handler' # "verdict"
  PROVE  VerdictInv'
<1> QED
  BY DEF VerdictInv, NoVerdict

LEMMA StoreReportClean ==
  ASSUME ZwStatusTypeOK, AskInv, CleanInv, NEW f \in air, StoreReport(f)
  PROVE  CleanInv'
<1>1. /\ UNCHANGED <<step, query, queries, value, result, gGettingNodeStatus,
                     gGettingStatusNodeID, exe_status, gRequestBuffer>>
      /\ air' = air \ {f} /\ f.what \in Kept \cup {"association"}
      /\ handler' = "none" \/ (handler' = "test" /\ frame' = f)
  BY DEF StoreReport, Takes, ThenAt, Handled, queryVars, askVars
<1>2. SUFFICES ASSUME query.clean PROVE CleanInv'
  BY <1>1 DEF CleanInv
<1>3. FramesInv /\ VerdictInv /\ HandledInv /\ PolledInv /\ AnsweredInv
  BY <1>2 DEF CleanInv
<1>4. FramesInv' /\ OwnFrame(f) /\ f \in Frame
  BY <1>1, <1>3, TakesFrames
<1>5. VerdictInv'
  BY <1>1, <1>3, ReportVerdicts
<1>6. step # "none" /\ f.node \in Nodes /\ query.node \in Nodes
  BY <1>2, <1>4 DEF AskInv, Frame, ZwStatusTypeOK, Query
<1>7. CASE Handled /\ Hears(f) /\ UNCHANGED <<nodes, overtaken>> /\ f.what = "battery" /\ ~Asked(f)
  <2>1. HandledInv' /\ PolledInv'
    BY <1>1, <1>3, <1>7 DEF HandledInv, PolledInv, Handled
  <2>2. AnsweredInv'
    <3>1. CASE f.to = queries /\ step = "wait"
      <4>1. query.ask = "battery" /\ f.what \notin Verdicts
        BY <1>4, <1>7, <3>1 DEF OwnFrame, Verdicts
      <4>2. gGettingNodeStatus = "RECEIVED"
        BY <1>2, <1>3, <1>4, <1>7, <3>1, <4>1, AnswerIsAsked DEF Kept
      <4>3. result = "none"
        BY <3>1 DEF AskInv, ZwStatusTypeOK
      <4> QED
        BY <1>1, <3>1, <4>1, <4>2, <4>3 DEF AnsweredInv, Expected
    <3>2. CASE ~(f.to = queries /\ step = "wait")
      BY <1>1, <1>3, <1>7, <3>2 DEF AnsweredInv, Expected, Hears
    <3> QED
      BY <3>1, <3>2
  <2> QED
    BY <1>4, <1>5, <2>1, <2>2 DEF CleanInv
<1>8. CASE /\ ThenAt("test", f) /\ UNCHANGED answered
           /\ nodes' = IF f.what \in Kept THEN [nodes EXCEPT ![f.node] = Received(f)] ELSE nodes
           /\ overtaken' = (overtaken \/ (gGettingNodeStatus = "RECEIVED" /\ f.what # query.ask))
  <2>1. Received(f) = [node |-> f.node, kind |-> f.what]
    BY <1>6 DEF Received
  <2>2. \/ nodes'[query.node] = nodes[query.node]
        \/ nodes'[query.node] = [node |-> query.node, kind |-> f.what]
    BY <1>6, <1>8, <2>1 DEF ZwStatusTypeOK
  <2>3. HandledInv'
    BY <1>6, <1>8, <2>1 DEF HandledInv, ThenAt, ZwStatusTypeOK
  <2>4. PolledInv'
    <3>1. overtaken => overtaken'
      BY <1>8
    <3>2. gGettingNodeStatus = "RECEIVED" /\ f.what # query.ask => overtaken'
      BY <1>8
    <3>3. ASSUME gGettingNodeStatus = "RECEIVED"
          PROVE  /\ nodes'[query.node].node = query.node
                 /\ nodes'[query.node].kind = query.ask \/ overtaken'
      BY <1>3, <2>2, <3>1, <3>2, <3>3 DEF PolledInv
    <3> QED
      BY <1>1, <1>3, <3>3 DEF PolledInv
  <2>5. AnsweredInv'
    BY <1>1, <1>3, <1>8 DEF AnsweredInv, Expected
  <2> QED
    BY <1>4, <1>5, <2>3, <2>4, <2>5 DEF CleanInv
<1> QED
  BY <1>7, <1>8 DEF StoreReport

LEMMA TestReportClean ==
  ASSUME ZwStatusTypeOK, AskInv, CleanInv, TestReport
  PROVE  CleanInv'
<1>1. /\ UNCHANGED <<step, query, queries, value, result, air, gGettingNodeStatus,
                     gGettingStatusNodeID, exe_status, nodes, gRequestBuffer, overtaken>>
      /\ handler = "test" /\ frame \in Frame
  BY DEF TestReport, GoesOn, queryVars, radioVars, askVars, storeVars, ZwStatusTypeOK
<1>2. SUFFICES ASSUME query.clean PROVE CleanInv'
  BY <1>1 DEF CleanInv
<1>3. FramesInv /\ VerdictInv /\ HandledInv /\ PolledInv /\ AnsweredInv
  BY <1>2 DEF CleanInv
<1>4. handler' = "none" \/ (handler' = "take" /\ frame' = frame /\ Asked(frame) /\ UNCHANGED answered)
  BY DEF TestReport, ThenAt, Handled
<1>5. FramesInv' /\ VerdictInv' /\ PolledInv'
  <2>1. FramesInv'
    BY <1>1, <1>3, <1>4 DEF FramesInv, OwnFrame
  <2>2. VerdictInv'
    BY <1>1, <1>3, <1>4, ReportVerdicts
  <2> QED
    BY <1>1, <1>3, <2>1, <2>2 DEF PolledInv
<1>6. HandledInv'
  <2>1. Asked(frame) => query.ask \in Kept /\ frame.node = query.node /\ frame.what = query.ask
    BY <1>1, AskedIsAnswer
  <2> QED
    BY <1>1, <1>3, <1>4, <2>1 DEF HandledInv
<1>7. AnsweredInv'
  <2>1. CASE UNCHANGED answered
    BY <1>1, <1>3, <2>1 DEF AnsweredInv, Expected
  <2>2. CASE ~Asked(frame) /\ Hears(frame) /\ frame.to = queries /\ step = "wait"
                           /\ query.ask # "association"
    <3>1. frame.what \in Kept \cup {"association"} /\ OwnFrame(frame)
      BY <1>1, <1>3 DEF AskInv, FramesInv
    <3>2. frame.what = query.ask /\ query.ask \in Kept /\ frame.what \notin Verdicts
      BY <2>2, <3>1 DEF OwnFrame, Verdicts, Kept
    <3>3. gGettingNodeStatus = "RECEIVED"
      BY <1>1, <1>2, <1>3, <2>2, <3>1, <3>2, AnswerIsAsked
    <3>4. result = "none"
      BY <2>2 DEF AskInv, ZwStatusTypeOK
    <3> QED
      BY <1>1, <2>2, <3>2, <3>3, <3>4 DEF AnsweredInv, Expected, Kept
  <2>3. CASE Hears(frame) /\ ~(frame.to = queries /\ step = "wait")
    BY <1>1, <1>3, <2>3 DEF AnsweredInv, Expected, Hears
  <2>4. CASE query.ask = "association"
    BY <1>1, <2>4 DEF AnsweredInv
  <2> QED
    BY <2>1, <2>2, <2>3, <2>4 DEF TestReport
<1> QED
  BY <1>5, <1>6, <1>7 DEF CleanInv

\* The frame that is taken is the answer, and it is still stored.
LEMMA TakeReportClean ==
  ASSUME ZwStatusTypeOK, AskInv, CleanInv, TakeReport
  PROVE  CleanInv'
<1>1. /\ UNCHANGED <<step, query, queries, value, result, air, exe_status, nodes,
                     gRequestBuffer, overtaken>>
      /\ handler = "take" /\ handler' = "none" /\ gGettingNodeStatus' = "RECEIVED" /\ Hears(frame)
  BY DEF TakeReport, GoesOn, Handled, queryVars, radioVars, storeVars
<1>2. SUFFICES ASSUME query.clean PROVE CleanInv'
  BY <1>1 DEF CleanInv
<1>3. FramesInv /\ VerdictInv /\ HandledInv /\ PolledInv /\ AnsweredInv
  BY <1>2 DEF CleanInv
<1>4. FramesInv' /\ VerdictInv'
  BY <1>1, <1>3, ReportVerdicts DEF FramesInv, OwnFrame
<1>5. query.ask \in Kept /\ nodes[query.node] = [node |-> query.node, kind |-> query.ask]
  BY <1>1, <1>3 DEF HandledInv
<1>6. HandledInv' /\ PolledInv'
  BY <1>1, <1>5 DEF HandledInv, PolledInv
<1>7. AnsweredInv'
  <2>1. Expected' = "RECEIVED"
    BY <1>1, <1>5 DEF Expected, Kept
  <2>2. CASE frame.to = queries /\ step = "wait"
    BY <1>1, <2>1, <2>2 DEF AnsweredInv, AskInv
  <2>3. CASE ~(frame.to = queries /\ step = "wait")
    BY <1>1, <1>3, <2>1, <2>3 DEF AnsweredInv, Hears
  <2> QED
    BY <2>2, <2>3
<1> QED
  BY <1>4, <1>6, <1>7 DEF CleanInv

LEMMA StoreEndpointsClean ==
  ASSUME ZwStatusTypeOK, AskInv, CleanInv, NEW f \in air, StoreEndpoints(f)
  PROVE  CleanInv'
<1>1. /\ UNCHANGED <<step, query, queries, value, result, gGettingStatusNodeID, exe_status,
                     nodes, overtaken>>
      /\ air' = air \ {f} /\ f.what = "endpoints" /\ handler' = "none"
      /\ gGettingNodeStatus' = "ENDPOINTS_RECEIVED" /\ gRequestBuffer' = Received(f) /\ Hears(f)
  BY DEF StoreEndpoints, Takes, Handled, queryVars
<1>2. SUFFICES ASSUME query.clean PROVE CleanInv'
  BY <1>1 DEF CleanInv
<1>3. FramesInv /\ VerdictInv /\ HandledInv /\ PolledInv /\ AnsweredInv
  BY <1>2 DEF CleanInv
<1>4. FramesInv' /\ OwnFrame(f)
  BY <1>1, <1>3, TakesFrames
<1>5. VerdictInv'
  BY <1>1, <1>3, ReportVerdicts
<1>6. query.ask = "endpoints" /\ f.node = query.node
  BY <1>1, <1>4 DEF OwnFrame, Verdicts, Kept
<1>7. gRequestBuffer' = [node |-> query.node, kind |-> "endpoints"]
  BY <1>1, <1>2, <1>6 DEF Received, AskInv
<1>8. HandledInv' /\ PolledInv'
  BY <1>1, <1>6, <1>7 DEF HandledInv, PolledInv
<1>9. AnsweredInv'
  <2>1. Expected' = "ENDPOINTS_RECEIVED"
    BY <1>1, <1>6 DEF Expected
  <2>2. CASE f.to = queries /\ step = "wait"
    BY <1>1, <2>1, <2>2 DEF AnsweredInv, AskInv
  <2>3. CASE ~(f.to = queries /\ step = "wait")
    BY <1>1, <1>3, <2>1, <2>3 DEF AnsweredInv, Hears
  <2> QED
    BY <2>2, <2>3
<1> QED
  BY <1>4, <1>5, <1>8, <1>9 DEF CleanInv

-----------------------------------------------------------------------------
StatusInv == ZwStatusTypeOK /\ AskInv /\ CleanInv /\ StatusIsOwn

LEMMA StatusStarts == ZwStatusInit => StatusInv
<1> SUFFICES ASSUME ZwStatusInit PROVE StatusInv
  OBVIOUS
<1>1. ZwStatusTypeOK
  <2>1. queries \in 0 .. MaxQueries /\ news \in 0 .. MaxNews
    BY StatusBoundsAssumption DEF ZwStatusInit
  <2>2. query \in Query /\ frame \in Frame /\ air \subseteq Frame
    BY NoneTypes DEF ZwStatusInit
  <2>3. nodes \in [Nodes -> Value \cup {Old}] /\ gRequestBuffer \in Value \cup {Old}
        /\ value \in Value \cup {Old}
    BY DEF ZwStatusInit
  <2> QED
    BY <2>1, <2>2, <2>3 DEF ZwStatusInit, ZwStatusTypeOK
<1>2. AskInv /\ ~query.clean
  BY NoneTypes DEF ZwStatusInit, AskInv
<1> QED
  BY <1>1, <1>2 DEF StatusInv, CleanInv, StatusIsOwn

LEMMA StatusSteps == StatusInv /\ [ZwStatusNext]_statusVars => StatusInv'
<1> SUFFICES ASSUME StatusInv, [ZwStatusNext]_statusVars PROVE StatusInv'
  OBVIOUS
<1> USE DEF StatusInv
<1>1. CASE ZwStatusNext
  <2>1. ZwStatusTypeOK' /\ AskInv'
    BY <1>1, AskerTypes, HandlerTypes, AskKept DEF ZwStatusNext
  <2>2. ASSUME Asker PROVE CleanInv' /\ StatusIsOwn'
    BY <2>2, AskNodeClean, TransmitClean, WaitClean, EndClean DEF Asker
  <2>3. ASSUME ReportHandler \/ \E n \in Nodes, kind \in Kept : NodeReports(n, kind)
        PROVE  CleanInv' /\ StatusIsOwn'
    <3>1. CleanInv'
      BY <2>3, NodeReportsClean, VerdictClean, StoreReportClean, TestReportClean,
         TakeReportClean, StoreEndpointsClean DEF ReportHandler
    <3>2. UNCHANGED <<step, query, queries, value, result>>
      BY <2>3, HandlerLeaves
    <3>3. overtaken => overtaken'
      BY <2>3 DEF ReportHandler, NodeReports, SendDataComplete, StoreReport, StoreEndpoints,
         Verdict, TestReport, TakeReport, pastVars
    <3> QED
      BY <3>1, <3>2, <3>3 DEF StatusIsOwn
  <2> QED
    BY <1>1, <2>1, <2>2, <2>3 DEF ZwStatusNext
<1>2. CASE UNCHANGED statusVars
  <2>1. UNCHANGED <<step, query, queries, value, result, gGettingNodeStatus,
          gGettingStatusNodeID, gNodeCmd, exe_status, nodes, gRequestBuffer, handler, frame,
          air, news, overtaken, answered>>
    BY <1>2 DEF statusVars, queryVars, askVars, storeVars, radioVars, pastVars, handlerVars
  <2>2. ZwStatusTypeOK' /\ AskInv' /\ StatusIsOwn'
    BY <2>1 DEF ZwStatusTypeOK, AskInv, StatusIsOwn
  <2>3. CleanInv'
    <3>1. FramesInv => FramesInv'
      BY <2>1 DEF FramesInv, OwnFrame
    <3>2. VerdictInv => VerdictInv'
      BY <2>1 DEF VerdictInv, NoVerdict
    <3>3. (HandledInv => HandledInv') /\ (PolledInv => PolledInv') /\ (AnsweredInv => AnsweredInv')
      BY <2>1 DEF HandledInv, PolledInv, AnsweredInv, Expected
    <3> QED
      BY <2>1, <3>1, <3>2, <3>3 DEF CleanInv
  <2> QED
    BY <2>2, <2>3
<1> QED
  BY <1>1, <1>2

\* The globals of the requests to nodes hold what they may hold, in every
\* reachable state.
THEOREM StatusTypes == ZwStatusSpec => []ZwStatusTypeOK
<1>1. StatusInv => ZwStatusTypeOK
  BY DEF StatusInv
<1> QED
  BY <1>1, StatusStarts, StatusSteps, PTL DEF ZwStatusSpec

\* What ZW_Get... returns with OK is what its node reported while it waited:
\* for any number of nodes, requests and reports, in any order of the two
\* threads.
THEOREM ReturnedStatusIsOwn == ZwStatusSpec => []StatusIsOwn
<1>1. StatusInv => StatusIsOwn
  BY DEF StatusInv
<1> QED
  BY <1>1, StatusStarts, StatusSteps, PTL DEF ZwStatusSpec

\* An answer that is handled while the caller waits is taken for the answer,
\* unless the request did not write down what its answer looks like.
THEOREM AnswersAreTaken == ZwStatusSpec => []AnswerIsTaken
<1>1. StatusInv => AnswerIsTaken
  BY DEF StatusInv, CleanInv, AnsweredInv, AnswerIsTaken
<1> QED
  BY <1>1, StatusStarts, StatusSteps, PTL DEF ZwStatusSpec

-----------------------------------------------------------------------------
(* ZwDevices: the devices in memory and on disk                            *)

Has(table, d) == \E p \in Places : table[p].dev = d
SortIs(table, d, sort) == \A p \in Places : table[p].dev = d => table[p].sort = sort

\* The table by itself.
TableTypes(table) == table \in [Places -> Record]
UnusedBare(table) == \A p \in Places : table[p].dev = Absent => ~table[p].watched
DevicesOnce(table) ==
  \A p, q \in Places : table[p].dev = table[q].dev => p = q \/ table[p].dev = Absent
WatchedAlone(table) ==
  \A n \in Radios : \A p, q \in Places :
    p \in WatchedAt(table, n) /\ q \in WatchedAt(table, n) => p = q
TableOK(table) ==
  TableTypes(table) /\ UnusedBare(table) /\ DevicesOnce(table) /\ WatchedAlone(table)

\* The devices of a node are watched.
Well(table, n) ==
  \A p \in Places :
    table[p].dev \in DevicesOf(n) /\ table[p].sort # "never" =>
      \E q \in Places :
        /\ q \in WatchedAt(table, n)
        /\ table[p].sort = "own" => table[q].sort = "own"

InTable(d) == Has(g_mid_device_info, d)
OfSort(d, sort) == SortIs(g_mid_device_info, d, sort)
PlacesInv == TableOK(g_mid_device_info)
WatchedWell(n) == Well(g_mid_device_info, n)

-----------------------------------------------------------------------------
LEMMA LowestIsOne ==
  ASSUME NEW places \in SUBSET Places, places # {}
  PROVE  LowestPlace(places) \in places
<1> DEFINE R == {ss \in Nat \X Nat : ss[1] < ss[2]}
<1>1. places \subseteq Nat
  BY DeviceBoundsAssumption DEF Places
<1>2. IsWellFoundedOn(R, Nat)
  BY NatLessThanWellFounded DEF OpToRel
<1>3. PICK p \in places : \A q \in places : <<q, p>> \notin R
  <2> HIDE DEF R
  <2> QED
    BY <1>1, <1>2, WFMin
<1>4. ASSUME NEW q \in places PROVE p <= q
  <2>1. <<q, p>> \in Nat \X Nat /\ <<q, p>>[1] = q /\ <<q, p>>[2] = p
    BY <1>1
  <2>2. ~ (q < p)
    BY <1>3, <2>1
  <2> QED
    BY <2>1, <2>2, <1>1
<1> QED
  BY <1>4 DEF LowestPlace

LEMMA EmptyTable ==
  ASSUME NEW table, table = [p \in Places |-> Unused]
  PROVE  /\ TableOK(table) /\ \A n \in Radios : Well(table, n)
         /\ \A d \in VirtualDevices : ~Has(table, d)
<1>1. \A p \in Places : table[p] = Unused
  OBVIOUS
<1>2. Unused \in Record /\ Unused.dev = Absent /\ ~Unused.watched
  BY DEF Unused, Record, Sorts
<1>3. TableTypes(table)
  BY <1>2 DEF TableTypes
<1> QED
  BY <1>1, <1>2, <1>3, RadioAssumption
  DEF TableOK, UnusedBare, DevicesOnce, WatchedAlone, Well, Has, WatchedAt, DevicesOf

LEMMA ResetKeeps ==
  ASSUME NEW table, TableOK(table), NEW d \in VirtualDevices, NEW after, after = Reset(table, d)
  PROVE  /\ TableOK(after) /\ ~Has(after, d)
         /\ \A e \in VirtualDevices \ {d} : Has(after, e) <=> Has(table, e)
         /\ \A e \in VirtualDevices \ {d} : \A sort : SortIs(table, e, sort) => SortIs(after, e, sort)
         /\ \A n \in Radios : n # RadioOf[d] /\ Well(table, n) => Well(after, n)
<1>1. \A p \in Places : after[p] = IF table[p].dev = d THEN Unused ELSE table[p]
  BY DEF Reset
<1>2. Unused \in Record /\ Unused.dev = Absent /\ ~Unused.watched
  BY DEF Unused, Record, Sorts
<1>3. Absent # d
  BY RadioAssumption
<1>4. TableTypes(after)
  BY <1>2 DEF TableTypes, TableOK, Reset
<1>5. UnusedBare(after)
  BY <1>1, <1>2 DEF UnusedBare, TableOK
<1>6. DevicesOnce(after)
  BY <1>1, <1>2 DEF DevicesOnce, TableOK
<1>7. \A n \in Radios : WatchedAt(after, n) \subseteq WatchedAt(table, n)
  BY <1>1, <1>2 DEF WatchedAt
<1>8. WatchedAlone(after)
  BY <1>7 DEF WatchedAlone, TableOK
<1>9. ~Has(after, d)
  BY <1>1, <1>2, <1>3 DEF Has
<1>10. \A e \in VirtualDevices \ {d} : Has(after, e) <=> Has(table, e)
  BY <1>1, <1>2, RadioAssumption DEF Has
<1>11. \A e \in VirtualDevices \ {d} : \A sort : SortIs(table, e, sort) => SortIs(after, e, sort)
  BY <1>1, <1>2, RadioAssumption DEF SortIs
<1>12. ASSUME NEW n \in Radios, n # RadioOf[d], Well(table, n) PROVE Well(after, n)
  <2>1. \A p \in Places : table[p].dev \in DevicesOf(n) => table[p].dev # d
    BY <1>12 DEF DevicesOf
  <2>2. \A q \in WatchedAt(table, n) : table[q].dev # d
    BY <1>12 DEF WatchedAt
  <2>3. \A q \in WatchedAt(table, n) : q \in WatchedAt(after, n) /\ after[q] = table[q]
    BY <2>2, <1>1 DEF WatchedAt
  <2>4. \A p \in Places : after[p].dev \in DevicesOf(n) => after[p] = table[p]
    BY <1>1, <1>2, RadioAssumption DEF DevicesOf
  <2> QED
    BY <1>12, <2>3, <2>4 DEF Well
<1> QED
  BY <1>4, <1>5, <1>6, <1>8, <1>9, <1>10, <1>11, <1>12 DEF TableOK

\* A device takes the first unused place and, if it is a battery or thermostat, the
\* watch of its node.
LEMMA PlacedKeeps ==
  ASSUME NEW table, TableOK(table), NEW d \in VirtualDevices, ~Has(table, d),
         UnusedPlaces(table) # {}, NEW sort \in Sorts,
         NEW after, after = Placed(table, d, sort)
  PROVE  /\ TableOK(after) /\ Has(after, d) /\ SortIs(after, d, sort)
         /\ \A e \in VirtualDevices \ {d} : Has(after, e) <=> Has(table, e)
         /\ \A e \in VirtualDevices \ {d} : \A s : SortIs(table, e, s) => SortIs(after, e, s)
         /\ \A n \in Radios : Well(table, n) => Well(after, n)
<1> DEFINE found == WatchedAt(table, RadioOf[d])
<1>1. PICK p0 \in Places : p0 = LowestPlace(UnusedPlaces(table)) /\ table[p0].dev = Absent
  <2>1. UnusedPlaces(table) \in SUBSET Places
    BY DEF UnusedPlaces
  <2>2. LowestPlace(UnusedPlaces(table)) \in UnusedPlaces(table)
    BY <2>1, LowestIsOne
  <2> QED
    BY <2>2 DEF UnusedPlaces
<1>2. RadioOf[d] \in Radios /\ Absent # d
  BY RadioAssumption
<1>3. \A p, q \in found : p = q
  BY <1>2 DEF TableOK, WatchedAlone, WatchedAt
<1>4. found # {} => \A p \in found : p = LowestPlace(found)
  <2>1. found \in SUBSET Places
    BY DEF WatchedAt
  <2>2. found # {} => LowestPlace(found) \in found
    BY <2>1, LowestIsOne
  <2> QED
    BY <2>2, <1>3
<1>5. found # {} => LowestPlace(found) \in found
  BY <1>4
<1>6. p0 \notin found
  BY <1>1 DEF WatchedAt, TableOK, UnusedBare
<1>7. /\ after[p0].dev = d /\ after[p0].sort = sort
      /\ after[p0].watched <=> sort = "own" \/ (sort = "other" /\ found = {})
  BY <1>1 DEF Placed
<1>8. ASSUME NEW p \in Places, p # p0
      PROVE  /\ after[p] = IF sort = "own" /\ p \in found
                          THEN [table[p] EXCEPT !.watched = FALSE] ELSE table[p]
             /\ after[p] \in Record
  <2>1. after[p] = IF sort = "own" /\ found # {} /\ p = LowestPlace(found)
                  THEN [table[p] EXCEPT !.watched = FALSE] ELSE table[p]
    BY <1>1, <1>8 DEF Placed
  <2>2. found # {} /\ p = LowestPlace(found) <=> p \in found
    BY <1>4, <1>5
  <2>3. table[p] \in Record
    BY DEF TableOK, TableTypes
  <2>4. [table[p] EXCEPT !.watched = FALSE] \in Record
    BY <2>3 DEF Record
  <2> QED
    BY <2>1, <2>2, <2>3, <2>4
<1>9. ASSUME NEW p \in Places, p # p0
      PROVE  /\ after[p].dev = table[p].dev /\ after[p].sort = table[p].sort
             /\ after[p].watched <=> table[p].watched /\ ~(sort = "own" /\ p \in found)
  <2>1. table[p] \in Record
    BY DEF TableOK, TableTypes
  <2> QED
    BY <1>8, <1>9, <2>1 DEF Record
<1> HIDE DEF found
<1>10. TableTypes(after)
  <2>1. after[p0] \in Record
    BY <1>1 DEF Placed, Record
  <2>2. \A p \in Places : after[p] \in Record
    BY <2>1, <1>8
  <2>3. DOMAIN after = Places /\ after = [p \in Places |-> after[p]]
    BY DEF Placed
  <2> QED
    BY <2>2, <2>3 DEF TableTypes
<1>11. UnusedBare(after)
  BY <1>7, <1>9, <1>2 DEF TableOK, UnusedBare
<1>12. \A p \in Places : table[p].dev # d
  BY DEF Has
<1>13. DevicesOnce(after)
  <2> SUFFICES ASSUME NEW p \in Places, NEW q \in Places, after[p].dev = after[q].dev
               PROVE  p = q \/ after[p].dev = Absent
    BY DEF DevicesOnce
  <2>1. CASE p # p0 /\ q # p0
    BY <2>1, <1>9 DEF TableOK, DevicesOnce
  <2>2. CASE p = p0 \/ q = p0
    BY <2>2, <1>7, <1>9, <1>12
  <2> QED
    BY <2>1, <2>2
<1>14. \A n \in Radios : \A p \in Places : p # p0 =>
         (p \in WatchedAt(after, n) <=>
            p \in WatchedAt(table, n) /\ ~(sort = "own" /\ p \in found))
  BY <1>9 DEF WatchedAt
<1>15. \A n \in Radios :
         p0 \in WatchedAt(after, n) <=>
           n = RadioOf[d] /\ (sort = "own" \/ (sort = "other" /\ found = {}))
  BY <1>7 DEF WatchedAt
<1>16. WatchedAlone(after)
  <2> SUFFICES ASSUME NEW n \in Radios, NEW p \in Places, NEW q \in Places,
                      p \in WatchedAt(after, n), q \in WatchedAt(after, n), p # q
               PROVE  FALSE
    BY DEF WatchedAlone
  <2>1. CASE p # p0 /\ q # p0
    <3>1. p \in WatchedAt(table, n) /\ q \in WatchedAt(table, n)
      BY <2>1, <1>14
    <3> QED
      BY <3>1 DEF TableOK, WatchedAlone
  <2>2. ASSUME NEW w \in Places, w # p0, w \in WatchedAt(after, n), p0 \in WatchedAt(after, n)
        PROVE  FALSE
    <3>1. n = RadioOf[d] /\ (sort = "own" \/ (sort = "other" /\ found = {}))
      BY <2>2, <1>15
    <3>2. w \in found /\ ~(sort = "own" /\ w \in found)
      BY <2>2, <3>1, <1>14 DEF found
    <3> QED
      BY <3>1, <3>2
  <2> QED
    BY <2>1, <2>2
<1>17. Has(after, d)
  BY <1>7 DEF Has
<1>18. SortIs(after, d, sort)
  BY <1>7, <1>9, <1>12 DEF SortIs
<1>19. \A e \in VirtualDevices \ {d} : Has(after, e) <=> Has(table, e)
  BY <1>1, <1>7, <1>9, RadioAssumption DEF Has
<1>20. \A e \in VirtualDevices \ {d} : \A s : SortIs(table, e, s) => SortIs(after, e, s)
  BY <1>7, <1>9 DEF SortIs
<1>21. ASSUME NEW n \in Radios, Well(table, n) PROVE Well(after, n)
  <2> SUFFICES ASSUME NEW p \in Places, after[p].dev \in DevicesOf(n), after[p].sort # "never"
               PROVE  \E q \in Places : /\ q \in WatchedAt(after, n)
                                        /\ after[p].sort = "own" => after[q].sort = "own"
    BY DEF Well
  <2>1. CASE n = RadioOf[d] /\ (sort = "own" \/ (sort = "other" /\ found = {} /\ p = p0))
    BY <2>1, <1>7, <1>15
  <2>2. ASSUME p # p0, ~(n = RadioOf[d] /\ sort = "own")
        PROVE  \E q \in Places : /\ q \in WatchedAt(after, n)
                                 /\ after[p].sort = "own" => after[q].sort = "own"
    <3>1. PICK q \in Places : /\ q \in WatchedAt(table, n)
                              /\ table[p].sort = "own" => table[q].sort = "own"
      BY <1>21, <2>2, <1>9 DEF Well
    <3>2. q # p0
      BY <3>1, <1>1 DEF WatchedAt, TableOK, UnusedBare
    <3>3. ~(sort = "own" /\ q \in found)
      BY <3>1, <2>2 DEF found, WatchedAt
    <3> QED
      BY <3>1, <3>2, <3>3, <2>2, <1>9, <1>14
  <2>3. ASSUME p = p0, n = RadioOf[d], sort = "other", found # {}
        PROVE  \E q \in Places : /\ q \in WatchedAt(after, n)
                                 /\ after[p].sort = "own" => after[q].sort = "own"
    <3>1. PICK q \in Places : q \in found
      BY <2>3 DEF found, WatchedAt
    <3>2. q \in WatchedAt(after, n)
      BY <3>1, <2>3, <1>6, <1>14 DEF found
    <3> QED
      BY <3>2, <2>3, <1>7
  <2>4. p = p0 => n = RadioOf[d] /\ sort # "never"
    BY <1>7 DEF DevicesOf
  <2> QED
    BY <2>1, <2>2, <2>3, <2>4 DEF Sorts
<1> QED
  BY <1>10, <1>11, <1>13, <1>16, <1>17, <1>18, <1>19, <1>20, <1>21 DEF TableOK

-----------------------------------------------------------------------------
\* Where the daemon is: what goes together while it is there.
StageInv ==
  /\ at = "none" <=> device = Absent
  /\ at \in {"add", "added", "undo"} => doing = "add"
  /\ at \in {"delete", "deleted"} =>
       doing \in {"delete", "remove"} /\ ~InTable(device) /\ zw_nodes[device] = Absent
  /\ at = "undo" => device \in lost
  /\ doing \in {"nothing", "exit"} => reports = {}
  /\ doing \in {"nothing", "load", "exit"} => saved = zw_nodes
  /\ device \notin reports
  /\ doing = "add" =>
       \A d \in VirtualDevices : d \in reports \/ d = device => zw_nodes[d] # Absent
  /\ doing = "load" => \A d \in reports : read[d] # Absent /\ ~InTable(d)

\* The driver, the table and the database agree on d.
Agrees(d) ==
  /\ hcRows[d] = zw_nodes[d]
  /\ d \in zwRows <=> zw_nodes[d] # Absent
  /\ InTable(d) <=> zw_nodes[d] # Absent
  /\ OfSort(d, zw_nodes[d])

\* How far a device that is not lost is.
Settled(d) == d \notin reports /\ d # device /\ doing \notin {"load", "exit"} => Agrees(d)
Joining(d) ==
  /\ doing = "add" /\ d \in reports => hcRows[d] = Absent /\ d \notin zwRows /\ ~InTable(d)
  /\ doing = "add" /\ d = device =>
       /\ InTable(d) /\ OfSort(d, zw_nodes[d]) /\ d \notin zwRows
       /\ hcRows[d] = IF at = "add" THEN Absent ELSE zw_nodes[d]
Leaving(d) == at = "deleted" /\ d = device => d \notin zwRows
Loading(d) ==
  doing = "load" =>
    /\ hcRows[d] = zw_nodes[d]
    /\ d \in zwRows <=> zw_nodes[d] # Absent
    /\ InTable(d) <=> zw_nodes[d] # Absent /\ d \notin reports
    /\ OfSort(d, zw_nodes[d])
    /\ d \in reports => read[d] = zw_nodes[d] /\ read[d] # Absent

RecordsInv ==
  \A d \in VirtualDevices \ lost : Settled(d) /\ Joining(d) /\ Leaving(d) /\ Loading(d)

\* There is room for the devices whose rows are loaded.
Fits(placeOf) ==
  \A d, e \in VirtualDevices :
    hcRows[d] # Absent /\ hcRows[e] # Absent /\ placeOf[d] = placeOf[e] => d = e
RoomInv ==
  /\ doing = "load" /\ lost = {} => \E placeOf \in [VirtualDevices -> Places] : Fits(placeOf)
  /\ doing = "exit" => lost # {} /\ \A p \in Places : g_mid_device_info[p].dev # Absent

\* The devices of D that are in the table are all about to go.
AllReported(D) == doing \in {"delete", "remove"} /\ \A d \in D : InTable(d) => d \in reports

WatchInv ==
  /\ \A n \in Radios :
       DevicesOf(n) \cap lost = {} => WatchedWell(n) \/ AllReported(DevicesOf(n))
  /\ doing \in {"delete", "remove"} =>
       \A d \in VirtualDevices :
         d \in reports \/ d = device => AllReported(DevicesOf(RadioOf[d]) \ lost)

DevicesInv == ZwDevicesTypeOK /\ StageInv /\ PlacesInv /\ RecordsInv /\ RoomInv /\ WatchInv

-----------------------------------------------------------------------------
LEMMA TypesStay == ASSUME ZwDevicesTypeOK, StageInv, PlacesInv, ZwDevicesNext PROVE ZwDevicesTypeOK'
<1> USE DEF ZwDevicesTypeOK
<1>1. NoNodes \in [VirtualDevices -> Sorts \cup {Absent}]
  BY DEF NoNodes
<1>2. ASSUME NEW radio \in Radios, NodeJoins(radio) PROVE ZwDevicesTypeOK'
  <2>4. PICK new \in (SUBSET DevicesOf(radio)) \ {{}} : \E sorts \in [new -> Sorts] :
          /\ zw_nodes' = [d \in VirtualDevices |-> IF d \in new THEN sorts[d] ELSE zw_nodes[d]]
          /\ reports' = new
    BY <1>2 DEF NodeJoins
  <2>1. PICK sorts \in [new -> Sorts] :
          /\ zw_nodes' = [d \in VirtualDevices |-> IF d \in new THEN sorts[d] ELSE zw_nodes[d]]
          /\ reports' = new
    BY <2>4
  <2>2. zw_nodes' \in [VirtualDevices -> Sorts \cup {Absent}] /\ reports' \subseteq VirtualDevices
    BY <2>1 DEF DevicesOf
  <2>3. changes' \in 0 .. MaxChanges
    BY <1>2, DeviceBoundsAssumption DEF NodeJoins, Changes
  <2> QED
    BY <1>2, <2>2, <2>3 DEF NodeJoins, Changes
<1>3. ASSUME NEW radio \in Radios, NodeLeaves(radio) PROVE ZwDevicesTypeOK'
  <2>1. changes' \in 0 .. MaxChanges
    BY <1>3, DeviceBoundsAssumption DEF NodeLeaves, Changes
  <2>2. reports' \subseteq VirtualDevices
    BY <1>3 DEF NodeLeaves, DevicesOf
  <2> QED
    BY <1>3, <2>1, <2>2 DEF NodeLeaves, Changes
<1>4. ASSUME NEW d \in VirtualDevices, NodeRemoved(d) PROVE ZwDevicesTypeOK'
  <2>1. changes' \in 0 .. MaxChanges
    BY <1>4, DeviceBoundsAssumption DEF NodeRemoved, Changes
  <2>2. reports' \subseteq VirtualDevices
    BY <1>4 DEF NodeRemoved, DevicesOf
  <2>3. zw_nodes' \in [VirtualDevices -> Sorts \cup {Absent}]
    BY <1>4 DEF NodeRemoved
  <2> QED
    BY <1>4, <2>1, <2>2, <2>3 DEF NodeRemoved, Changes
<1>5. CASE SetDefault
  <2>1. changes' \in 0 .. MaxChanges
    BY <1>5, DeviceBoundsAssumption DEF SetDefault, Changes
  <2>2. g_mid_device_info' \in [Places -> Record]
    BY <1>5 DEF SetDefault, Unused, Record, Sorts
  <2> QED
    BY <1>1, <1>5, <2>1, <2>2 DEF SetDefault, Changes
<1>6. CASE DeleteRows
  BY <1>1, <1>6 DEF DeleteRows, boundVars
<1>7. CASE UpgradeFlag
  BY <1>7 DEF UpgradeFlag, boundVars, rowVars
<1>8. ASSUME NEW d \in VirtualDevices, AddedSuccess(d) PROVE ZwDevicesTypeOK'
  <2>1. zw_nodes[d] \in Sorts /\ RadioOf[d] \in Radios
    BY <1>8, RadioAssumption DEF AddedSuccess, Reports, StageInv
  <2>2. PlacesOf(g_mid_device_info, d) = {} => ~Has(g_mid_device_info, d)
    BY DEF PlacesOf, Has
  <2>3. g_mid_device_info' \in [Places -> Record]
    BY <1>8, <2>1, <2>2, PlacedKeeps
    DEF AddedSuccess, Ignored, PlacesInv, TableOK, TableTypes
  <2> QED
    BY <1>8, <2>3 DEF AddedSuccess, Reports, Ignored, boundVars, rowVars
<1>9. ASSUME NEW d \in VirtualDevices, DeletedSuccess(d) PROVE ZwDevicesTypeOK'
  <2>1. g_mid_device_info' \in [Places -> Record]
    BY <1>9, ResetKeeps DEF DeletedSuccess, Ignored, PlacesInv, TableOK, TableTypes
  <2> QED
    BY <1>9, <2>1 DEF DeletedSuccess, Reports, Ignored, boundVars, rowVars
<1>10. ASSUME NEW d \in VirtualDevices, LoadDevice(d) PROVE ZwDevicesTypeOK'
  <2>1. read[d] \in Sorts /\ ~Has(g_mid_device_info, d)
    BY <1>10 DEF LoadDevice, StageInv, InTable
  <2>2. g_mid_device_info' \in [Places -> Record]
    BY <1>10, <2>1, PlacedKeeps DEF LoadDevice, PlacesInv, TableOK, TableTypes
  <2> QED
    BY <1>10, <2>2 DEF LoadDevice, boundVars, rowVars
<1>11. at # "none" => device \in VirtualDevices /\ zw_nodes[device] \in Sorts \cup {Absent}
  BY DEF StageInv
<1>12. failures < MaxFailures => failures + 1 \in 0 .. MaxFailures
  BY DeviceBoundsAssumption
<1>13. CASE AddHcRow
  BY <1>11, <1>12, <1>13 DEF AddHcRow, Statement, ReportOver, Fine
<1>14. CASE AddZwRow
  BY <1>11, <1>12, <1>14 DEF AddZwRow, Statement, ReportOver, Fine, FailsFor
<1>15. CASE UndoHcRow
  BY <1>11, <1>12, <1>15 DEF UndoHcRow, Statement, ReportOver
<1>16. CASE DeleteZwRow
  BY <1>11, <1>12, <1>16 DEF DeleteZwRow, Statement, Fine, FailsFor
<1>17. CASE DeleteHcRow
  BY <1>11, <1>12, <1>17 DEF DeleteHcRow, Statement, ReportOver
<1>18. CASE SessionOver
  BY <1>18 DEF SessionOver, boundVars, rowVars
<1>19. CASE Crash
  <2>1. crashes' \in 0 .. MaxCrashes
    BY <1>19, DeviceBoundsAssumption DEF Crash
  <2>2. g_mid_device_info' \in [Places -> Record]
    BY <1>19 DEF Crash, Unused, Record, Sorts
  <2> QED
    BY <1>19, <2>1, <2>2 DEF Crash, rowVars
<1>20. CASE LoadOver
  BY <1>1, <1>20 DEF LoadOver, boundVars, rowVars
<1> QED
  BY <1>2, <1>3, <1>4, <1>5, <1>6, <1>7, <1>8, <1>9, <1>10, <1>13, <1>14, <1>15, <1>16,
     <1>17, <1>18, <1>19, <1>20 DEF ZwDevicesNext

-----------------------------------------------------------------------------
\* Between two reports, nothing is under way for a device that is not lost.
LEMMA QuietAgrees ==
  ASSUME DevicesInv, doing = "nothing"
  PROVE  /\ at = "none" /\ device = Absent /\ reports = {} /\ saved = zw_nodes
         /\ \A d \in VirtualDevices \ lost : Agrees(d)
<1>1. at = "none" /\ device = Absent /\ reports = {} /\ saved = zw_nodes
  BY DEF DevicesInv, StageInv, ZwDevicesTypeOK
<1> QED
  BY <1>1, RadioAssumption DEF DevicesInv, RecordsInv, Settled

LEMMA NodeJoinsKeeps ==
  ASSUME DevicesInv, NEW radio \in Radios, NodeJoins(radio)
  PROVE  StageInv' /\ PlacesInv' /\ RecordsInv' /\ RoomInv' /\ WatchInv'
<1>1. /\ doing = "nothing" /\ doing' = "add"
      /\ UNCHANGED <<g_mid_device_info, hcRows, zwRows, at, device, lost>>
  BY DEF NodeJoins, Changes
<1>2. at = "none" /\ device = Absent /\ \A d \in VirtualDevices \ lost : Agrees(d)
  BY <1>1, QuietAgrees
<1>3. PICK new \in (SUBSET DevicesOf(radio)) \ {{}} : \E sorts \in [new -> Sorts] :
        /\ zw_nodes' = [d \in VirtualDevices |-> IF d \in new THEN sorts[d] ELSE zw_nodes[d]]
        /\ reports' = new
  BY DEF NodeJoins
<1>4. PICK sorts \in [new -> Sorts] :
        /\ zw_nodes' = [d \in VirtualDevices |-> IF d \in new THEN sorts[d] ELSE zw_nodes[d]]
        /\ reports' = new
  BY <1>3
<1>5. /\ \A d \in new : d \in VirtualDevices /\ zw_nodes[d] = Absent /\ zw_nodes'[d] # Absent
      /\ \A d \in VirtualDevices \ new : zw_nodes'[d] = zw_nodes[d]
  BY <1>4, RadioAssumption DEF NodeJoins, DevicesOf
<1>6. StageInv'
  BY <1>1, <1>2, <1>4, <1>5, RadioAssumption DEF StageInv, DevicesOf
<1>7. PlacesInv'
  BY <1>1 DEF DevicesInv, PlacesInv
<1>8. RecordsInv'
  <2> SUFFICES ASSUME NEW d \in VirtualDevices \ lost
               PROVE  (Settled(d) /\ Joining(d) /\ Leaving(d) /\ Loading(d))'
    BY <1>1 DEF RecordsInv
  <2>1. Agrees(d) /\ d # Absent
    BY <1>2, RadioAssumption
  <2>2. Settled(d)'
    BY <2>1, <1>1, <1>4, <1>5 DEF Settled, Agrees, InTable, OfSort
  <2>3. Joining(d)'
    BY <2>1, <1>1, <1>2, <1>4, <1>5 DEF Joining, Agrees, InTable, OfSort
  <2> QED
    BY <2>2, <2>3, <1>1, <1>2 DEF Leaving, Loading
<1>9. RoomInv'
  BY <1>1 DEF RoomInv
<1>10. WatchInv'
  BY <1>1 DEF DevicesInv, WatchInv, AllReported, WatchedWell
<1> QED
  BY <1>6, <1>7, <1>8, <1>9, <1>10

LEMMA NodeLeavesKeeps ==
  ASSUME DevicesInv, NEW radio \in Radios, NodeLeaves(radio)
  PROVE  StageInv' /\ PlacesInv' /\ RecordsInv' /\ RoomInv' /\ WatchInv'
<1>1. /\ doing = "nothing" /\ doing' = "delete"
      /\ reports' = {d \in DevicesOf(radio) : zw_nodes[d] # Absent}
      /\ UNCHANGED <<zw_nodes, g_mid_device_info, hcRows, zwRows, at, device, lost>>
  BY DEF NodeLeaves, Changes
<1>2. at = "none" /\ device = Absent /\ \A d \in VirtualDevices \ lost : Agrees(d)
  BY <1>1, QuietAgrees
<1>3. StageInv'
  BY <1>1, <1>2, RadioAssumption DEF StageInv, DevicesOf
<1>4. PlacesInv'
  BY <1>1 DEF DevicesInv, PlacesInv
<1>5. RecordsInv'
  BY <1>1, <1>2 DEF RecordsInv, Settled, Agrees, Joining, Leaving, Loading, InTable, OfSort
<1>6. RoomInv'
  BY <1>1 DEF RoomInv
<1>7. WatchInv'
  <2>1. \A n \in Radios : DevicesOf(n) \cap lost = {} => WatchedWell(n)
    BY <1>1 DEF DevicesInv, WatchInv, AllReported
  <2>2. \A n \in Radios : DevicesOf(n) \cap lost' = {} => WatchedWell(n)'
    BY <2>1, <1>1 DEF WatchedWell
  <2>3. AllReported(DevicesOf(radio) \ lost)'
    <3>1. \A d \in DevicesOf(radio) \ lost : InTable(d) => d \in reports'
      BY <1>1, <1>2 DEF Agrees, DevicesOf
    <3> QED
      BY <3>1, <1>1 DEF AllReported, InTable
  <2>4. \A d \in VirtualDevices : d \in reports' \/ d = device' => RadioOf[d] = radio
    BY <1>1, <1>2, RadioAssumption DEF DevicesOf
  <2> QED
    BY <2>2, <2>3, <2>4, <1>1 DEF WatchInv
<1> QED
  BY <1>3, <1>4, <1>5, <1>6, <1>7

LEMMA NodeRemovedKeeps ==
  ASSUME DevicesInv, NEW d0 \in VirtualDevices, NodeRemoved(d0)
  PROVE  StageInv' /\ PlacesInv' /\ RecordsInv' /\ RoomInv' /\ WatchInv'
<1>1. /\ doing = "nothing" /\ doing' = "remove"
      /\ reports' = {d0} \cup
                    {e \in DevicesOf(RadioOf[d0]) : PlacesOf(g_mid_device_info, e) # {}}
      /\ zw_nodes' = [e \in VirtualDevices |->
                        IF RadioOf[e] = RadioOf[d0] THEN Absent ELSE zw_nodes[e]]
      /\ UNCHANGED <<g_mid_device_info, hcRows, zwRows, at, device, lost>>
  BY DEF NodeRemoved, Changes
<1>2. at = "none" /\ device = Absent /\ \A d \in VirtualDevices \ lost : Agrees(d)
  BY <1>1, QuietAgrees
<1>3. \A e \in VirtualDevices : e \in reports' <=>
        e = d0 \/ (RadioOf[e] = RadioOf[d0] /\ InTable(e))
  BY <1>1 DEF DevicesOf, PlacesOf, InTable, Has
<1>4. StageInv'
  BY <1>1, <1>2, RadioAssumption DEF StageInv, DevicesOf
<1>5. PlacesInv'
  BY <1>1 DEF DevicesInv, PlacesInv
<1>6. RecordsInv'
  <2> SUFFICES ASSUME NEW d \in VirtualDevices \ lost
               PROVE  (Settled(d) /\ Joining(d) /\ Leaving(d) /\ Loading(d))'
    BY <1>1 DEF RecordsInv
  <2>1. Agrees(d)
    BY <1>2
  <2>2. d \notin reports' => zw_nodes'[d] = zw_nodes[d]
    BY <2>1, <1>1, <1>3 DEF Agrees
  <2>3. Settled(d)'
    BY <2>1, <2>2, <1>1 DEF Settled, Agrees, InTable, OfSort
  <2> QED
    BY <2>3, <1>1, <1>2 DEF Joining, Leaving, Loading
<1>7. RoomInv'
  BY <1>1 DEF RoomInv
<1>8. WatchInv'
  <2>1. \A n \in Radios : DevicesOf(n) \cap lost = {} => WatchedWell(n)
    BY <1>1 DEF DevicesInv, WatchInv, AllReported
  <2>2. \A n \in Radios : DevicesOf(n) \cap lost' = {} => WatchedWell(n)'
    BY <2>1, <1>1 DEF WatchedWell
  <2>3. AllReported(DevicesOf(RadioOf[d0]) \ lost)'
    <3>1. \A d \in DevicesOf(RadioOf[d0]) \ lost : InTable(d) => d \in reports'
      BY <1>3 DEF DevicesOf
    <3> QED
      BY <3>1, <1>1 DEF AllReported, InTable
  <2>4. \A d \in VirtualDevices : d \in reports' \/ d = device' => RadioOf[d] = RadioOf[d0]
    BY <1>1, <1>2, <1>3, RadioAssumption
  <2> QED
    BY <2>2, <2>3, <2>4, <1>1 DEF WatchInv
<1> QED
  BY <1>4, <1>5, <1>6, <1>7, <1>8

LEMMA SetDefaultKeeps ==
  ASSUME DevicesInv, SetDefault
  PROVE  StageInv' /\ PlacesInv' /\ RecordsInv' /\ RoomInv' /\ WatchInv'
<1>1. /\ doing = "nothing" /\ doing' = doing /\ zw_nodes' = NoNodes /\ saved' = NoNodes
      /\ g_mid_device_info' = [p \in Places |-> Unused]
      /\ lost' = {d \in VirtualDevices : hcRows[d] # Absent \/ d \in zwRows}
      /\ UNCHANGED <<hcRows, zwRows, at, device, reports>>
  BY DEF SetDefault, Changes
<1>2. at = "none" /\ device = Absent /\ reports = {}
  BY <1>1, QuietAgrees
<1>3. StageInv'
  BY <1>1, <1>2 DEF StageInv
<1>4. PICK table : table = g_mid_device_info'
  OBVIOUS
<1>5. /\ TableOK(table) /\ \A n \in Radios : Well(table, n)
      /\ \A d \in VirtualDevices : ~Has(table, d)
  BY <1>1, <1>4, EmptyTable
<1>6. PlacesInv'
  BY <1>4, <1>5 DEF PlacesInv
<1>7. RecordsInv'
  <2> SUFFICES ASSUME NEW d \in VirtualDevices, d \notin lost'
               PROVE  (Settled(d) /\ Joining(d) /\ Leaving(d) /\ Loading(d))'
    BY DEF RecordsInv
  <2>1. hcRows'[d] = Absent /\ d \notin zwRows' /\ zw_nodes'[d] = Absent
    BY <1>1 DEF NoNodes
  <2>2. ~InTable(d)'
    BY <1>4, <1>5 DEF InTable
  <2>3. OfSort(d, zw_nodes[d])'
    BY <2>2 DEF OfSort, InTable, SortIs, Has
  <2> QED
    BY <2>1, <2>2, <2>3, <1>1, <1>2 DEF Settled, Agrees, Joining, Leaving, Loading
<1>8. RoomInv'
  BY <1>1 DEF RoomInv
<1>9. WatchInv'
  BY <1>1, <1>4, <1>5 DEF WatchInv, WatchedWell
<1> QED
  BY <1>3, <1>6, <1>7, <1>8, <1>9

LEMMA DeleteRowsKeeps ==
  ASSUME DevicesInv, DeleteRows
  PROVE  StageInv' /\ PlacesInv' /\ RecordsInv' /\ RoomInv' /\ WatchInv'
<1>1. /\ hcRows' = NoNodes /\ zwRows' = {}
      /\ lost' = {d \in VirtualDevices :
                    \/ zw_nodes[d] # Absent \/ d \in reports \cup {device}
                    \/ PlacesOf(g_mid_device_info, d) # {}}
      /\ UNCHANGED <<zw_nodes, saved, g_mid_device_info, doing, reports, read, at, device>>
  BY DEF DeleteRows
<1>2. \A d \in VirtualDevices :
        d \notin lost' <=> zw_nodes[d] = Absent /\ d \notin reports /\ d # device /\ ~InTable(d)
  BY <1>1 DEF PlacesOf, InTable, Has
<1>3. StageInv'
  <2>1. at = "undo" => device \in lost'
    BY <1>1 DEF DevicesInv, ZwDevicesTypeOK, StageInv
  <2> QED
    BY <1>1, <2>1 DEF DevicesInv, StageInv, InTable
<1>4. PlacesInv'
  BY <1>1 DEF DevicesInv, PlacesInv
<1>5. RecordsInv'
  <2> SUFFICES ASSUME NEW d \in VirtualDevices, d \notin lost'
               PROVE  (Settled(d) /\ Joining(d) /\ Leaving(d) /\ Loading(d))'
    BY DEF RecordsInv
  <2>1. hcRows'[d] = Absent /\ d \notin zwRows' /\ zw_nodes'[d] = Absent
    BY <1>1, <1>2 DEF NoNodes
  <2>2. ~InTable(d)' /\ d \notin reports' /\ d # device'
    BY <1>1, <1>2 DEF InTable
  <2>3. OfSort(d, zw_nodes[d])'
    BY <2>2 DEF OfSort, InTable, SortIs, Has
  <2> QED
    BY <2>1, <2>2, <2>3 DEF Settled, Agrees, Joining, Leaving, Loading
<1>6. RoomInv'
  <2>1. 1 \in Places
    BY DeviceBoundsAssumption DEF Places
  <2>2. Fits([d \in VirtualDevices |-> 1])'
    BY <1>1 DEF Fits, NoNodes
  <2>3. \E placeOf \in [VirtualDevices -> Places] : Fits(placeOf)'
    BY <2>1, <2>2
  <2>4. doing = "exit" => /\ lost' # {}
                          /\ \A p \in Places : g_mid_device_info'[p].dev # Absent
    <3>1. ASSUME doing = "exit" PROVE g_mid_device_info[1].dev \in lost'
      <4>1. g_mid_device_info[1].dev \in VirtualDevices
        BY <3>1, <2>1 DEF DevicesInv, RoomInv, ZwDevicesTypeOK, Record
      <4> QED
        BY <4>1, <2>1, <1>2 DEF InTable, Has
    <3> QED
      BY <3>1, <1>1 DEF DevicesInv, RoomInv
  <2> QED
    BY <2>3, <2>4, <1>1 DEF RoomInv
<1>7. WatchInv'
  <2>1. ASSUME NEW n \in Radios, DevicesOf(n) \cap lost' = {} PROVE WatchedWell(n)'
    <3>1. \A d \in DevicesOf(n) : ~InTable(d)
      BY <2>1, <1>2 DEF DevicesOf
    <3> QED
      BY <3>1, <1>1 DEF WatchedWell, Well, InTable, Has
  <2>2. ASSUME NEW D, D \subseteq VirtualDevices, doing \in {"delete", "remove"}
        PROVE  AllReported(D \ lost)'
    <3>1. \A d \in D \ lost' : ~InTable(d)
      BY <1>2, <2>2
    <3> QED
      BY <3>1, <2>2, <1>1 DEF AllReported, InTable
  <2>3. doing' \in {"delete", "remove"} =>
          \A d \in VirtualDevices : AllReported(DevicesOf(RadioOf[d]) \ lost)'
    BY <2>2, <1>1 DEF DevicesOf
  <2> QED
    BY <2>1, <2>3 DEF WatchInv
<1> QED
  BY <1>3, <1>4, <1>5, <1>6, <1>7

LEMMA UpgradeFlagKeeps ==
  ASSUME DevicesInv, UpgradeFlag
  PROVE  StageInv' /\ PlacesInv' /\ RecordsInv' /\ RoomInv' /\ WatchInv'
<1>1. UNCHANGED <<zw_nodes, saved, g_mid_device_info, hcRows, zwRows, doing, reports, read, at,
                  device, lost>>
  BY DEF UpgradeFlag, rowVars
<1>2. StageInv'
  BY <1>1 DEF DevicesInv, StageInv, InTable
<1>3. PlacesInv'
  BY <1>1 DEF DevicesInv, PlacesInv
<1>4. RecordsInv'
  BY <1>1 DEF DevicesInv, RecordsInv, Settled, Agrees, Joining, Leaving, Loading, InTable, OfSort
<1>5. RoomInv'
  BY <1>1 DEF DevicesInv, RoomInv, Fits
<1>6. WatchInv'
  BY <1>1 DEF DevicesInv, WatchInv, WatchedWell, AllReported, InTable
<1> QED
  BY <1>2, <1>3, <1>4, <1>5, <1>6

LEMMA SessionOverKeeps ==
  ASSUME DevicesInv, SessionOver
  PROVE  StageInv' /\ PlacesInv' /\ RecordsInv' /\ RoomInv' /\ WatchInv'
<1>1. /\ doing \in {"add", "delete", "remove"} /\ reports = {} /\ at = "none"
      /\ doing' = "nothing" /\ saved' = zw_nodes
      /\ UNCHANGED <<zw_nodes, g_mid_device_info, hcRows, zwRows, reports, read, at, device, lost>>
  BY DEF SessionOver, rowVars
<1>2. device = Absent
  BY <1>1 DEF DevicesInv, StageInv
<1>3. StageInv'
  BY <1>1, <1>2 DEF StageInv
<1>4. PlacesInv'
  BY <1>1 DEF DevicesInv, PlacesInv
<1>5. RecordsInv'
  BY <1>1, <1>2, RadioAssumption
  DEF DevicesInv, RecordsInv, Settled, Agrees, Joining, Leaving, Loading, InTable, OfSort
<1>6. RoomInv'
  BY <1>1 DEF RoomInv
<1>7. WatchInv'
  <2>1. ASSUME NEW n \in Radios, DevicesOf(n) \cap lost = {} PROVE WatchedWell(n)
    <3>1. WatchedWell(n) \/ \A d \in DevicesOf(n) : ~InTable(d)
      BY <2>1, <1>1 DEF DevicesInv, WatchInv, AllReported
    <3> QED
      BY <3>1 DEF WatchedWell, Well, InTable, Has
  <2> QED
    BY <2>1, <1>1 DEF WatchInv, WatchedWell
<1> QED
  BY <1>3, <1>4, <1>5, <1>6, <1>7

LEMMA LoadOverKeeps ==
  ASSUME DevicesInv, LoadOver
  PROVE  StageInv' /\ PlacesInv' /\ RecordsInv' /\ RoomInv' /\ WatchInv'
<1>1. /\ doing = "load" /\ reports = {} /\ doing' = "nothing"
      /\ UNCHANGED <<zw_nodes, saved, g_mid_device_info, hcRows, zwRows, reports, at, device, lost>>
  BY DEF LoadOver, rowVars
<1>2. at = "none" /\ device = Absent /\ saved = zw_nodes
  BY <1>1 DEF DevicesInv, StageInv, ZwDevicesTypeOK
<1>3. StageInv'
  BY <1>1, <1>2 DEF StageInv
<1>4. PlacesInv'
  BY <1>1 DEF DevicesInv, PlacesInv
<1>5. RecordsInv'
  <2>1. \A d \in VirtualDevices \ lost : Agrees(d)
    BY <1>1 DEF DevicesInv, RecordsInv, Loading, Agrees
  <2> QED
    BY <1>1, <1>2, <2>1, RadioAssumption
    DEF RecordsInv, Settled, Agrees, Joining, Leaving, Loading, InTable, OfSort
<1>6. RoomInv'
  BY <1>1 DEF RoomInv
<1>7. WatchInv'
  BY <1>1 DEF DevicesInv, WatchInv, WatchedWell, AllReported
<1> QED
  BY <1>3, <1>4, <1>5, <1>6, <1>7

LEMMA AddedSuccessKeeps ==
  ASSUME DevicesInv, NEW d0 \in VirtualDevices, AddedSuccess(d0)
  PROVE  StageInv' /\ PlacesInv' /\ RecordsInv' /\ RoomInv' /\ WatchInv'
<1>1. /\ doing = "add" /\ at = "none" /\ d0 \in reports /\ reports' = reports \ {d0}
      /\ UNCHANGED <<zw_nodes, saved, hcRows, zwRows, doing, read>>
  BY DEF AddedSuccess, Reports, rowVars
<1>2. device = Absent /\ zw_nodes[d0] \in Sorts /\ d0 # Absent
  BY <1>1, RadioAssumption DEF DevicesInv, StageInv, ZwDevicesTypeOK
<1> DEFINE Placing == /\ ~InTable(d0) /\ UnusedPlaces(g_mid_device_info) # {}
                      /\ g_mid_device_info' = Placed(g_mid_device_info, d0, zw_nodes[d0])
                      /\ at' = "add" /\ device' = d0 /\ lost' = lost
           Lost == /\ UNCHANGED g_mid_device_info /\ d0 \in lost' /\ lost' = lost \cup {d0}
                   /\ (at' = "none" /\ device' = Absent) \/ (at' = "add" /\ device' = d0)
<1>3. Placing \/ Lost
  <2>1. PlacesOf(g_mid_device_info, d0) = {} <=> ~InTable(d0)
    BY DEF PlacesOf, InTable, Has
  <2>2. InTable(d0) => d0 \in lost
    BY <1>1 DEF DevicesInv, RecordsInv, Joining
  <2>3. CASE g_fw_upgrade_flag
    BY <2>3, <1>1, <1>2 DEF AddedSuccess, Ignored
  <2>4. CASE ~g_fw_upgrade_flag
    BY <2>1, <2>2, <2>4 DEF AddedSuccess
  <2> QED
    BY <2>3, <2>4
<1>4. PICK table : table = g_mid_device_info
  OBVIOUS
<1>5. PICK after : after = g_mid_device_info'
  OBVIOUS
<1>6. /\ TableOK(after)
      /\ \A e \in VirtualDevices \ {d0} : Has(after, e) <=> Has(table, e)
      /\ \A e \in VirtualDevices \ {d0} : \A s : SortIs(table, e, s) => SortIs(after, e, s)
      /\ \A n \in Radios : Well(table, n) => Well(after, n)
      /\ Placing => Has(after, d0) /\ SortIs(after, d0, zw_nodes[d0])
  <2>1. TableOK(table)
    BY <1>4 DEF DevicesInv, PlacesInv
  <2>2. CASE Placing
    BY <2>1, <2>2, <1>2, <1>4, <1>5, PlacedKeeps DEF InTable
  <2>3. CASE Lost
    <3>1. after = table
      BY <2>3, <1>4, <1>5
    <3>2. ~Placing
      <4>1. ASSUME Placing PROVE FALSE
        <5>1. Has(after, d0) /\ ~Has(table, d0)
          BY <2>1, <4>1, <1>2, <1>4, <1>5, PlacedKeeps DEF InTable
        <5> QED
          BY <5>1, <3>1
      <4> QED
        BY <4>1
    <3> QED
      BY <2>1, <3>1, <3>2
  <2> QED
    BY <1>3, <2>2, <2>3
<1>7. d0 \notin lost' => Placing
  BY <1>3
<1>8. /\ lost \subseteq lost' /\ lost' \subseteq lost \cup {d0}
      /\ (at' = "none" /\ device' = Absent) \/ (at' = "add" /\ device' = d0)
      /\ Placing => at' = "add" /\ device' = d0
  BY <1>3
<1> HIDE DEF Placing, Lost
<1>9. StageInv'
  <2>1. device' \notin reports'
    BY <1>1, <1>8, RadioAssumption DEF DevicesInv, ZwDevicesTypeOK
  <2>2. \A d \in VirtualDevices : d \in reports' \/ d = device' => zw_nodes[d] # Absent
    BY <1>1, <1>8, RadioAssumption DEF DevicesInv, StageInv
  <2> QED
    BY <2>1, <2>2, <1>1, <1>2, <1>8 DEF StageInv
<1>10. PlacesInv'
  BY <1>5, <1>6 DEF PlacesInv
<1>11. RecordsInv'
  <2> SUFFICES ASSUME NEW d \in VirtualDevices, d \notin lost'
               PROVE  (Settled(d) /\ Joining(d) /\ Leaving(d) /\ Loading(d))'
    BY DEF RecordsInv
  <2>1. Settled(d) /\ Joining(d)
    BY <1>8 DEF DevicesInv, RecordsInv
  <2>2. CASE d = d0
    <3>1. hcRows[d0] = Absent /\ d0 \notin zwRows
      BY <2>1, <2>2, <1>1 DEF Joining
    <3>2. InTable(d0)' /\ OfSort(d0, zw_nodes[d0])' /\ at' = "add" /\ device' = d0
      BY <2>2, <1>1, <1>5, <1>6, <1>7, <1>8 DEF InTable, OfSort
    <3> QED
      BY <3>1, <3>2, <2>2, <1>1 DEF Settled, Joining, Leaving, Loading
  <2>3. CASE d # d0
    <3>1. InTable(d)' <=> InTable(d)
      BY <2>3, <1>4, <1>5, <1>6 DEF InTable
    <3>2. OfSort(d, zw_nodes[d]) => OfSort(d, zw_nodes[d])'
      BY <2>3, <1>1, <1>4, <1>5, <1>6 DEF OfSort
    <3>3. d # device' /\ d # device /\ (d \in reports' <=> d \in reports)
      BY <2>3, <1>1, <1>2, <1>8, RadioAssumption
    <3> QED
      BY <2>1, <3>1, <3>2, <3>3, <1>1, <1>8 DEF Settled, Agrees, Joining, Leaving, Loading
  <2> QED
    BY <2>2, <2>3
<1>12. RoomInv'
  BY <1>1 DEF RoomInv
<1>13. WatchInv'
  <2>1. \A n \in Radios : DevicesOf(n) \cap lost = {} => Well(table, n)
    BY <1>1, <1>4 DEF DevicesInv, WatchInv, AllReported, WatchedWell
  <2>2. \A n \in Radios : DevicesOf(n) \cap lost' = {} => WatchedWell(n)'
    BY <2>1, <1>5, <1>6, <1>8 DEF WatchedWell
  <2> QED
    BY <2>2, <1>1 DEF WatchInv
<1> QED
  BY <1>9, <1>10, <1>11, <1>12, <1>13

LEMMA DeletedSuccessKeeps ==
  ASSUME DevicesInv, NEW d0 \in VirtualDevices, DeletedSuccess(d0)
  PROVE  StageInv' /\ PlacesInv' /\ RecordsInv' /\ RoomInv' /\ WatchInv'
<1>1. /\ doing \in {"delete", "remove"} /\ at = "none" /\ d0 \in reports
      /\ reports' = reports \ {d0} /\ zw_nodes' = [zw_nodes EXCEPT ![d0] = Absent]
      /\ UNCHANGED <<saved, hcRows, zwRows, doing, read>>
  BY DEF DeletedSuccess, Reports, rowVars
<1>2. device = Absent /\ d0 # Absent
  BY <1>1, RadioAssumption DEF DevicesInv, StageInv
<1>3. /\ zw_nodes'[d0] = Absent
      /\ \A d \in VirtualDevices \ {d0} : zw_nodes'[d] = zw_nodes[d]
  BY <1>1 DEF DevicesInv, ZwDevicesTypeOK
<1> DEFINE Dropping == /\ g_mid_device_info' = Reset(g_mid_device_info, d0)
                       /\ at' = "delete" /\ device' = d0 /\ lost' = lost
           Lost == /\ UNCHANGED <<g_mid_device_info, at, device>> /\ lost' = lost \cup {d0}
<1>4. Dropping \/ Lost
  BY DEF DeletedSuccess, Ignored
<1>5. PICK table : table = g_mid_device_info
  OBVIOUS
<1>6. PICK after : after = g_mid_device_info'
  OBVIOUS
<1>7. /\ TableOK(after)
      /\ \A e \in VirtualDevices \ {d0} : Has(after, e) <=> Has(table, e)
      /\ \A e \in VirtualDevices \ {d0} : \A s : SortIs(table, e, s) => SortIs(after, e, s)
      /\ \A n \in Radios : n # RadioOf[d0] /\ Well(table, n) => Well(after, n)
      /\ device' = d0 => ~Has(after, d0)
  <2>1. TableOK(table)
    BY <1>5 DEF DevicesInv, PlacesInv
  <2>2. CASE Dropping
    BY <2>1, <2>2, <1>5, <1>6, ResetKeeps
  <2>3. CASE Lost
    <3>1. after = table /\ device' # d0
      BY <2>3, <1>2, <1>5, <1>6
    <3> QED
      BY <2>1, <3>1
  <2> QED
    BY <1>4, <2>2, <2>3
<1>8. /\ lost \subseteq lost'
      /\ (at' = "none" /\ device' = Absent /\ d0 \in lost') \/ (at' = "delete" /\ device' = d0)
  BY <1>1, <1>2, <1>4
<1> HIDE DEF Dropping, Lost
<1>9. StageInv'
  <2>1. device' \notin reports'
    BY <1>1, <1>8, RadioAssumption DEF DevicesInv, ZwDevicesTypeOK
  <2>2. at' = "delete" => ~InTable(device)' /\ zw_nodes'[device'] = Absent
    BY <1>3, <1>6, <1>7, <1>8 DEF InTable
  <2> QED
    BY <2>1, <2>2, <1>1, <1>2, <1>8 DEF StageInv
<1>10. PlacesInv'
  BY <1>6, <1>7 DEF PlacesInv
<1>11. RecordsInv'
  <2> SUFFICES ASSUME NEW d \in VirtualDevices, d \notin lost'
               PROVE  (Settled(d) /\ Joining(d) /\ Leaving(d) /\ Loading(d))'
    BY DEF RecordsInv
  <2>1. CASE d = d0
    BY <2>1, <1>1, <1>8 DEF Settled, Joining, Leaving, Loading
  <2>2. CASE d # d0
    <3>1. InTable(d)' <=> InTable(d)
      BY <2>2, <1>5, <1>6, <1>7 DEF InTable
    <3>2. OfSort(d, zw_nodes[d]) => OfSort(d, zw_nodes[d])'
      BY <2>2, <1>3, <1>5, <1>6, <1>7 DEF OfSort
    <3>3. d # device' /\ d # device /\ (d \in reports' <=> d \in reports)
      BY <2>2, <1>1, <1>2, <1>8, RadioAssumption
    <3>4. Settled(d)
      BY <1>8 DEF DevicesInv, RecordsInv
    <3>5. Settled(d)'
      BY <2>2, <3>1, <3>2, <3>3, <3>4, <1>1, <1>3 DEF Settled, Agrees
    <3> QED
      BY <3>3, <3>5, <1>1, <1>8 DEF Joining, Leaving, Loading
  <2> QED
    BY <2>1, <2>2
<1>12. RoomInv'
  BY <1>1 DEF RoomInv
<1>13. WatchInv'
  <2>1. AllReported(DevicesOf(RadioOf[d0]) \ lost)
    BY <1>1 DEF DevicesInv, WatchInv
  <2>2. ASSUME NEW D, D \subseteq VirtualDevices, AllReported(D), d0 \in D => d0 = device'
        PROVE  AllReported(D)'
    <3>1. \A d \in D : Has(after, d) => d \in reports'
      BY <2>2, <1>1, <1>5, <1>7 DEF AllReported, InTable
    <3> QED
      BY <3>1, <1>1, <1>6 DEF AllReported, InTable
  <2>3. ASSUME NEW d \in VirtualDevices, d \in reports' \/ d = device'
        PROVE  AllReported(DevicesOf(RadioOf[d]) \ lost)'
    <3>1. AllReported(DevicesOf(RadioOf[d]) \ lost)
      BY <2>3, <2>1, <1>1, <1>8, RadioAssumption DEF DevicesInv, WatchInv
    <3>2. AllReported(DevicesOf(RadioOf[d]) \ lost')
      BY <3>1, <1>8 DEF AllReported
    <3>3. PICK D : D = DevicesOf(RadioOf[d]) \ lost'
      OBVIOUS
    <3>4. D \subseteq VirtualDevices /\ (d0 \in D => d0 = device')
      BY <3>3, <1>8 DEF DevicesOf
    <3>5. AllReported(D)'
      BY <3>2, <3>3, <3>4, <2>2
    <3> QED
      BY <3>3, <3>5 DEF AllReported
  <2>4. ASSUME NEW n \in Radios, DevicesOf(n) \cap lost' = {}
        PROVE  WatchedWell(n)' \/ AllReported(DevicesOf(n))'
    <3>1. d0 \in DevicesOf(n) => n = RadioOf[d0] /\ d0 = device'
      BY <2>4, <1>8 DEF DevicesOf
    <3>2. CASE n = RadioOf[d0]
      <4>1. AllReported(DevicesOf(n))
        BY <2>1, <2>4, <3>2, <1>8 DEF AllReported
      <4> QED
        BY <4>1, <3>1, <2>2 DEF DevicesOf
    <3>3. CASE n # RadioOf[d0]
      <4>1. CASE WatchedWell(n)
        BY <4>1, <3>3, <1>5, <1>6, <1>7 DEF WatchedWell
      <4>2. CASE AllReported(DevicesOf(n))
        BY <4>2, <3>1, <2>2 DEF DevicesOf
      <4> QED
        BY <4>1, <4>2, <2>4, <1>8 DEF DevicesInv, WatchInv
    <3> QED
      BY <3>2, <3>3
  <2> QED
    BY <2>3, <2>4 DEF WatchInv
<1> QED
  BY <1>9, <1>10, <1>11, <1>12, <1>13

\* A table whose rows are all used, each by a device that has a place of its own, leaves
\* no place for another device.
LEMMA FullTable ==
  ASSUME NEW table, TableOK(table), \A p \in Places : table[p].dev \in VirtualDevices,
         NEW placeOf \in [VirtualDevices -> Places], NEW d \in VirtualDevices, ~Has(table, d),
         \A e \in VirtualDevices : Has(table, e) =>
           placeOf[e] # placeOf[d] /\
           \A f \in VirtualDevices : Has(table, f) /\ placeOf[e] = placeOf[f] => e = f
  PROVE  FALSE
<1> DEFINE f == [i \in 0 .. SlotCount |-> IF i = 0 THEN placeOf[d] ELSE placeOf[table[i].dev]]
<1>1. IsFiniteSet(Places) /\ Cardinality(Places) = SlotCount
  BY DeviceBoundsAssumption, FS_Interval DEF Places
<1>2. IsFiniteSet(0 .. SlotCount) /\ Cardinality(0 .. SlotCount) = SlotCount + 1
  BY DeviceBoundsAssumption, FS_Interval
<1>3. \A i \in 0 .. SlotCount : i = 0 \/ i \in Places
  BY DeviceBoundsAssumption DEF Places
<1>4. f \in [0 .. SlotCount -> Places]
  BY <1>3
<1>5. \A i \in Places : i \in 0 .. SlotCount /\ i # 0
  BY DeviceBoundsAssumption DEF Places
<1>6. f[0] = placeOf[d] /\ \A i \in Places : f[i] = placeOf[table[i].dev]
  <2>1. 0 \in 0 .. SlotCount
    BY DeviceBoundsAssumption
  <2> QED
    BY <1>5, <2>1
<1> HIDE DEF f
<1>7. PICK x \in 0 .. SlotCount, y \in 0 .. SlotCount : x # y /\ f[x] = f[y]
  <2>1. Cardinality(Places) < Cardinality(0 .. SlotCount)
    BY <1>1, <1>2, DeviceBoundsAssumption
  <2>2. PICK S : S = 0 .. SlotCount
    OBVIOUS
  <2>3. PICK T : T = Places
    OBVIOUS
  <2>4. IsFiniteSet(S) /\ IsFiniteSet(T) /\ Cardinality(T) < Cardinality(S) /\ f \in [S -> T]
    BY <1>1, <1>2, <1>4, <2>1, <2>2, <2>3
  <2>5. \E x, y \in S : x # y /\ f[x] = f[y]
    BY ONLY <2>4, FS_PigeonHole
  <2> QED
    BY <2>2, <2>5
<1>8. \A p \in Places : Has(table, table[p].dev)
  BY DEF Has
<1>9. ASSUME NEW p \in Places PROVE f[p] # f[0]
  BY <1>6, <1>8
<1>10. ASSUME NEW p \in Places, NEW q \in Places, f[p] = f[q] PROVE p = q
  <2>1. table[p].dev = table[q].dev
    BY <1>6, <1>8, <1>10
  <2> QED
    BY <2>1, RadioAssumption DEF TableOK, DevicesOnce
<1> QED
  BY <1>3, <1>7, <1>9, <1>10

LEMMA LoadDeviceKeeps ==
  ASSUME DevicesInv, NEW d0 \in VirtualDevices, LoadDevice(d0)
  PROVE  StageInv' /\ PlacesInv' /\ RecordsInv' /\ RoomInv' /\ WatchInv'
<1>1. /\ doing = "load" /\ d0 \in reports
      /\ UNCHANGED <<zw_nodes, saved, hcRows, zwRows, read, at, device, lost>>
  BY DEF LoadDevice, rowVars
<1>2. /\ at = "none" /\ device = Absent /\ saved = zw_nodes
      /\ read[d0] \in Sorts /\ ~InTable(d0)
  BY <1>1 DEF DevicesInv, StageInv, ZwDevicesTypeOK
<1>3. CASE UnusedPlaces(g_mid_device_info) = {}
  <2>1. doing' = "exit" /\ reports' = {} /\ UNCHANGED g_mid_device_info
    BY <1>3 DEF LoadDevice
  <2>2. StageInv'
    BY <2>1, <1>1, <1>2 DEF StageInv
  <2>3. PlacesInv'
    BY <2>1 DEF DevicesInv, PlacesInv
  <2>4. RecordsInv'
    BY <2>1, <1>1, <1>2 DEF RecordsInv, Settled, Joining, Leaving, Loading
  <2>5. \A p \in Places : g_mid_device_info[p].dev # Absent
    BY <1>3 DEF UnusedPlaces
  <2>6. ASSUME lost = {} PROVE FALSE
    <3>1. PICK placeOf \in [VirtualDevices -> Places] : Fits(placeOf)
      BY <2>6, <1>1 DEF DevicesInv, RoomInv
    <3>2. PICK table : table = g_mid_device_info
      OBVIOUS
    <3>3. \A e \in VirtualDevices : Loading(e)
      BY <2>6 DEF DevicesInv, RecordsInv
    <3>4. hcRows[d0] # Absent
      BY <3>3, <1>1 DEF Loading
    <3>5. \A e \in VirtualDevices : Has(table, e) => hcRows[e] # Absent
      BY <3>2, <3>3, <1>1 DEF Loading, InTable
    <3>6. \A e \in VirtualDevices : Has(table, e) =>
            placeOf[e] # placeOf[d0] /\
            \A f \in VirtualDevices : Has(table, f) /\ placeOf[e] = placeOf[f] => e = f
      BY <3>1, <3>2, <3>4, <3>5, <1>2 DEF Fits, InTable
    <3>7. TableOK(table) /\ ~Has(table, d0)
      BY <3>2, <1>2 DEF DevicesInv, PlacesInv, InTable
    <3>8. \A p \in Places : table[p].dev \in VirtualDevices
      BY <2>5, <3>2 DEF DevicesInv, ZwDevicesTypeOK, Record
    <3> QED
      BY <3>6, <3>7, <3>8, FullTable
  <2>7. RoomInv'
    BY <2>1, <2>5, <2>6, <1>1 DEF RoomInv
  <2>8. WatchInv'
    BY <2>1, <1>1 DEF DevicesInv, WatchInv, AllReported, WatchedWell
  <2> QED
    BY <2>2, <2>3, <2>4, <2>7, <2>8
<1>4. CASE UnusedPlaces(g_mid_device_info) # {}
  <2>1. /\ doing' = doing /\ reports' = reports \ {d0}
        /\ g_mid_device_info' = Placed(g_mid_device_info, d0, read[d0])
    BY <1>4 DEF LoadDevice
  <2>2. PICK table : table = g_mid_device_info
    OBVIOUS
  <2>3. PICK after : after = g_mid_device_info'
    OBVIOUS
  <2>4. /\ TableOK(after) /\ Has(after, d0) /\ SortIs(after, d0, read[d0])
        /\ \A e \in VirtualDevices \ {d0} : Has(after, e) <=> Has(table, e)
        /\ \A e \in VirtualDevices \ {d0} : \A s : SortIs(table, e, s) => SortIs(after, e, s)
        /\ \A n \in Radios : Well(table, n) => Well(after, n)
    <3>1. TableOK(table) /\ ~Has(table, d0)
      BY <1>2, <2>2 DEF DevicesInv, PlacesInv, InTable
    <3> QED
      BY <3>1, <2>1, <2>2, <2>3, <1>2, <1>4, PlacedKeeps
  <2>5. \A d \in VirtualDevices \ {d0} : InTable(d)' <=> InTable(d)
    BY <2>2, <2>3, <2>4 DEF InTable
  <2>6. StageInv'
    <3>1. \A d \in reports' : read'[d] # Absent /\ ~InTable(d)'
      BY <2>1, <2>5, <1>1 DEF DevicesInv, ZwDevicesTypeOK, StageInv
    <3> QED
      BY <3>1, <2>1, <1>1, <1>2, RadioAssumption DEF DevicesInv, ZwDevicesTypeOK, StageInv
  <2>7. PlacesInv'
    BY <2>3, <2>4 DEF PlacesInv
  <2>8. RecordsInv'
    <3> SUFFICES ASSUME NEW d \in VirtualDevices, d \notin lost'
                 PROVE  (Settled(d) /\ Joining(d) /\ Leaving(d) /\ Loading(d))'
      BY DEF RecordsInv
    <3>1. Loading(d)
      BY <1>1 DEF DevicesInv, RecordsInv
    <3>2. CASE d = d0
      <4>1. read[d0] = zw_nodes[d0] /\ read[d0] # Absent
        BY <3>1, <3>2, <1>1 DEF Loading
      <4>2. InTable(d0)' /\ OfSort(d0, zw_nodes[d0])'
        BY <4>1, <2>3, <2>4, <1>1 DEF InTable, OfSort
      <4>3. Loading(d)'
        BY <3>1, <3>2, <4>1, <4>2, <2>1, <1>1 DEF Loading
      <4> QED
        BY <4>3, <2>1, <1>1, <1>2 DEF Settled, Joining, Leaving
    <3>3. CASE d # d0
      <4>1. OfSort(d, zw_nodes[d]) => OfSort(d, zw_nodes[d])'
        BY <3>3, <2>2, <2>3, <2>4, <1>1 DEF OfSort
      <4>2. Loading(d)'
        BY <3>1, <3>3, <4>1, <2>1, <2>5, <1>1 DEF Loading
      <4> QED
        BY <4>2, <2>1, <1>1, <1>2 DEF Settled, Joining, Leaving
    <3> QED
      BY <3>2, <3>3
  <2>9. RoomInv'
    BY <2>1, <1>1 DEF DevicesInv, RoomInv, Fits
  <2>10. WatchInv'
    <3>1. \A n \in Radios : DevicesOf(n) \cap lost = {} => Well(table, n)
      BY <1>1, <2>2 DEF DevicesInv, WatchInv, AllReported, WatchedWell
    <3> QED
      BY <3>1, <2>1, <2>3, <2>4, <1>1 DEF WatchInv, WatchedWell
  <2> QED
    BY <2>6, <2>7, <2>8, <2>9, <2>10
<1> QED
  BY <1>3, <1>4

LEMMA CrashKeeps ==
  ASSUME DevicesInv, Crash
  PROVE  StageInv' /\ PlacesInv' /\ RecordsInv' /\ RoomInv' /\ WatchInv'
<1>1. /\ doing # "exit" /\ doing' = "load" /\ zw_nodes' = saved /\ at' = "none"
      /\ device' = Absent /\ g_mid_device_info' = [p \in Places |-> Unused]
      /\ reports' = {d \in VirtualDevices : hcRows[d] # Absent} /\ read' = hcRows
      /\ lost' = lost \cup {d \in VirtualDevices :
                              \/ d \in reports \cup {device} /\ doing # "load"
                              \/ zw_nodes[d] # saved[d]}
      /\ UNCHANGED <<saved, hcRows, zwRows>>
  BY DEF Crash, rowVars
<1>2. PICK table : table = g_mid_device_info'
  OBVIOUS
<1>3. /\ TableOK(table) /\ \A n \in Radios : Well(table, n)
      /\ \A d \in VirtualDevices : ~Has(table, d)
  BY <1>1, <1>2, EmptyTable
<1>4. \A d \in VirtualDevices : ~InTable(d)'
  BY <1>2, <1>3 DEF InTable
<1>5. ASSUME NEW d \in VirtualDevices \ lost'
      PROVE  /\ d \notin lost /\ zw_nodes'[d] = zw_nodes[d] /\ hcRows[d] = zw_nodes[d]
             /\ d \in zwRows <=> zw_nodes[d] # Absent
             /\ doing # "load" => (InTable(d) <=> zw_nodes[d] # Absent)
  <2>1. d \notin lost /\ zw_nodes'[d] = zw_nodes[d]
    BY <1>1
  <2>2. Settled(d) /\ Loading(d)
    BY <2>1 DEF DevicesInv, RecordsInv
  <2>3. CASE doing = "load"
    BY <2>1, <2>2, <2>3 DEF Loading
  <2>4. CASE doing # "load"
    <3>1. d \notin reports /\ d # device
      BY <2>4, <1>1
    <3> QED
      BY <2>1, <2>2, <2>4, <3>1, <1>1 DEF Settled, Agrees
  <2> QED
    BY <2>3, <2>4
<1>6. StageInv'
  BY <1>1, <1>4, RadioAssumption DEF StageInv
<1>7. PlacesInv'
  BY <1>2, <1>3 DEF PlacesInv
<1>8. RecordsInv'
  <2> SUFFICES ASSUME NEW d \in VirtualDevices \ lost'
               PROVE  (Settled(d) /\ Joining(d) /\ Leaving(d) /\ Loading(d))'
    BY DEF RecordsInv
  <2>1. OfSort(d, zw_nodes[d])'
    BY <1>4 DEF OfSort, InTable, SortIs, Has
  <2>2. Loading(d)'
    BY <2>1, <1>1, <1>4, <1>5 DEF Loading
  <2> QED
    BY <2>2, <1>1 DEF Settled, Joining, Leaving
<1>9. RoomInv'
  <2> SUFFICES ASSUME lost' = {} PROVE \E placeOf \in [VirtualDevices -> Places] : Fits(placeOf)'
    BY <1>1 DEF RoomInv
  <2>1. lost = {}
    BY <1>1
  <2>2. CASE doing = "load"
    BY <2>1, <2>2, <1>1 DEF DevicesInv, RoomInv, Fits
  <2>3. CASE doing # "load"
    <3> DEFINE placeOf ==
          [d \in VirtualDevices |->
             IF InTable(d) THEN CHOOSE p \in Places : g_mid_device_info[p].dev = d ELSE 1]
    <3>1. 1 \in Places
      BY DeviceBoundsAssumption DEF Places
    <3>2. ASSUME NEW d \in VirtualDevices
          PROVE  /\ placeOf[d] \in Places
                 /\ hcRows[d] # Absent => g_mid_device_info[placeOf[d]].dev = d
      <4>1. hcRows[d] # Absent => InTable(d)
        BY <2>3, <1>5
      <4>2. InTable(d) => \E p \in Places : g_mid_device_info[p].dev = d
        BY DEF InTable, Has
      <4> QED
        BY <4>1, <4>2, <3>1
    <3>3. placeOf \in [VirtualDevices -> Places]
      BY <3>2
    <3> HIDE DEF placeOf
    <3>4. \A d, e \in VirtualDevices :
            hcRows[d] # Absent /\ hcRows[e] # Absent /\ placeOf[d] = placeOf[e] => d = e
      BY <3>2
    <3>5. PICK f \in [VirtualDevices -> Places] : f = placeOf
      BY <3>3
    <3>6. Fits(f)
      BY <3>4, <3>5 DEF Fits
    <3> QED
      BY <3>6, <1>1 DEF Fits
  <2> QED
    BY <2>2, <2>3
<1>10. WatchInv'
  BY <1>1, <1>2, <1>3 DEF WatchInv, WatchedWell
<1> QED
  BY <1>6, <1>7, <1>8, <1>9, <1>10

-----------------------------------------------------------------------------
\* A statement of the database disturbs the rows of the device reported, no other's.
LEMMA StatementKeeps ==
  ASSUME DevicesInv, NEW stage \in {"add", "added", "undo", "delete", "deleted"},
         Statement(stage), NEW d0 \in VirtualDevices, device = d0,
         at' \in {"none", "added", "undo", "deleted"},
         device' = IF at' = "none" THEN Absent ELSE d0,
         at' \in {"added", "undo"} => doing = "add",
         at' = "deleted" => doing \in {"delete", "remove"} /\ at = "delete",
         at' = "undo" => d0 \in lost',
         \A d \in VirtualDevices \ {d0} :
           /\ d \in lost' <=> d \in lost
           /\ hcRows'[d] = hcRows[d] /\ (d \in zwRows' <=> d \in zwRows),
         d0 \notin lost' =>
           /\ at' = "none" => Agrees(d0)'
           /\ Joining(d0)' /\ Leaving(d0)' /\ Loading(d0)',
         d0 \in lost /\ d0 \notin lost' => stage = "deleted"
  PROVE  StageInv' /\ PlacesInv' /\ RecordsInv' /\ RoomInv' /\ WatchInv'
<1>1. /\ at = stage
      /\ UNCHANGED <<zw_nodes, saved, g_mid_device_info, doing, reports, read>>
  BY DEF Statement
<1>2. /\ d0 # Absent /\ d0 \notin reports /\ doing \in {"add", "delete", "remove"}
      /\ stage = "deleted" => doing \in {"delete", "remove"} /\ ~InTable(d0)
  BY <1>1, RadioAssumption DEF DevicesInv, StageInv, ZwDevicesTypeOK
<1>3. StageInv'
  <2>1. device' \notin reports'
    BY <1>1, <1>2, RadioAssumption DEF DevicesInv, ZwDevicesTypeOK
  <2>2. at' = "deleted" => ~InTable(device)' /\ zw_nodes'[device'] = Absent
    BY <1>1 DEF DevicesInv, StageInv, InTable
  <2>3. doing' = "add" =>
          \A d \in VirtualDevices : d \in reports' \/ d = device' => zw_nodes'[d] # Absent
    BY <1>1, RadioAssumption DEF DevicesInv, StageInv
  <2> QED
    BY <2>1, <2>2, <2>3, <1>1, <1>2 DEF StageInv
<1>4. PlacesInv'
  BY <1>1 DEF DevicesInv, PlacesInv
<1>5. RecordsInv'
  <2> SUFFICES ASSUME NEW d \in VirtualDevices, d \notin lost'
               PROVE  (Settled(d) /\ Joining(d) /\ Leaving(d) /\ Loading(d))'
    BY DEF RecordsInv
  <2>1. CASE d = d0
    <3>1. Settled(d)'
      <4>1. at' # "none" => d0 = device'
        OBVIOUS
      <4>2. at' = "none" => Agrees(d)'
        BY <2>1
      <4> QED
        BY <2>1, <4>1, <4>2 DEF Settled
    <3> QED
      BY <2>1, <3>1
  <2>2. CASE d # d0
    <3>1. Settled(d) /\ Joining(d)
      BY <2>2 DEF DevicesInv, RecordsInv
    <3>2. d # device' /\ d # Absent
      BY <2>2, RadioAssumption
    <3>3. Settled(d)'
      BY <2>2, <3>1, <3>2, <1>1 DEF Settled, Agrees, InTable, OfSort
    <3>4. Joining(d)'
      BY <2>2, <3>1, <3>2, <1>1 DEF Joining, InTable, OfSort
    <3> QED
      BY <3>2, <3>3, <3>4, <1>1, <1>2 DEF Leaving, Loading
  <2> QED
    BY <2>1, <2>2
<1>6. RoomInv'
  BY <1>1, <1>2 DEF RoomInv
<1>7. WatchInv'
  <2>1. ASSUME NEW d \in VirtualDevices, d \in lost, d \notin lost'
        PROVE  d = d0 /\ ~InTable(d) /\ doing \in {"delete", "remove"}
    BY <2>1, <1>2
  <2>2. ASSUME NEW D, D \subseteq VirtualDevices, AllReported(D \ lost)
        PROVE  AllReported(D \ lost)'
    <3>1. PICK E : E = D \ lost'
      OBVIOUS
    <3>2. \A d \in E : InTable(d) => d \in reports
      BY <2>1, <2>2, <3>1 DEF AllReported
    <3>3. AllReported(E)'
      BY <2>2, <3>2, <1>1 DEF AllReported, InTable
    <3> QED
      BY <3>1, <3>3 DEF AllReported
  <2>3. ASSUME NEW n \in Radios, DevicesOf(n) \cap lost' = {}
        PROVE  WatchedWell(n)' \/ AllReported(DevicesOf(n))'
    <3>1. CASE DevicesOf(n) \cap lost = {}
      BY <3>1, <1>1 DEF DevicesInv, WatchInv, WatchedWell, AllReported, InTable
    <3>2. CASE DevicesOf(n) \cap lost # {}
      <4>1. d0 \in DevicesOf(n) /\ doing \in {"delete", "remove"}
        BY <2>1, <2>3, <3>2 DEF DevicesOf
      <4>2. n = RadioOf[d0]
        BY <4>1 DEF DevicesOf
      <4>3. AllReported(DevicesOf(n) \ lost)
        BY <4>1, <4>2 DEF DevicesInv, WatchInv
      <4>4. AllReported(DevicesOf(n) \ lost)'
        BY <4>3, <2>2 DEF DevicesOf
      <4>5. \A d \in DevicesOf(n) : d \in DevicesOf(n) \ lost'
        BY <2>3
      <4> QED
        BY <4>4, <4>5 DEF AllReported
    <3> QED
      BY <3>1, <3>2
  <2>4. ASSUME NEW d \in VirtualDevices, d \in reports' \/ d = device',
               doing \in {"delete", "remove"}
        PROVE  AllReported(DevicesOf(RadioOf[d]) \ lost)'
    <3>1. AllReported(DevicesOf(RadioOf[d]) \ lost)
      BY <2>4, <1>1, RadioAssumption DEF DevicesInv, WatchInv
    <3> QED
      BY <3>1, <2>2 DEF DevicesOf
  <2> QED
    BY <2>3, <2>4, <1>1 DEF WatchInv
<1> QED
  BY <1>3, <1>4, <1>5, <1>6, <1>7

LEMMA AddHcRowKeeps ==
  ASSUME DevicesInv, AddHcRow
  PROVE  StageInv' /\ PlacesInv' /\ RecordsInv' /\ RoomInv' /\ WatchInv'
<1>1. PICK d0 \in VirtualDevices : d0 = device
  BY DEF AddHcRow, Statement, DevicesInv, StageInv, ZwDevicesTypeOK
<1>2. /\ at = "add" /\ doing = "add" /\ zw_nodes[d0] # Absent
      /\ UNCHANGED <<zw_nodes, g_mid_device_info, doing, reports, read, zwRows>>
  BY <1>1 DEF AddHcRow, Statement, DevicesInv, StageInv
<1>3. d0 \notin lost =>
        /\ hcRows[d0] = Absent /\ d0 \notin zwRows /\ d0 \notin reports
        /\ InTable(d0) /\ OfSort(d0, zw_nodes[d0])
  BY <1>1, <1>2 DEF DevicesInv, RecordsInv, StageInv, Joining
<1>4. /\ at' \in {"none", "added"} /\ device' = IF at' = "none" THEN Absent ELSE d0
      /\ \A d \in VirtualDevices \ {d0} : (d \in lost' <=> d \in lost) /\ hcRows'[d] = hcRows[d]
      /\ lost \subseteq lost'
      /\ d0 \notin lost' => at' = "added" /\ hcRows'[d0] = zw_nodes[d0]
  <2>1. CASE hcRows[device] # Absent /\ ReportOver /\ UNCHANGED <<hcRows, failures, lost>>
    BY <1>1, <1>3, <2>1 DEF ReportOver
  <2>2. CASE /\ Fine("added") /\ hcRows' = [hcRows EXCEPT ![device] = zw_nodes[device]]
             /\ UNCHANGED lost
    BY <1>1, <2>2 DEF Fine, DevicesInv, ZwDevicesTypeOK
  <2>3. CASE /\ ReportOver /\ lost' = lost \cup {device}
             /\ \/ UNCHANGED hcRows
                \/ hcRows' = [hcRows EXCEPT ![device] = zw_nodes[device]]
    BY <1>1, <2>3 DEF ReportOver, DevicesInv, ZwDevicesTypeOK
  <2> QED
    BY <2>1, <2>2, <2>3 DEF AddHcRow
<1>5. d0 \notin lost' =>
        /\ at' = "none" => Agrees(d0)'
        /\ Joining(d0)' /\ Leaving(d0)' /\ Loading(d0)'
  BY <1>2, <1>3, <1>4 DEF Joining, Leaving, Loading, InTable, OfSort
<1>6. Statement("add")
  BY DEF AddHcRow
<1> QED
  BY <1>1, <1>2, <1>4, <1>5, <1>6, StatementKeeps

LEMMA AddZwRowKeeps ==
  ASSUME DevicesInv, AddZwRow
  PROVE  StageInv' /\ PlacesInv' /\ RecordsInv' /\ RoomInv' /\ WatchInv'
<1>1. PICK d0 \in VirtualDevices : d0 = device
  BY DEF AddZwRow, Statement, DevicesInv, StageInv, ZwDevicesTypeOK
<1>2. /\ at = "added" /\ doing = "add" /\ zw_nodes[d0] # Absent
      /\ UNCHANGED <<zw_nodes, g_mid_device_info, doing, reports, read, hcRows>>
  BY <1>1 DEF AddZwRow, Statement, DevicesInv, StageInv
<1>3. d0 \notin lost =>
        /\ hcRows[d0] = zw_nodes[d0] /\ d0 \notin reports
        /\ InTable(d0) /\ OfSort(d0, zw_nodes[d0])
  BY <1>1, <1>2 DEF DevicesInv, RecordsInv, StageInv, Joining
<1>4. /\ at' \in {"none", "undo"} /\ device' = IF at' = "none" THEN Absent ELSE d0
      /\ \A d \in VirtualDevices \ {d0} :
           (d \in lost' <=> d \in lost) /\ (d \in zwRows' <=> d \in zwRows)
      /\ lost \subseteq lost'
      /\ d0 \in lost' \/ (at' = "none" /\ d0 \in zwRows')
      /\ at' = "undo" => d0 \in lost'
  <2>1. CASE zwRows' = zwRows \cup {device} /\ ReportOver /\ UNCHANGED <<lost, failures>>
    BY <1>1, <2>1 DEF ReportOver
  <2>2. CASE /\ lost' = lost \cup {device} /\ UNCHANGED zwRows
             /\ Fine("undo") \/ FailsFor("undo")
    BY <1>1, <2>2 DEF Fine, FailsFor
  <2> QED
    BY <2>1, <2>2 DEF AddZwRow
<1>5. d0 \notin lost' =>
        /\ at' = "none" => Agrees(d0)'
        /\ Joining(d0)' /\ Leaving(d0)' /\ Loading(d0)'
  <2> SUFFICES ASSUME d0 \notin lost'
               PROVE  Agrees(d0)' /\ Joining(d0)' /\ Leaving(d0)' /\ Loading(d0)'
    OBVIOUS
  <2>1. at' = "none" /\ d0 \in zwRows' /\ d0 \notin lost /\ device' # d0
    BY <1>4, RadioAssumption
  <2>2. Agrees(d0)'
    BY <2>1, <1>2, <1>3 DEF Agrees, InTable, OfSort
  <2> QED
    BY <2>1, <2>2, <1>2, <1>3 DEF Joining, Leaving, Loading
<1>6. Statement("added")
  BY DEF AddZwRow
<1> QED
  BY <1>1, <1>2, <1>4, <1>5, <1>6, StatementKeeps

LEMMA UndoHcRowKeeps ==
  ASSUME DevicesInv, UndoHcRow
  PROVE  StageInv' /\ PlacesInv' /\ RecordsInv' /\ RoomInv' /\ WatchInv'
<1>1. PICK d0 \in VirtualDevices : d0 = device
  BY DEF UndoHcRow, Statement, DevicesInv, StageInv, ZwDevicesTypeOK
<1>2. /\ at' = "none" /\ device' = Absent /\ UNCHANGED <<zwRows, lost>> /\ d0 \in lost'
      /\ \A d \in VirtualDevices \ {d0} : hcRows'[d] = hcRows[d]
  BY <1>1 DEF UndoHcRow, Statement, ReportOver, DevicesInv, StageInv, ZwDevicesTypeOK
<1>3. Statement("undo")
  BY DEF UndoHcRow
<1> QED
  BY <1>1, <1>2, <1>3, StatementKeeps

LEMMA DeleteZwRowKeeps ==
  ASSUME DevicesInv, DeleteZwRow
  PROVE  StageInv' /\ PlacesInv' /\ RecordsInv' /\ RoomInv' /\ WatchInv'
<1>1. PICK d0 \in VirtualDevices : d0 = device
  BY DEF DeleteZwRow, Statement, DevicesInv, StageInv, ZwDevicesTypeOK
<1>2. /\ at = "delete" /\ doing \in {"delete", "remove"}
      /\ at' = "deleted" /\ device' = d0 /\ UNCHANGED <<hcRows, doing>>
      /\ \A d \in VirtualDevices \ {d0} :
           (d \in lost' <=> d \in lost) /\ (d \in zwRows' <=> d \in zwRows)
      /\ lost \subseteq lost' /\ (d0 \notin lost' => d0 \notin zwRows')
  BY <1>1 DEF DeleteZwRow, Statement, Fine, FailsFor, DevicesInv, StageInv
<1>3. d0 \notin lost' => Joining(d0)' /\ Leaving(d0)' /\ Loading(d0)'
  BY <1>2 DEF Joining, Leaving, Loading
<1>4. Statement("delete")
  BY DEF DeleteZwRow
<1> QED
  BY <1>1, <1>2, <1>3, <1>4, StatementKeeps

LEMMA DeleteHcRowKeeps ==
  ASSUME DevicesInv, DeleteHcRow
  PROVE  StageInv' /\ PlacesInv' /\ RecordsInv' /\ RoomInv' /\ WatchInv'
<1>1. PICK d0 \in VirtualDevices : d0 = device
  BY DEF DeleteHcRow, Statement, DevicesInv, StageInv, ZwDevicesTypeOK
<1>2. /\ at = "deleted" /\ doing \in {"delete", "remove"} /\ at' = "none" /\ device' = Absent
      /\ ~InTable(d0) /\ zw_nodes[d0] = Absent
      /\ UNCHANGED <<zw_nodes, g_mid_device_info, doing, zwRows>>
  BY <1>1 DEF DeleteHcRow, Statement, ReportOver, DevicesInv, StageInv
<1>3. /\ \A d \in VirtualDevices \ {d0} : (d \in lost' <=> d \in lost) /\ hcRows'[d] = hcRows[d]
      /\ d0 \notin lost' => hcRows'[d0] = Absent /\ (d0 \notin lost \/ d0 \notin zwRows)
  <2>1. CASE /\ hcRows' = [hcRows EXCEPT ![device] = Absent]
             /\ lost' = IF device \in zwRows THEN lost ELSE lost \ {device}
    BY <1>1, <2>1 DEF DevicesInv, ZwDevicesTypeOK
  <2>2. CASE lost' = lost \cup {device} /\ UNCHANGED hcRows
    BY <1>1, <2>2
  <2> QED
    BY <2>1, <2>2 DEF DeleteHcRow
<1>4. d0 \notin lost => d0 \notin zwRows
  BY <1>1, <1>2 DEF DevicesInv, RecordsInv, Leaving
<1>5. d0 \notin lost' =>
        /\ at' = "none" => Agrees(d0)'
        /\ Joining(d0)' /\ Leaving(d0)' /\ Loading(d0)'
  <2>1. OfSort(d0, zw_nodes[d0])' /\ ~InTable(d0)'
    BY <1>2 DEF OfSort, SortIs, InTable, Has
  <2>2. d0 \notin lost' => Agrees(d0)'
    BY <2>1, <1>2, <1>3, <1>4 DEF Agrees
  <2>3. Joining(d0)' /\ Leaving(d0)' /\ Loading(d0)'
    BY <1>2 DEF Joining, Leaving, Loading
  <2> QED
    BY <2>2, <2>3
<1>6. Statement("deleted")
  BY DEF DeleteHcRow
<1> QED
  BY <1>1, <1>2, <1>3, <1>5, <1>6, StatementKeeps

-----------------------------------------------------------------------------
LEMMA InitDevices == ZwDevicesInit => DevicesInv
<1> SUFFICES ASSUME ZwDevicesInit PROVE DevicesInv
  OBVIOUS
<1> USE DEF ZwDevicesInit
<1>1. /\ PlacesInv /\ \A n \in Radios : WatchedWell(n)
      /\ \A d \in VirtualDevices : ~InTable(d)
  BY EmptyTable DEF PlacesInv, WatchedWell, InTable
<1>2. ZwDevicesTypeOK
  <2>1. NoNodes \in [VirtualDevices -> Sorts \cup {Absent}]
    BY DEF NoNodes
  <2>2. g_mid_device_info \in [Places -> Record]
    BY <1>1 DEF PlacesInv, TableOK, TableTypes
  <2>3. changes \in 0 .. MaxChanges /\ failures \in 0 .. MaxFailures /\ crashes \in 0 .. MaxCrashes
    BY DeviceBoundsAssumption
  <2> QED
    BY <2>1, <2>2, <2>3 DEF ZwDevicesTypeOK
<1>3. StageInv
  BY RadioAssumption DEF StageInv
<1>4. RecordsInv
  <2> SUFFICES ASSUME NEW d \in VirtualDevices PROVE Agrees(d)
    BY DEF RecordsInv, Settled, Joining, Leaving, Loading
  <2>1. OfSort(d, zw_nodes[d])
    BY <1>1 DEF OfSort, SortIs, InTable, Has
  <2> QED
    BY <1>1, <2>1 DEF Agrees, NoNodes
<1>5. RoomInv
  BY DEF RoomInv
<1>6. WatchInv
  BY <1>1 DEF WatchInv
<1> QED
  BY <1>1, <1>2, <1>3, <1>4, <1>5, <1>6 DEF DevicesInv

LEMMA StepDevices == DevicesInv /\ [ZwDevicesNext]_deviceVars => DevicesInv'
<1> SUFFICES ASSUME DevicesInv, [ZwDevicesNext]_deviceVars PROVE DevicesInv'
  OBVIOUS
<1>1. CASE ZwDevicesNext
  <2>1. ZwDevicesTypeOK'
    BY <1>1, TypesStay DEF DevicesInv
  <2>2. StageInv' /\ PlacesInv' /\ RecordsInv' /\ RoomInv' /\ WatchInv'
    BY <1>1, NodeJoinsKeeps, NodeLeavesKeeps, NodeRemovedKeeps, AddedSuccessKeeps,
       DeletedSuccessKeeps, LoadDeviceKeeps, SetDefaultKeeps, DeleteRowsKeeps,
       UpgradeFlagKeeps, AddHcRowKeeps, AddZwRowKeeps, UndoHcRowKeeps, DeleteZwRowKeeps,
       DeleteHcRowKeeps, SessionOverKeeps, CrashKeeps, LoadOverKeeps
    DEF ZwDevicesNext
  <2> QED
    BY <2>1, <2>2 DEF DevicesInv
<1>2. CASE UNCHANGED deviceVars
  <2>1. ZwDevicesTypeOK'
    BY <1>2 DEF deviceVars, DevicesInv, ZwDevicesTypeOK
  <2>2. StageInv' /\ PlacesInv'
    BY <1>2 DEF deviceVars, DevicesInv, StageInv, PlacesInv, InTable
  <2>3. RecordsInv'
    BY <1>2 DEF deviceVars, DevicesInv, RecordsInv, Settled, Agrees, Joining, Leaving, Loading,
                InTable, OfSort
  <2>4. RoomInv' /\ WatchInv'
    BY <1>2 DEF deviceVars, DevicesInv, RoomInv, Fits, WatchInv, WatchedWell, AllReported,
                InTable
  <2> QED
    BY <2>1, <2>2, <2>3, <2>4 DEF DevicesInv
<1> QED
  BY <1>1, <1>2

LEMMA DevicesInvariance == ZwDevicesSpec => []DevicesInv
<1> QED
  BY InitDevices, StepDevices, PTL DEF ZwDevicesSpec

\* Type correctness of the daemon's records of its devices.
THEOREM DevicesTypes == ZwDevicesSpec => []ZwDevicesTypeOK
<1>1. DevicesInv => ZwDevicesTypeOK
  BY DEF DevicesInv
<1> QED
  BY <1>1, DevicesInvariance, PTL

\* No two devices of a node are watched, and a quiet node is watched through the device
\* that should be (zw_task.c, set_mid_device_info), for any table and any network.
THEOREM NodesStayWatched == ZwDevicesSpec => []NodesAreWatched
<1>1. DevicesInv => NodesAreWatched
  <2> SUFFICES ASSUME DevicesInv, NEW n \in Radios
               PROVE  /\ \A p, q \in Places : Watcher(p, n) /\ Watcher(q, n) => p = q
                      /\ doing = "nothing" /\ DevicesOf(n) \cap lost = {} => WatchedWell(n)
    BY DEF NodesAreWatched, Watcher, WatchedWell, Well
  <2>1. \A p, q \in Places : Watcher(p, n) /\ Watcher(q, n) => p = q
    BY DEF DevicesInv, PlacesInv, TableOK, WatchedAlone, Watcher
  <2>2. doing = "nothing" /\ DevicesOf(n) \cap lost = {} => WatchedWell(n)
    BY DEF DevicesInv, WatchInv, AllReported
  <2> QED
    BY <2>1, <2>2
<1> QED
  BY <1>1, DevicesInvariance, PTL

\* When nothing is going on, the driver, its file, the table and the database agree on
\* every device no report of which went wrong, and a daemon refuses to start for want of
\* room only after it lost a device (zw_msg.c, update_mid and update_device_in_db).
THEOREM RecordsStayTogether == ZwDevicesSpec => []RecordsAgree
<1>1. DevicesInv => RecordsAgree
  <2> SUFFICES ASSUME DevicesInv PROVE RecordsAgree
    OBVIOUS
  <2>1. doing = "exit" => lost # {}
    BY DEF DevicesInv, RoomInv
  <2>2. ASSUME doing = "nothing", NEW d \in VirtualDevices \ lost
        PROVE  /\ saved[d] = zw_nodes[d] /\ hcRows[d] = zw_nodes[d]
               /\ d \in zwRows <=> zw_nodes[d] # Absent
               /\ PlacesOf(g_mid_device_info, d) = {} <=> zw_nodes[d] = Absent
               /\ \A p \in PlacesOf(g_mid_device_info, d) :
                    g_mid_device_info[p].sort = zw_nodes[d]
    <3>1. saved = zw_nodes /\ Agrees(d)
      BY <2>2, QuietAgrees
    <3>2. PlacesOf(g_mid_device_info, d) = {} <=> ~InTable(d)
      BY DEF PlacesOf, InTable, Has
    <3>3. \A p \in PlacesOf(g_mid_device_info, d) :
            g_mid_device_info[p].sort = zw_nodes[d]
      BY <3>1 DEF Agrees, OfSort, SortIs, PlacesOf
    <3> QED
      BY <3>1, <3>2, <3>3 DEF Agrees
  <2> QED
    BY <2>1, <2>2 DEF RecordsAgree
<1> QED
  BY <1>1, DevicesInvariance, PTL

-----------------------------------------------------------------------------
(* Camera: the cameras, their feeds and their rows                         *)

\* Where the threads are: what goes together while they are there.
Entered(t) == search[t].entry # 0
SearchOK ==
  \A t \in Searches :
    /\ Entered(t) <=> search[t].at \notin {"idle", "claim"}
    /\ search[t].at # "idle" => search[t].uid \in Cameras /\ search[t].ip \in Addresses
    /\ search[t].at = "uncount" => search[t].read > 0
OrderOK ==
  /\ order.left # {} <=> order.at \in {"free", "count"}
  /\ order.at \in {"reply", "load"} => order.id # 0
  /\ order.at = "count" => order.read > 0

\* Who counts feeds in, who counts feeds out.
Uncounting == {t \in Searches : search[t].at = "uncount"}
LocksInv ==
  /\ \A t \in Searches : t \in adder <=> search[t].at = "count"
  /\ \A t, u \in adder : t = u
  /\ \A t, u \in Uncounting : t = u
  /\ Uncounting # {} => order.at # "count"
  /\ mapper = {} <=> Uncounting = {} /\ order.at # "count"

\* The count, while feeds are added and deleted one after the other.
TakenFeeds == {f \in Feeds : feed[f] # Nothing}
CountInv ==
  ~uncounted =>
    /\ adder = {} \/ mapper = {}
    /\ \A t \in adder \cup Uncounting : search[t].read = feeds
    /\ order.at = "count" => order.read = feeds
    /\ feeds + Cardinality(adder)
         = Cardinality(TakenFeeds) + (IF mapper # {} THEN 1 ELSE 0)

FeedsInv == LocksInv /\ CountInv

\* The rows of the database are told by their numbers.
RowsOnce == \A r, w \in rows : r.id = w.id => r = w

\* What a thread knows of the entry it uses, as long as nobody else uses it.
UserOK(t) ==
  Entered(t) =>
    /\ entry[search[t].entry].uid # Nothing
    /\ search[t].at = "number" => entry[search[t].entry].id = 0
    /\ search[t].at \notin {"update", "test", "number"} =>
         /\ entry[search[t].entry].id # 0
         /\ search[t].add => \A r \in rows : r.id # entry[search[t].entry].id
UsersInv ==
  /\ \A t, u \in Searches : Entered(t) /\ search[t].entry = search[u].entry => t = u
  /\ \A t \in Searches : UserOK(t)

\* The numbers and uids in the table, and in the database.
NumbersInv ==
  /\ \A e \in Entries : entry[e].uid = Nothing => entry[e].id = 0
  /\ \A d, e \in Entries : entry[d].id = entry[e].id => d = e \/ entry[d].id = 0
  /\ \A r \in rows : r.id # 0 /\ r.uid # Nothing

\* How far the message thread is with the entries it frees or loads.
OrderInv ==
  /\ order.id # 0 =>
       /\ \A d, e \in order.left : d = e
       /\ \A e \in order.left :
            entry[e].id = order.id \/ (entry[e].id = 0 /\ Using(e) = {})
  /\ order.at = "load" =>
       /\ \A e \in Entries : entry[e] = Wiped
       /\ \A t \in Searches : ~Entered(t)
       /\ (\A r \in rows : r.id \notin kept) =>
            IsFiniteSet(rows) /\ Cardinality(rows) <= CameraCount

HasEntry(r) == \E e \in Entries : entry[e].id = r.id /\ entry[e].uid = r.uid
PlacedInv ==
  \A r \in rows :
    \/ r.id \in kept \/ order.at = "load" \/ (order.at = "reply" /\ order.id = r.id)
    \/ HasEntry(r)

CamerasInv == UsersInv /\ NumbersInv /\ OrderInv /\ PlacedInv
TablesInv == RowsOnce /\ (~raced => CamerasInv)

-----------------------------------------------------------------------------
LEMMA SmallestIsOne ==
  ASSUME NEW S \in SUBSET Nat, S # {}
  PROVE  Lowest(S) \in S
<1> DEFINE R == {ss \in Nat \X Nat : ss[1] < ss[2]}
<1>1. IsWellFoundedOn(R, Nat)
  BY NatLessThanWellFounded DEF OpToRel
<1>2. PICK p \in S : \A q \in S : <<q, p>> \notin R
  <2> HIDE DEF R
  <2> QED
    BY <1>1, WFMin
<1>3. ASSUME NEW q \in S PROVE p <= q
  <2>1. <<q, p>> \in Nat \X Nat /\ <<q, p>>[1] = q /\ <<q, p>>[2] = p
    OBVIOUS
  <2>2. ~ (q < p)
    BY <1>2, <2>1
  <2> QED
    BY <2>1, <2>2
<1> QED
  BY <1>3 DEF Lowest

LEMMA LowestEntry == ASSUME NEW S \in SUBSET Entries, S # {} PROVE Lowest(S) \in S
<1>1. S \in SUBSET Nat
  BY CameraAssumption DEF Entries
<1> QED
  BY <1>1, SmallestIsOne

LEMMA LowestFeed == ASSUME NEW S \in SUBSET Feeds, S # {} PROVE Lowest(S) \in S
<1>1. S \in SUBSET Nat
  BY CameraAssumption DEF Feeds
<1> QED
  BY <1>1, SmallestIsOne

LEMMA WipedTypes == Wiped \in Entry /\ Resting \in Search /\ NoOrder \in Order
<1> QED
  BY CameraAssumption
  DEF Wiped, Entry, Uids, Streams, Resting, Search, SearchStages, NoOrder, Order

-----------------------------------------------------------------------------
\* The types, and where the threads are.
SearchTypes == search \in [Searches -> Search] /\ SearchOK
OrderTypes == order \in Order /\ OrderOK
EntryTypes == entry \in [Entries -> Entry]
\* What the other variables have to be.
OtherTypes ==
  /\ feed \in [Feeds -> Streams] /\ feeds \in Nat
  /\ adder \subseteq Searches /\ mapper \subseteq Searches \cup {Nothing}
  /\ window \in {"zero", "open", "past"}
  /\ rows \subseteq Rows /\ kept \subseteq 0 .. MaxNumber
  /\ answers \in 0 .. MaxAnswers /\ orders \in 0 .. MaxOrders
  /\ {locked, raced, uncounted} \subseteq BOOLEAN
PlaceInv == EntryTypes /\ SearchTypes /\ OrderTypes /\ OtherTypes

\* A thread that goes on to another stage.
LEMMA ThreadGoesOn ==
  ASSUME SearchTypes, NEW t \in Searches, NEW s \in SearchStages \ {"idle", "claim", "uncount"},
         Entered(t), Stage(t, s)
  PROVE  SearchTypes'
<1> QED
  BY DEF SearchTypes, SearchOK, Entered, Search, Stage

LEMMA Finishes ==
  ASSUME SearchTypes, NEW t \in Searches, Finish(t)
  PROVE  SearchTypes'
<1>1. Resting \in Search
  BY WipedTypes
<1> QED
  BY <1>1 DEF SearchTypes, SearchOK, Entered, Finish, Resting

LEMMA SearchStep ==
  ASSUME SearchTypes, NEW t \in Searches, NEW s \in Search, search' = [search EXCEPT ![t] = s],
         s.entry # 0 <=> s.at \notin {"idle", "claim"},
         s.at # "idle" => s.uid \in Cameras /\ s.ip \in Addresses,
         s.at = "uncount" => s.read > 0
  PROVE  SearchTypes'
<1> QED
  BY DEF SearchTypes, SearchOK, Entered

LEMMA EntryStep ==
  ASSUME EntryTypes, NEW e \in Entries, NEW r \in Entry, entry' = [entry EXCEPT ![e] = r]
  PROVE  EntryTypes'
<1> QED
  BY DEF EntryTypes

LEMMA WipesTypes ==
  ASSUME EntryTypes, NEW e \in Entries, entry' = [entry EXCEPT ![e] = Wiped]
  PROVE  EntryTypes'
<1> QED
  BY WipedTypes DEF EntryTypes

LEMMA FailsTypes ==
  ASSUME SearchTypes, EntryTypes, NEW t \in Searches, Entered(t), Fails(t)
  PROVE  SearchTypes' /\ EntryTypes'
<1>1. search[t].entry \in Entries
  BY CameraAssumption DEF SearchTypes, Search, Entered, Entries
<1>2. SearchTypes'
  BY Finishes DEF Fails
<1>3. EntryTypes'
  BY <1>1, WipesTypes DEF Fails, EntryTypes
<1> QED
  BY <1>2, <1>3

LEMMA RewrittenTypes ==
  ASSUME rows \subseteq Rows, NEW r, r.uid \in Uids
  PROVE  Rewritten(r) \subseteq Rows
<1> QED
  BY DEF Rewritten, Rows

LEMMA SearchThreadTypes ==
  ASSUME PlaceInv, NEW t \in Searches, SearchThread(t)
  PROVE  PlaceInv'
<1>1. EntryTypes /\ SearchTypes /\ OrderTypes /\ OtherTypes
  BY DEF PlaceInv
<1>2. Entered(t) => search[t].entry \in Entries /\ entry[search[t].entry] \in Entry
  BY <1>1, CameraAssumption DEF SearchTypes, Search, Entered, Entries, EntryTypes
<1>3. search[t].at \notin {"idle", "claim"} => Entered(t)
  BY <1>1 DEF SearchTypes, SearchOK
<1>4. ASSUME NEW c \in Cameras, NEW a \in Addresses, Answer(t, c, a) PROVE PlaceInv'
  <2>1. search' = [search EXCEPT ![t].at = "claim", ![t].uid = c, ![t].ip = a]
    BY <1>4 DEF Answer
  <2>2. search' \in [Searches -> Search]
    <3>1. c \in Uids /\ a \in Streams /\ "claim" \in SearchStages
      BY DEF Uids, Streams, SearchStages
    <3>2. [search[t] EXCEPT !.at = "claim", !.uid = c, !.ip = a] \in Search
      BY <1>1, <3>1 DEF SearchTypes, Search
    <3>3. search' = [search EXCEPT ![t] = [search[t] EXCEPT !.at = "claim", !.uid = c, !.ip = a]]
      BY <1>1, <2>1 DEF SearchTypes
    <3> QED
      BY <1>1, <3>2, <3>3 DEF SearchTypes
  <2>3. search'[t].at = "claim" /\ search'[t].uid = c /\ search'[t].ip = a
    BY <1>1, <2>1 DEF SearchTypes, Search
  <2>4. \A u \in Searches : (u # t => search'[u] = search[u]) /\ search'[u].entry = search[u].entry
    BY <1>1, <2>1 DEF SearchTypes, Search
  <2>5. SearchOK'
    BY <1>1, <1>4, <2>3, <2>4 DEF Answer, SearchTypes, SearchOK, Entered
  <2>6. answers' \in 0 .. MaxAnswers
    BY <1>1, <1>4, CameraAssumption DEF Answer, OtherTypes
  <2>7. EntryTypes' /\ OrderTypes'
    BY <1>1, <1>4 DEF Answer, cameraTables, EntryTypes, OrderTypes, OrderOK
  <2>8. OtherTypes'
    BY <1>1, <1>4, <2>6 DEF Answer, cameraTables, OtherTypes
  <2> QED
    BY <2>2, <2>5, <2>7, <2>8 DEF PlaceInv, SearchTypes
<1>5. CASE Claim(t)
  <2>1. search[t].at = "claim"
    BY <1>5 DEF Claim
  <2> DEFINE mine == {e \in Entries : entry[e].uid = search[t].uid}
             unused == {e \in Entries : entry[e].uid = Nothing}
             taken == Lowest(IF mine # {} THEN mine ELSE unused)
  <2>2. mine \cup unused # {} => taken \in Entries
    <3>1. mine \in SUBSET Entries /\ unused \in SUBSET Entries
      OBVIOUS
    <3> QED
      BY <3>1, LowestEntry
  <2>3. CASE mine \cup unused = {}
    BY <1>1, <1>5, <2>3, Finishes DEF Claim, EntryTypes, OrderTypes, OrderOK, OtherTypes, PlaceInv
  <2>4. CASE mine \cup unused # {}
    <3>1. /\ entry' = [entry EXCEPT ![taken].uid = search[t].uid]
          /\ search' = [search EXCEPT ![t].at = "update", ![t].entry = taken]
          /\ raced' = (raced \/ Using(taken) # {} \/ order.at # "idle")
      BY <1>5, <2>4 DEF Claim
    <3>2. EntryTypes'
      <4>1. search[t].uid \in Uids
        BY <1>1 DEF SearchTypes, Search
      <4>2. PICK e \in Entries : e = taken
        BY <2>2, <2>4
      <4>3. entry' = [entry EXCEPT ![e].uid = search[t].uid] /\ entry[e] \in Entry
        BY <1>1, <3>1, <4>2 DEF EntryTypes
      <4>4. [entry[e] EXCEPT !.uid = search[t].uid] \in Entry
        BY <4>1, <4>3 DEF Entry
      <4> QED
        BY <1>1, <4>3, <4>4 DEF EntryTypes
    <3> HIDE DEF taken, mine, unused
    <3>3. search' \in [Searches -> Search] /\ taken # 0
      <4>1. PICK e \in Entries : e = taken
        BY <2>2, <2>4
      <4>2. e \in 0 .. CameraCount /\ e # 0 /\ "update" \in SearchStages
        BY CameraAssumption DEF Entries, SearchStages
      <4>3. [search[t] EXCEPT !.at = "update", !.entry = e] \in Search
        BY <1>1, <4>2 DEF SearchTypes, Search
      <4>4. search' = [search EXCEPT ![t] = [search[t] EXCEPT !.at = "update", !.entry = e]]
        BY <1>1, <3>1, <4>1 DEF SearchTypes
      <4> QED
        BY <1>1, <4>1, <4>2, <4>3, <4>4 DEF SearchTypes
    <3>4. SearchOK'
      BY <1>1, <2>1, <3>1, <3>3 DEF SearchTypes, SearchOK, Search, Entered
    <3>5. raced' \in BOOLEAN
      BY <3>1, <1>1 DEF OtherTypes
    <3> QED
      BY <1>1, <1>5, <3>2, <3>3, <3>4, <3>5
      DEF Claim, SearchTypes, OrderTypes, OrderOK, OtherTypes, PlaceInv
  <2> QED
    BY <2>3, <2>4
<1>6. CASE Update(t)
  <2> DEFINE e == search[t].entry
  <2>1. Entered(t) /\ e \in Entries /\ entry[e] \in Entry
    BY <1>2, <1>3, <1>6 DEF Update
  <2>2. Stage(t, "test") \/ Finish(t)
    BY <1>6 DEF Update
  <2>3. SearchTypes'
    BY <1>1, <2>1, <2>2, ThreadGoesOn, Finishes DEF SearchStages
  <2>4. \/ UNCHANGED entry
        \/ entry' = [entry EXCEPT ![e].ip = Nothing]
        \/ entry' = [entry EXCEPT ![e].state = "online"]
    BY <1>6 DEF Update
  <2>5. [entry[e] EXCEPT !.ip = Nothing] \in Entry /\ [entry[e] EXCEPT !.state = "online"] \in Entry
    BY <2>1 DEF Entry, Streams
  <2>6. EntryTypes'
    BY <1>1, <2>1, <2>4, <2>5 DEF EntryTypes
  <2>7. rows' = rows \/ rows' = Rewritten(entry[e])
    BY <1>6 DEF Update
  <2>8. rows' \subseteq Rows
    BY <1>1, <2>1, <2>7, RewrittenTypes DEF OtherTypes, Entry
  <2> QED
    BY <1>1, <1>6, <2>3, <2>6, <2>8 DEF Update, OrderTypes, OrderOK, OtherTypes, PlaceInv
<1>7. CASE Test(t)
  <2>1. Entered(t)
    BY <1>3, <1>7 DEF Test
  <2>2. PICK new \in BOOLEAN, s \in {"number", "fetch"} :
          search' = [search EXCEPT ![t].add = new, ![t].at = s]
    BY <1>7 DEF Test
  <2>3. [search[t] EXCEPT !.add = new, !.at = s] \in Search
    BY <1>1 DEF SearchTypes, Search, SearchStages
  <2>4. search' = [search EXCEPT ![t] = [search[t] EXCEPT !.add = new, !.at = s]]
    BY <1>1, <2>2 DEF SearchTypes
  <2>5. /\ [search[t] EXCEPT !.add = new, !.at = s].at = s
        /\ [search[t] EXCEPT !.add = new, !.at = s].entry = search[t].entry
        /\ [search[t] EXCEPT !.add = new, !.at = s].uid = search[t].uid
        /\ [search[t] EXCEPT !.add = new, !.at = s].ip = search[t].ip
    BY <1>1 DEF SearchTypes, Search
  <2>6. search[t].uid \in Cameras /\ search[t].ip \in Addresses
    BY <1>1, <1>7 DEF Test, SearchTypes, SearchOK
  <2>7. SearchTypes'
    BY <1>1, <2>1, <2>3, <2>4, <2>5, <2>6, SearchStep DEF Entered
  <2> QED
    BY <1>1, <1>7, <2>7
    DEF Test, cameraTables, EntryTypes, OrderTypes, OrderOK, OtherTypes, PlaceInv
<1>8. CASE Number(t)
  <2>1. Entered(t) /\ search[t].entry \in Entries /\ entry[search[t].entry] \in Entry
    BY <1>2, <1>3, <1>8 DEF Number
  <2>2. PICK n \in Numbers : entry' = [entry EXCEPT ![search[t].entry].id = n]
    BY <1>8 DEF Number
  <2>3. [entry[search[t].entry] EXCEPT !.id = n] \in Entry
    BY <2>1, CameraAssumption DEF Entry, Numbers
  <2>4. EntryTypes'
    BY <1>1, <2>1, <2>2, <2>3 DEF EntryTypes
  <2>5. SearchTypes'
    BY <1>1, <1>8, <2>1, ThreadGoesOn DEF Number, SearchStages
  <2>6. raced' \in BOOLEAN
    BY <1>1, <1>8 DEF Number, OtherTypes
  <2> QED
    BY <1>1, <1>8, <2>4, <2>5, <2>6 DEF Number, OrderTypes, OrderOK, OtherTypes, PlaceInv
<1>9. CASE Fetch(t)
  <2>1. Entered(t)
    BY <1>3, <1>9 DEF Fetch
  <2>2. SearchTypes' /\ EntryTypes'
    <3>1. CASE Stage(t, "feed") /\ UNCHANGED entry
      BY <1>1, <2>1, <3>1, ThreadGoesOn DEF SearchStages, EntryTypes
    <3>2. CASE Fails(t)
      BY <1>1, <2>1, <3>2, FailsTypes
    <3> QED
      BY <1>9, <3>1, <3>2 DEF Fetch
  <2> QED
    BY <1>1, <1>9, <2>2 DEF Fetch, OrderTypes, OrderOK, OtherTypes, PlaceInv
<1>10. CASE TakeFeed(t)
  <2>1. Entered(t) /\ search[t].uid \in Cameras /\ search[t].ip \in Addresses
    BY <1>1, <1>3, <1>10 DEF TakeFeed, SearchTypes, SearchOK
  <2> DEFINE blank == {f \in Feeds : feed[f] = Nothing}
  <2>2. CASE feeds >= FeedCount \/ blank = {}
    <3>1. Stage(t, "settle") /\ UNCHANGED <<feed, adder, uncounted>>
      BY <1>10, <2>2 DEF TakeFeed
    <3>2. SearchTypes'
      BY <1>1, <2>1, <3>1, ThreadGoesOn DEF SearchStages
    <3> QED
      BY <1>1, <1>10, <3>1, <3>2
      DEF TakeFeed, EntryTypes, OrderTypes, OrderOK, OtherTypes, PlaceInv
  <2>3. CASE ~(feeds >= FeedCount \/ blank = {})
    <3>1. blank \in SUBSET Feeds /\ blank # {}
      BY <2>3
    <3>2. PICK f \in Feeds : f = Lowest(blank)
      BY <3>1, LowestFeed
    <3>3. /\ feed' = [feed EXCEPT ![f] = search[t].ip]
          /\ search' = [search EXCEPT ![t].at = "count", ![t].feed = f, ![t].read = feeds]
          /\ adder' = {t} /\ uncounted' = (uncounted \/ mapper # {})
      BY <1>10, <2>3, <3>2 DEF TakeFeed
    <3>4. feed' \in [Feeds -> Streams]
      BY <1>1, <2>1, <3>3 DEF OtherTypes, Streams
    <3> DEFINE s == [search[t] EXCEPT !.at = "count", !.feed = f, !.read = feeds]
    <3>5. f \in 0 .. FeedCount /\ "count" \in SearchStages /\ feeds \in Nat
      BY <1>1, CameraAssumption DEF Feeds, SearchStages, OtherTypes
    <3>6. s \in Search
      BY <1>1, <3>5 DEF SearchTypes, Search
    <3>7. search' = [search EXCEPT ![t] = s]
      BY <1>1, <3>3 DEF SearchTypes
    <3>8. s.at = "count" /\ s.entry = search[t].entry /\ s.uid = search[t].uid /\ s.ip = search[t].ip
      BY <1>1 DEF SearchTypes, Search
    <3> HIDE DEF s
    <3>9. SearchTypes'
      BY <1>1, <2>1, <3>6, <3>7, <3>8, SearchStep DEF Entered
    <3>10. uncounted' \in BOOLEAN /\ adder' \subseteq Searches
      BY <1>1, <3>3 DEF OtherTypes
    <3> QED
      BY <1>1, <1>10, <3>4, <3>9, <3>10
      DEF TakeFeed, EntryTypes, OrderTypes, OrderOK, OtherTypes, PlaceInv
  <2> QED
    BY <2>2, <2>3
<1>11. CASE CountFeed(t)
  <2> DEFINE e == search[t].entry
  <2>1. Entered(t) /\ e \in Entries /\ entry[e] \in Entry
    BY <1>2, <1>3, <1>11 DEF CountFeed
  <2>2. feeds' \in Nat /\ search[t].feed \in 0 .. FeedCount
    BY <1>1, <1>11 DEF CountFeed, SearchTypes, Search
  <2>3. Stage(t, "unfeed") \/ Stage(t, "settle")
    BY <1>11 DEF CountFeed
  <2>4. SearchTypes'
    BY <1>1, <2>1, <2>3, ThreadGoesOn DEF SearchStages
  <2>5. entry' = entry \/ entry' = [entry EXCEPT ![e].remote = search[t].feed]
    BY <1>11 DEF CountFeed
  <2>6. [entry[e] EXCEPT !.remote = search[t].feed] \in Entry
    BY <2>1, <2>2 DEF Entry
  <2>7. EntryTypes'
    BY <1>1, <2>1, <2>5, <2>6 DEF EntryTypes
  <2>8. adder' \subseteq Searches
    BY <1>11 DEF CountFeed
  <2> QED
    BY <1>1, <1>11, <2>2, <2>4, <2>7, <2>8 DEF CountFeed, OrderTypes, OrderOK, OtherTypes, PlaceInv
<1>12. (Unfeed(t) \/ Uncount(t)) /\ entry' = Replaced(t) => EntryTypes'
  <2> SUFFICES ASSUME Unfeed(t) \/ Uncount(t), entry' = Replaced(t) PROVE EntryTypes'
    OBVIOUS
  <2>1. PICK e \in Entries : e = search[t].entry /\ entry[e] \in Entry
    BY <1>2, <1>3 DEF Unfeed, Uncount
  <2>2. search[t].feed \in 0 .. FeedCount
    BY <1>1 DEF SearchTypes, Search
  <2>3. [entry[e] EXCEPT !.ip = Nothing, !.stream = Nothing, !.remote = search[t].feed] \in Entry
    BY <2>1, <2>2 DEF Entry, Streams
  <2>4. entry' = [entry EXCEPT ![e] = [entry[e] EXCEPT !.ip = Nothing, !.stream = Nothing,
                                                       !.remote = search[t].feed]]
    BY <1>1, <2>1 DEF EntryTypes, Replaced
  <2> QED
    BY <1>1, <2>3, <2>4, EntryStep
<1>13. CASE Unfeed(t)
  <2>1. Entered(t) /\ search[t].uid \in Cameras /\ search[t].ip \in Addresses
    BY <1>1, <1>3, <1>13 DEF Unfeed, SearchTypes, SearchOK
  <2> DEFINE url == entry[search[t].entry].stream
  <2>2. CASE Matching(url) = {}
    <3>1. Stage(t, "settle") /\ entry' = Replaced(t) /\ UNCHANGED <<feed, mapper, uncounted>>
      BY <1>13, <2>2 DEF Unfeed
    <3>2. SearchTypes'
      BY <1>1, <2>1, <3>1, ThreadGoesOn DEF SearchStages
    <3> QED
      BY <1>1, <1>12, <1>13, <3>1, <3>2 DEF Unfeed, OrderTypes, OrderOK, OtherTypes, PlaceInv
  <2>3. CASE Matching(url) # {}
    <3>1. /\ Unmapped(url) /\ mapper' = {t} /\ UNCHANGED entry
          /\ search' = [search EXCEPT ![t].at = "uncount", ![t].read = feeds]
      BY <1>13, <2>3 DEF Unfeed
    <3>2. feeds \in Nat /\ feeds > 0
      BY <1>1, <2>3 DEF Matching, OtherTypes
    <3>3. feed' \in [Feeds -> Streams] /\ uncounted' \in BOOLEAN
      BY <1>1, <3>1 DEF Unmapped, OtherTypes, Streams
    <3> DEFINE s == [search[t] EXCEPT !.at = "uncount", !.read = feeds]
    <3>4. s \in Search
      BY <1>1, <3>2 DEF SearchTypes, Search, SearchStages
    <3>5. search' = [search EXCEPT ![t] = s]
      BY <1>1, <3>1 DEF SearchTypes
    <3>6. /\ s.at = "uncount" /\ s.entry = search[t].entry /\ s.uid = search[t].uid
          /\ s.ip = search[t].ip /\ s.read = feeds
      BY <1>1 DEF SearchTypes, Search
    <3> HIDE DEF s
    <3>7. SearchTypes'
      BY <1>1, <2>1, <3>2, <3>4, <3>5, <3>6, SearchStep DEF Entered
    <3> QED
      BY <1>1, <1>13, <3>1, <3>3, <3>7
      DEF Unfeed, EntryTypes, OrderTypes, OrderOK, OtherTypes, PlaceInv
  <2> QED
    BY <2>2, <2>3
<1>14. CASE Uncount(t)
  <2>1. Entered(t)
    BY <1>3, <1>14 DEF Uncount
  <2>2. search[t].read \in Nat /\ search[t].read > 0
    BY <1>1, <1>14 DEF Uncount, SearchTypes, SearchOK, Search
  <2>3. feeds' \in Nat /\ entry' = Replaced(t)
    BY <1>14, <2>2 DEF Uncount
  <2>4. SearchTypes'
    BY <1>1, <1>14, <2>1, ThreadGoesOn DEF Uncount, SearchStages
  <2> QED
    BY <1>1, <1>12, <1>14, <2>3, <2>4 DEF Uncount, OrderTypes, OrderOK, OtherTypes, PlaceInv
<1>15. CASE Settle(t)
  <2>1. Entered(t) /\ search[t].ip \in Streams
    BY <1>1, <1>3, <1>15 DEF Settle, SearchTypes, Search
  <2>2. PICK e \in Entries : e = search[t].entry /\ entry[e] \in Entry
    BY <1>2, <2>1
  <2>3. [entry[e] EXCEPT !.state = "online", !.ip = search[t].ip, !.stream = search[t].ip] \in Entry
    BY <2>1, <2>2 DEF Entry
  <2>4. entry' = [entry EXCEPT ![e] = [entry[e] EXCEPT !.state = "online", !.ip = search[t].ip,
                                                       !.stream = search[t].ip]]
    BY <1>1, <1>15, <2>2 DEF Settle, EntryTypes
  <2>5. EntryTypes'
    BY <1>1, <2>3, <2>4, EntryStep
  <2>6. SearchTypes'
    BY <1>1, <1>15, <2>1, ThreadGoesOn DEF Settle, SearchStages
  <2> QED
    BY <1>1, <1>15, <2>5, <2>6 DEF Settle, OrderTypes, OrderOK, OtherTypes, PlaceInv
<1>16. CASE Announce(t)
  <2>1. Entered(t) /\ entry[search[t].entry] \in Entry
    BY <1>2, <1>3, <1>16 DEF Announce
  <2> DEFINE r == entry[search[t].entry]
  <2>2. Fails(t) \/ (Finish(t) /\ UNCHANGED entry)
    BY <1>16 DEF Announce
  <2>3. SearchTypes' /\ EntryTypes'
    BY <1>1, <2>1, <2>2, FailsTypes, Finishes DEF EntryTypes
  <2>4. rows' = rows \/ rows' = rows \cup {[id |-> r.id, uid |-> r.uid]} \/ rows' = Rewritten(r)
    BY <1>16 DEF Announce
  <2>5. [id |-> r.id, uid |-> r.uid] \in Rows /\ r.uid \in Uids
    BY <2>1 DEF Entry, Rows
  <2>6. Rewritten(r) \subseteq Rows
    BY <1>1, <2>5, RewrittenTypes DEF OtherTypes
  <2>7. rows' \subseteq Rows
    BY <1>1, <2>4, <2>5, <2>6 DEF OtherTypes
  <2> QED
    BY <1>1, <1>16, <2>3, <2>7 DEF Announce, OrderTypes, OrderOK, OtherTypes, PlaceInv
<1> QED
  BY <1>4, <1>5, <1>6, <1>7, <1>8, <1>9, <1>10, <1>11, <1>13, <1>14, <1>15, <1>16
  DEF SearchThread

LEMMA AfterWipeTypes ==
  ASSUME OrderTypes, NEW e \in Entries, AfterWipe(e)
  PROVE  OrderTypes'
<1> DEFINE rest == order.left \ {e}
           after == IF rest # {} THEN "free" ELSE IF order.id = 0 THEN "idle" ELSE "reply"
<1>1. order' = [at |-> after, left |-> rest, id |-> order.id, read |-> 0]
  BY DEF AfterWipe
<1>2. rest \in SUBSET Entries /\ order.id \in 0 .. MaxNumber
  BY DEF OrderTypes, Order
<1>3. after \in {"idle", "free", "reply"} /\ (after = "free" <=> rest # {})
      /\ (after = "reply" => order.id # 0)
  OBVIOUS
<1> HIDE DEF rest, after
<1> QED
  BY <1>1, <1>2, <1>3 DEF OrderTypes, Order, OrderOK

LEMMA WipeTypes ==
  ASSUME EntryTypes, OtherTypes, NEW e \in Entries, Wipe(e)
  PROVE  EntryTypes' /\ kept' \subseteq 0 .. MaxNumber /\ raced' \in BOOLEAN
<1>1. entry[e].id \in 0 .. MaxNumber
  BY DEF EntryTypes, Entry
<1> QED
  BY <1>1, WipesTypes DEF Wipe, OtherTypes

LEMMA SilentTypes ==
  ASSUME EntryTypes, OtherTypes, NEW E \in SUBSET Entries, Silent(E)
  PROVE  EntryTypes' /\ rows' \subseteq Rows
<1>1. \A e \in Entries : [entry[e] EXCEPT !.state = "offline"] \in Entry /\ entry[e] \in Entry
  BY DEF EntryTypes, Entry
<1>2. EntryTypes'
  BY <1>1 DEF Silent, EntryTypes
<1>3. ASSUME NEW w \in rows,
             ~(locked \/ \A e \in E : entry[e].id # w.id)
      PROVE  entry[Lowest({e \in E : entry[e].id = w.id})].uid \in Uids
  <2>1. {e \in E : entry[e].id = w.id} \in SUBSET Entries /\ {e \in E : entry[e].id = w.id} # {}
    BY <1>3
  <2>2. Lowest({e \in E : entry[e].id = w.id}) \in Entries
    BY <2>1, LowestEntry
  <2> QED
    BY <1>1, <2>2 DEF Entry
<1>4. \A w \in rows : w.id \in 0 .. MaxNumber /\ w.uid \in Uids
  BY DEF OtherTypes, Rows
<1>5. ASSUME NEW w \in rows
      PROVE  [id |-> w.id,
              uid |-> IF locked \/ \A e \in E : entry[e].id # w.id THEN w.uid
                      ELSE entry[Lowest({e \in E : entry[e].id = w.id})].uid] \in Rows
  <2>1. CASE locked \/ \A e \in E : entry[e].id # w.id
    BY <1>4, <2>1 DEF Rows
  <2>2. CASE ~(locked \/ \A e \in E : entry[e].id # w.id)
    BY <1>3, <1>4, <2>2 DEF Rows
  <2> QED
    BY <2>1, <2>2
<1>6. rows' \subseteq Rows
  BY <1>5 DEF Silent
<1> QED
  BY <1>2, <1>6

LEMMA MessagesTypes ==
  ASSUME PlaceInv, Messages
  PROVE  PlaceInv'
<1>1. EntryTypes /\ SearchTypes /\ OrderTypes /\ OtherTypes
  BY DEF PlaceInv
<1>2. Ordered => orders' \in 0 .. MaxOrders
  BY <1>1, CameraAssumption DEF Ordered, OtherTypes
<1>3. UNCHANGED search => SearchTypes'
  BY <1>1 DEF SearchTypes, SearchOK, Entered
<1>4. UNCHANGED order => OrderTypes'
  BY <1>1 DEF OrderTypes, OrderOK
<1>5. ASSUME NEW n \in Numbers, Delete(n) PROVE PlaceInv'
  <2> DEFINE found == {e \in Entries : entry[e].id = n}
  <2>1. n \in 0 .. MaxNumber /\ n # 0
    BY CameraAssumption DEF Numbers
  <2>2. CASE found # {}
    <3>1. found \in SUBSET Entries
      OBVIOUS
    <3>2. Lowest(found) \in Entries
      BY <2>2, <3>1, LowestEntry
    <3>3. order' = [at |-> "free", left |-> {Lowest(found)}, id |-> n, read |-> 0]
          /\ UNCHANGED <<entry, raced>>
      BY <1>5, <2>2 DEF Delete
    <3> HIDE DEF found
    <3>4. OrderTypes'
      BY <2>1, <3>2, <3>3 DEF OrderTypes, Order, OrderOK
    <3> QED
      BY <1>1, <1>2, <1>3, <1>5, <3>3, <3>4 DEF Delete, EntryTypes, OtherTypes, PlaceInv
  <2>3. CASE found = {}
    <3>1. /\ order' = [at |-> "load", left |-> {}, id |-> n, read |-> 0]
          /\ entry' = [e \in Entries |-> Wiped]
          /\ raced' = (raced \/ \E t \in Searches : search[t].entry # 0)
      BY <1>5, <2>3 DEF Delete
    <3>2. OrderTypes'
      BY <2>1, <3>1 DEF OrderTypes, Order, OrderOK
    <3>3. EntryTypes'
      BY <3>1, WipedTypes DEF EntryTypes
    <3>4. raced' \in BOOLEAN
      BY <1>1, <3>1 DEF OtherTypes
    <3> QED
      BY <1>1, <1>2, <1>3, <1>5, <3>2, <3>3, <3>4 DEF Delete, OtherTypes, PlaceInv
  <2> QED
    BY <2>2, <2>3
<1>6. CASE CleanAll
  <2>1. Entries # {}
    BY CameraAssumption DEF Entries
  <2>2. OrderTypes'
    BY <1>6, <2>1, CameraAssumption DEF CleanAll, OrderTypes, Order, OrderOK
  <2> QED
    BY <1>1, <1>2, <1>3, <1>6, <2>2 DEF CleanAll, cameraTables, EntryTypes, OtherTypes, PlaceInv
<1>7. order.at \in {"free", "count"} => Lowest(order.left) \in Entries
  <2> SUFFICES ASSUME order.at \in {"free", "count"} PROVE Lowest(order.left) \in Entries
    OBVIOUS
  <2>1. order.left \in SUBSET Entries /\ order.left # {}
    BY <1>1 DEF OrderTypes, OrderOK, Order
  <2> QED
    BY <2>1, LowestEntry
<1>8. CASE FreeFeed
  <2>1. PICK e \in Entries : e = Lowest(order.left)
    BY <1>7, <1>8 DEF FreeFeed
  <2> DEFINE url == entry[e].stream
  <2>2. CASE Matching(url) = {}
    <3>1. Wipe(e) /\ AfterWipe(e) /\ UNCHANGED <<feed, mapper, uncounted>>
      BY <1>8, <2>1, <2>2 DEF FreeFeed
    <3> QED
      BY <1>1, <1>3, <1>8, <3>1, WipeTypes, AfterWipeTypes DEF FreeFeed, OtherTypes, PlaceInv
  <2>3. CASE Matching(url) # {}
    <3>1. /\ Unmapped(url) /\ mapper' = {Nothing} /\ UNCHANGED <<entry, kept, raced>>
          /\ order' = [order EXCEPT !.at = "count", !.read = feeds]
      BY <1>8, <2>1, <2>3 DEF FreeFeed
    <3>2. feeds \in Nat /\ feeds > 0
      BY <1>1, <2>3 DEF Matching, OtherTypes
    <3>3. feed' \in [Feeds -> Streams] /\ uncounted' \in BOOLEAN
      BY <1>1, <3>1 DEF Unmapped, OtherTypes, Streams
    <3>4. OrderTypes'
      BY <1>1, <1>8, <3>1, <3>2 DEF FreeFeed, OrderTypes, Order, OrderOK
    <3> QED
      BY <1>1, <1>3, <1>8, <3>1, <3>3, <3>4 DEF FreeFeed, EntryTypes, OtherTypes, PlaceInv
  <2> QED
    BY <2>2, <2>3
<1>9. CASE FreeEntry
  <2>1. PICK e \in Entries : e = Lowest(order.left)
    BY <1>7, <1>9 DEF FreeEntry
  <2>2. Wipe(e) /\ AfterWipe(e) /\ mapper' = {}
    BY <1>9, <2>1 DEF FreeEntry
  <2>3. feeds' \in Nat
    BY <1>1, <1>9 DEF FreeEntry, OrderTypes, Order, OrderOK
  <2> QED
    BY <1>1, <1>3, <1>9, <2>2, <2>3, WipeTypes, AfterWipeTypes DEF FreeEntry, OtherTypes, PlaceInv
<1>10. CASE PassOver
  <2>1. PICK e \in Entries : e = Lowest(order.left)
    BY <1>7, <1>10 DEF PassOver
  <2>2. OrderTypes'
    BY <1>1, <1>10, <2>1, AfterWipeTypes DEF PassOver
  <2> QED
    BY <1>1, <1>3, <1>10, <2>2 DEF PassOver, cameraTables, EntryTypes, OtherTypes, PlaceInv
<1>11. OrderTypes' \/ order' # NoOrder
  BY WipedTypes DEF OrderTypes, OrderOK, NoOrder
<1>12. CASE ReplyDeleted
  <2>1. order.id \in 0 .. MaxNumber
    BY <1>1 DEF OrderTypes, Order
  <2>2. rows' \subseteq Rows /\ kept' \subseteq 0 .. MaxNumber
    BY <1>1, <1>12, <2>1 DEF ReplyDeleted, OtherTypes
  <2> QED
    BY <1>1, <1>3, <1>11, <1>12, <2>2 DEF ReplyDeleted, EntryTypes, OtherTypes, PlaceInv
<1>13. CASE Load
  <2> DEFINE new == {r \in rows : \A e \in Entries : entry[e].id # r.id}
             free == {e \in Entries : entry[e].id = 0}
             RowFor(e) == {r \in new : Cardinality({q \in new : q.id < r.id})
                                          = Cardinality({d \in free : d < e})}
  <2>1. entry' = [e \in Entries |->
                    IF e \notin free \/ RowFor(e) = {} THEN entry[e]
                    ELSE LET r == CHOOSE r \in RowFor(e) : TRUE
                         IN [entry[e] EXCEPT !.id = r.id, !.uid = r.uid]]
    BY <1>13 DEF Load
  <2>2. ASSUME NEW e \in Entries, RowFor(e) # {}
        PROVE  (CHOOSE r \in RowFor(e) : TRUE) \in Rows
    BY <1>1, <2>2 DEF OtherTypes
  <2> HIDE DEF RowFor, free
  <2>3. \A e \in Entries : \A r \in Rows : [entry[e] EXCEPT !.id = r.id, !.uid = r.uid] \in Entry
    BY <1>1 DEF EntryTypes, Entry, Rows
  <2>4. EntryTypes'
    BY <1>1, <2>1, <2>2, <2>3 DEF EntryTypes
  <2>5. kept' \subseteq 0 .. MaxNumber
    <3>1. \A r \in new : r.id \in 0 .. MaxNumber
      BY <1>1 DEF OtherTypes, Rows
    <3>2. PICK out : out = {r \in new : \A e \in Entries : entry'[e].id # r.id}
      OBVIOUS
    <3>3. kept' = kept \/ kept' = kept \cup {r.id : r \in out}
      BY <1>13, <3>2 DEF Load
    <3>4. out \subseteq new
      BY <3>2
    <3> HIDE DEF new
    <3>5. {r.id : r \in out} \subseteq 0 .. MaxNumber
      BY <3>1, <3>4
    <3> QED
      BY <1>1, <3>3, <3>5 DEF OtherTypes
  <2> QED
    BY <1>1, <1>3, <1>11, <1>13, <2>4, <2>5 DEF Load, OtherTypes, PlaceInv
<1>14. ASSUME NEW w \in {"zero", "open"}, Window(w) PROVE PlaceInv'
  BY <1>1, <1>2, <1>3, <1>4, <1>14 DEF Window, cameraTables, EntryTypes, OtherTypes, PlaceInv
<1>15. CASE WindowPasses
  BY <1>1, <1>3, <1>4, <1>15 DEF WindowPasses, cameraTables, EntryTypes, OtherTypes, PlaceInv
<1>16. CASE FirmwareLock
  <2>1. locked' \in BOOLEAN
    BY <1>16 DEF FirmwareLock
  <2> QED
    BY <1>1, <1>2, <1>3, <1>4, <1>16, <2>1
    DEF FirmwareLock, cameraTables, EntryTypes, OtherTypes, PlaceInv
<1>17. ASSUME NEW E \in SUBSET Entries, Silent(E), orders' \in 0 .. MaxOrders PROVE PlaceInv'
  <2>1. EntryTypes' /\ rows' \subseteq Rows
    BY <1>1, <1>17, SilentTypes
  <2> QED
    BY <1>1, <1>3, <1>4, <1>17, <2>1 DEF Silent, OtherTypes, PlaceInv
<1>18. CASE Poll
  <2>1. PICK E \in SUBSET Entries : Silent(E)
    BY <1>18 DEF Poll
  <2> QED
    BY <1>1, <1>17, <1>18, <2>1 DEF Poll, OtherTypes
<1>19. CASE WlanChanged
  <2>1. PICK E \in SUBSET Entries : Silent(E)
    BY <1>19 DEF WlanChanged
  <2> QED
    BY <1>2, <1>17, <1>19, <2>1 DEF WlanChanged
<1> QED
  BY <1>5, <1>6, <1>8, <1>9, <1>10, <1>12, <1>13, <1>14, <1>15, <1>16, <1>18, <1>19 DEF Messages

LEMMA InitPlace == CameraInit => PlaceInv
<1> SUFFICES ASSUME CameraInit PROVE PlaceInv
  OBVIOUS
<1> USE DEF CameraInit
<1>1. EntryTypes
  BY WipedTypes DEF EntryTypes
<1>2. SearchTypes
  BY WipedTypes DEF SearchTypes, SearchOK, Resting, Entered
<1>3. OrderTypes
  BY WipedTypes DEF OrderTypes, OrderOK, NoOrder
<1>4. feed \in [Feeds -> Streams]
  BY DEF Streams
<1>5. answers \in 0 .. MaxAnswers /\ orders \in 0 .. MaxOrders /\ feeds \in Nat
  BY CameraAssumption
<1>6. locked \in BOOLEAN /\ raced \in BOOLEAN /\ uncounted \in BOOLEAN
  OBVIOUS
<1>7. OtherTypes
  BY <1>4, <1>5, <1>6 DEF OtherTypes
<1> QED
  BY <1>1, <1>2, <1>3, <1>7 DEF PlaceInv

LEMMA StepPlace == PlaceInv /\ [CameraNext]_cameraVars => PlaceInv'
<1> SUFFICES ASSUME PlaceInv, [CameraNext]_cameraVars PROVE PlaceInv'
  OBVIOUS
<1>1. CASE CameraNext
  BY <1>1, SearchThreadTypes, MessagesTypes DEF CameraNext
<1>2. CASE UNCHANGED cameraVars
  BY <1>2 DEF cameraVars, cameraTables, PlaceInv, EntryTypes, SearchTypes, SearchOK, Entered,
     OrderTypes, OrderOK, OtherTypes
<1> QED
  BY <1>1, <1>2

\* Type correctness of the camera daemon's tables.
THEOREM CameraTypes == CameraSpec => []CameraTypeOK
<1>1. PlaceInv => CameraTypeOK
  BY DEF PlaceInv, EntryTypes, SearchTypes, OrderTypes, OtherTypes, CameraTypeOK
<1> QED
  BY <1>1, InitPlace, StepPlace, PTL DEF CameraSpec

-----------------------------------------------------------------------------
\* What a thread of an answer does, it does to its own locals.
LEMMA OwnLocals ==
  ASSUME SearchTypes, NEW t \in Searches, SearchThread(t)
  PROVE  order' = order /\ \A u \in Searches \ {t} : search'[u] = search[u]
<1>1. search \in [Searches -> Search]
  BY DEF SearchTypes
<1>2. ASSUME NEW s, Stage(t, s) PROVE \A u \in Searches \ {t} : search'[u] = search[u]
  BY <1>1, <1>2 DEF Stage
<1>3. Finish(t) => \A u \in Searches \ {t} : search'[u] = search[u]
  BY <1>1 DEF Finish
<1>4. ASSUME NEW c \in Cameras, NEW a \in Addresses, Answer(t, c, a)
      PROVE  order' = order /\ \A u \in Searches \ {t} : search'[u] = search[u]
  BY <1>1, <1>4 DEF Answer
<1>5. CASE Claim(t)
  BY <1>1, <1>3, <1>5 DEF Claim
<1>6. CASE Update(t)
  BY <1>2, <1>3, <1>6 DEF Update
<1>7. CASE Test(t)
  BY <1>1, <1>7 DEF Test
<1>8. CASE Number(t)
  BY <1>2, <1>8 DEF Number
<1>9. CASE Fetch(t)
  BY <1>2, <1>3, <1>9 DEF Fetch, Fails
<1>10. CASE TakeFeed(t)
  BY <1>1, <1>2, <1>10 DEF TakeFeed
<1>11. CASE CountFeed(t)
  BY <1>2, <1>11 DEF CountFeed
<1>12. CASE Unfeed(t)
  BY <1>1, <1>2, <1>12 DEF Unfeed
<1>13. CASE Uncount(t)
  BY <1>2, <1>13 DEF Uncount
<1>14. CASE Settle(t)
  BY <1>2, <1>14 DEF Settle
<1>15. CASE Announce(t)
  BY <1>3, <1>15 DEF Announce, Fails
<1> QED
  BY <1>4, <1>5, <1>6, <1>7, <1>8, <1>9, <1>10, <1>11, <1>12, <1>13, <1>14, <1>15 DEF SearchThread

\* The feeds taken are finitely many; one more is taken, or one fewer.
LEMMA TakenIsFinite == IsFiniteSet(TakenFeeds) /\ Cardinality(TakenFeeds) \in Nat
<1>1. IsFiniteSet(Feeds)
  BY CameraAssumption, FS_Interval DEF Feeds
<1>2. TakenFeeds \subseteq Feeds
  BY DEF TakenFeeds
<1>3. IsFiniteSet(TakenFeeds)
  BY <1>1, <1>2, FS_Subset
<1> QED
  BY <1>3, FS_CardinalityType

LEMMA FeedTaken ==
  ASSUME OtherTypes, NEW f \in Feeds, NEW a \in Addresses, feed[f] = Nothing,
         feed' = [feed EXCEPT ![f] = a]
  PROVE  Cardinality(TakenFeeds') = Cardinality(TakenFeeds) + 1
<1>1. a # Nothing
  BY CameraAssumption
<1>2. TakenFeeds' = TakenFeeds \cup {f} /\ f \notin TakenFeeds
  BY <1>1 DEF TakenFeeds, OtherTypes
<1> QED
  BY <1>2, TakenIsFinite, FS_AddElement

LEMMA FeedFreed ==
  ASSUME OtherTypes, NEW url, url # Nothing, Matching(url) # {},
         feed' = [feed EXCEPT ![Lowest(Matching(url))] = Nothing]
  PROVE  Cardinality(TakenFeeds) = Cardinality(TakenFeeds') + 1
<1>1. Matching(url) \in SUBSET Feeds
  BY DEF Matching
<1>2. PICK f \in Feeds : f = Lowest(Matching(url)) /\ feed[f] = url
  BY <1>1, LowestFeed DEF Matching
<1>3. feed' = [feed EXCEPT ![f] = Nothing]
  BY <1>2
<1>4. TakenFeeds' = TakenFeeds \ {f} /\ f \in TakenFeeds
  BY <1>2, <1>3 DEF TakenFeeds, OtherTypes
<1>5. Cardinality(TakenFeeds \ {f}) = Cardinality(TakenFeeds) - 1
  BY <1>4, TakenIsFinite, FS_RemoveElement
<1> QED
  BY <1>4, <1>5, TakenIsFinite

LEMMA SingleCount == ASSUME NEW S, NEW x \in S, \A u, v \in S : u = v PROVE Cardinality(S) = 1
<1>1. S = {x}
  OBVIOUS
<1> QED
  BY <1>1, FS_Singleton

\* A thread that neither counts nor begins to.
LEMMA FeedsLeft ==
  ASSUME OtherTypes, FeedsInv, NEW t \in Searches,
         \A u \in Searches \ {t} : search'[u] = search[u],
         order' = order, UNCHANGED <<feed, feeds, adder, mapper, uncounted>>,
         search[t].at \notin {"count", "uncount"}, search'[t].at \notin {"count", "uncount"}
  PROVE  FeedsInv'
<1>1. Uncounting' = Uncounting /\ TakenFeeds' = TakenFeeds
  BY DEF Uncounting, TakenFeeds
<1>2. t \notin adder /\ adder \subseteq Searches
  BY DEF FeedsInv, LocksInv, OtherTypes
<1>3. LocksInv'
  BY <1>1 DEF FeedsInv, LocksInv
<1>4. \A u \in adder \cup Uncounting : search'[u] = search[u]
  BY <1>2 DEF Uncounting
<1> QED
  BY <1>1, <1>3, <1>4 DEF FeedsInv, CountInv

\* A thread goes to a stage where nothing is counted.
LEMMA StageLeaves ==
  ASSUME SearchTypes, NEW t \in Searches, NEW s, Stage(t, s)
  PROVE  search'[t].at = s
<1> QED
  BY DEF SearchTypes, Search, Stage

LEMMA FinishLeaves ==
  ASSUME SearchTypes, NEW t \in Searches, Finish(t)
  PROVE  search'[t].at = "idle"
<1> QED
  BY DEF SearchTypes, Finish, Resting

LEMMA SearchKeepsFeeds ==
  ASSUME PlaceInv, FeedsInv, NEW t \in Searches, SearchThread(t)
  PROVE  FeedsInv'
<1>1. SearchTypes /\ OtherTypes /\ search \in [Searches -> Search]
  BY DEF PlaceInv, SearchTypes
<1>2. order' = order /\ \A u \in Searches \ {t} : search'[u] = search[u]
  BY <1>1, OwnLocals
<1>3. UNCHANGED <<feed, feeds, adder, mapper, uncounted>> /\ search[t].at \notin {"count", "uncount"}
      /\ search'[t].at \notin {"count", "uncount"} => FeedsInv'
  BY <1>1, <1>2, FeedsLeft
<1>4. ASSUME NEW c \in Cameras, NEW a \in Addresses, Answer(t, c, a) PROVE FeedsInv'
  <2>1. search'[t].at = "claim"
    BY <1>1, <1>4 DEF Answer, Search
  <2> QED
    BY <1>3, <1>4, <2>1 DEF Answer, cameraTables
<1>5. CASE Claim(t)
  <2>1. search'[t].at \in {"idle", "update"}
    <3>1. Finish(t) \/ \E e \in {Lowest(S) : S \in SUBSET Entries} :
                          search' = [search EXCEPT ![t].at = "update", ![t].entry = e]
      BY <1>5 DEF Claim
    <3> QED
      BY <1>1, <3>1, FinishLeaves DEF Search
  <2> QED
    BY <1>3, <1>5, <2>1 DEF Claim
<1>6. CASE Update(t)
  <2>1. search'[t].at \in {"idle", "test"}
    BY <1>1, <1>6, StageLeaves, FinishLeaves DEF Update
  <2> QED
    BY <1>3, <1>6, <2>1 DEF Update
<1>7. CASE Test(t)
  <2>1. search'[t].at \in {"number", "fetch"}
    BY <1>1, <1>7 DEF Test, Search
  <2> QED
    BY <1>3, <1>7, <2>1 DEF Test, cameraTables
<1>8. CASE Number(t)
  <2>1. search'[t].at = "fetch"
    BY <1>1, <1>8, StageLeaves DEF Number
  <2> QED
    BY <1>3, <1>8, <2>1 DEF Number
<1>9. CASE Fetch(t)
  <2>1. search'[t].at \in {"feed", "idle"}
    BY <1>1, <1>9, StageLeaves, FinishLeaves DEF Fetch, Fails
  <2> QED
    BY <1>3, <1>9, <2>1 DEF Fetch
<1>10. CASE TakeFeed(t)
  <2> DEFINE blank == {f \in Feeds : feed[f] = Nothing}
  <2>1. CASE feeds >= FeedCount \/ blank = {}
    <3>1. search'[t].at = "settle"
      BY <1>1, <1>10, <2>1, StageLeaves DEF TakeFeed
    <3> QED
      BY <1>3, <1>10, <2>1, <3>1 DEF TakeFeed
  <2>2. CASE ~(feeds >= FeedCount \/ blank = {})
    <3>1. blank \in SUBSET Feeds /\ blank # {}
      BY <2>2
    <3>2. PICK f \in Feeds : f = Lowest(blank) /\ feed[f] = Nothing
      BY <3>1, LowestFeed
    <3>3. PICK a \in Addresses : a = search[t].ip
      BY <1>1, <1>10 DEF TakeFeed, SearchTypes, SearchOK
    <3>4. /\ feed' = [feed EXCEPT ![f] = a] /\ adder = {} /\ adder' = {t}
          /\ search' = [search EXCEPT ![t].at = "count", ![t].feed = f, ![t].read = feeds]
          /\ uncounted' = (uncounted \/ mapper # {}) /\ UNCHANGED <<feeds, mapper>>
          /\ search[t].at = "feed"
      BY <1>10, <2>2, <3>2, <3>3 DEF TakeFeed
    <3>5. search'[t].at = "count" /\ search'[t].read = feeds
      BY <1>1, <3>4 DEF Search
    <3>6. Uncounting' = Uncounting /\ t \notin Uncounting
      BY <1>2, <3>4, <3>5 DEF Uncounting
    <3>7. LocksInv'
      BY <1>2, <3>4, <3>5, <3>6 DEF FeedsInv, LocksInv
    <3>8. CountInv'
      <4> SUFFICES ASSUME ~uncounted' PROVE CountInv'
        BY DEF CountInv
      <4>1. ~uncounted /\ mapper = {} /\ Uncounting = {} /\ order.at # "count"
        BY <3>4 DEF FeedsInv, LocksInv
      <4>2. feeds = Cardinality(TakenFeeds)
        BY <1>1, <3>4, <4>1, FS_EmptySet, TakenIsFinite DEF FeedsInv, CountInv, OtherTypes
      <4>3. Cardinality(TakenFeeds') = Cardinality(TakenFeeds) + 1
        BY <1>1, <3>2, <3>4, FeedTaken
      <4>4. Cardinality(adder') = 1
        BY <3>4, FS_Singleton
      <4>5. feeds' + Cardinality(adder')
               = Cardinality(TakenFeeds') + (IF mapper' # {} THEN 1 ELSE 0)
        BY <3>4, <4>1, <4>2, <4>3, <4>4, TakenIsFinite
      <4> QED
        BY <1>2, <3>4, <3>5, <3>6, <4>1, <4>5 DEF CountInv
    <3> QED
      BY <3>7, <3>8 DEF FeedsInv
  <2> QED
    BY <2>1, <2>2
<1>11. CASE CountFeed(t)
  <2>1. /\ feeds' = search[t].read + 1 /\ adder' = {} /\ search[t].at = "count"
        /\ UNCHANGED <<feed, mapper, uncounted>>
    BY <1>11 DEF CountFeed
  <2>2. search'[t].at \in {"unfeed", "settle"}
    BY <1>1, <1>11, StageLeaves DEF CountFeed
  <2>3. t \in adder /\ \A u \in Searches \ {t} : search[u].at # "count"
    BY <2>1 DEF FeedsInv, LocksInv
  <2>4. Uncounting' = Uncounting /\ TakenFeeds' = TakenFeeds
    BY <1>2, <2>1, <2>2 DEF Uncounting, TakenFeeds
  <2>5. LocksInv'
    BY <1>2, <2>1, <2>2, <2>3, <2>4 DEF FeedsInv, LocksInv
  <2>6. CountInv'
    <3> SUFFICES ASSUME ~uncounted' PROVE CountInv'
      BY DEF CountInv
    <3>1. mapper = {} /\ Uncounting = {} /\ order.at # "count"
      BY <2>1, <2>3 DEF FeedsInv, LocksInv, CountInv
    <3>2. Cardinality(adder) = 1 /\ search[t].read = feeds /\ feeds \in Nat
      BY <1>1, <2>1, <2>3, SingleCount DEF FeedsInv, LocksInv, CountInv, OtherTypes
    <3>3. feeds + 1 = Cardinality(TakenFeeds)
      BY <2>1, <3>1, <3>2, TakenIsFinite DEF FeedsInv, CountInv
    <3>4. Cardinality(adder') = 0
      BY <2>1, FS_EmptySet
    <3>5. feeds' + Cardinality(adder') = Cardinality(TakenFeeds') + (IF mapper' # {} THEN 1 ELSE 0)
      BY <2>1, <2>4, <3>1, <3>2, <3>3, <3>4, TakenIsFinite
    <3> QED
      BY <1>2, <2>1, <2>4, <3>1, <3>5 DEF CountInv
  <2> QED
    BY <2>5, <2>6 DEF FeedsInv
<1>12. CASE Unfeed(t)
  <2>1. PICK url : url = entry[search[t].entry].stream
    OBVIOUS
  <2>2. CASE Matching(url) = {}
    <3>1. search'[t].at = "settle"
      BY <1>1, <1>12, <2>1, <2>2, StageLeaves DEF Unfeed
    <3> QED
      BY <1>3, <1>12, <2>1, <2>2, <3>1 DEF Unfeed
  <2>3. CASE Matching(url) # {}
    <3>1. /\ feed' = [feed EXCEPT ![Lowest(Matching(url))] = Nothing]
          /\ uncounted' = (uncounted \/ adder # {} \/ url = Nothing)
          /\ mapper = {} /\ mapper' = {t} /\ search[t].at = "unfeed"
          /\ search' = [search EXCEPT ![t].at = "uncount", ![t].read = feeds]
          /\ UNCHANGED <<feeds, adder>>
      BY <1>12, <2>1, <2>3 DEF Unfeed, Unmapped
    <3>2. search'[t].at = "uncount" /\ search'[t].read = feeds
      BY <1>1, <3>1 DEF Search
    <3>3. Uncounting = {} /\ order.at # "count"
      BY <3>1 DEF FeedsInv, LocksInv
    <3>4. Uncounting' = {t}
      BY <1>2, <3>2, <3>3 DEF Uncounting
    <3>5. LocksInv'
      BY <1>2, <3>1, <3>2, <3>3, <3>4 DEF FeedsInv, LocksInv
    <3>6. CountInv'
      <4> SUFFICES ASSUME ~uncounted' PROVE CountInv'
        BY DEF CountInv
      <4>1. ~uncounted /\ adder = {} /\ url # Nothing
        BY <3>1
      <4>2. Cardinality(adder) = 0
        BY <4>1, FS_EmptySet
      <4>3. feeds = Cardinality(TakenFeeds)
        BY <1>1, <3>1, <4>1, <4>2, TakenIsFinite DEF FeedsInv, CountInv, OtherTypes
      <4>4. Cardinality(TakenFeeds) = Cardinality(TakenFeeds') + 1
        BY <1>1, <2>3, <3>1, <4>1, FeedFreed
      <4>5. feeds' + Cardinality(adder')
               = Cardinality(TakenFeeds') + (IF mapper' # {} THEN 1 ELSE 0)
        BY <1>1, <3>1, <4>2, <4>3, <4>4 DEF OtherTypes
      <4> QED
        BY <1>2, <3>1, <3>2, <3>3, <3>4, <4>1, <4>5 DEF CountInv
    <3> QED
      BY <3>5, <3>6 DEF FeedsInv
  <2> QED
    BY <2>2, <2>3
<1>13. CASE Uncount(t)
  <2>1. /\ feeds' = search[t].read - 1 /\ mapper' = {} /\ search[t].at = "uncount"
        /\ UNCHANGED <<feed, adder, uncounted>>
    BY <1>13 DEF Uncount
  <2>2. search'[t].at = "settle"
    BY <1>1, <1>13, StageLeaves DEF Uncount
  <2>3. t \in Uncounting /\ \A u \in Uncounting : u = t
    BY <2>1 DEF FeedsInv, LocksInv, Uncounting
  <2>4. Uncounting' = {} /\ TakenFeeds' = TakenFeeds /\ mapper # {} /\ order.at # "count"
    BY <1>2, <2>1, <2>2, <2>3 DEF Uncounting, TakenFeeds, FeedsInv, LocksInv
  <2>5. LocksInv'
    BY <1>2, <2>1, <2>2, <2>4 DEF FeedsInv, LocksInv
  <2>6. CountInv'
    <3> SUFFICES ASSUME ~uncounted' PROVE CountInv'
      BY DEF CountInv
    <3>1. adder = {} /\ search[t].read = feeds /\ feeds \in Nat
      BY <1>1, <2>1, <2>3, <2>4 DEF FeedsInv, CountInv, OtherTypes
    <3>2. Cardinality(adder) = 0
      BY <3>1, FS_EmptySet
    <3>3. feeds = Cardinality(TakenFeeds) + 1
      BY <2>1, <2>4, <3>1, <3>2, TakenIsFinite DEF FeedsInv, CountInv
    <3>4. feeds' + Cardinality(adder') = Cardinality(TakenFeeds') + (IF mapper' # {} THEN 1 ELSE 0)
      BY <2>1, <2>4, <3>1, <3>2, <3>3, TakenIsFinite
    <3> QED
      BY <1>2, <2>1, <2>4, <3>1, <3>4 DEF CountInv
  <2> QED
    BY <2>5, <2>6 DEF FeedsInv
<1>14. CASE Settle(t)
  <2>1. search'[t].at = "announce"
    BY <1>1, <1>14, StageLeaves DEF Settle
  <2> QED
    BY <1>3, <1>14, <2>1 DEF Settle
<1>15. CASE Announce(t)
  <2>1. search'[t].at = "idle"
    BY <1>1, <1>15, FinishLeaves DEF Announce, Fails
  <2> QED
    BY <1>3, <1>15, <2>1 DEF Announce
<1> QED
  BY <1>4, <1>5, <1>6, <1>7, <1>8, <1>9, <1>10, <1>11, <1>12, <1>13, <1>14, <1>15 DEF SearchThread

\* Messages that change no feed and count none.
LEMMA FeedsStay ==
  ASSUME FeedsInv, UNCHANGED <<feed, feeds, search, adder, mapper, uncounted>>,
         order' = order \/ (order.at # "count" /\ order'.at # "count")
  PROVE  FeedsInv'
<1>1. Uncounting' = Uncounting /\ TakenFeeds' = TakenFeeds
  BY DEF Uncounting, TakenFeeds
<1>2. LocksInv'
  BY <1>1 DEF FeedsInv, LocksInv
<1>3. CountInv'
  BY <1>1 DEF FeedsInv, CountInv
<1> QED
  BY <1>2, <1>3 DEF FeedsInv

LEMMA WipeGoesOn == ASSUME NEW e, AfterWipe(e) PROVE order'.at \in {"free", "idle", "reply"}
<1> QED
  BY DEF AfterWipe

LEMMA MessagesKeepFeeds ==
  ASSUME PlaceInv, FeedsInv, Messages
  PROVE  FeedsInv'
<1>1. OrderTypes /\ OtherTypes
  BY DEF PlaceInv
<1>2. ASSUME NEW n \in Numbers, Delete(n) PROVE FeedsInv'
  <2>1. order.at = "idle" /\ order'.at \in {"free", "load"}
    BY <1>2 DEF Delete, Ordered
  <2> QED
    BY <1>2, <2>1, FeedsStay DEF Delete
<1>3. CASE CleanAll
  BY <1>3, FeedsStay DEF CleanAll, Ordered, cameraTables
<1>4. CASE FreeFeed
  <2>1. PICK e, url : e = Lowest(order.left) /\ url = entry[e].stream
    OBVIOUS
  <2>2. CASE Matching(url) = {}
    <3>1. AfterWipe(e) /\ order.at = "free"
          /\ UNCHANGED <<feed, feeds, search, adder, mapper, uncounted>>
      BY <1>4, <2>1, <2>2 DEF FreeFeed
    <3> QED
      BY <3>1, WipeGoesOn, FeedsStay
  <2>3. CASE Matching(url) # {}
    <3>1. /\ feed' = [feed EXCEPT ![Lowest(Matching(url))] = Nothing]
          /\ uncounted' = (uncounted \/ adder # {} \/ url = Nothing)
          /\ mapper = {} /\ mapper' # {} /\ order.at = "free"
          /\ order' = [order EXCEPT !.at = "count", !.read = feeds]
          /\ UNCHANGED <<feeds, search, adder>>
      BY <1>4, <2>1, <2>3 DEF FreeFeed, Unmapped
    <3>2. order'.at = "count" /\ order'.read = feeds
      BY <1>1, <3>1 DEF OrderTypes, Order
    <3>3. Uncounting = {} /\ Uncounting' = {}
      BY <3>1 DEF FeedsInv, LocksInv, Uncounting
    <3>4. LocksInv'
      BY <3>1, <3>2, <3>3 DEF FeedsInv, LocksInv
    <3>5. CountInv'
      <4> SUFFICES ASSUME ~uncounted' PROVE CountInv'
        BY DEF CountInv
      <4>1. ~uncounted /\ adder = {} /\ url # Nothing
        BY <3>1
      <4>2. Cardinality(adder) = 0
        BY <4>1, FS_EmptySet
      <4>3. feeds = Cardinality(TakenFeeds)
        BY <1>1, <3>1, <4>1, <4>2, TakenIsFinite DEF FeedsInv, CountInv, OtherTypes
      <4>4. Cardinality(TakenFeeds) = Cardinality(TakenFeeds') + 1
        BY <1>1, <2>3, <3>1, <4>1, FeedFreed
      <4>5. feeds' + Cardinality(adder')
               = Cardinality(TakenFeeds') + (IF mapper' # {} THEN 1 ELSE 0)
        BY <1>1, <3>1, <4>2, <4>3, <4>4 DEF OtherTypes
      <4> QED
        BY <3>1, <3>2, <3>3, <4>1, <4>5 DEF CountInv
    <3> QED
      BY <3>4, <3>5 DEF FeedsInv
  <2> QED
    BY <2>2, <2>3
<1>5. CASE FreeEntry
  <2>1. /\ order.at = "count" /\ feeds' = order.read - 1 /\ mapper' = {}
        /\ UNCHANGED <<feed, search, adder, uncounted>>
    BY <1>5 DEF FreeEntry
  <2>2. order'.at # "count"
    BY <1>5, WipeGoesOn DEF FreeEntry
  <2>3. Uncounting = {} /\ Uncounting' = {} /\ mapper # {} /\ TakenFeeds' = TakenFeeds
    BY <2>1 DEF FeedsInv, LocksInv, Uncounting, TakenFeeds
  <2>4. LocksInv'
    BY <2>1, <2>2, <2>3 DEF FeedsInv, LocksInv
  <2>5. CountInv'
    <3> SUFFICES ASSUME ~uncounted' PROVE CountInv'
      BY DEF CountInv
    <3>1. adder = {} /\ order.read = feeds /\ feeds \in Nat
      BY <1>1, <2>1, <2>3 DEF FeedsInv, CountInv, OtherTypes
    <3>2. Cardinality(adder) = 0
      BY <3>1, FS_EmptySet
    <3>3. feeds = Cardinality(TakenFeeds) + 1
      BY <2>1, <2>3, <3>1, <3>2, TakenIsFinite DEF FeedsInv, CountInv
    <3>4. feeds' + Cardinality(adder') = Cardinality(TakenFeeds') + (IF mapper' # {} THEN 1 ELSE 0)
      BY <2>1, <2>3, <3>1, <3>2, <3>3, TakenIsFinite
    <3> QED
      BY <2>1, <2>2, <2>3, <3>1, <3>4 DEF CountInv
  <2> QED
    BY <2>4, <2>5 DEF FeedsInv
<1>6. CASE PassOver
  BY <1>6, WipeGoesOn, FeedsStay DEF PassOver, cameraTables
<1>7. CASE ReplyDeleted
  BY <1>7, FeedsStay DEF ReplyDeleted, NoOrder
<1>8. CASE Load
  BY <1>8, FeedsStay DEF Load, NoOrder
<1>9. ASSUME NEW w \in {"zero", "open"}, Window(w) PROVE FeedsInv'
  BY <1>9, FeedsStay DEF Window, cameraTables
<1>10. CASE WindowPasses
  BY <1>10, FeedsStay DEF WindowPasses, cameraTables
<1>11. CASE FirmwareLock
  BY <1>11, FeedsStay DEF FirmwareLock, cameraTables
<1>12. CASE Poll
  BY <1>12, FeedsStay DEF Poll, Silent
<1>13. CASE WlanChanged
  BY <1>13, FeedsStay DEF WlanChanged, Silent
<1> QED
  BY <1>2, <1>3, <1>4, <1>5, <1>6, <1>7, <1>8, <1>9, <1>10, <1>11, <1>12, <1>13 DEF Messages

LEMMA InitFeeds == CameraInit => FeedsInv
<1> SUFFICES ASSUME CameraInit PROVE FeedsInv
  OBVIOUS
<1>1. Uncounting = {} /\ TakenFeeds = {} /\ adder = {} /\ mapper = {} /\ order.at = "idle" /\ feeds = 0
  BY DEF CameraInit, Uncounting, TakenFeeds, Resting, NoOrder
<1>2. \A t \in Searches : search[t].at = "idle"
  BY DEF CameraInit, Resting
<1>3. LocksInv
  BY <1>1, <1>2 DEF LocksInv
<1>4. CountInv
  BY <1>1, FS_EmptySet DEF CountInv
<1> QED
  BY <1>3, <1>4 DEF FeedsInv

LEMMA StepFeeds == PlaceInv /\ FeedsInv /\ [CameraNext]_cameraVars => FeedsInv'
<1> SUFFICES ASSUME PlaceInv, FeedsInv, [CameraNext]_cameraVars PROVE FeedsInv'
  OBVIOUS
<1>1. CASE CameraNext
  BY <1>1, SearchKeepsFeeds, MessagesKeepFeeds DEF CameraNext
<1>2. CASE UNCHANGED cameraVars
  BY <1>2, FeedsStay DEF cameraVars, cameraTables
<1> QED
  BY <1>1, <1>2

LEMMA FeedsAreCounted == ASSUME PlaceInv, FeedsInv PROVE FeedsCounted
<1> SUFFICES ASSUME ~uncounted PROVE FeedsCounted
  BY DEF FeedsCounted
<1>1. {t \in Searches : search[t].at = "uncount"} = Uncounting
      /\ {f \in Feeds : feed[f] # Nothing} = TakenFeeds
  BY DEF Uncounting, TakenFeeds
<1>2. feeds \in Nat /\ Cardinality(TakenFeeds) \in Nat
  BY TakenIsFinite DEF PlaceInv, OtherTypes
<1>3. (adder = {} /\ Cardinality(adder) = 0) \/ Cardinality(adder) = 1
  BY FS_EmptySet, SingleCount DEF FeedsInv, LocksInv
<1>4. feeds = Cardinality(TakenFeeds) + (IF mapper # {} THEN 1 ELSE 0) - Cardinality(adder)
  BY <1>2, <1>3 DEF FeedsInv, CountInv
<1>5. Cardinality(Uncounting) + (IF order.at = "count" THEN 1 ELSE 0) = IF mapper # {} THEN 1 ELSE 0
  <2>1. CASE Uncounting = {}
    BY <2>1, FS_EmptySet DEF FeedsInv, LocksInv
  <2>2. CASE Uncounting # {}
    <3>1. Cardinality(Uncounting) = 1 /\ order.at # "count" /\ mapper # {}
      BY <2>2, SingleCount DEF FeedsInv, LocksInv
    <3> QED
      BY <3>1
  <2> QED
    BY <2>1, <2>2
<1>6. Cardinality(Uncounting) \in Nat
  <2>1. CASE Uncounting = {}
    BY <2>1, FS_EmptySet
  <2>2. CASE Uncounting # {}
    BY <2>2, SingleCount DEF FeedsInv, LocksInv
  <2> QED
    BY <2>1, <2>2
<1>7. PICK taken, freeing, counting, adding :
          /\ taken = Cardinality(TakenFeeds) /\ freeing = Cardinality(Uncounting)
          /\ counting = (IF order.at = "count" THEN 1 ELSE 0) /\ adding = Cardinality(adder)
  OBVIOUS
<1>8. feeds = taken + freeing + counting - adding
  <2>1. counting \in {0, 1} /\ adding \in {0, 1} /\ taken \in Nat /\ freeing \in Nat
    BY <1>2, <1>3, <1>6, <1>7
  <2>2. feeds = taken + (freeing + counting) - adding
    BY <1>4, <1>5, <1>7
  <2> QED
    BY <2>1, <2>2
<1> QED
  BY <1>1, <1>7, <1>8 DEF FeedsCounted

-----------------------------------------------------------------------------
\* Rows that keep their numbers are told by them as before.
LEMMA SameNumbers ==
  ASSUME RowsOnce, NEW g \in [rows -> Uids],
         rows' = {[id |-> w.id, uid |-> g[w]] : w \in rows}
  PROVE  RowsOnce'
<1> SUFFICES ASSUME NEW r \in rows', NEW q \in rows', r.id = q.id PROVE r = q
  BY DEF RowsOnce
<1>1. PICK v \in rows : r = [id |-> v.id, uid |-> g[v]]
  OBVIOUS
<1>2. PICK w \in rows : q = [id |-> w.id, uid |-> g[w]]
  OBVIOUS
<1>3. v = w
  BY <1>1, <1>2 DEF RowsOnce
<1> QED
  BY <1>1, <1>2, <1>3

\* Every row was there under its number, and if it is another it is an entry's.
Follows == \A r \in rows' : \E w \in rows : w.id = r.id /\ (r = w \/ (HasEntry(r) /\ r.uid # Nothing))
SameNames == \A e \in Entries : entry'[e].id = entry[e].id /\ entry'[e].uid = entry[e].uid

LEMMA RewrittenFollows ==
  ASSUME OtherTypes, RowsOnce, NEW e \in Entries, entry[e] \in Entry, entry[e].uid # Nothing,
         rows' = Rewritten(entry[e])
  PROVE  RowsOnce' /\ Follows
<1> DEFINE g == [w \in rows |-> IF w.id = entry[e].id THEN entry[e].uid ELSE w.uid]
<1>1. \A w \in rows : w = [id |-> w.id, uid |-> w.uid] /\ w.uid \in Uids
  BY DEF OtherTypes, Rows
<1>2. g \in [rows -> Uids]
  BY <1>1 DEF Entry
<1>3. rows' = {[id |-> w.id, uid |-> g[w]] : w \in rows}
  BY DEF Rewritten
<1>4. RowsOnce'
  <2> HIDE DEF g
  <2> QED
    BY <1>2, <1>3, SameNumbers
<1>5. ASSUME NEW r \in rows'
      PROVE  \E w \in rows : w.id = r.id /\ (r = w \/ (HasEntry(r) /\ r.uid # Nothing))
  <2>1. PICK w \in rows : r = [id |-> w.id, uid |-> g[w]]
    BY <1>3
  <2>2. w.id # entry[e].id => r = w
    BY <1>1, <2>1
  <2>3. w.id = entry[e].id => r.id = entry[e].id /\ r.uid = entry[e].uid
    BY <2>1
  <2> QED
    BY <2>1, <2>2, <2>3 DEF HasEntry
<1> QED
  BY <1>4, <1>5 DEF Follows

LEMMA PlacedFollows ==
  ASSUME PlacedInv, Follows, SameNames, UNCHANGED <<kept, order>>
  PROVE  PlacedInv'
<1>1. ASSUME NEW r, HasEntry(r) PROVE HasEntry(r)'
  BY <1>1 DEF HasEntry, SameNames
<1> QED
  BY <1>1 DEF PlacedInv, Follows

LEMMA NumbersFollow ==
  ASSUME NumbersInv, Follows, SameNames
  PROVE  NumbersInv'
<1>1. (\A e \in Entries : entry[e].uid = Nothing => entry[e].id = 0)'
  BY DEF NumbersInv, SameNames
<1>2. (\A d, e \in Entries : entry[d].id = entry[e].id => d = e \/ entry[d].id = 0)'
  BY DEF NumbersInv, SameNames
<1>3. (\A r \in rows : r.id # 0 /\ r.uid # Nothing)'
  BY DEF NumbersInv, Follows
<1> QED
  BY <1>1, <1>2, <1>3 DEF NumbersInv

\* Others go on as they are when a thread does something to its own entry.
LEMMA OtherUsers ==
  ASSUME UsersInv, SearchTypes, Follows, NEW t \in Searches,
         \A u \in Searches \ {t} : search'[u] = search[u],
         \A e \in Entries : e # search[t].entry =>
              entry'[e].id = entry[e].id /\ entry'[e].uid = entry[e].uid,
         Entered(t) \/ SameNames
  PROVE  \A u \in Searches \ {t} : UserOK(u)'
<1> SUFFICES ASSUME NEW u \in Searches \ {t}, Entered(u) PROVE UserOK(u)'
  BY DEF UserOK, Entered
<1>1. search[u].entry \in Entries
  BY CameraAssumption DEF SearchTypes, Search, Entered, Entries
<1>2. PICK e \in Entries : e = search[u].entry /\ search'[u] = search[u]
  BY <1>1
<1>3. entry'[e].id = entry[e].id /\ entry'[e].uid = entry[e].uid
  BY <1>2 DEF UsersInv, Entered, SameNames
<1>4. \A r \in rows' : \E w \in rows : w.id = r.id
  BY DEF Follows
<1>5. UserOK(u)
  BY DEF UsersInv
<1> QED
  BY <1>2, <1>3, <1>4, <1>5 DEF UserOK, Entered

\* No entry gets another user when a thread keeps its entry or leaves it.
LEMMA NobodyElse ==
  ASSUME UsersInv, SearchTypes, NEW t \in Searches,
         \A u \in Searches \ {t} : search'[u] = search[u],
         search'[t].entry \in {search[t].entry, 0}
  PROVE  /\ \A u, v \in Searches : Entered(u)' /\ search'[u].entry = search'[v].entry => u = v
         /\ \A e \in Entries : Using(e) = {} => Using(e)' = {}
<1>1. \A u \in Searches : Entered(u)' => search'[u].entry = search[u].entry /\ Entered(u)
  BY DEF Entered
<1>2. ASSUME NEW u \in Searches, NEW v \in Searches, Entered(u)',
             search'[u].entry = search'[v].entry
      PROVE  u = v
  <2>1. Entered(v)'
    BY <1>2 DEF Entered
  <2> QED
    BY <1>1, <1>2, <2>1 DEF UsersInv
<1>3. ASSUME NEW e \in Entries, Using(e) = {} PROVE Using(e)' = {}
  <2> SUFFICES ASSUME NEW u \in Searches, search'[u].entry = e PROVE u \in Using(e)
    BY <1>3 DEF Using
  <2>1. e # 0
    BY DEF Entries
  <2>2. search[u].entry = e /\ Entered(u)
    BY <1>1, <2>1 DEF Entered
  <2> QED
    BY <2>2 DEF Using, SearchTypes, SearchOK
<1> QED
  BY <1>2, <1>3

\* A thread that leaves the numbers and uids of the entries as they are.
LEMMA UserGoesOn ==
  ASSUME SearchTypes, OrderTypes, TablesInv, NEW t \in Searches,
         \A u \in Searches \ {t} : search'[u] = search[u],
         search'[t].entry \in {search[t].entry, 0},
         SameNames, RowsOnce', ~raced => Follows, UNCHANGED <<kept, order, raced>>,
         Entered(t) \/ UNCHANGED <<entry, rows>>, ~raced /\ UserOK(t) => UserOK(t)'
  PROVE  TablesInv'
<1> SUFFICES ASSUME ~raced' PROVE CamerasInv'
  BY DEF TablesInv
<1>1. ~raced /\ CamerasInv /\ Follows
  BY DEF TablesInv
<1>2. NumbersInv' /\ PlacedInv'
  BY <1>1, NumbersFollow, PlacedFollows DEF CamerasInv
<1>3. \A u \in Searches : Entered(u)' => search'[u].entry = search[u].entry /\ Entered(u)
  BY DEF Entered
<1>4. UsersInv'
  <2>1. UserOK(t)'
    BY <1>1 DEF CamerasInv, UsersInv
  <2>2. \A u \in Searches \ {t} : UserOK(u)'
    BY <1>1, OtherUsers DEF CamerasInv, SameNames
  <2>3. \A u, v \in Searches : Entered(u)' /\ search'[u].entry = search'[v].entry => u = v
    BY <1>1, NobodyElse DEF CamerasInv
  <2> QED
    BY <2>1, <2>2, <2>3 DEF UsersInv
<1>5. OrderInv'
  <2>1. ASSUME NEW e \in Entries, Using(e) = {} PROVE Using(e)' = {}
    BY <1>1, <2>1, NobodyElse DEF CamerasInv
  <2>2. order.id # 0 =>
          /\ \A d, e \in order.left : d = e
          /\ \A e \in order.left :
               entry'[e].id = order.id \/ (entry'[e].id = 0 /\ Using(e)' = {})
    BY <1>1, <2>1 DEF CamerasInv, OrderInv, SameNames, OrderTypes, Order
  <2>3. order.at = "load" => UNCHANGED <<entry, rows>> /\ \A u \in Searches : ~Entered(u)'
    BY <1>1, <1>3 DEF CamerasInv, OrderInv
  <2>4. (order.at = "load" =>
           /\ \A e \in Entries : entry[e] = Wiped
           /\ \A u \in Searches : ~Entered(u)
           /\ (\A r \in rows : r.id \notin kept) =>
                IsFiniteSet(rows) /\ Cardinality(rows) <= CameraCount)'
    BY <1>1, <2>3 DEF CamerasInv, OrderInv
  <2> QED
    BY <2>2, <2>4 DEF OrderInv
<1> QED
  BY <1>2, <1>4, <1>5 DEF CamerasInv

\* A thread that fails wipes its entry only when no row has its number.
LEMMA FailsKeeps ==
  ASSUME PlaceInv, TablesInv, NEW t \in Searches, Fails(t),
         search[t].at \notin {"idle", "claim", "update", "test", "number"},
         \A u \in Searches \ {t} : search'[u] = search[u],
         UNCHANGED <<rows, kept, order, raced>>
  PROVE  TablesInv'
<1>1. SearchTypes /\ OrderTypes /\ EntryTypes
  BY DEF PlaceInv
<1>2. Entered(t) /\ search'[t].entry = 0
  BY <1>1 DEF SearchTypes, SearchOK, Fails, Finish, Resting
<1>3. PICK e \in Entries : e = search[t].entry
  BY <1>1, <1>2, CameraAssumption DEF SearchTypes, Search, Entered, Entries
<1>4. Follows /\ RowsOnce'
  BY DEF Follows, TablesInv, RowsOnce
<1>5. CASE ~search[t].add
  <2>1. SameNames
    BY <1>5 DEF SameNames, Fails
  <2>2. UserOK(t)'
    BY <1>2 DEF UserOK, Entered
  <2> QED
    BY <1>1, <1>2, <1>4, <2>1, <2>2, UserGoesOn
<1>6. CASE search[t].add
  <2> SUFFICES ASSUME ~raced PROVE CamerasInv'
    BY <1>4 DEF TablesInv
  <2>1. UsersInv /\ NumbersInv /\ OrderInv /\ PlacedInv
    BY DEF TablesInv, CamerasInv
  <2>2. entry' = [entry EXCEPT ![e] = Wiped]
    BY <1>3, <1>6 DEF Fails
  <2>3. \A d \in Entries : d # e => entry'[d] = entry[d]
    BY <2>2, <1>1 DEF EntryTypes
  <2>4. entry'[e] = Wiped /\ Wiped.id = 0
    BY <2>2, <1>1 DEF EntryTypes, Wiped
  <2>5. \A r \in rows : r.id # entry[e].id
    BY <1>2, <1>3, <1>6, <2>1 DEF UsersInv, UserOK
  <2>6. NumbersInv'
    BY <2>1, <2>3, <2>4 DEF NumbersInv
  <2>7. PlacedInv'
    <3>1. ASSUME NEW r \in rows, HasEntry(r) PROVE HasEntry(r)'
      BY <2>3, <2>5, <3>1 DEF HasEntry
    <3> QED
      BY <2>1, <3>1 DEF PlacedInv
  <2>8. UsersInv'
    <3>1. \A u \in Searches \ {t} : UserOK(u)'
      BY <1>1, <1>2, <1>3, <1>4, <2>1, <2>3, OtherUsers
    <3>2. UserOK(t)'
      BY <1>2 DEF UserOK, Entered
    <3> QED
      BY <1>1, <1>2, <2>1, <3>1, <3>2, NobodyElse DEF UsersInv
  <2>9. OrderInv'
    <3>1. \A d \in Entries : Using(d) = {} => Using(d)' = {}
      BY <1>1, <1>2, <2>1, NobodyElse
    <3>2. Using(e)' = {}
      <4>1. \A u \in Searches : search'[u].entry # e
        BY <1>2, <1>3, <2>1 DEF UsersInv, Entered, Entries
      <4> QED
        BY <4>1 DEF Using
    <3>3. order.left \subseteq Entries
      BY <1>1 DEF OrderTypes, Order
    <3>4. order.at # "load"
      BY <1>2, <2>1 DEF OrderInv
    <3> QED
      BY <2>1, <2>3, <2>4, <3>1, <3>2, <3>3, <3>4 DEF OrderInv
  <2> QED
    BY <2>6, <2>7, <2>8, <2>9 DEF CamerasInv
<1> QED
  BY <1>5, <1>6

LEMMA ClaimKeeps ==
  ASSUME PlaceInv, TablesInv, NEW t \in Searches, Claim(t)
  PROVE  TablesInv'
<1>1. SearchTypes /\ OrderTypes /\ EntryTypes /\ OtherTypes
  BY DEF PlaceInv
<1>2. \A u \in Searches \ {t} : search'[u] = search[u]
  BY <1>1, OwnLocals DEF SearchThread
<1>3. Follows /\ RowsOnce' /\ UNCHANGED <<rows, kept, order>>
  BY DEF Follows, TablesInv, RowsOnce, Claim
<1>4. search[t].at = "claim" /\ search[t].entry = 0 /\ search[t].uid \in Cameras
  BY <1>1 DEF Claim, SearchTypes, SearchOK, Entered
<1> DEFINE mine == {e \in Entries : entry[e].uid = search[t].uid}
           unused == {e \in Entries : entry[e].uid = Nothing}
<1>5. CASE mine \cup unused = {}
  <2>1. Finish(t) /\ UNCHANGED <<entry, raced>>
    BY <1>5 DEF Claim
  <2>2. search'[t].entry = 0
    BY <1>1, <2>1 DEF Finish, Resting, SearchTypes
  <2>3. SameNames /\ UserOK(t)'
    BY <2>1, <2>2 DEF SameNames, UserOK, Entered
  <2> QED
    BY <1>1, <1>2, <1>3, <2>1, <2>2, <2>3, UserGoesOn
<1>6. CASE mine \cup unused # {}
  <2> SUFFICES ASSUME ~raced' PROVE CamerasInv'
    BY <1>3 DEF TablesInv
  <2>1. PICK S : S = IF mine # {} THEN mine ELSE unused
    OBVIOUS
  <2>2. S \in SUBSET Entries /\ S # {} /\ \A e \in S : entry[e].uid \in {search[t].uid, Nothing}
    BY <1>6, <2>1
  <2>3. PICK e \in Entries : e = Lowest(S) /\ entry[e].uid \in {search[t].uid, Nothing}
    BY <2>2, LowestEntry
  <2>4. PICK c \in Cameras : c = search[t].uid
    BY <1>4
  <2>5. /\ entry' = [entry EXCEPT ![e].uid = c]
        /\ search' = [search EXCEPT ![t].at = "update", ![t].entry = e]
        /\ raced' = (raced \/ Using(e) # {} \/ order.at # "idle")
    BY <1>6, <2>1, <2>3, <2>4 DEF Claim
  <2>6. ~raced /\ Using(e) = {} /\ order.at = "idle"
    BY <2>5
  <2>7. UsersInv /\ NumbersInv /\ OrderInv /\ PlacedInv
    BY <2>6 DEF TablesInv, CamerasInv
  <2>8. entry'[e].uid = c /\ entry'[e].id = entry[e].id /\ c # Nothing
    BY <1>1, <2>5, CameraAssumption DEF EntryTypes, Entry
  <2>9. \A d \in Entries : d # e => entry'[d] = entry[d]
    BY <1>1, <2>5 DEF EntryTypes
  <2>10. search'[t].entry = e /\ search'[t].at = "update"
    BY <1>1, <2>5 DEF SearchTypes, Search
  <2>11. \A u \in Searches : search[u].entry # e
    BY <1>1, <2>6 DEF Using, SearchTypes, SearchOK, Entered, Entries
  <2>12. NumbersInv'
    <3>1. \A d \in Entries : entry'[d].id = entry[d].id
      BY <2>8, <2>9
    <3>2. \A d \in Entries : entry'[d].uid = Nothing => entry[d].uid = Nothing
      BY <2>8, <2>9
    <3> QED
      BY <1>3, <2>7, <3>1, <3>2 DEF NumbersInv
  <2>13. PlacedInv'
    <3>1. ASSUME NEW r \in rows, HasEntry(r) PROVE HasEntry(r)'
      <4>1. PICK d \in Entries : entry[d].id = r.id /\ entry[d].uid = r.uid
        BY <3>1 DEF HasEntry
      <4>2. r.uid # Nothing
        BY <2>7 DEF NumbersInv
      <4>3. entry'[d].id = r.id /\ entry'[d].uid = r.uid
        BY <2>3, <2>4, <2>8, <2>9, <4>1, <4>2
      <4> QED
        BY <4>3 DEF HasEntry
    <3> QED
      BY <1>3, <2>7, <3>1 DEF PlacedInv
  <2>14. UsersInv'
    <3>1. ASSUME NEW u \in Searches \ {t} PROVE UserOK(u)'
      <4> SUFFICES ASSUME Entered(u) PROVE UserOK(u)'
        BY <1>2 DEF UserOK, Entered
      <4>1. PICK d \in Entries : d = search[u].entry
        BY <1>1, CameraAssumption DEF SearchTypes, Search, Entered, Entries
      <4>2. entry'[d] = entry[d]
        BY <2>9, <2>11, <4>1
      <4> QED
        BY <1>2, <1>3, <2>7, <4>1, <4>2 DEF UsersInv, UserOK, Entered
    <3>2. UserOK(t)'
      BY <2>8, <2>10 DEF UserOK
    <3>3. \A u, v \in Searches : Entered(u)' /\ search'[u].entry = search'[v].entry => u = v
      BY <1>2, <2>7, <2>10, <2>11 DEF UsersInv, Entered
    <3> QED
      BY <3>1, <3>2, <3>3 DEF UsersInv
  <2>15. OrderInv'
    <3>1. order.left = {} /\ order.at # "load"
      BY <1>1, <2>6 DEF OrderTypes, OrderOK
    <3> QED
      BY <1>3, <3>1 DEF OrderInv
  <2> QED
    BY <2>12, <2>13, <2>14, <2>15 DEF CamerasInv
<1> QED
  BY <1>5, <1>6

LEMMA GreatestIsOne ==
  ASSUME NEW S \in SUBSET Nat, S # {}, NEW b \in Nat, \A n \in S : n <= b
  PROVE  LET top == CHOOSE n \in S : \A m \in S : m <= n
         IN  top \in S /\ \A m \in S : m <= top
<1> DEFINE R == {ss \in Nat \X Nat : ss[1] < ss[2]}
           Above == {b - n : n \in S}
<1>1. IsWellFoundedOn(R, Nat)
  BY NatLessThanWellFounded DEF OpToRel
<1>2. Above \subseteq Nat /\ Above # {}
  <2>1. \A n \in S : b - n \in Nat
    OBVIOUS
  <2> QED
    BY <2>1
<1>3. PICK p \in Above : \A q \in Above : <<q, p>> \notin R
  <2> HIDE DEF R, Above
  <2> QED
    BY <1>1, <1>2, WFMin
<1>4. PICK x \in S : p = b - x
  BY <1>3
<1>5. ASSUME NEW m \in S PROVE m <= x
  <2>1. b - m \in Above /\ b - m \in Nat /\ p \in Nat
    BY <1>2
  <2>2. <<b - m, p>> \in Nat \X Nat /\ <<b - m, p>>[1] = b - m /\ <<b - m, p>>[2] = p
    BY <2>1
  <2>3. ~ (b - m < p)
    BY <1>3, <2>1, <2>2
  <2> QED
    BY <1>4, <2>1, <2>3
<1> QED
  BY <1>5

LEMMA NumberKeeps ==
  ASSUME PlaceInv, TablesInv, NEW t \in Searches, Number(t)
  PROVE  TablesInv'
<1>1. SearchTypes /\ OrderTypes /\ EntryTypes /\ OtherTypes
  BY DEF PlaceInv
<1>2. \A u \in Searches \ {t} : search'[u] = search[u]
  BY <1>1, OwnLocals DEF SearchThread
<1>3. Follows /\ RowsOnce' /\ UNCHANGED <<rows, kept, order>>
  BY DEF Follows, TablesInv, RowsOnce, Number
<1>4. search[t].at = "number" /\ Entered(t)
  BY <1>1 DEF Number, SearchTypes, SearchOK
<1>5. PICK e \in Entries : e = search[t].entry
  BY <1>1, <1>4, CameraAssumption DEF SearchTypes, Search, Entered, Entries
<1> SUFFICES ASSUME ~raced' PROVE CamerasInv'
  BY <1>3 DEF TablesInv
<1> DEFINE taken == {entry[d].id : d \in Entries}
<1>6. PICK after \in Numbers : after = 1 + CHOOSE n \in taken : \A m \in taken : m <= n
  BY DEF Number
<1>7. \A m \in taken : m # after
  <2>1. taken \in SUBSET Nat /\ \A m \in taken : m <= MaxNumber
    BY <1>1, CameraAssumption DEF EntryTypes, Entry
  <2>2. taken # {} /\ MaxNumber \in Nat
    BY <1>5, CameraAssumption
  <2> HIDE DEF taken
  <2>3. PICK top : top = CHOOSE n \in taken : \A m \in taken : m <= n
    OBVIOUS
  <2>4. \A m \in taken : m <= top
    BY <2>1, <2>2, <2>3, GreatestIsOne
  <2>5. after = 1 + top /\ after \in Nat
    BY <1>6, <2>3, CameraAssumption DEF Numbers
  <2>6. top \in taken
    BY <2>1, <2>2, <2>3, GreatestIsOne
  <2> QED
    BY <2>1, <2>4, <2>5, <2>6
<1>8. /\ entry' = [entry EXCEPT ![e].id = after]
      /\ raced' = (raced \/ \E r \in rows : r.id = after)
      /\ Stage(t, "fetch")
  BY <1>5, <1>6 DEF Number
<1>9. ~raced /\ \A r \in rows : r.id # after
  BY <1>8
<1>10. UsersInv /\ NumbersInv /\ OrderInv /\ PlacedInv
  BY <1>9 DEF TablesInv, CamerasInv
<1>11. entry'[e].id = after /\ entry'[e].uid = entry[e].uid /\ entry[e].uid # Nothing /\ entry[e].id = 0
  BY <1>1, <1>4, <1>5, <1>8, <1>10 DEF EntryTypes, Entry, UsersInv, UserOK
<1>12. \A d \in Entries : d # e => entry'[d] = entry[d]
  BY <1>1, <1>8 DEF EntryTypes
<1>13. search'[t].entry = e /\ search'[t].at = "fetch"
  BY <1>1, <1>5, <1>8 DEF SearchTypes, Search, Stage
<1>14. after # 0 /\ \A d \in Entries : entry[d].id # after
  BY <1>7, CameraAssumption DEF Numbers
<1>15. NumbersInv'
  <2>1. (\A d \in Entries : entry[d].uid = Nothing => entry[d].id = 0)'
    BY <1>10, <1>11, <1>12 DEF NumbersInv
  <2>2. (\A c, d \in Entries : entry[c].id = entry[d].id => c = d \/ entry[c].id = 0)'
    BY <1>10, <1>11, <1>12, <1>14 DEF NumbersInv
  <2> QED
    BY <1>3, <1>10, <2>1, <2>2 DEF NumbersInv
<1>16. PlacedInv'
  <2>1. ASSUME NEW r \in rows, HasEntry(r) PROVE HasEntry(r)'
    <3>1. PICK d \in Entries : entry[d].id = r.id /\ entry[d].uid = r.uid
      BY <2>1 DEF HasEntry
    <3>2. d # e
      BY <1>10, <1>11, <3>1 DEF NumbersInv
    <3> QED
      BY <1>12, <3>1, <3>2 DEF HasEntry
  <2> QED
    BY <1>3, <1>10, <2>1 DEF PlacedInv
<1>17. UsersInv'
  <2>1. \A u \in Searches \ {t} : UserOK(u)'
    BY <1>1, <1>2, <1>3, <1>4, <1>5, <1>10, <1>12, OtherUsers
  <2>2. UserOK(t)'
    BY <1>3, <1>9, <1>11, <1>13, <1>14 DEF UserOK
  <2> QED
    BY <1>1, <1>2, <1>5, <1>10, <1>13, <2>1, <2>2, NobodyElse DEF UsersInv
<1>18. OrderInv'
  <2>1. \A d \in Entries : Using(d) = {} => Using(d)' = {}
    BY <1>1, <1>2, <1>5, <1>10, <1>13, NobodyElse
  <2>2. Using(e) # {} /\ order.left \subseteq Entries
    BY <1>1, <1>4, <1>5 DEF Using, OrderTypes, Order
  <2>3. order.id # 0 => e \notin order.left
    BY <1>10, <1>11, <2>2 DEF OrderInv
  <2>4. order.at # "load"
    BY <1>4, <1>10 DEF OrderInv
  <2> QED
    BY <1>3, <1>10, <1>12, <2>1, <2>2, <2>3, <2>4 DEF OrderInv
<1> QED
  BY <1>15, <1>16, <1>17, <1>18 DEF CamerasInv

\* Update and Announce finish or go on; what they write, they write of their entry.
LEMMA WritesKeep ==
  ASSUME PlaceInv, TablesInv, NEW t \in Searches, Entered(t),
         \A u \in Searches \ {t} : search'[u] = search[u],
         Finish(t) \/ Stage(t, "test"), SameNames, UNCHANGED <<kept, order, raced>>,
         rows' \in {rows, Rewritten(entry[search[t].entry])}
  PROVE  TablesInv'
<1>1. SearchTypes /\ OrderTypes /\ EntryTypes /\ OtherTypes
  BY DEF PlaceInv
<1>2. PICK e \in Entries : e = search[t].entry
  BY <1>1, CameraAssumption DEF SearchTypes, Search, Entered, Entries
<1>3. entry[e] \in Entry
  BY <1>1 DEF EntryTypes
<1>4. search'[t].entry \in {search[t].entry, 0} /\ (Entered(t)' => search'[t].at = "test")
  BY <1>1, FinishLeaves DEF Finish, Stage, Resting, SearchTypes, Search, Entered
<1>5. RowsOnce'
  <2>1. CASE rows' = rows
    BY <2>1 DEF TablesInv, RowsOnce
  <2>2. CASE rows' = Rewritten(entry[e])
    <3> DEFINE g == [w \in rows |-> IF w.id = entry[e].id THEN entry[e].uid ELSE w.uid]
    <3>1. g \in [rows -> Uids]
      BY <1>1, <1>3 DEF Entry, OtherTypes, Rows
    <3>2. rows' = {[id |-> w.id, uid |-> g[w]] : w \in rows}
      BY <2>2 DEF Rewritten
    <3> HIDE DEF g
    <3> QED
      BY <3>1, <3>2, SameNumbers DEF TablesInv
  <2> QED
    BY <1>2, <2>1, <2>2
<1>6. ASSUME ~raced PROVE Follows /\ entry[e].uid # Nothing
  <2>1. entry[e].uid # Nothing
    BY <1>2, <1>6 DEF TablesInv, CamerasInv, UsersInv, UserOK
  <2>2. CASE rows' = rows
    BY <2>1, <2>2 DEF Follows
  <2>3. CASE rows' = Rewritten(entry[e])
    BY <1>1, <1>3, <2>1, <2>3, RewrittenFollows DEF TablesInv
  <2> QED
    BY <1>2, <2>2, <2>3
<1>7. ~raced /\ UserOK(t) => UserOK(t)'
  <2> SUFFICES ASSUME ~raced, Entered(t)' PROVE UserOK(t)'
    BY DEF UserOK, Entered
  <2>1. search'[t].entry = e /\ search'[t].at = "test"
    BY <1>2, <1>4 DEF Entered
  <2>2. entry'[e].uid # Nothing
    BY <1>6 DEF SameNames
  <2> QED
    BY <2>1, <2>2 DEF UserOK
<1> QED
  BY <1>1, <1>4, <1>5, <1>6, <1>7, UserGoesOn

\* From fetch on a thread goes on with the number and the rows as they were.
LEMMA NumberedGoesOn ==
  ASSUME PlaceInv, TablesInv, NEW t \in Searches,
         \A u \in Searches \ {t} : search'[u] = search[u],
         search[t].at \notin {"idle", "claim", "update", "test", "number"},
         search'[t].at \notin {"idle", "claim", "update", "test", "number"},
         search'[t].entry = search[t].entry, search'[t].add = search[t].add,
         SameNames, UNCHANGED <<rows, kept, order, raced>>
  PROVE  TablesInv'
<1>1. SearchTypes /\ OrderTypes
  BY DEF PlaceInv
<1>2. Follows /\ RowsOnce'
  BY DEF Follows, TablesInv, RowsOnce
<1>3. Entered(t) /\ search[t].entry \in Entries
  BY <1>1, CameraAssumption DEF SearchTypes, SearchOK, Search, Entered, Entries
<1>4. UserOK(t) => UserOK(t)'
  BY <1>3 DEF UserOK, Entered, SameNames
<1> QED
  BY <1>1, <1>2, <1>3, <1>4, UserGoesOn

\* A new camera's row is added when no row has its number.
LEMMA RowAddedKeeps ==
  ASSUME PlaceInv, TablesInv, NEW t \in Searches, search[t].at = "announce",
         \A u \in Searches \ {t} : search'[u] = search[u],
         Finish(t), UNCHANGED <<entry, kept, order, raced>>,
         NEW r, r = entry[search[t].entry], \A w \in rows : w.id # r.id,
         rows' = rows \cup {[id |-> r.id, uid |-> r.uid]}
  PROVE  TablesInv'
<1>1. SearchTypes /\ OrderTypes
  BY DEF PlaceInv
<1>2. Entered(t) /\ search'[t].entry = 0
  BY <1>1 DEF SearchTypes, SearchOK, Finish, Resting
<1>3. PICK e \in Entries : e = search[t].entry
  BY <1>1, <1>2, CameraAssumption DEF SearchTypes, Search, Entered, Entries
<1>4. RowsOnce'
  BY DEF TablesInv, RowsOnce
<1> SUFFICES ASSUME ~raced PROVE CamerasInv'
  BY <1>4 DEF TablesInv
<1>5. UsersInv /\ NumbersInv /\ OrderInv /\ PlacedInv
  BY DEF TablesInv, CamerasInv
<1>6. r.id # 0 /\ r.uid # Nothing
  BY <1>2, <1>3, <1>5 DEF UsersInv, UserOK
<1>7. NumbersInv'
  BY <1>5, <1>6 DEF NumbersInv
<1>8. PlacedInv'
  <2>1. ASSUME NEW w, HasEntry(w) PROVE HasEntry(w)'
    BY <2>1 DEF HasEntry
  <2>2. HasEntry([id |-> r.id, uid |-> r.uid])
    BY <1>3 DEF HasEntry
  <2> QED
    BY <1>5, <2>1, <2>2 DEF PlacedInv
<1>9. UsersInv'
  <2>1. ASSUME NEW u \in Searches \ {t} PROVE UserOK(u)'
    <3> SUFFICES ASSUME Entered(u), search[u].at \notin {"update", "test", "number"}, search[u].add
                 PROVE  r.id # entry[search[u].entry].id
      BY <1>5 DEF UsersInv, UserOK, Entered
    <3>1. PICK d \in Entries : d = search[u].entry
      BY <1>1, CameraAssumption DEF SearchTypes, Search, Entered, Entries
    <3>2. d # e
      BY <1>3, <1>5, <3>1 DEF UsersInv
    <3> QED
      BY <1>3, <1>5, <1>6, <3>1, <3>2 DEF NumbersInv
  <2>2. UserOK(t)'
    BY <1>2 DEF UserOK, Entered
  <2> QED
    BY <1>1, <1>2, <1>5, <2>1, <2>2, NobodyElse DEF UsersInv
<1>10. OrderInv'
  <2>1. \A d \in Entries : Using(d) = {} => Using(d)' = {}
    BY <1>1, <1>2, <1>5, NobodyElse
  <2>2. order.left \subseteq Entries /\ order.at # "load"
    BY <1>1, <1>2, <1>5 DEF OrderTypes, Order, OrderInv
  <2> QED
    BY <1>5, <2>1, <2>2 DEF OrderInv
<1> QED
  BY <1>7, <1>8, <1>9, <1>10 DEF CamerasInv

LEMMA SearchKeepsTables ==
  ASSUME PlaceInv, TablesInv, NEW t \in Searches, SearchThread(t)
  PROVE  TablesInv'
<1>1. SearchTypes /\ OrderTypes /\ EntryTypes /\ OtherTypes /\ search \in [Searches -> Search]
  BY DEF PlaceInv, SearchTypes
<1>2. order' = order /\ \A u \in Searches \ {t} : search'[u] = search[u]
  BY <1>1, OwnLocals
<1>3. search[t].at \notin {"idle", "claim"} => Entered(t) /\ search[t].entry \in Entries
  BY <1>1, CameraAssumption DEF SearchTypes, SearchOK, Search, Entered, Entries
<1>4. UNCHANGED rows => Follows /\ RowsOnce'
  BY DEF Follows, TablesInv, RowsOnce
<1>5. ASSUME NEW e \in Entries, e = search[t].entry,
             \/ entry' = [entry EXCEPT ![e].ip = Nothing]
             \/ entry' = [entry EXCEPT ![e].state = "online"]
             \/ entry' = [entry EXCEPT ![e].remote = search[t].feed]
             \/ entry' = Replaced(t)
             \/ entry' = [entry EXCEPT ![e].state = "online", ![e].ip = search[t].ip,
                                       ![e].stream = search[t].ip]
      PROVE  SameNames
  BY <1>1, <1>5 DEF SameNames, EntryTypes, Entry, Replaced
<1>6. UNCHANGED entry => SameNames
  BY DEF SameNames
<1>7. ASSUME NEW s, Stage(t, s)
      PROVE  search'[t].at = s /\ search'[t].entry = search[t].entry /\ search'[t].add = search[t].add
  BY <1>1, <1>7 DEF Stage, Search
<1>8. ASSUME NEW c \in Cameras, NEW a \in Addresses, Answer(t, c, a) PROVE TablesInv'
  <2>1. search'[t].entry = 0 /\ search[t].entry = 0
    BY <1>1, <1>8 DEF Answer, Search, SearchTypes, SearchOK, Entered
  <2>2. UserOK(t)'
    BY <2>1 DEF UserOK, Entered
  <2> QED
    BY <1>1, <1>2, <1>4, <1>6, <1>8, <2>1, <2>2, UserGoesOn DEF Answer, cameraTables
<1>9. CASE Update(t)
  <2>1. PICK e \in Entries : e = search[t].entry
    BY <1>3, <1>9 DEF Update
  <2>2. \/ UNCHANGED entry
        \/ entry' = [entry EXCEPT ![e].ip = Nothing]
        \/ entry' = [entry EXCEPT ![e].state = "online"]
    BY <1>9, <2>1 DEF Update
  <2>3. SameNames
    BY <1>5, <1>6, <2>1, <2>2
  <2>4. rows' \in {rows, Rewritten(entry[search[t].entry])} /\ (Finish(t) \/ Stage(t, "test"))
    BY <1>9 DEF Update
  <2> QED
    BY <1>2, <1>3, <1>9, <2>3, <2>4, WritesKeep DEF Update
<1>10. CASE Test(t)
  <2> DEFINE new == entry[search[t].entry].id = 0
  <2>1. search' = [search EXCEPT ![t].add = new, ![t].at = IF new THEN "number" ELSE "fetch"]
    BY <1>10 DEF Test
  <2>2. search'[t].entry = search[t].entry /\ search'[t].add = new
        /\ search'[t].at = IF new THEN "number" ELSE "fetch"
    BY <1>1, <2>1 DEF Search
  <2>3. Entered(t) /\ search[t].entry \in Entries
    BY <1>3, <1>10 DEF Test
  <2>4. UNCHANGED <<entry, rows, kept, raced>>
    BY <1>10 DEF Test, cameraTables
  <2>5. UserOK(t) => UserOK(t)'
    BY <2>2, <2>3, <2>4 DEF UserOK, Entered
  <2> QED
    BY <1>1, <1>2, <1>4, <1>6, <2>2, <2>3, <2>4, <2>5, UserGoesOn
<1>11. CASE Fetch(t)
  <2>1. CASE Stage(t, "feed") /\ UNCHANGED entry
    BY <1>2, <1>6, <1>7, <1>11, <2>1, NumberedGoesOn DEF Fetch
  <2>2. CASE Fails(t)
    BY <1>2, <1>11, <2>2, FailsKeeps DEF Fetch
  <2> QED
    BY <1>11, <2>1, <2>2 DEF Fetch
<1>12. CASE TakeFeed(t)
  <2>1. search'[t].at \in {"settle", "count"} /\ search'[t].entry = search[t].entry
        /\ search'[t].add = search[t].add
    <3>1. Stage(t, "settle") \/ \E f \in {Lowest(S) : S \in SUBSET Feeds} :
             search' = [search EXCEPT ![t].at = "count", ![t].feed = f, ![t].read = feeds]
      BY <1>12 DEF TakeFeed
    <3>2. CASE Stage(t, "settle")
      BY <1>7, <3>2
    <3>3. ASSUME NEW f, search' = [search EXCEPT ![t].at = "count", ![t].feed = f, ![t].read = feeds]
          PROVE  search'[t].at = "count" /\ search'[t].entry = search[t].entry
                 /\ search'[t].add = search[t].add
      BY <1>1, <3>3 DEF Search
    <3> QED
      BY <3>1, <3>2, <3>3
  <2> QED
    BY <1>2, <1>6, <1>12, <2>1, NumberedGoesOn DEF TakeFeed
<1>13. CASE CountFeed(t)
  <2>1. PICK e \in Entries : e = search[t].entry
    BY <1>3, <1>13 DEF CountFeed
  <2>2. UNCHANGED entry \/ entry' = [entry EXCEPT ![e].remote = search[t].feed]
    BY <1>13, <2>1 DEF CountFeed
  <2>3. SameNames
    BY <1>5, <1>6, <2>1, <2>2
  <2>4. search'[t].at \in {"unfeed", "settle"} /\ search'[t].entry = search[t].entry
        /\ search'[t].add = search[t].add
    BY <1>7, <1>13 DEF CountFeed
  <2> QED
    BY <1>2, <1>13, <2>3, <2>4, NumberedGoesOn DEF CountFeed
<1>14. CASE Unfeed(t)
  <2>1. PICK e \in Entries : e = search[t].entry
    BY <1>3, <1>14 DEF Unfeed
  <2>2. UNCHANGED entry \/ entry' = Replaced(t)
    BY <1>14 DEF Unfeed
  <2>3. SameNames
    BY <1>5, <1>6, <2>1, <2>2
  <2>4. Stage(t, "settle") \/ search' = [search EXCEPT ![t].at = "uncount", ![t].read = feeds]
    BY <1>14 DEF Unfeed
  <2>5. search'[t].at \in {"uncount", "settle"} /\ search'[t].entry = search[t].entry
        /\ search'[t].add = search[t].add
    BY <1>1, <1>7, <2>4 DEF Search
  <2> QED
    BY <1>2, <1>14, <2>3, <2>5, NumberedGoesOn DEF Unfeed
<1>15. CASE Uncount(t)
  <2>1. PICK e \in Entries : e = search[t].entry
    BY <1>3, <1>15 DEF Uncount
  <2>2. SameNames
    BY <1>5, <1>15, <2>1 DEF Uncount
  <2> QED
    BY <1>2, <1>7, <1>15, <2>2, NumberedGoesOn DEF Uncount
<1>16. CASE Settle(t)
  <2>1. PICK e \in Entries : e = search[t].entry
    BY <1>3, <1>16 DEF Settle
  <2>2. SameNames
    BY <1>5, <1>16, <2>1 DEF Settle
  <2> QED
    BY <1>2, <1>7, <1>16, <2>2, NumberedGoesOn DEF Settle
<1>17. CASE Announce(t)
  <2>1. Entered(t) /\ search[t].at = "announce" /\ UNCHANGED <<kept, order, raced>>
    BY <1>3, <1>17 DEF Announce
  <2>2. CASE Fails(t) /\ UNCHANGED rows
    BY <1>2, <2>1, <2>2, FailsKeeps
  <2>3. PICK r : r = entry[search[t].entry]
    OBVIOUS
  <2>4. CASE Finish(t) /\ UNCHANGED entry /\ rows' \in {rows, Rewritten(r)}
    BY <1>2, <1>6, <2>1, <2>3, <2>4, WritesKeep
  <2>5. CASE /\ Finish(t) /\ UNCHANGED entry /\ \A w \in rows : w.id # r.id
             /\ rows' = rows \cup {[id |-> r.id, uid |-> r.uid]}
    BY <1>2, <2>1, <2>3, <2>5, RowAddedKeeps
  <2> QED
    BY <1>17, <2>2, <2>3, <2>4, <2>5 DEF Announce
<1> QED
  BY <1>8, <1>9, <1>10, <1>11, <1>12, <1>13, <1>14, <1>15, <1>16, <1>17, ClaimKeeps, NumberKeeps
  DEF SearchThread

-----------------------------------------------------------------------------
\* Messages that leave the tables, but for the rows that follow them.
LEMMA TablesStay ==
  ASSUME PlaceInv, TablesInv, SameNames, RowsOnce', ~raced => Follows,
         UNCHANGED <<search, order, kept, raced>>,
         order.at # "load" \/ UNCHANGED <<entry, rows>>
  PROVE  TablesInv'
<1>1. SearchTypes /\ OrderTypes
  BY DEF PlaceInv
<1> SUFFICES ASSUME ~raced PROVE CamerasInv'
  BY DEF TablesInv
<1>2. UsersInv /\ NumbersInv /\ OrderInv /\ PlacedInv /\ Follows
  BY DEF TablesInv, CamerasInv
<1>3. NumbersInv' /\ PlacedInv'
  BY <1>2, NumbersFollow, PlacedFollows
<1>4. UsersInv'
  <2>1. ASSUME NEW u \in Searches PROVE UserOK(u)'
    <3> SUFFICES ASSUME Entered(u) PROVE UserOK(u)'
      BY DEF UserOK, Entered
    <3>1. PICK d \in Entries : d = search[u].entry
      BY <1>1, CameraAssumption DEF SearchTypes, Search, Entered, Entries
    <3>2. \A r \in rows' : \E w \in rows : w.id = r.id
      BY <1>2 DEF Follows
    <3> QED
      BY <1>2, <3>1, <3>2 DEF UsersInv, UserOK, Entered, SameNames
  <2> QED
    BY <1>2, <2>1 DEF UsersInv, Entered
<1>5. OrderInv'
  <2>1. order.left \subseteq Entries
    BY <1>1 DEF OrderTypes, Order
  <2>2. (order.id # 0 =>
           /\ \A d, e \in order.left : d = e
           /\ \A e \in order.left :
                entry[e].id = order.id \/ (entry[e].id = 0 /\ Using(e) = {}))'
    BY <1>2, <2>1 DEF OrderInv, SameNames, Using
  <2>3. (order.at = "load" =>
           /\ \A e \in Entries : entry[e] = Wiped
           /\ \A t \in Searches : ~Entered(t)
           /\ (\A r \in rows : r.id \notin kept) =>
                IsFiniteSet(rows) /\ Cardinality(rows) <= CameraCount)'
    BY <1>2 DEF OrderInv, Entered
  <2> QED
    BY <2>2, <2>3 DEF OrderInv
<1> QED
  BY <1>3, <1>4, <1>5 DEF CamerasInv

\* The message thread goes on; the tables, or all but the rows, stay.
LEMMA OrderGoesOn ==
  ASSUME PlaceInv, TablesInv, UNCHANGED <<entry, search, raced>>, rows' \subseteq rows,
         ~raced => OrderInv' /\ PlacedInv'
  PROVE  TablesInv'
<1>1. RowsOnce'
  BY DEF TablesInv, RowsOnce
<1>2. UsersInv => UsersInv'
  BY DEF UsersInv, UserOK, Entered
<1>3. NumbersInv => NumbersInv'
  BY DEF NumbersInv
<1> QED
  BY <1>1, <1>2, <1>3 DEF TablesInv, CamerasInv

LEMMA SilentKeeps ==
  ASSUME PlaceInv, TablesInv, NEW E \in SUBSET Entries, Silent(E), order.at # "load",
         \A e \in E : entry[e].id # 0
  PROVE  TablesInv'
<1>1. EntryTypes /\ OtherTypes
  BY DEF PlaceInv
<1>2. SameNames
  BY <1>1 DEF SameNames, Silent, EntryTypes, Entry
<1> DEFINE mine(w) == {e \in E : entry[e].id = w.id}
           apart(w) == locked \/ \A e \in E : entry[e].id # w.id
           g == [w \in rows |-> IF apart(w) THEN w.uid ELSE entry[Lowest(mine(w))].uid]
<1>3. ASSUME NEW w \in rows, ~apart(w)
      PROVE  \E e \in Entries : e = Lowest(mine(w)) /\ entry[e].id = w.id
  <2>1. mine(w) \in SUBSET Entries /\ mine(w) # {}
    BY <1>3
  <2>2. Lowest(mine(w)) \in mine(w)
    BY <2>1, LowestEntry
  <2> QED
    BY <2>2
<1>4. rows' = {[id |-> w.id, uid |-> g[w]] : w \in rows}
  BY DEF Silent
<1>5. g \in [rows -> Uids]
  <2>1. ASSUME NEW w \in rows
        PROVE  (IF apart(w) THEN w.uid ELSE entry[Lowest(mine(w))].uid) \in Uids
    <3>1. CASE apart(w)
      BY <1>1, <3>1 DEF OtherTypes, Rows
    <3>2. CASE ~apart(w)
      <4>1. PICK e \in Entries : e = Lowest(mine(w))
        BY <1>3, <3>2
      <4>2. entry[e].uid \in Uids
        BY <1>1 DEF EntryTypes, Entry
      <4> QED
        BY <3>2, <4>1, <4>2
    <3> QED
      BY <3>1, <3>2
  <2> HIDE DEF apart, mine
  <2> QED
    BY <2>1
<1>6. RowsOnce'
  <2> HIDE DEF g
  <2> QED
    BY <1>4, <1>5, SameNumbers DEF TablesInv
<1>7. ASSUME ~raced PROVE Follows
  <2> SUFFICES ASSUME NEW r \in rows'
               PROVE  \E w \in rows : w.id = r.id /\ (r = w \/ (HasEntry(r) /\ r.uid # Nothing))
    BY DEF Follows
  <2>1. PICK w \in rows : r = [id |-> w.id, uid |-> g[w]]
    BY <1>4
  <2>2. CASE apart(w)
    <3>1. w = [id |-> w.id, uid |-> w.uid]
      BY <1>1 DEF OtherTypes, Rows
    <3> QED
      BY <2>1, <2>2, <3>1
  <2>3. CASE ~apart(w)
    <3>1. PICK e \in Entries : e = Lowest(mine(w)) /\ entry[e].id = w.id
      BY <1>3, <2>3
    <3>2. r.id = entry[e].id /\ r.uid = entry[e].uid
      BY <2>1, <2>3, <3>1
    <3>3. w.id # 0 /\ r.uid # Nothing
      BY <1>7, <3>1, <3>2 DEF TablesInv, CamerasInv, NumbersInv
    <3> QED
      BY <2>1, <3>2, <3>3 DEF HasEntry
  <2> QED
    BY <2>2, <2>3
<1> QED
  BY <1>2, <1>6, <1>7, TablesStay DEF Silent

\* An entry is freed that nobody uses.
LEMMA WipeKeeps ==
  ASSUME PlaceInv, TablesInv, NEW e \in Entries, e \in order.left, Wipe(e), AfterWipe(e),
         UNCHANGED <<rows, search>>
  PROVE  TablesInv'
<1>1. SearchTypes /\ OrderTypes /\ EntryTypes /\ order.at \in {"free", "count"}
  BY DEF PlaceInv, OrderTypes, OrderOK
<1>2. RowsOnce'
  BY DEF TablesInv, RowsOnce
<1> SUFFICES ASSUME ~raced' PROVE CamerasInv'
  BY <1>2 DEF TablesInv
<1>3. ~raced /\ Using(e) = {}
  BY DEF Wipe
<1>4. UsersInv /\ NumbersInv /\ OrderInv /\ PlacedInv
  BY <1>3 DEF TablesInv, CamerasInv
<1>5. entry'[e] = Wiped /\ Wiped.id = 0 /\ \A d \in Entries : d # e => entry'[d] = entry[d]
  BY <1>1 DEF Wipe, EntryTypes, Wiped
<1>6. \A u \in Searches : search[u].entry # e
  BY <1>1, <1>3 DEF Using, SearchTypes, SearchOK, Entered, Entries
<1>7. NumbersInv'
  BY <1>4, <1>5 DEF NumbersInv
<1>8. UsersInv'
  <2>1. ASSUME NEW u \in Searches PROVE UserOK(u)'
    <3> SUFFICES ASSUME Entered(u) PROVE UserOK(u)'
      BY DEF UserOK, Entered
    <3>1. PICK d \in Entries : d = search[u].entry /\ d # e
      BY <1>1, <1>6, CameraAssumption DEF SearchTypes, Search, Entered, Entries
    <3> QED
      BY <1>4, <1>5, <3>1 DEF UsersInv, UserOK, Entered
  <2> QED
    BY <1>4, <2>1 DEF UsersInv, Entered
<1>9. /\ order'.id = order.id /\ order'.left = order.left \ {e}
      /\ order'.at \in {"free", "idle", "reply"}
      /\ order.left = {e} /\ order.id # 0 => order'.at = "reply"
  BY DEF AfterWipe
<1>10. order.id # 0 => order.left = {e}
  BY <1>4 DEF OrderInv
<1>11. OrderInv'
  <2>1. order'.id # 0 => order'.left = {}
    BY <1>9, <1>10
  <2> QED
    BY <1>9, <2>1 DEF OrderInv
<1>12. PlacedInv'
  <2> SUFFICES ASSUME NEW r \in rows
               PROVE  r.id \in kept' \/ (order'.at = "reply" /\ order'.id = r.id) \/ HasEntry(r)'
    BY DEF PlacedInv
  <2>1. r.id \in kept \/ HasEntry(r)
    BY <1>1, <1>4 DEF PlacedInv
  <2>2. CASE r.id \in kept
    BY <2>2 DEF Wipe
  <2>3. CASE HasEntry(r)
    <3>1. PICK d \in Entries : entry[d].id = r.id /\ entry[d].uid = r.uid
      BY <2>3 DEF HasEntry
    <3>2. CASE d # e
      BY <1>5, <3>1, <3>2 DEF HasEntry
    <3>3. CASE d = e /\ order.id = 0
      BY <3>1, <3>3 DEF Wipe
    <3>4. CASE d = e /\ order.id # 0
      <4>1. r.id = order.id
        BY <1>4, <3>1, <3>4 DEF OrderInv, NumbersInv
      <4> QED
        BY <1>9, <1>10, <3>4, <4>1
    <3> QED
      BY <3>2, <3>3, <3>4
  <2> QED
    BY <2>1, <2>2, <2>3
<1> QED
  BY <1>7, <1>8, <1>11, <1>12 DEF CamerasInv

\* Rows that all have an entry are no more than the entries.
LEMMA RowsFit ==
  ASSUME RowsOnce, \A r \in rows : HasEntry(r)
  PROVE  IsFiniteSet(rows) /\ Cardinality(rows) <= CameraCount
<1> DEFINE Held == {e \in Entries : \E r \in rows : entry[e].id = r.id}
           row(e) == CHOOSE r \in rows : entry[e].id = r.id
           f == [e \in Held |-> row(e)]
<1>1. ASSUME NEW r \in rows, NEW e \in Entries, entry[e].id = r.id PROVE e \in Held /\ row(e) = r
  BY <1>1 DEF RowsOnce
<1>2. f \in Surjection(Held, rows)
  <2>1. f \in [Held -> rows]
    OBVIOUS
  <2>2. \A r \in rows : \E e \in Held : f[e] = r
    BY <1>1 DEF HasEntry
  <2> HIDE DEF Held, f
  <2> QED
    BY <2>1, <2>2 DEF Surjection
<1>3. IsFiniteSet(Entries) /\ Cardinality(Entries) = CameraCount
  BY CameraAssumption, FS_Interval DEF Entries
<1>4. Held \in SUBSET Entries
  OBVIOUS
<1> HIDE DEF Held, f
<1>5. IsFiniteSet(Held) /\ Cardinality(Held) <= CameraCount /\ Cardinality(Held) \in Nat
  BY <1>3, <1>4, FS_Subset, FS_CardinalityType
<1>6. IsFiniteSet(rows) /\ Cardinality(rows) <= Cardinality(Held)
  BY <1>2, <1>5, FS_Surjection
<1> QED
  BY <1>5, <1>6, FS_CardinalityType, CameraAssumption

LEMMA DeleteKeeps ==
  ASSUME PlaceInv, TablesInv, NEW n \in Numbers, Delete(n)
  PROVE  TablesInv'
<1>1. SearchTypes /\ OrderTypes /\ OtherTypes /\ order.at = "idle"
  BY DEF PlaceInv, Delete, Ordered
<1>2. n # 0 /\ UNCHANGED <<rows, search, kept>>
  BY CameraAssumption DEF Numbers, Delete
<1> DEFINE found == {e \in Entries : entry[e].id = n}
<1>3. CASE found # {}
  <2>1. PICK e \in Entries : e = Lowest(found) /\ entry[e].id = n
    <3>1. found \in SUBSET Entries
      OBVIOUS
    <3> QED
      BY <1>3, <3>1, LowestEntry
  <2>2. order' = [at |-> "free", left |-> {e}, id |-> n, read |-> 0] /\ UNCHANGED <<entry, raced>>
    BY <1>3, <2>1 DEF Delete
  <2>3. OrderInv'
    BY <2>1, <2>2 DEF OrderInv
  <2>4. PlacedInv => PlacedInv'
    BY <1>1, <1>2, <2>2 DEF PlacedInv, HasEntry
  <2> QED
    BY <1>2, <2>2, <2>3, <2>4, OrderGoesOn DEF TablesInv, CamerasInv
<1>4. CASE found = {}
  <2>1. /\ order' = [at |-> "load", left |-> {}, id |-> n, read |-> 0]
        /\ entry' = [e \in Entries |-> Wiped]
        /\ raced' = (raced \/ \E t \in Searches : search[t].entry # 0)
    BY <1>4 DEF Delete
  <2>2. RowsOnce'
    BY <1>2 DEF TablesInv, RowsOnce
  <2> SUFFICES ASSUME ~raced' PROVE CamerasInv'
    BY <2>2 DEF TablesInv
  <2>3. ~raced /\ \A t \in Searches : search[t].entry = 0
    BY <2>1
  <2>4. UsersInv /\ NumbersInv /\ OrderInv /\ PlacedInv
    BY <2>3 DEF TablesInv, CamerasInv
  <2>5. \A t \in Searches : ~Entered(t)'
    BY <1>2, <2>3 DEF Entered
  <2>6. UsersInv'
    BY <2>5 DEF UsersInv, UserOK
  <2>7. \A e \in Entries : entry'[e] = Wiped /\ Wiped.id = 0
    BY <2>1 DEF Wiped
  <2>8. NumbersInv'
    BY <1>2, <2>4, <2>7 DEF NumbersInv
  <2>9. PlacedInv'
    BY <2>1 DEF PlacedInv
  <2>10. (\A r \in rows : r.id \notin kept) => IsFiniteSet(rows) /\ Cardinality(rows) <= CameraCount
    <3> SUFFICES ASSUME \A r \in rows : r.id \notin kept
                 PROVE  IsFiniteSet(rows) /\ Cardinality(rows) <= CameraCount
      OBVIOUS
    <3>1. \A r \in rows : HasEntry(r)
      BY <1>1, <2>4 DEF PlacedInv
    <3> QED
      BY <3>1, RowsFit DEF TablesInv
  <2>11. OrderInv'
    <3>1. order'.left = {} /\ order'.at = "load"
      BY <2>1
    <3> QED
      BY <1>2, <2>5, <2>7, <2>10, <3>1 DEF OrderInv
  <2> QED
    BY <2>6, <2>8, <2>9, <2>11 DEF CamerasInv
<1> QED
  BY <1>3, <1>4

\* The rows before a row, by their numbers: of two rows one has fewer.
Before(r) == {q \in rows : q.id < r.id}

LEMMA FewerBefore ==
  ASSUME IsFiniteSet(rows), rows \subseteq Rows, RowsOnce,
         NEW r \in rows, NEW q \in rows, Cardinality(Before(r)) = Cardinality(Before(q))
  PROVE  r = q
<1>1. \A w \in rows : w.id \in Nat
  BY CameraAssumption DEF Rows
<1>2. \A w \in rows : IsFiniteSet(Before(w)) /\ w \notin Before(w)
  <2> TAKE w \in rows
  <2>1. Before(w) \in SUBSET rows /\ w \notin Before(w)
    BY <1>1 DEF Before
  <2> QED
    BY <2>1, FS_Subset
<1>3. ASSUME NEW v \in rows, NEW w \in rows, v.id < w.id,
             Cardinality(Before(v)) = Cardinality(Before(w))
      PROVE  FALSE
  <2>1. Before(v) \in SUBSET Before(w) /\ v \in Before(w)
    BY <1>1, <1>3 DEF Before
  <2>2. Before(v) = Before(w)
    BY <1>2, <1>3, <2>1, FS_Subset
  <2> QED
    BY <1>2, <2>1, <2>2
<1>4. r.id = q.id
  <2>1. ~(r.id < q.id) /\ ~(q.id < r.id)
    BY <1>3
  <2> QED
    BY <1>1, <2>1
<1> QED
  BY <1>4 DEF RowsOnce

LEMMA LoadKeeps ==
  ASSUME PlaceInv, TablesInv, Load
  PROVE  TablesInv'
<1>1. SearchTypes /\ OrderTypes /\ OtherTypes /\ EntryTypes
  BY DEF PlaceInv
<1>2. order.at = "load" /\ order' = NoOrder /\ UNCHANGED <<rows, search, raced>>
  BY DEF Load
<1>3. RowsOnce'
  BY <1>2 DEF TablesInv, RowsOnce
<1> SUFFICES ASSUME ~raced PROVE CamerasInv'
  BY <1>2, <1>3 DEF TablesInv
<1>4. UsersInv /\ NumbersInv /\ OrderInv /\ RowsOnce
  BY DEF TablesInv, CamerasInv
<1>5. (\A e \in Entries : entry[e] = Wiped) /\ Wiped.id = 0 /\ \A t \in Searches : ~Entered(t)
  BY <1>2, <1>4 DEF OrderInv, Wiped
<1> DEFINE new == {r \in rows : \A e \in Entries : entry[e].id # r.id}
           free == {e \in Entries : entry[e].id = 0}
           RowFor(e) == {r \in new : Cardinality({q \in new : q.id < r.id})
                                        = Cardinality({d \in free : d < e})}
           Mine(e) == {r \in rows : Cardinality(Before(r)) = e - 1}
<1>6. new = rows /\ free = Entries
  BY <1>4, <1>5 DEF NumbersInv
<1>7. ASSUME NEW e \in Entries PROVE RowFor(e) = Mine(e)
  <2>1. {d \in free : d < e} = 1 .. (e - 1) /\ e \in Nat \ {0}
    BY <1>6, CameraAssumption DEF Entries
  <2>2. Cardinality({d \in free : d < e}) = e - 1
    <3>1. Cardinality(1 .. (e - 1)) = IF 1 > e - 1 THEN 0 ELSE e - 1 - 1 + 1
      BY <2>1, FS_Interval
    <3>2. (IF 1 > e - 1 THEN 0 ELSE e - 1 - 1 + 1) = e - 1
      BY <2>1
    <3> HIDE DEF free
    <3> QED
      BY <2>1, <3>1, <3>2
  <2>3. \A r \in rows : {q \in new : q.id < r.id} = Before(r)
    BY <1>6 DEF Before
  <2> HIDE DEF new, free
  <2> QED
    BY <1>6, <2>2, <2>3
<1> DEFINE chosen(e) == CHOOSE r \in RowFor(e) : TRUE
<1>8. entry' = [e \in Entries |->
                  IF e \notin free \/ RowFor(e) = {} THEN entry[e]
                  ELSE [entry[e] EXCEPT !.id = chosen(e).id, !.uid = chosen(e).uid]]
      /\ kept' = IF \E r \in rows : r.id \in kept
                 THEN kept \cup {r.id : r \in {r \in new : \A e \in Entries : entry'[e].id # r.id}}
                 ELSE kept
  BY DEF Load
<1>9. ASSUME NEW e \in Entries
      PROVE  \/ entry'[e].id = 0 /\ Mine(e) = {}
             \/ \E r \in Mine(e) : entry'[e].id = r.id /\ entry'[e].uid = r.uid
  <2>1. RowFor(e) = Mine(e) /\ e \in free /\ entry[e] = Wiped
    BY <1>5, <1>6, <1>7
  <2> HIDE DEF free, RowFor, Mine
  <2>2. CASE Mine(e) = {}
    BY <1>5, <1>8, <2>1, <2>2
  <2>3. CASE Mine(e) # {}
    <3>1. chosen(e) \in Mine(e)
      BY <2>1, <2>3
    <3>2. entry'[e] = [entry[e] EXCEPT !.id = chosen(e).id, !.uid = chosen(e).uid]
      BY <1>8, <2>1, <2>3
    <3>3. entry'[e].id = chosen(e).id /\ entry'[e].uid = chosen(e).uid
      BY <1>1, <3>2 DEF EntryTypes, Entry
    <3> QED
      BY <3>1, <3>3
  <2> QED
    BY <2>2, <2>3
<1>10. \A r \in rows : r.id # 0 /\ r.uid # Nothing
  BY <1>4 DEF NumbersInv
<1>11. NumbersInv'
  <2>1. ASSUME NEW d \in Entries, NEW e \in Entries, entry'[d].id = entry'[e].id, entry'[d].id # 0
        PROVE  d = e
    <3>1. PICK r \in Mine(d) : entry'[d].id = r.id
      BY <1>9, <2>1
    <3>2. PICK q \in Mine(e) : entry'[e].id = q.id
      BY <1>9, <2>1
    <3>3. r = q
      BY <1>4, <2>1, <3>1, <3>2 DEF RowsOnce
    <3>4. d - 1 = e - 1
      BY <3>1, <3>2, <3>3
    <3> QED
      BY <3>4, CameraAssumption DEF Entries
  <2>2. \A e \in Entries : entry'[e].uid = Nothing => entry'[e].id = 0
    BY <1>9, <1>10
  <2> HIDE DEF Mine, RowFor, new, free
  <2> QED
    BY <1>2, <1>10, <2>1, <2>2 DEF NumbersInv
<1>12. ASSUME NEW r \in rows, NEW e \in Entries, entry'[e].id = r.id PROVE HasEntry(r)'
  <2>1. PICK q \in Mine(e) : entry'[e].id = q.id /\ entry'[e].uid = q.uid
    BY <1>9, <1>10, <1>12
  <2>2. q = r
    BY <1>4, <1>12, <2>1 DEF RowsOnce
  <2> QED
    BY <1>12, <2>1, <2>2 DEF HasEntry
<1>13. PlacedInv'
  <2> SUFFICES ASSUME NEW r \in rows PROVE r.id \in kept' \/ HasEntry(r)'
    BY <1>2 DEF PlacedInv
  <2>1. CASE \E w \in rows : w.id \in kept
    <3>1. CASE \E e \in Entries : entry'[e].id = r.id
      BY <1>12, <3>1
    <3>2. CASE \A e \in Entries : entry'[e].id # r.id
      <4>1. PICK out : out = {q \in new : \A e \in Entries : entry'[e].id # q.id}
        OBVIOUS
      <4>2. r \in out
        BY <1>6, <3>2, <4>1
      <4>3. kept' = kept \cup {q.id : q \in out}
        BY <1>8, <2>1, <4>1
      <4> QED
        BY <4>2, <4>3
    <3> QED
      BY <3>1, <3>2
  <2>2. CASE \A w \in rows : w.id \notin kept
    <3>1. IsFiniteSet(rows) /\ Cardinality(rows) <= CameraCount /\ Cardinality(rows) \in Nat
      BY <1>2, <1>4, <2>2, FS_CardinalityType DEF OrderInv
    <3>2. Cardinality(Before(r)) \in Nat /\ Cardinality(Before(r)) < Cardinality(rows)
      <4>1. Before(r) \in SUBSET (rows \ {r})
        BY <1>1, CameraAssumption DEF Before, OtherTypes, Rows
      <4>2. IsFiniteSet(rows \ {r}) /\ Cardinality(rows \ {r}) = Cardinality(rows) - 1
        BY <3>1, FS_RemoveElement
      <4>3. IsFiniteSet(Before(r)) /\ Cardinality(Before(r)) <= Cardinality(rows \ {r})
        BY <4>1, <4>2, FS_Subset
      <4> QED
        BY <3>1, <4>2, <4>3, FS_CardinalityType
    <3>3. PICK e \in Entries : e = Cardinality(Before(r)) + 1
      BY <3>1, <3>2, CameraAssumption DEF Entries
    <3>4. r \in Mine(e)
      BY <3>2, <3>3
    <3>5. PICK q \in Mine(e) : entry'[e].id = q.id
      BY <1>9, <3>4
    <3>6. q \in rows /\ Cardinality(Before(q)) = Cardinality(Before(r))
      BY <3>4, <3>5
    <3>7. r = q
      BY <1>1, <1>4, <3>1, <3>6, FewerBefore DEF OtherTypes
    <3> QED
      BY <1>12, <3>5, <3>7
  <2> QED
    BY <2>1, <2>2
<1>14. UsersInv'
  BY <1>2, <1>5 DEF UsersInv, UserOK, Entered
<1>15. OrderInv'
  BY <1>2 DEF OrderInv, NoOrder
<1> QED
  BY <1>11, <1>13, <1>14, <1>15 DEF CamerasInv

LEMMA MessagesKeepTables ==
  ASSUME PlaceInv, TablesInv, Messages
  PROVE  TablesInv'
<1>1. OrderTypes /\ OrderOK
  BY DEF PlaceInv, OrderTypes
<1>2. UNCHANGED <<entry, rows>> => SameNames /\ RowsOnce' /\ Follows
  BY DEF SameNames, Follows, TablesInv, RowsOnce
<1>3. order.at \in {"free", "count"} => Lowest(order.left) \in order.left /\ order.left \subseteq Entries
  <2> SUFFICES ASSUME order.at \in {"free", "count"}
               PROVE  Lowest(order.left) \in order.left /\ order.left \subseteq Entries
    OBVIOUS
  <2>1. order.left \in SUBSET Entries /\ order.left # {}
    BY <1>1 DEF OrderTypes, OrderOK, Order
  <2> QED
    BY <2>1, LowestEntry
<1>4. ~raced => OrderInv /\ PlacedInv
  BY DEF TablesInv, CamerasInv
<1>5. CASE CleanAll
  <2>1. OrderInv'
    BY <1>5 DEF CleanAll, OrderInv
  <2>2. PlacedInv => PlacedInv'
    BY <1>5 DEF CleanAll, Ordered, cameraTables, PlacedInv, HasEntry
  <2> QED
    BY <1>4, <1>5, <2>1, <2>2, OrderGoesOn DEF CleanAll, cameraTables
<1>6. CASE FreeFeed
  <2>1. PICK e \in Entries : e = Lowest(order.left) /\ e \in order.left
    BY <1>3, <1>6 DEF FreeFeed
  <2>2. CASE Matching(entry[e].stream) = {}
    <3>1. Wipe(e) /\ AfterWipe(e) /\ UNCHANGED <<rows, search>>
      BY <1>6, <2>1, <2>2 DEF FreeFeed
    <3> QED
      BY <2>1, <3>1, WipeKeeps
  <2>3. CASE Matching(entry[e].stream) # {}
    <3>1. order' = [order EXCEPT !.at = "count", !.read = feeds] /\ order.at = "free"
          /\ UNCHANGED <<entry, rows, search, kept, raced>>
      BY <1>6, <2>1, <2>3 DEF FreeFeed
    <3>2. order'.at = "count" /\ order'.id = order.id /\ order'.left = order.left
      BY <1>1, <3>1 DEF OrderTypes, Order
    <3>3. OrderInv => OrderInv'
      BY <3>1, <3>2 DEF OrderInv, Using
    <3>4. PlacedInv => PlacedInv'
      BY <3>1, <3>2 DEF PlacedInv, HasEntry
    <3> QED
      BY <1>4, <3>1, <3>3, <3>4, OrderGoesOn
  <2> QED
    BY <2>2, <2>3
<1>7. CASE FreeEntry
  <2>1. PICK e \in Entries : e = Lowest(order.left) /\ e \in order.left
    BY <1>3, <1>7 DEF FreeEntry
  <2>2. Wipe(e) /\ AfterWipe(e) /\ UNCHANGED <<rows, search>>
    BY <1>7, <2>1 DEF FreeEntry
  <2> QED
    BY <2>1, <2>2, WipeKeeps
<1>8. CASE PassOver
  <2>1. order.at = "free" /\ order.id = 0 /\ UNCHANGED <<entry, rows, search, kept, raced>>
    BY <1>8 DEF PassOver, cameraTables
  <2>2. order'.id = 0 /\ order'.at \in {"free", "idle"}
    BY <1>8, <2>1 DEF PassOver, AfterWipe
  <2>3. OrderInv'
    BY <2>2 DEF OrderInv
  <2>4. PlacedInv => PlacedInv'
    BY <2>1, <2>2 DEF PlacedInv, HasEntry
  <2> QED
    BY <1>4, <2>1, <2>3, <2>4, OrderGoesOn
<1>9. CASE ReplyDeleted
  <2>1. /\ order.at = "reply" /\ order' = NoOrder /\ UNCHANGED <<entry, search, raced>>
        /\ \/ rows' = {r \in rows : r.id # order.id} /\ kept' = kept \ {order.id}
           \/ kept' = kept \cup {order.id} /\ UNCHANGED rows
    BY <1>9 DEF ReplyDeleted
  <2>2. OrderInv'
    BY <2>1 DEF OrderInv, NoOrder
  <2>3. PlacedInv => PlacedInv'
    <3> SUFFICES ASSUME PlacedInv, NEW r \in rows' PROVE r.id \in kept' \/ HasEntry(r)'
      BY DEF PlacedInv
    <3>1. r \in rows /\ (HasEntry(r) => HasEntry(r)')
      BY <2>1 DEF HasEntry
    <3>2. r.id \in kept \/ order.id = r.id \/ HasEntry(r)
      BY <2>1, <3>1 DEF PlacedInv
    <3> QED
      BY <2>1, <3>1, <3>2
  <2>4. rows' \subseteq rows
    BY <2>1
  <2> QED
    BY <1>4, <2>1, <2>2, <2>3, <2>4, OrderGoesOn
<1>10. ASSUME NEW w \in {"zero", "open"}, Window(w) PROVE TablesInv'
  BY <1>2, <1>10, TablesStay DEF Window, cameraTables
<1>11. CASE WindowPasses
  BY <1>2, <1>11, TablesStay DEF WindowPasses, cameraTables
<1>12. CASE FirmwareLock
  BY <1>2, <1>12, TablesStay DEF FirmwareLock, cameraTables
<1>13. CASE Poll
  BY <1>13, SilentKeeps DEF Poll
<1>14. CASE WlanChanged
  <2> DEFINE E == {e \in Entries : entry[e].state = "online" /\ entry[e].id # 0}
  <2>1. E \in SUBSET Entries /\ \A e \in E : entry[e].id # 0
    OBVIOUS
  <2>2. Silent(E) /\ order.at = "idle"
    BY <1>14 DEF WlanChanged, Ordered
  <2> HIDE DEF E
  <2> QED
    BY <2>1, <2>2, SilentKeeps
<1> QED
  BY <1>5, <1>6, <1>7, <1>8, <1>9, <1>10, <1>11, <1>12, <1>13, <1>14, DeleteKeeps, LoadKeeps
  DEF Messages

LEMMA InitTables == CameraInit => TablesInv
<1> SUFFICES ASSUME CameraInit PROVE TablesInv
  OBVIOUS
<1>1. rows = {} /\ order.left = {} /\ order.at = "idle"
  BY DEF CameraInit, NoOrder
<1>2. (\A t \in Searches : ~Entered(t)) /\ \A e \in Entries : entry[e].id = 0
  BY DEF CameraInit, Entered, Resting, Wiped
<1> QED
  BY <1>1, <1>2
  DEF TablesInv, CamerasInv, RowsOnce, UsersInv, UserOK, NumbersInv, OrderInv, PlacedInv

LEMMA StepTables == PlaceInv /\ TablesInv /\ [CameraNext]_cameraVars => TablesInv'
<1> SUFFICES ASSUME PlaceInv, TablesInv, [CameraNext]_cameraVars PROVE TablesInv'
  OBVIOUS
<1>1. CASE CameraNext
  BY <1>1, SearchKeepsTables, MessagesKeepTables DEF CameraNext
<1>2. CASE UNCHANGED cameraVars
  <2>1. UNCHANGED <<entry, rows, search, order, kept, raced>>
    BY <1>2 DEF cameraVars, cameraTables
  <2>2. SameNames /\ RowsOnce' /\ Follows
    BY <2>1 DEF SameNames, Follows, TablesInv, RowsOnce
  <2> QED
    BY <2>1, <2>2, TablesStay
<1> QED
  BY <1>1, <1>2

\* The tables of cameras, of feeds and of the database go together in every
\* behaviour: as long as no two used an entry at a time, every row has its
\* entry, is on its way or was left over, and as long as the feeds were added
\* and deleted one after the other, their count is right.
THEOREM CameraTablesAgree == CameraSpec => []TablesAgree
<1>1. PlaceInv /\ FeedsInv /\ TablesInv => TablesAgree
  <2> SUFFICES ASSUME PlaceInv, FeedsInv, TablesInv PROVE TablesAgree
    OBVIOUS
  <2>1. FeedsCounted
    BY FeedsAreCounted
  <2>2. RowHasEntry
    BY DEF RowHasEntry, TablesInv, CamerasInv, PlacedInv, HasEntry
  <2> QED
    BY <2>1, <2>2 DEF TablesAgree
<1> QED
  BY <1>1, InitPlace, InitFeeds, InitTables, StepPlace, StepFeeds, StepTables, PTL DEF CameraSpec

-----------------------------------------------------------------------------
(* MCTables: the five structures side by side                              *)

\* Each structure moves by its own specification or stays as it begins.
LEMMA TablesParts ==
  TablesSpec => Spec /\ ZwStatusSpec /\ ZwDevicesSpec /\ CameraSpec /\ DatabaseSpec
<1>1. TablesInit => Init /\ ZwStatusInit /\ ZwDevicesInit /\ CameraInit /\ DatabaseInit
  BY DEF TablesInit
<1>2. ASSUME [TablesNext]_<<part, vars, statusVars, deviceVars, cameraVars, databaseVars>>
      PROVE  /\ [Next]_vars /\ [ZwStatusNext]_statusVars /\ [ZwDevicesNext]_deviceVars
             /\ [CameraNext]_cameraVars /\ [DatabaseNext]_databaseVars
  BY <1>2 DEF TablesNext
<1> QED
  BY <1>1, <1>2, PTL
  DEF TablesSpec, Spec, ZwStatusSpec, ZwDevicesSpec, CameraSpec, DatabaseSpec

\* Type correctness of the five structures, whichever of them moves.
THEOREM StructuresTypes == TablesSpec => []TablesTypeOK
<1>1. TypeOK /\ ZwStatusTypeOK /\ ZwDevicesTypeOK /\ CameraTypeOK /\ DatabaseTypeOK => TablesTypeOK
  BY DEF TablesTypeOK
<1> QED
  BY <1>1, TablesParts, QueueTypes, StatusTypes, DevicesTypes, CameraTypes, DatabaseTypes, PTL
=============================================================================
