----------------------------- MODULE CallsProofs -----------------------------
(***************************************************************************)
(* Three systems in which answers find their way through something shared, *)
(* as in MCCalls.                                                          *)
(*                                                                         *)
(* HcApi, for any number of calls: its types, that a call takes its own    *)
(* answer when no earlier one is overdue, and that a completion to be      *)
(* fetched is not lost.  The inductive invariant says of the call under    *)
(* way what send_command has established so far.                           *)
(*                                                                         *)
(* Cmbs, for any number of calls to the base: its types, that the token is *)
(* up only in a call, and that a call that runs alone loses no answer and, *)
(* when nothing was left over for it, takes its own.  The inductive        *)
(* invariant says of a call that is alone what it has established so far:  *)
(* it has the token, its answer is not owed before it has asked, and once  *)
(* the base has answered, the answer lies in the queue.                    *)
(*                                                                         *)
(* Dect, for any devices, capacity, messages and reports: its types, that  *)
(* a task is left only by a missed signal, that no device is in two slots, *)
(* that a deletion clears the slot of its device unless the table was      *)
(* rewritten, and that an add without an end comes about by the orders     *)
(* that StuckOnlyBySlip names.  Each is inductive with the types, but for  *)
(* the first, whose strengthening also speaks of the moment before the     *)
(* wait.                                                                   *)
(***************************************************************************)
EXTENDS HcApi, Cmbs, Dect, FiniteSetTheorems, SequenceTheorems, TLAPS

-----------------------------------------------------------------------------
(* The calls of an application over its command socket: HcApi              *)

InCall == at \in {"drain", "send", "wait"}

\* The calls are numbered as they begin, and only a sent request is due.
CallNumberInv ==
  /\ call.id <= calls
  /\ InCall => call.id = calls /\ call.id \in Ids
  /\ at \in {"drain", "send"} => call.kind # "handle" /\ due[call.id] = << >>
  /\ \A i \in Ids : i > calls => due[i] = << >>

\* What a clean call knows: nobody else owes an answer, and once it has looked
\* into its socket, nobody else's answer is there.
CleanCallInv ==
  InCall /\ call.clean /\ call.kind # "handle" =>
    /\ \A i \in Ids : i # call.id => due[i] = << >>
    /\ at \in {"send", "wait"} => \A n \in 1 .. Len(inbox) : inbox[n].of = call.id

\* A request gives up the completion of an earlier deletion.
AwaitInv == InCall /\ call.kind # "handle" => awaiting = 0

HcApiInv ==
  /\ TypeOK /\ CallNumberInv /\ CleanCallInv /\ AwaitInv
  /\ OwnAnswerWhenClean /\ CompletionKept

-----------------------------------------------------------------------------
LEMMA KnownAnswers ==
  ASSUME NEW k \in Requests, NEW answers \in Answers[k]
  PROVE  answers \in Seq(Events) /\ Len(answers) <= 2
<1>1. \A e \in Events : <<e>> \in Seq(Events) /\ Len(<<e>>) <= 2
  OBVIOUS
<1>2. \A e, f \in Events : <<e, f>> \in Seq(Events) /\ Len(<<e, f>>) <= 2
  OBVIOUS
<1>3. (\E e \in Events : answers = <<e>>) \/ (\E e, f \in Events : answers = <<e, f>>)
  <2>1. CASE k = "set"
    <3>1. answers \in {<<"set_success">>, <<"set_failure">>, NotSupported}
      BY <2>1 DEF Answers
    <3> QED BY <3>1 DEF NotSupported, Events, Modes
  <2>2. CASE k = "add"
    <3>1. answers \in {<<"add_mode">>, <<"delete_mode">>, NotSupported}
      BY <2>2 DEF Answers
    <3> QED BY <3>1 DEF NotSupported, Events, Modes
  <2>3. CASE k = "delete"
    <3>1. answers \in {<<"delete_mode", "delete_complete">>, <<"delete_mode">>,
                       <<"add_mode">>, NotSupported}
      BY <2>3 DEF Answers
    <3> QED BY <3>1 DEF NotSupported, Events, Modes
  <2>4. CASE k = "stop"
    <3>1. answers \in {<<"stop_success">>, <<"stop_failure">>, NotSupported}
      BY <2>4 DEF Answers
    <3> QED BY <3>1 DEF NotSupported, Events, Modes
  <2>5. CASE k = "default"
    <3>1. answers \in {<<"default_success">>, <<"default_success", "default_success">>}
      BY <2>5 DEF Answers
    <3> QED BY <3>1 DEF Events, Modes
  <2> QED BY <2>1, <2>2, <2>3, <2>4, <2>5 DEF Requests
<1> QED BY <1>1, <1>2, <1>3

LEMMA KnownResults ==
  ASSUME NEW k, NEW e
  PROVE  Result(k, e) \in Results
BY DEF Result, Results

LEMMA HandleIsNoRequest == Kinds \ {"handle"} = Requests
BY DEF Kinds, Requests

-----------------------------------------------------------------------------
LEMMA HcApiInitInv == Init => HcApiInv
<1> SUFFICES ASSUME Init PROVE HcApiInv
  OBVIOUS
<1>1. TypeOK
  BY BoundsAssumption DEF Init, TypeOK, NoCall, Call, Kinds, Requests, Results, Ids, Message
<1>2. CallNumberInv /\ CleanCallInv /\ AwaitInv /\ OwnAnswerWhenClean /\ CompletionKept
  BY BoundsAssumption
  DEF Init, NoCall, InCall, CallNumberInv, CleanCallInv, AwaitInv, OwnAnswerWhenClean, CompletionKept, Ids
<1> QED BY <1>1, <1>2 DEF HcApiInv

LEMMA BeginInv == ASSUME HcApiInv, NEW k \in Kinds, Begin(k) PROVE HcApiInv'
<1> USE BoundsAssumption DEF HcApiInv
<1>1. TypeOK'
  BY DEF Begin, TypeOK, Call
<1>2. CallNumberInv'
  BY DEF Begin, TypeOK, Call, CallNumberInv, InCall, Ids
<1>3. CleanCallInv'
  BY DEF Begin, TypeOK, CleanCallInv, InCall
<1>4. AwaitInv'
  BY DEF Begin, AwaitInv, InCall
<1>5. OwnAnswerWhenClean' /\ CompletionKept'
  BY DEF Begin, OwnAnswerWhenClean, CompletionKept
<1> QED BY <1>1, <1>2, <1>3, <1>4, <1>5

LEMMA DrainInv == ASSUME HcApiInv, Drain PROVE HcApiInv'
<1> USE DEF HcApiInv
<1>1. TypeOK'
  BY DEF Drain, TypeOK
<1>2. CallNumberInv' /\ AwaitInv' /\ OwnAnswerWhenClean'
  BY DEF Drain, CallNumberInv, AwaitInv, OwnAnswerWhenClean, InCall
<1>3. CleanCallInv'
  BY DEF Drain, CleanCallInv, InCall
<1>4. awaiting = 0
  BY DEF Drain, CallNumberInv, AwaitInv, InCall
<1>5. CompletionKept'
  BY <1>4 DEF Drain, CompletionKept
<1> QED BY <1>1, <1>2, <1>3, <1>5

LEMMA SilenceInv == ASSUME HcApiInv, Silence PROVE HcApiInv'
<1> USE DEF HcApiInv
<1>1. TypeOK' /\ CallNumberInv' /\ AwaitInv' /\ OwnAnswerWhenClean' /\ CompletionKept'
  BY DEF Silence, TypeOK, CallNumberInv, AwaitInv, OwnAnswerWhenClean, CompletionKept, InCall
<1>2. CleanCallInv'
  BY DEF Silence, CleanCallInv, InCall
<1> QED BY <1>1, <1>2

LEMMA SendInv == ASSUME HcApiInv, Send PROVE HcApiInv'
<1> USE DEF HcApiInv
<1>1. call.kind \in Requests
  BY HandleIsNoRequest DEF Send, CallNumberInv, TypeOK, Call
<1>2. PICK answers \in Answers[call.kind] : due' = [due EXCEPT ![call.id] = answers]
  BY DEF Send
<1>3. answers \in Seq(Events) /\ Len(answers) <= 2
  BY <1>1, KnownAnswers
<1>4. TypeOK'
  BY <1>2, <1>3 DEF Send, TypeOK
<1>5. CallNumberInv'
  BY <1>2 DEF Send, CallNumberInv, TypeOK, InCall, Call, Ids
<1>6. CleanCallInv'
  BY <1>2 DEF Send, CleanCallInv, TypeOK, InCall
<1>7. AwaitInv' /\ OwnAnswerWhenClean'
  BY DEF Send, AwaitInv, OwnAnswerWhenClean, InCall
<1>8. awaiting = 0
  BY DEF Send, CallNumberInv, AwaitInv, InCall
<1>9. CompletionKept'
  BY <1>8 DEF Send, CompletionKept
<1> QED BY <1>4, <1>5, <1>6, <1>7, <1>9

LEMMA ReceiveInv == ASSUME HcApiInv, Receive PROVE HcApiInv'
<1> USE DEF HcApiInv
<1> DEFINE m == Head(inbox)
<1>1. m \in Message /\ m = inbox[1] /\ Tail(inbox) \in Seq(Message)
  BY DEF Receive, TypeOK
<1>2. /\ Len(inbox) \in Nat \ {0} /\ Len(Tail(inbox)) = Len(inbox) - 1
      /\ \A n \in 1 .. Len(inbox) - 1 : Tail(inbox)[n] = inbox[n + 1]
  BY DEF Receive, TypeOK
<1>3. m.of \in Ids /\ m.event \in Events
  BY <1>1 DEF Message
<1>4. call.id \in Ids /\ call.id = calls
  BY DEF Receive, CallNumberInv, InCall
<1>5. awaiting' \in 0 .. MaxCalls
  BY <1>4, BoundsAssumption DEF Receive, Fetchable, TypeOK, Ids
<1>6. TypeOK'
  <2>1. Result(call.kind, m.event) \in Results
    BY KnownResults
  <2>2. last' \in [call : Call, result : Results, of : 0 .. MaxCalls]
    BY <1>3, <2>1 DEF Receive, Return, TypeOK, Ids
  <2> QED BY <1>1, <1>5, <2>2 DEF Receive, Return, TypeOK
<1>7. CallNumberInv'
  BY DEF Receive, Return, CallNumberInv, InCall
<1>8. CleanCallInv' /\ AwaitInv'
  BY DEF Receive, Return, CleanCallInv, AwaitInv, InCall
<1>9. OwnAnswerWhenClean'
  <2>1. call.clean /\ call.kind # "handle" => m.of = call.id
    BY <1>1, <1>2 DEF Receive, CleanCallInv, InCall
  <2> QED BY <2>1 DEF Receive, Return, OwnAnswerWhenClean
<1>10. CompletionKept'
  <2>1. CASE call.kind = "delete" /\ m.of = call.id /\ due[m.of] # << >>
    BY <2>1 DEF Receive, Return, Fetchable, CompletionKept
  <2>2. CASE ~ (call.kind = "delete" /\ m.of = call.id /\ due[m.of] # << >>)
    <3>1. awaiting' = IF m.of = awaiting THEN 0 ELSE awaiting
      BY <2>2 DEF Receive, Fetchable
    <3>2. SUFFICES ASSUME awaiting' # 0, due'[awaiting'] = << >>
                   PROVE  \E n \in 1 .. Len(inbox') : inbox'[n].of = awaiting'
      BY DEF CompletionKept
    <3>3. awaiting' = awaiting /\ m.of # awaiting /\ due' = due
      BY <3>1, <3>2 DEF Receive, Return
    <3>4. PICK n \in 1 .. Len(inbox) : inbox[n].of = awaiting
      BY <3>2, <3>3 DEF CompletionKept
    <3>5. n # 1 /\ inbox'[n - 1] = inbox[n] /\ n - 1 \in 1 .. Len(inbox')
      BY <1>1, <1>2, <3>3, <3>4 DEF Receive
    <3> QED BY <3>3, <3>4, <3>5
  <2> QED BY <2>1, <2>2
<1> QED BY <1>6, <1>7, <1>8, <1>9, <1>10

LEMMA CallGivesUpInv == ASSUME HcApiInv, TimeOut \/ Fail PROVE HcApiInv'
<1> USE DEF HcApiInv
<1>1. PICK result \in {"timeout", "recv_failure", "send_failure"} :
        Return(result, 0) /\ UNCHANGED <<inbox, awaiting>>
  BY DEF TimeOut, Fail
<1>2. InCall
  BY DEF TimeOut, Fail, InCall
<1>3. TypeOK'
  BY <1>1, BoundsAssumption DEF Return, TypeOK, Results
<1>4. CallNumberInv' /\ CleanCallInv' /\ AwaitInv'
  BY <1>1 DEF Return, CallNumberInv, CleanCallInv, AwaitInv, InCall
<1>5. OwnAnswerWhenClean' /\ CompletionKept'
  BY <1>1 DEF Return, OwnAnswerWhenClean, CompletionKept
<1> QED BY <1>3, <1>4, <1>5

LEMMA DeliverInv == ASSUME HcApiInv, NEW i \in Ids, Deliver(i) PROVE HcApiInv'
<1> USE DEF HcApiInv
<1> DEFINE m == [of |-> i, event |-> Head(due[i])]
<1>1. due[i] \in Seq(Events) /\ due[i] # << >>
  BY DEF Deliver, TypeOK
<1>2. m \in Message /\ Tail(due[i]) \in Seq(Events) /\ Len(Tail(due[i])) <= Len(due[i])
  BY <1>1 DEF Message
<1>3. /\ Len(inbox') = Len(inbox) + 1 /\ Len(inbox) \in Nat /\ inbox'[Len(inbox) + 1] = m
      /\ \A n \in 1 .. Len(inbox) : inbox'[n] = inbox[n]
  BY <1>2 DEF Deliver, TypeOK
<1>4. due' = [due EXCEPT ![i] = Tail(due[i])]
  BY DEF Deliver
<1>5. TypeOK'
  <2>1. Len(due[i]) <= 2 /\ Len(Tail(due[i])) \in Nat /\ Len(due[i]) \in Nat
    BY <1>1, <1>2 DEF TypeOK
  <2>2. due' \in [Ids -> Seq(Events)] /\ \A j \in Ids : Len(due'[j]) <= 2
    BY <1>2, <1>4, <2>1 DEF TypeOK
  <2>3. inbox' \in Seq(Message)
    BY <1>2 DEF Deliver, TypeOK
  <2> QED BY <2>2, <2>3 DEF Deliver, TypeOK
<1>6. CallNumberInv'
  BY <1>1, <1>4 DEF Deliver, CallNumberInv, TypeOK, InCall
<1>7. CleanCallInv'
  <2>1. SUFFICES ASSUME InCall, call.clean, call.kind # "handle"
                 PROVE  /\ \A j \in Ids : j # call.id => due'[j] = << >>
                        /\ at \in {"send", "wait"} =>
                             \A n \in 1 .. Len(inbox') : inbox'[n].of = call.id
    BY DEF Deliver, CleanCallInv, InCall
  <2>2. i = call.id
    BY <1>1, <2>1 DEF CleanCallInv
  <2>3. \A j \in Ids : j # call.id => due'[j] = << >>
    BY <1>4, <2>1, <2>2 DEF CleanCallInv, TypeOK
  <2>4. ASSUME at \in {"send", "wait"}, NEW n \in 1 .. Len(inbox')
        PROVE  inbox'[n].of = call.id
    <3>1. CASE n = Len(inbox) + 1
      BY <1>3, <2>2, <3>1
    <3>2. CASE n # Len(inbox) + 1
      <4>1. n \in 1 .. Len(inbox) /\ inbox'[n] = inbox[n]
        BY <1>3, <2>4, <3>2
      <4> QED BY <2>1, <2>4, <4>1 DEF CleanCallInv
    <3> QED BY <3>1, <3>2
  <2> QED BY <2>3, <2>4
<1>8. AwaitInv' /\ OwnAnswerWhenClean'
  BY DEF Deliver, AwaitInv, OwnAnswerWhenClean, InCall
<1>9. CompletionKept'
  <2>1. SUFFICES ASSUME awaiting # 0, due'[awaiting] = << >>
                 PROVE  \E n \in 1 .. Len(inbox') : inbox'[n].of = awaiting
    BY DEF Deliver, CompletionKept
  <2>2. CASE awaiting = i
    BY <1>3, <2>2
  <2>3. CASE awaiting # i
    <3>1. due[awaiting] = << >>
      BY <1>4, <2>1, <2>3 DEF TypeOK, Ids
    <3>2. PICK n \in 1 .. Len(inbox) : inbox[n].of = awaiting
      BY <2>1, <3>1 DEF CompletionKept
    <3> QED BY <1>3, <3>2
  <2> QED BY <2>2, <2>3
<1> QED BY <1>5, <1>6, <1>7, <1>8, <1>9

LEMMA HcApiStutterInv == ASSUME HcApiInv, Disconnect \/ UNCHANGED vars PROVE HcApiInv'
<1> USE DEF HcApiInv
<1>1. TypeOK' /\ CallNumberInv' /\ AwaitInv'
  BY DEF Disconnect, vars, TypeOK, CallNumberInv, AwaitInv, InCall
<1>2. CleanCallInv' /\ OwnAnswerWhenClean' /\ CompletionKept'
  BY DEF Disconnect, vars, CleanCallInv, OwnAnswerWhenClean, CompletionKept, InCall
<1> QED BY <1>1, <1>2

LEMMA HcApiStepInv == HcApiInv /\ [Next]_vars => HcApiInv'
<1> SUFFICES ASSUME HcApiInv, [Next]_vars PROVE HcApiInv'
  OBVIOUS
<1> QED
  BY BeginInv, DrainInv, SilenceInv, SendInv, ReceiveInv, CallGivesUpInv, DeliverInv, HcApiStutterInv
  DEF Next, Client

-----------------------------------------------------------------------------
\* The types, for any number of calls.
THEOREM HcApiTypes == Spec => []TypeOK
<1>1. HcApiInv => TypeOK
  BY DEF HcApiInv
<1> QED BY <1>1, HcApiInitInv, HcApiStepInv, PTL DEF Spec

\* A call of hcapi.c that begins with nothing overdue never returns the answer
\* to another call.
THEOREM AnswersAreOwn == Spec => []OwnAnswerWhenClean
<1>1. HcApiInv => OwnAnswerWhenClean
  BY DEF HcApiInv
<1> QED BY <1>1, HcApiInitInv, HcApiStepInv, PTL DEF Spec

\* The completion of a deletion stays to be fetched by hcapi_dev_result_handle
\* until the next request.
THEOREM CompletionsStay == Spec => []CompletionKept
<1>1. HcApiInv => CompletionKept
  BY DEF HcApiInv
<1> QED BY <1>1, HcApiInitInv, HcApiStepInv, PTL DEF Spec

-----------------------------------------------------------------------------
(* The calls of the DECT daemon to its base: Cmbs                          *)

\* Requests are numbered as they begin; a thread outside a call has none, and
\* what it took is known at the end only.
NumberInv ==
  /\ \A r \in owed : r.to <= requests
  /\ \A i \in replied : i <= requests
  /\ \A t \in Callers : stage[t] # "none" => request[t].id \in RequestIds /\ request[t].id <= requests
  /\ \A t \in Callers : stage[t] # "reset" => outcome[t].took = 0 /\ ~ outcome[t].answered

\* A call that is alone is the only one.
AloneInv(t) ==
  request[t].alone =>
    /\ stage[t] # "none"
    /\ \A o \in Callers \ {t} : stage[o] = "none"

\* It has raised the token; only its own answer is owed to it, from when it has asked.
AskedInv(t) ==
  request[t].alone =>
    /\ stage[t] \in {"send", "wait", "reset"} => token
    /\ stage[t] \in {"clean", "prepare", "send"} =>
         request[t].id \notin replied /\ \A r \in owed : r.to # request[t].id
    /\ \A r \in owed : r.to = request[t].id => r.ask = request[t].ask

\* What the base has answered it, it will find.
FindInv(t) ==
  request[t].alone /\ stage[t] = "wait" /\ request[t].id \in replied =>
    \E n \in 1 .. Len(unread) :
      unread[n].to = request[t].id /\ unread[n].ask = request[t].ask

\* When nothing was left over at its beginning, it finds nothing else.
CleanInv(t) ==
  request[t].alone /\ request[t].clean =>
    /\ \A r \in owed : r.to = request[t].id
    /\ stage[t] \in {"prepare", "send", "wait"} =>
         \A n \in 1 .. Len(unread) : unread[n].to = request[t].id

CallInv == \A t \in Callers : AloneInv(t) /\ AskedInv(t) /\ FindInv(t) /\ CleanInv(t)

CmbsInv ==
  /\ CmbsTypeOK /\ NumberInv /\ CallInv
  /\ LostOnlyToAnotherCall /\ OwnAnswerWhenAlone /\ TokenOnlyInCall

-----------------------------------------------------------------------------
\* An empty queue has no element, and taking one leaves the others.
LEMMA QueueTail ==
  ASSUME NEW S, NEW s \in Seq(S), s # << >>
  PROVE  /\ Head(s) \in S /\ Tail(s) \in Seq(S)
         /\ Len(s) \in Nat \ {0} /\ Len(Tail(s)) = Len(s) - 1 /\ Head(s) = s[1]
         /\ \A n \in 1 .. Len(Tail(s)) : Tail(s)[n] = s[n + 1]
BY HeadTailProperties, EmptySeq, LenProperties

LEMMA AsksAreQuestions == \A t \in Callers : Asks[t] \subseteq Questions
BY DEF Questions

LEMMA CmbsInitInv == CmbsInit => CmbsInv
<1> SUFFICES ASSUME CmbsInit PROVE CmbsInv
  OBVIOUS
<1>1. CmbsTypeOK
  <2>1. "close" \in Questions
    <3>1. "msg" \in Callers /\ "close" \in Asks["msg"]
      BY DEF Callers, Asks
    <3> QED BY <3>1, AsksAreQuestions
  <2>2. NoRequest \in Request /\ NoOutcome \in Outcome
    BY <2>1, RequestsAssumption DEF NoRequest, Request, NoOutcome, Outcome
  <2>3. unread \in Seq(Reply)
    BY EmptySeq DEF CmbsInit
  <2>4. stage \in [Callers -> Stages] /\ requests \in 0 .. MaxRequests
    BY RequestsAssumption DEF CmbsInit, Stages
  <2>5. request \in [Callers -> Request] /\ outcome \in [Callers -> Outcome]
    BY <2>2 DEF CmbsInit
  <2>6. token \in BOOLEAN /\ owed \subseteq Reply /\ replied \subseteq RequestIds
    BY DEF CmbsInit
  <2> QED BY <2>3, <2>4, <2>5, <2>6 DEF CmbsTypeOK
<1>2. NumberInv /\ CallInv /\ LostOnlyToAnotherCall /\ OwnAnswerWhenAlone /\ TokenOnlyInCall
  BY DEF CmbsInit, NoRequest, NoOutcome, NumberInv, CallInv, AloneInv, AskedInv, FindInv,
         CleanInv, LostOnlyToAnotherCall, OwnAnswerWhenAlone, TokenOnlyInCall
<1> QED BY <1>1, <1>2 DEF CmbsInv

LEMMA AskBaseInv ==
  ASSUME CmbsInv, NEW t \in Callers, NEW ask \in Asks[t], AskBase(t, ask)
  PROVE  CmbsInv'
<1> USE RequestsAssumption DEF CmbsInv
<1>0. ask \in Questions /\ requests + 1 \in RequestIds /\ requests \in Nat
  BY AsksAreQuestions DEF AskBase, CmbsTypeOK, RequestIds
<1>1. CmbsTypeOK'
  <2>1. request' \in [Callers -> Request]
    <3>1. \A b, c \in BOOLEAN : [id |-> requests + 1, ask |-> ask, alone |-> b, clean |-> c] \in Request
      BY <1>0 DEF Request, RequestIds
    <3>2. \A o \in Callers : request[o] \in Request
      BY DEF CmbsTypeOK
    <3>3. \A o \in Callers :
            [id |-> request[o].id, ask |-> request[o].ask, alone |-> FALSE,
             clean |-> request[o].clean] \in Request
      BY <3>2 DEF Request
    <3> QED BY <3>1, <3>3 DEF AskBase
  <2> QED BY <1>0, <2>1 DEF AskBase, CmbsTypeOK, Stages, RequestIds
<1>2. \A o \in Callers \ {t} : ~ request'[o].alone
  BY DEF AskBase
<1>3. /\ request'[t].id = requests + 1 /\ stage'[t] \in {"clean", "prepare"}
      /\ request'[t].alone => Others(t) = {}
      /\ stage'[t] = "prepare" /\ request'[t].clean => unread = << >>
      /\ request'[t].clean => owed = {}
  BY DEF AskBase, CmbsTypeOK
<1>4. \A o \in Callers \ {t} : stage'[o] = stage[o] /\ request'[o].id = request[o].id
  BY DEF AskBase, CmbsTypeOK
<1>5. UNCHANGED <<token, unread, owed, replied, outcome>> /\ stage[t] = "none"
  BY DEF AskBase
<1>6. requests' = requests + 1
  BY DEF AskBase
<1>7. \A r \in owed : r.to \in Nat /\ r.to # requests + 1
  BY <1>0 DEF NumberInv, CmbsTypeOK, Reply, RequestIds
<1>8. requests + 1 \notin replied
  BY <1>0 DEF NumberInv, CmbsTypeOK, RequestIds
<1>9. NumberInv'
  BY <1>0, <1>3, <1>4, <1>5, <1>6, <1>7 DEF NumberInv, CmbsTypeOK, RequestIds
<1>10. ASSUME NEW o \in Callers
       PROVE  (AloneInv(o) /\ AskedInv(o) /\ FindInv(o) /\ CleanInv(o))'
  <2>1. CASE o # t
    BY <1>2, <2>1 DEF AloneInv, AskedInv, FindInv, CleanInv
  <2>2. CASE o = t
    <3>1. AloneInv(t)'
      BY <1>3, <1>4 DEF AloneInv, Others
    <3>2. AskedInv(t)' /\ FindInv(t)'
      BY <1>3, <1>5, <1>7, <1>8 DEF AskedInv, FindInv
    <3>3. CleanInv(t)'
      BY <1>3, <1>5, EmptySeq DEF CleanInv
    <3> QED BY <2>2, <3>1, <3>2, <3>3
  <2> QED BY <2>1, <2>2
<1>11. (LostOnlyToAnotherCall /\ OwnAnswerWhenAlone)'
  BY <1>2, <1>5 DEF LostOnlyToAnotherCall, OwnAnswerWhenAlone, NumberInv
<1>12. TokenOnlyInCall'
  BY <1>4, <1>5 DEF TokenOnlyInCall
<1> QED BY <1>1, <1>9, <1>10, <1>11, <1>12 DEF CallInv

\* A step of one call that asks nothing and takes nothing leaves the others'
\* parts of the invariant.
LEMMA OtherCalls ==
  ASSUME CmbsInv, NEW t \in Callers, NEW o \in Callers, o # t, stage[t] # "none",
         \A u \in Callers \ {t} : stage'[u] = stage[u]
  PROVE  ~ request[o].alone
BY DEF CmbsInv, CallInv, AloneInv

LEMMA CleanMessageInv ==
  ASSUME CmbsInv, NEW t \in Callers, CleanMessage(t)
  PROVE  CmbsInv'
<1> USE DEF CmbsInv
<1>1. CmbsTypeOK'
  BY QueueTail, EmptySeq DEF CleanMessage, CmbsTypeOK, Stages
<1>2. stage[t] = "clean" /\ stage'[t] \in {"clean", "prepare"}
  BY DEF CleanMessage, CmbsTypeOK
<1>3. \A o \in Callers \ {t} : stage'[o] = stage[o]
  BY DEF CleanMessage, CmbsTypeOK
<1>4. UNCHANGED <<request, requests, token, owed, replied, outcome>>
  BY DEF CleanMessage
<1>5. stage'[t] = "prepare" => unread' = << >>
  BY DEF CleanMessage, CmbsTypeOK
<1>6. NumberInv'
  BY <1>2, <1>3, <1>4 DEF NumberInv
<1>7. ASSUME NEW o \in Callers
      PROVE  (AloneInv(o) /\ AskedInv(o) /\ FindInv(o) /\ CleanInv(o))'
  <2>1. CASE o # t
    BY OtherCalls, <1>2, <1>3, <1>4, <2>1 DEF AloneInv, AskedInv, FindInv, CleanInv
  <2>2. CASE o = t
    <3>1. AloneInv(t)' /\ AskedInv(t)' /\ FindInv(t)'
      BY <1>2, <1>3, <1>4 DEF CallInv, AloneInv, AskedInv, FindInv
    <3>2. CleanInv(t)'
      BY <1>2, <1>4, <1>5, EmptySeq DEF CallInv, CleanInv
    <3> QED BY <2>2, <3>1, <3>2
  <2> QED BY <2>1, <2>2
<1>8. (LostOnlyToAnotherCall /\ OwnAnswerWhenAlone)'
  BY <1>4 DEF LostOnlyToAnotherCall, OwnAnswerWhenAlone
<1>9. TokenOnlyInCall'
  BY <1>2, <1>3, <1>4 DEF TokenOnlyInCall
<1> QED BY <1>1, <1>6, <1>7, <1>8, <1>9 DEF CallInv

LEMMA PrepareRecvAddInv ==
  ASSUME CmbsInv, NEW t \in Callers, PrepareRecvAdd(t)
  PROVE  CmbsInv'
<1> USE DEF CmbsInv
<1>1. CmbsTypeOK'
  BY DEF PrepareRecvAdd, CmbsTypeOK, Stages
<1>2. stage[t] = "prepare" /\ stage'[t] = "send" /\ token'
  BY DEF PrepareRecvAdd, CmbsTypeOK
<1>3. \A o \in Callers \ {t} : stage'[o] = stage[o]
  BY DEF PrepareRecvAdd, CmbsTypeOK
<1>4. UNCHANGED <<request, requests, unread, owed, replied, outcome>>
  BY DEF PrepareRecvAdd
<1>5. NumberInv'
  BY <1>2, <1>3, <1>4 DEF NumberInv
<1>6. ASSUME NEW o \in Callers
      PROVE  (AloneInv(o) /\ AskedInv(o) /\ FindInv(o) /\ CleanInv(o))'
  <2>1. CASE o # t
    BY OtherCalls, <1>2, <1>3, <1>4, <2>1 DEF AloneInv, AskedInv, FindInv, CleanInv
  <2>2. CASE o = t
    BY <1>2, <1>3, <1>4, <2>2 DEF CallInv, AloneInv, AskedInv, FindInv, CleanInv
  <2> QED BY <2>1, <2>2
<1>7. (LostOnlyToAnotherCall /\ OwnAnswerWhenAlone)'
  BY <1>4 DEF LostOnlyToAnotherCall, OwnAnswerWhenAlone
<1>8. TokenOnlyInCall'
  BY <1>2 DEF TokenOnlyInCall
<1> QED BY <1>1, <1>5, <1>6, <1>7, <1>8 DEF CallInv

LEMMA SendRequestInv ==
  ASSUME CmbsInv, NEW t \in Callers, SendRequest(t)
  PROVE  CmbsInv'
<1> USE DEF CmbsInv
<1> DEFINE mine == [to |-> request[t].id, ask |-> request[t].ask]
<1>0. stage[t] = "send" /\ request[t].id \in RequestIds /\ mine \in Reply
  BY DEF SendRequest, NumberInv, CmbsTypeOK, Request, Reply
<1>1. CmbsTypeOK'
  BY <1>0 DEF SendRequest, CmbsTypeOK, Stages
<1>2. stage'[t] = "wait" /\ owed' = owed \cup {mine}
  BY DEF SendRequest, CmbsTypeOK
<1>3. \A o \in Callers \ {t} : stage'[o] = stage[o]
  BY DEF SendRequest, CmbsTypeOK
<1>4. UNCHANGED <<request, requests, token, unread, replied, outcome>>
  BY DEF SendRequest
<1>5. request[t].id <= requests
  BY <1>0 DEF NumberInv
<1>6. NumberInv'
  BY <1>0, <1>2, <1>3, <1>4, <1>5 DEF NumberInv
<1>7. ASSUME NEW o \in Callers
      PROVE  (AloneInv(o) /\ AskedInv(o) /\ FindInv(o) /\ CleanInv(o))'
  <2>1. CASE o # t
    BY OtherCalls, <1>0, <1>3, <1>4, <2>1 DEF AloneInv, AskedInv, FindInv, CleanInv
  <2>2. CASE o = t
    <3>1. AloneInv(t)' /\ AskedInv(t)'
      BY <1>0, <1>2, <1>3, <1>4 DEF CallInv, AloneInv, AskedInv
    <3>2. FindInv(t)' /\ CleanInv(t)'
      BY <1>0, <1>2, <1>4 DEF CallInv, AskedInv, FindInv, CleanInv
    <3> QED BY <2>2, <3>1, <3>2
  <2> QED BY <2>1, <2>2
<1>8. (LostOnlyToAnotherCall /\ OwnAnswerWhenAlone)'
  BY <1>4 DEF LostOnlyToAnotherCall, OwnAnswerWhenAlone
<1>9. TokenOnlyInCall'
  BY <1>2 DEF TokenOnlyInCall
<1> QED BY <1>1, <1>6, <1>7, <1>8, <1>9 DEF CallInv

LEMMA ConcludeTypes ==
  ASSUME CmbsInv, NEW t \in Callers, NEW took \in 0 .. MaxRequests, Conclude(t, took)
  PROVE  /\ stage' \in [Callers -> Stages] /\ stage'[t] = "reset"
         /\ \A o \in Callers \ {t} : stage'[o] = stage[o] /\ outcome'[o] = outcome[o]
         /\ outcome' \in [Callers -> Outcome]
         /\ outcome'[t].took = took
         /\ outcome'[t].answered => request[t].id \in replied
<1>1. [took |-> took, answered |-> request[t].id \in replied] \in Outcome
  BY DEF Outcome
<1> QED BY <1>1 DEF Conclude, CmbsInv, CmbsTypeOK, Stages

\* What a call that ends establishes: if nothing is taken the base has not
\* answered, if something is taken in a clean call, it is the call's own.
LEMMA ConcludeInv ==
  ASSUME CmbsInv, NEW t \in Callers, NEW took \in 0 .. MaxRequests, Conclude(t, took),
         unread' \in Seq(Reply), stage[t] = "wait",
         request[t].alone /\ took = 0 => request[t].id \notin replied,
         request[t].alone /\ request[t].clean /\ took # 0 => took = request[t].id
  PROVE  CmbsInv'
<1> USE DEF CmbsInv
<1>0. UNCHANGED <<request, requests, token, owed, replied>>
  BY DEF Conclude
<1>1. CmbsTypeOK'
  BY <1>0, ConcludeTypes DEF CmbsTypeOK
<1>2. NumberInv'
  BY <1>0, ConcludeTypes DEF NumberInv
<1>3. ASSUME NEW o \in Callers
      PROVE  (AloneInv(o) /\ AskedInv(o) /\ FindInv(o) /\ CleanInv(o))'
  <2>1. CASE o # t
    BY OtherCalls, ConcludeTypes, <1>0, <2>1 DEF AloneInv, AskedInv, FindInv, CleanInv
  <2>2. CASE o = t
    BY <1>0, ConcludeTypes, <2>2 DEF CallInv, AloneInv, AskedInv, FindInv, CleanInv
  <2> QED BY <2>1, <2>2
<1>4. LostOnlyToAnotherCall'
  <2> SUFFICES ASSUME NEW o \in Callers, outcome'[o].took = 0, outcome'[o].answered
               PROVE  ~ request'[o].alone
    BY DEF LostOnlyToAnotherCall
  <2>1. CASE o # t
    BY <2>1, <1>0, ConcludeTypes DEF LostOnlyToAnotherCall
  <2>2. CASE o = t
    BY <2>2, <1>0, ConcludeTypes
  <2> QED BY <2>1, <2>2
<1>5. OwnAnswerWhenAlone'
  <2> SUFFICES ASSUME NEW o \in Callers, outcome'[o].took # 0, request'[o].alone, request'[o].clean
               PROVE  outcome'[o].took = request'[o].id
    BY DEF OwnAnswerWhenAlone
  <2>1. CASE o # t
    BY <2>1, <1>0, ConcludeTypes DEF OwnAnswerWhenAlone
  <2>2. CASE o = t
    BY <2>2, <1>0, ConcludeTypes
  <2> QED BY <2>1, <2>2
<1>6. TokenOnlyInCall'
  BY <1>0, ConcludeTypes DEF TokenOnlyInCall
<1> QED BY <1>1, <1>2, <1>3, <1>4, <1>5, <1>6 DEF CallInv

LEMMA GiveUpInv ==
  ASSUME CmbsInv, NEW t \in Callers, GiveUp(t)
  PROVE  CmbsInv'
<1>1. request[t].alone => request[t].id \notin replied
  BY EmptySeq DEF GiveUp, CmbsInv, CallInv, FindInv
<1>2. Conclude(t, 0) /\ stage[t] = "wait" /\ unread' = unread
  BY DEF GiveUp
<1>3. unread \in Seq(Reply) /\ 0 \in 0 .. MaxRequests
  BY RequestsAssumption DEF CmbsInv, CmbsTypeOK
<1> QED BY <1>1, <1>2, <1>3, ConcludeInv

LEMMA TakeMessageInv ==
  ASSUME CmbsInv, NEW t \in Callers, TakeMessage(t)
  PROVE  CmbsInv'
<1>1. /\ stage[t] = "wait" /\ unread # << >> /\ unread' = Tail(unread)
      /\ unread \in Seq(Reply)
  BY DEF TakeMessage, CmbsInv, CmbsTypeOK
<1>2. /\ Head(unread) \in Reply /\ Tail(unread) \in Seq(Reply)
      /\ Len(unread) \in Nat \ {0} /\ Len(Tail(unread)) = Len(unread) - 1
      /\ Head(unread) = unread[1]
      /\ \A n \in 1 .. Len(Tail(unread)) : Tail(unread)[n] = unread[n + 1]
  BY <1>1, QueueTail
<1>3. CASE Head(unread).ask = request[t].ask
  <2>1. Head(unread).to \in 0 .. MaxRequests /\ Head(unread).to # 0
    BY <1>2, RequestsAssumption DEF Reply, RequestIds
  <2>2. Conclude(t, Head(unread).to)
    BY <1>3 DEF TakeMessage
  <2>3. request[t].alone /\ request[t].clean => Head(unread).to = request[t].id
    BY <1>1, <1>2 DEF CmbsInv, CallInv, CleanInv
  <2> QED BY <1>1, <1>2, <2>1, <2>2, <2>3, ConcludeInv
<1>4. CASE Head(unread).ask # request[t].ask
  <2> USE DEF CmbsInv
  <2>1. UNCHANGED <<stage, request, requests, token, owed, replied, outcome>>
    BY <1>4 DEF TakeMessage
  <2>2. CmbsTypeOK' /\ NumberInv'
    BY <1>1, <1>2, <2>1 DEF CmbsTypeOK, NumberInv
  <2>3. ASSUME NEW o \in Callers
        PROVE  (AloneInv(o) /\ AskedInv(o) /\ FindInv(o) /\ CleanInv(o))'
    <3>1. CASE o # t
      BY OtherCalls, <1>1, <2>1, <3>1 DEF AloneInv, AskedInv, FindInv, CleanInv
    <3>2. CASE o = t
      <4>1. AloneInv(t)' /\ AskedInv(t)'
        BY <2>1 DEF CallInv, AloneInv, AskedInv
      <4>2. FindInv(t)'
        <5> SUFFICES ASSUME request[t].alone, request[t].id \in replied
                     PROVE  \E n \in 1 .. Len(unread') :
                              unread'[n].to = request[t].id /\ unread'[n].ask = request[t].ask
          BY <2>1 DEF FindInv
        <5>1. PICK n \in 1 .. Len(unread) :
                unread[n].to = request[t].id /\ unread[n].ask = request[t].ask
          BY <1>1 DEF CallInv, FindInv
        <5>2. n # 1
          BY <5>1, <1>2, <1>4
        <5>3. n - 1 \in 1 .. Len(Tail(unread)) /\ Tail(unread)[n - 1] = unread[n]
          BY <5>2, <1>2
        <5> QED BY <5>1, <5>3, <1>1
      <4>3. CleanInv(t)'
        <5> SUFFICES ASSUME request[t].alone, request[t].clean
                     PROVE  /\ \A r \in owed : r.to = request[t].id
                            /\ \A n \in 1 .. Len(unread') : unread'[n].to = request[t].id
          BY <2>1 DEF CleanInv
        <5>1. \A n \in 1 .. Len(unread) : unread[n].to = request[t].id
          BY <1>1 DEF CallInv, CleanInv
        <5>2. \A n \in 1 .. Len(Tail(unread)) : n + 1 \in 1 .. Len(unread)
          BY <1>2
        <5> QED BY <5>1, <5>2, <1>1, <1>2 DEF CallInv, CleanInv
      <4> QED BY <3>2, <4>1, <4>2, <4>3
    <3> QED BY <3>1, <3>2
  <2>4. (LostOnlyToAnotherCall /\ OwnAnswerWhenAlone /\ TokenOnlyInCall)'
    BY <2>1 DEF LostOnlyToAnotherCall, OwnAnswerWhenAlone, TokenOnlyInCall
  <2> QED BY <2>2, <2>3, <2>4 DEF CallInv
<1> QED BY <1>3, <1>4

LEMMA ResetTokenInv ==
  ASSUME CmbsInv, NEW t \in Callers, ResetToken(t)
  PROVE  CmbsInv'
<1> USE DEF CmbsInv
<1>0. NoRequest \in Request /\ NoOutcome \in Outcome /\ ~ NoRequest.alone
  <2>1. "close" \in Questions
    <3>1. "msg" \in Callers /\ "close" \in Asks["msg"]
      BY DEF Callers, Asks
    <3> QED BY <3>1, AsksAreQuestions
  <2> QED BY <2>1, RequestsAssumption DEF NoRequest, Request, NoOutcome, Outcome
<1>1. CmbsTypeOK'
  BY <1>0 DEF ResetToken, Forget, CmbsTypeOK, Stages
<1>2. /\ stage[t] = "reset" /\ stage'[t] = "none" /\ ~ token' /\ ~ request'[t].alone
      /\ outcome'[t] = NoOutcome
  BY <1>0 DEF ResetToken, Forget, CmbsTypeOK
<1>3. \A o \in Callers \ {t} :
        stage'[o] = stage[o] /\ request'[o] = request[o] /\ outcome'[o] = outcome[o]
  BY DEF ResetToken, Forget, CmbsTypeOK
<1>4. UNCHANGED <<requests, unread, owed>> /\ replied' \subseteq replied
  BY DEF ResetToken, Forget
<1>5. NumberInv'
  BY <1>2, <1>3, <1>4 DEF NumberInv, NoOutcome
<1>6. \A o \in Callers \ {t} : ~ request[o].alone
  BY <1>2, <1>3, OtherCalls
<1>7. \A o \in Callers : ~ request'[o].alone
  BY <1>2, <1>3, <1>6
<1>8. CallInv'
  BY <1>7 DEF CallInv, AloneInv, AskedInv, FindInv, CleanInv
<1>9. (LostOnlyToAnotherCall /\ OwnAnswerWhenAlone)'
  BY <1>7 DEF LostOnlyToAnotherCall, OwnAnswerWhenAlone
<1>10. TokenOnlyInCall'
  BY <1>2 DEF TokenOnlyInCall
<1> QED BY <1>1, <1>5, <1>8, <1>9, <1>10

LEMMA BaseAnswersInv ==
  ASSUME CmbsInv, NEW r \in owed, BaseAnswers(r)
  PROVE  CmbsInv'
<1> USE DEF CmbsInv
<1>0. r \in Reply /\ unread \in Seq(Reply)
  BY DEF CmbsTypeOK
<1>1. /\ owed' = owed \ {r} /\ replied' \subseteq replied \cup {r.to}
      /\ UNCHANGED <<stage, request, requests, token, outcome>>
  BY DEF BaseAnswers
<1>2. /\ Append(unread, r) \in Seq(Reply)
      /\ Len(unread) \in Nat /\ Len(Append(unread, r)) = Len(unread) + 1
      /\ \A n \in 1 .. Len(unread) : Append(unread, r)[n] = unread[n]
      /\ Append(unread, r)[Len(unread) + 1] = r
  BY <1>0, AppendProperties, LenProperties
<1>3. unread' = IF token THEN Append(unread, r) ELSE unread
  BY DEF BaseAnswers
<1>4. CmbsTypeOK'
  BY <1>0, <1>1, <1>2, <1>3 DEF CmbsTypeOK, Reply
<1>5. NumberInv'
  BY <1>1 DEF NumberInv
<1>6. ASSUME NEW t \in Callers
      PROVE  (AloneInv(t) /\ AskedInv(t) /\ FindInv(t) /\ CleanInv(t))'
  <2>1. AloneInv(t)'
    BY <1>1 DEF CallInv, AloneInv
  <2>2. AskedInv(t)'
    BY <1>1 DEF CallInv, AskedInv
  <2>3. FindInv(t)'
    <3> SUFFICES ASSUME request[t].alone, stage[t] = "wait", request[t].id \in replied'
                 PROVE  \E n \in 1 .. Len(unread') :
                          unread'[n].to = request[t].id /\ unread'[n].ask = request[t].ask
      BY <1>1 DEF FindInv
    <3>1. token /\ unread' = Append(unread, r)
      BY <1>3 DEF CallInv, AskedInv
    <3>2. CASE request[t].id \in replied
      <4>1. PICK n \in 1 .. Len(unread) :
              unread[n].to = request[t].id /\ unread[n].ask = request[t].ask
        BY <3>2 DEF CallInv, FindInv
      <4>2. n \in 1 .. Len(unread') /\ unread'[n] = unread[n]
        BY <3>1, <1>2
      <4> QED BY <4>1, <4>2
    <3>3. CASE request[t].id = r.to
      <4>1. r.ask = request[t].ask
        BY <3>3 DEF CallInv, AskedInv
      <4>2. Len(unread) + 1 \in 1 .. Len(unread') /\ unread'[Len(unread) + 1] = r
        BY <3>1, <1>2
      <4> QED BY <4>1, <4>2, <3>3
    <3> QED BY <3>2, <3>3, <1>1
  <2>4. CleanInv(t)'
    <3> SUFFICES ASSUME request[t].alone, request[t].clean
                 PROVE  /\ \A q \in owed' : q.to = request[t].id
                        /\ stage[t] \in {"prepare", "send", "wait"} =>
                             \A n \in 1 .. Len(unread') : unread'[n].to = request[t].id
      BY <1>1 DEF CleanInv
    <3>1. \A q \in owed : q.to = request[t].id
      BY DEF CallInv, CleanInv
    <3>2. ASSUME stage[t] \in {"prepare", "send", "wait"}, NEW n \in 1 .. Len(unread')
          PROVE  unread'[n].to = request[t].id
      <4>1. \A m \in 1 .. Len(unread) : unread[m].to = request[t].id
        BY <3>2 DEF CallInv, CleanInv
      <4>2. n \in 1 .. Len(unread) \/ (token /\ n = Len(unread) + 1)
        BY <1>2, <1>3
      <4> QED BY <4>1, <4>2, <3>1, <1>2, <1>3
    <3> QED BY <3>1, <3>2, <1>1
  <2> QED BY <2>1, <2>2, <2>3, <2>4
<1>7. (LostOnlyToAnotherCall /\ OwnAnswerWhenAlone /\ TokenOnlyInCall)'
  BY <1>1 DEF LostOnlyToAnotherCall, OwnAnswerWhenAlone, TokenOnlyInCall
<1> QED BY <1>4, <1>5, <1>6, <1>7 DEF CallInv

-----------------------------------------------------------------------------
LEMMA CmbsNextInv == ASSUME CmbsInv, [CmbsNext]_cmbsVars PROVE CmbsInv'
<1>1. CASE UNCHANGED cmbsVars
  BY <1>1 DEF cmbsVars, CmbsInv, CmbsTypeOK, NumberInv, CallInv, AloneInv, AskedInv, FindInv,
              CleanInv, LostOnlyToAnotherCall, OwnAnswerWhenAlone, TokenOnlyInCall
<1>2. ASSUME NEW t \in Callers, NEW ask \in Asks[t], AskBase(t, ask) PROVE CmbsInv'
  BY <1>2, AskBaseInv
<1>3. ASSUME NEW t \in Callers, Caller(t) PROVE CmbsInv'
  BY <1>3, CleanMessageInv, PrepareRecvAddInv, SendRequestInv, TakeMessageInv, GiveUpInv,
     ResetTokenInv DEF Caller
<1>4. ASSUME NEW r \in owed, BaseAnswers(r) PROVE CmbsInv'
  BY <1>4, BaseAnswersInv
<1> QED BY <1>1, <1>2, <1>3, <1>4 DEF CmbsNext

LEMMA CmbsInvariance == CmbsSpec => []CmbsInv
BY CmbsInitInv, CmbsNextInv, PTL DEF CmbsSpec

\* Every variable of the calls to the base has its type.
THEOREM CmbsTypes == CmbsSpec => []CmbsTypeOK
BY CmbsInvariance, PTL DEF CmbsInv

\* The token is up only while some thread is in a call, for any number of
\* calls: the queue of answers does not fill between them.
THEOREM TokenIsLowered == CmbsSpec => []TokenOnlyInCall
BY CmbsInvariance, PTL DEF CmbsInv

\* Of an answer the base gave, a call loses none but to another call.
THEOREM AnswersAreFound == CmbsSpec => []LostOnlyToAnotherCall
BY CmbsInvariance, PTL DEF CmbsInv

\* A call that is alone and finds nothing left over returns its own answer.
THEOREM AloneAnswersAreOwn == CmbsSpec => []OwnAnswerWhenAlone
BY CmbsInvariance, PTL DEF CmbsInv

-----------------------------------------------------------------------------
(* The DECT controller: Dect                                               *)

\* From the empty test on, a task that is queued has its signal still to come,
\* or has missed it.
SignalInv ==
  worker \in {"enter", "waiting"} /\ jobs # << >> => receiver = "pushed" \/ missed

DectInv ==
  /\ DectTypeOK /\ SignalInv
  /\ OneSlotPerDevice /\ ClearsItsDevice /\ StuckOnlyBySlip

-----------------------------------------------------------------------------
\* What appending to a queue adds.
LEMMA QueueAppend ==
  ASSUME NEW S, NEW s \in Seq(S), NEW e \in S
  PROVE  /\ Append(s, e) \in Seq(S)
         /\ Len(s) \in Nat /\ Len(Append(s, e)) = Len(s) + 1
         /\ \A n \in 1 .. Len(s) : Append(s, e)[n] = s[n]
         /\ Append(s, e)[Len(s) + 1] = e
BY AppendProperties, LenProperties

\* A set listed in as many places as it has elements is listed without repetition.
LEMMA ListedOnce ==
  ASSUME NEW U, IsFiniteSet(U), NEW a \in Nat, NEW f,
         {f[i] : i \in (a + 1) .. (a + Cardinality(U))} = U
  PROVE  \A i, k \in (a + 1) .. (a + Cardinality(U)) : f[i] = f[k] => i = k
<1> DEFINE n == Cardinality(U)
           P == (a + 1) .. (a + n)
           g == [i \in P |-> f[i]]
<1>1. n \in Nat
  BY FS_CardinalityType
<1>2. IsFiniteSet(P) /\ Cardinality(P) = n
  <2>1. a + 1 \in Int /\ a + n \in Int
    BY <1>1
  <2>2. IsFiniteSet(P) /\ Cardinality(P) = IF a + 1 > a + n THEN 0 ELSE (a + n) - (a + 1) + 1
    BY <2>1, FS_Interval
  <2> QED BY <2>2, <1>1
<1>3. g \in Surjection(P, U)
  BY DEF Surjection
<1>4. g \in Injection(P, U)
  BY <1>2, <1>3, FS_SurjSameCardinalityImpliesInj
<1> QED BY <1>4 DEF Injection, IsInjective

LEMMA KnownIsFinite ==
  ASSUME DectTypeOK
  PROVE  /\ IsFiniteSet(known \ Handsets) /\ IsFiniteSet(known \cap Handsets)
<1>1. known \ Handsets \in SUBSET Devices /\ known \cap Handsets \in SUBSET Devices
  BY DEF DectTypeOK
<1> QED BY <1>1, FS_Subset, DectAssumption

\* The two lists of the base fill the table without repetition.
LEMMA ListingsOnce ==
  ASSUME NEW ule, NEW hs, IsFiniteSet(ule), IsFiniteSet(hs), ule \cap hs = {},
         NEW f \in Listings(ule, hs)
  PROVE  \A i, k \in Slots : f[i] = f[k] /\ f[i] # Nobody => i = k
<1> DEFINE n == Cardinality(ule)
           m == n + Cardinality(hs)
<1>1. n \in Nat /\ Cardinality(hs) \in Nat /\ Capacity \in Nat
  BY FS_CardinalityType, DectAssumption
<1>2. /\ {f[i] : i \in 1 .. n} = ule /\ {f[i] : i \in (n + 1) .. m} = hs
      /\ \A i \in Slots : i > m => f[i] = Nobody
  BY DEF Listings
<1>3. \A i, k \in 1 .. n : f[i] = f[k] => i = k
  <2>1. {f[i] : i \in (0 + 1) .. (0 + Cardinality(ule))} = ule
    BY <1>1, <1>2
  <2>2. \A i, k \in (0 + 1) .. (0 + Cardinality(ule)) : f[i] = f[k] => i = k
    BY <2>1, ListedOnce
  <2> QED BY <2>2, <1>1
<1>4. \A i, k \in (n + 1) .. m : f[i] = f[k] => i = k
  BY <1>1, <1>2, ListedOnce
<1> SUFFICES ASSUME NEW i \in Slots, NEW k \in Slots, f[i] = f[k], f[i] # Nobody
             PROVE  i = k
  OBVIOUS
<1>5. (i \in 1 .. n \/ i \in (n + 1) .. m) /\ (k \in 1 .. n \/ k \in (n + 1) .. m)
  BY <1>1, <1>2 DEF Slots
<1>6. \A j \in 1 .. n : f[j] \in ule
  BY <1>2
<1>7. \A j \in (n + 1) .. m : f[j] \in hs
  BY <1>2
<1> QED BY <1>3, <1>4, <1>5, <1>6, <1>7

-----------------------------------------------------------------------------
LEMMA DectInitInv == DectInit => DectInv
<1> SUFFICES ASSUME DectInit PROVE DectInv
  OBVIOUS
<1>1. NoJob \in Job /\ NoReport \in Report
  BY DEF NoJob, Job, NoReport, Report
<1>2. jobs \in Seq(Job) /\ reports \in Seq(Report)
  BY EmptySeq DEF DectInit
<1>3. mode \in DectModes /\ table \in [Slots -> Devices \cup {Nobody}] /\ 1 \in Slots
  BY DectAssumption DEF DectInit, DectModes, Slots
<1>4. locked \in BOOLEAN /\ stageTwo \in BOOLEAN /\ window \in BOOLEAN /\ known \subseteq Devices
  BY DEF DectInit
<1>5. gaveUp \in BOOLEAN /\ missed \in BOOLEAN /\ slipped \in BOOLEAN /\ rewritten \in BOOLEAN
  BY DEF DectInit
<1>6. messages \in 0 .. MaxMessages /\ reported \in 0 .. MaxReports
  BY DectAssumption DEF DectInit
<1>7. DectTypeOK
  <2>1. /\ receiver = "listening" /\ worker = "test" /\ job = NoJob /\ slot = 1
        /\ reporter = "idle" /\ report = NoReport
    BY DEF DectInit
  <2> QED BY <1>1, <1>2, <1>3, <1>4, <1>5, <1>6, <2>1 DEF DectTypeOK
<1>8. SignalInv /\ OneSlotPerDevice /\ ClearsItsDevice /\ StuckOnlyBySlip
  BY DEF DectInit, SignalInv, OneSlotPerDevice, ClearsItsDevice, StuckOnlyBySlip
<1> QED BY <1>7, <1>8 DEF DectInv

-----------------------------------------------------------------------------
(* Types                                                                   *)

LEMMA MessageTypes ==
  ASSUME DectTypeOK,
         \/ ReceiveIgnored \/ ReceiveStop \/ ReceiveLock \/ ReceiveUnlock
         \/ \E j \in Jobs : ReceiveTask(j)
         \/ MessageThread
  PROVE  DectTypeOK'
<1> USE DectAssumption DEF DectTypeOK, baseVars, workerVars, reporterVars, historyVars, DectModes
<1>1. Accepts => messages' \in 0 .. MaxMessages
  BY DEF Accepts
<1>2. CASE ReceiveIgnored
  BY <1>1, <1>2 DEF ReceiveIgnored
<1>3. CASE ReceiveStop
  <2>1. messages' \in 0 .. MaxMessages /\ mode' \in DectModes /\ slipped' \in BOOLEAN
        /\ receiver' = "closing"
    BY <1>1, <1>3 DEF ReceiveStop, SetMode
  <2>2. UNCHANGED <<locked, table, jobs, worker, job, slot, reporter, report, stageTwo,
                    window, known, reports, reported, gaveUp, missed, rewritten>>
    BY <1>3 DEF ReceiveStop
  <2> QED BY <2>1, <2>2
<1>4. CASE ReceiveLock
  <2>1. locked' \in BOOLEAN
    BY <1>4 DEF ReceiveLock
  <2> QED BY <1>1, <1>4, <2>1 DEF ReceiveLock
<1>5. CASE ReceiveUnlock
  <2>1. locked' \in BOOLEAN
    BY <1>5 DEF ReceiveUnlock
  <2> QED BY <1>1, <1>5, <2>1 DEF ReceiveUnlock
<1>6. ASSUME NEW j \in Jobs, ReceiveTask(j) PROVE DectTypeOK'
  <2>1. j \in Job
    BY DEF Jobs
  <2>2. jobs' \in Seq(Job)
    BY <1>6, <2>1, QueueAppend DEF ReceiveTask
  <2> QED BY <1>1, <1>6, <2>2 DEF ReceiveTask
<1>7. ASSUME NEW e \in Ending, CloseWindow(e) PROVE DectTypeOK'
  <2>1. gaveUp' \in BOOLEAN /\ slipped' \in BOOLEAN /\ window' \in BOOLEAN
    BY <1>7 DEF CloseWindow, CallEnds
  <2> QED BY <1>7, <2>1 DEF CloseWindow
<1>8. CASE SignalTask
  <2>1. missed' \in BOOLEAN
    BY <1>8 DEF SignalTask
  <2> QED BY <1>8, <2>1 DEF SignalTask
<1> QED BY <1>2, <1>3, <1>4, <1>5, <1>6, <1>7, <1>8 DEF MessageThread

LEMMA TaskTypes ==
  ASSUME DectTypeOK, TaskThread
  PROVE  DectTypeOK'
<1> USE DectAssumption DEF DectTypeOK, baseVars, workerVars, reporterVars, historyVars, DectModes
<1>1. NoJob \in Job /\ 1 \in Slots
  BY DEF NoJob, Job, Slots
<1>2. CASE TestQueue
  BY <1>2 DEF TestQueue
<1>3. CASE WaitForTask
  BY <1>3 DEF WaitForTask
<1>4. CASE PopTask
  <2>1. job' \in Job /\ jobs' \in Seq(Job)
    BY <1>4, QueueTail DEF PopTask
  <2>2. worker' = "start" /\ missed' \in BOOLEAN
    BY <1>4 DEF PopTask
  <2>3. UNCHANGED <<mode, table, receiver, slot, messages>>
    BY <1>4 DEF PopTask
  <2>4. UNCHANGED <<reporter, report, known, reports, reported>>
    BY <1>4 DEF PopTask
  <2>5. /\ locked' \in BOOLEAN /\ gaveUp' \in BOOLEAN /\ slipped' \in BOOLEAN
        /\ rewritten' \in BOOLEAN /\ stageTwo' \in BOOLEAN /\ window' \in BOOLEAN
    BY <1>4 DEF PopTask
  <2> QED BY <2>1, <2>2, <2>3, <2>4, <2>5
<1>5. CASE RefuseTask
  BY <1>1, <1>5 DEF RefuseTask, TaskDone
<1>6. CASE StartAdd
  BY <1>6 DEF StartAdd, SetMode
<1>7. ASSUME NEW e \in Ending, OpenWindow(e) PROVE DectTypeOK'
  <2>1. gaveUp' \in BOOLEAN /\ window' \in BOOLEAN
    BY <1>7 DEF OpenWindow, CallEnds
  <2>2. slipped' \in BOOLEAN /\ mode' \in DectModes
    BY <1>7 DEF OpenWindow, SetMode
  <2> QED BY <1>1, <1>7, <2>1, <2>2 DEF OpenWindow, TaskDone
<1>8. CASE StartDelete
  BY <1>8 DEF StartDelete, SetMode
<1>9. ASSUME NEW e \in Ending, RemoveFromBase(e) PROVE DectTypeOK'
  <2>1. gaveUp' \in BOOLEAN /\ known' \subseteq Devices
    BY <1>9 DEF RemoveFromBase, CallEnds
  <2>2. /\ slipped' \in BOOLEAN /\ mode' \in DectModes
        /\ worker' \in {"removed", "test"} /\ job' \in Job /\ slot' \in Slots
    BY <1>1, <1>9 DEF RemoveFromBase, SetMode, TaskDone
  <2> QED BY <1>9, <2>1, <2>2 DEF RemoveFromBase
<1>10. CASE RemoveSuccess
  <2>1. /\ slot' \in Slots /\ worker' \in {"clear", "test"} /\ job' \in Job
        /\ table' \in [Slots -> Devices \cup {Nobody}] /\ rewritten' \in BOOLEAN
    BY <1>1, <1>10 DEF RemoveSuccess, TaskDone
  <2> QED BY <1>10, <2>1 DEF RemoveSuccess, SetMode
<1>11. CASE ClearSlot
  BY <1>1, <1>11 DEF ClearSlot, TaskDone, SetMode
<1> QED BY <1>2, <1>3, <1>4, <1>5, <1>6, <1>7, <1>8, <1>9, <1>10, <1>11 DEF TaskThread

LEMMA ReportTypes ==
  ASSUME DectTypeOK, ReportThread
  PROVE  DectTypeOK'
<1> USE DectAssumption DEF DectTypeOK, baseVars, workerVars, reporterVars, historyVars, DectModes
<1>1. NoReport \in Report
  BY DEF NoReport, Report
<1>2. ASSUME NEW kinds, NextReport(kinds)
      PROVE  reports' \in Seq(Report) /\ Head(reports) \in Report
  BY <1>2, QueueTail DEF NextReport
<1>3. AddFail => mode' \in DectModes /\ slipped' \in BOOLEAN
  BY DEF AddFail, SetMode
<1>4. CASE ReportStageTwo
  BY <1>2, <1>4 DEF ReportStageTwo, NextReport
<1>5. CASE ReportFailure
  BY <1>2, <1>3, <1>5 DEF ReportFailure, NextReport
<1>6. CASE ReportRegistered
  <2>1. reports' \in Seq(Report) /\ Head(reports) \in Report
    BY <1>2, <1>6 DEF ReportRegistered
  <2>2. report' \in Report /\ reporter' \in {reporter, "insert", "closing"}
    BY <2>1, <1>6 DEF ReportRegistered
  <2> QED BY <1>6, <2>1, <2>2 DEF ReportRegistered, NextReport
<1>7. CASE ReportRestart
  <2>1. reports' \in Seq(Report) /\ Head(reports) \in Report
    BY <1>2, <1>7 DEF ReportRestart
  <2>2. mode' \in DectModes /\ slipped' \in BOOLEAN
    BY <1>3, <1>7 DEF ReportRestart
  <2> QED BY <1>7, <2>1, <2>2 DEF ReportRestart, NextReport
<1>8. CASE RebuildClear
  BY <1>8 DEF RebuildClear
<1>9. ASSUME NEW uleTold \in BOOLEAN, NEW hsTold \in BOOLEAN, RebuildFill(uleTold, hsTold)
      PROVE  DectTypeOK'
  <2>1. table' \in [Slots -> Devices \cup {Nobody}] /\ rewritten'
    BY <1>9 DEF RebuildFill, Listings
  <2>2. gaveUp' \in BOOLEAN
    BY <1>9 DEF RebuildFill
  <2>3. report' \in Report /\ reporter' \in {"closing", "idle"}
    <3>1. \A d \in Devices \cup {Nobody} : [kind |-> "registered", device |-> d] \in Report
      BY DEF Report
    <3> QED BY <1>1, <1>9, <3>1 DEF RebuildFill
  <2>4. mode' \in DectModes /\ slipped' \in BOOLEAN
    BY <1>3, <1>9 DEF RebuildFill
  <2> QED BY <1>9, <2>1, <2>2, <2>3, <2>4 DEF RebuildFill
<1>10. ASSUME NEW e \in Ending, CompleteClose(e) PROVE DectTypeOK'
  <2>1. gaveUp' \in BOOLEAN /\ window' \in BOOLEAN
    BY <1>10 DEF CompleteClose, CallEnds
  <2> QED BY <1>10, <2>1 DEF CompleteClose
<1>11. ASSUME NEW told \in BOOLEAN, CompleteList(told) PROVE DectTypeOK'
  <2>1. gaveUp' \in BOOLEAN /\ reporter' \in {"insert", "dropping"}
    BY <1>11 DEF CompleteList
  <2> QED BY <1>11, <2>1 DEF CompleteList
<1>12. ASSUME NEW e \in Ending, CompleteDrop(e) PROVE DectTypeOK'
  <2>1. gaveUp' \in BOOLEAN /\ known' \subseteq Devices
    BY <1>12 DEF CompleteDrop, CallEnds
  <2> QED BY <1>1, <1>12, <2>1 DEF CompleteDrop, ReportDone, SetMode
<1>13. CASE CompleteInsert
  <2>1. report.device \in Devices \cup {Nobody}
    BY DEF Report
  <2>2. table' \in [Slots -> Devices \cup {Nobody}]
    BY <2>1, <1>13 DEF CompleteInsert
  <2> QED BY <1>1, <1>13, <2>2 DEF CompleteInsert, ReportDone, SetMode
<1> QED BY <1>4, <1>5, <1>6, <1>7, <1>8, <1>9, <1>10, <1>11, <1>12, <1>13 DEF ReportThread

LEMMA BaseTypes ==
  ASSUME DectTypeOK, Base
  PROVE  DectTypeOK'
<1> USE DectAssumption DEF DectTypeOK, workerVars, reporterVars, historyVars
<1>1. ASSUME NEW kind \in {"stage_2", "registered", "handset", "failed", "deleted", "restarted"},
             NEW d \in Devices \cup {Nobody}, BaseReports(kind, d),
             window' \in BOOLEAN, known' \subseteq Devices
      PROVE  DectTypeOK'
  <2>1. [kind |-> kind, device |-> d] \in Report
    BY DEF Report
  <2>2. reports' \in Seq(Report) /\ reported' \in 0 .. MaxReports
    BY <1>1, <2>1, QueueAppend DEF BaseReports
  <2> QED BY <1>1, <2>2 DEF BaseReports
<1>2. ASSUME NEW kind \in {"stage_2", "failed"}, BaseStage(kind) PROVE DectTypeOK'
  BY <1>1, <1>2 DEF BaseStage
<1>3. ASSUME NEW d \in Devices, BaseRegisters(d) PROVE DectTypeOK'
  BY <1>1, <1>3 DEF BaseRegisters
<1>4. ASSUME NEW d \in Devices, BaseUnregisters(d) PROVE DectTypeOK'
  BY <1>1, <1>4 DEF BaseUnregisters
<1>5. CASE BaseTimesOut
  BY <1>1, <1>5 DEF BaseTimesOut
<1>6. CASE BaseRestarts
  BY <1>1, <1>6 DEF BaseRestarts
<1> QED BY <1>2, <1>3, <1>4, <1>5, <1>6 DEF Base

LEMMA TypeStep == ASSUME DectTypeOK, [DectNext]_dectVars PROVE DectTypeOK'
<1>1. CASE UNCHANGED dectVars
  BY <1>1 DEF dectVars, DectTypeOK
<1> QED BY <1>1, MessageTypes, TaskTypes, ReportTypes, BaseTypes DEF DectNext

-----------------------------------------------------------------------------
(* What each thread leaves alone                                           *)

\* The table is written by the end of a deletion, by an insertion and by the
\* two steps of a rebuilding.
LEMMA TableKept ==
  ASSUME [DectNext]_dectVars,
         ~ RemoveSuccess, ~ ClearSlot, ~ RebuildClear, ~ CompleteInsert,
         \A uleTold, hsTold \in BOOLEAN : ~ RebuildFill(uleTold, hsTold)
  PROVE  table' = table
BY DEF DectNext, dectVars, MessageThread, TaskThread, ReportThread, Base,
   ReceiveIgnored, ReceiveStop, CloseWindow, ReceiveLock, ReceiveUnlock, ReceiveTask, SignalTask,
   TestQueue, WaitForTask, PopTask, RefuseTask, StartAdd, OpenWindow, StartDelete, RemoveFromBase,
   NextReport, ReportStageTwo, ReportFailure, ReportRegistered, ReportRestart, CompleteClose,
   CompleteList, CompleteDrop, BaseReports, BaseStage, BaseRegisters, BaseUnregisters,
   BaseTimesOut, BaseRestarts

\* The other threads leave the task thread where it is.
LEMMA WorkerKept ==
  ASSUME [DectNext]_dectVars, ~ TaskThread, ~ SignalTask
  PROVE  UNCHANGED workerVars
BY DEF DectNext, dectVars, workerVars, MessageThread, ReportThread, Base,
   ReceiveIgnored, ReceiveStop, CloseWindow, ReceiveLock, ReceiveUnlock, ReceiveTask,
   NextReport, ReportStageTwo, ReportFailure, ReportRegistered, ReportRestart, RebuildClear,
   RebuildFill, CompleteClose, CompleteList, CompleteDrop, CompleteInsert,
   BaseReports, BaseStage, BaseRegisters, BaseUnregisters, BaseTimesOut, BaseRestarts

-----------------------------------------------------------------------------
(* The properties                                                          *)

LEMMA SignalStep ==
  ASSUME DectTypeOK, SignalInv, [DectNext]_dectVars
  PROVE  SignalInv'
<1> USE DEF SignalInv
<1>1. CASE \E j \in Jobs : ReceiveTask(j)
  BY <1>1 DEF ReceiveTask
<1>2. CASE SignalTask
  BY <1>2 DEF SignalTask
<1>3. CASE TaskThread
  <2>1. CASE TestQueue \/ WaitForTask
    BY <2>1 DEF TestQueue, WaitForTask, historyVars
  <2>2. worker' \in {"enter", "waiting"} => TestQueue \/ WaitForTask
    BY <1>3 DEF TaskThread, PopTask, RefuseTask, StartAdd, OpenWindow, StartDelete, RemoveFromBase,
                RemoveSuccess, ClearSlot, TaskDone
  <2> QED BY <2>1, <2>2
<1>4. CASE ReceiveStop \/ \E e \in Ending : CloseWindow(e)
  BY <1>4 DEF ReceiveStop, Accepts, CloseWindow, workerVars
<1>5. CASE ReceiveIgnored \/ ReceiveLock \/ ReceiveUnlock \/ ReportThread \/ Base \/ UNCHANGED dectVars
  <2>1. UNCHANGED <<worker, jobs, receiver, missed>>
    BY <1>5 DEF dectVars, ReceiveIgnored, ReceiveLock, ReceiveUnlock, workerVars, historyVars,
       ReportThread, NextReport, ReportStageTwo, ReportFailure, ReportRegistered, ReportRestart,
       RebuildClear, RebuildFill, CompleteClose, CompleteList, CompleteDrop, CompleteInsert,
       Base, BaseReports, BaseStage, BaseRegisters, BaseUnregisters, BaseTimesOut, BaseRestarts
  <2> QED BY <2>1
<1> QED BY <1>1, <1>2, <1>3, <1>4, <1>5 DEF DectNext, MessageThread

LEMMA SlotStep ==
  ASSUME DectTypeOK, OneSlotPerDevice, [DectNext]_dectVars
  PROVE  OneSlotPerDevice'
<1> USE DEF OneSlotPerDevice
<1>1. CASE RemoveSuccess
  <2>1. table' = table \/ table' = [i \in Slots |-> Nobody]
    BY <1>1 DEF RemoveSuccess, DectTypeOK
  <2> QED BY <2>1
<1>2. CASE ClearSlot
  BY <1>2 DEF ClearSlot, DectTypeOK
<1>3. CASE RebuildClear
  BY <1>3 DEF RebuildClear
<1>4. CASE CompleteInsert
  <2>1. table' = [i \in Slots |->
                    IF ~ Listed(report.device) /\ FirstFree(i) THEN report.device ELSE table[i]]
    BY <1>4 DEF CompleteInsert
  <2> SUFFICES ASSUME NEW i \in Slots, NEW k \in Slots,
                      table'[i] = table'[k], table'[i] # Nobody
               PROVE  i = k
    OBVIOUS
  <2>2. CASE Listed(report.device)
    BY <2>1, <2>2
  <2>3. CASE ~ Listed(report.device)
    <3>1. \A n \in Slots : table[n] # report.device
      BY <2>3 DEF Listed
    <3>2. FirstFree(i) /\ FirstFree(k) => i = k
      BY DectAssumption DEF FirstFree, Slots
    <3> QED BY <2>1, <2>3, <3>1, <3>2
  <2> QED BY <2>2, <2>3
<1>5. ASSUME NEW uleTold \in BOOLEAN, NEW hsTold \in BOOLEAN, RebuildFill(uleTold, hsTold)
      PROVE  OneSlotPerDevice'
  <2> DEFINE ule == IF uleTold THEN known \ Handsets ELSE {}
             hs == IF hsTold THEN known \cap Handsets ELSE {}
  <2>1. table' \in Listings(ule, hs)
    BY <1>5 DEF RebuildFill
  <2>2. IsFiniteSet(ule) /\ IsFiniteSet(hs)
    BY KnownIsFinite, FS_EmptySet
  <2>3. ule \cap hs = {}
    OBVIOUS
  <2> HIDE DEF ule, hs
  <2>4. \A i, k \in Slots : table'[i] = table'[k] /\ table'[i] # Nobody => i = k
    BY <2>1, <2>2, <2>3, ListingsOnce
  <2> QED BY <2>4
<1> QED BY <1>1, <1>2, <1>3, <1>4, <1>5, TableKept

LEMMA ClearStep ==
  ASSUME DectTypeOK, ClearsItsDevice, [DectNext]_dectVars
  PROVE  ClearsItsDevice'
<1> USE DEF ClearsItsDevice
<1>1. CASE RemoveSuccess
  <2>1. 1 \in Slots
    BY DectAssumption DEF Slots
  <2> QED BY <1>1, <2>1 DEF RemoveSuccess, TaskDone
<1>2. CASE ClearSlot
  BY <1>2 DEF ClearSlot, TaskDone
<1>3. CASE RebuildClear \/ CompleteInsert \/ \E uleTold, hsTold \in BOOLEAN : RebuildFill(uleTold, hsTold)
  BY <1>3 DEF RebuildClear, CompleteInsert, RebuildFill
<1>4. ASSUME ~ RemoveSuccess, ~ ClearSlot, ~ RebuildClear, ~ CompleteInsert,
             \A uleTold, hsTold \in BOOLEAN : ~ RebuildFill(uleTold, hsTold)
      PROVE  ClearsItsDevice'
  <2>1. table' = table
    BY <1>4, TableKept
  <2>2. worker' = "clear" => UNCHANGED workerVars
    <3>1. CASE SignalTask \/ TaskThread
      BY <1>4, <3>1
      DEF SignalTask, TaskThread, TestQueue, WaitForTask, PopTask, RefuseTask, StartAdd, OpenWindow,
          StartDelete, RemoveFromBase, TaskDone, workerVars
    <3> QED BY <3>1, WorkerKept
  <2>3. rewritten' = rewritten
    BY <1>4
    DEF DectNext, dectVars, historyVars, MessageThread, TaskThread, ReportThread, Base,
        ReceiveIgnored, ReceiveStop, CloseWindow, ReceiveLock, ReceiveUnlock, ReceiveTask,
        SignalTask, TestQueue, WaitForTask, PopTask, RefuseTask, StartAdd, OpenWindow, StartDelete,
        RemoveFromBase, NextReport, ReportStageTwo, ReportFailure, ReportRegistered, ReportRestart,
        CompleteClose, CompleteList, CompleteDrop, BaseReports, BaseStage, BaseRegisters,
        BaseUnregisters, BaseTimesOut, BaseRestarts
  <2> QED BY <2>1, <2>2, <2>3 DEF workerVars
<1> QED BY <1>1, <1>2, <1>3, <1>4

\* A report that is queued and is no STAGE_2.
Pending == \E n \in 1 .. Len(reports) : reports[n].kind # "stage_2"

LEMMA PendingTail ==
  ASSUME DectTypeOK, Pending, reports # << >>, reports' = Tail(reports),
         Head(reports).kind = "stage_2"
  PROVE  Pending'
<1>1. /\ Len(reports) \in Nat \ {0} /\ Len(Tail(reports)) = Len(reports) - 1
      /\ Head(reports) = reports[1]
      /\ \A n \in 1 .. Len(Tail(reports)) : Tail(reports)[n] = reports[n + 1]
  BY QueueTail DEF DectTypeOK
<1>2. PICK n \in 1 .. Len(reports) : reports[n].kind # "stage_2"
  BY DEF Pending
<1>3. n # 1
  BY <1>1, <1>2
<1>4. n - 1 \in 1 .. Len(Tail(reports)) /\ Tail(reports)[n - 1] = reports[n]
  BY <1>1, <1>3
<1> QED BY <1>2, <1>4 DEF Pending

LEMMA PendingReport ==
  ASSUME DectTypeOK, NEW kind \in {"stage_2", "registered", "handset", "failed", "deleted", "restarted"},
         NEW d \in Devices \cup {Nobody}, BaseReports(kind, d)
  PROVE  Pending \/ kind # "stage_2" => Pending'
<1> DEFINE r == [kind |-> kind, device |-> d]
<1>1. r \in Report
  BY DEF Report
<1>2. /\ Len(reports) \in Nat /\ Len(Append(reports, r)) = Len(reports) + 1
      /\ \A n \in 1 .. Len(reports) : Append(reports, r)[n] = reports[n]
      /\ Append(reports, r)[Len(reports) + 1] = r
  BY <1>1, QueueAppend DEF DectTypeOK
<1>3. reports' = Append(reports, r)
  BY DEF BaseReports
<1>4. ASSUME Pending PROVE Pending'
  <2>1. PICK n \in 1 .. Len(reports) : reports[n].kind # "stage_2"
    BY <1>4 DEF Pending
  <2>2. n \in 1 .. Len(reports') /\ reports'[n] = reports[n]
    BY <1>2, <1>3
  <2> QED BY <2>1, <2>2 DEF Pending
<1>5. ASSUME kind # "stage_2" PROVE Pending'
  <2>1. Len(reports) + 1 \in 1 .. Len(reports') /\ reports'[Len(reports) + 1] = r
    BY <1>2, <1>3
  <2> QED BY <1>5, <2>1 DEF Pending
<1> QED BY <1>4, <1>5

LEMMA StuckStep ==
  ASSUME DectTypeOK, StuckOnlyBySlip, [DectNext]_dectVars
  PROVE  StuckOnlyBySlip'
<1> DEFINE Ended == window \/ worker = "opening" \/ reporter # "idle" \/ slipped \/ Pending
<1>0. (mode = "adding" => Ended) /\ (StuckOnlyBySlip' <=> (mode' = "adding" => Ended'))
  BY DEF StuckOnlyBySlip, Pending
<1> SUFFICES mode' = "adding" => Ended'
  BY <1>0
<1> USE <1>0 DEF baseVars, workerVars, reporterVars, historyVars
<1>1. CASE UNCHANGED dectVars
  BY <1>1 DEF dectVars, Pending
<1>2. CASE ReceiveIgnored \/ ReceiveLock \/ ReceiveUnlock \/ \E j \in Jobs : ReceiveTask(j)
  BY <1>2 DEF ReceiveIgnored, ReceiveLock, ReceiveUnlock, ReceiveTask, Pending
<1>3. CASE ReceiveStop
  BY <1>3 DEF ReceiveStop, SetMode
<1>4. ASSUME NEW e \in Ending, CloseWindow(e) PROVE mode' = "adding" => Ended'
  BY <1>4 DEF CloseWindow, Pending
<1>5. CASE SignalTask
  BY <1>5 DEF SignalTask, Pending
<1>6. CASE TestQueue \/ WaitForTask \/ PopTask \/ RefuseTask
  BY <1>6 DEF TestQueue, WaitForTask, PopTask, RefuseTask, TaskDone, Pending
<1>7. CASE StartAdd
  BY <1>7 DEF StartAdd
<1>8. ASSUME NEW e \in Ending, OpenWindow(e) PROVE mode' = "adding" => Ended'
  BY <1>8 DEF OpenWindow, SetMode, Pending
<1>9. CASE StartDelete \/ RemoveSuccess \/ ClearSlot
  BY <1>9 DEF StartDelete, RemoveSuccess, ClearSlot, SetMode
<1>10. ASSUME NEW e \in Ending, RemoveFromBase(e) PROVE mode' = "adding" => Ended'
  BY <1>10 DEF RemoveFromBase, SetMode, Pending
<1>11. CASE ReportStageTwo
  <2>1. reports # << >> /\ reports' = Tail(reports) /\ Head(reports).kind = "stage_2"
    BY <1>11 DEF ReportStageTwo, NextReport
  <2>2. Pending => Pending'
    BY <2>1, PendingTail
  <2> QED BY <1>11, <2>2 DEF ReportStageTwo, NextReport
<1>12. CASE ReportFailure
  BY <1>12 DEF ReportFailure, AddFail, SetMode
<1>13. CASE ReportRegistered
  BY <1>13 DEF ReportRegistered
<1>14. CASE ReportRestart
  BY <1>14 DEF ReportRestart
<1>15. CASE RebuildClear
  BY <1>15 DEF RebuildClear
<1>16. ASSUME NEW uleTold \in BOOLEAN, NEW hsTold \in BOOLEAN, RebuildFill(uleTold, hsTold)
       PROVE  mode' = "adding" => Ended'
  BY <1>16 DEF RebuildFill, AddFail, SetMode
<1>17. ASSUME NEW e \in Ending, CompleteClose(e) PROVE mode' = "adding" => Ended'
  BY <1>17 DEF CompleteClose
<1>18. ASSUME NEW told \in BOOLEAN, CompleteList(told) PROVE mode' = "adding" => Ended'
  BY <1>18 DEF CompleteList
<1>19. CASE CompleteInsert \/ \E e \in Ending : CompleteDrop(e)
  BY <1>19 DEF CompleteInsert, CompleteDrop, ReportDone, SetMode
<1>20. CASE Base
  <2> SUFFICES ASSUME mode' = "adding" PROVE Ended'
    OBVIOUS
  <2>1. ASSUME NEW kind \in {"stage_2", "registered", "handset", "failed", "deleted", "restarted"},
               NEW d \in Devices \cup {Nobody}, BaseReports(kind, d),
               kind # "stage_2" \/ window' = window
        PROVE  Ended'
    <3>1. Pending \/ kind # "stage_2" => Pending'
      BY <2>1, PendingReport
    <3> QED BY <2>1, <3>1 DEF BaseReports
  <2>2. ASSUME NEW kind \in {"stage_2", "failed"}, BaseStage(kind) PROVE Ended'
    BY <2>1, <2>2 DEF BaseStage
  <2>3. ASSUME NEW d \in Devices, BaseRegisters(d) \/ BaseUnregisters(d) PROVE Ended'
    BY <2>1, <2>3 DEF BaseRegisters, BaseUnregisters
  <2>4. CASE BaseTimesOut \/ BaseRestarts
    BY <2>1, <2>4 DEF BaseTimesOut, BaseRestarts
  <2> QED BY <1>20, <2>2, <2>3, <2>4 DEF Base
<1> HIDE DEF Ended
<1>21. CASE TaskThread
  BY <1>21, <1>6, <1>7, <1>8, <1>9, <1>10 DEF TaskThread
<1>22. CASE ReportThread
  BY <1>22, <1>11, <1>12, <1>13, <1>14, <1>15, <1>16, <1>17, <1>18, <1>19 DEF ReportThread
<1>23. CASE MessageThread
  BY <1>23, <1>4, <1>5 DEF MessageThread
<1> QED BY <1>1, <1>2, <1>3, <1>20, <1>21, <1>22, <1>23 DEF DectNext

-----------------------------------------------------------------------------
LEMMA DectNextInv == ASSUME DectInv, [DectNext]_dectVars PROVE DectInv'
BY TypeStep, SignalStep, SlotStep, ClearStep, StuckStep DEF DectInv

LEMMA DectInvariance == DectSpec => []DectInv
BY DectInitInv, DectNextInv, PTL DEF DectSpec

\* Every variable of the DECT controller has its type.
THEOREM DectTypes == DectSpec => []DectTypeOK
BY DectInvariance, PTL DEF DectInv

\* Whatever stops, refusals, lost answers and reports come, an add that
\* nobody ends comes about only by the orders StuckOnlyBySlip names.
THEOREM AddsEnd == DectSpec => []StuckOnlyBySlip
BY DectInvariance, PTL DEF DectInv

\* The slot cleared for a deleted device is still its own, unless the report
\* thread has written the table.
THEOREM DeletionsClearTheirSlot == DectSpec => []ClearsItsDevice
BY DectInvariance, PTL DEF DectInv

\* No device is in two slots of the table, for any devices and capacity.
THEOREM SlotsAreDistinct == DectSpec => []OneSlotPerDevice
BY DectInvariance, PTL DEF DectInv

\* A task is left queued only by a signal between the empty test and the wait.
THEOREM TasksAreSeen == DectSpec => []LeftOnlyByMissedSignal
<1>1. SignalInv => LeftOnlyByMissedSignal
  BY DEF SignalInv, LeftOnlyByMissedSignal
<1> QED BY DectInvariance, <1>1, PTL DEF DectInv
=============================================================================
