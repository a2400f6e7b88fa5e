-------------------------------- MODULE Cmbs --------------------------------
(***************************************************************************)
(* The calls of the DECT daemon to its base station (tcm_cmbs.c over       *)
(* appcmbs.c).  A call empties the queue of answers, raises the token,     *)
(* sends its request and takes messages off the queue until one carries    *)
(* the event it waits for; without one for ten seconds it gives up.        *)
(* Either way it lowers the token.  The thread that reads the base's port  *)
(* queues an answer only while the token is up.                            *)
(*                                                                         *)
(* Three threads call: the one that handles messages (dect_msg.c), the one *)
(* that works off tasks (dect_task.c) and the one that handles the reports *)
(* of the base (tcm_cmbs.c).  They share the queue and the token, and no   *)
(* lock keeps their calls apart.                                           *)
(***************************************************************************)
EXTENDS Integers, Sequences, FiniteSets

CONSTANTS
  MaxRequests   \* bound: calls made in all

ASSUME RequestsAssumption == MaxRequests \in Nat \ {0}

Callers == {"msg", "task", "report"}

\* What each thread asks of the base; a request names the event of its answer.
Asks ==
  [msg    |-> {"close"},
   task   |-> {"open", "remove", "command"},
   report |-> {"close", "list", "remove"}]
Questions == UNION {Asks[t] : t \in Callers}

RequestIds == 1 .. MaxRequests

\* alone: history, no other call was under way while this one was.
\* clean: history, no answer to an earlier request could come or lay unread.
Request == [id : 0 .. MaxRequests, ask : Questions, alone : BOOLEAN, clean : BOOLEAN]
NoRequest == [id |-> 0, ask |-> "close", alone |-> FALSE, clean |-> FALSE]
Reply == [to : RequestIds, ask : Questions]

\* Whose answer a call took, 0 for none, and whether its own had been given.
Outcome == [took : 0 .. MaxRequests, answered : BOOLEAN]
NoOutcome == [took |-> 0, answered |-> FALSE]

VARIABLES
  stage,      \* where each thread is in its call
  request,    \* the call each thread is in
  requests,   \* bound: calls begun so far
  token,      \* n_Token: answers are wanted
  unread,     \* the queue n_MssgAppID
  owed,       \* requests the base may still answer
  replied,    \* history: the calls under way that the base has answered
  outcome     \* history: what each call that is over but for the token took

cmbsVars == <<stage, request, requests, token, unread, owed, replied, outcome>>

Stages == {"none", "clean", "prepare", "send", "wait", "reset"}

CmbsTypeOK ==
  /\ stage \in [Callers -> Stages]
  /\ request \in [Callers -> Request]
  /\ requests \in 0 .. MaxRequests
  /\ token \in BOOLEAN
  /\ unread \in Seq(Reply)
  /\ owed \subseteq Reply
  /\ replied \subseteq RequestIds
  /\ outcome \in [Callers -> Outcome]

CmbsInit ==
  /\ stage = [t \in Callers |-> "none"]
  /\ request = [t \in Callers |-> NoRequest]
  /\ requests = 0 /\ token = FALSE /\ unread = << >>
  /\ owed = {} /\ replied = {}
  /\ outcome = [t \in Callers |-> NoOutcome]

-----------------------------------------------------------------------------
Others(t) == {o \in Callers \ {t} : stage[o] # "none"}

\* A call begins; the calls under way and this one are not alone any more.
\* tcm_dect_device_on_off is the one that does not empty the queue.
AskBase(t, ask) ==
  /\ stage[t] = "none" /\ requests < MaxRequests
  /\ requests' = requests + 1
  /\ stage' = [stage EXCEPT ![t] = IF ask = "command" THEN "prepare" ELSE "clean"]
  /\ request' =
       [o \in Callers |->
          IF o = t
          THEN [id |-> requests + 1, ask |-> ask, alone |-> Others(t) = {},
                clean |-> owed = {} /\ (ask = "command" => unread = << >>)]
          ELSE [id |-> request[o].id, ask |-> request[o].ask, alone |-> FALSE,
                clean |-> request[o].clean]]
  /\ UNCHANGED <<token, unread, owed, replied, outcome>>

\* Mutant of CleanMessage: one message is taken off, whatever else is there.
CleanOne(t) ==
  /\ stage[t] = "clean"
  /\ unread' = IF unread = << >> THEN << >> ELSE Tail(unread)
  /\ stage' = [stage EXCEPT ![t] = "prepare"]
  /\ UNCHANGED <<request, requests, token, owed, replied, outcome>>

\* appcmbs_CleanMessage takes one message after the other until there is none.
CleanMessage(t) ==
  /\ stage[t] = "clean"
  /\ unread' = IF unread = << >> THEN << >> ELSE Tail(unread)
  /\ stage' = [stage EXCEPT ![t] = IF unread = << >> THEN "prepare" ELSE "clean"]
  /\ UNCHANGED <<request, requests, token, owed, replied, outcome>>

PrepareRecvAdd(t) ==
  /\ stage[t] = "prepare"
  /\ token' = TRUE
  /\ stage' = [stage EXCEPT ![t] = "send"]
  /\ UNCHANGED <<request, requests, unread, owed, replied, outcome>>

SendRequest(t) ==
  /\ stage[t] = "send"
  /\ owed' = owed \cup {[to |-> request[t].id, ask |-> request[t].ask]}
  /\ stage' = [stage EXCEPT ![t] = "wait"]
  /\ UNCHANGED <<request, requests, token, unread, replied, outcome>>

\* The call is over but for the token.
Conclude(t, took) ==
  /\ stage' = [stage EXCEPT ![t] = "reset"]
  /\ outcome' = [outcome EXCEPT ![t] =
                    [took |-> took, answered |-> request[t].id \in replied]]
  /\ UNCHANGED <<request, requests, token, owed, replied>>

\* Mutant of TakeMessage: a message with another event ends the wait.
TakeAny(t) ==
  /\ stage[t] = "wait" /\ unread # << >>
  /\ unread' = Tail(unread)
  /\ Conclude(t, IF Head(unread).ask = request[t].ask THEN Head(unread).to ELSE 0)

\* appcmbs_WaitForContainer: a message with another event is thrown away.
TakeMessage(t) ==
  /\ stage[t] = "wait" /\ unread # << >>
  /\ unread' = Tail(unread)
  /\ IF Head(unread).ask = request[t].ask
     THEN Conclude(t, Head(unread).to)
     ELSE UNCHANGED <<stage, request, requests, token, owed, replied, outcome>>

\* The hundredth time that it finds the queue empty.
GiveUp(t) ==
  /\ stage[t] = "wait" /\ unread = << >>
  /\ Conclude(t, 0) /\ UNCHANGED unread

Forget(t) ==
  /\ request' = [request EXCEPT ![t] = NoRequest]
  /\ replied' = replied \ {request[t].id}
  /\ outcome' = [outcome EXCEPT ![t] = NoOutcome]

\* Mutant of ResetToken: the token is left up.
ResetNothing(t) ==
  /\ stage[t] = "reset"
  /\ stage' = [stage EXCEPT ![t] = "none"]
  /\ Forget(t)
  /\ UNCHANGED <<requests, token, unread, owed>>

ResetToken(t) ==
  /\ stage[t] = "reset"
  /\ token' = FALSE
  /\ stage' = [stage EXCEPT ![t] = "none"]
  /\ Forget(t)
  /\ UNCHANGED <<requests, unread, owed>>

Caller(t) ==
  \/ CleanMessage(t) \/ PrepareRecvAdd(t) \/ SendRequest(t)
  \/ TakeMessage(t) \/ GiveUp(t) \/ ResetToken(t)

-----------------------------------------------------------------------------
\* The base answers, sooner or later or never; nobody waits for an answer that
\* comes while the token is down.
BaseAnswers(r) ==
  /\ r \in owed
  /\ owed' = owed \ {r}
  /\ replied' = replied \cup {i \in {r.to} : \E t \in Callers : request[t].id = i}
  /\ unread' = IF token THEN Append(unread, r) ELSE unread
  /\ UNCHANGED <<stage, request, requests, token, outcome>>

CmbsNext ==
  \/ \E t \in Callers : (\E ask \in Asks[t] : AskBase(t, ask)) \/ Caller(t)
  \/ \E r \in owed : BaseAnswers(r)

CmbsSpec == CmbsInit /\ [][CmbsNext]_cmbsVars

-----------------------------------------------------------------------------
\* A call that gives up although the base has answered it ran beside another
\* call: a call that is alone loses no answer, to the queue it empties, to the
\* events it skips or to a token that is down.
LostOnlyToAnotherCall ==
  \A t \in Callers :
    outcome[t].took = 0 /\ outcome[t].answered => ~ request[t].alone

\* A call that ran alone, and had nothing left over from an earlier call to
\* find, returns what the base answered to its own request.
OwnAnswerWhenAlone ==
  \A t \in Callers :
    outcome[t].took # 0 /\ request[t].alone /\ request[t].clean =>
      outcome[t].took = request[t].id

\* The token is up only while some thread is in a call, so the queue, which
\* nobody reads between calls, does not fill and block the reading of the port.
TokenOnlyInCall ==
  token => \E t \in Callers : stage[t] \in {"send", "wait", "reset"}

=============================================================================
