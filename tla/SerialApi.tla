------------------------------ MODULE SerialApi ------------------------------
(***************************************************************************)
(* The serial protocol between the Z-Wave driver and the radio chip:       *)
(* zwave_lib/zwave_serialapi.c (Request, SendRequestAndWaitForResponse and *)
(* the functions built on them), ZWapi_Dispatch of zwave_api.c, and the    *)
(* receiver of zwave_daemon/zw_serial.c.                                   *)
(*                                                                         *)
(* A request is acknowledged by the chip, then, depending on its kind,     *)
(* answered by a response and, later, by a callback.  The calling threads  *)
(* take turns (g_cmd_internal_mutex) and poll three global status words    *)
(* that two other threads set: the receiver (ACK, response) and the thread *)
(* that handles callbacks.  No frame names the request it belongs to.      *)
(*                                                                         *)
(* Four functions stand for the others: ZW_SoftReset (ACK only),           *)
(* ZW_Version (response), ZW_SetDefault (ACK and callback), ZW_SendData    *)
(* (response and callback); the fifth, ZW_SendDataAbout, is called by the  *)
(* callback thread.  Requests are numbered, the abort of n as MaxCalls + n,  *)
(* and the status words carry the number of the request that caused them:   *)
(* the code does not have these.                                           *)
(***************************************************************************)
EXTENDS Naturals, Sequences

CONSTANTS
  Callers,    \* the threads that call the driver
  Handler,    \* the thread ZW_msgProcess2
  NoThread,   \* the mutex is free
  MaxCalls    \* bound: requests of the Callers

ASSUME ThreadsAssumption == Handler \notin Callers /\ NoThread \notin Callers \cup {Handler}
ASSUME BoundsAssumption == MaxCalls \in Nat

Threads == Callers \cup {Handler}
CallerKinds == {"reset", "version", "default", "send"}
Kinds == CallerKinds \cup {"abort"}
WithResponse == {"version", "send"}
WithCallback == {"default", "send"}

Numbers == 1 .. 2 * MaxCalls       \* the calls, and the abort of each
Nobody == 0                        \* instead of a number: nothing was received

\* Outside the mutex, and inside it.
Stages == {"idle", "verdict", "lock", "write", "ack", "response", "copy", "copied", "done",
           "abandon", "unlock"}

VARIABLES
  lock,              \* g_cmd_internal_mutex
  at,                \* where each thread is
  req,               \* the number of the request each thread is at
  got,               \* the copy of the response in each thread's buffer
  issued,            \* the kinds of the calls so far
  ack_status,        \* ACK_RECEIVED, as the number of the request; Nobody: IDLE
  response_status,   \* RESPONSE_RECEIVED or IDLE
  gResponseBuffer,   \* the last response
  exe_status,        \* what the last callback set, and for which request
  chip,              \* per request: how far the chip is with it
  line,              \* frames on their way from the chip
  noise,             \* bytes at the front of rx_buffer that start no frame
  rx,                \* the receiver: "idle", "storing" or "stored" a response
  inbox,             \* callbacks sent to the handler thread
  cb,                \* the callback it is at
  clean,             \* history: nothing was overdue when the call began
  heard,             \* history: whose signals the call has acted on
  signalled          \* history: what the holder's request has been sent

callVars == <<lock, at, req, got, issued, clean, heard>>
statusVars == <<ack_status, response_status, gResponseBuffer, exe_status, signalled>>
chipVars == <<chip, line>>
rxVars == <<noise, rx>>
vars == <<callVars, statusVars, chipVars, rxVars, inbox, cb>>

Outcomes == {"ok", "no_ack", "fail"}
Frames == [kind : {"ack", "nak", "can", "response", "callback"},
           n : Numbers \cup {Nobody}, outcome : Outcomes]
Frame(kind, n, outcome) == [kind |-> kind, n |-> n, outcome |-> outcome]
NoFrame == Frame("nak", Nobody, "ok")
Response == [func : Kinds, of : Numbers \cup {Nobody}, outcome : Outcomes]
NoResponse == [func |-> "reset", of |-> Nobody, outcome |-> "ok"]
Exe == [status : {"IDLE", "SENDDATA_FAIL", "SENDDATA_SUCCESSFUL", "SET_DEFAULT_DONE"},
        of : Numbers \cup {Nobody}]
ExeIdle == [status |-> "IDLE", of |-> Nobody]

TypeOK ==
  /\ lock \in Threads \cup {NoThread}
  /\ at \in [Threads -> Stages]
  /\ req \in [Threads -> Numbers \cup {Nobody}]
  /\ got \in [Threads -> Response]
  /\ issued \in Seq(CallerKinds) /\ Len(issued) <= MaxCalls
  /\ ack_status \in Numbers \cup {Nobody}
  /\ response_status \in BOOLEAN
  /\ gResponseBuffer \in Response
  /\ exe_status \in Exe
  /\ chip \in [Numbers -> {"none", "sent", "acked", "answered", "over"}]
  /\ line \in Seq(Frames)
  /\ noise \in Nat
  /\ rx \in {"idle", "storing", "stored"}
  /\ inbox \in Seq(Frames)
  /\ cb \in Frames
  /\ clean \in [Threads -> BOOLEAN]
  /\ heard \in [Threads -> SUBSET (Numbers \cup {Nobody})]
  /\ signalled \in SUBSET {"ack", "response", "callback"}

Init ==
  /\ lock = NoThread
  /\ at = [t \in Threads |-> "idle"]
  /\ req = [t \in Threads |-> Nobody]
  /\ got = [t \in Threads |-> NoResponse]
  /\ issued = <<>>
  /\ ack_status = Nobody /\ response_status = FALSE /\ gResponseBuffer = NoResponse
  /\ exe_status = ExeIdle
  /\ chip = [n \in Numbers |-> "none"] /\ line = <<>>
  /\ noise = 0 /\ rx = "idle" /\ inbox = <<>> /\ cb = NoFrame
  /\ clean = [t \in Threads |-> FALSE] /\ heard = [t \in Threads |-> {}]
  /\ signalled = {}

KindOf(n) == IF n \in DOMAIN issued THEN issued[n] ELSE "abort"
Kind(t) == KindOf(req[t])
Go(t, stage) == at' = [at EXCEPT ![t] = stage]
Hear(t, n) == heard' = [heard EXCEPT ![t] = @ \cup {n}]

-----------------------------------------------------------------------------
(* A call, step by step. *)

NewRequest(t, n) ==
  /\ req' = [req EXCEPT ![t] = n]
  /\ Go(t, "lock")

Call(t, kind) ==
  /\ at[t] = "idle"
  /\ Len(issued) < MaxCalls
  /\ issued' = Append(issued, kind)
  /\ NewRequest(t, Len(issued) + 1)
  /\ UNCHANGED <<lock, got, clean, heard, statusVars, chipVars, rxVars, inbox, cb>>

\* Nothing that an earlier request caused is still to come.
Quiet ==
  /\ \A n \in Numbers : chip[n] \in {"none", "over"}
  /\ line = <<>> /\ rx = "idle" /\ inbox = <<>> /\ at[Handler] # "verdict"

\* Take the mutex and forget what was received before.
Begin(t) ==
  /\ at[t] = "lock"
  /\ lock = NoThread
  /\ lock' = t
  /\ exe_status' = IF Kind(t) \in WithCallback THEN ExeIdle ELSE exe_status
  /\ ack_status' = Nobody /\ response_status' = FALSE
  /\ clean' = [clean EXCEPT ![t] = Quiet]
  /\ Go(t, "write")
  /\ UNCHANGED <<req, got, issued, heard, gResponseBuffer, signalled, chipVars, rxVars,
                 inbox, cb>>

Send(t) == chip' = [chip EXCEPT ![req[t]] = "sent"]

\* Mutant of Write: the status words are reset after the request is sent.
WriteThenReset(t) ==
  /\ \/ at[t] = "write" /\ Send(t) /\ Go(t, "reset") /\ UNCHANGED <<ack_status, response_status>>
     \/ at[t] = "reset" /\ Go(t, "ack") /\ ack_status' = Nobody /\ response_status' = FALSE
        /\ UNCHANGED chip
  /\ UNCHANGED <<lock, req, got, issued, clean, heard, gResponseBuffer, exe_status,
                 signalled, line, rxVars, inbox, cb>>

\* A failed write ends a request with a response at once; Request() ignores
\* it and waits for an ACK all the same.
Write(t) ==
  /\ at[t] = "write"
  /\ \/ Send(t) /\ Go(t, "ack")
     \/ UNCHANGED chip /\ Go(t, IF Kind(t) \in WithResponse THEN "unlock" ELSE "ack")
  /\ UNCHANGED <<lock, req, got, issued, clean, heard, statusVars, line, rxVars, inbox, cb>>

SeeAck(t) ==
  /\ at[t] = "ack"
  /\ ack_status # Nobody
  /\ Hear(t, ack_status)
  /\ Go(t, CASE Kind(t) \in WithResponse -> "response"
             [] Kind(t) = "default"      -> "done"
             [] OTHER                    -> "unlock")
  /\ UNCHANGED <<lock, req, got, issued, clean, statusVars, chipVars, rxVars, inbox, cb>>

SeeResponse(t) ==
  /\ at[t] = "response"
  /\ response_status
  /\ Go(t, "copy")
  /\ UNCHANGED <<lock, req, got, issued, clean, heard, statusVars, chipVars, rxVars, inbox, cb>>

Arriving == [func |-> KindOf(Head(line).n), of |-> Head(line).n, outcome |-> Head(line).outcome]

\* memcpy from gResponseBuffer: while the receiver is writing there, each
\* field may be the old one or the new one.
Copy(t) ==
  /\ at[t] = "copy"
  /\ LET from == IF rx = "storing" THEN {gResponseBuffer, Arriving} ELSE {gResponseBuffer}
     IN \E f, o, r \in from :
          got' = [got EXCEPT ![t] = [func |-> f.func, of |-> o.of, outcome |-> r.outcome]]
  /\ Go(t, "copied")
  /\ UNCHANGED <<lock, req, issued, clean, heard, statusVars, chipVars, rxVars, inbox, cb>>

\* GetResponseBuffer resets the status after it has copied; a response to
\* another function is skipped.
Evaluate(t) ==
  /\ at[t] = "copied"
  /\ response_status' = FALSE
  /\ IF got[t].func # Kind(t)
     THEN Go(t, "response") /\ UNCHANGED heard
     ELSE /\ Hear(t, got[t].of)
          /\ Go(t, IF Kind(t) = "send" /\ got[t].outcome = "ok" THEN "done" ELSE "unlock")
  /\ UNCHANGED <<lock, req, got, issued, clean, ack_status, gResponseBuffer, exe_status,
                 signalled, chipVars, rxVars, inbox, cb>>

Expected(t) == IF Kind(t) = "default" THEN {"SET_DEFAULT_DONE"}
               ELSE {"SENDDATA_FAIL", "SENDDATA_SUCCESSFUL"}

SeeDone(t) ==
  /\ at[t] = "done"
  /\ exe_status.status \in Expected(t)
  /\ Hear(t, exe_status.of)
  /\ Go(t, "unlock")
  /\ UNCHANGED <<lock, req, got, issued, clean, statusVars, chipVars, rxVars, inbox, cb>>

\* Mutant of TimeOut: the wait for the callback has no limit.
TimeOutUnlessDone(t) ==
  /\ at[t] \in {"ack", "response"}
  /\ Go(t, "unlock")
  /\ UNCHANGED <<lock, req, got, issued, clean, heard, statusVars, chipVars, rxVars, inbox, cb>>

\* ACK_TIMER, RESPONSE_TIMER or REQUEST_TIMER runs out.
TimeOut(t) ==
  /\ at[t] \in {"ack", "response", "done"}
  /\ Go(t, IF at[t] = "ack" /\ Kind(t) = "default" THEN "abandon" ELSE "unlock")
  /\ UNCHANGED <<lock, req, got, issued, clean, heard, statusVars, chipVars, rxVars, inbox, cb>>

\* Leave the mutex.  ZW_SetDefault returns without resetting exe_status when
\* its request was not acknowledged.
Return(t) ==
  /\ at[t] \in {"abandon", "unlock"}
  /\ lock' = NoThread
  /\ exe_status' = IF at[t] = "unlock" /\ Kind(t) \in WithCallback THEN ExeIdle ELSE exe_status
  /\ req' = [req EXCEPT ![t] = Nobody] /\ got' = [got EXCEPT ![t] = NoResponse]
  /\ clean' = [clean EXCEPT ![t] = FALSE] /\ heard' = [heard EXCEPT ![t] = {}]
  /\ signalled' = {}
  /\ Go(t, "idle")
  /\ UNCHANGED <<issued, ack_status, response_status, gResponseBuffer, chipVars, rxVars,
                 inbox, cb>>

CallStep(t) ==
  \/ Begin(t) \/ Write(t) \/ SeeAck(t) \/ SeeResponse(t) \/ Copy(t) \/ Evaluate(t)
  \/ SeeDone(t) \/ TimeOut(t) \/ Return(t)

-----------------------------------------------------------------------------
(* The receiver: process_rx_buffer and ZWapi_Dispatch. *)

\* The request that the thread in the mutex is at has been sent this signal.
Signalled(signal, n) ==
  signalled' = IF lock # NoThread /\ req[lock] = n THEN signalled \cup {signal} ELSE signalled

\* After an ACK or a NAK one byte is dropped from the front of the buffer.
\* If that is a stray byte, the same ACK is found, and dispatched, again.
DropByte ==
  IF noise = 0 THEN line' = Tail(line) /\ UNCHANGED noise
               ELSE noise' = noise - 1 /\ UNCHANGED line

Arrived(kind) == rx = "idle" /\ line # <<>> /\ Head(line).kind = kind

ReceiveAck ==
  /\ Arrived("ack")
  /\ ack_status' = Head(line).n
  /\ Signalled("ack", Head(line).n)
  /\ DropByte
  /\ UNCHANGED <<callVars, response_status, gResponseBuffer, exe_status, chip, rx, inbox, cb>>

ReceiveNak ==
  /\ Arrived("nak")
  /\ DropByte
  /\ UNCHANGED <<callVars, statusVars, chip, rx, inbox, cb>>

\* A CAN is no start of a frame for process_rx_buffer: it stays in the buffer.
ReceiveCan ==
  /\ Arrived("can")
  /\ noise' = noise + 1
  /\ line' = Tail(line)
  /\ UNCHANGED <<callVars, statusVars, chip, rx, inbox, cb>>

\* A response is copied to gResponseBuffer ...
StoreResponse ==
  /\ Arrived("response")
  /\ rx' = "storing"
  /\ UNCHANGED <<callVars, statusVars, chipVars, noise, inbox, cb>>

ResponseStored ==
  /\ rx = "storing"
  /\ gResponseBuffer' = Arriving
  /\ rx' = "stored"
  /\ UNCHANGED <<callVars, ack_status, response_status, exe_status, signalled, chipVars,
                 noise, inbox, cb>>

\* ... before its arrival is announced.  A whole frame takes what is in front
\* of it in the buffer along.
ResponseReceived ==
  /\ rx = "stored"
  /\ response_status' = TRUE
  /\ Signalled("response", Head(line).n)
  /\ rx' = "idle" /\ noise' = 0
  /\ line' = Tail(line)
  /\ UNCHANGED <<callVars, ack_status, gResponseBuffer, exe_status, chip, inbox, cb>>

\* A frame of the chip's own is handed to the handler thread.
ReceiveCallback ==
  /\ Arrived("callback")
  /\ inbox' = Append(inbox, Head(line))
  /\ line' = Tail(line) /\ noise' = 0
  /\ UNCHANGED <<callVars, statusVars, chip, rx, cb>>

Receiver ==
  \/ ReceiveAck \/ ReceiveNak \/ ReceiveCan
  \/ StoreResponse \/ ResponseStored \/ ResponseReceived
  \/ ReceiveCallback

-----------------------------------------------------------------------------
(* The handler thread: FrameHandler. *)

\* SetDefaultHandler and CB_SendDataComplete, which begins by setting FAIL.
TakeCallback ==
  /\ at[Handler] = "idle"
  /\ inbox # <<>>
  /\ inbox' = Tail(inbox)
  /\ LET n == Head(inbox).n IN
       IF KindOf(n) = "default"
       THEN /\ exe_status' = [status |-> "SET_DEFAULT_DONE", of |-> n]
            /\ UNCHANGED <<at, cb>>
       ELSE /\ cb' = Head(inbox)
            /\ exe_status' = [status |-> "SENDDATA_FAIL", of |-> n]
            /\ Go(Handler, "verdict")
  /\ Signalled("callback", Head(inbox).n)
  /\ UNCHANGED <<lock, req, got, issued, clean, heard, ack_status, response_status,
                 gResponseBuffer, chipVars, rxVars>>

\* Mutant of Verdict: the abort does not take the mutex.
VerdictUnlocked ==
  /\ at[Handler] = "verdict"
  /\ IF cb.outcome = "no_ack"
     THEN req' = [req EXCEPT ![Handler] = MaxCalls + cb.n] /\ Go(Handler, "write")
     ELSE Go(Handler, "idle") /\ UNCHANGED req
  /\ exe_status' = IF cb.outcome = "ok"
                   THEN [status |-> "SENDDATA_SUCCESSFUL", of |-> cb.n] ELSE exe_status
  /\ cb' = NoFrame
  /\ UNCHANGED <<lock, got, issued, clean, heard, ack_status, response_status,
                 gResponseBuffer, signalled, chipVars, rxVars, inbox>>

\* An unanswered transmission is aborted (ZW_SendDataAbout), for which this
\* thread needs the mutex, too.
Verdict ==
  /\ at[Handler] = "verdict"
  /\ IF cb.outcome = "no_ack"
     THEN NewRequest(Handler, MaxCalls + cb.n)
     ELSE Go(Handler, "idle") /\ UNCHANGED req
  /\ exe_status' = IF cb.outcome = "ok"
                   THEN [status |-> "SENDDATA_SUCCESSFUL", of |-> cb.n] ELSE exe_status
  /\ cb' = NoFrame
  /\ UNCHANGED <<lock, got, issued, clean, heard, ack_status, response_status,
                 gResponseBuffer, signalled, chipVars, rxVars, inbox>>

-----------------------------------------------------------------------------
(* The chip and the serial line: external.  It may be late or silent. *)

ChipSends(n, stage, frame) ==
  /\ chip' = [chip EXCEPT ![n] = stage]
  /\ line' = Append(line, frame)
  /\ UNCHANGED <<callVars, statusVars, rxVars, inbox, cb>>

ChipAck(n) ==
  /\ chip[n] = "sent"
  /\ ChipSends(n, IF KindOf(n) \in {"reset", "abort"} THEN "over" ELSE "acked",
               Frame("ack", n, "ok"))

ChipRefuse(n) ==
  /\ chip[n] = "sent"
  /\ \E kind \in {"nak", "can"} : ChipSends(n, "over", Frame(kind, n, "ok"))

ChipRespond(n) ==
  /\ chip[n] = "acked"
  /\ KindOf(n) \in WithResponse
  /\ \/ ChipSends(n, IF KindOf(n) = "send" THEN "answered" ELSE "over",
                  Frame("response", n, "ok"))
     \/ KindOf(n) = "send" /\ ChipSends(n, "over", Frame("response", n, "fail"))

ChipDone(n) ==
  \/ /\ chip[n] = "acked" /\ KindOf(n) = "default"
     /\ ChipSends(n, "over", Frame("callback", n, "ok"))
  \/ /\ chip[n] = "answered"
     /\ \E outcome \in Outcomes : ChipSends(n, "over", Frame("callback", n, outcome))

ChipSilent(n) ==
  /\ chip[n] \in {"sent", "acked", "answered"}
  /\ chip' = [chip EXCEPT ![n] = "over"]
  /\ UNCHANGED <<callVars, statusVars, line, rxVars, inbox, cb>>

Chip(n) == ChipAck(n) \/ ChipRefuse(n) \/ ChipRespond(n) \/ ChipDone(n) \/ ChipSilent(n)

HandlerStep == TakeCallback \/ Verdict

Next ==
  \/ \E t \in Callers, kind \in CallerKinds : Call(t, kind)
  \/ \E t \in Threads : CallStep(t)
  \/ Receiver
  \/ HandlerStep
  \/ \E n \in Numbers : Chip(n)

Spec == Init /\ [][Next]_vars

\* The threads run and the timers run out; the chip need not do anything.
FairSpec ==
  /\ Spec
  /\ \A t \in Threads : WF_vars(CallStep(t))
  /\ WF_vars(Receiver) /\ WF_vars(HandlerStep)

-----------------------------------------------------------------------------
\* A call that begins when nothing is overdue acts on the ACK, the response
\* and the callback of its own request only, although no frame says whose it
\* is, the buffers and status words are shared, an ACK that follows a stray
\* byte is dispatched twice, and the handler thread sends aborts of its own.
OwnWhenClean == \A t \in Threads : clean[t] => heard[t] \subseteq {req[t]}

\* What the request of such a call was sent is not lost: the status word it
\* waits for stays set until it has looked, however quick the chip is.
SignalKept ==
  \A t \in Threads : clean[t] /\ lock = t =>
    /\ at[t] = "ack" /\ "ack" \in signalled => ack_status # Nobody
    /\ at[t] = "response" /\ "response" \in signalled => response_status
    /\ at[t] = "done" /\ "callback" \in signalled => exe_status.status \in Expected(t)

\* Every call returns, whatever the chip does, and also when the handler
\* thread, whose callback the caller waits for, itself waits for the mutex.
CallReturns == \A t \in Threads : at[t] = "lock" ~> at[t] = "idle"
=============================================================================
