-------------------------- MODULE SerialApiProofs --------------------------
(***************************************************************************)
(* Proofs about the driver's requests to the radio chip, for any number of *)
(* threads and calls: the types, that a call which begins when nothing is  *)
(* overdue acts on its own signals only, and that it misses none of them.  *)
(***************************************************************************)
EXTENDS SerialApi, SequenceTheorems, TLAPS

-----------------------------------------------------------------------------
(* The inductive invariant.                                                *)

\* A number that has been given to a request, or is that of an abort.
Known(n) == n \in DOMAIN issued \/ n \in MaxCalls + 1 .. 2 * MaxCalls
Sound ==
  {f \in Frames : Known(f.n) /\ (f.kind = "callback" => KindOf(f.n) \in WithCallback)}
Callbacks == {f \in Sound : f.kind = "callback"}

FramesInv ==
  /\ line \in Seq(Sound)
  /\ inbox \in Seq(Callbacks)
  /\ rx # "idle" => line # <<>> /\ Head(line).kind = "response"
  /\ at[Handler] = "verdict" => cb \in Sound /\ KindOf(cb.n) = "send"

ChipInv ==
  \A n \in Numbers :
    /\ chip[n] # "none" => Known(n)
    /\ chip[n] = "acked" => KindOf(n) \notin {"reset", "abort"}
    /\ chip[n] = "answered" => KindOf(n) = "send"

\* The mutex, and what a thread has outside it.
Inside == {"write", "ack", "response", "copy", "copied", "done", "abandon", "unlock"}
LockInv ==
  /\ \A t \in Threads :
       /\ at[t] \in Inside <=> lock = t
       /\ at[t] = "verdict" => t = Handler
       /\ at[t] \notin {"idle", "verdict"} => Known(req[t])
       /\ at[t] = "done" => Kind(t) \in WithCallback
       /\ lock # t => heard[t] = {} /\ ~ clean[t]
  /\ lock = NoThread => signalled = {}

\* What a call that began when nothing was overdue can find: its own only.
OwnSignals(t) ==
  /\ \A n \in Numbers \ {req[t]} : chip[n] \in {"none", "over"}
  /\ line \in Seq({f \in Frames : f.n = req[t]})
  /\ inbox \in Seq({f \in Frames : f.n = req[t]})
  /\ at[Handler] = "verdict" => cb.n = req[t]
  /\ ack_status \in {Nobody, req[t]}
  /\ exe_status.status = "IDLE" \/ exe_status.of = req[t] \/ Kind(t) \notin WithCallback
  /\ heard[t] \subseteq {req[t]}

IsOwn(r, t) == r.func = Kind(t) /\ r.of = req[t]
OwnResponse(t) ==
  /\ response_status \/ rx = "stored" \/ at[t] = "copy" => IsOwn(gResponseBuffer, t)
  /\ at[t] = "copied" => IsOwn(got[t], t)

\* Nothing has come before the request is written, and nothing that came is lost.
NothingYet(t) ==
  at[t] = "write" =>
    /\ chip[req[t]] \in {"none", "over"} /\ line = <<>> /\ inbox = <<>> /\ rx = "idle"
    /\ at[Handler] # "verdict" /\ signalled = {}

Kept(t) ==
  /\ "ack" \in signalled => ack_status # Nobody
  /\ at[t] \in {"ack", "response"} /\ "response" \in signalled => response_status
  /\ "callback" \in signalled => exe_status.status \in Expected(t)

CleanCall(t) == OwnSignals(t) /\ OwnResponse(t) /\ NothingYet(t) /\ Kept(t)
CleanInv ==
  \A t \in Threads : clean[t] => CleanCall(t)

Base == TypeOK /\ FramesInv /\ ChipInv /\ LockInv
Inv == Base /\ CleanInv

-----------------------------------------------------------------------------
(* Sequences of frames, and the number and kind of a request.               *)

LEMMA SeqAppend ==
  ASSUME NEW S, NEW s \in Seq(S), NEW e \in S
  PROVE  /\ Append(s, e) \in Seq(S) /\ Append(s, e) # << >>
         /\ (s # << >> => Head(Append(s, e)) = Head(s))
  BY AppendProperties, EmptySeq, LenProperties

LEMMA SeqTail ==
  ASSUME NEW S, NEW s \in Seq(S), s # << >>
  PROVE  Tail(s) \in Seq(S) /\ Head(s) \in S
  BY HeadTailProperties

LEMMA SameIssued ==
  ASSUME UNCHANGED issued
  PROVE  /\ \A n : Known(n)' = Known(n) /\ KindOf(n)' = KindOf(n)
         /\ Sound' = Sound /\ Callbacks' = Callbacks
  BY DEF Known, KindOf, Sound, Callbacks

LEMMA SameKinds ==
  ASSUME UNCHANGED <<issued, req>>
  PROVE  \A t : Kind(t)' = Kind(t)
  BY DEF Kind, KindOf

\* The kinds of frames and requests, and the numbers, as far as the proofs need them.
LEMMA Numbered ==
  ASSUME TypeOK, NEW n, Known(n)
  PROVE  /\ n \in Numbers /\ n # Nobody /\ KindOf(n) \in Kinds
         /\ (KindOf(n) # "abort" => MaxCalls + n \in Numbers /\ Known(MaxCalls + n))
<1>1. Len(issued) \in Nat /\ DOMAIN issued = 1 .. Len(issued) /\ Len(issued) <= MaxCalls
      /\ MaxCalls \in Nat
  BY BoundsAssumption, LenProperties DEF TypeOK
<1>2. \A i \in DOMAIN issued : issued[i] \in CallerKinds
  BY ElementOfSeq, <1>1 DEF TypeOK
<1>3. KindOf(n) # "abort" => n \in DOMAIN issued
  BY DEF KindOf
<1>4. KindOf(n) \in Kinds
  BY <1>2 DEF KindOf, Kinds
<1> QED
  BY <1>1, <1>3, <1>4 DEF Known, Numbers, Nobody

-----------------------------------------------------------------------------
(* The types, the frames, the chip and the mutex: one lemma for each action.  *)

LEMMA BaseInit == Init => Base
<1> SUFFICES ASSUME Init PROVE Base
  OBVIOUS
<1>1. \A S : << >> \in Seq(S) /\ Len(<< >>) = 0
  BY EmptySeq
<1>2. NoFrame \in Frames /\ NoResponse \in Response /\ ExeIdle \in Exe
  BY DEF NoFrame, Frame, Frames, NoResponse, Response, Kinds, CallerKinds, ExeIdle, Exe,
     Outcomes
<1>3. TypeOK
  <2>1. 0 <= MaxCalls
    BY BoundsAssumption
  <2>2. \A t \in Threads : {} \in SUBSET (Numbers \cup {Nobody})
    OBVIOUS
  <2>3. issued \in Seq(CallerKinds) /\ Len(issued) <= MaxCalls /\ line \in Seq(Frames)
        /\ inbox \in Seq(Frames) /\ noise \in Nat
    BY <1>1, <2>1 DEF Init
  <2> QED
    BY <1>2, <2>2, <2>3 DEF Init, TypeOK, Stages
<1>4. FramesInv /\ ChipInv /\ LockInv
  BY <1>1, ThreadsAssumption DEF Init, FramesInv, ChipInv, LockInv, Threads, Inside
<1> QED
  BY <1>3, <1>4 DEF Base

LEMMA StaysKnown ==
  ASSUME MaxCalls \in Nat, NEW l \in Nat, l <= MaxCalls, l + 1 <= MaxCalls,
         DOMAIN issued = 1 .. l, DOMAIN issued' = 1 .. l + 1,
         \A i \in DOMAIN issued : issued'[i] = issued[i]
  PROVE  \A m : Known(m) => Known(m)' /\ KindOf(m)' = KindOf(m)
<1>1. \A m \in DOMAIN issued : m \in DOMAIN issued' /\ issued'[m] = issued[m]
  OBVIOUS
<1>2. \A m \in MaxCalls + 1 .. 2 * MaxCalls :
        m \notin DOMAIN issued /\ m \notin DOMAIN issued'
  OBVIOUS
<1> QED
  BY <1>1, <1>2 DEF Known, KindOf

LEMMA CallBase ==
  ASSUME Base, NEW t \in Callers, NEW kind \in CallerKinds, Call(t, kind)
  PROVE  Base' /\ KindOf(req[t])' = kind
         /\ \A n : Known(n) => Known(n)' /\ KindOf(n)' = KindOf(n)
<1> USE DEF Base, Call, NewRequest, Go, callVars, statusVars, chipVars, rxVars
<1> DEFINE n == Len(issued) + 1
<1>1. Len(issued) \in Nat /\ DOMAIN issued = 1 .. Len(issued) /\ MaxCalls \in Nat
      /\ issued \in Seq(CallerKinds)
  BY BoundsAssumption, LenProperties DEF TypeOK
<1>2. issued' \in Seq(CallerKinds) /\ Len(issued') = Len(issued) + 1
      /\ (\A i \in DOMAIN issued : issued'[i] = issued[i]) /\ issued'[n] = kind
  BY <1>1, AppendProperties
<1>3. DOMAIN issued' = 1 .. n
  BY <1>2, LenProperties
<1>4. n \in Numbers /\ n \in DOMAIN issued'
  BY <1>1, <1>3 DEF Numbers
<1>5. \A m : Known(m) => Known(m)' /\ KindOf(m)' = KindOf(m)
  <2>1. Len(issued) <= MaxCalls /\ Len(issued) + 1 <= MaxCalls
       /\ DOMAIN issued' = 1 .. Len(issued) + 1
    BY <1>1, <1>3
  <2> HIDE DEF Base, Call
  <2> QED
    BY <2>1, <1>1, <1>2, StaysKnown
<1>6. TypeOK'
  <2>1. t \in Threads
    BY DEF Threads
  <2> QED
    BY <1>1, <1>2, <1>4, <2>1 DEF TypeOK, Stages
<1>7. FramesInv'
  <2>1. Sound \subseteq Sound' /\ Callbacks \subseteq Callbacks'
    BY <1>5 DEF Sound, Callbacks
  <2>2. line' \in Seq(Sound') /\ inbox' \in Seq(Callbacks')
    BY <2>1, SeqMonotonic DEF FramesInv
  <2>3. at'[Handler] = "verdict" => at[Handler] = "verdict"
    BY DEF TypeOK, Threads
  <2> QED
    BY <2>1, <2>2, <2>3, <1>5 DEF FramesInv, Sound
<1>8. ChipInv'
  BY <1>5 DEF ChipInv
<1>9. LockInv'
  BY <1>4, <1>5, ThreadsAssumption DEF LockInv, Kind, TypeOK, Threads, Inside, Known
<1> QED
  BY <1>2, <1>4, <1>5, <1>6, <1>7, <1>8, <1>9 DEF KindOf, Threads, TypeOK

\* A step of a call moves its thread and leaves the chip and the frames alone.
LEMMA FramesStay ==
  ASSUME Base, at'[Handler] = "verdict" => at[Handler] = "verdict",
         UNCHANGED <<issued, chip, line, rx, inbox, cb>>
  PROVE  FramesInv' /\ ChipInv'
<1>2. FramesInv'
  BY SameIssued DEF Base, FramesInv
<1>3. ChipInv'
  BY SameIssued DEF Base, ChipInv
<1> QED
  BY <1>2, <1>3

LEMMA BeginBase ==
  ASSUME Base, NEW t \in Threads, Begin(t)
  PROVE  Base'
<1> USE DEF Begin, Go, Hear, callVars, statusVars, chipVars, rxVars
<1>1. TypeOK'
  <2>1. exe_status' \in Exe
    BY DEF Base, TypeOK, Exe, ExeIdle
  <2>2. clean' \in [Threads -> BOOLEAN]
    <3>1. Quiet \in BOOLEAN
      BY DEF Quiet
    <3> QED
      BY <3>1 DEF Base, TypeOK
  <2>3. response_status' \in BOOLEAN /\ at' \in [Threads -> Stages]
    BY DEF Base, TypeOK, Stages
  <2> QED
    BY <2>1, <2>2, <2>3 DEF Base, TypeOK, Stages
<1>2. FramesInv' /\ ChipInv'
  <2>1. at'[Handler] = "verdict" => at[Handler] = "verdict"
    BY DEF Base, TypeOK, Threads
  <2> QED
    BY <2>1, FramesStay
<1>3. LockInv'
  BY SameIssued, ThreadsAssumption
     DEF Base, LockInv, Kind, WithCallback, TypeOK, Threads, Inside
<1> QED
  BY <1>1, <1>2, <1>3 DEF Base

LEMMA SeeAckBase ==
  ASSUME Base, NEW t \in Threads, SeeAck(t)
  PROVE  Base'
<1> USE DEF SeeAck, Go, Hear, callVars, statusVars, chipVars, rxVars
<1>1. TypeOK'
  BY DEF Base, TypeOK, Exe, Stages
<1>2. FramesInv' /\ ChipInv'
  <2>1. at'[Handler] = "verdict" => at[Handler] = "verdict"
    BY DEF Base, TypeOK, Threads
  <2> QED
    BY <2>1, FramesStay
<1>3. LockInv'
  BY SameIssued, ThreadsAssumption
     DEF Base, LockInv, Kind, WithCallback, TypeOK, Threads, Inside
<1> QED
  BY <1>1, <1>2, <1>3 DEF Base

LEMMA SeeResponseBase ==
  ASSUME Base, NEW t \in Threads, SeeResponse(t)
  PROVE  Base'
<1> USE DEF SeeResponse, Go, Hear, callVars, statusVars, chipVars, rxVars
<1>1. TypeOK'
  BY DEF Base, TypeOK, Exe, Stages
<1>2. FramesInv' /\ ChipInv'
  <2>1. at'[Handler] = "verdict" => at[Handler] = "verdict"
    BY DEF Base, TypeOK, Threads
  <2> QED
    BY <2>1, FramesStay
<1>3. LockInv'
  BY SameIssued, ThreadsAssumption
     DEF Base, LockInv, Kind, WithCallback, TypeOK, Threads, Inside
<1> QED
  BY <1>1, <1>2, <1>3 DEF Base

LEMMA SeeDoneBase ==
  ASSUME Base, NEW t \in Threads, SeeDone(t)
  PROVE  Base'
<1> USE DEF SeeDone, Go, Hear, callVars, statusVars, chipVars, rxVars
<1>1. TypeOK'
  BY DEF Base, TypeOK, Exe, Stages
<1>2. FramesInv' /\ ChipInv'
  <2>1. at'[Handler] = "verdict" => at[Handler] = "verdict"
    BY DEF Base, TypeOK, Threads
  <2> QED
    BY <2>1, FramesStay
<1>3. LockInv'
  BY SameIssued, ThreadsAssumption
     DEF Base, LockInv, Kind, WithCallback, TypeOK, Threads, Inside
<1> QED
  BY <1>1, <1>2, <1>3 DEF Base

LEMMA TimeOutBase ==
  ASSUME Base, NEW t \in Threads, TimeOut(t)
  PROVE  Base'
<1> USE DEF TimeOut, Go, Hear, callVars, statusVars, chipVars, rxVars
<1>1. TypeOK'
  BY DEF Base, TypeOK, Exe, Stages
<1>2. FramesInv' /\ ChipInv'
  <2>1. at'[Handler] = "verdict" => at[Handler] = "verdict"
    BY DEF Base, TypeOK, Threads
  <2> QED
    BY <2>1, FramesStay
<1>3. LockInv'
  BY SameIssued, ThreadsAssumption
     DEF Base, LockInv, Kind, WithCallback, TypeOK, Threads, Inside
<1> QED
  BY <1>1, <1>2, <1>3 DEF Base

LEMMA EvaluateBase ==
  ASSUME Base, NEW t \in Threads, Evaluate(t)
  PROVE  Base'
<1> USE DEF Evaluate, Go, Hear, callVars, statusVars, chipVars, rxVars
<1>1. TypeOK'
  <2>1. response_status' \in BOOLEAN
    OBVIOUS
  <2>2. got[t] \in Response
    BY DEF Base, TypeOK
  <2>3. at' \in [Threads -> Stages]
    BY DEF Base, TypeOK, Stages
  <2>4. heard' \in [Threads -> SUBSET (Numbers \cup {Nobody})]
    <3>1. heard[t] \cup {got[t].of} \in SUBSET (Numbers \cup {Nobody})
      BY <2>2 DEF Base, TypeOK, Response
    <3> QED
      BY <3>1 DEF Base, TypeOK
  <2> QED
    BY <2>1, <2>3, <2>4 DEF Base, TypeOK, Stages
<1>2. FramesInv' /\ ChipInv'
  <2>1. at'[Handler] = "verdict" => at[Handler] = "verdict"
    BY DEF Base, TypeOK, Threads
  <2> QED
    BY <2>1, FramesStay
<1>3. LockInv'
  BY SameIssued, ThreadsAssumption
     DEF Base, LockInv, Kind, WithCallback, TypeOK, Threads, Inside
<1> QED
  BY <1>1, <1>2, <1>3 DEF Base

LEMMA CopyBase ==
  ASSUME Base, NEW t \in Threads, Copy(t)
  PROVE  Base'
<1> USE DEF Copy, Go, Hear, callVars, statusVars, chipVars, rxVars
<1>1. TypeOK'
  <2>1. rx = "storing" => Arriving \in Response
    <3>1. rx = "storing" => Head(line) \in Sound
      BY SeqTail DEF Base, FramesInv
    <3> QED
      BY <3>1, Numbered DEF Base, Arriving, Response, Sound, Frames
  <2>2. gResponseBuffer \in Response
    BY DEF Base, TypeOK
  <2>3. PICK f \in Response, o \in Response, r \in Response :
           got' = [got EXCEPT ![t] = [func |-> f.func, of |-> o.of, outcome |-> r.outcome]]
    BY <2>1, <2>2
  <2>4. [func |-> f.func, of |-> o.of, outcome |-> r.outcome] \in Response
    BY DEF Response
  <2>5. got' \in [Threads -> Response] /\ at' \in [Threads -> Stages]
    BY <2>3, <2>4 DEF Base, TypeOK, Stages
  <2> QED
    BY <2>5 DEF Base, TypeOK, Stages
<1>2. FramesInv' /\ ChipInv'
  <2>1. at'[Handler] = "verdict" => at[Handler] = "verdict"
    BY DEF Base, TypeOK, Threads
  <2> QED
    BY <2>1, FramesStay
<1>3. LockInv'
  BY SameIssued, ThreadsAssumption
     DEF Base, LockInv, Kind, WithCallback, TypeOK, Threads, Inside
<1> QED
  BY <1>1, <1>2, <1>3 DEF Base

LEMMA ReturnBase ==
  ASSUME Base, NEW t \in Threads, Return(t)
  PROVE  Base'
<1> USE DEF Return, Go, Hear, callVars, statusVars, chipVars, rxVars
<1>1. TypeOK'
  <2>1. exe_status' \in Exe
    BY DEF Base, TypeOK, Exe, ExeIdle
  <2>2. NoResponse \in Response
    BY DEF NoResponse, Response, Kinds, CallerKinds, Outcomes
  <2>3. got' \in [Threads -> Response] /\ clean' \in [Threads -> BOOLEAN]
        /\ at' \in [Threads -> Stages]
    BY <2>2 DEF Base, TypeOK, Stages
  <2> QED
    BY <2>1, <2>3 DEF Base, TypeOK, Stages
<1>2. FramesInv' /\ ChipInv'
  <2>1. at'[Handler] = "verdict" => at[Handler] = "verdict"
    BY DEF Base, TypeOK, Threads
  <2> QED
    BY <2>1, FramesStay
<1>3. LockInv'
  BY SameIssued, ThreadsAssumption
     DEF Base, LockInv, Kind, WithCallback, TypeOK, Threads, Inside
<1> QED
  BY <1>1, <1>2, <1>3 DEF Base

LEMMA WriteBase ==
  ASSUME Base, NEW t \in Threads, Write(t)
  PROVE  Base'
<1> USE DEF Write, Go, Send, callVars, statusVars, chipVars, rxVars
<1>1. TypeOK'
  BY DEF Base, TypeOK, Stages
<1>2. FramesInv'
  <2>1. at'[Handler] = "verdict" => at[Handler] = "verdict"
    BY DEF Base, TypeOK, Threads
  <2> QED
    BY <2>1, SameIssued DEF Base, FramesInv
<1>3. ChipInv'
  <2>1. Known(req[t])
    BY DEF Base, LockInv
  <2> QED
    BY <2>1, SameIssued DEF Base, ChipInv, TypeOK
<1>4. LockInv'
  BY SameIssued, ThreadsAssumption
     DEF Base, LockInv, Kind, WithCallback, TypeOK, Threads, Inside
<1> QED
  BY <1>1, <1>2, <1>3, <1>4 DEF Base

\* The receiver changes what a call looks at, and no call.
LEMMA FirstFrame ==
  ASSUME Base, line # << >>
  PROVE  /\ Head(line) \in Sound /\ Head(line).n \in Numbers /\ Head(line).n # Nobody
         /\ Tail(line) \in Seq(Sound) /\ Tail(line) \in Seq(Frames)
         /\ Arriving \in Response
<1>1. Head(line) \in Sound /\ Tail(line) \in Seq(Sound)
  BY SeqTail DEF Base, FramesInv
<1>2. Tail(line) \in Seq(Frames)
  BY SeqTail DEF Base, TypeOK
<1>3. Known(Head(line).n)
  BY <1>1 DEF Sound
<1>4. Head(line).n \in Numbers /\ Head(line).n # Nobody /\ KindOf(Head(line).n) \in Kinds
  BY <1>3, Numbered DEF Base
<1> QED
  BY <1>1, <1>2, <1>4 DEF Arriving, Response, Sound, Frames

LEMMA ReceiverBase ==
  ASSUME Base, Receiver
  PROVE  Base'
<1> USE DEF Receiver, ReceiveAck, ReceiveNak, ReceiveCan, StoreResponse, ResponseStored,
        ResponseReceived, ReceiveCallback, Arrived, DropByte, Signalled, callVars,
        statusVars, chipVars, rxVars
<1>1. line # << >>
  BY DEF Base, FramesInv
<1>2. /\ Head(line) \in Sound /\ Head(line).n \in Numbers
      /\ Tail(line) \in Seq(Sound) /\ Tail(line) \in Seq(Frames)
      /\ Arriving \in Response
  BY <1>1, FirstFrame
<1>3. /\ Sound' = Sound /\ Callbacks' = Callbacks /\ UNCHANGED <<issued, at>>
  BY SameIssued
<1>4. Head(line).kind = "callback" =>
        /\ Append(inbox, Head(line)) \in Seq(Callbacks)
        /\ Append(inbox, Head(line)) \in Seq(Frames)
  <2> SUFFICES ASSUME Head(line).kind = "callback"
               PROVE  /\ Append(inbox, Head(line)) \in Seq(Callbacks)
                      /\ Append(inbox, Head(line)) \in Seq(Frames)
    OBVIOUS
  <2>1. Head(line) \in Callbacks /\ Head(line) \in Frames
    BY <1>2 DEF Callbacks, Sound
  <2>2. inbox \in Seq(Callbacks) /\ inbox \in Seq(Frames)
    BY DEF Base, FramesInv, TypeOK
  <2> QED
    BY <2>1, <2>2, SeqAppend
<1>5. TypeOK'
  <2>1. noise' \in Nat
    BY DEF Base, TypeOK
  <2>2. signalled' \in SUBSET {"ack", "response", "callback"}
        /\ response_status' \in BOOLEAN
        /\ rx' \in {"idle", "storing", "stored"}
    BY DEF Base, TypeOK
  <2>3. ack_status' \in Numbers \cup {Nobody} /\ gResponseBuffer' \in Response
        /\ line' \in Seq(Frames) /\ inbox' \in Seq(Frames)
    BY <1>2, <1>4 DEF Base, TypeOK
  <2>4. UNCHANGED <<lock, at, req, got, issued, exe_status, chip, cb, clean, heard>>
    OBVIOUS
  <2> QED
    BY <2>1, <2>2, <2>3, <2>4 DEF Base, TypeOK
<1>6. FramesInv'
  BY <1>2, <1>3, <1>4, SameIssued DEF Base, FramesInv
<1>7. ChipInv'
  BY SameIssued DEF Base, ChipInv
<1>8. LockInv'
  BY SameIssued, SameKinds DEF Base, LockInv, TypeOK
<1> QED
  BY <1>5, <1>6, <1>7, <1>8 DEF Base

\* The callback thread: a callback of a transmission whose abort it may have to send.
LEMMA FirstCallback ==
  ASSUME Base, inbox # << >>
  PROVE  /\ Head(inbox) \in Sound /\ Head(inbox).n \in Numbers
         /\ Tail(inbox) \in Seq(Callbacks) /\ Tail(inbox) \in Seq(Frames)
         /\ KindOf(Head(inbox).n) \in WithCallback
<1>1. Head(inbox) \in Callbacks /\ Tail(inbox) \in Seq(Callbacks)
  BY SeqTail DEF Base, FramesInv
<1>2. Tail(inbox) \in Seq(Frames)
  BY SeqTail DEF Base, TypeOK
<1>3. Known(Head(inbox).n)
  BY <1>1 DEF Sound, Callbacks
<1>4. Head(inbox).n \in Numbers
  BY <1>3, Numbered DEF Base
<1> QED
  BY <1>1, <1>2, <1>4 DEF Sound, Callbacks

LEMMA TakeCallbackBase ==
  ASSUME Base, TakeCallback
  PROVE  Base'
<1> USE DEF TakeCallback, Signalled, Go, chipVars, rxVars
<1>1. /\ Head(inbox) \in Sound /\ Head(inbox).n \in Numbers
      /\ Tail(inbox) \in Seq(Callbacks) /\ Tail(inbox) \in Seq(Frames)
      /\ KindOf(Head(inbox).n) \in WithCallback
  BY FirstCallback
<1>2. /\ Sound' = Sound /\ Callbacks' = Callbacks
  BY SameIssued
<1>3. Handler \in Threads
  BY DEF Threads
<1>4. TypeOK'
  <2>1. exe_status' \in Exe
    BY <1>1 DEF Exe
  <2>2. at' \in [Threads -> Stages] /\ cb' \in Frames
    BY <1>1 DEF Base, TypeOK, Stages, Sound
  <2> QED
    BY <1>1, <2>1, <2>2 DEF Base, TypeOK
<1>5. FramesInv'
  BY <1>1, <1>2, <1>3, SameIssued DEF Base, FramesInv, TypeOK, WithCallback
<1>6. ChipInv'
  BY SameIssued DEF Base, ChipInv
<1>7. LockInv'
  BY <1>3, SameIssued, ThreadsAssumption DEF Base, LockInv, Kind, TypeOK, Inside
<1> QED
  BY <1>4, <1>5, <1>6, <1>7 DEF Base

LEMMA VerdictBase ==
  ASSUME Base, Verdict
  PROVE  Base'
<1> USE DEF Verdict, NewRequest, Go, chipVars, rxVars
<1>1. cb \in Sound /\ KindOf(cb.n) = "send"
  BY DEF Base, FramesInv
<1>2. cb.n \in Numbers /\ MaxCalls + cb.n \in Numbers /\ Known(MaxCalls + cb.n)
  BY <1>1, Numbered DEF Base, Sound
<1>3. Handler \in Threads
  BY DEF Threads
<1>4. TypeOK'
  <2>1. exe_status' \in Exe
    BY <1>2 DEF Base, TypeOK, Exe
  <2>2. NoFrame \in Frames
    BY DEF NoFrame, Frame, Frames, Outcomes
  <2>3. at' \in [Threads -> Stages]
    BY DEF Base, TypeOK, Stages
  <2> QED
    BY <1>2, <2>1, <2>2, <2>3 DEF Base, TypeOK
<1>5. FramesInv'
  <2>1. at'[Handler] # "verdict"
    BY <1>3 DEF Base, TypeOK
  <2> QED
    BY <2>1, SameIssued DEF Base, FramesInv
<1>6. ChipInv'
  BY SameIssued DEF Base, ChipInv
<1>7. LockInv'
  BY <1>2, <1>3, SameIssued, ThreadsAssumption DEF Base, LockInv, Kind, TypeOK, Inside
<1> QED
  BY <1>4, <1>5, <1>6, <1>7 DEF Base

\* The chip.
LEMMA ChipBase ==
  ASSUME Base, NEW n \in Numbers, Chip(n)
  PROVE  Base'
<1> USE DEF Chip, ChipAck, ChipRefuse, ChipRespond, ChipDone, ChipSilent, ChipSends, Frame,
        callVars, statusVars, rxVars
<1>1. chip[n] # "none" /\ Known(n)
  BY DEF Base, ChipInv
<1>2. PICK stage \in {"acked", "answered", "over"} : chip' = [chip EXCEPT ![n] = stage]
  BY DEF WithResponse
<1>3. line' = line \/ \E f \in Sound : line' = Append(line, f)
  <2>1. \A kind \in {"ack", "nak", "can", "response", "callback"}, outcome \in Outcomes :
          /\ [kind |-> kind, n |-> n, outcome |-> outcome] \in Frames
          /\ kind # "callback" \/ KindOf(n) \in WithCallback =>
               [kind |-> kind, n |-> n, outcome |-> outcome] \in Sound
    BY <1>1 DEF Frames, Sound
  <2>2. "ok" \in Outcomes /\ "fail" \in Outcomes
    BY DEF Outcomes
  <2>3. chip[n] = "answered" => KindOf(n) = "send"
    BY DEF Base, ChipInv
  <2> QED
    BY <2>1, <2>2, <2>3 DEF WithCallback
<1>4. line' \in Seq(Sound) /\ (line # << >> => line' # << >> /\ Head(line') = Head(line))
  <2>1. line \in Seq(Sound)
    BY DEF Base, FramesInv
  <2>2. CASE line' = line
    BY <2>1, <2>2
  <2>3. ASSUME NEW f \in Sound, line' = Append(line, f)
        PROVE  line' \in Seq(Sound)
               /\ (line # << >> => line' # << >> /\ Head(line') = Head(line))
    BY <2>1, <2>3, SeqAppend
  <2> QED
    BY <1>3, <2>2, <2>3
<1>5. line' \in Seq(Frames)
  BY <1>4, SeqMonotonic DEF Sound
<1>6. TypeOK'
  BY <1>2, <1>5 DEF Base, TypeOK
<1>7. FramesInv'
  BY <1>4, SameIssued DEF Base, FramesInv
<1>8. ChipInv'
  BY <1>1, SameIssued DEF Base, ChipInv, TypeOK
<1>9. LockInv'
  <2>1. UNCHANGED <<issued, lock, at, req, clean, heard, signalled>>
    OBVIOUS
  <2> HIDE DEF Chip
  <2> QED
    BY <2>1, SameIssued, SameKinds DEF Base, LockInv, TypeOK
<1> QED
  BY <1>6, <1>7, <1>8, <1>9 DEF Base

-----------------------------------------------------------------------------
(* A call that began when nothing was overdue.                              *)

LEMMA CleanHoldsLock ==
  ASSUME Base, NEW u \in Threads, clean[u]
  PROVE  lock = u /\ at[u] \in Inside /\ at[u] # "lock"
         /\ Known(req[u]) /\ req[u] \in Numbers
<1>1. lock = u /\ at[u] \in Inside /\ Known(req[u])
  BY DEF Base, LockInv, Inside
<1> QED
  BY <1>1, Numbered DEF Base, Inside

LEMMA CallClean ==
  ASSUME Base, CleanInv, NEW t \in Callers, NEW kind \in CallerKinds, Call(t, kind)
  PROVE  CleanInv'
<1> USE DEF Call, NewRequest, Go, statusVars, chipVars, rxVars
<1> SUFFICES ASSUME NEW u \in Threads, clean'[u] PROVE CleanCall(u)'
  BY DEF CleanInv
<1>1. clean[u] /\ CleanCall(u)
  BY DEF CleanInv
<1>2. at[u] \in Inside /\ Known(req[u])
  BY <1>1, CleanHoldsLock
<1>3. u # t /\ Handler # t
  BY <1>2, ThreadsAssumption DEF Inside
<1>4. at'[u] = at[u] /\ req'[u] = req[u] /\ at'[Handler] = at[Handler]
  BY <1>3, ThreadsAssumption DEF Base, TypeOK, Threads
<1>5. Kind(u)' = Kind(u)
  BY <1>2, <1>4, CallBase DEF Kind, KindOf
<1> QED
  BY <1>1, <1>4, <1>5 DEF CleanCall, OwnSignals, OwnResponse, IsOwn, NothingYet, Kept,
     Expected

LEMMA BeginClean ==
  ASSUME Base, CleanInv, NEW t \in Threads, Begin(t)
  PROVE  CleanInv'
<1> USE DEF Begin, Go, chipVars, rxVars
<1> SUFFICES ASSUME NEW u \in Threads, clean'[u] PROVE CleanCall(u)'
  BY DEF CleanInv
<1>1. u = t /\ Quiet
  BY ThreadsAssumption DEF Base, TypeOK, LockInv, Threads
<1>2. signalled = {} /\ heard[t] = {} /\ at'[t] = "write" /\ req[t] \in Numbers
  <2>1. Known(req[t])
    BY DEF Base, LockInv
  <2> QED
    BY <2>1, Numbered, ThreadsAssumption DEF Base, LockInv, Kind, TypeOK, Threads
<1>3. Kind(t)' = Kind(t) /\ at'[Handler] # "verdict"
  BY <1>1, SameIssued, ThreadsAssumption DEF Kind, Quiet, Base, TypeOK, Threads
<1>4. line' = << >> /\ inbox' = << >> /\ << >> \in Seq({f \in Frames : f.n = req[t]})
  BY <1>1, EmptySeq DEF Quiet
<1>5. OwnSignals(t)'
  BY <1>1, <1>2, <1>3, <1>4 DEF OwnSignals, Quiet, ExeIdle
<1>6. OwnResponse(t)' /\ NothingYet(t)' /\ Kept(t)'
  BY <1>1, <1>2, <1>3, <1>4 DEF OwnResponse, NothingYet, Kept, Quiet
<1> QED
  BY <1>1, <1>5, <1>6 DEF CleanCall

\* The other steps of a call are those of the thread in the mutex.
LEMMA WriteClean ==
  ASSUME Base, CleanInv, NEW t \in Threads, Write(t)
  PROVE  CleanInv'
<1> USE DEF Write, Go, Send, statusVars, rxVars
<1> SUFFICES ASSUME NEW u \in Threads, clean'[u] PROVE CleanCall(u)'
  BY DEF CleanInv
<1>1. u = t /\ CleanCall(t) /\ clean[t]
  BY CleanHoldsLock DEF CleanInv, Base, LockInv, Inside
<1>2. Kind(t)' = Kind(t) /\ at'[t] # "write" /\ at'[t] \notin {"copy", "copied"}
      /\ (at'[Handler] = "verdict" => at[Handler] = "verdict")
  BY SameIssued DEF Kind, Base, TypeOK, Threads
<1>3. OwnSignals(t)'
  BY <1>1, <1>2 DEF CleanCall, OwnSignals, Base, TypeOK
<1> QED
  BY <1>1, <1>2, <1>3 DEF CleanCall, OwnResponse, NothingYet, Kept, IsOwn

LEMMA SeeAckClean ==
  ASSUME Base, CleanInv, NEW t \in Threads, SeeAck(t)
  PROVE  CleanInv'
<1> USE DEF SeeAck, Go, Hear, statusVars, chipVars, rxVars
<1> SUFFICES ASSUME NEW u \in Threads, clean'[u] PROVE CleanCall(u)'
  BY DEF CleanInv
<1>1. u = t /\ CleanCall(t) /\ clean[t]
  BY CleanHoldsLock DEF CleanInv, Base, LockInv, Inside
<1>2. Kind(t)' = Kind(t) /\ at'[t] # "write"
      /\ (at'[Handler] = "verdict" => at[Handler] = "verdict")
  BY SameIssued DEF Kind, Base, TypeOK, Threads
<1>3. OwnSignals(t)'
  BY <1>1, <1>2 DEF CleanCall, OwnSignals, OwnResponse, IsOwn, Base, TypeOK
<1>4. OwnResponse(t)'
  BY <1>1, <1>2 DEF CleanCall, OwnResponse, IsOwn, Base, TypeOK
<1>5. NothingYet(t)' /\ Kept(t)'
  BY <1>1, <1>2 DEF CleanCall, OwnResponse, IsOwn, NothingYet, Kept,
     Expected, Base, TypeOK
<1> QED
  BY <1>1, <1>3, <1>4, <1>5 DEF CleanCall

LEMMA SeeResponseClean ==
  ASSUME Base, CleanInv, NEW t \in Threads, SeeResponse(t)
  PROVE  CleanInv'
<1> USE DEF SeeResponse, Go, Hear, statusVars, chipVars, rxVars
<1> SUFFICES ASSUME NEW u \in Threads, clean'[u] PROVE CleanCall(u)'
  BY DEF CleanInv
<1>1. u = t /\ CleanCall(t) /\ clean[t]
  BY CleanHoldsLock DEF CleanInv, Base, LockInv, Inside
<1>2. Kind(t)' = Kind(t) /\ at'[t] # "write"
      /\ (at'[Handler] = "verdict" => at[Handler] = "verdict")
  BY SameIssued DEF Kind, Base, TypeOK, Threads
<1>3. OwnSignals(t)'
  BY <1>1, <1>2 DEF CleanCall, OwnSignals, OwnResponse, IsOwn, Base, TypeOK
<1>4. OwnResponse(t)'
  BY <1>1, <1>2 DEF CleanCall, OwnResponse, IsOwn, Base, TypeOK
<1>5. NothingYet(t)' /\ Kept(t)'
  BY <1>1, <1>2 DEF CleanCall, OwnResponse, IsOwn, NothingYet, Kept,
     Expected, Base, TypeOK
<1> QED
  BY <1>1, <1>3, <1>4, <1>5 DEF CleanCall

LEMMA CopyClean ==
  ASSUME Base, CleanInv, NEW t \in Threads, Copy(t)
  PROVE  CleanInv'
<1> USE DEF Copy, Go, Hear, statusVars, chipVars, rxVars
<1> SUFFICES ASSUME NEW u \in Threads, clean'[u] PROVE CleanCall(u)'
  BY DEF CleanInv
<1>1. u = t /\ CleanCall(t) /\ clean[t]
  BY CleanHoldsLock DEF CleanInv, Base, LockInv, Inside
<1>2. Kind(t)' = Kind(t) /\ at'[t] # "write"
      /\ (at'[Handler] = "verdict" => at[Handler] = "verdict")
  BY SameIssued DEF Kind, Base, TypeOK, Threads
<1>3. OwnSignals(t)'
  BY <1>1, <1>2 DEF CleanCall, OwnSignals, OwnResponse, IsOwn, Base, TypeOK
<1>4. OwnResponse(t)'
  <2>1. rx = "storing" => IsOwn(Arriving, t)
    <3>1. rx = "storing" => line # << >>
      BY DEF Base, FramesInv
    <3>2. line # << >> => Head(line).n = req[t]
      BY <1>1, SeqTail DEF CleanCall, OwnSignals
    <3> QED
      BY <3>1, <3>2 DEF Arriving, IsOwn, Kind
  <2> QED
    BY <1>1, <1>2, <2>1 DEF CleanCall, OwnResponse, IsOwn, Base, TypeOK
<1>5. NothingYet(t)' /\ Kept(t)'
  BY <1>1, <1>2 DEF CleanCall, OwnResponse, IsOwn, NothingYet, Kept,
     Expected, Base, TypeOK
<1> QED
  BY <1>1, <1>3, <1>4, <1>5 DEF CleanCall

LEMMA EvaluateClean ==
  ASSUME Base, CleanInv, NEW t \in Threads, Evaluate(t)
  PROVE  CleanInv'
<1> USE DEF Evaluate, Go, Hear, statusVars, chipVars, rxVars
<1> SUFFICES ASSUME NEW u \in Threads, clean'[u] PROVE CleanCall(u)'
  BY DEF CleanInv
<1>1. u = t /\ CleanCall(t) /\ clean[t]
  BY CleanHoldsLock DEF CleanInv, Base, LockInv, Inside
<1>2. Kind(t)' = Kind(t) /\ at'[t] # "write"
      /\ (at'[Handler] = "verdict" => at[Handler] = "verdict")
  BY SameIssued DEF Kind, Base, TypeOK, Threads
<1>3. OwnSignals(t)'
  BY <1>1, <1>2 DEF CleanCall, OwnSignals, OwnResponse, IsOwn, Base, TypeOK
<1>4. OwnResponse(t)'
  BY <1>1, <1>2 DEF CleanCall, OwnResponse, IsOwn, Base, TypeOK
<1>5. NothingYet(t)' /\ Kept(t)'
  BY <1>1, <1>2 DEF CleanCall, OwnResponse, IsOwn, NothingYet, Kept,
     Expected, Base, TypeOK
<1> QED
  BY <1>1, <1>3, <1>4, <1>5 DEF CleanCall

LEMMA SeeDoneClean ==
  ASSUME Base, CleanInv, NEW t \in Threads, SeeDone(t)
  PROVE  CleanInv'
<1> USE DEF SeeDone, Go, Hear, statusVars, chipVars, rxVars
<1> SUFFICES ASSUME NEW u \in Threads, clean'[u] PROVE CleanCall(u)'
  BY DEF CleanInv
<1>1. u = t /\ CleanCall(t) /\ clean[t]
  BY CleanHoldsLock DEF CleanInv, Base, LockInv, Inside
<1>2. Kind(t)' = Kind(t) /\ at'[t] # "write"
      /\ (at'[Handler] = "verdict" => at[Handler] = "verdict")
  BY SameIssued DEF Kind, Base, TypeOK, Threads
<1>3. OwnSignals(t)'
  BY <1>1, <1>2 DEF CleanCall, OwnSignals, Expected, Base, LockInv, TypeOK
<1>4. OwnResponse(t)'
  BY <1>1, <1>2 DEF CleanCall, OwnResponse, IsOwn, Base, TypeOK
<1>5. NothingYet(t)' /\ Kept(t)'
  BY <1>1, <1>2 DEF CleanCall, OwnResponse, IsOwn, NothingYet, Kept,
     Expected, Base, TypeOK
<1> QED
  BY <1>1, <1>3, <1>4, <1>5 DEF CleanCall

LEMMA TimeOutClean ==
  ASSUME Base, CleanInv, NEW t \in Threads, TimeOut(t)
  PROVE  CleanInv'
<1> USE DEF TimeOut, Go, Hear, statusVars, chipVars, rxVars
<1> SUFFICES ASSUME NEW u \in Threads, clean'[u] PROVE CleanCall(u)'
  BY DEF CleanInv
<1>1. u = t /\ CleanCall(t) /\ clean[t]
  BY CleanHoldsLock DEF CleanInv, Base, LockInv, Inside
<1>2. Kind(t)' = Kind(t) /\ at'[t] # "write"
      /\ (at'[Handler] = "verdict" => at[Handler] = "verdict")
  BY SameIssued DEF Kind, Base, TypeOK, Threads
<1>3. OwnSignals(t)'
  BY <1>1, <1>2 DEF CleanCall, OwnSignals, OwnResponse, IsOwn, Base, TypeOK
<1>4. OwnResponse(t)'
  BY <1>1, <1>2 DEF CleanCall, OwnResponse, IsOwn, Base, TypeOK
<1>5. NothingYet(t)' /\ Kept(t)'
  BY <1>1, <1>2 DEF CleanCall, OwnResponse, IsOwn, NothingYet, Kept,
     Expected, Base, TypeOK
<1> QED
  BY <1>1, <1>3, <1>4, <1>5 DEF CleanCall

LEMMA ReturnClean ==
  ASSUME Base, CleanInv, NEW t \in Threads, Return(t)
  PROVE  CleanInv'
<1>1. \A u \in Threads : ~ clean'[u]
  BY DEF Return, Base, LockInv, TypeOK, Inside
<1> QED
  BY <1>1 DEF CleanInv

\* The receiver brings what the request itself caused.
LEMMA ReceiverClean ==
  ASSUME Base, CleanInv, Receiver
  PROVE  CleanInv'
<1> USE DEF Receiver, ReceiveAck, ReceiveNak, ReceiveCan, StoreResponse, ResponseStored,
        ResponseReceived, ReceiveCallback, Arrived, DropByte, Signalled, callVars,
        statusVars, chipVars, rxVars
<1> SUFFICES ASSUME NEW u \in Threads, clean'[u] PROVE CleanCall(u)'
  BY DEF CleanInv
<1>1. clean[u] /\ CleanCall(u) /\ lock = u
  BY CleanHoldsLock DEF CleanInv
<1> DEFINE Own == {f \in Frames : f.n = req[u]}
<1>2. line # << >> /\ UNCHANGED <<issued, req, at>> /\ Own' = Own
  BY DEF Base, FramesInv
<1>3. /\ Head(line) \in Own /\ Tail(line) \in Seq(Own) /\ line \in Seq(Own)
      /\ inbox \in Seq(Own)
      /\ Head(line).n = req[u] /\ req[u] # Nobody
  <2>1. line \in Seq(Own) /\ inbox \in Seq(Own)
    BY <1>1 DEF CleanCall, OwnSignals
  <2>2. req[u] # Nobody
    BY <1>1, CleanHoldsLock, Numbered DEF Base
  <2> QED
    BY <1>2, <2>1, <2>2, SeqTail
<1>4. Append(inbox, Head(line)) \in Seq(Own)
  BY <1>3, SeqAppend
<1>5. Kind(u)' = Kind(u) /\ IsOwn(Arriving, u) /\ at[u] # "write"
  BY <1>1, <1>2, <1>3, SameKinds DEF Arriving, IsOwn, Kind, CleanCall, NothingYet
<1>6. OwnSignals(u)'
  <2>1. line' \in Seq(Own') /\ inbox' \in Seq(Own')
    BY <1>2, <1>3, <1>4
  <2>2. ack_status' \in {Nobody, req[u]}
    BY <1>1, <1>3 DEF CleanCall, OwnSignals
  <2>3. UNCHANGED <<issued, req, at, chip, cb, exe_status, heard>>
    OBVIOUS
  <2> HIDE DEF Receiver
  <2> QED
    BY <1>1, <1>5, <2>1, <2>2, <2>3 DEF CleanCall, OwnSignals
<1>7. OwnResponse(u)'
  BY <1>1, <1>2, <1>5 DEF CleanCall, OwnResponse, IsOwn
<1>8. NothingYet(u)'
  BY <1>2, <1>5 DEF NothingYet
<1>9. Kept(u)'
  BY <1>1, <1>2, <1>3, <1>5 DEF CleanCall, Kept, Expected
<1> QED
  BY <1>6, <1>7, <1>8, <1>9 DEF CleanCall

LEMMA TakeCallbackClean ==
  ASSUME Base, CleanInv, TakeCallback
  PROVE  CleanInv'
<1> USE DEF TakeCallback, Signalled, Go, chipVars, rxVars
<1> SUFFICES ASSUME NEW u \in Threads, clean'[u] PROVE CleanCall(u)'
  BY DEF CleanInv
<1>1. clean[u] /\ CleanCall(u) /\ lock = u /\ at[u] \in Inside
  BY CleanHoldsLock DEF CleanInv
<1> DEFINE Own == {f \in Frames : f.n = req[u]}
<1>2. Head(inbox) \in Own /\ Tail(inbox) \in Seq(Own) /\ Head(inbox).n = req[u]
  <2>1. inbox \in Seq(Own)
    BY <1>1 DEF CleanCall, OwnSignals
  <2> QED
    BY <2>1, SeqTail
<1>3. u # Handler /\ at'[u] = at[u] /\ at[u] # "write"
  BY <1>1, ThreadsAssumption DEF Inside, Base, TypeOK, Threads, CleanCall, NothingYet
<1>4. Kind(u)' = Kind(u) /\ Kind(u) \in WithCallback
  BY <1>2, FirstCallback, SameKinds DEF Kind
<1>5. OwnSignals(u)'
  BY <1>1, <1>2, <1>4 DEF CleanCall, OwnSignals
<1>6. Kept(u)'
  BY <1>1, <1>2, <1>3, <1>4 DEF CleanCall, Kept, Expected, Kind, WithCallback
<1> QED
  BY <1>1, <1>3, <1>4, <1>5, <1>6 DEF CleanCall, OwnResponse, IsOwn, NothingYet

LEMMA VerdictClean ==
  ASSUME Base, CleanInv, Verdict
  PROVE  CleanInv'
<1> USE DEF Verdict, NewRequest, Go, chipVars, rxVars
<1> SUFFICES ASSUME NEW u \in Threads, clean'[u] PROVE CleanCall(u)'
  BY DEF CleanInv
<1>1. clean[u] /\ CleanCall(u) /\ at[u] \in Inside /\ cb.n = req[u]
  BY CleanHoldsLock DEF CleanInv, CleanCall, OwnSignals
<1>2. u # Handler /\ at'[u] = at[u] /\ req'[u] = req[u] /\ at'[Handler] # "verdict"
  BY <1>1, ThreadsAssumption DEF Inside, Base, TypeOK, Threads
<1>3. Kind(u)' = Kind(u) /\ Kind(u) = "send"
  BY <1>1, <1>2 DEF Base, FramesInv, Kind, KindOf
<1> QED
  BY <1>1, <1>2, <1>3 DEF CleanCall, OwnSignals, OwnResponse, IsOwn, NothingYet, Kept,
     Expected

LEMMA ChipClean ==
  ASSUME Base, CleanInv, NEW n \in Numbers, Chip(n)
  PROVE  CleanInv'
<1> USE DEF Chip, ChipAck, ChipRefuse, ChipRespond, ChipDone, ChipSilent, ChipSends, Frame,
        callVars, statusVars, rxVars
<1> SUFFICES ASSUME NEW u \in Threads, clean'[u] PROVE CleanCall(u)'
  BY DEF CleanInv
<1>1. clean[u] /\ CleanCall(u)
  BY DEF CleanInv
<1> DEFINE Own == {f \in Frames : f.n = req[u]}
<1>2. n = req[u] /\ chip[n] \notin {"none", "over"}
  <2>1. chip[n] \notin {"none", "over"}
    OBVIOUS
  <2> QED
    BY <1>1, <2>1 DEF CleanCall, OwnSignals
<1>3. line' = line \/ \E f \in Own : line' = Append(line, f)
  <2>1. \A kind \in {"ack", "nak", "can", "response", "callback"}, outcome \in Outcomes :
          [kind |-> kind, n |-> n, outcome |-> outcome] \in Own
    BY <1>2 DEF Frames
  <2>2. "ok" \in Outcomes /\ "fail" \in Outcomes
    BY DEF Outcomes
  <2> QED
    BY <2>1, <2>2
<1>4. line' \in Seq(Own)
  <2>1. line \in Seq(Own)
    BY <1>1 DEF CleanCall, OwnSignals
  <2>2. ASSUME NEW f \in Own, line' = Append(line, f)
        PROVE  line' \in Seq(Own)
    BY <2>1, <2>2, SeqAppend
  <2> QED
    BY <1>3, <2>1, <2>2
<1>5. at[u] # "write" /\ Kind(u)' = Kind(u)
  BY <1>1, <1>2, SameKinds DEF CleanCall, NothingYet
<1>6. \A m \in Numbers \ {req[u]} : chip'[m] = chip[m]
  BY <1>2 DEF Base, TypeOK
<1>7. UNCHANGED <<issued, lock, at, req, got, clean, heard, ack_status, response_status,
                  gResponseBuffer, exe_status, signalled, rx, inbox, cb>>
  OBVIOUS
<1> HIDE DEF Chip
<1>8. OwnSignals(u)'
  BY <1>1, <1>4, <1>5, <1>6, <1>7 DEF CleanCall, OwnSignals
<1> QED
  BY <1>1, <1>5, <1>7, <1>8 DEF CleanCall, OwnResponse, IsOwn, NothingYet, Kept,
     Expected

-----------------------------------------------------------------------------
(* The theorems.                                                            *)

LEMMA InvInit == Init => Inv
<1>1. Init => CleanInv
  BY DEF Init, CleanInv
<1> QED
  BY <1>1, BaseInit DEF Inv

LEMMA InvNext == Inv /\ [Next]_vars => Inv'
<1> SUFFICES ASSUME Inv, [Next]_vars PROVE Inv'
  OBVIOUS
<1> USE DEF Inv
<1>1. ASSUME NEW t \in Callers, NEW kind \in CallerKinds, Call(t, kind) PROVE Inv'
  BY <1>1, CallBase, CallClean
<1>2. ASSUME NEW t \in Threads, CallStep(t) PROVE Inv'
  <2>1. Base'
    BY <1>2, BeginBase, WriteBase, SeeAckBase, SeeResponseBase, CopyBase, EvaluateBase,
       SeeDoneBase, TimeOutBase, ReturnBase DEF CallStep
  <2>2. CleanInv'
    BY <1>2, BeginClean, WriteClean, SeeAckClean, SeeResponseClean, CopyClean,
       EvaluateClean, SeeDoneClean, TimeOutClean, ReturnClean DEF CallStep
  <2> QED
    BY <2>1, <2>2
<1>3. CASE Receiver
  BY <1>3, ReceiverBase, ReceiverClean
<1>4. CASE HandlerStep
  BY <1>4, TakeCallbackBase, TakeCallbackClean, VerdictBase, VerdictClean DEF HandlerStep
<1>5. ASSUME NEW n \in Numbers, Chip(n) PROVE Inv'
  BY <1>5, ChipBase, ChipClean
<1>6. CASE UNCHANGED vars
  <2> USE DEF vars, callVars, statusVars, chipVars, rxVars
  <2>1. Base'
    BY <1>6, SameIssued, SameKinds DEF Base, TypeOK, FramesInv, ChipInv, LockInv
  <2>2. \A t \in Threads : CleanCall(t)' = CleanCall(t)
    BY <1>6, SameKinds DEF CleanCall, OwnSignals, OwnResponse, IsOwn, NothingYet, Kept,
       Expected
  <2> QED
    BY <1>6, <2>1, <2>2 DEF CleanInv
<1> QED
  BY <1>1, <1>2, <1>3, <1>4, <1>5, <1>6 DEF Next

LEMMA InvAlways == Spec => []Inv
  BY InvInit, InvNext, PTL DEF Spec

\* Every variable has its type, whatever the chip sends and however the threads take
\* turns; an abort has the number its transmission reserves.
THEOREM TypeInvariant == Spec => []TypeOK
<1>1. Inv => TypeOK
  BY DEF Inv, Base
<1> QED
  BY <1>1, InvAlways, PTL

\* SendRequestAndWaitForResponse, ZW_SetDefault, ZW_SendData: a call that begins when
\* nothing is overdue acts on the signals of its own request only, for any number of
\* threads and calls.
THEOREM CleanCallsHearTheirOwn == Spec => []OwnWhenClean
<1>1. Inv => OwnWhenClean
  BY DEF Inv, CleanInv, CleanCall, OwnSignals, OwnWhenClean
<1> QED
  BY <1>1, InvAlways, PTL

\* The same functions: what such a request was sent is still there when the call looks.
THEOREM SignalsStay == Spec => []SignalKept
<1>1. Inv => SignalKept
  BY DEF Inv, CleanInv, CleanCall, Kept, SignalKept
<1> QED
  BY <1>1, InvAlways, PTL
=============================================================================
