--------------------------- MODULE DispatcherProofs ---------------------------
(***************************************************************************)
(* What holds of the dispatcher for any number of clients, slots and       *)
(* descriptors.  SlotTable is not inductive alone: that a descriptor leads *)
(* to one client only needs the kernel's side, which Links states.         *)
(***************************************************************************)
EXTENDS Dispatcher, FiniteSetTheorems, SequenceTheorems, TLAPS

\* A connection is queued once, then held by a descriptor, never both, and
\* only after the client has connected.
Links ==
  /\ \A f \in Fds : fdtab[f] # NoConn => conn[fdtab[f]] # "idle"
  /\ \A i \in 1 .. Len(backlog) :
       /\ conn[backlog[i]] # "idle"
       /\ \A f \in Fds : fdtab[f] # backlog[i]
       /\ \A j \in 1 .. Len(backlog) : backlog[i] = backlog[j] => i = j
  /\ pc = "accept" => backlog # <<>>

TableInv == TypeOK /\ SlotTable /\ Links

-----------------------------------------------------------------------------
(* Lemmas.                                                                 *)

\* A slot the scan stops at leads to a connection.
LEMMA PeerOfSlot ==
  ASSUME TableInv, NEW s \in Slots, ScanAt(s)
  PROVE  sockfd[s] \in Fds /\ Peer(s) \in Conns /\ s \in UsedSlots
<1>1. sockfd[s] \in Fds \cup {NoFd} /\ sockfd[s] # NoFd
  BY DEF TableInv, TypeOK, ScanAt, Pending
<1>2. fdtab[sockfd[s]] \in Conns \cup {NoConn} /\ Peer(s) # NoConn
  BY <1>1 DEF TableInv, TypeOK, SlotTable, UsedSlots
<1> QED
  BY <1>1, <1>2 DEF UsedSlots, Peer

\* Any set of slots is finite.
LEMMA SlotsFinite == ASSUME NEW S \in SUBSET Slots PROVE IsFiniteSet(S)
<1>1. IsFiniteSet(Slots)
  BY FS_Interval, TableAssumption DEF Slots
<1> QED
  BY <1>1, FS_Subset

\* reset_client keeps the table consistent.
LEMMA ResetKeepsTable ==
  ASSUME TableInv, NEW s \in Slots, ScanAt(s), reset_client(s)
  PROVE  /\ SlotTable'
         /\ fdtab' \in [Fds -> Conns \cup {NoConn}]
         /\ sockfd' \in [Slots -> Fds \cup {NoFd}]
         /\ clientNum' \in Int
         /\ rfds' \subseteq Fds
<1> USE DEF TableInv
<1>1. sockfd[s] \in Fds /\ s \in UsedSlots /\ NoFd \notin Fds
  BY PeerOfSlot, FdsAssumption DEF NoFd
<1>2. /\ fdtab' = [fdtab EXCEPT ![sockfd[s]] = NoConn]
      /\ rfds' = rfds \ {sockfd[s]}
      /\ sockfd' = [sockfd EXCEPT ![s] = NoFd]
      /\ clientNum' = clientNum - 1
  BY DEF reset_client
<1>3. UsedSlots' = UsedSlots \ {s}
  BY <1>1, <1>2 DEF UsedSlots, TypeOK
<1>4. Cardinality(UsedSlots') = Cardinality(UsedSlots) - 1
  BY <1>1, <1>3, SlotsFinite, FS_RemoveElement DEF UsedSlots
<1>5. \A t \in UsedSlots' : sockfd'[t] = sockfd[t] /\ sockfd[t] # sockfd[s]
  BY <1>1, <1>2, <1>3 DEF SlotTable, TypeOK, UsedSlots
<1>6. rfds' = {sockfd'[t] : t \in UsedSlots'}
  BY <1>1, <1>2, <1>3, <1>5 DEF SlotTable
<1>7. \A t \in UsedSlots' : Peer(t)' # NoConn
  BY <1>1, <1>2, <1>3, <1>5 DEF SlotTable, TypeOK, Peer, UsedSlots
<1> QED
  BY <1>1, <1>2, <1>3, <1>4, <1>5, <1>6, <1>7 DEF SlotTable, TypeOK

-----------------------------------------------------------------------------
(* The clients' steps.                                                     *)

\* A message a client writes is a message.
LEMMA MsgType ==
  ASSUME NEW k \in Kinds, NEW d \in ClientTypes \cup {DAEMON_ALL, NoType},
         NEW a \in Fds \cup {0}, NEW o \in Conns \cup {NoConn}
  PROVE  Msg(k, d, a, o) \in Message
<1> QED
  BY DEF Msg, Message

\* Writing a message keeps the types and disturbs nothing else.
LEMMA SendKeepsTypes ==
  ASSUME TableInv, NEW c \in Conns, NEW m \in Message, ClientSend(c, m)
  PROVE  /\ c2d' \in [Conns -> Seq(Message)]
         /\ sent' \in [Conns -> Nat]
         /\ UNCHANGED <<conn, d2c, backlog>>
<1>1. Append(c2d[c], m) \in Seq(Message)
  BY AppendProperties DEF TableInv, TypeOK
<1> QED
  BY <1>1 DEF ClientSend, TableInv, TypeOK

LEMMA ClientKeepsTable ==
  ASSUME TableInv, NEW c \in Conns, ClientStep(c)
  PROVE  TableInv'
<1> USE DEF TableInv
<1>1. UNCHANGED <<fdtab, sockfd, clientType, socketType, clientNum, rfds, pc, ready, pos, cur>>
  BY DEF ClientStep, tableVars
<1>2. SlotTable'
  BY <1>1 DEF SlotTable, UsedSlots, Peer
<1>3. SUFFICES /\ conn' \in [Conns -> {"idle", "connected", "open", "closed"}]
               /\ c2d' \in [Conns -> Seq(Message)]
               /\ d2c' \in [Conns -> Seq(Message)]
               /\ todo' \in [Conns -> SUBSET Message]
               /\ sent' \in [Conns -> Nat]
               /\ backlog' \in Seq(Conns)
               /\ Links'
  BY <1>1, <1>2 DEF TypeOK
<1>4. CASE Connect(c)
  <2>1. Append(backlog, c) \in Seq(Conns) /\ Append(backlog, c) # <<>>
    <3>1. backlog \in Seq(Conns)
      BY DEF TypeOK
    <3> QED
      BY <3>1, AppendProperties
  <2>2. /\ Len(backlog') = Len(backlog) + 1
        /\ backlog'[Len(backlog) + 1] = c
        /\ \A i \in 1 .. Len(backlog) : backlog'[i] = backlog[i]
    BY <1>4, AppendProperties DEF Connect, TypeOK
  <2>3. Len(backlog) \in Nat
    BY DEF TypeOK
  <2>4. conn[c] = "idle" /\ conn' = [conn EXCEPT ![c] = "connected"]
    BY <1>4 DEF Connect
  <2>5. \A i \in 1 .. Len(backlog) : backlog[i] \in Conns /\ backlog[i] # c
    BY <2>4, ElementOfSeq DEF TypeOK, Links
  <2>6. \A f \in Fds : fdtab[f] # c
    BY <2>4, ConnsAssumption DEF Links
  <2>7. \A i \in 1 .. Len(backlog') : i \in 1 .. Len(backlog) \/ i = Len(backlog) + 1
    BY <2>2, <2>3
  <2>8. \A f \in Fds : fdtab'[f] # NoConn => conn'[fdtab'[f]] # "idle"
    BY <1>1, <2>4, <2>6 DEF Links, TypeOK
  <2>9. ASSUME NEW i \in 1 .. Len(backlog')
        PROVE  conn'[backlog'[i]] # "idle" /\ \A f \in Fds : fdtab'[f] # backlog'[i]
    <3>1. CASE i \in 1 .. Len(backlog)
      <4>1. backlog'[i] = backlog[i] /\ backlog[i] \in Conns /\ backlog[i] # c
        BY <2>2, <2>5, <3>1
      <4>2. conn'[backlog'[i]] = conn[backlog[i]]
        BY <2>4, <4>1 DEF TypeOK
      <4> QED
        BY <1>1, <3>1, <4>1, <4>2 DEF Links
    <3>2. CASE i = Len(backlog) + 1
      <4>1. backlog'[i] = c /\ conn'[c] = "connected"
        BY <2>2, <2>4, <3>2 DEF TypeOK
      <4> QED
        BY <1>1, <2>6, <4>1
    <3> QED
      BY <2>7, <3>1, <3>2
  <2>10. \A i, j \in 1 .. Len(backlog') : backlog'[i] = backlog'[j] => i = j
    BY <2>2, <2>5, <2>7 DEF Links
  <2>11. Links'
    BY <1>1, <1>4, <2>1, <2>8, <2>9, <2>10 DEF Links, Connect
  <2> QED
    BY <1>4, <2>1, <2>11 DEF Connect, TypeOK
<1>5. CASE Register(c)
  <2>1. <<Info>> \in Seq(Message)
    BY MsgType DEF Info, Kinds
  <2>2. backlog' = backlog /\ conn' = [conn EXCEPT ![c] = "open"]
    BY <1>5 DEF Register
  <2>3. Links'
    BY <1>1, <2>2 DEF Links, TypeOK
  <2> QED
    BY <1>5, <2>1, <2>3 DEF Register, TypeOK
<1>6. CASE \E dst \in Daemons \cup {DAEMON_ALL} : Request(c, dst)
  <2>1. PICK dst \in Daemons \cup {DAEMON_ALL} : Request(c, dst)
    BY <1>6
  <2>2. Msg("REQUEST", dst, 0, c) \in Message
    BY MsgType DEF Kinds, ClientTypes
  <2> QED
    BY <1>1, <2>1, <2>2, SendKeepsTypes DEF Request, TypeOK, Links
<1>7. CASE \E r \in todo[c] : Reply(c, r)
  <2>1. PICK r \in todo[c] : Reply(c, r)
    BY <1>7
  <2>2. r \in Message
    BY DEF TypeOK
  <2>3. Msg("REPLY", APPLICATION, r.appid, r.origin) \in Message
    BY <2>2, MsgType DEF Kinds, ClientTypes, Message
  <2>4. todo' \in [Conns -> SUBSET Message]
    BY <2>1 DEF Reply, TypeOK
  <2> QED
    BY <1>1, <2>1, <2>3, <2>4, SendKeepsTypes DEF Reply, TypeOK, Links
<1>8. CASE Event(c)
  <2>1. Msg("EVENT", APPLICATION, 0, NoConn) \in Message
    BY MsgType DEF Kinds, ClientTypes
  <2> QED
    BY <1>1, <1>8, <2>1, SendKeepsTypes DEF Event, TypeOK, Links
<1>9. CASE Receive(c)
  <2>1. Tail(d2c[c]) \in Seq(Message) /\ Head(d2c[c]) \in Message
    BY <1>9, HeadTailProperties DEF Receive, TypeOK
  <2>2. todo' \in [Conns -> SUBSET Message]
    BY <1>9, <2>1 DEF Receive, TypeOK
  <2> QED
    BY <1>1, <1>9, <2>1, <2>2 DEF Receive, TypeOK, Links
<1>10. CASE Close(c)
  <2>1. ASSUME NEW t \in TornKinds
        PROVE  Append(c2d[c], TornMsg(t)) \in Seq(Message)
    <3>1. TornMsg(t) \in Message
      BY BoundsAssumption DEF TornMsg, Message, Kinds, ClientTypes
    <3> QED
      BY <3>1, AppendProperties DEF TypeOK
  <2>2. c2d' \in [Conns -> Seq(Message)]
    BY <1>10, <2>1 DEF Close, TypeOK
  <2>3. /\ conn' = [conn EXCEPT ![c] = "closed"]
        /\ d2c' = [d2c EXCEPT ![c] = <<>>]
        /\ todo' = [todo EXCEPT ![c] = {}]
        /\ UNCHANGED <<sent, backlog>>
    BY <1>10 DEF Close
  <2>4. Links'
    BY <1>1, <2>3 DEF Links, TypeOK
  <2> QED
    BY <2>2, <2>3, <2>4 DEF TypeOK
<1> QED
  BY <1>4, <1>5, <1>6, <1>7, <1>8, <1>9, <1>10 DEF ClientStep

-----------------------------------------------------------------------------
(* The dispatcher's steps.                                                 *)

\* What the scan's bookkeeping leaves behind has the right type.
LEMMA AdvanceType ==
  ASSUME TypeOK, NEW s \in Slots,
         Advance(s) \/ (\E w \in {"select", "forward"} : LeaveTo(w))
  PROVE  pc' \in {"select", "scan", "forward"} /\ ready' \subseteq Fds /\ pos' \in Slots
<1> QED
  BY TableAssumption DEF Advance, LeaveTo, TypeOK, Slots

\* Dropping a client disturbs none of the kernel's bookkeeping.
LEMMA ResetKeepsInv ==
  ASSUME TableInv, NEW s \in Slots, ScanClosed(s) \/ ScanTornData(s)
  PROVE  TableInv'
<1> USE DEF TableInv
<1>1. /\ ScanAt(s)
      /\ reset_client(s)
      /\ Advance(s) \/ LeaveTo("select")
      /\ UNCHANGED <<conn, c2d, d2c, todo, sent, backlog, cur, clientType, socketType>>
  BY DEF ScanClosed, ScanTornData, clientVars, reset_client
<1>2. SlotTable' /\ fdtab' \in [Fds -> Conns \cup {NoConn}]
        /\ sockfd' \in [Slots -> Fds \cup {NoFd}] /\ clientNum' \in Int /\ rfds' \subseteq Fds
  BY <1>1, ResetKeepsTable
<1>3. pc' \in {"select", "scan", "forward"} /\ ready' \subseteq Fds /\ pos' \in Slots
  BY <1>1, AdvanceType
<1>4. TypeOK'
  BY <1>1, <1>2, <1>3 DEF TypeOK
<1>5. \A f \in Fds : fdtab'[f] = fdtab[f] \/ fdtab'[f] = NoConn
  BY <1>1 DEF reset_client, TypeOK
<1>6. \A i \in 1 .. Len(backlog) : backlog[i] # NoConn
  BY ConnsAssumption, ElementOfSeq DEF TypeOK
<1>7. Links'
  BY <1>1, <1>3, <1>5, <1>6 DEF Links
<1> QED
  BY <1>2, <1>4, <1>7

\* What the scan reads is a message; the rest of the stream is one too.
LEMMA ReadTypes ==
  ASSUME TableInv, NEW s \in Slots, ReadFrom(s)
  PROVE  /\ Head(c2d[Peer(s)]) \in Message
         /\ c2d' \in [Conns -> Seq(Message)]
<1>1. c2d[Peer(s)] \in Seq(Message) /\ c2d[Peer(s)] # <<>>
  BY PeerOfSlot DEF ReadFrom, TableInv, TypeOK
<1>2. Head(c2d[Peer(s)]) \in Message /\ Tail(c2d[Peer(s)]) \in Seq(Message)
  BY <1>1, HeadTailProperties
<1> QED
  BY <1>2 DEF ReadFrom, TableInv, TypeOK

LEMMA ReadKeepsInv ==
  ASSUME TableInv, NEW s \in Slots, ScanInfo(s) \/ ScanMessage(s)
  PROVE  TableInv'
<1> USE DEF TableInv
<1>1. /\ ReadFrom(s)
      /\ ScanAt(s)
      /\ UNCHANGED <<conn, d2c, todo, sent, backlog, fdtab, sockfd, clientNum, rfds>>
  BY DEF ScanInfo, ScanMessage, ReadFrom, tableVars
<1>2. c2d' \in [Conns -> Seq(Message)] /\ Head(c2d[Peer(s)]) \in Message
  BY <1>1, ReadTypes
<1>3. SlotTable'
  BY <1>1 DEF SlotTable, UsedSlots, Peer
<1>4. pc' \in {"select", "scan", "forward"} /\ ready' \subseteq Fds /\ pos' \in Slots
  BY AdvanceType DEF ScanInfo, ScanMessage
<1>5. Links'
  BY <1>1, <1>4 DEF Links
<1>6. sockfd[s] \in Fds /\ Peer(s) \in Conns
  BY <1>1, PeerOfSlot
<1>7. /\ clientType' \in [Slots -> ClientTypes \cup {NoType}]
      /\ socketType' \in [Slots -> SocketTypes \cup {NoType}]
      /\ cur' \in Message
  <2>1. CASE ScanInfo(s)
    BY <1>6, <2>1, ConnsAssumption DEF ScanInfo, TypeOK
  <2>2. CASE ScanMessage(s)
    <3>1. clientType[s] \in ClientTypes \cup {NoType} /\ sockfd[s] \in Fds \cup {0}
      BY <1>6 DEF TypeOK
    <3>2. cur' = Stamped(s, Head(c2d[Peer(s)]))
      BY <2>2 DEF ScanMessage
    <3>3. cur' \in Message
      BY <1>2, <3>1, <3>2 DEF Stamped, Message
    <3> QED
      BY <2>2, <3>3 DEF ScanMessage, tableVars, TypeOK
  <2> QED
    BY <2>1, <2>2
<1> QED
  BY <1>1, <1>2, <1>3, <1>4, <1>5, <1>7 DEF TypeOK

\* Taking a descriptor for the oldest queued connection keeps the kernel's
\* bookkeeping.
LEMMA TakeFdKeepsLinks ==
  ASSUME TableInv, NEW f \in Fds, TakeFd(f), pc' # "accept"
  PROVE  /\ Links'
         /\ fdtab' \in [Fds -> Conns \cup {NoConn}]
         /\ backlog' \in Seq(Conns)
         /\ \A g, h \in Fds : fdtab'[g] = fdtab'[h] /\ fdtab'[g] # NoConn => g = h
         /\ fdtab'[f] # NoConn
<1> USE DEF TableInv
<1>1. backlog \in Seq(Conns) /\ backlog # <<>>
  BY DEF TakeFd, TypeOK, Links
<1>2. /\ Tail(backlog) \in Seq(Conns)
      /\ Len(Tail(backlog)) = Len(backlog) - 1
      /\ \A i \in 1 .. Len(Tail(backlog)) : Tail(backlog)[i] = backlog[i + 1]
  BY <1>1, HeadTailProperties
<1>3. Len(backlog) \in Nat \ {0} /\ Head(backlog) = backlog[1] /\ backlog[1] \in Conns
  BY <1>1, EmptySeq, ElementOfSeq
<1>4. /\ fdtab' = [fdtab EXCEPT ![f] = backlog[1]]
      /\ backlog' = Tail(backlog)
      /\ conn' = conn
      /\ fdtab[f] = NoConn
  BY <1>3 DEF TakeFd, FreeFds
<1>5. \A g \in Fds : fdtab[g] # backlog[1] /\ (g # f => fdtab'[g] = fdtab[g])
  <2>1. 1 \in 1 .. Len(backlog)
    BY <1>3
  <2>2. \A g \in Fds : fdtab[g] # backlog[1]
    BY <2>1 DEF Links
  <2> QED
    BY <1>4, <2>2 DEF TypeOK
<1>6. fdtab'[f] = backlog[1] /\ backlog[1] # NoConn
  BY <1>3, <1>4, ConnsAssumption DEF TypeOK
<1>7. ASSUME NEW i \in 1 .. Len(backlog')
      PROVE  /\ i + 1 \in 1 .. Len(backlog)
             /\ backlog'[i] = backlog[i + 1]
             /\ backlog[i + 1] # backlog[1]
  <2>1. i + 1 \in 1 .. Len(backlog) /\ 1 \in 1 .. Len(backlog) /\ i + 1 # 1
    BY <1>2, <1>3, <1>4
  <2>2. backlog[i + 1] # backlog[1]
    BY <2>1 DEF Links
  <2> QED
    BY <1>2, <1>4, <2>1, <2>2
<1>8. \A g \in Fds : fdtab'[g] # NoConn => conn'[fdtab'[g]] # "idle"
  BY <1>3, <1>4, <1>5, <1>6 DEF Links
<1>9. \A i \in 1 .. Len(backlog') :
        conn'[backlog'[i]] # "idle" /\ \A g \in Fds : fdtab'[g] # backlog'[i]
  BY <1>4, <1>5, <1>6, <1>7 DEF Links
<1>10. ASSUME NEW i \in 1 .. Len(backlog'), NEW j \in 1 .. Len(backlog'),
              backlog'[i] = backlog'[j]
       PROVE  i = j
  <2>1. i + 1 = j + 1
    BY <1>7, <1>10 DEF Links
  <2> QED
    BY <1>2, <1>4, <2>1
<1>11. Links'
  BY <1>8, <1>9, <1>10 DEF Links
<1> QED
  BY <1>2, <1>3, <1>4, <1>5, <1>6, <1>11 DEF SlotTable, TypeOK

\* The branch "there is no space for new client" of hc_dispacher_wait_for_msg
\* is dead code: below the limit there is always a free slot.
LEMMA FreeSlotExists ==
  ASSUME TableInv, clientNum < MaxClients
  PROVE  FreeSlots # {}
<1>1. SUFFICES ASSUME FreeSlots = {} PROVE FALSE
  OBVIOUS
<1>2. UsedSlots = Slots
  BY <1>1 DEF UsedSlots, FreeSlots
<1>3. Cardinality(1 .. MaxClients) = MaxClients
  BY FS_Interval, TableAssumption
<1> QED
  BY <1>2, <1>3, TableAssumption DEF Slots, TableInv, SlotTable

LEMMA AcceptKeepsInv ==
  ASSUME TableInv, NEW f \in Fds, AcceptClient(f) \/ AcceptOverLimit(f)
  PROVE  TableInv'
<1> USE DEF TableInv
<1>1. /\ TakeFd(f)
      /\ fdtab[f] = NoConn
      /\ \A g \in Fds : g # f => fdtab'[g] = fdtab[g]
      /\ UNCHANGED <<conn, c2d, d2c, todo, sent, clientType, socketType, cur>>
  BY DEF AcceptClient, AcceptOverLimit, TakeFd, FreeFds, TypeOK
<1>2. \A t \in UsedSlots : sockfd[t] \in Fds /\ sockfd[t] # f
  BY <1>1 DEF SlotTable, TypeOK, UsedSlots, Peer
<1>3. CASE AcceptOverLimit(f)
  <2>1. /\ pc' = "select" /\ ready' = {} /\ pos' = 1
        /\ UNCHANGED <<sockfd, clientNum, rfds>>
    BY <1>3 DEF AcceptOverLimit, LeaveTo
  <2>2. /\ Links'
        /\ fdtab' \in [Fds -> Conns \cup {NoConn}]
        /\ backlog' \in Seq(Conns)
        /\ \A g, h \in Fds : fdtab'[g] = fdtab'[h] /\ fdtab'[g] # NoConn => g = h
    BY <1>1, <2>1, TakeFdKeepsLinks
  <2>3. SlotTable'
    BY <1>1, <1>2, <2>1, <2>2 DEF SlotTable, UsedSlots, Peer
  <2>4. 1 \in Slots
    BY TableAssumption DEF Slots
  <2> QED
    BY <1>1, <2>1, <2>2, <2>3, <2>4 DEF TypeOK
<1>4. CASE AcceptClient(f)
  <2>1. clientNum < MaxClients /\ clientNum' = clientNum + 1 /\ FreeSlots # {}
    BY <1>4, FreeSlotExists DEF AcceptClient
  <2>2. PICK s \in FreeSlots :
          /\ sockfd' = [sockfd EXCEPT ![s] = f]
          /\ rfds' = rfds \cup {f}
          /\ pc' = "scan"
          /\ UNCHANGED <<ready, pos>>
    BY <1>4, <2>1 DEF AcceptClient
  <2>3. s \in Slots /\ s \notin UsedSlots /\ f # NoFd
    BY FdsAssumption DEF FreeSlots, UsedSlots, NoFd
  <2>4. UsedSlots' = UsedSlots \cup {s}
    BY <2>2, <2>3 DEF UsedSlots, TypeOK
  <2>5. Cardinality(UsedSlots') = Cardinality(UsedSlots) + 1
    BY <2>3, <2>4, SlotsFinite, FS_AddElement DEF UsedSlots
  <2>6. sockfd'[s] = f /\ \A t \in UsedSlots : sockfd'[t] = sockfd[t]
    BY <2>2, <2>3 DEF TypeOK, UsedSlots
  <2>7. /\ Links'
        /\ fdtab' \in [Fds -> Conns \cup {NoConn}]
        /\ backlog' \in Seq(Conns)
        /\ \A g, h \in Fds : fdtab'[g] = fdtab'[h] /\ fdtab'[g] # NoConn => g = h
        /\ fdtab'[f] # NoConn
    BY <1>1, <2>2, TakeFdKeepsLinks
  <2>8. rfds' = {sockfd'[t] : t \in UsedSlots'}
    <3>1. rfds = {sockfd[t] : t \in UsedSlots}
      BY DEF SlotTable
    <3> QED
      BY <2>2, <2>4, <2>6, <3>1
  <2>9. \A t, u \in UsedSlots' : sockfd'[t] = sockfd'[u] => t = u
    BY <1>2, <2>4, <2>6 DEF SlotTable
  <2>10. \A t \in UsedSlots' : Peer(t)' # NoConn
    BY <1>1, <1>2, <2>4, <2>6, <2>7 DEF SlotTable, Peer
  <2>11. SlotTable'
    BY <2>1, <2>5, <2>7, <2>8, <2>9, <2>10 DEF SlotTable
  <2>12. sockfd' \in [Slots -> Fds \cup {NoFd}]
    BY <2>2 DEF TypeOK
  <2> QED
    BY <1>1, <2>1, <2>2, <2>7, <2>11, <2>12 DEF TypeOK
<1> QED
  BY <1>3, <1>4

\* The steps that leave the table and the kernel's queue alone.
LEMMA OtherStepsKeepInv ==
  ASSUME TableInv, Select \/ AcceptFails \/ ScanDone \/ Forward
  PROVE  TableInv'
<1> USE DEF TableInv
<1>1. UNCHANGED <<conn, c2d, todo, sent, backlog, fdtab, sockfd, clientType, socketType,
                  clientNum, rfds>>
  BY DEF Select, AcceptFails, ScanDone, Forward, clientVars, tableVars
<1>2. SlotTable'
  BY <1>1 DEF SlotTable, UsedSlots, Peer
<1>3. Links'
  BY <1>1 DEF Links, Select, AcceptFails, ScanDone, Forward, LeaveTo
<1>4. Outgoing \in Message
  BY DEF Outgoing, NotSupported, TypeOK, Message, Kinds, ClientTypes
<1>5. CASE Forward
  <2>1. \A c \in Conns : Append(d2c[c], Outgoing) \in Seq(Message)
    BY <1>4, AppendProperties DEF TypeOK
  <2>2. d2c' \in [Conns -> Seq(Message)]
    BY <1>5, <2>1 DEF Forward, TypeOK
  <2>3. Info \in Message
    BY MsgType DEF Info, Kinds
  <2> QED
    BY <1>1, <1>2, <1>3, <1>5, <2>2, <2>3 DEF Forward, TypeOK
<1>6. CASE Select \/ AcceptFails \/ ScanDone
  <2>1. 1 \in Slots
    BY TableAssumption DEF Slots
  <2> QED
    BY <1>1, <1>2, <1>3, <1>6, <2>1
    DEF Select, AcceptFails, ScanDone, LeaveTo, clientVars, tableVars, TypeOK
<1> QED
  BY <1>5, <1>6

-----------------------------------------------------------------------------
LEMMA InitTable == Init => TableInv
<1>1. ASSUME Init PROVE UsedSlots = {}
  BY <1>1 DEF Init, UsedSlots
<1>2. Info \in Message /\ 1 \in Slots
  BY MsgType, TableAssumption DEF Info, Kinds, Slots
<1>3. ASSUME Init PROVE TypeOK
  BY <1>2, <1>3 DEF Init, TypeOK
<1>4. ASSUME Init PROVE SlotTable
  BY <1>1, <1>4, FS_EmptySet DEF Init, SlotTable
<1>5. ASSUME Init PROVE Links
  BY <1>5 DEF Init, Links
<1> QED
  BY <1>3, <1>4, <1>5 DEF TableInv

LEMMA StepTable == TableInv /\ [Next]_vars => TableInv'
<1> SUFFICES ASSUME TableInv, [Next]_vars PROVE TableInv'
  OBVIOUS
<1>1. ASSUME NEW c \in Conns, ClientStep(c) PROVE TableInv'
  BY <1>1, ClientKeepsTable
<1>2. ASSUME NEW f \in Fds, AcceptClient(f) \/ AcceptOverLimit(f) PROVE TableInv'
  BY <1>2, AcceptKeepsInv
<1>3. ASSUME NEW s \in Slots, ScanStep(s) PROVE TableInv'
  BY <1>3, ResetKeepsInv, ReadKeepsInv DEF ScanStep
<1>4. CASE Select \/ AcceptFails \/ ScanDone \/ Forward
  BY <1>4, OtherStepsKeepInv
<1>5. CASE UNCHANGED vars
  BY <1>5 DEF vars, clientVars, tableVars, TableInv, TypeOK, SlotTable, Links, UsedSlots, Peer
<1> QED
  BY <1>1, <1>2, <1>3, <1>4, <1>5 DEF Next, DispatcherStep

\* The slot table of hc_dispatcher.c is consistent in every reachable state:
\* accept() and reset_client keep client_num, the slots, the select set and
\* the open descriptors in step, whatever the clients do.
THEOREM TableIsConsistent == Spec => [](TypeOK /\ SlotTable)
<1>1. TableInv => TypeOK /\ SlotTable
  BY DEF TableInv
<1> QED
  BY <1>1, InitTable, StepTable, PTL DEF Spec

-----------------------------------------------------------------------------
(* Requests are stamped with their sender.  A slot may still hold the types *)
(* of its previous occupant when its client's first bytes arrive, so the    *)
(* invariant follows the CLIENT_INFO packet through the stream.             *)

Registered(s) ==
  clientType[s] = ClientType[Peer(s)] /\ socketType[s] = SocketType[Peer(s)]

\* What is told apart by its appid.
Routed == {"REQUEST", "REPLY"}

\* The stream of c starts, for all that matters, with its CLIENT_INFO packet.
AnnouncedFirst(c) ==
  /\ conn[c] = "open" => \E j \in 1 .. Len(c2d[c]) : c2d[c][j].kind = "INFO"
  /\ \A i \in 1 .. Len(c2d[c]) :
       c2d[c][i].kind \in Routed => \E j \in 1 .. (i - 1) : c2d[c][j].kind = "INFO"

OwnRequests ==
  \A c \in Conns : \A i \in 1 .. Len(c2d[c]) :
    c2d[c][i].kind = "REQUEST" => c2d[c][i].origin = c /\ SocketType[c] = "COMMAND"

SenderInv ==
  /\ \A c \in Conns : conn[c] \in {"idle", "connected"} => c2d[c] = <<>>
  /\ OwnRequests
  /\ \A k \in 1 .. Len(backlog) : AnnouncedFirst(backlog[k])
  /\ \A s \in UsedSlots : Registered(s) \/ AnnouncedFirst(Peer(s))
  /\ StampedWithSender

\* What a client's step may do to its own stream.
LEMMA ClientStream ==
  ASSUME TableInv, SenderInv, NEW c \in Conns, ClientStep(c)
  PROVE  /\ \A d \in Conns \ {c} : conn'[d] = conn[d] /\ c2d'[d] = c2d[d]
         /\ conn'[c] \in {"idle", "connected"} => c2d'[c] = <<>>
         /\ \A i \in 1 .. Len(c2d'[c]) :
              c2d'[c][i].kind = "REQUEST" => c2d'[c][i].origin = c /\ SocketType[c] = "COMMAND"
         /\ AnnouncedFirst(c) => AnnouncedFirst(c)'
         /\ conn[c] = "idle" => AnnouncedFirst(c)'
<1> USE DEF TableInv
<1>0. c2d[c] \in Seq(Message) /\ Len(c2d[c]) \in Nat
  BY DEF TypeOK
<1>1. CASE Connect(c)
  <2>1. conn'[c] = "connected" /\ c2d' = c2d /\ c2d[c] = <<>>
        /\ \A d \in Conns \ {c} : conn'[d] = conn[d]
    BY <1>1 DEF Connect, SenderInv, TypeOK
  <2>2. Len(c2d'[c]) = 0
    BY <2>1
  <2> QED
    BY <2>1, <2>2 DEF AnnouncedFirst
<1>2. CASE Register(c)
  <2>1. conn'[c] = "open" /\ c2d'[c] = <<Info>> /\ conn[c] = "connected"
        /\ \A d \in Conns \ {c} : conn'[d] = conn[d] /\ c2d'[d] = c2d[d]
    BY <1>2 DEF Register, TypeOK
  <2>2. Len(c2d'[c]) = 1 /\ c2d'[c][1].kind = "INFO" /\ c2d'[c][1].kind \notin Routed
    BY <2>1 DEF Info, Msg, Routed
  <2> QED
    BY <2>1, <2>2 DEF AnnouncedFirst
<1>3. ASSUME NEW m \in Message, c2d' = [c2d EXCEPT ![c] = Append(@, m)],
             m.kind \in Routed => conn[c] = "open",
             m.kind = "REQUEST" => m.origin = c /\ SocketType[c] = "COMMAND",
             conn[c] \notin {"idle", "connected"} \/ conn'[c] = "closed",
             conn'[c] = conn[c] \/ conn'[c] = "closed",
             conn[c] # "idle",
             \A d \in Conns \ {c} : conn'[d] = conn[d]
      PROVE  /\ \A d \in Conns \ {c} : conn'[d] = conn[d] /\ c2d'[d] = c2d[d]
             /\ conn'[c] \in {"idle", "connected"} => c2d'[c] = <<>>
             /\ \A i \in 1 .. Len(c2d'[c]) :
                  c2d'[c][i].kind = "REQUEST"
                    => c2d'[c][i].origin = c /\ SocketType[c] = "COMMAND"
             /\ AnnouncedFirst(c) => AnnouncedFirst(c)'
             /\ conn[c] = "idle" => AnnouncedFirst(c)'
  <2>1. c2d'[c] = Append(c2d[c], m) /\ \A d \in Conns \ {c} : c2d'[d] = c2d[d]
    BY <1>3 DEF TypeOK
  <2>2. /\ Len(c2d'[c]) = Len(c2d[c]) + 1
        /\ \A i \in 1 .. Len(c2d[c]) : c2d'[c][i] = c2d[c][i]
        /\ c2d'[c][Len(c2d[c]) + 1] = m
    BY <1>0, <2>1, AppendProperties
  <2>3. \A i \in 1 .. Len(c2d'[c]) : i \in 1 .. Len(c2d[c]) \/ i = Len(c2d[c]) + 1
    BY <1>0, <2>2
  <2>4. \A i \in 1 .. Len(c2d'[c]) :
          c2d'[c][i].kind = "REQUEST" => c2d'[c][i].origin = c /\ SocketType[c] = "COMMAND"
    BY <1>3, <2>2, <2>3 DEF SenderInv, OwnRequests
  <2>5. ASSUME AnnouncedFirst(c) PROVE AnnouncedFirst(c)'
    <3>1. conn'[c] = "open" => \E j \in 1 .. Len(c2d'[c]) : c2d'[c][j].kind = "INFO"
      BY <1>0, <1>3, <2>2, <2>5 DEF AnnouncedFirst
    <3>2. ASSUME NEW i \in 1 .. Len(c2d'[c]), c2d'[c][i].kind \in Routed
          PROVE  \E j \in 1 .. (i - 1) : c2d'[c][j].kind = "INFO"
      <4>1. CASE i \in 1 .. Len(c2d[c])
        <5>1. PICK j \in 1 .. (i - 1) : c2d[c][j].kind = "INFO"
          BY <2>2, <2>5, <3>2, <4>1 DEF AnnouncedFirst
        <5>2. j \in 1 .. Len(c2d[c])
          BY <1>0, <4>1
        <5> QED
          BY <2>2, <5>1, <5>2
      <4>2. CASE i = Len(c2d[c]) + 1
        <5>1. PICK j \in 1 .. Len(c2d[c]) : c2d[c][j].kind = "INFO"
          BY <1>3, <2>2, <2>5, <3>2, <4>2 DEF AnnouncedFirst
        <5> QED
          BY <1>0, <2>2, <4>2, <5>1
      <4> QED
        BY <2>3, <4>1, <4>2
    <3> QED
      BY <3>1, <3>2 DEF AnnouncedFirst
  <2> QED
    BY <1>3, <2>1, <2>4, <2>5
<1>4. ASSUME NEW m \in Message, ClientSend(c, m),
             m.kind = "REQUEST" => m.origin = c /\ SocketType[c] = "COMMAND"
      PROVE  /\ c2d' = [c2d EXCEPT ![c] = Append(@, m)]
             /\ conn[c] = "open" /\ conn' = conn
  BY <1>4 DEF ClientSend
<1>5. CASE \E dst \in Daemons \cup {DAEMON_ALL} : Request(c, dst)
  <2>1. PICK dst \in Daemons \cup {DAEMON_ALL} : Request(c, dst)
    BY <1>5
  <2>2. Msg("REQUEST", dst, 0, c) \in Message /\ Msg("REQUEST", dst, 0, c).origin = c
    BY MsgType DEF Kinds, ClientTypes, Msg
  <2>3. ClientSend(c, Msg("REQUEST", dst, 0, c)) /\ SocketType[c] = "COMMAND"
    BY <2>1 DEF Request
  <2> QED
    BY <1>3, <1>4, <2>2, <2>3
<1>6. CASE \E r \in todo[c] : Reply(c, r)
  <2>1. PICK r \in todo[c] : Reply(c, r)
    BY <1>6
  <2>2. r \in Message
    BY DEF TypeOK
  <2>3. /\ Msg("REPLY", APPLICATION, r.appid, r.origin) \in Message
        /\ Msg("REPLY", APPLICATION, r.appid, r.origin).kind = "REPLY"
    BY <2>2, MsgType DEF Kinds, ClientTypes, Message, Msg
  <2>4. ClientSend(c, Msg("REPLY", APPLICATION, r.appid, r.origin))
    BY <2>1 DEF Reply
  <2> QED
    BY <1>3, <1>4, <2>3, <2>4
<1>7. CASE Event(c)
  <2>1. /\ Msg("EVENT", APPLICATION, 0, NoConn) \in Message
        /\ Msg("EVENT", APPLICATION, 0, NoConn).kind = "EVENT"
    BY MsgType DEF Kinds, ClientTypes, Msg
  <2>2. ClientSend(c, Msg("EVENT", APPLICATION, 0, NoConn))
    BY <1>7 DEF Event
  <2> QED
    BY <1>3, <1>4, <2>1, <2>2
<1>8. CASE Receive(c)
  BY <1>8 DEF Receive, AnnouncedFirst, SenderInv, OwnRequests
<1>9. CASE Close(c)
  <2>1. /\ conn[c] # "idle" /\ conn'[c] = "closed"
        /\ \A d \in Conns \ {c} : conn'[d] = conn[d]
    BY <1>9 DEF Close, TypeOK
  <2>2. CASE c2d' = c2d
    BY <2>1, <2>2 DEF AnnouncedFirst, SenderInv, OwnRequests
  <2>3. ASSUME NEW t \in TornKinds, c2d' = [c2d EXCEPT ![c] = Append(@, TornMsg(t))]
        PROVE  c2d' = [c2d EXCEPT ![c] = Append(@, TornMsg(t))]
               /\ TornMsg(t) \in Message /\ TornMsg(t).kind = "EVENT"
               /\ TornMsg(t).kind \notin Routed
    BY <2>3, BoundsAssumption DEF TornMsg, Message, Kinds, ClientTypes, Routed
  <2>4. c2d' = c2d \/ \E t \in TornKinds : c2d' = [c2d EXCEPT ![c] = Append(@, TornMsg(t))]
    BY <1>9 DEF Close
  <2> QED
    BY <1>3, <2>1, <2>2, <2>3, <2>4
<1> QED
  BY <1>1, <1>2, <1>5, <1>6, <1>7, <1>8, <1>9 DEF ClientStep

LEMMA ClientKeepsSender ==
  ASSUME TableInv, SenderInv, NEW c \in Conns, ClientStep(c)
  PROVE  SenderInv'
<1> USE DEF TableInv
<1>1. /\ \A d \in Conns \ {c} : conn'[d] = conn[d] /\ c2d'[d] = c2d[d]
      /\ conn'[c] \in {"idle", "connected"} => c2d'[c] = <<>>
      /\ \A i \in 1 .. Len(c2d'[c]) :
           c2d'[c][i].kind = "REQUEST" => c2d'[c][i].origin = c /\ SocketType[c] = "COMMAND"
      /\ AnnouncedFirst(c) => AnnouncedFirst(c)'
      /\ conn[c] = "idle" => AnnouncedFirst(c)'
  BY ClientStream
<1>2. UNCHANGED <<fdtab, sockfd, clientType, socketType, pc, cur>>
  BY DEF ClientStep, tableVars
<1>3. \A d \in Conns : AnnouncedFirst(d) => AnnouncedFirst(d)'
  BY SMTT(30), <1>1 DEF AnnouncedFirst
<1>4. \A d \in Conns : conn'[d] \in {"idle", "connected"} => c2d'[d] = <<>>
  BY <1>1 DEF SenderInv
<1>5. OwnRequests'
  BY <1>1 DEF SenderInv, OwnRequests
<1>6. ASSUME NEW s \in UsedSlots' PROVE Registered(s)' \/ AnnouncedFirst(Peer(s))'
  <2>1. s \in UsedSlots /\ Peer(s) \in Conns /\ Peer(s)' = Peer(s)
    BY <1>2 DEF TypeOK, SlotTable, Peer, UsedSlots
  <2>2. CASE Registered(s)
    BY <1>2, <2>1, <2>2 DEF Registered
  <2>3. CASE AnnouncedFirst(Peer(s))
    BY <1>3, <2>1, <2>3 DEF AnnouncedFirst
  <2> QED
    BY <2>1, <2>2, <2>3 DEF SenderInv
<1>7. ASSUME NEW k \in 1 .. Len(backlog') PROVE AnnouncedFirst(backlog[k])'
  <2>1. CASE backlog' = backlog
    <3>1. backlog[k] \in Conns /\ AnnouncedFirst(backlog[k])
      BY <2>1, ElementOfSeq DEF TypeOK, SenderInv
    <3>2. PICK d \in Conns : d = backlog[k]
      BY <3>1
    <3>3. AnnouncedFirst(d)'
      BY <1>3, <3>1, <3>2
    <3>4. backlog'[k] = d
      BY <2>1, <3>2
    <3> QED
      BY <3>3, <3>4 DEF AnnouncedFirst
  <2>2. CASE conn[c] = "idle" /\ backlog' = Append(backlog, c)
    <3>1. /\ Len(backlog') = Len(backlog) + 1
          /\ backlog'[Len(backlog) + 1] = c
          /\ \A i \in 1 .. Len(backlog) : backlog'[i] = backlog[i]
          /\ Len(backlog) \in Nat
      BY <2>2, AppendProperties DEF TypeOK
    <3>2. CASE k \in 1 .. Len(backlog)
      <4>1. backlog[k] \in Conns /\ AnnouncedFirst(backlog[k])
        BY <3>2, ElementOfSeq DEF TypeOK, SenderInv
      <4>2. PICK d \in Conns : d = backlog[k]
        BY <4>1
      <4>3. AnnouncedFirst(d)'
        BY <1>3, <4>1, <4>2
      <4>4. backlog'[k] = d
        BY <3>1, <3>2, <4>2
      <4> QED
        BY <4>3, <4>4 DEF AnnouncedFirst
    <3>3. CASE k = Len(backlog) + 1
      BY <1>1, <2>2, <3>1, <3>3 DEF AnnouncedFirst
    <3> QED
      BY <3>1, <3>2, <3>3
  <2>3. backlog' = backlog \/ (conn[c] = "idle" /\ backlog' = Append(backlog, c))
    <3>1. CASE Connect(c)
      BY <3>1 DEF Connect
    <3>2. CASE Register(c) \/ Event(c) \/ Receive(c) \/ Close(c)
      BY <3>2 DEF Register, Event, ClientSend, Receive, Close
    <3>3. CASE \E dst \in Daemons \cup {DAEMON_ALL} : Request(c, dst)
      BY <3>3 DEF Request, ClientSend
    <3>4. CASE \E q \in todo[c] : Reply(c, q)
      BY <3>4 DEF Reply, ClientSend
    <3> QED
      BY <3>1, <3>2, <3>3, <3>4 DEF ClientStep
  <2> QED
    BY <2>1, <2>2, <2>3
<1>8. StampedWithSender'
  BY <1>2 DEF SenderInv, StampedWithSender
<1> QED
  BY <1>4, <1>5, <1>6, <1>7, <1>8 DEF SenderInv

\* Steps that read nothing and leave the slots' clients as they are, or drop
\* some of them.
LEMMA QuietStepsKeepSender ==
  ASSUME TableInv, SenderInv,
         \/ Select \/ AcceptFails \/ ScanDone \/ Forward
         \/ \E s \in Slots : ScanClosed(s) \/ ScanTornData(s)
  PROVE  SenderInv'
<1> USE DEF TableInv
<1>1. UNCHANGED <<conn, c2d, backlog, clientType, socketType>> /\ pc' # "forward"
  BY DEF Select, AcceptFails, ScanDone, Forward, ScanClosed, ScanTornData, reset_client,
         Advance, LeaveTo, clientVars, tableVars
<1>2. ASSUME NEW s \in UsedSlots' PROVE s \in UsedSlots /\ Peer(s)' = Peer(s)
  <2>1. CASE UNCHANGED <<sockfd, fdtab>>
    BY <2>1 DEF UsedSlots, Peer
  <2>2. ASSUME NEW t \in Slots, ScanAt(t), reset_client(t)
        PROVE  s \in UsedSlots /\ Peer(s)' = Peer(s)
    <3>1. sockfd[t] \in Fds /\ t \in UsedSlots
      BY <2>2, PeerOfSlot
    <3>2. s \in UsedSlots /\ s # t /\ sockfd'[s] = sockfd[s]
      BY <2>2, <3>1 DEF reset_client, UsedSlots, TypeOK
    <3>3. sockfd[s] # sockfd[t] /\ sockfd[s] \in Fds
      BY <3>1, <3>2 DEF SlotTable, TypeOK, UsedSlots
    <3> QED
      BY <2>2, <3>2, <3>3 DEF reset_client, Peer, TypeOK
  <2> QED
    BY <2>1, <2>2 DEF Select, AcceptFails, ScanDone, Forward, ScanClosed, ScanTornData, tableVars
<1>3. ASSUME NEW s \in UsedSlots' PROVE Registered(s)' \/ AnnouncedFirst(Peer(s))'
  BY <1>1, <1>2 DEF SenderInv, Registered, AnnouncedFirst
<1>4. ASSUME NEW k \in 1 .. Len(backlog') PROVE AnnouncedFirst(backlog[k])'
  <2>1. AnnouncedFirst(backlog[k])
    BY <1>1 DEF SenderInv
  <2> QED
    BY <1>1, <2>1 DEF AnnouncedFirst
<1>5. OwnRequests'
  BY <1>1 DEF SenderInv, OwnRequests
<1>6. \A c \in Conns : conn'[c] \in {"idle", "connected"} => c2d'[c] = <<>>
  BY <1>1 DEF SenderInv
<1> QED
  BY <1>1, <1>3, <1>4, <1>5, <1>6 DEF SenderInv, StampedWithSender

\* A slot is handed over with the stream of its new client unread.
LEMMA AcceptKeepsSender ==
  ASSUME TableInv, SenderInv, NEW f \in Fds, AcceptClient(f) \/ AcceptOverLimit(f)
  PROVE  SenderInv'
<1> USE DEF TableInv
<1>1. /\ TakeFd(f) /\ pc' # "forward"
      /\ UNCHANGED <<conn, c2d, clientType, socketType>>
      /\ fdtab[f] = NoConn
      /\ fdtab' = [fdtab EXCEPT ![f] = Head(backlog)]
      /\ backlog' = Tail(backlog)
  BY DEF AcceptClient, AcceptOverLimit, TakeFd, FreeFds, LeaveTo
<1>2. backlog \in Seq(Conns) /\ backlog # <<>>
  BY <1>1 DEF TakeFd, TypeOK, Links
<1>3. /\ Len(Tail(backlog)) = Len(backlog) - 1
      /\ \A i \in 1 .. Len(Tail(backlog)) : Tail(backlog)[i] = backlog[i + 1]
      /\ Len(backlog) \in Nat \ {0}
      /\ Head(backlog) = backlog[1]
  BY <1>2, HeadTailProperties, EmptySeq
<1>4. \A k \in 1 .. Len(backlog) : AnnouncedFirst(backlog[k])
  BY DEF SenderInv
<1>5. ASSUME NEW k \in 1 .. Len(backlog') PROVE AnnouncedFirst(backlog[k])'
  <2>1. k + 1 \in 1 .. Len(backlog) /\ backlog'[k] = backlog[k + 1]
    BY <1>1, <1>3
  <2>2. AnnouncedFirst(backlog[k + 1])
    BY <1>4, <2>1
  <2> QED
    BY <1>1, <2>1, <2>2 DEF AnnouncedFirst
<1>6. AnnouncedFirst(Head(backlog))
  BY <1>3, <1>4
<1>7. ASSUME NEW s \in UsedSlots' PROVE Registered(s)' \/ AnnouncedFirst(Peer(s))'
  <2>1. ASSUME s \in UsedSlots, sockfd'[s] = sockfd[s]
        PROVE  Registered(s)' \/ AnnouncedFirst(Peer(s))'
    <3>1. sockfd[s] \in Fds /\ sockfd[s] # f
      BY <1>1, <2>1 DEF SlotTable, TypeOK, UsedSlots, Peer
    <3>2. Peer(s)' = Peer(s)
      BY <1>1, <2>1, <3>1 DEF Peer, TypeOK
    <3> QED
      BY <1>1, <2>1, <3>2 DEF SenderInv, Registered, AnnouncedFirst
  <2>2. ASSUME sockfd'[s] = f PROVE AnnouncedFirst(Peer(s))'
    <3>1. Peer(s)' = Head(backlog)
      BY <1>1, <2>2 DEF Peer, TypeOK
    <3> QED
      BY <1>1, <1>6, <3>1 DEF AnnouncedFirst
  <2>3. CASE AcceptOverLimit(f)
    <3>1. sockfd' = sockfd
      BY <2>3 DEF AcceptOverLimit
    <3> QED
      BY <2>1, <3>1 DEF UsedSlots
  <2>4. CASE AcceptClient(f)
    <3>1. FreeSlots # {}
      BY <2>4, FreeSlotExists DEF AcceptClient
    <3>2. PICK t \in FreeSlots : sockfd' = [sockfd EXCEPT ![t] = f]
      BY <2>4, <3>1 DEF AcceptClient
    <3>3. sockfd'[s] = IF s = t THEN f ELSE sockfd[s]
      BY <3>2 DEF TypeOK, UsedSlots
    <3>4. s # t => s \in UsedSlots
      BY <3>3 DEF UsedSlots
    <3> QED
      BY <2>1, <2>2, <3>3, <3>4
  <2> QED
    BY <2>3, <2>4
<1> QED
  BY <1>1, <1>5, <1>7 DEF SenderInv, OwnRequests, StampedWithSender

\* A request or an answer is only read from a slot that is registered.
LEMMA RoutedAfterInfo ==
  ASSUME TableInv, SenderInv, NEW s \in Slots, ReadFrom(s),
         Head(c2d[Peer(s)]).kind \in Routed
  PROVE  Registered(s)
<1>1. s \in UsedSlots /\ c2d[Peer(s)] \in Seq(Message) /\ c2d[Peer(s)] # <<>>
  BY PeerOfSlot DEF ReadFrom, TableInv, TypeOK
<1>2. /\ 1 \in 1 .. Len(c2d[Peer(s)]) /\ 1 .. (1 - 1) = {}
      /\ Head(c2d[Peer(s)]) = c2d[Peer(s)][1]
  BY <1>1, EmptySeq
<1>3. ~AnnouncedFirst(Peer(s))
  BY <1>2 DEF AnnouncedFirst
<1> QED
  BY <1>1, <1>3 DEF SenderInv

\* Reading one message: the CLIENT_INFO packet registers the slot, and a
\* request is only reached once it has.
LEMMA ReadKeepsSender ==
  ASSUME TableInv, SenderInv, NEW s \in Slots, ScanInfo(s) \/ ScanMessage(s)
  PROVE  SenderInv'
<1> USE DEF TableInv
<1> DEFINE c == Peer(s)
           q == c2d[c]
<1>1. /\ ReadFrom(s) /\ ScanAt(s)
      /\ UNCHANGED <<conn, backlog, fdtab, sockfd>>
      /\ c2d' = [c2d EXCEPT ![c] = Tail(q)]
      /\ q # <<>>
  BY DEF ScanInfo, ScanMessage, ReadFrom, tableVars
<1>2. sockfd[s] \in Fds /\ c \in Conns /\ s \in UsedSlots
  BY <1>1, PeerOfSlot
<1>3. /\ q \in Seq(Message) /\ Tail(q) \in Seq(Message) /\ Len(q) \in Nat \ {0}
      /\ Len(Tail(q)) = Len(q) - 1
      /\ \A i \in 1 .. Len(Tail(q)) : Tail(q)[i] = q[i + 1]
      /\ Head(q) = q[1]
  BY <1>1, <1>2, HeadTailProperties, EmptySeq DEF TypeOK
<1> HIDE DEF q
<1>4. c2d'[c] = Tail(q) /\ \A d \in Conns \ {c} : c2d'[d] = c2d[d]
  BY <1>1, <1>2 DEF TypeOK
<1>5. \A i \in 1 .. Len(c2d'[c]) : i + 1 \in 1 .. Len(q) /\ c2d'[c][i] = q[i + 1]
  BY <1>3, <1>4
<1>6. OwnRequests'
  <2>1. ASSUME NEW i \in 1 .. Len(c2d'[c]), c2d'[c][i].kind = "REQUEST"
        PROVE  c2d'[c][i].origin = c /\ SocketType[c] = "COMMAND"
    BY <1>2, <1>5, <2>1 DEF SenderInv, OwnRequests, q
  <2>2. ASSUME NEW d \in Conns, d # c, NEW i \in 1 .. Len(c2d'[d]),
               c2d'[d][i].kind = "REQUEST"
        PROVE  c2d'[d][i].origin = d /\ SocketType[d] = "COMMAND"
    <3>1. c2d'[d] = c2d[d]
      BY <1>4, <2>2
    <3> QED
      BY <2>2, <3>1 DEF SenderInv, OwnRequests
  <2> QED
    BY <2>1, <2>2 DEF OwnRequests
<1>7. \A d \in Conns : conn'[d] \in {"idle", "connected"} => c2d'[d] = <<>>
  <2>1. conn[c] \notin {"idle", "connected"}
    BY <1>1, <1>2 DEF SenderInv, q
  <2> QED
    BY <1>1, <1>4, <2>1 DEF SenderInv
<1>8. \A d \in Conns \ {c} : AnnouncedFirst(d) => AnnouncedFirst(d)'
  BY <1>1, <1>4 DEF AnnouncedFirst
<1>9. ASSUME NEW k \in 1 .. Len(backlog') PROVE AnnouncedFirst(backlog[k])'
  <2>1. backlog[k] \in Conns \ {c} /\ AnnouncedFirst(backlog[k])
    BY <1>1, <1>2, ElementOfSeq DEF TypeOK, Links, SenderInv, Peer
  <2> QED
    BY <1>1, <1>4, <2>1 DEF AnnouncedFirst
<1>10. ASSUME NEW t \in UsedSlots', t # s PROVE Registered(t)' \/ AnnouncedFirst(Peer(t))'
  <2>1. t \in UsedSlots /\ Peer(t)' = Peer(t)
    BY <1>1 DEF UsedSlots, Peer
  <2>2. Peer(t) \in Conns \ {c}
    BY <1>2, <1>10, <2>1 DEF SlotTable, TypeOK, Peer, UsedSlots
  <2>3. clientType'[t] = clientType[t] /\ socketType'[t] = socketType[t]
    BY <1>10, <2>1 DEF ScanInfo, ScanMessage, tableVars, TypeOK, UsedSlots
  <2> QED
    BY <1>1, <1>4, <2>1, <2>2, <2>3 DEF SenderInv, Registered, AnnouncedFirst
<1>11. CASE ScanInfo(s)
  <2>1. Registered(s)'
    BY <1>1, <1>2, <1>11 DEF ScanInfo, Registered, Peer, TypeOK
  <2>2. pc' # "forward"
    BY <1>11 DEF ScanInfo, Advance, LeaveTo
  <2> QED
    BY <1>6, <1>7, <1>9, <1>10, <2>1, <2>2 DEF SenderInv, StampedWithSender
<1>12. CASE ScanMessage(s)
  <2>1. q[1].kind # "INFO" /\ UNCHANGED <<clientType, socketType>>
        /\ cur' = Stamped(s, q[1])
    BY <1>3, <1>12 DEF ScanMessage, tableVars, q
  <2>2. q[1].kind \in Routed => Registered(s)
    BY <1>1, <1>3, RoutedAfterInfo DEF q
  <2>3. Registered(s)' \/ AnnouncedFirst(Peer(s))'
    <3>1. CASE Registered(s)
      BY <1>1, <2>1, <3>1 DEF Registered, Peer
    <3>2. CASE AnnouncedFirst(c)
      <4>1. ASSUME NEW j \in 1 .. Len(q), q[j].kind = "INFO"
            PROVE  j - 1 \in 1 .. Len(c2d'[c]) /\ c2d'[c][j - 1].kind = "INFO"
        <5>1. j # 1
          BY <2>1, <4>1
        <5>2. j - 1 \in 1 .. Len(c2d'[c]) /\ (j - 1) + 1 = j
          BY <1>3, <1>4, <5>1
        <5> QED
          BY <1>5, <4>1, <5>2
      <4>2. conn'[c] = "open" => \E j \in 1 .. Len(c2d'[c]) : c2d'[c][j].kind = "INFO"
        BY <1>1, <3>2, <4>1 DEF AnnouncedFirst, q
      <4>3. ASSUME NEW i \in 1 .. Len(c2d'[c]), c2d'[c][i].kind \in Routed
            PROVE  \E j \in 1 .. (i - 1) : c2d'[c][j].kind = "INFO"
        <5>1. i + 1 \in 1 .. Len(q) /\ q[i + 1].kind \in Routed
          BY <1>5, <4>3
        <5>2. PICK j \in 1 .. ((i + 1) - 1) : q[j].kind = "INFO"
          BY <3>2, <5>1 DEF AnnouncedFirst, q
        <5>3. j \in 1 .. Len(q) /\ j <= i
          BY <1>3, <5>1, <5>2
        <5>4. j - 1 \in 1 .. Len(c2d'[c]) /\ c2d'[c][j - 1].kind = "INFO"
          BY <4>1, <5>2, <5>3
        <5> QED
          BY <5>3, <5>4
      <4>4. Peer(s)' = c
        BY <1>1 DEF Peer
      <4> QED
        BY <4>2, <4>3, <4>4 DEF AnnouncedFirst
    <3> QED
      BY <1>2, <3>1, <3>2 DEF SenderInv
  <2>4. StampedWithSender'
    <3>1. SUFFICES ASSUME cur'.kind = "REQUEST"
                   PROVE  /\ cur'.src = APPLICATION
                          /\ cur'.appid \in Fds
                          /\ fdtab'[cur'.appid] = cur'.origin
      BY DEF StampedWithSender
    <3>2. q[1] \in Message
      BY <1>3, ElementOfSeq
    <3>3. /\ cur'.kind = q[1].kind
          /\ cur'.origin = q[1].origin
          /\ cur'.src = clientType[s]
          /\ cur'.appid = IF socketType[s] = "COMMAND" THEN sockfd[s] ELSE q[1].appid
      BY <2>1, <3>2 DEF Stamped, Message
    <3>4. q[1].origin = c /\ SocketType[c] = "COMMAND" /\ Registered(s)
      BY <1>2, <1>3, <2>2, <3>1, <3>3 DEF SenderInv, OwnRequests, Routed, q
    <3> QED
      BY <1>1, <1>2, <3>3, <3>4, ConnsAssumption DEF Registered, Peer
  <2> QED
    BY <1>6, <1>7, <1>9, <1>10, <2>3, <2>4 DEF SenderInv
<1> QED
  BY <1>11, <1>12

LEMMA InitSender == Init => SenderInv
<1>1. ASSUME Init
      PROVE  /\ \A c \in Conns : c2d[c] = <<>> /\ Len(c2d[c]) = 0
             /\ Len(backlog) = 0 /\ UsedSlots = {} /\ pc # "forward"
  BY <1>1 DEF Init, UsedSlots
<1> QED
  BY <1>1 DEF SenderInv, OwnRequests, StampedWithSender

LEMMA StepSender == TableInv /\ SenderInv /\ [Next]_vars => SenderInv'
<1> SUFFICES ASSUME TableInv, SenderInv, [Next]_vars PROVE SenderInv'
  OBVIOUS
<1>1. ASSUME NEW c \in Conns, ClientStep(c) PROVE SenderInv'
  BY <1>1, ClientKeepsSender
<1>2. ASSUME NEW f \in Fds, AcceptClient(f) \/ AcceptOverLimit(f) PROVE SenderInv'
  BY <1>2, AcceptKeepsSender
<1>3. ASSUME NEW s \in Slots, ScanStep(s) PROVE SenderInv'
  BY <1>3, QuietStepsKeepSender, ReadKeepsSender DEF ScanStep
<1>4. CASE Select \/ AcceptFails \/ ScanDone \/ Forward
  BY <1>4, QuietStepsKeepSender
<1>5. CASE UNCHANGED vars
  <2>1. UNCHANGED <<conn, c2d, backlog, fdtab, sockfd, clientType, socketType, pc, cur>>
    BY <1>5 DEF vars, clientVars, tableVars
  <2>2. ASSUME NEW k \in 1 .. Len(backlog') PROVE AnnouncedFirst(backlog[k])'
    BY <2>1 DEF SenderInv, AnnouncedFirst
  <2>3. ASSUME NEW s \in UsedSlots' PROVE Registered(s)' \/ AnnouncedFirst(Peer(s))'
    BY <2>1 DEF SenderInv, AnnouncedFirst, Registered, UsedSlots, Peer
  <2> QED
    BY <2>1, <2>2, <2>3 DEF SenderInv, OwnRequests, StampedWithSender
<1> QED
  BY <1>1, <1>2, <1>3, <1>4, <1>5 DEF Next, DispatcherStep

\* A request is forwarded with the type and the descriptor of the client that
\* wrote it, in every reachable state: the appid a daemon sends back later
\* was right when it was given out.
THEOREM RequestsAreStamped == Spec => []StampedWithSender
<1>1. Init => TableInv
  BY InitTable
<1>2. Init => SenderInv
  BY InitSender
<1>3. TableInv /\ [Next]_vars => TableInv'
  BY StepTable
<1>4. TableInv /\ SenderInv /\ [Next]_vars => SenderInv'
  BY StepSender
<1>5. SenderInv => StampedWithSender
  BY DEF SenderInv
<1> QED
  BY <1>1, <1>2, <1>3, <1>4, <1>5, PTL DEF Spec

-----------------------------------------------------------------------------
(* Answers reach the socket that asked.  The dispatcher forgets a           *)
(* descriptor only when its client has closed (this is where select()'s     *)
(* snapshot matters), so the appid a request was stamped with stays the     *)
(* sender's own as long as the sender is there, wherever the request or its *)
(* answer is: in a stream, in a daemon's task or in the dispatcher's hands. *)

Elements(q) == {q[i] : i \in 1 .. Len(q)}

\* appid still says who sent m, if the sender is still there.
Valid(m) ==
  /\ m.origin \in Conns
  /\ \/ conn[m.origin] = "closed"
     \/ m.appid \in Fds /\ fdtab[m.appid] = m.origin

\* m is in the stream client c writes.
StreamOk(c, m) ==
  /\ m.torn # "whole" => conn[c] = "closed"
  /\ m.kind = "REPLY" => Valid(m) /\ SocketType[c] # "COMMAND"
  /\ m.kind \in {"REPLY", "EVENT"} => m.dst = APPLICATION

\* m is in the stream client c reads.
DeliveredOk(c, m) ==
  /\ m.kind = "REQUEST" => Valid(m)
  /\ m.kind = "REPLY" => m.origin = c \/ (m.origin \in Conns /\ conn[m.origin] = "closed")

\* r is a task of the daemon c.
TaskOk(c, r) == r.kind = "REQUEST" /\ Valid(r) /\ ClientType[c] \in Daemons

\* m is about to be forwarded.
ForwardOk(m) ==
  /\ m.kind # "INFO"
  /\ m.kind \in Routed => Valid(m)
  /\ m.kind \in {"REPLY", "EVENT"} => m.dst = APPLICATION

\* What select() said of a slot is still true when the scan gets to it.
SnapshotInv ==
  /\ pc \in {"accept", "scan"} => \A s \in Pending : Readable(sockfd[s])
  /\ pc = "accept" => ready \subseteq rfds

MessagesInv ==
  /\ \A c \in Conns : \A m \in Elements(c2d[c]) : StreamOk(c, m)
  /\ \A c \in Conns : \A m \in Elements(d2c[c]) : DeliveredOk(c, m)
  /\ \A c \in Conns : \A r \in todo[c] : TaskOk(c, r)
  /\ pc = "forward" => ForwardOk(cur)

AnswerInv == MessagesInv /\ SnapshotInv

\* The elements of the sequences the model builds.
LEMMA ElementsOfSeq ==
  ASSUME NEW S, NEW q \in Seq(S), NEW m \in S
  PROVE  /\ Elements(q) \subseteq S
         /\ Elements(Append(q, m)) \subseteq Elements(q) \cup {m}
         /\ q # <<>> => Head(q) \in Elements(q) /\ Elements(Tail(q)) \subseteq Elements(q)
<1>1. Elements(q) \subseteq S
  BY ElementOfSeq DEF Elements
<1>2. Elements(Append(q, m)) \subseteq Elements(q) \cup {m}
  <2>1. /\ Len(Append(q, m)) = Len(q) + 1 /\ Len(q) \in Nat
        /\ \A i \in 1 .. Len(q) : Append(q, m)[i] = q[i]
        /\ Append(q, m)[Len(q) + 1] = m
    BY AppendProperties
  <2>2. \A i \in 1 .. Len(Append(q, m)) : i \in 1 .. Len(q) \/ i = Len(q) + 1
    BY <2>1
  <2> QED
    BY <2>1, <2>2 DEF Elements
<1>3. ASSUME q # <<>>
      PROVE  Head(q) \in Elements(q) /\ Elements(Tail(q)) \subseteq Elements(q)
  <2>1. /\ Len(Tail(q)) = Len(q) - 1 /\ Len(q) \in Nat \ {0}
        /\ \A i \in 1 .. Len(Tail(q)) : Tail(q)[i] = q[i + 1]
        /\ Head(q) = q[1]
    BY <1>3, HeadTailProperties, EmptySeq
  <2>2. 1 \in 1 .. Len(q) /\ \A i \in 1 .. Len(Tail(q)) : i + 1 \in 1 .. Len(q)
    BY <2>1
  <2> QED
    BY <2>1, <2>2 DEF Elements
<1> QED
  BY <1>1, <1>2, <1>3

LEMMA ElementsOfShort ==
  /\ Elements(<<>>) = {}
  /\ \A m : Elements(<<m>>) = {m}
<1>1. Len(<<>>) = 0 /\ \A m : Len(<<m>>) = 1 /\ <<m>>[1] = m
  OBVIOUS
<1> QED
  BY <1>1 DEF Elements

\* A closed connection stays closed.
LEMMA ClosedStays ==
  ASSUME TableInv, [Next]_vars, NEW c \in Conns, conn[c] = "closed"
  PROVE  conn'[c] = "closed"
<1>1. ASSUME NEW d \in Conns, ClientStep(d) PROVE conn'[c] = "closed"
  <2>1. CASE \E dst \in Daemons \cup {DAEMON_ALL} : Request(d, dst)
    BY <2>1 DEF Request, ClientSend
  <2>2. CASE \E r \in todo[d] : Reply(d, r)
    BY <2>2 DEF Reply, ClientSend
  <2>3. CASE Connect(d) \/ Register(d) \/ Close(d)
    BY <2>3 DEF Connect, Register, Close, TableInv, TypeOK
  <2>4. CASE Event(d) \/ Receive(d)
    BY <2>4 DEF Event, ClientSend, Receive
  <2> QED
    BY <1>1, <2>1, <2>2, <2>3, <2>4 DEF ClientStep
<1>2. ASSUME NEW s \in Slots, ScanStep(s) PROVE conn' = conn
  BY <1>2 DEF ScanStep, ScanClosed, ScanTornData, ScanInfo, ScanMessage, ReadFrom, clientVars
<1>3. ASSUME NEW f \in Fds, AcceptClient(f) \/ AcceptOverLimit(f) PROVE conn' = conn
  BY <1>3 DEF AcceptClient, AcceptOverLimit, TakeFd
<1>4. CASE Select \/ AcceptFails \/ ScanDone \/ Forward \/ UNCHANGED vars
  BY <1>4 DEF Select, AcceptFails, ScanDone, Forward, clientVars, vars
<1> QED
  BY <1>1, <1>2, <1>3, <1>4 DEF Next, DispatcherStep

\* A slot the scan drops belongs to a client that has closed.
LEMMA DroppedIsClosed ==
  ASSUME TableInv, AnswerInv, NEW s \in Slots, ScanClosed(s) \/ ScanTornData(s)
  PROVE  conn[Peer(s)] = "closed"
<1>1. ScanAt(s) /\ pc = "scan" /\ s \in Pending
  BY DEF ScanClosed, ScanTornData, ScanAt
<1>2. sockfd[s] \in Fds /\ Peer(s) \in Conns
  BY <1>1, PeerOfSlot
<1>3. CASE c2d[Peer(s)] = <<>>
  BY <1>1, <1>3 DEF AnswerInv, SnapshotInv, Readable, Peer
<1>4. CASE c2d[Peer(s)] # <<>> /\ Head(c2d[Peer(s)]).torn \in {"head", "data"}
  <2>1. c2d[Peer(s)] \in Seq(Message)
    BY <1>2 DEF TableInv, TypeOK
  <2>2. Head(c2d[Peer(s)]) \in Elements(c2d[Peer(s)])
    BY <1>4, <2>1, HeadTailProperties, ElementsOfSeq
  <2> QED
    BY <1>2, <1>4, <2>2 DEF AnswerInv, MessagesInv, StreamOk
<1> QED
  BY <1>3, <1>4 DEF ScanClosed, ScanTornData

\* A descriptor keeps its connection until that has closed.
LEMMA DescriptorKept ==
  ASSUME TableInv, AnswerInv, [Next]_vars, NEW f \in Fds, fdtab[f] # NoConn
  PROVE  fdtab'[f] = fdtab[f] \/ conn[fdtab[f]] = "closed"
<1> USE DEF TableInv
<1>1. ASSUME NEW c \in Conns, ClientStep(c) PROVE fdtab' = fdtab
  BY <1>1 DEF ClientStep, tableVars
<1>2. ASSUME NEW s \in Slots, ScanClosed(s) \/ ScanTornData(s)
      PROVE  fdtab'[f] = fdtab[f] \/ conn[fdtab[f]] = "closed"
  <2>1. conn[Peer(s)] = "closed"
    BY <1>2, DroppedIsClosed
  <2>2. fdtab' = [fdtab EXCEPT ![sockfd[s]] = NoConn]
    BY <1>2 DEF ScanClosed, ScanTornData, reset_client
  <2> QED
    BY <2>1, <2>2 DEF Peer, TypeOK
<1>3. ASSUME NEW s \in Slots, ScanInfo(s) \/ ScanMessage(s) PROVE fdtab' = fdtab
  BY <1>3 DEF ScanInfo, ScanMessage, tableVars
<1>4. ASSUME NEW g \in Fds, AcceptClient(g) \/ AcceptOverLimit(g) PROVE fdtab'[f] = fdtab[f]
  <2>1. fdtab[g] = NoConn /\ fdtab' = [fdtab EXCEPT ![g] = Head(backlog)]
    BY <1>4 DEF AcceptClient, AcceptOverLimit, TakeFd, FreeFds
  <2> QED
    BY <2>1 DEF TypeOK
<1>5. CASE Select \/ AcceptFails \/ ScanDone \/ Forward \/ UNCHANGED vars
  BY <1>5 DEF Select, AcceptFails, ScanDone, Forward, tableVars, vars
<1> QED
  BY <1>1, <1>2, <1>3, <1>4, <1>5 DEF Next, DispatcherStep, ScanStep

\* What is right of a message stays right.
LEMMA ValidKept ==
  ASSUME TableInv, AnswerInv, [Next]_vars, NEW m, Valid(m)
  PROVE  Valid(m)'
<1>1. CASE conn[m.origin] = "closed"
  BY <1>1, ClosedStays DEF Valid
<1>2. CASE m.appid \in Fds /\ fdtab[m.appid] = m.origin
  <2>1. fdtab'[m.appid] = fdtab[m.appid] \/ conn[fdtab[m.appid]] = "closed"
    BY <1>2, DescriptorKept, ConnsAssumption DEF Valid
  <2> QED
    BY <1>2, <2>1, ClosedStays DEF Valid
<1> QED
  BY <1>1, <1>2 DEF Valid

LEMMA MessageKept ==
  ASSUME TableInv, AnswerInv, [Next]_vars, NEW c \in Conns, NEW m
  PROVE  /\ StreamOk(c, m) => StreamOk(c, m)'
         /\ DeliveredOk(c, m) => DeliveredOk(c, m)'
         /\ TaskOk(c, m) => TaskOk(c, m)'
<1>1. Valid(m) => Valid(m)'
  BY ValidKept
<1>2. \A d \in Conns : conn[d] = "closed" => conn'[d] = "closed"
  BY ClosedStays
<1>3. StreamOk(c, m) => StreamOk(c, m)'
  BY <1>1, <1>2 DEF StreamOk
<1>4. DeliveredOk(c, m) => DeliveredOk(c, m)'
  BY <1>1, <1>2 DEF DeliveredOk
<1> QED
  BY <1>1, <1>3, <1>4 DEF TaskOk

LEMMA ForwardKept ==
  ASSUME TableInv, AnswerInv, [Next]_vars, NEW m, ForwardOk(m)
  PROVE  ForwardOk(m)'
<1>1. Valid(m) => Valid(m)'
  BY ValidKept
<1> QED
  BY <1>1 DEF ForwardOk

\* What a step has to be shown to do: the messages it adds to a stream, to a
\* daemon's tasks or to the dispatcher's hands are right when they get there.
LEMMA NewMessages ==
  ASSUME TableInv, AnswerInv, [Next]_vars,
         \A c \in Conns : \A m \in Elements(c2d'[c]) \ Elements(c2d[c]) : StreamOk(c, m)',
         \A c \in Conns : \A m \in Elements(d2c'[c]) \ Elements(d2c[c]) : DeliveredOk(c, m)',
         \A c \in Conns : \A r \in todo'[c] \ todo[c] : TaskOk(c, r)',
         pc' = "forward" => ForwardOk(cur)' \/ (pc = "forward" /\ cur' = cur)
  PROVE  MessagesInv'
<1>1. ASSUME NEW c \in Conns, NEW m \in Elements(c2d'[c]) PROVE StreamOk(c, m)'
  <2>1. CASE m \in Elements(c2d[c])
    <3>1. StreamOk(c, m)
      BY <2>1 DEF AnswerInv, MessagesInv
    <3> QED
      BY <3>1, MessageKept
  <2> QED
    BY <2>1
<1>2. ASSUME NEW c \in Conns, NEW m \in Elements(d2c'[c]) PROVE DeliveredOk(c, m)'
  <2>1. CASE m \in Elements(d2c[c])
    <3>1. DeliveredOk(c, m)
      BY <2>1 DEF AnswerInv, MessagesInv
    <3> QED
      BY <3>1, MessageKept
  <2> QED
    BY <2>1
<1>3. ASSUME NEW c \in Conns, NEW r \in todo'[c] PROVE TaskOk(c, r)'
  <2>1. CASE r \in todo[c]
    <3>1. TaskOk(c, r)
      BY <2>1 DEF AnswerInv, MessagesInv
    <3> QED
      BY <3>1, MessageKept
  <2> QED
    BY <2>1
<1>4. ASSUME pc' = "forward" PROVE ForwardOk(cur)'
  <2>1. CASE pc = "forward" /\ cur' = cur
    <3>1. PICK m : m = cur
      OBVIOUS
    <3>2. ForwardOk(m)
      BY <2>1, <3>1 DEF AnswerInv, MessagesInv
    <3>3. ForwardOk(m)'
      BY <3>2, ForwardKept
    <3> QED
      BY <2>1, <3>1, <3>3 DEF ForwardOk, Valid
  <2> QED
    BY <1>4, <2>1
<1> QED
  BY <1>1, <1>2, <1>3, <1>4 DEF MessagesInv

\* Writing one message adds at most that one to the client's stream.
LEMMA OneWritten ==
  ASSUME TableInv, NEW c \in Conns, NEW m \in Message,
         c2d' = [c2d EXCEPT ![c] = Append(@, m)]
  PROVE  \A d \in Conns : \A n \in Elements(c2d'[d]) \ Elements(c2d[d]) : d = c /\ n = m
<1>1. c2d[c] \in Seq(Message)
  BY DEF TableInv, TypeOK
<1>2. Elements(Append(c2d[c], m)) \subseteq Elements(c2d[c]) \cup {m}
  BY <1>1, ElementsOfSeq
<1>3. c2d'[c] = Append(c2d[c], m) /\ \A d \in Conns \ {c} : c2d'[d] = c2d[d]
  BY DEF TableInv, TypeOK
<1> QED
  BY <1>2, <1>3

\* A client writes messages that are right: it stamps none, and a daemon
\* answers the requests it has read.
LEMMA ClientKeepsMessages ==
  ASSUME TableInv, AnswerInv, NEW c \in Conns, ClientStep(c), [Next]_vars
  PROVE  MessagesInv'
<1>1. UNCHANGED <<fdtab, pc, cur>>
  BY DEF ClientStep, tableVars
<1>2. ASSUME \A d \in Conns : \A m \in Elements(c2d'[d]) \ Elements(c2d[d]) : StreamOk(d, m)',
             \A d \in Conns : Elements(d2c'[d]) \subseteq Elements(d2c[d]),
             \A d \in Conns : \A r \in todo'[d] \ todo[d] : TaskOk(d, r)'
      PROVE  MessagesInv'
  BY <1>1, <1>2, NewMessages
<1>3. ASSUME NEW m \in Message, ClientSend(c, m), StreamOk(c, m)',
             \A d \in Conns : todo'[d] \subseteq todo[d]
      PROVE  MessagesInv'
  <2>1. c2d' = [c2d EXCEPT ![c] = Append(@, m)] /\ d2c' = d2c
    BY <1>3 DEF ClientSend
  <2>2. \A d \in Conns : \A n \in Elements(c2d'[d]) \ Elements(c2d[d]) : d = c /\ n = m
    BY <2>1, OneWritten
  <2>3. \A d \in Conns : \A n \in Elements(c2d'[d]) \ Elements(c2d[d]) : StreamOk(d, n)'
    BY <1>3, <2>2
  <2> QED
    BY <1>2, <1>3, <2>1, <2>3
<1>4. CASE Connect(c)
  <2>1. UNCHANGED <<c2d, d2c, todo>>
    BY <1>4 DEF Connect
  <2> QED
    BY <1>2, <2>1
<1>5. CASE Register(c)
  <2>1. c2d' = [c2d EXCEPT ![c] = <<Info>>] /\ UNCHANGED <<d2c, todo>>
    BY <1>5 DEF Register
  <2>2. \A d \in Conns : \A m \in Elements(c2d'[d]) \ Elements(c2d[d]) : m = Info
    BY <2>1, ElementsOfShort DEF TableInv, TypeOK
  <2>3. ASSUME NEW d \in Conns, NEW m, m = Info PROVE StreamOk(d, m)'
    BY <2>3 DEF StreamOk, Info, Msg
  <2>4. \A d \in Conns : \A m \in Elements(c2d'[d]) \ Elements(c2d[d]) : StreamOk(d, m)'
    BY <2>2, <2>3
  <2> QED
    BY <1>2, <2>1, <2>4
<1>6. CASE \E dst \in Daemons \cup {DAEMON_ALL} : Request(c, dst)
  <2>1. PICK dst \in Daemons \cup {DAEMON_ALL} : Request(c, dst)
    BY <1>6
  <2>2. PICK m \in Message : m = Msg("REQUEST", dst, 0, c)
    BY MsgType DEF Kinds, ClientTypes
  <2>3. ClientSend(c, m) /\ todo' = todo
    BY <2>1, <2>2 DEF Request
  <2>4. StreamOk(c, m)'
    BY <2>2 DEF StreamOk, Msg
  <2> QED
    BY <1>3, <2>3, <2>4
<1>7. CASE \E r \in todo[c] : Reply(c, r)
  <2>1. PICK r \in todo[c] : Reply(c, r)
    BY <1>7
  <2>2. r \in Message /\ TaskOk(c, r)
    BY DEF TableInv, TypeOK, AnswerInv, MessagesInv
  <2>3. PICK m \in Message : m = Msg("REPLY", APPLICATION, r.appid, r.origin)
    BY <2>2, MsgType DEF Kinds, ClientTypes, Message
  <2>4. ClientSend(c, m) /\ \A d \in Conns : todo'[d] \subseteq todo[d]
    BY <2>1, <2>3 DEF Reply, TableInv, TypeOK
  <2>5. /\ m.kind = "REPLY" /\ m.dst = APPLICATION /\ m.torn = "whole"
        /\ m.appid = r.appid /\ m.origin = r.origin
    BY <2>3 DEF Msg
  <2>6. Valid(m)
    BY <2>2, <2>5 DEF TaskOk, Valid
  <2>7. SocketType[c] # "COMMAND"
    BY <2>2, ConnsAssumption DEF TaskOk
  <2>8. Valid(m)'
    BY <2>6, ValidKept
  <2>9. StreamOk(c, m)'
    BY <2>5, <2>7, <2>8 DEF StreamOk
  <2> QED
    BY <1>3, <2>4, <2>9
<1>8. CASE Event(c)
  <2>1. PICK m \in Message : m = Msg("EVENT", APPLICATION, 0, NoConn)
    BY MsgType DEF Kinds, ClientTypes
  <2>2. ClientSend(c, m) /\ todo' = todo
    BY <1>8, <2>1 DEF Event
  <2>3. StreamOk(c, m)'
    BY <2>1 DEF StreamOk, Msg
  <2> QED
    BY <1>3, <2>2, <2>3
<1>9. CASE Receive(c)
  <2>1. /\ d2c' = [d2c EXCEPT ![c] = Tail(@)] /\ c2d' = c2d
        /\ d2c[c] # <<>> /\ d2c[c] \in Seq(Message)
    BY <1>9 DEF Receive, TableInv, TypeOK
  <2>2. PICK m \in Message : m = Head(d2c[c])
    BY <2>1, HeadTailProperties
  <2>3. m \in Elements(d2c[c]) /\ Elements(Tail(d2c[c])) \subseteq Elements(d2c[c])
    BY <2>1, <2>2, ElementsOfSeq
  <2>4. \A d \in Conns : Elements(d2c'[d]) \subseteq Elements(d2c[d])
    BY <2>1, <2>3 DEF TableInv, TypeOK
  <2>5. DeliveredOk(c, m)
    BY <2>3 DEF AnswerInv, MessagesInv
  <2>6. m.kind = "REQUEST" => Valid(m)'
    BY <2>5, ValidKept DEF DeliveredOk
  <2>7. todo' = IF ClientType[c] \in Daemons /\ m.kind = "REQUEST"
                  THEN [todo EXCEPT ![c] = @ \cup {m}] ELSE todo
    BY <1>9, <2>2 DEF Receive
  <2>8. ASSUME NEW d \in Conns, NEW r \in todo'[d] \ todo[d]
        PROVE  d = c /\ r = m /\ m.kind = "REQUEST" /\ ClientType[c] \in Daemons
    BY <2>7, <2>8 DEF TableInv, TypeOK
  <2>9. \A d \in Conns : \A r \in todo'[d] \ todo[d] : TaskOk(d, r)'
    BY <2>6, <2>8 DEF TaskOk
  <2> QED
    BY <1>2, <2>1, <2>4, <2>9
<1>10. CASE Close(c)
  <2>1. /\ conn' = [conn EXCEPT ![c] = "closed"]
        /\ d2c' = [d2c EXCEPT ![c] = <<>>] /\ todo' = [todo EXCEPT ![c] = {}]
        /\ c2d' = c2d \/ \E t \in TornKinds : c2d' = [c2d EXCEPT ![c] = Append(@, TornMsg(t))]
    BY <1>10 DEF Close
  <2>2. /\ \A d \in Conns : Elements(d2c'[d]) \subseteq Elements(d2c[d])
        /\ \A d \in Conns : todo'[d] \subseteq todo[d]
        /\ conn'[c] = "closed"
    BY <2>1, ElementsOfShort DEF TableInv, TypeOK
  <2>3. CASE c2d' = c2d
    BY <1>2, <2>2, <2>3
  <2>4. ASSUME NEW t \in TornKinds, c2d' = [c2d EXCEPT ![c] = Append(@, TornMsg(t))]
        PROVE  MessagesInv'
    <3>1. TornMsg(t) \in Message
      BY BoundsAssumption DEF TornMsg, Message, Kinds, ClientTypes
    <3>2. PICK m \in Message : m = TornMsg(t)
      BY <3>1
    <3>3. \A d \in Conns : \A n \in Elements(c2d'[d]) \ Elements(c2d[d]) : d = c /\ n = m
      BY <2>4, <3>2, OneWritten
    <3>4. StreamOk(c, m)'
      BY <2>2, <3>2 DEF StreamOk, TornMsg
    <3> QED
      BY <1>2, <2>2, <3>3, <3>4
  <2> QED
    BY <2>1, <2>3, <2>4
<1> QED
  BY <1>4, <1>5, <1>6, <1>7, <1>8, <1>9, <1>10 DEF ClientStep

\* Reading takes a message out of a stream; what it stamps it leaves right.
LEMMA ReadKeepsMessages ==
  ASSUME TableInv, SenderInv, AnswerInv, NEW s \in Slots, ScanInfo(s) \/ ScanMessage(s),
         [Next]_vars
  PROVE  MessagesInv'
<1>1. /\ ReadFrom(s) /\ ScanAt(s)
      /\ UNCHANGED <<conn, d2c, todo, fdtab>>
      /\ c2d' = [c2d EXCEPT ![Peer(s)] = Tail(@)]
      /\ c2d[Peer(s)] # <<>> /\ Head(c2d[Peer(s)]).torn = "whole"
  BY DEF ScanInfo, ScanMessage, ReadFrom, tableVars
<1>2. sockfd[s] \in Fds /\ Peer(s) \in Conns /\ c2d[Peer(s)] \in Seq(Message)
  BY <1>1, PeerOfSlot DEF TableInv, TypeOK
<1>3. PICK m \in Message : m = Head(c2d[Peer(s)])
  BY <1>1, <1>2, HeadTailProperties
<1>4. m \in Elements(c2d[Peer(s)]) /\ Elements(Tail(c2d[Peer(s)])) \subseteq Elements(c2d[Peer(s)])
  BY <1>1, <1>2, <1>3, ElementsOfSeq
<1>5. \A d \in Conns : Elements(c2d'[d]) \subseteq Elements(c2d[d])
  BY <1>1, <1>2, <1>4 DEF TableInv, TypeOK
<1>6. StreamOk(Peer(s), m)
  BY <1>2, <1>4 DEF AnswerInv, MessagesInv
<1>7. ASSUME pc' = "forward" PROVE ForwardOk(cur)'
  <2>1. ScanMessage(s)
    BY <1>7 DEF ScanInfo, Advance, LeaveTo
  <2>2. m.kind # "INFO" /\ cur' = Stamped(s, m)
    BY <1>3, <2>1 DEF ScanMessage
  <2>3. /\ cur'.kind = m.kind /\ cur'.dst = m.dst /\ cur'.origin = m.origin
        /\ cur'.appid = IF socketType[s] = "COMMAND" THEN sockfd[s] ELSE m.appid
    BY <2>2 DEF Stamped, Message
  <2>4. m.kind \in {"REPLY", "EVENT"} => m.dst = APPLICATION
    BY <1>6 DEF StreamOk
  <2>5. ASSUME m.kind = "REQUEST" PROVE Valid(cur)'
    <3>1. StampedWithSender'
      BY StepSender DEF SenderInv
    <3>2. cur'.appid \in Fds /\ fdtab'[cur'.appid] = m.origin
      BY <1>7, <2>3, <2>5, <3>1 DEF StampedWithSender
    <3>3. m.origin = Peer(s)
      <4>1. PICK i \in 1 .. Len(c2d[Peer(s)]) : m = c2d[Peer(s)][i]
        BY <1>4 DEF Elements
      <4> QED
        BY <1>2, <2>5, <4>1 DEF SenderInv, OwnRequests
    <3> QED
      BY <1>2, <2>3, <3>2, <3>3 DEF Valid
  <2>6. ASSUME m.kind = "REPLY" PROVE Valid(cur)'
    <3>1. Registered(s)
      BY <1>1, <1>3, <2>6, RoutedAfterInfo DEF Routed
    <3>2. Valid(m) /\ socketType[s] # "COMMAND"
      BY <1>6, <2>6, <3>1 DEF StreamOk, Registered
    <3>3. cur'.appid = m.appid
      BY <2>3, <3>2
    <3>4. Valid(m)'
      BY <3>2, ValidKept
    <3> QED
      BY <2>3, <3>3, <3>4 DEF Valid
  <2> QED
    BY <2>2, <2>3, <2>4, <2>5, <2>6 DEF ForwardOk, Routed
<1> QED
  BY <1>1, <1>5, <1>7, NewMessages

\* Forwarding: the copy goes to slots whose client is the one that asked, if
\* it is still there.
LEMMA ForwardKeepsMessages ==
  ASSUME TableInv, AnswerInv, Forward, [Next]_vars
  PROVE  MessagesInv'
<1>1. pc = "forward" /\ pc' # "forward" /\ UNCHANGED <<conn, c2d, todo, fdtab>>
  BY DEF Forward, tableVars
<1>2. ForwardOk(cur) /\ cur \in Message
  BY <1>1 DEF AnswerInv, MessagesInv, TableInv, TypeOK
<1>3. PICK m \in Message : m = Outgoing
  BY <1>2 DEF Outgoing, NotSupported, Message, Kinds, ClientTypes
<1>4. ASSUME NEW c \in Conns, NEW n \in Elements(d2c'[c]) \ Elements(d2c[c])
      PROVE  n = m /\ \E s \in Targets : Peer(s) = c
  <2>1. d2c[c] \in Seq(Message)
    BY DEF TableInv, TypeOK
  <2>2. d2c'[c] = d2c[c] \/ (d2c'[c] = Append(d2c[c], m) /\ \E s \in Targets : Peer(s) = c)
    BY <1>3 DEF Forward
  <2>3. Elements(Append(d2c[c], m)) \subseteq Elements(d2c[c]) \cup {m}
    BY <2>1, ElementsOfSeq
  <2> QED
    BY <1>4, <2>2, <2>3
<1>5. m.kind = "REQUEST" => Valid(m)
  <2>1. m.kind = "REQUEST" => m = cur
    BY <1>2, <1>3 DEF Outgoing, Message
  <2> QED
    BY <1>2, <2>1 DEF ForwardOk, Routed
<1>6. ASSUME m.kind = "REPLY", NEW s \in Targets
      PROVE  m.origin \in Conns /\ (Peer(s) = m.origin \/ conn[m.origin] = "closed")
  <2>1. CASE NotSupported
    <3>1. cur.kind = "REQUEST"
      BY <1>2, <2>1 DEF ForwardOk, NotSupported, Message, Kinds
    <3>2. Valid(cur) /\ m.origin = cur.origin /\ sockfd[s] = cur.appid
      BY <1>2, <1>3, <1>6, <2>1, <3>1 DEF ForwardOk, Routed, Outgoing, Message, Targets
    <3> QED
      BY <3>2 DEF Valid, Peer
  <2>2. CASE ~NotSupported
    <3>1. m = cur
      BY <1>3, <2>2 DEF Outgoing
    <3>2. Valid(cur) /\ cur.dst = APPLICATION
      BY <1>2, <1>6, <3>1 DEF ForwardOk, Routed
    <3>3. Wanted(s)
      BY <1>6, <2>2 DEF Targets
    <3>4. \A f \in Fds : f > 0
      BY FdsAssumption
    <3>5. cur.dst # DAEMON_ALL
      BY <3>2 DEF APPLICATION, DAEMON_ALL
    <3>6. cur.appid \in Fds => sockfd[s] = cur.appid
      BY <3>2, <3>3, <3>4, <3>5 DEF Wanted
    <3> QED
      BY <3>1, <3>2, <3>6 DEF Valid, Peer
  <2> QED
    BY <2>1, <2>2
<1>7. ASSUME NEW c \in Conns, NEW n \in Elements(d2c'[c]) \ Elements(d2c[c])
      PROVE  DeliveredOk(c, n)
  BY <1>4, <1>5, <1>6, <1>7 DEF DeliveredOk
<1>8. \A c \in Conns : \A n \in Elements(d2c'[c]) \ Elements(d2c[c]) : DeliveredOk(c, n)'
  BY <1>7, MessageKept
<1> QED
  BY <1>1, <1>8, NewMessages

\* The dispatcher's other steps move no message.
LEMMA OtherKeepMessages ==
  ASSUME TableInv, AnswerInv, [Next]_vars,
         \/ Select \/ AcceptFails \/ ScanDone \/ UNCHANGED vars
         \/ \E f \in Fds : AcceptClient(f) \/ AcceptOverLimit(f)
         \/ \E s \in Slots : ScanClosed(s) \/ ScanTornData(s)
  PROVE  MessagesInv'
<1>1. UNCHANGED <<c2d, d2c, todo>> /\ (pc' # "forward" \/ UNCHANGED <<pc, cur>>)
  <2>1. CASE Select \/ AcceptFails \/ ScanDone \/ UNCHANGED vars
    BY <2>1 DEF Select, AcceptFails, ScanDone, LeaveTo, vars, clientVars
  <2>2. ASSUME NEW f \in Fds, AcceptClient(f) \/ AcceptOverLimit(f)
        PROVE  UNCHANGED <<c2d, d2c, todo>> /\ pc' # "forward"
    BY <2>2 DEF AcceptClient, AcceptOverLimit, TakeFd, LeaveTo
  <2>3. ASSUME NEW s \in Slots, ScanClosed(s) \/ ScanTornData(s)
        PROVE  UNCHANGED <<c2d, d2c, todo>> /\ pc' # "forward"
    BY <2>3 DEF ScanClosed, ScanTornData, Advance, LeaveTo, clientVars
  <2> QED
    BY <2>1, <2>2, <2>3
<1> QED
  BY <1>1, NewMessages

\* Between select() and the end of the scan nobody but the scan itself takes
\* data out of a stream, and a slot filled meanwhile is not in the snapshot.
LEMMA SnapshotKept ==
  ASSUME TableInv, AnswerInv, [Next]_vars
  PROVE  SnapshotInv'
<1> USE DEF TableInv
<1>1. ASSUME NEW c \in Conns, ClientStep(c) PROVE SnapshotInv'
  <2>1. UNCHANGED <<fdtab, sockfd, rfds, pc, ready, pos>>
    BY <1>1 DEF ClientStep, tableVars
  <2>2. \A d \in Conns : /\ conn[d] = "closed" => conn'[d] = "closed"
                         /\ c2d[d] # <<>> => c2d'[d] # <<>>
    <3>1. \A d \in Conns : conn[d] = "closed" => conn'[d] = "closed"
      BY ClosedStays
    <3>2. ASSUME NEW d \in Conns, NEW m \in Message PROVE Append(c2d[d], m) # <<>>
      <4>1. c2d[d] \in Seq(Message)
        BY DEF TypeOK
      <4> QED
        BY <4>1, AppendProperties
    <3>3. \A t \in TornKinds : TornMsg(t) \in Message
      BY BoundsAssumption DEF TornMsg, Message, Kinds, ClientTypes
    <3>4. CASE Connect(c) \/ Receive(c)
      BY <3>1, <3>4 DEF Connect, Receive
    <3>5. CASE Register(c)
      BY <3>1, <3>5 DEF Register, TypeOK
    <3>6. ASSUME NEW m \in Message, ClientSend(c, m)
          PROVE  \A d \in Conns : c2d[d] # <<>> => c2d'[d] # <<>>
      BY <3>2, <3>6 DEF ClientSend, TypeOK
    <3>7. CASE \E dst \in Daemons \cup {DAEMON_ALL} : Request(c, dst)
      <4>1. \A dst \in Daemons \cup {DAEMON_ALL} : Msg("REQUEST", dst, 0, c) \in Message
        BY MsgType DEF Kinds, ClientTypes
      <4> QED
        BY <3>1, <3>6, <3>7, <4>1 DEF Request
    <3>8. CASE \E r \in todo[c] : Reply(c, r)
      <4>1. ASSUME NEW r \in todo[c]
            PROVE  Msg("REPLY", APPLICATION, r.appid, r.origin) \in Message
        <5>1. r \in Message
          BY DEF TypeOK
        <5> QED
          BY <5>1, MsgType DEF Kinds, ClientTypes, Message
      <4> QED
        BY <3>1, <3>6, <3>8, <4>1 DEF Reply
    <3>9. CASE Event(c)
      <4>1. Msg("EVENT", APPLICATION, 0, NoConn) \in Message
        BY MsgType DEF Kinds, ClientTypes
      <4> QED
        BY <3>1, <3>6, <3>9, <4>1 DEF Event
    <3>10. CASE Close(c)
      BY <3>1, <3>2, <3>3, <3>10 DEF Close, TypeOK
    <3> QED
      BY <1>1, <3>4, <3>5, <3>7, <3>8, <3>9, <3>10 DEF ClientStep
  <2>3. \A f \in Fds : Readable(f) => Readable(f)'
    BY <2>1, <2>2 DEF Readable, TypeOK
  <2>4. \A s \in Pending : sockfd[s] \in Fds
    BY DEF Pending, TypeOK
  <2>5. Pending' = Pending
    BY <2>1 DEF Pending
  <2>6. pc \in {"accept", "scan"} => \A s \in Pending : Readable(sockfd[s])
    BY DEF AnswerInv, SnapshotInv
  <2>7. pc' \in {"accept", "scan"} => \A s \in Pending' : Readable(sockfd[s])'
    BY <2>1, <2>3, <2>4, <2>5, <2>6
  <2> QED
    BY <2>1, <2>7 DEF AnswerInv, SnapshotInv, Readable
<1>2. CASE Select
  <2>1. /\ ready' = {f \in rfds : Readable(f)} /\ pc' \in {"scan", "accept"}
        /\ UNCHANGED <<conn, c2d, fdtab, sockfd, rfds, pos>>
    BY <1>2 DEF Select, clientVars, tableVars
  <2>2. \A s \in Pending' : Readable(sockfd[s])
    BY <2>1 DEF Pending
  <2> QED
    BY <2>1, <2>2 DEF SnapshotInv, Readable
<1>3. ASSUME pc' \notin {"accept", "scan"} PROVE SnapshotInv'
  BY <1>3 DEF SnapshotInv
<1>4. ASSUME NEW f \in Fds, AcceptClient(f) PROVE SnapshotInv'
  <2>1. FreeSlots # {} /\ pc = "accept" /\ fdtab[f] = NoConn
    BY <1>4, FreeSlotExists DEF AcceptClient, TakeFd, FreeFds
  <2>2. /\ fdtab' = [fdtab EXCEPT ![f] = Head(backlog)]
        /\ UNCHANGED <<conn, c2d>>
    BY <1>4 DEF AcceptClient, TakeFd
  <2>3. PICK t \in FreeSlots : /\ sockfd' = [sockfd EXCEPT ![t] = f]
                               /\ pc' = "scan" /\ UNCHANGED <<ready, pos>>
    BY <1>4, <2>1 DEF AcceptClient
  <2>4. f \notin ready
    <3>1. \A g \in rfds : fdtab[g] # NoConn
      BY DEF SlotTable, Peer
    <3> QED
      BY <2>1, <3>1 DEF AnswerInv, SnapshotInv
  <2>5. \A s \in Pending' : s \in Pending /\ sockfd'[s] = sockfd[s] /\ sockfd[s] \in Fds \ {f}
    BY <2>3, <2>4 DEF Pending, TypeOK
  <2>6. \A s \in Pending' : Readable(sockfd[s])
    BY <2>1, <2>5 DEF AnswerInv, SnapshotInv
  <2>7. \A g \in Fds \ {f} : fdtab'[g] = fdtab[g]
    BY <2>2 DEF TypeOK
  <2>8. \A s \in Pending' : Readable(sockfd[s])'
    BY <2>2, <2>5, <2>6, <2>7 DEF Readable
  <2> QED
    BY <2>3, <2>8 DEF SnapshotInv, Readable
<1>5. ASSUME NEW s \in Slots, ScanAt(s), pos' = s + 1, pc' = "scan", ready' = ready,
             conn' = conn,
             \A c \in Conns \ {Peer(s)} : c2d'[c] = c2d[c],
             \A t \in Slots \ {s} : sockfd'[t] = sockfd[t],
             \A f \in Fds \ {sockfd[s]} : fdtab'[f] = fdtab[f]
      PROVE  SnapshotInv'
  <2>1. s \in Nat /\ sockfd[s] \in Fds /\ Peer(s) \in Conns /\ s \in UsedSlots /\ pc = "scan"
    BY <1>5, PeerOfSlot DEF Slots, ScanAt
  <2>2. ASSUME NEW t \in Pending' PROVE Readable(sockfd[t])' /\ sockfd'[t] = sockfd[t]
    <3>1. t \in Slots /\ t >= s + 1
      BY <1>5 DEF Pending
    <3>2. t # s
      BY <2>1, <3>1 DEF Slots
    <3>3. sockfd'[t] = sockfd[t]
      BY <1>5, <3>1, <3>2
    <3>4. t >= pos
      BY <1>5, <2>1, <3>1 DEF ScanAt, Pending, TypeOK, Slots
    <3>5. t \in Pending /\ t \in UsedSlots /\ sockfd[t] \in Fds
      BY <1>5, <3>1, <3>3, <3>4 DEF Pending, UsedSlots, TypeOK
    <3>6. sockfd[t] # sockfd[s] /\ fdtab[sockfd[t]] # NoConn
      BY <2>1, <3>2, <3>5 DEF SlotTable, Peer
    <3>7. fdtab[sockfd[t]] \in Conns \ {Peer(s)}
      BY <2>1, <3>5, <3>6 DEF SlotTable, Peer, TypeOK
    <3>8. fdtab'[sockfd[t]] = fdtab[sockfd[t]]
      BY <1>5, <3>5, <3>6
    <3>9. Readable(sockfd[t])
      BY <2>1, <3>5 DEF AnswerInv, SnapshotInv
    <3> QED
      BY <1>5, <3>3, <3>7, <3>8, <3>9 DEF Readable
  <2> QED
    BY <1>5, <2>2 DEF SnapshotInv, Readable
<1>6. ASSUME NEW s \in Slots, ScanClosed(s) \/ ScanInfo(s) PROVE SnapshotInv'
  <2>1. ScanAt(s) /\ Advance(s) /\ conn' = conn
    BY <1>6 DEF ScanClosed, ScanInfo, ReadFrom, clientVars
  <2>2. sockfd[s] \in Fds /\ Peer(s) \in Conns
    BY <2>1, PeerOfSlot
  <2>3. /\ \A c \in Conns \ {Peer(s)} : c2d'[c] = c2d[c]
        /\ \A t \in Slots \ {s} : sockfd'[t] = sockfd[t]
        /\ \A f \in Fds \ {sockfd[s]} : fdtab'[f] = fdtab[f]
    BY <1>6, <2>2 DEF ScanClosed, ScanInfo, ReadFrom, reset_client, clientVars, TypeOK
  <2>4. pc' = "select" \/ (pc' = "scan" /\ pos' = s + 1 /\ ready' = ready)
    BY <2>1 DEF Advance, LeaveTo
  <2> QED
    BY <1>3, <1>5, <2>1, <2>3, <2>4
<1>7. ASSUME NEW s \in Slots, ScanTornData(s) \/ ScanMessage(s) PROVE SnapshotInv'
  BY <1>3, <1>7 DEF ScanTornData, ScanMessage, LeaveTo
<1>8. ASSUME NEW f \in Fds, AcceptOverLimit(f) PROVE SnapshotInv'
  BY <1>3, <1>8 DEF AcceptOverLimit, LeaveTo
<1>9. CASE AcceptFails \/ ScanDone \/ Forward
  BY <1>3, <1>9 DEF AcceptFails, ScanDone, LeaveTo, Forward
<1>10. CASE UNCHANGED vars
  BY <1>10 DEF vars, clientVars, tableVars, AnswerInv, SnapshotInv, Pending, Readable
<1> QED
  BY <1>1, <1>2, <1>4, <1>6, <1>7, <1>8, <1>9, <1>10 DEF Next, DispatcherStep, ScanStep

\* An answer reaches the command socket that asked, and no other one, for as
\* long as that socket is open: neither a descriptor used again, nor an answer
\* given twice, nor a slot used again can send it elsewhere before.
THEOREM AnswersReachTheirSender == Spec => []ReplyToOpenSender
<1>1. Init => AnswerInv
  <2>1. ASSUME Init
        PROVE  /\ \A c \in Conns : Elements(c2d[c]) = {} /\ Elements(d2c[c]) = {} /\ todo[c] = {}
               /\ pc = "select"
    BY <2>1, ElementsOfShort DEF Init
  <2> QED
    BY <2>1 DEF AnswerInv, MessagesInv, SnapshotInv
<1>2. TableInv /\ SenderInv /\ AnswerInv /\ [Next]_vars => AnswerInv'
  <2> SUFFICES ASSUME TableInv, SenderInv, AnswerInv, [Next]_vars PROVE AnswerInv'
    OBVIOUS
  <2>1. SnapshotInv'
    BY SnapshotKept
  <2>2. ASSUME NEW c \in Conns, ClientStep(c) PROVE MessagesInv'
    BY <2>2, ClientKeepsMessages
  <2>3. ASSUME NEW s \in Slots, ScanStep(s) PROVE MessagesInv'
    BY <2>3, ReadKeepsMessages, OtherKeepMessages DEF ScanStep
  <2>4. ASSUME NEW f \in Fds, AcceptClient(f) \/ AcceptOverLimit(f) PROVE MessagesInv'
    BY <2>4, OtherKeepMessages
  <2>5. ASSUME Forward PROVE MessagesInv'
    BY <2>5, ForwardKeepsMessages
  <2>6. ASSUME Select \/ AcceptFails \/ ScanDone \/ UNCHANGED vars PROVE MessagesInv'
    BY <2>6, OtherKeepMessages
  <2>7. MessagesInv'
    BY <2>2, <2>3, <2>4, <2>5, <2>6 DEF Next, DispatcherStep
  <2> QED
    BY <2>1, <2>7 DEF AnswerInv
<1>3. AnswerInv => ReplyToOpenSender
  <2> SUFFICES ASSUME AnswerInv, NEW c \in Conns, NEW m \in Delivered(c), m.kind = "REPLY"
               PROVE  m.origin = c \/ conn[m.origin] = "closed"
    BY DEF ReplyToOpenSender
  <2>1. PICK i \in DOMAIN d2c[c] : m = d2c[c][i]
    BY DEF Delivered
  <2> QED
    BY <2>1 DEF AnswerInv, MessagesInv, DeliveredOk, Elements
<1> QED
  BY <1>1, <1>2, <1>3, InitTable, StepTable, InitSender, StepSender, PTL DEF Spec

-----------------------------------------------------------------------------
(* Only a refused client leaks its descriptor.                              *)

\* accept() below the limit watches the descriptor it opens, reset_client
\* closes the one it stops watching; over the limit there are MAX_CLIENTS_NUM
\* clients, no more.
THEOREM OnlyRefusedClientsLeak == Spec => LeakOnlyWhenFull
<1>1. ASSUME TableInv, [Next]_vars, Leaked' # Leaked PROVE clientNum' = MaxClients
  <2> USE <1>1 DEF TableInv
  <2>1. ASSUME UNCHANGED <<fdtab, rfds>> PROVE FALSE
    BY <2>1 DEF Leaked
  <2>2. ASSUME NEW c \in Conns, ClientStep(c) PROVE UNCHANGED <<fdtab, rfds>>
    BY <2>2 DEF ClientStep, tableVars
  <2>3. ASSUME NEW s \in Slots, ScanInfo(s) \/ ScanMessage(s) PROVE UNCHANGED <<fdtab, rfds>>
    BY <2>3 DEF ScanInfo, ScanMessage, tableVars
  <2>4. ASSUME Select \/ AcceptFails \/ ScanDone \/ Forward \/ UNCHANGED vars
        PROVE  UNCHANGED <<fdtab, rfds>>
    BY <2>4 DEF Select, AcceptFails, ScanDone, Forward, tableVars, vars
  <2>5. ASSUME NEW s \in Slots, ScanClosed(s) \/ ScanTornData(s) PROVE FALSE
    <3>1. sockfd[s] \in Fds
      BY <2>5, PeerOfSlot DEF ScanClosed, ScanTornData
    <3>2. /\ fdtab' = [fdtab EXCEPT ![sockfd[s]] = NoConn]
          /\ rfds' = rfds \ {sockfd[s]}
      BY <2>5 DEF ScanClosed, ScanTornData, reset_client
    <3>3. sockfd[s] \in rfds
      BY <2>5, PeerOfSlot DEF ScanClosed, ScanTornData, SlotTable
    <3>4. Leaked' = Leaked
      BY <3>1, <3>2, <3>3 DEF Leaked, TypeOK
    <3> QED
      BY <3>4
  <2>6. ASSUME NEW f \in Fds, AcceptClient(f) PROVE FALSE
    <3>1. FreeSlots # {} /\ fdtab[f] = NoConn /\ fdtab' = [fdtab EXCEPT ![f] = Head(backlog)]
      BY <2>6, FreeSlotExists DEF AcceptClient, TakeFd, FreeFds
    <3>2. rfds' = rfds \cup {f}
      BY <2>6, <3>1 DEF AcceptClient
    <3>3. Leaked' = Leaked
      BY <3>1, <3>2 DEF Leaked, TypeOK
    <3> QED
      BY <3>3
  <2>7. ASSUME NEW f \in Fds, AcceptOverLimit(f) PROVE clientNum' = MaxClients
    <3>1. clientNum' = clientNum /\ clientNum >= MaxClients
      BY <2>7 DEF AcceptOverLimit
    <3>2. IsFiniteSet(Slots) /\ UsedSlots \subseteq Slots /\ Cardinality(Slots) = MaxClients
      BY FS_Interval, TableAssumption DEF Slots, UsedSlots
    <3>3. clientNum <= MaxClients
      BY <3>2, FS_Subset DEF SlotTable
    <3> QED
      BY <3>1, <3>3, TableAssumption DEF TypeOK
  <2> QED
    BY <2>1, <2>2, <2>3, <2>4, <2>5, <2>6, <2>7 DEF Next, DispatcherStep, ScanStep
<1>2. TableInv /\ [Next]_vars => [Leaked' # Leaked => clientNum' = MaxClients]_vars
  BY <1>1
<1> QED
  BY <1>2, InitTable, StepTable, PTL DEF Spec, LeakOnlyWhenFull

=============================================================================
