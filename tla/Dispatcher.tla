----------------------------- MODULE Dispatcher -----------------------------
(***************************************************************************)
(* The message broker of the home-control platform                         *)
(* (hc_dispatcher/hc_dispatcher.c) and the clients connected to it through *)
(* the library in hc_msg/hc_msg.c.  Applications open an EVENT and a       *)
(* COMMAND socket, daemons one DEFAULT socket.  The dispatcher is a single *)
(* thread: it selects, accepts at most one client, then scans its slots    *)
(* for readable sockets and forwards the first regular message it reads.   *)
(*                                                                         *)
(* A connection is used once: a client that closes and comes back is       *)
(* another member of Conns.  Payloads are abstracted to the routing fields *)
(* of the header; "origin" is a history field naming the connection a      *)
(* request came from, which neither the code nor the guards here read.     *)
(***************************************************************************)
EXTENDS Integers, Sequences, FiniteSets

CONSTANTS
  Conns,        \* client connections
  Daemons,      \* the daemon members of CLIENT_TYPE_E that exist here
  ClientType,   \* ClientType[c]: the type c registers with
  SocketType,   \* SocketType[c]: the socket type c registers with
  MaxClients,   \* MAX_CLIENTS_NUM
  Fds,          \* file descriptors the dispatcher process can still open
  ListenBacklog,\* HC_MSG_LISTEN_BACKLOG
  BufMax,       \* messages a client's receive buffer holds
  MaxSend,      \* bound: messages a client sends after registering
  TornKinds     \* bound: where a crashing client may cut its last message

APPLICATION == "APPLICATION"
DAEMON_ALL  == "DAEMON_ALL"
NoType == "unset"          \* a client_type / socket_type field still zero
NoConn == "no_conn"
NoFd == -1

Slots == 1 .. MaxClients
ClientTypes == Daemons \cup {APPLICATION}
SocketTypes == {"DEFAULT", "EVENT", "COMMAND"}

ASSUME ConnsAssumption ==
  /\ NoConn \notin Conns
  /\ ClientType \in [Conns -> ClientTypes]
  /\ SocketType \in [Conns -> SocketTypes]
  /\ {APPLICATION, DAEMON_ALL, NoType} \cap Daemons = {}
  \* only hcapi.c opens command sockets
  /\ \A c \in Conns : SocketType[c] = "COMMAND" => ClientType[c] = APPLICATION
ASSUME TableAssumption == MaxClients \in Nat \ {0}
ASSUME FdsAssumption == Fds \subseteq Nat \ {0}
ASSUME BoundsAssumption ==
  /\ ListenBacklog \in Nat
  /\ BufMax \in Nat
  /\ MaxSend \in Nat
  /\ TornKinds \subseteq {"head", "data"}

VARIABLES
  conn,       \* client end of each connection: "idle", "connected" (to the kernel), "open", "closed"
  c2d, d2c,   \* what is in flight in either direction
  todo,       \* per connection: the requests a daemon has read and may answer
  sent,       \* per connection: messages sent so far
  backlog,    \* connections the kernel queues for accept()
  fdtab,      \* the dispatcher's open descriptors: which connection each is
  sockfd, clientType, socketType,   \* g_serv_info.clients[i]
  clientNum,  \* g_serv_info.client_num
  rfds,       \* g_serv_info.rfds without the listening socket
  pc,         \* where the dispatcher thread is
  ready,      \* the set select() returned
  pos,        \* first slot the scan has not looked at yet
  cur         \* the message hc_dispacher_wait_for_msg returned

clientVars == <<conn, c2d, d2c, todo, sent, backlog>>
tableVars  == <<fdtab, sockfd, clientType, socketType, clientNum, rfds>>
vars == <<clientVars, tableVars, pc, ready, pos, cur>>

Kinds == {"INFO", "REQUEST", "REPLY", "EVENT"}
Message ==
  [kind   : Kinds,
   src    : ClientTypes \cup {NoType},
   dst    : ClientTypes \cup {DAEMON_ALL, NoType},
   appid  : Fds \cup {0},
   origin : Conns \cup {NoConn},
   torn   : {"whole", "head", "data"}]

Msg(kind, dst, appid, origin) ==
  [kind |-> kind, src |-> NoType, dst |-> dst, appid |-> appid,
   origin |-> origin, torn |-> "whole"]

\* What a client that dies while it writes leaves in the stream.
TornMsg(t) ==
  [kind |-> "EVENT", src |-> NoType, dst |-> APPLICATION, appid |-> 0,
   origin |-> NoConn, torn |-> t]

Info == Msg("INFO", NoType, 0, NoConn)

TypeOK ==
  /\ conn \in [Conns -> {"idle", "connected", "open", "closed"}]
  /\ c2d \in [Conns -> Seq(Message)]
  /\ d2c \in [Conns -> Seq(Message)]
  /\ todo \in [Conns -> SUBSET Message]
  /\ sent \in [Conns -> Nat]
  /\ backlog \in Seq(Conns)
  /\ fdtab \in [Fds -> Conns \cup {NoConn}]
  /\ sockfd \in [Slots -> Fds \cup {NoFd}]
  /\ clientType \in [Slots -> ClientTypes \cup {NoType}]
  /\ socketType \in [Slots -> SocketTypes \cup {NoType}]
  /\ clientNum \in Int
  /\ rfds \subseteq Fds
  /\ pc \in {"select", "accept", "scan", "forward", "dead"}
  /\ ready \subseteq Fds
  /\ pos \in Slots
  /\ cur \in Message

Init ==
  /\ conn = [c \in Conns |-> "idle"]
  /\ c2d = [c \in Conns |-> <<>>]
  /\ d2c = [c \in Conns |-> <<>>]
  /\ todo = [c \in Conns |-> {}]
  /\ sent = [c \in Conns |-> 0]
  /\ backlog = <<>>
  /\ fdtab = [f \in Fds |-> NoConn]
  /\ sockfd = [s \in Slots |-> NoFd]
  /\ clientType = [s \in Slots |-> NoType]
  /\ socketType = [s \in Slots |-> NoType]
  /\ clientNum = 0
  /\ rfds = {}
  /\ pc = "select"
  /\ ready = {}
  /\ pos = 1
  /\ cur = Info

-----------------------------------------------------------------------------
(* The clients.                                                            *)

\* hc_client_msg_init: connect, then write the CLIENT_INFO packet.
Connect(c) ==
  /\ pc # "dead"
  /\ conn[c] = "idle"
  /\ Len(backlog) <= ListenBacklog
  /\ conn' = [conn EXCEPT ![c] = "connected"]
  /\ backlog' = Append(backlog, c)
  /\ UNCHANGED <<c2d, d2c, todo, sent>>

Register(c) ==
  /\ pc # "dead"
  /\ conn[c] = "connected"
  /\ conn' = [conn EXCEPT ![c] = "open"]
  /\ c2d' = [c2d EXCEPT ![c] = <<Info>>]
  /\ UNCHANGED <<d2c, todo, sent, backlog>>

\* hc_client_send_msg_to_dispacther.
ClientSend(c, m) ==
  /\ pc # "dead"
  /\ conn[c] = "open"
  /\ sent[c] < MaxSend
  /\ sent' = [sent EXCEPT ![c] = @ + 1]
  /\ c2d' = [c2d EXCEPT ![c] = Append(@, m)]
  /\ UNCHANGED <<conn, d2c, backlog>>

\* An application calls the API: the header is zeroed, so appid is 0.
Request(c, dst) ==
  /\ SocketType[c] = "COMMAND"
  /\ ClientSend(c, Msg("REQUEST", dst, 0, c))
  /\ UNCHANGED todo

\* A daemon answers a request it has read, copying its appid.  Some requests
\* are answered more than once (a detect), so the request may stay.
Reply(c, r) ==
  /\ r \in todo[c]
  /\ ClientSend(c, Msg("REPLY", APPLICATION, r.appid, r.origin))
  /\ \/ todo' = [todo EXCEPT ![c] = @ \ {r}]
     \/ UNCHANGED todo

\* A daemon reports a status change to every application (appid 0).
Event(c) ==
  /\ ClientType[c] \in Daemons
  /\ ClientSend(c, Msg("EVENT", APPLICATION, 0, NoConn))
  /\ UNCHANGED todo

\* hc_client_wait_for_msg; a daemon queues the request as a task.
Receive(c) ==
  /\ conn[c] = "open"
  /\ d2c[c] # <<>>
  /\ d2c' = [d2c EXCEPT ![c] = Tail(@)]
  /\ todo' = IF ClientType[c] \in Daemons /\ Head(d2c[c]).kind = "REQUEST"
               THEN [todo EXCEPT ![c] = @ \cup {Head(d2c[c])}]
               ELSE todo
  /\ UNCHANGED <<conn, c2d, sent, backlog>>

\* hc_client_unint, or the process dies, possibly in the middle of a send.
Close(c) ==
  /\ conn[c] \in {"connected", "open"}
  /\ conn' = [conn EXCEPT ![c] = "closed"]
  /\ d2c' = [d2c EXCEPT ![c] = <<>>]
  /\ todo' = [todo EXCEPT ![c] = {}]
  /\ \/ UNCHANGED c2d
     \/ \E t \in TornKinds :
          c2d' = [c2d EXCEPT ![c] = Append(@, TornMsg(t))]
  /\ UNCHANGED <<sent, backlog>>

ClientStep(c) ==
  /\ \/ Connect(c)
     \/ Register(c)
     \/ \E dst \in Daemons \cup {DAEMON_ALL} : Request(c, dst)
     \/ \E r \in todo[c] : Reply(c, r)
     \/ Event(c)
     \/ Receive(c)
     \/ Close(c)
  /\ UNCHANGED <<tableVars, pc, ready, pos, cur>>

-----------------------------------------------------------------------------
(* The dispatcher.                                                         *)

Readable(f) ==
  /\ fdtab[f] # NoConn
  /\ \/ c2d[fdtab[f]] # <<>>
     \/ conn[fdtab[f]] = "closed"

\* select() on the master set; its result is a snapshot.
Select ==
  /\ pc = "select"
  /\ ready' = {f \in rfds : Readable(f)}
  /\ ready' # {} \/ backlog # <<>>
  /\ pc' = IF backlog = <<>> THEN "scan" ELSE "accept"
  /\ UNCHANGED <<clientVars, tableVars, pos, cur>>

\* Leaving the pass: the snapshot and the scan index are locals.
LeaveTo(where) == pc' = where /\ ready' = {} /\ pos' = 1

FreeFds == {f \in Fds : fdtab[f] = NoConn}
FreeSlots == {s \in Slots : sockfd[s] = NoFd}

\* accept() takes the lowest free descriptor.
TakeFd(f) ==
  /\ pc = "accept"
  /\ f \in FreeFds
  /\ \A g \in FreeFds : f <= g
  /\ fdtab' = [fdtab EXCEPT ![f] = Head(backlog)]
  /\ backlog' = Tail(backlog)
  /\ UNCHANGED <<conn, c2d, d2c, todo, sent, clientType, socketType, cur>>

\* Mutant of AcceptClient: the descriptor is not added to the select set.
AcceptUnwatched(f) ==
  /\ TakeFd(f)
  /\ clientNum < MaxClients
  /\ clientNum' = clientNum + 1
  /\ \E s \in FreeSlots :
       /\ \A t \in FreeSlots : s <= t
       /\ sockfd' = [sockfd EXCEPT ![s] = f]
       /\ pc' = "scan"
       /\ UNCHANGED <<rfds, ready, pos>>

\* The new client takes the first free slot, whose client_type and
\* socket_type keep the values of the previous occupant.  (DispatcherProofs
\* shows that there always is one.)
AcceptClient(f) ==
  /\ TakeFd(f)
  /\ clientNum < MaxClients
  /\ clientNum' = clientNum + 1
  /\ IF FreeSlots = {}
       THEN /\ LeaveTo("select")
            /\ UNCHANGED <<sockfd, rfds>>
       ELSE \E s \in FreeSlots :
              /\ \A t \in FreeSlots : s <= t
              /\ sockfd' = [sockfd EXCEPT ![s] = f]
              /\ rfds' = rfds \cup {f}
              /\ pc' = "scan"
              /\ UNCHANGED <<ready, pos>>

\* Over the limit the pass ends before the scan; the descriptor stays open.
AcceptOverLimit(f) ==
  /\ TakeFd(f)
  /\ clientNum >= MaxClients
  /\ LeaveTo("select")
  /\ UNCHANGED <<sockfd, clientNum, rfds>>

\* accept() fails for want of a descriptor: the pass ends before the scan.
AcceptFails ==
  /\ pc = "accept"
  /\ FreeFds = {}
  /\ LeaveTo("select")
  /\ UNCHANGED <<clientVars, tableVars, cur>>

\* Slots the scan still has to look at.
Pending == {s \in Slots : s >= pos /\ sockfd[s] # NoFd /\ sockfd[s] \in ready}

\* The scan stands at slot s, the next readable one.
ScanAt(s) ==
  /\ pc = "scan"
  /\ s \in Pending
  /\ \A t \in Pending : s <= t

Peer(s) == fdtab[sockfd[s]]

\* Mutant of Advance: the loop index runs past the table.
AdvancePastEnd(s) == pc' = "scan" /\ pos' = s + 1 /\ UNCHANGED ready

\* The scan goes on after slot s; past the last slot it selects again.
Advance(s) ==
  IF s = MaxClients
    THEN LeaveTo("select")
    ELSE pc' = "scan" /\ pos' = s + 1 /\ UNCHANGED ready

\* Mutant of reset_client: client_num is not decremented.
ResetKeepsCount(s) ==
  /\ fdtab' = [fdtab EXCEPT ![sockfd[s]] = NoConn]
  /\ rfds' = rfds \ {sockfd[s]}
  /\ sockfd' = [sockfd EXCEPT ![s] = NoFd]
  /\ UNCHANGED <<clientType, socketType, clientNum>>

\* Mutant of reset_client: the descriptor is not closed.
ResetLeaks(s) ==
  /\ rfds' = rfds \ {sockfd[s]}
  /\ sockfd' = [sockfd EXCEPT ![s] = NoFd]
  /\ clientNum' = clientNum - 1
  /\ UNCHANGED <<fdtab, clientType, socketType>>

\* FD_CLR, close, free the slot; its types stay.
reset_client(s) ==
  /\ fdtab' = [fdtab EXCEPT ![sockfd[s]] = NoConn]
  /\ rfds' = rfds \ {sockfd[s]}
  /\ sockfd' = [sockfd EXCEPT ![s] = NoFd]
  /\ clientNum' = clientNum - 1
  /\ UNCHANGED <<clientType, socketType>>

\* End of file, or fewer bytes than a header: drop the client, go on.
ScanClosed(s) ==
  /\ ScanAt(s)
  /\ \/ c2d[Peer(s)] = <<>>
     \/ c2d[Peer(s)] # <<>> /\ Head(c2d[Peer(s)]).torn = "head"
  /\ reset_client(s)
  /\ Advance(s)
  /\ UNCHANGED <<clientVars, cur>>

\* A header whose data_len bytes never come: drop the client, return -1.
ScanTornData(s) ==
  /\ ScanAt(s)
  /\ c2d[Peer(s)] # <<>>
  /\ Head(c2d[Peer(s)]).torn = "data"
  /\ reset_client(s)
  /\ LeaveTo("select")
  /\ UNCHANGED <<clientVars, cur>>

\* Consume the message at the head of the stream of slot s.
ReadFrom(s) ==
  /\ ScanAt(s)
  /\ c2d[Peer(s)] # <<>>
  /\ Head(c2d[Peer(s)]).torn = "whole"
  /\ c2d' = [c2d EXCEPT ![Peer(s)] = Tail(@)]
  /\ UNCHANGED <<conn, d2c, todo, sent, backlog>>

\* The registration packet: fill the slot in and go on scanning.
ScanInfo(s) ==
  /\ ReadFrom(s)
  /\ Head(c2d[Peer(s)]).kind = "INFO"
  /\ clientType' = [clientType EXCEPT ![s] = ClientType[Peer(s)]]
  /\ socketType' = [socketType EXCEPT ![s] = SocketType[Peer(s)]]
  /\ Advance(s)
  /\ UNCHANGED <<fdtab, sockfd, clientNum, rfds, cur>>

\* Mutant of Stamped: appid is left as the client sent it.
StampSrcOnly(s, m) == [m EXCEPT !.src = clientType[s]]

\* src is the slot's type and, on a command socket, appid its descriptor.
Stamped(s, m) ==
  [m EXCEPT !.src = clientType[s],
            !.appid = IF socketType[s] = "COMMAND" THEN sockfd[s] ELSE @]

\* A regular message is stamped and returned; the pass ends.
ScanMessage(s) ==
  /\ ReadFrom(s)
  /\ Head(c2d[Peer(s)]).kind # "INFO"
  /\ cur' = Stamped(s, Head(c2d[Peer(s)]))
  /\ LeaveTo("forward")
  /\ UNCHANGED tableVars

ScanDone ==
  /\ pc = "scan"
  /\ Pending = {}
  /\ LeaveTo("select")
  /\ UNCHANGED <<clientVars, tableVars, cur>>

-----------------------------------------------------------------------------
\* client_check(type): some connected slot has this type.
client_check(type) ==
  \E s \in Slots : clientType[s] = type /\ sockfd[s] # NoFd

\* The daemon is not connected: the request is turned round.
NotSupported ==
  /\ cur.src = APPLICATION
  /\ cur.dst \notin {APPLICATION, DAEMON_ALL}
  /\ ~client_check(cur.dst)
  /\ cur.appid > 0

\* What goes out.
Outgoing ==
  IF NotSupported
    THEN [cur EXCEPT !.kind = "REPLY", !.src = cur.dst, !.dst = APPLICATION]
    ELSE cur

\* The slots a message is for.
Wanted(s) ==
  IF cur.dst = DAEMON_ALL
    THEN clientType[s] # APPLICATION
    ELSE /\ clientType[s] = cur.dst
         /\ IF cur.dst # APPLICATION
              THEN socketType[s] = "DEFAULT"
              ELSE IF cur.appid > 0
                     THEN sockfd[s] = cur.appid
                     ELSE socketType[s] = "EVENT"

\* Mutant of Targets: the turned-round request goes to every application.
TargetsEveryApp ==
  {s \in Slots : /\ sockfd[s] # NoFd
                 /\ IF NotSupported THEN clientType[s] = APPLICATION ELSE Wanted(s)}

\* The slots it goes to: one that asked for a daemon that is not connected is
\* told so, any other message goes where its header says.
Targets ==
  {s \in Slots : /\ sockfd[s] # NoFd
                 /\ IF NotSupported THEN sockfd[s] = cur.appid ELSE Wanted(s)}

\* hc_dispatcher_send_msg_to_client.  A full receive buffer makes send_ex give
\* up, and the copy for that client is lost.  Writing to a socket whose peer
\* has closed raises SIGPIPE, which main() does not ignore: the process ends
\* after the slots before that one have been served.
Forward ==
  /\ pc = "forward"
  /\ LET broken  == {s \in Targets : conn[Peer(s)] = "closed"}
         served  == {s \in Targets : \A b \in broken : s < b}
         reached == {Peer(s) : s \in served}
     IN /\ d2c' = [c \in Conns |->
                     IF c \in reached /\ Len(d2c[c]) < BufMax
                       THEN Append(d2c[c], Outgoing)
                       ELSE d2c[c]]
        /\ pc' = IF broken = {} THEN "select" ELSE "dead"
  /\ cur' = Info
  /\ UNCHANGED <<conn, c2d, todo, sent, backlog, tableVars, ready, pos>>

ScanStep(s) ==
  \/ ScanClosed(s)
  \/ ScanTornData(s)
  \/ ScanInfo(s)
  \/ ScanMessage(s)

DispatcherStep ==
  \/ Select
  \/ \E f \in Fds : AcceptClient(f) \/ AcceptOverLimit(f)
  \/ AcceptFails
  \/ \E s \in Slots : ScanStep(s)
  \/ ScanDone
  \/ Forward

Next ==
  \/ \E c \in Conns : ClientStep(c)
  \/ DispatcherStep

Spec == Init /\ [][Next]_vars

\* The dispatcher thread is scheduled; nobody forces a client to do anything.
FairSpec == Spec /\ WF_vars(DispatcherStep)
-----------------------------------------------------------------------------
(* Properties.                                                             *)

UsedSlots == {s \in Slots : sockfd[s] # NoFd}

\* The slot table is consistent: client_num counts the used slots, no two
\* slots share a descriptor, the select set is exactly the slots' descriptors,
\* and each of them is an open descriptor of a client that no other open
\* descriptor leads to.  Accept and reset_client keep it so in any order.
SlotTable ==
  /\ clientNum = Cardinality(UsedSlots)
  /\ \A s, t \in UsedSlots : sockfd[s] = sockfd[t] => s = t
  /\ rfds = {sockfd[s] : s \in UsedSlots}
  /\ \A s \in UsedSlots : Peer(s) # NoConn
  /\ \A f, g \in Fds : fdtab[f] = fdtab[g] /\ fdtab[f] # NoConn => f = g

\* Open descriptors that select() does not watch: nothing will close them.
Leaked == {f \in Fds : fdtab[f] # NoConn} \ rfds

\* A descriptor is leaked only by a client refused over the limit; dropping a
\* client always closes what it held.
LeakOnlyWhenFull == [][Leaked' # Leaked => clientNum' = MaxClients]_vars

\* A request about to be forwarded is stamped with the application's type and
\* with the descriptor of the very connection that sent it, although both are
\* taken from a slot that other clients may have used before.
StampedWithSender ==
  pc = "forward" /\ cur.kind = "REQUEST" =>
    /\ cur.src = APPLICATION
    /\ cur.appid \in Fds
    /\ fdtab[cur.appid] = cur.origin

Delivered(c) == {d2c[c][i] : i \in DOMAIN d2c[c]}

\* As long as the client that asked keeps its command socket open, the answer
\* reaches that socket and no other one: appid identifies the sender.
ReplyToOpenSender ==
  \A c \in Conns : \A m \in Delivered(c) :
    m.kind = "REPLY" => m.origin = c \/ conn[m.origin] = "closed"

\* What hc_msg.h says of appid without the condition: "dispatcher use appid to
\* get who is the sender".
ReplyToSender ==
  \A c \in Conns : \A m \in Delivered(c) :
    m.kind = "REPLY" => m.origin = c

\* "The event should be sent on SOCKET_EVENT socket."
EventOnEventSocket ==
  \A c \in Conns : \A m \in Delivered(c) :
    m.kind = "EVENT" => SocketType[c] = "EVENT"

\* Whatever an open client has written is eventually read: the scan order
\* starves nobody who competes with clients that send finitely many messages.
InputIsRead ==
  \A c \in Conns :
    c2d[c] # <<>> ~> (c2d[c] = <<>> \/ conn[c] = "closed" \/ pc = "dead")

\* A client that has gone is eventually forgotten: its connection is neither
\* waiting for accept() nor held by a descriptor.
ClosedIsReleased ==
  \A c \in Conns :
    conn[c] = "closed" ~>
      \/ pc = "dead"
      \/ c \notin {fdtab[f] : f \in Fds} /\ \A i \in DOMAIN backlog : backlog[i] # c
=============================================================================
