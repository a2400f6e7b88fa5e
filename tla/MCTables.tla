------------------------------ MODULE MCTables ------------------------------
(***************************************************************************)
(* Five structures that several threads or processes change, each checked  *)
(* by itself in one run: the list of the Z-Wave daemon's tasks (ZwQueue),  *)
(* the entries in which the Z-Wave driver keeps what nodes report          *)
(* (ZwStatus), the daemon's devices in memory and on disk (ZwDevices), the *)
(* camera daemon's tables of cameras and feeds (Camera) and the tables of  *)
(* the database (Database).  The first state says which one moves; the     *)
(* others stay as they begin.                                              *)
(*                                                                         *)
(* Heap cells, nodes, cameras, addresses, threads and callers are          *)
(* interchangeable; they are taken in a fixed order, which leaves out      *)
(* nothing.                                                                *)
(***************************************************************************)
EXTENDS ZwQueue, ZwStatus, ZwDevices, Camera, Database, TLC

CONSTANTS battery, switch, lamp, n1, n2

\* A node of two devices and a node of one.
MCRadioOf == battery :> n1 @@ switch :> n1 @@ lamp :> n2

VARIABLE part

TablesInit ==
  /\ part \in {"queue", "status", "devices", "camera", "database"}
  /\ Init /\ ZwStatusInit /\ ZwDevicesInit /\ CameraInit /\ DatabaseInit

\* The first free cell is allocated.
CellsInTurn ==
  \A u \in Units : where[u] = "free" /\ where'[u] = "fresh" =>
                   u = CHOOSE x \in Units : where[x] = "free"

\* The first node that is asked or reports.
NodesInTurn ==
  queries + news = 0 /\ queries' + news' = 1 =>
    \/ queries' = 1 /\ query'.node = SomeNode
    \/ news' = 1 /\ \A f \in air' : f.node = SomeNode

\* The first node to join, with the first of its devices.  The node of one is
\* a lamp, the devices of the other may be of any sort.
DevicesInTurn ==
  /\ changes = 0 /\ switch \in reports' => battery \in reports'
  /\ zw_nodes'[lamp] \in {"other", Absent}

\* An answer is given to the first thread that is idle, the first of all to
\* one camera at one address; a call is the first idle caller's.
AnswersInTurn ==
  answers' # answers =>
    LET t == CHOOSE x \in Searches : search[x].at = "idle" IN
    /\ search'[t].at # "idle"
    /\ answers = 0 => /\ search'[t].uid = CHOOSE c \in Cameras : TRUE
                      /\ search'[t].ip = CHOOSE a \in Addresses : TRUE

CallsInTurn ==
  calls' # calls => call'[CHOOSE x \in Callers : call[x].at = "idle"].at # "idle"

TablesNext ==
  /\ \/ part = "queue" /\ Next /\ CellsInTurn
        /\ UNCHANGED <<statusVars, deviceVars, cameraVars, databaseVars>>
     \/ part = "status" /\ ZwStatusNext /\ NodesInTurn
        /\ UNCHANGED <<vars, deviceVars, cameraVars, databaseVars>>
     \/ part = "devices" /\ ZwDevicesNext /\ DevicesInTurn
        /\ UNCHANGED <<vars, statusVars, cameraVars, databaseVars>>
     \/ part = "camera" /\ CameraNext /\ AnswersInTurn
        /\ UNCHANGED <<vars, statusVars, deviceVars, databaseVars>>
     \/ part = "database" /\ DatabaseNext /\ CallsInTurn
        /\ UNCHANGED <<vars, statusVars, deviceVars, cameraVars>>
  /\ UNCHANGED part

TablesSpec ==
  TablesInit /\ [][TablesNext]_<<part, vars, statusVars, deviceVars, cameraVars, databaseVars>>

\* The variables of the one that moves have their types; the others do not change.
TablesTypeOK ==
  /\ part = "queue" => TypeOK
  /\ part = "status" => ZwStatusTypeOK
  /\ part = "devices" => ZwDevicesTypeOK
  /\ part = "camera" => CameraTypeOK
  /\ part = "database" => DatabaseTypeOK
=============================================================================
