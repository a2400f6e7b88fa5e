------------------------------ MODULE ZwDevices ------------------------------
(***************************************************************************)
(* What the Z-Wave daemon knows of the devices of its network: the driver's *)
(* nodes and the file it saves them to, the daemon's table (zw_task.c,     *)
(* g_mid_device_info) with the intervals at which nodes are checked, and   *)
(* the two tables of the database, as zw_msg.c (update_mid,                *)
(* update_device_in_db) brings them up to date with each report.           *)
(*                                                                         *)
(* A node has one device or several.  One of them at most is watched: a    *)
(* battery or thermostat ("own") takes the watch over, another device      *)
(* ("other") is watched if no device of the node is, sensors and door      *)
(* locks, whose interval is 0, never are.                                  *)
(*                                                                         *)
(* Sessions and the removal of a failed node follow one another (ZwTask,   *)
(* ZwSession), so their reports do.  Meanwhile an upgrade of the gateway's *)
(* firmware may be announced, after which reports are ignored, a statement *)
(* of the database may fail, an application that reset the controller may  *)
(* delete the rows of all devices, and the daemon may die and start again. *)
(***************************************************************************)
EXTENDS Naturals

CONSTANTS
  VirtualDevices,   \* what a node has
  Radios,           \* the nodes; RadioOf tells a device's
  RadioOf,
  Absent,           \* no device, or no row
  SlotCount,        \* MAX_MID_DEVICE_NUMBER
  MaxChanges,       \* bound: sessions, removals and resets
  MaxFailures,      \* bound: statements that fail
  MaxCrashes        \* bound: restarts of the daemon

Sorts == {"own", "other", "never"}

ASSUME RadioAssumption ==
  Absent \notin VirtualDevices \cup Sorts /\ RadioOf \in [VirtualDevices -> Radios]
ASSUME DeviceBoundsAssumption ==
  SlotCount \in Nat \ {0} /\ MaxChanges \in Nat /\ MaxFailures \in Nat /\ MaxCrashes \in Nat

Places == 1 .. SlotCount

\* A row of g_mid_device_info: watched when its detect_interval is not 0.
Record == [dev : VirtualDevices \cup {Absent}, sort : Sorts, watched : BOOLEAN]
Unused == [dev |-> Absent, sort |-> "never", watched |-> FALSE]

VARIABLES
  zw_nodes,             \* the driver's nodes: a device's sort, or Absent
  saved,                \* the file they are saved to
  g_mid_device_info,
  hcRows, zwRows,       \* DEVICE_TABLE, with a device's sort, and ZW_DEVICE_TABLE
  g_fw_upgrade_flag,
  doing,                \* what the daemon is at: nothing, a session, a removal, its start
  reports,              \* devices whose reports are still to come
  read,                 \* the rows a daemon that starts has read
  at, device,           \* how far it is with one report
  clearing,             \* an application is about to delete all rows
  lost,                 \* history: devices a report of which went wrong
  changes, failures, crashes

deviceVars == <<zw_nodes, saved, g_mid_device_info, hcRows, zwRows, g_fw_upgrade_flag, doing,
                reports, read, at, device, clearing, lost, changes, failures, crashes>>
rowVars == <<hcRows, zwRows>>
boundVars == <<changes, failures, crashes>>

ZwDevicesTypeOK ==
  /\ zw_nodes \in [VirtualDevices -> Sorts \cup {Absent}]
  /\ saved \in [VirtualDevices -> Sorts \cup {Absent}]
  /\ g_mid_device_info \in [Places -> Record]
  /\ hcRows \in [VirtualDevices -> Sorts \cup {Absent}] /\ zwRows \subseteq VirtualDevices
  /\ g_fw_upgrade_flag \in BOOLEAN /\ clearing \in BOOLEAN
  /\ doing \in {"nothing", "add", "delete", "remove", "load", "exit"}
  /\ read \in [VirtualDevices -> Sorts \cup {Absent}]
  /\ reports \subseteq VirtualDevices /\ device \in VirtualDevices \cup {Absent}
  /\ at \in {"none", "add", "added", "undo", "delete", "deleted"}
  /\ lost \subseteq VirtualDevices
  /\ changes \in 0 .. MaxChanges /\ failures \in 0 .. MaxFailures
  /\ crashes \in 0 .. MaxCrashes

NoNodes == [d \in VirtualDevices |-> Absent]

ZwDevicesInit ==
  /\ zw_nodes = NoNodes /\ saved = NoNodes
  /\ g_mid_device_info = [p \in Places |-> Unused]
  /\ hcRows = NoNodes /\ zwRows = {}
  /\ g_fw_upgrade_flag = FALSE /\ clearing = FALSE
  /\ doing = "nothing" /\ reports = {} /\ read = NoNodes /\ at = "none"
  /\ device = Absent /\ lost = {} /\ changes = 0 /\ failures = 0 /\ crashes = 0

-----------------------------------------------------------------------------
(* The table of devices. *)

UnusedPlaces(table) == {p \in Places : table[p].dev = Absent}
LowestPlace(places) == CHOOSE p \in places : \A q \in places : p <= q
PlacesOf(table, d) == {p \in Places : table[p].dev = d}
WatchedAt(table, radio) ==
  {p \in Places : table[p].watched /\ RadioOf[table[p].dev] = radio}

\* Mutant of Placed: the watch of the node is not taken over.
PlacedBeside(table, d, sort) ==
  [table EXCEPT ![LowestPlace(UnusedPlaces(table))] =
     [dev |-> d, sort |-> sort,
      watched |-> sort = "own" \/ (sort = "other" /\ WatchedAt(table, RadioOf[d]) = {})]]

\* set_mid_device_info at the first unused place.
Placed(table, d, sort) ==
  LET found == WatchedAt(table, RadioOf[d]) IN
  [p \in Places |->
     IF p = LowestPlace(UnusedPlaces(table))
     THEN [dev |-> d, sort |-> sort,
           watched |-> sort = "own" \/ (sort = "other" /\ found = {})]
     ELSE IF sort = "own" /\ found # {} /\ p = LowestPlace(found)
     THEN [table[p] EXCEPT !.watched = FALSE]
     ELSE table[p]]

Reset(table, d) == [p \in Places |-> IF table[p].dev = d THEN Unused ELSE table[p]]

-----------------------------------------------------------------------------
(* Sessions, removals, resets. *)

DevicesOf(radio) == {d \in VirtualDevices : RadioOf[d] = radio}

Changes ==
  /\ doing = "nothing" /\ changes < MaxChanges /\ changes' = changes + 1
  /\ UNCHANGED <<hcRows, zwRows, g_fw_upgrade_flag, read, at, device, failures, crashes>>

\* A node joins: the driver has its devices and reports them one by one.
NodeJoins(radio) ==
  /\ Changes /\ \A d \in DevicesOf(radio) : zw_nodes[d] = Absent
  /\ \E new \in (SUBSET DevicesOf(radio)) \ {{}} : \E sorts \in [new -> Sorts] :
       /\ zw_nodes' = [d \in VirtualDevices |-> IF d \in new THEN sorts[d] ELSE zw_nodes[d]]
       /\ reports' = new
  /\ doing' = "add"
  /\ UNCHANGED <<saved, g_mid_device_info, clearing, lost>>

\* A node leaves: its devices are reported one by one, and forgotten.
NodeLeaves(radio) ==
  /\ Changes /\ reports' = {d \in DevicesOf(radio) : zw_nodes[d] # Absent} /\ reports' # {}
  /\ doing' = "delete"
  /\ UNCHANGED <<zw_nodes, saved, g_mid_device_info, clearing, lost>>

\* Mutant of NodeRemoved: the device the application named is the only one reported.
NodeRemovedAlone(d) ==
  /\ Changes /\ hcRows[d] # Absent /\ \E e \in DevicesOf(RadioOf[d]) : zw_nodes[e] # Absent
  /\ zw_nodes' = [e \in VirtualDevices |->
                    IF RadioOf[e] = RadioOf[d] THEN Absent ELSE zw_nodes[e]]
  /\ saved' = zw_nodes' /\ doing' = "remove" /\ reports' = {d}
  /\ UNCHANGED <<g_mid_device_info, clearing, lost>>

\* A failed node is removed, named by one of its devices in the database: that one
\* is reported deleted, and those of the table.
NodeRemoved(d) ==
  /\ Changes /\ hcRows[d] # Absent /\ \E e \in DevicesOf(RadioOf[d]) : zw_nodes[e] # Absent
  /\ zw_nodes' = [e \in VirtualDevices |->
                    IF RadioOf[e] = RadioOf[d] THEN Absent ELSE zw_nodes[e]]
  /\ saved' = zw_nodes' /\ doing' = "remove"
  /\ reports' = {d} \cup {e \in DevicesOf(RadioOf[d]) : PlacesOf(g_mid_device_info, e) # {}}
  /\ UNCHANGED <<g_mid_device_info, clearing, lost>>

\* The controller is reset: the application deletes the rows when it has the answer.
SetDefault ==
  /\ Changes /\ ~ clearing
  /\ zw_nodes' = NoNodes /\ saved' = NoNodes
  /\ g_mid_device_info' = [p \in Places |-> Unused]
  /\ clearing' = TRUE
  /\ lost' = {d \in VirtualDevices : hcRows[d] # Absent \/ d \in zwRows}
  /\ UNCHANGED <<doing, reports>>

DeleteRows ==
  /\ clearing /\ clearing' = FALSE
  /\ hcRows' = NoNodes /\ zwRows' = {}
  /\ lost' = {d \in VirtualDevices :
                \/ zw_nodes[d] # Absent \/ d \in reports \cup {device}
                \/ PlacesOf(g_mid_device_info, d) # {}}
  /\ UNCHANGED <<zw_nodes, saved, g_mid_device_info, g_fw_upgrade_flag, doing, reports, read,
                 at, device, boundVars>>

\* The upgrade of the gateway is announced, unless a session is on, or called off.
UpgradeFlag ==
  /\ doing # "exit"
  /\ g_fw_upgrade_flag' = ~ g_fw_upgrade_flag
  /\ g_fw_upgrade_flag' => doing \notin {"add", "delete"}
  /\ UNCHANGED <<zw_nodes, saved, g_mid_device_info, rowVars, doing, reports, read, at,
                 device, clearing, lost, boundVars>>

-----------------------------------------------------------------------------
(* One report: the table, then the database. *)

Reports(d, kinds) ==
  /\ doing \in kinds /\ at = "none" /\ d \in reports
  /\ reports' = reports \ {d}
  /\ UNCHANGED <<saved, rowVars, g_fw_upgrade_flag, doing, read, clearing, boundVars>>

Ignored(d) == lost' = lost \cup {d} /\ UNCHANGED <<g_mid_device_info, at, device>>

AddedSuccess(d) ==
  /\ Reports(d, {"add"}) /\ UNCHANGED zw_nodes
  /\ IF g_fw_upgrade_flag THEN Ignored(d)
     ELSE /\ at' = "add" /\ device' = d
          /\ IF PlacesOf(g_mid_device_info, d) # {}
             THEN UNCHANGED <<g_mid_device_info, lost>>
             ELSE IF UnusedPlaces(g_mid_device_info) = {}
             THEN lost' = lost \cup {d} /\ UNCHANGED g_mid_device_info
             ELSE /\ g_mid_device_info' = Placed(g_mid_device_info, d, zw_nodes[d])
                  /\ UNCHANGED lost

DeletedSuccess(d) ==
  /\ Reports(d, {"delete", "remove"}) /\ zw_nodes' = [zw_nodes EXCEPT ![d] = Absent]
  /\ IF g_fw_upgrade_flag THEN Ignored(d)
     ELSE /\ at' = "delete" /\ device' = d /\ UNCHANGED lost
          /\ g_mid_device_info' = Reset(g_mid_device_info, d)

Statement(stage) ==
  /\ at = stage
  /\ UNCHANGED <<zw_nodes, saved, g_mid_device_info, g_fw_upgrade_flag, doing, reports,
                 read, clearing, changes, crashes>>

Fine(stage) == at' = stage /\ UNCHANGED <<device, failures>>
FailsFor(stage) ==
  failures < MaxFailures /\ failures' = failures + 1 /\ at' = stage /\ UNCHANGED device
ReportOver == at' = "none" /\ device' = Absent

\* hcapi_get_dev_by_dev_id finds the row, or hcapi_add_dev writes it; the latter
\* may have written it when it fails.
AddHcRow ==
  /\ Statement("add") /\ UNCHANGED zwRows
  /\ \/ /\ hcRows[device] # Absent /\ ReportOver
        /\ UNCHANGED <<hcRows, failures, lost>>
     \/ /\ hcRows[device] = Absent /\ Fine("added")
        /\ hcRows' = [hcRows EXCEPT ![device] = zw_nodes[device]] /\ UNCHANGED lost
     \/ /\ failures < MaxFailures /\ failures' = failures + 1 /\ ReportOver
        /\ lost' = lost \cup {device}
        /\ \/ UNCHANGED hcRows
           \/ hcRows' = [hcRows EXCEPT ![device] = zw_nodes[device]]

\* The row of ZW_DEVICE_TABLE, a duplicate of which its key refuses.
AddZwRow ==
  /\ Statement("added") /\ UNCHANGED hcRows
  /\ \/ /\ device \notin zwRows /\ zwRows' = zwRows \cup {device}
        /\ ReportOver /\ UNCHANGED <<lost, failures>>
     \/ /\ lost' = lost \cup {device} /\ UNCHANGED zwRows
        /\ IF device \in zwRows THEN Fine("undo") ELSE FailsFor("undo")

UndoHcRow ==
  /\ Statement("undo") /\ ReportOver /\ UNCHANGED <<zwRows, lost>>
  /\ \/ hcRows' = [hcRows EXCEPT ![device] = Absent] /\ UNCHANGED failures
     \/ failures < MaxFailures /\ failures' = failures + 1 /\ UNCHANGED hcRows

\* A failure to delete the row of ZW_DEVICE_TABLE is not counted as one.
DeleteZwRow ==
  /\ Statement("delete") /\ UNCHANGED hcRows
  /\ \/ Fine("deleted") /\ zwRows' = zwRows \ {device} /\ UNCHANGED lost
     \/ FailsFor("deleted") /\ lost' = lost \cup {device} /\ UNCHANGED zwRows

DeleteHcRow ==
  /\ Statement("deleted") /\ UNCHANGED zwRows /\ ReportOver
  /\ \/ /\ hcRows' = [hcRows EXCEPT ![device] = Absent] /\ UNCHANGED failures
        /\ lost' = IF device \in zwRows THEN lost ELSE lost \ {device}
     \/ /\ failures < MaxFailures /\ failures' = failures + 1
        /\ lost' = lost \cup {device} /\ UNCHANGED hcRows

\* The session ends: the driver saves its nodes.
SessionOver ==
  /\ doing \in {"add", "delete", "remove"} /\ reports = {} /\ at = "none"
  /\ saved' = zw_nodes /\ doing' = "nothing"
  /\ UNCHANGED <<zw_nodes, g_mid_device_info, rowVars, g_fw_upgrade_flag, reports, read,
                 at, device, clearing, lost, boundVars>>

-----------------------------------------------------------------------------
(* The daemon dies, and is started again. *)

\* The devices of the session that was on are the ones that may differ.
Crash ==
  /\ doing # "exit" /\ crashes < MaxCrashes /\ crashes' = crashes + 1
  /\ zw_nodes' = saved
  /\ g_mid_device_info' = [p \in Places |-> Unused]
  /\ g_fw_upgrade_flag' = FALSE
  /\ at' = "none" /\ device' = Absent
  /\ doing' = "load" /\ reports' = {d \in VirtualDevices : hcRows[d] # Absent}
  /\ read' = hcRows
  /\ lost' = lost \cup {d \in VirtualDevices :
                          \/ d \in reports \cup {device} /\ doing # "load"
                          \/ zw_nodes[d] # saved[d]}
  /\ UNCHANGED <<saved, rowVars, clearing, changes, failures>>

\* mid_device_init_from_db, a row at a time; without room the daemon ends.
LoadDevice(d) ==
  /\ doing = "load" /\ d \in reports
  /\ IF UnusedPlaces(g_mid_device_info) = {}
     THEN doing' = "exit" /\ reports' = {} /\ UNCHANGED g_mid_device_info
     ELSE /\ g_mid_device_info' = Placed(g_mid_device_info, d, read[d])
          /\ reports' = reports \ {d} /\ UNCHANGED doing
  /\ UNCHANGED <<zw_nodes, saved, rowVars, g_fw_upgrade_flag, read, at, device, clearing,
                 lost, boundVars>>

LoadOver ==
  /\ doing = "load" /\ reports = {} /\ doing' = "nothing" /\ read' = NoNodes
  /\ UNCHANGED <<zw_nodes, saved, g_mid_device_info, rowVars, g_fw_upgrade_flag, reports, at,
                 device, clearing, lost, boundVars>>

ZwDevicesNext ==
  \/ \E n \in Radios : NodeJoins(n) \/ NodeLeaves(n)
  \/ \E d \in VirtualDevices :
       NodeRemoved(d) \/ AddedSuccess(d) \/ DeletedSuccess(d) \/ LoadDevice(d)
  \/ SetDefault \/ DeleteRows \/ UpgradeFlag
  \/ AddHcRow \/ AddZwRow \/ UndoHcRow \/ DeleteZwRow \/ DeleteHcRow \/ SessionOver
  \/ Crash \/ LoadOver

ZwDevicesSpec == ZwDevicesInit /\ [][ZwDevicesNext]_deviceVars

-----------------------------------------------------------------------------
Watcher(p, radio) == p \in WatchedAt(g_mid_device_info, radio)

\* No two devices of a node are watched.  When nothing is going on, a node with a
\* device that can be watched is, through its battery or thermostat if it has one,
\* unless a report of one of its devices went wrong.
NodesAreWatched ==
  \A n \in Radios :
    /\ \A p, q \in Places : Watcher(p, n) /\ Watcher(q, n) => p = q
    /\ doing = "nothing" /\ DevicesOf(n) \cap lost = {} =>
         \A p \in Places :
           g_mid_device_info[p].dev \in DevicesOf(n) /\ g_mid_device_info[p].sort # "never" =>
             \E q \in Places :
               /\ Watcher(q, n)
               /\ g_mid_device_info[p].sort = "own" => g_mid_device_info[q].sort = "own"

\* When nothing is going on, the driver, its file, the table and both tables of the
\* database have the same devices, but for those a report of which went wrong; and
\* a daemon that cannot be started again had no room for a device before.
RecordsAgree ==
  /\ doing = "nothing" =>
       \A d \in VirtualDevices \ lost :
         LET place == PlacesOf(g_mid_device_info, d) IN
         /\ saved[d] = zw_nodes[d] /\ hcRows[d] = zw_nodes[d]
         /\ d \in zwRows <=> zw_nodes[d] # Absent
         /\ place = {} <=> zw_nodes[d] = Absent
         /\ \A p \in place : g_mid_device_info[p].sort = zw_nodes[d]
  /\ doing = "exit" => lost # {}
=============================================================================
