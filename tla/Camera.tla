------------------------------- MODULE Camera -------------------------------
(***************************************************************************)
(* The camera daemon's table of cameras, camerainfo, and its table of      *)
(* video feeds, g_cam_map_tab (camera/src/camera_main.c, camera_state.c,   *)
(* camera_util.c).  Every answer to the search for cameras gets a thread   *)
(* of its own (handle_search_result) that takes an entry for the camera,   *)
(* numbers it, asks the camera for what it is, takes a feed and announces  *)
(* it; an entry is not locked while that goes on.  The message thread      *)
(* deletes entries and switches the adding of cameras on and off, the      *)
(* search thread sets cameras that are silent offline; these two exclude   *)
(* each other by g_task_mutex, which the answers' threads do not take.     *)
(* The feeds are added under g_add_mutex and deleted under                 *)
(* g_cam_map_tab_mutex: the count of feeds is read and written under two   *)
(* different locks.  What the network and the database answer is chosen.   *)
(* A camera's sensors, its clips and the firmware of the cameras are left  *)
(* out.                                                                    *)
(***************************************************************************)
EXTENDS Naturals, FiniteSets

CONSTANTS
  Cameras,      \* the cameras' ONVIF uids
  Addresses,    \* IP addresses; the stream of a camera is named by its address
  Searches,     \* the threads of the answers to a search
  CameraCount,  \* CAMERACOUNT
  FeedCount,    \* CAM_MAX_NUM
  MaxNumber,    \* bound: the highest camera id given
  MaxAnswers,   \* bound: the answers to searches
  MaxOrders,    \* bound: the messages
  Nothing       \* an empty string

ASSUME CameraAssumption ==
  /\ CameraCount \in Nat \ {0} /\ FeedCount \in Nat \ {0}
  /\ MaxNumber \in Nat /\ MaxAnswers \in Nat /\ MaxOrders \in Nat
  /\ Nothing \notin Cameras \cup Addresses

VARIABLES
  entry,     \* camerainfo
  feed,      \* g_cam_map_tab.media_url
  feeds,     \* g_cam_map_tab.count
  search,    \* the threads of handle_search_result and their locals
  adder,     \* who holds g_add_mutex while a feed is added
  mapper,    \* who holds g_cam_map_tab_mutex
  order,     \* the message thread and its locals
  window,    \* enable_add_tick: "zero", "open" or "past"
  locked,    \* g_fw_upgrade_flag
  rows,      \* the cameras in the database
  answers,   \* the answers so far
  orders,    \* the messages so far
  kept,      \* history: the rows a failed delete or the deleting of all left,
             \* and those that found no entry beside them
  raced,     \* history: two used an entry at a time, or a number was reused
  uncounted  \* history: feeds were added and deleted at a time, or a blank one was deleted

cameraTables == <<entry, feed, feeds, rows>>
cameraVars == <<cameraTables, search, adder, mapper, order, window, locked, answers,
                orders, kept, raced, uncounted>>

Entries == 1 .. CameraCount
Feeds == 1 .. FeedCount
Numbers == 1 .. MaxNumber
Streams == Addresses \cup {Nothing}
Uids == Cameras \cup {Nothing}

\* DAEMON_CAMERA_INFO_S: the fields that decide something.
Entry == [uid : Uids, id : 0 .. MaxNumber, state : {"null", "online", "offline"},
          ip : Streams, remote : 0 .. FeedCount, stream : Streams]

\* memset(camera, 0, sizeof(DAEMON_CAMERA_INFO_S))
Wiped == [uid |-> Nothing, id |-> 0, state |-> "null", ip |-> Nothing,
          remote |-> 0, stream |-> Nothing]

SearchStages == {"idle", "claim", "update", "test", "number", "fetch", "feed",
                 "count", "unfeed", "uncount", "settle", "announce"}

\* A thread's locals: the entry, the camera and its address, is_add, the
\* number of the feed it took, and the count it has read.
Search == [at : SearchStages, entry : 0 .. CameraCount, uid : Uids, ip : Streams,
           add : BOOLEAN, feed : 0 .. FeedCount, read : Nat]

Resting == [at |-> "idle", entry |-> 0, uid |-> Nothing, ip |-> Nothing,
            add |-> FALSE, feed |-> 0, read |-> 0]

\* The message thread: the entries it still has to free, the camera it
\* deletes (0: all of them) and the count it has read.
Order == [at : {"idle", "free", "count", "reply", "load"},
          left : SUBSET Entries, id : 0 .. MaxNumber, read : Nat]

NoOrder == [at |-> "idle", left |-> {}, id |-> 0, read |-> 0]

Rows == [id : 0 .. MaxNumber, uid : Uids]

CameraTypeOK ==
  /\ entry \in [Entries -> Entry]
  /\ feed \in [Feeds -> Streams]
  /\ feeds \in Nat
  /\ search \in [Searches -> Search]
  /\ adder \subseteq Searches
  /\ mapper \subseteq Searches \cup {Nothing}
  /\ order \in Order
  /\ window \in {"zero", "open", "past"}
  /\ rows \subseteq Rows /\ kept \subseteq 0 .. MaxNumber
  /\ answers \in 0 .. MaxAnswers /\ orders \in 0 .. MaxOrders
  /\ {locked, raced, uncounted} \subseteq BOOLEAN

CameraInit ==
  /\ entry = [e \in Entries |-> Wiped]
  /\ feed = [f \in Feeds |-> Nothing] /\ feeds = 0
  /\ search = [t \in Searches |-> Resting]
  /\ adder = {} /\ mapper = {}
  /\ order = NoOrder /\ window = "zero" /\ locked = FALSE
  /\ rows = {}
  /\ answers = 0 /\ orders = 0
  /\ kept = {} /\ raced = FALSE /\ uncounted = FALSE

Lowest(S) == CHOOSE x \in S : \A y \in S : x <= y

Using(e) == {t \in Searches : search[t].entry = e /\ search[t].at # "idle"}

Stage(t, s) == search' = [search EXCEPT ![t].at = s]
Finish(t) == search' = [search EXCEPT ![t] = Resting]

-----------------------------------------------------------------------------
(* A thread of an answer to the search                                     *)

\* camera_search: camera c answers from address a, and a thread is started.
Answer(t, c, a) ==
  /\ search[t].at = "idle" /\ answers < MaxAnswers
  /\ search' = [search EXCEPT ![t].at = "claim", ![t].uid = c, ![t].ip = a]
  /\ answers' = answers + 1
  /\ UNCHANGED <<cameraTables, adder, mapper, order, window, locked, orders, raced, uncounted, kept>>

\* handle_search_result: the entry of the camera, or the first without a uid
\* (get_camera_by_uid, get_camera_unused), under g_add_mutex.
Claim(t) ==
  LET mine == {e \in Entries : entry[e].uid = search[t].uid}
      unused == {e \in Entries : entry[e].uid = Nothing}
      e == Lowest(IF mine # {} THEN mine ELSE unused)
  IN
  /\ search[t].at = "claim" /\ adder = {}
  /\ IF mine \cup unused = {}
       THEN Finish(t) /\ UNCHANGED <<entry, raced>>
       ELSE /\ entry' = [entry EXCEPT ![e].uid = search[t].uid]
            /\ search' = [search EXCEPT ![t].at = "update", ![t].entry = e]
            /\ raced' = (raced \/ Using(e) # {} \/ order.at # "idle")
  /\ UNCHANGED <<feed, feeds, rows, adder, mapper, order, window, locked, answers,
                 orders, uncounted, kept>>

\* hcapi_set_dev of the camera in entry r: nothing when the row is not there.
Rewritten(r) == {[id |-> w.id, uid |-> IF w.id = r.id THEN r.uid ELSE w.uid] : w \in rows}

\* camera_update_state: what an answer means to a camera in this state; the
\* camera's configuration may fail (camera_add begins with it).
Update(t) ==
  LET e == search[t].entry
      same == entry[e].ip = search[t].ip
      moved == [entry EXCEPT ![e].ip = Nothing]
      GoOn == \/ Stage(t, "test") \/ Finish(t)
  IN
  /\ search[t].at = "update"
  /\ \/ /\ entry[e].state = "null" /\ (window = "open" \/ entry[e].id # 0)
        /\ GoOn /\ UNCHANGED <<entry, rows>>
     \/ /\ entry[e].state = "null" /\ window # "open" /\ entry[e].id = 0
        /\ Finish(t) /\ UNCHANGED <<entry, rows>>
     \/ /\ entry[e].state = "online" /\ same
        /\ Finish(t) /\ UNCHANGED <<entry, rows>>
     \/ /\ entry[e].state = "offline" /\ same /\ entry[e].remote # 0
        /\ Finish(t)
        /\ entry' = [entry EXCEPT ![e].state = "online"]
        /\ rows' = IF locked THEN rows ELSE Rewritten(entry[e])
     \/ /\ entry[e].state = "online" => ~same
        /\ entry[e].state # "null"
        /\ GoOn /\ entry' = moved /\ UNCHANGED rows
  /\ UNCHANGED <<feed, feeds, adder, mapper, order, window, locked, answers,
                 orders, raced, uncounted, kept>>

\* camera_add: is_add is decided before the lock is taken.
Test(t) ==
  LET new == entry[search[t].entry].id = 0 IN
  /\ search[t].at = "test"
  /\ search' = [search EXCEPT ![t].add = new, ![t].at = IF new THEN "number" ELSE "fetch"]
  /\ UNCHANGED <<cameraTables, adder, mapper, order, window, locked, answers, orders,
                 raced, uncounted, kept>>

\* get_camera_id: one more than the highest number in the table, under
\* g_add_mutex.
Number(t) ==
  LET taken == {entry[e].id : e \in Entries}
      next == 1 + CHOOSE n \in taken : \A m \in taken : m <= n
  IN
  /\ search[t].at = "number" /\ adder = {} /\ next \in Numbers
  /\ entry' = [entry EXCEPT ![search[t].entry].id = next]
  /\ raced' = (raced \/ \E r \in rows : r.id = next)
  /\ Stage(t, "fetch")
  /\ UNCHANGED <<feed, feeds, rows, adder, mapper, order, window, locked, answers,
                 orders, uncounted, kept>>

\* Mutant of Fails: an entry that was there before is wiped too.
FailsWiping(t) ==
  /\ entry' = [entry EXCEPT ![search[t].entry] = Wiped]
  /\ Finish(t)

\* What a failure leaves: a new camera's entry is wiped.
Fails(t) ==
  /\ entry' = IF search[t].add THEN [entry EXCEPT ![search[t].entry] = Wiped] ELSE entry
  /\ Finish(t)

\* The camera's firmware, model and media URL are asked for.
Fetch(t) ==
  /\ search[t].at = "fetch"
  /\ \/ Stage(t, "feed") /\ UNCHANGED entry
     \/ Fails(t)
  /\ UNCHANGED <<feed, feeds, rows, adder, mapper, order, window, locked, answers,
                 orders, raced, uncounted, kept>>

\* add_media_url, under g_add_mutex: the first blank feed takes the URL.
TakeFeed(t) ==
  LET blank == {f \in Feeds : feed[f] = Nothing} IN
  /\ search[t].at = "feed" /\ adder = {}
  /\ IF feeds >= FeedCount \/ blank = {}
       THEN Stage(t, "settle") /\ UNCHANGED <<feed, adder, uncounted>>
       ELSE /\ feed' = [feed EXCEPT ![Lowest(blank)] = search[t].ip]
            /\ search' = [search EXCEPT ![t].at = "count", ![t].feed = Lowest(blank),
                                        ![t].read = feeds]
            /\ adder' = {t}
            /\ uncounted' = (uncounted \/ mapper # {})
  /\ UNCHANGED <<entry, feeds, rows, mapper, order, window, locked, answers, orders, raced, kept>>

\* The rest of add_media_url; the camera's old feed has to go first.
CountFeed(t) ==
  LET e == search[t].entry IN
  /\ search[t].at = "count"
  /\ feeds' = search[t].read + 1 /\ adder' = {}
  /\ IF entry[e].remote # 0
       THEN Stage(t, "unfeed") /\ UNCHANGED entry
       ELSE Stage(t, "settle") /\ entry' = [entry EXCEPT ![e].remote = search[t].feed]
  /\ UNCHANGED <<feed, rows, mapper, order, window, locked, answers, orders, raced, uncounted, kept>>

\* del_media_url(url), under g_cam_map_tab_mutex: the first feed that equals
\* url, a blank one when url is blank, unless the count is 0.
Matching(url) == {f \in Feeds : feed[f] = url /\ feeds > 0}

Unmapped(url) ==
  /\ feed' = [feed EXCEPT ![Lowest(Matching(url))] = Nothing]
  /\ uncounted' = (uncounted \/ adder # {} \/ url = Nothing)

\* The old feed's URL and the camera's own are cleared, and the new remote
\* number is set.
Replaced(t) == [entry EXCEPT ![search[t].entry].ip = Nothing,
                             ![search[t].entry].stream = Nothing,
                             ![search[t].entry].remote = search[t].feed]

Unfeed(t) ==
  LET url == entry[search[t].entry].stream IN
  /\ search[t].at = "unfeed" /\ mapper = {}
  /\ IF Matching(url) = {}
       THEN Stage(t, "settle") /\ entry' = Replaced(t) /\ UNCHANGED <<feed, mapper, uncounted>>
       ELSE /\ Unmapped(url) /\ mapper' = {t}
            /\ search' = [search EXCEPT ![t].at = "uncount", ![t].read = feeds]
            /\ UNCHANGED entry
  /\ UNCHANGED <<feeds, rows, adder, order, window, locked, answers, orders, raced, kept>>

Uncount(t) ==
  /\ search[t].at = "uncount"
  /\ feeds' = search[t].read - 1 /\ mapper' = {}
  /\ entry' = Replaced(t)
  /\ Stage(t, "settle")
  /\ UNCHANGED <<feed, rows, adder, order, window, locked, answers, orders, raced, uncounted, kept>>

\* The camera is online at its address, and its stream is known.
Settle(t) ==
  LET e == search[t].entry IN
  /\ search[t].at = "settle"
  /\ entry' = [entry EXCEPT ![e].state = "online", ![e].ip = search[t].ip,
                            ![e].stream = search[t].ip]
  /\ Stage(t, "announce")
  /\ UNCHANGED <<feed, feeds, rows, adder, mapper, order, window, locked, answers,
                 orders, raced, uncounted, kept>>

\* camera_send_msg_to_app, camera_update_db: a new camera's row is added
\* unless its number has one, an old one's is set; a sensor or the database
\* may fail, and while firmware is upgraded the database is not asked.
Announce(t) ==
  LET r == entry[search[t].entry] IN
  /\ search[t].at = "announce"
  /\ \/ Fails(t) /\ UNCHANGED rows
     \/ /\ locked \/ (search[t].add /\ \E w \in rows : w.id = r.id)
        /\ Finish(t) /\ UNCHANGED <<entry, rows>>
     \/ /\ ~locked /\ search[t].add /\ \A w \in rows : w.id # r.id
        /\ Finish(t) /\ rows' = rows \cup {[id |-> r.id, uid |-> r.uid]} /\ UNCHANGED entry
     \/ /\ ~locked /\ ~search[t].add
        /\ Finish(t) /\ rows' \in {rows, Rewritten(r)} /\ UNCHANGED entry
  /\ UNCHANGED <<feed, feeds, adder, mapper, order, window, locked, answers, orders,
                 raced, uncounted, kept>>

-----------------------------------------------------------------------------
(* The message thread and the search thread                                *)

Ordered == /\ orders < MaxOrders /\ order.at = "idle"
           /\ orders' = orders + 1

\* HC_EVENT_REQ_DEVICE_DELETE (camera_del): the entry of camera n is freed;
\* when there is none the table is wiped, to be loaded again.
Delete(n) ==
  LET found == {e \in Entries : entry[e].id = n} IN
  /\ Ordered /\ ~locked
  /\ IF found # {}
       THEN /\ order' = [at |-> "free", left |-> {Lowest(found)}, id |-> n, read |-> 0]
            /\ UNCHANGED <<entry, raced>>
       ELSE /\ order' = [at |-> "load", left |-> {}, id |-> n, read |-> 0]
            /\ entry' = [e \in Entries |-> Wiped]
            /\ raced' = (raced \/ \E t \in Searches : search[t].entry # 0)
  /\ UNCHANGED <<feed, feeds, rows, search, adder, mapper, window, locked, answers, uncounted, kept>>

\* HC_EVENT_REQ_DEVICE_DEFAULT (camera_clean_all): every entry is freed; the
\* rows are the application's to remove.
CleanAll ==
  /\ Ordered /\ ~locked
  /\ order' = [at |-> "free", left |-> Entries, id |-> 0, read |-> 0]
  /\ UNCHANGED <<cameraTables, search, adder, mapper, window, locked, answers, kept, raced, uncounted>>

\* The entry e is wiped; a delete goes on to the reply.
Wipe(e) ==
  /\ entry' = [entry EXCEPT ![e] = Wiped]
  /\ raced' = (raced \/ Using(e) # {})
  /\ kept' = IF order.id = 0 THEN kept \cup {entry[e].id} ELSE kept

AfterWipe(e) ==
  LET rest == order.left \ {e} IN
  order' = [at |-> IF rest # {} THEN "free" ELSE IF order.id = 0 THEN "idle" ELSE "reply",
            left |-> rest, id |-> order.id, read |-> 0]

\* camera_del, camera_clean_all: the camera's feed goes, then the entry.
FreeFeed ==
  LET e == Lowest(order.left)
      url == entry[e].stream
  IN
  /\ order.at = "free" /\ mapper = {}
  /\ order.id = 0 => entry[e].id # 0
  /\ IF Matching(url) = {}
       THEN Wipe(e) /\ AfterWipe(e) /\ UNCHANGED <<feed, mapper, uncounted>>
       ELSE /\ Unmapped(url) /\ mapper' = {Nothing}
            /\ order' = [order EXCEPT !.at = "count", !.read = feeds]
            /\ UNCHANGED <<entry, kept, raced>>
  /\ UNCHANGED <<feeds, rows, search, adder, window, locked, answers, orders>>

\* Mutant of FreeEntry: the feed is not counted out.
FreeUncounted ==
  LET e == Lowest(order.left) IN
  /\ order.at = "count"
  /\ feeds' = order.read /\ mapper' = {}
  /\ Wipe(e) /\ AfterWipe(e)
  /\ UNCHANGED <<feed, rows, search, adder, window, locked, answers, orders, uncounted>>

FreeEntry ==
  LET e == Lowest(order.left) IN
  /\ order.at = "count"
  /\ feeds' = order.read - 1 /\ mapper' = {}
  /\ Wipe(e) /\ AfterWipe(e)
  /\ UNCHANGED <<feed, rows, search, adder, window, locked, answers, orders, uncounted>>

\* camera_clean_all passes over the entries without a number.
PassOver ==
  /\ order.at = "free" /\ order.id = 0 /\ entry[Lowest(order.left)].id = 0
  /\ AfterWipe(Lowest(order.left))
  /\ UNCHANGED <<cameraTables, search, adder, mapper, window, locked, answers, orders, kept,
                 raced, uncounted>>

\* camera_msg_reply: the row of the deleted camera goes, unless the database
\* fails.
ReplyDeleted ==
  /\ order.at = "reply" /\ order' = NoOrder
  /\ \/ rows' = {r \in rows : r.id # order.id} /\ kept' = kept \ {order.id}
     \/ kept' = kept \cup {order.id} /\ UNCHANGED rows
  /\ UNCHANGED <<entry, feed, feeds, search, adder, mapper, window, locked, answers,
                 orders, raced, uncounted>>

\* camera_info_init: the rows, by their numbers, go to the entries that have
\* no number; a row whose number is there already stays where it is.  The rows
\* that are left may be too many: the last find no entry.
Load ==
  LET new == {r \in rows : \A e \in Entries : entry[e].id # r.id}
      free == {e \in Entries : entry[e].id = 0}
      RowFor(e) == {r \in new : Cardinality({q \in new : q.id < r.id})
                                   = Cardinality({d \in free : d < e})}
  IN
  /\ order.at = "load" /\ order' = NoOrder
  /\ entry' = [e \in Entries |->
                 IF e \notin free \/ RowFor(e) = {} THEN entry[e]
                 ELSE LET r == CHOOSE r \in RowFor(e) : TRUE
                      IN [entry[e] EXCEPT !.id = r.id, !.uid = r.uid]]
  /\ kept' = IF \E r \in rows : r.id \in kept
             THEN kept \cup {r.id : r \in {r \in new : \A e \in Entries : entry'[e].id # r.id}}
             ELSE kept
  /\ UNCHANGED <<feed, feeds, rows, search, adder, mapper, window, locked, answers,
                 orders, raced, uncounted>>

\* HC_EVENT_REQ_DEVICE_SET "addon": the adding of cameras is switched on for
\* a time, or off.
Window(w) ==
  /\ Ordered /\ ~locked
  /\ window' = w /\ order' = order
  /\ UNCHANGED <<cameraTables, search, adder, mapper, locked, answers, kept, raced, uncounted>>

\* The time is over; enable_add_tick keeps its value.
WindowPasses ==
  /\ window = "open" /\ window' = "past"
  /\ UNCHANGED <<cameraTables, search, adder, mapper, order, locked, answers, orders, kept,
                 raced, uncounted>>

\* HC_EVENT_EXT_FW_UPGRADE_LOCK, refused while enable_add_tick is set, and
\* HC_EVENT_EXT_FW_UPGRADE_UNLOCK.
FirmwareLock ==
  /\ Ordered /\ order' = order
  /\ locked' = (~locked /\ window = "zero")
  /\ UNCHANGED <<cameraTables, search, adder, mapper, window, answers, kept, raced, uncounted>>

\* A camera is set offline, and its row with it.
Silent(E) ==
  /\ entry' = [e \in Entries |-> IF e \in E THEN [entry[e] EXCEPT !.state = "offline"] ELSE entry[e]]
  /\ rows' = {[id |-> w.id,
               uid |-> IF locked \/ \A e \in E : entry[e].id # w.id THEN w.uid
                       ELSE entry[Lowest({e \in E : entry[e].id = w.id})].uid] : w \in rows}
  /\ order' = order
  /\ UNCHANGED <<feed, feeds, search, adder, mapper, window, locked, answers, kept,
                 raced, uncounted>>

\* polling_event: cameras that did not answer for long are set offline, but
\* only when the adding of cameras was switched off.
Poll ==
  /\ order.at = "idle" /\ window = "zero" /\ orders' = orders
  /\ \E E \in SUBSET {e \in Entries : entry[e].state # "offline" /\ entry[e].id # 0} :
       E # {} /\ Silent(E)

\* HC_EVENT_WLAN_CONFIGURE_CHANGED: every camera that is online.
WlanChanged ==
  /\ Ordered /\ ~locked
  /\ Silent({e \in Entries : entry[e].state = "online" /\ entry[e].id # 0})

-----------------------------------------------------------------------------
SearchThread(t) ==
  \/ \E c \in Cameras, a \in Addresses : Answer(t, c, a)
  \/ Claim(t) \/ Update(t) \/ Test(t) \/ Number(t) \/ Fetch(t) \/ TakeFeed(t)
  \/ CountFeed(t) \/ Unfeed(t) \/ Uncount(t) \/ Settle(t) \/ Announce(t)

Messages ==
  \/ \E n \in Numbers : Delete(n)
  \/ CleanAll \/ FreeFeed \/ FreeEntry \/ PassOver \/ ReplyDeleted \/ Load
  \/ \E w \in {"zero", "open"} : Window(w)
  \/ WindowPasses \/ FirmwareLock \/ Poll \/ WlanChanged

CameraNext == Messages \/ \E t \in Searches : SearchThread(t)

CameraSpec == CameraInit /\ [][CameraNext]_cameraVars

-----------------------------------------------------------------------------
\* A camera in the database is in the table under its number, as long as no
\* two used an entry at a time: what is left in the database without an entry
\* is being deleted or loaded, was left by a delete that failed, or found the
\* entries taken by such rows when the table was loaded again.  The threads of
\* the answers write their entry without a lock, and wipe it when they fail.
RowHasEntry ==
  \A r \in rows :
    \/ raced \/ r.id \in kept
    \/ order.at \in {"reply", "load"}
    \/ \E e \in Entries : entry[e].id = r.id /\ entry[e].uid = r.uid

\* g_cam_map_tab.count is the number of feeds taken, but for the one being
\* counted, as long as a feed was not added while another was deleted (their
\* locks differ) and no camera without a stream was deleted, whose blank URL
\* equals the first feed that is free.
FeedsCounted ==
  \/ uncounted
  \/ feeds = Cardinality({f \in Feeds : feed[f] # Nothing})
              + Cardinality({t \in Searches : search[t].at = "uncount"})
              + (IF order.at = "count" THEN 1 ELSE 0)
              - Cardinality(adder)

\* The tables of cameras, of feeds and of the database go together.
TablesAgree == RowHasEntry /\ FeedsCounted
=============================================================================
