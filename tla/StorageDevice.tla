---------------------------- MODULE StorageDevice ----------------------------
(***************************************************************************)
(* The device behind the file lists (src/src/storage/rkadk_storage.c): its *)
(* mount status, the uevents of plugging and unplugging it that the        *)
(* listener passes to the message thread, the scan thread that is started  *)
(* for a device and the monitor thread that one starts, formatting, and    *)
(* RKADK_STORAGE_Init and Deinit.  What the two threads do with the files  *)
(* of a mounted device is module StorageFiles; here they only loop.        *)
(*                                                                         *)
(* There is one device and one mount path.  The system mounts a formatted  *)
(* device before its uevent arrives.  Folders, the message thread, the     *)
(* listener's socket and scan threads can be created, and a status is read *)
(* and reported in one step.                                               *)
(***************************************************************************)
EXTENDS Integers, Sequences

CONSTANTS
  Slow,      \* TRUE: nothing happens in the windows listed at Calm
  MaxPlugs, MaxFormats, MaxScans \* bounds

VARIABLES
  present, formatted, mounted, \* the device and its line in /proc/mounts
  named,     \* the application gave cDevPath
  uevents,   \* in the netlink socket
  listener,  \* thread: "none", "binding" its socket, or "on"
  eventListenerRun, quit,
  msgs,      \* stMsgHd
  pc,        \* of the application and of the message thread
  joins,     \* the scan thread each of them waits for
  status,    \* s32MountStatus
  reported,  \* the last status pfnStatusCallback got
  pathKnown, \* stDevSta.cDevPath is that of the device
  fileScanTid, fsckQuit,
  folder,    \* pstFolder: the scan thread that allocated it, or 0
  scan, monitor, \* the threads: where they are
  unmountSeen,   \* monitors that an IN_UNMOUNT waits for
  unheard,   \* nobody heard that the device was plugged
  plugs, formats

device  == <<present, formatted, mounted>>
inbox   == <<uevents, listener, eventListenerRun, quit, msgs>>
callers == <<pc, joins>>
state   == <<status, reported>>
threads == <<fileScanTid, fsckQuit, folder, scan, monitor, unmountSeen>>
bounds  == <<unheard, plugs, formats>>
devVars == <<device, named, inbox, callers, state, pathKnown, threads, bounds>>

Callers == {"app", "msg"}
Scans   == 1 .. MaxScans
Dead    == {"none", "ended"}

DevInit ==
  /\ present \in BOOLEAN /\ formatted \in BOOLEAN /\ mounted = (present /\ formatted)
  /\ named \in BOOLEAN
  /\ uevents = <<>> /\ listener = "none" /\ eventListenerRun = FALSE /\ quit = FALSE /\ msgs = <<>>
  /\ pc = [app |-> "new", msg |-> "none"] /\ joins = [c \in Callers |-> 0]
  /\ status = "none" /\ reported = "none" /\ pathKnown = FALSE
  /\ fileScanTid = 0 /\ fsckQuit = FALSE /\ folder = 0
  /\ scan = [n \in Scans |-> "none"] /\ monitor = [n \in Scans |-> "none"] /\ unmountSeen = {}
  /\ unheard = FALSE /\ plugs = 0 /\ formats = 0

Goto(c, to)  == pc' = [pc EXCEPT ![c] = to]
AtScan(n, to) == scan' = [scan EXCEPT ![n] = to]
Good         == present /\ formatted

\* What pthread_join waits for; nothing where no thread was created.
Joinable(tid) == tid \in Scans => scan[tid] = "ended"
AllDead  == \A n \in Scans : scan[n] \in Dead
Handled  == uevents = <<>> /\ msgs = <<>> /\ pc["msg"] \in {"test", "wait"}
\* No scan thread is between its last look at the status and setting it.
NoneSets == \A n \in Scans : scan[n] # "set"

\* What the code does not exclude and Slow does: a device is plugged before
\* its removal was handled; it is formatted while an event is handled or a
\* scan thread begins or ends, or plugged or removed while it is formatted; the status
\* becomes DISK_UNMOUNTED between rkadk_storage.c:874 and 877.
CalmToPlug     == Slow => AllDead /\ (pc["app"] = "listen" \/ (pc["app"] = "ready" /\ Handled))
CalmToUnplug   == Slow => pc["app"] \in {"listen", "ready"}
CalmToFormat   == Slow => Handled /\ \A n \in Scans : scan[n] \in Dead \cup {"loop"}
CalmToUnmount  == Slow => NoneSets

-----------------------------------------------------------------------------
(* Seeded faults: wrong forms of definitions below, used by no specification *)

\* DevRemove does not wait for the scan thread
JoinAtOnce(c) ==
  /\ pc[c] = "join"
  /\ joins' = [joins EXCEPT ![c] = 0]
  /\ fileScanTid' = 0 /\ mounted' = FALSE
  /\ Goto(c, IF c = "msg" THEN "test" ELSE "format")
  /\ UNCHANGED <<present, formatted, named, inbox, state, pathKnown, fsckQuit, folder, scan, monitor, unmountSeen, bounds>>

\* a request to stop is left from the removal of the last device
FsckBeginsStopped(n) ==
  /\ scan[n] = "fsck"
  /\ mounted' = FALSE
  /\ AtScan(n, "check")
  /\ UNCHANGED <<present, formatted, named, inbox, callers, state, pathKnown, fileScanTid, fsckQuit, folder, monitor, unmountSeen, bounds>>

\* Deinit does not tell the scan thread to end
DeinitScanSilent ==
  /\ pc["app"] = "deinit scan" /\ CalmToUnmount
  /\ Goto("app", "deinit join")
  /\ UNCHANGED <<device, named, inbox, joins, state, pathKnown, threads, bounds>>

-----------------------------------------------------------------------------
(* The device and the system.  DevInit has what the device may be when     *)
(* RKADK_STORAGE_Init looks at it; what happens between that look and the  *)
(* listener's bind is heard by nobody.                                     *)

Hear(u) == uevents' = IF listener = "on" THEN Append(uevents, u) ELSE uevents

Plug ==
  /\ pc["app"] # "new" /\ ~present /\ plugs < MaxPlugs /\ CalmToPlug
  /\ present' = TRUE /\ formatted' \in BOOLEAN /\ mounted' = formatted'
  /\ Hear("add") /\ unheard' = (listener # "on")
  /\ plugs' = plugs + 1
  /\ UNCHANGED <<named, listener, eventListenerRun, quit, msgs, callers, state, pathKnown, threads, formats>>

\* The system may unmount the device it lost, which a monitor notices.
Unplug ==
  /\ pc["app"] # "new" /\ present /\ CalmToUnplug
  /\ present' = FALSE
  /\ Hear("remove")
  /\ \/ UNCHANGED <<mounted, unmountSeen>>
     \/ mounted /\ mounted' = FALSE /\ unmountSeen' = {n \in Scans : monitor[n] = "run"}
  /\ UNCHANGED <<formatted, named, listener, eventListenerRun, quit, msgs, callers, state, pathKnown,
                 fileScanTid, fsckQuit, folder, scan, monitor, bounds>>

-----------------------------------------------------------------------------
(* The listener and the message thread                                     *)

\* RKADK_STORAGE_MsgPutMsgToBuffer
Put(m) == Append(msgs, m)

ListenerBinds ==
  /\ listener = "binding" /\ listener' = "on"
  /\ UNCHANGED <<device, named, uevents, eventListenerRun, quit, msgs, callers, state, pathKnown, threads, bounds>>

Listen ==
  /\ listener = "on" /\ uevents # <<>>
  /\ uevents' = Tail(uevents) /\ msgs' = Put(Head(uevents))
  /\ UNCHANGED <<device, named, listener, eventListenerRun, quit, callers, state, pathKnown, threads, bounds>>

ListenerEnds ==
  /\ listener = "on" /\ ~eventListenerRun
  /\ listener' = "none"
  /\ UNCHANGED <<device, named, uevents, eventListenerRun, quit, msgs, callers, state, pathKnown, threads, bounds>>

TestQuit ==
  /\ pc["msg"] = "test"
  /\ Goto("msg", IF quit THEN "ended" ELSE "wait")
  /\ UNCHANGED <<device, named, inbox, joins, state, pathKnown, threads, bounds>>

\* A message, or the end of the timed wait, which is what notices quit.
Receive ==
  /\ pc["msg"] = "wait"
  /\ \/ /\ msgs # <<>> /\ msgs' = Tail(msgs)
        /\ Goto("msg", Head(msgs))
     \/ /\ msgs = <<>> /\ quit /\ Goto("msg", "test") /\ UNCHANGED msgs
  /\ UNCHANGED <<device, named, uevents, listener, eventListenerRun, quit, joins, state, pathKnown, threads, bounds>>

-----------------------------------------------------------------------------
(* DevAdd and DevRemove, called by the message thread and by Format        *)

AfterAdd(c)    == IF c = "msg" THEN "test" ELSE "ready"
AfterRemove(c) == IF c = "msg" THEN "test" ELSE "format"

DevAdd(c) ==
  /\ pc[c] = "add"
  /\ pathKnown' = (pathKnown \/ named \/ mounted)
  /\ status' = IF mounted THEN "scanning" ELSE IF named THEN "not formatted" ELSE status
  /\ reported' = IF mounted \/ named THEN status' ELSE reported
  /\ Goto(c, IF mounted THEN "create" ELSE AfterAdd(c))
  /\ UNCHANGED <<device, named, inbox, joins, threads, bounds>>

NextScan == CHOOSE n \in Scans : scan[n] = "none" /\ \A k \in 1 .. n - 1 : scan[k] # "none"
CanScan  == scan[MaxScans] = "none"
NewScan  == scan' = [scan EXCEPT ![NextScan] = "start"] /\ fileScanTid' = NextScan

DevAddScan(c) ==
  /\ pc[c] = "create" /\ CanScan
  /\ NewScan
  /\ Goto(c, AfterAdd(c))
  /\ UNCHANGED <<device, named, inbox, joins, state, pathKnown, fsckQuit, folder, monitor, unmountSeen, bounds>>

DevRemove(c) ==
  /\ pc[c] = "remove" /\ CalmToUnmount
  /\ status' = IF pathKnown THEN "unmounted" ELSE status
  /\ Goto(c, IF pathKnown THEN "report" ELSE AfterRemove(c))
  /\ UNCHANGED <<device, named, inbox, joins, reported, pathKnown, threads, bounds>>

DevRemoveReport(c) ==
  /\ pc[c] = "report"
  /\ reported' = status /\ fsckQuit' = TRUE
  /\ joins' = [joins EXCEPT ![c] = fileScanTid]
  /\ Goto(c, "join")
  /\ UNCHANGED <<device, named, inbox, status, pathKnown, fileScanTid, folder, scan, monitor, unmountSeen, bounds>>

DevRemoveJoin(c) ==
  /\ pc[c] = "join"
  /\ Joinable(joins[c])
  /\ joins' = [joins EXCEPT ![c] = 0]
  /\ fileScanTid' = 0 /\ mounted' = FALSE
  /\ Goto(c, AfterRemove(c))
  /\ UNCHANGED <<present, formatted, named, inbox, state, pathKnown, fsckQuit, folder, scan, monitor, unmountSeen, bounds>>

-----------------------------------------------------------------------------
(* The scan thread and its monitor thread                                  *)

ScanStart(n) ==
  /\ scan[n] = "start" /\ folder' = n
  /\ AtScan(n, "fsck")
  /\ UNCHANGED <<device, named, inbox, callers, state, pathKnown, fileScanTid, fsckQuit, monitor, unmountSeen, bounds>>

\* RKADK_STORAGE_RKFSCK: umount2, the check, mount
FsckBegins(n) ==
  /\ scan[n] = "fsck"
  /\ fsckQuit' = FALSE /\ mounted' = FALSE
  /\ AtScan(n, "check")
  /\ UNCHANGED <<present, formatted, named, inbox, callers, state, pathKnown, fileScanTid, folder, monitor, unmountSeen, bounds>>

\* It may fail on a good device when it was told to stop.
FsckEnds(n) ==
  /\ scan[n] = "check" /\ mounted' = Good
  /\ \/ Good /\ AtScan(n, "test") /\ UNCHANGED state
     \/ /\ ~Good \/ fsckQuit
        /\ status' = "not formatted" /\ reported' = status'
        /\ AtScan(n, "free")
  /\ UNCHANGED <<present, formatted, named, inbox, callers, pathKnown, fileScanTid, fsckQuit, folder, monitor, unmountSeen, bounds>>

TestMounted(n) ==
  /\ scan[n] = "test"
  /\ AtScan(n, IF status = "unmounted" THEN "free" ELSE "set")
  /\ UNCHANGED <<device, named, inbox, callers, state, pathKnown, fileScanTid, fsckQuit, folder, monitor, unmountSeen, bounds>>

\* GetDiskSize or the creation of the monitor may fail: the status stays.
SetMounted(n) ==
  /\ scan[n] = "set"
  /\ status' = "mounted" /\ reported' = status'
  /\ \/ AtScan(n, "loop") /\ monitor' = [monitor EXCEPT ![n] = "run"]
     \/ AtScan(n, "free") /\ UNCHANGED monitor
  /\ UNCHANGED <<device, named, inbox, callers, pathKnown, fileScanTid, fsckQuit, folder, unmountSeen, bounds>>

ScanLoopEnds(n) ==
  /\ scan[n] = "loop" /\ status # "mounted" /\ monitor[n] = "ended"
  /\ AtScan(n, "free")
  /\ UNCHANGED <<device, named, inbox, callers, state, pathKnown, fileScanTid, fsckQuit, folder, monitor, unmountSeen, bounds>>

ScanFree(n) ==
  /\ scan[n] = "free" /\ folder' = 0
  /\ AtScan(n, "ended")
  /\ UNCHANGED <<device, named, inbox, callers, state, pathKnown, fileScanTid, fsckQuit, monitor, unmountSeen, bounds>>

\* IN_UNMOUNT sets the status and reports nothing.
MonitorUnmount(n) ==
  /\ monitor[n] = "run" /\ n \in unmountSeen
  /\ status' = "unmounted" /\ unmountSeen' = unmountSeen \ {n}
  /\ UNCHANGED <<device, named, inbox, callers, reported, pathKnown, fileScanTid, fsckQuit, folder, scan, monitor, bounds>>

MonitorEnds(n) ==
  /\ monitor[n] = "run" /\ status # "mounted"
  /\ monitor' = [monitor EXCEPT ![n] = "ended"] /\ unmountSeen' = unmountSeen \ {n}
  /\ UNCHANGED <<device, named, inbox, callers, state, pathKnown, fileScanTid, fsckQuit, folder, scan, bounds>>

-----------------------------------------------------------------------------
(* The application                                                         *)

\* AutoDeleteInit; its two looks at the device are one.  Without a device to be
\* seen no scan thread is started.
StorageLooks ==
  /\ pc["app"] = "new"
  /\ pathKnown' = mounted
  /\ status' = IF mounted THEN "scanning" ELSE IF named /\ present THEN "unmounted" ELSE "not exist"
  /\ reported' = status'
  /\ IF status' = "not exist" THEN UNCHANGED <<scan, fileScanTid>> ELSE NewScan
  /\ Goto("app", "listen")
  /\ UNCHANGED <<device, named, inbox, joins, fsckQuit, folder, monitor, unmountSeen, bounds>>

\* ListenMsgInit; RKADK_STORAGE_Init returns.
StorageListens ==
  /\ pc["app"] = "listen"
  /\ listener' = "binding" /\ eventListenerRun' = TRUE
  /\ pc' = [app |-> "ready", msg |-> "test"]
  /\ UNCHANGED <<device, named, uevents, quit, msgs, joins, state, pathKnown, threads, bounds>>

\* A device whose path nobody knows is not formatted.
Format ==
  /\ pc["app"] = "ready" /\ formats < MaxFormats /\ CalmToFormat
  /\ status # "unmounted" /\ (named \/ pathKnown)
  /\ Goto("app", IF status = "not formatted" THEN "format" ELSE "remove")
  /\ formats' = formats + 1
  /\ UNCHANGED <<device, named, inbox, joins, state, pathKnown, threads, unheard, plugs>>

\* It may fail, before or after the old file system is lost; then mount, and
\* DevAdd if that succeeds.
FormatDevice ==
  /\ pc["app"] = "format"
  /\ formatted' \in BOOLEAN /\ (present \/ formatted' = formatted)
  /\ mounted' = (present /\ formatted')
  /\ unheard' = (unheard /\ ~mounted')
  /\ Goto("app", IF mounted' THEN "add" ELSE "ready")
  /\ UNCHANGED <<present, named, inbox, joins, state, pathKnown, threads, plugs, formats>>

Deinit ==
  /\ pc["app"] = "ready"
  /\ eventListenerRun' = FALSE /\ fsckQuit' = TRUE
  /\ Goto("app", "deinit listener")
  /\ UNCHANGED <<device, named, uevents, listener, quit, msgs, joins, state, pathKnown, fileScanTid,
                 folder, scan, monitor, unmountSeen, bounds>>

DeinitListener ==
  /\ pc["app"] = "deinit listener" /\ listener = "none"
  /\ quit' = TRUE
  /\ Goto("app", "deinit msg")
  /\ UNCHANGED <<device, named, uevents, listener, eventListenerRun, msgs, joins, state, pathKnown, threads, bounds>>

DeinitMsg ==
  /\ pc["app"] = "deinit msg" /\ pc["msg"] = "ended"
  /\ Goto("app", "deinit scan")
  /\ UNCHANGED <<device, named, inbox, joins, state, pathKnown, threads, bounds>>

\* AutoDeleteDeinit
DeinitScan ==
  /\ pc["app"] = "deinit scan" /\ CalmToUnmount
  /\ status' = "unmounted"
  /\ Goto("app", "deinit join")
  /\ UNCHANGED <<device, named, inbox, joins, reported, pathKnown, threads, bounds>>

\* The handle is freed.
DeinitJoin ==
  /\ pc["app"] = "deinit join"
  /\ Joinable(fileScanTid)
  /\ Goto("app", "done")
  /\ UNCHANGED <<device, named, inbox, joins, state, pathKnown, threads, bounds>>

-----------------------------------------------------------------------------
Listener == ListenerBinds \/ Listen \/ ListenerEnds
Calls(c) == DevAdd(c) \/ DevAddScan(c) \/ DevRemove(c) \/ DevRemoveReport(c) \/ DevRemoveJoin(c)
Message  == TestQuit \/ Receive \/ Calls("msg")
ScanThread(n) ==
  \/ ScanStart(n) \/ FsckBegins(n) \/ FsckEnds(n) \/ TestMounted(n) \/ SetMounted(n)
  \/ ScanLoopEnds(n) \/ ScanFree(n)
MonitorThread(n) == MonitorUnmount(n) \/ MonitorEnds(n)
Going    == StorageListens \/ FormatDevice \/ DeinitListener \/ DeinitMsg \/ DeinitScan \/ DeinitJoin \/ Calls("app")

DevNext ==
  \/ Plug \/ Unplug \/ StorageLooks \/ Format \/ Deinit
  \/ Listener \/ Message \/ Going
  \/ \E n \in Scans : ScanThread(n) \/ MonitorThread(n)

\* Threads run; nothing is assumed of the application's calls and the device.
Fairness ==
  /\ WF_devVars(Listener) /\ WF_devVars(Message) /\ WF_devVars(Going)
  /\ \A n \in Scans : WF_devVars(ScanThread(n)) /\ WF_devVars(MonitorThread(n))

DevSpec == DevInit /\ [][DevNext]_devVars /\ Fairness

-----------------------------------------------------------------------------
(* Properties                                                              *)

\* The folders a scan thread and its monitor work on are those it allocated:
\* no other thread has replaced or freed them.
FoldersAlive == \A n \in Scans : scan[n] \notin Dead \cup {"start"} => folder = n

\* RKADK_STORAGE_Deinit returns, whatever the message and scan threads do.
DeinitReturns == pc["app"] = "deinit listener" ~> pc["app"] = "done"

\* The application is told in the end that a good device is mounted, unless it
\* goes or the application formats it or deinitialises the module.  A device
\* plugged after RKADK_STORAGE_Init looked and before the listener's socket was
\* bound is exempt (unheard): its uevent is lost and nobody looks again.
GetsMounted ==
  Good /\ ~unheard /\ pc["app"] = "ready" ~> reported = "mounted" \/ ~Good \/ pc["app"] # "ready"
=============================================================================
