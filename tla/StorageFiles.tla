---------------------------- MODULE StorageFiles ----------------------------
(***************************************************************************)
(* The file lists of a mounted device (src/src/storage/rkadk_storage.c):   *)
(* the scan thread repairs the folders, reports the device as mounted,     *)
(* starts the inotify monitor and then deletes old files; the monitor      *)
(* keeps one list per folder; the application (recorder, photo) creates,   *)
(* writes and deletes files.  Mounting and unmounting are not part of this *)
(* module: the device stays mounted.  Files are not moved (IN_MOVED_TO,    *)
(* IN_MOVED_FROM), and remove() fails for missing files only.              *)
(***************************************************************************)
EXTENDS Integers, Sequences, FiniteSets, FiniteSetsExt

CONSTANTS
  NumFolders,  \* s32FolderNum
  Files,       \* the file names that may exist
  FolderOf,    \* file |-> its folder
  NumLimit,    \* folder |-> bNumLimit: s32Limit counts files, else a percentage
  Limit,       \* folder |-> s32Limit
  SpaceOf,     \* file |-> the space it takes
  Capacity,    \* space of the device
  DelMin,      \* s32FreeSizeDelMin
  DelMax,      \* s32FreeSizeDelMax
  RepairNum,   \* REPAIR_FILE_NUM
  Damaged,     \* files that may be empty or damaged when the device is mounted
  Times,       \* modification times
  MaxWrites,   \* bound: how often the application opens a file for writing
  Absent, NoFile

Folders == 1 .. NumFolders
Status  == [time : Times, ok : BOOLEAN]
Entry   == [file : Files, time : Times]

ASSUME StorageAssumption ==
  /\ NumFolders \in Nat \ {0}
  /\ IsFiniteSet(Files)
  /\ FolderOf \in [Files -> Folders]
  /\ NumLimit \in [Folders -> BOOLEAN]
  /\ Limit \in [Folders -> Nat]
  /\ SpaceOf \in [Files -> Nat \ {0}]
  /\ Capacity \in Nat /\ DelMin \in Nat /\ DelMax \in Nat
  /\ RepairNum \in Nat
  /\ Damaged \subseteq Files
  /\ Times \subseteq Nat
  /\ MaxWrites \in Nat
  /\ Absent \notin Status
  /\ NoFile \notin Files

VARIABLES
  disk,     \* file |-> Absent, or its time and whether it has (playable) content
  opened,   \* files the application has open for writing
  writes,   \* how many times it opened one
  events,   \* inotify events the monitor has not read
  watched,  \* the folders 1 .. watched have an inotify watch
  list,     \* folder |-> the file list, newest first
  total,    \* folder |-> totalSpace
  mpc,      \* where the monitor thread is
  mfile,    \* file of the event it handles
  mtime,    \* time that lstat returned
  spc,      \* where the scan thread is
  si,       \* folder it looks at
  pass,     \* the pass it deletes files for
  victim,   \* file it removes
  autoDel,  \* s32AutoDel
  sum,      \* totalSpace summed over the folders
  \* history, read by no action:
  known,    \* names that a closed file has had
  missed,   \* files closed or deleted in a folder without a watch
  dropped,  \* files whose entry went although the file is still there
  stale     \* folders whose totalSpace counts files that Repair removed

diskVars == <<disk, opened, writes, known>>
monVars  == <<mpc, mfile, mtime, watched>>
scanVars == <<spc, si, pass, victim, autoDel, sum>>
listVars == <<list, total>>
history  == <<missed, dropped, stale>>
vars == <<diskVars, events, monVars, scanVars, listVars, history>>

Present == {f \in Files : disk[f] # Absent}
Free    == Capacity - MapThenSumSet(LAMBDA f : SpaceOf[f], Present)

Entries(l)    == {l[i] : i \in DOMAIN l}
FilesIn(l)    == {l[i].file : i \in DOMAIN l}
SpaceIn(l)    == MapThenSumSet(LAMBDA f : SpaceOf[f], FilesIn(l))
OldestIn(l)   == l[Len(l)].file
Sorted(l)     == \A i, j \in DOMAIN l : i < j => l[i].time >= l[j].time
Distinct(l)   == \A i, j \in DOMAIN l : l[i].file = l[j].file => i = j

\* FileListDel: the one list that l is without the entries of the files fs.
Without(l, fs) ==
  LET left == {i \in DOMAIN l : l[i].file \notin fs}
      n    == Cardinality(left)
  IN {[j \in 1 .. n |-> l[at[j]]] :
        at \in {at \in [1 .. n -> left] : \A i, j \in 1 .. n : i < j => at[i] < at[j]}}

\* FileListAdd: before the first entry that is not newer, else at the end.
Places(l, t) ==
  {i \in 1 .. Len(l) + 1 : /\ \A j \in 1 .. i - 1 : l[j].time > t
                           /\ i <= Len(l) => l[i].time <= t}
Added(l, e) ==
  {[j \in 1 .. Len(l) + 1 |-> IF j < i THEN l[j] ELSE IF j = i THEN e ELSE l[j - 1]] :
     i \in Places(l, e.time)}

\* An inotify event is queued if the folder is watched already.
Notify(kind, f) ==
  /\ events' = IF FolderOf[f] <= watched
                 THEN Append(events, [kind |-> kind, file |-> f]) ELSE events
  /\ missed' = IF FolderOf[f] <= watched \/ kind = "new" THEN missed ELSE missed \cup {f}

NoTime == CHOOSE t \in Times : TRUE

\* The lists that RKADK_STORAGE_RKFSCK leaves: every file once, newest first.
FirstLists(k) ==
  LET fs == {f \in Present : FolderOf[f] = k}
  IN {l \in [1 .. Cardinality(fs) -> {[file |-> f, time |-> disk[f].time] : f \in fs}] :
        Sorted(l) /\ Distinct(l)}

Init ==
  /\ disk \in [Files -> Status \cup {Absent}]
  /\ \A f \in Present : ~ disk[f].ok => f \in Damaged
  /\ Free >= 0
  /\ opened = {} /\ writes = 0 /\ known = Present
  /\ events = <<>> /\ watched = 0
  /\ list \in [Folders -> UNION {FirstLists(k) : k \in Folders}]
  /\ \A k \in Folders : list[k] \in FirstLists(k)
  /\ total = [k \in Folders |-> SpaceIn(list[k])]
  /\ mpc = "none" /\ mfile = NoFile /\ mtime = NoTime
  /\ spc = "repair" /\ si = 1 /\ pass = "count" /\ victim = NoFile
  /\ autoDel \in BOOLEAN /\ sum = 0
  /\ missed = {} /\ dropped = {} /\ stale = {}

-----------------------------------------------------------------------------
(* Seeded faults: wrong forms of definitions below.  No specification uses *)
(* them; each shows that some property can fail.                           *)

\* deletions are not handled
TakeOutIgnored ==
  /\ mpc = "idle" /\ events # <<>> /\ Head(events).kind = "out"
  /\ events' = Tail(events)
  /\ UNCHANGED <<mpc, mfile, mtime, watched, diskVars, scanVars, listVars, history>>

\* of the events of one read, the first is handled
TakeOutOnly ==
  /\ mpc = "idle" /\ events # <<>> /\ Head(events).kind = "out"
  /\ mfile' = Head(events).file /\ mpc' = "del"
  /\ events' = <<>>
  /\ UNCHANGED <<mtime, watched, diskVars, scanVars, listVars, history>>

\* IN_CREATE is handled like IN_CLOSE_WRITE
TakeNewAdds ==
  /\ mpc = "idle" /\ events # <<>> /\ Head(events).kind = "new"
  /\ events' = Tail(events)
  /\ LET f == Head(events).file IN
       IF disk[f] # Absent /\ disk[f].ok
         THEN mfile' = f /\ mtime' = disk[f].time /\ mpc' = "check"
         ELSE UNCHANGED <<mfile, mtime, mpc>>
  /\ UNCHANGED <<watched, diskVars, scanVars, listVars, history>>

\* the device counts as full one unit too late
LookAtSpaceLate ==
  LET on == IF Free >= DelMax THEN FALSE ELSE IF Free < DelMin THEN TRUE ELSE autoDel IN
  /\ spc = "size"
  /\ autoDel' = on
  /\ spc' = IF on THEN "sum" ELSE "count"
  /\ si' = 1 /\ sum' = 0
  /\ UNCHANGED <<pass, victim, diskVars, events, monVars, listVars, history>>

-----------------------------------------------------------------------------
(* The scan thread starts: RKADK_STORAGE_Repair, the callback, the monitor *)

Playable(e) == disk[e.file].ok

\* How many entries the first loop of Repair removes: it stops at the first
\* file that is fine, and looks at no more than RepairNum.
Leading(l) ==
  CHOOSE n \in 0 .. Len(l) :
    /\ \A i \in 1 .. n : ~ Playable(l[i])
    /\ n <= RepairNum
    /\ n < Len(l) /\ n < RepairNum => Playable(l[n + 1])

\* What the second loop removes of the list l that the first one left, with n
\* looks left: it examines the entry after the current one and goes on, so that
\* the entry that follows a removed one becomes the current one unexamined.
Later(l, n) ==
  LET cur[j \in 0 .. n] == \* the current entry before look j + 1
        IF j = 0 THEN 1
        ELSE LET c == cur[j - 1]
             IN IF c + 1 <= Len(l) /\ ~ Playable(l[c + 1]) THEN c + 2 ELSE c + 1
  IN {cur[j] + 1 : j \in {j \in 0 .. n - 1 :
        cur[j] + 1 <= Len(l) /\ ~ Playable(l[cur[j] + 1])}}

Repaired(l) ==
  LET n    == Leading(l)
      rest == SubSeq(l, n + 1, Len(l))
      left == RepairNum - n - (IF rest # <<>> /\ n < RepairNum THEN 1 ELSE 0)
  IN {l[i].file : i \in {i \in DOMAIN l : i <= n \/ i - n \in Later(rest, left)}}

\* One folder: the files are removed and leave the list; totalSpace is not changed.
Repair ==
  LET gone == Repaired(list[si]) IN
  /\ spc = "repair"
  /\ disk' = [f \in Files |-> IF f \in gone THEN Absent ELSE disk[f]]
  /\ \E l \in Without(list[si], gone) : list' = [list EXCEPT ![si] = l]
  /\ stale' = IF gone # {} THEN stale \cup {si} ELSE stale
  /\ IF si < NumFolders THEN si' = si + 1 /\ UNCHANGED spc
                        ELSE si' = 1 /\ spc' = "mounted"
  /\ UNCHANGED <<pass, victim, autoDel, sum, opened, writes, known, events, monVars,
                 total, missed, dropped>>

\* The application has been told; GetDiskSize, pthread_create(FileMonitorThread).
StartMonitor ==
  /\ spc = "mounted"
  /\ mpc' = "watch" /\ spc' = "count"
  /\ UNCHANGED <<mfile, mtime, watched, si, pass, victim, autoDel, sum, diskVars, events,
                 listVars, history>>

-----------------------------------------------------------------------------
(* The scan thread's loop                                                  *)

\* The next folder of pass p, or what follows the pass.
Continue(p) ==
  IF si < NumFolders
    THEN si' = si + 1 /\ spc' = p /\ UNCHANGED sum
    ELSE si' = 1 /\ spc' = (IF p = "count" THEN "size" ELSE "count") /\ sum' = 0

\* Under the folder's mutex: does the folder exceed its limit, and which file goes?
OverCount(k) == NumLimit[k] /\ Len(list[k]) > Limit[k]
OverShare(k) == ~ NumLimit[k] /\ (total[k] * 100) \div sum > Limit[k]

LookAtFolder ==
  /\ spc \in {"count", "share"}
  /\ IF (IF spc = "count" THEN OverCount(si) ELSE OverShare(si)) /\ list[si] # <<>>
       THEN /\ victim' = OldestIn(list[si]) /\ pass' = spc /\ spc' = "remove"
            /\ UNCHANGED <<si, sum>>
       ELSE /\ Continue(spc)
            /\ UNCHANGED <<pass, victim>>
  /\ UNCHANGED <<autoDel, diskVars, events, monVars, listVars, history>>

\* remove() without the mutex.  A file that is open for writing loses its name.
Remove ==
  /\ spc = "remove" /\ disk[victim] # Absent
  /\ disk' = [disk EXCEPT ![victim] = Absent]
  /\ opened' = opened \ {victim}
  /\ Notify("out", victim)
  /\ victim' = NoFile /\ pass' = "count"
  /\ Continue(pass)
  /\ UNCHANGED <<autoDel, writes, known, monVars, listVars, dropped, stale>>

\* The file is gone: the name of the last entry is read again, without the mutex.
RemoveFails ==
  /\ spc = "remove" /\ disk[victim] = Absent
  /\ IF list[si] = <<>> THEN spc' = "crash" /\ UNCHANGED victim
                        ELSE spc' = "drop" /\ victim' = OldestIn(list[si])
  /\ UNCHANGED <<si, pass, autoDel, sum, diskVars, events, monVars, listVars, history>>

\* ... and that entry is deleted from the list.
DropEntry ==
  /\ spc = "drop"
  /\ \E l \in Without(list[si], {victim}) :
       list' = [list EXCEPT ![si] = l] /\ total' = [total EXCEPT ![si] = SpaceIn(l)]
  /\ dropped' = IF disk[victim] # Absent THEN dropped \cup {victim} ELSE dropped
  /\ stale' = stale \ {si}
  /\ victim' = NoFile /\ pass' = "count"
  /\ Continue(pass)
  /\ UNCHANGED <<autoDel, diskVars, events, monVars, missed>>

\* GetDiskSize, and the two thresholds.
LookAtSpace ==
  LET on == IF Free >= DelMax THEN FALSE ELSE IF Free <= DelMin THEN TRUE ELSE autoDel IN
  /\ spc = "size"
  /\ autoDel' = on
  /\ spc' = IF on THEN "sum" ELSE "count"
  /\ si' = 1 /\ sum' = 0
  /\ UNCHANGED <<pass, victim, diskVars, events, monVars, listVars, history>>

\* One folder's totalSpace, under its mutex.
SumSpace ==
  LET s == sum + (IF NumLimit[si] THEN 0 ELSE total[si]) IN
  /\ spc = "sum"
  /\ sum' = s
  /\ IF si < NumFolders THEN si' = si + 1 /\ UNCHANGED spc
                        ELSE si' = 1 /\ spc' = IF s # 0 THEN "share" ELSE "count"
  /\ UNCHANGED <<pass, victim, autoDel, diskVars, events, monVars, listVars, history>>

-----------------------------------------------------------------------------
(* The monitor thread                                                      *)

AddWatch ==
  /\ mpc = "watch"
  /\ watched' = watched + 1
  /\ mpc' = IF watched' = NumFolders THEN "idle" ELSE "watch"
  /\ UNCHANGED <<mfile, mtime, diskVars, events, scanVars, listVars, history>>

\* IN_CLOSE_WRITE: lstat; a missing or an empty file is skipped.
TakeIn ==
  /\ mpc = "idle" /\ events # <<>> /\ Head(events).kind = "in"
  /\ events' = Tail(events)
  /\ LET f == Head(events).file IN
       IF disk[f] # Absent /\ disk[f].ok
         THEN mfile' = f /\ mtime' = disk[f].time /\ mpc' = "check"
         ELSE UNCHANGED <<mfile, mtime, mpc>>
  /\ UNCHANGED <<watched, diskVars, scanVars, listVars, history>>

\* IN_CREATE is watched for and skipped.
TakeNew ==
  /\ mpc = "idle" /\ events # <<>> /\ Head(events).kind = "new"
  /\ events' = Tail(events)
  /\ UNCHANGED <<mpc, mfile, mtime, watched, diskVars, scanVars, listVars, history>>

\* FileListCheck: a file that is listed already is left as it is.
Check ==
  /\ mpc = "check"
  /\ IF mfile \in FilesIn(list[FolderOf[mfile]])
       THEN mpc' = "idle" /\ mfile' = NoFile /\ mtime' = NoTime
       ELSE mpc' = "add" /\ UNCHANGED <<mfile, mtime>>
  /\ UNCHANGED <<watched, diskVars, events, scanVars, listVars, history>>

\* FileListAdd
AddEntry ==
  LET k == FolderOf[mfile] IN
  /\ mpc = "add"
  /\ \E l \in Added(list[k], [file |-> mfile, time |-> mtime]) : list' = [list EXCEPT ![k] = l]
  /\ total' = [total EXCEPT ![k] = @ + SpaceOf[mfile]]
  /\ mpc' = "idle" /\ mfile' = NoFile /\ mtime' = NoTime
  /\ UNCHANGED <<watched, diskVars, events, scanVars, history>>

\* IN_DELETE
TakeOut ==
  /\ mpc = "idle" /\ events # <<>> /\ Head(events).kind = "out"
  /\ mfile' = Head(events).file /\ mpc' = "del"
  /\ events' = Tail(events)
  /\ UNCHANGED <<mtime, watched, diskVars, scanVars, listVars, history>>

\* FileListDel counts the folder's space anew.
DelEntry ==
  LET k == FolderOf[mfile] IN
  /\ mpc = "del"
  /\ \E l \in Without(list[k], {mfile}) :
       list' = [list EXCEPT ![k] = l] /\ total' = [total EXCEPT ![k] = SpaceIn(l)]
  /\ stale' = stale \ {k}
  /\ mpc' = "idle" /\ mfile' = NoFile
  /\ UNCHANGED <<mtime, watched, diskVars, events, scanVars, missed, dropped>>

-----------------------------------------------------------------------------
(* The application, from the callback that reports the device as mounted.  *)

Running == spc \notin {"repair", "crash"}

Create(f) ==
  /\ Running /\ writes < MaxWrites
  /\ disk[f] = Absent /\ f \notin opened /\ Free >= SpaceOf[f]
  /\ \E t \in Times : disk' = [disk EXCEPT ![f] = [time |-> t, ok |-> FALSE]]
  /\ opened' = opened \cup {f}
  /\ writes' = writes + 1
  /\ Notify("new", f)
  /\ UNCHANGED <<known, monVars, scanVars, listVars, dropped, stale>>

Reopen(f) ==
  /\ Running /\ writes < MaxWrites
  /\ disk[f] # Absent /\ f \notin opened
  /\ opened' = opened \cup {f}
  /\ writes' = writes + 1
  /\ UNCHANGED <<disk, known, events, monVars, scanVars, listVars, history>>

Write(f) ==
  /\ Running /\ f \in opened
  /\ \E t \in Times : disk' = [disk EXCEPT ![f] = [time |-> t, ok |-> TRUE]]
  /\ UNCHANGED <<opened, writes, known, events, monVars, scanVars, listVars, history>>

Close(f) ==
  /\ Running /\ f \in opened
  /\ opened' = opened \ {f}
  /\ known' = known \cup {f}
  /\ Notify("in", f)
  /\ UNCHANGED <<disk, writes, monVars, scanVars, listVars, dropped, stale>>

Delete(f) ==
  /\ Running /\ disk[f] # Absent /\ f \notin opened
  /\ disk' = [disk EXCEPT ![f] = Absent]
  /\ Notify("out", f)
  /\ UNCHANGED <<opened, writes, known, monVars, scanVars, listVars, dropped, stale>>

-----------------------------------------------------------------------------
Scan    == \/ Repair \/ StartMonitor \/ LookAtFolder \/ Remove \/ RemoveFails
           \/ DropEntry \/ LookAtSpace \/ SumSpace
Monitor == spc # "crash" /\ (AddWatch \/ TakeNew \/ TakeIn \/ Check \/ AddEntry \/ TakeOut \/ DelEntry)
App     == \E f \in Files : Create(f) \/ Reopen(f) \/ Write(f) \/ Close(f) \/ Delete(f)

Next == Scan \/ Monitor \/ App

Spec == Init /\ [][Next]_vars

\* The two threads are scheduled; nothing is assumed of the application.
FairSpec == Spec /\ WF_vars(Scan) /\ WF_vars(Monitor)

-----------------------------------------------------------------------------
(* What must hold                                                          *)

\* Every variable keeps its type; a folder lists its own files only.
TypeOK ==
  /\ disk \in [Files -> Status \cup {Absent}]
  /\ opened \subseteq Files /\ writes \in Nat /\ known \subseteq Files
  /\ events \in Seq([kind : {"new", "in", "out"}, file : Files])
  /\ watched \in 0 .. NumFolders
  /\ list \in [Folders -> Seq(Entry)]
  /\ \A k \in Folders : \A f \in FilesIn(list[k]) : FolderOf[f] = k
  /\ total \in [Folders -> Nat]
  /\ mpc \in {"none", "watch", "idle", "check", "add", "del"}
  /\ mfile \in Files \cup {NoFile} /\ mtime \in Times
  /\ spc \in {"repair", "mounted", "count", "share", "remove", "drop", "size", "sum", "crash"}
  /\ si \in Folders /\ pass \in {"count", "share"} /\ victim \in Files \cup {NoFile}
  /\ autoDel \in BOOLEAN /\ sum \in Nat
  /\ missed \subseteq Files /\ dropped \subseteq Files /\ stale \subseteq Folders

Queued(kind) == {events[i].file : i \in {j \in DOMAIN events : events[j].kind = kind}}
InHand(pcs)  == IF mpc \in pcs THEN {mfile} ELSE {}

\* A listed file exists, or the event of its deletion is on its way; only what
\* was deleted before the folder was watched stays listed.
ListedIsReal ==
  \A k \in Folders : FilesIn(list[k]) \subseteq
    Present \cup Queued("out") \cup InHand({"del"}) \cup missed

\* A complete file is listed, or the event of its closing is on its way; only
\* what was closed before the folder was watched, and what the scan thread took
\* for another file, is left out.
AllListed ==
  \A f \in Present \ opened : disk[f].ok =>
    f \in FilesIn(list[FolderOf[f]]) \cup Queued("in") \cup InHand({"check", "add"})
          \cup missed \cup dropped

\* A file that is being recorded under a name of its own is not deleted.
RecordingKept ==
  [][\A f \in opened \ known : disk'[f] # Absent]_vars

\* While space is low and some folder has more than its share of the listed
\* files' space, files are deleted, until there is space or no folder exceeds its
\* share.  Only that much: a full device stays full where the limits add up to
\* 100, as the defaults of 50 and 50 do, and every folder keeps to its own; and
\* nothing is said after Repair removed files without counting the folder's
\* space anew (stale).
SharedSpace == MapThenSumSet(LAMBDA k : SpaceIn(list[k]), {k \in Folders : ~ NumLimit[k]})
Exceeds(k)  == /\ ~ NumLimit[k] /\ list[k] # <<>>
               /\ (SpaceIn(list[k]) * 100) \div SharedSpace > Limit[k]
Excess      == Free <= DelMin /\ \E k \in Folders : Exceeds(k)
SharesAreKept == (Excess /\ stale = {}) ~> (~ Excess \/ spc = "crash")

\* A folder that exceeds its number of files loses some.
CountIsKept ==
  \A k \in {k \in Folders : NumLimit[k]} : OverCount(k) ~> (~ OverCount(k) \/ spc = "crash")
CleansUp == SharesAreKept /\ CountIsKept
=============================================================================
