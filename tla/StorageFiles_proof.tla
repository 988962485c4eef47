------------------------- MODULE StorageFiles_proof -------------------------
(***************************************************************************)
(* Proofs about StorageFiles: what the lists of the folders say of the     *)
(* device while the events of its changes are on their way, and that a     *)
(* file being recorded is not deleted; for any files, folders, limits,     *)
(* sizes, times and any number of writes.                                  *)
(***************************************************************************)
EXTENDS StorageFiles, StorageDevice, FiniteSetTheorems, TLAPS

Listing == mpc \in {"check", "add"}
Scanning == {"mounted", "count", "share", "remove", "drop", "size", "sum", "crash"}
Events == [kind : {"new", "in", "out"}, file : Files]

\* The device and the application.
Device ==
  /\ disk \in [Files -> Status \cup {Absent}]
  /\ opened \subseteq Present
  /\ spc = "repair" => opened = {}

\* The lists and the queue.
Lists ==
  /\ list \in [Folders -> Seq(Entry)]
  /\ \A k \in Folders : \A f \in FilesIn(list[k]) : FolderOf[f] = k
  /\ events \in Seq(Events)

\* The places of the two threads.
Threads ==
  /\ mpc \in {"none", "watch", "idle", "check", "add", "del"}
  /\ mpc \in {"check", "add", "del"} => mfile \in Files
  /\ Listing => mtime \in Times
  /\ si \in Folders /\ spc \in Scanning \cup {"repair"} /\ pass \in {"count", "share"}
  /\ spc \in {"remove", "drop"} => victim \in Files
  /\ spc \in {"repair", "mounted"} => mpc = "none"

\* Only what was closed once is listed, on its way into a list, or deleted.
Closed ==
  /\ \A k \in Folders : FilesIn(list[k]) \subseteq known
  /\ Queued("in") \subseteq known
  /\ Listing => mfile \in known
  /\ spc \in {"remove", "drop"} => victim \in known

\* What is about to be listed is real, or was deleted since.
Coming == Listing => mfile \in Present \cup Queued("out") \cup missed

\* The deletion of a file that is there again is followed by its closing.
Trails(f) ==
  \A i \in DOMAIN events : events[i].kind = "out" /\ events[i].file = f =>
    \E j \in DOMAIN events : i < j /\ events[j].kind = "in" /\ events[j].file = f
Due == {f \in Present \ (opened \cup missed \cup dropped) : disk[f].ok}
Follows ==
  \A f \in Due : Trails(f) /\ (mpc = "del" /\ mfile = f => f \in Queued("in"))

IInv == Device /\ Lists /\ Threads /\ Closed /\ Coming /\ Follows /\ ListedIsReal /\ AllListed

\* What the property says of a step.
Kept == \A f \in opened \ known : disk'[f] # Absent

-----------------------------------------------------------------------------
(* Lists                                                                   *)

\* Deleting from a list leaves the entries of the other files.
LEMMA Rest ==
  ASSUME NEW l \in Seq(Entry), NEW fs, NEW r \in Without(l, fs)
  PROVE  r \in Seq(Entry) /\ FilesIn(r) = FilesIn(l) \ fs
<1> DEFINE left == {i \in DOMAIN l : l[i].file \notin fs}
           n    == Cardinality(left)
<1>1. IsFiniteSet(left) /\ n \in Nat
  <2>1. DOMAIN l = 1 .. Len(l) /\ Len(l) \in Nat
    OBVIOUS
  <2>2. IsFiniteSet(DOMAIN l)
    BY <2>1, FS_Interval
  <2>3. IsFiniteSet(left)
    BY <2>2, FS_Subset
  <2> QED
    BY <2>3, FS_CardinalityType
<1>2. PICK at \in [1 .. n -> left] :
        /\ \A i, j \in 1 .. n : i < j => at[i] < at[j]
        /\ r = [j \in 1 .. n |-> l[at[j]]]
  BY DEF Without
<1>3. \A i \in left : i \in DOMAIN l /\ i \in Nat /\ l[i] \in Entry /\ l[i].file \notin fs
  OBVIOUS
<1>4. \A i \in left : \E j \in 1 .. n : at[j] = i
  <2>1. IsFiniteSet(1 .. n) /\ Cardinality(1 .. n) = n
    BY <1>1, FS_Interval
  <2>2. ASSUME NEW i \in 1 .. n, NEW j \in 1 .. n, at[i] = at[j] PROVE i = j
    <3>1. at[i] \in Nat /\ at[j] \in Nat
      BY <1>3
    <3>2. ~(i < j) /\ ~(j < i)
      BY <1>2, <2>2, <3>1
    <3> QED
      BY <3>2
  <2>3. at \in Injection(1 .. n, left)
    BY <2>2 DEF Injection, IsInjective
  <2>4. at \in Surjection(1 .. n, left)
    BY <1>1, <2>1, <2>3, FS_Injection
  <2> QED
    BY <2>4 DEF Surjection
<1> HIDE DEF left, n
<1>5. r \in [1 .. n -> Entry]
  BY <1>2, <1>3
<1>6. r \in Seq(Entry)
  BY <1>1, <1>5
<1>7. FilesIn(r) \subseteq FilesIn(l) \ fs
  BY <1>2, <1>3, <1>5 DEF FilesIn
<1>8. FilesIn(l) \ fs \subseteq FilesIn(r)
  <2>1. SUFFICES ASSUME NEW i \in DOMAIN l, l[i].file \notin fs PROVE l[i].file \in FilesIn(r)
    BY DEF FilesIn
  <2>2. i \in left
    BY <2>1 DEF left
  <2>3. PICK j \in 1 .. n : at[j] = i
    BY <1>4, <2>2
  <2>4. j \in DOMAIN r /\ r[j].file = l[i].file
    BY <1>2, <1>5, <2>3
  <2> QED
    BY <2>4 DEF FilesIn
<1> QED
  BY <1>6, <1>7, <1>8

\* Adding to a list adds the entry's file, and loses none.
LEMMA Joined ==
  ASSUME NEW l \in Seq(Entry), NEW e \in Entry, NEW r \in Added(l, e)
  PROVE  r \in Seq(Entry) /\ FilesIn(r) = FilesIn(l) \cup {e.file}
<1>1. PICK i \in 1 .. Len(l) + 1 :
        r = [j \in 1 .. Len(l) + 1 |-> IF j < i THEN l[j] ELSE IF j = i THEN e ELSE l[j - 1]]
  BY DEF Added, Places
<1>2. Len(l) \in Nat /\ DOMAIN l = 1 .. Len(l)
  OBVIOUS
<1>3. \A j \in 1 .. Len(l) + 1 :
        /\ j < i => j \in DOMAIN l /\ r[j] = l[j]
        /\ j = i => r[j] = e
        /\ j > i => j - 1 \in DOMAIN l /\ r[j] = l[j - 1]
  BY <1>1, <1>2
<1>4. \A j \in 1 .. Len(l) + 1 : r[j] \in Entry
  <2> TAKE j \in 1 .. Len(l) + 1
  <2>1. j < i \/ j = i \/ j > i
    BY <1>2
  <2>2. \A x \in DOMAIN l : l[x] \in Entry
    BY <1>2
  <2> QED
    BY <1>3, <2>1, <2>2
<1>5. r \in Seq(Entry) /\ DOMAIN r = 1 .. Len(l) + 1
  BY <1>1, <1>2, <1>4
<1>6. FilesIn(r) \subseteq FilesIn(l) \cup {e.file}
  <2>1. SUFFICES ASSUME NEW j \in DOMAIN r PROVE r[j].file \in FilesIn(l) \cup {e.file}
    BY DEF FilesIn
  <2>2. j < i \/ j = i \/ j > i
    BY <1>2, <1>5
  <2> QED
    BY <1>3, <1>5, <2>2 DEF FilesIn
<1>7. FilesIn(l) \subseteq FilesIn(r)
  <2>1. SUFFICES ASSUME NEW x \in DOMAIN l PROVE l[x].file \in FilesIn(r)
    BY DEF FilesIn
  <2>2. CASE x < i
    <3>1. x \in 1 .. Len(l) + 1 /\ r[x] = l[x]
      BY <1>2, <1>3, <2>2
    <3> QED
      BY <1>5, <3>1 DEF FilesIn
  <2>3. CASE ~(x < i)
    <3>1. x + 1 \in 1 .. Len(l) + 1 /\ x + 1 > i /\ (x + 1) - 1 = x
      BY <1>2, <2>3
    <3>2. r[x + 1] = l[x]
      BY <1>3, <3>1
    <3> QED
      BY <1>5, <3>1, <3>2 DEF FilesIn
  <2> QED
    BY <2>2, <2>3
<1>8. e.file \in FilesIn(r)
  <2>1. i \in DOMAIN r /\ r[i] = e
    BY <1>3, <1>5
  <2> QED
    BY <2>1 DEF FilesIn
<1> QED
  BY <1>5, <1>6, <1>7, <1>8

\* The scan lists every file of a folder.
LEMMA FirstList ==
  ASSUME disk \in [Files -> Status \cup {Absent}], NEW k \in Folders, NEW l \in FirstLists(k)
  PROVE  l \in Seq(Entry) /\ FilesIn(l) = {f \in Present : FolderOf[f] = k}
<1> DEFINE fs == {f \in Present : FolderOf[f] = k}
           n  == Cardinality(fs)
           name == [i \in 1 .. n |-> l[i].file]
<1>1. IsFiniteSet(fs) /\ n \in Nat
  <2>1. fs \in SUBSET Files /\ IsFiniteSet(Files)
    BY StorageAssumption DEF Present
  <2>2. IsFiniteSet(fs)
    BY <2>1, FS_Subset
  <2> QED
    BY <2>2, FS_CardinalityType
<1>2. /\ l \in [1 .. n -> {[file |-> f, time |-> disk[f].time] : f \in fs}]
      /\ Distinct(l)
  BY DEF FirstLists
<1>3. \A f \in fs : f \in Files /\ disk[f] \in Status
  BY DEF Present
<1>4. \A i \in 1 .. n : l[i] \in Entry /\ l[i].file \in fs
  <2> TAKE i \in 1 .. n
  <2>1. PICK f \in fs : l[i] = [file |-> f, time |-> disk[f].time]
    BY <1>2
  <2> QED
    BY <1>3, <2>1 DEF Entry, Status
<1> HIDE DEF fs, n
<1>5. l \in Seq(Entry) /\ DOMAIN l = 1 .. n
  BY <1>1, <1>2, <1>4
<1>6. name \in Injection(1 .. n, fs)
  BY <1>2, <1>4, <1>5 DEF Injection, IsInjective, Distinct
<1>7. name \in Surjection(1 .. n, fs)
  <2>1. Cardinality(1 .. n) = n
    BY <1>1, FS_Interval
  <2> QED
    BY <1>1, <1>6, <2>1, FS_Injection DEF n
<1>8. \A f \in fs : \E i \in DOMAIN l : l[i].file = f
  BY <1>5, <1>7 DEF Surjection
<1> QED
  BY <1>4, <1>5, <1>8 DEF FilesIn, fs

LEMMA RepairsListed == \A l : Repaired(l) \subseteq FilesIn(l)
  BY DEF Repaired, FilesIn

-----------------------------------------------------------------------------
(* The queue                                                               *)

\* An event, if it is queued, comes behind all others; else it is missed.
LEMMA Notified ==
  ASSUME Lists, NEW f \in Files, NEW kind \in {"new", "in", "out"}, Notify(kind, f)
  PROVE  /\ events' \in Seq(Events)
         /\ missed \subseteq missed'
         /\ \A x : Queued(x) \subseteq Queued(x)' /\ Queued(x)' \subseteq Queued(x) \cup {f}
         /\ kind # "in" => Queued("in")' = Queued("in")
         /\ kind # "new" => f \in Queued(kind)' \cup missed'
         /\ \A g : Trails(g) => Trails(g)' \/ (kind = "out" /\ g = f)
         /\ kind = "in" => Trails(f)' \/ f \in missed'
<1> DEFINE e == [kind |-> kind, file |-> f]
<1>1. events \in Seq(Events) /\ e \in Events
  BY DEF Lists, Events
<1>2. CASE ~(FolderOf[f] <= watched)
  <2>1. events' = events /\ missed \subseteq missed' /\ (kind # "new" => f \in missed')
    BY <1>2 DEF Notify
  <2> QED
    BY <1>1, <2>1 DEF Queued, Trails
<1>3. CASE FolderOf[f] <= watched
  <2>1. events' = Append(events, e) /\ missed' = missed
    BY <1>3 DEF Notify
  <2> DEFINE n == Len(events) + 1
  <2>2. /\ events' \in Seq(Events) /\ DOMAIN events = 1 .. Len(events) /\ DOMAIN events' = 1 .. n
        /\ n \in DOMAIN events' /\ events'[n] = e /\ Len(events) \in Nat
        /\ \A i \in DOMAIN events : i \in DOMAIN events' /\ events'[i] = events[i] /\ i < n
        /\ \A i \in DOMAIN events' : i \in DOMAIN events \/ i = n
    BY <1>1, <2>1
  <2> HIDE DEF n
  <2>3. \A x : Queued(x) \subseteq Queued(x)'
    BY <2>2 DEF Queued
  <2>4. \A x : Queued(x)' \subseteq Queued(x) \cup {f}
    BY <2>2 DEF Queued
  <2>5. kind # "in" => Queued("in")' = Queued("in")
    BY <2>2 DEF Queued
  <2>6. f \in Queued(kind)'
    <3>1. events'[n].kind = kind /\ events'[n].file = f
      BY <2>2
    <3> QED
      BY <2>2, <3>1 DEF Queued
  <2>7. ASSUME NEW g, Trails(g), ~(kind = "out" /\ g = f) PROVE Trails(g)'
    <3>1. SUFFICES ASSUME NEW i \in DOMAIN events', events'[i].kind = "out", events'[i].file = g
                   PROVE  \E j \in DOMAIN events' : i < j /\ events'[j].kind = "in" /\ events'[j].file = g
      BY DEF Trails
    <3>2. i \in DOMAIN events /\ events[i].kind = "out" /\ events[i].file = g
      BY <2>2, <2>7, <3>1
    <3>3. PICK j \in DOMAIN events : i < j /\ events[j].kind = "in" /\ events[j].file = g
      BY <2>7, <3>2 DEF Trails
    <3> QED
      BY <2>2, <3>3
  <2>8. ASSUME kind = "in" PROVE Trails(f)'
    <3>1. SUFFICES ASSUME NEW i \in DOMAIN events', events'[i].kind = "out", events'[i].file = f
                   PROVE  \E j \in DOMAIN events' : i < j /\ events'[j].kind = "in" /\ events'[j].file = f
      BY DEF Trails
    <3>2. i \in DOMAIN events
      BY <2>2, <2>8, <3>1
    <3> QED
      BY <2>2, <2>8, <3>2
  <2> QED
    BY <2>1, <2>2, <2>3, <2>4, <2>5, <2>6, <2>7, <2>8
<1> QED
  BY <1>2, <1>3

\* Taking the first event leaves the others in their order.
LEMMA Dequeued ==
  ASSUME Lists, events # <<>>, events' = Tail(events)
  PROVE  /\ Head(events) \in Events
         /\ events' \in Seq(Events)
         /\ \A x : Queued(x) = Queued(x)' \cup (IF Head(events).kind = x THEN {Head(events).file} ELSE {})
         /\ \A g : Trails(g) => Trails(g)'
         /\ \A g : Trails(g) /\ Head(events).kind = "out" /\ Head(events).file = g => g \in Queued("in")'
<1>1. events \in Seq(Events)
  BY DEF Lists
<1>2. /\ events' \in Seq(Events) /\ Head(events) \in Events /\ Head(events) = events[1]
      /\ 1 \in DOMAIN events /\ DOMAIN events = 1 .. Len(events) /\ Len(events) \in Nat
      /\ DOMAIN events' = 1 .. Len(events) - 1
      /\ \A i \in DOMAIN events' : i + 1 \in DOMAIN events /\ events'[i] = events[i + 1]
      /\ \A i \in DOMAIN events : i = 1 \/ (i - 1 \in DOMAIN events' /\ events'[i - 1] = events[i])
      /\ \A i \in DOMAIN events : i \in Nat /\ i >= 1
  BY <1>1
<1>3. \A x : Queued(x)' \subseteq Queued(x)
  BY <1>2 DEF Queued
<1>4. \A x : Head(events).kind = x => Head(events).file \in Queued(x)
  BY <1>2 DEF Queued
<1>5. \A x : Queued(x) \subseteq Queued(x)' \cup (IF Head(events).kind = x THEN {Head(events).file} ELSE {})
  <2>1. SUFFICES ASSUME NEW x, NEW i \in DOMAIN events, events[i].kind = x
                 PROVE  events[i].file \in Queued(x)' \cup (IF Head(events).kind = x THEN {Head(events).file} ELSE {})
    BY DEF Queued
  <2>2. CASE i = 1
    BY <1>2, <2>1, <2>2
  <2>3. CASE i # 1
    <3>1. i - 1 \in DOMAIN events' /\ events'[i - 1] = events[i]
      BY <1>2, <2>3
    <3> QED
      BY <2>1, <3>1 DEF Queued
  <2> QED
    BY <2>2, <2>3
<1>6. ASSUME NEW g, Trails(g) PROVE Trails(g)'
  <2>1. SUFFICES ASSUME NEW i \in DOMAIN events', events'[i].kind = "out", events'[i].file = g
                 PROVE  \E j \in DOMAIN events' : i < j /\ events'[j].kind = "in" /\ events'[j].file = g
    BY DEF Trails
  <2>2. i + 1 \in DOMAIN events /\ events[i + 1] = events'[i] /\ i \in Nat /\ i >= 1
    BY <1>2
  <2>3. PICK j \in DOMAIN events : i + 1 < j /\ events[j].kind = "in" /\ events[j].file = g
    BY <1>6, <2>1, <2>2 DEF Trails
  <2>4. j # 1 /\ j \in Nat /\ i < j - 1
    BY <1>2, <2>2, <2>3
  <2>5. j - 1 \in DOMAIN events' /\ events'[j - 1] = events[j]
    BY <1>2, <2>4
  <2> QED
    BY <2>3, <2>4, <2>5
<1>7. ASSUME NEW g, Trails(g), Head(events).kind = "out", Head(events).file = g PROVE g \in Queued("in")'
  <2>1. PICK j \in DOMAIN events : 1 < j /\ events[j].kind = "in" /\ events[j].file = g
    BY <1>2, <1>7 DEF Trails
  <2>2. j - 1 \in DOMAIN events' /\ events'[j - 1] = events[j]
    BY <1>2, <2>1
  <2> QED
    BY <2>1, <2>2 DEF Queued
<1> QED
  BY <1>2, <1>3, <1>4, <1>5, <1>6, <1>7

-----------------------------------------------------------------------------
(* Steps that change neither a list nor a file                             *)

\* A step of a thread that goes from one place without a file to another.
LEMMA ThreadMoves ==
  ASSUME IInv, UNCHANGED <<disk, opened, events, list, known, missed, dropped>>, Threads',
         \/ UNCHANGED <<mpc, mfile>>
         \/ mpc \in {"none", "watch", "idle"} /\ mpc' \in {"none", "watch", "idle"},
         spc' # "repair", spc' \in {"remove", "drop"} => victim' \in known
  PROVE  IInv' /\ Kept
<1>1. Device' /\ Lists'
  BY DEF IInv, Device, Lists, Present, FilesIn
<1>2. Closed'
  BY DEF IInv, Closed, Queued, Listing, FilesIn
<1>3. Coming'
  BY DEF IInv, Coming, Present, Queued, Listing
<1>4. Follows'
  BY DEF IInv, Follows, Due, Trails, Present, Queued
<1>5. ListedIsReal' /\ AllListed'
  BY DEF IInv, ListedIsReal, AllListed, Present, Queued, InHand, FilesIn
<1>6. Kept
  BY DEF IInv, Device, Kept, Present
<1> QED
  BY <1>1, <1>2, <1>3, <1>4, <1>5, <1>6 DEF IInv

\* The last entry of a list that is not empty is one of its files.
LEMMA OldestListed ==
  ASSUME Lists, NEW k \in Folders, list[k] # <<>>
  PROVE  OldestIn(list[k]) \in FilesIn(list[k]) /\ OldestIn(list[k]) \in Files
<1>1. list[k] \in Seq(Entry)
  BY DEF Lists
<1>2. Len(list[k]) \in DOMAIN list[k] /\ list[k][Len(list[k])] \in Entry
  BY <1>1
<1> QED
  BY <1>2 DEF OldestIn, FilesIn, Entry

LEMMA ContinueThreads ==
  ASSUME Threads, NEW p \in {"count", "share"}, Continue(p)
  PROVE  si' \in Folders /\ spc' \in {"count", "share", "size"}
<1>1. si \in 1 .. NumFolders /\ NumFolders \in Nat \ {0}
  BY StorageAssumption DEF Threads, Folders
<1> QED
  BY <1>1 DEF Continue, Folders

LEMMA BookkeepingInv ==
  ASSUME IInv, StartMonitor \/ LookAtFolder \/ RemoveFails \/ LookAtSpace \/ SumSpace \/ AddWatch
  PROVE  IInv' /\ Kept
<1>1. UNCHANGED <<disk, opened, events, list, known, missed, dropped>>
  BY DEF StartMonitor, LookAtFolder, RemoveFails, LookAtSpace, SumSpace, AddWatch, diskVars, listVars,
     history, scanVars, monVars
<1>2. Threads /\ Lists /\ si \in Folders /\ NumFolders \in Nat \ {0}
  BY StorageAssumption DEF IInv, Threads
<1>3. CASE StartMonitor
  <2>1. /\ UNCHANGED <<mfile, mtime, si, pass, victim>> /\ mpc' = "watch" /\ spc' = "count"
        /\ spc = "mounted"
    BY <1>3 DEF StartMonitor
  <2>2. mpc = "none"
    BY <1>2, <2>1 DEF Threads
  <2>3. Threads'
    BY <1>2, <2>1 DEF Threads, Listing, Scanning
  <2> QED
    BY <1>1, <2>1, <2>2, <2>3, ThreadMoves
<1>4. CASE LookAtFolder
  <2>1. UNCHANGED <<mpc, mfile, mtime>> /\ spc \in {"count", "share"}
    BY <1>4 DEF LookAtFolder, monVars
  <2>2. CASE /\ list[si] # <<>> /\ victim' = OldestIn(list[si]) /\ pass' = spc /\ spc' = "remove"
             /\ UNCHANGED si
    <3>1. victim' \in Files /\ victim' \in FilesIn(list[si])
      BY <1>2, <2>2, OldestListed
    <3>2. victim' \in known
      BY <1>2, <3>1 DEF IInv, Closed
    <3>3. Threads'
      BY <1>2, <2>1, <2>2, <3>1 DEF Threads, Listing, Scanning
    <3> QED
      BY <1>1, <2>1, <2>2, <3>2, <3>3, ThreadMoves
  <2>3. CASE Continue(spc) /\ UNCHANGED <<pass, victim>>
    <3>1. si' \in Folders /\ spc' \in {"count", "share", "size"}
      BY <1>2, <2>1, <2>3, ContinueThreads
    <3>2. Threads'
      BY <1>2, <2>1, <2>3, <3>1 DEF Threads, Listing, Scanning
    <3> QED
      BY <1>1, <2>1, <3>1, <3>2, ThreadMoves
  <2> QED
    BY <1>4, <2>2, <2>3 DEF LookAtFolder
<1>5. CASE RemoveFails
  <2>1. UNCHANGED <<mpc, mfile, mtime, si, pass>> /\ spc = "remove"
    BY <1>5 DEF RemoveFails, monVars
  <2>2. CASE spc' = "crash" /\ UNCHANGED victim
    <3>1. Threads'
      BY <1>2, <2>1, <2>2 DEF Threads, Listing, Scanning
    <3> QED
      BY <1>1, <2>1, <2>2, <3>1, ThreadMoves
  <2>3. CASE list[si] # <<>> /\ spc' = "drop" /\ victim' = OldestIn(list[si])
    <3>1. victim' \in Files /\ victim' \in FilesIn(list[si])
      BY <1>2, <2>3, OldestListed
    <3>2. victim' \in known
      BY <1>2, <3>1 DEF IInv, Closed
    <3>3. Threads'
      BY <1>2, <2>1, <2>3, <3>1 DEF Threads, Listing, Scanning
    <3> QED
      BY <1>1, <2>1, <2>3, <3>2, <3>3, ThreadMoves
  <2> QED
    BY <1>5, <2>2, <2>3 DEF RemoveFails
<1>6. CASE LookAtSpace \/ SumSpace
  <2>1. /\ UNCHANGED <<mpc, mfile, mtime, pass, victim>> /\ spc \in {"size", "sum"}
        /\ si' \in Folders /\ spc' \in {"sum", "count", "share"}
    <3>1. si \in 1 .. NumFolders /\ Folders = 1 .. NumFolders
      BY <1>2 DEF Folders
    <3>2. CASE LookAtSpace
      <4>1. UNCHANGED <<mpc, mfile, mtime, pass, victim>> /\ spc = "size" /\ si' = 1
            /\ spc' \in {"sum", "count"}
        BY <3>2 DEF LookAtSpace, monVars
      <4> QED
        BY <1>2, <3>1, <4>1
    <3>3. CASE SumSpace
      <4>1. UNCHANGED <<mpc, mfile, mtime, pass, victim>> /\ spc = "sum"
        BY <3>3 DEF SumSpace, monVars
      <4>2. si' \in {si + 1, 1} /\ (si' = si + 1 => si < NumFolders) /\ spc' \in {"sum", "count", "share"}
        BY <3>1, <3>3 DEF SumSpace
      <4> QED
        BY <1>2, <3>1, <4>1, <4>2
    <3> QED
      BY <1>6, <3>2, <3>3
  <2>2. Threads'
    BY <1>2, <2>1 DEF Threads, Listing, Scanning
  <2> QED
    BY <1>1, <2>1, <2>2, ThreadMoves
<1>7. CASE AddWatch
  <2>1. UNCHANGED <<mfile, mtime, si, pass, victim, spc>> /\ mpc = "watch" /\ mpc' \in {"idle", "watch"}
    BY <1>7 DEF AddWatch, scanVars
  <2>2. Threads' /\ spc # "repair"
    BY <1>2, <2>1 DEF Threads, Listing, Scanning
  <2>3. spc \in {"remove", "drop"} => victim \in known
    BY DEF IInv, Closed
  <2> QED
    BY <1>1, <2>1, <2>2, <2>3, ThreadMoves
<1> QED
  BY <1>3, <1>4, <1>5, <1>6, <1>7

-----------------------------------------------------------------------------
(* Steps that put an event into the queue                                  *)

\* What the application or the scan thread does to one file g and tells of.
LEMMA Told ==
  ASSUME IInv, NEW g \in Files, NEW kind \in {"new", "in", "out"}, Notify(kind, g),
         UNCHANGED <<list, monVars, dropped>>, Device', Threads',
         known \subseteq known', kind = "in" => g \in known',
         \A f \in Files \ {g} : disk'[f] = disk[f] /\ (f \in opened' <=> f \in opened),
         kind = "out" => disk'[g] = Absent,
         kind = "new" => disk'[g] # Absent /\ g \in opened',
         kind = "in" => disk'[g] = disk[g],
         spc' \in {"remove", "drop"} => victim' \in known
  PROVE  IInv'
<1>1. Lists
  BY DEF IInv
<1>2. /\ events' \in Seq(Events)
      /\ missed \subseteq missed'
      /\ \A x : Queued(x) \subseteq Queued(x)' /\ Queued(x)' \subseteq Queued(x) \cup {g}
      /\ kind # "in" => Queued("in")' = Queued("in")
      /\ kind # "new" => g \in Queued(kind)' \cup missed'
      /\ \A f : Trails(f) => Trails(f)' \/ (kind = "out" /\ f = g)
      /\ kind = "in" => Trails(g)' \/ g \in missed'
  BY <1>1, Notified
<1>3. /\ UNCHANGED <<mpc, mfile, mtime, watched>>
  BY DEF monVars
<1>4. Lists'
  BY <1>2 DEF IInv, Lists, FilesIn
<1>5. /\ Present \subseteq Present' \cup {g}
      /\ kind # "out" => Present \subseteq Present'
      /\ Due' \subseteq Due \cup {g}
      /\ kind # "in" => g \notin Due'
      /\ \A f \in Files : FilesIn(list[FolderOf[f]])' = FilesIn(list[FolderOf[f]])
  <2>1. Present \subseteq Present' \cup {g} /\ (kind # "out" => Present \subseteq Present')
    BY DEF Present
  <2>2. Due' \subseteq Due \cup {g}
    BY <1>2 DEF Due, Present
  <2>3. kind # "in" => g \notin Due'
    BY DEF Due, Present
  <2> QED
    BY <2>1, <2>2, <2>3 DEF FilesIn
<1>6. Closed'
  BY <1>2, <1>3 DEF IInv, Closed, Listing, FilesIn
<1>7. Coming'
  BY <1>2, <1>3, <1>5 DEF IInv, Coming, Listing
<1>8. Follows'
  <2>1. ASSUME NEW f \in Due'
        PROVE  Trails(f)' /\ (mpc' = "del" /\ mfile' = f => f \in Queued("in")')
    <3>1. CASE f = g
      <4>1. kind = "in" /\ f \notin missed'
        BY <1>5, <2>1, <3>1 DEF Due
      <4> QED
        BY <1>2, <3>1, <4>1
    <3>2. CASE f # g
      <4>1. f \in Due
        BY <1>5, <2>1, <3>2
      <4> QED
        BY <1>2, <1>3, <3>2, <4>1 DEF IInv, Follows
    <3> QED
      BY <3>1, <3>2
  <2> QED
    BY <2>1 DEF Follows
<1>9. ListedIsReal'
  BY <1>2, <1>3, <1>5 DEF IInv, ListedIsReal, InHand, FilesIn
<1>10. AllListed'
  <2>1. SUFFICES ASSUME NEW f \in (Present \ opened)', disk'[f].ok
                 PROVE  f \in FilesIn(list[FolderOf[f]])' \cup Queued("in")' \cup InHand({"check", "add"})'
                               \cup missed' \cup dropped'
    BY DEF AllListed
  <2>2. CASE f = g
    <3>1. kind = "in"
      BY <2>1, <2>2 DEF Present
    <3> QED
      BY <1>2, <2>2, <3>1
  <2>3. CASE f # g
    <3>1. f \in Present \ opened /\ disk[f].ok /\ f \in Files
      BY <2>1, <2>3 DEF Present
    <3>2. f \in FilesIn(list[FolderOf[f]]) \cup Queued("in") \cup InHand({"check", "add"})
               \cup missed \cup dropped
      BY <3>1 DEF IInv, AllListed
    <3>3. InHand({"check", "add"})' = InHand({"check", "add"})
      BY <1>3 DEF InHand
    <3> QED
      BY <1>2, <1>5, <3>1, <3>2, <3>3
  <2> QED
    BY <2>2, <2>3
<1> QED
  BY <1>4, <1>6, <1>7, <1>8, <1>9, <1>10 DEF IInv

LEMMA RemoveInv ==
  ASSUME IInv, Remove
  PROVE  IInv' /\ Kept
<1>1. /\ spc = "remove" /\ disk[victim] # Absent
      /\ disk' = [disk EXCEPT ![victim] = Absent] /\ opened' = opened \ {victim}
      /\ Notify("out", victim) /\ pass' = "count" /\ Continue(pass)
      /\ UNCHANGED <<list, monVars, dropped, known>>
  BY DEF Remove, listVars
<1>2. victim \in Files /\ victim \in known /\ Threads /\ pass \in {"count", "share"}
  BY <1>1 DEF IInv, Threads, Closed
<1>3. si' \in Folders /\ spc' \in {"count", "share", "size"}
  BY <1>1, <1>2, ContinueThreads
<1>4. disk \in [Files -> Status \cup {Absent}] /\ opened \subseteq Present
  BY DEF IInv, Device
<1>5. Device'
  BY <1>1, <1>2, <1>3, <1>4 DEF Device, Present
<1>6. Threads'
  BY <1>1, <1>2, <1>3 DEF Threads, Listing, Scanning, monVars
<1>7. Kept
  BY <1>1, <1>2, <1>4 DEF Kept, Present
<1>8. /\ \A f \in Files \ {victim} : disk'[f] = disk[f] /\ (f \in opened' <=> f \in opened)
      /\ disk'[victim] = Absent
  BY <1>1, <1>2, <1>4
<1> QED
  BY <1>1, <1>2, <1>3, <1>5, <1>6, <1>7, <1>8, Told

\* Steps of the application leave the threads alone.
LEMMA AppThreads ==
  ASSUME IInv, UNCHANGED <<monVars, scanVars>>
  PROVE  Threads' /\ (spc' \in {"remove", "drop"} => victim' \in known)
BY DEF IInv, Threads, Closed, Listing, monVars, scanVars

LEMMA CreateInv ==
  ASSUME IInv, NEW f \in Files, Create(f)
  PROVE  IInv' /\ Kept
<1>1. PICK t \in Times : disk' = [disk EXCEPT ![f] = [time |-> t, ok |-> FALSE]]
  BY DEF Create
<1>2. /\ spc # "repair" /\ UNCHANGED <<list, monVars, scanVars, dropped, known>>
      /\ opened' = opened \cup {f} /\ Notify("new", f)
  BY DEF Create, Running, listVars
<1>3. disk \in [Files -> Status \cup {Absent}] /\ opened \subseteq Present /\ Absent \notin Status
  BY StorageAssumption DEF IInv, Device
<1>4. [time |-> t, ok |-> FALSE] \in Status
  BY DEF Status
<1>5. disk'[f] \in Status /\ \A g \in Files \ {f} : disk'[g] = disk[g]
  BY <1>1, <1>3, <1>4
<1>6. Device'
  BY <1>1, <1>2, <1>3, <1>4, <1>5 DEF Device, Present, scanVars
<1>7. Threads' /\ (spc' \in {"remove", "drop"} => victim' \in known)
  BY <1>2, AppThreads
<1>8. Kept
  BY <1>3, <1>5 DEF Kept, Present
<1>9. disk'[f] # Absent
  BY <1>3, <1>5
<1> QED
  BY <1>2, <1>5, <1>6, <1>7, <1>8, <1>9, Told

LEMMA CloseInv ==
  ASSUME IInv, NEW f \in Files, Close(f)
  PROVE  IInv' /\ Kept
<1>1. /\ spc # "repair" /\ UNCHANGED <<disk, list, monVars, scanVars, dropped>>
      /\ opened' = opened \ {f} /\ known' = known \cup {f} /\ Notify("in", f)
  BY DEF Close, Running, listVars
<1>2. Device' /\ Kept
  BY <1>1 DEF IInv, Device, Kept, Present, scanVars
<1>3. Threads' /\ (spc' \in {"remove", "drop"} => victim' \in known)
  BY <1>1, AppThreads
<1> QED
  BY <1>1, <1>2, <1>3, Told

LEMMA DeleteInv ==
  ASSUME IInv, NEW f \in Files, Delete(f)
  PROVE  IInv' /\ Kept
<1>1. /\ spc # "repair" /\ UNCHANGED <<opened, list, known, monVars, scanVars, dropped>>
      /\ f \notin opened /\ disk' = [disk EXCEPT ![f] = Absent] /\ Notify("out", f)
  BY DEF Delete, Running, listVars
<1>2. disk \in [Files -> Status \cup {Absent}] /\ opened \subseteq Present
  BY DEF IInv, Device
<1>3. Device' /\ Kept
  BY <1>1, <1>2 DEF Device, Kept, Present, scanVars
<1>4. Threads' /\ (spc' \in {"remove", "drop"} => victim' \in known)
  BY <1>1, AppThreads
<1>5. disk'[f] = Absent /\ \A g \in Files \ {f} : disk'[g] = disk[g]
  BY <1>1, <1>2
<1> QED
  BY <1>1, <1>3, <1>4, <1>5, Told

-----------------------------------------------------------------------------
(* Steps that change an open file                                          *)

LEMMA OpenInv ==
  ASSUME IInv, NEW f \in Files, Reopen(f) \/ Write(f)
  PROVE  IInv' /\ Kept
<1>1. /\ spc # "repair" /\ UNCHANGED <<events, known, list, monVars, scanVars, missed, dropped>>
      /\ disk[f] # Absent /\ disk'[f] # Absent /\ disk' \in [Files -> Status \cup {Absent}]
      /\ \A g \in Files \ {f} : disk'[g] = disk[g]
      /\ opened' = opened \cup {f}
  <2>1. /\ disk \in [Files -> Status \cup {Absent}] /\ opened \subseteq Present
        /\ Absent \notin Status
    BY StorageAssumption DEF IInv, Device
  <2>2. CASE Reopen(f)
    BY <2>1, <2>2 DEF Reopen, Running, listVars, history
  <2>3. CASE Write(f)
    <3>1. PICK t \in Times : disk' = [disk EXCEPT ![f] = [time |-> t, ok |-> TRUE]]
      BY <2>3 DEF Write
    <3>2. [time |-> t, ok |-> TRUE] \in Status
      BY DEF Status
    <3>3. disk[f] # Absent
      BY <2>1, <2>3 DEF Write, Present
    <3> QED
      BY <2>1, <2>3, <3>1, <3>2, <3>3 DEF Write, Running, listVars, history
  <2> QED
    BY <2>2, <2>3
<1>2. /\ UNCHANGED <<mpc, mfile, mtime, spc, victim>> /\ Present' = Present /\ Due' \subseteq Due
      /\ \A x : Queued(x)' = Queued(x)
      /\ \A g : Trails(g)' = Trails(g)
      /\ \A pcs : InHand(pcs)' = InHand(pcs)
  <2>1. UNCHANGED <<mpc, mfile, mtime, spc, victim>> /\ Present' = Present
    BY <1>1 DEF monVars, scanVars, Present
  <2>2. Due' \subseteq Due
    BY <1>1, <2>1 DEF Due, Present
  <2> QED
    BY <1>1, <2>1, <2>2 DEF Queued, Trails, InHand
<1>3. Device' /\ Kept
  BY <1>1, <1>2 DEF IInv, Device, Kept, Present
<1>4. Threads'
  BY <1>1, AppThreads
<1>5. Lists' /\ Closed' /\ Coming'
  BY <1>1, <1>2 DEF IInv, Lists, Closed, Coming, Listing, FilesIn
<1>6. Follows'
  BY <1>2 DEF IInv, Follows
<1>7. ListedIsReal'
  BY <1>1, <1>2 DEF IInv, ListedIsReal, FilesIn
<1>8. AllListed'
  <2>1. SUFFICES ASSUME NEW g \in (Present \ opened)', disk'[g].ok
                 PROVE  g \in FilesIn(list[FolderOf[g]])' \cup Queued("in")' \cup InHand({"check", "add"})'
                               \cup missed' \cup dropped'
    BY DEF AllListed
  <2>2. g \in Present \ opened /\ disk[g].ok
    BY <1>1, <1>2, <2>1 DEF Present
  <2> QED
    BY <1>1, <1>2, <2>2 DEF IInv, AllListed, FilesIn
<1> QED
  BY <1>3, <1>4, <1>5, <1>6, <1>7, <1>8 DEF IInv
-----------------------------------------------------------------------------
(* Steps of the monitor                                                    *)

\* The monitor takes an event, and with it a file, or none.
LEMMA TakesInv ==
  ASSUME IInv, TakeIn \/ TakeNew \/ TakeOut
  PROVE  IInv' /\ Kept
<1> DEFINE e == Head(events)
<1>1. /\ mpc = "idle" /\ events # <<>> /\ events' = Tail(events)
      /\ UNCHANGED <<disk, opened, known, list, scanVars, missed, dropped>>
  BY DEF TakeIn, TakeNew, TakeOut, diskVars, listVars, history
<1>2. Lists /\ Device /\ Threads
  BY DEF IInv
<1>3. /\ e \in Events /\ events' \in Seq(Events)
      /\ \A x : Queued(x) = Queued(x)' \cup (IF e.kind = x THEN {e.file} ELSE {})
      /\ \A g : Trails(g) => Trails(g)'
      /\ \A g : Trails(g) /\ e.kind = "out" /\ e.file = g => g \in Queued("in")'
  BY <1>1, <1>2, Dequeued
<1> HIDE DEF e
<1>4. e.file \in Files
  BY <1>3 DEF Events
<1>5. \/ /\ e.kind = "in" /\ mpc' = "check" /\ mfile' = e.file /\ mtime' \in Times
         /\ disk[e.file] # Absent
      \/ /\ e.kind = "in" /\ UNCHANGED <<mpc, mfile>>
         /\ disk[e.file] = Absent \/ ~disk[e.file].ok
      \/ e.kind = "new" /\ UNCHANGED <<mpc, mfile>>
      \/ e.kind = "out" /\ mpc' = "del" /\ mfile' = e.file
  <2>1. CASE TakeIn
    <3>1. e.kind = "in"
      BY <2>1 DEF TakeIn, e
    <3>2. CASE disk[e.file] # Absent /\ disk[e.file].ok
      <4>1. mpc' = "check" /\ mfile' = e.file /\ mtime' = disk[e.file].time
        BY <2>1, <3>2 DEF TakeIn, e
      <4>2. disk[e.file] \in Status
        BY <1>2, <1>4, <3>2 DEF Device
      <4> QED
        BY <3>1, <3>2, <4>1, <4>2 DEF Status
    <3>3. CASE ~(disk[e.file] # Absent /\ disk[e.file].ok)
      BY <2>1, <3>1, <3>3 DEF TakeIn, e
    <3> QED
      BY <3>2, <3>3
  <2>2. CASE TakeNew
    BY <2>2 DEF TakeNew, e
  <2>3. CASE TakeOut
    BY <2>3 DEF TakeOut, e
  <2> QED
    BY <2>1, <2>2, <2>3
<1>6. /\ UNCHANGED <<spc, si, pass, victim>> /\ Present' = Present /\ Due' = Due
  BY <1>1 DEF scanVars, Present, Due
<1>7. Device' /\ Kept
  BY <1>1, <1>2, <1>6 DEF Device, Kept, Present
<1>8. Lists'
  BY <1>1, <1>2, <1>3 DEF Lists, FilesIn
<1>9. Threads'
  BY <1>1, <1>2, <1>4, <1>5, <1>6 DEF Threads, Listing, Scanning
<1>10. Closed'
  <2>1. Queued("in")' \subseteq Queued("in") /\ (e.kind = "in" => e.file \in Queued("in"))
    BY <1>3
  <2>2. Listing' => e.kind = "in" /\ mfile' = e.file
    BY <1>1, <1>5 DEF Listing
  <2> QED
    BY <1>1, <1>6, <2>1, <2>2 DEF IInv, Closed, FilesIn
<1>11. Coming'
  BY <1>1, <1>4, <1>5, <1>6 DEF Coming, Listing, Present
<1>12. Follows'
  <2>1. ASSUME NEW f \in Due'
        PROVE  Trails(f)' /\ (mpc' = "del" /\ mfile' = f => f \in Queued("in")')
    <3>1. Trails(f)
      BY <1>6, <2>1 DEF IInv, Follows
    <3>2. mpc' = "del" => e.kind = "out" /\ mfile' = e.file
      BY <1>1, <1>5
    <3> QED
      BY <1>3, <3>1, <3>2
  <2> QED
    BY <2>1 DEF Follows
<1>13. ListedIsReal'
  <2>1. Queued("out") \subseteq Queued("out")' \cup InHand({"del"})'
    BY <1>3, <1>5 DEF InHand
  <2>2. InHand({"del"}) = {}
    BY <1>1 DEF InHand
  <2> QED
    BY <1>1, <1>6, <2>1, <2>2 DEF IInv, ListedIsReal, FilesIn
<1>14. AllListed'
  <2>1. SUFFICES ASSUME NEW f \in Present \ opened, disk[f].ok
                 PROVE  f \in FilesIn(list[FolderOf[f]]) \cup Queued("in")' \cup InHand({"check", "add"})'
                               \cup missed \cup dropped
    BY <1>1, <1>6 DEF AllListed, FilesIn
  <2>2. f \in FilesIn(list[FolderOf[f]]) \cup Queued("in") \cup missed \cup dropped
    BY <1>1, <2>1 DEF IInv, AllListed, InHand
  <2>3. e.kind = "in" /\ e.file = f => f \in InHand({"check", "add"})'
    BY <1>5, <2>1 DEF InHand, Present
  <2> QED
    BY <1>3, <2>2, <2>3
<1> QED
  BY <1>7, <1>8, <1>9, <1>10, <1>11, <1>12, <1>13, <1>14 DEF IInv

\* The file in hand is not listed twice.
LEMMA CheckInv ==
  ASSUME IInv, Check
  PROVE  IInv' /\ Kept
<1>1. /\ mpc = "check" /\ UNCHANGED <<disk, opened, known, list, events, scanVars, missed, dropped>>
      /\ \/ mfile \in FilesIn(list[FolderOf[mfile]]) /\ mpc' = "idle"
         \/ mpc' = "add" /\ UNCHANGED <<mfile, mtime>>
  BY DEF Check, diskVars, listVars, history
<1>2. /\ UNCHANGED <<spc, si, pass, victim>> /\ Present' = Present /\ Due' = Due
      /\ \A x : Queued(x)' = Queued(x)
      /\ \A g : Trails(g)' = Trails(g)
  BY <1>1 DEF scanVars, Present, Due, Queued, Trails
<1>3. Device' /\ Kept /\ Lists'
  BY <1>1, <1>2 DEF IInv, Device, Kept, Present, Lists, FilesIn
<1>4. Threads' /\ Closed' /\ Coming'
  BY <1>1, <1>2 DEF IInv, Threads, Closed, Coming, Listing, FilesIn
<1>5. Follows'
  BY <1>1, <1>2 DEF IInv, Follows
<1>6. ListedIsReal'
  BY <1>1, <1>2 DEF IInv, ListedIsReal, FilesIn, InHand
<1>7. AllListed'
  <2>1. SUFFICES ASSUME NEW f \in Present \ opened, disk[f].ok
                 PROVE  f \in FilesIn(list[FolderOf[f]]) \cup Queued("in") \cup InHand({"check", "add"})'
                               \cup missed \cup dropped
    BY <1>1, <1>2 DEF AllListed, FilesIn
  <2> QED
    BY <1>1, <2>1 DEF IInv, AllListed, InHand
<1> QED
  BY <1>3, <1>4, <1>5, <1>6, <1>7 DEF IInv

LEMMA AddInv ==
  ASSUME IInv, AddEntry
  PROVE  IInv' /\ Kept
<1> DEFINE k == FolderOf[mfile]
           e == [file |-> mfile, time |-> mtime]
<1>1. /\ mpc = "add" /\ mpc' = "idle"
      /\ UNCHANGED <<disk, opened, known, events, scanVars, missed, dropped>>
  BY DEF AddEntry, diskVars, history
<1>2. mfile \in Files /\ k \in Folders /\ e \in Entry /\ mfile \in known
      /\ mfile \in Present \cup Queued("out") \cup missed
  BY <1>1, StorageAssumption DEF IInv, Threads, Listing, Entry, Closed, Coming
<1>3. list \in [Folders -> Seq(Entry)]
  BY DEF IInv, Lists
<1>4. PICK l \in Added(list[k], e) : list' = [list EXCEPT ![k] = l]
  BY DEF AddEntry
<1>5. l \in Seq(Entry) /\ FilesIn(l) = FilesIn(list[k]) \cup {mfile}
  <2>1. list[k] \in Seq(Entry)
    BY <1>2, <1>3
  <2>2. l \in Seq(Entry) /\ FilesIn(l) = FilesIn(list[k]) \cup {e.file}
    BY <1>2, <2>1, Joined
  <2> QED
    BY <2>2
<1>6. /\ list' \in [Folders -> Seq(Entry)]
      /\ \A j \in Folders : FilesIn(list'[j]) = IF j = k THEN FilesIn(list[k]) \cup {mfile} ELSE FilesIn(list[j])
  BY <1>2, <1>3, <1>4, <1>5
<1> HIDE DEF e
<1>7. /\ UNCHANGED <<spc, si, pass, victim>> /\ Present' = Present /\ Due' = Due
      /\ \A x : Queued(x)' = Queued(x)
      /\ \A g : Trails(g)' = Trails(g)
  BY <1>1 DEF scanVars, Present, Due, Queued, Trails
<1>8. Device' /\ Kept
  BY <1>1, <1>7 DEF IInv, Device, Kept, Present
<1>9. Lists'
  BY <1>1, <1>6 DEF IInv, Lists
<1>10. Threads' /\ Coming'
  BY <1>1, <1>7 DEF IInv, Threads, Coming, Listing
<1>11. Closed'
  BY <1>1, <1>2, <1>6, <1>7 DEF IInv, Closed, Listing
<1>12. Follows'
  BY <1>1, <1>7 DEF IInv, Follows
<1>13. ListedIsReal'
  BY <1>1, <1>2, <1>6, <1>7 DEF IInv, ListedIsReal, InHand
<1>14. AllListed'
  <2>1. SUFFICES ASSUME NEW f \in Present \ opened, disk[f].ok
                 PROVE  f \in FilesIn(list'[FolderOf[f]]) \cup Queued("in") \cup missed \cup dropped
    BY <1>1, <1>7 DEF AllListed
  <2>2. FolderOf[f] \in Folders
    BY StorageAssumption DEF Present
  <2>3. f \in FilesIn(list[FolderOf[f]]) \cup Queued("in") \cup {mfile} \cup missed \cup dropped
    BY <1>1, <2>1 DEF IInv, AllListed, InHand
  <2> QED
    BY <1>6, <2>2, <2>3
<1> QED
  BY <1>8, <1>9, <1>10, <1>11, <1>12, <1>13, <1>14 DEF IInv

-----------------------------------------------------------------------------
(* Steps that take entries out of a list                                   *)

\* One list loses the entries of some files.
LEMMA ListShrinks ==
  ASSUME Lists, NEW k \in Folders, NEW fs, NEW l \in Without(list[k], fs), list' = [list EXCEPT ![k] = l]
  PROVE  /\ list' \in [Folders -> Seq(Entry)]
         /\ \A j \in Folders : FilesIn(list'[j]) = IF j = k THEN FilesIn(list[k]) \ fs ELSE FilesIn(list[j])
<1>1. list \in [Folders -> Seq(Entry)] /\ list[k] \in Seq(Entry)
  BY DEF Lists
<1>2. l \in Seq(Entry) /\ FilesIn(l) = FilesIn(list[k]) \ fs
  BY <1>1, Rest
<1> QED
  BY <1>1, <1>2

LEMMA DelInv ==
  ASSUME IInv, DelEntry
  PROVE  IInv' /\ Kept
<1> DEFINE k == FolderOf[mfile]
<1>1. /\ mpc = "del" /\ mpc' = "idle"
      /\ UNCHANGED <<disk, opened, known, events, scanVars, missed, dropped>>
  BY DEF DelEntry, diskVars
<1>2. mfile \in Files /\ k \in Folders /\ Lists
  BY <1>1, StorageAssumption DEF IInv, Threads
<1>3. /\ list' \in [Folders -> Seq(Entry)]
      /\ \A j \in Folders : FilesIn(list'[j]) = IF j = k THEN FilesIn(list[k]) \ {mfile} ELSE FilesIn(list[j])
  <2>1. PICK l \in Without(list[k], {mfile}) : list' = [list EXCEPT ![k] = l]
    BY DEF DelEntry
  <2> QED
    BY <1>2, <2>1, ListShrinks
<1>4. /\ UNCHANGED <<spc, si, pass, victim>> /\ Present' = Present /\ Due' = Due
      /\ \A x : Queued(x)' = Queued(x)
      /\ \A g : Trails(g)' = Trails(g)
  BY <1>1 DEF scanVars, Present, Due, Queued, Trails
<1>5. Device' /\ Kept
  BY <1>1, <1>4 DEF IInv, Device, Kept, Present
<1>6. Lists'
  BY <1>1, <1>3 DEF IInv, Lists
<1>7. Threads' /\ Coming'
  BY <1>1, <1>4 DEF IInv, Threads, Coming, Listing
<1>8. Closed'
  BY <1>1, <1>3, <1>4 DEF IInv, Closed, Listing
<1>9. Follows'
  BY <1>1, <1>4 DEF IInv, Follows
<1>10. ListedIsReal'
  <2>1. SUFFICES ASSUME NEW j \in Folders, NEW f \in FilesIn(list'[j])
                 PROVE  f \in Present \cup Queued("out") \cup missed
    BY <1>1, <1>4 DEF ListedIsReal
  <2>2. f \in FilesIn(list[j]) /\ FolderOf[f] = j /\ (j = k => f # mfile)
    BY <1>2, <1>3, <2>1 DEF Lists
  <2>3. f # mfile
    BY <2>2
  <2> QED
    BY <1>1, <2>2, <2>3 DEF IInv, ListedIsReal, InHand
<1>11. AllListed'
  <2>1. SUFFICES ASSUME NEW f \in Present \ opened, disk[f].ok
                 PROVE  f \in FilesIn(list'[FolderOf[f]]) \cup Queued("in") \cup missed \cup dropped
    BY <1>1, <1>4 DEF AllListed
  <2>2. FolderOf[f] \in Folders
    BY StorageAssumption DEF Present
  <2>3. f \in FilesIn(list[FolderOf[f]]) \cup Queued("in") \cup missed \cup dropped
    BY <1>1, <2>1 DEF IInv, AllListed, InHand
  <2>4. f = mfile => f \in Queued("in") \cup missed \cup dropped
    BY <1>1, <2>1 DEF IInv, Follows, Due
  <2> QED
    BY <1>3, <2>2, <2>3, <2>4
<1> QED
  BY <1>5, <1>6, <1>7, <1>8, <1>9, <1>10, <1>11 DEF IInv

LEMMA DropInv ==
  ASSUME IInv, DropEntry
  PROVE  IInv' /\ Kept
<1>1. /\ spc = "drop" /\ Continue(pass) /\ pass' = "count"
      /\ UNCHANGED <<disk, opened, known, events, mpc, mfile, mtime, missed>>
      /\ dropped' = IF disk[victim] # Absent THEN dropped \cup {victim} ELSE dropped
  BY DEF DropEntry, diskVars, monVars
<1>2. victim \in Files /\ si \in Folders /\ Lists /\ Threads /\ pass \in {"count", "share"}
  BY <1>1 DEF IInv, Threads
<1>3. si' \in Folders /\ spc' \in {"count", "share", "size"}
  BY <1>1, <1>2, ContinueThreads
<1>4. /\ list' \in [Folders -> Seq(Entry)]
      /\ \A j \in Folders : FilesIn(list'[j]) = IF j = si THEN FilesIn(list[si]) \ {victim} ELSE FilesIn(list[j])
  <2>1. PICK l \in Without(list[si], {victim}) : list' = [list EXCEPT ![si] = l]
    BY DEF DropEntry
  <2> QED
    BY <1>2, <2>1, ListShrinks
<1>5. /\ Present' = Present /\ Due' \subseteq Due
      /\ \A x : Queued(x)' = Queued(x)
      /\ \A g : Trails(g)' = Trails(g)
      /\ \A pcs : InHand(pcs)' = InHand(pcs)
  BY <1>1 DEF Present, Due, Queued, Trails, InHand
<1>6. Device' /\ Kept
  BY <1>1, <1>3, <1>5 DEF IInv, Device, Kept, Present
<1>7. Lists'
  BY <1>1, <1>4 DEF IInv, Lists
<1>8. Threads' /\ Coming'
  BY <1>1, <1>2, <1>3, <1>5 DEF IInv, Threads, Coming, Listing, Scanning
<1>9. Closed'
  BY <1>1, <1>3, <1>4, <1>5 DEF IInv, Closed, Listing
<1>10. Follows'
  BY <1>1, <1>5 DEF IInv, Follows
<1>11. ListedIsReal'
  BY <1>1, <1>4, <1>5 DEF IInv, ListedIsReal
<1>12. AllListed'
  <2>1. SUFFICES ASSUME NEW f \in Present \ opened, disk[f].ok
                 PROVE  f \in FilesIn(list'[FolderOf[f]]) \cup Queued("in") \cup InHand({"check", "add"})
                               \cup missed \cup dropped'
    BY <1>1, <1>5 DEF AllListed
  <2>2. FolderOf[f] \in Folders /\ disk[f] # Absent
    BY StorageAssumption DEF Present
  <2>3. f \in FilesIn(list[FolderOf[f]]) \cup Queued("in") \cup InHand({"check", "add"}) \cup missed \cup dropped
    BY <2>1 DEF IInv, AllListed
  <2>4. f = victim => f \in dropped'
    BY <1>1, <2>2
  <2>5. dropped \subseteq dropped'
    BY <1>1
  <2> QED
    BY <1>4, <2>2, <2>3, <2>4, <2>5
<1> QED
  BY <1>6, <1>7, <1>8, <1>9, <1>10, <1>11, <1>12 DEF IInv

LEMMA RepairInv ==
  ASSUME IInv, Repair
  PROVE  IInv' /\ Kept
<1> DEFINE gone == Repaired(list[si])
<1>1. /\ spc = "repair"
      /\ UNCHANGED <<pass, victim, opened, known, events, mpc, mfile, mtime, missed, dropped>>
      /\ disk' = [f \in Files |-> IF f \in gone THEN Absent ELSE disk[f]]
  BY DEF Repair, monVars
<1>2. /\ si \in Folders /\ Lists /\ Threads /\ opened = {} /\ mpc = "none"
      /\ disk \in [Files -> Status \cup {Absent}]
  BY <1>1 DEF IInv, Threads, Device
<1>3. si' \in Folders /\ spc' \in {"repair", "mounted"}
  <2>1. si \in 1 .. NumFolders /\ NumFolders \in Nat \ {0}
    BY <1>2, StorageAssumption DEF Folders
  <2>2. IF si < NumFolders THEN si' = si + 1 /\ spc' = spc ELSE si' = 1 /\ spc' = "mounted"
    BY DEF Repair
  <2> QED
    BY <1>1, <2>1, <2>2 DEF Folders
<1>4. /\ list' \in [Folders -> Seq(Entry)]
      /\ \A j \in Folders : FilesIn(list'[j]) = IF j = si THEN FilesIn(list[si]) \ gone ELSE FilesIn(list[j])
  <2>1. PICK l \in Without(list[si], gone) : list' = [list EXCEPT ![si] = l]
    BY DEF Repair
  <2> QED
    BY <1>2, <2>1, ListShrinks
<1>5. \A f \in gone : FolderOf[f] = si
  BY <1>2, RepairsListed DEF Lists
<1> HIDE DEF gone
<1>6. /\ Present' = Present \ gone /\ Due' \subseteq Due
      /\ \A x : Queued(x)' = Queued(x)
      /\ \A g : Trails(g)' = Trails(g)
      /\ \A pcs : InHand(pcs)' = InHand(pcs)
  <2>1. Present' = Present \ gone
    BY <1>1, <1>2 DEF Present
  <2>2. \A f \in Files \ gone : disk'[f] = disk[f]
    BY <1>1, <1>2
  <2>3. Due' \subseteq Due
    BY <1>1, <2>1, <2>2 DEF Due, Present
  <2> QED
    BY <1>1, <2>1, <2>3 DEF Queued, Trails, InHand
<1>7. Device' /\ Kept
  BY <1>1, <1>2, <1>3 DEF Device, Kept, Present
<1>8. Lists'
  BY <1>1, <1>4 DEF IInv, Lists
<1>9. Threads' /\ Coming'
  BY <1>1, <1>2, <1>3, <1>6 DEF IInv, Threads, Coming, Listing, Scanning
<1>10. Closed'
  BY <1>1, <1>3, <1>4, <1>6 DEF IInv, Closed, Listing
<1>11. Follows'
  BY <1>1, <1>6 DEF IInv, Follows
<1>12. ListedIsReal'
  <2>1. SUFFICES ASSUME NEW j \in Folders, NEW f \in FilesIn(list'[j])
                 PROVE  f \in (Present \ gone) \cup Queued("out") \cup InHand({"del"}) \cup missed
    BY <1>1, <1>6 DEF ListedIsReal
  <2>2. f \in FilesIn(list[j]) /\ FolderOf[f] = j /\ (j = si => f \notin gone)
    BY <1>2, <1>4, <2>1 DEF Lists
  <2>3. f \notin gone
    BY <1>5, <2>2
  <2> QED
    BY <2>2, <2>3 DEF IInv, ListedIsReal
<1>13. AllListed'
  <2>1. SUFFICES ASSUME NEW f \in Present \ gone, f \notin opened, disk'[f].ok
                 PROVE  f \in FilesIn(list'[FolderOf[f]]) \cup Queued("in") \cup InHand({"check", "add"})
                               \cup missed \cup dropped
    BY <1>1, <1>6 DEF AllListed
  <2>2. FolderOf[f] \in Folders /\ disk'[f] = disk[f]
    BY <1>1, <2>1, StorageAssumption DEF Present
  <2>3. f \in FilesIn(list[FolderOf[f]]) \cup Queued("in") \cup InHand({"check", "add"}) \cup missed \cup dropped
    BY <2>1, <2>2 DEF IInv, AllListed
  <2> QED
    BY <1>4, <2>1, <2>2, <2>3
<1> QED
  BY <1>7, <1>8, <1>9, <1>10, <1>11, <1>12, <1>13 DEF IInv

-----------------------------------------------------------------------------
(* The invariant and the properties                                        *)

LEMMA InitInv == Init => IInv
<1> SUFFICES ASSUME Init PROVE IInv
  OBVIOUS
<1>1. /\ disk \in [Files -> Status \cup {Absent}] /\ opened = {} /\ known = Present
      /\ events = <<>> /\ mpc = "none" /\ spc = "repair" /\ si = 1 /\ pass = "count"
      /\ \A k \in Folders : list[k] \in FirstLists(k)
      /\ \E S : list \in [Folders -> S]
  BY DEF Init
<1>2. 1 \in Folders
  BY StorageAssumption DEF Folders
<1>3. \A k \in Folders : list[k] \in Seq(Entry) /\ FilesIn(list[k]) = {f \in Present : FolderOf[f] = k}
  BY <1>1, FirstList
<1>4. DOMAIN events = {}
  BY <1>1
<1>5. Device /\ Lists
  BY <1>1, <1>3 DEF Device, Lists
<1>6. Threads
  BY <1>1, <1>2 DEF Threads, Listing
<1>7. Closed /\ Coming
  BY <1>1, <1>3, <1>4 DEF Closed, Coming, Listing, Queued
<1>8. Follows
  BY <1>1, <1>4 DEF Follows, Trails
<1>9. ListedIsReal
  BY <1>3 DEF ListedIsReal
<1>10. AllListed
  <2>1. \A f \in Present : FolderOf[f] \in Folders
    BY StorageAssumption DEF Present
  <2> QED
    BY <1>3, <2>1 DEF AllListed
<1> QED
  BY <1>5, <1>6, <1>7, <1>8, <1>9, <1>10 DEF IInv

LEMMA NextInv == IInv /\ [Next]_vars => IInv' /\ [Kept]_vars
<1> SUFFICES ASSUME IInv, [Next]_vars PROVE IInv' /\ [Kept]_vars
  OBVIOUS
<1>1. CASE Scan
  BY <1>1, RepairInv, BookkeepingInv, RemoveInv, DropInv DEF Scan
<1>2. CASE Monitor
  BY <1>2, BookkeepingInv, TakesInv, CheckInv, AddInv, DelInv DEF Monitor
<1>3. CASE App
  BY <1>3, CreateInv, OpenInv, CloseInv, DeleteInv DEF App
<1>4. CASE UNCHANGED vars
  <2>1. /\ UNCHANGED <<disk, opened, known, events, mpc, mfile, mtime, spc, si, pass, victim, list>>
        /\ UNCHANGED <<missed, dropped>>
    BY <1>4 DEF vars, diskVars, monVars, scanVars, listVars, history
  <2>2. Device' /\ Lists' /\ Threads' /\ Closed' /\ Coming'
    BY <2>1 DEF IInv, Device, Lists, Threads, Closed, Coming, Present, Queued, Listing, FilesIn
  <2>3. Follows' /\ ListedIsReal' /\ AllListed'
    BY <2>1 DEF IInv, Follows, Due, Trails, ListedIsReal, AllListed, Present, Queued, InHand, FilesIn
  <2> QED
    BY <1>4, <2>2, <2>3 DEF IInv
<1> QED
  BY <1>1, <1>2, <1>3, <1>4 DEF Next

\* What the lists, the queue and the threads promise each other, in every
\* state of the scan thread, the monitor and the application.
THEOREM Invariance == Spec => []IInv
<1> QED
  BY InitInv, NextInv, PTL DEF Spec

\* RKADK_STORAGE_FileMonitorThread: no folder's list names a file that is gone,
\* unless its deletion is on its way or was before the folder was watched.
THEOREM ListsAreReal == Spec => []ListedIsReal
<1>1. IInv => ListedIsReal
  BY DEF IInv
<1> QED
  BY <1>1, Invariance, PTL

\* RKADK_STORAGE_FileMonitorThread: every complete file is listed, though events
\* are handled late and its name may have been deleted and created again.
THEOREM ListsAreComplete == Spec => []AllListed
<1>1. IInv => AllListed
  BY DEF IInv
<1> QED
  BY <1>1, Invariance, PTL

\* RKADK_STORAGE_FileScanThread removes no file that is recorded under a name
\* of its own, from whatever list it chooses.
THEOREM RecordingsAreKept == Spec => RecordingKept
<1>1. IInv /\ [Next]_vars => [\A f \in opened \ known : disk'[f] # Absent]_vars
  BY NextInv DEF Kept
<1> QED
  BY <1>1, Invariance, PTL DEF Spec, RecordingKept

-----------------------------------------------------------------------------
(* StorageDevice, where the windows of Slow are excluded: at most one scan  *)
(* thread is alive, it is the one the handle remembers, and the folders are *)
(* its own, for any number of pluggings, formattings and scan threads.     *)

Alive(n) == scan[n] \notin Dead

ScanPlaces == {"none", "start", "fsck", "check", "test", "set", "loop", "free", "ended"}

Shapes ==
  /\ uevents \in Seq({"add", "remove"}) /\ msgs \in Seq({"add", "remove"})
  /\ DOMAIN pc = Callers /\ DOMAIN joins = Callers
  /\ scan \in [Scans -> ScanPlaces]

\* An "add" is the first thing that is to be handled: a device is plugged
\* only when the removal of the last one was.
AddIsFirst ==
  /\ \A i \in 1 .. Len(uevents) : uevents[i] = "add" =>
       i = 1 /\ msgs = <<>> /\ pc["msg"] \in {"test", "wait", "ended"}
  /\ \A i \in 1 .. Len(msgs) : msgs[i] = "add" => i = 1 /\ pc["msg"] \in {"test", "wait", "ended"}

AddComing ==
  \/ \E i \in 1 .. Len(uevents) : uevents[i] = "add"
  \/ \E i \in 1 .. Len(msgs) : msgs[i] = "add"
  \/ pc["msg"] \in {"add", "create"}

Rebuilding == pc["app"] \in {"format", "add", "create"}
Formatting == Rebuilding \/ pc["app"] \in {"remove", "report", "join"}

\* At most one scan thread is alive, the one the handle remembers.
OneScan ==
  /\ \A n \in Scans : Alive(n) => fileScanTid = n
  /\ \A c \in Callers : pc[c] = "join" => joins[c] = fileScanTid

\* A device that is added finds no scan thread and no formatting.
NoScanAtAdd == AddComing => AllDead /\ ~Formatting

\* Formatting finds nothing to be handled and waits for the scan thread.
FormatsCalmly ==
  /\ Rebuilding => AllDead
  /\ Formatting => Handled /\ \A n \in Scans : scan[n] \in Dead \cup {"loop", "free"}

\* Before RKADK_STORAGE_Init has started the listener nothing is heard.
NewIsEmpty ==
  /\ pc["app"] \in {"new", "listen"} => /\ pc["msg"] = "none" /\ listener = "none"
                                       /\ uevents = <<>> /\ msgs = <<>>
  /\ pc["app"] = "new" => AllDead /\ (mounted <=> Good)

\* What the formatting tests says that no scan thread is left.
StatusOfScan ==
  \A n \in Scans :
    /\ scan[n] = "loop" => status \in {"mounted", "unmounted"}
    /\ scan[n] \in {"test", "set", "loop"} => pathKnown
    /\ scan[n] \in {"start", "fsck", "check"} => pathKnown \/ ~Good
    /\ Alive(n) /\ Formatting => pathKnown

\* Only a module that is being deinitialised was told to quit.
QuitLast == quit => pc["app"] \in {"deinit msg", "deinit scan", "deinit join", "done"}

CreatesKnown == \A c \in Callers : pc[c] = "create" => pathKnown

DevIInv ==
  /\ Shapes /\ AddIsFirst
  /\ OneScan /\ FoldersAlive /\ NoScanAtAdd /\ FormatsCalmly
  /\ NewIsEmpty /\ StatusOfScan /\ QuitLast /\ CreatesKnown

\* A thread created when none is alive is the only one, and the handle's.
LEMMA NewScanIsAlone ==
  ASSUME Shapes, AllDead, NewScan
  PROVE  /\ scan' \in [Scans -> ScanPlaces]
         /\ \A n \in Scans : scan'[n] \in Dead \/ (scan'[n] = "start" /\ fileScanTid' = n)
BY DEF Shapes, AllDead, NewScan, ScanPlaces, Dead

LEMMA NothingComes ==
  ASSUME uevents' = <<>>, msgs' = <<>>, pc'["msg"] \notin {"add", "create"}
  PROVE  ~AddComing'
BY DEF AddComing

-----------------------------------------------------------------------------
(* The device, the listener and the message thread                        *)

LEMMA PlugKeeps ==
  ASSUME Slow, DevIInv, Plug
  PROVE  DevIInv'
<1> USE DEF Plug, CalmToPlug, Hear, callers, state, threads, Callers
<1>1. Shapes'
  BY DEF DevIInv, Shapes
<1>2. AddIsFirst'
  BY DEF DevIInv, AddIsFirst, NewIsEmpty, Handled
<1>3. NoScanAtAdd'
  BY DEF DevIInv, NoScanAtAdd, Formatting, Rebuilding, AllDead
<1>4. FormatsCalmly'
  BY DEF DevIInv, FormatsCalmly, Formatting, Rebuilding
<1>5. NewIsEmpty'
  BY DEF DevIInv, NewIsEmpty
<1>6. StatusOfScan'
  BY DEF DevIInv, StatusOfScan, Alive, Dead, AllDead
<1>7. OneScan' /\ FoldersAlive' /\ QuitLast' /\ CreatesKnown'
  BY DEF DevIInv, OneScan, FoldersAlive, QuitLast, CreatesKnown, Alive
<1> QED
  BY <1>1, <1>2, <1>3, <1>4, <1>5, <1>6, <1>7 DEF DevIInv

LEMMA UnplugKeeps ==
  ASSUME Slow, DevIInv, Unplug
  PROVE  DevIInv'
<1> USE DEF Unplug, CalmToUnplug, Hear, callers, state, bounds, Callers
<1>1. Shapes'
  BY DEF DevIInv, Shapes
<1>2. AddIsFirst'
  BY DEF DevIInv, AddIsFirst
<1>3. NoScanAtAdd'
  BY DEF DevIInv, NoScanAtAdd, AddComing, Formatting, Rebuilding, AllDead
<1>4. FormatsCalmly'
  BY DEF DevIInv, FormatsCalmly, Formatting, Rebuilding
<1>5. NewIsEmpty'
  BY DEF DevIInv, NewIsEmpty
<1>6. StatusOfScan'
  BY DEF DevIInv, StatusOfScan, Formatting, Rebuilding, Good
<1>7. OneScan' /\ FoldersAlive' /\ QuitLast' /\ CreatesKnown'
  BY DEF DevIInv, OneScan, FoldersAlive, QuitLast, CreatesKnown, Alive
<1> QED
  BY <1>1, <1>2, <1>3, <1>4, <1>5, <1>6, <1>7 DEF DevIInv

LEMMA ListenerBindsKeeps ==
  ASSUME Slow, DevIInv, ListenerBinds
  PROVE  DevIInv'
<1> USE DEF ListenerBinds, device, callers, state, threads, bounds, Callers
<1>1. Shapes' /\ AddIsFirst' /\ OneScan' /\ FoldersAlive' /\ NoScanAtAdd' /\ FormatsCalmly' /\ NewIsEmpty' /\ StatusOfScan' /\ QuitLast' /\ CreatesKnown'
  BY DEF DevIInv, Shapes, AddIsFirst, OneScan, FoldersAlive, NoScanAtAdd, FormatsCalmly,
    NewIsEmpty, StatusOfScan, QuitLast, CreatesKnown, Alive, AddComing, AllDead,
    Formatting, Rebuilding, Handled, Good
<1> QED
  BY <1>1 DEF DevIInv

LEMMA ListenKeeps ==
  ASSUME Slow, DevIInv, Listen
  PROVE  DevIInv'
<1> USE DEF Listen, Put, device, callers, state, threads, bounds, Callers
<1>1. Shapes'
  BY DEF DevIInv, Shapes
<1>2. AddIsFirst'
  BY DEF DevIInv, AddIsFirst
<1>3. NoScanAtAdd'
  BY DEF DevIInv, NoScanAtAdd, AddComing, Formatting, Rebuilding, AllDead
<1>4. FormatsCalmly'
  BY DEF DevIInv, FormatsCalmly, Formatting, Rebuilding, Handled
<1>5. NewIsEmpty'
  BY DEF DevIInv, NewIsEmpty
<1>6. OneScan' /\ FoldersAlive' /\ StatusOfScan' /\ QuitLast' /\ CreatesKnown'
  BY DEF DevIInv, OneScan, FoldersAlive, StatusOfScan, QuitLast, CreatesKnown, Alive, Good,
    Formatting, Rebuilding
<1> QED
  BY <1>1, <1>2, <1>3, <1>4, <1>5, <1>6 DEF DevIInv

LEMMA ListenerEndsKeeps ==
  ASSUME Slow, DevIInv, ListenerEnds
  PROVE  DevIInv'
<1> USE DEF ListenerEnds, device, callers, state, threads, bounds, Callers
<1>1. Shapes' /\ AddIsFirst' /\ OneScan' /\ FoldersAlive' /\ NoScanAtAdd' /\ FormatsCalmly' /\ NewIsEmpty' /\ StatusOfScan' /\ QuitLast' /\ CreatesKnown'
  BY DEF DevIInv, Shapes, AddIsFirst, OneScan, FoldersAlive, NoScanAtAdd, FormatsCalmly,
    NewIsEmpty, StatusOfScan, QuitLast, CreatesKnown, Alive, AddComing, AllDead,
    Formatting, Rebuilding, Handled, Good
<1> QED
  BY <1>1 DEF DevIInv

LEMMA TestQuitKeeps ==
  ASSUME Slow, DevIInv, TestQuit
  PROVE  DevIInv'
<1> USE DEF TestQuit, Goto, device, inbox, state, threads, bounds, Callers
<1>1. Shapes'
  BY DEF DevIInv, Shapes
<1>2. AddIsFirst'
  BY DEF DevIInv, AddIsFirst
<1>3. OneScan'
  BY DEF DevIInv, OneScan, Alive
<1>4. NoScanAtAdd'
  BY DEF DevIInv, NoScanAtAdd, AddComing, Formatting, Rebuilding, AllDead
<1>5. FormatsCalmly'
  BY DEF DevIInv, FormatsCalmly, QuitLast, Formatting, Rebuilding, AllDead, Handled, Shapes
<1>6. NewIsEmpty'
  BY DEF DevIInv, NewIsEmpty
<1>7. StatusOfScan'
  BY DEF DevIInv, StatusOfScan, Alive, Formatting, Rebuilding, Good
<1>8. QuitLast'
  BY DEF DevIInv, QuitLast, Shapes
<1>9. CreatesKnown'
  BY DEF DevIInv, CreatesKnown
<1>10. FoldersAlive'
  BY DEF DevIInv, FoldersAlive
<1> QED
  BY <1>1, <1>2, <1>3, <1>4, <1>5, <1>6, <1>7, <1>8, <1>9, <1>10 DEF DevIInv

LEMMA ReceiveKeeps ==
  ASSUME Slow, DevIInv, Receive
  PROVE  DevIInv'
<1> USE DEF device, state, threads, bounds, Callers
<1>1. \/ msgs # <<>> /\ msgs' = Tail(msgs) /\ Goto("msg", Head(msgs))
      \/ msgs' = msgs /\ Goto("msg", "test")
  BY DEF Receive
<1>2. DOMAIN pc' = Callers /\ pc'["app"] = pc["app"] /\ pc["msg"] = "wait"
  BY DEF DevIInv, Shapes, Receive, Goto
<1>3. \/ pc'["msg"] = "test" /\ msgs' = msgs
      \/ msgs # <<>> /\ pc'["msg"] = Head(msgs) /\ msgs' = Tail(msgs)
  BY <1>1 DEF DevIInv, Shapes, Goto
<1>4. ASSUME msgs # <<>>
      PROVE  /\ Head(msgs) = msgs[1] /\ msgs[1] \in {"add", "remove"}
             /\ Tail(msgs) \in Seq({"add", "remove"}) /\ Len(Tail(msgs)) = Len(msgs) - 1
             /\ \A i \in 1 .. Len(Tail(msgs)) : Tail(msgs)[i] = msgs[i + 1]
  BY <1>4 DEF DevIInv, Shapes
<1>5. UNCHANGED <<device, uevents, quit, joins, state, pathKnown, threads>>
  BY DEF Receive
<1>6. \A i \in 1 .. Len(msgs') : msgs'[i] = "add" => msgs' = msgs
  <2> SUFFICES ASSUME NEW i \in 1 .. Len(msgs'), msgs'[i] = "add", msgs # <<>>, msgs' = Tail(msgs)
               PROVE  FALSE
    BY <1>3
  <2>1. i + 1 \in 1 .. Len(msgs) /\ msgs[i + 1] = "add" /\ i + 1 # 1
    BY <1>4 DEF DevIInv, Shapes
  <2> QED
    BY <2>1 DEF DevIInv, AddIsFirst
<1>7. AddComing' => AddComing
  BY <1>3, <1>4, <1>5, <1>6 DEF DevIInv, AddComing, Shapes
<1>8. Shapes'
  BY <1>2, <1>3, <1>4, <1>5 DEF DevIInv, Shapes
<1>9. AddIsFirst'
  BY <1>2, <1>3, <1>5, <1>6 DEF DevIInv, AddIsFirst
<1>10. OneScan'
  BY <1>2, <1>3, <1>4, <1>5 DEF DevIInv, OneScan, Alive
<1>11. NoScanAtAdd'
  BY <1>2, <1>5, <1>7 DEF DevIInv, NoScanAtAdd, Formatting, Rebuilding, AllDead
<1>12. FormatsCalmly'
  BY <1>2, <1>3, <1>5 DEF DevIInv, FormatsCalmly, Formatting, Rebuilding, AllDead, Handled
<1>13. NewIsEmpty'
  BY <1>2 DEF DevIInv, NewIsEmpty
<1>14. StatusOfScan'
  BY <1>2, <1>5 DEF DevIInv, StatusOfScan, Alive, Formatting, Rebuilding, Good
<1>15. QuitLast'
  BY <1>2, <1>5 DEF DevIInv, QuitLast
<1>16. CreatesKnown'
  BY <1>2, <1>3, <1>4, <1>5 DEF DevIInv, CreatesKnown
<1>17. FoldersAlive'
  BY <1>5 DEF DevIInv, FoldersAlive
<1> QED
  BY <1>8, <1>9, <1>10, <1>11, <1>12, <1>13, <1>14, <1>15, <1>16, <1>17 DEF DevIInv

-----------------------------------------------------------------------------
(* DevAdd and DevRemove                                                    *)

LEMMA DevAddKeeps ==
  ASSUME Slow, DevIInv, NEW c \in Callers, DevAdd(c)
  PROVE  DevIInv'
<1> USE DEF DevAdd, Goto, AfterAdd, device, inbox, threads, bounds, Callers
<1>1. Shapes'
  BY DEF DevIInv, Shapes
<1>2. AddIsFirst'
  BY DEF DevIInv, AddIsFirst, Shapes
<1>3. OneScan'
  BY DEF DevIInv, OneScan, Alive, Shapes
<1>4. NoScanAtAdd'
  BY DEF DevIInv, NoScanAtAdd, AddComing, Formatting, Rebuilding, AllDead, Shapes
<1>5. FormatsCalmly'
  BY DEF DevIInv, FormatsCalmly, Formatting, Rebuilding, AllDead, Handled, Shapes
<1>6. NewIsEmpty'
  BY DEF DevIInv, NewIsEmpty, Shapes
<1>7. StatusOfScan'
  BY DEF DevIInv, StatusOfScan, Alive, Rebuilding, Dead, AllDead, NoScanAtAdd, AddComing,
    FormatsCalmly
<1>8. QuitLast'
  BY DEF DevIInv, QuitLast, Shapes
<1>9. CreatesKnown'
  BY DEF DevIInv, CreatesKnown, Shapes
<1>10. FoldersAlive'
  BY DEF DevIInv, FoldersAlive
<1> QED
  BY <1>1, <1>2, <1>3, <1>4, <1>5, <1>6, <1>7, <1>8, <1>9, <1>10 DEF DevIInv

LEMMA DevAddScanKeeps ==
  ASSUME Slow, DevIInv, NEW c \in Callers, DevAddScan(c)
  PROVE  DevIInv'
<1> USE DEF DevAddScan, Goto, AfterAdd, CanScan, device, inbox, state, bounds, Callers
<1>1. AllDead
  BY DEF DevIInv, NoScanAtAdd, AddComing, FormatsCalmly, Rebuilding
<1>2. Shapes /\ NewScan
  BY DEF DevIInv
<1>3. /\ scan' \in [Scans -> ScanPlaces]
      /\ \A n \in Scans : scan'[n] \in Dead \/ (scan'[n] = "start" /\ fileScanTid' = n)
  BY <1>1, <1>2, NewScanIsAlone
<1>4. ~AddComing' /\ \A d \in Callers : pc'[d] # "join"
  BY DEF DevIInv, Shapes, AddIsFirst, NoScanAtAdd, AddComing, FormatsCalmly, Formatting,
         Rebuilding, Handled
<1>5. pathKnown /\ ~Formatting'
  BY DEF DevIInv, Shapes, CreatesKnown, NoScanAtAdd, AddComing, Formatting, Rebuilding
<1>6. Shapes'
  BY <1>3 DEF DevIInv, Shapes
<1>7. AddIsFirst'
  BY DEF DevIInv, AddIsFirst
<1>8. OneScan'
  BY <1>3, <1>4 DEF OneScan, Alive
<1>9. FoldersAlive'
  BY <1>3 DEF DevIInv, FoldersAlive
<1>10. NoScanAtAdd'
  BY <1>4 DEF NoScanAtAdd
<1>11. FormatsCalmly'
  BY <1>5 DEF DevIInv, FormatsCalmly, Formatting
<1>12. NewIsEmpty'
  BY DEF DevIInv, NewIsEmpty
<1>13. StatusOfScan'
  BY <1>3, <1>5 DEF StatusOfScan, Dead
<1>14. QuitLast'
  BY DEF DevIInv, QuitLast, Shapes
<1>15. CreatesKnown'
  BY DEF DevIInv, CreatesKnown
<1> QED
  BY <1>6, <1>7, <1>8, <1>9, <1>10, <1>11, <1>12, <1>13, <1>14, <1>15 DEF DevIInv

LEMMA DevRemoveKeeps ==
  ASSUME Slow, DevIInv, NEW c \in Callers, DevRemove(c)
  PROVE  DevIInv'
<1> USE DEF DevRemove, Goto, AfterRemove, CalmToUnmount, NoneSets, device, inbox,
      threads, bounds, Callers
<1>1. ~pathKnown /\ pc["app"] = "remove" => AllDead
  BY DEF DevIInv, StatusOfScan, Formatting, AllDead, Alive
<1>2. Shapes'
  BY DEF DevIInv, Shapes
<1>3. AddIsFirst'
  BY DEF DevIInv, AddIsFirst
<1>4. OneScan'
  BY DEF DevIInv, OneScan, Alive
<1>5. NoScanAtAdd'
  BY DEF DevIInv, NoScanAtAdd, AddComing, Formatting, Rebuilding, AllDead
<1>6. FormatsCalmly'
  BY <1>1 DEF DevIInv, FormatsCalmly, Formatting, Rebuilding, AllDead, Handled, Shapes
<1>7. NewIsEmpty'
  BY DEF DevIInv, NewIsEmpty
<1>8. StatusOfScan'
  BY DEF DevIInv, StatusOfScan, Alive, Formatting, Rebuilding, Good
<1>9. QuitLast'
  BY DEF DevIInv, QuitLast, Shapes
<1>10. CreatesKnown'
  BY DEF DevIInv, CreatesKnown
<1>11. FoldersAlive'
  BY DEF DevIInv, FoldersAlive
<1> QED
  BY <1>2, <1>3, <1>4, <1>5, <1>6, <1>7, <1>8, <1>9, <1>10, <1>11 DEF DevIInv

LEMMA DevRemoveReportKeeps ==
  ASSUME Slow, DevIInv, NEW c \in Callers, DevRemoveReport(c)
  PROVE  DevIInv'
<1> USE DEF DevRemoveReport, Goto, device, inbox, bounds, Callers
<1>1. Shapes'
  BY DEF DevIInv, Shapes
<1>2. AddIsFirst'
  BY DEF DevIInv, AddIsFirst
<1>3. OneScan'
  BY DEF DevIInv, OneScan, Alive, Shapes
<1>4. NoScanAtAdd'
  BY DEF DevIInv, NoScanAtAdd, AddComing, Formatting, Rebuilding, AllDead
<1>5. FormatsCalmly'
  BY DEF DevIInv, FormatsCalmly, Formatting, Rebuilding, Handled, Shapes
<1>6. NewIsEmpty'
  BY DEF DevIInv, NewIsEmpty
<1>7. StatusOfScan'
  BY DEF DevIInv, StatusOfScan, Alive, Formatting, Rebuilding, Good
<1>8. QuitLast'
  BY DEF DevIInv, QuitLast, Shapes
<1>9. CreatesKnown'
  BY DEF DevIInv, CreatesKnown
<1>10. FoldersAlive'
  BY DEF DevIInv, FoldersAlive
<1> QED
  BY <1>1, <1>2, <1>3, <1>4, <1>5, <1>6, <1>7, <1>8, <1>9, <1>10 DEF DevIInv

LEMMA DevRemoveJoinKeeps ==
  ASSUME Slow, DevIInv, NEW c \in Callers, DevRemoveJoin(c)
  PROVE  DevIInv'
<1> USE DEF DevRemoveJoin, Goto, AfterRemove, Joinable, inbox, state, bounds, Callers
<1>1. AllDead
  BY DEF DevIInv, OneScan, Alive, Dead, AllDead
<1>2. \A d \in Callers : pc'[d] # "join"
  BY DEF DevIInv, Shapes, FormatsCalmly, Formatting, Handled
<1>3. Shapes'
  BY DEF DevIInv, Shapes
<1>4. AddIsFirst'
  BY DEF DevIInv, AddIsFirst
<1>5. OneScan'
  BY <1>1, <1>2 DEF OneScan, Alive, AllDead
<1>6. NoScanAtAdd'
  BY DEF DevIInv, NoScanAtAdd, AddComing, Formatting, Rebuilding, AllDead
<1>7. FormatsCalmly'
  BY <1>1 DEF DevIInv, FormatsCalmly, Formatting, Rebuilding, AllDead, Handled, Shapes
<1>8. NewIsEmpty'
  BY DEF DevIInv, NewIsEmpty
<1>9. StatusOfScan'
  BY DEF DevIInv, StatusOfScan, Alive, Formatting, Rebuilding, Good
<1>10. QuitLast'
  BY DEF DevIInv, QuitLast, Shapes
<1>11. CreatesKnown'
  BY DEF DevIInv, CreatesKnown
<1>12. FoldersAlive'
  BY DEF DevIInv, FoldersAlive
<1> QED
  BY <1>3, <1>4, <1>5, <1>6, <1>7, <1>8, <1>9, <1>10, <1>11, <1>12 DEF DevIInv

-----------------------------------------------------------------------------
(* The scan and monitor threads                                            *)

LEMMA ScanStartKeeps ==
  ASSUME Slow, DevIInv, NEW n \in Scans, ScanStart(n)
  PROVE  DevIInv'
<1> USE DEF ScanStart, AtScan, device, inbox, callers, state, bounds, Callers
<1>1. Shapes'
  BY DEF DevIInv, Shapes, ScanPlaces
<1>2. OneScan'
  BY DEF DevIInv, OneScan, Alive, Dead
<1>3. FoldersAlive'
  BY DEF DevIInv, FoldersAlive, Alive, OneScan, Dead
<1>4. NoScanAtAdd'
  BY DEF DevIInv, NoScanAtAdd, AddComing, AllDead, Dead
<1>5. FormatsCalmly'
  BY DEF DevIInv, FormatsCalmly, Formatting, Rebuilding, Dead
<1>6. NewIsEmpty'
  BY DEF DevIInv, NewIsEmpty, AllDead, Dead
<1>7. StatusOfScan'
  BY DEF DevIInv, StatusOfScan, Formatting, Rebuilding, Good, Dead, FormatsCalmly
<1>8. AddIsFirst' /\ QuitLast' /\ CreatesKnown'
  BY DEF DevIInv, AddIsFirst, QuitLast, CreatesKnown
<1> QED
  BY <1>1, <1>2, <1>3, <1>4, <1>5, <1>6, <1>7, <1>8 DEF DevIInv

LEMMA FsckBeginsKeeps ==
  ASSUME Slow, DevIInv, NEW n \in Scans, FsckBegins(n)
  PROVE  DevIInv'
<1> USE DEF FsckBegins, AtScan, inbox, callers, state, bounds, Callers
<1>1. Shapes'
  BY DEF DevIInv, Shapes, ScanPlaces
<1>2. OneScan'
  BY DEF DevIInv, OneScan, Alive, Dead
<1>3. FoldersAlive'
  BY DEF DevIInv, FoldersAlive, Dead
<1>4. NoScanAtAdd'
  BY DEF DevIInv, NoScanAtAdd, AddComing, AllDead, Dead
<1>5. FormatsCalmly'
  BY DEF DevIInv, FormatsCalmly, Formatting, Rebuilding, Dead
<1>6. NewIsEmpty'
  BY DEF DevIInv, NewIsEmpty, AllDead, Dead
<1>7. StatusOfScan'
  BY DEF DevIInv, StatusOfScan, Formatting, Rebuilding, Good, Dead, FormatsCalmly
<1>8. AddIsFirst' /\ QuitLast' /\ CreatesKnown'
  BY DEF DevIInv, AddIsFirst, QuitLast, CreatesKnown
<1> QED
  BY <1>1, <1>2, <1>3, <1>4, <1>5, <1>6, <1>7, <1>8 DEF DevIInv

LEMMA FsckEndsKeeps ==
  ASSUME Slow, DevIInv, NEW n \in Scans, FsckEnds(n)
  PROVE  DevIInv'
<1> USE DEF FsckEnds, AtScan, inbox, callers, state, bounds, Callers
<1>1. Shapes'
  BY DEF DevIInv, Shapes, ScanPlaces
<1>2. OneScan'
  BY DEF DevIInv, OneScan, Alive, Dead, Shapes
<1>3. FoldersAlive'
  BY DEF DevIInv, FoldersAlive, Dead, Shapes
<1>4. NoScanAtAdd'
  BY DEF DevIInv, NoScanAtAdd, AddComing, AllDead, Dead
<1>5. FormatsCalmly'
  BY DEF DevIInv, FormatsCalmly, Formatting, Rebuilding, Dead
<1>6. NewIsEmpty'
  BY DEF DevIInv, NewIsEmpty, AllDead, Dead
<1>7. StatusOfScan'
  BY DEF DevIInv, StatusOfScan, OneScan, Alive, Formatting, Rebuilding, Dead, Shapes
<1>8. AddIsFirst' /\ QuitLast' /\ CreatesKnown'
  BY DEF DevIInv, AddIsFirst, QuitLast, CreatesKnown
<1> QED
  BY <1>1, <1>2, <1>3, <1>4, <1>5, <1>6, <1>7, <1>8 DEF DevIInv

LEMMA TestMountedKeeps ==
  ASSUME Slow, DevIInv, NEW n \in Scans, TestMounted(n)
  PROVE  DevIInv'
<1> USE DEF TestMounted, AtScan, device, inbox, callers, state, bounds, Callers
<1>1. Shapes'
  BY DEF DevIInv, Shapes, ScanPlaces
<1>2. OneScan'
  BY DEF DevIInv, OneScan, Alive, Dead
<1>3. FoldersAlive'
  BY DEF DevIInv, FoldersAlive, Dead
<1>4. NoScanAtAdd'
  BY DEF DevIInv, NoScanAtAdd, AddComing, AllDead, Dead
<1>5. FormatsCalmly'
  BY DEF DevIInv, FormatsCalmly, Formatting, Rebuilding, Dead
<1>6. NewIsEmpty'
  BY DEF DevIInv, NewIsEmpty, AllDead, Dead
<1>7. StatusOfScan'
  BY DEF DevIInv, StatusOfScan
<1>8. AddIsFirst' /\ QuitLast' /\ CreatesKnown'
  BY DEF DevIInv, AddIsFirst, QuitLast, CreatesKnown
<1> QED
  BY <1>1, <1>2, <1>3, <1>4, <1>5, <1>6, <1>7, <1>8 DEF DevIInv

LEMMA SetMountedKeeps ==
  ASSUME Slow, DevIInv, NEW n \in Scans, SetMounted(n)
  PROVE  DevIInv'
<1> USE DEF SetMounted, AtScan, device, inbox, callers, bounds, Callers
<1>1. Shapes'
  BY DEF DevIInv, Shapes, ScanPlaces
<1>2. OneScan'
  BY DEF DevIInv, OneScan, Alive, Dead, Shapes
<1>3. FoldersAlive'
  BY DEF DevIInv, FoldersAlive, Dead, Shapes
<1>4. NoScanAtAdd'
  BY DEF DevIInv, NoScanAtAdd, AddComing, AllDead, Dead
<1>5. FormatsCalmly'
  BY DEF DevIInv, FormatsCalmly, Formatting, Rebuilding, Dead
<1>6. NewIsEmpty'
  BY DEF DevIInv, NewIsEmpty, AllDead, Dead
<1>7. StatusOfScan'
  BY DEF DevIInv, StatusOfScan
<1>8. AddIsFirst' /\ QuitLast' /\ CreatesKnown'
  BY DEF DevIInv, AddIsFirst, QuitLast, CreatesKnown
<1> QED
  BY <1>1, <1>2, <1>3, <1>4, <1>5, <1>6, <1>7, <1>8 DEF DevIInv

LEMMA ScanLoopEndsKeeps ==
  ASSUME Slow, DevIInv, NEW n \in Scans, ScanLoopEnds(n)
  PROVE  DevIInv'
<1> USE DEF ScanLoopEnds, AtScan, device, inbox, callers, state, bounds, Callers
<1>1. Shapes'
  BY DEF DevIInv, Shapes, ScanPlaces
<1>2. OneScan'
  BY DEF DevIInv, OneScan, Alive, Dead
<1>3. FoldersAlive'
  BY DEF DevIInv, FoldersAlive, Dead
<1>4. NoScanAtAdd'
  BY DEF DevIInv, NoScanAtAdd, AddComing, AllDead, Dead
<1>5. FormatsCalmly'
  BY DEF DevIInv, FormatsCalmly, Formatting, Rebuilding, AllDead, Handled, Dead, Shapes
<1>6. NewIsEmpty'
  BY DEF DevIInv, NewIsEmpty, AllDead, Dead
<1>7. StatusOfScan'
  BY DEF DevIInv, StatusOfScan
<1>8. AddIsFirst' /\ QuitLast' /\ CreatesKnown'
  BY DEF DevIInv, AddIsFirst, QuitLast, CreatesKnown
<1> QED
  BY <1>1, <1>2, <1>3, <1>4, <1>5, <1>6, <1>7, <1>8 DEF DevIInv

LEMMA ScanFreeKeeps ==
  ASSUME Slow, DevIInv, NEW n \in Scans, ScanFree(n)
  PROVE  DevIInv'
<1> USE DEF ScanFree, AtScan, device, inbox, callers, state, bounds, Callers
<1>1. Shapes'
  BY DEF DevIInv, Shapes, ScanPlaces
<1>2. OneScan'
  BY DEF DevIInv, OneScan, Alive, Dead
<1>3. FoldersAlive'
  BY DEF DevIInv, FoldersAlive, Dead, Shapes
<1>4. NoScanAtAdd'
  BY DEF DevIInv, NoScanAtAdd, AddComing, AllDead, Dead
<1>5. FormatsCalmly'
  BY DEF DevIInv, FormatsCalmly, Formatting, Rebuilding, AllDead, Handled, Dead, Shapes
<1>6. NewIsEmpty'
  BY DEF DevIInv, NewIsEmpty, AllDead, Dead
<1>7. StatusOfScan'
  BY DEF DevIInv, StatusOfScan, Alive, Formatting, Rebuilding, Good, Dead
<1>8. AddIsFirst' /\ QuitLast' /\ CreatesKnown'
  BY DEF DevIInv, AddIsFirst, QuitLast, CreatesKnown
<1> QED
  BY <1>1, <1>2, <1>3, <1>4, <1>5, <1>6, <1>7, <1>8 DEF DevIInv

LEMMA MonitorUnmountKeeps ==
  ASSUME Slow, DevIInv, NEW n \in Scans, MonitorUnmount(n)
  PROVE  DevIInv'
<1> USE DEF MonitorUnmount, device, inbox, callers, bounds, Callers
<1>1. StatusOfScan'
  BY DEF DevIInv, StatusOfScan, Alive, Formatting, Rebuilding, Good
<1>2. Shapes' /\ AddIsFirst' /\ OneScan' /\ FoldersAlive' /\ NoScanAtAdd' /\ FormatsCalmly' /\ NewIsEmpty' /\ QuitLast' /\ CreatesKnown'
  BY DEF DevIInv, Shapes, AddIsFirst, OneScan, FoldersAlive, NoScanAtAdd, FormatsCalmly,
    NewIsEmpty, QuitLast, CreatesKnown, Alive, AddComing, AllDead, Formatting, Rebuilding,
    Handled, Good
<1> QED
  BY <1>1, <1>2 DEF DevIInv

LEMMA MonitorEndsKeeps ==
  ASSUME Slow, DevIInv, NEW n \in Scans, MonitorEnds(n)
  PROVE  DevIInv'
<1> USE DEF MonitorEnds, device, inbox, callers, state, bounds, Callers
<1>1. Shapes' /\ AddIsFirst' /\ OneScan' /\ FoldersAlive' /\ NoScanAtAdd' /\ FormatsCalmly' /\ NewIsEmpty' /\ StatusOfScan' /\ QuitLast' /\ CreatesKnown'
  BY DEF DevIInv, Shapes, AddIsFirst, OneScan, FoldersAlive, NoScanAtAdd, FormatsCalmly,
    NewIsEmpty, StatusOfScan, QuitLast, CreatesKnown, Alive, AddComing, AllDead,
    Formatting, Rebuilding, Handled, Good
<1> QED
  BY <1>1 DEF DevIInv

-----------------------------------------------------------------------------
(* The application                                                         *)

LEMMA StorageLooksKeeps ==
  ASSUME Slow, DevIInv, StorageLooks
  PROVE  DevIInv'
<1> USE DEF StorageLooks, Goto, device, inbox, bounds, Callers
<1>1. AllDead /\ uevents = <<>> /\ msgs = <<>> /\ (mounted <=> Good) /\ pc["msg"] = "none"
  BY DEF DevIInv, NewIsEmpty
<1>2. Shapes
  BY DEF DevIInv
<1>3. /\ scan' \in [Scans -> ScanPlaces]
      /\ \A n \in Scans : scan'[n] \in Dead \/ (scan'[n] = "start" /\ fileScanTid' = n)
  BY <1>1, <1>2, NewScanIsAlone DEF Shapes, AllDead
<1>4. pc'["app"] = "listen" /\ pc'["msg"] = "none" /\ DOMAIN pc' = Callers
  BY <1>1, <1>2 DEF Shapes
<1>5. uevents' = <<>> /\ msgs' = <<>>
  BY <1>1
<1>6. ~AddComing'
  BY <1>4, <1>5, NothingComes
<1>7. Shapes'
  BY <1>3, <1>4 DEF DevIInv, Shapes
<1>8. AddIsFirst'
  BY <1>1, <1>4 DEF DevIInv, AddIsFirst
<1>9. OneScan'
  BY <1>3, <1>4 DEF DevIInv, OneScan, Alive
<1>10. FoldersAlive'
  BY <1>3 DEF DevIInv, FoldersAlive
<1>11. NoScanAtAdd'
  BY <1>6 DEF NoScanAtAdd
<1>12. FormatsCalmly'
  BY <1>4 DEF FormatsCalmly, Formatting, Rebuilding
<1>13. NewIsEmpty'
  BY <1>4 DEF DevIInv, NewIsEmpty
<1>14. StatusOfScan'
  BY <1>1, <1>3, <1>4 DEF DevIInv, StatusOfScan, Formatting, Rebuilding, Good, Dead
<1>15. QuitLast'
  BY DEF DevIInv, QuitLast
<1>16. CreatesKnown'
  BY <1>4 DEF CreatesKnown
<1> QED
  BY <1>7, <1>8, <1>9, <1>10, <1>11, <1>12, <1>13, <1>14, <1>15, <1>16 DEF DevIInv

LEMMA StorageListensKeeps ==
  ASSUME Slow, DevIInv, StorageListens
  PROVE  DevIInv'
<1> USE DEF StorageListens, device, state, threads, bounds, Callers
<1>1. uevents' = <<>> /\ msgs' = <<>>
  BY DEF DevIInv, NewIsEmpty
<1>2. pc'["app"] = "ready" /\ pc'["msg"] = "test" /\ DOMAIN pc' = Callers
  OBVIOUS
<1>3. ~AddComing'
  BY <1>1, <1>2, NothingComes
<1>4. Shapes'
  BY DEF DevIInv, Shapes
<1>5. AddIsFirst'
  BY <1>1 DEF AddIsFirst
<1>6. OneScan' /\ FoldersAlive'
  BY <1>2 DEF DevIInv, OneScan, FoldersAlive, Alive
<1>7. NoScanAtAdd'
  BY <1>3 DEF NoScanAtAdd
<1>8. FormatsCalmly' /\ NewIsEmpty'
  BY <1>2 DEF FormatsCalmly, Formatting, Rebuilding, NewIsEmpty
<1>9. StatusOfScan'
  BY <1>2 DEF DevIInv, StatusOfScan, Alive, Formatting, Rebuilding, Good
<1>10. QuitLast' /\ CreatesKnown'
  BY <1>2 DEF DevIInv, QuitLast, CreatesKnown
<1> QED
  BY <1>4, <1>5, <1>6, <1>7, <1>8, <1>9, <1>10 DEF DevIInv

LEMMA FormatKeeps ==
  ASSUME Slow, DevIInv, Format
  PROVE  DevIInv'
<1> USE DEF Format, Goto, CalmToFormat, device, inbox, state, threads, Callers
<1>1. status = "not formatted" \/ ~pathKnown => AllDead
  BY DEF DevIInv, StatusOfScan, AllDead, Dead
<1>2. uevents' = <<>> /\ msgs' = <<>> /\ pc'["msg"] \in {"test", "wait"}
  BY DEF DevIInv, Shapes, Handled
<1>3. ~AddComing'
  BY <1>2, NothingComes
<1>4. Shapes'
  BY DEF DevIInv, Shapes
<1>5. AddIsFirst'
  BY <1>2 DEF DevIInv, AddIsFirst
<1>6. OneScan'
  BY DEF DevIInv, OneScan, Alive, Shapes
<1>7. NoScanAtAdd'
  BY <1>3 DEF NoScanAtAdd
<1>8. FormatsCalmly'
  BY <1>1 DEF DevIInv, FormatsCalmly, Rebuilding, AllDead, Handled, Shapes
<1>9. NewIsEmpty'
  BY DEF DevIInv, NewIsEmpty, Shapes
<1>10. StatusOfScan'
  BY DEF DevIInv, StatusOfScan, Alive, Good
<1>11. QuitLast'
  BY DEF DevIInv, QuitLast
<1>12. CreatesKnown'
  BY DEF DevIInv, CreatesKnown, Shapes
<1>13. FoldersAlive'
  BY DEF DevIInv, FoldersAlive
<1> QED
  BY <1>4, <1>5, <1>6, <1>7, <1>8, <1>9, <1>10, <1>11, <1>12, <1>13 DEF DevIInv

LEMMA FormatDeviceKeeps ==
  ASSUME Slow, DevIInv, FormatDevice
  PROVE  DevIInv'
<1> USE DEF FormatDevice, Goto, inbox, state, threads, bounds, Callers
<1>1. Shapes'
  BY DEF DevIInv, Shapes
<1>2. AddIsFirst'
  BY DEF DevIInv, AddIsFirst
<1>3. OneScan'
  BY DEF DevIInv, OneScan, Alive
<1>4. NoScanAtAdd'
  BY DEF DevIInv, NoScanAtAdd, AddComing, Formatting, Rebuilding
<1>5. FormatsCalmly'
  BY DEF DevIInv, FormatsCalmly, Formatting, Rebuilding, AllDead, Handled
<1>6. NewIsEmpty'
  BY DEF DevIInv, NewIsEmpty
<1>7. StatusOfScan'
  BY DEF DevIInv, StatusOfScan, Alive, Formatting, Rebuilding, Dead
<1>8. QuitLast'
  BY DEF DevIInv, QuitLast
<1>9. CreatesKnown'
  BY DEF DevIInv, CreatesKnown
<1>10. FoldersAlive'
  BY DEF DevIInv, FoldersAlive
<1> QED
  BY <1>1, <1>2, <1>3, <1>4, <1>5, <1>6, <1>7, <1>8, <1>9, <1>10 DEF DevIInv

LEMMA DeinitKeeps ==
  ASSUME Slow, DevIInv, Deinit
  PROVE  DevIInv'
<1> USE DEF Deinit, Goto, device, state, bounds, Callers
<1>1. Shapes'
  BY DEF DevIInv, Shapes
<1>2. AddIsFirst'
  BY DEF DevIInv, AddIsFirst, Shapes
<1>3. OneScan'
  BY DEF DevIInv, OneScan, Alive, Shapes
<1>4. NoScanAtAdd'
  BY DEF DevIInv, NoScanAtAdd, AddComing, Formatting, Rebuilding, AllDead, Shapes
<1>5. FormatsCalmly'
  BY DEF DevIInv, FormatsCalmly, Formatting, Rebuilding, Shapes
<1>6. NewIsEmpty'
  BY DEF DevIInv, NewIsEmpty, Shapes
<1>7. StatusOfScan'
  BY DEF DevIInv, StatusOfScan, Formatting, Rebuilding, Good, Shapes
<1>8. QuitLast'
  BY DEF DevIInv, QuitLast
<1>9. CreatesKnown'
  BY DEF DevIInv, CreatesKnown, Shapes
<1>10. FoldersAlive'
  BY DEF DevIInv, FoldersAlive
<1> QED
  BY <1>1, <1>2, <1>3, <1>4, <1>5, <1>6, <1>7, <1>8, <1>9, <1>10 DEF DevIInv

LEMMA DeinitListenerKeeps ==
  ASSUME Slow, DevIInv, DeinitListener
  PROVE  DevIInv'
<1> USE DEF DeinitListener, Goto, device, state, threads, bounds, Callers
<1>1. Shapes'
  BY DEF DevIInv, Shapes
<1>2. AddIsFirst'
  BY DEF DevIInv, AddIsFirst, Shapes
<1>3. OneScan'
  BY DEF DevIInv, OneScan, Alive, Shapes
<1>4. NoScanAtAdd'
  BY DEF DevIInv, NoScanAtAdd, AddComing, Formatting, Rebuilding, AllDead, Shapes
<1>5. FormatsCalmly'
  BY DEF DevIInv, FormatsCalmly, Formatting, Rebuilding, Shapes
<1>6. NewIsEmpty'
  BY DEF DevIInv, NewIsEmpty, Shapes
<1>7. StatusOfScan'
  BY DEF DevIInv, StatusOfScan, Formatting, Rebuilding, Good, Shapes
<1>8. QuitLast'
  BY DEF DevIInv, QuitLast, Shapes
<1>9. CreatesKnown'
  BY DEF DevIInv, CreatesKnown, Shapes
<1>10. FoldersAlive'
  BY DEF DevIInv, FoldersAlive
<1> QED
  BY <1>1, <1>2, <1>3, <1>4, <1>5, <1>6, <1>7, <1>8, <1>9, <1>10 DEF DevIInv

LEMMA DeinitMsgKeeps ==
  ASSUME Slow, DevIInv, DeinitMsg
  PROVE  DevIInv'
<1> USE DEF DeinitMsg, Goto, device, inbox, state, threads, bounds, Callers
<1>1. Shapes'
  BY DEF DevIInv, Shapes
<1>2. AddIsFirst'
  BY DEF DevIInv, AddIsFirst, Shapes
<1>3. OneScan'
  BY DEF DevIInv, OneScan, Alive, Shapes
<1>4. NoScanAtAdd'
  BY DEF DevIInv, NoScanAtAdd, AddComing, Formatting, Rebuilding, AllDead, Shapes
<1>5. FormatsCalmly'
  BY DEF DevIInv, FormatsCalmly, Formatting, Rebuilding, Shapes
<1>6. NewIsEmpty'
  BY DEF DevIInv, NewIsEmpty, Shapes
<1>7. StatusOfScan'
  BY DEF DevIInv, StatusOfScan, Formatting, Rebuilding, Good, Shapes
<1>8. QuitLast'
  BY DEF DevIInv, QuitLast, Shapes
<1>9. CreatesKnown'
  BY DEF DevIInv, CreatesKnown, Shapes
<1>10. FoldersAlive'
  BY DEF DevIInv, FoldersAlive
<1> QED
  BY <1>1, <1>2, <1>3, <1>4, <1>5, <1>6, <1>7, <1>8, <1>9, <1>10 DEF DevIInv

LEMMA DeinitScanKeeps ==
  ASSUME Slow, DevIInv, DeinitScan
  PROVE  DevIInv'
<1> USE DEF DeinitScan, Goto, CalmToUnmount, NoneSets, device, inbox, threads, bounds,
      Callers
<1>1. Shapes'
  BY DEF DevIInv, Shapes
<1>2. AddIsFirst'
  BY DEF DevIInv, AddIsFirst, Shapes
<1>3. OneScan'
  BY DEF DevIInv, OneScan, Alive, Shapes
<1>4. NoScanAtAdd'
  BY DEF DevIInv, NoScanAtAdd, AddComing, Formatting, Rebuilding, AllDead, Shapes
<1>5. FormatsCalmly'
  BY DEF DevIInv, FormatsCalmly, Formatting, Rebuilding, Shapes
<1>6. NewIsEmpty'
  BY DEF DevIInv, NewIsEmpty, Shapes
<1>7. StatusOfScan'
  BY DEF DevIInv, StatusOfScan, Formatting, Rebuilding, Good, Shapes
<1>8. QuitLast'
  BY DEF DevIInv, QuitLast, Shapes
<1>9. CreatesKnown'
  BY DEF DevIInv, CreatesKnown, Shapes
<1>10. FoldersAlive'
  BY DEF DevIInv, FoldersAlive
<1> QED
  BY <1>1, <1>2, <1>3, <1>4, <1>5, <1>6, <1>7, <1>8, <1>9, <1>10 DEF DevIInv

LEMMA DeinitJoinKeeps ==
  ASSUME Slow, DevIInv, DeinitJoin
  PROVE  DevIInv'
<1> USE DEF DeinitJoin, Goto, Joinable, device, inbox, state, threads, bounds, Callers
<1>1. Shapes'
  BY DEF DevIInv, Shapes
<1>2. AddIsFirst'
  BY DEF DevIInv, AddIsFirst, Shapes
<1>3. OneScan'
  BY DEF DevIInv, OneScan, Alive, Shapes
<1>4. NoScanAtAdd'
  BY DEF DevIInv, NoScanAtAdd, AddComing, Formatting, Rebuilding, AllDead, Shapes
<1>5. FormatsCalmly'
  BY DEF DevIInv, FormatsCalmly, Formatting, Rebuilding, Shapes
<1>6. NewIsEmpty'
  BY DEF DevIInv, NewIsEmpty, Shapes
<1>7. StatusOfScan'
  BY DEF DevIInv, StatusOfScan, OneScan, Alive, Dead
<1>8. QuitLast'
  BY DEF DevIInv, QuitLast, Shapes
<1>9. CreatesKnown'
  BY DEF DevIInv, CreatesKnown, Shapes
<1>10. FoldersAlive'
  BY DEF DevIInv, FoldersAlive
<1> QED
  BY <1>1, <1>2, <1>3, <1>4, <1>5, <1>6, <1>7, <1>8, <1>9, <1>10 DEF DevIInv

-----------------------------------------------------------------------------

LEMMA InitHolds == DevInit => DevIInv
<1> SUFFICES ASSUME DevInit PROVE DevIInv
  OBVIOUS
<1>1. /\ uevents = <<>> /\ msgs = <<>> /\ pc["app"] = "new" /\ pc["msg"] = "none" /\ listener = "none"
      /\ DOMAIN pc = Callers /\ DOMAIN joins = Callers
      /\ scan \in [Scans -> ScanPlaces] /\ AllDead /\ ~quit
      /\ mounted <=> Good
  BY DEF DevInit, Callers, ScanPlaces, AllDead, Dead, Good
<1>2. Shapes /\ AddIsFirst /\ QuitLast /\ NewIsEmpty
  BY <1>1 DEF Shapes, AddIsFirst, QuitLast, NewIsEmpty
<1>3. OneScan /\ FoldersAlive /\ StatusOfScan
  BY <1>1 DEF OneScan, FoldersAlive, StatusOfScan, Alive, AllDead, Dead, Callers
<1>4. NoScanAtAdd /\ FormatsCalmly /\ CreatesKnown
  BY <1>1 DEF NoScanAtAdd, FormatsCalmly, CreatesKnown, AddComing, Formatting, Rebuilding, Callers
<1> QED
  BY <1>2, <1>3, <1>4 DEF DevIInv

LEMMA StutterKeeps ==
  ASSUME DevIInv, UNCHANGED devVars
  PROVE  DevIInv'
BY DEF DevIInv, devVars, device, inbox, callers, state, threads, bounds, Shapes, AddIsFirst, OneScan,
       Alive, FoldersAlive, NoScanAtAdd, AddComing, AllDead, Formatting, Rebuilding, FormatsCalmly,
       Handled, NewIsEmpty, Good, StatusOfScan, QuitLast, CreatesKnown

LEMMA CallsKeep ==
  ASSUME Slow, DevIInv, NEW c \in Callers, Calls(c)
  PROVE  DevIInv'
BY DevAddKeeps, DevAddScanKeeps, DevRemoveKeeps, DevRemoveReportKeeps, DevRemoveJoinKeeps DEF Calls

LEMMA NextHolds ==
  ASSUME Slow, DevIInv, [DevNext]_devVars
  PROVE  DevIInv'
<1>1. CASE Plug \/ Unplug \/ StorageLooks \/ Format \/ Deinit
  BY <1>1, PlugKeeps, UnplugKeeps, StorageLooksKeeps, FormatKeeps, DeinitKeeps
<1>2. CASE Listener
  BY <1>2, ListenerBindsKeeps, ListenKeeps, ListenerEndsKeeps DEF Listener
<1>3. CASE Message
  BY <1>3, TestQuitKeeps, ReceiveKeeps, CallsKeep DEF Message, Callers
<1>4. CASE Going
  BY <1>4, StorageListensKeeps, FormatDeviceKeeps, DeinitListenerKeeps, DeinitMsgKeeps,
     DeinitScanKeeps, DeinitJoinKeeps, CallsKeep DEF Going, Callers
<1>5. ASSUME NEW n \in Scans, ScanThread(n)
      PROVE  DevIInv'
  BY <1>5, ScanStartKeeps, FsckBeginsKeeps, FsckEndsKeeps, TestMountedKeeps, SetMountedKeeps,
     ScanLoopEndsKeeps, ScanFreeKeeps DEF ScanThread
<1>6. ASSUME NEW n \in Scans, MonitorThread(n)
      PROVE  DevIInv'
  BY <1>6, MonitorUnmountKeeps, MonitorEndsKeeps DEF MonitorThread
<1>7. CASE UNCHANGED devVars
  BY <1>7, StutterKeeps
<1> QED
  BY <1>1, <1>2, <1>3, <1>4, <1>5, <1>6, <1>7 DEF DevNext

\* Outside the windows that Slow excludes at most one file scan thread is
\* alive and a device that is added or formatted finds none.
THEOREM DevInvariance ==
  ASSUME Slow
  PROVE  DevSpec => []DevIInv
<1>1. DevIInv /\ [DevNext]_devVars => DevIInv'
  BY NextHolds
<1> QED
  BY <1>1, InitHolds, PTL DEF DevSpec

\* The folders that a file scan thread and its monitor thread read and delete
\* from are those it allocated itself, however the device is plugged, removed
\* and formatted: RKADK_STORAGE_DevRemove waits for the thread.
THEOREM FoldersStayAlive ==
  ASSUME Slow
  PROVE  DevSpec => []FoldersAlive
<1>1. DevIInv => FoldersAlive
  BY DEF DevIInv
<1> QED
  BY <1>1, DevInvariance, PTL
=============================================================================
