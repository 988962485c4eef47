-------------------------- MODULE MediaVenc_proof --------------------------
(***************************************************************************)
(* Proofs about MediaVenc, for any users and any number of slots: the      *)
(* encoder's thread reads an existing channel, and a user that stays       *)
(* registered while a frame is handed out gets it once.  And about module  *)
(* RecordReset, what a reset makes of the encoders: for configurations of  *)
(* any number of streams, any rates, bitrates, lengths of a group, sizes   *)
(* and codecs, any lapse multiple and any rate of the sensor.  And about   *)
(* module Param, where such a configuration is kept: the files are the     *)
(* memory between operations, settings survive, the nodes fit the streams. *)
(***************************************************************************)
EXTENDS MediaVenc, RecordReset, Param, FiniteSetTheorems, TLAPS

\* vencMutex is held by the user whose call says so.
Locks == \A u \in Users : mutex = u <=> upc[u] \in {"filling", "clearing", "joining"}

\* The user is storing into the slot it found.
Owns(u) == upc[u] \in {"filling", "clearing"}

Unused(s)   == ~ slot[s].used /\ slot[s].fn = None /\ slot[s].handle = None
Holds(s, u) == slot[s].used /\ slot[s].fn = u /\ slot[s].handle = u

\* Its slot is half one thing and half the other.
OwnSlot ==
  \A u \in Users : Owns(u) =>
    LET Set(f) == f \in todo[u] <=> upc[u] = "clearing" IN
    /\ slot[uslot[u]].used <=> Set("used")
    /\ slot[uslot[u]].fn = IF Set("fn") THEN u ELSE None
    /\ slot[uslot[u]].handle = IF Set("handle") THEN u ELSE None

\* Every other slot is unused, or has a callback whose user is registered or
\* gave up.
OtherSlots ==
  \A s \in Slots :
    \/ Unused(s)
    \/ \E u \in Users : Owns(u) /\ uslot[u] = s
    \/ \E u \in Users : Holds(s, u) /\ upc[u] \in {"running", "failed", "gone"}

\* No callback is in two slots, and a registered one is in one.
OneSlotEach ==
  /\ \A r, s \in Slots : slot[r].fn = slot[s].fn /\ slot[r].fn # None => r = s
  /\ \A u \in Users : upc[u] = "running" => \E s \in Slots : Holds(s, u)

Table == OwnSlot /\ OtherSlots /\ OneSlotEach

\* Who holds a reference of the channel, and who is counted in s32GetCnt: those
\* that gave up with their callback in the table are, for good.
Holders == {u \in Users : upc[u] \notin {"idle", "gone"}}
Counted == {u \in Users : \/ upc[u] \in {"running", "clearing"}
                          \/ upc[u] \in {"failed", "gone"} /\ \E s \in Slots : slot[s].fn = u}

Counts ==
  /\ initCnt = Cardinality(Holders)
  /\ getCnt = Cardinality(Counted)
  /\ bGetBuffer <=> getCnt > 0

\* The thread is told to exit only by a user that waits for it.
Alive == gpc \notin {"none", "dead"} => bGetBuffer \/ \E u \in Users : upc[u] = "joining"

\* Slot s was looked at for the frame in the thread's hand.
Passed(s) == CASE gpc \in {"test", "load"} -> s < gi
               [] gpc = "call" -> s <= gi
               [] OTHER -> TRUE

Served ==
  gpc \in {"test", "load", "call", "release"} =>
    \A u \in stayed : \E s \in Slots :
      /\ Holds(s, u)
      /\ upc[u] \in {"running", "failed", "gone"}
      /\ calls[u] = IF Passed(s) THEN 1 ELSE 0
      /\ gpc = "load" => (gfn = u <=> gi = s)

IInv == TypeOK /\ Locks /\ Table /\ Counts /\ Alive /\ Served

-----------------------------------------------------------------------------
(* Slots and counts                                                        *)

\* The slots are numbered from one without a gap.
LEMMA SlotNumbers ==
  /\ Slots \subseteq Nat /\ 1 \in Slots
  /\ \A s \in Slots : 1 <= s
  /\ \A s, r \in Slots : r + 1 \notin Slots => s <= r
<1> DEFINE n == Cardinality(Slots)
<1>1. Slots = 1 .. n /\ Slots # {}
  BY VencAssumption
<1>2. n \in Nat
  BY VencAssumption, FS_CardinalityType
<1> QED
  BY <1>1, <1>2

\* The counts are of finite sets, so that one that has a member is positive.
LEMMA Finite == IsFiniteSet(Holders) /\ IsFiniteSet(Counted)
<1>1. Holders \subseteq Users /\ Counted \subseteq Users
  BY DEF Holders, Counted
<1> QED
  BY <1>1, FS_Subset, VencAssumption

LEMMA Positive ==
  ASSUME Counts
  PROVE  /\ initCnt \in Nat /\ getCnt \in Nat
         /\ Holders # {} => initCnt > 0
         /\ Counted # {} => getCnt > 0
         /\ getCnt > 0 => Counted # {}
BY Finite, FS_CardinalityType, FS_EmptySet DEF Counts

-----------------------------------------------------------------------------
(* Steps                                                                   *)

\* What an unused and a used slot hold.
LEMMA Contents ==
  ASSUME NEW u \in Users
  PROVE  /\ Filled(u).used = TRUE /\ Filled(u).fn = u /\ Filled(u).handle = u
         /\ Empty.used = FALSE /\ Empty.fn = None /\ Empty.handle = None
         /\ Filled(u).used \in BOOLEAN /\ Empty.used \in BOOLEAN
<1>1. Empty.used \in BOOLEAN /\ Filled(u).used \in BOOLEAN
  BY Zenon DEF Empty, Filled
<1> QED
  BY <1>1 DEF Empty, Filled

\* What a store leaves in the slot.
LEMMA Stored ==
  ASSUME TypeOK, NEW u \in Users, Store(u)
  PROVE  LET s == uslot[u]
             F == IF upc[u] = "filling" THEN Filled(u) ELSE Empty
         IN  \E f \in todo[u] :
               /\ slot' = [slot EXCEPT ![s] =
                    [used   |-> IF f = "used" THEN F.used ELSE slot[s].used,
                     fn     |-> IF f = "fn" THEN F.fn ELSE slot[s].fn,
                     handle |-> IF f = "handle" THEN F.handle ELSE slot[s].handle]]
               /\ todo' = [todo EXCEPT ![u] = @ \ {f}]
<1> DEFINE s == uslot[u]
           F == IF upc[u] = "filling" THEN Filled(u) ELSE Empty
<1>1. PICK f \in todo[u] :
        /\ slot' = [slot EXCEPT ![s] = [@ EXCEPT ![f] = F[f]]]
        /\ todo' = [todo EXCEPT ![u] = @ \ {f}]
  BY DEF Store
<1>2. f \in {"used", "fn", "handle"}
  BY DEF TypeOK, Fields
<1>3. [slot[s] EXCEPT ![f] = F[f]] =
        [used   |-> IF f = "used" THEN F.used ELSE slot[s].used,
         fn     |-> IF f = "fn" THEN F.fn ELSE slot[s].fn,
         handle |-> IF f = "handle" THEN F.handle ELSE slot[s].handle]
  BY <1>2 DEF TypeOK
<1> QED
  BY <1>1, <1>3 DEF TypeOK

\* The mutex is held by the user whose call is in the middle of the table.
LEMMA NextLocks == TypeOK /\ Locks /\ [Next]_vars => Locks'
<1> SUFFICES ASSUME TypeOK, Locks, [Next]_vars PROVE Locks'
  OBVIOUS
<1> USE VencAssumption DEF TypeOK, Locks, tableVars, userVars, threadVars, history
<1>1. ASSUME NEW u \in Users, Asks(u) \/ Returns(u) PROVE Locks'
  <2>1. CASE VencInit(u)
    BY <2>1 DEF VencInit
  <2>2. CASE GetSlot(u)
    BY <2>2 DEF GetSlot
  <2>3. CASE GetNoSlot(u)
    BY <2>3 DEF GetNoSlot
  <2>4. CASE Store(u)
    BY <2>4 DEF Store
  <2>5. CASE GetThread(u)
    BY <2>5 DEF GetThread
  <2>6. CASE GetThreadFails(u)
    BY <2>6 DEF GetThreadFails
  <2>7. CASE BindChnFails(u)
    BY <2>7 DEF BindChnFails
  <2>8. CASE GiveUp(u)
    BY <2>8 DEF GiveUp
  <2>9. CASE StopSlot(u)
    BY <2>9 DEF StopSlot
  <2>10. CASE StopCount(u)
    BY <2>10 DEF StopCount
  <2>11. CASE StopJoin(u)
    BY <2>11 DEF StopJoin
  <2>12. CASE VencDeInit(u)
    BY <2>12 DEF VencDeInit
  <2> QED
    BY <1>1, <2>1, <2>2, <2>3, <2>4, <2>5, <2>6, <2>7, <2>8, <2>9, <2>10, <2>11, <2>12 DEF Asks, Returns
<1>2. CASE Thread
  BY <1>2 DEF Thread, Loop, GetFrame, GetTimeout, TestSlot, LoadSlot, CallReturns, ReleaseFrame
<1>3. CASE UNCHANGED vars
  BY <1>3 DEF vars
<1> QED
  BY <1>1, <1>2, <1>3 DEF Next

\* Every step keeps the types; that the counts do not go below zero needs Counts.
LEMMA NextTypes == TypeOK /\ Counts /\ [Next]_vars => TypeOK'
<1> SUFFICES ASSUME TypeOK, Counts, [Next]_vars PROVE TypeOK'
  OBVIOUS
<1> USE VencAssumption DEF TypeOK, Fields, Empty, Filled, NoCalls, UsedSlots, tableVars, userVars, threadVars, history
<1>1. ASSUME NEW u \in Users, Asks(u) \/ Returns(u) PROVE TypeOK'
  <2>1. CASE VencInit(u)
    BY <2>1 DEF VencInit
  <2>2. CASE GetSlot(u)
    BY <2>2 DEF GetSlot
  <2>3. CASE GetNoSlot(u)
    BY <2>3 DEF GetNoSlot
  <2>4. CASE Store(u)
    <3>1. slot' \in [Slots -> [used : BOOLEAN, fn : Users \cup {None}, handle : Users \cup {None}]]
      <4> DEFINE F == IF upc[u] = "filling" THEN Filled(u) ELSE Empty
      <4> HIDE DEF Filled, Empty
      <4>1. F.used \in BOOLEAN /\ F.fn \in Users \cup {None} /\ F.handle \in Users \cup {None}
        BY Contents
      <4> HIDE DEF F
      <4>2. PICK f \in todo[u] :
               slot' = [slot EXCEPT ![uslot[u]] =
                    [used   |-> IF f = "used" THEN F.used ELSE slot[uslot[u]].used,
                     fn     |-> IF f = "fn" THEN F.fn ELSE slot[uslot[u]].fn,
                     handle |-> IF f = "handle" THEN F.handle ELSE slot[uslot[u]].handle]]
        BY <2>4, Stored DEF F
      <4> QED
        BY <4>1, <4>2
    <3> QED
      BY <2>4, <3>1 DEF Store
  <2>5. CASE GetThread(u)
    BY <2>5, SlotNumbers DEF GetThread
  <2>6. CASE GetThreadFails(u)
    BY <2>6, SlotNumbers DEF GetThreadFails
  <2>7. CASE BindChnFails(u)
    BY <2>7 DEF BindChnFails
  <2>8. CASE GiveUp(u)
    <3>1. u \in Holders
      BY <2>8 DEF GiveUp, Holders
    <3> QED
      BY <2>8, <3>1, Positive DEF GiveUp
  <2>9. CASE StopSlot(u)
    BY <2>9 DEF StopSlot
  <2>10. CASE StopCount(u)
    <3>1. u \in Counted
      BY <2>10 DEF StopCount, Counted
    <3>2. getCnt' \in Nat
      BY <2>10, <3>1, Positive DEF StopCount
    <3>3. bGetBuffer' \in BOOLEAN
      BY <2>10, Zenon DEF StopCount
    <3> QED
      BY <2>10, <3>2, <3>3, SlotNumbers DEF StopCount
  <2>11. CASE StopJoin(u)
    BY <2>11 DEF StopJoin
  <2>12. CASE VencDeInit(u)
    <3>1. u \in Holders
      BY <2>12 DEF VencDeInit, Holders
    <3> QED
      BY <2>12, <3>1, Positive DEF VencDeInit
  <2> QED
    BY <1>1, <2>1, <2>2, <2>3, <2>4, <2>5, <2>6, <2>7, <2>8, <2>9, <2>10, <2>11, <2>12 DEF Asks, Returns
<1>2. CASE Thread
  <2>1. CASE Loop
    BY <2>1 DEF Loop
  <2>2. CASE GetFrame
    BY <2>2, SlotNumbers DEF GetFrame, Running
  <2>3. CASE GetTimeout
    BY <2>3 DEF GetTimeout
  <2>4. CASE TestSlot
    BY <2>4 DEF TestSlot, NextSlot
  <2>5. CASE LoadSlot
    BY <2>5 DEF LoadSlot
  <2>6. CASE CallReturns
    BY <2>6 DEF CallReturns, NextSlot
  <2>7. CASE ReleaseFrame
    BY <2>7, SlotNumbers DEF ReleaseFrame
  <2> QED
    BY <1>2, <2>1, <2>2, <2>3, <2>4, <2>5, <2>6, <2>7 DEF Thread
<1>3. CASE UNCHANGED vars
  BY <1>3 DEF vars
<1> QED
  BY <1>1, <1>2, <1>3 DEF Next

\* Every step keeps the table as Table says: what a store changes is the one slot of
\* the user that holds the mutex.
LEMMA NextTable == TypeOK /\ Locks /\ Table /\ [Next]_vars => Table'
<1> SUFFICES ASSUME TypeOK, Locks, Table, [Next]_vars PROVE Table'
  OBVIOUS
<1> USE VencAssumption DEF TypeOK, Locks, Table, OwnSlot, OtherSlots, OneSlotEach, Owns, Holds, Unused, Fields, UsedSlots, tableVars, userVars, threadVars, history
<1>1. ASSUME NEW u \in Users, Asks(u) \/ Returns(u) PROVE Table'
  <2>1. CASE VencInit(u)
    <3>1. OwnSlot'
      BY <2>1 DEF VencInit
    <3>2. OtherSlots'
      BY <2>1 DEF VencInit
    <3>3. OneSlotEach'
      BY <2>1 DEF VencInit
    <3> QED
      BY <3>1, <3>2, <3>3 DEF Table
  <2>2. CASE GetSlot(u)
    <3>1. OwnSlot'
      BY <2>2 DEF GetSlot
    <3>2. OtherSlots'
      BY <2>2 DEF GetSlot
    <3>3. OneSlotEach'
      BY <2>2 DEF GetSlot
    <3> QED
      BY <3>1, <3>2, <3>3 DEF Table
  <2>3. CASE GetNoSlot(u)
    <3>1. OwnSlot'
      BY <2>3 DEF GetNoSlot
    <3>2. OtherSlots'
      BY <2>3 DEF GetNoSlot
    <3>3. OneSlotEach'
      BY <2>3 DEF GetNoSlot
    <3> QED
      BY <3>1, <3>2, <3>3 DEF Table
  <2>4. CASE Store(u)
    <3> DEFINE s == uslot[u]
    <3>1. /\ Owns(u) /\ s \in Slots /\ mutex = u /\ upc' = upc /\ uslot' = uslot
          /\ \A v \in Users : Owns(v) => v = u
          /\ \A v \in Users \ {u} : todo'[v] = todo[v]
      BY <2>4 DEF Store
    <3>2. /\ \A r \in Slots \ {s} : slot'[r] = slot[r]
          /\ \E f \in todo[u] :
               LET Fills == upc[u] = "filling" IN
               /\ todo'[u] = todo[u] \ {f}
               /\ slot'[s].used <=> IF f = "used" THEN Fills ELSE slot[s].used
               /\ slot'[s].fn = IF f = "fn" THEN (IF Fills THEN u ELSE None) ELSE slot[s].fn
               /\ slot'[s].handle =
                    IF f = "handle" THEN (IF Fills THEN u ELSE None) ELSE slot[s].handle
      <4> DEFINE F == IF upc[u] = "filling" THEN Filled(u) ELSE Empty
      <4>1. PICK f \in todo[u] :
               /\ slot' = [slot EXCEPT ![s] =
                    [used   |-> IF f = "used" THEN F.used ELSE slot[s].used,
                     fn     |-> IF f = "fn" THEN F.fn ELSE slot[s].fn,
                     handle |-> IF f = "handle" THEN F.handle ELSE slot[s].handle]]
               /\ todo' = [todo EXCEPT ![u] = todo[u] \ {f}]
        BY <2>4, Stored
      <4>2. /\ F.used <=> upc[u] = "filling"
            /\ F.fn = IF upc[u] = "filling" THEN u ELSE None
            /\ F.handle = IF upc[u] = "filling" THEN u ELSE None
        BY Contents
      <4> HIDE DEF F, OwnSlot, OtherSlots, OneSlotEach, Locks
      <4>3. /\ slot'[s].used <=> IF f = "used" THEN F.used ELSE slot[s].used
            /\ slot'[s].fn = IF f = "fn" THEN F.fn ELSE slot[s].fn
            /\ slot'[s].handle = IF f = "handle" THEN F.handle ELSE slot[s].handle
            /\ todo'[u] = todo[u] \ {f}
            /\ \A r \in Slots \ {s} : slot'[r] = slot[r]
        BY <3>1, <4>1
      <4> QED
        BY <4>2, <4>3
    <3>3. OwnSlot'
      <4>1. PICK f \in todo[u] :
               LET Fills == upc[u] = "filling" IN
               /\ todo'[u] = todo[u] \ {f}
               /\ slot'[s].used <=> IF f = "used" THEN Fills ELSE slot[s].used
               /\ slot'[s].fn = IF f = "fn" THEN (IF Fills THEN u ELSE None) ELSE slot[s].fn
               /\ slot'[s].handle =
                    IF f = "handle" THEN (IF Fills THEN u ELSE None) ELSE slot[s].handle
        BY <3>2
      <4>2. CASE upc[u] = "filling"
        BY <3>1, <4>1, <4>2
      <4>3. CASE upc[u] = "clearing"
        BY <3>1, <4>1, <4>3
      <4> QED
        BY <3>1, <4>2, <4>3
    <3>4. OtherSlots'
      BY <3>1, <3>2
    <3>5. OneSlotEach'
      <4>1. slot'[s].fn \in {None, u} /\ \A r \in Slots \ {s} : slot[r].fn # u
        <5>1. slot[s].fn \in {None, u}
          BY <3>1
        <5>2. slot'[s].fn \in {None, u}
          BY <3>2, <5>1
        <5>3. \A r \in Slots \ {s} : slot[r].fn # u
          BY <3>1
        <5> QED
          BY <5>2, <5>3
      <4>2. \A v \in Users : upc[v] = "running" => \E r \in Slots \ {s} : Holds(r, v)
        BY <3>1
      <4>3. \A r, q \in Slots : slot'[r].fn = slot'[q].fn /\ slot'[r].fn # None => r = q
        <5> SUFFICES ASSUME NEW r \in Slots, NEW q \in Slots,
                            slot'[r].fn = slot'[q].fn, slot'[r].fn # None
                     PROVE  r = q
          OBVIOUS
        <5>1. CASE r # s /\ q # s
          BY <3>2, <5>1
        <5>2. CASE r = s /\ q # s
          BY <3>2, <4>1, <5>2
        <5>3. CASE r # s /\ q = s
          BY <3>2, <4>1, <5>3
        <5> QED
          BY <5>1, <5>2, <5>3
      <4>4. \A v \in Users : upc'[v] = "running" => \E r \in Slots : Holds(r, v)'
        BY <3>1, <3>2, <4>2
      <4> QED
        BY <4>3, <4>4
    <3> QED
      BY <3>3, <3>4, <3>5
  <2>5. CASE GetThread(u)
    <3>1. OwnSlot'
      BY <2>5 DEF GetThread
    <3>2. OtherSlots'
      BY <2>5 DEF GetThread
    <3>3. OneSlotEach'
      BY <2>5 DEF GetThread
    <3> QED
      BY <3>1, <3>2, <3>3 DEF Table
  <2>6. CASE GetThreadFails(u)
    <3>1. OwnSlot'
      BY <2>6 DEF GetThreadFails
    <3>2. OtherSlots'
      BY <2>6 DEF GetThreadFails
    <3>3. OneSlotEach'
      BY <2>6 DEF GetThreadFails
    <3> QED
      BY <3>1, <3>2, <3>3 DEF Table
  <2>7. CASE BindChnFails(u)
    <3>1. OwnSlot'
      BY <2>7 DEF BindChnFails
    <3>2. OtherSlots'
      BY <2>7 DEF BindChnFails
    <3>3. OneSlotEach'
      BY <2>7 DEF BindChnFails
    <3> QED
      BY <3>1, <3>2, <3>3 DEF Table
  <2>8. CASE GiveUp(u)
    <3>1. OwnSlot'
      BY <2>8 DEF GiveUp
    <3>2. OtherSlots'
      BY <2>8 DEF GiveUp
    <3>3. OneSlotEach'
      BY <2>8 DEF GiveUp
    <3> QED
      BY <3>1, <3>2, <3>3 DEF Table
  <2>9. CASE StopSlot(u)
    <3>1. OwnSlot'
      BY <2>9 DEF StopSlot
    <3>2. OtherSlots'
      BY <2>9 DEF StopSlot
    <3>3. OneSlotEach'
      BY <2>9 DEF StopSlot
    <3> QED
      BY <3>1, <3>2, <3>3 DEF Table
  <2>10. CASE StopCount(u)
    <3>1. Unused(uslot[u]) /\ slot' = slot /\ Owns(u)
      BY <2>10 DEF StopCount
    <3>2. /\ \A v \in Users : Owns(v) => v = u
          /\ \A v \in Users \ {u} : upc'[v] = upc[v] /\ uslot'[v] = uslot[v]
          /\ todo' = todo /\ upc'[u] \in {"joining", "stopped"}
      BY <2>10 DEF StopCount
    <3>3. OwnSlot'
      BY <3>1, <3>2
    <3>4. OtherSlots'
      BY <3>1, <3>2
    <3>5. OneSlotEach'
      BY <3>1, <3>2
    <3> QED
      BY <3>3, <3>4, <3>5
  <2>11. CASE StopJoin(u)
    <3>1. OwnSlot'
      BY <2>11 DEF StopJoin
    <3>2. OtherSlots'
      BY <2>11 DEF StopJoin
    <3>3. OneSlotEach'
      BY <2>11 DEF StopJoin
    <3> QED
      BY <3>1, <3>2, <3>3 DEF Table
  <2>12. CASE VencDeInit(u)
    <3>1. OwnSlot'
      BY <2>12 DEF VencDeInit
    <3>2. OtherSlots'
      BY <2>12 DEF VencDeInit
    <3>3. OneSlotEach'
      BY <2>12 DEF VencDeInit
    <3> QED
      BY <3>1, <3>2, <3>3 DEF Table
  <2> QED
    BY <1>1, <2>1, <2>2, <2>3, <2>4, <2>5, <2>6, <2>7, <2>8, <2>9, <2>10, <2>11, <2>12 DEF Asks, Returns
<1>2. CASE Thread
  BY <1>2 DEF Thread, Loop, GetFrame, GetTimeout, TestSlot, LoadSlot, CallReturns, ReleaseFrame
<1>3. CASE UNCHANGED vars
  BY <1>3 DEF vars
<1> QED
  BY <1>1, <1>2, <1>3 DEF Next

\* Every step keeps the counts those of the users that hold or are counted.
LEMMA NextCounts == TypeOK /\ Locks /\ Table /\ Counts /\ [Next]_vars => Counts'
<1> SUFFICES ASSUME TypeOK, Locks, Table, Counts, [Next]_vars PROVE Counts'
  OBVIOUS
<1> USE VencAssumption DEF TypeOK, Locks, Table, OwnSlot, OtherSlots, OneSlotEach, Owns, Holds, Unused, Fields, UsedSlots, tableVars, userVars, threadVars, history
<1>1. ASSUME NEW u \in Users, Asks(u) \/ Returns(u) PROVE Counts'
  <2>1. CASE VencInit(u)
    <3>1. Holders' = Holders \cup {u} /\ u \notin Holders
      BY <2>1 DEF VencInit, Holders
    <3>2. Counted' = Counted
      BY <2>1 DEF VencInit, Counted
    <3>3. initCnt' = initCnt + 1 /\ getCnt' = getCnt /\ (bGetBuffer' = bGetBuffer)
      BY <2>1 DEF VencInit
    <3> QED
      BY <3>1, <3>2, <3>3, Finite, Positive, FS_AddElement DEF Counts
  <2>2. CASE GetSlot(u)
    <3>1. Holders' = Holders
      BY <2>2 DEF GetSlot, Holders
    <3>2. Counted' = Counted
      BY <2>2 DEF GetSlot, Counted
    <3>3. initCnt' = initCnt /\ getCnt' = getCnt /\ (bGetBuffer' = bGetBuffer)
      BY <2>2 DEF GetSlot
    <3> QED
      BY <3>1, <3>2, <3>3, Finite, Positive DEF Counts
  <2>3. CASE GetNoSlot(u)
    <3>1. Holders' = Holders
      BY <2>3 DEF GetNoSlot, Holders
    <3>2. Counted' = Counted
      BY <2>3 DEF GetNoSlot, Counted
    <3>3. initCnt' = initCnt /\ getCnt' = getCnt /\ (bGetBuffer' = bGetBuffer)
      BY <2>3 DEF GetNoSlot
    <3> QED
      BY <3>1, <3>2, <3>3, Finite, Positive DEF Counts
  <2>4. CASE Store(u)
    <3>1. Holders' = Holders
      BY <2>4 DEF Store, Holders
    <3>2. Counted' = Counted
      <4> DEFINE s == uslot[u]
                 F == IF upc[u] = "filling" THEN Filled(u) ELSE Empty
      <4>1. PICK f \in todo[u] :
               slot' = [slot EXCEPT ![s] =
                    [used   |-> IF f = "used" THEN F.used ELSE slot[s].used,
                     fn     |-> IF f = "fn" THEN F.fn ELSE slot[s].fn,
                     handle |-> IF f = "handle" THEN F.handle ELSE slot[s].handle]]
        BY <2>4, Stored
      <4>2. F.fn \in {None, u}
        BY Contents
      <4>3. slot[s].fn \in {None, u} /\ upc[u] \in {"filling", "clearing"} /\ upc' = upc
        BY <2>4 DEF Store
      <4> HIDE DEF F, OwnSlot, OtherSlots, OneSlotEach, Locks
      <4>4. slot'[s].fn \in {None, u} /\ \A r \in Slots \ {s} : slot'[r] = slot[r]
        BY <4>1, <4>2, <4>3
      <4>5. \A v \in Users \ {u} : \A r \in Slots : slot'[r].fn = v <=> slot[r].fn = v
        <5> SUFFICES ASSUME NEW v \in Users \ {u}, NEW r \in Slots
                     PROVE  slot'[r].fn = v <=> slot[r].fn = v
          OBVIOUS
        <5>1. CASE r = s
          <6>1. slot[r].fn # v /\ slot'[r].fn # v
            BY <4>3, <4>4, <5>1
          <6> QED
            BY <6>1
        <5>2. CASE r # s
          BY <4>4, <5>2
        <5> QED
          BY <5>1, <5>2
      <4>6. \A v \in Users : v \in Counted' <=> v \in Counted
        BY <4>3, <4>5 DEF Counted
      <4> QED
        BY <4>6 DEF Counted
    <3>3. initCnt' = initCnt /\ getCnt' = getCnt /\ (bGetBuffer' = bGetBuffer)
      BY <2>4 DEF Store
    <3> QED
      BY <3>1, <3>2, <3>3, Finite, Positive DEF Counts
  <2>5. CASE GetThread(u)
    <3>1. Holders' = Holders
      BY <2>5 DEF GetThread, Holders
    <3>2. Counted' = Counted \cup {u} /\ u \notin Counted
      BY <2>5 DEF GetThread, Counted
    <3>3. initCnt' = initCnt /\ getCnt' = getCnt + 1 /\ (bGetBuffer')
      BY <2>5 DEF GetThread
    <3>4. Cardinality(Counted') = Cardinality(Counted) + 1
      BY <3>2, Finite, FS_AddElement
    <3>5. getCnt' = Cardinality(Counted') /\ getCnt' > 0
      BY <3>3, <3>4, Positive DEF Counts
    <3> QED
      BY <3>1, <3>3, <3>5 DEF Counts
  <2>6. CASE GetThreadFails(u)
    <3>1. Holders' = Holders
      BY <2>6 DEF GetThreadFails, Holders
    <3>2. Counted' = Counted \cup {u} /\ u \notin Counted
      BY <2>6 DEF GetThreadFails, Counted
    <3>3. initCnt' = initCnt /\ getCnt' = getCnt + 1 /\ (bGetBuffer')
      BY <2>6 DEF GetThreadFails
    <3>4. Cardinality(Counted') = Cardinality(Counted) + 1
      BY <3>2, Finite, FS_AddElement
    <3>5. getCnt' = Cardinality(Counted') /\ getCnt' > 0
      BY <3>3, <3>4, Positive DEF Counts
    <3> QED
      BY <3>1, <3>3, <3>5 DEF Counts
  <2>7. CASE BindChnFails(u)
    <3>1. Holders' = Holders
      BY <2>7 DEF BindChnFails, Holders
    <3>2. Counted' = Counted
      BY <2>7 DEF BindChnFails, Counted
    <3>3. initCnt' = initCnt /\ getCnt' = getCnt /\ (bGetBuffer' = bGetBuffer)
      BY <2>7 DEF BindChnFails
    <3> QED
      BY <3>1, <3>2, <3>3, Finite, Positive DEF Counts
  <2>8. CASE GiveUp(u)
    <3>1. Holders' = Holders \ {u} /\ u \in Holders
      BY <2>8 DEF GiveUp, Holders
    <3>2. Counted' = Counted
      BY <2>8 DEF GiveUp, Counted
    <3>3. initCnt' = initCnt - 1 /\ getCnt' = getCnt /\ (bGetBuffer' = bGetBuffer)
      BY <2>8 DEF GiveUp
    <3> QED
      BY <3>1, <3>2, <3>3, Finite, Positive, FS_RemoveElement DEF Counts
  <2>9. CASE StopSlot(u)
    <3>1. Holders' = Holders
      BY <2>9 DEF StopSlot, Holders
    <3>2. Counted' = Counted
      BY <2>9 DEF StopSlot, Counted
    <3>3. initCnt' = initCnt /\ getCnt' = getCnt /\ (bGetBuffer' = bGetBuffer)
      BY <2>9 DEF StopSlot
    <3> QED
      BY <3>1, <3>2, <3>3, Finite, Positive DEF Counts
  <2>10. CASE StopCount(u)
    <3>1. Holders' = Holders
      BY <2>10 DEF StopCount, Holders
    <3>2. Counted' = Counted \ {u} /\ u \in Counted
      BY <2>10 DEF StopCount, Counted
    <3>3. initCnt' = initCnt /\ getCnt' = getCnt - 1 /\ (bGetBuffer' <=> getCnt' > 0)
      <4>1. getCnt > 0 /\ getCnt \in Nat
        BY <3>2, Positive
      <4>2. bGetBuffer
        BY <4>1 DEF Counts
      <4>3. CASE getCnt = 1
        BY <2>10, <4>3 DEF StopCount
      <4>4. CASE getCnt # 1
        BY <2>10, <4>1, <4>2, <4>4 DEF StopCount
      <4> QED
        BY <4>3, <4>4
    <3> QED
      BY <3>1, <3>2, <3>3, Finite, Positive, FS_RemoveElement DEF Counts
  <2>11. CASE StopJoin(u)
    <3>1. Holders' = Holders
      BY <2>11 DEF StopJoin, Holders
    <3>2. Counted' = Counted
      BY <2>11 DEF StopJoin, Counted
    <3>3. initCnt' = initCnt /\ getCnt' = getCnt /\ (bGetBuffer' = bGetBuffer)
      BY <2>11 DEF StopJoin
    <3> QED
      BY <3>1, <3>2, <3>3, Finite, Positive DEF Counts
  <2>12. CASE VencDeInit(u)
    <3>1. Holders' = Holders \ {u} /\ u \in Holders
      BY <2>12 DEF VencDeInit, Holders
    <3>2. Counted' = Counted
      BY <2>12 DEF VencDeInit, Counted
    <3>3. initCnt' = initCnt - 1 /\ getCnt' = getCnt /\ (bGetBuffer' = bGetBuffer)
      BY <2>12 DEF VencDeInit
    <3> QED
      BY <3>1, <3>2, <3>3, Finite, Positive, FS_RemoveElement DEF Counts
  <2> QED
    BY <1>1, <2>1, <2>2, <2>3, <2>4, <2>5, <2>6, <2>7, <2>8, <2>9, <2>10, <2>11, <2>12 DEF Asks, Returns
<1>2. CASE Thread
  <2>1. UNCHANGED <<upc, slot, initCnt, getCnt, bGetBuffer>>
    BY <1>2 DEF Thread, Loop, GetFrame, GetTimeout, TestSlot, LoadSlot, CallReturns, ReleaseFrame
  <2> QED
    BY <2>1 DEF Counts, Holders, Counted
<1>3. CASE UNCHANGED vars
  BY <1>3 DEF vars, Counts, Holders, Counted
<1> QED
  BY <1>1, <1>2, <1>3 DEF Next

\* The thread outlives its last user by no more than the join.
LEMMA NextAlive == TypeOK /\ Locks /\ Counts /\ Alive /\ [Next]_vars => Alive'
<1> SUFFICES ASSUME TypeOK, Locks, Counts, Alive, [Next]_vars PROVE Alive'
  OBVIOUS
<1> USE VencAssumption DEF TypeOK, Locks, Alive, tableVars, userVars, threadVars, history
<1>1. ASSUME NEW u \in Users, Asks(u) \/ Returns(u) PROVE Alive'
  <2>1. CASE VencInit(u)
    BY <2>1 DEF VencInit
  <2>2. CASE GetSlot(u)
    BY <2>2 DEF GetSlot
  <2>3. CASE GetNoSlot(u)
    BY <2>3 DEF GetNoSlot
  <2>4. CASE Store(u)
    BY <2>4 DEF Store
  <2>5. CASE GetThread(u)
    BY <2>5, Positive DEF GetThread, Counts
  <2>6. CASE GetThreadFails(u)
    BY <2>6 DEF GetThreadFails
  <2>7. CASE BindChnFails(u)
    BY <2>7 DEF BindChnFails
  <2>8. CASE GiveUp(u)
    BY <2>8 DEF GiveUp
  <2>9. CASE StopSlot(u)
    BY <2>9 DEF StopSlot
  <2>10. CASE StopCount(u)
    BY <2>10 DEF StopCount
  <2>11. CASE StopJoin(u)
    BY <2>11 DEF StopJoin
  <2>12. CASE VencDeInit(u)
    BY <2>12 DEF VencDeInit
  <2> QED
    BY <1>1, <2>1, <2>2, <2>3, <2>4, <2>5, <2>6, <2>7, <2>8, <2>9, <2>10, <2>11, <2>12 DEF Asks, Returns
<1>2. CASE Thread
  <2>1. CASE Loop
    BY <2>1 DEF Loop
  <2>2. CASE GetFrame
    BY <2>2 DEF GetFrame, Running
  <2>3. CASE GetTimeout
    BY <2>3 DEF GetTimeout
  <2>4. CASE TestSlot
    BY <2>4 DEF TestSlot, NextSlot
  <2>5. CASE LoadSlot
    BY <2>5 DEF LoadSlot
  <2>6. CASE CallReturns
    BY <2>6 DEF CallReturns, NextSlot
  <2>7. CASE ReleaseFrame
    BY <2>7 DEF ReleaseFrame
  <2> QED
    BY <1>2, <2>1, <2>2, <2>3, <2>4, <2>5, <2>6, <2>7 DEF Thread
<1>3. CASE UNCHANGED vars
  BY <1>3 DEF vars
<1> QED
  BY <1>1, <1>2, <1>3 DEF Next

Stays == {"running", "failed", "gone"}

\* The users that stayed are served by a step that leaves them and the thread alone.
LEMMA ServedKept ==
  ASSUME Served, stayed \subseteq Users,
         gpc' = gpc, gi' = gi, gfn' = gfn, stayed' = stayed, calls' = calls,
         \A v \in Users : upc[v] \in Stays => upc'[v] \in Stays,
         \A v \in Users : upc[v] \in Stays => \A s \in Slots : Holds(s, v) => Holds(s, v)'
  PROVE  Served'
<1> SUFFICES ASSUME gpc \in {"test", "load", "call", "release"}, NEW v \in stayed
             PROVE  \E s \in Slots :
                      /\ Holds(s, v)'
                      /\ upc'[v] \in Stays
                      /\ calls[v] = IF Passed(s) THEN 1 ELSE 0
                      /\ gpc = "load" => (gfn = v <=> gi = s)
  BY DEF Served, Passed, Stays
<1>1. PICK s \in Slots : /\ Holds(s, v) /\ upc[v] \in Stays
                         /\ calls[v] = IF Passed(s) THEN 1 ELSE 0
                         /\ gpc = "load" => (gfn = v <=> gi = s)
  BY DEF Served, Stays
<1> QED
  BY <1>1

\* Every step of a user leaves the callbacks that stay alone, and the thread calls
\* each as it comes to its slot.
LEMMA NextServed == TypeOK /\ Locks /\ Table /\ Served /\ [Next]_vars => Served'
<1> SUFFICES ASSUME TypeOK, Locks, Table, Served, [Next]_vars PROVE Served'
  OBVIOUS
<1> USE VencAssumption DEF UsedSlots, tableVars, userVars, threadVars, history
<1>1. ASSUME NEW u \in Users, Asks(u) \/ Returns(u) PROVE Served'
  <2>1. CASE VencInit(u)
    <3>1. /\ gpc' = gpc /\ gi' = gi /\ gfn' = gfn /\ stayed' = stayed /\ calls' = calls
          /\ \A v \in Users : upc[v] \in Stays => upc'[v] \in Stays
      BY <2>1 DEF VencInit, TypeOK, Stays
    <3>2. \A v \in Users : upc[v] \in Stays => \A s \in Slots : Holds(s, v) => Holds(s, v)'
      BY <2>1 DEF VencInit, Holds
    <3> QED
      BY <3>1, <3>2, ServedKept DEF TypeOK
  <2>2. CASE GetSlot(u)
    <3>1. /\ gpc' = gpc /\ gi' = gi /\ gfn' = gfn /\ stayed' = stayed /\ calls' = calls
          /\ \A v \in Users : upc[v] \in Stays => upc'[v] \in Stays
      BY <2>2 DEF GetSlot, TypeOK, Stays
    <3>2. \A v \in Users : upc[v] \in Stays => \A s \in Slots : Holds(s, v) => Holds(s, v)'
      BY <2>2 DEF GetSlot, Holds
    <3> QED
      BY <3>1, <3>2, ServedKept DEF TypeOK
  <2>3. CASE GetNoSlot(u)
    <3>1. /\ gpc' = gpc /\ gi' = gi /\ gfn' = gfn /\ stayed' = stayed /\ calls' = calls
          /\ \A v \in Users : upc[v] \in Stays => upc'[v] \in Stays
      BY <2>3 DEF GetNoSlot, TypeOK, Stays
    <3>2. \A v \in Users : upc[v] \in Stays => \A s \in Slots : Holds(s, v) => Holds(s, v)'
      BY <2>3 DEF GetNoSlot, Holds
    <3> QED
      BY <3>1, <3>2, ServedKept DEF TypeOK
  <2>4. CASE Store(u)
    <3>1. /\ gpc' = gpc /\ gi' = gi /\ gfn' = gfn /\ stayed' = stayed /\ calls' = calls
          /\ \A v \in Users : upc[v] \in Stays => upc'[v] \in Stays
      BY <2>4 DEF Store, TypeOK, Stays
    <3>2. \A v \in Users : upc[v] \in Stays => \A s \in Slots : Holds(s, v) => Holds(s, v)'
      <4>1. \A v \in Users : upc[v] \in Stays => slot[uslot[u]].fn # v
        <5>1. upc[u] \in {"filling", "clearing"} /\ slot[uslot[u]].fn \in {u, None}
          BY <2>4 DEF Store, Table, OwnSlot, Owns
        <5> QED
          BY <5>1 DEF Stays
      <4>2. \A s \in Slots \ {uslot[u]} : slot'[s] = slot[s]
        BY <2>4, Stored DEF TypeOK
      <4> QED
        BY <4>1, <4>2 DEF Holds
    <3> QED
      BY <3>1, <3>2, ServedKept DEF TypeOK
  <2>5. CASE GetThread(u)
    BY <2>5 DEF GetThread, TypeOK, Locks, Table, OwnSlot, OtherSlots, OneSlotEach, Owns, Holds, Unused, Fields, UsedSlots, Served, Passed
  <2>6. CASE GetThreadFails(u)
    <3>1. /\ gpc' = gpc /\ gi' = gi /\ gfn' = gfn /\ stayed' = stayed /\ calls' = calls
          /\ \A v \in Users : upc[v] \in Stays => upc'[v] \in Stays
      BY <2>6 DEF GetThreadFails, TypeOK, Stays
    <3>2. \A v \in Users : upc[v] \in Stays => \A s \in Slots : Holds(s, v) => Holds(s, v)'
      BY <2>6 DEF GetThreadFails, Holds
    <3> QED
      BY <3>1, <3>2, ServedKept DEF TypeOK
  <2>7. CASE BindChnFails(u)
    <3>1. /\ gpc' = gpc /\ gi' = gi /\ gfn' = gfn /\ stayed' = stayed /\ calls' = calls
          /\ \A v \in Users : upc[v] \in Stays => upc'[v] \in Stays
      BY <2>7 DEF BindChnFails, TypeOK, Stays
    <3>2. \A v \in Users : upc[v] \in Stays => \A s \in Slots : Holds(s, v) => Holds(s, v)'
      BY <2>7 DEF BindChnFails, Holds
    <3> QED
      BY <3>1, <3>2, ServedKept DEF TypeOK
  <2>8. CASE GiveUp(u)
    <3>1. /\ gpc' = gpc /\ gi' = gi /\ gfn' = gfn /\ stayed' = stayed /\ calls' = calls
          /\ \A v \in Users : upc[v] \in Stays => upc'[v] \in Stays
      BY <2>8 DEF GiveUp, TypeOK, Stays
    <3>2. \A v \in Users : upc[v] \in Stays => \A s \in Slots : Holds(s, v) => Holds(s, v)'
      BY <2>8 DEF GiveUp, Holds
    <3> QED
      BY <3>1, <3>2, ServedKept DEF TypeOK
  <2>9. CASE StopSlot(u)
    BY <2>9 DEF StopSlot, TypeOK, Locks, Table, OwnSlot, OtherSlots, OneSlotEach, Owns, Holds, Unused, Fields, UsedSlots, Served, Passed
  <2>10. CASE StopCount(u)
    <3>1. /\ gpc' = gpc /\ gi' = gi /\ gfn' = gfn /\ stayed' = stayed /\ calls' = calls
          /\ \A v \in Users : upc[v] \in Stays => upc'[v] \in Stays
      BY <2>10 DEF StopCount, TypeOK, Stays
    <3>2. \A v \in Users : upc[v] \in Stays => \A s \in Slots : Holds(s, v) => Holds(s, v)'
      BY <2>10 DEF StopCount, Holds
    <3> QED
      BY <3>1, <3>2, ServedKept DEF TypeOK
  <2>11. CASE StopJoin(u)
    BY <2>11 DEF StopJoin, TypeOK, Locks, Table, OwnSlot, OtherSlots, OneSlotEach, Owns, Holds, Unused, Fields, UsedSlots, Served, Passed
  <2>12. CASE VencDeInit(u)
    <3>1. /\ gpc' = gpc /\ gi' = gi /\ gfn' = gfn /\ stayed' = stayed /\ calls' = calls
          /\ \A v \in Users : upc[v] \in Stays => upc'[v] \in Stays
      BY <2>12 DEF VencDeInit, TypeOK, Stays
    <3>2. \A v \in Users : upc[v] \in Stays => \A s \in Slots : Holds(s, v) => Holds(s, v)'
      BY <2>12 DEF VencDeInit, Holds
    <3> QED
      BY <3>1, <3>2, ServedKept DEF TypeOK
  <2> QED
    BY <1>1, <2>1, <2>2, <2>3, <2>4, <2>5, <2>6, <2>7, <2>8, <2>9, <2>10, <2>11, <2>12 DEF Asks, Returns
<1>2. CASE Thread
  <2>1. CASE Loop
    BY <2>1 DEF Loop, TypeOK, Locks, Table, OwnSlot, OtherSlots, OneSlotEach, Owns, Holds, Unused, Fields, UsedSlots, Served, Passed
  <2>2. CASE GetFrame
    BY <2>2, SlotNumbers DEF GetFrame, Running, NoCalls, TypeOK, Locks, Table, OwnSlot, OtherSlots, OneSlotEach, Owns, Holds, Unused, Fields, UsedSlots, Served, Passed
  <2>3. CASE GetTimeout
    BY <2>3 DEF GetTimeout, TypeOK, Locks, Table, OwnSlot, OtherSlots, OneSlotEach, Owns, Holds, Unused, Fields, UsedSlots, Served, Passed
  <2>4. CASE TestSlot
    <3>1. gpc = "test" /\ gi \in Slots /\ stayed' = stayed /\ slot' = slot /\ upc' = upc
      BY <2>4 DEF TestSlot, TypeOK
    <3> SUFFICES ASSUME gpc' \in {"test", "load", "call", "release"}, NEW v \in stayed
                 PROVE  \E s \in Slots :
                          /\ Holds(s, v) /\ upc[v] \in Stays
                          /\ calls'[v] = IF Passed(s)' THEN 1 ELSE 0
                          /\ gpc' = "load" => (gfn' = v <=> gi' = s)
      BY <3>1 DEF Served, Holds, Stays, Passed
    <3>2. PICK s \in Slots : /\ Holds(s, v) /\ upc[v] \in Stays
                             /\ calls[v] = IF s < gi THEN 1 ELSE 0
                             /\ gpc = "load" => (gfn = v <=> gi = s)
      BY <3>1 DEF Served, Stays, Passed
    <3>3. v \in Users /\ \A r \in Slots : slot[r].fn = v => r = s
      BY <3>2 DEF TypeOK, Table, OneSlotEach, Holds
    <3>4. calls'[v] = calls[v]
      BY <2>4 DEF TestSlot
    <3>5. CASE slot[gi].used /\ slot[gi].fn # None
      BY <2>4, <3>1, <3>2, <3>3, <3>4, <3>5 DEF TestSlot, Passed, Holds
    <3>6. CASE ~ (slot[gi].used /\ slot[gi].fn # None)
      <4>1. s # gi
        BY <3>2, <3>3, <3>6 DEF Holds
      <4>2. CASE gi + 1 \in Slots
        BY <2>4, <3>1, <3>2, <3>4, <3>6, <4>1, <4>2, SlotNumbers DEF TestSlot, NextSlot, Passed
      <4>3. CASE gi + 1 \notin Slots
        BY <2>4, <3>1, <3>2, <3>4, <3>6, <4>1, <4>3, SlotNumbers DEF TestSlot, NextSlot, Passed
      <4> QED
        BY <4>2, <4>3
    <3> QED
      BY <3>5, <3>6
  <2>5. CASE LoadSlot
    <3>1. gpc = "load" /\ gi \in Slots /\ stayed' = stayed /\ slot' = slot /\ upc' = upc
      BY <2>5 DEF LoadSlot, TypeOK
    <3> SUFFICES ASSUME gpc' \in {"test", "load", "call", "release"}, NEW v \in stayed
                 PROVE  \E s \in Slots :
                          /\ Holds(s, v) /\ upc[v] \in Stays
                          /\ calls'[v] = IF Passed(s)' THEN 1 ELSE 0
                          /\ gpc' = "load" => (gfn' = v <=> gi' = s)
      BY <3>1 DEF Served, Holds, Stays, Passed
    <3>2. PICK s \in Slots : /\ Holds(s, v) /\ upc[v] \in Stays
                             /\ calls[v] = IF s < gi THEN 1 ELSE 0
                             /\ gpc = "load" => (gfn = v <=> gi = s)
      BY <3>1 DEF Served, Stays, Passed
    <3>3. v \in Users /\ \A r \in Slots : slot[r].fn = v => r = s
      BY <3>2 DEF TypeOK, Table, OneSlotEach, Holds
    <3>4. PICK fn \in {gfn, slot[gi].fn} :
             /\ gpc' = IF fn = None THEN "crash" ELSE "call"
             /\ calls' = [w \in Users |-> calls[w] + (IF fn = w /\ w \in stayed THEN 1 ELSE 0)]
      BY <2>5 DEF LoadSlot
    <3>5. gpc' = "call" /\ gi' = gi
      BY <2>5, <3>4 DEF LoadSlot
    <3>6. fn = v <=> gi = s
      BY <3>1, <3>2, <3>3, <3>4 DEF Holds
    <3>7. calls'[v] = calls[v] + (IF gi = s THEN 1 ELSE 0)
      BY <3>3, <3>4, <3>6
    <3>8. calls'[v] = IF s <= gi THEN 1 ELSE 0
      BY <3>1, <3>2, <3>7, SlotNumbers
    <3> QED
      BY <3>2, <3>5, <3>8 DEF Passed
  <2>6. CASE CallReturns
    BY <2>6, SlotNumbers DEF CallReturns, NextSlot, TypeOK, Locks, Table, OwnSlot, OtherSlots, OneSlotEach, Owns, Holds, Unused, Fields, UsedSlots, Served, Passed
  <2>7. CASE ReleaseFrame
    BY <2>7 DEF ReleaseFrame, TypeOK, Locks, Table, OwnSlot, OtherSlots, OneSlotEach, Owns, Holds, Unused, Fields, UsedSlots, Served, Passed
  <2> QED
    BY <1>2, <2>1, <2>2, <2>3, <2>4, <2>5, <2>6, <2>7 DEF Thread
<1>3. CASE UNCHANGED vars
  BY <1>3 DEF vars, Served, Holds, Passed
<1> QED
  BY <1>1, <1>2, <1>3 DEF Next

-----------------------------------------------------------------------------
(* What holds of every channel                                             *)

LEMMA InitHolds == Init => IInv
<1> SUFFICES ASSUME Init PROVE IInv
  OBVIOUS
<1> USE VencAssumption DEF Init
<1>1. TypeOK
  <2>1. bGetBuffer \in BOOLEAN /\ Empty.used \in BOOLEAN
    BY Zenon DEF Empty
  <2>2. Empty \in [used : BOOLEAN, fn : Users \cup {None}, handle : Users \cup {None}]
    BY <2>1 DEF Empty
  <2>3. slot \in [Slots -> [used : BOOLEAN, fn : Users \cup {None}, handle : Users \cup {None}]]
    BY <2>2
  <2> QED
    BY <2>1, <2>3, SlotNumbers DEF TypeOK, NoCalls, Fields
<1>2. Locks /\ Alive /\ Served
  BY DEF Locks, Alive, Served
<1>3. Table
  <2>1. \A s \in Slots : ~ slot[s].used /\ slot[s].fn = None /\ slot[s].handle = None
    BY DEF Empty
  <2> QED
    BY <2>1 DEF Table, OwnSlot, OtherSlots, OneSlotEach, Owns, Unused
<1>4. Holders = {} /\ Counted = {}
  BY DEF Holders, Counted
<1>5. Counts
  BY <1>4, FS_EmptySet DEF Counts
<1> QED
  BY <1>1, <1>2, <1>3, <1>5 DEF IInv

\* TypeOK and what ties the table, the counts, the mutex, the thread and the
\* frame in its hand to the users' places hold in every state.
THEOREM Invariance == Spec => []IInv
<1>1. IInv /\ [Next]_vars => IInv'
  BY NextTypes, NextLocks, NextTable, NextCounts, NextAlive, NextServed DEF IInv
<1> QED
  BY InitHolds, <1>1, PTL DEF Spec

\* RKADK_MEDIA_GetVencMb reads a channel that exists, as long as no user gave up
\* with its callback in the table.
THEOREM ChannelIsThere == Spec => []ChannelOutlivesThread
<1>1. IInv => ChannelOutlivesThread
  <2> SUFFICES ASSUME IInv, Leaked = {}, gpc \notin {"none", "dead"}
               PROVE  initCnt > 0
    BY DEF ChannelOutlivesThread
  <2>1. CASE bGetBuffer
    <3>1. PICK u \in Counted : TRUE
      BY <2>1, Positive DEF IInv, Counts
    <3>2. upc[u] \in {"running", "clearing"}
      BY <3>1, VencAssumption DEF Counted, Leaked
    <3>3. u \in Holders
      BY <3>1, <3>2 DEF Counted, Holders
    <3> QED
      BY <3>3, Positive DEF IInv
  <2>2. CASE \E u \in Users : upc[u] = "joining"
    <3>1. Holders # {}
      BY <2>2 DEF Holders
    <3> QED
      BY <3>1, Positive DEF IInv
  <2> QED
    BY <2>1, <2>2 DEF IInv, Alive
<1> QED
  BY <1>1, Invariance, PTL

\* A user that stays registered while the thread hands out a frame gets it
\* once, though the thread reads the table without the mutex.
THEOREM ServedOnce == Spec => []EveryUserServedOnce
<1>1. IInv => EveryUserServedOnce
  BY DEF IInv, Served, Passed, EveryUserServedOnce
<1> QED
  BY <1>1, Invariance, PTL


-----------------------------------------------------------------------------
(* The corrected configuration                                             *)

LEMMA DstFpsInt ==
  ASSUME NEW cfg, IsCfg(cfg), NEW i \in DOMAIN cfg.stream
  PROVE  DstFps(cfg, i) \in Nat
  BY DEF DstFps, IsCfg, IsStream, Min2

\* Nothing of a stream is corrected but its rate, and that only above the sensor's.
LEMMA CorrectedStream ==
  ASSUME NEW cfg, IsCfg(cfg), NEW sensor \in Nat, NEW i \in DOMAIN cfg.stream
  PROVE  /\ Corrected(cfg, sensor).type = cfg.type
         /\ Corrected(cfg, sensor).multiple = cfg.multiple
         /\ \A f \in Attributes \ {"fps"} : Corrected(cfg, sensor).stream[i][f] = cfg.stream[i][f]
         /\ Corrected(cfg, sensor).stream[i].fps =
              IF DstFps(cfg, i) > sensor THEN sensor ELSE cfg.stream[i].fps
<1> DEFINE s == [j \in DOMAIN cfg.stream |->
                   IF DstFps(cfg, j) > sensor THEN [cfg.stream[j] EXCEPT !.fps = sensor] ELSE cfg.stream[j]]
<1>1. /\ Corrected(cfg, sensor).type = cfg.type
      /\ Corrected(cfg, sensor).multiple = cfg.multiple
      /\ Corrected(cfg, sensor).stream = s
  BY DEF IsCfg, Corrected
<1>2. DOMAIN cfg.stream[i] = Attributes
  BY DEF IsCfg, IsStream
<1>3. s[i] = IF DstFps(cfg, i) > sensor THEN [cfg.stream[i] EXCEPT !.fps = sensor] ELSE cfg.stream[i]
  OBVIOUS
<1> QED
  BY <1>1, <1>2, <1>3 DEF Attributes

\* The rate of the file after the correction is the rate a reset compares with.
LEMMA CorrectedFps ==
  ASSUME NEW cfg, IsCfg(cfg), NEW sensor \in Nat, LapseFits(cfg, sensor), NEW i \in DOMAIN cfg.stream
  PROVE  DstFps(Corrected(cfg, sensor), i) = Min2(DstFps(cfg, i), sensor)
<1>1. /\ Corrected(cfg, sensor).type = cfg.type
      /\ Corrected(cfg, sensor).multiple = cfg.multiple
      /\ Corrected(cfg, sensor).stream[i].fps =
           IF DstFps(cfg, i) > sensor THEN sensor ELSE cfg.stream[i].fps
  BY CorrectedStream
<1>2. DstFps(cfg, i) \in Nat
  BY DstFpsInt
<1>3. CASE cfg.type = "LAPSE"
  <2>1. DstFps(cfg, i) <= sensor
    BY <1>3 DEF LapseFits
  <2>2. Corrected(cfg, sensor).stream[i].fps = cfg.stream[i].fps
    BY <1>1, <1>2, <2>1
  <2> QED
    BY <1>1, <1>2, <2>1, <2>2 DEF DstFps, Min2
<1>4. CASE cfg.type # "LAPSE"
  <2>1. DstFps(cfg, i) = cfg.stream[i].fps
    BY <1>4 DEF DstFps
  <2>2. DstFps(Corrected(cfg, sensor), i) = Corrected(cfg, sensor).stream[i].fps
    BY <1>1, <1>4 DEF DstFps
  <2> QED
    BY <1>1, <1>2, <2>1, <2>2 DEF Min2
<1> QED
  BY <1>3, <1>4

-----------------------------------------------------------------------------
(* One encoder                                                             *)

\* An encoder that is given its attributes does not differ from them.
LEMMA EncoderFits ==
  ASSUME NEW a, NEW fps
  PROVE  ~Differs(Encoder(a, fps), a, fps)
  BY DEF Differs, VencAttrCmp, Encoder

\* Nor does one that is left as it is because it did not differ.
LEMMA ResetFits ==
  ASSUME NEW cfg, NEW sensor, NEW enc, NEW i \in DOMAIN enc
  PROVE  ~Differs(ResetVideo(cfg, sensor, enc)[i], cfg.stream[i], Min2(DstFps(cfg, i), sensor))
  BY EncoderFits DEF ResetVideo

\* An encoder that does not differ from a stream has what it would be given.
LEMMA SameAttributes ==
  ASSUME NEW e, IsEncoder(e), NEW a, IsStream(a), NEW fps, ~Differs(e, a, fps), NEW f \in Attributes \ {"rc"}
  PROVE  e[f] = Encoder(a, fps)[f]
<1>1. e.gop = IF a.codec = "MJPEG" THEN 0 ELSE a.gop
  BY DEF IsEncoder, Differs, VencAttrCmp, IsStream
<1> QED
  BY <1>1 DEF Differs, VencAttrCmp, Encoder, Attributes

-----------------------------------------------------------------------------
(* The promises                                                            *)

\* RKADK_RECORD_Reset is done with after one reset: ResetCheck finds nothing
\* more to do.
THEOREM Settles ==
  ASSUME NEW cfg, IsCfg(cfg), NEW sensor \in Nat, NEW enc, DOMAIN enc = DOMAIN cfg.stream,
         NEW rec, "type" \in DOMAIN rec
  PROVE  ResetSettles(cfg, sensor, enc, rec)
<1> DEFINE cfg2 == Corrected(cfg, sensor)
           enc2 == ResetVideo(cfg, sensor, enc)
           rec2 == ResetParam(cfg, rec)
<1> SUFFICES ASSUME LapseFits(cfg, sensor), NEW i \in DOMAIN enc
             PROVE  StreamCheck(cfg2, sensor, enc2, rec2, i) = 0
  <2>1. DOMAIN enc2 = DOMAIN enc
    BY DEF ResetVideo
  <2> QED
    BY <2>1 DEF ResetSettles, Unchanged
<1> DEFINE a == cfg.stream[i]
           fps == Min2(DstFps(cfg, i), sensor)
<1>1. ~Differs(enc2[i], a, fps)
  BY ResetFits
<1>2. \A f \in Attributes \ {"fps"} : cfg2.stream[i][f] = a[f]
  BY CorrectedStream
<1>3. ~Differs(enc2[i], cfg2.stream[i], fps)
  BY <1>1, <1>2 DEF Differs, VencAttrCmp, Attributes
<1>4. Min2(DstFps(cfg2, i), sensor) = fps
  <2>1. DstFps(cfg2, i) = fps
    BY CorrectedFps
  <2>2. DstFps(cfg, i) \in Nat
    BY DstFpsInt
  <2> QED
    BY <2>1, <2>2 DEF Min2
<1>5. cfg2.type = rec2.type
  BY CorrectedStream DEF ResetParam
<1> QED
  BY <1>3, <1>4, <1>5 DEF StreamCheck, Differs

\* After RKADK_RECORD_Reset the encoders have what RKADK_RECORD_Create would
\* have given them.
THEOREM LikeCreate ==
  ASSUME NEW cfg, IsCfg(cfg), NEW sensor \in Nat, NEW enc, DOMAIN enc = DOMAIN cfg.stream,
         \A i \in DOMAIN enc : IsEncoder(enc[i])
  PROVE  ResetIsCreate(cfg, sensor, enc)
<1> SUFFICES ASSUME LapseFits(cfg, sensor), NEW i \in DOMAIN enc, NEW f \in Attributes \ {"rc"}
             PROVE  ResetVideo(cfg, sensor, enc)[i][f] = Created(Corrected(cfg, sensor), i)[f]
  BY DEF ResetIsCreate
<1> DEFINE a == cfg.stream[i]
           fps == Min2(DstFps(cfg, i), sensor)
<1>1. ResetVideo(cfg, sensor, enc)[i][f] = Encoder(a, fps)[f]
  <2>1. CASE Differs(enc[i], a, fps)
    BY <2>1 DEF ResetVideo
  <2>2. CASE ~Differs(enc[i], a, fps)
    <3>1. IsStream(a) /\ IsEncoder(enc[i])
      BY DEF IsCfg
    <3>2. enc[i][f] = Encoder(a, fps)[f]
      BY <2>2, <3>1, SameAttributes
    <3> QED
      BY <2>2, <3>2 DEF ResetVideo
  <2> QED
    BY <2>1, <2>2
<1>2. Created(Corrected(cfg, sensor), i)[f] = Encoder(a, fps)[f]
  <2>1. \A g \in Attributes \ {"fps"} : Corrected(cfg, sensor).stream[i][g] = a[g]
    BY CorrectedStream
  <2>2. DstFps(Corrected(cfg, sensor), i) = fps
    BY CorrectedFps
  <2> QED
    BY <2>1, <2>2 DEF Created, Encoder, Attributes
<1> QED
  BY <1>1, <1>2

\* A reset that is carried out changes the size of no stream that shows a
\* picture in its picture, if the check of the streams came as far as that one.
THEOREM PipKeeps ==
  ASSUME NEW cfg, NEW sensor, NEW enc, DOMAIN enc \subseteq Int, NEW rec
  PROVE  PipKeepsSize(cfg, sensor, enc, rec)
<1> SUFFICES ASSUME ResetNeeded(cfg, sensor, enc, rec), NEW i \in DOMAIN enc, rec.pip[i],
                    \A j \in DOMAIN enc : j < i => StreamCheck(cfg, sensor, enc, rec, j) = 0
             PROVE  ResetVideo(cfg, sensor, enc)[i].size = enc[i].size
  BY DEF PipKeepsSize
<1> DEFINE a == cfg.stream[i]
           fps == Min2(DstFps(cfg, i), sensor)
<1>1. PICK k \in DOMAIN enc : /\ FirstToReset(cfg, sensor, enc, rec, k)
                              /\ StreamCheck(cfg, sensor, enc, rec, k) = 1
  BY DEF ResetNeeded
<1>2. StreamCheck(cfg, sensor, enc, rec, i) # -1
  <2>1. CASE i < k
    BY <1>1, <2>1 DEF FirstToReset
  <2>2. CASE i = k
    BY <1>1, <2>2
  <2>3. CASE k < i
    BY <1>1, <2>3
  <2> QED
    BY <2>1, <2>2, <2>3
<1>3. enc[i].size = a.size
  BY <1>2 DEF StreamCheck
<1> QED
  BY <1>3 DEF ResetVideo, Encoder

\* The reset of a preview or live encoder is done with, too, whatever it was.
THEOREM VideoSettles ==
  ASSUME NEW a
  PROVE  VencResetCheck(VideoReset(a), a) = 0
  BY EncoderFits DEF VencResetCheck, VideoReset, Encoder

-----------------------------------------------------------------------------

(***************************************************************************)
(* Module Param, for any streams, nodes, values and number of threads.     *)
(*                                                                         *)
(* The argument about the files: one operation is under way at a time      *)
(* (Alone), and what a section of a file lacks of the memory is still owed *)
(* by its list (Debts), where the file in hand counts as written: it has   *)
(* been read, and will be written whole.  The default files are copied     *)
(* before anything is saved, so a copy overwrites nothing (CopiesFirst).   *)
(***************************************************************************)
Busy(t)    == th[t].pc # "idle"
Writing(t) == th[t].pc \in {"open", "dump"}

\* A file as it is once the file in hand has been written, and what is left then.
Written(t)   == [s \in Sections |-> IF Writing(t) /\ FileOf(s) = Target(t) THEN th[t].buf[s] ELSE InFiles[s]]
Remaining(t) == IF Writing(t) THEN Rest(t) ELSE th[t].todo

\* An entry that writes section s; what a list owes.
Covers(e, s) == \/ e[1] = "save" /\ s \in e[2]
                \/ e[1] = "copy" /\ e[2] = FileOf(s)
Owed(list, s) == \E e \in ToSet(list) : Covers(e, s)

\* The default files are copied before anything else.
CopiesFirst(list) == \A i, j \in DOMAIN list : i <= j /\ list[j][1] = "copy" => list[i][1] = "copy"
NoCopy(list)      == \A e \in ToSet(list) : e[1] # "copy"

\* What a section of a file holds, what a list holds, what a file holds.
Value == Nat \cup {Missing}
Entry == ({"save"} \X (SUBSET Sections)) \cup ({"copy"} \X FileNames) \cup ({"match"} \X StreamSet)
Ini   == UNION {[Within(f) -> Value] : f \in FileNames}

Operation == {"none", "init", "set", "stream res", "res", "default"}

\* Nothing empty is saved, and a thread with a file in hand has it from the
\* first entry of its list.
ParamTypes ==
  /\ mem \in [Sections -> Nat] /\ kept \in [Sections -> Nat]
  /\ vi \in [StreamSet -> [node : Nat, size : Nat]]
  /\ files \in [FileNames -> Ini] /\ \A f \in FileNames : files[f] \in [Within(f) -> Value]
  /\ hasDefaults \in BOOLEAN /\ bInit \in BOOLEAN
  /\ th \in [Threads -> [pc : {"idle", "work", "open", "dump", "again"}, todo : Seq(Entry), buf : Ini, op : Operation]]
  /\ \A t \in Threads :
       /\ \A e \in ToSet(th[t].todo) : e[1] = "save" => e[2] # {}
       /\ Writing(t) => /\ th[t].todo # <<>> /\ Job(t)[1] \in {"save", "copy"}
                        /\ th[t].buf \in [Within(Target(t)) -> Value]

\* One operation at a time; it holds the mutex until it only has to unlock
\* again, and before bInit it is the initialisation.
Alone ==
  /\ \A t, u \in Threads : Busy(t) /\ Busy(u) => t = u
  /\ \A t \in Threads :
       /\ th[t].pc \in {"work", "open", "dump"} => mutexLock = t
       /\ th[t].pc = "again" => th[t].op = "res" /\ th[t].todo = <<>>
       /\ Busy(t) /\ ~bInit => th[t].op = "init"

\* What a section of a file lacks is still owed; copies that are still owed are
\* of what the memory holds.
Debts ==
  /\ bInit /\ (\A t \in Threads : ~Busy(t)) => InFiles = mem
  /\ \A t \in Threads : Busy(t) =>
       /\ \A s \in Sections : Written(t)[s] = mem[s] \/ Owed(Remaining(t), s)
       /\ CopiesFirst(th[t].todo)
       /\ NoCopy(th[t].todo) \/ mem = Defaults

Loaded == bInit \/ \E t \in Threads : Busy(t)

\* Settings in use are valid, and with the default files of their version.
Valid ==
  Loaded => (\A s \in Sections : mem[s] # Invalid) /\ (hasDefaults => mem["version"] = Version)

\* What the memory held when the program was killed between operations is in the
\* files until they are loaded, valid and of the default files' version, so
\* that nothing is repaired, and then in memory (but for the nodes, which are
\* matched anew).
Keeps ==
  kept # Zeroed /\ hasDefaults =>
    /\ ~Loaded => InFiles = kept /\ (\A s \in Sections : kept[s] # Invalid) /\ kept["version"] = Version
    /\ Loaded => \A s \in Sections \ NodeSet : mem[s] = kept[s]

PInv == ParamTypes /\ Alone /\ Debts /\ Valid /\ Keeps

\* A stream that takes its size from a node is named by one node.
OneNode == \A s \in Direct : \E n \in DOMAIN Nodes : Own(s) = {n}

Pending(s) == \E t \in Threads : Busy(t) /\ <<"match", s>> \in ToSet(th[t].todo)

\* The stream has the copy of its node, or is still to be matched; a node has the
\* size of one of its streams, or such a stream is still to be matched.
Copies == Loaded => \A s \in Direct : Pending(s) \/ (Own(s) = {vi[s].node} /\ vi[s].size = mem[s])
Sized  == Loaded => \A s \in Direct : \E r \in Direct :
             /\ Own(r) = Own(s)
             /\ Pending(r) \/ \A n \in Own(s) : mem[Nodes[n]] = mem[r]

-----------------------------------------------------------------------------
(* What is in a list                                                       *)

\* What a list holds is its first entry and the rest.
LEMMA ItemsOfTail ==
  ASSUME NEW S, NEW q \in Seq(S), q # <<>>
  PROVE  ToSet(q) = {Head(q)} \cup ToSet(Tail(q)) /\ Tail(q) \in Seq(S) /\ Head(q) \in S
<1>1. Len(q) \in Nat \ {0} /\ DOMAIN q = 1 .. Len(q)
  OBVIOUS
<1>2. Len(Tail(q)) = Len(q) - 1 /\ DOMAIN Tail(q) = 1 .. (Len(q) - 1) /\ Head(q) = q[1]
  OBVIOUS
<1>3. \A i \in 1 .. (Len(q) - 1) : Tail(q)[i] = q[i + 1]
  OBVIOUS
<1>4. ASSUME NEW i \in DOMAIN q PROVE q[i] \in {Head(q)} \cup ToSet(Tail(q))
  <2>1. CASE i = 1
    BY <2>1, <1>2
  <2>2. CASE i # 1
    <3>1. i - 1 \in 1 .. (Len(q) - 1) /\ i = (i - 1) + 1
      BY <2>2, <1>1
    <3>2. Tail(q)[i - 1] = q[i]
      BY <3>1, <1>3
    <3> QED
      BY <3>1, <3>2, <1>2 DEF ToSet
  <2> QED
    BY <2>1, <2>2
<1>5. ASSUME NEW i \in DOMAIN Tail(q) PROVE Tail(q)[i] \in ToSet(q)
  <2>1. i + 1 \in DOMAIN q /\ Tail(q)[i] = q[i + 1]
    BY <1>1, <1>2, <1>3
  <2> QED
    BY <2>1 DEF ToSet
<1>6. Head(q) \in ToSet(q)
  BY <1>1, <1>2 DEF ToSet
<1>7. ToSet(q) \subseteq {Head(q)} \cup ToSet(Tail(q))
  BY <1>4 DEF ToSet
<1>8. ToSet(Tail(q)) \subseteq ToSet(q)
  BY <1>5 DEF ToSet
<1> QED
  BY <1>6, <1>7, <1>8

\* What two lists hold together.
LEMMA ItemsOfConcat ==
  ASSUME NEW S, NEW p \in Seq(S), NEW q \in Seq(S)
  PROVE  ToSet(p \o q) = ToSet(p) \cup ToSet(q) /\ p \o q \in Seq(S)
<1>1. /\ Len(p \o q) = Len(p) + Len(q) /\ p \o q \in Seq(S)
      /\ DOMAIN p = 1 .. Len(p) /\ DOMAIN q = 1 .. Len(q) /\ DOMAIN (p \o q) = 1 .. (Len(p) + Len(q))
      /\ Len(p) \in Nat /\ Len(q) \in Nat
  OBVIOUS
<1>2. \A i \in 1 .. (Len(p) + Len(q)) : (p \o q)[i] = IF i <= Len(p) THEN p[i] ELSE q[i - Len(p)]
  OBVIOUS
<1>3. ASSUME NEW i \in DOMAIN (p \o q) PROVE (p \o q)[i] \in ToSet(p) \cup ToSet(q)
  <2>1. CASE i <= Len(p)
    <3>1. i \in DOMAIN p /\ (p \o q)[i] = p[i]
      BY <2>1, <1>1, <1>2
    <3> QED
      BY <3>1 DEF ToSet
  <2>2. CASE ~(i <= Len(p))
    <3>1. i - Len(p) \in DOMAIN q /\ (p \o q)[i] = q[i - Len(p)]
      BY <2>2, <1>1, <1>2
    <3> QED
      BY <3>1 DEF ToSet
  <2> QED
    BY <2>1, <2>2
<1>4. ASSUME NEW i \in DOMAIN p PROVE p[i] \in ToSet(p \o q)
  <2>1. i \in DOMAIN (p \o q) /\ (p \o q)[i] = p[i]
    BY <1>1, <1>2
  <2> QED
    BY <2>1 DEF ToSet
<1>5. ASSUME NEW i \in DOMAIN q PROVE q[i] \in ToSet(p \o q)
  <2>1. i + Len(p) \in DOMAIN (p \o q) /\ ~(i + Len(p) <= Len(p)) /\ (i + Len(p)) - Len(p) = i
    BY <1>1
  <2>2. (p \o q)[i + Len(p)] = q[i]
    BY <2>1, <1>1, <1>2
  <2> QED
    BY <2>1, <2>2 DEF ToSet
<1>6. ToSet(p \o q) \subseteq ToSet(p) \cup ToSet(q)
  BY <1>3 DEF ToSet
<1>7. ToSet(p) \subseteq ToSet(p \o q) /\ ToSet(q) \subseteq ToSet(p \o q)
  BY <1>4, <1>5 DEF ToSet
<1> QED
  BY <1>1, <1>6, <1>7

\* What the list of a save holds: one entry, or none.
LEMMA ItemsOfSaves ==
  ASSUME NEW set \in SUBSET Sections
  PROVE  /\ Saves(set) \in Seq(Entry)
         /\ ToSet(Saves(set)) = IF set = {} THEN {} ELSE {<<"save", set>>}
<1>1. CASE set = {}
  BY <1>1 DEF Saves, ToSet
<1>2. CASE set # {}
  <2>1. Saves(set) = << <<"save", set>> >> /\ <<"save", set>> \in Entry
    BY <1>2 DEF Saves, Entry
  <2>2. ToSet(Saves(set)) = {<<"save", set>>}
    BY <2>1 DEF ToSet
  <2> QED
    BY <1>2, <2>1, <2>2
<1> QED
  BY <1>1, <1>2

\* What a list of streams to be matched holds.
LEMMA ItemsOfMatches ==
  ASSUME NEW q \in Seq(StreamSet)
  PROVE  /\ Matches(q) \in Seq(Entry)
         /\ ToSet(Matches(q)) = {<<"match", s>> : s \in ToSet(q)}
<1>1. DOMAIN q = 1 .. Len(q) /\ Len(q) \in Nat /\ \A i \in DOMAIN q : q[i] \in StreamSet
  OBVIOUS
<1>2. \A i \in DOMAIN q : <<"match", q[i]>> \in Entry
  BY <1>1 DEF Entry
<1>3. Matches(q) \in [1 .. Len(q) -> Entry]
  BY <1>1, <1>2 DEF Matches
<1>4. Matches(q) \in Seq(Entry)
  BY <1>1, <1>3
<1>5. DOMAIN Matches(q) = DOMAIN q /\ \A i \in DOMAIN q : Matches(q)[i] = <<"match", q[i]>>
  BY DEF Matches
<1>6. ToSet(Matches(q)) = {<<"match", s>> : s \in ToSet(q)}
  BY <1>5, Zenon DEF ToSet
<1> QED
  BY <1>4, <1>6

\* The rest of a list has its copies first too.
LEMMA CopiesInTail ==
  ASSUME NEW S, NEW q \in Seq(S), q # <<>>, CopiesFirst(q)
  PROVE  CopiesFirst(Tail(q))
<1>1. /\ DOMAIN q = 1 .. Len(q) /\ Len(q) \in Nat /\ DOMAIN Tail(q) = 1 .. (Len(q) - 1)
      /\ \A i \in 1 .. (Len(q) - 1) : Tail(q)[i] = q[i + 1]
  OBVIOUS
<1>2. ASSUME NEW i \in DOMAIN Tail(q), NEW j \in DOMAIN Tail(q), i <= j, Tail(q)[j][1] = "copy"
      PROVE  Tail(q)[i][1] = "copy"
  <2>1. i + 1 \in DOMAIN q /\ j + 1 \in DOMAIN q /\ i + 1 <= j + 1
    BY <1>1, <1>2
  <2>2. q[j + 1][1] = "copy" => q[i + 1][1] = "copy"
    BY <2>1 DEF CopiesFirst
  <2> QED
    BY <1>1, <1>2, <2>2
<1> QED
  BY <1>2 DEF CopiesFirst

\* A list without copies has them first.
LEMMA NoCopyIsFirst ==
  ASSUME NEW S, NEW q \in Seq(S), NoCopy(q)
  PROVE  CopiesFirst(q)
BY DEF NoCopy, CopiesFirst, ToSet

\* A list without copies may follow one with its copies first.
LEMMA CopiesBefore ==
  ASSUME NEW S, NEW p \in Seq(S), NEW q \in Seq(S), CopiesFirst(p), NoCopy(q)
  PROVE  CopiesFirst(p \o q)
<1>1. /\ DOMAIN p = 1 .. Len(p) /\ DOMAIN q = 1 .. Len(q) /\ DOMAIN (p \o q) = 1 .. (Len(p) + Len(q))
      /\ Len(p) \in Nat /\ Len(q) \in Nat
  OBVIOUS
<1>2. \A i \in 1 .. (Len(p) + Len(q)) : (p \o q)[i] = IF i <= Len(p) THEN p[i] ELSE q[i - Len(p)]
  OBVIOUS
<1> SUFFICES ASSUME NEW i \in DOMAIN (p \o q), NEW j \in DOMAIN (p \o q), i <= j, (p \o q)[j][1] = "copy"
             PROVE  (p \o q)[i][1] = "copy"
  BY DEF CopiesFirst
<1>3. j <= Len(p)
  <2> SUFFICES ASSUME ~(j <= Len(p)) PROVE FALSE
    OBVIOUS
  <2>1. j - Len(p) \in DOMAIN q /\ (p \o q)[j] = q[j - Len(p)]
    BY <1>1, <1>2
  <2> QED
    BY <2>1 DEF NoCopy, ToSet
<1>4. i \in DOMAIN p /\ j \in DOMAIN p /\ (p \o q)[i] = p[i] /\ (p \o q)[j] = p[j]
  BY <1>1, <1>2, <1>3
<1> QED
  BY <1>4 DEF CopiesFirst

\* Behind a save or a match there is no copy.
LEMMA NoCopyBehind ==
  ASSUME NEW S, NEW q \in Seq(S), q # <<>>, CopiesFirst(q), Head(q)[1] # "copy"
  PROVE  NoCopy(q)
<1>1. DOMAIN q = 1 .. Len(q) /\ Len(q) \in Nat \ {0} /\ Head(q) = q[1]
  OBVIOUS
<1>2. ASSUME NEW i \in DOMAIN q PROVE q[i][1] # "copy"
  <2>1. 1 \in DOMAIN q /\ 1 <= i
    BY <1>1
  <2> QED
    BY <1>1, <2>1 DEF CopiesFirst
<1> QED
  BY <1>2 DEF NoCopy, ToSet

-----------------------------------------------------------------------------
(* Sections and the files they are in                                      *)

\* Every name is a section, in the file that FileOf says.
LEMMA Names ==
  /\ {"version", "common", "sensor", "time", "attr"} \subseteq Sections
  /\ StreamSet \subseteq Sections /\ NodeSet \subseteq Sections
  /\ Streams \in Seq(StreamSet) /\ ToSet(Streams) = StreamSet
  /\ \A s \in Sections : FileOf(s) \in FileNames /\ s \in Within(FileOf(s))
  /\ \A n \in DOMAIN Nodes : Nodes[n] \in NodeSet
  /\ DOMAIN Nodes \subseteq Nat
<1>1. {"version", "common", "sensor", "time", "attr"} \subseteq Sections /\ StreamSet \subseteq Sections /\ NodeSet \subseteq Sections
  BY DEF Sections, GlobalSections, SensorSections
<1>2. Streams \in Seq(StreamSet) /\ ToSet(Streams) = StreamSet
  BY ParamAssumption DEF StreamSet, ToSet
<1>3. \A s \in Sections : FileOf(s) \in FileNames /\ s \in Within(FileOf(s))
  BY DEF FileOf, FileNames, Within
<1>4. \A n \in DOMAIN Nodes : Nodes[n] \in NodeSet
  BY DEF NodeSet, ToSet
<1>5. DOMAIN Nodes \subseteq Nat
  BY ParamAssumption
<1> QED
  BY <1>1, <1>2, <1>3, <1>4, <1>5

\* What the files hold, section by section.
LEMMA StoredType ==
  ASSUME ParamTypes
  PROVE  InFiles \in [Sections -> Value]
<1>1. ASSUME NEW s \in Sections PROVE files[FileOf(s)][s] \in Value
  BY Names DEF ParamTypes
<1> QED
  BY <1>1 DEF InFiles

\* What an operation may begin with: valid settings, and what the files do not
\* hold of them is to be written.
Sound(a) ==
  /\ a \in [mem : [Sections -> Nat \ {Invalid}], todo : Seq(Entry)]
  /\ hasDefaults => a.mem["version"] = Version
  /\ \A e \in ToSet(a.todo) : e[1] = "save" => e[2] # {}
  /\ CopiesFirst(a.todo)
  /\ NoCopy(a.todo) \/ a.mem = Defaults
  /\ \A s \in Sections : InFiles[s] = a.mem[s] \/ Owed(a.todo, s)

\* An operation that begins so keeps the invariant.
LEMMA LockedHolds ==
  ASSUME PInv, NEW t \in Threads, NEW op \in Operation, NEW a, Sound(a), Locked(t, op, a),
         \A u \in Threads : ~Busy(u), op = "init" \/ bInit, kept' \in [Sections -> Nat],
         kept' # Zeroed /\ hasDefaults => \A s \in Sections \ NodeSet : a.mem[s] = kept'[s],
         UNCHANGED <<vi, files, hasDefaults, bInit>>
  PROVE  PInv'
<1>1. /\ th \in [Threads -> [pc : {"idle", "work", "open", "dump", "again"}, todo : Seq(Entry), buf : Ini, op : Operation]]
      /\ EmptyIni("global") \in Ini
  <2>1. EmptyIni("global") \in [Within("global") -> Value] /\ "global" \in FileNames
    BY DEF EmptyIni, Value, FileNames, Missing
  <2> QED
    BY <2>1 DEF PInv, ParamTypes, Ini
<1>2. /\ th'[t].pc = "work" /\ th'[t].todo = a.todo /\ th'[t].op = op
      /\ \A u \in Threads : u # t => th'[u] = th[u]
  BY <1>1 DEF Locked, Idle
<1>3. \A u \in Threads : u # t => th'[u].pc = "idle"
  BY <1>2 DEF Busy
<1>4. th' \in [Threads -> [pc : {"idle", "work", "open", "dump", "again"}, todo : Seq(Entry), buf : Ini, op : Operation]]
  <2>1. [Idle EXCEPT !.pc = "work", !.todo = a.todo, !.op = op] \in
          [pc : {"idle", "work", "open", "dump", "again"}, todo : Seq(Entry), buf : Ini, op : Operation]
    BY <1>1 DEF Idle, Sound, Operation
  <2> QED
    BY <2>1, <1>1 DEF Locked
<1>5. ParamTypes'
  <2>1. mem' \in [Sections -> Nat] /\ mem' = a.mem
    BY DEF Locked, Sound
  <2>2. \A u \in Threads : ~Writing(u)'
    BY <1>2, <1>3 DEF Writing
  <2>3. \A u \in Threads : \A e \in ToSet(th'[u].todo) : e[1] = "save" => e[2] # {}
    BY <1>2 DEF PInv, ParamTypes, Sound
  <2> QED
    BY <1>4, <2>1, <2>2, <2>3 DEF PInv, ParamTypes
<1>6. Alone'
  BY <1>2, <1>3 DEF Alone, Busy, Locked
<1>7. Debts'
  <2>1. Busy(t)' /\ \A u \in Threads : Busy(u)' => u = t
    BY <1>2, <1>3 DEF Busy
  <2>2. InFiles' = InFiles /\ mem' = a.mem /\ ~Writing(t)'
    BY <1>2 DEF InFiles, Locked, Writing
  <2>3. ASSUME NEW s \in Sections PROVE Written(t)'[s] = mem'[s] \/ Owed(Remaining(t)', s)
    <3>1. Written(t)'[s] = InFiles[s]
      BY <2>2 DEF Written
    <3>2. Remaining(t)' = a.todo
      BY <2>2, <1>2 DEF Remaining
    <3> QED
      BY <2>2, <3>1, <3>2 DEF Sound
  <2>4. CopiesFirst(th'[t].todo) /\ (NoCopy(th'[t].todo) \/ mem' = Defaults)
    BY <1>2, <2>2 DEF Sound
  <2> QED
    BY <2>1, <2>3, <2>4 DEF Debts
<1>8. Valid'
  BY DEF Valid, Sound, Locked
<1>9. Keeps'
  <2>1. Loaded' /\ mem' = a.mem
    BY <1>2 DEF Loaded, Busy, Locked
  <2>2. Zeroed' = Zeroed
    BY DEF Zeroed
  <2> QED
    BY <2>1, <2>2 DEF Keeps
<1> QED
  BY <1>5, <1>6, <1>7, <1>8, <1>9 DEF PInv

-----------------------------------------------------------------------------
(* Where an operation begins                                               *)

\* No call is made while another is under way.
LEMMA Free ==
  ASSUME PInv, Careful, NEW t \in Threads, NEW op, NEW a, Call(t, op, a)
  PROVE  \A u \in Threads : ~Busy(u)
<1> SUFFICES ASSUME NEW u \in Threads, Busy(u) PROVE FALSE
  OBVIOUS
<1>1. mutexLock = Nobody /\ Nobody \notin Threads /\ ("res" # th[u].op \/ th[u].pc = "idle")
  BY ParamAssumption DEF Call, Locked
<1>2. th[u].pc = "again"
  BY <1>1 DEF PInv, Alone, ParamTypes, Busy
<1> QED
  BY <1>1, <1>2 DEF PInv, Alone

\* So does every call of the application.
LEMMA CallHolds ==
  ASSUME PInv, Careful, NEW t \in Threads, NEW op \in Operation, NEW a, Sound(a), Call(t, op, a)
  PROVE  PInv'
<1>1. \A u \in Threads : ~Busy(u)
  BY Free
<1>2. kept' = Zeroed /\ Zeroed \in [Sections -> Nat]
  BY DEF Call, Zeroed, Invalid
<1>3. Locked(t, op, a) /\ bInit /\ UNCHANGED <<vi, files, hasDefaults, bInit>>
  BY DEF Call
<1> QED
  BY <1>1, <1>2, <1>3, LockedHolds

\* Between operations the files are up to date.
LEMMA NowIsSound ==
  ASSUME PInv, bInit, \A u \in Threads : ~Busy(u)
  PROVE  Sound(Now)
<1>1. InFiles = mem
  BY DEF PInv, Debts
<1>2. Loaded /\ mem \in [Sections -> Nat]
  BY DEF Loaded, PInv, ParamTypes
<1>3. mem \in [Sections -> Nat \ {Invalid}] /\ (hasDefaults => mem["version"] = Version)
  BY <1>2 DEF PInv, Valid
<1>4. Now = [mem |-> mem, todo |-> <<>>] /\ Now.mem = mem /\ Now.todo = <<>> /\ ToSet(<<>>) = {}
  BY DEF Now, ToSet
<1>5. Now.todo \in Seq(Entry) /\ CopiesFirst(Now.todo) /\ NoCopy(Now.todo)
  BY <1>4 DEF CopiesFirst, NoCopy
<1> QED
  BY <1>1, <1>3, <1>4, <1>5 DEF Sound

\* A section is set and saved.
LEMMA SettingIsSound ==
  ASSUME PInv, bInit, \A u \in Threads : ~Busy(u),
         NEW s \in Sections, s # "version", NEW v \in Nat \ {Invalid}
  PROVE  Sound(Change(s, v))
<1> DEFINE a == Change(s, v)
<1>1. InFiles = mem
  BY DEF PInv, Debts
<1>2. Loaded /\ mem \in [Sections -> Nat]
  BY DEF Loaded, PInv, ParamTypes
<1>3. mem \in [Sections -> Nat \ {Invalid}] /\ (hasDefaults => mem["version"] = Version)
  BY <1>2 DEF PInv, Valid
<1>4. a = [mem |-> [mem EXCEPT ![s] = v], todo |-> Saves({s})]
  BY DEF Change
<1> HIDE DEF a
<1>5. a.mem = [mem EXCEPT ![s] = v] /\ a.todo = Saves({s})
  BY <1>4
<1>12. a.mem \in [Sections -> Nat \ {Invalid}] /\ (hasDefaults => a.mem["version"] = Version)
  BY <1>3, <1>5, Names
<1>6. a.todo \in Seq(Entry) /\ ToSet(a.todo) = {<<"save", {s}>>}
  <2>1. Saves({s}) \in Seq(Entry) /\ ToSet(Saves({s})) = IF {s} = {} THEN {} ELSE {<<"save", {s}>>}
    <3>1. {s} \in SUBSET Sections
      OBVIOUS
    <3> QED
      BY <3>1, ItemsOfSaves, Zenon
  <2>2. {s} # {}
    OBVIOUS
  <2> QED
    BY <2>1, <2>2, <1>5
<1>14. a \in [mem : [Sections -> Nat \ {Invalid}], todo : Seq(Entry)]
  BY <1>4, <1>5, <1>6, <1>12
<1>7. NoCopy(a.todo)
  BY <1>6 DEF NoCopy
<1>8. CopiesFirst(a.todo)
  BY <1>6, <1>7, NoCopyIsFirst
<1>9. \A r \in Sections : InFiles[r] = a.mem[r] \/ Owed(a.todo, r)
  <2> SUFFICES ASSUME NEW r \in Sections PROVE InFiles[r] = a.mem[r] \/ Owed(a.todo, r)
    OBVIOUS
  <2>1. CASE r = s
    BY <2>1, <1>6 DEF Owed, Covers
  <2>2. CASE r # s
    BY <2>2, <1>1, <1>2, <1>5
  <2> QED
    BY <2>1, <2>2
<1>10. \A e \in ToSet(a.todo) : e[1] = "save" => e[2] # {}
  BY <1>6
<1>11. Sound(a)
  BY <1>7, <1>8, <1>9, <1>10, <1>12, <1>14 DEF Sound
<1> QED
  BY <1>11 DEF a

\* Streams to be matched come after what is to be saved.
LEMMA MatchesAreSound ==
  ASSUME NEW a, Sound(a), NEW q \in Seq(StreamSet)
  PROVE  Sound(Then(a, q))
<1> DEFINE b == Then(a, q)
<1>1. a.todo \in Seq(Entry) /\ Matches(q) \in Seq(Entry) /\ a.mem \in [Sections -> Nat \ {Invalid}]
  BY ItemsOfMatches DEF Sound
<1>2. b.mem = a.mem /\ b.todo = a.todo \o Matches(q) /\ b = [mem |-> b.mem, todo |-> b.todo]
  BY DEF Then
<1> HIDE DEF b
<1>3. b.todo \in Seq(Entry) /\ ToSet(b.todo) = ToSet(a.todo) \cup ToSet(Matches(q))
  BY <1>1, <1>2, ItemsOfConcat
<1>4. \A e \in ToSet(Matches(q)) : e[1] = "match"
  BY ItemsOfMatches
<1>5. \A s \in Sections : InFiles[s] = b.mem[s] \/ Owed(b.todo, s)
  BY <1>2, <1>3 DEF Sound, Owed
<1>6. \A e \in ToSet(b.todo) : e[1] = "save" => e[2] # {}
  BY <1>3, <1>4 DEF Sound
<1>7. NoCopy(b.todo) \/ b.mem = Defaults
  BY <1>2, <1>3, <1>4 DEF Sound, NoCopy
<1>8. CopiesFirst(b.todo)
  BY <1>1, <1>2, <1>4, CopiesBefore DEF Sound, NoCopy
<1>9. Sound(b)
  BY <1>1, <1>2, <1>3, <1>5, <1>6, <1>7, <1>8 DEF Sound
<1> QED
  BY <1>9 DEF b

\* RKADK_PARAM_SetCamParam and the like.
LEMMA SettingHolds ==
  ASSUME PInv, Careful, NEW t \in Threads,
         NEW sections \in SUBSET {"common", "sensor", "time", "attr"}, Setting(t, sections)
  PROVE  PInv'
<1>1. PICK s \in sections, v \in Values : Call(t, "set", IF mem[s] = v THEN Now ELSE Change(s, v))
  BY DEF Setting
<1>2. bInit /\ \A u \in Threads : ~Busy(u)
  BY <1>1, Free DEF Call
<1>3. s \in Sections /\ s # "version" /\ v \in Nat \ {Invalid}
  BY Names, ParamAssumption
<1>4. Sound(Now) /\ Sound(Change(s, v))
  BY <1>2, <1>3, NowIsSound, SettingIsSound
<1>7. "set" \in Operation
  BY DEF Operation
<1>5. CASE mem[s] = v
  <2>1. Call(t, "set", Now)
    BY <1>1, <1>5
  <2> QED
    BY <2>1, <1>4, <1>7, CallHolds
<1>6. CASE mem[s] # v
  <2>1. Call(t, "set", Change(s, v))
    BY <1>1, <1>6
  <2> QED
    BY <2>1, <1>4, <1>7, CallHolds
<1> QED
  BY <1>5, <1>6

\* The streams matched together are streams.
LEMMA TogetherType ==
  ASSUME NEW s \in StreamSet
  PROVE  Together(s) \in Seq(StreamSet) /\ s \in ToSet(Together(s))
<1>1. CASE s \in {"main", "sub"} /\ {"main", "sub"} \subseteq StreamSet
  <2>1. Together(s) = <<"main", "sub">> /\ "main" \in StreamSet /\ "sub" \in StreamSet
    BY <1>1 DEF Together
  <2>2. DOMAIN Together(s) = 1 .. 2 /\ Together(s)[1] = "main" /\ Together(s)[2] = "sub"
    BY <2>1
  <2> QED
    BY <1>1, <2>1, <2>2 DEF ToSet
<1>2. CASE ~(s \in {"main", "sub"} /\ {"main", "sub"} \subseteq StreamSet)
  <2>1. Together(s) = <<s>>
    BY <1>2 DEF Together
  <2> QED
    BY <2>1 DEF ToSet
<1> QED
  BY <1>1, <1>2

\* PARAM_TYPE_STREAM_RES and PARAM_TYPE_RES.
LEMMA StreamResolutionHolds ==
  ASSUME PInv, Careful, NEW t \in Threads, NEW op \in Operation, SetStreamResolution(t, op)
  PROVE  PInv'
<1>1. PICK s \in Resizable, size \in Sizes :
        Call(t, op, IF s \in Direct THEN Then(Change(s, size), Together(s)) ELSE Change(s, size))
  BY DEF SetStreamResolution
<1>2. bInit /\ \A u \in Threads : ~Busy(u)
  BY <1>1, Free DEF Call
<1>3. s \in Sections /\ s # "version" /\ size \in Nat \ {Invalid} /\ s \in StreamSet
  BY Names, ParamAssumption
<1>4. Sound(Change(s, size)) /\ Together(s) \in Seq(StreamSet)
  BY <1>2, <1>3, SettingIsSound, TogetherType
<1>5. Sound(Then(Change(s, size), Together(s)))
  BY <1>4, MatchesAreSound
<1>6. CASE s \in Direct
  <2>1. Call(t, op, Then(Change(s, size), Together(s)))
    BY <1>1, <1>6
  <2> QED
    BY <2>1, <1>5, CallHolds
<1>7. CASE s \notin Direct
  <2>1. Call(t, op, Change(s, size))
    BY <1>1, <1>7
  <2> QED
    BY <2>1, <1>4, CallHolds
<1> QED
  BY <1>6, <1>7

\* The default files, where they exist.
LEMMA LoadDefaultIsSound ==
  Sound(LoadDefault)
<1> DEFINE q == << <<"copy", "global">>, <<"copy", "sensor">> >>
<1>1. LoadDefault = [mem |-> Defaults, todo |-> q] /\ LoadDefault.mem = Defaults /\ LoadDefault.todo = q
  BY DEF LoadDefault
<1>2. <<"copy", "global">> \in Entry /\ <<"copy", "sensor">> \in Entry
  BY DEF Entry, FileNames
<1>3. q \in Seq(Entry) /\ DOMAIN q = 1 .. 2 /\ q[1] = <<"copy", "global">> /\ q[2] = <<"copy", "sensor">>
  BY <1>2
<1>4. ToSet(q) = {<<"copy", "global">>, <<"copy", "sensor">>}
  BY <1>3 DEF ToSet
<1> HIDE DEF q
<1>5. CopiesFirst(q)
  BY <1>3 DEF CopiesFirst
<1>6. \A s \in Sections : Owed(q, s)
  <2> SUFFICES ASSUME NEW s \in Sections PROVE Owed(q, s)
    OBVIOUS
  <2>1. <<"copy", FileOf(s)>> \in ToSet(q)
    BY <1>4, Names DEF FileNames
  <2>2. Covers(<<"copy", FileOf(s)>>, s)
    BY DEF Covers
  <2> QED
    BY <2>1, <2>2, Zenon DEF Owed
<1>7. \A e \in ToSet(q) : e[1] = "save" => e[2] # {}
  BY <1>4
<1>8. LoadDefault \in [mem : [Sections -> Nat \ {Invalid}], todo : Seq(Entry)]
  BY <1>1, <1>3, ParamAssumption
<1> QED
  BY <1>1, <1>5, <1>6, <1>7, <1>8, ParamAssumption DEF Sound

\* A list with one entry, or none.
LEMMA SavesAreSound ==
  ASSUME NEW m \in [Sections -> Nat \ {Invalid}], hasDefaults => m["version"] = Version,
         NEW set \in SUBSET Sections, \A s \in Sections \ set : InFiles[s] = m[s]
  PROVE  Sound([mem |-> m, todo |-> Saves(set)])
<1> DEFINE a == [mem |-> m, todo |-> Saves(set)]
<1>1. a.mem = m /\ a.todo = Saves(set)
  OBVIOUS
<1>2. Saves(set) \in Seq(Entry) /\ ToSet(Saves(set)) = IF set = {} THEN {} ELSE {<<"save", set>>}
  BY ItemsOfSaves
<1>3. a \in [mem : [Sections -> Nat \ {Invalid}], todo : Seq(Entry)]
  BY <1>2
<1> HIDE DEF a
<1>4. \A e \in ToSet(a.todo) : e[1] = "save" /\ e[2] # {}
  BY <1>1, <1>2
<1>5. NoCopy(a.todo)
  BY <1>4 DEF NoCopy
<1>6. CopiesFirst(a.todo)
  BY <1>1, <1>2, <1>5, NoCopyIsFirst
<1>7. ASSUME NEW s \in Sections PROVE InFiles[s] = a.mem[s] \/ Owed(a.todo, s)
  <2>1. CASE s \notin set
    BY <2>1, <1>1
  <2>2. CASE s \in set
    <3>1. <<"save", set>> \in ToSet(a.todo)
      BY <1>1, <1>2, <2>2
    <3>2. Covers(<<"save", set>>, s)
      BY <2>2 DEF Covers
    <3> QED
      BY <3>1, <3>2, Zenon DEF Owed
  <2> QED
    BY <2>1, <2>2
<1>8. Sound(a)
  BY <1>1, <1>3, <1>4, <1>5, <1>6, <1>7 DEF Sound
<1> QED
  BY <1>8 DEF a

\* What is repaired is saved; the rest is in the files.
LEMMA LoadParamIsSound ==
  ASSUME ParamTypes, Loads
  PROVE  Sound(LoadParam)
<1>1. InFiles \in [Sections -> Nat] /\ hasDefaults /\ InFiles["version"] = Version
  BY StoredType DEF Loads, CheckVersion, Value
<1>2. Check(InFiles) \in [Sections -> Nat \ {Invalid}]
  BY <1>1, ParamAssumption DEF Check
<1>3. Check(InFiles)["version"] = Version
  BY <1>1, ParamAssumption, Names DEF Check
<1>4. Repaired \in SUBSET Sections /\ \A s \in Sections \ Repaired : InFiles[s] = Check(InFiles)[s]
  BY DEF Repaired, Check
<1>5. Sound([mem |-> Check(InFiles), todo |-> Saves(Repaired)])
  BY <1>2, <1>3, <1>4, SavesAreSound
<1> QED
  BY <1>5 DEF LoadParam

\* UseDefault saves every section.
LEMMA UseDefaultIsSound ==
  ASSUME ~hasDefaults
  PROVE  Sound(UseDefault)
<1>1. Sections \in SUBSET Sections /\ \A s \in Sections \ Sections : InFiles[s] = BuiltIn[s]
  OBVIOUS
<1>2. Sound([mem |-> BuiltIn, todo |-> Saves(Sections)])
  BY <1>1, ParamAssumption, SavesAreSound
<1> QED
  BY <1>2 DEF UseDefault

\* RKADK_PARAM_SetDefault.
LEMMA SetDefaultHolds ==
  ASSUME PInv, Careful, NEW t \in Threads, SetDefault(t)
  PROVE  PInv'
<1>1. Call(t, "default", Then(LoadDefault, Streams)) /\ Sound(LoadDefault)
  BY LoadDefaultIsSound DEF SetDefault, SetMediaViAttr
<1>2. Sound(Then(LoadDefault, Streams))
  BY <1>1, Names, MatchesAreSound
<1>3. "default" \in Operation
  BY DEF Operation
<1> QED
  BY <1>1, <1>2, <1>3, CallHolds

\* RKADK_PARAM_Init, from what the files hold.
LEMMA ParamInitHolds ==
  ASSUME PInv, NEW t \in Threads, ParamInit(t)
  PROVE  PInv'
<1> DEFINE a == IF Loads THEN LoadParam ELSE IF hasDefaults THEN LoadDefault ELSE UseDefault
<1>1. Sound(a)
  BY LoadParamIsSound, LoadDefaultIsSound, UseDefaultIsSound DEF PInv
<1>2. kept # Zeroed /\ hasDefaults => \A s \in Sections \ NodeSet : a.mem[s] = kept[s]
  <2> SUFFICES ASSUME kept # Zeroed, hasDefaults, NEW s \in Sections PROVE a.mem[s] = kept[s]
    OBVIOUS
  <2>1. ~Loaded
    BY DEF ParamInit, Loaded, Busy
  <2>2. InFiles = kept /\ kept \in [Sections -> Nat] /\ kept["version"] = Version /\ kept[s] # Invalid
    BY <2>1 DEF PInv, Keeps, ParamTypes
  <2>3. Loads
    BY <2>2 DEF Loads, CheckVersion, Missing
  <2>4. a.mem = Check(InFiles)
    BY <2>3 DEF LoadParam
  <2> QED
    BY <2>2, <2>4 DEF Check
<1> DEFINE b == Then(a, Streams)
<1>3. Locked(t, "init", b)
  BY DEF ParamInit, SetMediaViAttr
<1>4. b.mem = a.mem
  BY DEF Then
<1> HIDE DEF a
<1>5. Sound(b)
  BY <1>1, Names, MatchesAreSound
<1> HIDE DEF b
<1>6. /\ \A u \in Threads : ~Busy(u)
      /\ kept' = kept /\ UNCHANGED <<vi, files, hasDefaults, bInit>>
  BY DEF ParamInit, Busy
<1>7. kept' \in [Sections -> Nat]
  BY <1>6 DEF PInv, ParamTypes
<1>8. kept' # Zeroed /\ hasDefaults => \A s \in Sections \ NodeSet : b.mem[s] = kept'[s]
  BY <1>2, <1>4, <1>6
<1>9. "init" \in Operation
  BY DEF Operation
<1> QED
  BY <1>3, <1>5, <1>6, <1>7, <1>8, <1>9, LockedHolds

-----------------------------------------------------------------------------
(* Going through the list                                                  *)

\* The first entry of a list.
LEMMA JobType ==
  ASSUME ParamTypes, NEW t \in Threads, th[t].todo # <<>>
  PROVE  /\ Job(t) \in Entry /\ th[t].todo \in Seq(Entry) /\ Tail(th[t].todo) \in Seq(Entry)
         /\ ToSet(th[t].todo) = {Job(t)} \cup ToSet(Tail(th[t].todo))
         /\ Job(t)[1] = "save" => Job(t)[2] \in SUBSET Sections /\ Chosen(t) \in Job(t)[2]
         /\ Job(t)[1] = "copy" => Job(t)[2] \in FileNames
         /\ Job(t)[1] = "match" => Job(t)[2] \in StreamSet
<1>1. th[t].todo \in Seq(Entry)
  BY DEF ParamTypes
<1>2. /\ ToSet(th[t].todo) = {Job(t)} \cup ToSet(Tail(th[t].todo))
      /\ Tail(th[t].todo) \in Seq(Entry) /\ Job(t) \in Entry
  BY <1>1, ItemsOfTail DEF Job
<1>3. /\ Job(t)[1] = "save" => Job(t)[2] \in SUBSET Sections
      /\ Job(t)[1] = "copy" => Job(t)[2] \in FileNames
      /\ Job(t)[1] = "match" => Job(t)[2] \in StreamSet
  BY <1>2 DEF Entry
<1>4. Job(t)[1] = "save" => Job(t)[2] # {}
  BY <1>2 DEF ParamTypes
<1>5. Job(t)[1] = "save" => Chosen(t) \in Job(t)[2]
  BY <1>4 DEF Chosen
<1> QED
  BY <1>1, <1>2, <1>3, <1>5

\* What is left of a list owes what it owed but for the section in hand.
LEMMA RestType ==
  ASSUME ParamTypes, NEW t \in Threads, th[t].todo # <<>>, Job(t)[1] \in {"save", "copy"}
  PROVE  /\ Rest(t) \in Seq(Entry) /\ Target(t) \in FileNames
         /\ \A e \in ToSet(Rest(t)) : e[1] = "save" => e[2] # {}
         /\ CopiesFirst(th[t].todo) => CopiesFirst(Rest(t))
         /\ NoCopy(th[t].todo) => NoCopy(Rest(t))
         /\ \A s \in StreamSet : <<"match", s>> \in ToSet(th[t].todo) => <<"match", s>> \in ToSet(Rest(t))
         /\ \A s \in Sections : Owed(th[t].todo, s) =>
              \/ Owed(Rest(t), s)
              \/ Job(t)[1] = "save" /\ s = Chosen(t)
              \/ Job(t)[1] = "copy" /\ FileOf(s) = Target(t)
<1> DEFINE q == th[t].todo
<1>1. /\ Job(t) \in Entry /\ q \in Seq(Entry) /\ Tail(q) \in Seq(Entry) /\ q # <<>>
      /\ ToSet(q) = {Job(t)} \cup ToSet(Tail(q)) /\ Job(t) = Head(q)
  BY JobType DEF Job
<1>2. CopiesFirst(q) => CopiesFirst(Tail(q))
  BY <1>1, CopiesInTail
<1>3. NoCopy(q) => NoCopy(Tail(q))
  BY <1>1 DEF NoCopy
<1>4. \A e \in ToSet(Tail(q)) : e[1] = "save" => e[2] # {}
  BY <1>1 DEF ParamTypes
<1>5. CASE Job(t)[1] = "copy"
  <2>1. Rest(t) = Tail(q) /\ Target(t) = Job(t)[2] /\ Job(t)[2] \in FileNames
    BY <1>1, <1>5, JobType DEF Rest, Target
  <2>2. ASSUME NEW s \in Sections, Owed(q, s) PROVE Owed(Tail(q), s) \/ FileOf(s) = Target(t)
    BY <1>1, <1>5, <2>1, <2>2 DEF Owed, Covers
  <2>3. \A s \in StreamSet : <<"match", s>> \in ToSet(q) => <<"match", s>> \in ToSet(Tail(q))
    BY <1>1, <1>5
  <2> QED
    BY <1>1, <1>2, <1>3, <1>4, <1>5, <2>1, <2>2, <2>3
<1>6. CASE Job(t)[1] = "save"
  <2> DEFINE left == Job(t)[2] \ {Chosen(t)}
  <2>1. left \in SUBSET Sections /\ Chosen(t) \in Sections /\ Job(t)[2] = left \cup {Chosen(t)}
    BY <1>6, JobType
  <2>2. Rest(t) = Saves(left) \o Tail(q)
    BY <1>6 DEF Rest
  <2>3. Target(t) \in FileNames
    BY <1>6, <2>1, Names DEF Target
  <2> HIDE DEF left
  <2>4. Saves(left) \in Seq(Entry) /\ ToSet(Saves(left)) = IF left = {} THEN {} ELSE {<<"save", left>>}
    BY <2>1, ItemsOfSaves
  <2>5. Rest(t) \in Seq(Entry) /\ ToSet(Rest(t)) = ToSet(Saves(left)) \cup ToSet(Tail(q))
    <3>1. Saves(left) \in Seq(Entry) /\ Tail(q) \in Seq(Entry)
      BY <1>1, <2>4
    <3> HIDE DEF q
    <3>2. /\ Saves(left) \o Tail(q) \in Seq(Entry)
          /\ ToSet(Saves(left) \o Tail(q)) = ToSet(Saves(left)) \cup ToSet(Tail(q))
      BY <3>1, ItemsOfConcat
    <3> QED
      BY <2>2, <3>2
  <2>6. \A e \in ToSet(Rest(t)) : e[1] = "save" => e[2] # {}
    BY <1>4, <2>4, <2>5
  <2>7. NoCopy(Tail(q)) => NoCopy(Rest(t))
    BY <2>4, <2>5 DEF NoCopy
  <2>8. CopiesFirst(q) => NoCopy(q)
    BY <1>1, <1>6, NoCopyBehind
  <2>9. CopiesFirst(q) => CopiesFirst(Rest(t))
    BY <1>3, <2>5, <2>7, <2>8, NoCopyIsFirst
  <2>10. ASSUME NEW s \in Sections, Owed(q, s) PROVE Owed(Rest(t), s) \/ s = Chosen(t)
    <3>1. PICK e \in ToSet(q) : Covers(e, s)
      BY <2>10, Zenon DEF Owed
    <3>2. CASE e \in ToSet(Tail(q))
      BY <3>1, <3>2, <2>5 DEF Owed
    <3>3. CASE e = Job(t) /\ s # Chosen(t)
      <4>1. s \in left
        BY <3>1, <3>3, <1>6, <2>1 DEF Covers
      <4>2. <<"save", left>> \in ToSet(Rest(t))
        BY <4>1, <2>4, <2>5
      <4>3. Covers(<<"save", left>>, s)
        BY <4>1 DEF Covers
      <4> QED
        BY <4>2, <4>3, Zenon DEF Owed
    <3> QED
      BY <1>1, <3>1, <3>2, <3>3
  <2>11. \A s \in StreamSet : <<"match", s>> \in ToSet(q) => <<"match", s>> \in ToSet(Rest(t))
    BY <1>1, <1>6, <2>5
  <2> QED
    BY <1>3, <1>6, <2>3, <2>5, <2>6, <2>7, <2>9, <2>10, <2>11
<1> QED
  BY <1>5, <1>6

\* A stream is matched to a node.
LEMMA MatchType ==
  ASSUME NEW s, NEW n \in Match(s)
  PROVE  n \in Own(s) /\ n \in Nat /\ Nodes[n] \in NodeSet
<1>1. n \in Own(s)
  BY DEF Match, Lowest, Exact
<1>2. n \in DOMAIN Nodes
  BY <1>1 DEF Own
<1> QED
  BY <1>1, <1>2, Names

\* What a step of a thread at its list leaves: the thread and nothing else changes.
Alike(t) ==
  /\ hasDefaults' = hasDefaults /\ bInit' = bInit /\ mutexLock' = mutexLock /\ kept' = kept
  /\ \A u \in Threads : u # t => th'[u] = th[u]
  /\ th'[t].op = th[t].op /\ Busy(t) /\ Busy(t)'

\* Such a step leaves one operation under way.
LEMMA AlikeHolds ==
  ASSUME PInv, NEW t \in Threads, Alike(t),
         th[t].pc \in {"work", "open", "dump"}, th'[t].pc \in {"work", "open", "dump"}
  PROVE  Alone' /\ Loaded /\ Loaded' /\ \A u \in Threads : Busy(u)' => u = t
<1>1. \A u \in Threads : Busy(u)' => u = t
  BY DEF Alike, PInv, Alone, Busy
<1>2. Loaded /\ Loaded'
  BY DEF Alike, Loaded
<1>3. Alone'
  BY <1>1 DEF Alike, PInv, Alone, Busy
<1> QED
  BY <1>1, <1>2, <1>3

\* A step that changes only nodes keeps what is kept.
LEMMA KeptHolds ==
  ASSUME PInv, Loaded, Loaded', hasDefaults' = hasDefaults, kept' = kept,
         \A s \in Sections \ NodeSet : mem'[s] = mem[s]
  PROVE  Keeps'
BY DEF PInv, Keeps, Zeroed

\* Reading a file: it counts as written now.
LEMMA ReadHolds ==
  ASSUME PInv, NEW t \in Threads, Read(t)
  PROVE  PInv'
<1>1. /\ th[t].todo # <<>> /\ Job(t)[1] \in {"save", "copy"} /\ th[t].pc = "work"
      /\ th \in [Threads -> [pc : {"idle", "work", "open", "dump", "again"}, todo : Seq(Entry), buf : Ini, op : Operation]]
  BY DEF Read, Working, PInv, ParamTypes
<1> DEFINE b == IF Job(t)[1] = "copy" THEN Part(Defaults, Job(t)[2]) ELSE ReadIni(Chosen(t))
<1>2. /\ th'[t].pc = "open" /\ th'[t].todo = th[t].todo /\ th'[t].op = th[t].op /\ th'[t].buf = b
      /\ \A u \in Threads : u # t => th'[u] = th[u]
  BY <1>1 DEF Read
<1>3. UNCHANGED <<mem, vi, files, hasDefaults, bInit, mutexLock, kept>>
  BY DEF Read
<1>4. Alike(t)
  BY <1>1, <1>2, <1>3 DEF Alike, Busy
<1>5. Alone' /\ Loaded /\ Loaded' /\ \A u \in Threads : Busy(u)' => u = t
  BY <1>1, <1>2, <1>4, AlikeHolds
<1>6. Job(t)' = Job(t) /\ Chosen(t)' = Chosen(t) /\ Target(t)' = Target(t) /\ Rest(t)' = Rest(t)
  BY <1>2 DEF Job, Chosen, Target, Rest
<1>7. Target(t) \in FileNames /\ b \in [Within(Target(t)) -> Value]
  <2>1. CASE Job(t)[1] = "copy"
    <3>1. Target(t) = Job(t)[2] /\ Job(t)[2] \in FileNames
      BY <1>1, <2>1, JobType DEF PInv, Target
    <3>2. b = Part(Defaults, Target(t))
      BY <2>1, <3>1
    <3>3. \A s \in Within(Target(t)) : Defaults[s] \in Value
      BY ParamAssumption DEF Within, Value
    <3> QED
      BY <3>1, <3>2, <3>3 DEF Part
  <2>2. CASE Job(t)[1] = "save"
    <3>1. Chosen(t) \in Sections /\ Target(t) = FileOf(Chosen(t)) /\ b = ReadIni(Chosen(t))
      BY <1>1, <2>2, JobType DEF PInv, Target
    <3>2. Target(t) \in FileNames
      BY <3>1, Names
    <3>3. files[Target(t)] \in [Within(Target(t)) -> Value] /\ mem[Chosen(t)] \in Value
      BY <3>1, <3>2 DEF PInv, ParamTypes, Value
    <3> QED
      BY <3>1, <3>2, <3>3 DEF ReadIni
  <2> QED
    BY <1>1, <2>1, <2>2
<1> HIDE DEF b
<1>8. ParamTypes'
  <2>1. th' \in [Threads -> [pc : {"idle", "work", "open", "dump", "again"}, todo : Seq(Entry), buf : Ini, op : Operation]]
    <3>1. b \in Ini
      BY <1>7 DEF Ini
    <3> QED
      BY <1>1, <3>1 DEF Read, b
  <2>2. \A u \in Threads : \A e \in ToSet(th'[u].todo) : e[1] = "save" => e[2] # {}
    <3>1. \A u \in Threads : th'[u].todo = th[u].todo
      BY <1>2
    <3> QED
      BY <3>1 DEF PInv, ParamTypes
  <2>3. \A u \in Threads : Writing(u)' => u = t
    BY <1>5 DEF Writing, Busy
  <2>4. th'[t].todo # <<>> /\ Job(t)'[1] \in {"save", "copy"} /\ th'[t].buf \in [Within(Target(t)') -> Value]
    BY <1>1, <1>2, <1>6, <1>7
  <2> QED
    BY <1>3, <2>1, <2>2, <2>3, <2>4 DEF PInv, ParamTypes
<1>9. Debts'
  <2>1. InFiles' = InFiles /\ ~Writing(t) /\ Writing(t)'
    BY <1>1, <1>2, <1>3 DEF InFiles, Writing
  <2>2. CopiesFirst(th[t].todo) /\ (NoCopy(th[t].todo) \/ mem = Defaults)
    BY <1>4 DEF PInv, Debts, Alike
  <2>3. ASSUME NEW s \in Sections PROVE Written(t)'[s] = mem[s] \/ Owed(Remaining(t)', s)
    <3>1. Written(t)[s] = mem[s] \/ Owed(Remaining(t), s)
      BY <1>4 DEF PInv, Debts, Alike
    <3>2. InFiles[s] = mem[s] \/ Owed(th[t].todo, s)
      BY <2>1, <3>1 DEF Written, Remaining
    <3>3. Remaining(t)' = Rest(t)
      BY <1>6, <2>1 DEF Remaining
    <3>4. Written(t)'[s] = IF FileOf(s) = Target(t) THEN b[s] ELSE InFiles[s]
      BY <1>2, <1>6, <2>1 DEF Written
    <3>5. CASE Job(t)[1] = "copy"
      <4>1. mem = Defaults
        BY <1>1, <3>5, JobType, <2>2 DEF NoCopy, PInv
      <4>2. FileOf(s) = Target(t) => b[s] = mem[s]
        BY <4>1, <3>5 DEF b, Part, Target, Within
      <4>3. Owed(th[t].todo, s) => Owed(Rest(t), s) \/ FileOf(s) = Target(t)
        BY <1>1, <3>5, RestType DEF PInv
      <4> QED
        BY <3>2, <3>3, <3>4, <4>2, <4>3
    <3>6. CASE Job(t)[1] = "save"
      <4>1. Target(t) = FileOf(Chosen(t)) /\ b = ReadIni(Chosen(t))
        BY <3>6 DEF b, Target
      <4>2. s = Chosen(t) => b[s] = mem[s]
        <5>1. Target(t) \in FileNames /\ files[Target(t)] \in [Within(Target(t)) -> Value] /\ s \in Within(FileOf(s))
          BY <1>7, Names DEF PInv, ParamTypes
        <5> QED
          BY <4>1, <5>1 DEF ReadIni
      <4>3. s # Chosen(t) /\ FileOf(s) = Target(t) => b[s] = InFiles[s]
        BY <4>1 DEF ReadIni, InFiles
      <4>4. Owed(th[t].todo, s) => Owed(Rest(t), s) \/ s = Chosen(t)
        BY <1>1, <3>6, RestType DEF PInv
      <4> QED
        BY <3>2, <3>3, <3>4, <4>1, <4>2, <4>3, <4>4
    <3> QED
      BY <1>1, <3>5, <3>6
  <2>4. Busy(t)' /\ mem' = mem
    BY <1>3, <1>4 DEF Alike
  <2> QED
    BY <1>2, <1>5, <2>2, <2>3, <2>4 DEF Debts
<1>10. Valid' /\ Keeps'
  BY <1>3, <1>5, KeptHolds DEF PInv, Valid
<1> QED
  BY <1>5, <1>8, <1>9, <1>10 DEF PInv

\* The file is empty, but the one in hand counts.
LEMMA TruncateHolds ==
  ASSUME PInv, NEW t \in Threads, Truncate(t)
  PROVE  PInv'
<1>1. /\ th[t].pc = "open" /\ Writing(t)
      /\ th \in [Threads -> [pc : {"idle", "work", "open", "dump", "again"}, todo : Seq(Entry), buf : Ini, op : Operation]]
  BY DEF Truncate, Writing, PInv, ParamTypes
<1>2. /\ th'[t].pc = "dump" /\ th'[t].todo = th[t].todo /\ th'[t].op = th[t].op /\ th'[t].buf = th[t].buf
      /\ \A u \in Threads : u # t => th'[u] = th[u]
  BY <1>1 DEF Truncate, Step
<1>3. /\ UNCHANGED <<mem, vi, hasDefaults, bInit, mutexLock, kept>>
      /\ files' = [files EXCEPT ![Target(t)] = EmptyIni(Target(t))]
  BY DEF Truncate
<1>4. Alike(t)
  BY <1>1, <1>2, <1>3 DEF Alike, Busy
<1>5. Alone' /\ Loaded /\ Loaded' /\ \A u \in Threads : Busy(u)' => u = t
  BY <1>1, <1>2, <1>4, AlikeHolds
<1>6. Job(t)' = Job(t) /\ Chosen(t)' = Chosen(t) /\ Target(t)' = Target(t) /\ Rest(t)' = Rest(t)
  BY <1>2 DEF Job, Chosen, Target, Rest
<1>7. /\ th[t].todo # <<>> /\ Job(t)[1] \in {"save", "copy"} /\ th[t].buf \in [Within(Target(t)) -> Value]
      /\ Target(t) \in FileNames
  BY <1>1, RestType DEF PInv, ParamTypes
<1>8. ParamTypes'
  <2>1. th' \in [Threads -> [pc : {"idle", "work", "open", "dump", "again"}, todo : Seq(Entry), buf : Ini, op : Operation]]
    BY <1>1 DEF Truncate, Step
  <2>2. \A u \in Threads : \A e \in ToSet(th'[u].todo) : e[1] = "save" => e[2] # {}
    <3>1. \A u \in Threads : th'[u].todo = th[u].todo
      BY <1>2
    <3> QED
      BY <3>1 DEF PInv, ParamTypes
  <2>3. \A u \in Threads : Writing(u)' => u = t
    BY <1>5 DEF Writing, Busy
  <2>4. th'[t].todo # <<>> /\ Job(t)'[1] \in {"save", "copy"} /\ th'[t].buf \in [Within(Target(t)') -> Value]
    BY <1>2, <1>6, <1>7
  <2>5. EmptyIni(Target(t)) \in [Within(Target(t)) -> Value]
    BY DEF EmptyIni, Value
  <2>6. files' \in [FileNames -> Ini] /\ \A f \in FileNames : files'[f] \in [Within(f) -> Value]
    <3>1. files \in [FileNames -> Ini] /\ \A f \in FileNames : files[f] \in [Within(f) -> Value]
      BY DEF PInv, ParamTypes
    <3>2. EmptyIni(Target(t)) \in Ini
      BY <1>7, <2>5 DEF Ini
    <3> QED
      BY <1>3, <1>7, <2>5, <3>1, <3>2
  <2> QED
    BY <1>3, <2>1, <2>2, <2>3, <2>4, <2>6 DEF PInv, ParamTypes
<1>9. Debts'
  <2>1. Writing(t)' /\ Writing(t)
    BY <1>1, <1>2 DEF Writing
  <2>2. CopiesFirst(th[t].todo) /\ (NoCopy(th[t].todo) \/ mem = Defaults)
    BY <1>4 DEF PInv, Debts, Alike
  <2>3. ASSUME NEW s \in Sections PROVE Written(t)'[s] = mem[s] \/ Owed(Remaining(t)', s)
    <3>1. Written(t)[s] = mem[s] \/ Owed(Remaining(t), s)
      BY <1>4 DEF PInv, Debts, Alike
    <3>2. Remaining(t)' = Remaining(t)
      BY <1>6, <2>1 DEF Remaining
    <3>3. FileOf(s) \in FileNames /\ files \in [FileNames -> Ini]
      BY Names DEF PInv, ParamTypes
    <3>4. FileOf(s) # Target(t) => InFiles'[s] = InFiles[s]
      BY <1>3, <3>3 DEF InFiles
    <3>5. Written(t)'[s] = Written(t)[s]
      BY <1>2, <1>6, <2>1, <3>4 DEF Written
    <3> QED
      BY <3>1, <3>2, <3>5
  <2>4. Busy(t)' /\ mem' = mem
    BY <1>3, <1>4 DEF Alike
  <2> QED
    BY <1>2, <1>5, <2>2, <2>3, <2>4 DEF Debts
<1>10. Valid' /\ Keeps'
  BY <1>3, <1>5, KeptHolds DEF PInv, Valid
<1> QED
  BY <1>5, <1>8, <1>9, <1>10 DEF PInv

\* The file in hand is written.
LEMMA DumpHolds ==
  ASSUME PInv, NEW t \in Threads, Dump(t)
  PROVE  PInv'
<1>1. /\ th[t].pc = "dump" /\ Writing(t)
      /\ th \in [Threads -> [pc : {"idle", "work", "open", "dump", "again"}, todo : Seq(Entry), buf : Ini, op : Operation]]
  BY DEF Dump, Writing, PInv, ParamTypes
<1>2. /\ th'[t].pc = "work" /\ th'[t].todo = Rest(t) /\ th'[t].op = th[t].op
      /\ \A u \in Threads : u # t => th'[u] = th[u]
  BY <1>1 DEF Dump
<1>3. /\ UNCHANGED <<mem, vi, hasDefaults, bInit, mutexLock, kept>>
      /\ files' = [files EXCEPT ![Target(t)] = th[t].buf]
  BY DEF Dump
<1>4. Alike(t)
  BY <1>1, <1>2, <1>3 DEF Alike, Busy
<1>5. Alone' /\ Loaded /\ Loaded' /\ \A u \in Threads : Busy(u)' => u = t
  BY <1>1, <1>2, <1>4, AlikeHolds
<1>6. /\ th[t].todo # <<>> /\ Job(t)[1] \in {"save", "copy"} /\ th[t].buf \in [Within(Target(t)) -> Value]
  BY <1>1 DEF PInv, ParamTypes
<1>7. /\ Target(t) \in FileNames /\ Rest(t) \in Seq(Entry)
      /\ \A e \in ToSet(Rest(t)) : e[1] = "save" => e[2] # {}
      /\ CopiesFirst(th[t].todo) => CopiesFirst(Rest(t))
      /\ NoCopy(th[t].todo) => NoCopy(Rest(t))
  BY <1>6, RestType DEF PInv
<1>8. ParamTypes'
  <2>1. th' \in [Threads -> [pc : {"idle", "work", "open", "dump", "again"}, todo : Seq(Entry), buf : Ini, op : Operation]]
    <3>1. EmptyIni("global") \in [Within("global") -> Value] /\ "global" \in FileNames
      BY DEF EmptyIni, Value, FileNames
    <3>2. EmptyIni("global") \in Ini
      BY <3>1 DEF Ini
    <3> QED
      BY <1>1, <1>7, <3>2 DEF Dump
  <2>2. \A u \in Threads : \A e \in ToSet(th'[u].todo) : e[1] = "save" => e[2] # {}
    <3> SUFFICES ASSUME NEW u \in Threads PROVE \A e \in ToSet(th'[u].todo) : e[1] = "save" => e[2] # {}
      OBVIOUS
    <3>1. CASE u = t
      BY <3>1, <1>2, <1>7
    <3>2. CASE u # t
      BY <3>2, <1>2 DEF PInv, ParamTypes
    <3> QED
      BY <3>1, <3>2
  <2>3. \A u \in Threads : ~Writing(u)'
    BY <1>2, <1>5 DEF Writing, Busy
  <2>6. files' \in [FileNames -> Ini] /\ \A f \in FileNames : files'[f] \in [Within(f) -> Value]
    <3>1. files \in [FileNames -> Ini] /\ \A f \in FileNames : files[f] \in [Within(f) -> Value]
      BY DEF PInv, ParamTypes
    <3>2. th[t].buf \in Ini
      BY <1>6, <1>7 DEF Ini
    <3> QED
      BY <1>3, <1>6, <1>7, <3>1, <3>2
  <2> QED
    BY <1>3, <2>1, <2>2, <2>3, <2>6 DEF PInv, ParamTypes
<1>9. Debts'
  <2>1. ~Writing(t)' /\ Writing(t)
    BY <1>1, <1>2 DEF Writing
  <2>2. CopiesFirst(th[t].todo) /\ (NoCopy(th[t].todo) \/ mem = Defaults)
    BY <1>4 DEF PInv, Debts, Alike
  <2>3. ASSUME NEW s \in Sections PROVE Written(t)'[s] = mem[s] \/ Owed(Remaining(t)', s)
    <3>1. Written(t)[s] = mem[s] \/ Owed(Remaining(t), s)
      BY <1>4 DEF PInv, Debts, Alike
    <3>2. Remaining(t)' = Remaining(t)
      BY <1>2, <2>1 DEF Remaining
    <3>3. FileOf(s) \in FileNames /\ files \in [FileNames -> Ini]
      BY Names DEF PInv, ParamTypes
    <3>4. InFiles'[s] = IF FileOf(s) = Target(t) THEN th[t].buf[s] ELSE InFiles[s]
      BY <1>3, <3>3 DEF InFiles
    <3>5. Written(t)'[s] = InFiles'[s]
      BY <2>1 DEF Written
    <3>6. Written(t)[s] = IF FileOf(s) = Target(t) THEN th[t].buf[s] ELSE InFiles[s]
      BY <2>1 DEF Written
    <3> QED
      BY <3>1, <3>2, <3>4, <3>5, <3>6
  <2>4. Busy(t)' /\ mem' = mem
    BY <1>3, <1>4 DEF Alike
  <2> QED
    BY <1>2, <1>5, <1>7, <2>2, <2>3, <2>4 DEF Debts
<1>10. Valid' /\ Keeps'
  BY <1>3, <1>5, KeptHolds DEF PInv, Valid
<1> QED
  BY <1>5, <1>8, <1>9, <1>10 DEF PInv

\* Matching a stream changes at most the size of one node, and saves it then.
LEMMA SetViAttrHolds ==
  ASSUME PInv, NEW t \in Threads, SetViAttr(t)
  PROVE  PInv'
<1> DEFINE s == Job(t)[2]
           q == th[t].todo
<1>1. /\ q # <<>> /\ Job(t)[1] = "match" /\ th[t].pc = "work"
      /\ th \in [Threads -> [pc : {"idle", "work", "open", "dump", "again"}, todo : Seq(Entry), buf : Ini, op : Operation]]
  BY DEF SetViAttr, Working, PInv, ParamTypes
<1>2. PICK n \in Match(s) :
        /\ mem' = Resized(Nodes[n], s)
        /\ vi' = [vi EXCEPT ![s] = [node |-> n, size |-> mem'[Nodes[n]]]]
        /\ th' = [th EXCEPT ![t].todo = (IF mem' = mem THEN <<>> ELSE Saves({Nodes[n]})) \o Tail(q)]
  BY DEF SetViAttr
<1> DEFINE p == IF mem' = mem THEN <<>> ELSE Saves({Nodes[n]})
<1>3. /\ th'[t].pc = "work" /\ th'[t].todo = p \o Tail(q) /\ th'[t].op = th[t].op
      /\ \A u \in Threads : u # t => th'[u] = th[u]
  BY <1>1, <1>2
<1>4. UNCHANGED <<files, hasDefaults, bInit, mutexLock, kept>>
  BY DEF SetViAttr
<1>5. Alike(t)
  BY <1>1, <1>3, <1>4 DEF Alike, Busy
<1>6. Alone' /\ Loaded /\ Loaded' /\ \A u \in Threads : Busy(u)' => u = t
  BY <1>1, <1>3, <1>5, AlikeHolds
<1>7. /\ s \in StreamSet /\ q \in Seq(Entry) /\ Tail(q) \in Seq(Entry)
      /\ ToSet(q) = {Job(t)} \cup ToSet(Tail(q)) /\ Job(t) = Head(q)
  BY <1>1, JobType DEF PInv, Job
<1>8. n \in Nat /\ Nodes[n] \in NodeSet /\ Nodes[n] \in Sections /\ s \in Sections
  BY <1>7, MatchType, Names
<1>9. /\ mem \in [Sections -> Nat] /\ \A r \in Sections : mem[r] # Invalid
      /\ hasDefaults => mem["version"] = Version
  BY <1>6 DEF PInv, ParamTypes, Valid
<1>10. /\ mem' \in [Sections -> Nat] /\ \A r \in Sections : mem'[r] # Invalid
       /\ \A r \in Sections : r # Nodes[n] => mem'[r] = mem[r]
  BY <1>2, <1>8, <1>9 DEF Resized
<1>11. p \in Seq(Entry) /\ ToSet(p) = IF mem' = mem THEN {} ELSE {<<"save", {Nodes[n]}>>}
  <2>1. CASE mem' = mem
    BY <2>1 DEF ToSet
  <2>2. CASE mem' # mem
    <3>1. {Nodes[n]} \in SUBSET Sections /\ {Nodes[n]} # {}
      BY <1>8
    <3>2. Saves({Nodes[n]}) \in Seq(Entry) /\ ToSet(Saves({Nodes[n]})) = {<<"save", {Nodes[n]}>>}
      BY <3>1, ItemsOfSaves
    <3> QED
      BY <2>2, <3>2
  <2> QED
    BY <2>1, <2>2
<1> HIDE DEF p, q, s
<1>12. p \o Tail(q) \in Seq(Entry) /\ ToSet(p \o Tail(q)) = ToSet(p) \cup ToSet(Tail(q))
  <2>1. p \in Seq(Entry) /\ Tail(q) \in Seq(Entry)
    BY <1>7, <1>11
  <2> QED
    BY <2>1, ItemsOfConcat
<1>13. CopiesFirst(q) /\ (NoCopy(q) \/ mem = Defaults)
  BY <1>5 DEF PInv, Debts, Alike, q
<1>14. NoCopy(q)
  BY <1>1, <1>7, <1>13, NoCopyBehind DEF q
<1>15. NoCopy(p \o Tail(q))
  BY <1>7, <1>11, <1>12, <1>14 DEF NoCopy
<1>16. CopiesFirst(p \o Tail(q))
  BY <1>12, <1>15, NoCopyIsFirst
<1>17. ParamTypes'
  <2>1. th' \in [Threads -> [pc : {"idle", "work", "open", "dump", "again"}, todo : Seq(Entry), buf : Ini, op : Operation]]
    BY <1>1, <1>2, <1>12 DEF p
  <2>2. \A u \in Threads : \A e \in ToSet(th'[u].todo) : e[1] = "save" => e[2] # {}
    <3> SUFFICES ASSUME NEW u \in Threads PROVE \A e \in ToSet(th'[u].todo) : e[1] = "save" => e[2] # {}
      OBVIOUS
    <3>1. CASE u # t
      BY <3>1, <1>3 DEF PInv, ParamTypes
    <3>2. CASE u = t
      <4>1. \A e \in ToSet(q) : e[1] = "save" => e[2] # {}
        BY DEF PInv, ParamTypes, q
      <4>2. ASSUME NEW e \in ToSet(p) PROVE e[2] # {}
        <5>1. e = <<"save", {Nodes[n]}>>
          BY <1>11
        <5> QED
          BY <5>1
      <4> QED
        BY <3>2, <4>1, <4>2, <1>3, <1>7, <1>12
    <3> QED
      BY <3>1, <3>2
  <2>3. \A u \in Threads : ~Writing(u)'
    BY <1>3, <1>6 DEF Writing, Busy
  <2>4. vi' \in [StreamSet -> [node : Nat, size : Nat]]
    BY <1>2, <1>7, <1>8, <1>10 DEF PInv, ParamTypes
  <2> QED
    BY <1>4, <1>10, <2>1, <2>2, <2>3, <2>4 DEF PInv, ParamTypes
<1>18. Debts'
  <2>1. ~Writing(t)' /\ ~Writing(t) /\ InFiles' = InFiles
    BY <1>1, <1>3, <1>4 DEF Writing, InFiles
  <2>3. ASSUME NEW r \in Sections PROVE Written(t)'[r] = mem'[r] \/ Owed(Remaining(t)', r)
    <3>1. Written(t)[r] = mem[r] \/ Owed(Remaining(t), r)
      BY <1>5 DEF PInv, Debts, Alike
    <3>2. InFiles[r] = mem[r] \/ Owed(q, r)
      BY <2>1, <3>1 DEF Written, Remaining, q
    <3>3. Written(t)'[r] = InFiles[r] /\ Remaining(t)' = p \o Tail(q)
      BY <1>3, <2>1 DEF Written, Remaining
    <3>4. Owed(q, r) => Owed(p \o Tail(q), r)
      BY <1>1, <1>7, <1>12 DEF Owed, Covers
    <3>5. CASE mem'[r] = mem[r]
      BY <3>2, <3>3, <3>4, <3>5
    <3>6. CASE mem'[r] # mem[r]
      <4>1. r = Nodes[n] /\ mem' # mem
        BY <3>6, <1>10
      <4>2. <<"save", {Nodes[n]}>> \in ToSet(p \o Tail(q))
        BY <4>1, <1>11, <1>12
      <4>3. Covers(<<"save", {Nodes[n]}>>, r)
        BY <4>1 DEF Covers
      <4> QED
        BY <3>3, <4>2, <4>3, Zenon DEF Owed
    <3> QED
      BY <3>5, <3>6
  <2>4. Busy(t)'
    BY <1>5 DEF Alike
  <2> QED
    BY <1>3, <1>6, <1>15, <1>16, <2>3, <2>4 DEF Debts
<1>19. Valid'
  <2>1. Nodes[n] # "version"
    BY <1>8, ParamAssumption
  <2> QED
    BY <1>4, <1>9, <1>10, <2>1, Names DEF Valid
<1>20. Keeps'
  BY <1>4, <1>6, <1>8, <1>10, KeptHolds
<1> QED
  BY <1>6, <1>17, <1>18, <1>19, <1>20 DEF PInv

\* With nothing left to do the files are up to date.
LEMMA NothingLeft ==
  ASSUME PInv, NEW t \in Threads, Busy(t), ~Writing(t), th[t].todo = <<>>
  PROVE  InFiles = mem
<1>1. ASSUME NEW s \in Sections PROVE InFiles[s] = mem[s]
  <2>1. Written(t)[s] = mem[s] \/ Owed(Remaining(t), s)
    BY DEF PInv, Debts
  <2>2. Written(t)[s] = InFiles[s] /\ Remaining(t) = <<>>
    BY DEF Written, Remaining
  <2>3. ~Owed(<<>>, s)
    BY DEF Owed, ToSet
  <2> QED
    BY <2>1, <2>2, <2>3
<1>2. mem \in [Sections -> Nat] /\ InFiles = [s \in Sections |-> InFiles[s]]
  BY DEF PInv, ParamTypes, InFiles
<1> QED
  BY <1>1, <1>2

\* The operation ends, or has to unlock again.
LEMMA UnlockHolds ==
  ASSUME PInv, NEW t \in Threads, Unlock(t)
  PROVE  PInv'
<1>1. /\ th[t].pc = "work" /\ th[t].todo = <<>> /\ Busy(t) /\ ~Writing(t)
      /\ th \in [Threads -> [pc : {"idle", "work", "open", "dump", "again"}, todo : Seq(Entry), buf : Ini, op : Operation]]
  BY DEF Unlock, Busy, Writing, PInv, ParamTypes
<1>2. InFiles = mem /\ InFiles' = mem'
  <2>1. InFiles = mem
    BY <1>1, NothingLeft
  <2>2. InFiles' = InFiles /\ mem' = mem
    BY DEF Unlock, InFiles
  <2> QED
    BY <2>1, <2>2
<1>3. bInit' = TRUE /\ Loaded /\ Loaded'
  BY <1>1 DEF Unlock, PInv, Alone, ParamTypes, Loaded, Busy
<1>4. /\ th'[t].todo = <<>> /\ th'[t].pc \in {"idle", "again"}
      /\ th'[t].pc = "again" => th'[t].op = "res"
      /\ \A u \in Threads : u # t => th'[u] = th[u]
      /\ th' \in [Threads -> [pc : {"idle", "work", "open", "dump", "again"}, todo : Seq(Entry), buf : Ini, op : Operation]]
  <2>1. Idle \in [pc : {"idle", "work", "open", "dump", "again"}, todo : Seq(Entry), buf : Ini, op : Operation]
    <3>1. EmptyIni("global") \in [Within("global") -> Value] /\ "global" \in FileNames
      BY DEF EmptyIni, Value, FileNames
    <3>2. EmptyIni("global") \in Ini
      BY <3>1 DEF Ini
    <3> QED
      BY <3>2 DEF Idle, Operation
  <2>2. CASE th[t].op = "res"
    <3>1. th' = [th EXCEPT ![t].pc = "again"]
      BY <2>2 DEF Unlock, Step
    <3> QED
      BY <1>1, <2>2, <3>1
  <2>3. CASE th[t].op # "res"
    <3>1. th' = [th EXCEPT ![t] = Idle]
      BY <2>3 DEF Unlock
    <3> QED
      BY <1>1, <2>1, <3>1 DEF Idle
  <2> QED
    BY <2>2, <2>3
<1>5. \A u \in Threads : Busy(u)' => u = t /\ ~Writing(u)'
  BY <1>1, <1>4 DEF Busy, Writing, PInv, Alone
<1>6. ParamTypes'
  <2>1. \A u \in Threads : \A e \in ToSet(th'[u].todo) : e[1] = "save" => e[2] # {}
    <3> SUFFICES ASSUME NEW u \in Threads PROVE \A e \in ToSet(th'[u].todo) : e[1] = "save" => e[2] # {}
      OBVIOUS
    <3>1. CASE u # t
      BY <3>1, <1>4 DEF PInv, ParamTypes
    <3>2. CASE u = t
      BY <3>2, <1>4 DEF ToSet
    <3> QED
      BY <3>1, <3>2
  <2>2. \A u \in Threads : ~Writing(u)'
    BY <1>5 DEF Writing, Busy
  <2>3. UNCHANGED <<mem, kept, vi, files, hasDefaults>>
    BY DEF Unlock
  <2> QED
    BY <1>3, <1>4, <2>1, <2>2, <2>3 DEF PInv, ParamTypes
<1>7. Alone'
  BY <1>3, <1>4, <1>5 DEF Alone, Busy
<1>8. Debts'
  <2>1. CopiesFirst(<<>>) /\ NoCopy(<<>>)
    BY DEF CopiesFirst, NoCopy, ToSet
  <2>2. ASSUME NEW s \in Sections, Busy(t)' PROVE Written(t)'[s] = mem'[s]
    BY <1>2, <1>5, <2>2 DEF Written
  <2> QED
    BY <1>2, <1>4, <1>5, <2>1, <2>2 DEF Debts
<1>9. Valid' /\ Keeps'
  BY <1>3, KeptHolds DEF Unlock, PInv, Valid
<1> QED
  BY <1>6, <1>7, <1>8, <1>9 DEF PInv

\* The second unlock finds nobody else in an operation.
LEMMA UnlockAgainHolds ==
  ASSUME PInv, NEW t \in Threads, UnlockAgain(t)
  PROVE  PInv'
<1>1. /\ th[t].pc = "again" /\ th[t].todo = <<>> /\ th[t].op = "res" /\ Busy(t) /\ ~Writing(t) /\ bInit
      /\ th \in [Threads -> [pc : {"idle", "work", "open", "dump", "again"}, todo : Seq(Entry), buf : Ini, op : Operation]]
  BY DEF UnlockAgain, Busy, Writing, PInv, ParamTypes, Alone
<1>2. InFiles = mem /\ InFiles' = mem'
  <2>1. InFiles = mem
    BY <1>1, NothingLeft
  <2>2. InFiles' = InFiles /\ mem' = mem
    BY DEF UnlockAgain, InFiles
  <2> QED
    BY <2>1, <2>2
<1>3. bInit' = bInit /\ Loaded /\ Loaded'
  BY <1>1 DEF UnlockAgain, Loaded
<1>4. /\ th'[t].pc = "idle" /\ th'[t].todo = <<>> /\ \A u \in Threads : u # t => th'[u] = th[u]
      /\ th' \in [Threads -> [pc : {"idle", "work", "open", "dump", "again"}, todo : Seq(Entry), buf : Ini, op : Operation]]
  <2>1. Idle \in [pc : {"idle", "work", "open", "dump", "again"}, todo : Seq(Entry), buf : Ini, op : Operation]
    <3>1. EmptyIni("global") \in [Within("global") -> Value] /\ "global" \in FileNames
      BY DEF EmptyIni, Value, FileNames
    <3>2. EmptyIni("global") \in Ini
      BY <3>1 DEF Ini
    <3> QED
      BY <3>2 DEF Idle, Operation
  <2> QED
    BY <1>1, <2>1 DEF UnlockAgain, Idle
<1>5. \A u \in Threads : ~Busy(u)'
  BY <1>1, <1>4 DEF Busy, PInv, Alone
<1>6. ParamTypes'
  <2>1. \A u \in Threads : \A e \in ToSet(th'[u].todo) : e[1] = "save" => e[2] # {}
    <3> SUFFICES ASSUME NEW u \in Threads PROVE \A e \in ToSet(th'[u].todo) : e[1] = "save" => e[2] # {}
      OBVIOUS
    <3>1. CASE u # t
      BY <3>1, <1>4 DEF PInv, ParamTypes
    <3>2. CASE u = t
      BY <3>2, <1>4 DEF ToSet
    <3> QED
      BY <3>1, <3>2
  <2>2. \A u \in Threads : ~Writing(u)'
    BY <1>5 DEF Writing, Busy
  <2>3. UNCHANGED <<mem, kept, vi, files, hasDefaults, bInit>>
    BY DEF UnlockAgain
  <2> QED
    BY <1>4, <2>1, <2>2, <2>3 DEF PInv, ParamTypes
<1>7. Alone'
  BY <1>5 DEF Alone, Busy
<1>8. Debts'
  BY <1>2, <1>5 DEF Debts
<1>9. Valid' /\ Keeps'
  BY <1>3, KeptHolds DEF UnlockAgain, PInv, Valid
<1> QED
  BY <1>6, <1>7, <1>8, <1>9 DEF PInv

\* What a program keeps when it is killed between operations is in the files.
LEMMA KillHolds ==
  ASSUME PInv, Kill
  PROVE  PInv'
<1>1. /\ \A u \in Threads : th'[u] = Idle
      /\ UNCHANGED <<files, hasDefaults>> /\ mem' = Zeroed /\ vi' = Unset /\ bInit' = FALSE
  BY DEF Kill
<1>2. Idle \in [pc : {"idle", "work", "open", "dump", "again"}, todo : Seq(Entry), buf : Ini, op : Operation]
  <2>1. EmptyIni("global") \in [Within("global") -> Value] /\ "global" \in FileNames
    BY DEF EmptyIni, Value, FileNames
  <2>2. EmptyIni("global") \in Ini
    BY <2>1 DEF Ini
  <2> QED
    BY <2>2 DEF Idle, Operation
<1>3. \A u \in Threads : ~Busy(u)' /\ ~Writing(u)' /\ th'[u].todo = <<>>
  BY <1>1 DEF Busy, Writing, Idle
<1>4. ~Loaded'
  BY <1>1, <1>3 DEF Loaded
<1>5. ParamTypes'
  <2>1. th' \in [Threads -> [pc : {"idle", "work", "open", "dump", "again"}, todo : Seq(Entry), buf : Ini, op : Operation]]
    BY <1>2 DEF Kill
  <2>2. \A u \in Threads : \A e \in ToSet(th'[u].todo) : e[1] = "save" => e[2] # {}
    BY <1>3 DEF ToSet
  <2>3. Zeroed \in [Sections -> Nat] /\ Unset \in [StreamSet -> [node : Nat, size : Nat]]
    BY DEF Zeroed, Unset, Invalid
  <2>4. kept' \in [Sections -> Nat]
    BY <2>3 DEF Kill, PInv, ParamTypes
  <2> QED
    BY <1>1, <1>3, <2>1, <2>2, <2>3, <2>4 DEF PInv, ParamTypes
<1>6. Alone'
  BY <1>3 DEF Alone, Busy
<1>7. Debts'
  BY <1>1, <1>3 DEF Debts
<1>8. Valid'
  BY <1>4 DEF Valid
<1>9. Keeps'
  <2> SUFFICES ASSUME kept' # Zeroed, hasDefaults
               PROVE  InFiles' = kept' /\ (\A s \in Sections : kept'[s] # Invalid) /\ kept'["version"] = Version
    BY <1>1, <1>4 DEF Keeps, Zeroed
  <2>1. bInit /\ (\A u \in Threads : ~Busy(u)) /\ kept' = mem
    BY DEF Kill, Busy
  <2>2. InFiles = mem /\ InFiles' = InFiles
    BY <2>1, <1>1 DEF PInv, Debts, InFiles
  <2>3. Loaded
    BY <2>1 DEF Loaded
  <2> QED
    BY <2>1, <2>2, <2>3 DEF PInv, Valid
<1> QED
  BY <1>5, <1>6, <1>7, <1>8, <1>9 DEF PInv

\* The files the program first starts with.
LEMMA FirstStartHolds ==
  FirstStart => PInv
<1> SUFFICES ASSUME FirstStart PROVE PInv
  OBVIOUS
<1>1. \A u \in Threads : th[u] = Idle
  BY DEF FirstStart
<1>2. Idle \in [pc : {"idle", "work", "open", "dump", "again"}, todo : Seq(Entry), buf : Ini, op : Operation]
  <2>1. EmptyIni("global") \in [Within("global") -> Value] /\ "global" \in FileNames
    BY DEF EmptyIni, Value, FileNames
  <2>2. EmptyIni("global") \in Ini
    BY <2>1 DEF Ini
  <2> QED
    BY <2>2 DEF Idle, Operation
<1>3. \A u \in Threads : ~Busy(u) /\ ~Writing(u) /\ th[u].todo = <<>>
  BY <1>1 DEF Busy, Writing, Idle
<1>4. ~Loaded
  BY <1>1, <1>3 DEF FirstStart, Loaded
<1>5. ParamTypes
  <2>1. th \in [Threads -> [pc : {"idle", "work", "open", "dump", "again"}, todo : Seq(Entry), buf : Ini, op : Operation]]
    BY <1>2 DEF FirstStart
  <2>2. \A u \in Threads : \A e \in ToSet(th[u].todo) : e[1] = "save" => e[2] # {}
    BY <1>3 DEF ToSet
  <2>3. Zeroed \in [Sections -> Nat] /\ Unset \in [StreamSet -> [node : Nat, size : Nat]]
    BY DEF Zeroed, Unset, Invalid
  <2>4. files \in [FileNames -> Ini] /\ \A f \in FileNames : files[f] \in [Within(f) -> Value]
    <3>1. PICK first \in FirstFiles : files = [f \in FileNames |-> Part(first, f)]
      BY DEF FirstStart
    <3>2. \A s \in Sections : first[s] \in Value
      BY ParamAssumption DEF Value
    <3>3. ASSUME NEW f \in FileNames PROVE Part(first, f) \in [Within(f) -> Value]
      BY <3>2 DEF Part, Within
    <3>4. \A f \in FileNames : Part(first, f) \in Ini
      BY <3>3 DEF Ini
    <3> QED
      BY <3>1, <3>3, <3>4
  <2> QED
    BY <1>3, <2>1, <2>2, <2>3, <2>4 DEF FirstStart, ParamTypes
<1>6. Alone
  BY <1>3 DEF Alone, Busy
<1>7. Debts
  BY <1>3 DEF Debts, FirstStart
<1>8. Valid /\ Keeps
  BY <1>4 DEF Valid, Keeps, FirstStart
<1> QED
  BY <1>5, <1>6, <1>7, <1>8 DEF PInv

\* A step that changes nothing.
LEMMA StandStill ==
  ASSUME PInv, UNCHANGED paramVars
  PROVE  PInv'
<1> USE DEF paramVars
<1>1. \A t \in Threads : Job(t)' = Job(t) /\ Chosen(t)' = Chosen(t) /\ Target(t)' = Target(t) /\ Writing(t)' = Writing(t)
  BY DEF Writing, Job, Target, Chosen
<1>6. ParamTypes'
  BY <1>1 DEF PInv, ParamTypes
<1>7. Alone'
  BY DEF PInv, Alone, Busy
<1>2. InFiles' = InFiles
  BY DEF InFiles
<1>3. \A t \in Threads : Written(t)' = Written(t) /\ Remaining(t)' = Remaining(t)
  BY <1>2 DEF Written, Remaining, Writing, Target, Job, Chosen, Rest
<1>4. Debts'
  BY <1>2, <1>3 DEF PInv, Debts, Busy
<1>5. Valid' /\ Keeps'
  BY <1>2 DEF PInv, Valid, Keeps, Loaded, Busy, Zeroed
<1> QED
  BY <1>4, <1>5, <1>6, <1>7 DEF PInv

-----------------------------------------------------------------------------
(* The invariant and what follows from it                                  *)

\* The invariant is inductive.
LEMMA ParamNextHolds ==
  ASSUME Careful, PInv, [ParamNext]_paramVars
  PROVE  PInv'
<1>1. ASSUME NEW t \in Threads, ParamInit(t) PROVE PInv'
  BY <1>1, ParamInitHolds
<1>2. ASSUME NEW t \in Threads,
             SetCamParam(t) \/ SetCodecType(t) \/ SetBitrate(t) \/ SetGop(t) \/ SetFps(t) \/ SetRecTime(t) \/ SetCommParam(t)
      PROVE  PInv'
  <2>1. CASE SetCamParam(t) \/ SetCodecType(t) \/ SetBitrate(t) \/ SetGop(t)
    <3>1. Setting(t, {"sensor"}) \/ Setting(t, {"attr"})
      BY <2>1 DEF SetCamParam, SetCodecType, SetBitrate, SetGop
    <3> QED
      BY <3>1, SettingHolds
  <2>2. CASE SetFps(t)
    <3>1. Setting(t, {"sensor", "attr"})
      BY <2>2 DEF SetFps
    <3> QED
      BY <3>1, SettingHolds
  <2>3. CASE SetRecTime(t) \/ SetCommParam(t)
    <3>1. Setting(t, {"time"}) \/ Setting(t, {"common"})
      BY <2>3 DEF SetRecTime, SetCommParam
    <3> QED
      BY <3>1, SettingHolds
  <2> QED
    BY <1>2, <2>1, <2>2, <2>3
<1>3. ASSUME NEW t \in Threads, SetStreamRes(t) \/ SetRes(t) PROVE PInv'
  <2>1. SetStreamResolution(t, "stream res") \/ SetStreamResolution(t, "res")
    BY <1>3 DEF SetStreamRes, SetRes
  <2>2. "stream res" \in Operation /\ "res" \in Operation
    BY DEF Operation
  <2> QED
    BY <2>1, <2>2, StreamResolutionHolds
<1>4. ASSUME NEW t \in Threads, SetDefault(t) PROVE PInv'
  BY <1>4, SetDefaultHolds
<1>5. ASSUME NEW t \in Threads, SetViAttr(t) \/ Read(t) PROVE PInv'
  BY <1>5, SetViAttrHolds, ReadHolds
<1>6. ASSUME NEW t \in Threads, Truncate(t) \/ Dump(t) PROVE PInv'
  BY <1>6, TruncateHolds, DumpHolds
<1>7. ASSUME NEW t \in Threads, Unlock(t) \/ UnlockAgain(t) PROVE PInv'
  BY <1>7, UnlockHolds, UnlockAgainHolds
<1> QED
  BY <1>1, <1>2, <1>3, <1>4, <1>5, <1>6, <1>7, KillHolds, StandStill DEF ParamNext

\* All of it holds throughout, where no thread calls while another is in an
\* operation that unlocks twice: one operation at a time, what the files lack is
\* owed, settings in use are valid, and what was kept is found.
THEOREM ParamInvariance ==
  ASSUME Careful
  PROVE  ParamSpec => []PInv
<1>1. PInv /\ [ParamNext]_paramVars => PInv'
  BY ParamNextHolds
<1> QED
  BY <1>1, FirstStartHolds, PTL DEF ParamSpec

\* Between operations the files hold what the memory holds, whichever thread
\* saved last and wherever the program was killed before (SaveCommon, SaveSensor
\* and their like under the mutex, and LoadParam's repairs).
THEOREM FilesAreSaved ==
  ASSUME Careful
  PROVE  ParamSpec => []SavedIsMemory
<1>1. PInv => SavedIsMemory
  BY DEF PInv, Debts, SavedIsMemory, Quiet, Busy
<1> QED
  BY <1>1, ParamInvariance, PTL

\* A program that was killed between operations finds its settings again: when
\* RKADK_PARAM_Init loads them nothing is replaced by a default.
THEOREM SettingsSurvive ==
  ASSUME Careful
  PROVE  ParamSpec => []Survives
<1>1. PInv => Survives
  BY DEF PInv, Keeps, Survives, Loaded
<1> QED
  BY <1>1, ParamInvariance, PTL

-----------------------------------------------------------------------------
(* Nodes and the copies of their attributes                                *)

\* What NodesFitStreams needs besides the invariant of the files.
NInv == Copies /\ Sized

\* Between operations no stream is to be matched.
LEMMA NotPending ==
  ASSUME \A u \in Threads : ~Busy(u), NEW s
  PROVE  ~Pending(s)
BY DEF Pending

\* An operation begins with every stream to be matched, or changes no node and
\* the size of no stream that is not to be matched.
Careless(a) ==
  \/ \A s \in Direct : <<"match", s>> \in ToSet(a.todo)
  \/ /\ bInit
     /\ \A n \in DOMAIN Nodes : a.mem[Nodes[n]] = mem[Nodes[n]]
     /\ \A s \in Direct : <<"match", s>> \in ToSet(a.todo) \/ a.mem[s] = mem[s]

\* An operation that begins so leaves nodes and copies right.
LEMMA LockedFits ==
  ASSUME PInv, NInv, NEW t \in Threads, NEW op, NEW a, Locked(t, op, a), Careless(a),
         \A u \in Threads : ~Busy(u), vi' = vi
  PROVE  NInv'
<1>1. th'[t].pc = "work" /\ th'[t].todo = a.todo /\ mem' = a.mem
  BY DEF Locked, Idle, PInv, ParamTypes
<1>2. ASSUME NEW s, <<"match", s>> \in ToSet(a.todo) PROVE Pending(s)'
  BY <1>1, <1>2 DEF Pending, Busy
<1>3. CASE \A s \in Direct : <<"match", s>> \in ToSet(a.todo)
  BY <1>2, <1>3 DEF NInv, Copies, Sized
<1>4. CASE /\ bInit
           /\ \A n \in DOMAIN Nodes : a.mem[Nodes[n]] = mem[Nodes[n]]
           /\ \A s \in Direct : <<"match", s>> \in ToSet(a.todo) \/ a.mem[s] = mem[s]
  <2>1. Loaded
    BY <1>4 DEF Loaded
  <2>2. ASSUME NEW s \in Direct PROVE Pending(s)' \/ (Own(s) = {vi[s].node} /\ vi[s].size = mem'[s])
    <3>1. Own(s) = {vi[s].node} /\ vi[s].size = mem[s]
      BY <2>1, NotPending DEF NInv, Copies
    <3> QED
      BY <3>1, <1>1, <1>2, <1>4
  <2>3. ASSUME NEW s \in Direct
        PROVE  \E r \in Direct : Own(r) = Own(s) /\ (Pending(r)' \/ \A n \in Own(s) : mem'[Nodes[n]] = mem'[r])
    <3>1. PICK r \in Direct : Own(r) = Own(s) /\ \A n \in Own(s) : mem[Nodes[n]] = mem[r]
      BY <2>1, NotPending DEF NInv, Sized
    <3>2. CASE <<"match", r>> \in ToSet(a.todo)
      BY <3>1, <3>2, <1>2
    <3>3. CASE a.mem[r] = mem[r]
      <4>1. \A n \in Own(s) : n \in DOMAIN Nodes
        BY DEF Own
      <4>2. \A n \in Own(s) : mem'[Nodes[n]] = mem'[r]
        BY <1>1, <1>4, <3>1, <3>3, <4>1
      <4> QED
        BY <3>1, <4>2
    <3> QED
      BY <1>4, <3>2, <3>3
  <2>4. Copies'
    BY <2>2 DEF Copies
  <2>5. \A s : Own(s)' = Own(s)
    BY DEF Own
  <2>6. Sized'
    BY <2>3, <2>5 DEF Sized
  <2> QED
    BY <2>4, <2>6 DEF NInv
<1> QED
  BY <1>3, <1>4 DEF Careless

\* Steps that touch neither sizes nor copies and forget no stream.
LEMMA SameFits ==
  ASSUME NInv, Loaded, mem' = mem, vi' = vi, \A s \in StreamSet : Pending(s) => Pending(s)'
  PROVE  NInv'
<1>1. Direct \subseteq StreamSet
  BY ParamAssumption
<1>2. \A s : Own(s)' = Own(s)
  BY DEF Own
<1>3. Copies'
  BY <1>1, <1>2 DEF NInv, Copies
<1>4. ASSUME NEW s \in Direct
      PROVE  \E r \in Direct : Own(r) = Own(s) /\ (Pending(r)' \/ \A n \in Own(s) : mem'[Nodes[n]] = mem'[r])
  <2>1. PICK r \in Direct : Own(r) = Own(s) /\ (Pending(r) \/ \A n \in Own(s) : mem[Nodes[n]] = mem[r])
    BY DEF NInv, Sized
  <2> QED
    BY <2>1, <1>1
<1>5. Sized'
  BY <1>2, <1>4 DEF Sized
<1> QED
  BY <1>3, <1>5 DEF NInv

\* The stream that is matched has its node and its size; a stream on another
\* node does not notice.
LEMMA SetViAttrFits ==
  ASSUME PInv, NInv, OneNode, NEW t \in Threads, SetViAttr(t)
  PROVE  NInv'
<1> DEFINE s == Job(t)[2]
           q == th[t].todo
<1>1. /\ q # <<>> /\ Job(t)[1] = "match" /\ th[t].pc = "work" /\ Busy(t) /\ Loaded
      /\ th \in [Threads -> [pc : {"idle", "work", "open", "dump", "again"}, todo : Seq(Entry), buf : Ini, op : Operation]]
  BY DEF SetViAttr, Working, PInv, ParamTypes, Busy, Loaded
<1>2. PICK n \in Match(s) :
        /\ mem' = Resized(Nodes[n], s)
        /\ vi' = [vi EXCEPT ![s] = [node |-> n, size |-> mem'[Nodes[n]]]]
        /\ th' = [th EXCEPT ![t].todo = (IF mem' = mem THEN <<>> ELSE Saves({Nodes[n]})) \o Tail(q)]
  BY DEF SetViAttr
<1> DEFINE p == IF mem' = mem THEN <<>> ELSE Saves({Nodes[n]})
<1>3. th'[t].todo = p \o Tail(q) /\ th'[t].pc = "work" /\ \A u \in Threads : u # t => th'[u] = th[u]
  BY <1>1, <1>2
<1>4. /\ s \in StreamSet /\ Tail(q) \in Seq(Entry)
      /\ ToSet(q) = {Job(t)} \cup ToSet(Tail(q)) /\ Job(t) \in Entry
  BY <1>1, JobType DEF PInv
<1>5. n \in Own(s) /\ n \in DOMAIN Nodes /\ Nodes[n] \in NodeSet /\ Nodes[n] \in Sections /\ s \in Sections
  BY <1>4, MatchType, Names DEF Own
<1>6. mem \in [Sections -> Nat] /\ vi \in [StreamSet -> [node : Nat, size : Nat]]
  BY DEF PInv, ParamTypes
<1>7. Direct \subseteq StreamSet /\ StreamSet \cap NodeSet = {} /\ StreamSet \subseteq Sections
  BY ParamAssumption, Names
<1>8. p \in Seq(Entry)
  <2>1. {Nodes[n]} \in SUBSET Sections
    BY <1>5
  <2>2. Saves({Nodes[n]}) \in Seq(Entry)
    BY <2>1, ItemsOfSaves
  <2> QED
    BY <2>2
<1> HIDE DEF p
<1>9. ASSUME NEW r \in StreamSet, r # s, Pending(r) PROVE Pending(r)'
  <2>1. PICK u \in Threads : Busy(u) /\ <<"match", r>> \in ToSet(th[u].todo)
    BY <1>9, Zenon DEF Pending
  <2>2. CASE u # t
    <3>1. th'[u] = th[u]
      BY <2>2, <1>3
    <3> QED
      BY <2>1, <3>1 DEF Pending, Busy
  <2>3. CASE u = t
    <3>1. <<"match", r>> # Job(t)
      BY <1>9
    <3>2. <<"match", r>> \in ToSet(Tail(q))
      BY <2>1, <2>3, <3>1, <1>4
    <3>3. ToSet(p \o Tail(q)) = ToSet(p) \cup ToSet(Tail(q))
      <4>1. p \in Seq(Entry) /\ Tail(q) \in Seq(Entry)
        BY <1>4, <1>8
      <4> HIDE DEF q
      <4> QED
        BY <4>1, ItemsOfConcat
    <3>4. <<"match", r>> \in ToSet(th'[t].todo) /\ Busy(t)'
      BY <1>3, <3>2, <3>3 DEF Busy
    <3> QED
      BY <3>4, Zenon DEF Pending
  <2> QED
    BY <2>2, <2>3
<1> HIDE DEF q, s
<1>10. ASSUME NEW r \in StreamSet PROVE mem'[r] = mem[r]
  BY <1>2, <1>5, <1>6, <1>7 DEF Resized
<1>11. ASSUME s \in Direct PROVE mem'[Nodes[n]] = mem'[s] /\ Own(s) = {n}
  <2>1. mem'[Nodes[n]] = mem[s]
    BY <1>2, <1>5, <1>6, <1>11 DEF Resized
  <2>2. Own(s) = {n}
    BY <1>5, <1>11 DEF OneNode
  <2> QED
    BY <2>1, <2>2, <1>4, <1>10
<1>12. \A r : Own(r)' = Own(r)
  BY DEF Own
<1>13. ASSUME NEW r \in Direct PROVE Pending(r)' \/ (Own(r) = {vi'[r].node} /\ vi'[r].size = mem'[r])
  <2>1. CASE r = s
    <3>1. vi'[s] = [node |-> n, size |-> mem'[Nodes[n]]]
      BY <1>2, <1>4, <1>6
    <3> QED
      BY <2>1, <3>1, <1>11, <1>13
  <2>2. CASE r # s
    <3>1. r \in StreamSet /\ vi'[r] = vi[r] /\ mem'[r] = mem[r]
      BY <1>2, <1>6, <1>7, <1>10, <2>2
    <3>2. Pending(r) \/ (Own(r) = {vi[r].node} /\ vi[r].size = mem[r])
      BY <1>1 DEF NInv, Copies
    <3> QED
      BY <2>2, <3>1, <3>2, <1>9
  <2> QED
    BY <2>1, <2>2
<1>14. ASSUME NEW z \in Direct
       PROVE  \E r \in Direct : Own(r) = Own(z) /\ (Pending(r)' \/ \A k \in Own(z) : mem'[Nodes[k]] = mem'[r])
  <2>1. PICK r \in Direct : Own(r) = Own(z) /\ (Pending(r) \/ \A k \in Own(z) : mem[Nodes[k]] = mem[r])
    BY <1>1 DEF NInv, Sized
  <2>2. CASE s \in Direct /\ Own(s) = Own(z)
    <3>1. \A k \in Own(z) : mem'[Nodes[k]] = mem'[s]
      BY <1>11, <2>2
    <3> QED
      BY <2>2, <3>1
  <2>3. CASE s \in Direct /\ Own(s) # Own(z)
    <3>1. r # s /\ r \in StreamSet
      BY <2>1, <2>3, <1>7
    <3>2. ASSUME NEW k \in Own(z) PROVE mem'[Nodes[k]] = mem[Nodes[k]]
      <4>1. Own(z) = {k} /\ k \in DOMAIN Nodes
        BY DEF OneNode, Own
      <4>2. Own(s) = {n}
        BY <1>11, <2>3
      <4>3. k # n
        BY <2>3, <4>1, <4>2
      <4>4. Nodes[k] # Nodes[n]
        <5> SUFFICES ASSUME Nodes[k] = Nodes[n] PROVE FALSE
          OBVIOUS
        <5>1. s \in Serves[Nodes[n]]
          BY <1>5 DEF Own
        <5>2. k \in Own(s)
          BY <5>1, <4>1 DEF Own
        <5> QED
          BY <5>2, <4>2, <4>3
      <4>5. Nodes[k] \in Sections
        BY <4>1, Names
      <4> QED
        BY <4>4, <4>5, <1>2, <1>6 DEF Resized
    <3>3. Pending(r) => Pending(r)'
      BY <3>1, <1>9
    <3>4. mem'[r] = mem[r]
      BY <3>1, <1>10
    <3> QED
      BY <2>1, <3>2, <3>3, <3>4
  <2>4. CASE s \notin Direct
    <3>1. r # s /\ r \in StreamSet /\ mem' = mem
      BY <2>1, <2>4, <1>2, <1>7 DEF Resized
    <3>2. Pending(r) => Pending(r)'
      BY <3>1, <1>9
    <3> QED
      BY <2>1, <3>1, <3>2
  <2> QED
    BY <2>2, <2>3, <2>4
<1>15. Copies'
  BY <1>12, <1>13 DEF Copies
<1>16. Sized'
  BY <1>12, <1>14 DEF Sized
<1> QED
  BY <1>15, <1>16 DEF NInv

\* So does every call.
LEMMA CallFits ==
  ASSUME PInv, NInv, Careful, NEW t \in Threads, NEW op, NEW a, Call(t, op, a), Careless(a)
  PROVE  NInv'
<1>1. \A u \in Threads : ~Busy(u)
  BY Free
<1>2. Locked(t, op, a) /\ vi' = vi
  BY DEF Call
<1> QED
  BY <1>1, <1>2, LockedFits

\* No size is set by these.
LEMMA SettingFits ==
  ASSUME PInv, NInv, Careful, NEW t \in Threads,
         NEW sections \in SUBSET {"common", "sensor", "time", "attr"}, Setting(t, sections)
  PROVE  NInv'
<1>1. PICK s \in sections, v \in Values : Call(t, "set", IF mem[s] = v THEN Now ELSE Change(s, v))
  BY DEF Setting
<1> DEFINE a == IF mem[s] = v THEN Now ELSE Change(s, v)
<1>2. bInit /\ s \notin StreamSet /\ s \notin NodeSet /\ s \in Sections /\ mem \in [Sections -> Nat]
  BY <1>1, ParamAssumption, Names DEF Call, PInv, ParamTypes, SensorSections, GlobalSections
<1>3. \A r \in StreamSet \cup NodeSet : a.mem[r] = mem[r]
  <2>1. Now.mem = mem /\ Change(s, v).mem = [mem EXCEPT ![s] = v]
    BY DEF Now, Change
  <2>2. a.mem = mem \/ a.mem = [mem EXCEPT ![s] = v]
    BY <2>1
  <2> HIDE DEF a
  <2> QED
    BY <2>2, <1>2, Names
<1> HIDE DEF a
<1>4. Careless(a)
  BY <1>2, <1>3, ParamAssumption, Names DEF Careless
<1>5. Call(t, "set", a)
  BY <1>1 DEF a
<1> QED
  BY <1>4, <1>5, CallFits

\* Streams to be matched are in the list.
LEMMA ThenMatches ==
  ASSUME NEW a, a.todo \in Seq(Entry), NEW q \in Seq(StreamSet)
  PROVE  /\ Then(a, q).mem = a.mem
         /\ \A s \in ToSet(q) : <<"match", s>> \in ToSet(Then(a, q).todo)
<1>1. a.todo \in Seq(Entry) /\ Matches(q) \in Seq(Entry)
  BY ItemsOfMatches
<1>2. ToSet(a.todo \o Matches(q)) = ToSet(a.todo) \cup ToSet(Matches(q))
  BY <1>1, ItemsOfConcat
<1>3. \A s \in ToSet(q) : <<"match", s>> \in ToSet(Matches(q))
  BY ItemsOfMatches
<1>4. Then(a, q).todo = a.todo \o Matches(q) /\ Then(a, q).mem = a.mem
  BY DEF Then
<1> QED
  BY <1>2, <1>3, <1>4

\* A stream whose size is set is matched, if a node gives its size.
LEMMA StreamResolutionFits ==
  ASSUME PInv, NInv, Careful, NEW t \in Threads, NEW op, SetStreamResolution(t, op)
  PROVE  NInv'
<1>1. PICK s \in Resizable, size \in Sizes :
        Call(t, op, IF s \in Direct THEN Then(Change(s, size), Together(s)) ELSE Change(s, size))
  BY DEF SetStreamResolution
<1>2. bInit /\ s \in StreamSet /\ s \in Sections /\ mem \in [Sections -> Nat] /\ Direct \subseteq StreamSet
      /\ NodeSet \subseteq Sections /\ StreamSet \subseteq Sections /\ StreamSet \cap NodeSet = {}
  BY <1>1, ParamAssumption, Names DEF Call, PInv, ParamTypes
<1>3. Change(s, size).mem = [mem EXCEPT ![s] = size] /\ Change(s, size).todo = Saves({s})
  BY DEF Change
<1>4. Change(s, size).todo \in Seq(Entry)
  <2>1. {s} \in SUBSET Sections
    BY <1>2
  <2>2. Saves({s}) \in Seq(Entry)
    BY <2>1, ItemsOfSaves
  <2> QED
    BY <1>3, <2>2
<1>5. \A n \in DOMAIN Nodes : [mem EXCEPT ![s] = size][Nodes[n]] = mem[Nodes[n]]
  BY <1>2, Names
<1>6. \A r \in Direct : r # s => [mem EXCEPT ![s] = size][r] = mem[r]
  BY <1>2
<1>7. CASE s \in Direct
  <2> DEFINE a == Then(Change(s, size), Together(s))
  <2>1. Together(s) \in Seq(StreamSet) /\ s \in ToSet(Together(s))
    BY <1>2, TogetherType
  <2>2. a.mem = [mem EXCEPT ![s] = size] /\ <<"match", s>> \in ToSet(a.todo)
    BY <1>3, <1>4, <2>1, ThenMatches
  <2>3. Call(t, op, a)
    BY <1>1, <1>7
  <2> HIDE DEF a
  <2>4. Careless(a)
    BY <1>2, <1>5, <1>6, <2>2 DEF Careless
  <2> QED
    BY <2>3, <2>4, CallFits
<1>8. CASE s \notin Direct
  <2> DEFINE a == Change(s, size)
  <2>1. Call(t, op, a)
    BY <1>1, <1>8
  <2>2. a.mem = [mem EXCEPT ![s] = size]
    BY <1>3
  <2> HIDE DEF a
  <2>3. Careless(a)
    BY <1>2, <1>5, <1>6, <1>8, <2>2 DEF Careless
  <2> QED
    BY <2>1, <2>3, CallFits
<1> QED
  BY <1>7, <1>8

\* All streams are matched when the parameters are initialised or restored.
LEMMA AllMatched ==
  ASSUME NEW a, Sound(a)
  PROVE  Careless(Then(a, Streams))
<1>1. a.todo \in Seq(Entry) /\ Streams \in Seq(StreamSet) /\ ToSet(Streams) = StreamSet /\ Direct \subseteq StreamSet
  BY Names, ParamAssumption DEF Sound
<1>2. \A s \in ToSet(Streams) : <<"match", s>> \in ToSet(Then(a, Streams).todo)
  BY <1>1, ThenMatches
<1> QED
  BY <1>1, <1>2 DEF Careless

\* RKADK_PARAM_SetDefault.
LEMMA SetDefaultFits ==
  ASSUME PInv, NInv, Careful, NEW t \in Threads, SetDefault(t)
  PROVE  NInv'
<1>1. Call(t, "default", Then(LoadDefault, Streams)) /\ Careless(Then(LoadDefault, Streams))
  BY LoadDefaultIsSound, AllMatched DEF SetDefault, SetMediaViAttr
<1> QED
  BY <1>1, CallFits

\* RKADK_PARAM_Init.
LEMMA ParamInitFits ==
  ASSUME PInv, NInv, NEW t \in Threads, ParamInit(t)
  PROVE  NInv'
<1> DEFINE a == IF Loads THEN LoadParam ELSE IF hasDefaults THEN LoadDefault ELSE UseDefault
           b == Then(a, Streams)
<1>1. Sound(a)
  BY LoadParamIsSound, LoadDefaultIsSound, UseDefaultIsSound DEF PInv
<1>2. Locked(t, "init", b) /\ vi' = vi /\ \A u \in Threads : ~Busy(u)
  BY DEF ParamInit, SetMediaViAttr, Busy
<1> HIDE DEF a
<1>3. Careless(b)
  BY <1>1, AllMatched
<1> HIDE DEF b
<1> QED
  BY <1>2, <1>3, LockedFits

\* The steps that write a file.
LEMMA FileStepFits ==
  ASSUME PInv, NInv, NEW t \in Threads, Read(t) \/ Truncate(t) \/ Dump(t)
  PROVE  NInv'
<1>1. /\ th[t].pc \in {"work", "open", "dump"} /\ th[t].todo # <<>> /\ Job(t)[1] \in {"save", "copy"} /\ Busy(t)
      /\ th \in [Threads -> [pc : {"idle", "work", "open", "dump", "again"}, todo : Seq(Entry), buf : Ini, op : Operation]]
  BY DEF Read, Truncate, Dump, Working, Writing, Busy, PInv, ParamTypes
<1>2. /\ th'[t].pc \in {"work", "open", "dump"} /\ th'[t].todo \in {th[t].todo, Rest(t)}
      /\ \A u \in Threads : u # t => th'[u] = th[u]
      /\ mem' = mem /\ vi' = vi
  BY <1>1 DEF Read, Truncate, Dump, Step
<1>3. \A s \in StreamSet : <<"match", s>> \in ToSet(th[t].todo) => <<"match", s>> \in ToSet(th'[t].todo)
  BY <1>1, <1>2, RestType DEF PInv
<1>4. Busy(t)'
  BY <1>2 DEF Busy
<1>5. ASSUME NEW s \in StreamSet, Pending(s) PROVE Pending(s)'
  <2>1. PICK u \in Threads : Busy(u) /\ <<"match", s>> \in ToSet(th[u].todo)
    BY <1>5, Zenon DEF Pending
  <2>2. CASE u # t
    <3>1. th'[u] = th[u]
      BY <2>2, <1>2
    <3> QED
      BY <2>1, <3>1 DEF Pending, Busy
  <2>3. CASE u = t
    BY <1>3, <1>4, <2>1, <2>3 DEF Pending
  <2> QED
    BY <2>2, <2>3
<1>6. Loaded
  BY <1>1 DEF Loaded
<1> QED
  BY <1>2, <1>5, <1>6, SameFits

\* The end of an operation: nothing is left to be matched.
LEMMA UnlockFits ==
  ASSUME PInv, NInv, NEW t \in Threads, Unlock(t) \/ UnlockAgain(t)
  PROVE  NInv'
<1>1. Busy(t) /\ Loaded /\ th[t].todo = <<>> /\ mem' = mem /\ vi' = vi
  BY DEF Unlock, UnlockAgain, PInv, Alone, Busy, Loaded
<1>2. \A s \in StreamSet : ~Pending(s)
  BY <1>1 DEF PInv, Alone, Pending, ToSet
<1> QED
  BY <1>1, <1>2, SameFits

\* Nothing is loaded.
LEMMA KillFits ==
  ASSUME Kill
  PROVE  NInv'
BY DEF Kill, NInv, Copies, Sized, Loaded, Busy, Idle

\* Nothing is loaded.
LEMMA FirstStartFits ==
  FirstStart => NInv
BY DEF FirstStart, NInv, Copies, Sized, Loaded, Busy, Idle

\* A step that changes nothing.
LEMMA StandStillFits ==
  ASSUME NInv, UNCHANGED paramVars
  PROVE  NInv'
<1>1. mem' = mem /\ vi' = vi /\ th' = th /\ bInit' = bInit
  BY DEF paramVars
<1>2. CASE Loaded
  <2>1. \A s \in StreamSet : Pending(s) => Pending(s)'
    BY <1>1 DEF Pending, Busy
  <2> QED
    BY <1>1, <1>2, <2>1, SameFits
<1>3. CASE ~Loaded
  <2>1. ~Loaded'
    BY <1>1, <1>3 DEF Loaded, Busy
  <2> QED
    BY <2>1 DEF NInv, Copies, Sized
<1> QED
  BY <1>2, <1>3

\* Copies and Sized are inductive.
LEMMA ParamNextFits ==
  ASSUME Careful, OneNode, PInv, NInv, [ParamNext]_paramVars
  PROVE  NInv'
<1>1. ASSUME NEW t \in Threads, ParamInit(t) PROVE NInv'
  BY <1>1, ParamInitFits
<1>2. ASSUME NEW t \in Threads,
             SetCamParam(t) \/ SetCodecType(t) \/ SetBitrate(t) \/ SetGop(t) \/ SetFps(t) \/ SetRecTime(t) \/ SetCommParam(t)
      PROVE  NInv'
  <2>1. CASE SetCamParam(t) \/ SetCodecType(t) \/ SetBitrate(t) \/ SetGop(t)
    <3>1. Setting(t, {"sensor"}) \/ Setting(t, {"attr"})
      BY <2>1 DEF SetCamParam, SetCodecType, SetBitrate, SetGop
    <3> QED
      BY <3>1, SettingFits
  <2>2. CASE SetFps(t)
    <3>1. Setting(t, {"sensor", "attr"})
      BY <2>2 DEF SetFps
    <3> QED
      BY <3>1, SettingFits
  <2>3. CASE SetRecTime(t) \/ SetCommParam(t)
    <3>1. Setting(t, {"time"}) \/ Setting(t, {"common"})
      BY <2>3 DEF SetRecTime, SetCommParam
    <3> QED
      BY <3>1, SettingFits
  <2> QED
    BY <1>2, <2>1, <2>2, <2>3
<1>3. ASSUME NEW t \in Threads, SetStreamRes(t) \/ SetRes(t) PROVE NInv'
  BY <1>3, StreamResolutionFits DEF SetStreamRes, SetRes
<1>4. ASSUME NEW t \in Threads, SetDefault(t) PROVE NInv'
  BY <1>4, SetDefaultFits
<1>5. ASSUME NEW t \in Threads, SetViAttr(t) PROVE NInv'
  BY <1>5, SetViAttrFits
<1>6. ASSUME NEW t \in Threads, Read(t) \/ Truncate(t) \/ Dump(t) PROVE NInv'
  BY <1>6, FileStepFits
<1>7. ASSUME NEW t \in Threads, Unlock(t) \/ UnlockAgain(t) PROVE NInv'
  BY <1>7, UnlockFits
<1> QED
  BY <1>1, <1>2, <1>3, <1>4, <1>5, <1>6, <1>7, KillFits, StandStillFits DEF ParamNext

\* Where the streams that take their size from a node agree on it, the node
\* and the copies have that size: for any streams and nodes, if such a stream
\* is named by one node, as in every ini file of src/inicfg.
THEOREM NodesFit ==
  ASSUME Careful, OneNode
  PROVE  ParamSpec => []NodesFitStreams
<1>1. PInv /\ NInv /\ [ParamNext]_paramVars => NInv'
  BY ParamNextFits
<1>2. ASSUME NInv PROVE NodesFitStreams
  <2> SUFFICES ASSUME Quiet, NEW s \in Direct, \A r \in Direct : vi[r].node = vi[s].node => mem[r] = mem[s]
               PROVE  mem[Nodes[vi[s].node]] = mem[s] /\ vi[s].size = mem[s]
    BY DEF NodesFitStreams
  <2>1. Loaded /\ \A r : ~Pending(r)
    BY DEF Quiet, Loaded, Pending, Busy
  <2>2. \A r \in Direct : Own(r) = {vi[r].node} /\ vi[r].size = mem[r]
    BY <1>2, <2>1 DEF NInv, Copies
  <2>3. PICK r \in Direct : Own(r) = Own(s) /\ \A n \in Own(s) : mem[Nodes[n]] = mem[r]
    BY <1>2, <2>1 DEF NInv, Sized
  <2>4. vi[r].node = vi[s].node
    BY <2>2, <2>3
  <2>5. vi[s].node \in Own(s)
    BY <2>2
  <2> QED
    BY <2>2, <2>3, <2>4, <2>5
<1> QED
  BY <1>1, <1>2, FirstStartFits, ParamInvariance, PTL DEF ParamSpec

=============================================================================
