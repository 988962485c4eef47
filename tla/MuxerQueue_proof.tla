-------------------------- MODULE MuxerQueue_proof --------------------------
(***************************************************************************)
(* Proofs about module MuxerQueue, for any producers, cells, time stamps   *)
(* and signal maximum.                                                     *)
(***************************************************************************)
EXTENDS MuxerQueue, FiniteSetTheorems, SequenceTheorems, TLAPS

-----------------------------------------------------------------------------
(* Lists                                                                   *)

\* Inserting a cell keeps the list a list, one longer, and keeps the order of
\* the cells that were there.
LEMMA InsertAtProperties ==
  ASSUME NEW q \in Seq(Cells), NEW c \in Cells, NEW i \in 1 .. Len(q) + 1
  PROVE  /\ InsertAt(q, i, c) \in Seq(Cells)
         /\ Len(InsertAt(q, i, c)) = Len(q) + 1
         /\ DOMAIN InsertAt(q, i, c) = 1 .. Len(q) + 1
         /\ InsertAt(q, i, c)[i] = c
         /\ \A j \in 1 .. Len(q) + 1 : j < i => InsertAt(q, i, c)[j] = q[j]
         /\ \A j \in 1 .. Len(q) + 1 : j > i => InsertAt(q, i, c)[j] = q[j - 1]
<1> DEFINE r == InsertAt(q, i, c)
<1>1. /\ Len(q) \in Nat /\ i \in Nat /\ i >= 1 /\ i <= Len(q) + 1
      /\ \A j \in 1 .. Len(q) : q[j] \in Cells
  OBVIOUS
<1>2. \A j \in 1 .. Len(q) + 1 : r[j] = IF j < i THEN q[j] ELSE IF j = i THEN c ELSE q[j - 1]
  BY DEF InsertAt
<1>3. \A j \in 1 .. Len(q) + 1 : r[j] \in Cells
  <2> TAKE j \in 1 .. Len(q) + 1
  <2>1. CASE j < i
    <3>1. j \in 1 .. Len(q) BY <1>1, <2>1
    <3> QED BY <1>1, <1>2, <2>1, <3>1
  <2>2. CASE j = i BY <1>1, <1>2, <2>2
  <2>3. CASE j > i
    <3>1. j - 1 \in 1 .. Len(q) BY <1>1, <2>3
    <3> QED BY <1>1, <1>2, <2>3, <3>1
  <2> QED BY <1>1, <2>1, <2>2, <2>3
<1>4. r \in [1 .. Len(q) + 1 -> Cells]
  BY <1>3 DEF InsertAt
<1>5. r \in Seq(Cells) /\ Len(r) = Len(q) + 1 /\ DOMAIN r = 1 .. Len(q) + 1
  <2>1. Len(q) + 1 \in Nat BY <1>1
  <2>2. r \in Seq(Cells) BY <1>4, <2>1
  <2> QED BY <1>4, <2>1, <2>2, LenProperties
<1>6. r[i] = c /\ i \in 1 .. Len(q) + 1
  BY <1>1, <1>2
<1>7. \A j \in 1 .. Len(q) + 1 : (j < i => r[j] = q[j]) /\ (j > i => r[j] = q[j - 1])
  BY <1>1, <1>2
<1> QED BY <1>5, <1>6, <1>7

\* The cells of the longer list are those of the list and the new one.
LEMMA InsertAtRange ==
  ASSUME NEW q \in Seq(Cells), NEW c \in Cells, NEW i \in 1 .. Len(q) + 1
  PROVE  {InsertAt(q, i, c)[j] : j \in DOMAIN InsertAt(q, i, c)}
           = {q[j] : j \in DOMAIN q} \cup {c}
<1> DEFINE r == InsertAt(q, i, c)
<1>1. /\ DOMAIN r = 1 .. Len(q) + 1 /\ r[i] = c
      /\ \A j \in 1 .. Len(q) + 1 : j < i => r[j] = q[j]
      /\ \A j \in 1 .. Len(q) + 1 : j > i => r[j] = q[j - 1]
  BY InsertAtProperties
<1>2. DOMAIN q = 1 .. Len(q) /\ Len(q) \in Nat /\ i \in Nat
  OBVIOUS
<1> HIDE DEF r
<1>3. ASSUME NEW j \in DOMAIN r PROVE r[j] \in {q[k] : k \in DOMAIN q} \cup {c}
  <2>1. CASE j < i BY <1>1, <1>2, <2>1
  <2>2. CASE j = i BY <1>1, <2>2
  <2>3. CASE j > i
    <3>1. j - 1 \in DOMAIN q BY <1>1, <1>2, <2>3
    <3> QED BY <1>1, <2>3, <3>1
  <2> QED BY <1>1, <1>2, <2>1, <2>2, <2>3
<1>4. ASSUME NEW k \in DOMAIN q PROVE q[k] \in {r[j] : j \in DOMAIN r}
  <2>1. CASE k < i BY <1>1, <1>2, <2>1
  <2>2. CASE k >= i
    <3>1. k + 1 \in DOMAIN r /\ k + 1 > i /\ (k + 1) - 1 = k BY <1>1, <1>2, <2>2
    <3> QED BY <1>1, <3>1
  <2> QED BY <1>2, <2>1, <2>2
<1>5. c \in {r[j] : j \in DOMAIN r}
  BY <1>1, <1>2
<1> QED BY <1>3, <1>4, <1>5 DEF r

\* What the head and the tail of a list are.
LEMMA HeadAndTail ==
  ASSUME NEW S, NEW q \in Seq(S), q # <<>>
  PROVE  /\ Head(q) = q[1] /\ Head(q) \in S /\ 1 \in DOMAIN q
         /\ Tail(q) \in Seq(S) /\ Len(Tail(q)) = Len(q) - 1
         /\ DOMAIN Tail(q) = 1 .. Len(q) - 1
         /\ DOMAIN q = 1 .. Len(q) /\ Len(q) \in Nat
         /\ \A j \in DOMAIN Tail(q) : j + 1 \in DOMAIN q /\ Tail(q)[j] = q[j + 1]
         /\ {q[j] : j \in DOMAIN q} = {Tail(q)[j] : j \in DOMAIN Tail(q)} \cup {Head(q)}
<1>1. /\ Head(q) = q[1] /\ Head(q) \in S /\ Len(q) \in Nat /\ Len(q) >= 1
      /\ DOMAIN q = 1 .. Len(q)
      /\ Tail(q) \in Seq(S) /\ Len(Tail(q)) = Len(q) - 1
      /\ DOMAIN Tail(q) = 1 .. Len(q) - 1
  BY HeadTailProperties, LenProperties, EmptySeq
<1>2. \A j \in 1 .. Len(q) - 1 : Tail(q)[j] = q[j + 1]
  BY <1>1, HeadTailProperties
<1>3. \A j \in DOMAIN Tail(q) : j + 1 \in DOMAIN q
  BY <1>1
<1>4. ASSUME NEW k \in DOMAIN q
      PROVE  q[k] \in {Tail(q)[j] : j \in DOMAIN Tail(q)} \cup {Head(q)}
  <2>1. CASE k = 1 BY <1>1, <2>1
  <2>2. CASE k # 1
    <3>1. k - 1 \in DOMAIN Tail(q) /\ (k - 1) + 1 = k BY <1>1, <2>2
    <3> QED BY <1>1, <1>2, <3>1
  <2> QED BY <2>1, <2>2
<1>5. 1 \in DOMAIN q BY <1>1
<1> QED BY <1>1, <1>2, <1>3, <1>4, <1>5

-----------------------------------------------------------------------------
(* The invariant: types, where each thread is, and who holds what          *)

\* Where the threads are, and what they then have in hand.
Phases ==
  /\ \A p \in Producers : ppc[p] = "push" <=> pcell[p] # NoCell
  /\ \A p \in Producers : ppc[p] = "idle" <=> pframe[p] = NoFrame
  /\ \A p \in Producers : give[p] # "no" => ppc[p] = "return"
  /\ \A p \in Producers : pcell[p] # NoCell => PoolOf[pcell[p]] = p
  /\ ccell # NoCell <=> cpc \in {"proc", "free"}
  /\ exitFlag <=> kpc \in {"join", "gone"}
  /\ cpc = "dead" => exitFlag
  /\ kpc \in {"unbind", "join", "gone"} => ~ bound
  /\ kpc \in {"join", "gone"} => \A p \in Producers : ppc[p] = "idle"
  /\ kpc = "gone" => cpc = "dead" /\ procList = <<>>

\* A cell carries a frame while it is queued or in the muxer thread's hands.
Carried == \A c \in Cells : frame[c] # NoFrame <=> c \in Queued \cup InHand

\* The types and the phases hold from the start.
LEMMA InitPhases == Init => TypeOK /\ Phases
<1> SUFFICES ASSUME Init PROVE TypeOK /\ Phases
  OBVIOUS
<1> USE QueueAssumption, NoneAssumption DEF Init
<1>1. procList \in Seq(Cells) BY EmptySeq
<1>2. TypeOK
  <2>1. free \subseteq Cells /\ frame \in [Cells -> Frames \cup {NoFrame}] /\ ref \in [Frames -> Int]
    OBVIOUS
  <2>2. /\ ppc \in [Producers -> {"idle", "get", "push", "return"}]
        /\ pframe \in [Producers -> Frames \cup {NoFrame}]
        /\ pcell \in [Producers -> Cells \cup {NoCell}]
        /\ give \in [Givers -> {"no", "read", "post"}]
    OBVIOUS
  <2>3. /\ sem \in Nat /\ ccell \in Cells \cup {NoCell}
        /\ cpc \in {"loop", "wait", "pop", "proc", "free", "check", "dead"}
        /\ kpc \in {"idle", "stop", "unbind", "join", "gone"}
    OBVIOUS
  <2>4. /\ open \in BOOLEAN /\ fault \in BOOLEAN
        /\ bEnableStream \in BOOLEAN /\ exitFlag \in BOOLEAN /\ bound \in BOOLEAN
    OBVIOUS
  <2> HIDE DEF Init
  <2> QED BY <1>1, <2>1, <2>2, <2>3, <2>4 DEF TypeOK
<1>3. /\ \A p \in Producers : ppc[p] = "idle" /\ pcell[p] = NoCell /\ pframe[p] = NoFrame
      /\ \A p \in Producers : give[p] = "no"
  BY DEF Givers
<1>4. Phases BY <1>3 DEF Phases
<1> QED BY <1>2, <1>4

\* Every step keeps them.
LEMMA NextPhases ==
  ASSUME TypeOK, Phases, [Next]_vars
  PROVE  TypeOK' /\ Phases'
<1> USE QueueAssumption, NoneAssumption DEF Givers
<1>1. ASSUME NEW p \in Producers, NEW t \in Pts, Deliver(p, t)
      PROVE  TypeOK' /\ Phases'
  <2>1. <<p, t>> \in Frames /\ <<p, t>> # NoFrame BY DEF Frames
  <2>2. TypeOK' BY <1>1, <2>1 DEF TypeOK, Deliver, sigVars, consVars, ctlVars
  <2>3. Phases' BY <1>1, <2>1 DEF TypeOK, Phases, Deliver, sigVars, consVars, ctlVars
  <2> QED BY <2>2, <2>3
<1>2. ASSUME NEW p \in Producers, CellGet(p) PROVE TypeOK' /\ Phases'
  <2>2. TypeOK' BY <1>2 DEF TypeOK, CellGet, sigVars, consVars, ctlVars
  <2>3. Phases' BY <1>2 DEF TypeOK, Phases, CellGet, sigVars, consVars, ctlVars
  <2> QED BY <2>2, <2>3
<1>3. ASSUME NEW p \in Producers, CellPush(p) PROVE TypeOK' /\ Phases'
  <2>1. pcell[p] \in Cells BY <1>3 DEF CellPush, Phases, TypeOK
  <2>2. PICK i \in InsertPositions(procList, p, pframe[p][2]) :
          procList' = InsertAt(procList, i, pcell[p])
    BY <1>3 DEF CellPush
  <2>3. i \in 1 .. Len(procList) + 1 BY DEF InsertPositions
  <2>4. procList' \in Seq(Cells) BY <2>1, <2>2, <2>3, InsertAtProperties DEF TypeOK
  <2>7. pframe[p] \in Frames BY <1>3 DEF CellPush, Phases, TypeOK
  <2>8. ref' \in [Frames -> Int] BY <1>3, <2>7 DEF TypeOK, CellPush
  <2>5. TypeOK' BY <1>3, <2>4, <2>8 DEF TypeOK, CellPush, consVars, ctlVars
  <2>6. Phases' BY <1>3, <2>1 DEF TypeOK, Phases, CellPush, consVars, ctlVars
  <2> QED BY <2>5, <2>6
<1>4. ASSUME NEW p \in Producers, Return(p) PROVE TypeOK' /\ Phases'
  <2>1. pframe[p] \in Frames BY <1>4 DEF Return, Phases, TypeOK
  <2>2. TypeOK' BY <1>4, <2>1 DEF TypeOK, Return, sigVars, consVars, ctlVars
  <2>3. Phases' BY <1>4 DEF TypeOK, Phases, Return, sigVars, consVars, ctlVars
  <2> QED BY <2>2, <2>3
<1>5. ASSUME NEW g \in Givers, Give(g) PROVE TypeOK' /\ Phases'
  <2> USE DEF queueVars, prodVars, consVars, ctlVars
  <2>1. CASE GiveRead(g)
    <3>1. TypeOK' BY <2>1 DEF GiveRead, TypeOK
    <3>2. Phases' BY <2>1 DEF GiveRead, TypeOK, Phases
    <3> QED BY <3>1, <3>2
  <2>2. CASE GivePost(g)
    <3>1. TypeOK' BY <2>2 DEF GivePost, TypeOK
    <3>2. Phases' BY <2>2 DEF GivePost, TypeOK, Phases
    <3> QED BY <3>1, <3>2
  <2> QED BY <1>5, <2>1, <2>2 DEF Give
<1>6. ASSUME CellPop PROVE TypeOK' /\ Phases'
  <2>1. Head(procList) \in Cells /\ Tail(procList) \in Seq(Cells)
    BY <1>6, HeadAndTail DEF CellPop, TypeOK
  <2>2. TypeOK' BY <1>6, <2>1 DEF TypeOK, CellPop, prodVars, sigVars, ctlVars
  <2>3. Phases' BY <1>6, <2>1 DEF TypeOK, Phases, CellPop, prodVars, sigVars, ctlVars
  <2> QED BY <2>2, <2>3
<1>7. ASSUME CellFree PROVE TypeOK' /\ Phases'
  <2>1. ccell \in Cells BY <1>7 DEF CellFree, Phases, TypeOK
  <2>4. ref' \in [Frames -> Int]
    <3>1. CASE frame[ccell] \in Frames BY <1>7, <3>1 DEF TypeOK, CellFree
    <3>2. CASE frame[ccell] \notin Frames BY <1>7, <3>2 DEF TypeOK, CellFree
    <3> QED BY <3>1, <3>2
  <2>2. TypeOK' BY <1>7, <2>1, <2>4 DEF TypeOK, CellFree, prodVars, sigVars, ctlVars
  <2>3. Phases' BY <1>7, <2>1 DEF TypeOK, Phases, CellFree, prodVars, sigVars, ctlVars
  <2> QED BY <2>2, <2>3
<1>8. ASSUME \/ ThreadLoop \/ SignalTaken \/ PopNothing \/ CheckExit
             \/ SignalTimeout \/ MediumFails
      PROVE  TypeOK' /\ Phases'
  <2> USE DEF queueVars, prodVars, sigVars, ctlVars
  <2>1. CASE ThreadLoop BY <2>1 DEF ThreadLoop, TypeOK, Phases
  <2>2. CASE SignalTaken BY <2>2 DEF SignalTaken, TypeOK, Phases
  <2>3. CASE PopNothing BY <2>3 DEF PopNothing, TypeOK, Phases
  <2>4. CASE CheckExit BY <2>4 DEF CheckExit, TypeOK, Phases
  <2>5. CASE SignalTimeout BY <2>5 DEF SignalTimeout, TypeOK, Phases
  <2>6. CASE MediumFails BY <2>6 DEF MediumFails, TypeOK, Phases
  <2> QED BY <1>8, <2>1, <2>2, <2>3, <2>4, <2>5, <2>6
<1>12. ASSUME Process \/ WriteFails \/ FileEndsOnRetry
       PROVE  TypeOK' /\ Phases'
  <2> USE DEF queueVars, prodVars, sigVars, ctlVars
  <2>1. CASE Process BY <2>1 DEF Process, TypeOK, Phases
  <2>2. CASE WriteFails BY <2>2 DEF WriteFails, TypeOK, Phases
  <2>3. CASE FileEndsOnRetry BY <2>3 DEF FileEndsOnRetry, TypeOK, Phases
  <2> QED BY <1>12, <2>1, <2>2, <2>3
<1>9. ASSUME Start \/ Stop \/ StopReturns \/ Destroy \/ Disable
      PROVE  TypeOK' /\ Phases'
  <2> USE DEF queueVars, prodVars, sigVars, consVars
  <2>1. CASE Start BY <2>1 DEF Start, TypeOK, Phases
  <2>2. CASE Stop
    <3>1. Ctl \in Givers /\ Ctl \notin Producers BY DEF Givers
    <3>2. TypeOK' BY <2>2, <3>1 DEF Stop, TypeOK
    <3>3. Phases' BY <2>2, <3>1 DEF Stop, TypeOK, Phases
    <3> QED BY <3>2, <3>3
  <2>3. CASE StopReturns BY <2>3 DEF StopReturns, TypeOK, Phases
  <2>4. CASE Destroy BY <2>4 DEF Destroy, TypeOK, Phases
  <2>5. CASE Disable
    <3>1. Ctl \in Givers /\ Ctl \notin Producers BY DEF Givers
    <3>2. TypeOK' BY <2>5, <3>1 DEF Disable, TypeOK
    <3>3. Phases' BY <2>5, <3>1 DEF Disable, TypeOK, Phases
    <3> QED BY <3>2, <3>3
  <2> QED BY <1>9, <2>1, <2>2, <2>3, <2>4, <2>5
<1>10. ASSUME JoinAndRelease PROVE TypeOK' /\ Phases'
  <2>1. Queued \subseteq Cells BY DEF Queued, TypeOK
  <2>2. \A f \in Frames : IsFiniteSet({c \in Queued : frame[c] = f})
    BY <2>1, FS_Subset
  <2>3. \A f \in Frames : Cardinality({c \in Queued : frame[c] = f}) \in Nat
    BY <2>2, FS_CardinalityType
  <2>4. ref' \in [Frames -> Int]
    BY <1>10, <2>3 DEF JoinAndRelease, TypeOK
  <2>5. TypeOK' BY <1>10, <2>1, <2>4 DEF TypeOK, JoinAndRelease, prodVars, sigVars, consVars
  <2>6. Phases' BY <1>10 DEF TypeOK, Phases, JoinAndRelease, prodVars, sigVars, consVars
  <2> QED BY <2>5, <2>6
<1>11. CASE UNCHANGED vars
  <2> USE <1>11 DEF vars, queueVars, prodVars, sigVars, consVars, ctlVars
  <2>2. TypeOK' BY DEF TypeOK
  <2>3. Phases' BY DEF TypeOK, Phases
  <2> QED BY <2>2, <2>3
<1> QED
  BY <1>1, <1>2, <1>3, <1>4, <1>5, <1>6, <1>7, <1>8, <1>9, <1>10, <1>11, <1>12
  DEF Next, Producer, Muxer, Control

\* Every variable of the hand-off keeps its type: counts stay natural numbers,
\* the list holds cells, every thread stays where RKADK code can be.
THEOREM TypeCorrect == Spec => []TypeOK
<1>1. Init => TypeOK /\ Phases BY InitPhases
<1>2. TypeOK /\ Phases /\ [Next]_vars => (TypeOK /\ Phases)' BY NextPhases
<1> QED BY <1>1, <1>2, PTL DEF Spec

-----------------------------------------------------------------------------
(* The signal                                                              *)

\* A thread inside RKADK_SIGNAL_Give leaves a signal on its way: it goes on to
\* post, or it found the value at its maximum, which is not zero.
LEMMA GiveAwaited ==
  ASSUME TypeOK, NEW g \in Givers, Give(g)
  PROVE  Awaited'
<1>1. CASE GiveRead(g)
  <2>1. CASE sem < Sigs
    <3>1. give'[g] = "post" BY <1>1, <2>1 DEF GiveRead, TypeOK
    <3> QED BY <3>1 DEF Awaited
  <2>2. CASE ~ (sem < Sigs)
    <3>1. sem' = sem /\ sem > 0 BY <1>1, <2>2, QueueAssumption DEF GiveRead, TypeOK
    <3> QED BY <3>1 DEF Awaited
  <2> QED BY <2>1, <2>2
<1>2. CASE GivePost(g)
  <2>1. sem' > 0 BY <1>2 DEF GivePost, TypeOK
  <2> QED BY <2>1 DEF Awaited
<1> QED BY <1>1, <1>2 DEF Give

\* Only taking the signal and giving it change whether one is on its way.
LEMMA AwaitedUnchanged ==
  ASSUME UNCHANGED <<sem, give>>, Awaited
  PROVE  Awaited'
BY DEF Awaited

\* No step loses a wake-up or leaves a stopped stream's file unnoticed.
LEMMA NextAwake ==
  ASSUME TypeOK, NoLostWakeup, StopIsNoticed, [Next]_vars
  PROVE  NoLostWakeup' /\ StopIsNoticed'
<1> USE DEF NoLostWakeup, StopIsNoticed
<1>1. CASE \E g \in Givers : Give(g) \/ (give'[g] # "no")
  <2>1. Awaited' BY <1>1, GiveAwaited DEF Awaited
  <2> QED BY <2>1
<1>2. ASSUME NEW p \in Producers, NEW t \in Pts, Deliver(p, t)
      PROVE  NoLostWakeup' /\ StopIsNoticed'
  BY <1>2, AwaitedUnchanged DEF Deliver, sigVars, consVars, ctlVars
<1>3. ASSUME NEW p \in Producers, CellGet(p) \/ Return(p)
      PROVE  NoLostWakeup' /\ StopIsNoticed'
  BY <1>3, AwaitedUnchanged DEF CellGet, Return, sigVars, consVars, ctlVars
<1>4. ASSUME NEW p \in Producers, CellPush(p)
      PROVE  NoLostWakeup' /\ StopIsNoticed'
  <2>1. p \in Givers /\ give'[p] = "read" BY <1>4 DEF CellPush, TypeOK, Givers
  <2> QED BY <1>1, <2>1
<1>5. ASSUME \/ ThreadLoop \/ PopNothing \/ CheckExit \/ SignalTimeout
             \/ Process \/ WriteFails \/ FileEndsOnRetry \/ MediumFails
      PROVE  NoLostWakeup' /\ StopIsNoticed'
  <2> USE AwaitedUnchanged DEF queueVars, prodVars, sigVars, ctlVars
  <2>1. CASE ThreadLoop BY <2>1 DEF ThreadLoop
  <2>2. CASE PopNothing BY <2>2 DEF PopNothing
  <2>3. CASE CheckExit BY <2>3 DEF CheckExit
  <2>4. CASE SignalTimeout BY <2>4 DEF SignalTimeout
  <2>5. CASE Process \/ WriteFails \/ FileEndsOnRetry
    BY <2>5 DEF Process, WriteFails, FileEndsOnRetry
  <2>6. CASE MediumFails BY <2>6 DEF MediumFails
  <2> QED BY <1>5, <2>1, <2>2, <2>3, <2>4, <2>5, <2>6
<1>6. ASSUME SignalTaken \/ CellPop \/ CellFree
      PROVE  NoLostWakeup' /\ StopIsNoticed'
  BY <1>6 DEF SignalTaken, CellPop, CellFree
<1>7. ASSUME Start \/ StopReturns \/ Destroy
      PROVE  NoLostWakeup' /\ StopIsNoticed'
  BY <1>7, AwaitedUnchanged
  DEF Start, StopReturns, Destroy, queueVars, prodVars, sigVars, consVars
<1>8. ASSUME Stop \/ Disable
      PROVE  NoLostWakeup' /\ StopIsNoticed'
  <2>1. Ctl \in Givers /\ give'[Ctl] = "read" BY <1>8 DEF Stop, Disable, TypeOK, Givers
  <2> QED BY <1>1, <2>1
<1>9. ASSUME JoinAndRelease
      PROVE  NoLostWakeup' /\ StopIsNoticed'
  BY <1>9 DEF JoinAndRelease, consVars
<1>10. CASE UNCHANGED vars
  BY <1>10, AwaitedUnchanged DEF vars, queueVars, sigVars, consVars, ctlVars
<1> QED
  BY <1>1, <1>2, <1>3, <1>4, <1>5, <1>6, <1>7, <1>8, <1>9, <1>10
  DEF Next, Producer, Muxer, Control

\* No wake-up is lost: whenever the muxer thread sleeps, or is about to, a queued
\* frame or a request to exit has a signal on its way (RKADK_SIGNAL_Give).
THEOREM WakeupKept == Spec => []NoLostWakeup
<1>1. Init => TypeOK /\ Phases BY InitPhases
<1>2. Init => NoLostWakeup /\ StopIsNoticed BY DEF Init, NoLostWakeup, StopIsNoticed
<1>3. TypeOK /\ Phases /\ [Next]_vars => (TypeOK /\ Phases)' BY NextPhases
<1>4. TypeOK /\ NoLostWakeup /\ StopIsNoticed /\ [Next]_vars
        => (NoLostWakeup /\ StopIsNoticed)' BY NextAwake
<1> QED BY <1>1, <1>2, <1>3, <1>4, PTL DEF Spec

\* A stopped stream whose file is open has a signal on its way to the muxer
\* thread (RKADK_MUXER_Stop), so closing it does not wait for the timeout.
THEOREM StopNoticed == Spec => []StopIsNoticed
<1>1. Init => TypeOK /\ Phases BY InitPhases
<1>2. Init => NoLostWakeup /\ StopIsNoticed BY DEF Init, NoLostWakeup, StopIsNoticed
<1>3. TypeOK /\ Phases /\ [Next]_vars => (TypeOK /\ Phases)' BY NextPhases
<1>4. TypeOK /\ NoLostWakeup /\ StopIsNoticed /\ [Next]_vars
        => (NoLostWakeup /\ StopIsNoticed)' BY NextAwake
<1> QED BY <1>1, <1>2, <1>3, <1>4, PTL DEF Spec

-----------------------------------------------------------------------------
(* Who holds which cell                                                    *)

Owned == CellOwnership /\ Carried

\* At first every cell is free and empty.
LEMMA InitOwned == Init => Owned
<1> SUFFICES ASSUME Init PROVE Owned
  OBVIOUS
<1>1. Queued = {} /\ Taken = {} /\ InHand = {} /\ free = Cells /\ DOMAIN procList = {}
  BY DEF Init, Queued, Taken, InHand
<1>2. CellOwnership BY <1>1 DEF Init, CellOwnership
<1>3. Carried BY <1>1 DEF Init, Carried
<1> QED BY <1>2, <1>3 DEF Owned

\* A producer takes a free cell.
LEMMA CellGetOwned ==
  ASSUME TypeOK, Phases, Owned, NEW p \in Producers, CellGet(p)
  PROVE  Owned'
<1>1. PICK c \in free : free' = free \ {c} /\ pcell' = [pcell EXCEPT ![p] = c]
  BY DEF CellGet
<1>2. c \in Cells /\ c # NoCell BY <1>1, NoneAssumption DEF TypeOK
<1>3. pcell[p] = NoCell BY DEF CellGet, Phases
<1>4. pcell'[p] = c /\ \A r \in Producers : r # p => pcell'[r] = pcell[r]
  BY <1>1 DEF TypeOK
<1>5. Taken' = Taken \cup {c}
  <2>1. ASSUME NEW x \in Taken PROVE x \in Taken'
    BY <1>3, <1>4 DEF Taken
  <2>2. ASSUME NEW x \in Taken' PROVE x \in Taken \cup {c}
    BY <1>4 DEF Taken
  <2>3. c \in Taken' BY <1>2, <1>4 DEF Taken
  <2> QED BY <2>1, <2>2, <2>3
<1>6. UNCHANGED <<procList, ccell, frame>> /\ Queued' = Queued /\ InHand' = InHand
  BY DEF CellGet, consVars, Queued, InHand
<1>7. c \notin Queued /\ c \notin Taken /\ c \notin InHand
  BY DEF Owned, CellOwnership
<1>8. \A r, s \in Producers : pcell'[r] = pcell'[s] /\ pcell'[r] # NoCell => r = s
  BY <1>2, <1>4, <1>7 DEF Owned, CellOwnership, Taken
<1>9. CellOwnership'
  BY <1>1, <1>2, <1>5, <1>6, <1>7, <1>8 DEF Owned, CellOwnership, TypeOK
<1>10. Carried' BY <1>6 DEF Owned, Carried
<1> QED BY <1>9, <1>10 DEF Owned

\* It queues the cell it took.
LEMMA CellPushOwned ==
  ASSUME TypeOK, Phases, Owned, NEW p \in Producers, CellPush(p)
  PROVE  Owned'
<1> DEFINE c == pcell[p]
           q == procList
<1>1. c \in Cells /\ c # NoCell /\ c \in Taken /\ pframe[p] \in Frames
  BY DEF CellPush, Phases, TypeOK, Taken
<1>2. PICK i \in InsertPositions(q, p, pframe[p][2]) : procList' = InsertAt(q, i, c)
  BY DEF CellPush
<1>3. i \in 1 .. Len(q) + 1 /\ q \in Seq(Cells) BY DEF InsertPositions, TypeOK
<1>4. Queued' = Queued \cup {c}
  <2>1. {InsertAt(q, i, c)[j] : j \in DOMAIN InsertAt(q, i, c)}
          = {q[j] : j \in DOMAIN q} \cup {c}
    <3> HIDE DEF c, q
    <3> QED BY <1>1, <1>3, InsertAtRange
  <2> QED BY <1>2, <2>1 DEF Queued
<1>5. /\ DOMAIN procList' = 1 .. Len(q) + 1 /\ procList'[i] = c
      /\ \A j \in 1 .. Len(q) + 1 : j < i => procList'[j] = q[j]
      /\ \A j \in 1 .. Len(q) + 1 : j > i => procList'[j] = q[j - 1]
  <2>1. /\ DOMAIN InsertAt(q, i, c) = 1 .. Len(q) + 1
        /\ InsertAt(q, i, c)[i] = c
        /\ \A j \in 1 .. Len(q) + 1 : j < i => InsertAt(q, i, c)[j] = q[j]
        /\ \A j \in 1 .. Len(q) + 1 : j > i => InsertAt(q, i, c)[j] = q[j - 1]
    BY <1>1, <1>3 DEF InsertAt
  <2> QED BY <1>2, <2>1
<1>6. c \notin Queued /\ c \notin free /\ c \notin InHand
  BY <1>1 DEF Owned, CellOwnership
<1>7. pcell'[p] = NoCell /\ \A r \in Producers : r # p => pcell'[r] = pcell[r]
  BY DEF CellPush, TypeOK
<1>8. Taken' = Taken \ {c}
  <2>1. ASSUME NEW x \in Taken' PROVE x \in Taken \ {c}
    BY <1>1, <1>7 DEF Taken, Owned, CellOwnership
  <2>2. ASSUME NEW x \in Taken \ {c} PROVE x \in Taken'
    BY <1>7 DEF Taken
  <2> QED BY <2>1, <2>2
<1>9. UNCHANGED <<free, ccell>> /\ InHand' = InHand
  BY DEF CellPush, consVars, InHand
<1>10. \A j, k \in DOMAIN procList' : procList'[j] = procList'[k] => j = k
  <2> SUFFICES ASSUME NEW j \in DOMAIN procList', NEW k \in DOMAIN procList',
                      procList'[j] = procList'[k], j < k
               PROVE  FALSE
    BY <1>3, <1>5
  <2>1. Len(q) \in Nat /\ DOMAIN q = 1 .. Len(q) /\ j \in Nat /\ k \in Nat /\ i \in Nat
    BY <1>3, <1>5
  <2>2. CASE k < i
    <3>1. j \in DOMAIN q /\ k \in DOMAIN q BY <1>3, <1>5, <2>1, <2>2
    <3> QED BY <1>5, <2>1, <2>2, <3>1 DEF Owned, CellOwnership
  <2>3. CASE k = i
    <3>1. j \in DOMAIN q /\ q[j] = c BY <1>3, <1>5, <2>1, <2>3
    <3> QED BY <1>6, <3>1 DEF Queued
  <2>4. CASE k > i /\ j = i
    <3>1. k - 1 \in DOMAIN q /\ q[k - 1] = c BY <1>3, <1>5, <2>1, <2>4
    <3> QED BY <1>6, <3>1 DEF Queued
  <2>5. CASE k > i /\ j < i
    <3>1. j \in DOMAIN q /\ k - 1 \in DOMAIN q /\ q[j] = q[k - 1] /\ j # k - 1
      BY <1>3, <1>5, <2>1, <2>5
    <3> QED BY <3>1 DEF Owned, CellOwnership
  <2>6. CASE k > i /\ j > i
    <3>1. j - 1 \in DOMAIN q /\ k - 1 \in DOMAIN q /\ q[j - 1] = q[k - 1] /\ j - 1 # k - 1
      BY <1>3, <1>5, <2>1, <2>6
    <3> QED BY <3>1 DEF Owned, CellOwnership
  <2> QED BY <2>1, <2>2, <2>3, <2>4, <2>5, <2>6
<1>11. \A r, s \in Producers : pcell'[r] = pcell'[s] /\ pcell'[r] # NoCell => r = s
  BY <1>7 DEF Owned, CellOwnership
<1>12. CellOwnership'
  BY <1>1, <1>4, <1>6, <1>8, <1>9, <1>10, <1>11 DEF Owned, CellOwnership
<1>13. \A x \in Cells : frame'[x] = IF x = c THEN pframe[p] ELSE frame[x]
  BY DEF CellPush, TypeOK
<1>14. Carried'
  BY <1>1, <1>4, <1>9, <1>13, NoneAssumption DEF Owned, Carried
<1> QED BY <1>12, <1>14 DEF Owned

\* The muxer thread pops the first cell.
LEMMA CellPopOwned ==
  ASSUME TypeOK, Phases, Owned, CellPop
  PROVE  Owned'
<1> DEFINE q == procList
<1>1. q \in Seq(Cells) /\ q # <<>> /\ ccell' = Head(q) /\ procList' = Tail(q)
  BY DEF CellPop, TypeOK
<1>2. /\ Head(q) = q[1] /\ Head(q) \in Cells /\ 1 \in DOMAIN q
      /\ DOMAIN Tail(q) = 1 .. Len(q) - 1 /\ DOMAIN q = 1 .. Len(q) /\ Len(q) \in Nat
      /\ \A j \in DOMAIN Tail(q) : j + 1 \in DOMAIN q /\ Tail(q)[j] = q[j + 1]
      /\ {q[j] : j \in DOMAIN q} = {Tail(q)[j] : j \in DOMAIN Tail(q)} \cup {Head(q)}
  BY <1>1, HeadAndTail
<1>3. Queued = Queued' \cup {Head(q)} BY <1>1, <1>2 DEF Queued
<1>4. \A j \in DOMAIN procList' : procList'[j] # Head(q)
  BY <1>1, <1>2 DEF Owned, CellOwnership
<1>5. Head(q) \notin Queued' BY <1>4 DEF Queued
<1>6. \A j, k \in DOMAIN procList' : procList'[j] = procList'[k] => j = k
  <2> SUFFICES ASSUME NEW j \in DOMAIN procList', NEW k \in DOMAIN procList',
                      procList'[j] = procList'[k]
               PROVE  j = k
    OBVIOUS
  <2>1. j + 1 \in DOMAIN q /\ k + 1 \in DOMAIN q /\ q[j + 1] = q[k + 1] BY <1>1, <1>2
  <2>2. j + 1 = k + 1 BY <2>1 DEF Owned, CellOwnership
  <2> QED BY <1>1, <1>2, <2>2
<1>7. InHand = {} /\ InHand' = {Head(q)}
  BY <1>1, <1>2, NoneAssumption DEF CellPop, Phases, InHand
<1>8. UNCHANGED <<free, pcell, frame>> /\ Taken' = Taken
  BY DEF CellPop, prodVars, Taken
<1>9. CellOwnership'
  BY <1>3, <1>5, <1>6, <1>7, <1>8 DEF Owned, CellOwnership
<1>10. Carried' BY <1>3, <1>7, <1>8 DEF Owned, Carried
<1> QED BY <1>9, <1>10 DEF Owned

\* It returns the cell to its free list.
LEMMA CellFreeOwned ==
  ASSUME TypeOK, Phases, Owned, CellFree
  PROVE  Owned'
<1>1. ccell \in Cells /\ ccell # NoCell BY DEF CellFree, Phases, TypeOK
<1>2. InHand = {ccell} /\ InHand' = {} /\ free' = free \cup {ccell}
  BY <1>1 DEF CellFree, InHand
<1>3. UNCHANGED <<procList, pcell>> /\ Queued' = Queued /\ Taken' = Taken
  BY DEF CellFree, prodVars, Queued, Taken
<1>4. CellOwnership' BY <1>2, <1>3 DEF Owned, CellOwnership
<1>5. \A x \in Cells : frame'[x] = IF x = ccell THEN NoFrame ELSE frame[x]
  BY DEF CellFree, TypeOK
<1>6. Carried' BY <1>2, <1>3, <1>5 DEF Owned, Carried, CellOwnership
<1> QED BY <1>4, <1>6 DEF Owned

\* Disabling the stream returns what is queued.
LEMMA JoinOwned ==
  ASSUME TypeOK, Phases, Owned, JoinAndRelease
  PROVE  Owned'
<1>1. Queued' = {} /\ DOMAIN procList' = {} /\ free' = free \cup Queued
  BY DEF JoinAndRelease, Queued
<1>2. UNCHANGED <<pcell, ccell>> /\ Taken' = Taken /\ InHand' = InHand
  BY DEF JoinAndRelease, prodVars, consVars, Taken, InHand
<1>3. CellOwnership' BY <1>1, <1>2 DEF Owned, CellOwnership
<1>4. \A x \in Cells : frame'[x] = IF x \in Queued THEN NoFrame ELSE frame[x]
  BY DEF JoinAndRelease
<1>5. Carried' BY <1>1, <1>2, <1>4 DEF Owned, Carried, CellOwnership
<1> QED BY <1>3, <1>5 DEF Owned

\* The other steps move no cell.
LEMMA NextOwned ==
  ASSUME TypeOK, Phases, Owned, [Next]_vars
  PROVE  Owned'
<1>1. CASE UNCHANGED <<free, procList, frame, pcell, ccell>>
  <2>1. Queued' = Queued /\ Taken' = Taken /\ InHand' = InHand
    BY <1>1 DEF Queued, Taken, InHand
  <2> QED BY <1>1, <2>1 DEF Owned, CellOwnership, Carried
<1>2. CASE \E p \in Producers : CellGet(p) \/ CellPush(p)
  BY <1>2, CellGetOwned, CellPushOwned
<1>3. CASE CellPop \/ CellFree \/ JoinAndRelease
  BY <1>3, CellPopOwned, CellFreeOwned, JoinOwned
<1> USE DEF queueVars, prodVars, sigVars, consVars, ctlVars
<1>4. ASSUME NEW p \in Producers, (\E t \in Pts : Deliver(p, t)) \/ Return(p)
      PROVE  UNCHANGED <<free, procList, frame, pcell, ccell>>
  BY <1>4 DEF Deliver, Return
<1>5. ASSUME NEW g \in Givers, Give(g)
      PROVE  UNCHANGED <<free, procList, frame, pcell, ccell>>
  BY <1>5 DEF Give, GiveRead, GivePost
<1>6. ASSUME \/ ThreadLoop \/ SignalTaken \/ PopNothing \/ Process \/ CheckExit
             \/ SignalTimeout \/ WriteFails \/ FileEndsOnRetry \/ MediumFails
      PROVE  UNCHANGED <<free, procList, frame, pcell, ccell>>
  BY <1>6 DEF ThreadLoop, SignalTaken, PopNothing, Process, CheckExit, SignalTimeout,
     WriteFails, FileEndsOnRetry, MediumFails
<1>7. ASSUME Start \/ Stop \/ StopReturns \/ Destroy \/ Disable
      PROVE  UNCHANGED <<free, procList, frame, pcell, ccell>>
  BY <1>7 DEF Start, Stop, StopReturns, Destroy, Disable
<1>8. CASE UNCHANGED vars
  BY <1>1, <1>8 DEF vars
<1> QED
  BY <1>1, <1>2, <1>3, <1>4, <1>5, <1>6, <1>7, <1>8 DEF Next, Producer, Muxer, Control

\* The three parts of the invariant hold together.
LEMMA Invariant == Spec => [](TypeOK /\ Phases /\ Owned)
<1>1. Init => TypeOK /\ Phases /\ Owned BY InitPhases, InitOwned
<1>2. TypeOK /\ Phases /\ Owned /\ [Next]_vars => (TypeOK /\ Phases /\ Owned)'
  BY NextPhases, NextOwned
<1> QED BY <1>1, <1>2, PTL DEF Spec

\* No cell is lost, queued twice or used by two threads, whatever the free
\* lists, the mutex and the unlocked parts of RKADK_MUXER_CellFree do.
THEOREM CellsOwned == Spec => []CellOwnership
<1>1. TypeOK /\ Phases /\ Owned => CellOwnership BY DEF Owned
<1> QED BY <1>1, Invariant, PTL

-----------------------------------------------------------------------------
(* The order of the list                                                   *)

\* A queued cell carries a frame, which has a time stamp.
LEMMA QueuedPts ==
  ASSUME TypeOK, Owned
  PROVE  /\ \A x \in Queued : x \in Cells /\ frame[x] \in Frames /\ PtsOf(x) \in Nat
         /\ \A i \in DOMAIN procList : procList[i] \in Queued
         /\ DOMAIN procList = 1 .. Len(procList) /\ Len(procList) \in Nat
<1>1. \A x \in Queued : x \in Cells BY DEF Queued, TypeOK
<1>2. \A x \in Queued : frame[x] \in Frames BY <1>1 DEF Owned, Carried, TypeOK
<1>3. \A f \in Frames : f[2] \in Nat BY QueueAssumption DEF Frames
<1> QED BY <1>1, <1>2, <1>3 DEF PtsOf, Queued, TypeOK

\* RKADK_MUXER_CellPush inserts a frame where the order of its pool wants it.
LEMMA CellPushSorted ==
  ASSUME TypeOK, Phases, Owned, ListSorted, NEW p \in Producers, CellPush(p)
  PROVE  ListSorted'
<1> DEFINE c == pcell[p]
           q == procList
           t == pframe[p][2]
           Q == Queued
<1>1. /\ c \in Cells /\ c # NoCell /\ c \in Taken /\ PoolOf[c] = p
      /\ pframe[p] \in Frames /\ t \in Nat
  BY QueueAssumption DEF CellPush, Phases, TypeOK, Taken, Frames
<1>2. PICK i \in InsertPositions(q, p, t) : procList' = InsertAt(q, i, c)
  BY DEF CellPush
<1>3. /\ i \in 1 .. Len(q) + 1 /\ q \in Seq(Cells)
      /\ \A j \in 1 .. i - 1 : ~ After(q, j, p, t)
      /\ i <= Len(q) => After(q, i, p, t)
  BY DEF InsertPositions, TypeOK
<1>4. /\ DOMAIN procList' = 1 .. Len(q) + 1 /\ procList'[i] = c
      /\ \A j \in 1 .. Len(q) + 1 : j < i => procList'[j] = q[j]
      /\ \A j \in 1 .. Len(q) + 1 : j > i => procList'[j] = q[j - 1]
  <2>1. /\ DOMAIN InsertAt(q, i, c) = 1 .. Len(q) + 1
        /\ InsertAt(q, i, c)[i] = c
        /\ \A j \in 1 .. Len(q) + 1 : j < i => InsertAt(q, i, c)[j] = q[j]
        /\ \A j \in 1 .. Len(q) + 1 : j > i => InsertAt(q, i, c)[j] = q[j - 1]
    BY <1>1, <1>3 DEF InsertAt
  <2> QED BY <1>2, <2>1
<1>5. c \notin Q BY <1>1 DEF Owned, CellOwnership
<1>6. \A x \in Cells : frame'[x] = IF x = c THEN pframe[p] ELSE frame[x]
  BY DEF CellPush, TypeOK
<1>7. /\ \A x \in Q : x \in Cells /\ PtsOf(x) \in Nat
      /\ \A j \in DOMAIN q : q[j] \in Q
      /\ DOMAIN q = 1 .. Len(q) /\ Len(q) \in Nat
  BY QueuedPts
<1>8. frame'[c][2] = t /\ \A x \in Q : frame'[x][2] = PtsOf(x)
  BY <1>1, <1>5, <1>6, <1>7 DEF PtsOf
<1> SUFFICES ASSUME NEW j \in DOMAIN procList', NEW k \in DOMAIN procList', j < k,
                    PoolOf[procList'[j]] = PoolOf[procList'[k]]
             PROVE  frame'[procList'[j]][2] <= frame'[procList'[k]][2]
  BY DEF ListSorted, PtsOf
<1>9. j \in 1 .. Len(q) + 1 /\ k \in 1 .. Len(q) + 1 BY <1>4
<1>10. \A m, n \in DOMAIN q : m < n /\ PoolOf[q[m]] = PoolOf[q[n]] => PtsOf(q[m]) <= PtsOf(q[n])
  BY DEF ListSorted
<1>11. CASE k < i
  <2>1. j \in DOMAIN q /\ k \in DOMAIN q /\ procList'[j] = q[j] /\ procList'[k] = q[k]
    BY <1>3, <1>4, <1>7, <1>9, <1>11
  <2> QED BY <1>7, <1>8, <1>10, <2>1
<1>12. CASE k = i
  <2>1. j \in DOMAIN q /\ j \in 1 .. i - 1 /\ procList'[j] = q[j] /\ procList'[k] = c
    BY <1>3, <1>4, <1>7, <1>9, <1>12
  <2>2. PtsOf(q[j]) <= t
    BY <1>1, <1>3, <1>7, <2>1 DEF After
  <2> QED BY <1>7, <1>8, <2>1, <2>2
<1>13. CASE k > i /\ j < i
  <2>1. /\ j \in DOMAIN q /\ k - 1 \in DOMAIN q /\ j < k - 1
        /\ procList'[j] = q[j] /\ procList'[k] = q[k - 1]
    BY <1>3, <1>4, <1>7, <1>9, <1>13
  <2> QED BY <1>7, <1>8, <1>10, <2>1
<1>14. CASE k > i /\ j = i
  <2>1. /\ k - 1 \in DOMAIN q /\ i \in DOMAIN q /\ i <= k - 1
        /\ procList'[j] = c /\ procList'[k] = q[k - 1]
    BY <1>3, <1>4, <1>7, <1>9, <1>14
  <2>2. PoolOf[q[i]] = p /\ PtsOf(q[i]) > t
    BY <1>3, <1>7, <2>1 DEF After
  <2>3. PoolOf[q[k - 1]] = p BY <1>1, <2>1
  <2>4. PtsOf(q[i]) <= PtsOf(q[k - 1])
    <3>1. CASE i = k - 1 BY <1>7, <2>1, <3>1
    <3>2. CASE i < k - 1 BY <1>10, <2>1, <2>2, <2>3, <3>2
    <3> QED BY <1>3, <1>9, <2>1, <3>1, <3>2
  <2>5. t <= PtsOf(q[k - 1])
    <3>1. PtsOf(q[i]) \in Nat /\ PtsOf(q[k - 1]) \in Nat BY <1>7, <2>1
    <3> HIDE DEF t, q
    <3> QED BY <1>1, <2>2, <2>4, <3>1
  <2> QED BY <1>7, <1>8, <2>1, <2>5
<1>15. CASE k > i /\ j > i
  <2>1. /\ j - 1 \in DOMAIN q /\ k - 1 \in DOMAIN q /\ j - 1 < k - 1
        /\ procList'[j] = q[j - 1] /\ procList'[k] = q[k - 1]
    BY <1>3, <1>4, <1>7, <1>9, <1>15
  <2> QED BY <1>7, <1>8, <1>10, <2>1
<1> QED BY <1>3, <1>9, <1>11, <1>12, <1>13, <1>14, <1>15

\* The other steps keep the order: they take the first frame, empty the list
\* or leave it alone, and no step changes the frame of a queued cell.
LEMMA NextSorted ==
  ASSUME TypeOK, Phases, Owned, ListSorted, [Next]_vars
  PROVE  ListSorted'
<1>1. CASE UNCHANGED <<procList, frame>>
  BY <1>1 DEF ListSorted, PtsOf
<1>2. CASE \E p \in Producers : CellPush(p)
  BY <1>2, CellPushSorted
<1>3. CASE CellPop
  <2>1. procList \in Seq(Cells) /\ procList # <<>> /\ procList' = Tail(procList) /\ frame' = frame
    BY <1>3 DEF CellPop, TypeOK
  <2>2. \A j \in DOMAIN procList' : j \in Nat /\ j + 1 \in DOMAIN procList
                                  /\ procList'[j] = procList[j + 1]
    BY <2>1, HeadAndTail
  <2>3. \A j, k \in DOMAIN procList' : j < k => j + 1 < k + 1 BY <2>2
  <2> QED BY <2>1, <2>2, <2>3 DEF ListSorted, PtsOf
<1>4. CASE CellFree
  <2>1. ccell \in Cells /\ ccell # NoCell BY <1>4 DEF CellFree, Phases, TypeOK
  <2>2. ccell \notin Queued BY <2>1 DEF Owned, CellOwnership, InHand
  <2>3. procList' = procList /\ \A x \in Queued : frame'[x] = frame[x]
    BY <1>4, <2>2, QueuedPts DEF CellFree, TypeOK
  <2>4. \A j \in DOMAIN procList : PtsOf(procList[j])' = PtsOf(procList[j])
    BY <2>3, QueuedPts DEF PtsOf
  <2> QED BY <2>3, <2>4 DEF ListSorted
<1>5. CASE JoinAndRelease
  <2>1. DOMAIN procList' = {} BY <1>5 DEF JoinAndRelease
  <2> QED BY <2>1 DEF ListSorted
<1>6. CASE UNCHANGED vars
  BY <1>1, <1>6 DEF vars, queueVars
<1> USE DEF queueVars
<1>7. ASSUME NEW p \in Producers, (\E t \in Pts : Deliver(p, t)) \/ CellGet(p) \/ Return(p)
      PROVE  UNCHANGED <<procList, frame>>
  BY <1>7 DEF Deliver, CellGet, Return
<1>8. ASSUME NEW g \in Givers, Give(g)
      PROVE  UNCHANGED <<procList, frame>>
  BY <1>8 DEF Give, GiveRead, GivePost
<1>9. ASSUME \/ ThreadLoop \/ SignalTaken \/ PopNothing \/ Process \/ CheckExit
             \/ SignalTimeout \/ WriteFails \/ FileEndsOnRetry \/ MediumFails
      PROVE  UNCHANGED <<procList, frame>>
  BY <1>9 DEF ThreadLoop, SignalTaken, PopNothing, Process, CheckExit, SignalTimeout,
     WriteFails, FileEndsOnRetry, MediumFails
<1>10. ASSUME Start \/ Stop \/ StopReturns \/ Destroy \/ Disable
       PROVE  UNCHANGED <<procList, frame>>
  BY <1>10 DEF Start, Stop, StopReturns, Destroy, Disable
<1> QED
  BY <1>1, <1>2, <1>3, <1>4, <1>5, <1>6, <1>7, <1>8, <1>9, <1>10
  DEF Next, Producer, Muxer, Control

\* Whatever the producers and the muxer thread interleave, the frames of one
\* pool wait in the order of their time stamps (RKADK_MUXER_CellPush).
THEOREM FramesSorted == Spec => []ListSorted
<1>1. Init => ListSorted
  <2>1. Init => DOMAIN procList = {} BY DEF Init
  <2> QED BY <2>1 DEF ListSorted
<1>2. TypeOK /\ Phases /\ Owned /\ ListSorted /\ [Next]_vars => ListSorted'
  BY NextSorted
<1> QED BY <1>1, <1>2, Invariant, PTL DEF Spec

-----------------------------------------------------------------------------
(* The user counts of the media buffers                                    *)

\* The users of a buffer are finitely many.
LEMMA UsersFinite ==
  ASSUME NEW f
  PROVE  /\ IsFiniteSet(Carrying(f)) /\ Cardinality(Carrying(f)) \in Nat
         /\ IsFiniteSet(Handed(f)) /\ Cardinality(Handed(f)) \in Nat
<1>1. Carrying(f) \in SUBSET Cells /\ Handed(f) \in SUBSET Producers
  BY DEF Carrying, Handed
<1>2. IsFiniteSet(Carrying(f)) /\ IsFiniteSet(Handed(f))
  BY <1>1, QueueAssumption, FS_Subset
<1> QED BY <1>2, FS_CardinalityType

\* The encoder hands a buffer to a callback and counts it as a user.
LEMMA DeliverCounted ==
  ASSUME TypeOK, Phases, BufferCount, NEW p \in Producers, NEW t \in Pts, Deliver(p, t)
  PROVE  BufferCount'
<1> SUFFICES ASSUME NEW f \in Frames,
                    NEW carrying, carrying = {c \in Cells : frame'[c] = f},
                    NEW handed, handed = {r \in Producers : pframe'[r] = f}
             PROVE  ref'[f] = Cardinality(carrying) + Cardinality(handed)
  BY DEF BufferCount, Carrying, Handed
<1>0. Cardinality(Carrying(f)) \in Nat /\ Cardinality(Handed(f)) \in Nat BY UsersFinite
<1>1. /\ <<p, t>> \in Frames /\ ref[<<p, t>>] = 0 /\ pframe[p] = NoFrame /\ frame' = frame
      /\ pframe' = [pframe EXCEPT ![p] = <<p, t>>]
      /\ ref' = [ref EXCEPT ![<<p, t>>] = 1]
  BY DEF Deliver, Phases, Frames
<1>2. ref'[f] = IF f = <<p, t>> THEN 1 ELSE ref[f]
  BY <1>1 DEF TypeOK
<1>3. \A r \in Producers : pframe'[r] = IF r = p THEN <<p, t>> ELSE pframe[r]
  BY <1>1 DEF TypeOK
<1>4. carrying = Carrying(f) /\ Cardinality(carrying) = Cardinality(Carrying(f))
  BY <1>1 DEF Carrying
<1>5. ref[f] = Cardinality(Carrying(f)) + Cardinality(Handed(f)) BY DEF BufferCount
<1>6. f # NoFrame BY NoneAssumption
<1>7. CASE f = <<p, t>>
  <2>1. handed = Handed(f) \cup {p}
    BY <1>3, <1>7 DEF Handed
  <2>2. p \notin Handed(f) BY <1>1, <1>6 DEF Handed
  <2>3. Cardinality(Handed(f) \cup {p}) = Cardinality(Handed(f)) + 1
    BY <2>2, UsersFinite, FS_AddElement
  <2>4. ref[f] = 0 BY <1>1, <1>7
  <2>5. Cardinality(handed) = Cardinality(Handed(f)) + 1 BY <2>1, <2>3
  <2> QED BY <1>0, <1>2, <1>4, <1>5, <1>7, <2>4, <2>5
<1>8. CASE f # <<p, t>>
  <2>1. handed = Handed(f) /\ Cardinality(handed) = Cardinality(Handed(f))
    BY <1>1, <1>3, <1>6, <1>8 DEF Handed
  <2> QED BY <1>2, <1>4, <1>5, <1>8, <2>1
<1> QED BY <1>7, <1>8

\* The cell a callback pushes becomes a user of the callback's buffer.
LEMMA CellPushCounted ==
  ASSUME TypeOK, Phases, Owned, BufferCount, NEW p \in Producers, CellPush(p)
  PROVE  BufferCount'
<1> SUFFICES ASSUME NEW f \in Frames,
                    NEW carrying, carrying = {c \in Cells : frame'[c] = f},
                    NEW handed, handed = {r \in Producers : pframe'[r] = f}
             PROVE  ref'[f] = Cardinality(carrying) + Cardinality(handed)
  BY DEF BufferCount, Carrying, Handed
<1>0. Cardinality(Carrying(f)) \in Nat /\ Cardinality(Handed(f)) \in Nat BY UsersFinite
<1> DEFINE d == pcell[p]
<1>1. /\ d \in Cells /\ d # NoCell /\ d \in Taken
      /\ pframe[p] \in Frames /\ pframe' = pframe
      /\ frame' = [frame EXCEPT ![d] = pframe[p]]
      /\ ref' = [ref EXCEPT ![pframe[p]] = @ + 1]
  BY QueueAssumption DEF CellPush, Phases, TypeOK, Taken
<1>2. frame[d] = NoFrame
  BY <1>1 DEF Owned, CellOwnership, Carried
<1>3. ref'[f] = IF f = pframe[p] THEN ref[f] + 1 ELSE ref[f]
  BY <1>1 DEF TypeOK
<1>4. \A c \in Cells : frame'[c] = IF c = d THEN pframe[p] ELSE frame[c]
  BY <1>1 DEF TypeOK
<1>5. handed = Handed(f) /\ Cardinality(handed) = Cardinality(Handed(f))
  BY <1>1 DEF Handed
<1>6. ref[f] = Cardinality(Carrying(f)) + Cardinality(Handed(f)) BY DEF BufferCount
<1>7. f # NoFrame BY NoneAssumption
<1> HIDE DEF d
<1>8. CASE f = pframe[p]
  <2>1. carrying = Carrying(f) \cup {d}
    BY <1>1, <1>4, <1>8 DEF Carrying
  <2>2. d \notin Carrying(f) BY <1>2, <1>7 DEF Carrying
  <2>3. Cardinality(Carrying(f) \cup {d}) = Cardinality(Carrying(f)) + 1
    BY <2>2, UsersFinite, FS_AddElement
  <2>5. Cardinality(carrying) = Cardinality(Carrying(f)) + 1 BY <2>1, <2>3
  <2> QED BY <1>0, <1>3, <1>5, <1>6, <1>8, <2>5
<1>9. CASE f # pframe[p]
  <2>1. carrying = Carrying(f) /\ Cardinality(carrying) = Cardinality(Carrying(f))
    BY <1>2, <1>4, <1>7, <1>9 DEF Carrying
  <2> QED BY <1>3, <1>5, <1>6, <1>9, <2>1
<1> QED BY <1>8, <1>9

\* A callback that returns gives its buffer up.
LEMMA ReturnCounted ==
  ASSUME TypeOK, Phases, BufferCount, NEW p \in Producers, Return(p)
  PROVE  BufferCount'
<1> SUFFICES ASSUME NEW f \in Frames,
                    NEW carrying, carrying = {c \in Cells : frame'[c] = f},
                    NEW handed, handed = {r \in Producers : pframe'[r] = f}
             PROVE  ref'[f] = Cardinality(carrying) + Cardinality(handed)
  BY DEF BufferCount, Carrying, Handed
<1>0. Cardinality(Carrying(f)) \in Nat /\ Cardinality(Handed(f)) \in Nat BY UsersFinite
<1>1. /\ pframe[p] \in Frames /\ frame' = frame
      /\ pframe' = [pframe EXCEPT ![p] = NoFrame]
      /\ ref' = [ref EXCEPT ![pframe[p]] = @ - 1]
  BY DEF Return, Phases, TypeOK
<1>2. ref'[f] = IF f = pframe[p] THEN ref[f] - 1 ELSE ref[f]
  BY <1>1 DEF TypeOK
<1>3. \A r \in Producers : pframe'[r] = IF r = p THEN NoFrame ELSE pframe[r]
  BY <1>1 DEF TypeOK
<1>4. carrying = Carrying(f) /\ Cardinality(carrying) = Cardinality(Carrying(f))
  BY <1>1 DEF Carrying
<1>5. ref[f] = Cardinality(Carrying(f)) + Cardinality(Handed(f)) BY DEF BufferCount
<1>6. f # NoFrame BY NoneAssumption
<1>7. CASE f = pframe[p]
  <2>1. handed = Handed(f) \ {p}
    BY <1>3, <1>6 DEF Handed
  <2>2. p \in Handed(f) BY <1>7 DEF Handed
  <2>3. Cardinality(Handed(f) \ {p}) = Cardinality(Handed(f)) - 1
    BY <2>2, UsersFinite, FS_RemoveElement
  <2>5. Cardinality(handed) = Cardinality(Handed(f)) - 1 BY <2>1, <2>3
  <2> QED BY <1>0, <1>2, <1>4, <1>5, <1>7, <2>5
<1>8. CASE f # pframe[p]
  <2>1. handed = Handed(f) /\ Cardinality(handed) = Cardinality(Handed(f))
    BY <1>3, <1>6, <1>8 DEF Handed
  <2> QED BY <1>2, <1>4, <1>5, <1>8, <2>1
<1> QED BY <1>7, <1>8

\* The muxer thread releases the buffer of the cell it is done with.
LEMMA CellFreeCounted ==
  ASSUME TypeOK, Phases, Owned, BufferCount, CellFree
  PROVE  BufferCount'
<1> SUFFICES ASSUME NEW f \in Frames,
                    NEW carrying, carrying = {c \in Cells : frame'[c] = f},
                    NEW handed, handed = {r \in Producers : pframe'[r] = f}
             PROVE  ref'[f] = Cardinality(carrying) + Cardinality(handed)
  BY DEF BufferCount, Carrying, Handed
<1>0. Cardinality(Carrying(f)) \in Nat /\ Cardinality(Handed(f)) \in Nat BY UsersFinite
<1> DEFINE d == ccell
<1>1. /\ d \in Cells /\ d \in InHand /\ pframe' = pframe
      /\ frame' = [frame EXCEPT ![d] = NoFrame]
      /\ ref' = [ref EXCEPT ![frame[d]] = @ - 1]
  BY DEF CellFree, Phases, TypeOK, InHand, prodVars
<1>2. frame[d] \in Frames
  BY <1>1 DEF Owned, Carried, TypeOK
<1>3. ref'[f] = IF f = frame[d] THEN ref[f] - 1 ELSE ref[f]
  BY <1>1, <1>2 DEF TypeOK
<1>4. \A c \in Cells : frame'[c] = IF c = d THEN NoFrame ELSE frame[c]
  BY <1>1 DEF TypeOK
<1>5. handed = Handed(f) /\ Cardinality(handed) = Cardinality(Handed(f))
  BY <1>1 DEF Handed
<1>6. ref[f] = Cardinality(Carrying(f)) + Cardinality(Handed(f)) BY DEF BufferCount
<1>7. f # NoFrame BY NoneAssumption
<1> HIDE DEF d
<1>8. CASE f = frame[d]
  <2>1. carrying = Carrying(f) \ {d}
    BY <1>4, <1>7 DEF Carrying
  <2>2. d \in Carrying(f) BY <1>1, <1>8 DEF Carrying
  <2>3. Cardinality(Carrying(f) \ {d}) = Cardinality(Carrying(f)) - 1
    BY <2>2, UsersFinite, FS_RemoveElement
  <2>5. Cardinality(carrying) = Cardinality(Carrying(f)) - 1 BY <2>1, <2>3
  <2> QED BY <1>0, <1>3, <1>5, <1>6, <1>8, <2>5
<1>9. CASE f # frame[d]
  <2>1. carrying = Carrying(f) /\ Cardinality(carrying) = Cardinality(Carrying(f))
    BY <1>4, <1>7, <1>9 DEF Carrying
  <2> QED BY <1>3, <1>5, <1>6, <1>9, <2>1
<1> QED BY <1>8, <1>9

\* Destroying the stream releases the buffer of every cell that is still queued.
LEMMA JoinCounted ==
  ASSUME TypeOK, BufferCount, JoinAndRelease
  PROVE  BufferCount'
<1> SUFFICES ASSUME NEW f \in Frames,
                    NEW carrying, carrying = {c \in Cells : frame'[c] = f},
                    NEW handed, handed = {r \in Producers : pframe'[r] = f}
             PROVE  ref'[f] = Cardinality(carrying) + Cardinality(handed)
  BY DEF BufferCount, Carrying, Handed
<1>0. Cardinality(Carrying(f)) \in Nat /\ Cardinality(Handed(f)) \in Nat BY UsersFinite
<1> DEFINE left == {c \in Queued : frame[c] = f}
<1>1. /\ ref'[f] = ref[f] - Cardinality(left) /\ pframe' = pframe
      /\ \A c \in Cells : frame'[c] = IF c \in Queued THEN NoFrame ELSE frame[c]
  BY DEF JoinAndRelease, prodVars
<1>2. \A x \in Queued : x \in Cells BY DEF Queued, TypeOK
<1>3. f # NoFrame BY NoneAssumption
<1>4. carrying = Carrying(f) \ left
  BY <1>1, <1>3 DEF Carrying
<1>5. Carrying(f) \cap left = left BY <1>2 DEF Carrying
<1>6. Cardinality(Carrying(f) \ left) = Cardinality(Carrying(f)) - Cardinality(left)
  BY <1>5, UsersFinite, FS_Difference
<1>7. Cardinality(left) \in Nat
  <2>1. left \in SUBSET Carrying(f) BY <1>5
  <2> QED BY <2>1, UsersFinite, FS_Subset, FS_CardinalityType
<1>8. handed = Handed(f) /\ Cardinality(handed) = Cardinality(Handed(f))
  BY <1>1 DEF Handed
<1>9. ref[f] = Cardinality(Carrying(f)) + Cardinality(Handed(f)) BY DEF BufferCount
<1> HIDE DEF left
<1> QED BY <1>0, <1>1, <1>4, <1>6, <1>7, <1>8, <1>9

\* Every step keeps the counts right.
LEMMA NextCounted ==
  ASSUME TypeOK, Phases, Owned, BufferCount, [Next]_vars
  PROVE  BufferCount'
<1>1. CASE UNCHANGED <<frame, pframe, ref>>
  BY <1>1 DEF BufferCount, Carrying, Handed
<1>2. CASE \E p \in Producers, t \in Pts : Deliver(p, t)
  BY <1>2, DeliverCounted
<1>3. CASE \E p \in Producers : CellPush(p)
  BY <1>3, CellPushCounted
<1>4. CASE \E p \in Producers : Return(p)
  BY <1>4, ReturnCounted
<1>5. CASE CellFree
  BY <1>5, CellFreeCounted
<1>6. CASE JoinAndRelease
  BY <1>6, JoinCounted
<1>7. CASE UNCHANGED vars
  BY <1>1, <1>7 DEF vars, queueVars, prodVars
<1> USE DEF queueVars, prodVars
<1>8. ASSUME NEW p \in Producers, CellGet(p)
      PROVE  UNCHANGED <<frame, pframe, ref>>
  BY <1>8 DEF CellGet
<1>9. ASSUME NEW g \in Givers, Give(g)
      PROVE  UNCHANGED <<frame, pframe, ref>>
  BY <1>9 DEF Give, GiveRead, GivePost
<1>10. ASSUME \/ ThreadLoop \/ SignalTaken \/ CellPop \/ PopNothing \/ Process \/ CheckExit
              \/ SignalTimeout \/ WriteFails \/ FileEndsOnRetry \/ MediumFails
       PROVE  UNCHANGED <<frame, pframe, ref>>
  BY <1>10 DEF ThreadLoop, SignalTaken, CellPop, PopNothing, Process, CheckExit,
     SignalTimeout, WriteFails, FileEndsOnRetry, MediumFails
<1>11. ASSUME Start \/ Stop \/ StopReturns \/ Destroy \/ Disable
       PROVE  UNCHANGED <<frame, pframe, ref>>
  BY <1>11 DEF Start, Stop, StopReturns, Destroy, Disable
<1> QED
  BY <1>1, <1>2, <1>3, <1>4, <1>5, <1>6, <1>7, <1>8, <1>9, <1>10, <1>11
  DEF Next, Producer, Muxer, Control

\* The user count of a media buffer is at all times the number of its users:
\* RKADK_MUXER_CellPush adds one, RKADK_MUXER_CellFree takes it back, the
\* encoder gives its own up when the callback returns.
THEOREM BuffersCounted == Spec => []BufferCount
<1>1. Init => BufferCount
  <2> SUFFICES ASSUME Init, NEW f \in Frames
               PROVE  ref[f] = Cardinality(Carrying(f)) + Cardinality(Handed(f))
    BY DEF BufferCount
  <2>1. f # NoFrame BY NoneAssumption
  <2>2. Carrying(f) = {} /\ Handed(f) = {} /\ ref[f] = 0
    BY <2>1 DEF Init, Carrying, Handed
  <2> QED BY <2>2, FS_EmptySet
<1>2. TypeOK /\ Phases /\ Owned /\ BufferCount /\ [Next]_vars => BufferCount'
  BY NextCounted
<1> QED BY <1>1, <1>2, Invariant, PTL DEF Spec

\* After RKADK_MUXER_Disable every cell is in its free list and no media buffer
\* of the stream has a user left, whatever was queued, taken or half done.
THEOREM NothingHeld == Spec => []NothingHeldAtEnd
<1>1. TypeOK /\ Phases /\ Owned /\ BufferCount => NothingHeldAtEnd
  <2> SUFFICES ASSUME TypeOK, Phases, Owned, BufferCount, kpc = "gone"
               PROVE  free = Cells /\ \A f \in Frames : ref[f] = 0
    BY DEF NothingHeldAtEnd
  <2>1. /\ cpc = "dead" /\ procList = <<>> /\ ccell = NoCell
        /\ \A p \in Producers : ppc[p] = "idle" /\ pcell[p] = NoCell /\ pframe[p] = NoFrame
    BY DEF Phases
  <2>2. Taken = {} /\ InHand = {} BY <2>1 DEF Taken, InHand
  <2>3. Queued = {}
    <3>1. DOMAIN procList = {} BY <2>1
    <3> QED BY <3>1 DEF Queued
  <2>4. free = Cells BY <2>2, <2>3 DEF Owned, CellOwnership
  <2>5. \A c \in Cells : frame[c] = NoFrame BY <2>2, <2>3 DEF Owned, Carried
  <2>6. ASSUME NEW f \in Frames PROVE ref[f] = 0
    <3>1. f # NoFrame BY NoneAssumption
    <3>2. Carrying(f) = {} /\ Handed(f) = {} BY <2>1, <2>5, <3>1 DEF Carrying, Handed
    <3>3. ref[f] = Cardinality(Carrying(f)) + Cardinality(Handed(f)) BY DEF BufferCount
    <3> QED BY <3>2, <3>3, FS_EmptySet
  <2> QED BY <2>4, <2>6
<1> QED BY <1>1, Invariant, BuffersCounted, PTL

-----------------------------------------------------------------------------
(* The value of the signal                                                 *)

\* Every step keeps the bound: GiveRead lets a giver in only below the maximum,
\* GivePost trades a giver for a signal.
LEMMA NextBounded ==
  ASSUME TypeOK, SignalBounded, [Next]_vars
  PROVE  SignalBounded'
<1> DEFINE posting == {g \in Givers : give'[g] = "post"}
<1>1. IsFiniteSet(Givers) BY QueueAssumption, FS_AddElement DEF Givers
<1>2. ASSUME NEW S \in SUBSET Givers
      PROVE  IsFiniteSet(S) /\ Cardinality(S) \in Nat /\ Cardinality(S) <= Cardinality(Givers)
  BY <1>1, FS_Subset, FS_CardinalityType
<1>3. Cardinality(Posting) \in Nat /\ IsFiniteSet(Posting) /\ Cardinality(Givers) \in Nat
  BY <1>2 DEF Posting
<1>4. posting \in SUBSET Givers OBVIOUS
<1>5. sem \in Nat /\ Sigs \in Nat /\ sem + Cardinality(Posting) < Sigs + Cardinality(Givers)
  BY QueueAssumption DEF TypeOK, SignalBounded
<1>6. SignalBounded' <=> sem' + Cardinality(posting) < Sigs + Cardinality(Givers)
  BY DEF SignalBounded, Posting
<1>7. ASSUME posting \in SUBSET Posting, sem' \in {sem, sem - 1}
      PROVE  SignalBounded'
  <2>1. Cardinality(posting) \in Nat /\ Cardinality(posting) <= Cardinality(Posting)
    BY <1>2, <1>3, <1>4, <1>7, FS_Subset
  <2> HIDE DEF posting
  <2> QED BY <1>3, <1>5, <1>6, <1>7, <2>1
<1>8. CASE \E g \in Givers : GiveRead(g)
  <2>1. PICK g \in Givers : GiveRead(g) BY <1>8
  <2>2. sem' = sem BY <2>1 DEF GiveRead
  <2>3. CASE sem < Sigs
    <3>1. Cardinality(posting) \in Nat /\ Cardinality(posting) <= Cardinality(Givers)
      BY <1>2, <1>4
    <3> HIDE DEF posting
    <3> QED BY <1>3, <1>5, <1>6, <2>2, <2>3, <3>1
  <2>4. CASE ~ (sem < Sigs)
    <3>1. \A h \in Givers : give'[h] = "post" => give[h] = "post"
      BY <2>1, <2>4 DEF GiveRead, TypeOK
    <3> QED BY <1>7, <2>2, <3>1 DEF Posting
  <2> QED BY <2>3, <2>4
<1>9. CASE \E g \in Givers : GivePost(g)
  <2>1. PICK g \in Givers : GivePost(g) BY <1>9
  <2>2. sem' = sem + 1 /\ g \in Posting
        /\ \A h \in Givers : give'[h] = IF h = g THEN "no" ELSE give[h]
    BY <2>1 DEF GivePost, TypeOK, Posting
  <2>3. posting = Posting \ {g} BY <2>2 DEF Posting
  <2>4. Cardinality(Posting \ {g}) = Cardinality(Posting) - 1
    BY <1>3, <2>2, FS_RemoveElement
  <2>5. Cardinality(posting) = Cardinality(Posting) - 1 BY <2>3, <2>4
  <2> HIDE DEF posting
  <2> QED BY <1>3, <1>5, <1>6, <2>2, <2>5
<1>10. CASE UNCHANGED <<sem, give>>
  BY <1>7, <1>10 DEF Posting
<1>11. CASE SignalTaken
  BY <1>7, <1>11 DEF SignalTaken, Posting
<1>12. CASE (\E p \in Producers : CellPush(p)) \/ Stop \/ Disable
  <2>1. PICK g \in Givers : sem' = sem /\ give' = [give EXCEPT ![g] = "read"]
    BY <1>12 DEF CellPush, Stop, Disable, Givers
  <2>2. \A h \in Givers : give'[h] = "post" => give[h] = "post"
    BY <2>1 DEF TypeOK
  <2> QED BY <1>7, <2>1, <2>2 DEF Posting
<1>13. CASE UNCHANGED vars
  BY <1>10, <1>13 DEF vars, sigVars
<1> USE DEF sigVars
<1>14. ASSUME NEW p \in Producers, (\E t \in Pts : Deliver(p, t)) \/ CellGet(p) \/ Return(p)
       PROVE  UNCHANGED <<sem, give>>
  BY <1>14 DEF Deliver, CellGet, Return
<1>15. ASSUME \/ ThreadLoop \/ CellPop \/ PopNothing \/ Process \/ CellFree \/ CheckExit
              \/ SignalTimeout \/ WriteFails \/ FileEndsOnRetry \/ MediumFails
       PROVE  UNCHANGED <<sem, give>>
  BY <1>15 DEF ThreadLoop, CellPop, PopNothing, Process, CellFree, CheckExit,
     SignalTimeout, WriteFails, FileEndsOnRetry, MediumFails
<1>16. ASSUME Start \/ StopReturns \/ Destroy \/ JoinAndRelease
       PROVE  UNCHANGED <<sem, give>>
  BY <1>16 DEF Start, StopReturns, Destroy, JoinAndRelease
<1> HIDE DEF posting
<1> QED
  BY <1>8, <1>9, <1>10, <1>11, <1>12, <1>13, <1>14, <1>15, <1>16
  DEF Next, Producer, Give, Muxer, Control

\* However many threads give the signal at once, its value stays below the
\* maximum of RKADK_SIGNAL_Create plus the number of givers.
THEOREM SignalIsBounded == Spec => []SignalBounded
<1>1. Init => SignalBounded
  <2> SUFFICES ASSUME Init PROVE SignalBounded
    OBVIOUS
  <2>1. Posting = {} /\ sem = 0 BY DEF Init, Posting
  <2>2. IsFiniteSet(Givers) BY QueueAssumption, FS_AddElement DEF Givers
  <2>3. Cardinality(Posting) = 0 /\ Cardinality(Givers) \in Nat
    BY <2>1, <2>2, FS_EmptySet, FS_CardinalityType
  <2>4. Givers # {} BY DEF Givers
  <2>5. Cardinality(Givers) # 0 BY <2>2, <2>4, FS_EmptySet
  <2> QED BY <2>1, <2>3, <2>5, QueueAssumption DEF SignalBounded
<1>2. TypeOK /\ SignalBounded /\ [Next]_vars => SignalBounded'
  BY NextBounded
<1> QED BY <1>1, <1>2, TypeCorrect, PTL DEF Spec
=============================================================================
