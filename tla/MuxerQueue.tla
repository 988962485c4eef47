----------------------------- MODULE MuxerQueue -----------------------------
(***************************************************************************)
(* The frame hand-off of one muxer stream (src/src/muxer/rkadk_muxer.c):   *)
(* the media callbacks (producers) take a cell from their free list, fill  *)
(* it, insert it in stProcList and give the signal; the muxer thread waits *)
(* for the signal, pops the cells, handles each frame and returns the cell *)
(* to its free list.  The application starts, stops and destroys the       *)
(* stream.  What the muxer thread does with a frame is abstracted here to  *)
(* "a file is open or not" and is modelled in module MuxerFile.            *)
(***************************************************************************)
EXTENDS Integers, Sequences, FiniteSets

CONSTANTS
  Producers,  \* callback threads: one per free list (stVFree, stAFree)
  Ctl,        \* the application's thread
  Cells,      \* stVCell and stACell
  PoolOf,     \* cell |-> producer whose free list the cell belongs to (cell->pool)
  Pts,        \* the time stamps of the frames that are alive at one time (bound)
  IoFault,    \* TRUE: the medium may start to fail, and fails from then on
  Sigs,       \* max_val of the signal (1 in RKADK_MUXER_Enable)
  NoFrame,    \* an empty cell, an idle callback
  NoCell      \* no cell in hand

ASSUME QueueAssumption ==
  /\ Ctl \notin Producers
  /\ IsFiniteSet(Producers) /\ IsFiniteSet(Cells)
  /\ PoolOf \in [Cells -> Producers]
  /\ Pts \subseteq Nat
  /\ IoFault \in BOOLEAN
  /\ Sigs \in Nat \ {0}

Givers  == Producers \cup {Ctl}
Frames  == Producers \X Pts

ASSUME NoneAssumption == NoFrame \notin Frames /\ NoCell \notin Cells

VARIABLES
  free,      \* the free lists: the cells in stVFree and stAFree
  procList,  \* stProcList
  frame,     \* cell |-> the frame it carries (pMbBlk, pts)
  ref,       \* frame |-> user count of its media buffer
  ppc,       \* producer |-> where it is in Write{Video,Audio}Frame
  pframe,    \* producer |-> the frame its callback was called with
  pcell,     \* producer |-> the cell it took and has not pushed yet
  sem,       \* value of the stream's semaphore
  give,      \* giver |-> where it is in RKADK_SIGNAL_Give
  cpc,       \* where the muxer thread is
  ccell,     \* the cell the muxer thread popped
  open,      \* bMuxering: a file is open
  fault,     \* writes fail
  bEnableStream,
  exitFlag,  \* exit_flag of the muxer thread
  bound,     \* the callbacks are registered and may be called
  kpc        \* where the application's thread is

queueVars == <<free, procList, frame, ref>>
prodVars  == <<ppc, pframe, pcell>>
sigVars   == <<sem, give>>
consVars  == <<cpc, ccell, open, fault>>
ctlVars   == <<bEnableStream, exitFlag, bound, kpc>>
vars      == <<queueVars, prodVars, sigVars, consVars, ctlVars>>

Queued    == {procList[i] : i \in DOMAIN procList}
PtsOf(c)  == frame[c][2]

Init ==
  /\ free = Cells
  /\ procList = <<>>
  /\ frame = [c \in Cells |-> NoFrame]
  /\ ref = [f \in Frames |-> 0]
  /\ ppc = [p \in Producers |-> "idle"]
  /\ pframe = [p \in Producers |-> NoFrame]
  /\ pcell = [p \in Producers |-> NoCell]
  /\ sem = 0
  /\ give = [g \in Givers |-> "no"]
  /\ cpc = "loop"
  /\ ccell = NoCell
  /\ open = FALSE
  /\ fault = FALSE
  /\ bEnableStream = FALSE
  /\ exitFlag = FALSE
  /\ bound = TRUE
  /\ kpc = "idle"

-----------------------------------------------------------------------------
(* Seeded faults: wrong forms of definitions below.  No specification uses *)
(* them; each shows that some property can fail.                           *)

\* the comparison with the maximum is off by one
GiveReadOffByOne(g) ==
  /\ give[g] = "read"
  /\ give' = [give EXCEPT ![g] = IF sem < Sigs - 1 THEN "post" ELSE "no"]
  /\ UNCHANGED <<sem, queueVars, prodVars, consVars, ctlVars>>

\* cells are always appended
InsertAtEnd(q, p, t) == {Len(q) + 1}

\* the buffer gets no user count
CellPushUncounted(p) ==
  LET c == pcell[p] IN
  /\ ppc[p] = "push"
  /\ frame' = [frame EXCEPT ![c] = pframe[p]]
  /\ procList' = Append(procList, c)
  /\ pcell' = [pcell EXCEPT ![p] = NoCell]
  /\ ppc' = [ppc EXCEPT ![p] = "return"]
  /\ give' = [give EXCEPT ![p] = "read"]
  /\ UNCHANGED <<free, ref, pframe, sem, consVars, ctlVars>>

\* the signal is not given
CellPushSilent(p) ==
  LET c == pcell[p] IN
  /\ ppc[p] = "push"
  /\ frame' = [frame EXCEPT ![c] = pframe[p]]
  /\ ref' = [ref EXCEPT ![pframe[p]] = @ + 1]
  /\ procList' = Append(procList, c)
  /\ pcell' = [pcell EXCEPT ![p] = NoCell]
  /\ ppc' = [ppc EXCEPT ![p] = "return"]
  /\ UNCHANGED <<free, pframe, sigVars, consVars, ctlVars>>

\* the file is left open
CheckExitOpen ==
  /\ cpc = "check" /\ cpc' = "loop"
  /\ UNCHANGED <<ccell, open, fault, queueVars, prodVars, sigVars, ctlVars>>

\* the thread is told to exit and not woken
DisableSilent ==
  /\ kpc = "unbind"
  /\ \A p \in Producers : ppc[p] = "idle"
  /\ bEnableStream' = FALSE
  /\ exitFlag' = TRUE
  /\ kpc' = "join"
  /\ UNCHANGED <<bound, sigVars, queueVars, prodVars, consVars>>

\* the list is not released
JoinOnly ==
  /\ kpc = "join" /\ give[Ctl] = "no" /\ cpc = "dead"
  /\ kpc' = "gone"
  /\ UNCHANGED <<bEnableStream, exitFlag, bound, queueVars, prodVars, sigVars, consVars>>

\* released cells are not unlinked
JoinAndFree ==
  /\ kpc = "join" /\ give[Ctl] = "no" /\ cpc = "dead"
  /\ free' = free \cup Queued
  /\ kpc' = "gone"
  /\ UNCHANGED <<procList, frame, ref, bEnableStream, exitFlag, bound,
                 prodVars, sigVars, consVars>>

-----------------------------------------------------------------------------
(* RKADK_SIGNAL_Give: sem_getvalue and sem_post are two calls.             *)

GiveRead(g) ==
  /\ give[g] = "read"
  /\ give' = [give EXCEPT ![g] = IF sem < Sigs THEN "post" ELSE "no"]
  /\ UNCHANGED <<sem, queueVars, prodVars, consVars, ctlVars>>

GivePost(g) ==
  /\ give[g] = "post"
  /\ give' = [give EXCEPT ![g] = "no"]
  /\ sem' = sem + 1
  /\ UNCHANGED <<queueVars, prodVars, consVars, ctlVars>>

-----------------------------------------------------------------------------
(* The producers: RKADK_MUXER_WriteVideoFrame, RKADK_MUXER_WriteAudioFrame *)

\* The encoder hands over a frame; the callback drops it when the stream is
\* not enabled.  A frame arrives with one user count, the encoder's; the encoder
\* fills a buffer again only after its last user released it.
Deliver(p, t) ==
  /\ bound /\ ppc[p] = "idle" /\ ref[<<p, t>>] = 0
  /\ pframe' = [pframe EXCEPT ![p] = <<p, t>>]
  /\ ref' = [ref EXCEPT ![<<p, t>>] = 1]
  /\ ppc' = [ppc EXCEPT ![p] = IF bEnableStream THEN "get" ELSE "return"]
  /\ UNCHANGED <<free, procList, frame, pcell, sigVars, consVars, ctlVars>>

\* RKADK_MUXER_CellGet, polled every 10 ms until the free list has a cell.
CellGet(p) ==
  /\ ppc[p] = "get"
  /\ \E c \in free :
       /\ PoolOf[c] = p
       /\ free' = free \ {c}
       /\ pcell' = [pcell EXCEPT ![p] = c]
  /\ ppc' = [ppc EXCEPT ![p] = "push"]
  /\ UNCHANGED <<procList, frame, ref, pframe, sigVars, consVars, ctlVars>>

\* Where RKADK_MUXER_CellPush inserts a cell of producer p with time stamp t:
\* before the first cell of the same pool with a greater one, else at the end.
After(q, i, p, t) == PoolOf[q[i]] = p /\ PtsOf(q[i]) > t

InsertPositions(q, p, t) ==
  {i \in 1 .. Len(q) + 1 :
     /\ \A j \in 1 .. i - 1 : ~ After(q, j, p, t)
     /\ i <= Len(q) => After(q, i, p, t)}

\* list_add_tail before the i-th cell, or at the end of the list
InsertAt(q, i, c) ==
  [j \in 1 .. Len(q) + 1 |-> IF j < i THEN q[j] ELSE IF j = i THEN c ELSE q[j - 1]]

\* The cell is filled, its buffer gets a user count and it is inserted under
\* the mutex; then the signal is given.
CellPush(p) ==
  LET c == pcell[p]
      f == pframe[p]
  IN /\ ppc[p] = "push"
     /\ frame' = [frame EXCEPT ![c] = f]
     /\ ref' = [ref EXCEPT ![f] = @ + 1]
     /\ \E i \in InsertPositions(procList, p, f[2]) :
          procList' = InsertAt(procList, i, c)
     /\ pcell' = [pcell EXCEPT ![p] = NoCell]
     /\ ppc' = [ppc EXCEPT ![p] = "return"]
     /\ give' = [give EXCEPT ![p] = "read"]
     /\ UNCHANGED <<free, pframe, sem, consVars, ctlVars>>

\* The callback returns and the encoder releases the stream's buffer.
Return(p) ==
  /\ ppc[p] = "return" /\ give[p] = "no"
  /\ ref' = [ref EXCEPT ![pframe[p]] = @ - 1]
  /\ pframe' = [pframe EXCEPT ![p] = NoFrame]
  /\ ppc' = [ppc EXCEPT ![p] = "idle"]
  /\ UNCHANGED <<free, procList, frame, pcell, sigVars, consVars, ctlVars>>

-----------------------------------------------------------------------------
(* The muxer thread: RKADK_THREAD_Proc calling RKADK_MUXER_Proc            *)

ThreadLoop ==
  /\ cpc = "loop"
  /\ cpc' = IF exitFlag THEN "dead" ELSE "wait"
  /\ UNCHANGED <<ccell, open, fault, queueVars, prodVars, sigVars, ctlVars>>

SignalTaken ==
  /\ cpc = "wait" /\ sem > 0
  /\ sem' = sem - 1
  /\ cpc' = "pop"
  /\ UNCHANGED <<ccell, open, fault, give, queueVars, prodVars, ctlVars>>

\* sem_timedwait gives up after "duration" seconds.
SignalTimeout ==
  /\ cpc = "wait"
  /\ cpc' = "pop"
  /\ UNCHANGED <<ccell, open, fault, queueVars, prodVars, sigVars, ctlVars>>

CellPop ==
  /\ cpc = "pop" /\ procList # <<>>
  /\ ccell' = Head(procList)
  /\ procList' = Tail(procList)
  /\ cpc' = "proc"
  /\ UNCHANGED <<free, frame, ref, open, fault, prodVars, sigVars, ctlVars>>

PopNothing ==
  /\ cpc = "pop" /\ procList = <<>>
  /\ cpc' = "check"
  /\ UNCHANGED <<ccell, open, fault, queueVars, prodVars, sigVars, ctlVars>>

\* The frame is dropped (stream stopped) or handled; handling it may open a
\* file, close one or leave things as they are.  A broken medium opens none.
Process ==
  /\ cpc = "proc"
  /\ ~ (bEnableStream /\ fault /\ open)
  /\ open' \in IF ~ bEnableStream THEN {open} ELSE IF fault THEN {FALSE} ELSE BOOLEAN
  /\ cpc' = "free"
  /\ UNCHANGED <<ccell, fault, queueVars, prodVars, sigVars, ctlVars>>

\* A failed write is retried with the same cell at once (continue), until the
\* stream is stopped or a retried key frame ends the file's duration.
WriteFails ==
  /\ cpc = "proc" /\ bEnableStream /\ fault
  /\ open' = TRUE
  /\ UNCHANGED <<cpc, ccell, fault, queueVars, prodVars, sigVars, ctlVars>>

FileEndsOnRetry ==
  /\ cpc = "proc" /\ bEnableStream /\ fault /\ open
  /\ open' = FALSE
  /\ UNCHANGED <<cpc, ccell, fault, queueVars, prodVars, sigVars, ctlVars>>

CellFree ==
  /\ cpc = "free"
  /\ ref' = [ref EXCEPT ![frame[ccell]] = @ - 1]
  /\ frame' = [frame EXCEPT ![ccell] = NoFrame]
  /\ free' = free \cup {ccell}
  /\ ccell' = NoCell
  /\ cpc' = "pop"
  /\ UNCHANGED <<procList, open, fault, prodVars, sigVars, ctlVars>>

\* The end of RKADK_MUXER_Proc: a stopped stream's file is closed.
CheckExit ==
  /\ cpc = "check"
  /\ open' = (open /\ bEnableStream)
  /\ cpc' = "loop"
  /\ UNCHANGED <<ccell, fault, queueVars, prodVars, sigVars, ctlVars>>

\* The medium breaks (the card is pulled) and stays broken.
MediumFails ==
  /\ IoFault /\ ~fault
  /\ fault' = TRUE
  /\ UNCHANGED <<cpc, ccell, open, queueVars, prodVars, sigVars, ctlVars>>

-----------------------------------------------------------------------------
(* The application                                                         *)

Start ==
  /\ kpc = "idle"
  /\ bEnableStream' = TRUE
  /\ UNCHANGED <<exitFlag, bound, kpc, queueVars, prodVars, sigVars, consVars>>

Stop ==
  /\ kpc = "idle"
  /\ bEnableStream' = FALSE
  /\ give' = [give EXCEPT ![Ctl] = "read"]
  /\ kpc' = "stop"
  /\ UNCHANGED <<exitFlag, bound, sem, queueVars, prodVars, consVars>>

StopReturns ==
  /\ kpc = "stop" /\ give[Ctl] = "no"
  /\ kpc' = "idle"
  /\ UNCHANGED <<bEnableStream, exitFlag, bound, queueVars, prodVars, sigVars, consVars>>

\* RKADK_RECORD_Destroy unregisters the callbacks and joins their threads ...
Destroy ==
  /\ kpc = "idle"
  /\ bound' = FALSE
  /\ kpc' = "unbind"
  /\ UNCHANGED <<bEnableStream, exitFlag, queueVars, prodVars, sigVars, consVars>>

\* ... then RKADK_MUXER_Disable stops the muxer thread ...
Disable ==
  /\ kpc = "unbind"
  /\ \A p \in Producers : ppc[p] = "idle"
  /\ bEnableStream' = FALSE
  /\ exitFlag' = TRUE
  /\ give' = [give EXCEPT ![Ctl] = "read"]
  /\ kpc' = "join"
  /\ UNCHANGED <<bound, sem, queueVars, prodVars, consVars>>

\* ... joins it, and releases what is left in the list.
JoinAndRelease ==
  /\ kpc = "join" /\ give[Ctl] = "no" /\ cpc = "dead"
  /\ procList' = <<>>
  /\ free' = free \cup Queued
  /\ ref' = [f \in Frames |-> ref[f] - Cardinality({c \in Queued : frame[c] = f})]
  /\ frame' = [c \in Cells |-> IF c \in Queued THEN NoFrame ELSE frame[c]]
  /\ kpc' = "gone"
  /\ UNCHANGED <<bEnableStream, exitFlag, bound, prodVars, sigVars, consVars>>

-----------------------------------------------------------------------------
Producer(p) == CellGet(p) \/ CellPush(p) \/ Return(p)
Give(g)     == GiveRead(g) \/ GivePost(g)
Muxer       == \/ ThreadLoop \/ SignalTaken \/ CellPop \/ PopNothing
               \/ Process \/ CellFree \/ CheckExit
Control     == StopReturns \/ Disable \/ JoinAndRelease

Next ==
  \/ \E p \in Producers, t \in Pts : Deliver(p, t)
  \/ \E p \in Producers : Producer(p)
  \/ \E g \in Givers : Give(g)
  \/ Muxer \/ SignalTimeout \/ WriteFails \/ FileEndsOnRetry \/ MediumFails
  \/ Start \/ Stop \/ Destroy \/ Control

Spec == Init /\ [][Next]_vars

\* Every thread that can take a step takes one eventually (the kernel's
\* scheduler); nothing is assumed of timeouts, of new frames, of the medium or
\* of new calls of the application.
Fairness ==
  /\ \A p \in Producers : WF_vars(Producer(p))
  /\ \A g \in Givers : WF_vars(Give(g))
  /\ WF_vars(Muxer)
  /\ WF_vars(Control)

FairSpec == Spec /\ Fairness

-----------------------------------------------------------------------------
(* What must hold                                                          *)

\* Every variable keeps its type.
TypeOK ==
  /\ free \subseteq Cells
  /\ procList \in Seq(Cells)
  /\ frame \in [Cells -> Frames \cup {NoFrame}]
  /\ ref \in [Frames -> Int]
  /\ ppc \in [Producers -> {"idle", "get", "push", "return"}]
  /\ pframe \in [Producers -> Frames \cup {NoFrame}]
  /\ pcell \in [Producers -> Cells \cup {NoCell}]
  /\ sem \in Nat
  /\ give \in [Givers -> {"no", "read", "post"}]
  /\ cpc \in {"loop", "wait", "pop", "proc", "free", "check", "dead"}
  /\ ccell \in Cells \cup {NoCell}
  /\ open \in BOOLEAN /\ fault \in BOOLEAN
  /\ bEnableStream \in BOOLEAN /\ exitFlag \in BOOLEAN /\ bound \in BOOLEAN
  /\ kpc \in {"idle", "stop", "unbind", "join", "gone"}

\* A signal is on its way: posted, or some thread is inside RKADK_SIGNAL_Give.
Awaited == sem > 0 \/ \E g \in Givers : give[g] # "no"

\* The muxer thread never sleeps on work: while it is in sem_timedwait, or past
\* the point where it looked, a queued cell or a request to exit has a signal
\* on its way, although Give reads the value and posts in two calls.
NoLostWakeup ==
  /\ (cpc \in {"wait", "check", "loop"} /\ procList # <<>>) => Awaited
  /\ (cpc = "wait" /\ exitFlag) => Awaited

\* A stopped stream whose file is still open has a signal on its way to the
\* muxer thread, so the file is closed without waiting for the timeout.
StopIsNoticed ==
  (cpc \in {"wait", "loop"} /\ open /\ ~ bEnableStream) => Awaited

\* The signal exceeds the maximum it was created with by less than the number
\* of threads that give it: Give compares and posts in two calls, so givers
\* that all read the value before any of them posts exceed it.
Posting == {g \in Givers : give[g] = "post"}
SignalBounded == sem + Cardinality(Posting) < Sigs + Cardinality(Givers)

Taken  == {pcell[p] : p \in Producers} \ {NoCell}
InHand == {ccell} \ {NoCell}

\* A cell is in exactly one place: its free list, stProcList (once), the hands
\* of the producer that took it, or the hands of the muxer thread.
CellOwnership ==
  /\ \A i, j \in DOMAIN procList : procList[i] = procList[j] => i = j
  /\ \A p, r \in Producers : pcell[p] = pcell[r] /\ pcell[p] # NoCell => p = r
  /\ Cells = free \cup Queued \cup Taken \cup InHand
  /\ free \cap Queued = {} /\ free \cap Taken = {} /\ free \cap InHand = {}
  /\ Queued \cap Taken = {} /\ Queued \cap InHand = {} /\ Taken \cap InHand = {}

Carrying(f) == {c \in Cells : frame[c] = f}
Handed(f)   == {p \in Producers : pframe[p] = f}

\* The user count of a media buffer is the number of its users: the callback
\* that was handed it, and the cells that carry it.
BufferCount ==
  \A f \in Frames : ref[f] = Cardinality(Carrying(f)) + Cardinality(Handed(f))

\* Frames of one pool are queued in the order of their time stamps.
ListSorted ==
  \A i, j \in DOMAIN procList :
    (i < j /\ PoolOf[procList[i]] = PoolOf[procList[j]])
      => PtsOf(procList[i]) <= PtsOf(procList[j])

\* While frames are queued the muxer thread keeps handling frames, without the
\* help of timeouts and in spite of everything but a broken medium; a stopped
\* stream is drained even then.  Destroying the stream releases what is left.
QueueDrains ==
  (procList # <<>>) ~> (cpc = "free" \/ kpc = "gone" \/ (fault /\ bEnableStream))

\* A stopped stream's file is closed, unless the stream is started again or
\* destroyed first.
StopClosesFile ==
  (kpc = "stop" /\ open) ~> (~ open \/ bEnableStream \/ exitFlag)

\* Destroying a stream that was stopped returns, on a broken medium too: the
\* callbacks do not spin for a cell for ever and the muxer thread exits.
DestroyReturns ==
  (kpc = "unbind" /\ ~ bEnableStream) ~> (kpc = "gone")

\* A destroyed stream holds no media buffer.
NothingHeldAtEnd ==
  kpc = "gone" => free = Cells /\ \A f \in Frames : ref[f] = 0

=============================================================================
