----------------------------- MODULE MediaVenc -----------------------------
(***************************************************************************)
(* One encoder channel shared by several users (recorder, preview, live):  *)
(* the reference count of the channel, the table of callbacks and the      *)
(* thread that reads the encoder and calls them                            *)
(* (src/src/common/rkadk_media_comm.c).  The table is changed under        *)
(* vencMutex and read by the thread without it.  A user is modelled after  *)
(* RKADK_STREAM_VideoInit and RKADK_STREAM_VideoDeInit.  The audio         *)
(* encoder's table and thread are the same code over again.                *)
(***************************************************************************)
EXTENDS Integers, FiniteSets

CONSTANTS
  Users,        \* the handles; each registers its own callback
  Slots,        \* cb[0 .. RKADK_MEDIA_VENC_MAX_CNT - 1], as 1 .. n
  CreateFails,  \* TRUE: pthread_create may fail
  BindFails,    \* TRUE: binding the channel may fail after the callback is set
  None

ASSUME VencAssumption ==
  /\ IsFiniteSet(Users)
  /\ IsFiniteSet(Slots) /\ Slots # {} /\ Slots = 1 .. Cardinality(Slots)
  /\ CreateFails \in BOOLEAN /\ BindFails \in BOOLEAN
  /\ None \notin Users

VARIABLES
  slot,       \* slot |-> bUsed, cbList and pHandle
  getCnt,     \* s32GetCnt
  bGetBuffer,
  initCnt,    \* s32InitCnt; the channel exists while it is positive
  mutex,      \* who holds vencMutex
  upc,        \* user |-> where it is in its life
  uslot,      \* user |-> the slot it is filling or clearing
  todo,       \* user |-> the fields of that slot it has not stored yet
  gpc,        \* where the thread is; "none" without a thread
  gi,         \* its loop index
  gfn,        \* the callback it read
  ghandle,    \* the handle it read
  stayed,     \* history: users registered since the frame was got
  calls       \* history: stayed user |-> calls of its callback for the frame

tableVars  == <<slot, getCnt, bGetBuffer>>
userVars   == <<upc, uslot, todo>>
threadVars == <<gpc, gi, gfn, ghandle>>
history    == <<stayed, calls>>
vars       == <<tableVars, initCnt, mutex, userVars, threadVars, history>>

Fields   == {"used", "fn", "handle"}
Empty    == [used |-> FALSE, fn |-> None, handle |-> None]
Filled(u) == [used |-> TRUE, fn |-> u, handle |-> u]
UsedSlots == {s \in Slots : slot[s].used}
NoCalls   == [u \in Users |-> 0]

Init ==
  /\ slot = [s \in Slots |-> Empty]
  /\ getCnt = 0 /\ bGetBuffer = FALSE /\ initCnt = 0
  /\ mutex = None
  /\ upc = [u \in Users |-> "idle"]
  /\ uslot = [u \in Users |-> 1]
  /\ todo = [u \in Users |-> {}]
  /\ gpc = "none" /\ gi = 1 /\ gfn = None /\ ghandle = None
  /\ stayed = {} /\ calls = NoCalls

-----------------------------------------------------------------------------
(* Seeded faults: wrong forms of definitions below.  No specification uses *)
(* them; each shows that some property can fail.                           *)

\* the thread is joined and not told to exit
StopCountSilent(u) ==
  /\ upc[u] = "clearing" /\ todo[u] = {}
  /\ getCnt' = getCnt - 1
  /\ upc' = [upc EXCEPT ![u] = IF getCnt = 1 THEN "joining" ELSE "stopped"]
  /\ mutex' = IF getCnt = 1 THEN mutex ELSE None
  /\ UNCHANGED <<slot, bGetBuffer, initCnt, uslot, todo, threadVars, history>>

\* the channel is destroyed whoever else uses it
VencDeInitAll(u) ==
  /\ upc[u] = "stopped" /\ mutex = None
  /\ initCnt' = 0
  /\ upc' = [upc EXCEPT ![u] = "idle"]
  /\ UNCHANGED <<tableVars, mutex, uslot, todo, threadVars, history>>

\* the loop ends at the first unused slot
TestSlotBreaks ==
  /\ gpc = "test"
  /\ IF slot[gi].used /\ slot[gi].fn # None
     THEN gpc' = "load" /\ gfn' = slot[gi].fn
     ELSE gpc' = "release" /\ gfn' = gfn
  /\ UNCHANGED <<tableVars, initCnt, mutex, userVars, gi, ghandle, history>>

-----------------------------------------------------------------------------
(* The users                                                               *)

\* RKADK_MPI_VENC_Init: the first user creates the channel.
VencInit(u) ==
  /\ upc[u] = "idle" /\ mutex = None
  /\ initCnt' = initCnt + 1
  /\ upc' = [upc EXCEPT ![u] = "inited"]
  /\ UNCHANGED <<tableVars, mutex, uslot, todo, threadVars, history>>

\* RKADK_MEDIA_GetVencBuffer takes the mutex and the first unused slot.
GetSlot(u) ==
  /\ upc[u] = "inited" /\ mutex = None
  /\ \E s \in Slots \ UsedSlots :
       /\ \A r \in Slots \ UsedSlots : s <= r
       /\ uslot' = [uslot EXCEPT ![u] = s]
  /\ todo' = [todo EXCEPT ![u] = Fields]
  /\ mutex' = u
  /\ upc' = [upc EXCEPT ![u] = "filling"]
  /\ UNCHANGED <<tableVars, initCnt, threadVars, stayed, calls>>

\* No slot is unused: the call fails.
GetNoSlot(u) ==
  /\ upc[u] = "inited" /\ mutex = None
  /\ UsedSlots = Slots
  /\ upc' = [upc EXCEPT ![u] = "failed"]
  /\ UNCHANGED <<tableVars, initCnt, mutex, uslot, todo, threadVars, history>>

\* The fields of a slot are stored one by one; the thread, which does not take
\* the mutex, may see the stores in any order.
Store(u) ==
  /\ upc[u] \in {"filling", "clearing"}
  /\ \E f \in todo[u] :
       /\ slot' = [slot EXCEPT ![uslot[u]] =
                     [@ EXCEPT ![f] = IF upc[u] = "filling" THEN Filled(u)[f] ELSE Empty[f]]]
       /\ todo' = [todo EXCEPT ![u] = @ \ {f}]
  /\ UNCHANGED <<getCnt, bGetBuffer, initCnt, mutex, upc, uslot, threadVars, history>>

\* The user is counted and starts the thread when bGetBuffer says there is none.
GetThread(u) ==
  /\ upc[u] = "filling" /\ todo[u] = {}
  /\ getCnt' = getCnt + 1
  /\ bGetBuffer' = TRUE
  /\ gpc' = IF bGetBuffer THEN gpc ELSE "loop"
  /\ mutex' = None
  /\ upc' = [upc EXCEPT ![u] = "running"]
  /\ uslot' = [uslot EXCEPT ![u] = 1]
  /\ UNCHANGED <<slot, initCnt, todo, gi, gfn, ghandle, history>>

\* pthread_create fails: the call fails and takes nothing back.
GetThreadFails(u) ==
  /\ CreateFails
  /\ upc[u] = "filling" /\ todo[u] = {} /\ ~ bGetBuffer
  /\ getCnt' = getCnt + 1
  /\ bGetBuffer' = TRUE
  /\ mutex' = None
  /\ upc' = [upc EXCEPT ![u] = "failed"]
  /\ uslot' = [uslot EXCEPT ![u] = 1]
  /\ UNCHANGED <<slot, initCnt, todo, threadVars, history>>

\* Binding the channel to its source comes last and may fail; that it succeeds
\* changes nothing here.
BindChnFails(u) ==
  /\ BindFails
  /\ upc[u] = "running"
  /\ upc' = [upc EXCEPT ![u] = "failed"]
  /\ UNCHANGED <<tableVars, initCnt, mutex, uslot, todo, threadVars, history>>

\* The failed path of RKADK_STREAM_VideoInit: RKADK_MPI_VENC_DeInit and free,
\* without RKADK_MEDIA_StopGetVencBuffer.
GiveUp(u) ==
  /\ upc[u] = "failed" /\ mutex = None
  /\ initCnt' = initCnt - 1
  /\ upc' = [upc EXCEPT ![u] = "gone"]
  /\ UNCHANGED <<tableVars, mutex, uslot, todo, threadVars, history>>

\* RKADK_MEDIA_StopGetVencBuffer finds the user's slot ...
StopSlot(u) ==
  /\ upc[u] = "running" /\ mutex = None
  /\ \E s \in UsedSlots :
       /\ slot[s].fn = u /\ slot[s].handle = u
       /\ uslot' = [uslot EXCEPT ![u] = s]
  /\ todo' = [todo EXCEPT ![u] = Fields]
  /\ mutex' = u
  /\ upc' = [upc EXCEPT ![u] = "clearing"]
  /\ stayed' = stayed \ {u}
  /\ calls' = [calls EXCEPT ![u] = 0]
  /\ UNCHANGED <<tableVars, initCnt, threadVars>>

\* ... and, cleared, leaves the thread to the other users or tells it to exit.
StopCount(u) ==
  /\ upc[u] = "clearing" /\ todo[u] = {}
  /\ getCnt' = getCnt - 1
  /\ IF getCnt = 1
     THEN /\ bGetBuffer' = FALSE
          /\ upc' = [upc EXCEPT ![u] = "joining"]
          /\ mutex' = mutex
     ELSE /\ upc' = [upc EXCEPT ![u] = "stopped"]
          /\ mutex' = None
          /\ bGetBuffer' = bGetBuffer
  /\ uslot' = [uslot EXCEPT ![u] = 1]
  /\ UNCHANGED <<slot, initCnt, todo, threadVars, history>>

\* The last user waits for the thread, if there is one, with vencMutex held.
StopJoin(u) ==
  /\ upc[u] = "joining" /\ gpc \in {"dead", "none"}
  /\ gpc' = "none"
  /\ mutex' = None
  /\ upc' = [upc EXCEPT ![u] = "stopped"]
  /\ UNCHANGED <<tableVars, initCnt, uslot, todo, gi, gfn, ghandle, history>>

\* RKADK_MPI_VENC_DeInit; then the handle is freed.
VencDeInit(u) ==
  /\ upc[u] = "stopped" /\ mutex = None
  /\ initCnt' = initCnt - 1
  /\ upc' = [upc EXCEPT ![u] = "idle"]
  /\ UNCHANGED <<tableVars, mutex, uslot, todo, threadVars, history>>

-----------------------------------------------------------------------------
(* The thread: RKADK_MEDIA_GetVencMb                                       *)

Running == {u \in Users : upc[u] = "running"}

Loop ==
  /\ gpc = "loop"
  /\ gpc' = IF bGetBuffer THEN "get" ELSE "dead"
  /\ UNCHANGED <<tableVars, initCnt, mutex, userVars, gi, gfn, ghandle, history>>

\* RK_MPI_VENC_GetStream returns a frame ...
GetFrame ==
  /\ gpc = "get" /\ initCnt > 0
  /\ gpc' = "test" /\ gi' = 1
  /\ stayed' = Running
  /\ calls' = NoCalls
  /\ UNCHANGED <<tableVars, initCnt, mutex, userVars, gfn, ghandle>>

\* ... or fails after 2 s.
GetTimeout ==
  /\ gpc = "get"
  /\ gpc' = "loop"
  /\ UNCHANGED <<tableVars, initCnt, mutex, userVars, gi, gfn, ghandle, history>>

\* The next slot, or the end of the loop.
NextSlot ==
  /\ gpc' = IF gi + 1 \in Slots THEN "test" ELSE "release"
  /\ gi' = IF gi + 1 \in Slots THEN gi + 1 ELSE gi

\* "cb[i].bUsed && cb[i].cbList"
TestSlot ==
  /\ gpc = "test"
  /\ IF slot[gi].used /\ slot[gi].fn # None
     THEN gpc' = "load" /\ gfn' = slot[gi].fn /\ gi' = gi
     ELSE NextSlot /\ gfn' = gfn
  /\ UNCHANGED <<tableVars, initCnt, mutex, userVars, ghandle, history>>

\* The call: cbList is kept from the test or read again, as the compiler
\* chooses, and pHandle is read.  A call through NULL ends the process.
LoadSlot ==
  /\ gpc = "load"
  /\ \E fn \in {gfn, slot[gi].fn} :
       /\ gfn' = fn
       /\ gpc' = IF fn = None THEN "crash" ELSE "call"
       /\ calls' = [u \in Users |-> calls[u] + (IF fn = u /\ u \in stayed THEN 1 ELSE 0)]
  /\ ghandle' = slot[gi].handle
  /\ UNCHANGED <<tableVars, initCnt, mutex, userVars, gi, stayed>>

\* The callback returns.
CallReturns ==
  /\ gpc = "call"
  /\ NextSlot
  /\ gfn' = None /\ ghandle' = None
  /\ UNCHANGED <<tableVars, initCnt, mutex, userVars, history>>

ReleaseFrame ==
  /\ gpc = "release"
  /\ gpc' = "loop" /\ gi' = 1
  /\ stayed' = {} /\ calls' = NoCalls
  /\ UNCHANGED <<tableVars, initCnt, mutex, userVars, gfn, ghandle>>

-----------------------------------------------------------------------------
Returns(u) == \/ Store(u) \/ GetThread(u) \/ GetThreadFails(u)
              \/ StopCount(u) \/ StopJoin(u)
Asks(u)    == \/ VencInit(u) \/ GetSlot(u) \/ GetNoSlot(u) \/ BindChnFails(u)
              \/ GiveUp(u) \/ StopSlot(u) \/ VencDeInit(u)
Thread     == \/ Loop \/ GetFrame \/ GetTimeout \/ TestSlot \/ LoadSlot
              \/ CallReturns \/ ReleaseFrame

Next == Thread \/ \E u \in Users : Asks(u) \/ Returns(u)

Spec == Init /\ [][Next]_vars

\* A call of the library that got the mutex goes on, the thread is scheduled,
\* and the callbacks return.
Fairness == WF_vars(Thread) /\ \A u \in Users : WF_vars(Returns(u))

FairSpec == Spec /\ Fairness

-----------------------------------------------------------------------------
(* What must hold                                                          *)

\* Every variable keeps its type.
TypeOK ==
  /\ slot \in [Slots -> [used : BOOLEAN, fn : Users \cup {None}, handle : Users \cup {None}]]
  /\ getCnt \in Nat /\ bGetBuffer \in BOOLEAN /\ initCnt \in Nat
  /\ mutex \in Users \cup {None}
  /\ upc \in [Users -> {"idle", "inited", "filling", "running", "failed",
                        "clearing", "joining", "stopped", "gone"}]
  /\ uslot \in [Users -> Slots]
  /\ todo \in [Users -> SUBSET Fields]
  /\ gpc \in {"none", "loop", "get", "test", "load", "call", "release", "dead", "crash"}
  /\ gi \in Slots
  /\ gfn \in Users \cup {None} /\ ghandle \in Users \cup {None}
  /\ stayed \subseteq Users
  /\ calls \in [Users -> Nat]

\* The callbacks that no one will ever unregister: their user gave up.
Leaked == {s \in Slots : slot[s].fn # None /\ upc[slot[s].fn] \in {"failed", "gone"}}

\* A user that stays registered while a frame is handed out gets it exactly once,
\* whatever the other users do to the table meanwhile.
EveryUserServedOnce == gpc = "release" => \A u \in stayed : calls[u] = 1

\* The thread reads an existing channel: as long as every registered callback
\* has a user, the channel is not destroyed under the thread.
ChannelOutlivesThread ==
  Leaked = {} /\ gpc \notin {"none", "dead"} => initCnt > 0

\* RKADK_MEDIA_StopGetVencBuffer returns, although it waits for the thread with
\* vencMutex held; so does every call that waits for that mutex.
StopReturns ==
  (mutex # None) ~> (mutex = None \/ gpc = "crash")

=============================================================================
