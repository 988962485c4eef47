----------------------------- MODULE PhotoShoot -----------------------------
(***************************************************************************)
(* Taking photos, src/src/photo/rkadk_photo.c: RKADK_PHOTO_TakePhoto on    *)
(* one thread of the application, RKADK_PHOTO_Init, Reset and DeInit on    *)
(* another, and the thread Init starts, RKADK_PHOTO_GetJpeg or, when the   *)
(* picture is encoded in slices, RKADK_PHOTO_SliceProc.  They share the    *)
(* handle, which has no mutex, and two encoders, "main" for the photo and  *)
(* "thumb" for its thumbnail.  A picture is the shot it was encoded for    *)
(* and its size.  Left out: the third encoder of compressed input          *)
(* (bFmtChange), the pixels and the sizes of slices, and the failures of   *)
(* Init and Reset, which MediaSessions has.                                *)
(***************************************************************************)
EXTENDS Integers

CONSTANTS
  Counts,     \* photos of a shot: 1, or stMultipleAttr.s32Count
  Slices,     \* u32SliceCount
  StartFails, \* encoders whose RK_MPI_VENC_StartRecvFrame may fail
  MaxShots,   \* bound: shots accepted
  MaxInits,   \* bound: calls of RKADK_PHOTO_Init
  MaxResets,  \* bound: calls of RKADK_PHOTO_Reset that do something
  None        \* no picture

ASSUME CountsAssumption == Counts \subseteq Nat \ {0}
ASSUME SlicesAssumption == Slices \in Nat \ {0}
ASSUME MaxShotsAssumption == MaxShots \in Nat
ASSUME NoneAssumption == None \notin [shot : 0 .. MaxShots, size : 0 .. 1]
ASSUME StartFailsAssumption == StartFails \subseteq {"main", "thumb"}

VARIABLES
  up,        \* the handle exists
  slice,     \* stSliceParam.bJpegSlice
  cnt,       \* u32PhotoCnt
  get,       \* bGetJpeg
  resetting, \* bReseting
  size,      \* picture size of the main encoder
  bound,     \* the main encoder is fed by the camera
  recv,      \* pictures each encoder still takes
  buf,       \* its one stream buffer: None or the picture in it
  thr,       \* the thread: place, slice number, bGetThumb
  shooter,   \* the thread that takes photos: place, photos wanted
  set,       \* the thread that inits, resets and deinits: place
  shot,      \* history: shots accepted
  clean,     \* history: no other call or photo was under way when the shot was accepted,
             \* and its main encoder was started and refused no slice
  crossed,   \* history: TakePhoto and Reset both looked before either could see the other
  late,      \* history: of the handle, a thumbnail came between SliceProc's time-out and the stop
  last,      \* history: the picture and the thumbnail the handle handed over last
  sizes,     \* history: sizes of the pictures handed over for the shot
  calls      \* calls of Init and Reset so far

hvars == <<up, slice, get, resetting, size, bound>>
cvars == <<recv, buf>>
history == <<last, sizes, crossed, late>>
vars == <<hvars, cvars, cnt, thr, shooter, set, shot, clean, history, calls>>

Chans == {"main", "thumb"}
At(pc) == thr' = [thr EXCEPT !.pc = pc]
Idle == thr.pc \in {"head", "wait"}
Resets == {"mark", "unbind", "attr", "bind", "clear"}

Init ==
  /\ up = FALSE /\ slice = FALSE /\ cnt = 0 /\ get = FALSE /\ resetting = FALSE
  /\ size = 0 /\ bound = FALSE
  /\ recv = [c \in Chans |-> 0]
  /\ buf = [c \in Chans |-> None]
  /\ thr = [pc |-> "off", piece |-> 1, thumb |-> FALSE]
  /\ shooter = [pc |-> "idle", want |-> 0]
  /\ set = "idle"
  /\ shot = 0 /\ clean = FALSE /\ crossed = FALSE /\ late = FALSE
  /\ last = [photo |-> None, thumb |-> None] /\ sizes = {}
  /\ calls = [init |-> 0, reset |-> 0]

-----------------------------------------------------------------------------
(* The encoders, as the code uses them: an encoder takes pictures until    *)
(* its count is used up, and holds one until it is released.               *)

Encode(c) ==
  /\ up /\ recv[c] > 0 /\ buf[c] = None
  /\ c = "main" => bound /\ ~slice
  /\ recv' = [recv EXCEPT ![c] = @ - 1]
  /\ buf' = [buf EXCEPT ![c] = [shot |-> shot, size |-> size]]
  /\ UNCHANGED <<hvars, cnt, thr, shooter, set, shot, clean, history, calls>>

StopRecv(c) == recv' = [recv EXCEPT ![c] = 0]
Empty(c)    == buf' = [buf EXCEPT ![c] = None]

-----------------------------------------------------------------------------
(* Seeded faults: wrong forms of definitions below.  No specification uses *)
(* them; each shows that some property can fail.                           *)

\* a second shot is accepted while one is outstanding
TakeLooksNot(n) ==
  /\ shooter.pc = "idle" /\ up /\ set \in Resets \cup {"idle"}
  /\ shot < MaxShots
  /\ ~resetting
  /\ shooter' = [pc |-> "count", want |-> n]
  /\ sizes' = {} /\ crossed' = (set = "mark")
  /\ UNCHANGED <<hvars, cvars, cnt, thr, set, shot, clean, last, late, calls>>

\* a shot is accepted in the middle of a reset
TakeInReset(n) ==
  /\ shooter.pc = "idle" /\ up /\ set \in Resets \cup {"idle"}
  /\ shot < MaxShots
  /\ cnt = 0
  /\ shooter' = [pc |-> "count", want |-> n]
  /\ sizes' = {} /\ crossed' = (set = "mark")
  /\ UNCHANGED <<hvars, cvars, cnt, thr, set, shot, clean, last, late, calls>>

\* the encoders are left as they are when the last photo is taken
LastNoStop ==
  /\ thr.pc = "last"
  /\ At("head")
  /\ UNCHANGED <<hvars, cvars, cnt, shooter, set, shot, clean, history, calls>>

\* they are also stopped with photos outstanding
LastAlways ==
  /\ thr.pc = "last"
  /\ At("stopMain")
  /\ UNCHANGED <<hvars, cvars, cnt, shooter, set, shot, clean, history, calls>>

-----------------------------------------------------------------------------
(* RKADK_PHOTO_TakePhoto.  With photos outstanding, or in a reset, it      *)
(* returns success and does nothing.                                       *)

TakeLooks(n) ==
  /\ shooter.pc = "idle" /\ up /\ set \in Resets \cup {"idle"}
  /\ shot < MaxShots
  /\ cnt = 0 /\ ~resetting
  /\ shooter' = [pc |-> "count", want |-> n]
  /\ sizes' = {} /\ crossed' = (set = "mark")
  /\ UNCHANGED <<hvars, cvars, cnt, thr, set, shot, clean, last, late, calls>>

TakeCounts ==
  /\ shooter.pc = "count"
  /\ cnt' = shooter.want
  /\ shooter' = [shooter EXCEPT !.pc = "main"]
  /\ shot' = shot + 1
  /\ clean' = (Idle /\ set = "idle")
  /\ UNCHANGED <<hvars, cvars, thr, set, history, calls>>

TakeStartsMain ==
  /\ shooter.pc = "main"
  /\ \/ /\ recv' = [recv EXCEPT !["main"] = IF slice THEN shooter.want * Slices ELSE shooter.want]
        /\ shooter' = [shooter EXCEPT !.pc = "thumb"]
        /\ clean' = clean
     \/ /\ "main" \in StartFails
        /\ shooter' = [shooter EXCEPT !.pc = "idle"]
        /\ clean' = FALSE
        /\ UNCHANGED recv
  /\ UNCHANGED <<hvars, buf, cnt, thr, set, shot, history, calls>>

TakeStartsThumb ==
  /\ shooter.pc = "thumb"
  /\ \/ recv' = [recv EXCEPT !["thumb"] = cnt]
     \/ "thumb" \in StartFails /\ UNCHANGED recv
  /\ shooter' = [shooter EXCEPT !.pc = "idle"]
  /\ UNCHANGED <<hvars, buf, cnt, thr, set, shot, clean, history, calls>>

-----------------------------------------------------------------------------
(* The thread.  The callback hands over the picture in the main buffer,    *)
(* with or without a thumbnail.                                            *)

HandOver(t) ==
  /\ last' = [photo |-> buf["main"], thumb |-> t]
  /\ sizes' = sizes \cup {buf["main"].size}
  /\ UNCHANGED <<crossed, late>>

\* The buffer the photo is put together in is a mapped file.
MapBuffer ==
  /\ thr.pc = "map" /\ ~slice
  /\ At("head") \/ At("done")
  /\ UNCHANGED <<hvars, cvars, cnt, shooter, set, shot, clean, history, calls>>

\* SliceProc gets the mapped file, a pool for the scaled slices and a scaler.
SetUpSlices ==
  /\ thr.pc = "map" /\ slice
  /\ At("warm") \/ At("done")
  /\ UNCHANGED <<hvars, cvars, cnt, shooter, set, shot, clean, history, calls>>

\* SliceProc drops a first picture; nothing has been sent to the encoder, so
\* it waits a second in vain and stops it.
WarmUpMain ==
  /\ thr.pc = "warm"
  /\ StopRecv("main") /\ At("warmed")
  /\ UNCHANGED <<hvars, buf, cnt, shooter, set, shot, clean, history, calls>>

WarmUpResetMain ==
  /\ thr.pc = "warmed"
  /\ Empty("main") /\ At("warmThumb")
  /\ UNCHANGED <<hvars, recv, cnt, shooter, set, shot, clean, history, calls>>

WarmUpThumb ==
  /\ thr.pc = "warmThumb"
  /\ \/ buf["thumb"] # None /\ Empty("thumb") /\ UNCHANGED recv
     \/ buf["thumb"] = None /\ StopRecv("thumb") /\ UNCHANGED buf
  /\ At("clearThumb")
  /\ UNCHANGED <<hvars, cnt, shooter, set, shot, clean, history, calls>>

\* RK_MPI_VENC_ResetChn of the thumbnail's encoder.
ClearThumb ==
  /\ thr.pc = "clearThumb"
  /\ Empty("thumb")
  /\ At(IF slice /\ thr.thumb THEN "release" ELSE "head")
  /\ UNCHANGED <<hvars, recv, cnt, shooter, set, shot, clean, history, calls>>

Head ==
  /\ thr.pc = "head"
  /\ At(IF get THEN "wait" ELSE "done")
  /\ UNCHANGED <<hvars, cvars, cnt, shooter, set, shot, clean, history, calls>>

\* RK_MPI_VENC_GetStream of GetJpeg, which returns empty-handed after a second.
WaitPhoto ==
  /\ thr.pc = "wait" /\ ~slice
  /\ At(IF buf["main"] # None THEN "thumb" ELSE "head")
  /\ UNCHANGED <<hvars, cvars, cnt, shooter, set, shot, clean, history, calls>>

\* RK_MPI_VI_GetChnFrame of SliceProc: the camera has a picture.
WaitFrame ==
  /\ thr.pc = "wait" /\ slice
  /\ thr' = [thr EXCEPT !.pc = IF cnt > 0 THEN "send" ELSE "head", !.piece = 1]
  /\ UNCHANGED <<hvars, cvars, cnt, shooter, set, shot, clean, history, calls>>

\* The slice is scaled, sent and its picture waited for.  When that wait fails
\* the thread ends, with the picture left in the encoder.
SendSlice ==
  /\ thr.pc = "send" /\ recv["main"] > 0
  /\ recv' = [recv EXCEPT !["main"] = @ - 1]
  /\ buf' = [buf EXCEPT !["main"] = [shot |-> shot, size |-> size]]
  /\ \/ At(IF thr.thumb THEN "given" ELSE "thumb") /\ clean' = clean
     \/ At("done") /\ clean' = FALSE
  /\ UNCHANGED <<hvars, cnt, shooter, set, shot, history, calls>>

\* No buffer for the slice, a failing scaler, or an encoder that refuses it, as
\* one that takes no pictures does: the thread ends.
SliceFails ==
  /\ thr.pc = "send"
  /\ At("done") /\ clean' = FALSE
  /\ UNCHANGED <<hvars, cvars, cnt, shooter, set, shot, history, calls>>

\* A slice that goes without a thumbnail.
GiveSlice ==
  /\ thr.pc = "given"
  /\ HandOver(None)
  /\ At("release")
  /\ UNCHANGED <<hvars, cvars, cnt, shooter, set, shot, clean, calls>>

\* The thumbnail is there; its buffer is released after the callback.
GiveWithThumb ==
  /\ thr.pc = "thumb" /\ ~slice /\ buf["thumb"] # None
  /\ HandOver(buf["thumb"])
  /\ Empty("thumb") /\ At("release")
  /\ UNCHANGED <<hvars, recv, cnt, shooter, set, shot, clean, calls>>

\* No thumbnail came within a second.  Assumed: TakePhoto is done by then.
GiveWithoutThumb ==
  /\ thr.pc = "thumb" /\ ~slice /\ buf["thumb"] = None
  /\ shooter.pc \notin {"main", "thumb"}
  /\ HandOver(None)
  /\ At("release")
  /\ UNCHANGED <<hvars, cvars, cnt, shooter, set, shot, clean, calls>>

\* The same for the first slice of a photo, whose thumbnail is then done with.
GiveSliceWithThumb ==
  /\ thr.pc = "thumb" /\ slice /\ buf["thumb"] # None
  /\ HandOver(buf["thumb"])
  /\ Empty("thumb")
  /\ thr' = [thr EXCEPT !.thumb = TRUE, !.pc = "clearThumb"]
  /\ UNCHANGED <<hvars, recv, cnt, shooter, set, shot, clean, calls>>

\* None came within a second, with the same assumption.  One that is still owed
\* may come before its encoder is stopped, and is not thrown away then.
ThumbTimesOut ==
  /\ thr.pc = "thumb" /\ slice /\ buf["thumb"] = None
  /\ shooter.pc \notin {"main", "thumb"}
  /\ At("late")
  /\ UNCHANGED <<hvars, cvars, cnt, shooter, set, shot, clean, history, calls>>

StopLateThumb ==
  /\ thr.pc = "late"
  /\ StopRecv("thumb")
  /\ thr' = [thr EXCEPT !.thumb = TRUE, !.pc = "given"]
  /\ late' = (late \/ buf["thumb"] # None)
  /\ UNCHANGED <<hvars, buf, cnt, shooter, set, shot, clean, last, sizes, crossed, calls>>

\* The main buffer is released; the last slice ends the photo.
Release ==
  /\ thr.pc = "release"
  /\ Empty("main")
  /\ IF slice /\ thr.piece < Slices
     THEN thr' = [thr EXCEPT !.pc = "send", !.piece = @ + 1]
     ELSE thr' = [thr EXCEPT !.pc = "count", !.thumb = FALSE]
  /\ UNCHANGED <<hvars, recv, cnt, shooter, set, shot, clean, history, calls>>

Count ==
  /\ thr.pc = "count"
  /\ cnt' = cnt - 1
  /\ At(IF slice THEN "head" ELSE "last")
  /\ UNCHANGED <<hvars, cvars, shooter, set, shot, clean, history, calls>>

Last ==
  /\ thr.pc = "last"
  /\ At(IF cnt = 0 THEN "stopMain" ELSE "head")
  /\ UNCHANGED <<hvars, cvars, cnt, shooter, set, shot, clean, history, calls>>

\* After the last photo both encoders are stopped and emptied.
StopMain ==
  /\ thr.pc = "stopMain"
  /\ StopRecv("main") /\ At("emptyMain")
  /\ UNCHANGED <<hvars, buf, cnt, shooter, set, shot, clean, history, calls>>

EmptyMain ==
  /\ thr.pc = "emptyMain"
  /\ Empty("main") /\ At("stopThumb")
  /\ UNCHANGED <<hvars, recv, cnt, shooter, set, shot, clean, history, calls>>

StopThumb ==
  /\ thr.pc = "stopThumb"
  /\ StopRecv("thumb") /\ At("clearThumb")
  /\ UNCHANGED <<hvars, buf, cnt, shooter, set, shot, clean, history, calls>>

-----------------------------------------------------------------------------
(* RKADK_PHOTO_Init, RKADK_PHOTO_Reset and RKADK_PHOTO_DeInit.  The        *)
(* application takes no photo while it inits or deinits.                   *)

PhotoInit ==
  /\ set = "idle" /\ ~up /\ calls.init < MaxInits
  /\ up' = TRUE /\ slice' \in BOOLEAN
  /\ cnt' = 0 /\ get' = TRUE /\ resetting' = FALSE /\ size' = 0 /\ bound' = TRUE
  /\ thr' = [pc |-> "map", piece |-> 1, thumb |-> FALSE]
  /\ calls' = [calls EXCEPT !.init = @ + 1]
  /\ late' = FALSE /\ last' = [photo |-> None, thumb |-> None]
  /\ UNCHANGED <<cvars, shooter, set, shot, clean, sizes, crossed>>

ResetLooks ==
  /\ set = "idle" /\ up /\ calls.reset < MaxResets
  /\ cnt = 0
  /\ set' = "mark"
  /\ crossed' = (crossed \/ shooter.pc = "count")
  /\ calls' = [calls EXCEPT !.reset = @ + 1]
  /\ UNCHANGED <<hvars, cvars, cnt, thr, shooter, shot, clean, last, sizes, late>>

ResetMarks ==
  /\ set = "mark"
  /\ resetting' = TRUE /\ set' = "unbind"
  /\ UNCHANGED <<up, slice, get, size, bound, cvars, cnt, thr, shooter, shot, clean, history, calls>>

ResetUnbinds ==
  /\ set = "unbind"
  /\ bound' = slice /\ set' = "attr"
  /\ UNCHANGED <<up, slice, get, resetting, size, cvars, cnt, thr, shooter, shot, clean, history, calls>>

ResetSizes ==
  /\ set = "attr"
  /\ size' = 1 - size /\ set' = "bind"
  /\ UNCHANGED <<up, slice, get, resetting, bound, cvars, cnt, thr, shooter, shot, clean, history, calls>>

ResetBinds ==
  /\ set = "bind"
  /\ bound' = TRUE /\ set' = "clear"
  /\ UNCHANGED <<up, slice, get, resetting, size, cvars, cnt, thr, shooter, shot, clean, history, calls>>

ResetEnds ==
  /\ set = "clear"
  /\ resetting' = FALSE /\ set' = "idle"
  /\ UNCHANGED <<up, slice, get, size, bound, cvars, cnt, thr, shooter, shot, clean, history, calls>>

\* When the encoder cannot be stopped, DeInit fails and everything stays.
DeInitBegins ==
  /\ set = "idle" /\ up /\ shooter.pc = "idle"
  /\ StopRecv("main") /\ set' = "stop"
  /\ UNCHANGED <<hvars, buf, cnt, thr, shooter, shot, clean, history, calls>>

DeInitStops ==
  /\ set = "stop"
  /\ get' = FALSE /\ set' = "join"
  /\ UNCHANGED <<up, slice, resetting, size, bound, cvars, cnt, thr, shooter, shot, clean, history, calls>>

DeInitFrees ==
  /\ set = "join" /\ thr.pc = "done"
  /\ At("off")
  /\ up' = FALSE /\ bound' = FALSE
  /\ recv' = [c \in Chans |-> 0] /\ buf' = [c \in Chans |-> None]
  /\ set' = "idle"
  /\ UNCHANGED <<slice, get, resetting, size, cnt, shooter, shot, clean, history, calls>>

-----------------------------------------------------------------------------
Camera   == \E c \in Chans : Encode(c)
TakeRest == TakeCounts \/ TakeStartsMain \/ TakeStartsThumb
Thread ==
  \/ MapBuffer \/ SetUpSlices \/ WarmUpMain \/ WarmUpResetMain \/ WarmUpThumb \/ ClearThumb
  \/ Head \/ WaitPhoto \/ WaitFrame \/ SendSlice \/ SliceFails \/ GiveSlice \/ GiveWithThumb
  \/ GiveWithoutThumb \/ GiveSliceWithThumb \/ ThumbTimesOut \/ StopLateThumb
  \/ Release \/ Count \/ Last \/ StopMain \/ EmptyMain \/ StopThumb
SetRest ==
  \/ ResetMarks \/ ResetUnbinds \/ ResetSizes \/ ResetBinds \/ ResetEnds
  \/ DeInitStops \/ DeInitFrees

Next ==
  \/ Camera \/ TakeRest \/ Thread \/ SetRest
  \/ \E n \in Counts : TakeLooks(n)
  \/ PhotoInit \/ ResetLooks \/ DeInitBegins

Spec == Init /\ [][Next]_vars
\* Every thread runs on, the camera delivers pictures, and an encoder that
\* takes pictures gets one; what the application asks for is its choice.
FairSpec ==
  /\ Spec
  /\ WF_vars(Thread) /\ WF_vars(TakeRest) /\ WF_vars(SetRest)
  /\ \A c \in Chans : WF_vars(Encode(c))

-----------------------------------------------------------------------------
(* Properties.                                                             *)

Places == {"off", "map", "warm", "warmed", "warmThumb", "clearThumb", "head", "wait", "send",
           "given", "thumb", "late", "release", "count", "last", "stopMain", "emptyMain", "stopThumb", "done"}
Picture == [shot : 0 .. MaxShots, size : 0 .. 1]

\* The variables have their types.
TypeOK ==
  /\ up \in BOOLEAN /\ slice \in BOOLEAN /\ get \in BOOLEAN /\ resetting \in BOOLEAN /\ bound \in BOOLEAN
  /\ cnt \in Nat /\ size \in 0 .. 1
  /\ recv \in [Chans -> Nat]
  /\ buf \in [Chans -> Picture \cup {None}]
  /\ thr \in [pc : Places, piece : 1 .. Slices, thumb : BOOLEAN]
  /\ shooter \in [pc : {"idle", "count", "main", "thumb"}, want : Counts \cup {0}]
  /\ set \in {"idle", "stop", "join"} \cup Resets
  /\ shot \in 0 .. MaxShots /\ clean \in BOOLEAN /\ crossed \in BOOLEAN /\ late \in BOOLEAN

\* Pieces of the current photo that the main encoder has been asked for and
\* that u32PhotoCnt still counts: whole photos, or the slices so far.
InHand ==
  IF slice
  THEN CASE thr.pc = "send" -> thr.piece - 1
         [] thr.pc \in {"given", "thumb", "late", "release"} \/ (thr.pc = "clearThumb" /\ thr.thumb) -> thr.piece
         [] thr.pc = "count" -> Slices
         [] OTHER -> 0
  ELSE (IF buf["main"] # None THEN 1 ELSE 0) + (IF thr.pc = "count" THEN 1 ELSE 0)
Pieces == IF slice THEN Slices ELSE 1

\* Every picture the main encoder still owes, and those in hand, are counted
\* in u32PhotoCnt, whatever the interleaving: no photo is handed over that no
\* TakePhoto asked for, and the unsigned counter never goes below zero.
PicturesCounted == up => recv["main"] + InHand <= cnt * Pieces

\* A thumbnail goes with a photo of its own shot, though the two encoders run
\* on their own, thumbnails come late and TakePhoto starts one after the other.
\* Exempt are a shot begun while the thread ends the one before it, and photos in
\* slices once a thumbnail came between SliceProc's time-out and its stop of the
\* encoder: the code leaves it there, and each goes with the shot after.
ThumbOfShot ==
  (clean /\ ~late /\ last.photo # None /\ last.thumb # None) =>
    (last.photo.shot = shot => last.thumb.shot = shot)

\* The photos of a shot are of one size: a reset that changes the encoder waits
\* for the shot to end, and a shot that comes in its midst is not taken.  Exempt
\* is a shot of which TakePhoto and Reset each made their unlocked tests before
\* the other had set what it tests: the code then does both at once.
OneSizePerShot == ~crossed => \A a, b \in sizes : a = b

\* While the thread exists the handle it works with does, in particular when
\* it calls back.
HandleAlive == thr.pc # "off" => up

\* A shot accepted while the thread waits and nothing is being reset ends: all
\* its photos are handed over and the next shot can be taken, though a start of
\* the thumbnail's encoder may fail.  Exempt, besides a DeInit, is the shot
\* whose main encoder does not start, or not before SliceProc uses it, or one of
\* whose slices fails, which ends the thread.
ShotEnds == (clean /\ cnt > 0) ~> (cnt = 0 \/ ~clean \/ ~up \/ set \in {"stop", "join"})

=============================================================================
