------------------------------ MODULE MuxerFile ------------------------------
(***************************************************************************)
(* The files of one muxer stream (src/src/muxer/rkadk_muxer.c): what the   *)
(* muxer thread does with each cell it pops, against the application's     *)
(* Start, Stop and ManualSplit, which set flags of the same handle without *)
(* a lock.  The queue the cells come from is in module MuxerQueue.  The    *)
(* unit of time is the frame period (1000000 / frame_rate_num us).         *)
(* Pre-recording is off (u32PreRecTimeSec = 0) and so is the file cache.   *)
(***************************************************************************)
EXTENDS Integers

CONSTANTS
  RecTypes,    \* the record types a stream may be created with
  Fps,         \* frame_rate_num, by which LAPSE divides time stamps
  Duration,    \* "duration" in frame periods
  SplitDurs,   \* durations a manual split may ask for, in frame periods
  Wrap,        \* u32Duration * 1000000 is an unsigned: the modulus, in periods
  MaxClock,    \* bound: time stamp of the last frame, and of retries
  NoCell

ASSUME FileAssumption ==
  /\ RecTypes \subseteq {"NORMAL", "LAPSE", "AOV_LAPSE"}
  /\ Fps \in Nat \ {0} /\ Duration \in Nat \ {0} /\ SplitDurs \subseteq Nat \ {0}
  /\ Wrap \in Nat \ {0} /\ MaxClock \in Nat

VARIABLES
  enRecType,
  bEnableStream, bEnableSplit, bSplitRecord, splitDur,
  bMuxering, startTime, lapseTimeStamp, bIOError,
  cell,         \* the popped cell: [video, key, pts], or NoCell
  pc,           \* where the muxer thread is in RKADK_MUXER_Proc
  why,          \* whom RKADK_MUXER_Close returns to
  apc,          \* where the application's thread is
  clock,        \* time stamp of the newest frame
  ev,           \* the last event reported
  head,         \* history: the first frame in the open file: "none", "key" or "other"
  fileSplit,    \* history: the open file was begun as a manual-split file
  lastPts       \* history: last video time stamp written to the open file

flagVars == <<bEnableStream, bEnableSplit, bSplitRecord, splitDur>>
fileVars == <<bMuxering, startTime, lapseTimeStamp, bIOError>>
histVars == <<head, fileSplit, lastPts>>
vars == <<enRecType, flagVars, fileVars, cell, pc, why, apc, clock, ev, histVars>>

Cell == [video : BOOLEAN, key : BOOLEAN, pts : Nat]

Init ==
  /\ enRecType \in RecTypes
  /\ bEnableStream = FALSE /\ bEnableSplit = FALSE /\ bSplitRecord = FALSE
  /\ splitDur = 0
  /\ bMuxering = FALSE /\ startTime = 0 /\ lapseTimeStamp = 0 /\ bIOError = FALSE
  /\ cell = NoCell /\ pc = "pop" /\ why = "exit" /\ apc = "idle"
  /\ clock = 0 /\ ev = "none"
  /\ head = "none" /\ fileSplit = FALSE /\ lastPts = 0

-----------------------------------------------------------------------------
(* Seeded faults: wrong forms of definitions below.  No specification uses *)
(* them; each shows that some property can fail.                           *)

\* the duration of an earlier split stays in force
LimitOfLastSplit == ((IF splitDur # 0 THEN splitDur ELSE Duration) - 1) % Wrap

\* a file begins with any frame
OpenFileAnywhere ==
  /\ pc = "open" /\ ~ bMuxering
  /\ ev' = "FILE_BEGIN"
  /\ bMuxering' = TRUE
  /\ startTime' = cell.pts /\ lapseTimeStamp' = cell.pts
  /\ fileSplit' = bSplitRecord
  /\ pc' = "write"
  /\ UNCHANGED <<enRecType, flagVars, bIOError, cell, why, apc, clock, head,
                 lastPts>>

\* the time stamp of the first frame is not kept
OpenFileKeepsLapse ==
  /\ pc = "open" /\ ~ bMuxering /\ cell.key
  /\ ev' = "FILE_BEGIN"
  /\ bMuxering' = TRUE
  /\ startTime' = cell.pts
  /\ fileSplit' = bSplitRecord
  /\ pc' = "write"
  /\ UNCHANGED <<enRecType, flagVars, lapseTimeStamp, bIOError, cell, why, apc,
                 clock, head, lastPts>>

-----------------------------------------------------------------------------
(* The muxer thread: RKADK_MUXER_Proc                                      *)

\* The next cell.  Video advances the clock; key frames come when the encoder
\* makes them; audio exists in NORMAL recordings and carries no key frame.  A
\* LAPSE stream delivers one frame in Fps frame periods.
Pop(video, key) ==
  /\ pc = "pop"
  /\ IF video THEN clock < MaxClock ELSE ~ key /\ clock > 0 /\ enRecType = "NORMAL"
  /\ clock' = IF video THEN clock + 1 ELSE clock
  /\ cell' = [video |-> video, key |-> key,
              pts |-> IF enRecType = "LAPSE" THEN clock' * Fps ELSE clock']
  /\ pc' = "look"
  /\ UNCHANGED <<enRecType, flagVars, fileVars, why, apc, ev, histVars>>

\* The time stamp the file will see, recomputed on every look at the cell.
LookPts ==
  CASE enRecType = "LAPSE" -> cell.pts \div Fps
    [] enRecType = "AOV_LAPSE" /\ startTime # 0 /\ cell.video -> lapseTimeStamp + 1
    [] OTHER -> cell.pts

\* A stopped stream's cells are dropped.
LookStopped ==
  /\ pc = "look" /\ ~ bEnableStream
  /\ pc' = "free"
  /\ UNCHANGED <<enRecType, flagVars, fileVars, cell, why, apc, clock, ev, histVars>>

LookEnabled ==
  /\ pc = "look" /\ bEnableStream
  /\ cell' = [cell EXCEPT !.pts = LookPts]
  /\ lapseTimeStamp' =
       IF enRecType = "AOV_LAPSE" /\ startTime # 0 /\ cell.video
       THEN lapseTimeStamp + 1 ELSE lapseTimeStamp
  /\ pc' = "checkend"
  /\ UNCHANGED <<enRecType, flagVars, bMuxering, startTime, bIOError, why, apc,
                 clock, ev, histVars>>

\* RKADK_MUXER_CheckEnd: the age at which a key frame ends the file.
Limit == ((IF bSplitRecord THEN splitDur ELSE Duration) - 1) % Wrap

MayEnd == cell.key /\ startTime # 0

EndNot ==
  /\ pc = "checkend"
  /\ ~ MayEnd \/ (~ bEnableSplit /\ cell.pts - startTime < Limit)
  /\ pc' = "open"
  /\ UNCHANGED <<enRecType, flagVars, fileVars, cell, why, apc, clock, ev, histVars>>

EndBySplit ==
  /\ pc = "checkend" /\ MayEnd /\ bEnableSplit
  /\ bEnableSplit' = FALSE
  /\ pc' = "close" /\ why' = "split"
  /\ UNCHANGED <<enRecType, bEnableStream, bSplitRecord, splitDur, fileVars, cell,
                 apc, clock, ev, histVars>>

EndByDuration ==
  /\ pc = "checkend" /\ MayEnd /\ ~ bEnableSplit /\ cell.pts - startTime >= Limit
  /\ pc' = "close" /\ why' = "duration"
  /\ UNCHANGED <<enRecType, flagVars, fileVars, cell, apc, clock, ev, histVars>>

\* Where RKADK_MUXER_Close returns to.
CloseReturn == CASE why = "split" -> "split" [] why = "duration" -> "open" [] OTHER -> "pop"

\* RKADK_MUXER_Close: the file is finished and the event reported ...
CloseNothing ==
  /\ pc = "close" /\ ~ bMuxering
  /\ pc' = CloseReturn
  /\ UNCHANGED <<enRecType, flagVars, fileVars, cell, why, apc, clock, ev, histVars>>

CloseFile ==
  /\ pc = "close" /\ bMuxering
  /\ ev' = IF bSplitRecord THEN "MANUAL_SPLIT_END" ELSE "FILE_END"
  /\ bSplitRecord' = FALSE
  /\ pc' = "reset"
  /\ UNCHANGED <<enRecType, bEnableStream, bEnableSplit, splitDur, fileVars, cell,
                 why, apc, clock, histVars>>

\* ... and the handle's fields are reset.
CloseReset ==
  /\ pc = "reset"
  /\ bMuxering' = FALSE /\ startTime' = 0 /\ lapseTimeStamp' = 0 /\ bIOError' = FALSE
  /\ bEnableSplit' = FALSE
  /\ head' = "none" /\ fileSplit' = FALSE /\ lastPts' = 0
  /\ pc' = CloseReturn
  /\ UNCHANGED <<enRecType, bEnableStream, bSplitRecord, splitDur, cell, why, apc,
                 clock, ev>>

\* The last statement of the split branch of RKADK_MUXER_CheckEnd.
SplitRecord ==
  /\ pc = "split"
  /\ bSplitRecord' = TRUE
  /\ pc' = "open"
  /\ UNCHANGED <<enRecType, bEnableStream, bEnableSplit, splitDur, fileVars, cell,
                 why, apc, clock, ev, head, fileSplit, lastPts>>

OpenAlready ==
  /\ pc = "open" /\ bMuxering
  /\ pc' = "write"
  /\ UNCHANGED <<enRecType, flagVars, fileVars, cell, why, apc, clock, ev, histVars>>

\* A file begins with a key frame; until then frames are dropped (and an IDR
\* is requested).
OpenSkips ==
  /\ pc = "open" /\ ~ bMuxering /\ ~ cell.key
  /\ pc' = "free"
  /\ UNCHANGED <<enRecType, flagVars, fileVars, cell, why, apc, clock, ev, histVars>>

OpenFails ==
  /\ pc = "open" /\ ~ bMuxering /\ cell.key
  /\ ev' \in {"ERR_GET_FILENAME", "ERR_CREATE_FILE_FAIL"}
  /\ pc' = "free"
  /\ UNCHANGED <<enRecType, flagVars, fileVars, cell, why, apc, clock, histVars>>

OpenFile ==
  /\ pc = "open" /\ ~ bMuxering /\ cell.key
  /\ ev' = "FILE_BEGIN"
  /\ bMuxering' = TRUE
  /\ startTime' = cell.pts /\ lapseTimeStamp' = cell.pts
  /\ fileSplit' = bSplitRecord
  /\ pc' = "write"
  /\ UNCHANGED <<enRecType, flagVars, bIOError, cell, why, apc, clock, head,
                 lastPts>>

WriteFrame ==
  /\ pc = "write"
  /\ head' = IF head # "none" THEN head ELSE IF cell.key THEN "key" ELSE "other"
  /\ lastPts' = IF cell.video THEN cell.pts ELSE lastPts
  /\ pc' = "free"
  /\ UNCHANGED <<enRecType, flagVars, fileVars, cell, why, apc, clock, ev,
                 fileSplit>>

\* A failed write goes round the loop with the same cell.  (Bound: each retry
\* of an AOV_LAPSE cell advances lapseTimeStamp.)
WriteFails ==
  /\ pc = "write" /\ lapseTimeStamp <= MaxClock
  /\ ev' = "ERR_WRITE_FILE_FAIL"
  /\ bIOError' = TRUE
  /\ pc' = "look"
  /\ UNCHANGED <<enRecType, flagVars, bMuxering, startTime, lapseTimeStamp, cell,
                 why, apc, clock, histVars>>

CellFree ==
  /\ pc = "free"
  /\ cell' = NoCell
  /\ pc' = "pop"
  /\ UNCHANGED <<enRecType, flagVars, fileVars, why, apc, clock, ev, histVars>>

\* The queue is empty: a stopped stream's file is closed.
CheckExit ==
  /\ pc = "pop" /\ ~ bEnableStream
  /\ pc' = "close" /\ why' = "exit"
  /\ UNCHANGED <<enRecType, flagVars, fileVars, cell, apc, clock, ev, histVars>>

-----------------------------------------------------------------------------
(* The application                                                         *)

Start ==
  /\ apc = "idle"
  /\ bEnableStream' = TRUE
  /\ ev' = "STREAM_START"
  /\ UNCHANGED <<enRecType, bEnableSplit, bSplitRecord, splitDur, fileVars, cell,
                 pc, why, apc, clock, head, fileSplit, lastPts>>

Stop ==
  /\ apc = "idle"
  /\ bEnableStream' = FALSE
  /\ apc' = "stop"
  /\ UNCHANGED <<enRecType, bEnableSplit, bSplitRecord, splitDur, fileVars, cell,
                 pc, why, clock, ev, histVars>>

StopSplit ==
  /\ apc = "stop"
  /\ bEnableSplit' = FALSE /\ bSplitRecord' = FALSE
  /\ ev' = "STREAM_STOP"
  /\ apc' = "idle"
  /\ UNCHANGED <<enRecType, bEnableStream, splitDur, fileVars, cell, pc, why,
                 clock, head, fileSplit, lastPts>>

ManualSplit ==
  /\ apc = "idle" /\ bEnableStream
  /\ bEnableSplit' = TRUE
  /\ apc' = "split"
  /\ UNCHANGED <<enRecType, bEnableStream, bSplitRecord, splitDur, fileVars, cell,
                 pc, why, clock, ev, head, fileSplit, lastPts>>

SplitDuration(d) ==
  /\ apc = "split"
  /\ splitDur' = d
  /\ apc' = "idle"
  /\ UNCHANGED <<enRecType, bEnableStream, bEnableSplit, bSplitRecord, fileVars,
                 cell, pc, why, clock, ev, histVars>>

-----------------------------------------------------------------------------
Muxer ==
  \/ \E video, key \in BOOLEAN : Pop(video, key)
  \/ LookStopped \/ LookEnabled
  \/ EndNot \/ EndBySplit \/ EndByDuration
  \/ CloseNothing \/ CloseFile \/ CloseReset \/ SplitRecord
  \/ OpenAlready \/ OpenSkips \/ OpenFails \/ OpenFile
  \/ WriteFrame \/ WriteFails \/ CellFree \/ CheckExit

Application ==
  \/ Start \/ Stop \/ StopSplit \/ ManualSplit
  \/ \E d \in SplitDurs : SplitDuration(d)

Next == Muxer \/ Application

Spec == Init /\ [][Next]_vars

-----------------------------------------------------------------------------
(* What must hold                                                          *)

\* Every variable keeps its type.
TypeOK ==
  /\ enRecType \in RecTypes
  /\ bEnableStream \in BOOLEAN /\ bEnableSplit \in BOOLEAN /\ bSplitRecord \in BOOLEAN
  /\ splitDur \in SplitDurs \cup {0}
  /\ bMuxering \in BOOLEAN /\ startTime \in Nat /\ lapseTimeStamp \in Nat
  /\ bIOError \in BOOLEAN
  /\ cell \in Cell \cup {NoCell}
  /\ pc \in {"pop", "look", "checkend", "close", "reset", "split", "open", "write", "free"}
  /\ why \in {"split", "duration", "exit"}
  /\ apc \in {"idle", "stop", "split"}
  /\ clock \in 0 .. MaxClock
  /\ head \in {"none", "key", "other"}
  /\ fileSplit \in BOOLEAN
  /\ lastPts \in Nat

\* The stream implements FileEvents: files begin and end in turn, each with its
\* event, and frames are written only in between, a key frame first.
Events == INSTANCE FileEvents WITH
  file   <- IF ~ bMuxering \/ pc = "reset" THEN "closed"
            ELSE IF head = "none" THEN "empty" ELSE head,
  failed <- bMuxering /\ pc # "reset" /\ bIOError
FileEventsHold == Events!FileSpec

\* A normal file is never ended before its full duration, except by Stop or by
\* a manual split, whatever splits and durations were asked for before.
NormalFileIsFull ==
  (pc = "close" /\ why = "duration" /\ bMuxering /\ ~ fileSplit)
    => cell.pts - startTime >= Duration - 1

\* Time stamps of the video frames of one file do not run backwards, retries of
\* failed writes included; LAPSE excepted, where a retry divides the time stamp
\* of its cell once more.
PtsInOrder ==
  [][enRecType # "LAPSE" /\ bMuxering' => lastPts' >= lastPts]_vars

=============================================================================
