--------------------------- MODULE MuxerFile_proof ---------------------------
(***************************************************************************)
(* Proofs about MuxerFile, for any durations, frame rates and bounds: the  *)
(* files of a stream behave as FileEvents says, a file is ended by its     *)
(* duration when it is full, and times do not run backwards in it.         *)
(***************************************************************************)
EXTENDS MuxerFile, TLAPS

\* A cell is in the muxer thread's hand.
Holding == \/ pc \in {"look", "checkend", "split", "open", "write", "free"}
           \/ pc \in {"close", "reset"} /\ why # "exit"

\* Where the thread is when a file is open, and what the open file has in it:
\* one without a frame is about to get the key frame it was begun for, unless
\* writing that frame has failed.
Places ==
  /\ Holding => cell \in Cell
  /\ pc \in {"reset", "write"} => bMuxering
  /\ pc = "split" => ~ bMuxering
  /\ ~ bMuxering => head = "none" /\ ~ bIOError
  /\ bMuxering /\ head = "none" /\ ~ bIOError => pc = "write" /\ cell.key

\* A stream that records a manual split has begun its file as one.
Splits == bSplitRecord /\ bMuxering => fileSplit

\* The time of the last video frame against the clock of a NORMAL recording
\* and against the thread's own time of an AOV_LAPSE recording.
Times ==
  /\ ~ bMuxering => lastPts = 0
  /\ enRecType = "NORMAL" => /\ lastPts <= clock
                             /\ Holding /\ cell.video => cell.pts = clock
  /\ enRecType = "AOV_LAPSE" =>
       /\ lastPts <= lapseTimeStamp
       /\ bMuxering => startTime # 0
       /\ Holding => cell.video /\ cell.pts # 0
       /\ pc \in {"checkend", "open", "write"} /\ bMuxering => cell.pts = lapseTimeStamp

IInv == TypeOK /\ Places /\ Splits /\ Times

-----------------------------------------------------------------------------
(* The invariant                                                           *)

LEMMA InitHolds == Init => IInv
<1> SUFFICES ASSUME Init PROVE IInv
  OBVIOUS
<1> USE FileAssumption DEF Init
<1>1. /\ bEnableStream \in BOOLEAN /\ bEnableSplit \in BOOLEAN /\ bSplitRecord \in BOOLEAN
      /\ bMuxering \in BOOLEAN /\ bIOError \in BOOLEAN /\ fileSplit \in BOOLEAN
  BY Zenon
<1>2. TypeOK
  BY <1>1 DEF TypeOK
<1>3. Places /\ Splits /\ Times
  BY DEF Places, Splits, Times, Holding
<1> QED
  BY <1>2, <1>3 DEF IInv

LEMMA NextHolds == IInv /\ [Next]_vars => IInv'
<1> SUFFICES ASSUME IInv, [Next]_vars PROVE IInv'
  OBVIOUS
<1> USE FileAssumption DEF IInv, TypeOK, Places, Splits, Times, Holding, Cell, flagVars, fileVars, histVars
<1>1. CASE \E video, key \in BOOLEAN : Pop(video, key)
  <2>1. PICK video \in BOOLEAN, key \in BOOLEAN : Pop(video, key)
    BY <1>1
  <2> QED
    BY <2>1 DEF Pop
<1>2. CASE LookStopped
  BY <1>2 DEF LookStopped
<1>3. CASE LookEnabled
  BY <1>3 DEF LookEnabled, LookPts
<1>4. CASE EndNot
  BY <1>4 DEF EndNot
<1>5. CASE EndBySplit
  <2>1. bEnableSplit' \in BOOLEAN
    BY <1>5, Zenon DEF EndBySplit
  <2>2. TypeOK'
    BY <1>5, <2>1 DEF EndBySplit, MayEnd
  <2>3. Places' /\ Splits' /\ Times'
    BY <1>5 DEF EndBySplit, MayEnd
  <2> QED
    BY <2>2, <2>3
<1>6. CASE EndByDuration
  BY <1>6 DEF EndByDuration, MayEnd
<1>7. CASE CloseNothing
  BY <1>7 DEF CloseNothing, CloseReturn
<1>8. CASE CloseFile
  <2>1. bSplitRecord' \in BOOLEAN
    BY <1>8, Zenon DEF CloseFile
  <2>2. TypeOK'
    BY <1>8, <2>1 DEF CloseFile
  <2>3. Places' /\ Splits' /\ Times'
    BY <1>8 DEF CloseFile
  <2> QED
    BY <2>2, <2>3
<1>9. CASE CloseReset
  <2>1. bMuxering' \in BOOLEAN /\ bIOError' \in BOOLEAN /\ bEnableSplit' \in BOOLEAN /\ fileSplit' \in BOOLEAN
    BY <1>9, Zenon DEF CloseReset
  <2>2. TypeOK'
    BY <1>9, <2>1 DEF CloseReset, CloseReturn
  <2>3. Places' /\ Splits' /\ Times'
    BY <1>9 DEF CloseReset, CloseReturn
  <2> QED
    BY <2>2, <2>3
<1>10. CASE SplitRecord
  BY <1>10 DEF SplitRecord
<1>11. CASE OpenAlready
  BY <1>11 DEF OpenAlready
<1>12. CASE OpenSkips
  BY <1>12 DEF OpenSkips
<1>13. CASE OpenFails
  BY <1>13 DEF OpenFails
<1>14. CASE OpenFile
  BY <1>14 DEF OpenFile
<1>15. CASE WriteFrame
  BY <1>15 DEF WriteFrame
<1>16. CASE WriteFails
  BY <1>16 DEF WriteFails
<1>17. CASE CellFree
  BY <1>17 DEF CellFree
<1>18. CASE CheckExit
  BY <1>18 DEF CheckExit
<1>19. CASE Start
  BY <1>19 DEF Start
<1>20. CASE Stop
  <2>1. bEnableStream' \in BOOLEAN
    BY <1>20, Zenon DEF Stop
  <2>2. TypeOK'
    BY <1>20, <2>1 DEF Stop
  <2>3. Places' /\ Splits' /\ Times'
    BY <1>20 DEF Stop
  <2> QED
    BY <2>2, <2>3
<1>21. CASE StopSplit
  <2>1. bEnableSplit' \in BOOLEAN /\ bSplitRecord' \in BOOLEAN
    BY <1>21, Zenon DEF StopSplit
  <2>2. TypeOK'
    BY <1>21, <2>1 DEF StopSplit
  <2>3. Places' /\ Splits' /\ Times'
    BY <1>21 DEF StopSplit
  <2> QED
    BY <2>2, <2>3
<1>22. CASE ManualSplit
  BY <1>22 DEF ManualSplit
<1>23. CASE \E d \in SplitDurs : SplitDuration(d)
  BY <1>23 DEF SplitDuration
<1>24. CASE UNCHANGED vars
  BY <1>24 DEF vars
<1> QED
  BY <1>1, <1>2, <1>3, <1>4, <1>5, <1>6, <1>7, <1>8, <1>9, <1>10, <1>11, <1>12, <1>13, <1>14, <1>15, <1>16, <1>17, <1>18, <1>19, <1>20, <1>21, <1>22, <1>23, <1>24 DEF Next, Muxer, Application

\* TypeOK and what ties the open file to the thread's place, the split flags
\* and the clocks hold in every state.
THEOREM Invariance == Spec => []IInv
BY InitHolds, NextHolds, PTL DEF Spec

-----------------------------------------------------------------------------
(* What a stream promises                                                  *)

File == IF ~ bMuxering \/ pc = "reset" THEN "closed" ELSE IF head = "none" THEN "empty" ELSE head
Failed == bMuxering /\ pc # "reset" /\ bIOError

\* The actions of FileEvents, of the file and the event the application sees.
LEMMA EventSteps ==
  /\ File = "closed" /\ File' = "empty" /\ Failed' = FALSE /\ ev' = "FILE_BEGIN"
       => Events!Begin
  /\ File = "empty" /\ File' \in (IF Failed THEN {"key", "other"} ELSE {"key"})
     /\ Failed' = Failed /\ ev' = ev => Events!WriteFirst
  /\ File # "closed" /\ Failed' = TRUE /\ ev' = "ERR_WRITE_FILE_FAIL" /\ File' = File
       => Events!WriteError
  /\ File # "closed" /\ File' = "closed" /\ Failed' = FALSE
     /\ ev' \in {"FILE_END", "MANUAL_SPLIT_END"} => Events!End
  /\ ev' \in {"STREAM_START", "STREAM_STOP", "ERR_GET_FILENAME", "ERR_CREATE_FILE_FAIL"}
     /\ File' = File /\ Failed' = Failed => Events!Announce
BY DEF File, Failed, Events!Begin, Events!WriteFirst, Events!WriteError, Events!End,
       Events!Announce, Events!EndEvents, Events!OtherEvents

\* A step of the stream is a step of FileEvents, or changes nothing in it.
LEMMA StepHolds ==
  IInv /\ [Next]_vars => Events!FileNext \/ (File' = File /\ Failed' = Failed /\ ev' = ev)
<1> SUFFICES ASSUME IInv, [Next]_vars
             PROVE  Events!FileNext \/ (File' = File /\ Failed' = Failed /\ ev' = ev)
  OBVIOUS
<1> USE DEF Events!FileNext, flagVars, fileVars, histVars
<1>1. CASE OpenFile
  <2>1. Events!Begin
    BY <1>1, EventSteps DEF OpenFile, IInv, Places, File, Failed
  <2> QED
    BY <2>1
<1>2. CASE WriteFrame /\ head = "none"
  <2>1. Events!WriteFirst
    BY <1>2, EventSteps DEF WriteFrame, IInv, Places, File, Failed
  <2> QED
    BY <2>1
<1>3. CASE WriteFrame /\ head # "none"
  BY <1>3 DEF WriteFrame, IInv, Places, File, Failed
<1>4. CASE WriteFails
  <2>1. Events!WriteError
    BY <1>4, EventSteps DEF WriteFails, IInv, TypeOK, Places, File, Failed
  <2> QED
    BY <2>1
<1>5. CASE CloseFile
  <2>1. Events!End
    BY <1>5, EventSteps DEF CloseFile, IInv, TypeOK, File, Failed
  <2> QED
    BY <2>1
<1>6. CASE OpenFails \/ Start \/ StopSplit
  <2>1. Events!Announce
    BY <1>6, EventSteps DEF OpenFails, Start, StopSplit, File, Failed
  <2> QED
    BY <2>1
<1>7. CASE CloseReset
  BY <1>7 DEF CloseReset, CloseReturn, File, Failed
<1>8. CASE \E video, key \in BOOLEAN : Pop(video, key)
  BY <1>8 DEF Pop, File, Failed
<1>9. CASE \E d \in SplitDurs : SplitDuration(d)
  BY <1>9 DEF SplitDuration, File, Failed
<1>10. CASE Stop \/ ManualSplit \/ CellFree \/ CheckExit
  BY <1>10 DEF Stop, ManualSplit, CellFree, CheckExit, File, Failed
<1>11. CASE LookStopped \/ LookEnabled \/ EndNot \/ EndBySplit \/ EndByDuration
  BY <1>11 DEF LookStopped, LookEnabled, EndNot, EndBySplit, EndByDuration, File, Failed
<1>12. CASE CloseNothing \/ SplitRecord \/ OpenAlready \/ OpenSkips
  BY <1>12 DEF CloseNothing, CloseReturn, SplitRecord, OpenAlready, OpenSkips, File, Failed
<1>13. CASE UNCHANGED vars
  BY <1>13 DEF vars, File, Failed
<1> QED
  BY <1>1, <1>2, <1>3, <1>4, <1>5, <1>6, <1>7, <1>8, <1>9, <1>10, <1>11, <1>12, <1>13
     DEF Next, Muxer, Application

\* A stream of RKADK_MUXER implements FileEvents: files are begun and ended in
\* turn, each with its event, and get frames in between, a key frame first.
THEOREM FilesAreAnnounced == Spec => FileEventsHold
<1>1. Init => Events!FileInit
  BY DEF Init, Events!FileInit
<1>2. IInv /\ [Next]_vars => [Events!FileNext]_<<File, Failed, ev>>
  BY StepHolds
<1> QED
  BY <1>1, <1>2, Invariance, PTL DEF Spec, FileEventsHold, Events!FileSpec, File, Failed

\* A file that RKADK_MUXER_CheckEnd ends by its duration has that duration, unless
\* it was begun by a manual split: provided the duration fits the 32 bits in
\* which the code multiplies it.
THEOREM DurationIsKept ==
  ASSUME Duration <= Wrap
  PROVE  Spec => []NormalFileIsFull
<1>1. Init => NormalFileIsFull
  BY DEF Init, NormalFileIsFull
<1>2. ASSUME IInv, NormalFileIsFull, [Next]_vars
      PROVE  NormalFileIsFull'
  <2> SUFFICES ASSUME (pc = "close" /\ why = "duration" /\ bMuxering /\ ~ fileSplit)'
               PROVE  cell'.pts - startTime' >= Duration - 1
    BY DEF NormalFileIsFull
  <2>1. CASE EndByDuration
    <3>1. ~ bSplitRecord
      BY <2>1, <1>2 DEF EndByDuration, IInv, Splits, fileVars, histVars
    <3>2. Limit = Duration - 1
      BY <3>1, FileAssumption DEF Limit
    <3> QED
      BY <2>1, <3>2 DEF EndByDuration, fileVars
  <2>2. CASE /\ pc = "close" /\ why = "duration" /\ bMuxering /\ ~ fileSplit
             /\ cell' = cell /\ startTime' = startTime
    BY <1>2, <2>2 DEF NormalFileIsFull
  <2> USE DEF flagVars, fileVars, histVars
  <2>3. CASE LookStopped \/ LookEnabled \/ EndNot \/ EndBySplit \/ CheckExit \/ CellFree
    BY <2>3 DEF LookStopped, LookEnabled, EndNot, EndBySplit, CheckExit, CellFree
  <2>4. CASE CloseNothing \/ CloseFile \/ CloseReset \/ SplitRecord
    BY <2>4 DEF CloseNothing, CloseReturn, CloseFile, CloseReset, SplitRecord
  <2>5. CASE OpenAlready \/ OpenSkips \/ OpenFails \/ OpenFile \/ WriteFrame \/ WriteFails
    BY <2>5 DEF OpenAlready, OpenSkips, OpenFails, OpenFile, WriteFrame, WriteFails
  <2>6. CASE \E video, key \in BOOLEAN : Pop(video, key)
    BY <2>6 DEF Pop
  <2>7. CASE Application \/ UNCHANGED vars
    BY <2>2, <2>7 DEF Application, Start, Stop, StopSplit, ManualSplit, SplitDuration, vars
  <2> QED
    BY <1>2, <2>1, <2>3, <2>4, <2>5, <2>6, <2>7 DEF Next, Muxer
<1> QED
  BY <1>1, <1>2, Invariance, PTL DEF Spec

\* The time stamps of a file's video frames do not run backwards, retries of
\* failed writes included.
THEOREM TimeGoesOn == Spec => PtsInOrder
<1>1. IInv /\ [Next]_vars => [enRecType # "LAPSE" /\ bMuxering' => lastPts' >= lastPts]_vars
  <2> SUFFICES ASSUME IInv, Next, enRecType # "LAPSE", bMuxering'
               PROVE  lastPts' >= lastPts
    OBVIOUS
  <2>1. CASE WriteFrame
    BY <2>1, FileAssumption DEF WriteFrame, IInv, TypeOK, Places, Times, Holding, Cell, fileVars
  <2>2. lastPts \in Nat
    BY DEF IInv, TypeOK
  <2> USE DEF flagVars, fileVars, histVars
  <2>3. CASE LookStopped
    BY <2>3, <2>2 DEF LookStopped
  <2>4. CASE LookEnabled
    BY <2>4, <2>2 DEF LookEnabled
  <2>5. CASE EndNot
    BY <2>5, <2>2 DEF EndNot
  <2>6. CASE EndBySplit
    BY <2>6, <2>2 DEF EndBySplit
  <2>7. CASE EndByDuration
    BY <2>7, <2>2 DEF EndByDuration
  <2>8. CASE CheckExit
    BY <2>8, <2>2 DEF CheckExit
  <2>9. CASE CloseNothing
    BY <2>9, <2>2 DEF CloseNothing
  <2>10. CASE CloseFile
    BY <2>10, <2>2 DEF CloseFile
  <2>11. CASE CloseReset
    BY <2>11, <2>2 DEF CloseReset
  <2>12. CASE SplitRecord
    BY <2>12, <2>2 DEF SplitRecord
  <2>13. CASE OpenAlready
    BY <2>13, <2>2 DEF OpenAlready
  <2>14. CASE OpenSkips
    BY <2>14, <2>2 DEF OpenSkips
  <2>15. CASE OpenFails
    BY <2>15, <2>2 DEF OpenFails
  <2>16. CASE OpenFile
    BY <2>16, <2>2 DEF OpenFile
  <2>17. CASE WriteFails
    BY <2>17, <2>2 DEF WriteFails
  <2>18. CASE CellFree
    BY <2>18, <2>2 DEF CellFree
  <2>19. CASE \E video, key \in BOOLEAN : Pop(video, key)
    BY <2>19, <2>2 DEF Pop
  <2>20. CASE Start
    BY <2>20, <2>2 DEF Start
  <2>21. CASE Stop
    BY <2>21, <2>2 DEF Stop
  <2>22. CASE StopSplit
    BY <2>22, <2>2 DEF StopSplit
  <2>23. CASE ManualSplit
    BY <2>23, <2>2 DEF ManualSplit
  <2>24. CASE \E d \in SplitDurs : SplitDuration(d)
    BY <2>24, <2>2 DEF SplitDuration
  <2> QED
    BY <2>1, <2>3, <2>4, <2>5, <2>6, <2>7, <2>8, <2>9, <2>10, <2>11, <2>12, <2>13, <2>14,
       <2>15, <2>16, <2>17, <2>18, <2>19, <2>20, <2>21, <2>22, <2>23, <2>24
       DEF Next, Muxer, Application
<1> QED
  BY <1>1, Invariance, PTL DEF Spec, PtsInOrder

=============================================================================
