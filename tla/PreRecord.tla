------------------------------ MODULE PreRecord ------------------------------
(***************************************************************************)
(* Pre-recording of one muxer stream (src/src/muxer/rkadk_muxer.c): the    *)
(* callbacks of the picture and of the sound keep their last frames in two *)
(* lists (stPreRecParam) beside stProcList, and the muxer thread begins a  *)
(* file with them.  The application starts, stops, splits, resets the type *)
(* of recording and disables the stream.                                   *)
(*                                                                         *)
(* A frame is its number, which is its time stamp too; every Gop-th frame  *)
(* of the picture is a key frame.  A list is changed in one step; that two *)
(* threads change it at the same time without the mutex they should share  *)
(* is what the history "apart" tells.  Signals are in module MuxerQueue,   *)
(* failing files in module MuxerFile.  The stream is configured for        *)
(* pre-recording (u32PreRecTimeSec > 0).                                   *)
(***************************************************************************)
EXTENDS Integers, Sequences, FiniteSets

CONSTANTS
  Gop,        \* pictures from a key frame to the next
  Rate,       \* frame_rate_num: frames of a second
  PreTime,    \* pre_record_time, in seconds
  FileLen, SplitLen, \* duration and u32SplitDurationSec, in frames
  PoolSize,   \* cells of each free list
  Modes,      \* enPreRecordMode the stream is enabled with
  MaxT,       \* bound: frames of each kind
  MaxOps      \* bound: operations of the application

ASSUME PreRecordAssumption ==
  /\ {Gop, Rate, PreTime, FileLen, SplitLen, PoolSize} \subseteq Nat \ {0}
  /\ Modes \subseteq {"NONE", "SPLIT", "SINGLE"}
  /\ MaxT \in [{"v", "a"} -> Nat] /\ MaxT["a"] <= MaxT["v"] /\ MaxOps \in Nat

Kinds == {"v", "a"}
Times == 0 .. MaxT["v"] - 1
Types == {"NORMAL", "LAPSE"}
Cell(k, t, pool) == [k |-> k, t |-> t, pool |-> pool]
NoCell == Cell("v", -1, FALSE)
IsKey(c) == c.k = "v" /\ c.t % Gop = 0

\* GetPreRecordCacheTime: the lists hold a group of pictures more; in frames.
CacheTime == (PreTime + ((Gop + Rate - 1) \div Rate)) * Rate

VARIABLES
  h,         \* the handle: switches, record type and pre-recording mode
  procList,  \* stProcList
  preList,   \* stVList and stAList of stPreRecParam
  free,      \* cells in each free list
  ref,       \* user count of every frame's media buffer
  cb,        \* the callbacks
  next,      \* next frame of each kind
  thr,       \* the muxer thread
  exitFlag,
  app,       \* where the application is
  file,      \* history: the file being written
  apart,     \* history: no callback was under way while this file took the lists
  ops

vars == <<h, procList, preList, free, ref, cb, next, thr, exitFlag, app, file, apart, ops>>

NoFile == [last |-> [k \in Kinds |-> -1], start |-> -1, inOrder |-> TRUE, whole |-> TRUE,
           spoilt |-> FALSE, stopped |-> FALSE, late |-> FALSE]

Init ==
  /\ \E mode \in Modes :
       h = [en |-> FALSE, reseting |-> FALSE, first |-> TRUE, want |-> FALSE, split |-> FALSE,
            mux |-> FALSE, type |-> "NORMAL", mode |-> mode]
  /\ procList = <<>> /\ preList = [k \in Kinds |-> <<>>]
  /\ free = [k \in Kinds |-> PoolSize]
  /\ ref = [k \in Kinds |-> [t \in Times |-> 0]]
  /\ cb = [k \in Kinds |-> "idle"] /\ next = [k \in Kinds |-> 0]
  /\ thr = [pc |-> "pop", cell |-> NoCell, seek |-> 0] /\ exitFlag = FALSE
  /\ app = "idle" /\ file = NoFile /\ apart = TRUE /\ ops = 0

-----------------------------------------------------------------------------
(* Cells                                                                   *)

\* RKADK_MUXER_CellFree for every cell of a sequence.
CountIn(s, k, t) == Cardinality({i \in DOMAIN s : s[i].k = k /\ s[i].t = t})
Unref(s) == [k \in Kinds |-> [t \in Times |-> ref[k][t] - CountIn(s, k, t)]]
Freed(s) == [k \in Kinds |-> free[k] + Cardinality({i \in DOMAIN s : s[i].k = k /\ s[i].pool})]
PreCells(k, s) == [i \in DOMAIN s |-> Cell(k, s[i], FALSE)]

\* RKADK_MUXER_CellPush for a cell of the callbacks, whose time stamps grow.
Push(c) == procList' = Append(procList, c)

-----------------------------------------------------------------------------
(* Callbacks: RKADK_MUXER_WriteVideoFrame, RKADK_MUXER_WriteAudioFrame     *)

Arrive(k) ==
  /\ cb[k] = "idle" /\ app \notin {"leave", "disabled"} /\ next[k] < MaxT[k]
  /\ IF h.reseting
     THEN next' = [next EXCEPT ![k] = @ + 1] /\ UNCHANGED <<cb, ref>>
     ELSE /\ cb' = [cb EXCEPT ![k] = "pre"]
          /\ ref' = [ref EXCEPT ![k][next[k]] = 1]
          /\ UNCHANGED next
  /\ UNCHANGED <<h, procList, preList, free, thr, exitFlag, app, file, apart, ops>>

\* PreRecProc holds the mutex of the lists.
Taking == thr.pc \in {"release", "video", "audio"}

\* No callback is between its list and stProcList.
NoneBetween == \A k \in Kinds : cb[k] # "get"

\* Seeded fault: the newest frame is dropped instead of the oldest.
KeptOldest(s) == IF s[Len(s)] - Head(s) >= CacheTime THEN SubSeq(s, 1, Len(s) - 1) ELSE s

\* RKADK_MUXER_PreRecPush: the list loses its first frame when it is long enough.
Kept(s) == IF s[Len(s)] - Head(s) >= CacheTime THEN Tail(s) ELSE s

PreRecPush(k) ==
  /\ cb[k] = "pre" /\ ~Taking
  /\ LET t     == next[k]
         grown == Append(preList[k], t)
         kept  == IF h.type = "NORMAL" THEN Kept(grown) ELSE <<>>
         lost  == IF h.type = "NORMAL" THEN SubSeq(grown, 1, Len(grown) - Len(kept)) ELSE preList[k]
         taken == IF h.type = "NORMAL" THEN 1 ELSE 0
         dropped == IF h.en THEN 0 ELSE 1
     IN /\ preList' = [preList EXCEPT ![k] = kept]
        /\ ref' = [Unref(PreCells(k, lost)) EXCEPT ![k][t] = @ + taken - dropped]
  /\ cb' = [cb EXCEPT ![k] = IF h.en THEN "get" ELSE "idle"]
  /\ next' = [next EXCEPT ![k] = IF h.en THEN @ ELSE @ + 1]
  /\ UNCHANGED <<h, procList, free, thr, exitFlag, app, file, apart, ops>>

\* RKADK_MUXER_CellGet waits for a free cell; the callback's own count goes
\* when it returns.
CellPush(k) ==
  /\ cb[k] = "get" /\ free[k] > 0
  /\ free' = [free EXCEPT ![k] = @ - 1]
  /\ Push(Cell(k, next[k], TRUE))
  /\ cb' = [cb EXCEPT ![k] = "idle"]
  /\ next' = [next EXCEPT ![k] = @ + 1]
  /\ UNCHANGED <<h, preList, ref, thr, exitFlag, app, file, apart, ops>>

-----------------------------------------------------------------------------
(* The muxer thread: RKADK_MUXER_Proc                                      *)

CellPop ==
  /\ thr.pc = "pop" /\ procList # <<>>
  /\ thr' = [thr EXCEPT !.cell = Head(procList), !.pc = "look"]
  /\ procList' = Tail(procList)
  /\ UNCHANGED <<h, preList, free, ref, cb, next, exitFlag, app, file, apart, ops>>

Closed(x) == [x EXCEPT !.mux = FALSE, !.first = FALSE, !.want = FALSE, !.split = FALSE]

\* The list is empty: the file of a stopped stream is closed; exit_flag is
\* looked at before the next round.
CheckExit ==
  /\ thr.pc = "pop" /\ procList = <<>>
  /\ h' = IF ~h.en /\ h.mux THEN Closed(h) ELSE h
  /\ thr' = [thr EXCEPT !.pc = IF exitFlag THEN "dead" ELSE "pop"]
  /\ file' = [file EXCEPT !.stopped = @ /\ (h.en \/ ~NoneBetween)]
  /\ apart' = (apart \/ NoneBetween)
  /\ UNCHANGED <<procList, preList, free, ref, cb, next, exitFlag, app, ops>>

Limit == IF h.split THEN SplitLen ELSE FileLen

\* RKADK_MUXER_CheckEnd
CheckEnd(c) ==
  IF ~(IsKey(c) /\ h.mux) THEN h
  ELSE IF h.want THEN [Closed(h) EXCEPT !.split = TRUE]
  ELSE IF c.t - file.start >= Limit - 1 THEN Closed(h)
  ELSE h

\* RKADK_MUXER_PreRecProc: the conditions before it locks.
Recorded(x) == CASE x.mode = "SPLIT" -> x.split [] x.mode = "SINGLE" -> x.first [] OTHER -> FALSE
TakesLists(x) == x.type = "NORMAL" /\ Len(preList["v"]) >= Rate /\ Recorded(x)

Look ==
  /\ thr.pc = "look"
  /\ IF ~h.en THEN h' = h /\ thr' = [thr EXCEPT !.pc = "free"] /\ file' = file
     ELSE LET c == thr.cell
              x == CheckEnd(c)
          IN /\ h' = x
             /\ IF x.mux THEN thr' = [thr EXCEPT !.pc = "write"] /\ file' = file
                ELSE IF ~IsKey(c) THEN thr' = [thr EXCEPT !.pc = "free"] /\ file' = file
                ELSE /\ thr' = [thr EXCEPT !.pc = IF TakesLists(x) THEN "release" ELSE "begin"]
                     /\ file' = [NoFile EXCEPT !.stopped = file.stopped, !.late = file.late]
  /\ UNCHANGED <<procList, preList, free, ref, cb, next, exitFlag, app, apart, ops>>

\* Seeded fault: the cells already in stProcList stay in it.
ReleaseProcForgotten ==
  /\ thr.pc = "release"
  /\ thr' = [thr EXCEPT !.pc = "video"]
  /\ apart' = (apart /\ NoneBetween)
  /\ UNCHANGED <<h, procList, preList, free, ref, cb, next, exitFlag, app, file, ops>>

\* RKADK_MUXER_ListRelease(stProcList), without the mutex of stProcList.
ReleaseProc ==
  /\ thr.pc = "release"
  /\ ref' = Unref(procList) /\ free' = Freed(procList) /\ procList' = <<>>
  /\ thr' = [thr EXCEPT !.pc = "video"]
  /\ apart' = (apart /\ NoneBetween)
  /\ UNCHANGED <<h, preList, cb, next, exitFlag, app, file, ops>>

\* How many frames are before the first key frame; all, if there is none.
BeforeKey(s) == {n \in 0 .. Len(s) : /\ \A i \in 1 .. n : s[i] % Gop # 0
                                     /\ n < Len(s) => s[n + 1] % Gop = 0}

TakeVideo ==
  /\ thr.pc = "video"
  /\ LET s == preList["v"] IN
     \E n \in BeforeKey(s) :
       /\ ref' = Unref(PreCells("v", SubSeq(s, 1, n)))
       /\ procList' = procList \o PreCells("v", SubSeq(s, n + 1, Len(s)))
       /\ thr' = [thr EXCEPT !.pc = IF n = Len(s) THEN "begin" ELSE "audio",
                             !.seek = IF n = Len(s) THEN 0 ELSE s[n + 1] - s[1]]
  /\ preList' = [preList EXCEPT !["v"] = <<>>]
  /\ apart' = (apart /\ NoneBetween)
  /\ UNCHANGED <<h, free, cb, next, exitFlag, app, file, ops>>

\* Seeded fault: the sound that is cut off keeps its buffers.
TakeAudioLeaking ==
  /\ thr.pc = "audio"
  /\ LET s    == preList["a"]
         late == {i \in DOMAIN s : s[i] - s[1] >= thr.seek}
         n    == Len(s) - Cardinality(late)
     IN procList' = procList \o PreCells("a", SubSeq(s, n + 1, Len(s)))
  /\ preList' = [preList EXCEPT !["a"] = <<>>]
  /\ thr' = [thr EXCEPT !.pc = "first", !.seek = 0]
  /\ apart' = (apart /\ NoneBetween)
  /\ UNCHANGED <<h, free, ref, cb, next, exitFlag, app, file, ops>>

\* The sound is shortened by what the picture lost.
TakeAudio ==
  /\ thr.pc = "audio"
  /\ LET s    == preList["a"]
         late == {i \in DOMAIN s : s[i] - s[1] >= thr.seek}
         n    == Len(s) - Cardinality(late)
     IN /\ ref' = Unref(PreCells("a", SubSeq(s, 1, n)))
        /\ procList' = procList \o PreCells("a", SubSeq(s, n + 1, Len(s)))
  /\ preList' = [preList EXCEPT !["a"] = <<>>]
  /\ thr' = [thr EXCEPT !.pc = "first", !.seek = 0]
  /\ apart' = (apart /\ NoneBetween)
  /\ UNCHANGED <<h, free, cb, next, exitFlag, app, file, ops>>

\* The first cell of the list takes the place of the cell that began the file.
TakeFirst ==
  /\ thr.pc = "first"
  /\ ref' = Unref(<<thr.cell>>) /\ free' = Freed(<<thr.cell>>)
  /\ thr' = [thr EXCEPT !.cell = Head(procList), !.pc = "begin"]
  /\ procList' = Tail(procList)
  /\ UNCHANGED <<h, preList, cb, next, exitFlag, app, file, apart, ops>>

\* The frame is written and its cell freed; a cell of a file that is just
\* opened begins it.
Write ==
  /\ thr.pc \in {"begin", "write"}
  /\ h' = [h EXCEPT !.mux = TRUE]
  /\ LET c == thr.cell
         last == file.last[c.k]
         judged == apart /\ ~file.spoilt
         whole  == judged /\ ~file.stopped /\ ~file.late
     IN /\ file' = [file EXCEPT
             !.start = IF thr.pc = "begin" THEN c.t ELSE @,
             !.last[c.k] = IF c.t > @ THEN c.t ELSE @,
             !.spoilt = ~judged,
             !.inOrder = @ /\ (judged => c.t > last /\ (file.last["v"] = -1 => IsKey(c))),
             !.whole = @ /\ (whole /\ c.k = "v" /\ last # -1 => c.t <= last + 1)]
        /\ ref' = Unref(<<c>>) /\ free' = Freed(<<c>>)
  /\ thr' = [thr EXCEPT !.cell = NoCell, !.pc = "pop"]
  /\ UNCHANGED <<procList, preList, cb, next, exitFlag, app, apart, ops>>

CellFree ==
  /\ thr.pc = "free"
  /\ ref' = Unref(<<thr.cell>>) /\ free' = Freed(<<thr.cell>>)
  /\ thr' = [thr EXCEPT !.cell = NoCell, !.pc = "pop"]
  /\ UNCHANGED <<h, procList, preList, cb, next, exitFlag, app, file, apart, ops>>

-----------------------------------------------------------------------------
(* The application                                                         *)

Op(to) == app = "idle" /\ ops < MaxOps /\ app' = to /\ ops' = ops + 1

Start ==
  /\ Op("idle")
  /\ h' = [h EXCEPT !.en = TRUE, !.first = TRUE]
  /\ UNCHANGED <<procList, preList, free, ref, cb, next, thr, exitFlag, file, apart>>

Stopped(x) == [x EXCEPT !.en = FALSE, !.want = FALSE, !.split = FALSE]

\* Frames that come while the stream is stopped are not written: the file
\* that a quick start continues is not whole.
Stop ==
  /\ Op("idle")
  /\ h' = Stopped(h)
  /\ file' = [file EXCEPT !.stopped = TRUE]
  /\ UNCHANGED <<procList, preList, free, ref, cb, next, thr, exitFlag, apart>>

ManualSplit ==
  /\ Op("idle") /\ h.en
  /\ \E mode \in {h.mode, "SPLIT"} : h' = [h EXCEPT !.want = TRUE, !.mode = mode]
  /\ UNCHANGED <<procList, preList, free, ref, cb, next, thr, exitFlag, file, apart>>

\* RKADK_RECORD_Reset: stop, bReseting, then RKADK_MUXER_Reset.
Reset ==
  /\ Op("join")
  /\ h' = [Stopped(h) EXCEPT !.reseting = TRUE]
  /\ exitFlag' = TRUE
  /\ file' = [file EXCEPT !.stopped = TRUE]
  /\ UNCHANGED <<procList, preList, free, ref, cb, next, thr, apart>>

\* The old thread is joined and the new one created.
ResetThread ==
  /\ app = "join" /\ thr.pc = "dead"
  /\ thr' = [thr EXCEPT !.pc = "pop"] /\ exitFlag' = FALSE
  /\ app' = "release"
  /\ UNCHANGED <<h, procList, preList, free, ref, cb, next, file, apart, ops>>

ReleaseAll ==
  LET all == procList \o PreCells("v", preList["v"]) \o PreCells("a", preList["a"])
  IN /\ ref' = Unref(all) /\ free' = Freed(all)
     /\ procList' = <<>> /\ preList' = [k \in Kinds |-> <<>>]

ResetRelease ==
  /\ app = "release"
  /\ ReleaseAll
  /\ file' = [file EXCEPT !.late = @ \/ \E k \in Kinds : cb[k] # "idle"]
  /\ app' = "param"
  /\ UNCHANGED <<h, cb, next, thr, exitFlag, apart, ops>>

\* RKADK_MUXER_ResetParam, and RKADK_MUXER_SetResetState(false).
ResetParam ==
  /\ app = "param"
  /\ \E type \in Types : h' = [h EXCEPT !.type = type, !.reseting = FALSE]
  /\ app' = "idle"
  /\ UNCHANGED <<procList, preList, free, ref, cb, next, thr, exitFlag, file, apart, ops>>

\* The callbacks are unregistered and have returned (module MuxerQueue).
Disable ==
  /\ Op("leave") /\ \A k \in Kinds : cb[k] = "idle"
  /\ h' = [h EXCEPT !.en = FALSE]
  /\ exitFlag' = TRUE
  /\ UNCHANGED <<procList, preList, free, ref, cb, next, thr, file, apart>>

DisableRelease ==
  /\ app = "leave" /\ thr.pc = "dead"
  /\ ReleaseAll
  /\ app' = "disabled"
  /\ UNCHANGED <<h, cb, next, thr, exitFlag, file, apart, ops>>

Next ==
  \/ \E k \in Kinds : Arrive(k) \/ PreRecPush(k) \/ CellPush(k)
  \/ CellPop \/ CheckExit \/ Look \/ ReleaseProc \/ TakeVideo \/ TakeAudio \/ TakeFirst
  \/ Write \/ CellFree
  \/ Start \/ Stop \/ ManualSplit \/ Reset \/ ResetThread \/ ResetRelease \/ ResetParam
  \/ Disable \/ DisableRelease

Spec == Init /\ [][Next]_vars

-----------------------------------------------------------------------------
(* Properties                                                              *)

\* A file begins with a key frame and neither stream in it goes back or
\* repeats a frame, whatever was cached, queued or dropped before, if no
\* callback was between the two lists when the file took them.
FileInOrder == file.inOrder

\* And no picture is missing in the file of a stream that was not stopped, if
\* a group of pictures is at most a second (Gop <= Rate).
FileWhole == file.whole

\* A media buffer's users are those who hold it: a callback, the lists, the
\* muxer thread.
Holders(k, t) ==
  (IF cb[k] # "idle" /\ next[k] = t THEN 1 ELSE 0)
  + CountIn(procList, k, t) + Cardinality({i \in DOMAIN preList[k] : preList[k][i] = t})
  + (IF thr.cell.k = k /\ thr.cell.t = t THEN 1 ELSE 0)
BuffersCounted == \A k \in Kinds, t \in Times : ref[k][t] = Holders(k, t)
=============================================================================
