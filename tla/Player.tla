------------------------------- MODULE Player -------------------------------
(***************************************************************************)
(* The player of src/src/player/rkadk_player.c: an application thread that *)
(* opens, prepares, plays, pauses, seeks, stops and destroys; the          *)
(* demuxer's two threads that call back with the packets of the picture    *)
(* and of the sound; the thread that sends decoded frames to the outputs.  *)
(* They share the handle h, whose mutex only the application takes.  Time  *)
(* is counted in frames: a packet is its time stamp, frameTime is 1, and a *)
(* decoded sound frame fills the output's cache exactly.  A test of the    *)
(* handle and the assignment that follows it are one step of a thread,     *)
(* except where another thread's step between them matters.  Left out: raw *)
(* RTSP streams, packets of a third-party demuxer, snapshots, the black    *)
(* background and the debug levels.                                        *)
(***************************************************************************)
EXTENDS Integers, Sequences

CONSTANTS
  VideoLen, AudioLen,  \* packets of the picture and of the sound
  Duration,            \* what GetDuration found, 0 when it was not called
  VideoRoom, AudioRoom,\* buffers of the decoders
  Waterline,           \* u32VdecWaterline
  Targets,             \* times the application seeks to
  Files,               \* files it opens: their format and the streams they have
  Enabled,             \* bEnableVideo, bEnableAudio: the streams it wants
  Eos,                 \* the packet and the frame that end a stream, later than all others
  MaxOps               \* bound: operations of the application

\* A file has a stream, and a file of sound has sound.
ASSUME FilesAssumption ==
  \A f \in Files : /\ f.ext \in {"mp4", "h264", "mp3", "wav"}
                   /\ f.has \in SUBSET {"v", "a"} \ {{}}
                   /\ f.ext \in {"mp3", "wav"} => f.has = {"a"}
ASSUME TimesAssumption ==
  /\ VideoLen \in Nat /\ AudioLen \in Nat /\ Targets \subseteq Nat /\ Eos \in Nat
  /\ VideoLen < Eos /\ AudioLen < Eos /\ \A t \in Targets : t < Eos

VARIABLES
  h,       \* the handle
  file,    \* what is played of the file: "av", "v", "a", "wav", "none" when it was refused
  chans,   \* what exists of the decoders' and the sound output's channels
  held,    \* AO_PauseChn: the sound output takes no frames
  vdec,    \* frames in the video decoder
  adec,    \* frames in the sound decoder
  rd,      \* the demuxer's threads
  snd,     \* the sending thread
  app,     \* the application's thread
  owed,    \* history: accepted seeks without a SEEK_END yet
  shown,   \* history: the last frame shown since the file was opened
  ops      \* operations the application began

vars == <<h, file, chans, held, vdec, adec, rd, snd, app, owed, shown, ops>>

HasVideo == file \in {"av", "v"}
HasAudio == file \in {"av", "a", "wav"}
HasAdec  == file \in {"av", "a"}
Length(k) == IF k = "v" THEN VideoLen ELSE AudioLen
Larger(a, b) == IF a > b THEN a ELSE b

NoSender == [pc |-> "none", cur |-> -1, first |-> FALSE, vEnd |-> FALSE, aEnd |-> FALSE]
NoReader == [pc |-> "off", at |-> 0, stop |-> FALSE]
Idle     == [pc |-> "idle", op |-> "none", was |-> "IDLE", keep |-> FALSE, target |-> 0, paused |-> FALSE]

Init ==
  /\ h = [status |-> "IDLE", seek |-> "NO", seekTs |-> 0, pos |-> 0, vts |-> -1, stop |-> FALSE]
  /\ file = "none"
  /\ chans = {} /\ held = FALSE /\ vdec = <<>> /\ adec = <<>>
  /\ rd = [k \in {"v", "a"} |-> NoReader]
  /\ snd = NoSender
  /\ app = Idle
  /\ owed = 0 /\ shown = -1 /\ ops = 0

SeekEnd == owed' = owed - 1

-----------------------------------------------------------------------------
(* Channels: CreateVdec, CreateAdec, CreateDeviceAo and their counterparts *)

VdecParts == {"vdec", "recv"}
AoParts   == {"ao", "aoChn", "resmp"}
Needed == (IF HasVideo THEN VdecParts ELSE {}) \cup (IF HasAudio THEN AoParts ELSE {})
          \cup (IF HasAdec THEN {"adec"} ELSE {})

\* What exists after calls that create the parts in their order: all of them,
\* or what is left when one fails and the function undid those it undoes.
Creating(c, parts, undone) ==
  {c \cup {parts[j] : j \in DOMAIN parts}}
  \cup {(c \cup {parts[j] : j \in 1 .. i - 1}) \ undone : i \in DOMAIN parts}

CreateVdec(c) == Creating(c, <<"vdec", "recv">>, {"vdec"})
CreateAdec(c) == Creating(c, <<"adec">>, {})

\* Seeded fault: a channel whose resampling cannot be enabled stays.
CreateDeviceAoKeeps(c) == Creating(c, <<"ao", "aoChn", "resmp">>, {"ao"})

CreateDeviceAo(c) == Creating(c, <<"ao", "aoChn", "resmp">>, {"ao", "aoChn"})

\* A counterpart stops at its first call that fails: what was not created.
DestroyVdec(c)     == IF "recv" \in c THEN c \ VdecParts ELSE c
DestoryDeviceAo(c) == IF "resmp" \in c THEN c \ AoParts ELSE c

Destroyed(c) ==
  LET noVdec == IF HasVideo THEN DestroyVdec(c) ELSE c
      noAdec == IF HasAdec THEN noVdec \ {"adec"} ELSE noVdec
  IN  IF HasAudio THEN DestoryDeviceAo(noAdec) ELSE noAdec

\* RKADK_PLAYER_Prepare: each function is called when the one before it succeeded.
Prepared ==
  LET vdecs == IF HasVideo THEN CreateVdec(chans) ELSE {chans}
      adecs == UNION {IF HasAdec /\ (HasVideo => VdecParts \subseteq c) THEN CreateAdec(c) ELSE {c} : c \in vdecs}
  IN  UNION {IF HasAudio /\ Needed \ AoParts \subseteq c THEN CreateDeviceAo(c) ELSE {c} : c \in adecs}

-----------------------------------------------------------------------------
(* Seeded faults: wrong forms of definitions below.  No specification uses *)
(* them; each shows that some property can fail.                           *)

\* the channels go before the sending thread is joined
StopReleaseAtOnce ==
  /\ app.pc = "join"
  /\ chans' = {} /\ held' = FALSE
  /\ h' = [h EXCEPT !.seek = IF app.keep THEN "WAIT" ELSE "NO", !.pos = IF app.keep THEN @ ELSE 0]
  /\ app' = [app EXCEPT !.pc = IF app.op = "seek" THEN "open" ELSE "idle"]
  /\ vdec' = <<>> /\ adec' = <<>>
  /\ rd' = [k \in {"v", "a"} |-> NoReader]
  /\ UNCHANGED <<file, snd, owed, shown, ops>>

\* the output is not resumed
ResumeOnStopNot == held

\* the first frame of the decoder is the first on the screen
FirstFrameAny ==
  /\ snd.pc = "first"
  /\ vdec # <<>>
  /\ h' = [h EXCEPT !.vts = Head(vdec)]
  /\ snd' = [snd EXCEPT !.cur = Head(vdec), !.first = TRUE, !.pc = "gate"]
  /\ vdec' = Tail(vdec)
  /\ UNCHANGED <<file, chans, held, adec, rd, app, owed, shown, ops>>

\* a paused player shows nothing after a seek
GateOpenPlaying == h.status # "PAUSE" /\ Len(vdec) >= Waterline

-----------------------------------------------------------------------------
(* Demuxer threads: DoPullDemuxerVideoPacket, DoPullDemuxerAudioPacket and *)
(* DoPullDemuxerWavPacket.  A thread reads its packets in order and then   *)
(* the end; told to stop, it delivers the end at once and is joined.       *)

Packet(k) == IF rd[k].stop \/ rd[k].at = Length(k) THEN Eos ELSE rd[k].at

\* Assumed of the demuxer: while RKADK_PLAYER_Seek has started it and not
\* yet left SEEK_WAIT it reads nothing from the target on.
SeekIsQuick(p) ==
  (h.seek = "WAIT" /\ app.op = "seek" /\ app.pc \in {"playing", "pause", "paused", "doing"})
    => p < app.target

Skip(k) == rd' = [rd EXCEPT ![k].at = @ + 1, ![k].pc = IF Packet(k) = Eos THEN "end" ELSE "read"]

VideoRead ==
  /\ rd["v"].pc = "read"
  /\ LET p == Packet("v") IN
     /\ SeekIsQuick(p)
     /\ IF p # Eos /\ h.seek = "WAIT"
        THEN Skip("v") /\ UNCHANGED <<h, owed>>
        ELSE /\ rd' = [rd EXCEPT !["v"].pc = "send"]
             /\ h' = [h EXCEPT !.seek = IF @ = "VIDEO_DOING" THEN "VIDEO_DONE"
                                        ELSE IF @ = "DONE" /\ ~HasAudio THEN "NO" ELSE @]
             /\ IF ~HasAudio /\ h.seek = "DONE" THEN SeekEnd ELSE owed' = owed
  /\ UNCHANGED <<file, chans, held, vdec, adec, snd, app, shown, ops>>

\* RK_MPI_VDEC_SendStream waits for room.
VideoSend ==
  /\ rd["v"].pc = "send"
  /\ Len(vdec) < VideoRoom
  /\ vdec' = Append(vdec, Packet("v"))
  /\ Skip("v")
  /\ UNCHANGED <<h, file, chans, held, adec, snd, app, owed, shown, ops>>

AudioRead ==
  /\ rd["a"].pc = "read" /\ file # "wav"
  /\ LET p == Packet("a") IN
     /\ SeekIsQuick(p)
     /\ IF h.seek = "WAIT" \/ p < h.seekTs
        THEN Skip("a") /\ UNCHANGED h
        ELSE IF h.seek = "NO"
        THEN rd' = [rd EXCEPT !["a"].pc = "send"] /\ UNCHANGED h
        ELSE /\ rd' = [rd EXCEPT !["a"].pc = "wait"]
             /\ h' = [h EXCEPT !.pos = IF p = Eos THEN AudioLen ELSE p]
  /\ UNCHANGED <<file, chans, held, vdec, adec, snd, app, owed, shown, ops>>

\* The callback waits until the first picture of the seek was sent.
AudioSeekEnd ==
  /\ rd["a"].pc = "wait"
  /\ h.seek = "DONE" \/ h.stop
  /\ IF h.seek = "DONE"
     THEN SeekEnd /\ h' = [h EXCEPT !.seek = "NO"]
     ELSE UNCHANGED <<h, owed>>
  /\ rd' = [rd EXCEPT !["a"].pc = "send"]
  /\ UNCHANGED <<file, chans, held, vdec, adec, snd, app, shown, ops>>

\* RK_MPI_ADEC_SendStream waits for room, SendEndOfStream does not.
AudioSend ==
  /\ rd["a"].pc = "send" /\ file # "wav"
  /\ Packet("a") = Eos \/ Len(adec) < AudioRoom
  /\ adec' = Append(adec, Packet("a"))
  /\ Skip("a")
  /\ UNCHANGED <<h, file, chans, held, vdec, snd, app, owed, shown, ops>>

\* Sound that is not coded goes to the output directly.
WavRead ==
  /\ rd["a"].pc = "read" /\ file = "wav"
  /\ LET p == Packet("a") IN
     /\ SeekIsQuick(p)
     /\ IF h.status = "STOP" \/ h.seek = "WAIT" THEN Skip("a") /\ UNCHANGED <<h, owed>>
        ELSE /\ IF h.seek = "DONE" THEN SeekEnd ELSE owed' = owed
             /\ h' = [h EXCEPT !.seek = IF @ = "DONE" THEN "NO" ELSE @, !.pos = IF p = Eos THEN @ ELSE p]
             /\ rd' = [rd EXCEPT !["a"].pc = "send"]
  /\ UNCHANGED <<file, chans, held, vdec, adec, snd, app, shown, ops>>

WavSend ==
  /\ rd["a"].pc = "send" /\ file = "wav"
  /\ ~held
  /\ h' = [h EXCEPT !.pos = IF Packet("a") = Eos /\ Duration # 0 THEN Duration ELSE @]
  /\ Skip("a")
  /\ UNCHANGED <<file, chans, held, vdec, adec, snd, app, owed, shown, ops>>

-----------------------------------------------------------------------------
(* Sending thread: SendData, SendVideoData, SendAudioData                  *)

Show(f) == shown' = f

\* The loops of the three functions.
SendLoop ==
  /\ snd.pc = "loop"
  /\ snd' = [snd EXCEPT !.pc = IF h.stop THEN "end"
                               ELSE IF file = "a" THEN "sound"
                               ELSE IF file = "av" /\ h.vts < 0 THEN "first" ELSE "gate"]
  /\ UNCHANGED <<h, file, chans, held, vdec, adec, rd, app, owed, shown, ops>>

\* Frames before the target are dropped; RK_MPI_VDEC_GetFrame waits.
FirstFrame ==
  /\ snd.pc = "first" /\ h.vts < h.seekTs
  /\ vdec # <<>>
  /\ LET f == Head(vdec) IN
     /\ h' = [h EXCEPT !.vts = f]
     /\ snd' = IF f < h.seekTs THEN snd ELSE [snd EXCEPT !.cur = f, !.first = TRUE, !.pc = "gate"]
  /\ vdec' = Tail(vdec)
  /\ UNCHANGED <<file, chans, held, adec, rd, app, owed, shown, ops>>

\* Stop may have taken back the target meanwhile.
FirstFrameEnd ==
  /\ snd.pc = "first" /\ h.vts >= h.seekTs
  /\ snd' = [snd EXCEPT !.pc = "gate"]
  /\ UNCHANGED <<h, file, chans, held, vdec, adec, rd, app, owed, shown, ops>>

GateOpen == (h.status # "PAUSE" /\ Len(vdec) >= Waterline) \/ h.seek = "VIDEO_DONE"

Gate ==
  /\ snd.pc = "gate"
  /\ snd' = [snd EXCEPT !.pc = IF ~GateOpen THEN "loop" ELSE IF file = "av" THEN "picture" ELSE "video"]
  /\ UNCHANGED <<h, file, chans, held, vdec, adec, rd, app, owed, shown, ops>>

\* SendData: the first frame, at once when a paused player was sought.
SendPicture ==
  /\ snd.pc = "picture"
  /\ LET sought == h.seek = "VIDEO_DONE"
         paused == sought /\ h.status = "PAUSE"
     IN /\ h' = IF sought THEN [h EXCEPT !.seek = "DONE"] ELSE h
        /\ IF (paused \/ (snd.first /\ h.status # "STOP")) /\ snd.cur # Eos
           THEN Show(snd.cur) ELSE shown' = shown
        /\ snd' = [snd EXCEPT !.pc = IF paused THEN "loop" ELSE "audio", !.first = @ /\ ~paused]
  /\ UNCHANGED <<file, chans, held, vdec, adec, rd, app, owed, ops>>

BothEnded(s) == s.aEnd /\ s.vEnd
FlagVideoEnd(s, f) == [s EXCEPT !.vEnd = @ \/ f = Eos]

\* SendData: a frame of sound, if there is one, moves the position.
SendSound ==
  /\ snd.pc = "audio" /\ adec # <<>> /\ Head(adec) # Eos
  /\ h.status # "STOP" => ~held
  /\ h' = IF h.status = "STOP" THEN h
          ELSE [h EXCEPT !.pos = IF @ = 0 THEN Head(adec) + 1 ELSE @ + 1]
  /\ adec' = Tail(adec)
  /\ snd' = [snd EXCEPT !.pc = IF snd.first \/ snd.vEnd THEN "loop" ELSE "sync", !.first = FALSE]
  /\ UNCHANGED <<file, chans, held, vdec, rd, app, owed, shown, ops>>

SendSoundEnd ==
  /\ snd.pc = "audio" /\ adec # <<>> /\ Head(adec) = Eos
  /\ ~held
  /\ adec' = Tail(adec)
  /\ snd' = [snd EXCEPT !.pc = "loop", !.aEnd = TRUE]
  /\ h' = [h EXCEPT !.stop = @ \/ BothEnded(snd')]
  /\ UNCHANGED <<file, chans, held, vdec, rd, app, owed, shown, ops>>

SendNoSound ==
  /\ snd.pc = "audio" /\ adec = <<>>
  /\ snd' = [snd EXCEPT !.pc = IF h.status = "STOP" \/ snd.aEnd THEN "tail" ELSE "loop", !.first = FALSE]
  /\ UNCHANGED <<h, file, chans, held, vdec, adec, rd, app, owed, shown, ops>>

\* SendData: pictures that are late are dropped, one is shown with its sound.
TakePicture ==
  IF vdec = <<>>
  THEN snd' = [snd EXCEPT !.pc = "loop"] /\ UNCHANGED <<h, vdec, shown>>
  ELSE LET f == Head(vdec) IN
       /\ vdec' = Tail(vdec)
       /\ h' = [h EXCEPT !.vts = f]
       /\ IF f = h.pos /\ h.status # "STOP" THEN Show(f) ELSE shown' = shown
       /\ snd' = [FlagVideoEnd(snd, f) EXCEPT !.pc = IF f < h.pos THEN "late" ELSE "loop"]

SyncPicture ==
  /\ snd.pc = "sync"
  /\ IF h.pos - h.vts < 1
     THEN snd' = [snd EXCEPT !.pc = "loop"] /\ UNCHANGED <<h, vdec, shown>>
     ELSE TakePicture
  /\ UNCHANGED <<file, chans, held, adec, rd, app, owed, ops>>

\* The jump back to the decoder, past the test of the position.
SyncAgain ==
  /\ snd.pc = "late"
  /\ TakePicture
  /\ UNCHANGED <<file, chans, held, adec, rd, app, owed, ops>>

\* SendData: the rest of the pictures when the sound is over.
SendTail ==
  /\ snd.pc = "tail"
  /\ IF vdec = <<>> THEN snd' = [snd EXCEPT !.pc = "loop"] /\ UNCHANGED <<h, vdec, shown>>
     ELSE LET f == Head(vdec)
              s == FlagVideoEnd(snd, f)
              show == Duration - h.pos > 1 /\ s.aEnd /\ ~s.vEnd
          IN /\ vdec' = Tail(vdec)
             /\ snd' = [s EXCEPT !.pc = "loop"]
             /\ IF show THEN Show(f) ELSE shown' = shown
             /\ h' = [h EXCEPT !.vts = IF show THEN f ELSE @,
                               !.pos = IF show THEN Larger(@, f) ELSE @,
                               !.stop = @ \/ BothEnded(s)]
  /\ UNCHANGED <<file, chans, held, adec, rd, app, owed, ops>>

\* SendVideoData
SendVideo ==
  /\ snd.pc = "video"
  /\ IF vdec = <<>> THEN snd' = [snd EXCEPT !.pc = "loop"] /\ UNCHANGED <<h, vdec, shown>>
     ELSE LET f == Head(vdec)
              seek == IF h.seek = "VIDEO_DONE" THEN "DONE" ELSE h.seek
          IN /\ vdec' = Tail(vdec)
             /\ IF f = Eos
                THEN h' = [h EXCEPT !.seek = seek] /\ snd' = [snd EXCEPT !.pc = "end"] /\ shown' = shown
                ELSE /\ h' = [h EXCEPT !.seek = seek, !.pos = f, !.vts = f]
                     /\ snd' = [snd EXCEPT !.pc = "loop"] /\ Show(f)
  /\ UNCHANGED <<file, chans, held, adec, rd, app, owed, ops>>

\* SendAudioData: RK_MPI_ADEC_GetFrame waits.
SendAudio ==
  /\ snd.pc = "sound" /\ adec # <<>>
  /\ h.status # "STOP" => ~held
  /\ adec' = Tail(adec)
  /\ h' = IF h.status # "STOP" /\ Head(adec) # Eos THEN [h EXCEPT !.pos = Head(adec)] ELSE h
  /\ snd' = [snd EXCEPT !.pc = IF Head(adec) = Eos THEN "end" ELSE "loop"]
  /\ UNCHANGED <<file, chans, held, vdec, rd, app, owed, shown, ops>>

\* SendDataThread: the end is reported, and only then is it the status.
ReportEof ==
  /\ snd.pc = "end"
  /\ IF h.status = "STOP" THEN snd' = [snd EXCEPT !.pc = "done"] /\ UNCHANGED h
     ELSE /\ HasAudio => ~held
          /\ h' = [h EXCEPT !.pos = IF Duration # 0 THEN Duration ELSE @]
          /\ snd' = [snd EXCEPT !.pc = "eof"]
  /\ UNCHANGED <<file, chans, held, vdec, adec, rd, app, owed, shown, ops>>

SetEof ==
  /\ snd.pc = "eof"
  /\ h' = [h EXCEPT !.status = "EOF"]
  /\ snd' = [snd EXCEPT !.pc = "done"]
  /\ UNCHANGED <<file, chans, held, vdec, adec, rd, app, owed, shown, ops>>

Sender ==
  \/ SendLoop \/ FirstFrame \/ FirstFrameEnd \/ Gate \/ SendPicture \/ SendSound \/ SendSoundEnd
  \/ SendNoSound \/ SyncPicture \/ SyncAgain \/ SendTail \/ SendVideo \/ SendAudio \/ ReportEof \/ SetEof

-----------------------------------------------------------------------------
(* The application's thread; it holds the mutex from one step to the next  *)

App(pc) == app' = [app EXCEPT !.pc = pc]
Return  == app' = [app EXCEPT !.pc = "idle", !.op = "none"]
InSeek  == app.op = "seek"

\* An operation that fails within RKADK_PLAYER_Seek ends the seek.
Fails == Return /\ h' = (IF InSeek THEN [h EXCEPT !.seek = "NO"] ELSE h)

Begin(op, pc) ==
  /\ app.pc = "idle" /\ ops < MaxOps /\ h.status # "GONE"
  /\ ops' = ops + 1
  /\ app' = [Idle EXCEPT !.op = op, !.pc = pc]
  /\ UNCHANGED <<h, file, chans, held, vdec, adec, rd, snd, owed, shown>>

BeginOpen    == Begin("open", "open")
BeginPrepare == Begin("prepare", "prepare")
BeginPlay    == Begin("play", "play")
BeginPause   == Begin("pause", "pause")
BeginStop    == Begin("stop", "stop")
BeginDestroy == Begin("destroy", "stop")

\* RKADK_PLAYER_Seek: the tests at its head, none of them under the mutex.
\* A target close to the position is reached at once (SEEK_END).
BeginSeek ==
  /\ app.pc = "idle" /\ ops < MaxOps
  /\ h.seek = "NO" /\ h.status \in {"PREPARED", "PLAY", "EOF", "PAUSE", "STOP"}
  /\ \E target \in Targets :
       /\ ~(HasVideo /\ h.pos = target)
       /\ app' = [Idle EXCEPT !.op = "seek", !.target = target, !.paused = h.status = "PAUSE",
                              !.pc = IF h.status = "STOP" THEN "open" ELSE "stop"]
  /\ ops' = ops + 1
  /\ h' = [h EXCEPT !.seek = "WAIT"]
  /\ UNCHANGED <<file, chans, held, vdec, adec, rd, snd, owed, shown>>

\* What the player takes of a file; it refuses one of which it wants nothing.
OfMovie(f) ==
  LET taken == f.has \cap Enabled IN
  CASE taken = {"v", "a"} -> "av" [] taken = {"v"} -> "v" [] taken = {"a"} -> "a" [] OTHER -> "none"
OfPicture(f) == IF "v" \in f.has \cap Enabled THEN "v" ELSE "none"
OfSound(f)   == IF "a" \notin Enabled THEN "none" ELSE IF f.ext = "wav" THEN "wav" ELSE "a"

Source(f) == CASE f.ext = "mp4" -> OfMovie(f) [] f.ext = "h264" -> OfPicture(f) [] OTHER -> OfSound(f)

\* A file that cannot be read or has another format is refused too; then
\* pFilePath is empty, and a seek cannot open it again.
SetDataSource ==
  /\ app.pc = "open"
  /\ IF h.status \notin {"IDLE", "STOP"} THEN Fails /\ UNCHANGED <<file, shown>>
     ELSE /\ file' \in {"none"} \cup (IF InSeek THEN {file} ELSE {Source(f) : f \in Files})
          /\ IF file' = "none" THEN Fails /\ shown' = shown
             ELSE /\ h' = [h EXCEPT !.status = "INIT", !.vts = -1, !.stop = FALSE]
                  /\ shown' = -1
                  /\ IF InSeek THEN App("prepare") ELSE Return
  /\ UNCHANGED <<chans, held, vdec, adec, rd, snd, owed, ops>>

\* What was created is destroyed again when a channel cannot be created.
Prepare ==
  /\ app.pc = "prepare"
  /\ IF h.status # "INIT" THEN Fails /\ chans' = chans
     ELSE \E c \in Prepared :
            IF Needed \subseteq c
            THEN /\ chans' = c
                 /\ h' = [h EXCEPT !.status = "PREPARED", !.seekTs = IF InSeek THEN app.target ELSE @]
                 /\ IF InSeek THEN App("play") ELSE Return
            ELSE chans' = Destroyed(c) /\ Fails
  /\ UNCHANGED <<file, held, vdec, adec, rd, snd, owed, shown, ops>>

\* The demuxer starts at a key frame before the target, or where the stream ends.
ReadPacketStart ==
  \E key \in IF h.seek = "WAIT" THEN 0 .. h.seekTs ELSE {0} :
    rd' = [k \in {"v", "a"} |->
            IF (k = "v" /\ HasVideo) \/ (k = "a" /\ HasAudio)
            THEN [NoReader EXCEPT !.pc = "read", !.at = IF key < Length(k) THEN key ELSE Length(k)]
            ELSE NoReader]

\* Assumed of the demuxer: it refuses to start while its threads run.
Reading == \E k \in {"v", "a"} : rd[k].pc # "off"

\* The demuxer starts, and then the sending thread does or cannot be created:
\* what reads goes on.
PlayStart ==
  /\ app.pc = "play" /\ h.status = "PREPARED" /\ ~Reading
  /\ ReadPacketStart
  /\ \/ /\ snd' = IF file = "wav" THEN NoSender ELSE [NoSender EXCEPT !.pc = "loop"]
        /\ App("playing") /\ h' = h
     \/ file # "wav" /\ snd' = NoSender /\ Fails
  /\ UNCHANGED <<file, chans, held, vdec, adec, owed, shown, ops>>

PlayResume ==
  /\ app.pc = "play" /\ h.status = "PAUSE"
  /\ held' = FALSE /\ App("playing")
  /\ UNCHANGED <<h, file, chans, vdec, adec, rd, snd, owed, shown, ops>>

\* Another status, a demuxer that does not start, an output that is not resumed.
PlayFails ==
  /\ app.pc = "play"
  /\ h.status = "PAUSE" => HasAudio
  /\ Fails
  /\ UNCHANGED <<file, chans, held, vdec, adec, rd, snd, owed, shown, ops>>

Play == PlayStart \/ PlayResume \/ PlayFails

SetPlay ==
  /\ app.pc = "playing"
  /\ h' = [h EXCEPT !.status = "PLAY"]
  /\ IF InSeek THEN App(IF app.paused THEN "pause" ELSE "doing") ELSE Return
  /\ UNCHANGED <<file, chans, held, vdec, adec, rd, snd, owed, shown, ops>>

\* AO_PauseChn may fail; a seek takes no notice.
Pause ==
  /\ app.pc = "pause"
  /\ \/ h.status = "PLAY" /\ held' = HasAudio /\ App("paused")
     \/ (h.status = "PLAY" => HasAudio) /\ held' = held /\ IF InSeek THEN App("doing") ELSE Return
  /\ UNCHANGED <<h, file, chans, vdec, adec, rd, snd, owed, shown, ops>>

SetPause ==
  /\ app.pc = "paused"
  /\ h' = [h EXCEPT !.status = "PAUSE"]
  /\ IF InSeek THEN App("doing") ELSE Return
  /\ UNCHANGED <<file, chans, held, vdec, adec, rd, snd, owed, shown, ops>>

\* The end of RKADK_PLAYER_Seek.
SeekDoing ==
  /\ app.pc = "doing"
  /\ h' = [h EXCEPT !.seek = IF HasVideo THEN "VIDEO_DOING" ELSE "DONE"]
  /\ owed' = owed + 1
  /\ Return
  /\ UNCHANGED <<file, chans, held, vdec, adec, rd, snd, shown, ops>>

\* What follows RKADK_PLAYER_Stop in the operation that called it.
AfterStop == CASE InSeek -> App("open") [] app.op = "destroy" -> App("free") [] OTHER -> Return

\* A paused output is resumed: the sending thread may wait for it.
ResumeOnStop == held /\ h.status # "PAUSE"

Stop ==
  /\ app.pc = "stop"
  /\ IF h.status \in {"IDLE", "INIT", "STOP"}
     THEN AfterStop /\ UNCHANGED <<h, held, rd, owed>>
     ELSE /\ h' = [h EXCEPT !.status = "STOP", !.seek = "NO", !.seekTs = 0]
          /\ held' = ResumeOnStop
          /\ rd' = [k \in {"v", "a"} |-> [rd[k] EXCEPT !.stop = TRUE]]
          /\ owed' = 0
          /\ app' = [app EXCEPT !.pc = "readers", !.was = h.status, !.keep = h.seek = "WAIT"]
  /\ UNCHANGED <<file, chans, vdec, adec, snd, shown, ops>>

\* RKADK_DEMUXER_ReadPacketStop waits for the demuxer's threads.
StopReaders ==
  /\ app.pc = "readers"
  /\ \A k \in {"v", "a"} : rd[k].pc \in {"off", "end"}
  /\ h' = [h EXCEPT !.stop = TRUE]
  /\ App("join")
  /\ UNCHANGED <<file, chans, held, vdec, adec, rd, snd, owed, shown, ops>>

\* The sending thread is joined; a channel that does not exist cannot be
\* destroyed, and the status goes back to what it was.
StopRelease ==
  /\ app.pc = "join"
  /\ snd.pc \in {"none", "done"}
  /\ chans' = Destroyed(chans) /\ held' = FALSE
  /\ LET seek == IF app.keep THEN "WAIT" ELSE "NO"
         pos  == IF app.keep THEN h.pos ELSE 0
     IN IF Needed \subseteq chans
        THEN h' = [h EXCEPT !.seek = seek, !.pos = pos] /\ AfterStop
        ELSE /\ h' = [h EXCEPT !.seek = IF InSeek THEN "NO" ELSE @, !.pos = pos, !.status = app.was]
             /\ Return
  /\ vdec' = <<>> /\ adec' = <<>> /\ snd' = NoSender
  /\ rd' = [k \in {"v", "a"} |-> NoReader]
  /\ UNCHANGED <<file, owed, shown, ops>>

Destroy ==
  /\ app.pc = "free"
  /\ h' = [h EXCEPT !.status = "GONE"]
  /\ Return
  /\ UNCHANGED <<file, chans, held, vdec, adec, rd, snd, owed, shown, ops>>

Begins == \/ BeginOpen \/ BeginPrepare \/ BeginPlay \/ BeginPause
          \/ BeginStop \/ BeginDestroy \/ BeginSeek
Continues == \/ SetDataSource \/ Prepare \/ Play \/ SetPlay \/ Pause \/ SetPause \/ SeekDoing
             \/ Stop \/ StopReaders \/ StopRelease \/ Destroy
VideoThread == VideoRead \/ VideoSend
AudioThread == AudioRead \/ AudioSeekEnd \/ AudioSend \/ WavRead \/ WavSend

Next == Begins \/ Continues \/ VideoThread \/ AudioThread \/ Sender

Spec == Init /\ [][Next]_vars

\* The threads run; the application finishes an operation it began.
FairSpec == Spec /\ WF_vars(Continues) /\ WF_vars(VideoThread) /\ WF_vars(AudioThread) /\ WF_vars(Sender)

-----------------------------------------------------------------------------
(* Properties                                                              *)

\* A demuxer's thread or the sending thread runs only while the channels it
\* calls exist: Stop and Destroy wait for them, whatever they are at.
NoUseAfterRelease ==
  (snd.pc \notin {"none", "done"} \/ \E k \in {"v", "a"} : rd[k].pc \notin {"off", "end"})
    => chans = Needed /\ h.status # "GONE"

\* The picture never goes back, and after a seek in a file with sound no
\* picture before the target is shown.
ShownInOrder ==
  [][shown' \notin {shown, -1} => shown' > shown /\ (file = "av" => shown' >= h.seekTs)]_vars

\* A player that is not prepared holds no channel of the decoders and of the
\* output: a Prepare that fails half-way and a Stop leave nothing behind.
NothingKept == app.pc = "idle" /\ h.status \in {"IDLE", "INIT", "STOP", "GONE"} => chans = {}

\* An accepted seek in a file with sound ends, also while paused.
SeekEnds == (owed = 1 /\ HasAudio) ~> owed = 0

\* Stop and destroy return, whatever the threads wait for when they begin.
\* One that interrupts a seek may wait for ever for the demuxer's callback,
\* and one after a Play that could not create the sending thread for room in
\* a decoder that nobody empties.
Unsent == file # "wav" /\ snd.pc = "none" /\ Reading
StopReturns ==
  (app.op \in {"stop", "destroy"} /\ app.pc = "stop" /\ h.seek = "NO" /\ ~Unsent) ~> (app.op = "none")

=============================================================================
