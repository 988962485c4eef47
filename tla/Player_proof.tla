---------------------------- MODULE Player_proof ----------------------------
(***************************************************************************)
(* Proofs about Player: the channels of the decoders and of the output     *)
(* exist while a thread works with them, and do not while the player is    *)
(* not prepared; and the pictures are shown in their order; for any file,  *)
(* streams, lengths, rooms, seeks and bounds.                              *)
(***************************************************************************)
EXTENDS Player, TLAPS

Fields ==
  /\ "status" \in DOMAIN h
  /\ "pc" \in DOMAIN snd
  /\ {"pc", "op", "was", "keep"} \subseteq DOMAIN app
  /\ DOMAIN rd = {"v", "a"}
  /\ \A k \in {"v", "a"} : "pc" \in DOMAIN rd[k]

\* No thread of the player or the demuxer runs; and nothing exists for one.
Quiet == snd.pc \in {"none", "done"} /\ \A k \in {"v", "a"} : rd[k].pc \in {"off", "end"}
Nothing == chans = {} /\ Quiet

Statuses == {"IDLE", "INIT", "PREPARED", "PLAY", "PAUSE", "STOP", "EOF", "GONE"}

\* What exists in each status.  EOF may come from the sending thread when
\* Stop has set STOP, and stay when everything was released.
ByStatus ==
  /\ h.status \in Statuses
  /\ h.status \in {"IDLE", "INIT", "GONE"} => Nothing
  /\ h.status \in {"PREPARED", "PLAY", "PAUSE"} => chans = Needed
  /\ h.status \in {"STOP", "EOF"} => chans = Needed \/ Nothing

\* And where the application is.
ByPlace ==
  /\ h.status = "GONE" => app.pc = "idle"
  /\ h.status = "STOP" /\ app.pc \notin {"readers", "join"} => Nothing
  /\ app.pc \in {"readers", "join"} =>
       /\ h.status \in {"STOP", "EOF"}
       /\ app.was \in {"PREPARED", "PLAY", "PAUSE", "EOF"}
       /\ app.was # "EOF" => chans = Needed
  /\ app.pc \in {"playing", "paused"} =>
       chans = Needed /\ h.status \in {"PREPARED", "PLAY", "PAUSE", "EOF"}
  /\ app.pc = "free" => Nothing

IInv == Fields /\ ByStatus /\ ByPlace

-----------------------------------------------------------------------------
(* Channels                                                                *)

\* What each creating function leaves when it starts from nothing of its own.
LEMMA VdecMade == \A c \in CreateVdec({}) : c = {} \/ c = VdecParts
<1> SUFFICES ASSUME NEW c \in CreateVdec({}) PROVE c = {} \/ c = VdecParts
  OBVIOUS
<1> DEFINE parts == <<"vdec", "recv">>
<1>1. DOMAIN parts = {1, 2} /\ parts[1] = "vdec" /\ parts[2] = "recv"
  OBVIOUS
<1>2. CASE c = {} \cup {parts[j] : j \in DOMAIN parts}
  BY <1>1, <1>2 DEF VdecParts
<1>3. CASE \E i \in DOMAIN parts : c = ({} \cup {parts[j] : j \in 1 .. i - 1}) \ {"vdec"}
  <2>1. PICK i \in DOMAIN parts : c = ({} \cup {parts[j] : j \in 1 .. i - 1}) \ {"vdec"}
    BY <1>3
  <2>2. \A j \in 1 .. i - 1 : j = 1
    BY <1>1, <2>1
  <2> QED
    BY <1>1, <2>1, <2>2
<1> QED
  BY <1>2, <1>3 DEF CreateVdec, Creating

LEMMA AdecMade == \A b : \A c \in CreateAdec(b) : c = b \/ c = b \cup {"adec"}
<1> SUFFICES ASSUME NEW b, NEW c \in CreateAdec(b) PROVE c = b \/ c = b \cup {"adec"}
  OBVIOUS
<1> DEFINE parts == <<"adec">>
<1>1. DOMAIN parts = {1} /\ parts[1] = "adec"
  OBVIOUS
<1>2. CASE c = b \cup {parts[j] : j \in DOMAIN parts}
  BY <1>1, <1>2
<1>3. CASE \E i \in DOMAIN parts : c = b \cup {parts[j] : j \in 1 .. i - 1}
  BY <1>1, <1>3
<1> QED
  BY <1>2, <1>3 DEF CreateAdec, Creating

LEMMA AoMade ==
  \A b : \A c \in CreateDeviceAo(b) : c = b \cup AoParts \/ c = b \ {"ao", "aoChn"}
<1> SUFFICES ASSUME NEW b, NEW c \in CreateDeviceAo(b)
             PROVE  c = b \cup AoParts \/ c = b \ {"ao", "aoChn"}
  OBVIOUS
<1> DEFINE parts == <<"ao", "aoChn", "resmp">>
<1>1. DOMAIN parts = {1, 2, 3} /\ parts[1] = "ao" /\ parts[2] = "aoChn" /\ parts[3] = "resmp"
  OBVIOUS
<1>2. CASE c = b \cup {parts[j] : j \in DOMAIN parts}
  BY <1>1, <1>2 DEF AoParts
<1>3. CASE \E i \in DOMAIN parts : c = (b \cup {parts[j] : j \in 1 .. i - 1}) \ {"ao", "aoChn"}
  <2>1. PICK i \in DOMAIN parts : c = (b \cup {parts[j] : j \in 1 .. i - 1}) \ {"ao", "aoChn"}
    BY <1>3
  <2>2. \A j \in 1 .. i - 1 : j = 1 \/ j = 2
    BY <1>1, <2>1
  <2> QED
    BY <1>1, <2>1, <2>2
<1> QED
  BY <1>2, <1>3 DEF CreateDeviceAo, Creating

\* RKADK_PLAYER_Prepare creates everything or leaves nothing.
LEMMA PreparedAll ==
  ASSUME chans = {}
  PROVE  \A c \in Prepared : IF Needed \subseteq c THEN c = Needed ELSE Destroyed(c) = {}
<1> SUFFICES ASSUME NEW c \in Prepared
             PROVE  IF Needed \subseteq c THEN c = Needed ELSE Destroyed(c) = {}
  OBVIOUS
<1> DEFINE vdecs == IF HasVideo THEN CreateVdec(chans) ELSE {chans}
           Adecs(b) == IF HasAdec /\ (HasVideo => VdecParts \subseteq b) THEN CreateAdec(b) ELSE {b}
           Aos(b) == IF HasAudio /\ Needed \ AoParts \subseteq b THEN CreateDeviceAo(b) ELSE {b}
<1>1. PICK a \in UNION {Adecs(b) : b \in vdecs} : c \in Aos(a)
  BY DEF Prepared
<1>2. PICK v \in vdecs : a \in Adecs(v)
  BY <1>1
<1>3. v = {} \/ (HasVideo /\ v = VdecParts)
  BY <1>2, VdecMade
<1>4. a = v \/ (HasAdec /\ (HasVideo => v = VdecParts) /\ a = v \cup {"adec"})
  BY <1>2, <1>3, AdecMade DEF VdecParts
<1>5. c = a \/ (HasAudio /\ Needed \ AoParts \subseteq a /\ c = a \cup AoParts)
  <2>1. c = a \/ (HasAudio /\ Needed \ AoParts \subseteq a /\ (c = a \cup AoParts \/ c = a \ {"ao", "aoChn"}))
    BY <1>1, AoMade
  <2>2. a \ {"ao", "aoChn"} = a
    BY <1>3, <1>4 DEF VdecParts
  <2> QED
    BY <2>1, <2>2
<1>6. HasAdec => HasAudio
  BY DEF HasAdec, HasAudio
<1> HIDE DEF vdecs, Adecs, Aos
<1> QED
  BY <1>3, <1>4, <1>5, <1>6 DEF Needed, Destroyed, DestroyVdec, DestoryDeviceAo, VdecParts, AoParts

\* RKADK_PLAYER_Stop destroys what Prepare created, and nothing of nothing.
LEMMA AllDestroyed == Destroyed(Needed) = {} /\ Destroyed({}) = {}
<1>1. HasAdec => HasAudio
  BY DEF HasAdec, HasAudio
<1> QED
  BY <1>1 DEF Needed, Destroyed, DestroyVdec, DestoryDeviceAo, VdecParts, AoParts

-----------------------------------------------------------------------------
(* Steps of the other threads                                              *)

\* Neither the demuxer's threads nor the sending thread start a thread, and
\* but for SetEof they leave the status alone.
LEMMA ReadersKeep ==
  ASSUME Fields, VideoThread \/ AudioThread
  PROVE  /\ Fields' /\ UNCHANGED <<chans, file, app, snd>> /\ h'.status = h.status
         /\ Quiet => Quiet'
<1>1. CASE VideoRead
  BY <1>1 DEF VideoRead, Skip, Fields, Quiet
<1>2. CASE VideoSend
  BY <1>2 DEF VideoSend, Skip, Fields, Quiet
<1>3. CASE AudioRead
  BY <1>3 DEF AudioRead, Skip, Fields, Quiet
<1>4. CASE AudioSeekEnd
  BY <1>4 DEF AudioSeekEnd, Fields, Quiet
<1>5. CASE AudioSend
  BY <1>5 DEF AudioSend, Skip, Fields, Quiet
<1>6. CASE WavRead
  BY <1>6 DEF WavRead, Skip, Fields, Quiet
<1>7. CASE WavSend
  BY <1>7 DEF WavSend, Skip, Fields, Quiet
<1> QED
  BY <1>1, <1>2, <1>3, <1>4, <1>5, <1>6, <1>7 DEF VideoThread, AudioThread

Showing ==
  \/ SendLoop \/ FirstFrame \/ FirstFrameEnd \/ Gate \/ SendPicture \/ SendSound \/ SendSoundEnd
  \/ SendNoSound \/ SyncPicture \/ SyncAgain \/ SendTail \/ SendVideo \/ SendAudio \/ ReportEof

LEMMA SenderKeeps ==
  ASSUME Fields, Showing
  PROVE  /\ Fields' /\ UNCHANGED <<chans, file, app, rd>> /\ h'.status = h.status
         /\ ~Quiet
<1>1. CASE SendLoop
  BY <1>1 DEF SendLoop, Fields, Quiet
<1>2. CASE FirstFrame
  BY <1>2 DEF FirstFrame, Fields, Quiet
<1>3. CASE FirstFrameEnd \/ Gate
  BY <1>3 DEF FirstFrameEnd, Gate, Fields, Quiet
<1>4. CASE SendPicture
  BY <1>4 DEF SendPicture, Fields, Quiet
<1>5. CASE SendSound
  BY <1>5 DEF SendSound, Fields, Quiet
<1>6. CASE SendSoundEnd
  BY <1>6 DEF SendSoundEnd, Fields, Quiet
<1>7. CASE SendNoSound
  BY <1>7 DEF SendNoSound, Fields, Quiet
<1>8. CASE SyncPicture
  BY <1>8 DEF SyncPicture, TakePicture, FlagVideoEnd, Fields, Quiet
<1>9. CASE SyncAgain
  BY <1>9 DEF SyncAgain, TakePicture, FlagVideoEnd, Fields, Quiet
<1>10. CASE SendTail
  BY <1>10 DEF SendTail, FlagVideoEnd, Fields, Quiet
<1>11. CASE SendVideo
  BY <1>11 DEF SendVideo, Fields, Quiet
<1>12. CASE SendAudio
  BY <1>12 DEF SendAudio, Fields, Quiet
<1>13. CASE ReportEof
  BY <1>13 DEF ReportEof, Fields, Quiet
<1> QED
  BY <1>1, <1>2, <1>3, <1>4, <1>5, <1>6, <1>7, <1>8, <1>9, <1>10, <1>11, <1>12, <1>13 DEF Showing

LEMMA OthersKeepInv ==
  ASSUME IInv, VideoThread \/ AudioThread \/ Sender
  PROVE  IInv'
<1>1. CASE VideoThread \/ AudioThread
  <2>1. /\ Fields' /\ UNCHANGED <<chans, file, app, snd>> /\ h'.status = h.status
        /\ Quiet => Quiet'
    BY <1>1, ReadersKeep DEF IInv
  <2>2. Needed' = Needed /\ (Nothing => Nothing')
    BY <2>1 DEF Needed, HasVideo, HasAudio, HasAdec, Nothing
  <2> QED
    BY <2>1, <2>2 DEF IInv, ByStatus, ByPlace
<1>2. CASE Showing
  <2>1. /\ Fields' /\ UNCHANGED <<chans, file, app, rd>> /\ h'.status = h.status
        /\ ~Quiet
    BY <1>2, SenderKeeps DEF IInv
  <2>2. Needed' = Needed /\ ~Nothing
    BY <2>1 DEF Needed, HasVideo, HasAudio, HasAdec, Nothing
  <2> QED
    BY <2>1, <2>2 DEF IInv, ByStatus, ByPlace
<1>3. CASE SetEof
  <2>1. ~Nothing
    BY <1>3 DEF SetEof, Nothing, Quiet
  <2>2. Fields' /\ UNCHANGED <<chans, file, app>> /\ h'.status = "EOF"
    BY <1>3 DEF SetEof, IInv, Fields
  <2>3. chans = Needed
    BY <2>1 DEF IInv, ByStatus, Statuses
  <2>4. chans' = Needed'
    BY <2>2, <2>3 DEF Needed, HasVideo, HasAudio, HasAdec
  <2>5. ByStatus'
    BY <2>2, <2>4 DEF ByStatus, Statuses
  <2>6. ByPlace'
    BY <2>1, <2>2, <2>3, <2>4 DEF IInv, ByPlace
  <2> QED
    BY <2>2, <2>5, <2>6 DEF IInv
<1> QED
  BY <1>1, <1>2, <1>3 DEF Sender, Showing

-----------------------------------------------------------------------------
(* Steps of the application                                                *)

\* A step that moves the application and leaves threads and channels alone.
LEMMA Moves ==
  ASSUME IInv, Fields', UNCHANGED <<chans, file, snd, rd>>, h'.status = h.status,
         app.pc \notin {"readers", "join"}, app'.pc \notin {"readers", "join", "playing", "paused"},
         h.status = "GONE" => app'.pc = "idle",
         app'.pc = "free" => Nothing
  PROVE  IInv'
<1>1. Needed' = Needed /\ Nothing' = Nothing
  BY DEF Needed, HasVideo, HasAudio, HasAdec, Nothing, Quiet
<1>2. ByStatus'
  BY <1>1 DEF IInv, ByStatus
<1>3. ByPlace'
  BY <1>1 DEF IInv, ByPlace
<1> QED
  BY <1>2, <1>3 DEF IInv

LEMMA BeginsKeepInv ==
  ASSUME IInv, Begins
  PROVE  IInv'
<1>1. ASSUME NEW op, NEW pc \in {"open", "prepare", "play", "pause", "stop"}, Begin(op, pc)
      PROVE  IInv'
  <2>1. Fields' /\ UNCHANGED <<h, chans, file, snd, rd>> /\ app'.pc = pc /\ app.pc = "idle"
        /\ h.status # "GONE"
    BY <1>1 DEF Begin, IInv, Fields, Idle
  <2> QED
    BY <2>1, Moves
<1>2. CASE BeginSeek
  <2>1. /\ UNCHANGED <<chans, file, snd, rd>> /\ h'.status = h.status /\ "status" \in DOMAIN h'
        /\ app.pc = "idle" /\ h.status # "GONE"
    BY <1>2 DEF BeginSeek, IInv, Fields
  <2>2. {"pc", "op", "was", "keep"} \subseteq DOMAIN app' /\ app'.pc \in {"open", "stop"}
    BY <1>2 DEF BeginSeek, Idle
  <2>3. Fields'
    BY <2>1, <2>2 DEF IInv, Fields
  <2> QED
    BY <2>1, <2>2, <2>3, Moves
<1> QED
  BY <1>1, <1>2 DEF Begins, BeginOpen, BeginPrepare, BeginPlay, BeginPause, BeginStop, BeginDestroy

LEMMA OpensKeepInv ==
  ASSUME IInv, SetDataSource
  PROVE  IInv'
<1>1. app.pc = "open" /\ UNCHANGED <<chans, snd, rd>>
  BY DEF SetDataSource
<1>2. Quiet' = Quiet
  BY <1>1 DEF Quiet
<1>3. h.status # "GONE"
  BY <1>1 DEF IInv, ByPlace
<1>4. CASE h.status \notin {"IDLE", "STOP"}
  <2>1. UNCHANGED file /\ Fields' /\ h'.status = h.status /\ app'.pc = "idle"
    BY <1>4 DEF SetDataSource, Fails, Return, IInv, Fields
  <2> QED
    BY <1>1, <2>1, Moves
<1>5. CASE h.status \in {"IDLE", "STOP"}
  <2>1. Nothing
    BY <1>1, <1>5 DEF IInv, ByStatus, ByPlace
  <2>2. Nothing'
    BY <1>1, <1>2, <2>1 DEF Nothing
  <2>3. /\ Fields' /\ h'.status \in {"IDLE", "STOP", "INIT"}
        /\ app'.pc \in {"idle", "prepare"}
    BY <1>5 DEF SetDataSource, Fails, Return, App, IInv, Fields
  <2> QED
    BY <2>2, <2>3 DEF IInv, ByStatus, ByPlace, Statuses
<1> QED
  BY <1>4, <1>5

LEMMA PrepareKeepsInv ==
  ASSUME IInv, Prepare
  PROVE  IInv'
<1>1. app.pc = "prepare" /\ UNCHANGED <<file, snd, rd>>
  BY DEF Prepare
<1>2. Quiet' = Quiet /\ Needed' = Needed
  BY <1>1 DEF Quiet, Needed, HasVideo, HasAudio, HasAdec
<1>3. CASE h.status # "INIT"
  <2>1. UNCHANGED chans /\ Fields' /\ h'.status = h.status /\ app'.pc = "idle"
    BY <1>3 DEF Prepare, Fails, Return, IInv, Fields
  <2> QED
    BY <1>1, <2>1, Moves
<1>4. CASE h.status = "INIT"
  <2>1. Nothing
    BY <1>4 DEF IInv, ByStatus
  <2>2. PICK c \in Prepared :
          IF Needed \subseteq c
          THEN /\ chans' = c
               /\ h' = [h EXCEPT !.status = "PREPARED", !.seekTs = IF InSeek THEN app.target ELSE @]
               /\ IF InSeek THEN App("play") ELSE Return
          ELSE chans' = Destroyed(c) /\ Fails
    BY <1>4 DEF Prepare
  <2>3. IF Needed \subseteq c THEN c = Needed ELSE Destroyed(c) = {}
    BY <2>1, PreparedAll DEF Nothing
  <2>4. CASE Needed \subseteq c
    <3>1. /\ Fields' /\ chans' = Needed' /\ h'.status = "PREPARED"
          /\ app'.pc \in {"play", "idle"}
      BY <1>1, <1>2, <2>2, <2>3, <2>4 DEF App, Return, IInv, Fields
    <3> QED
      BY <3>1 DEF IInv, ByStatus, ByPlace, Statuses
  <2>5. CASE ~(Needed \subseteq c)
    <3>1. Fields' /\ chans' = {} /\ h'.status = "INIT" /\ app'.pc = "idle"
      BY <1>1, <1>4, <2>2, <2>3, <2>5 DEF Fails, Return, IInv, Fields
    <3>2. Nothing'
      BY <1>2, <2>1, <3>1 DEF Nothing
    <3> QED
      BY <3>1, <3>2 DEF IInv, ByStatus, ByPlace, Statuses
  <2> QED
    BY <2>4, <2>5
<1> QED
  BY <1>3, <1>4

\* What starts reading are the two threads, and nobody sends without one.
LEMMA StartShape ==
  ASSUME IInv, PlayStart
  PROVE  /\ "pc" \in DOMAIN snd'
         /\ DOMAIN rd' = {"v", "a"} /\ \A k \in {"v", "a"} : "pc" \in DOMAIN rd'[k]
<1> DEFINE Started(key) ==
      [k \in {"v", "a"} |->
         IF (k = "v" /\ HasVideo) \/ (k = "a" /\ HasAudio)
         THEN [NoReader EXCEPT !.pc = "read", !.at = IF key < Length(k) THEN key ELSE Length(k)]
         ELSE NoReader]
<1>1. /\ \E key \in IF h.seek = "WAIT" THEN 0 .. h.seekTs ELSE {0} : rd' = Started(key)
      /\ snd' \in {NoSender, [NoSender EXCEPT !.pc = "loop"]}
  BY DEF PlayStart, ReadPacketStart
<1>2. "pc" \in DOMAIN NoSender /\ "pc" \in DOMAIN NoReader
  BY DEF NoSender, NoReader
<1> QED
  BY <1>1, <1>2

LEMMA PlayKeepsInv ==
  ASSUME IInv, Play
  PROVE  IInv'
<1>1. app.pc = "play" /\ UNCHANGED <<file, chans>>
  BY DEF Play, PlayStart, PlayResume, PlayFails
<1>2. Needed' = Needed
  BY <1>1 DEF Needed, HasVideo, HasAudio, HasAdec
<1>3. CASE PlayStart
  <2>1. h.status = "PREPARED" /\ chans = Needed
    BY <1>3 DEF PlayStart, IInv, ByStatus
  <2>2. /\ h'.status = h.status /\ app'.pc \in {"playing", "idle"}
        /\ "status" \in DOMAIN h' /\ {"pc", "op", "was", "keep"} \subseteq DOMAIN app'
    BY <1>3 DEF PlayStart, App, Fails, Return, IInv, Fields
  <2>3. Fields'
    BY <1>3, <2>2, StartShape DEF Fields
  <2> QED
    BY <1>1, <1>2, <2>1, <2>2, <2>3 DEF IInv, ByStatus, ByPlace, Statuses
<1>4. CASE PlayResume
  <2>1. h.status = "PAUSE" /\ chans = Needed
    BY <1>4 DEF PlayResume, IInv, ByStatus
  <2>2. Fields' /\ UNCHANGED h /\ app'.pc = "playing"
    BY <1>4 DEF PlayResume, App, IInv, Fields
  <2> QED
    BY <1>1, <1>2, <2>1, <2>2 DEF IInv, ByStatus, ByPlace, Statuses
<1>5. CASE PlayFails
  <2>1. UNCHANGED <<snd, rd>> /\ Fields' /\ h'.status = h.status /\ app'.pc = "idle"
    BY <1>5 DEF PlayFails, Fails, Return, IInv, Fields
  <2> QED
    BY <1>1, <2>1, Moves
<1> QED
  BY <1>3, <1>4, <1>5 DEF Play

LEMMA PlayingKeepsInv ==
  ASSUME IInv, SetPlay \/ Pause \/ SetPause \/ SeekDoing
  PROVE  IInv'
<1>1. UNCHANGED <<file, chans, snd, rd>> /\ app.pc \in {"playing", "pause", "paused", "doing"}
  BY DEF SetPlay, Pause, SetPause, SeekDoing
<1>2. Needed' = Needed /\ Nothing' = Nothing
  BY <1>1 DEF Needed, HasVideo, HasAudio, HasAdec, Nothing, Quiet
<1>3. CASE SetPlay \/ SetPause
  <2>1. chans = Needed
    BY <1>3 DEF SetPlay, SetPause, IInv, ByPlace
  <2>2. /\ Fields' /\ h'.status \in {"PLAY", "PAUSE"}
        /\ app'.pc \in {"pause", "doing", "idle"}
    BY <1>3 DEF SetPlay, SetPause, App, Return, IInv, Fields
  <2> QED
    BY <1>1, <1>2, <2>1, <2>2 DEF IInv, ByStatus, ByPlace, Statuses
<1>4. CASE Pause
  <2>1. /\ Fields' /\ UNCHANGED h
        /\ (h.status = "PLAY" /\ app'.pc = "paused") \/ app'.pc \in {"doing", "idle"}
    BY <1>4 DEF Pause, App, Return, IInv, Fields
  <2>2. CASE h.status = "PLAY" /\ app'.pc = "paused"
    <3>1. chans = Needed
      BY <2>2 DEF IInv, ByStatus
    <3> QED
      BY <1>1, <1>2, <2>1, <2>2, <3>1 DEF IInv, ByStatus, ByPlace, Statuses
  <2>3. CASE app'.pc \in {"doing", "idle"}
    <3>1. h.status # "GONE"
      BY <1>1 DEF IInv, ByPlace
    <3> QED
      BY <1>1, <2>1, <2>3, <3>1, Moves
  <2> QED
    BY <2>1, <2>2, <2>3
<1>5. CASE SeekDoing
  <2>1. Fields' /\ h'.status = h.status /\ app'.pc = "idle"
    BY <1>5 DEF SeekDoing, Return, IInv, Fields
  <2> QED
    BY <1>1, <2>1, Moves
<1> QED
  BY <1>3, <1>4, <1>5

LEMMA StopKeepsInv ==
  ASSUME IInv, Stop
  PROVE  IInv'
<1>1. app.pc = "stop" /\ UNCHANGED <<file, chans, snd>>
  BY DEF Stop
<1>2. Needed' = Needed
  BY <1>1 DEF Needed, HasVideo, HasAudio, HasAdec
<1>3. CASE h.status \in {"IDLE", "INIT", "STOP"}
  <2>1. Nothing
    BY <1>1, <1>3 DEF IInv, ByStatus, ByPlace
  <2>2. /\ UNCHANGED <<h, rd>> /\ Fields' /\ app'.pc \in {"open", "free", "idle"}
    BY <1>3 DEF Stop, AfterStop, App, Return, IInv, Fields
  <2> QED
    BY <1>1, <1>3, <2>1, <2>2, Moves
<1>4. CASE h.status \notin {"IDLE", "INIT", "STOP"}
  <2>1. h.status \in {"PREPARED", "PLAY", "PAUSE", "EOF"}
    BY <1>1, <1>4 DEF IInv, ByStatus, ByPlace, Statuses
  <2>2. /\ h' = [h EXCEPT !.status = "STOP", !.seek = "NO", !.seekTs = 0]
        /\ rd' = [k \in {"v", "a"} |-> [rd[k] EXCEPT !.stop = TRUE]]
        /\ app' = [app EXCEPT !.pc = "readers", !.was = h.status, !.keep = h.seek = "WAIT"]
    BY <1>4 DEF Stop
  <2>3. \A k \in {"v", "a"} : "pc" \in DOMAIN rd'[k] /\ rd'[k].pc = rd[k].pc
    BY <2>2 DEF IInv, Fields
  <2>4. Fields' /\ h'.status = "STOP" /\ app'.pc = "readers" /\ app'.was = h.status
    BY <1>1, <2>2, <2>3 DEF IInv, Fields
  <2>5. Nothing' = Nothing
    BY <1>1, <2>3 DEF Nothing, Quiet
  <2>6. chans = Needed \/ (Nothing /\ h.status = "EOF")
    BY <2>1 DEF IInv, ByStatus
  <2> QED
    BY <1>1, <1>2, <2>1, <2>4, <2>5, <2>6 DEF IInv, ByStatus, ByPlace, Statuses
<1> QED
  BY <1>3, <1>4

LEMMA StopReadersKeepsInv ==
  ASSUME IInv, StopReaders
  PROVE  IInv'
<1>1. UNCHANGED <<file, chans, snd, rd>> /\ app.pc = "readers"
  BY DEF StopReaders
<1>2. Needed' = Needed /\ Nothing' = Nothing
  BY <1>1 DEF Needed, HasVideo, HasAudio, HasAdec, Nothing, Quiet
<1>3. Fields' /\ h'.status = h.status /\ app'.pc = "join" /\ app'.was = app.was
  BY DEF StopReaders, App, IInv, Fields
<1> QED
  BY <1>1, <1>2, <1>3 DEF IInv, ByStatus, ByPlace

LEMMA StopReleaseKeepsInv ==
  ASSUME IInv, StopRelease
  PROVE  IInv'
<1>1. /\ app.pc = "join" /\ UNCHANGED file
      /\ chans' = Destroyed(chans) /\ snd' = NoSender /\ rd' = [k \in {"v", "a"} |-> NoReader]
  BY DEF StopRelease
<1>2. /\ h.status \in {"STOP", "EOF"} /\ app.was \in {"PREPARED", "PLAY", "PAUSE", "EOF"}
      /\ app.was # "EOF" => chans = Needed
      /\ chans = Needed \/ chans = {}
  BY <1>1 DEF IInv, ByStatus, ByPlace, Nothing
<1>3. Nothing'
  BY <1>1, <1>2, AllDestroyed DEF Nothing, Quiet, NoSender, NoReader
<1>4. CASE Needed \subseteq chans
  <2>1. h'.status = h.status /\ "status" \in DOMAIN h' /\ AfterStop
    BY <1>4 DEF StopRelease, IInv, Fields
  <2>2. Fields' /\ app'.pc \in {"open", "free", "idle"}
    BY <1>1, <2>1 DEF AfterStop, App, Return, NoSender, NoReader, IInv, Fields
  <2> QED
    BY <1>2, <1>3, <2>1, <2>2 DEF IInv, ByStatus, ByPlace, Statuses
<1>5. CASE ~(Needed \subseteq chans)
  <2>1. app.was = "EOF"
    BY <1>2, <1>5
  <2>2. h'.status = app.was /\ "status" \in DOMAIN h' /\ Return
    BY <1>5 DEF StopRelease, IInv, Fields
  <2>3. Fields' /\ app'.pc = "idle"
    BY <1>1, <2>2 DEF Return, NoSender, NoReader, IInv, Fields
  <2> QED
    BY <1>3, <2>1, <2>2, <2>3 DEF IInv, ByStatus, ByPlace, Statuses
<1> QED
  BY <1>4, <1>5

LEMMA DestroyKeepsInv ==
  ASSUME IInv, Destroy
  PROVE  IInv'
<1>1. UNCHANGED <<file, chans, snd, rd>> /\ app.pc = "free"
  BY DEF Destroy
<1>2. Nothing /\ Nothing' = Nothing
  BY <1>1 DEF Nothing, Quiet, IInv, ByPlace
<1>3. Fields' /\ h'.status = "GONE" /\ app'.pc = "idle"
  BY DEF Destroy, Return, IInv, Fields
<1> QED
  BY <1>2, <1>3 DEF IInv, ByStatus, ByPlace, Statuses

-----------------------------------------------------------------------------
(* The invariant and the properties                                        *)

LEMMA InitInv == Init => IInv
<1> SUFFICES ASSUME Init PROVE IInv
  OBVIOUS
<1>1. Fields
  BY DEF Init, Fields, NoSender, Idle, NoReader
<1>2. Nothing /\ h.status = "IDLE" /\ app.pc = "idle"
  BY DEF Init, Nothing, Quiet, NoSender, NoReader, Idle
<1> QED
  BY <1>1, <1>2 DEF IInv, ByStatus, ByPlace, Statuses

LEMMA NextInv == IInv /\ [Next]_vars => IInv'
<1> SUFFICES ASSUME IInv, [Next]_vars PROVE IInv'
  OBVIOUS
<1>1. CASE Begins
  BY <1>1, BeginsKeepInv
<1>2. CASE Continues
  BY <1>2, OpensKeepInv, PrepareKeepsInv, PlayKeepsInv, PlayingKeepsInv, StopKeepsInv,
     StopReadersKeepsInv, StopReleaseKeepsInv, DestroyKeepsInv DEF Continues
<1>3. CASE VideoThread \/ AudioThread \/ Sender
  BY <1>3, OthersKeepInv
<1>4. CASE UNCHANGED vars
  <2>1. UNCHANGED <<h, file, chans, snd, rd, app>>
    BY <1>4 DEF vars
  <2>2. Needed' = Needed /\ Nothing' = Nothing
    BY <2>1 DEF Needed, HasVideo, HasAudio, HasAdec, Nothing, Quiet
  <2> QED
    BY <2>1, <2>2 DEF IInv, Fields, ByStatus, ByPlace
<1> QED
  BY <1>1, <1>2, <1>3, <1>4 DEF Next

\* What exists and what runs fits the status and the place of the application
\* in every state of RKADK_PLAYER_*.
THEOREM Invariance == Spec => []IInv
<1> QED
  BY InitInv, NextInv, PTL DEF Spec

\* The demuxer's callbacks and the sending thread never use a channel of the
\* decoders or the output that does not exist, nor a handle that was freed.
THEOREM UsedOnlyWhileThere == Spec => []NoUseAfterRelease
<1>1. IInv => NoUseAfterRelease
  <2> SUFFICES ASSUME IInv, ~Quiet PROVE chans = Needed /\ h.status # "GONE"
    BY DEF NoUseAfterRelease, Quiet
  <2>1. ~Nothing
    BY DEF Nothing
  <2> QED
    BY <2>1 DEF IInv, ByStatus, Statuses
<1> QED
  BY <1>1, Invariance, PTL

\* A failed RKADK_PLAYER_Prepare and a RKADK_PLAYER_Stop leave no channel of
\* the decoders or the output behind.
THEOREM NothingIsKept == Spec => []NothingKept
<1>1. IInv => NothingKept
  BY DEF IInv, ByStatus, ByPlace, NothingKept, Nothing
<1> QED
  BY <1>1, Invariance, PTL

-----------------------------------------------------------------------------
(* The order of the pictures                                               *)

Shape ==
  /\ DOMAIN h = {"status", "seek", "seekTs", "pos", "vts", "stop"}
  /\ DOMAIN snd = {"pc", "cur", "first", "vEnd", "aEnd"}
  /\ DOMAIN app = {"pc", "op", "was", "keep", "target", "paused"}
  /\ DOMAIN rd = {"v", "a"}
  /\ \A k \in {"v", "a"} : DOMAIN rd[k] = {"pc", "at", "stop"}

Types ==
  /\ vdec \in Seq(Nat) /\ shown \in Int
  /\ h.vts \in Int /\ h.seekTs \in Nat
  /\ snd.cur \in Int
  /\ rd["v"].at \in Nat /\ (rd["v"].pc \in {"read", "send"} => rd["v"].at <= VideoLen)
  /\ app.target \in Nat /\ app.target < Eos

\* Pictures wait in their order, between the last one taken and the next one read.
Order ==
  /\ \A i, j \in 1 .. Len(vdec) : i < j => vdec[i] < vdec[j]
  /\ \A i \in 1 .. Len(vdec) : h.vts < vdec[i]
  /\ rd["v"].pc \in {"read", "send"} =>
       h.vts < rd["v"].at /\ \A i \in 1 .. Len(vdec) : vdec[i] < rd["v"].at
  /\ -1 <= snd.cur /\ snd.cur <= h.vts
  /\ shown <= h.vts

\* The first picture: the one the sending thread keeps is the last it took,
\* and in a file with sound it goes on only from the target.
Running == snd.pc \notin {"none", "done"}
Taken == {"audio", "sync", "late", "tail"}
Pairs == {"first", "picture"} \cup Taken
First ==
  /\ Running /\ file # "av" => snd.pc \notin Pairs /\ ~snd.first
  /\ snd.pc = "first" => snd.cur = -1
  /\ snd.pc \in {"sound", "video"} => file # "av"
  /\ Running /\ snd.first =>
       snd.cur = h.vts /\ snd.cur >= 0 /\ snd.pc \notin {"first", "sync", "late", "tail"}
  /\ file = "av" /\ snd.pc \in {"gate", "picture"} \cup Taken => h.vts >= h.seekTs
  /\ file = "av" /\ snd.pc = "loop" => h.vts = -1 \/ h.vts >= h.seekTs

\* Until the demuxer's callback ends the wait of a seek there is no picture.
InPlay == app.op = "seek" /\ app.pc \in {"playing", "pause", "paused", "doing"}
Sought == InPlay \/ h.seek = "VIDEO_DOING"
SeekInv ==
  /\ InPlay => h.seek = "WAIT"
  /\ Sought => /\ vdec = <<>> /\ h.vts = -1 /\ rd["v"].pc # "send"
               /\ file = "av" => snd.pc \in {"none", "loop", "first", "end", "eof", "done"}
  /\ h.seek = "VIDEO_DONE" => snd.cur \in {-1, h.vts} /\ snd.pc \notin Taken

\* A player that is not playing is empty, or only reads because the sending
\* thread could not be created, and it was opened anew for a seek.
Empty == vdec = <<>> /\ snd = NoSender /\ \A k \in {"v", "a"} : rd[k].pc = "off"
Fresh ==
  /\ h.status \in {"IDLE", "STOP"} /\ app.pc \notin {"readers", "join"} => Empty
  /\ h.status = "INIT" => Empty
  /\ h.status \in {"INIT", "PREPARED"} /\ app.pc # "playing" =>
       (Empty \/ Reading) /\ snd = NoSender /\ h.vts = -1
  /\ app.op = "seek" /\ app.pc = "prepare" => h.status = "INIT"
  /\ app.op = "seek" /\ app.pc = "play" => h.status = "PREPARED" /\ h.seek = "WAIT"
  /\ app.op = "seek" /\ app.pc \in {"stop", "open", "prepare"} => h.seek = "WAIT"
  /\ app.op = "seek" /\ app.pc \in {"readers", "join"} => app.keep
  /\ app.pc = "idle" => app.op # "seek"
  /\ app.pc = "doing" => app.op = "seek"

OInv == Shape /\ Types /\ Order /\ First /\ SeekInv /\ Fresh

\* What a step that moves the shown picture does.
Ordered == shown' \notin {shown, -1} => shown' > shown /\ (file = "av" => shown' >= h.seekTs)

-----------------------------------------------------------------------------

\* Taking a picture: it is later than the last one, and earlier than the rest.
LEMMA HeadTaken ==
  ASSUME OInv, vdec # <<>>
  PROVE  /\ Head(vdec) \in Nat /\ h.vts < Head(vdec)
         /\ rd["v"].pc \in {"read", "send"} => Head(vdec) < rd["v"].at
         /\ Tail(vdec) \in Seq(Nat)
         /\ \A i \in 1 .. Len(Tail(vdec)) :
              /\ Head(vdec) < Tail(vdec)[i] /\ h.vts < Tail(vdec)[i]
              /\ rd["v"].pc \in {"read", "send"} => Tail(vdec)[i] < rd["v"].at
         /\ \A i, j \in 1 .. Len(Tail(vdec)) : i < j => Tail(vdec)[i] < Tail(vdec)[j]
<1>1. /\ vdec \in Seq(Nat) /\ Head(vdec) = vdec[1] /\ 1 \in 1 .. Len(vdec)
      /\ Tail(vdec) \in Seq(Nat) /\ Len(Tail(vdec)) = Len(vdec) - 1
      /\ \A i \in 1 .. Len(Tail(vdec)) : Tail(vdec)[i] = vdec[i + 1] /\ i + 1 \in 1 .. Len(vdec)
  BY DEF OInv, Types
<1>2. Head(vdec) \in Nat
  BY <1>1
<1>3. /\ h.vts < Head(vdec)
      /\ rd["v"].pc \in {"read", "send"} => Head(vdec) < rd["v"].at
  BY <1>1 DEF OInv, Order
<1>4. ASSUME NEW i \in 1 .. Len(Tail(vdec))
      PROVE  /\ Head(vdec) < Tail(vdec)[i] /\ h.vts < Tail(vdec)[i]
             /\ rd["v"].pc \in {"read", "send"} => Tail(vdec)[i] < rd["v"].at
  <2>1. /\ i + 1 \in 1 .. Len(vdec) /\ 1 < i + 1 /\ Tail(vdec)[i] = vdec[i + 1]
    BY <1>1
  <2> QED
    BY <1>1, <2>1 DEF OInv, Order
<1>5. ASSUME NEW i \in 1 .. Len(Tail(vdec)), NEW j \in 1 .. Len(Tail(vdec)), i < j
      PROVE  Tail(vdec)[i] < Tail(vdec)[j]
  <2>1. /\ i + 1 \in 1 .. Len(vdec) /\ Tail(vdec)[i] = vdec[i + 1]
        /\ j + 1 \in 1 .. Len(vdec) /\ Tail(vdec)[j] = vdec[j + 1]
        /\ i + 1 < j + 1
    BY <1>1, <1>5
  <2> QED
    BY <2>1 DEF OInv, Order
<1> QED
  BY <1>1, <1>2, <1>3, <1>4, <1>5

\* While a thread runs, no place of the application promises that none does.
LEMMA BusyFresh ==
  ASSUME OInv, UNCHANGED app, h'.status \in {h.status, "EOF"},
         h.seek = "WAIT" => h'.seek = "WAIT",
         snd.pc # "none" \/ (Reading /\ Reading' /\ UNCHANGED snd /\ h'.vts = h.vts /\ h'.status = h.status)
  PROVE  Fresh'
<1>1. ~Empty
  BY DEF Empty, NoSender, Reading
<1>2. h.status # "INIT"
  BY <1>1 DEF OInv, Fresh
<1>4. h.status = "PREPARED" /\ app.pc # "playing" =>
        Reading' /\ snd' = NoSender /\ h'.vts = -1 /\ h'.status = h.status
  BY <1>1 DEF OInv, Fresh, NoSender
<1>3. h.status \in {"IDLE", "STOP"} => app.pc \in {"readers", "join"}
  BY <1>1 DEF OInv, Fresh
<1> QED
  <2>1. h'.status \in {"IDLE", "STOP"} /\ app'.pc \notin {"readers", "join"} => Empty'
    BY <1>3
  <2>2. h'.status = "INIT" => Empty'
    BY <1>2
  <2>3. h'.status \in {"INIT", "PREPARED"} /\ app'.pc # "playing" =>
          (Empty' \/ Reading') /\ snd' = NoSender /\ h'.vts = -1
    BY <1>2, <1>4
  <2>4. app'.op = "seek" /\ app'.pc = "play" => h'.status = "PREPARED" /\ h'.seek = "WAIT"
    BY <1>4 DEF OInv, Fresh
  <2>5. ~(app'.op = "seek" /\ app'.pc = "prepare")
    BY <1>2 DEF OInv, Fresh
  <2>6. /\ app'.op = "seek" /\ app'.pc \in {"stop", "open", "prepare"} => h'.seek = "WAIT"
        /\ app'.op = "seek" /\ app'.pc \in {"readers", "join"} => app'.keep
        /\ app'.pc = "idle" => app'.op # "seek"
        /\ app'.pc = "doing" => app'.op = "seek"
    BY DEF OInv, Fresh
  <2> QED
    BY <2>1, <2>2, <2>3, <2>4, <2>5, <2>6 DEF Fresh

\* Steps of the sound's reader.
LEMMA SoundRead ==
  ASSUME OInv, AudioThread
  PROVE  OInv' /\ shown' = shown
<1>1. /\ UNCHANGED <<file, vdec, snd, app, shown>> /\ h'.vts = h.vts /\ h'.seekTs = h.seekTs
      /\ h'.status = h.status /\ DOMAIN h' = DOMAIN h
      /\ h'.seek = h.seek \/ (h.seek = "DONE" /\ h'.seek = "NO")
      /\ DOMAIN rd' = {"v", "a"} /\ rd'["v"] = rd["v"] /\ DOMAIN rd'["a"] = {"pc", "at", "stop"}
      /\ rd["a"].pc # "off" /\ rd'["a"].pc # "off"
  <2>1. CASE AudioRead
    BY <2>1 DEF AudioRead, Skip, OInv, Shape
  <2>2. CASE AudioSeekEnd
    BY <2>2 DEF AudioSeekEnd, OInv, Shape
  <2>3. CASE AudioSend
    BY <2>3 DEF AudioSend, Skip, OInv, Shape
  <2>4. CASE WavRead
    <3>1. rd["a"].pc = "read" /\ rd'["a"].pc \in {"send", "end", "read"}
      BY <2>4 DEF WavRead, Skip, OInv, Shape
    <3> QED
      BY <2>4, <3>1 DEF WavRead, Skip, OInv, Shape
  <2>5. CASE WavSend
    BY <2>5 DEF WavSend, Skip, OInv, Shape
  <2> QED
    BY <2>1, <2>2, <2>3, <2>4, <2>5 DEF AudioThread
<1>2. Shape'
  BY <1>1 DEF OInv, Shape
<1>3. Types' /\ Order'
  BY <1>1 DEF OInv, Types, Order
<1>4. First' /\ SeekInv'
  BY <1>1 DEF OInv, First, SeekInv, Running, InPlay, Sought
<1>5. Fresh'
  <2>1. Reading /\ Reading'
    BY <1>1 DEF Reading
  <2> QED
    BY <1>1, <2>1, BusyFresh
<1> QED
  BY <1>1, <1>2, <1>3, <1>4, <1>5 DEF OInv

\* Steps of the sending thread that take no picture and show none.
LEMMA SentNone ==
  ASSUME OInv, UNCHANGED <<file, vdec, shown, rd, app>>, snd.pc # "none",
         h'.vts = h.vts, h'.seekTs = h.seekTs, h'.seek = h.seek, h'.status \in {h.status, "EOF"},
         DOMAIN h' = DOMAIN h, DOMAIN snd' = DOMAIN snd, snd'.cur = snd.cur,
         First', h.seek = "VIDEO_DONE" => snd'.pc \notin Taken,
         Sought /\ file = "av" => snd'.pc \in {"none", "loop", "first", "end", "eof", "done"}
  PROVE  OInv' /\ shown' = shown
<1>1. Shape' /\ Types' /\ Order'
  BY DEF OInv, Shape, Types, Order
<1>2. SeekInv'
  BY DEF OInv, SeekInv, InPlay, Sought
<1>3. Fresh'
  BY BusyFresh
<1> QED
  BY <1>1, <1>2, <1>3 DEF OInv

LEMMA LoopOrder ==
  ASSUME OInv, SendLoop \/ FirstFrameEnd \/ Gate
  PROVE  OInv' /\ shown' = shown
<1>1. /\ UNCHANGED <<h, file, vdec, shown, rd, app>> /\ snd.pc \in {"loop", "first", "gate"}
      /\ DOMAIN snd' = DOMAIN snd /\ snd'.cur = snd.cur /\ snd'.first = snd.first
      /\ h.vts \in Int /\ h.seekTs \in Nat
  BY DEF SendLoop, FirstFrameEnd, Gate, OInv, Shape, Types
<1>2. First' /\ snd'.pc \notin Taken
      /\ (Sought /\ file = "av" => snd'.pc \in {"none", "loop", "first", "end", "eof", "done"})
  <2>1. CASE SendLoop
    <3>1. snd.pc = "loop" /\
          snd'.pc = IF h.stop THEN "end" ELSE IF file = "a" THEN "sound"
                    ELSE IF file = "av" /\ h.vts < 0 THEN "first" ELSE "gate"
      BY <2>1 DEF SendLoop, OInv, Shape
    <3>2. /\ -1 <= snd.cur /\ snd.cur <= h.vts /\ snd.cur \in Int
          /\ file # "av" => ~snd.first
          /\ snd.first => snd.cur = h.vts /\ snd.cur >= 0
          /\ file = "av" => h.vts = -1 \/ h.vts >= h.seekTs
          /\ Sought => h.vts = -1
      BY <3>1 DEF OInv, Types, First, SeekInv, Order, Running
    <3>3. snd'.pc = "first" => h.vts = -1 /\ snd.cur = -1 /\ ~snd.first /\ file = "av"
      BY <1>1, <3>1, <3>2
    <3>4. file = "av" /\ snd'.pc = "gate" => h.vts >= h.seekTs /\ h.vts # -1
      BY <1>1, <3>1, <3>2
    <3> HIDE DEF Sought
    <3> QED
      BY <1>1, <3>1, <3>2, <3>3, <3>4 DEF First, Running, Taken, Pairs
  <2>2. CASE FirstFrameEnd
    <3>1. snd.pc = "first" /\ h.vts >= h.seekTs /\ snd'.pc = "gate"
      BY <2>2 DEF FirstFrameEnd, OInv, Shape
    <3> QED
      BY <1>1, <3>1 DEF OInv, First, SeekInv, Running, Taken, Pairs
  <2>3. CASE Gate
    <3>1. snd.pc = "gate" /\
          snd'.pc \in IF file = "av" THEN {"loop", "picture"} ELSE {"loop", "video"}
      BY <2>3 DEF Gate, OInv, Shape
    <3> QED
      BY <1>1, <3>1 DEF OInv, First, SeekInv, Running, Taken, Pairs
  <2> QED
    BY <2>1, <2>2, <2>3
<1> QED
  BY <1>1, <1>2, SentNone

LEMMA SoundOrder ==
  ASSUME OInv, SendSound \/ SendSoundEnd \/ SendNoSound \/ SendAudio \/ ReportEof \/ SetEof
  PROVE  OInv' /\ shown' = shown
<1>1. /\ UNCHANGED <<file, vdec, shown, rd, app>> /\ snd.pc \in {"audio", "sound", "end", "eof"}
      /\ DOMAIN h' = DOMAIN h /\ DOMAIN snd' = DOMAIN snd /\ snd'.cur = snd.cur
      /\ h'.vts = h.vts /\ h'.seekTs = h.seekTs /\ h'.seek = h.seek
      /\ h'.status \in {h.status, "EOF"}
      /\ h.vts \in Int /\ h.seekTs \in Nat
  <2>1. CASE SendSound
    BY <2>1 DEF SendSound, OInv, Shape, Types
  <2>2. CASE SendSoundEnd
    BY <2>2 DEF SendSoundEnd, OInv, Shape, Types
  <2>3. CASE SendNoSound
    BY <2>3 DEF SendNoSound, OInv, Shape, Types
  <2>4. CASE SendAudio
    BY <2>4 DEF SendAudio, OInv, Shape, Types
  <2>5. CASE ReportEof
    BY <2>5 DEF ReportEof, OInv, Shape, Types
  <2>6. CASE SetEof
    BY <2>6 DEF SetEof, OInv, Shape, Types
  <2> QED
    BY <2>1, <2>2, <2>3, <2>4, <2>5, <2>6
<1>2. \/ /\ snd.pc = "audio" /\ snd'.pc \in {"loop", "sync", "tail"} /\ snd'.first = FALSE
      \/ /\ snd.pc = "audio" /\ snd'.pc = "loop" /\ snd'.first = snd.first
      \/ /\ snd.pc = "sound" /\ snd'.pc \in {"loop", "end"} /\ snd'.first = snd.first
      \/ /\ snd.pc \in {"end", "eof"} /\ snd'.pc \in {"eof", "done"} /\ snd'.first = snd.first
  <2>1. CASE SendSound
    BY <2>1 DEF SendSound, OInv, Shape
  <2>2. CASE SendSoundEnd
    BY <2>2 DEF SendSoundEnd, OInv, Shape
  <2>3. CASE SendNoSound
    BY <2>3 DEF SendNoSound, OInv, Shape
  <2>4. CASE SendAudio
    BY <2>4 DEF SendAudio, OInv, Shape
  <2>5. CASE ReportEof \/ SetEof
    BY <2>5 DEF ReportEof, SetEof, OInv, Shape
  <2> QED
    BY <2>1, <2>2, <2>3, <2>4, <2>5
<1>3. First'
  <2>1. CASE snd.pc = "audio"
    <3>1. /\ file = "av" /\ h.vts >= h.seekTs
          /\ snd.first => snd.cur = h.vts /\ snd.cur >= 0
      BY <2>1 DEF OInv, First, Running, Taken, Pairs
    <3> QED
      BY <1>1, <1>2, <2>1, <3>1 DEF First, Running, Taken, Pairs
  <2>2. CASE snd.pc # "audio"
    <3>1. /\ snd.first => snd.cur = h.vts /\ snd.cur >= 0
          /\ file # "av" => ~snd.first
      BY <1>1, <2>2 DEF OInv, First, Running
    <3>2. snd'.pc = "loop" => file # "av"
      BY <1>1, <1>2, <2>2 DEF OInv, First
    <3> QED
      BY <1>1, <1>2, <2>2, <3>1, <3>2 DEF First, Running, Taken, Pairs
  <2> QED
    BY <2>1, <2>2
<1>4. /\ h.seek = "VIDEO_DONE" => snd'.pc \notin Taken
      /\ Sought /\ file = "av" => snd'.pc \in {"none", "loop", "first", "end", "eof", "done"}
  BY <1>1, <1>2 DEF OInv, SeekInv, Taken
<1> QED
  BY <1>1, <1>3, <1>4, SentNone
-----------------------------------------------------------------------------

\* The reader of the picture adds the next packet behind all others.
LEMMA PictureRead ==
  ASSUME OInv, VideoRead
  PROVE  OInv' /\ shown' = shown
<1>1. /\ UNCHANGED <<file, vdec, snd, app, shown>> /\ rd["v"].pc = "read"
      /\ h'.vts = h.vts /\ h'.seekTs = h.seekTs /\ h'.status = h.status /\ DOMAIN h' = DOMAIN h
      /\ DOMAIN rd' = {"v", "a"} /\ rd'["a"] = rd["a"] /\ DOMAIN rd'["v"] = {"pc", "at", "stop"}
  BY DEF VideoRead, Skip, OInv, Shape
<1>2. /\ h.vts \in Int /\ h.seekTs \in Nat /\ rd["v"].at \in Nat /\ rd["v"].at <= VideoLen
      /\ app.target < Eos /\ app.target \in Nat /\ Eos \in Nat /\ VideoLen \in Nat /\ VideoLen < Eos
  BY <1>1, TimesAssumption DEF OInv, Types
<1>3. Shape'
  BY <1>1 DEF OInv, Shape
<1>4. CASE Packet("v") # Eos /\ h.seek = "WAIT"
  <2>1. /\ h'.seek = h.seek /\ rd'["v"].pc = "read" /\ rd'["v"].at = rd["v"].at + 1
    BY <1>4 DEF VideoRead, Skip, OInv, Shape
  <2>2. rd["v"].at # VideoLen
    BY <1>4 DEF Packet, Length
  <2>3. Types'
    BY <1>1, <1>2, <2>1, <2>2 DEF OInv, Types
  <2>4. Order'
    <3>1. \A i \in 1 .. Len(vdec) : vdec[i] \in Nat /\ vdec[i] < rd["v"].at
      <4>1. vdec \in Seq(Nat)
        BY DEF OInv, Types
      <4>2. \A i \in 1 .. Len(vdec) : vdec[i] < rd["v"].at
        BY <1>1 DEF OInv, Order
      <4> QED
        BY <4>1, <4>2
    <3>2. h.vts < rd["v"].at
      BY <1>1 DEF OInv, Order
    <3>3. h.vts < rd["v"].at + 1 /\ \A i \in 1 .. Len(vdec) : vdec[i] < rd["v"].at + 1
      BY <1>2, <3>1, <3>2
    <3> QED
      BY <1>1, <2>1, <3>3 DEF OInv, Order
  <2>5. First' /\ SeekInv'
    BY <1>1, <2>1 DEF OInv, First, SeekInv, Running, InPlay, Sought
  <2>6. Fresh'
    <3>1. Reading /\ Reading' /\ (h.seek = "WAIT" => h'.seek = "WAIT")
      BY <1>1, <2>1 DEF Reading
    <3> QED
      BY <1>1, <2>1, <3>1, BusyFresh
  <2> QED
    BY <1>1, <1>3, <2>3, <2>4, <2>5, <2>6 DEF OInv
<1>5. CASE ~(Packet("v") # Eos /\ h.seek = "WAIT")
  <2>1. /\ rd'["v"].pc = "send" /\ rd'["v"].at = rd["v"].at
        /\ h'.seek = IF h.seek = "VIDEO_DOING" THEN "VIDEO_DONE"
                     ELSE IF h.seek = "DONE" /\ ~HasAudio THEN "NO" ELSE h.seek
    BY <1>5 DEF VideoRead, OInv, Shape
  <2>2. ~InPlay
    <3>1. SUFFICES ASSUME InPlay PROVE FALSE
      OBVIOUS
    <3>2. h.seek = "WAIT" /\ Packet("v") = Eos
      BY <1>5, <3>1 DEF OInv, SeekInv
    <3>3. Eos < app.target
      BY <3>1, <3>2 DEF InPlay, VideoRead, SeekIsQuick
    <3> QED
      BY <1>2, <3>3
  <2>3. Types' /\ Order'
    BY <1>1, <1>2, <2>1 DEF OInv, Types, Order
  <2>4. First'
    BY <1>1 DEF OInv, First, Running
  <2>5. SeekInv'
    <3>1. ~InPlay' /\ ~Sought'
      BY <1>1, <2>1, <2>2 DEF InPlay, Sought
    <3>2. CASE h.seek = "VIDEO_DOING"
      <4>1. h.vts = -1 /\ (file = "av" => snd.pc \in {"none", "loop", "first", "end", "eof", "done"})
        BY <3>2 DEF OInv, SeekInv, Sought
      <4>2. snd.cur = -1
        BY <4>1 DEF OInv, Order, Types
      <4>3. snd.pc \notin Taken
        BY <4>1 DEF OInv, First, Running, Taken, Pairs
      <4> QED
        BY <1>1, <3>1, <4>2, <4>3 DEF SeekInv
    <3>3. CASE h.seek # "VIDEO_DOING"
      BY <1>1, <2>1, <3>1, <3>3 DEF OInv, SeekInv
    <3> QED
      BY <3>2, <3>3
  <2>6. Fresh'
    <3>1. Reading /\ Reading' /\ (h.seek = "WAIT" => h'.seek = "WAIT")
      BY <1>1, <2>1 DEF Reading
    <3> QED
      BY <1>1, <2>1, <3>1, BusyFresh
  <2> QED
    BY <1>1, <1>3, <2>3, <2>4, <2>5, <2>6 DEF OInv
<1> QED
  BY <1>4, <1>5

LEMMA PictureSent ==
  ASSUME OInv, VideoSend
  PROVE  OInv' /\ shown' = shown
<1> DEFINE p == Packet("v")
<1>1. /\ UNCHANGED <<h, file, snd, app, shown>> /\ rd["v"].pc = "send"
      /\ DOMAIN rd' = {"v", "a"} /\ rd'["a"] = rd["a"] /\ DOMAIN rd'["v"] = {"pc", "at", "stop"}
      /\ rd'["v"].pc = (IF p = Eos THEN "end" ELSE "read") /\ rd'["v"].at = rd["v"].at + 1
      /\ vdec' = Append(vdec, p)
  BY DEF VideoSend, Skip, OInv, Shape
<1>2. /\ h.vts \in Int /\ rd["v"].at \in Nat /\ rd["v"].at <= VideoLen
      /\ Eos \in Nat /\ VideoLen \in Nat /\ VideoLen < Eos /\ vdec \in Seq(Nat)
  BY <1>1, TimesAssumption DEF OInv, Types
<1>3. p = Eos \/ (p = rd["v"].at /\ p # VideoLen)
  BY DEF Packet, Length
<1> HIDE DEF p
<1>4. /\ h.vts < p /\ p \in Nat /\ p >= rd["v"].at
      /\ \A i \in 1 .. Len(vdec) : vdec[i] < p
  <2>1. /\ h.vts < rd["v"].at /\ \A i \in 1 .. Len(vdec) : vdec[i] < rd["v"].at
    BY <1>1 DEF OInv, Order
  <2>2. p \in Nat /\ p >= rd["v"].at
    BY <1>2, <1>3
  <2>3. \A i \in 1 .. Len(vdec) : vdec[i] \in Nat
    BY <1>2
  <2> QED
    BY <1>2, <2>1, <2>2, <2>3
<1>5. /\ vdec' \in Seq(Nat) /\ Len(vdec') = Len(vdec) + 1 /\ vdec'[Len(vdec) + 1] = p
      /\ \A i \in 1 .. Len(vdec) : vdec'[i] = vdec[i]
  BY <1>1, <1>2, <1>4
<1>6. \A i \in 1 .. Len(vdec') : i \in 1 .. Len(vdec) \/ i = Len(vdec) + 1
  BY <1>2, <1>5
<1>7. Shape'
  BY <1>1 DEF OInv, Shape
<1>8. Types'
  BY <1>1, <1>2, <1>3, <1>5 DEF OInv, Types
<1>9. Order'
  <2>1. ASSUME NEW i \in 1 .. Len(vdec'), NEW j \in 1 .. Len(vdec'), i < j
        PROVE  vdec'[i] < vdec'[j]
    <3>1. i \in 1 .. Len(vdec)
      BY <1>2, <1>5, <1>6, <2>1
    <3>2. CASE j \in 1 .. Len(vdec)
      BY <1>5, <2>1, <3>1, <3>2 DEF OInv, Order
    <3>3. CASE j = Len(vdec) + 1
      BY <1>4, <1>5, <3>1, <3>3
    <3> QED
      BY <1>6, <3>2, <3>3
  <2>2. \A i \in 1 .. Len(vdec') : h'.vts < vdec'[i]
    BY <1>1, <1>4, <1>5, <1>6 DEF OInv, Order
  <2>3. ASSUME rd'["v"].pc \in {"read", "send"}
        PROVE  h'.vts < rd'["v"].at /\ \A i \in 1 .. Len(vdec') : vdec'[i] < rd'["v"].at
    <3>1. p = rd["v"].at
      BY <1>1, <1>3, <2>3
    <3>2. \A i \in 1 .. Len(vdec') : vdec'[i] <= p /\ vdec'[i] \in Nat
      BY <1>4, <1>5, <1>6
    <3> QED
      BY <1>1, <1>2, <1>4, <3>1, <3>2
  <2> QED
    BY <1>1, <2>1, <2>2, <2>3 DEF OInv, Order
<1>10. First' /\ SeekInv'
  BY <1>1 DEF OInv, First, SeekInv, Running, InPlay, Sought
<1>11. Fresh'
  <2>1. Reading /\ Reading'
    BY <1>1 DEF Reading
  <2> QED
    BY <1>1, <2>1, BusyFresh
<1> QED
  BY <1>1, <1>7, <1>8, <1>9, <1>10, <1>11 DEF OInv

-----------------------------------------------------------------------------

\* The sending thread takes the first picture waiting; what it shows is the
\* picture taken, when it shows one.
LEMMA TakenOrder ==
  ASSUME OInv, vdec # <<>>, vdec' = Tail(vdec), UNCHANGED <<file, rd, app>>, snd.pc # "none",
         DOMAIN h' = DOMAIN h, DOMAIN snd' = DOMAIN snd,
         h'.vts \in {h.vts, Head(vdec)}, h'.seekTs = h.seekTs, h'.status = h.status,
         h.seek # "VIDEO_DOING" => h'.seek \in {h.seek, "DONE"},
         h.seek = "WAIT" => h'.seek = "WAIT",
         snd'.cur = snd.cur \/ (snd'.cur = Head(vdec) /\ h'.vts = Head(vdec)),
         shown' = shown \/ (shown' = Head(vdec) /\ h'.vts = Head(vdec)),
         First', h'.seek = "VIDEO_DONE" => snd'.cur \in {-1, h'.vts} /\ snd'.pc \notin Taken
  PROVE  OInv'
<1>1. ~Sought
  BY DEF OInv, SeekInv
<1>2. Shape'
  BY DEF OInv, Shape
<1>3. /\ Head(vdec) \in Nat /\ h.vts < Head(vdec)
      /\ h.vts \in Int /\ h.seekTs \in Nat /\ snd.cur \in Int /\ shown \in Int /\ rd["v"].at \in Nat
  BY HeadTaken DEF OInv, Types
<1>4. Types'
  BY <1>3, HeadTaken DEF OInv, Types
<1>5. Order'
  <2>1. /\ \A i, j \in 1 .. Len(vdec') : i < j => vdec'[i] < vdec'[j]
        /\ \A i \in 1 .. Len(vdec') : h'.vts < vdec'[i]
    BY HeadTaken
  <2>2. rd["v"].pc \in {"read", "send"} =>
          h'.vts < rd["v"].at /\ \A i \in 1 .. Len(vdec') : vdec'[i] < rd["v"].at
    BY HeadTaken DEF OInv, Order
  <2>3. -1 <= snd'.cur /\ snd'.cur <= h'.vts /\ shown' <= h'.vts
    BY <1>3 DEF OInv, Order
  <2> QED
    BY <2>1, <2>2, <2>3 DEF Order
<1>6. SeekInv'
  <2>1. ~Sought' /\ ~InPlay'
    BY <1>1 DEF Sought, InPlay
  <2> QED
    BY <2>1 DEF SeekInv
<1>7. Fresh'
  BY BusyFresh
<1> QED
  BY <1>2, <1>4, <1>5, <1>6, <1>7 DEF OInv
LEMMA FirstFrameOrder ==
  ASSUME OInv, FirstFrame
  PROVE  OInv' /\ shown' = shown
<1> DEFINE f == Head(vdec)
<1>1. /\ UNCHANGED <<file, rd, app, shown>> /\ snd.pc = "first" /\ h.vts < h.seekTs
      /\ vdec # <<>> /\ vdec' = Tail(vdec)
      /\ h' = [h EXCEPT !.vts = f]
      /\ snd' = IF f < h.seekTs THEN snd ELSE [snd EXCEPT !.cur = f, !.first = TRUE, !.pc = "gate"]
  BY DEF FirstFrame
<1>2. /\ DOMAIN h' = DOMAIN h /\ DOMAIN snd' = DOMAIN snd
      /\ h'.vts = f /\ h'.seekTs = h.seekTs /\ h'.status = h.status /\ h'.seek = h.seek
      /\ \/ snd' = snd /\ f < h.seekTs
         \/ snd'.cur = f /\ snd'.first = TRUE /\ snd'.pc = "gate" /\ ~(f < h.seekTs)
  BY <1>1 DEF OInv, Shape
<1>3. f \in Nat /\ h.seekTs \in Nat /\ h.vts < f
  BY <1>1, HeadTaken DEF OInv, Types
<1> HIDE DEF f
<1>4. file = "av" /\ snd.cur = -1 /\ ~snd.first
  BY <1>1 DEF OInv, First, Running, Pairs
<1>5. First'
  BY <1>1, <1>2, <1>3, <1>4 DEF First, Running, Pairs, Taken
<1>6. snd'.cur \in {-1, h'.vts} /\ snd'.pc \notin Taken
  BY <1>1, <1>2, <1>4 DEF Taken
<1> QED
  BY <1>1, <1>2, <1>5, <1>6, TakenOrder DEF f

LEMMA PictureOrder ==
  ASSUME OInv, SendPicture
  PROVE  OInv' /\ Ordered
<1> DEFINE paused == h.seek = "VIDEO_DONE" /\ h.status = "PAUSE"
<1>1. /\ UNCHANGED <<file, vdec, rd, app>> /\ snd.pc = "picture"
      /\ h' = IF h.seek = "VIDEO_DONE" THEN [h EXCEPT !.seek = "DONE"] ELSE h
      /\ shown' = shown \/ (shown' = snd.cur /\ (paused \/ snd.first))
      /\ snd' = [snd EXCEPT !.pc = IF paused THEN "loop" ELSE "audio", !.first = @ /\ ~paused]
  BY DEF SendPicture, Show
<1>2. /\ DOMAIN h' = DOMAIN h /\ DOMAIN snd' = DOMAIN snd
      /\ h'.vts = h.vts /\ h'.seekTs = h.seekTs /\ h'.status = h.status
      /\ h'.seek = IF h.seek = "VIDEO_DONE" THEN "DONE" ELSE h.seek
      /\ snd'.cur = snd.cur /\ snd'.pc \in {"loop", "audio"}
      /\ snd'.first => snd.first
  BY <1>1 DEF OInv, Shape
<1>3. /\ file = "av" /\ h.vts >= h.seekTs /\ (snd.first => snd.cur = h.vts /\ snd.cur >= 0)
      /\ h.vts \in Int /\ h.seekTs \in Nat /\ snd.cur \in Int /\ shown \in Int /\ shown <= h.vts
  BY <1>1 DEF OInv, First, Running, Pairs, Types, Order
<1>4. paused => snd.cur \in {-1, h.vts}
  BY DEF OInv, SeekInv
<1>5. ~Sought
  BY <1>1, <1>3 DEF OInv, SeekInv
<1> HIDE DEF paused
<1>6. Ordered
  BY <1>1, <1>3, <1>4 DEF Ordered
<1>7. shown' <= h'.vts /\ shown' \in Int
  BY <1>1, <1>2, <1>3, <1>4 DEF OInv, Order
<1>8. Shape' /\ Types' /\ Order'
  BY <1>1, <1>2, <1>7 DEF OInv, Shape, Types, Order
<1>9. First'
  BY <1>1, <1>2, <1>3 DEF First, Running, Pairs, Taken
<1>10. SeekInv'
  <2>1. ~Sought' /\ ~InPlay'
    BY <1>1, <1>2, <1>5 DEF Sought, InPlay
  <2> QED
    BY <1>2, <2>1 DEF SeekInv
<1>11. Fresh'
  BY <1>1, <1>2, BusyFresh
<1> QED
  BY <1>6, <1>8, <1>9, <1>10, <1>11 DEF OInv

\* A picture taken when none before it is kept back.
LEMMA LaterOrder ==
  ASSUME OInv, vdec # <<>>, vdec' = Tail(vdec), UNCHANGED <<file, rd, app>>,
         snd.pc \in {"sync", "late", "tail", "video"},
         DOMAIN h' = DOMAIN h, DOMAIN snd' = DOMAIN snd,
         h'.vts \in {h.vts, Head(vdec)}, h'.seekTs = h.seekTs, h'.status = h.status,
         snd.pc # "video" => h'.seek = h.seek /\ snd'.pc \in {"late", "loop"},
         snd.pc = "video" => /\ h'.seek = (IF h.seek = "VIDEO_DONE" THEN "DONE" ELSE h.seek)
                             /\ snd'.pc \in {"loop", "end"},
         snd'.cur = snd.cur, snd'.first = snd.first,
         shown' = shown \/ (shown' = Head(vdec) /\ h'.vts = Head(vdec))
  PROVE  OInv' /\ Ordered
<1>1. /\ snd.pc # "video" => file = "av" /\ h.vts >= h.seekTs
      /\ snd.pc = "video" => file # "av"
      /\ ~snd.first
  BY DEF OInv, First, Running, Pairs, Taken
<1>2. /\ Head(vdec) \in Nat /\ h.vts < Head(vdec)
      /\ h.vts \in Int /\ h.seekTs \in Nat /\ shown \in Int /\ shown <= h.vts
  BY HeadTaken DEF OInv, Types, Order
<1>3. First'
  BY <1>1, <1>2 DEF First, Running, Pairs, Taken
<1>4. h'.seek # "VIDEO_DONE"
  <2>1. CASE snd.pc = "video"
    BY <2>1
  <2>2. CASE snd.pc # "video"
    BY <2>2 DEF OInv, SeekInv, Taken
  <2> QED
    BY <2>1, <2>2
<1>5. OInv'
  <2>1. /\ h.seek # "VIDEO_DOING" => h'.seek \in {h.seek, "DONE"}
        /\ h.seek = "WAIT" => h'.seek = "WAIT"
    OBVIOUS
  <2> QED
    BY <1>3, <1>4, <2>1, TakenOrder
<1>6. Ordered
  BY <1>1, <1>2 DEF Ordered
<1> QED
  BY <1>5, <1>6
\* The steps of the sending thread that take one of the later pictures.
LEMMA LaterSteps ==
  ASSUME OInv, SyncPicture \/ SyncAgain \/ SendTail \/ SendVideo
  PROVE  OInv' /\ Ordered
<1>1. ASSUME UNCHANGED <<h, vdec, shown, file, rd, app>>,
             snd.pc \in {"sync", "tail", "late", "video"}, snd' = [snd EXCEPT !.pc = "loop"]
      PROVE  OInv' /\ Ordered
  <2>1. DOMAIN snd' = DOMAIN snd /\ snd'.cur = snd.cur /\ snd'.first = snd.first /\ snd'.pc = "loop"
    BY <1>1 DEF OInv, Shape
  <2>2. First'
    <3>1. /\ snd.pc # "video" => file = "av" /\ h.vts >= h.seekTs
          /\ snd.pc = "video" => file # "av"
          /\ ~snd.first
      BY <1>1 DEF OInv, First, Running, Pairs, Taken
    <3> QED
      BY <1>1, <2>1, <3>1 DEF First, Running, Pairs, Taken
  <2>3. OInv' /\ shown' = shown
    BY <1>1, <2>1, <2>2, SentNone DEF Taken
  <2> QED
    BY <2>3 DEF Ordered
<1>2. ASSUME TakePicture, UNCHANGED <<file, rd, app>>, snd.pc \in {"sync", "late"}
      PROVE  OInv' /\ Ordered
  <2>1. CASE vdec = <<>>
    BY <1>1, <1>2, <2>1 DEF TakePicture
  <2>2. CASE vdec # <<>>
    <3>1. /\ vdec' = Tail(vdec) /\ h' = [h EXCEPT !.vts = Head(vdec)]
          /\ shown' \in {Head(vdec), shown}
          /\ snd' = [FlagVideoEnd(snd, Head(vdec)) EXCEPT
                       !.pc = IF Head(vdec) < h.pos THEN "late" ELSE "loop"]
      BY <1>2, <2>2 DEF TakePicture, Show
    <3>2. /\ DOMAIN h' = DOMAIN h /\ DOMAIN snd' = DOMAIN snd
          /\ h'.vts = Head(vdec) /\ h'.seekTs = h.seekTs /\ h'.status = h.status /\ h'.seek = h.seek
          /\ snd'.cur = snd.cur /\ snd'.first = snd.first /\ snd'.pc \in {"late", "loop"}
      BY <3>1 DEF FlagVideoEnd, OInv, Shape
    <3> QED
      BY <1>2, <2>2, <3>1, <3>2, LaterOrder
  <2> QED
    BY <2>1, <2>2
<1>3. CASE SyncPicture
  <2>1. snd.pc = "sync" /\ UNCHANGED <<file, rd, app>>
    BY <1>3 DEF SyncPicture
  <2>2. TakePicture \/ (snd' = [snd EXCEPT !.pc = "loop"] /\ UNCHANGED <<h, vdec, shown>>)
    BY <1>3 DEF SyncPicture
  <2> QED
    BY <1>1, <1>2, <2>1, <2>2
<1>4. CASE SyncAgain
  BY <1>2, <1>4 DEF SyncAgain
<1>5. CASE SendTail
  <2>1. snd.pc = "tail" /\ UNCHANGED <<file, rd, app>>
    BY <1>5 DEF SendTail
  <2>2. CASE vdec = <<>>
    BY <1>1, <1>5, <2>1, <2>2 DEF SendTail
  <2>3. CASE vdec # <<>>
    <3> DEFINE s == FlagVideoEnd(snd, Head(vdec))
               show == Duration - h.pos > 1 /\ s.aEnd /\ ~s.vEnd
    <3>1. /\ vdec' = Tail(vdec) /\ snd' = [s EXCEPT !.pc = "loop"]
          /\ shown' = IF show THEN Head(vdec) ELSE shown
          /\ h' = [h EXCEPT !.vts = IF show THEN Head(vdec) ELSE @,
                            !.pos = IF show THEN Larger(@, Head(vdec)) ELSE @,
                            !.stop = @ \/ BothEnded(s)]
      BY <1>5, <2>3 DEF SendTail, Show
    <3>2. /\ DOMAIN snd' = DOMAIN snd /\ snd'.cur = snd.cur /\ snd'.first = snd.first
          /\ snd'.pc = "loop"
      BY <3>1 DEF FlagVideoEnd, OInv, Shape
    <3> HIDE DEF s, show
    <3>3. /\ DOMAIN h' = DOMAIN h /\ h'.vts = (IF show THEN Head(vdec) ELSE h.vts)
          /\ h'.seekTs = h.seekTs /\ h'.status = h.status /\ h'.seek = h.seek
      BY <3>1 DEF OInv, Shape
    <3> QED
      BY <2>1, <2>3, <3>1, <3>2, <3>3, LaterOrder
  <2> QED
    BY <2>2, <2>3
<1>6. CASE SendVideo
  <2>1. snd.pc = "video" /\ UNCHANGED <<file, rd, app>>
    BY <1>6 DEF SendVideo
  <2>2. CASE vdec = <<>>
    BY <1>1, <1>6, <2>1, <2>2 DEF SendVideo
  <2>3. CASE vdec # <<>>
    <3> DEFINE f == Head(vdec)
               seek == IF h.seek = "VIDEO_DONE" THEN "DONE" ELSE h.seek
    <3>1. /\ vdec' = Tail(vdec)
          /\ IF f = Eos
             THEN h' = [h EXCEPT !.seek = seek] /\ snd' = [snd EXCEPT !.pc = "end"] /\ shown' = shown
             ELSE /\ h' = [h EXCEPT !.seek = seek, !.pos = f, !.vts = f]
                  /\ snd' = [snd EXCEPT !.pc = "loop"] /\ shown' = f
      BY <1>6, <2>3 DEF SendVideo, Show
    <3> HIDE DEF f, seek
    <3>2. /\ DOMAIN h' = DOMAIN h /\ h'.seekTs = h.seekTs /\ h'.status = h.status /\ h'.seek = seek
          /\ DOMAIN snd' = DOMAIN snd /\ snd'.cur = snd.cur /\ snd'.first = snd.first
          /\ snd'.pc \in {"loop", "end"}
          /\ (h'.vts = h.vts /\ shown' = shown) \/ (h'.vts = f /\ shown' = f)
      BY <3>1 DEF OInv, Shape
    <3> QED
      BY <2>1, <2>3, <3>1, <3>2, LaterOrder DEF f, seek
  <2> QED
    BY <2>2, <2>3
<1> QED
  BY <1>3, <1>4, <1>5, <1>6
-----------------------------------------------------------------------------

\* A step of the application that leaves pictures and threads alone.
LEMMA MovesOrder ==
  ASSUME OInv, UNCHANGED <<file, vdec, snd, shown>>,
         DOMAIN h' = DOMAIN h, DOMAIN app' = DOMAIN app, DOMAIN rd' = DOMAIN rd,
         \A k \in {"v", "a"} : DOMAIN rd'[k] = DOMAIN rd[k] /\ rd'[k].pc = rd[k].pc /\ rd'[k].at = rd[k].at,
         h'.vts = h.vts, h'.seekTs \in {h.seekTs, 0}, app'.target \in Nat /\ app'.target < Eos,
         InPlay' => h'.seek = "WAIT", Sought' => Sought, h'.seek = "VIDEO_DONE" => h.seek = "VIDEO_DONE",
         Fresh'
  PROVE  OInv' /\ shown' = shown
<1>1. Shape' /\ Types' /\ Order'
  BY DEF OInv, Shape, Types, Order
<1>2. First'
  <2>1. h.vts \in Int /\ h.seekTs \in Nat
    BY DEF OInv, Types
  <2>2. h.vts >= h.seekTs => h.vts >= h'.seekTs
    BY <2>1
  <2> QED
    BY <2>2 DEF OInv, First, Running
<1>3. SeekInv'
  BY DEF OInv, SeekInv
<1> QED
  BY <1>1, <1>2, <1>3 DEF OInv

LEMMA BeginsOrder ==
  ASSUME OInv, Begins
  PROVE  OInv' /\ shown' = shown
<1>1. Eos \in Nat /\ 0 < Eos /\ \A t \in Targets : t \in Nat /\ t < Eos
  BY TimesAssumption
<1>2. ASSUME NEW op \in {"open", "prepare", "play", "pause", "stop", "destroy"},
             NEW pc \in {"open", "prepare", "play", "pause", "stop"}, Begin(op, pc)
      PROVE  OInv' /\ shown' = shown
  <2>1. /\ UNCHANGED <<h, file, vdec, snd, shown, rd>> /\ app.pc = "idle"
        /\ DOMAIN app' = DOMAIN app /\ app'.pc = pc /\ app'.op = op /\ app'.target = 0
    BY <1>2 DEF Begin, Idle, OInv, Shape
  <2>2. ~InPlay' /\ (Sought' => Sought)
    BY <2>1 DEF InPlay, Sought
  <2>3. Fresh'
    BY <2>1 DEF OInv, Fresh, Reading, Empty
  <2> QED
    BY <1>1, <2>1, <2>2, <2>3, MovesOrder
<1>3. CASE BeginSeek
  <2>1. PICK target \in Targets :
          app' = [Idle EXCEPT !.op = "seek", !.target = target, !.paused = h.status = "PAUSE",
                              !.pc = IF h.status = "STOP" THEN "open" ELSE "stop"]
    BY <1>3 DEF BeginSeek
  <2>2. /\ UNCHANGED <<file, vdec, snd, shown, rd>> /\ app.pc = "idle"
        /\ DOMAIN h' = DOMAIN h /\ h'.vts = h.vts /\ h'.seekTs = h.seekTs /\ h'.status = h.status
        /\ h'.seek = "WAIT"
    BY <1>3 DEF BeginSeek, OInv, Shape
  <2>3. /\ DOMAIN app' = DOMAIN app /\ app'.pc \in {"open", "stop"} /\ app'.target = target
        /\ app'.op = "seek"
    BY <2>1 DEF Idle, OInv, Shape
  <2>4. ~InPlay' /\ (Sought' => Sought)
    BY <2>2, <2>3 DEF InPlay, Sought
  <2>5. Fresh'
    BY <2>2, <2>3 DEF OInv, Fresh, Reading, Empty
  <2> QED
    BY <1>1, <2>2, <2>3, <2>4, <2>5, MovesOrder
<1> QED
  BY <1>2, <1>3 DEF Begins, BeginOpen, BeginPrepare, BeginPlay, BeginPause, BeginStop, BeginDestroy

LEMMA FailsOrder ==
  ASSUME OInv, Fails, UNCHANGED <<file, vdec, snd, shown, rd>>, app.pc \in {"open", "prepare", "play"}
  PROVE  OInv' /\ shown' = shown
<1>1. /\ DOMAIN h' = DOMAIN h /\ h'.vts = h.vts /\ h'.seekTs = h.seekTs /\ h'.status = h.status
      /\ h'.seek \in {"NO", h.seek}
      /\ DOMAIN app' = DOMAIN app /\ app'.pc = "idle" /\ app'.op = "none" /\ app'.target = app.target
  BY DEF Fails, Return, OInv, Shape
<1>2. app.target \in Nat /\ app.target < Eos
  BY DEF OInv, Types
<1>3. ~InPlay' /\ (Sought' => Sought)
  BY <1>1 DEF InPlay, Sought
<1>4. Fresh'
  BY <1>1 DEF OInv, Fresh, Reading, Empty
<1> QED
  BY <1>1, <1>2, <1>3, <1>4, MovesOrder

LEMMA OpenOrder ==
  ASSUME OInv, SetDataSource
  PROVE  OInv' /\ Ordered
<1>1. app.pc = "open" /\ UNCHANGED <<vdec, rd, snd>>
  BY DEF SetDataSource
<1>2. CASE h.status \notin {"IDLE", "STOP"}
  BY <1>1, <1>2, FailsOrder DEF SetDataSource, Ordered
<1>3. CASE h.status \in {"IDLE", "STOP"}
  <2>1. Empty
    BY <1>1, <1>3 DEF OInv, Fresh
  <2>2. /\ vdec = <<>> /\ snd.pc = "none" /\ snd.cur = -1 /\ snd.first = FALSE
        /\ rd["v"].pc = "off" /\ Empty'
    BY <1>1, <2>1 DEF Empty, NoSender
  <2>3. First'
    BY <1>1, <2>2 DEF First, Running, Taken
  <2>4. CASE Fails /\ shown' = shown
    <3>1. /\ DOMAIN h' = DOMAIN h /\ h'.vts = h.vts /\ h'.seekTs = h.seekTs
          /\ h'.status = h.status /\ h'.seek \in {"NO", h.seek}
          /\ DOMAIN app' = DOMAIN app /\ app'.pc = "idle" /\ app'.op = "none" /\ app'.target = app.target
      BY <2>4 DEF Fails, Return, OInv, Shape
    <3>2. Shape' /\ Types' /\ Order'
      BY <1>1, <2>4, <3>1 DEF OInv, Shape, Types, Order
    <3>3. SeekInv'
      <4>1. ~InPlay' /\ (Sought' => Sought)
        BY <3>1 DEF InPlay, Sought
      <4> QED
        BY <1>1, <2>2, <3>1, <4>1 DEF OInv, SeekInv, Taken
    <3>4. Fresh'
      BY <1>3, <2>2, <3>1 DEF Fresh
    <3> QED
      BY <2>3, <2>4, <3>2, <3>3, <3>4 DEF OInv, Ordered
  <2>5. CASE /\ h' = [h EXCEPT !.status = "INIT", !.vts = -1, !.stop = FALSE]
             /\ shown' = -1
             /\ IF InSeek THEN App("prepare") ELSE Return
    <3>1. /\ DOMAIN h' = DOMAIN h /\ h'.vts = -1 /\ h'.seekTs = h.seekTs
          /\ h'.status = "INIT" /\ h'.seek = h.seek
          /\ DOMAIN app' = DOMAIN app /\ app'.target = app.target
          /\ \/ app.op = "seek" /\ app'.pc = "prepare" /\ app'.op = "seek"
             \/ app'.pc = "idle" /\ app'.op = "none"
      BY <2>5 DEF InSeek, App, Return, OInv, Shape
    <3>2. Shape'
      BY <1>1, <3>1 DEF OInv, Shape
    <3>3. Types'
      BY <1>1, <2>2, <2>5, <3>1 DEF OInv, Types
    <3>4. Order'
      BY <1>1, <2>2, <2>5, <3>1 DEF Order
    <3>5. SeekInv'
      <4>1. ~InPlay'
        BY <3>1 DEF InPlay
      <4> QED
        BY <1>1, <2>2, <3>1, <4>1 DEF SeekInv, Taken
    <3>6. Fresh'
      BY <1>1, <2>2, <3>1 DEF OInv, Fresh, Empty
    <3> QED
      BY <2>3, <2>5, <3>2, <3>3, <3>4, <3>5, <3>6 DEF OInv, Ordered
  <2> QED
    BY <1>3, <2>4, <2>5 DEF SetDataSource
<1> QED
  BY <1>2, <1>3

LEMMA PrepareOrder ==
  ASSUME OInv, Prepare
  PROVE  OInv' /\ shown' = shown
<1>1. app.pc = "prepare" /\ UNCHANGED <<file, vdec, rd, snd, shown>>
  BY DEF Prepare
<1>2. CASE Fails
  BY <1>1, <1>2, FailsOrder
<1>3. CASE /\ h.status = "INIT"
           /\ h' = [h EXCEPT !.status = "PREPARED", !.seekTs = IF InSeek THEN app.target ELSE @]
           /\ IF InSeek THEN App("play") ELSE Return
  <2>1. /\ vdec = <<>> /\ snd.pc = "none" /\ snd.cur = -1 /\ snd.first = FALSE /\ h.vts = -1
        /\ rd["v"].pc = "off" /\ Empty /\ Empty'
    BY <1>1, <1>3 DEF OInv, Fresh, Empty, NoSender
  <2>2. /\ DOMAIN h' = DOMAIN h /\ h'.vts = h.vts /\ h'.status = "PREPARED" /\ h'.seek = h.seek
        /\ h'.seekTs \in {h.seekTs, app.target}
        /\ DOMAIN app' = DOMAIN app /\ app'.target = app.target
        /\ \/ app.op = "seek" /\ app'.pc = "play" /\ app'.op = "seek"
           \/ app'.pc = "idle" /\ app'.op = "none"
    BY <1>3 DEF InSeek, App, Return, OInv, Shape
  <2>3. Shape' /\ Types' /\ Order'
    BY <1>1, <2>2 DEF OInv, Shape, Types, Order
  <2>4. First'
    BY <1>1, <2>1 DEF First, Running, Taken
  <2>5. SeekInv'
    <3>1. ~InPlay'
      BY <2>2 DEF InPlay
    <3> QED
      BY <1>1, <2>1, <2>2, <3>1 DEF SeekInv, Taken
  <2>6. Fresh'
    BY <1>1, <2>1, <2>2 DEF OInv, Fresh, Empty
  <2> QED
    BY <1>1, <2>3, <2>4, <2>5, <2>6 DEF OInv
<1> QED
  BY <1>2, <1>3 DEF Prepare

LEMMA PlayOrder ==
  ASSUME OInv, Play
  PROVE  OInv' /\ shown' = shown
<1>1. app.pc = "play" /\ UNCHANGED <<file, vdec, shown>>
  BY DEF Play, PlayStart, PlayResume, PlayFails
<1>2. CASE PlayFails
  BY <1>1, <1>2, FailsOrder DEF PlayFails
<1>3. CASE PlayResume
  <2>0. h.status = "PAUSE"
    BY <1>3 DEF PlayResume
  <2>1. /\ UNCHANGED <<h, rd, snd>> /\ DOMAIN app' = DOMAIN app
        /\ app'.pc = "playing" /\ app'.op = app.op /\ app'.target = app.target
    BY <1>3 DEF PlayResume, App, OInv, Shape
  <2>2. app.op # "seek"
    BY <1>1, <2>0 DEF OInv, Fresh
  <2>3. ~InPlay' /\ (Sought' => Sought) /\ Fresh'
    BY <2>0, <2>1, <2>2 DEF InPlay, Sought, Fresh
  <2>4. app.target \in Nat /\ app.target < Eos
    BY DEF OInv, Types
  <2> QED
    BY <1>1, <2>1, <2>3, <2>4, MovesOrder
<1>4. CASE PlayStart
  <2> DEFINE Started(key) ==
        [k \in {"v", "a"} |->
           IF (k = "v" /\ HasVideo) \/ (k = "a" /\ HasAudio)
           THEN [NoReader EXCEPT !.pc = "read", !.at = IF key < Length(k) THEN key ELSE Length(k)]
           ELSE NoReader]
  <2>1. /\ vdec = <<>> /\ h.vts = -1 /\ h.seekTs \in Nat
        /\ app.op = "seek" => h.seek = "WAIT"
    <3>1. h.status = "PREPARED" /\ ~Reading
      BY <1>4 DEF PlayStart
    <3> QED
      BY <1>1, <3>1 DEF OInv, Types, Fresh, Empty
  <2>2. PICK key \in IF h.seek = "WAIT" THEN 0 .. h.seekTs ELSE {0} : rd' = Started(key)
    BY <1>4 DEF PlayStart, ReadPacketStart
  <2>3. key \in Nat
    BY <2>1, <2>2
  <2>4. /\ DOMAIN h' = DOMAIN h /\ h'.status = h.status /\ h'.vts = h.vts /\ h'.seekTs = h.seekTs
        /\ app'.target = app.target /\ DOMAIN app' = DOMAIN app
        /\ \/ UNCHANGED h /\ app'.pc = "playing" /\ app'.op = app.op
           \/ /\ h'.seek \in {h.seek, "NO"} /\ app'.pc = "idle" /\ app'.op = "none"
              /\ snd' = NoSender
    BY <1>4 DEF PlayStart, App, Fails, Return, OInv, Shape
  <2>5. /\ DOMAIN snd' = {"pc", "cur", "first", "vEnd", "aEnd"}
        /\ snd'.cur = -1 /\ snd'.first = FALSE /\ snd'.pc \in {"none", "loop"}
    <3>1. snd' \in {NoSender, [NoSender EXCEPT !.pc = "loop"]}
      BY <1>4 DEF PlayStart
    <3> QED
      BY <3>1 DEF NoSender
  <2>6. /\ DOMAIN rd' = {"v", "a"} /\ \A k \in {"v", "a"} : DOMAIN rd'[k] = {"pc", "at", "stop"}
        /\ rd'["v"].pc \in {"off", "read"}
        /\ rd'["v"].at \in {key, VideoLen, 0} /\ (rd'["v"].pc = "read" => rd'["v"].at <= VideoLen)
    <3>1. VideoLen \in Nat
      BY TimesAssumption
    <3>2. rd'["v"] = IF HasVideo
                     THEN [NoReader EXCEPT !.pc = "read", !.at = IF key < VideoLen THEN key ELSE VideoLen]
                     ELSE NoReader
      BY <2>2 DEF Length
    <3>3. DOMAIN rd' = {"v", "a"} /\ \A k \in {"v", "a"} : DOMAIN rd'[k] = {"pc", "at", "stop"}
      BY <2>2 DEF NoReader
    <3> QED
      BY <2>3, <3>1, <3>2, <3>3 DEF NoReader
  <2> HIDE DEF Started
  <2>7. Shape'
    BY <2>4, <2>5, <2>6 DEF OInv, Shape
  <2>8. Types'
    BY <1>1, <2>3, <2>4, <2>5, <2>6, TimesAssumption DEF OInv, Types
  <2>9. Order'
    <3>1. rd'["v"].at \in Nat
      BY <2>3, <2>6, TimesAssumption
    <3>2. Len(vdec') = 0
      BY <1>1, <2>1
    <3>3. -1 < rd'["v"].at /\ 1 .. Len(vdec') = {}
      BY <3>1, <3>2
    <3>4. shown <= h.vts
      BY DEF OInv, Order
    <3> QED
      BY <1>1, <2>1, <2>4, <2>5, <3>3, <3>4 DEF Order
  <2>10. First'
    BY <2>1, <2>4, <2>5 DEF First, Running, Taken, Pairs
  <2>11. SeekInv'
    BY <1>1, <2>1, <2>4, <2>5, <2>6 DEF SeekInv, InPlay, Sought, Taken
  <2>12. Fresh'
    <3>1. h.status = "PREPARED"
      BY <1>4 DEF PlayStart
    <3>2. Reading' \/ \A k \in {"v", "a"} : rd'[k].pc = "off"
      BY DEF Reading
    <3> QED
      BY <1>1, <2>1, <2>4, <3>1, <3>2 DEF Fresh, Empty
  <2> QED
    BY <1>1, <2>7, <2>8, <2>9, <2>10, <2>11, <2>12 DEF OInv
<1> QED
  BY <1>2, <1>3, <1>4 DEF Play

LEMMA PlayingOrder ==
  ASSUME OInv, SetPlay \/ Pause \/ SetPause \/ SeekDoing \/ StopReaders \/ Destroy
  PROVE  OInv' /\ shown' = shown
<1>1. /\ UNCHANGED <<file, vdec, snd, shown, rd>>
      /\ DOMAIN h' = DOMAIN h /\ h'.vts = h.vts /\ h'.seekTs = h.seekTs
      /\ DOMAIN app' = DOMAIN app /\ app'.target = app.target
  BY DEF SetPlay, Pause, SetPause, SeekDoing, StopReaders, Destroy, App, Return, OInv, Shape
<1>2. app.target \in Nat /\ app.target < Eos
  BY DEF OInv, Types
<1>3. CASE SetPlay \/ SetPause
  <2>1. /\ app.pc \in {"playing", "paused"} /\ h'.status \in {"PLAY", "PAUSE"} /\ h'.seek = h.seek
        /\ \/ app.op = "seek" /\ app'.op = "seek" /\ app'.pc \in {"pause", "doing"}
           \/ app'.pc = "idle" /\ app'.op = "none"
    BY <1>3 DEF SetPlay, SetPause, InSeek, App, Return, OInv, Shape
  <2>2. (InPlay' => InPlay) /\ (InPlay => h.seek = "WAIT")
    BY <2>1 DEF OInv, SeekInv, InPlay
  <2>3. (Sought' => Sought) /\ Fresh'
    BY <2>1, <2>2 DEF Sought, Fresh
  <2> QED
    BY <1>1, <1>2, <2>1, <2>2, <2>3, MovesOrder
<1>4. CASE Pause
  <2>1. /\ app.pc = "pause" /\ UNCHANGED h
        /\ \/ h.status = "PLAY" /\ app'.op = app.op /\ app'.pc = "paused"
           \/ app.op = "seek" /\ app'.op = "seek" /\ app'.pc = "doing"
           \/ app'.pc = "idle" /\ app'.op = "none"
    BY <1>4 DEF Pause, InSeek, App, Return, OInv, Shape
  <2>2. (InPlay' => InPlay) /\ (InPlay => h.seek = "WAIT")
    BY <2>1 DEF OInv, SeekInv, InPlay
  <2>3. Sought' => Sought
    BY <2>1, <2>2 DEF Sought
  <2>4. Fresh'
    BY <1>1, <2>1 DEF OInv, Fresh, Reading, Empty
  <2> QED
    BY <1>1, <1>2, <2>1, <2>2, <2>3, <2>4, MovesOrder
<1>5. CASE SeekDoing
  <2>1. /\ app.pc = "doing" /\ h'.status = h.status
        /\ h'.seek \in {"VIDEO_DOING", "DONE"}
        /\ app'.pc = "idle" /\ app'.op = "none"
    BY <1>5 DEF SeekDoing, Return, OInv, Shape
  <2>2. Sought
    BY <2>1 DEF OInv, Fresh, InPlay, Sought
  <2>3. Fresh'
    BY <1>1, <2>1 DEF OInv, Fresh, Reading, Empty
  <2>4. ~InPlay'
    BY <2>1 DEF InPlay
  <2> QED
    BY <1>1, <1>2, <2>1, <2>2, <2>3, <2>4, MovesOrder
<1>6. CASE StopReaders
  <2>1. /\ app.pc = "readers" /\ h'.status = h.status /\ h'.seek = h.seek
        /\ app'.pc = "join" /\ app'.op = app.op /\ app'.keep = app.keep
    BY <1>6 DEF StopReaders, App, OInv, Shape
  <2>2. ~InPlay' /\ (Sought' => Sought)
    BY <2>1 DEF InPlay, Sought
  <2>3. Fresh'
    BY <1>1, <2>1 DEF OInv, Fresh, Reading, Empty
  <2> QED
    BY <1>1, <1>2, <2>1, <2>2, <2>3, MovesOrder
<1>7. CASE Destroy
  <2>1. /\ h'.status = "GONE" /\ h'.seek = h.seek /\ app'.pc = "idle" /\ app'.op = "none"
    BY <1>7 DEF Destroy, Return, OInv, Shape
  <2>2. ~InPlay' /\ (Sought' => Sought) /\ Fresh'
    BY <2>1 DEF InPlay, Sought, Fresh
  <2> QED
    BY <1>1, <1>2, <2>1, <2>2, MovesOrder
<1> QED
  BY <1>3, <1>4, <1>5, <1>6, <1>7

LEMMA StopOrder ==
  ASSUME OInv, Stop
  PROVE  OInv' /\ shown' = shown
<1>1. app.pc = "stop" /\ UNCHANGED <<file, vdec, snd, shown>>
  BY DEF Stop
<1>2. app.target \in Nat /\ app.target < Eos
  BY DEF OInv, Types
<1>3. CASE h.status \in {"IDLE", "INIT", "STOP"}
  <2>1. UNCHANGED <<h, rd>> /\ AfterStop
    BY <1>3 DEF Stop
  <2>2. /\ DOMAIN app' = DOMAIN app /\ app'.target = app.target
        /\ \/ app'.op = "seek" /\ app.op = "seek" /\ app'.pc = "open"
           \/ app'.op # "seek" /\ app'.pc \in {"free", "idle"}
    BY <2>1 DEF AfterStop, InSeek, App, Return, OInv, Shape
  <2>3. ~InPlay' /\ (Sought' => Sought)
    BY <2>1, <2>2 DEF InPlay, Sought
  <2>4. Fresh'
    BY <1>1, <2>1, <2>2 DEF OInv, Fresh, Reading, Empty
  <2> QED
    BY <1>1, <1>2, <2>1, <2>2, <2>3, <2>4, MovesOrder
<1>4. CASE h.status \notin {"IDLE", "INIT", "STOP"}
  <2>1. /\ h' = [h EXCEPT !.status = "STOP", !.seek = "NO", !.seekTs = 0]
        /\ rd' = [k \in {"v", "a"} |-> [rd[k] EXCEPT !.stop = TRUE]]
        /\ app' = [app EXCEPT !.pc = "readers", !.was = h.status, !.keep = h.seek = "WAIT"]
    BY <1>4 DEF Stop
  <2>2. /\ DOMAIN h' = DOMAIN h /\ h'.status = "STOP" /\ h'.seek = "NO" /\ h'.seekTs = 0
        /\ h'.vts = h.vts
    BY <2>1 DEF OInv, Shape
  <2>3. /\ DOMAIN app' = DOMAIN app /\ app'.target = app.target /\ app'.op = app.op
        /\ app'.pc = "readers" /\ app'.keep = (h.seek = "WAIT")
    BY <2>1 DEF OInv, Shape
  <2>4. /\ DOMAIN rd' = DOMAIN rd
        /\ \A k \in {"v", "a"} :
             DOMAIN rd'[k] = DOMAIN rd[k] /\ rd'[k].pc = rd[k].pc /\ rd'[k].at = rd[k].at
    BY <2>1 DEF OInv, Shape
  <2>5. ~InPlay' /\ ~Sought'
    BY <2>2, <2>3 DEF InPlay, Sought
  <2>6. app.op = "seek" => h.seek = "WAIT"
    BY <1>1 DEF OInv, Fresh
  <2>7. Fresh'
    BY <2>2, <2>3, <2>6 DEF Fresh
  <2> QED
    BY <1>1, <1>2, <2>2, <2>3, <2>4, <2>5, <2>7, MovesOrder
<1> QED
  BY <1>3, <1>4

LEMMA ReleaseOrder ==
  ASSUME IInv, OInv, StopRelease
  PROVE  OInv' /\ shown' = shown
<1>1. /\ app.pc = "join" /\ UNCHANGED <<file, shown>>
      /\ vdec' = <<>> /\ snd' = NoSender /\ rd' = [k \in {"v", "a"} |-> NoReader]
  BY DEF StopRelease
<1>2. /\ vdec' = <<>> /\ snd'.pc = "none" /\ snd'.cur = -1 /\ snd'.first = FALSE
      /\ rd'["v"].pc = "off" /\ rd'["v"].at = 0 /\ Empty'
      /\ DOMAIN snd' = DOMAIN snd /\ DOMAIN rd' = {"v", "a"}
      /\ \A k \in {"v", "a"} : DOMAIN rd'[k] = {"pc", "at", "stop"}
  BY <1>1 DEF Empty, NoSender, NoReader, OInv, Shape
<1>3. /\ DOMAIN h' = DOMAIN h /\ h'.vts = h.vts /\ h'.seekTs = h.seekTs
      /\ h'.status \in {"STOP", "EOF"}
      /\ DOMAIN app' = DOMAIN app /\ app'.target = app.target
      /\ \/ h'.seek \in {"WAIT", "NO"} \/ h'.seek = h.seek
      /\ \/ app.op = "seek" /\ app'.op = "seek" /\ app'.pc = "open" /\ h'.seek = IF app.keep THEN "WAIT" ELSE "NO"
         \/ app'.op # "seek" /\ app'.pc \in {"free", "idle"}
  <2>1. /\ h.status \in {"STOP", "EOF"}
        /\ app.was # "EOF" => chans = Needed
    BY <1>1 DEF IInv, ByPlace
  <2>2. CASE Needed \subseteq chans
    BY <2>1, <2>2 DEF StopRelease, AfterStop, InSeek, App, Return, OInv, Shape
  <2>3. CASE ~(Needed \subseteq chans)
    <3>1. app.was = "EOF"
      BY <2>1, <2>3
    <3> QED
      BY <2>3, <3>1 DEF StopRelease, Return, OInv, Shape
  <2> QED
    BY <2>2, <2>3
<1>4. Shape'
  BY <1>2, <1>3 DEF OInv, Shape
<1>5. Types'
  BY <1>1, <1>2, <1>3 DEF OInv, Types
<1>6. Order'
  <2>1. -1 <= h.vts /\ shown <= h.vts
    BY DEF OInv, Order, Types
  <2> QED
    BY <1>1, <1>2, <1>3, <2>1 DEF Order
<1>7. First'
  BY <1>2 DEF First, Running, Taken
<1>8. SeekInv'
  <2>1. ~InPlay' /\ (Sought' => Sought)
    BY <1>3 DEF InPlay, Sought
  <2> QED
    BY <1>1, <1>2, <1>3, <2>1 DEF OInv, SeekInv, Taken
<1>9. Fresh'
  <2>1. app.op = "seek" => app.keep
    BY <1>1 DEF OInv, Fresh
  <2> QED
    BY <1>2, <1>3, <2>1 DEF Fresh
<1> QED
  BY <1>1, <1>4, <1>5, <1>6, <1>7, <1>8, <1>9 DEF OInv

LEMMA NextOrder == IInv /\ OInv /\ [Next]_vars => OInv' /\ [Ordered]_vars
<1> SUFFICES ASSUME IInv, OInv, [Next]_vars PROVE OInv' /\ [Ordered]_vars
  OBVIOUS
<1>1. shown' = shown => Ordered
  BY DEF Ordered
<1>2. CASE Begins \/ Continues
  BY <1>1, <1>2, BeginsOrder, OpenOrder, PrepareOrder, PlayOrder, PlayingOrder, StopOrder, ReleaseOrder
     DEF Continues
<1>3. CASE VideoThread \/ AudioThread
  BY <1>1, <1>3, PictureRead, PictureSent, SoundRead DEF VideoThread
<1>4. CASE Sender
  BY <1>1, <1>4, LoopOrder, SoundOrder, FirstFrameOrder, PictureOrder, LaterSteps DEF Sender
<1>5. CASE UNCHANGED vars
  <2>1. UNCHANGED <<h, file, vdec, snd, rd, app, shown>>
    BY <1>5 DEF vars
  <2>2. Shape' /\ Types' /\ Order'
    BY <2>1 DEF OInv, Shape, Types, Order
  <2>3. First' /\ SeekInv' /\ Fresh'
    BY <2>1 DEF OInv, First, SeekInv, Fresh, Reading, Running, InPlay, Sought, Empty
  <2> QED
    BY <1>1, <2>1, <2>2, <2>3 DEF OInv
<1> QED
  BY <1>2, <1>3, <1>4, <1>5 DEF Next

LEMMA InitOrder == Init => OInv
<1> SUFFICES ASSUME Init PROVE OInv
  OBVIOUS
<1>1. /\ h = [status |-> "IDLE", seek |-> "NO", seekTs |-> 0, pos |-> 0, vts |-> -1, stop |-> FALSE]
      /\ vdec = <<>> /\ shown = -1 /\ snd = NoSender /\ app = Idle
      /\ rd = [k \in {"v", "a"} |-> NoReader]
  BY DEF Init
<1>2. Shape
  BY <1>1 DEF Shape, NoSender, NoReader, Idle
<1>3. Types
  BY <1>1, TimesAssumption DEF Types, NoSender, NoReader, Idle
<1>4. Order /\ First
  BY <1>1 DEF Order, First, Running, Taken, NoSender, NoReader
<1>5. SeekInv /\ Fresh
  BY <1>1 DEF SeekInv, Fresh, InPlay, Sought, Taken, Empty, NoSender, NoReader, Idle
<1> QED
  BY <1>2, <1>3, <1>4, <1>5 DEF OInv

\* SendData, SendVideoData: the picture never goes back, whatever the decoder
\* holds when the player is sought, paused or stopped, and after a seek in a
\* file with sound no picture before the target is shown.
THEOREM PicturesInOrder == Spec => ShownInOrder
<1>1. IInv /\ OInv /\ [Next]_vars =>
        [shown' \notin {shown, -1} => shown' > shown /\ (file = "av" => shown' >= h.seekTs)]_vars
  BY NextOrder DEF Ordered
<1> QED
  BY <1>1, Invariance, InitOrder, NextOrder, PTL DEF Spec, ShownInOrder
=============================================================================
