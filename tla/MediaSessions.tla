--------------------------- MODULE MediaSessions ---------------------------
(***************************************************************************)
(* The users of the media channels: recorder, preview and audio streams,   *)
(* RTSP, RTMP, photo and display.  Each opens, resets and closes a path of *)
(* channels by a fixed sequence of the calls of MediaTables and stops at   *)
(* the first that fails; the calls of different threads interleave.  A     *)
(* script is a sequence of steps [op, on, undo, skip]: when the call op on *)
(* channel or pair "on" fails, the calls in undo follow and then either    *)
(* the job is over (skip = Abort) or goes on after the next "skip" steps.  *)
(***************************************************************************)
EXTENDS MediaTables, Sequences

CONSTANTS
  Users,
  Kind,           \* user |-> "rec", "stream", "audio", "rtsp", "rtmp", "photo", "disp"
  Lineups,        \* what the application is made of: a set of records
                  \*   users     the users it has
                  \*   threadOf  user |-> the thread that opens and closes it
                  \*   resizable the paths whose size it changes
                  \*   maxFaults bound: how often media library calls fail
  Cfg,            \* path |-> [vi, vpss, venc, useVpss], the loaded parameters
  RecPaths,       \* the recorder's streams, in their order
  ThumbOf,        \* path |-> the path of its thumbnails
  Ai, Aenc, Vo,   \* the sound and display channels; Aenc by kind
  Faults(_, _, _) \* user, job, step |-> media library calls that may fail

VARIABLES
  t,        \* the tables of MediaTables
  st,       \* user |-> "closed" or "open": does the application hold a handle
  job,      \* user |-> what it is doing, its next step, what it has to undo
  mem,      \* user |-> what its handle remembers of the parameters
  scaled,   \* the paths whose size is not that of their camera channel
  recType,  \* record_type: "normal" or "lapse"
  held,     \* history: user |-> channels and pairs given to it and not given back
  faults,   \* history: calls that failed so far
  lineup    \* the application, one of Lineups

vars == <<t, st, job, mem, scaled, recType, held, faults, lineup>>

Abort == -1
Paths == DOMAIN Cfg
Idle  == [what |-> "idle", was |-> "normal", at |-> 1, undo |-> <<>>, ok |-> TRUE]

\* RKADK_MEDIA_VideoIsUseVpss: the size differs, or the parameter says so.
Use(x, p) == p \in x.scaled \/ Cfg[p].useVpss

Do(op, on, undo) == <<[op |-> op, on |-> on, undo |-> undo, skip |-> Abort]>>
Try(op, on)      == <<[op |-> op, on |-> on, undo |-> <<>>, skip |-> 0]>>
If(cond, s)      == IF cond THEN s ELSE <<>>

\* A function whose result the caller ignores: its first failure ends it.
Ignored(s) == [i \in 1 .. Len(s) |->
                [s[i] EXCEPT !.skip = IF @ = Abort THEN Len(s) - i ELSE @]]

\* RKADK_STREAM_SetVideoChn and its like: a VPSS group is fed at channel 0.
In(c)  == <<"VPSS", c.vpss[2], 0>>
Src(c, v) == IF v THEN c.vpss ELSE c.vi

-----------------------------------------------------------------------------
(* Thumbnails (rkadk_thumb_comm.c)                                         *)

\* VPSS_DeInit is called on failure even when no VPSS is used.
ThumbnailInit(x, p) ==
  LET c == Cfg[p]
      v == Use(x, p)
      failed == Try("deinit", c.venc) \o Try("deinit", c.vpss) \o Try("deinit", c.vi)
  IN  Do("init", c.vi, <<>>)
      \o If(v, Do("init", c.vpss, Try("deinit", c.vi)))
      \o Do("init", c.venc, Try("deinit", c.vi) \o Try("deinit", c.vpss))
      \o Do("bind", <<Src(c, v), c.venc>>, failed)
      \o If(v, Do("bind", <<c.vi, In(c)>>, Try("unbind", <<c.vpss, c.venc>>) \o failed))

ThumbnailDeInit(x, p) ==
  LET c == Cfg[p]
      v == Use(x, p)
  IN  Do("unbind", <<Src(c, v), c.venc>>, <<>>)
      \o If(v, Do("unbind", <<c.vi, In(c)>>, <<>>))
      \o Do("deinit", c.venc, <<>>)
      \o If(v, Do("deinit", c.vpss, <<>>))
      \o Do("deinit", c.vi, <<>>)

-----------------------------------------------------------------------------
(* Recorder (rkadk_record.c): two streams, one with sound when normal      *)

\* RKADK_MUXER_GetViChn and RKADK_MUXER_IsUseVpss: as they were at creation.
RecDestroyVideo(x) ==
  LET Of(p) ==
        LET c == Cfg[p] IN
        Do("deinit", c.venc, <<>>)
        \o If((p \in x.vpss), Do("deinit", c.vpss, <<>>))
        \o Ignored(ThumbnailDeInit(x, ThumbOf[p]))
        \o Do("deinit", c.vi, <<>>)
  IN  Of(RecPaths[1]) \o Of(RecPaths[2])

RecCreateVideo(x) ==
  LET Release(p) == Try("deinit", Cfg[p].venc)
                    \o If(Use(x, p), Try("deinit", Cfg[p].vpss))
                    \o Try("deinit", Cfg[p].vi)
      failed == Release(RecPaths[1]) \o Release(RecPaths[2])
      Of(p) ==
        LET c == Cfg[p] IN
        Do("call", "SetVideoAttr", <<>>)
        \o Do("init", c.vi, failed)
        \o If(Use(x, p), Do("init", c.vpss, failed))
        \o Do("init", c.venc, failed)
        \o Ignored(ThumbnailInit(x, ThumbOf[p]))
  IN  Of(RecPaths[1]) \o Of(RecPaths[2])

RecDestroyAudio(x) == Do("deinit", Aenc["rec"], <<>>) \o Do("deinit", Ai, <<>>)

RecCreateAudio(x, failed) ==
  Do("call", "AencRegister", failed)
  \o Do("call", "SetAiAttr", failed)
  \o Do("init", Ai, failed)
  \o Do("init", Aenc["rec"], Try("deinit", Ai) \o failed)

\* Nothing bound is unbound when a later bind fails.
RecBind(x, sound, failed) ==
  LET Of(p) ==
        LET c == Cfg[p] IN
        Do("call", "StartRecvFrame", failed)
        \o Do("get", c.venc, failed)
        \o Do("bind", <<Src(c, Use(x, p)), c.venc>>, failed)
        \o If(Use(x, p), Do("bind", <<c.vi, In(c)>>, failed))
  IN  If(sound, Do("get", Aenc["rec"], failed) \o Do("bind", <<Ai, Aenc["rec"]>>, failed))
      \o Of(RecPaths[1]) \o Of(RecPaths[2])

RecUnBind(x) ==
  LET Of(p) ==
        LET c == Cfg[p]
            v == (p \in x.vpss)
        IN  Try("stop", c.venc)
            \o Do("unbind", <<Src(c, v), c.venc>>, <<>>)
            \o If(v, Do("unbind", <<c.vi, In(c)>>, <<>>))
  IN  If(x.was = "normal",
         Try("stop", Aenc["rec"]) \o Do("unbind", <<Ai, Aenc["rec"]>>, <<>>))
      \o Of(RecPaths[1]) \o Of(RecPaths[2])

\* RKADK_RECORD_Create
RecOpen(x) ==
  LET sound == x.type = "normal"
      Video == LET Of(p) == LET c == Cfg[p] IN
                     Do("deinit", c.venc, <<>>)
                     \o If(Use(x, p), Do("deinit", c.vpss, <<>>))
                     \o Ignored(ThumbnailDeInit(x, ThumbOf[p]))
                     \o Do("deinit", c.vi, <<>>)
               IN  Ignored(Of(RecPaths[1]) \o Of(RecPaths[2]))
      failed == Video \o If(sound, Ignored(RecDestroyAudio(x)))
  IN  RecCreateVideo(x)
      \o If(sound, RecCreateAudio(x, Video))
      \o Do("call", "MUXER_Create", failed)
      \o RecBind(x, sound, failed)

\* RKADK_RECORD_Destroy
RecClose(x) ==
  RecUnBind(x) \o RecDestroyVideo(x) \o If(x.was = "normal", RecDestroyAudio(x))

\* RKADK_RECORD_ResetAudio
RecResetAudio(x) ==
  If(x.was = "normal" /\ x.type # "normal",
     Try("stop", Aenc["rec"])
     \o Do("unbind", <<Ai, Aenc["rec"]>>, Try("get", Aenc["rec"]))
     \o Ignored(RecDestroyAudio(x)))
  \o If(x.was # "normal" /\ x.type = "normal",
        RecCreateAudio(x, <<>>)
        \o Try("get", Aenc["rec"])
        \o Do("bind", <<Ai, Aenc["rec"]>>,
              Try("stop", Aenc["rec"]) \o Ignored(RecDestroyAudio(x))))

\* RKADK_RECORD_ResetVideo; RKADK_MUXER_ResetParam takes the new record type.
RecResetVideo(x) ==
  LET Of(p) ==
        LET pair == <<Src(Cfg[p], (p \in x.vpss)), Cfg[p].venc>> IN
        Do("call", "GetChnAttr", <<>>)
        \o Do("unwire", pair, <<>>)
        \o Do("call", "SetChnAttr", <<>>)
        \o Do("type", x.type, <<>>)
        \o Do("wire", pair, <<>>)
  IN  Of(RecPaths[1]) \o Of(RecPaths[2])

RecReset(x) == RecResetAudio(x) \o RecResetVideo(x)

-----------------------------------------------------------------------------
(* Preview (rkadk_stream.c)                                                *)

StreamOpen(x, v) ==
  LET c == Cfg["PREVIEW"]
      failed == Try("deinit", c.venc) \o If(v, Try("deinit", c.vpss)) \o Try("deinit", c.vi)
  IN  Do("call", "SetVencAttr", Try("deinit", c.venc) \o Try("deinit", c.vi))
      \o Do("init", c.vi, <<>>)
      \o If(v, LET undo == Try("deinit", c.vi) \o Try("deinit", c.vpss) IN
               Do("init", c.vpss, undo) \o Do("call", "VPSS_SetChnAttr", undo))
      \o Do("init", c.venc, failed)
      \o Do("call", "StartRecvFrame", failed)
      \o Do("get", c.venc, failed)
      \o Do("bind", <<Src(c, v), c.venc>>, failed)
      \o If(v, Do("bind", <<c.vi, In(c)>>, Try("unbind", <<c.vpss, c.venc>>) \o failed))

StreamClose(x, v) ==
  LET c == Cfg["PREVIEW"] IN
  Try("stop", c.venc)
  \o Do("unbind", <<Src(c, v), c.venc>>, <<>>)
  \o If(v, Do("unbind", <<c.vi, In(c)>>, <<>>))
  \o Do("deinit", c.venc, <<>>)
  \o If(v, Do("deinit", c.vpss, <<>>))
  \o Do("deinit", c.vi, <<>>)

\* RKADK_MEDIA_VideoReset, for the preview, RTSP and RTMP: the hardware's
\* bind is undone and made again past the table.
VideoReset(c, v) ==
  Do("call", "GetChnAttr", <<>>)
  \o Do("unwire", <<Src(c, v), c.venc>>, <<>>)
  \o Do("call", "SetChnAttr", <<>>)
  \o Do("wire", <<Src(c, v), c.venc>>, <<>>)

StreamReset(v) == Do("call", "VencStop", <<>>) \o VideoReset(Cfg["PREVIEW"], v)

\* RKADK_STREAM_AudioInit with a codec
AudioOpen(x) ==
  LET failed == Try("deinit", Aenc["audio"]) \o Try("deinit", Ai) IN
  Do("call", "AencRegister", <<>>)
  \o Do("call", "SetAiConfig", <<>>)
  \o Do("init", Ai, <<>>)
  \o Do("init", Aenc["audio"], failed)
  \o Do("get", Aenc["audio"], failed)
  \o Do("bind", <<Ai, Aenc["audio"]>>, failed)

AudioClose(x) ==
  Try("stop", Aenc["audio"])
  \o Do("unbind", <<Ai, Aenc["audio"]>>, <<>>)
  \o Do("deinit", Aenc["audio"], <<>>)
  \o Do("deinit", Ai, <<>>)

-----------------------------------------------------------------------------
(* RTSP (rkadk_rtsp.c); its encoder is one that another kind uses as well  *)

\* RKADK_RTSP_SetAencAttr and its like of RTMP: when it fails, the function
\* undoes AI and returns the 0 of AI_Init, so its caller goes on.
SetAencAttr == <<[op |-> "call", on |-> "SetAencAttr", undo |-> Try("deinit", Ai), skip |-> 1]>>

RtspEnableAudio ==
  Do("call", "SetAiAttr", <<>>)
  \o Do("init", Ai, <<>>)
  \o SetAencAttr
  \o Do("init", Aenc["rtsp"], Try("deinit", Ai))

RtspDisableAudio == Do("deinit", Aenc["rtsp"], <<>>) \o Do("deinit", Ai, <<>>)

RtspOpen(x, v) ==
  LET c == Cfg["LIVE"]
      failed == Try("deinit", c.venc) \o Try("deinit", c.vpss) \o Try("deinit", c.vi)
                \o Ignored(RtspDisableAudio)
      undo   == Try("deinit", c.vi) \o Try("deinit", c.vpss)
      unbind == Try("unbind", <<Src(c, v), c.venc>>)
                \o If(v, Try("unbind", <<c.vi, c.vpss>>))
  IN  RtspEnableAudio
      \o Do("get", Aenc["rtsp"], failed)
      \o Do("init", c.vi, failed)
      \o If(v, Do("init", c.vpss, failed) \o Do("call", "VPSS_SetChnAttr", undo))
      \o Do("call", "SetVencAttr", failed)
      \o Do("init", c.venc, failed)
      \o Do("call", "StartRecvFrame", failed)
      \o Do("get", c.venc, failed)
      \o Do("bind", <<Src(c, v), c.venc>>, failed)
      \o If(v, Do("bind", <<c.vi, In(c)>>, Try("unbind", <<c.vpss, c.venc>>) \o failed))
      \o Do("bind", <<Ai, Aenc["rtsp"]>>, unbind \o failed)

\* bVencChnMux: the encoder is also that of a recorder's stream or of the
\* preview, which RKADK_PARAM_VencChnMux asks first.
VencChnMux == Cfg["LIVE"].venc \in {Cfg[p].venc : p \in {RecPaths[1], RecPaths[2], "PREVIEW"}}

\* The callback of an encoder that is RTSP's alone stays registered.
RtspClose(x, v) ==
  LET c == Cfg["LIVE"] IN
  If(VencChnMux, Try("stop", c.venc))
  \o Try("stop", Aenc["rtsp"])
  \o Do("unbind", <<Src(c, v), c.venc>>, <<>>)
  \o If(v, Do("unbind", <<c.vi, In(c)>>, <<>>))
  \o Do("deinit", c.venc, <<>>)
  \o If(v, Do("deinit", c.vpss, <<>>))
  \o Do("deinit", c.vi, <<>>)
  \o Do("unbind", <<Ai, Aenc["rtsp"]>>, <<>>)
  \o RtspDisableAudio

-----------------------------------------------------------------------------
(* RTMP (rkadk_rtmp.c), with sound                                         *)

RtmpEnableVideo(v) ==
  LET c == Cfg["LIVE"]
      failed == If(v, Try("deinit", c.vpss)) \o Try("deinit", c.vi)
      undo   == Try("deinit", c.vi) \o Try("deinit", c.vpss)
  IN  Do("init", c.vi, <<>>)
      \o If(v, Do("init", c.vpss, undo) \o Do("call", "VPSS_SetChnAttr", undo))
      \o Do("call", "SetVencAttr", failed)
      \o Do("init", c.venc, failed)

RtmpDisableVideo(v) ==
  LET c == Cfg["LIVE"] IN
  Do("deinit", c.venc, <<>>)
  \o If(v, Do("deinit", c.vpss, <<>>))
  \o Do("deinit", c.vi, <<>>)

RtmpDisableAudio == Do("deinit", Aenc["rtmp"], <<>>) \o Do("deinit", Ai, <<>>)

RtmpEnableAudio(failed) ==
  Do("call", "AencRegister", failed)
  \o Do("call", "SetAiAttr", failed)
  \o Do("init", Ai, failed)
  \o SetAencAttr
  \o Do("init", Aenc["rtmp"], Try("deinit", Ai) \o failed)

\* The callbacks are not unregistered on failure.
RtmpOpen(x, v) ==
  LET c == Cfg["LIVE"]
      failed == Ignored(RtmpDisableVideo(v)) \o Ignored(RtmpDisableAudio)
      unbind == Try("unbind", <<Src(c, v), c.venc>>)
                \o If(v, Try("unbind", <<c.vi, c.vpss>>))
  IN  Do("call", "InitMuxer", <<>>)
      \o RtmpEnableVideo(v)
      \o RtmpEnableAudio(Ignored(RtmpDisableVideo(v)))
      \o Do("get", Aenc["rtmp"], failed)
      \o Do("call", "StartRecvFrame", failed)
      \o Do("get", c.venc, failed)
      \o Do("bind", <<Src(c, v), c.venc>>, failed)
      \o If(v, Do("bind", <<c.vi, In(c)>>, Try("unbind", <<c.vpss, c.venc>>) \o failed))
      \o Do("bind", <<Ai, Aenc["rtmp"]>>, unbind \o failed)

RtmpClose(x, v) ==
  LET c == Cfg["LIVE"] IN
  Try("stop", c.venc)
  \o Try("stop", Aenc["rtmp"])
  \o Do("unbind", <<Src(c, v), c.venc>>, <<>>)
  \o If(v, Do("unbind", <<c.vi, In(c)>>, <<>>))
  \o Do("unbind", <<Ai, Aenc["rtmp"]>>, <<>>)
  \o RtmpDisableVideo(v)
  \o RtmpDisableAudio

-----------------------------------------------------------------------------
(* Photo (rkadk_photo.c), without slices and format change: its encoder is *)
(* created past the table                                                  *)

PhotoCreateVpss(c, failed) ==
  Do("init", c.vpss, Try("deinit", c.vpss) \o failed)
  \o Do("call", "VPSS_SetChnAttr", Try("deinit", c.vpss) \o failed)

PhotoCreateVideo(x, v) ==
  LET c == Cfg["PHOTO"]
      failed == Try("destroy", c.venc) \o If(v, Try("deinit", c.vpss)) \o Try("deinit", c.vi)
      Also(s) == [i \in 1 .. Len(s) |-> [s[i] EXCEPT !.undo = @ \o failed]]
  IN  Do("init", c.vi, <<>>)
      \o If(v, PhotoCreateVpss(c, failed))
      \o Do("call", "SetVencAttr", failed)
      \o Do("create", c.venc, failed)
      \o Do("call", "StartRecvFrame", failed)
      \o Also(ThumbnailInit(x, ThumbOf["PHOTO"]))

PhotoDestroyVideo(x, v) ==
  LET c == Cfg["PHOTO"] IN
  Do("destroy", c.venc, <<>>)
  \o If(v, Do("deinit", c.vpss, <<>>))
  \o Do("deinit", c.vi, <<>>)
  \o ThumbnailDeInit(x, ThumbOf["PHOTO"])

PhotoBind(v) ==
  LET c == Cfg["PHOTO"] IN
  Do("bind", <<Src(c, v), c.venc>>, <<>>)
  \o If(v, Do("bind", <<c.vi, In(c)>>, Try("unbind", <<c.vpss, c.venc>>)))

PhotoUnBind(v) ==
  LET c == Cfg["PHOTO"] IN
  Do("unbind", <<Src(c, v), c.venc>>, <<>>)
  \o If(v, Do("unbind", <<c.vi, In(c)>>, <<>>))

\* Nothing is released when the binds or the thread fail.
PhotoOpen(x, v) ==
  PhotoCreateVideo(x, v) \o PhotoBind(v) \o Do("call", "pthread_create", <<>>)

PhotoClose(x) ==
  LET v == "PHOTO" \in x.vpss IN
  Do("call", "StopRecvFrame", <<>>) \o PhotoUnBind(v) \o PhotoDestroyVideo(x, v)

\* RKADK_PHOTO_Reset goes through the table.
PhotoReset(x) ==
  LET c == Cfg["PHOTO"]
      pair == <<Src(c, ("PHOTO" \in x.vpss)), c.venc>>
  IN  Do("call", "GetChnAttr", <<>>)
      \o Do("unbind", pair, <<>>)
      \o Do("call", "SetChnAttr", <<>>)
      \o Do("bind", pair, <<>>)

-----------------------------------------------------------------------------
(* Display (rkadk_disp.c), always with a VPSS                              *)

DispEnable(c, failed) ==
  Do("init", c.vi, failed)
  \o Do("init", c.vpss, failed)
  \o Do("init", Vo, failed)
  \o Do("bind", <<c.vpss, Vo>>, failed)
  \o Do("bind", <<c.vi, In(c)>>, failed)

DispOpen(x) ==
  LET c == Cfg["DISP"] IN
  DispEnable(c, Try("unbind", <<c.vpss, Vo>>) \o Try("unbind", <<c.vi, In(c)>>)
                \o Try("deinit", Vo) \o Try("deinit", c.vpss) \o Try("deinit", c.vi))

DispClose(x) ==
  LET c == Cfg["DISP"] IN
  Do("unbind", <<c.vpss, Vo>>, <<>>)
  \o Do("unbind", <<c.vi, In(c)>>, <<>>)
  \o Do("deinit", Vo, <<>>)
  \o Do("deinit", c.vpss, <<>>)
  \o Do("deinit", c.vi, <<>>)

-----------------------------------------------------------------------------
(* The application                                                         *)

OpenScript(u, x) ==
  CASE Kind[u] = "rec"    -> RecOpen(x)
    [] Kind[u] = "stream" -> StreamOpen(x, Use(x, "PREVIEW"))
    [] Kind[u] = "audio"  -> AudioOpen(x)
    [] Kind[u] = "rtsp"   -> RtspOpen(x, Use(x, "LIVE"))
    [] Kind[u] = "rtmp"   -> RtmpOpen(x, Use(x, "LIVE"))
    [] Kind[u] = "photo"  -> PhotoOpen(x, Use(x, "PHOTO"))
    [] Kind[u] = "disp"   -> DispOpen(x)

CloseScript(u, x) ==
  CASE Kind[u] = "rec"    -> RecClose(x)
    [] Kind[u] = "stream" -> StreamClose(x, Use(x, "PREVIEW"))
    [] Kind[u] = "audio"  -> AudioClose(x)
    [] Kind[u] = "rtsp"   -> RtspClose(x, Use(x, "LIVE"))
    [] Kind[u] = "rtmp"   -> RtmpClose(x, Use(x, "LIVE"))
    [] Kind[u] = "photo"  -> PhotoClose(x)
    [] Kind[u] = "disp"   -> DispClose(x)

ResetScript(u, x) ==
  CASE Kind[u] = "rec"    -> RecReset(x)
    [] Kind[u] = "stream" -> StreamReset(Use(x, "PREVIEW"))
    [] Kind[u] \in {"rtsp", "rtmp"} -> VideoReset(Cfg["LIVE"], Use(x, "LIVE"))
    [] Kind[u] = "photo"  -> PhotoReset(x)
    [] OTHER -> <<>>

\* What a script depends on: the parameters, and what the handle remembers.
Situations ==
  [scaled : SUBSET UNION {l.resizable : l \in Lineups}, type : {"normal", "lapse"}, was : {"normal", "lapse"},
   vpss : SUBSET {RecPaths[1], RecPaths[2], "PHOTO"}]

Scripts ==
  [u \in Users |-> [x \in Situations |->
    [open |-> OpenScript(u, x), close |-> CloseScript(u, x), reset |-> ResetScript(u, x)]]]

\* Seeded fault, a wrong form of Script: a close goes by the parameters of
\* now and not by those of the opening.
ScriptNow(u) ==
  Scripts[u][[scaled |-> scaled, type |-> recType, was |-> job[u].was,
              vpss |-> {p \in {RecPaths[1], RecPaths[2], "PHOTO"} : Use([scaled |-> scaled], p)}]][job[u].what]

Script(u) ==
  Scripts[u][[scaled |-> scaled, type |-> recType, was |-> job[u].was, vpss |-> mem[u].vpss]][job[u].what]

Init ==
  /\ t = EmptyTables
  /\ st = [u \in Users |-> "closed"]
  /\ job = [u \in Users |-> Idle]
  /\ mem = [u \in Users |-> [vpss |-> {}, type |-> "normal"]]
  /\ scaled = {}
  /\ recType = "normal"
  /\ held = [u \in Users |-> Unused]
  /\ faults = 0
  /\ lineup \in Lineups

\* A thread does one thing at a time.
Free(u) == \A w \in lineup.users : lineup.threadOf[w] = lineup.threadOf[u] => job[w].what = "idle"

Begin(u, what) ==
  /\ Free(u)
  /\ job' = [job EXCEPT ![u] = [Idle EXCEPT !.what = what, !.was = mem[u].type]]
  /\ UNCHANGED <<t, st, scaled, recType, held, faults, lineup>>

Remembered(u) ==
  CASE Kind[u] = "rec"   -> {RecPaths[1], RecPaths[2]}
    [] Kind[u] = "photo" -> {"PHOTO"}
    [] OTHER -> {}

Remembers(u, sizes, type) ==
  [vpss |-> {p \in Remembered(u) : Use([scaled |-> sizes], p)},
   type |-> IF Kind[u] = "rec" THEN type ELSE "normal"]

Open(u) ==
  /\ st[u] = "closed"
  /\ Begin(u, "open")
  /\ mem' = [mem EXCEPT ![u] = Remembers(u, scaled, recType)]

Close(u) == st[u] = "open" /\ Begin(u, "close") /\ mem' = mem

Reset(u) ==
  /\ st[u] = "open" /\ Kind[u] \notin {"audio", "disp"}
  /\ Begin(u, "reset") /\ mem' = mem

Counted(own, op, on) ==
  CASE op \in {"init", "bind"}     -> More(own, on)
    [] op \in {"deinit", "unbind"} -> Less(own, on)
    [] OTHER -> own

\* What is left to undo comes first, then the rest of the script; place 0 is
\* past the end.
Undoing(j) == j.undo # <<>>
Left(j)    == Undoing(j) \/ j.at # 0
Place(i, script) == IF i \in DOMAIN script THEN i ELSE 0
Item(j, script)  == IF Undoing(j) THEN Head(j.undo) ELSE script[j.at]

Advance(j, script, s, ok) ==
  IF Undoing(j)
  THEN [j EXCEPT !.undo = IF ok THEN Tail(@) ELSE s.undo \o SubSeq(@, 2 + s.skip, Len(@))]
  ELSE IF ok THEN [j EXCEPT !.at = Place(@ + 1, script)]
  ELSE IF s.skip # Abort THEN [j EXCEPT !.at = Place(@ + 1 + s.skip, script), !.undo = s.undo]
  ELSE [j EXCEPT !.at = 0, !.undo = s.undo, !.ok = FALSE]

\* One call of a script.
Step(u) ==
  /\ job[u].what # "idle" /\ Left(job[u])
  /\ \E script \in {Script(u)} :
     \E s \in {Item(job[u], script)} :
       LET Answer(bad) == IF s.op = "type" THEN Good(t) ELSE Call(t, u, s.op, s.on, bad)
       IN  \E bad \in {{}} \cup {{f} : f \in Faults(u, job[u].what, s)} :
           \E r \in {Answer(bad)} :
             /\ bad # {} => faults < lineup.maxFaults /\ r # Answer({})
             /\ faults' = faults + Cardinality(bad)
             /\ t' = r.t
             /\ job' = [job EXCEPT ![u] = Advance(@, script, s, r.ok)]
             /\ held' = IF r.ok THEN [held EXCEPT ![u] = Counted(@, s.op, s.on)] ELSE held
             /\ mem' = IF s.op = "type" THEN [mem EXCEPT ![u].type = s.on] ELSE mem
  /\ UNCHANGED <<st, scaled, recType, lineup>>

\* A failed opening gives no handle; a failed closing leaves it to the
\* application, which may try again.
StAfter(j, was) ==
  IF ~j.ok THEN was ELSE IF j.what = "open" THEN "open" ELSE IF j.what = "close" THEN "closed" ELSE was

End(u) ==
  /\ job[u].what # "idle" /\ ~Left(job[u])
  /\ st' = [st EXCEPT ![u] = StAfter(job[u], @)]
  /\ job' = [job EXCEPT ![u] = Idle]
  /\ mem' = IF st'[u] = "open" THEN mem ELSE [mem EXCEPT ![u] = [vpss |-> {}, type |-> "normal"]]
  /\ UNCHANGED <<t, scaled, recType, held, faults, lineup>>

Toggled(set, p) == IF p \in set THEN set \ {p} ELSE set \cup {p}
OtherType(type) == IF type = "normal" THEN "lapse" ELSE "normal"

\* RKADK_PARAM_SetCamParam between two jobs of the path's users.
Resize(p) ==
  /\ \A u \in Users : job[u].what = "idle"
  /\ scaled' = Toggled(scaled, p)
  /\ UNCHANGED <<t, st, job, mem, recType, held, faults, lineup>>

SetRecordType ==
  /\ \A u \in Users : job[u].what = "idle"
  /\ \E u \in lineup.users : Kind[u] = "rec"
  /\ recType' = OtherType(recType)
  /\ UNCHANGED <<t, st, job, mem, scaled, held, faults, lineup>>

Next ==
  \/ \E u \in lineup.users : Open(u) \/ Close(u) \/ Reset(u) \/ Step(u) \/ End(u)
  \/ \E p \in lineup.resizable : Resize(p)
  \/ SetRecordType

Spec == Init /\ [][Next]_vars

-----------------------------------------------------------------------------
(* Properties                                                              *)

\* Every count of the tables is the number of references its users were
\* given and have not given back: nobody releases what is another's, on no
\* path of success or failure.
Holders(x)    == {u \in Users : x \in DOMAIN held[u]}
References(x) == UNION {{<<u, k>> : k \in 1 .. held[u][x]} : u \in Holders(x)}

Accounted ==
  /\ \A c \in Chans : Count(t.cnt, c) = Cardinality(References(c))
  /\ \A p \in Pairs : Count(t.bind, p) = Cardinality(References(p))

\* What an open user was given works: its channels and their devices run
\* and its binds are made, whoever else opens, fails, resets or closes,
\* except while a reset has taken the bind apart.
OpenPathWorks ==
  LET Resetting(p) == \E u \in Users :
        /\ job[u].what = "reset" /\ job[u].at # 0
        /\ \E script \in {Script(u)} : \E i \in job[u].at .. Len(script) :
             script[i].op \in {"wire", "bind"} /\ script[i].on = p
      Works(x) ==
        IF x \in Chans
        THEN x \in t.on /\ (Mod(x) \in {"VI", "AI", "VPSS", "VO"} => Dev(x) \in t.on)
        ELSE x \in t.wire \/ Resetting(x)
  IN  \A u \in Users : st[u] = "open" => \A x \in DOMAIN held[u] : Works(x)

\* A callback in the tables belongs to a user that is not closed and to a
\* channel that exists: the threads never call for a handle that was freed.
CallbacksHaveOwners ==
  \A r \in t.cb : (st[r[1]] = "open" \/ job[r[1]].what # "idle") /\ r[2] \in t.on

\* Closing what was opened succeeds: every release finds what it releases.
CloseSucceeds == \A u \in Users : job[u].what = "close" => job[u].ok

=============================================================================
