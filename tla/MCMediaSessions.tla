-------------------------- MODULE MCMediaSessions --------------------------
(***************************************************************************)
(* The default configuration: the camera channel 0 for the main stream and *)
(* photos, 1 for thumbnails, 2 for the sub stream, preview, live and       *)
(* display; one encoder for the sub stream, the preview and live.          *)
(***************************************************************************)
EXTENDS MediaAlone, TLC

MCUsers == {"rec", "stream", "audio", "rtsp", "rtmp", "photo", "disp"}
MCKind == [u \in Users |-> u]

(* Everything but the plain sound on one thread, with a failure; and those *)
(* who share the sound, an encoder and a VPSS on a thread of their own each *)
OneThread ==
  LET us == MCUsers \ {"audio"} IN
  [users |-> us, threadOf |-> [u \in us |-> "app"], resizable |-> {"MAIN"}, maxFaults |-> 1]
ThreadEach ==
  LET us == {"rec", "audio", "rtmp"} IN
  [users |-> us, threadOf |-> [u \in us |-> u], resizable |-> {}, maxFaults |-> 0]
MCLineups == {OneThread, ThreadEach}

Vi(n) == <<"VI", 0, n>>
Venc(n) == <<"VENC", 0, n>>
Vpss(g, n) == <<"VPSS", g, n>>
Path(vi, vpss, venc, use) == [vi |-> Vi(vi), vpss |-> vpss, venc |-> Venc(venc), useVpss |-> use]

MCCfg ==
  [MAIN      |-> Path(0, Vpss(0, 1), 0, FALSE),
   SUB       |-> Path(2, Vpss(1, 0), 1, TRUE),
   PREVIEW   |-> Path(2, Vpss(1, 0), 1, TRUE),
   LIVE      |-> Path(2, Vpss(1, 0), 1, TRUE),
   DISP      |-> Path(2, Vpss(1, 1), 1, TRUE),
   PHOTO     |-> Path(0, Vpss(0, 0), 2, FALSE),
   PHOTO_TH  |-> Path(1, Vpss(2, 0), 3, FALSE),
   MAIN_TH   |-> Path(1, Vpss(2, 0), 4, FALSE),
   SUB_TH    |-> Path(1, Vpss(2, 0), 5, FALSE)]

MCRecPaths == <<"MAIN", "SUB">>
MCThumbOf == [MAIN |-> "MAIN_TH", SUB |-> "SUB_TH", PHOTO |-> "PHOTO_TH"]
MCAi == <<"AI", 0, 0>>
MCAenc == [rec |-> <<"AENC", 0, 0>>, audio |-> <<"AENC", 0, 0>>,
           rtmp |-> <<"AENC", 0, 0>>, rtsp |-> <<"AENC", 0, 1>>]
MCVo == <<"VO", 0, 0>>

\* TLC keeps the value of a definition, not that of a constant it replaces.
AllChans ==
  UNION {{c.vi, c.vpss, c.venc, In(c)} : c \in {Cfg[p] : p \in Paths}}
  \cup {Ai, Vo} \cup {Aenc[k] : k \in DOMAIN Aenc}
AllPairs ==
  UNION {{<<c.vi, c.venc>>, <<c.vpss, c.venc>>, <<c.vi, In(c)>>, <<c.vi, c.vpss>>} :
         c \in {Cfg[p] : p \in Paths}}
  \cup {<<Cfg["DISP"].vpss, Vo>>} \cup {<<Ai, Aenc[k]>> : k \in DOMAIN Aenc}
MCChans == AllChans
MCPairs == AllPairs

Entries == <<"AI">> :> 1 @@ <<"AENC">> :> 3 @@ <<"VI">> :> 4 @@ <<"VENC">> :> 7 @@ <<"VPSS">> :> 6 @@ <<"VO">> :> 6
           @@ <<"AI", "AENC">> :> 3 @@ <<"VI", "VENC">> :> 7
           @@ <<"VI", "VPSS">> :> 6 @@ <<"VPSS", "VENC">> :> 6

MCCapacity == Entries

InitFaults ==
  [VI |-> {"VI_EnableDev", "VI_EnableChn"}, VPSS |-> {"VPSS_CreateGrp", "VPSS_EnableChn"},
   VENC |-> {"VENC_CreateChn"}, AENC |-> {"AENC_CreateChn"},
   AI |-> {"AI_Enable", "AI_EnableChn"}, VO |-> {"VO_Enable", "VO_EnableChn"}]

FaultsOf(s) ==
  CASE s.op = "init"   -> InitFaults[Mod(s.on)]
    [] s.op \in {"bind", "wire"} -> {"SYS_Bind"}
    [] s.op = "unwire" -> {"SYS_UnBind"}
    [] s.op = "get"    -> {"pthread_create"}
    [] s.op = "create" -> {"VENC_CreateChn"}
    [] s.op = "call"   -> {"call"}
    [] OTHER -> {}

\* Makes TLC compute the scripts once, before the first state.
ASSUME ScriptsComputed == Scripts = [u \in Users |-> Scripts[u]]

(* What the code does not handle: one of these failures leaves a reference, *)
(* a callback or a bind behind or takes another user's.  They are hazards   *)
(* of the project's list and left out of the run, which shows that the code *)
(* handles all the others.                                                  *)
UnhandledCalls ==
  {<<"rtsp", "open", c>> : c \in {"VPSS_SetChnAttr", "SetVencAttr", "StartRecvFrame"}}
  \cup {<<"rec", "open", "SetVideoAttr">>, <<"rec", "open", "StartRecvFrame">>,
        <<"rtmp", "open", "StartRecvFrame">>, <<"stream", "open", "SetVencAttr">>,
        <<"photo", "open", "pthread_create">>, <<"photo", "close", "StopRecvFrame">>,
        <<"rec", "reset", "GetChnAttr">>}
  \cup {<<u, "reset", "SetChnAttr">> : u \in Users}
  \cup {<<u, "open", "SetAencAttr">> : u \in Users} \* fails for null pointers only, which no caller passes

ThumbVencs == {Cfg[ThumbOf[p]].venc : p \in DOMAIN ThumbOf}

Unhandled(u, what, s) ==
  {"VI_EnableChn", "VPSS_EnableChn", "AI_EnableChn", "VO_Enable", "VO_EnableChn", "pthread_create"}
  \cup (IF u = "rtsp" THEN {"VI_EnableDev"} ELSE {})
  \cup (IF u \in {"rtsp", "rec"} THEN {"VPSS_CreateGrp"} ELSE {})
  \cup (IF u = "rtsp" \/ (u = "rec" /\ s.op = "init" /\ s.on \notin ThumbVencs) THEN {"VENC_CreateChn"} ELSE {})
  \cup (IF s.op = "wire" \/ (s.op = "bind" /\ s.on[2] \notin ThumbVencs) THEN {"SYS_Bind"} ELSE {})
  \cup (IF u = "rec" THEN {"SYS_UnBind"} ELSE {})
  \cup (IF s.op = "call" /\ <<u, what, s.on>> \in UnhandledCalls THEN {"call"} ELSE {})

MCFaults(u, what, s) == FaultsOf(s) \ Unhandled(u, what, s)

(* The local states of a user, job by job: first what one job can do, call  *)
(* by call, then the jobs that may follow.                                  *)
RECURSIVE Job(_, _)
Job(u, new) ==
  LET busy == {l \in new : l.job.what # "idle"}
  IN  IF busy = {} THEN new ELSE new \cup Job(u, UNION {Follow(u, l) : l \in busy})

RECURSIVE Jobs(_, _, _)
Jobs(u, seen, new) ==
  LET more == Job(u, UNION {Follow(u, l) : l \in new})
      idle == {l \in more : l.job.what = "idle"} \ seen
  IN  IF new = {} THEN seen ELSE Jobs(u, seen \cup more, idle)

AllLocals == [u \in Users |-> LET first == {Fresh(x) : x \in Lineups} IN Jobs(u, first, first)]
MCLocals(u) == AllLocals[u]
=============================================================================
