---------------------------- MODULE MediaTables ----------------------------
(***************************************************************************)
(* The tables of src/src/common/rkadk_media_comm.c: one entry with a count *)
(* for every channel (VI, VPSS, VENC, AI, AENC, VO) and for every bind of  *)
(* two channels, the counts of the VPSS groups and of the output devices,  *)
(* and the callbacks of the encoders.  A call runs under its table's mutex *)
(* and is one operator here: from the tables t and the set bad of media    *)
(* library calls that fail this time it gives [ok |-> , t |-> ].  Two      *)
(* things are left out: AI_DeInit returns with the mutex held when         *)
(* RK_MPI_AI_Disable fails, and an entry found with a count of zero (its   *)
(* bUsed is cleared with the last count).                                  *)
(***************************************************************************)
EXTENDS Integers, FiniteSets

CONSTANTS
  Chans,     \* channels <<module, device, channel>>
  Pairs,     \* binds <<source, destination>>
  Capacity   \* <<module>> or <<module, module>> |-> number of entries

Mod(c) == c[1]
Dev(c) == <<c[1], c[2]>>

\* A table of counts: the entries in use (bUsed), each with its count.
Count(f, x) == IF x \in DOMAIN f THEN f[x] ELSE 0
More(f, x)  == [y \in DOMAIN f \cup {x} |-> IF y = x THEN Count(f, x) + 1 ELSE f[y]]
Less(f, x)  == [y \in {z \in DOMAIN f : z # x \/ f[z] > 1} |-> IF y = x THEN f[y] - 1 ELSE f[y]]
Unused      == [x \in {} |-> 0]

EmptyTables ==
  [cnt  |-> Unused,   \* channels: s32InitCnt of their entries
   bind |-> Unused,   \* pairs: s32BindCnt of their entries
   grp  |-> Unused,   \* groups: g_bVpssGrpInitCnt, g_bVoLayerDevInitCnt
   on   |-> {},       \* channels and devices the hardware runs
   wire |-> {},       \* binds the hardware knows
   cb   |-> {}]       \* callbacks <<user, encoder channel>>

Good(t) == [ok |-> TRUE, t |-> t]
Bad(t)  == [ok |-> FALSE, t |-> t]

\* RKADK_MEDIA_GetIdx and RKADK_MEDIA_FindUsableIdx both fail.
NoEntry(t, c) ==
  Cardinality({d \in Chans : Mod(d) = Mod(c) /\ Count(t.cnt, d) > 0}) >= Capacity[<<Mod(c)>>]

Another(t, c)  == Good([t EXCEPT !.cnt = More(@, c)])
Opened(t, c, on) == Good([t EXCEPT !.cnt = More(@, c), !.on = @ \cup on])
OneLess(t, c)  == Good([t EXCEPT !.cnt = Less(@, c)])
Shut(t, c, off) == Good([t EXCEPT !.cnt = Less(@, c), !.on = @ \ off])

-----------------------------------------------------------------------------
(* Seeded faults: wrong forms of definitions below.  No specification uses *)
(* them; each shows that some property can fail.                           *)

\* the camera is disabled with any last user of a channel
ViDeInitDevice(t, c, bad) ==
  CASE Count(t.cnt, c) = 0 -> Bad(t)
    [] Count(t.cnt, c) > 1 -> OneLess(t, c)
    [] OTHER -> Shut(t, c, {c, Dev(c)})

\* the hardware is unbound by any user
UnBindAtOnce(t, p, bad) ==
  IF Count(t.bind, p) = 0 THEN Bad(t)
  ELSE Good([t EXCEPT !.bind = Less(@, p), !.wire = @ \ {p}])

\* the encoder's second user is not counted
VencInitUncounted(t, c, bad) ==
  IF Count(t.cnt, c) > 0 THEN Good(t) ELSE Opened(t, c, {c})

\* a callback is forgotten only with the last of its channel
StopGetVencBufferLast(t, u, c) ==
  IF Count(t.cnt, c) = 0 THEN Bad(t)
  ELSE Good([t EXCEPT !.cb = IF {r[1] : r \in {r \in @ : r[2] = c}} = {u} THEN @ \ {<<u, c>>} ELSE @])

-----------------------------------------------------------------------------
(* Cameras                                                                 *)

ViInit(t, c, bad) ==
  CASE Count(t.cnt, c) > 0 -> Another(t, c)
    [] Count(t.cnt, c) = 0 /\ NoEntry(t, c) -> Bad(t)
    [] Count(t.cnt, c) = 0 /\ ~NoEntry(t, c) ->
       IF Dev(c) \notin t.on /\ "VI_EnableDev" \in bad THEN Bad(t)
       ELSE IF "VI_EnableChn" \in bad THEN Bad([t EXCEPT !.on = @ \ {Dev(c)}])
       ELSE Opened(t, c, {c, Dev(c)})

\* The last user of the last channel of a camera disables it.
ViDeInit(t, c, bad) ==
  LET others == {d \in Chans \ {c} : Dev(d) = Dev(c) /\ Count(t.cnt, d) > 0}
  IN CASE Count(t.cnt, c) = 0 -> Bad(t)
       [] Count(t.cnt, c) > 1 -> OneLess(t, c)
       [] OTHER -> IF "VI_DisableChn" \in bad THEN Bad(t)
                   ELSE Shut(t, c, {c} \cup (IF others = {} THEN {Dev(c)} ELSE {}))

-----------------------------------------------------------------------------
(* VPSS: the group is counted apart from its channels                      *)

GroupUp(t, d)   == [t EXCEPT !.grp = More(@, d), !.on = @ \cup {d}]
GroupDown(t, d) ==
  [t EXCEPT !.grp = Less(@, d), !.on = IF Count(t.grp, d) = 1 THEN @ \ {d} ELSE @]

\* A channel that cannot be enabled leaves the count of its group raised.
VpssInit(t, c, bad) ==
  CASE Count(t.cnt, c) > 0 -> Another(t, c)
    [] Count(t.cnt, c) = 0 /\ NoEntry(t, c) -> Bad(t)
    [] Count(t.cnt, c) = 0 /\ ~NoEntry(t, c) ->
       IF Count(t.grp, Dev(c)) = 0 /\ "VPSS_CreateGrp" \in bad THEN Bad(t)
       ELSE IF "VPSS_EnableChn" \in bad THEN Bad(GroupUp(t, Dev(c)))
       ELSE Opened(GroupUp(t, Dev(c)), c, {c})

VpssDeInit(t, c, bad) ==
  CASE Count(t.cnt, c) = 0 -> Bad(t)
    [] Count(t.cnt, c) > 1 -> OneLess(t, c)
    [] OTHER -> IF "VPSS_DisableChn" \in bad THEN Bad(t)
                ELSE Shut(GroupDown(t, Dev(c)), c, {c})

-----------------------------------------------------------------------------
(* Encoders                                                                *)

VencInit(t, c, bad) ==
  CASE Count(t.cnt, c) > 0 -> Another(t, c)
    [] Count(t.cnt, c) = 0 /\ NoEntry(t, c) -> Bad(t)
    [] Count(t.cnt, c) = 0 /\ ~NoEntry(t, c) ->
       IF "VENC_CreateChn" \in bad THEN Bad(t) ELSE Opened(t, c, {c})

VencDeInit(t, c, bad) ==
  CASE Count(t.cnt, c) = 0 -> Bad(t)
    [] Count(t.cnt, c) > 1 -> OneLess(t, c)
    [] OTHER -> IF "VENC_DestroyChn" \in bad THEN Bad(t) ELSE Shut(t, c, {c})

AencInit(t, c, bad) ==
  CASE Count(t.cnt, c) > 0 -> Another(t, c)
    [] Count(t.cnt, c) = 0 /\ NoEntry(t, c) -> Bad(t)
    [] Count(t.cnt, c) = 0 /\ ~NoEntry(t, c) ->
       IF "AENC_CreateChn" \in bad THEN Bad(t) ELSE Opened(t, c, {c})

AencDeInit(t, c, bad) ==
  CASE Count(t.cnt, c) = 0 -> Bad(t)
    [] Count(t.cnt, c) > 1 -> OneLess(t, c)
    [] OTHER -> IF "AENC_DestroyChn" \in bad THEN Bad(t) ELSE Shut(t, c, {c})

\* RKADK_MEDIA_GetVencBuffer: the first callback of a channel starts the
\* thread; it stays in the table when that fails.
GetVencBuffer(t, u, c, bad) ==
  LET registered == [t EXCEPT !.cb = @ \cup {<<u, c>>}]
      threadRuns == \E r \in t.cb : r[2] = c
  IN IF Count(t.cnt, c) = 0 THEN Bad(t)
     ELSE IF ~threadRuns /\ "pthread_create" \in bad THEN Bad(registered)
     ELSE Good(registered)

StopGetVencBuffer(t, u, c) ==
  IF Count(t.cnt, c) = 0 THEN Bad(t) ELSE Good([t EXCEPT !.cb = @ \ {<<u, c>>}])

\* The audio encoders have a copy of the same code.
GetAencBuffer(t, u, c, bad) == GetVencBuffer(t, u, c, bad)
StopGetAencBuffer(t, u, c)  == StopGetVencBuffer(t, u, c)

-----------------------------------------------------------------------------
(* Sound and picture output                                                *)

\* A channel that cannot be enabled leaves its device enabled.
AiInit(t, c, bad) ==
  CASE Count(t.cnt, c) > 0 -> Another(t, c)
    [] Count(t.cnt, c) = 0 /\ NoEntry(t, c) -> Bad(t)
    [] Count(t.cnt, c) = 0 /\ ~NoEntry(t, c) ->
       IF "AI_Enable" \in bad THEN Bad(t)
       ELSE IF "AI_EnableChn" \in bad THEN Bad([t EXCEPT !.on = @ \cup {Dev(c)}])
       ELSE Opened(t, c, {c, Dev(c)})

AiDeInit(t, c, bad) ==
  CASE Count(t.cnt, c) = 0 -> Bad(t)
    [] Count(t.cnt, c) > 1 -> OneLess(t, c)
    [] OTHER -> IF "AI_DisableChn" \in bad THEN Bad(t) ELSE Shut(t, c, {c, Dev(c)})

\* The output device and its layer are counted like a VPSS group.
LayDevUp(t, d)   == GroupUp(t, d)
LayDevDown(t, d) == GroupDown(t, d)

\* RKADK_MPI_VO_Init returns 0 even when it fails.
VoInit(t, c, bad) ==
  CASE Count(t.cnt, c) > 0 -> Another(t, c)
    [] Count(t.cnt, c) = 0 /\ NoEntry(t, c) -> Good(t)
    [] Count(t.cnt, c) = 0 /\ ~NoEntry(t, c) ->
       IF Count(t.grp, Dev(c)) = 0 /\ "VO_Enable" \in bad THEN Good(t)
       ELSE IF "VO_EnableChn" \in bad THEN Good(LayDevUp(t, Dev(c)))
       ELSE Opened(LayDevUp(t, Dev(c)), c, {c})

VoDeInit(t, c, bad) ==
  CASE Count(t.cnt, c) = 0 -> Bad(t)
    [] Count(t.cnt, c) > 1 -> OneLess(t, c)
    [] OTHER -> IF "VO_DisableChn" \in bad THEN Bad(t)
                ELSE Shut(LayDevDown(t, Dev(c)), c, {c})

-----------------------------------------------------------------------------
(* Binds                                                                   *)

\* RKADK_MEDIA_GetBindInfo: VPSS to VENC and VPSS to VO share a table.
Table(p) ==
  IF Mod(p[1]) = "VPSS" THEN <<"VPSS", "VENC">> ELSE <<Mod(p[1]), Mod(p[2])>>

NoBindEntry(t, p) ==
  Cardinality({q \in Pairs : Table(q) = Table(p) /\ Count(t.bind, q) > 0}) >= Capacity[Table(p)]

Bind(t, p, bad) ==
  CASE Count(t.bind, p) > 0 -> Good([t EXCEPT !.bind = More(@, p)])
    [] Count(t.bind, p) = 0 -> IF NoBindEntry(t, p) \/ "SYS_Bind" \in bad THEN Bad(t)
                        ELSE Good([t EXCEPT !.bind = More(@, p), !.wire = @ \cup {p}])

UnBind(t, p, bad) ==
  CASE Count(t.bind, p) = 0 -> Bad(t)
    [] Count(t.bind, p) > 1 -> Good([t EXCEPT !.bind = Less(@, p)])
    [] OTHER -> IF "SYS_UnBind" \in bad THEN Bad(t)
                ELSE Good([t EXCEPT !.bind = Less(@, p), !.wire = @ \ {p}])

-----------------------------------------------------------------------------
InitChn(t, c, bad) ==
  CASE Mod(c) = "VI"   -> ViInit(t, c, bad)
    [] Mod(c) = "VPSS" -> VpssInit(t, c, bad)
    [] Mod(c) = "VENC" -> VencInit(t, c, bad)
    [] Mod(c) = "AI"   -> AiInit(t, c, bad)
    [] Mod(c) = "AENC" -> AencInit(t, c, bad)
    [] Mod(c) = "VO"   -> VoInit(t, c, bad)

DeInitChn(t, c, bad) ==
  CASE Mod(c) = "VI"   -> ViDeInit(t, c, bad)
    [] Mod(c) = "VPSS" -> VpssDeInit(t, c, bad)
    [] Mod(c) = "VENC" -> VencDeInit(t, c, bad)
    [] Mod(c) = "AI"   -> AiDeInit(t, c, bad)
    [] Mod(c) = "AENC" -> AencDeInit(t, c, bad)
    [] Mod(c) = "VO"   -> VoDeInit(t, c, bad)

\* One call on behalf of user u.  "wire" and "unwire" are RK_MPI_SYS_Bind
\* and RK_MPI_SYS_UnBind called past the table, "create" and "destroy" the
\* same for an encoder; "call" is any other call that may fail and leaves
\* the tables alone.
Call(t, u, op, on, bad) ==
  CASE op = "init"   -> InitChn(t, on, bad)
    [] op = "deinit" -> DeInitChn(t, on, bad)
    [] op = "bind"   -> Bind(t, on, bad)
    [] op = "unbind" -> UnBind(t, on, bad)
    [] op = "get" /\ Mod(on) = "VENC"  -> GetVencBuffer(t, u, on, bad)
    [] op = "get" /\ Mod(on) = "AENC"  -> GetAencBuffer(t, u, on, bad)
    [] op = "stop" /\ Mod(on) = "VENC" -> StopGetVencBuffer(t, u, on)
    [] op = "stop" /\ Mod(on) = "AENC" -> StopGetAencBuffer(t, u, on)
    [] op = "wire"    -> IF "SYS_Bind" \in bad THEN Bad(t)
                         ELSE Good([t EXCEPT !.wire = @ \cup {on}])
    [] op = "unwire"  -> IF on \notin t.wire \/ "SYS_UnBind" \in bad THEN Bad(t)
                         ELSE Good([t EXCEPT !.wire = @ \ {on}])
    [] op = "create"  -> IF "VENC_CreateChn" \in bad THEN Bad(t)
                         ELSE Good([t EXCEPT !.on = @ \cup {on}])
    [] op = "destroy" -> IF on \in t.on THEN Good([t EXCEPT !.on = @ \ {on}]) ELSE Bad(t)
    [] op = "call"    -> IF "call" \in bad THEN Bad(t) ELSE Good(t)
=============================================================================
