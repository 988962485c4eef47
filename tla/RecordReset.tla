---------------------------- MODULE RecordReset ----------------------------
(***************************************************************************)
(* What a reset does to the encoders of the recorder                       *)
(* (src/src/record/rkadk_record.c) and of the preview and live streams     *)
(* (src/src/common/rkadk_media_comm.c): RKADK_RECORD_Reset compares the    *)
(* configuration with what each encoder was given and gives it again.      *)
(*                                                                         *)
(* cfg is the recorder's configuration: type, multiple (lapse_multiple)    *)
(* and stream, a function of the streams' fps, bitrate, gop, size, codec   *)
(* and rc.  enc is what the encoders were given: the same for each stream, *)
(* with the bitrate in thousands and a gop of 0 where the codec has none.  *)
(* sensor is the frame rate of the sensor.                                 *)
(***************************************************************************)
EXTENDS Integers

CONSTANT Resizes  \* TRUE in a build for RV1106, RV1103: size and codec can change

Min2(a, b) == IF a < b THEN a ELSE b

\* SetRcAttr, and the attributes that are copied as they are.
Encoder(a, fps) ==
  [fps |-> fps, bitrate |-> a.bitrate \div 1000, gop |-> IF a.codec = "MJPEG" THEN 0 ELSE a.gop,
   size |-> a.size, codec |-> a.codec, rc |-> a.rc]

\* RKADK_PARAM_GetRcMode knows no AVBR for MJPEG; SetRcAttr fails then.
Supported(a) == ~(a.codec = "MJPEG" /\ a.rc = "AVBR")

\* Frames per second of the file of stream i: fewer when it is a time lapse.
DstFps(cfg, i) ==
  LET fps    == cfg.stream[i].fps
      lapsed == fps \div cfg.multiple
  IN  IF cfg.type # "LAPSE" THEN fps ELSE IF lapsed < 1 THEN 1 ELSE Min2(lapsed, fps)

\* A rate above the sensor's is corrected in the configuration.
Corrected(cfg, sensor) ==
  [cfg EXCEPT !.stream = [i \in DOMAIN cfg.stream |->
     IF DstFps(cfg, i) > sensor THEN [cfg.stream[i] EXCEPT !.fps = sensor] ELSE cfg.stream[i]]]

\* SetVideoAttr, when the recorder is created: the encoder gets the rate as it was.
Created(cfg, i) == Encoder(cfg.stream[i], DstFps(cfg, i))

-----------------------------------------------------------------------------
(* Comparing                                                               *)

\* RKADK_MEDIA_VencAttrCmp: an encoder without a gop is not asked for one.
VencAttrCmp(e, gop, fps, bitrate) ==
  e.fps # fps \/ e.bitrate # bitrate \div 1000 \/ (e.gop # 0 /\ e.gop # gop)

Differs(e, a, fps) == e.codec # a.codec \/ e.size # a.size \/ VencAttrCmp(e, a.gop, fps, a.bitrate)

\* One turn of the loop of RKADK_RECORD_ResetCheck: -1 for what cannot be done.
StreamCheck(cfg, sensor, enc, rec, i) ==
  LET a == cfg.stream[i]
      e == enc[i]
  IN IF e.size # a.size /\ (rec.pip[i] \/ ~Resizes) THEN -1
     ELSE IF e.codec # a.codec /\ ~Resizes THEN -1
     ELSE IF cfg.type # rec.type \/ Differs(e, a, Min2(DstFps(cfg, i), sensor)) THEN 1 ELSE 0

\* The loop ends at the first stream that is not as it should be.
FirstToReset(cfg, sensor, enc, rec, i) ==
  /\ StreamCheck(cfg, sensor, enc, rec, i) # 0
  /\ \A j \in DOMAIN enc : j < i => StreamCheck(cfg, sensor, enc, rec, j) = 0

Unchanged(cfg, sensor, enc, rec) == \A i \in DOMAIN enc : StreamCheck(cfg, sensor, enc, rec, i) = 0

\* ResetCheck returned 1.
ResetNeeded(cfg, sensor, enc, rec) ==
  \E i \in DOMAIN enc : FirstToReset(cfg, sensor, enc, rec, i) /\ StreamCheck(cfg, sensor, enc, rec, i) = 1

-----------------------------------------------------------------------------
(* Resetting                                                               *)

\* RKADK_RECORD_ResetVideoAttr and SetChnAttr for every stream.
ResetVideo(cfg, sensor, enc) ==
  [i \in DOMAIN enc |->
     LET fps == Min2(DstFps(cfg, i), sensor)
     IN  IF Differs(enc[i], cfg.stream[i], fps) THEN Encoder(cfg.stream[i], fps) ELSE enc[i]]

\* RKADK_MUXER_ResetParam
ResetParam(cfg, rec) == [rec EXCEPT !.type = cfg.type]

\* RKADK_MEDIA_VencResetCheck and RKADK_MEDIA_ResetVideoAttr, for preview and
\* live streams a of one encoder e.
VencResetCheck(e, a) ==
  IF ~Resizes /\ (e.size # a.size \/ e.codec # a.codec) THEN -1 ELSE IF Differs(e, a, a.fps) THEN 1 ELSE 0
VideoReset(a) == Encoder(a, a.fps)

-----------------------------------------------------------------------------
(* What the definitions promise                                            *)

\* A configuration the parameters hold after their checks, and encoders that
\* were once given one.
Attributes == {"fps", "bitrate", "gop", "size", "codec", "rc"}
IsStream(a) == /\ DOMAIN a = Attributes
               /\ a.fps \in Nat \ {0} /\ a.bitrate \in Nat /\ a.gop \in Nat \ {0} /\ Supported(a)
IsCfg(cfg) == /\ cfg = [type |-> cfg.type, multiple |-> cfg.multiple, stream |-> cfg.stream]
              /\ cfg.multiple \in Nat \ {0}
              /\ cfg.stream = [i \in DOMAIN cfg.stream |-> cfg.stream[i]]
              /\ \A i \in DOMAIN cfg.stream : IsStream(cfg.stream[i])
IsEncoder(e) == e.gop = 0 <=> e.codec = "MJPEG"

\* In a time lapse a corrected rate is divided again by the next reset.
LapseFits(cfg, sensor) == cfg.type = "LAPSE" => \A i \in DOMAIN cfg.stream : DstFps(cfg, i) <= sensor

\* A reset is done with: asked again, with nothing changed in between, it
\* finds every encoder as it should be.
ResetSettles(cfg, sensor, enc, rec) ==
  ResetNeeded(cfg, sensor, enc, rec) /\ LapseFits(cfg, sensor)
    => Unchanged(Corrected(cfg, sensor), sensor, ResetVideo(cfg, sensor, enc), ResetParam(cfg, rec))

\* A reset leaves the encoders as they were if the recorder had been destroyed
\* and created with this configuration, but for the mode of the rate control.
ResetIsCreate(cfg, sensor, enc) ==
  LapseFits(cfg, sensor)
    => \A i \in DOMAIN enc : \A f \in Attributes \ {"rc"} :
         ResetVideo(cfg, sensor, enc)[i][f] = Created(Corrected(cfg, sensor), i)[f]

\* A stream that shows a picture in its picture keeps its size, unless a
\* stream before it ended the check.
PipKeepsSize(cfg, sensor, enc, rec) ==
  ResetNeeded(cfg, sensor, enc, rec)
    => \A i \in DOMAIN enc :
         rec.pip[i] /\ (\A j \in DOMAIN enc : j < i => StreamCheck(cfg, sensor, enc, rec, j) = 0)
           => ResetVideo(cfg, sensor, enc)[i].size = enc[i].size
=============================================================================
