---------------------------- MODULE MCPreRecord ----------------------------
(* Six pictures and one packet of sound; and what a reset does to the      *)
(* encoders, for every configuration and encoder of a few values, in a     *)
(* build that can change the size of a stream and in one that cannot.      *)
EXTENDS PreRecord

MCMaxT == [k \in {"v", "a"} |-> IF k = "v" THEN 6 ELSE 1]

Fixed    == INSTANCE RecordReset WITH Resizes <- FALSE
Resizing == INSTANCE RecordReset WITH Resizes <- TRUE

\* Streams of two rates, bitrates, lengths of a group, sizes, codecs and modes.
Streams == {a \in [fps : {8, 30}, bitrate : {1000, 1999}, gop : {1, 2}, size : {1, 2},
                   codec : {"H264", "MJPEG"}, rc : {"CBR", "AVBR"}] : Fixed!Supported(a)}
Plain   == {a \in Streams : a.bitrate = 1000 /\ a.gop = 1 /\ a.rc = "CBR"}
Configs(S, n) == [type : {"NORMAL", "LAPSE"}, multiple : {1, 3}, stream : [1 .. n -> S]]
Encoders(S, n) == [1 .. n -> {Fixed!Encoder(a, fps) : a \in S, fps \in {8, 10}}]
Recorders(n) == [type : {"NORMAL", "LAPSE"}, pip : [1 .. n -> BOOLEAN]]

\* A sensor of 25 frames of a second.
Promised(S, n) ==
  \A cfg \in Configs(S, n), enc \in Encoders(S, n) :
    /\ Fixed!IsCfg(cfg) /\ \A i \in 1 .. n : Fixed!IsEncoder(enc[i])
    /\ Fixed!ResetIsCreate(cfg, 25, enc)
    /\ \A rec \in Recorders(n) :
         /\ Fixed!ResetSettles(cfg, 25, enc, rec) /\ Resizing!ResetSettles(cfg, 25, enc, rec)
         /\ Fixed!PipKeepsSize(cfg, 25, enc, rec) /\ Resizing!PipKeepsSize(cfg, 25, enc, rec)

ASSUME ResetAssume == Promised(Streams, 1) /\ Promised(Plain, 2)
=============================================================================
