----------------------------- MODULE MCMuxerFile -----------------------------
(* Files of three frame periods, split files of two, five frames of video. *)
EXTENDS MuxerFile
=============================================================================
