---------------------------- MODULE MCMuxerQueue ----------------------------
(* A video pool of two cells and an audio pool of one, two live time stamps. *)
EXTENDS MuxerQueue

MCProducers == {"video", "audio"}
MCCells     == {"v1", "v2", "a1"}
MCPoolOf    == [c \in MCCells |-> IF c = "a1" THEN "audio" ELSE "video"]
\* The smaller instance for the liveness properties: video alone, so that the
\* pool of two cells runs dry, with the application as the second giver.
MCLiveProducers == {"video"}
MCLiveCells     == {"v1", "v2"}
MCLivePoolOf    == [c \in MCLiveCells |-> "video"]
MCLivePts       == 1 .. 3
MCPts       == 1 .. 2
=============================================================================
