----------------------------- MODULE FileEvents -----------------------------
(***************************************************************************)
(* What one stream of a recorder promises to the application and to the    *)
(* medium, whatever its threads do: files are begun and ended in turn, one *)
(* at a time, each announced by one event; frames reach a file only        *)
(* between the two, and the first frame of a file is a key frame unless a  *)
(* write to it has failed before.                                          *)
(***************************************************************************)

VARIABLES
  file,     \* "closed", "empty" (no frame yet), or its first frame: "key", "other"
  failed,   \* a write to the open file has failed
  ev        \* the last event of the stream's event callback

FileInit == file = "closed" /\ failed = FALSE /\ ev = "none"

EndEvents   == {"FILE_END", "MANUAL_SPLIT_END"}
OtherEvents == {"STREAM_START", "STREAM_STOP", "ERR_GET_FILENAME", "ERR_CREATE_FILE_FAIL"}

Begin == file = "closed" /\ file' = "empty" /\ failed' = FALSE /\ ev' = "FILE_BEGIN"

WriteFirst ==
  /\ file = "empty"
  /\ file' \in IF failed THEN {"key", "other"} ELSE {"key"}
  /\ UNCHANGED <<failed, ev>>

WriteError ==
  /\ file # "closed" /\ failed' = TRUE /\ ev' = "ERR_WRITE_FILE_FAIL"
  /\ UNCHANGED file

End == file # "closed" /\ file' = "closed" /\ failed' = FALSE /\ ev' \in EndEvents

Announce == ev' \in OtherEvents /\ UNCHANGED <<file, failed>>

FileNext == Begin \/ WriteFirst \/ WriteError \/ End \/ Announce

FileSpec == FileInit /\ [][FileNext]_<<file, failed, ev>>
=============================================================================
