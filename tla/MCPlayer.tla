------------------------------ MODULE MCPlayer ------------------------------
(***************************************************************************)
(* Instances of Player for TLC: files of three packets, which is two       *)
(* frames before the target of a seek and one after it.                    *)
(***************************************************************************)
EXTENDS Player

File(ext, has) == [ext |-> ext, has |-> has]
MCFiles == {File("mp4", {"v", "a"}), File("mp4", {"v"}), File("mp4", {"a"}),
            File("h264", {"v"}), File("mp3", {"a"}), File("wav", {"a"})}
=============================================================================
