-------------------------- MODULE MCStorageFiles --------------------------
(* Folders of one or two files, sharing the space or counting their files. *)
EXTENDS StorageFiles

MCTimes    == 1 .. 2

\* Safety: a folder of two files with a share of the space, and a folder that
\* may keep no file but has one.
MCFiles    == {"f1", "f2", "p1"}
MCFolderOf == [f \in MCFiles |-> IF f = "p1" THEN 2 ELSE 1]
MCNumLimit == <<FALSE, TRUE>>
MCLimit    == <<45, 0>>
MCSpaceOf  == [f \in MCFiles |-> 1]

\* Liveness: two folders that share the space by the default limits, so that a file
\* in one exceeds its share and one in each do not, and a folder that counts.
MCLiveFiles    == {"f1", "b1", "p1"}
MCLiveFolderOf == [f \in MCLiveFiles |->
                     CASE f = "f1" -> 1 [] f = "b1" -> 2 [] f = "p1" -> 3]
MCLiveNumLimit == <<FALSE, FALSE, TRUE>>
MCLiveLimit    == <<50, 50, 0>>
MCLiveSpaceOf  == [f \in MCLiveFiles |-> IF f = "p1" THEN 1 ELSE 3]
MCLiveTimes    == {1}
=============================================================================
