------------------------------ MODULE MCParam ------------------------------
(***************************************************************************)
(* Instances of Param for TLC: the streams and nodes of the configuration  *)
(* files in src/inicfg/rv1106_1103, without the preview, which is treated  *)
(* as the live stream is, and the thumbnails, which have a node of their   *)
(* own.  The files of the first start are those of this version, of        *)
(* another one, with a value to be replaced, and with a section missing.   *)
(***************************************************************************)
EXTENDS Param

Streams1106 == <<"live", "main", "sub", "photo", "disp">>
Direct1106  == {"live", "main", "sub", "photo"}
Nodes1106   == <<"vi0", "vi2">>
Serves1106  == [n \in {"vi0", "vi2"} |-> IF n = "vi0" THEN {"main", "photo"} ELSE {"sub", "live", "disp"}]

Values1 == [s \in Sections |-> IF s \in {"main", "photo", "vi0"} THEN MaxSize ELSE 1]
Built1  == [Values1 EXCEPT !["version"] = 3, !["sensor"] = 2]
Old     == [Values1 EXCEPT !["version"] = 2]
Broken  == [Values1 EXCEPT !["sensor"] = 0]
Gone    == [Values1 EXCEPT !["sensor"] = -1]
First   == {Values1, Old, Broken, Gone}
Same    == {Values1}
=============================================================================
