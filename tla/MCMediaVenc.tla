---------------------------- MODULE MCMediaVenc ----------------------------
(* Three users of an encoder channel and a table of two callbacks.         *)
EXTENDS MediaVenc

MCSlots == 1 .. 2
=============================================================================
