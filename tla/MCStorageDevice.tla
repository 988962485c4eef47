-------------------------- MODULE MCStorageDevice --------------------------
(* StorageDevice with a device that is plugged and formatted a few times.  *)
EXTENDS StorageDevice

\* Every plugging, every formatting and the start needs one scan thread.
ASSUME ScansAssumption == MaxScans > MaxPlugs + MaxFormats
=============================================================================
