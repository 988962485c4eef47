-------------------------------- MODULE Param --------------------------------
(***************************************************************************)
(* The parameters of src/src/param: the configuration in memory, the two   *)
(* ini files it is kept in (one global, one of a sensor that uses the      *)
(* ISP), the nodes of the video input that several streams share, and the  *)
(* copy every stream holds of its node's attributes (vi_attr).             *)
(*                                                                         *)
(* A section of a file is one number: a size for a stream or a node, a     *)
(* value for any other section, Invalid what a Check function replaces.    *)
(* Struct2Ini reads a whole file, opens it for writing and writes it, and  *)
(* the program may be killed between any two of these steps.  Left out:    *)
(* pixel formats, jpeg_slice, files of other sensors, and the saves of a   *)
(* LoadParam that fails later (LoadDefault overwrites them).               *)
(*                                                                         *)
(* An operation leaves a list of what it has still to do: sections to      *)
(* save, default files to copy, streams whose node is to be matched.       *)
(***************************************************************************)
EXTENDS Integers, Sequences, SequencesExt

CONSTANTS
  Threads,      \* of the application
  Streams,      \* in the order in which SetMediaViAttr goes through them
  Direct,       \* streams with enable_vpss = FALSE: the node gives their size
  Resizable,    \* streams SetStreamResolution knows
  Nodes, Serves,\* nodes in order; the streams a node's module names
  Sizes, MaxSize, Values,
  Version,      \* of the default files
  Defaults,     \* the default files: [section -> value]
  BuiltIn,      \* what UseDefault writes
  FirstFiles,   \* what the files may hold when the program first starts
  Careful,      \* TRUE: no thread calls while another is in PARAM_TYPE_RES or PHOTO_RES
  MaxOps, MaxCrashes \* bounds

VARIABLES
  mem,    \* g_stPARAMCtx.stCfg
  vi,     \* vi_attr of every stream
  files,  \* the ini files
  hasDefaults, \* the default files exist
  bInit, mutexLock,
  th,     \* the threads: where they are, what they have still to do, and the file in hand
  kept,   \* history: memory when the program was killed between operations
  ops, crashes

paramVars == <<mem, vi, files, hasDefaults, bInit, mutexLock, th, kept, ops, crashes>>

\* Settings that are no size: the global ones, and of a sensor its own, the
\* recording times, and what a stream's section holds besides its size.
GlobalSections == {"common"}
SensorSections == {"sensor", "time", "attr"}

StreamSet == ToSet(Streams)
NodeSet   == ToSet(Nodes)
Sections  == {"version"} \cup GlobalSections \cup SensorSections \cup StreamSet \cup NodeSet
FileNames == {"global", "sensor"}
FileOf(s) == IF s \in GlobalSections \cup {"version"} THEN "global" ELSE "sensor"
Within(f) == {s \in Sections : FileOf(s) = f}

Missing == -1
Invalid == 0
EmptyIni(f) == [s \in Within(f) |-> Missing]
Part(values, f) == [s \in Within(f) |-> values[s]]
Nobody == "nobody"

\* A configuration: what its sections hold is valid, the default files have
\* every section, and every stream has a node.  (SetMediaViAttr fails else.)
ASSUME ParamAssumption ==
  /\ Nobody \notin Threads /\ Careful \in BOOLEAN
  /\ Streams \in Seq(STRING) /\ Nodes \in Seq(STRING)
  /\ StreamSet \cap NodeSet = {}
  /\ (StreamSet \cup NodeSet) \cap ({"version"} \cup GlobalSections \cup SensorSections) = {}
  /\ Direct \subseteq StreamSet /\ Resizable \subseteq StreamSet
  /\ \A s \in StreamSet : \E i \in DOMAIN Nodes : s \in Serves[Nodes[i]]
  /\ Sizes \subseteq Nat \ {Invalid} /\ Values \subseteq Nat \ {Invalid}
  /\ MaxSize \in Nat /\ Version \in Nat \ {Invalid} /\ MaxOps \in Nat /\ MaxCrashes \in Nat
  /\ Defaults \in [Sections -> Nat \ {Invalid}] /\ Defaults["version"] = Version
  /\ BuiltIn \in [Sections -> Nat \ {Invalid}]
  /\ FirstFiles \subseteq [Sections -> Nat \cup {Missing}]

Zeroed == [s \in Sections |-> Invalid]
Unset  == [s \in StreamSet |-> [node |-> 0, size |-> Invalid]]
Idle   == [pc |-> "idle", todo |-> <<>>, buf |-> EmptyIni("global"), op |-> "none"]

FirstStart ==
  /\ mem = Zeroed /\ vi = Unset
  /\ files \in {[f \in FileNames |-> Part(first, f)] : first \in FirstFiles}
  /\ hasDefaults \in BOOLEAN
  /\ bInit = FALSE /\ mutexLock = Nobody
  /\ th = [t \in Threads |-> Idle]
  /\ kept = Zeroed /\ ops = 0 /\ crashes = 0

-----------------------------------------------------------------------------
(* Seeded faults: wrong forms of definitions below, used by no specification *)

\* a section that was read is replaced when its default differs
CheckAll(values) == [s \in Sections |-> IF s \in SensorSections THEN Defaults[s] ELSE values[s]]

\* an operation does not wait for the mutex
LockedAnyway(t, op, a) ==
  /\ th[t].pc = "idle"
  /\ mutexLock' = t
  /\ mem' = a.mem
  /\ th' = [th EXCEPT ![t] = [Idle EXCEPT !.pc = "work", !.todo = a.todo, !.op = op]]

\* the node is not changed for a stream that takes its size from it
ResizedNot(node, s) == mem

-----------------------------------------------------------------------------
(* Nodes of the video input                                                *)

Lowest(set) == {i \in set : \A j \in set : i <= j}
Own(s)     == {i \in DOMAIN Nodes : s \in Serves[Nodes[i]]}
Exact(s)   == {i \in Own(s) : mem[Nodes[i]] = mem[s]}

\* RKADK_PARAM_MatchViIndex for a sensor that uses the ISP: a node of the
\* stream's size, else its only node, else the first or second by its size.
Match(s) ==
  IF Exact(s) # {} THEN Lowest(Exact(s))
  ELSE IF Own(s) = Lowest(Own(s)) \/ mem[s] >= MaxSize THEN Lowest(Own(s))
  ELSE Lowest(Own(s) \ Lowest(Own(s)))

Resized(node, s) == IF s \in Direct THEN [mem EXCEPT ![node] = mem[s]] ELSE mem

\* RKADK_PARAM_SetMediaViAttr goes through the streams, SetRecViAttr through
\* those of the recorder, after all that a does.
Matches(streams) == [i \in DOMAIN streams |-> <<"match", streams[i]>>]
Then(a, streams) == [mem |-> a.mem, todo |-> a.todo \o Matches(streams)]
Together(s) == IF s \in {"main", "sub"} /\ {"main", "sub"} \subseteq StreamSet THEN <<"main", "sub">> ELSE <<s>>

-----------------------------------------------------------------------------
(* Loading                                                                 *)

InFiles == [s \in Sections |-> files[FileOf(s)][s]]

\* RKADK_PARAM_CheckVersion reads the default file's version first.
CheckVersion == hasDefaults /\ InFiles["version"] = Version

\* RKADK_PARAM_LoadParam fails where a section does not exist.
Loads == CheckVersion /\ \A s \in Sections : InFiles[s] # Missing

Check(values) == [s \in Sections |-> IF values[s] = Invalid THEN BuiltIn[s] ELSE values[s]]

Saves(set) == IF set = {} THEN <<>> ELSE << <<"save", set>> >>

Repaired    == {s \in Sections : InFiles[s] = Invalid}
LoadParam   == [mem |-> Check(InFiles), todo |-> Saves(Repaired)]
LoadDefault == [mem |-> Defaults, todo |-> << <<"copy", "global">>, <<"copy", "sensor">> >>]
UseDefault  == [mem |-> BuiltIn, todo |-> Saves(Sections)]

\* RKADK_PARAM_SetMediaViAttr comes after each of them.
SetMediaViAttr(a) == Then(a, Streams)

-----------------------------------------------------------------------------
(* Operations: each locks, changes the memory, saves and unlocks           *)

Locked(t, op, a) ==
  /\ th[t].pc = "idle" /\ mutexLock = Nobody
  /\ mutexLock' = t
  /\ mem' = a.mem
  /\ th' = [th EXCEPT ![t] = [Idle EXCEPT !.pc = "work", !.todo = a.todo, !.op = op]]

Call(t, op, a) ==
  /\ bInit /\ ops < MaxOps
  /\ Careful => \A u \in Threads : "res" \notin {op, th[u].op} \/ th[u].pc = "idle"
  /\ Locked(t, op, a)
  /\ ops' = ops + 1 /\ kept' = Zeroed
  /\ UNCHANGED <<vi, files, hasDefaults, bInit, crashes>>

Now          == [mem |-> mem, todo |-> <<>>]
Change(s, v) == [mem |-> [mem EXCEPT ![s] = v], todo |-> Saves({s})]

\* The application initialises the parameters before it starts threads.
ParamInit(t) ==
  /\ ~bInit /\ \A u \in Threads : th[u].pc = "idle"
  /\ Locked(t, "init", SetMediaViAttr(IF Loads THEN LoadParam ELSE IF hasDefaults THEN LoadDefault ELSE UseDefault))
  /\ UNCHANGED <<vi, files, hasDefaults, bInit, kept, ops, crashes>>

\* Nothing is done for a value the parameter has.
Setting(t, sections) ==
  \E s \in sections, v \in Values :
    Call(t, "set", IF mem[s] = v THEN Now ELSE Change(s, v))

SetCamParam(t)  == Setting(t, {"sensor"})
SetCodecType(t) == Setting(t, {"attr"})
SetBitrate(t)   == Setting(t, {"attr"})
SetGop(t)       == Setting(t, {"attr"})
SetFps(t)       == Setting(t, {"sensor", "attr"})
SetRecTime(t)   == Setting(t, {"time"})
SetCommParam(t) == Setting(t, {"common"})

\* SetStreamResolution, for PARAM_TYPE_STREAM_RES and for PARAM_TYPE_RES.
SetStreamResolution(t, op) ==
  \E s \in Resizable, size \in Sizes :
    Call(t, op, IF s \in Direct THEN Then(Change(s, size), Together(s)) ELSE Change(s, size))

SetStreamRes(t) == SetStreamResolution(t, "stream res")
SetRes(t)       == SetStreamResolution(t, "res")

\* The application restores the default files where they exist: without
\* them RKADK_PARAM_SetDefault fails and leaves the memory cleared.
SetDefault(t) == hasDefaults /\ Call(t, "default", SetMediaViAttr(LoadDefault))

-----------------------------------------------------------------------------
(* Going through the list: RKADK_PARAM_Set..ViAttr, RKADK_Struct2Ini, and   *)
(* the cp of RKADK_PARAM_LoadDefault                                       *)

Job(t)     == Head(th[t].todo)
Working(t) == th[t].pc = "work" /\ th[t].todo # <<>>

\* The attributes of a stream's node are set (only where it takes its size
\* from the node, and saved then) and copied.  (Build for RV1106.)
SetViAttr(t) ==
  /\ Working(t) /\ Job(t)[1] = "match"
  /\ \E n \in Match(Job(t)[2]) :
       /\ mem' = Resized(Nodes[n], Job(t)[2])
       /\ vi' = [vi EXCEPT ![Job(t)[2]] = [node |-> n, size |-> mem'[Nodes[n]]]]
       /\ th' = [th EXCEPT ![t].todo = (IF mem' = mem THEN <<>> ELSE Saves({Nodes[n]})) \o Tail(@)]
  /\ UNCHANGED <<files, hasDefaults, bInit, mutexLock, kept, ops, crashes>>

\* The sections of an entry are saved in one of the orders: no property can
\* tell them apart.
Chosen(t) == CHOOSE s \in Job(t)[2] : TRUE
Target(t) == IF Job(t)[1] = "copy" THEN Job(t)[2] ELSE FileOf(Chosen(t))

\* What is to be done after the file in hand.
Rest(t) ==
  (IF Job(t)[1] = "copy" THEN <<>> ELSE Saves(Job(t)[2] \ {Chosen(t)})) \o Tail(th[t].todo)

Step(t, pc) == th' = [th EXCEPT ![t].pc = pc]

ReadIni(s) == [files[FileOf(s)] EXCEPT ![s] = mem[s]]

Read(t) ==
  /\ Working(t) /\ Job(t)[1] \in {"save", "copy"}
  /\ th' = [th EXCEPT ![t].pc = "open",
                      ![t].buf = IF Job(t)[1] = "copy" THEN Part(Defaults, Job(t)[2]) ELSE ReadIni(Chosen(t))]
  /\ UNCHANGED <<mem, vi, files, hasDefaults, bInit, mutexLock, kept, ops, crashes>>

\* fopen(iniFile, "w")
Truncate(t) ==
  /\ th[t].pc = "open"
  /\ files' = [files EXCEPT ![Target(t)] = EmptyIni(Target(t))]
  /\ Step(t, "dump")
  /\ UNCHANGED <<mem, vi, hasDefaults, bInit, mutexLock, kept, ops, crashes>>

Dump(t) ==
  /\ th[t].pc = "dump"
  /\ files' = [files EXCEPT ![Target(t)] = th[t].buf]
  /\ th' = [th EXCEPT ![t].pc = "work", ![t].todo = Rest(t), ![t].buf = EmptyIni("global")]
  /\ UNCHANGED <<mem, vi, hasDefaults, bInit, mutexLock, kept, ops, crashes>>

\* PARAM_TYPE_RES and PARAM_TYPE_PHOTO_RES unlock here and once more below.
Unlock(t) ==
  /\ th[t].pc = "work" /\ th[t].todo = <<>>
  /\ mutexLock' = Nobody
  /\ bInit' = (bInit \/ th[t].op = "init")
  /\ IF th[t].op = "res" THEN Step(t, "again") ELSE th' = [th EXCEPT ![t] = Idle]
  /\ UNCHANGED <<mem, vi, files, hasDefaults, kept, ops, crashes>>

UnlockAgain(t) ==
  /\ th[t].pc = "again"
  /\ mutexLock' = Nobody
  /\ th' = [th EXCEPT ![t] = Idle]
  /\ UNCHANGED <<mem, vi, files, hasDefaults, bInit, kept, ops, crashes>>

\* The program is killed; what it wrote stays.
Kill ==
  /\ crashes < MaxCrashes
  /\ crashes' = crashes + 1
  /\ kept' = IF bInit /\ \A t \in Threads : th[t].pc = "idle" THEN mem ELSE Zeroed
  /\ mem' = Zeroed /\ vi' = Unset
  /\ bInit' = FALSE /\ mutexLock' = Nobody
  /\ th' = [t \in Threads |-> Idle]
  /\ UNCHANGED <<files, hasDefaults, ops>>

ParamNext ==
  \/ \E t \in Threads : \/ ParamInit(t) \/ SetCamParam(t) \/ SetCodecType(t) \/ SetBitrate(t) \/ SetGop(t)
                        \/ SetFps(t) \/ SetRecTime(t) \/ SetCommParam(t)
                        \/ SetStreamRes(t) \/ SetRes(t) \/ SetDefault(t)
                        \/ SetViAttr(t) \/ Read(t) \/ Truncate(t) \/ Dump(t) \/ Unlock(t) \/ UnlockAgain(t)
  \/ Kill

ParamSpec == FirstStart /\ [][ParamNext]_paramVars

-----------------------------------------------------------------------------
(* Properties                                                              *)

Quiet == bInit /\ \A t \in Threads : th[t].pc = "idle"

\* Between operations the files hold what the memory holds, whoever saved
\* last and wherever the program was killed before.
SavedIsMemory == Quiet => InFiles = mem

\* A program that is killed between operations finds its settings again,
\* if the default files, whose version counts, are there.
Survives ==
  bInit /\ hasDefaults /\ kept # Zeroed => \A s \in Sections \ NodeSet : mem[s] = kept[s]

\* Where the streams that take their size from a node agree on it, as the
\* developer guide asks of the application, the node and the copies of
\* these streams have that size, also when the program was killed between
\* the saves of a stream and of its node.
NodesFitStreams ==
  Quiet => \A s \in Direct :
    (\A r \in Direct : vi[r].node = vi[s].node => mem[r] = mem[s])
      => mem[Nodes[vi[s].node]] = mem[s] /\ vi[s].size = mem[s]

=============================================================================
