------------------------- MODULE MediaSessions_proof -------------------------
(***************************************************************************)
(* Proofs about MediaSessions: the users of the channels of                *)
(* rkadk_media_comm.c, in any number, on one thread or on several, opening,*)
(* resetting and closing in any order, with calls that fail.               *)
(*                                                                         *)
(* LocalsClosed (MediaAlone) is about one user at a time.  The proof puts  *)
(* the users together: the tables count exactly what the users have        *)
(* (Ledger), so a call of one user does to the tables what its local state *)
(* says (CallEffects), and the others' local states stay true (OtherNext). *)
(***************************************************************************)
EXTENDS MediaAlone, FiniteSetTheorems, TLAPS

-----------------------------------------------------------------------------
(* Tables of counts                                                        *)

\* Tables that count some of S.
Counts(S) == UNION {[D -> Nat \ {0}] : D \in SUBSET S}

\* What an entry in use counts.
LEMMA CountIs ==
  ASSUME NEW S, NEW f \in Counts(S), NEW x
  PROVE  /\ Count(f, x) \in Nat
         /\ x \in DOMAIN f <=> Count(f, x) > 0
         /\ x \in DOMAIN f => x \in S /\ f[x] = Count(f, x)
BY DEF Counts, Count

\* One more.
LEMMA MoreIs ==
  ASSUME NEW S, NEW f \in Counts(S), NEW x \in S
  PROVE  /\ More(f, x) \in Counts(S)
         /\ DOMAIN More(f, x) = DOMAIN f \cup {x}
         /\ \A y : Count(More(f, x), y) = IF y = x THEN Count(f, x) + 1 ELSE Count(f, y)
<1>1. PICK D \in SUBSET S : f \in [D -> Nat \ {0}]
  BY DEF Counts
<1>2. More(f, x) \in [D \cup {x} -> Nat \ {0}]
  BY <1>1 DEF More, Count
<1>3. More(f, x) \in Counts(S)
  BY <1>2 DEF Counts
<1>4. ASSUME NEW y
      PROVE  Count(More(f, x), y) = IF y = x THEN Count(f, x) + 1 ELSE Count(f, y)
  BY <1>1 DEF More, Count
<1> QED
  BY <1>1, <1>2, <1>3, <1>4

\* One less.
LEMMA LessIs ==
  ASSUME NEW S, NEW f \in Counts(S), NEW x
  PROVE  /\ Less(f, x) \in Counts(S)
         /\ DOMAIN Less(f, x) \subseteq DOMAIN f
         /\ \A y : Count(Less(f, x), y) = IF y = x /\ x \in DOMAIN f THEN Count(f, x) - 1 ELSE Count(f, y)
<1>1. PICK D \in SUBSET S : f \in [D -> Nat \ {0}]
  BY DEF Counts
<1> DEFINE E == {z \in DOMAIN f : z # x \/ f[z] > 1}
<1>2. Less(f, x) \in [E -> Nat \ {0}] /\ E \subseteq D
  BY <1>1 DEF Less
<1>3. Less(f, x) \in Counts(S)
  BY <1>1, <1>2 DEF Counts
<1>4. ASSUME NEW y
      PROVE  Count(Less(f, x), y) = IF y = x /\ x \in DOMAIN f THEN Count(f, x) - 1 ELSE Count(f, y)
  <2>1. CASE y \in E
    BY <1>1, <2>1 DEF Less, Count
  <2>2. CASE y \notin E
    BY <1>1, <2>2 DEF Less, Count
  <2> QED
    BY <2>1, <2>2
<1> QED
  BY <1>1, <1>2, <1>3, <1>4

\* A table nobody has used yet counts nothing.
LEMMA UnusedIs ==
  ASSUME NEW S
  PROVE  Unused \in Counts(S) /\ \A y : Count(Unused, y) = 0
<1>1. Unused \in [{} -> Nat \ {0}]
  BY DEF Unused
<1> QED
  BY <1>1 DEF Counts, Count, Unused

\* The tables of rkadk_media_comm.c, the channels the hardware runs, its binds,
\* and the callbacks of the encoders.
Tables ==
  [cnt : Counts(Chans), bind : Counts(Pairs), grp : Counts({Dev(c) : c \in Chans}),
   on : SUBSET (Chans \cup {Dev(c) : c \in Chans}), wire : SUBSET Pairs, cb : SUBSET (Users \X Chans)]

-----------------------------------------------------------------------------
(* Channels                                                                *)

\* A channel that is counted runs, and its device if it has one.
Runs(x) ==
  \A c \in DOMAIN x.cnt : c \in x.on /\ (Mod(c) \in {"VI", "AI", "VPSS", "VO"} => Dev(c) \in x.on)

\* A group counts at least its counted channels.
InGroup(x, d) == {c \in DOMAIN x.cnt : Mod(c) \in {"VPSS", "VO"} /\ Dev(c) = d}
Groups(x)     == \A d : Cardinality(InGroup(x, d)) <= Count(x.grp, d)

\* What the tables of channels keep to.
Sound(x) == x \in Tables /\ Runs(x) /\ Groups(x)

\* The channels of a group can be counted.
LEMMA GroupIs ==
  ASSUME NEW x \in Tables, NEW d
  PROVE  IsFiniteSet(InGroup(x, d)) /\ Cardinality(InGroup(x, d)) \in Nat
<1>1. DOMAIN x.cnt \subseteq Chans
  BY CountIs DEF Tables
<1>2. IsFiniteSet(InGroup(x, d))
  BY <1>1, SessionsAssumption, FS_Subset DEF InGroup
<1> QED
  BY <1>2, FS_CardinalityType

\* The answer r to a request for channel c.
Grown(x, r, c, bad) ==
  /\ Sound(r.t) /\ r.ok \in BOOLEAN
  /\ r.t.bind = x.bind /\ r.t.wire = x.wire /\ r.t.cb = x.cb
  /\ \A d \in Chans \ {c} : d \in r.t.on <=> d \in x.on
  /\ r.ok => r.t.cnt = More(x.cnt, c)
  /\ ~r.ok => /\ r.t.cnt = x.cnt /\ c \notin DOMAIN x.cnt
              /\ \E f \in bad : f \in {"VI_EnableDev", "VPSS_CreateGrp"} =>
                   \A d \in DOMAIN x.cnt : Dev(d) # Dev(c)

\* The answer r to the release of channel c.
Shrunk(x, r, c) ==
  /\ Sound(r.t) /\ r.t.bind = x.bind /\ r.t.wire = x.wire /\ r.t.cb = x.cb
  /\ \A d \in Chans \ {c} : d \in r.t.on <=> d \in x.on
  /\ r.ok \in BOOLEAN /\ (r.ok <=> c \in DOMAIN x.cnt)
  /\ ~r.ok => r.t = x
  /\ r.ok => r.t.cnt = Less(x.cnt, c)

\* Another user of a channel.
LEMMA AnotherIs ==
  ASSUME NEW x, Sound(x), NEW c \in DOMAIN x.cnt, NEW bad
  PROVE  Grown(x, Another(x, c), c, bad)
<1> DEFINE y == [x EXCEPT !.cnt = More(@, c)]
<1>1. c \in Chans
  BY CountIs DEF Sound, Tables
<1>2. More(x.cnt, c) \in Counts(Chans) /\ DOMAIN More(x.cnt, c) = DOMAIN x.cnt
  BY <1>1, MoreIs DEF Sound, Tables
<1>3. /\ y \in Tables /\ y.cnt = More(x.cnt, c) /\ y.bind = x.bind /\ y.grp = x.grp
      /\ y.on = x.on /\ y.wire = x.wire /\ y.cb = x.cb
  BY <1>2 DEF Sound, Tables
<1> HIDE DEF y
<1>4. Sound(y)
  BY <1>2, <1>3 DEF Sound, Runs, Groups, InGroup
<1>5. Another(x, c) = [ok |-> TRUE, t |-> y]
  BY DEF Another, Good, y
<1> QED
  BY <1>3, <1>4, <1>5 DEF Grown

\* The first user of a channel; y is the table with its group counted.
LEMMA OpenedIs ==
  ASSUME NEW x \in Tables, NEW c \in Chans \ DOMAIN x.cnt, NEW on \in SUBSET {c, Dev(c)}, c \in on,
         Runs(x), \A d : d # Dev(c) \/ Mod(c) \notin {"VPSS", "VO"} => Cardinality(InGroup(x, d)) <= Count(x.grp, d),
         Mod(c) \in {"VPSS", "VO"} => Cardinality(InGroup(x, Dev(c))) + 1 <= Count(x.grp, Dev(c)),
         Mod(c) \in {"VI", "AI", "VPSS", "VO"} => Dev(c) \in on \cup x.on,
         NEW bad
  PROVE  Grown(x, Opened(x, c, on), c, bad)
<1> DEFINE y == [x EXCEPT !.cnt = More(@, c), !.on = @ \cup on]
<1>1. More(x.cnt, c) \in Counts(Chans) /\ DOMAIN More(x.cnt, c) = DOMAIN x.cnt \cup {c}
  BY MoreIs DEF Tables
<1>2. /\ y \in Tables /\ y.cnt = More(x.cnt, c) /\ y.bind = x.bind /\ y.grp = x.grp
      /\ y.on = x.on \cup on /\ y.wire = x.wire /\ y.cb = x.cb
  BY <1>1 DEF Tables
<1> HIDE DEF y
<1>3. Runs(y)
  BY <1>1, <1>2 DEF Runs
<1>4. ASSUME NEW d PROVE Cardinality(InGroup(y, d)) <= Count(y.grp, d)
  <2>1. CASE d = Dev(c) /\ Mod(c) \in {"VPSS", "VO"}
    <3>1. InGroup(y, d) = InGroup(x, d) \cup {c} /\ c \notin InGroup(x, d)
      BY <1>1, <1>2, <2>1 DEF InGroup
    <3>2. IsFiniteSet(InGroup(x, d)) /\ Cardinality(InGroup(x, d)) \in Nat
      BY GroupIs
    <3>3. Cardinality(InGroup(y, d)) = Cardinality(InGroup(x, d)) + 1
      BY <3>1, <3>2, FS_AddElement
    <3> QED
      BY <1>2, <2>1, <3>3
  <2>2. CASE ~(d = Dev(c) /\ Mod(c) \in {"VPSS", "VO"})
    <3>1. InGroup(y, d) = InGroup(x, d)
      BY <1>1, <1>2, <2>2 DEF InGroup
    <3> QED
      BY <1>2, <2>2, <3>1
  <2> QED
    BY <2>1, <2>2
<1>5. \A d \in Chans \ {c} : d \in y.on <=> d \in x.on
  BY <1>2, SessionsAssumption
<1>6. Opened(x, c, on) = [ok |-> TRUE, t |-> y]
  BY DEF Opened, Good, y
<1> QED
  BY <1>2, <1>3, <1>4, <1>5, <1>6 DEF Grown, Sound, Groups

\* A channel that could not be started: its group or device may be on.
LEMMA RefusedIs ==
  ASSUME NEW x, Sound(x), NEW c \in Chans \ DOMAIN x.cnt, NEW y, Sound(y),
         y.cnt = x.cnt, y.bind = x.bind, y.wire = x.wire, y.cb = x.cb,
         \A d \in Chans : d \in y.on <=> d \in x.on,
         NEW bad, NEW f \in bad,
         f \in {"VI_EnableDev", "VPSS_CreateGrp"} => \A d \in DOMAIN x.cnt : Dev(d) # Dev(c)
  PROVE  Grown(x, Bad(y), c, bad)
BY DEF Grown, Bad

\* A group has room for one more channel: one user more of group Dev(c).
LEMMA GroupUpIs ==
  ASSUME NEW x, Sound(x), NEW c \in Chans
  PROVE  LET y == GroupUp(x, Dev(c)) IN
         /\ Sound(y) /\ y.cnt = x.cnt /\ y.bind = x.bind /\ y.wire = x.wire /\ y.cb = x.cb
         /\ \A d \in Chans : d \in y.on <=> d \in x.on
         /\ Dev(c) \in y.on /\ Cardinality(InGroup(y, Dev(c))) + 1 <= Count(y.grp, Dev(c))
<1> DEFINE d == Dev(c)
           y == GroupUp(x, d)
<1>1. d \in {Dev(e) : e \in Chans} /\ x \in Tables
  BY DEF Sound
<1>2. /\ More(x.grp, d) \in Counts({Dev(e) : e \in Chans})
      /\ \A z : Count(More(x.grp, d), z) = IF z = d THEN Count(x.grp, d) + 1 ELSE Count(x.grp, z)
  <2> DEFINE S == {Dev(e) : e \in Chans}
             f == x.grp
  <2>1. f \in Counts(S) /\ d \in S
    BY <1>1 DEF Tables
  <2> HIDE DEF d, S, f
  <2>2. More(f, d) \in Counts(S)
    BY <2>1, MoreIs
  <2>3. \A z : Count(More(f, d), z) = IF z = d THEN Count(f, d) + 1 ELSE Count(f, z)
    BY DEF More, Count
  <2> QED
    BY <2>2, <2>3 DEF S, f
<1>3. /\ y \in Tables /\ y.cnt = x.cnt /\ y.bind = x.bind /\ y.grp = More(x.grp, d)
      /\ y.on = x.on \cup {d} /\ y.wire = x.wire /\ y.cb = x.cb
  BY <1>1, <1>2 DEF GroupUp, Tables
<1> HIDE DEF y, d
<1>4. Runs(y)
  BY <1>3 DEF Sound, Runs
<1>5. ASSUME NEW z
      PROVE  /\ Cardinality(InGroup(y, z)) <= Count(y.grp, z)
             /\ z = d => Cardinality(InGroup(y, z)) + 1 <= Count(y.grp, z)
  <2>1. InGroup(y, z) = InGroup(x, z)
    BY <1>3 DEF InGroup
  <2>2. Cardinality(InGroup(x, z)) \in Nat /\ Count(x.grp, z) \in Nat /\ Cardinality(InGroup(x, z)) <= Count(x.grp, z)
    BY <1>1, GroupIs, CountIs DEF Sound, Groups, Tables
  <2> QED
    BY <1>2, <1>3, <2>1, <2>2
<1>6. \A e \in Chans : e \in y.on <=> e \in x.on
  BY <1>3, SessionsAssumption DEF d
<1>7. Sound(y)
  BY <1>3, <1>4, <1>5 DEF Sound, Groups
<1>8. d \in y.on /\ Cardinality(InGroup(y, d)) + 1 <= Count(y.grp, d)
  BY <1>3, <1>5
<1> QED
  BY <1>3, <1>6, <1>7, <1>8 DEF y, d

\* The calls whose failure the code does not undo.
Uncoped == {"VI_EnableChn", "VO_Enable", "VO_EnableChn"}

\* RKADK_MPI_VI_Init gives the channel or leaves the tables sound.
LEMMA ViInitIs ==
  ASSUME NEW x, Sound(x), NEW c \in Chans, Mod(c) = "VI",
         c \notin DOMAIN x.cnt => ~NoEntry(x, c), NEW bad, bad \cap Uncoped = {}
  PROVE  Grown(x, ViInit(x, c, bad), c, bad)
<1>1. Count(x.cnt, c) \in Nat /\ (c \in DOMAIN x.cnt <=> Count(x.cnt, c) > 0) /\ x \in Tables
  BY CountIs DEF Sound, Tables
<1>2. CASE c \in DOMAIN x.cnt
  BY <1>1, <1>2, AnotherIs DEF ViInit
<1>3. CASE c \notin DOMAIN x.cnt
  <2>1. CASE Dev(c) \notin x.on /\ "VI_EnableDev" \in bad
    <3>1. \A d \in DOMAIN x.cnt : Dev(d) # Dev(c)
      <4>1. ASSUME NEW d \in DOMAIN x.cnt, Dev(d) = Dev(c) PROVE FALSE
        <5>1. Mod(d) = Mod(c)
          BY <4>1 DEF Dev, Mod
        <5> QED
          BY <2>1, <4>1, <5>1 DEF Sound, Runs
      <4> QED
        BY <4>1
    <3>2. ViInit(x, c, bad) = Bad(x)
      BY <1>1, <1>3, <2>1 DEF ViInit
    <3> QED
      BY <1>3, <2>1, <3>1, <3>2, RefusedIs
  <2>2. CASE ~(Dev(c) \notin x.on /\ "VI_EnableDev" \in bad)
    <3>1. ViInit(x, c, bad) = Opened(x, c, {c, Dev(c)})
      BY <1>1, <1>3, <2>2 DEF ViInit, Uncoped
    <3>2. Grown(x, Opened(x, c, {c, Dev(c)}), c, bad)
      BY <1>1, <1>3, OpenedIs DEF Sound, Groups
    <3> QED
      BY <3>1, <3>2
  <2> QED
    BY <2>1, <2>2
<1> QED
  BY <1>2, <1>3

\* RKADK_MPI_VPSS_Init, with the group it creates.
LEMMA VpssInitIs ==
  ASSUME NEW x, Sound(x), NEW c \in Chans, Mod(c) = "VPSS",
         c \notin DOMAIN x.cnt => ~NoEntry(x, c), NEW bad
  PROVE  Grown(x, VpssInit(x, c, bad), c, bad)
<1>1. Count(x.cnt, c) \in Nat /\ (c \in DOMAIN x.cnt <=> Count(x.cnt, c) > 0) /\ x \in Tables
  BY CountIs DEF Sound, Tables
<1>2. CASE c \in DOMAIN x.cnt
  BY <1>1, <1>2, AnotherIs DEF VpssInit
<1>3. CASE c \notin DOMAIN x.cnt
  <2>1. CASE Count(x.grp, Dev(c)) = 0 /\ "VPSS_CreateGrp" \in bad
    <3>1. \A d \in DOMAIN x.cnt : Dev(d) # Dev(c)
      <4>1. ASSUME NEW d \in DOMAIN x.cnt, Dev(d) = Dev(c) PROVE FALSE
        <5>1. Mod(d) = Mod(c)
          BY <4>1 DEF Dev, Mod
        <5>2. d \in InGroup(x, Dev(c))
          BY <4>1, <5>1 DEF InGroup
        <5>3. Cardinality(InGroup(x, Dev(c))) # 0
          BY <1>1, <5>2, GroupIs, FS_EmptySet
        <5> QED
          BY <1>1, <2>1, <5>3, GroupIs DEF Sound, Groups
      <4> QED
        BY <4>1
    <3>2. VpssInit(x, c, bad) = Bad(x)
      BY <1>1, <1>3, <2>1 DEF VpssInit
    <3> QED
      BY <1>3, <2>1, <3>1, <3>2, RefusedIs
  <2>2. CASE ~(Count(x.grp, Dev(c)) = 0 /\ "VPSS_CreateGrp" \in bad)
    <3> DEFINE y == GroupUp(x, Dev(c))
    <3>1. /\ Sound(y) /\ y.cnt = x.cnt /\ y.bind = x.bind /\ y.wire = x.wire /\ y.cb = x.cb
          /\ \A d \in Chans : d \in y.on <=> d \in x.on
          /\ Dev(c) \in y.on /\ Cardinality(InGroup(y, Dev(c))) + 1 <= Count(y.grp, Dev(c))
      BY GroupUpIs
    <3>2. VpssInit(x, c, bad) = IF "VPSS_EnableChn" \in bad THEN Bad(y) ELSE Opened(y, c, {c})
      BY <1>1, <1>3, <2>2 DEF VpssInit
    <3> HIDE DEF y
    <3>3. Grown(y, Opened(y, c, {c}), c, bad)
      BY <1>3, <3>1, OpenedIs DEF Sound, Groups
    <3>4. Grown(x, Opened(y, c, {c}), c, bad)
      BY <3>1, <3>3 DEF Grown
    <3>5. CASE "VPSS_EnableChn" \in bad
      BY <1>3, <3>1, <3>2, <3>5, RefusedIs
    <3> QED
      BY <3>2, <3>4, <3>5
  <2> QED
    BY <2>1, <2>2
<1> QED
  BY <1>2, <1>3

\* RKADK_MPI_VENC_Init.
LEMMA VencInitIs ==
  ASSUME NEW x, Sound(x), NEW c \in Chans, Mod(c) = "VENC",
         c \notin DOMAIN x.cnt => ~NoEntry(x, c), NEW bad
  PROVE  Grown(x, VencInit(x, c, bad), c, bad)
<1>1. Count(x.cnt, c) \in Nat /\ (c \in DOMAIN x.cnt <=> Count(x.cnt, c) > 0) /\ x \in Tables
  BY CountIs DEF Sound, Tables
<1>2. CASE c \in DOMAIN x.cnt
  BY <1>1, <1>2, AnotherIs DEF VencInit
<1>3. CASE c \notin DOMAIN x.cnt /\ "VENC_CreateChn" \in bad
  <2>1. VencInit(x, c, bad) = Bad(x)
    BY <1>1, <1>3 DEF VencInit
  <2> QED
    BY <1>3, <2>1, RefusedIs
<1>4. CASE c \notin DOMAIN x.cnt /\ "VENC_CreateChn" \notin bad
  <2>1. VencInit(x, c, bad) = Opened(x, c, {c})
    BY <1>1, <1>4 DEF VencInit
  <2>2. Grown(x, Opened(x, c, {c}), c, bad)
    BY <1>1, <1>4, OpenedIs DEF Sound, Groups
  <2> QED
    BY <2>1, <2>2
<1> QED
  BY <1>2, <1>3, <1>4

\* RKADK_MPI_AENC_Init.
LEMMA AencInitIs ==
  ASSUME NEW x, Sound(x), NEW c \in Chans, Mod(c) = "AENC",
         c \notin DOMAIN x.cnt => ~NoEntry(x, c), NEW bad
  PROVE  Grown(x, AencInit(x, c, bad), c, bad)
<1>1. Count(x.cnt, c) \in Nat /\ (c \in DOMAIN x.cnt <=> Count(x.cnt, c) > 0) /\ x \in Tables
  BY CountIs DEF Sound, Tables
<1>2. CASE c \in DOMAIN x.cnt
  BY <1>1, <1>2, AnotherIs DEF AencInit
<1>3. CASE c \notin DOMAIN x.cnt /\ "AENC_CreateChn" \in bad
  <2>1. AencInit(x, c, bad) = Bad(x)
    BY <1>1, <1>3 DEF AencInit
  <2> QED
    BY <1>3, <2>1, RefusedIs
<1>4. CASE c \notin DOMAIN x.cnt /\ "AENC_CreateChn" \notin bad
  <2>1. AencInit(x, c, bad) = Opened(x, c, {c})
    BY <1>1, <1>4 DEF AencInit
  <2>2. Grown(x, Opened(x, c, {c}), c, bad)
    BY <1>1, <1>4, OpenedIs DEF Sound, Groups
  <2> QED
    BY <2>1, <2>2
<1> QED
  BY <1>2, <1>3, <1>4

\* RKADK_MPI_AI_Init, which leaves the device on when its channel fails.
LEMMA AiInitIs ==
  ASSUME NEW x, Sound(x), NEW c \in Chans, Mod(c) = "AI",
         c \notin DOMAIN x.cnt => ~NoEntry(x, c), NEW bad
  PROVE  Grown(x, AiInit(x, c, bad), c, bad)
<1>1. Count(x.cnt, c) \in Nat /\ (c \in DOMAIN x.cnt <=> Count(x.cnt, c) > 0) /\ x \in Tables
  BY CountIs DEF Sound, Tables
<1>2. CASE c \in DOMAIN x.cnt
  BY <1>1, <1>2, AnotherIs DEF AiInit
<1>3. CASE c \notin DOMAIN x.cnt /\ "AI_Enable" \in bad
  <2>1. AiInit(x, c, bad) = Bad(x)
    BY <1>1, <1>3 DEF AiInit
  <2> QED
    BY <1>3, <2>1, RefusedIs
<1>4. CASE c \notin DOMAIN x.cnt /\ "AI_Enable" \notin bad /\ "AI_EnableChn" \in bad
  <2> DEFINE y == [x EXCEPT !.on = @ \cup {Dev(c)}]
  <2>1. /\ y \in Tables /\ y.cnt = x.cnt /\ y.bind = x.bind /\ y.grp = x.grp
        /\ y.on = x.on \cup {Dev(c)} /\ y.wire = x.wire /\ y.cb = x.cb
    BY <1>1 DEF Tables
  <2>2. AiInit(x, c, bad) = Bad(y)
    BY <1>1, <1>4 DEF AiInit
  <2> HIDE DEF y
  <2>3. Sound(y)
    BY <2>1 DEF Sound, Runs, Groups, InGroup
  <2>4. \A d \in Chans : d \in y.on <=> d \in x.on
    BY <2>1, SessionsAssumption
  <2> QED
    BY <1>4, <2>1, <2>2, <2>3, <2>4, RefusedIs
<1>5. CASE c \notin DOMAIN x.cnt /\ "AI_Enable" \notin bad /\ "AI_EnableChn" \notin bad
  <2>1. AiInit(x, c, bad) = Opened(x, c, {c, Dev(c)})
    BY <1>1, <1>5 DEF AiInit
  <2>2. Grown(x, Opened(x, c, {c, Dev(c)}), c, bad)
    BY <1>1, <1>5, OpenedIs DEF Sound, Groups
  <2> QED
    BY <2>1, <2>2
<1> QED
  BY <1>2, <1>3, <1>4, <1>5

\* RKADK_MPI_VO_Init, with the group of its layer.
LEMMA VoInitIs ==
  ASSUME NEW x, Sound(x), NEW c \in Chans, Mod(c) = "VO",
         c \notin DOMAIN x.cnt => ~NoEntry(x, c), NEW bad, bad \cap Uncoped = {}
  PROVE  Grown(x, VoInit(x, c, bad), c, bad)
<1>1. Count(x.cnt, c) \in Nat /\ (c \in DOMAIN x.cnt <=> Count(x.cnt, c) > 0) /\ x \in Tables
  BY CountIs DEF Sound, Tables
<1>2. CASE c \in DOMAIN x.cnt
  BY <1>1, <1>2, AnotherIs DEF VoInit
<1>3. CASE c \notin DOMAIN x.cnt
  <2> DEFINE y == GroupUp(x, Dev(c))
  <2>1. /\ Sound(y) /\ y.cnt = x.cnt /\ y.bind = x.bind /\ y.wire = x.wire /\ y.cb = x.cb
        /\ \A d \in Chans : d \in y.on <=> d \in x.on
        /\ Dev(c) \in y.on /\ Cardinality(InGroup(y, Dev(c))) + 1 <= Count(y.grp, Dev(c))
    BY GroupUpIs
  <2>2. VoInit(x, c, bad) = Opened(y, c, {c})
    BY <1>1, <1>3 DEF VoInit, LayDevUp, Uncoped
  <2> HIDE DEF y
  <2>3. Grown(y, Opened(y, c, {c}), c, bad)
    BY <1>3, <2>1, OpenedIs DEF Sound, Groups
  <2> QED
    BY <2>1, <2>2, <2>3 DEF Grown
<1> QED
  BY <1>2, <1>3

\* A request is granted, or refused to the first user of a channel because of
\* one of the calls that fail.
LEMMA InitIs ==
  ASSUME NEW x, Sound(x), NEW c \in Chans,
         c \notin DOMAIN x.cnt => ~NoEntry(x, c), NEW bad, bad \cap Uncoped = {}
  PROVE  Grown(x, InitChn(x, c, bad), c, bad)
BY ViInitIs, VpssInitIs, VencInitIs, AencInitIs, AiInitIs, VoInitIs, SessionsAssumption DEF InitChn

\* A granted request is no different from one where nothing fails.
LEMMA GrantedIs ==
  ASSUME NEW x, Sound(x), NEW c \in Chans,
         c \notin DOMAIN x.cnt => ~NoEntry(x, c), NEW bad, bad \cap Uncoped = {}, InitChn(x, c, bad).ok
  PROVE  InitChn(x, c, bad) = InitChn(x, c, {})
<1>1. Count(x.cnt, c) \in Nat /\ (c \in DOMAIN x.cnt <=> Count(x.cnt, c) > 0)
  BY CountIs DEF Sound, Tables
<1>2. CASE c \in DOMAIN x.cnt
  <2>1. CASE Mod(c) \in {"VI", "VPSS"}
    BY <1>1, <1>2, <2>1 DEF InitChn, ViInit, VpssInit
  <2>2. CASE Mod(c) = "VENC"
    BY <1>1, <1>2, <2>2 DEF InitChn, VencInit
  <2>3. CASE Mod(c) = "AENC"
    BY <1>1, <1>2, <2>3 DEF InitChn, AencInit
  <2>4. CASE Mod(c) = "AI"
    BY <1>1, <1>2, <2>4 DEF InitChn, AiInit
  <2>5. CASE Mod(c) = "VO"
    BY <1>1, <1>2, <2>5 DEF InitChn, VoInit
  <2> QED
    BY <2>1, <2>2, <2>3, <2>4, <2>5, SessionsAssumption
<1>3. CASE c \notin DOMAIN x.cnt
  <2>1. CASE Mod(c) = "VI"
    BY <1>1, <1>3, <2>1 DEF InitChn, ViInit, Bad, Uncoped
  <2>2. CASE Mod(c) = "VPSS"
    BY <1>1, <1>3, <2>2 DEF InitChn, VpssInit, Bad
  <2>3. CASE Mod(c) = "VENC"
    BY <1>1, <1>3, <2>3 DEF InitChn, VencInit, Bad
  <2>6. CASE Mod(c) = "AENC"
    BY <1>1, <1>3, <2>6 DEF InitChn, AencInit, Bad
  <2>4. CASE Mod(c) = "AI"
    BY <1>1, <1>3, <2>4 DEF InitChn, AiInit, Bad
  <2>5. CASE Mod(c) = "VO"
    BY <1>1, <1>3, <2>5 DEF InitChn, VoInit, Bad, Uncoped
  <2> QED
    BY <2>1, <2>2, <2>3, <2>4, <2>5, <2>6, SessionsAssumption
<1> QED
  BY <1>2, <1>3

-----------------------------------------------------------------------------
(* Releases                                                                *)

\* A channel that is not counted cannot be released.
LEMMA NotCountedIs ==
  ASSUME NEW x, Sound(x), NEW c \in Chans \ DOMAIN x.cnt
  PROVE  Shrunk(x, Bad(x), c)
BY DEF Shrunk, Bad

\* One of several users.
LEMMA OneLessIs ==
  ASSUME NEW x, Sound(x), NEW c \in DOMAIN x.cnt, Count(x.cnt, c) > 1
  PROVE  Shrunk(x, OneLess(x, c), c)
<1> DEFINE y == [x EXCEPT !.cnt = Less(@, c)]
<1>1. Less(x.cnt, c) \in Counts(Chans) /\ DOMAIN Less(x.cnt, c) \subseteq DOMAIN x.cnt
  BY LessIs DEF Sound, Tables
<1>2. /\ y \in Tables /\ y.cnt = Less(x.cnt, c) /\ y.bind = x.bind /\ y.grp = x.grp
      /\ y.on = x.on /\ y.wire = x.wire /\ y.cb = x.cb
  BY <1>1 DEF Sound, Tables
<1>3. DOMAIN Less(x.cnt, c) = DOMAIN x.cnt
  BY DEF Less, Count
<1> HIDE DEF y
<1>4. Sound(y)
  BY <1>2, <1>3 DEF Sound, Runs, Groups, InGroup
<1>5. OneLess(x, c) = [ok |-> TRUE, t |-> y]
  BY DEF OneLess, Good, y
<1> QED
  BY <1>2, <1>4, <1>5 DEF Shrunk

\* The last user of a channel; x is the table with its group counted down.
LEMMA ShutIs ==
  ASSUME NEW x \in Tables, NEW c \in DOMAIN x.cnt, Count(x.cnt, c) = 1, NEW off \in SUBSET {c, Dev(c)},
         \A d \in DOMAIN x.cnt \ {c} : d \in x.on /\ (Mod(d) \in {"VI", "AI", "VPSS", "VO"} => Dev(d) \in x.on \ off),
         \A d : d # Dev(c) => Cardinality(InGroup(x, d)) <= Count(x.grp, d),
         Cardinality(InGroup(x, Dev(c)) \ {c}) <= Count(x.grp, Dev(c))
  PROVE  Shrunk(x, Shut(x, c, off), c)
<1> DEFINE y == [x EXCEPT !.cnt = Less(@, c), !.on = @ \ off]
<1>1. Less(x.cnt, c) \in Counts(Chans) /\ DOMAIN Less(x.cnt, c) = DOMAIN x.cnt \ {c} /\ c \in Chans
  <2>1. Less(x.cnt, c) \in Counts(Chans) /\ c \in Chans
    BY LessIs, CountIs DEF Tables
  <2>2. DOMAIN Less(x.cnt, c) = DOMAIN x.cnt \ {c}
    BY DEF Less, Count
  <2> QED
    BY <2>1, <2>2
<1>2. /\ y \in Tables /\ y.cnt = Less(x.cnt, c) /\ y.bind = x.bind /\ y.grp = x.grp
      /\ y.on = x.on \ off /\ y.wire = x.wire /\ y.cb = x.cb
  BY <1>1 DEF Tables
<1> HIDE DEF y
<1>3. \A d \in Chans \ {c} : d \in y.on <=> d \in x.on
  BY <1>1, <1>2, SessionsAssumption
<1>4. Runs(y)
  BY <1>1, <1>2 , <1>3, CountIs DEF Runs, Tables
<1>5. ASSUME NEW d PROVE Cardinality(InGroup(y, d)) <= Count(y.grp, d)
  <2>1. CASE d = Dev(c)
    <3>1. InGroup(y, d) = InGroup(x, d) \ {c}
      BY <1>1, <1>2 DEF InGroup
    <3> QED
      BY <1>2, <2>1, <3>1
  <2>2. CASE d # Dev(c)
    <3>1. InGroup(y, d) = InGroup(x, d)
      BY <1>1, <1>2, <2>2 DEF InGroup
    <3> QED
      BY <1>2, <2>2, <3>1
  <2> QED
    BY <2>1, <2>2
<1>6. Shut(x, c, off) = [ok |-> TRUE, t |-> y]
  BY DEF Shut, Good, y
<1> QED
  BY <1>2, <1>3, <1>4, <1>5, <1>6 DEF Shrunk, Sound, Groups

\* The same for a channel without a group.
LEMMA ShutAloneIs ==
  ASSUME NEW x, Sound(x), NEW c \in DOMAIN x.cnt, Count(x.cnt, c) = 1, NEW off \in SUBSET {c, Dev(c)},
         Mod(c) \notin {"VPSS", "VO"},
         \A d \in DOMAIN x.cnt \ {c} : Mod(d) \in {"VI", "AI", "VPSS", "VO"} => Dev(d) \notin off
  PROVE  Shrunk(x, Shut(x, c, off), c)
<1>1. InGroup(x, Dev(c)) \ {c} = InGroup(x, Dev(c))
  BY DEF InGroup
<1>2. \A d : Cardinality(InGroup(x, d)) <= Count(x.grp, d)
  BY DEF Sound, Groups
<1>3. \A d \in DOMAIN x.cnt : d \in x.on /\ (Mod(d) \in {"VI", "AI", "VPSS", "VO"} => Dev(d) \in x.on)
  BY DEF Sound, Runs
<1> QED
  BY <1>1, <1>2, <1>3, ShutIs DEF Sound

\* The same for a channel of a group.
LEMMA ShutGroupIs ==
  ASSUME NEW x, Sound(x), NEW c \in DOMAIN x.cnt, Count(x.cnt, c) = 1, Mod(c) \in {"VPSS", "VO"}
  PROVE  Shrunk(x, Shut(GroupDown(x, Dev(c)), c, {c}), c)
<1> DEFINE S == {Dev(e) : e \in Chans}
           g == Dev(c)
           y == GroupDown(x, g)
<1>1. c \in Chans /\ g \in S /\ x \in Tables /\ x.grp \in Counts(S)
  BY CountIs DEF Sound, Tables
<1>2. c \in InGroup(x, g)
  BY DEF InGroup
<1>3. /\ IsFiniteSet(InGroup(x, g)) /\ Cardinality(InGroup(x, g)) \in Nat
      /\ Cardinality(InGroup(x, g)) <= Count(x.grp, g) /\ Count(x.grp, g) \in Nat
      /\ g \in DOMAIN x.grp <=> Count(x.grp, g) > 0
  BY <1>1, GroupIs, CountIs DEF Sound, Groups
<1>4. /\ Cardinality(InGroup(x, g) \ {c}) = Cardinality(InGroup(x, g)) - 1
      /\ Cardinality(InGroup(x, g) \ {c}) \in Nat /\ IsFiniteSet(InGroup(x, g) \ {c})
  BY <1>2, <1>3, FS_RemoveElement, FS_CardinalityType
<1>5. /\ Less(x.grp, g) \in Counts(S)
      /\ \A z : Count(Less(x.grp, g), z) = IF z = g THEN Count(x.grp, g) - 1 ELSE Count(x.grp, z)
  <2> HIDE DEF g, S
  <2> QED
    BY <1>1, <1>3, <1>4, LessIs
<1>6. /\ y \in Tables /\ y.cnt = x.cnt /\ y.bind = x.bind /\ y.grp = Less(x.grp, g) /\ y.wire = x.wire /\ y.cb = x.cb
      /\ y.on = IF Count(x.grp, g) = 1 THEN x.on \ {g} ELSE x.on
  BY <1>1, <1>5 DEF GroupDown, Tables
<1> HIDE DEF y
<1>7. \A d : InGroup(y, d) = InGroup(x, d)
  BY <1>6 DEF InGroup
<1>8. ASSUME NEW d \in DOMAIN y.cnt \ {c}
      PROVE  d \in y.on /\ (Mod(d) \in {"VI", "AI", "VPSS", "VO"} => Dev(d) \in y.on \ {c})
  <2>1. d \in Chans /\ d \in x.on /\ (Mod(d) \in {"VI", "AI", "VPSS", "VO"} => Dev(d) \in x.on) /\ d # g /\ Dev(d) # c
    BY <1>1, <1>6, <1>8, CountIs, SessionsAssumption DEF Sound, Runs, Tables
  <2>2. CASE Dev(d) = g
    <3>1. Mod(d) = Mod(c)
      BY <2>2 DEF Dev, Mod
    <3>2. d \in InGroup(x, g) \ {c}
      BY <1>6, <1>8, <2>2, <3>1 DEF InGroup
    <3>3. Cardinality(InGroup(x, g) \ {c}) # 0
      BY <1>4, <3>2, FS_EmptySet
    <3>4. Count(x.grp, g) # 1
      BY <1>3, <1>4, <3>3
    <3> QED
      BY <1>6, <2>1, <3>4
  <2>3. CASE Dev(d) # g
    BY <1>6, <2>1, <2>3
  <2> QED
    BY <2>2, <2>3
<1>9. \A d : d # g => Cardinality(InGroup(y, d)) <= Count(y.grp, d)
  BY <1>5, <1>6, <1>7 DEF Sound, Groups
<1>10. Cardinality(InGroup(y, g) \ {c}) <= Count(y.grp, g)
  <2>1. InGroup(y, g) = InGroup(x, g)
    BY <1>7
  <2>2. Count(y.grp, g) = Count(x.grp, g) - 1
    BY <1>5, <1>6
  <2> HIDE DEF g
  <2> QED
    BY <1>3, <1>4, <2>1, <2>2
<1>11. Shrunk(y, Shut(y, c, {c}), c)
  BY <1>6, <1>8, <1>9, <1>10, ShutIs
<1>12. \A d \in Chans \ {c} : d \in y.on <=> d \in x.on
  BY <1>1, <1>6, SessionsAssumption
<1> QED
  BY <1>6, <1>11, <1>12 DEF Shrunk, y

\* A channel that is counted is released, and only one that is.
LEMMA DeInitIs ==
  ASSUME NEW x, Sound(x), NEW c \in Chans
  PROVE  Shrunk(x, DeInitChn(x, c, {}), c)
<1>1. Count(x.cnt, c) \in Nat /\ (c \in DOMAIN x.cnt <=> Count(x.cnt, c) > 0) /\ DOMAIN x.cnt \subseteq Chans
  BY CountIs DEF Sound, Tables
<1>5. c \in DOMAIN x.cnt => Count(x.cnt, c) > 1 \/ Count(x.cnt, c) = 1
  BY <1>1
<1>2. CASE c \notin DOMAIN x.cnt
  BY <1>1, <1>2, NotCountedIs, SessionsAssumption
     DEF DeInitChn, ViDeInit, VpssDeInit, VencDeInit, AencDeInit, AiDeInit, VoDeInit
<1>3. CASE c \in DOMAIN x.cnt /\ Count(x.cnt, c) > 1
  BY <1>1, <1>3, OneLessIs, SessionsAssumption
     DEF DeInitChn, ViDeInit, VpssDeInit, VencDeInit, AencDeInit, AiDeInit, VoDeInit
<1>4. CASE c \in DOMAIN x.cnt /\ Count(x.cnt, c) = 1
  <2>1. CASE Mod(c) \in {"VENC", "AENC"}
    <3>1. DeInitChn(x, c, {}) = Shut(x, c, {c})
      BY <1>1, <1>4, <2>1 DEF DeInitChn, VencDeInit, AencDeInit
    <3> QED
      BY <1>1, <1>4, <2>1, <3>1, ShutAloneIs, SessionsAssumption
  <2>2. CASE Mod(c) = "AI"
    <3>1. DeInitChn(x, c, {}) = Shut(x, c, {c, Dev(c)})
      BY <1>1, <1>4, <2>2 DEF DeInitChn, AiDeInit
    <3>2. \A d \in DOMAIN x.cnt \ {c} : Dev(d) \notin {c, Dev(c)}
      BY <1>1, <2>2, SessionsAssumption
    <3> QED
      BY <1>4, <2>2, <3>1, <3>2, ShutAloneIs
  <2>3. CASE Mod(c) = "VI"
    <3> DEFINE others == {d \in Chans \ {c} : Dev(d) = Dev(c) /\ Count(x.cnt, d) > 0}
               off == {c} \cup (IF others = {} THEN {Dev(c)} ELSE {})
    <3>1. DeInitChn(x, c, {}) = Shut(x, c, off)
      BY <1>1, <1>4, <2>3 DEF DeInitChn, ViDeInit
    <3>2. \A d \in DOMAIN x.cnt \ {c} : Dev(d) = Dev(c) => d \in others
      BY <1>1, CountIs DEF Sound, Tables
    <3>3. \A d \in DOMAIN x.cnt \ {c} : Dev(d) \notin off
      BY <1>1, <3>2, SessionsAssumption
    <3>4. off \subseteq {c, Dev(c)}
      OBVIOUS
    <3> HIDE DEF off
    <3> QED
      BY <1>4, <2>3, <3>1, <3>3, <3>4, ShutAloneIs
  <2>4. CASE Mod(c) \in {"VPSS", "VO"}
    <3>1. DeInitChn(x, c, {}) = Shut(GroupDown(x, Dev(c)), c, {c})
      BY <1>1, <1>4, <2>4 DEF DeInitChn, VpssDeInit, VoDeInit, LayDevDown
    <3> QED
      BY <1>4, <2>4, <3>1, ShutGroupIs
  <2> QED
    BY <2>1, <2>2, <2>3, <2>4, SessionsAssumption
<1> QED
  BY <1>2, <1>3, <1>4, <1>5

-----------------------------------------------------------------------------
(* Binds                                                                   *)

\* The pairs that are counted and that the hardware does not know.
Cuts(x) == DOMAIN x.bind \ x.wire

\* The answer r to a call that leaves the channels alone.
SameChans(x, r) == Sound(r.t) /\ r.t.cnt = x.cnt /\ r.t.on = x.on /\ r.t.cb = x.cb

\* Only the channels, groups and hardware matter for them.
LEMMA SoundIs ==
  ASSUME NEW x, Sound(x), NEW y \in Tables, y.cnt = x.cnt, y.grp = x.grp, y.on = x.on
  PROVE  Sound(y)
BY DEF Sound, Runs, Groups, InGroup

\* One more user of a pair.
LEMMA MoreBindIs ==
  ASSUME NEW f \in Counts(Pairs), NEW p \in Pairs
  PROVE  More(f, p) \in Counts(Pairs) /\ DOMAIN More(f, p) = DOMAIN f \cup {p}
<1>1. DOMAIN More(f, p) = DOMAIN f \cup {p}
  BY DEF More
<1> DEFINE S == Pairs
<1>2. f \in Counts(S) /\ p \in S
  OBVIOUS
<1> HIDE DEF S
<1>3. More(f, p) \in Counts(S)
  BY <1>2, MoreIs
<1> QED
  BY <1>1, <1>3 DEF S

\* RKADK_MPI_SYS_Bind counts the pair or fails for the first user only.
LEMMA BindIs ==
  ASSUME NEW x, Sound(x), NEW p \in Pairs, p \notin DOMAIN x.bind => ~NoBindEntry(x, p), NEW bad,
         NEW r, r = Bind(x, p, bad)
  PROVE  /\ SameChans(x, r) /\ r.ok \in BOOLEAN
         /\ r.ok => r.t.bind = More(x.bind, p) /\ Cuts(r.t) \subseteq Cuts(x) /\ r = Bind(x, p, {})
         /\ ~r.ok => r.t = x /\ p \notin DOMAIN x.bind /\ "SYS_Bind" \in bad
<1>1. Count(x.bind, p) \in Nat /\ (p \in DOMAIN x.bind <=> Count(x.bind, p) > 0) /\ x.wire \subseteq Pairs /\ x \in Tables
  BY CountIs DEF Sound, Tables
<1>2. More(x.bind, p) \in Counts(Pairs) /\ DOMAIN More(x.bind, p) = DOMAIN x.bind \cup {p}
  <2>1. PICK f \in Counts(Pairs) : f = x.bind
    BY DEF Sound, Tables
  <2>2. More(f, p) \in Counts(Pairs) /\ DOMAIN More(f, p) = DOMAIN f \cup {p}
    BY MoreBindIs
  <2> QED
    BY <2>1, <2>2
<1>3. CASE p \in DOMAIN x.bind
  <2> DEFINE y == [x EXCEPT !.bind = More(@, p)]
  <2>1. /\ y \in Tables /\ y.cnt = x.cnt /\ y.bind = More(x.bind, p) /\ y.grp = x.grp
        /\ y.on = x.on /\ y.wire = x.wire /\ y.cb = x.cb
    BY <1>1, <1>2 DEF Tables
  <2>2. Bind(x, p, bad) = [ok |-> TRUE, t |-> y] /\ Bind(x, p, {}) = [ok |-> TRUE, t |-> y]
    BY <1>1, <1>3 DEF Bind, Good
  <2> HIDE DEF y
  <2>3. Sound(y)
    BY <2>1, SoundIs
  <2> QED
    BY <1>2, <1>3, <2>1, <2>2, <2>3 DEF SameChans, Cuts
<1>4. CASE p \notin DOMAIN x.bind /\ "SYS_Bind" \in bad
  <2>1. Bind(x, p, bad) = [ok |-> FALSE, t |-> x]
    BY <1>1, <1>4 DEF Bind, Bad
  <2> QED
    BY <1>4, <2>1 DEF SameChans
<1>5. CASE p \notin DOMAIN x.bind /\ "SYS_Bind" \notin bad
  <2> DEFINE y == [x EXCEPT !.bind = More(@, p), !.wire = @ \cup {p}]
  <2>1. /\ y \in Tables /\ y.cnt = x.cnt /\ y.bind = More(x.bind, p) /\ y.grp = x.grp
        /\ y.on = x.on /\ y.wire = x.wire \cup {p} /\ y.cb = x.cb
    BY <1>1, <1>2 DEF Tables
  <2>2. Bind(x, p, bad) = [ok |-> TRUE, t |-> y] /\ Bind(x, p, {}) = [ok |-> TRUE, t |-> y]
    BY <1>1, <1>5 DEF Bind, Good
  <2> HIDE DEF y
  <2>3. Sound(y)
    BY <2>1, SoundIs
  <2> QED
    BY <1>2, <2>1, <2>2, <2>3 DEF SameChans, Cuts
<1> QED
  BY <1>3, <1>4, <1>5

\* RKADK_MPI_SYS_UnBind: a counted pair is counted down, and parted with its count.
LEMMA UnBindIs ==
  ASSUME NEW x, Sound(x), NEW p \in Pairs, NEW r, r = UnBind(x, p, {})
  PROVE  /\ SameChans(x, r) /\ Cuts(r.t) \subseteq Cuts(x)
         /\ r.ok \in BOOLEAN /\ (r.ok <=> p \in DOMAIN x.bind)
         /\ r.t.bind = IF r.ok THEN Less(x.bind, p) ELSE x.bind
<1>1. Count(x.bind, p) \in Nat /\ (p \in DOMAIN x.bind <=> Count(x.bind, p) > 0) /\ x.wire \subseteq Pairs /\ x \in Tables
  BY CountIs DEF Sound, Tables
<1>2. Less(x.bind, p) \in Counts(Pairs) /\ DOMAIN Less(x.bind, p) \subseteq DOMAIN x.bind
  BY LessIs DEF Sound, Tables
<1>3. CASE p \notin DOMAIN x.bind
  <2>1. r = [ok |-> FALSE, t |-> x]
    BY <1>1, <1>3 DEF UnBind, Bad
  <2>2. r.ok = FALSE /\ r.t = x
    BY <2>1
  <2> QED
    BY <1>3, <2>2 DEF SameChans
<1>4. CASE p \in DOMAIN x.bind /\ Count(x.bind, p) > 1
  <2> DEFINE y == [x EXCEPT !.bind = Less(@, p)]
  <2>1. /\ y \in Tables /\ y.cnt = x.cnt /\ y.bind = Less(x.bind, p) /\ y.grp = x.grp
        /\ y.on = x.on /\ y.wire = x.wire /\ y.cb = x.cb
    BY <1>1, <1>2 DEF Tables
  <2>2. UnBind(x, p, {}) = [ok |-> TRUE, t |-> y]
    BY <1>1, <1>4 DEF UnBind, Good
  <2> HIDE DEF y
  <2>3. Sound(y)
    BY <2>1, SoundIs
  <2>4. r.ok = TRUE /\ r.t = y
    BY <2>2
  <2> QED
    BY <1>2, <1>4, <2>1, <2>3, <2>4 DEF SameChans, Cuts
<1>5. CASE p \in DOMAIN x.bind /\ Count(x.bind, p) = 1
  <2> DEFINE y == [x EXCEPT !.bind = Less(@, p), !.wire = @ \ {p}]
  <2>1. /\ y \in Tables /\ y.cnt = x.cnt /\ y.bind = Less(x.bind, p) /\ y.grp = x.grp
        /\ y.on = x.on /\ y.wire = x.wire \ {p} /\ y.cb = x.cb
    BY <1>1, <1>2 DEF Tables
  <2>2. UnBind(x, p, {}) = [ok |-> TRUE, t |-> y]
    BY <1>1, <1>5 DEF UnBind, Good
  <2> HIDE DEF y
  <2>3. Sound(y)
    BY <2>1, SoundIs
  <2>4. p \notin DOMAIN Less(x.bind, p)
    BY <1>5 DEF Less, Count
  <2>5. r.ok = TRUE /\ r.t = y
    BY <2>2
  <2> QED
    BY <1>2, <1>5, <2>1, <2>3, <2>4, <2>5 DEF SameChans, Cuts
<1> QED
  BY <1>1, <1>3, <1>4, <1>5

\* The hardware's bind is made and undone past the table.
LEMMA WireIs ==
  ASSUME NEW x, Sound(x), NEW p \in Pairs, NEW wire \in {x.wire \cup {p}, x.wire \ {p}},
         NEW y, y = [x EXCEPT !.wire = wire]
  PROVE  Sound(y) /\ y.cnt = x.cnt /\ y.on = x.on /\ y.cb = x.cb /\ y.bind = x.bind /\ y.wire = wire
<1>1. /\ y \in Tables /\ y.cnt = x.cnt /\ y.bind = x.bind /\ y.grp = x.grp
      /\ y.on = x.on /\ y.wire = wire /\ y.cb = x.cb
  BY DEF Sound, Tables
<1> QED
  BY <1>1, SoundIs

\* Callbacks come and go, and encoders past the table.
LEMMA SetCallbacksIs ==
  ASSUME NEW x, Sound(x), NEW cb \in SUBSET (Users \X Chans), NEW y, y = [x EXCEPT !.cb = cb]
  PROVE  Sound(y) /\ y.cnt = x.cnt /\ y.on = x.on /\ y.bind = x.bind /\ y.wire = x.wire /\ y.cb = cb
<1>1. /\ y \in Tables /\ y.cnt = x.cnt /\ y.bind = x.bind /\ y.grp = x.grp
      /\ y.on = x.on /\ y.wire = x.wire /\ y.cb = cb
  BY DEF Sound, Tables
<1> QED
  BY <1>1 DEF Sound, Runs, Groups, InGroup

\* An encoder is created or destroyed past the table, one the table does not count.
LEMMA CreateIs ==
  ASSUME NEW x, Sound(x), NEW c \in Chans \ DOMAIN x.cnt, NEW on \in {x.on \cup {c}, x.on \ {c}},
         NEW y, y = [x EXCEPT !.on = on]
  PROVE  Sound(y) /\ y.cnt = x.cnt /\ y.on = on /\ y.bind = x.bind /\ y.wire = x.wire /\ y.cb = x.cb
<1>1. /\ y \in Tables /\ y.cnt = x.cnt /\ y.bind = x.bind /\ y.grp = x.grp
      /\ y.on = on /\ y.wire = x.wire /\ y.cb = x.cb
  BY DEF Sound, Tables
<1>2. \A d \in DOMAIN x.cnt : d # c /\ Dev(d) # c
  BY CountIs, SessionsAssumption DEF Sound, Tables
<1> QED
  BY <1>1, <1>2 DEF Sound, Runs, Groups, InGroup

-----------------------------------------------------------------------------
(* References                                                              *)

\* What a user can have, and what all users together have.
Things == Chans \cup Pairs
Hands  == [Users -> Counts(Things)]

\* The references that users with the counts h have to x.
RefsOf(h, x) == UNION {{<<u, k>> : k \in 1 .. h[u][x]} : u \in {u \in Users : x \in DOMAIN h[u]}}

\* A reference is one of those a user counts.
LEMMA RefsAre ==
  ASSUME NEW h \in Hands, NEW x
  PROVE  /\ RefsOf(h, x) = {z \in Users \X Nat : 0 < z[2] /\ z[2] <= Count(h[z[1]], x)}
         /\ RefsOf(h, x) = {} <=> \A w \in Users : x \notin DOMAIN h[w]
<1>1. \A u \in Users : h[u] \in Counts(Things)
  BY DEF Hands
<1>2. \A u \in Users : Count(h[u], x) \in Nat /\ (x \in DOMAIN h[u] <=> Count(h[u], x) > 0)
  BY <1>1, CountIs
<1>3. \A u \in Users : x \in DOMAIN h[u] => h[u][x] = Count(h[u], x)
  BY DEF Count
<1> DEFINE R == {z \in Users \X Nat : 0 < z[2] /\ z[2] <= Count(h[z[1]], x)}
<1>4. ASSUME NEW z \in RefsOf(h, x) PROVE z \in R
  <2>1. PICK u \in Users : x \in DOMAIN h[u] /\ z \in {<<u, k>> : k \in 1 .. h[u][x]}
    BY <1>4 DEF RefsOf
  <2>2. PICK k \in 1 .. h[u][x] : z = <<u, k>>
    BY <2>1
  <2> QED
    BY <1>2, <1>3, <2>1, <2>2
<1>5. ASSUME NEW z \in R PROVE z \in RefsOf(h, x)
  <2>1. PICK u \in Users, k \in Nat : z = <<u, k>> /\ 0 < k /\ k <= Count(h[u], x)
    BY <1>5
  <2>2. x \in DOMAIN h[u] /\ k \in 1 .. h[u][x]
    BY <1>2, <1>3, <2>1
  <2> QED
    BY <2>1, <2>2 DEF RefsOf
<1>6. RefsOf(h, x) = R
  BY <1>4, <1>5
<1>7. ASSUME NEW w \in Users, x \in DOMAIN h[w] PROVE RefsOf(h, x) # {}
  <2>1. <<w, 1>> \in R
    BY <1>2, <1>7
  <2> QED
    BY <1>6, <2>1
<1>8. ASSUME \A w \in Users : x \notin DOMAIN h[w] PROVE RefsOf(h, x) = {}
  BY <1>8 DEF RefsOf
<1> QED
  BY <1>6, <1>7, <1>8

\* The counts f of the items S are those of the references.
Tally(h, f, S) == \A x \in S : IsFiniteSet(RefsOf(h, x)) /\ Count(f, x) = Cardinality(RefsOf(h, x))

\* What is counted is what someone has.
LEMMA HeldIs ==
  ASSUME NEW h \in Hands, NEW S \in SUBSET Things, NEW f \in Counts(S), Tally(h, f, S), NEW x \in S
  PROVE  x \in DOMAIN f <=> \E w \in Users : x \in DOMAIN h[w]
<1>1. Count(f, x) \in Nat /\ (x \in DOMAIN f <=> Count(f, x) > 0)
  BY CountIs
<1>2. IsFiniteSet(RefsOf(h, x)) /\ Count(f, x) = Cardinality(RefsOf(h, x))
  BY DEF Tally
<1> QED
  BY <1>1, <1>2, RefsAre, FS_EmptySet

\* What one more counts.
LEMMA CountMoreIs ==
  ASSUME NEW f, NEW x
  PROVE  \A y : Count(More(f, x), y) = IF y = x THEN Count(f, x) + 1 ELSE Count(f, y)
BY DEF More, Count

\* One reference more.
LEMMA TallyMore ==
  ASSUME NEW h \in Hands, NEW S \in SUBSET Things, NEW f \in Counts(S), Tally(h, f, S),
         NEW u \in Users, NEW c \in Things, NEW g, g = [h EXCEPT ![u] = More(@, c)]
  PROVE  g \in Hands /\ (c \in S => Tally(g, More(f, c), S)) /\ (c \notin S => Tally(g, f, S))
<1>1. h[u] \in Counts(Things)
  BY DEF Hands
<1>2. /\ More(h[u], c) \in Counts(Things)
      /\ \A y : Count(More(h[u], c), y) = IF y = c THEN Count(h[u], c) + 1 ELSE Count(h[u], y)
  <2>1. More(h[u], c) \in Counts(Things)
    BY <1>1, MoreIs
  <2> QED
    BY <2>1, CountMoreIs
<1>3. g \in Hands /\ g[u] = More(h[u], c) /\ \A w \in Users \ {u} : g[w] = h[w]
  BY <1>2 DEF Hands
<1>4. Count(h[u], c) \in Nat
  BY <1>1, CountIs
<1>5. ASSUME NEW x, x # c PROVE RefsOf(g, x) = RefsOf(h, x)
  <2>1. \A w \in Users : Count(g[w], x) = Count(h[w], x)
    BY <1>2, <1>3, <1>5
  <2>2. RefsOf(g, x) = {z \in Users \X Nat : 0 < z[2] /\ z[2] <= Count(g[z[1]], x)}
    BY <1>3, RefsAre
  <2>3. RefsOf(h, x) = {z \in Users \X Nat : 0 < z[2] /\ z[2] <= Count(h[z[1]], x)}
    BY RefsAre
  <2>4. \A z \in Users \X Nat : Count(g[z[1]], x) = Count(h[z[1]], x)
    BY <2>1
  <2> QED
    BY <2>2, <2>3, <2>4
<1>6. RefsOf(g, c) = RefsOf(h, c) \cup {<<u, Count(h[u], c) + 1>>} /\ <<u, Count(h[u], c) + 1>> \notin RefsOf(h, c)
  <2>1. \A w \in Users : Count(g[w], c) = IF w = u THEN Count(h[u], c) + 1 ELSE Count(h[w], c)
    BY <1>2, <1>3
  <2> DEFINE G == {z \in Users \X Nat : 0 < z[2] /\ z[2] <= Count(g[z[1]], c)}
             H == {z \in Users \X Nat : 0 < z[2] /\ z[2] <= Count(h[z[1]], c)}
             new == <<u, Count(h[u], c) + 1>>
  <2>2. RefsOf(g, c) = G /\ RefsOf(h, c) = H
    BY <1>3, RefsAre
  <2>3. \A w \in Users, k \in Nat : <<w, k>> \in G <=> <<w, k>> \in H \/ <<w, k>> = new
    BY <1>4, <2>1
  <2>4. G \subseteq Users \X Nat /\ H \subseteq Users \X Nat /\ new \in Users \X Nat
    BY <1>4
  <2>5. new \notin H
    BY <1>4
  <2>6. G = H \cup {new}
    BY <2>3, <2>4
  <2> QED
    BY <2>2, <2>5, <2>6
<1>7. ASSUME c \in S PROVE Tally(g, More(f, c), S)
  <2>1. \A y : Count(More(f, c), y) = IF y = c THEN Count(f, c) + 1 ELSE Count(f, y)
    BY CountMoreIs
  <2>2. \A x \in S : x # c => IsFiniteSet(RefsOf(g, x)) /\ Count(More(f, c), x) = Cardinality(RefsOf(g, x))
    BY <1>5, <2>1 DEF Tally
  <2>3. IsFiniteSet(RefsOf(h, c)) /\ Count(f, c) = Cardinality(RefsOf(h, c))
    BY <1>7 DEF Tally
  <2>4. IsFiniteSet(RefsOf(g, c)) /\ Cardinality(RefsOf(g, c)) = Cardinality(RefsOf(h, c)) + 1
    <3> DEFINE R == RefsOf(h, c)
               new == <<u, Count(h[u], c) + 1>>
    <3> HIDE DEF R, new
    <3>1. IsFiniteSet(R \cup {new}) /\ (new \notin R => Cardinality(R \cup {new}) = Cardinality(R) + 1)
      BY <2>3, FS_AddElement DEF R
    <3> QED
      BY <1>6, <3>1 DEF R, new
  <2> QED
    BY <2>1, <2>2, <2>3, <2>4 DEF Tally
<1>8. ASSUME c \notin S PROVE Tally(g, f, S)
  BY <1>5, <1>8 DEF Tally
<1> QED
  BY <1>3, <1>7, <1>8

\* One reference less.
LEMMA TallyLess ==
  ASSUME NEW h \in Hands, NEW S \in SUBSET Things, NEW f \in Counts(S), Tally(h, f, S),
         NEW u \in Users, NEW c \in DOMAIN h[u], NEW g, g = [h EXCEPT ![u] = Less(@, c)]
  PROVE  g \in Hands /\ (c \in S => Tally(g, Less(f, c), S)) /\ (c \notin S => Tally(g, f, S))
<1>1. h[u] \in Counts(Things)
  BY DEF Hands
<1>2. /\ Less(h[u], c) \in Counts(Things)
      /\ \A y : Count(Less(h[u], c), y) = IF y = c THEN Count(h[u], c) - 1 ELSE Count(h[u], y)
  BY <1>1, LessIs
<1>3. g \in Hands /\ g[u] = Less(h[u], c) /\ \A w \in Users \ {u} : g[w] = h[w]
  BY <1>2 DEF Hands
<1>4. Count(h[u], c) \in Nat /\ Count(h[u], c) > 0
  BY <1>1, CountIs
<1>5. ASSUME NEW x, x # c PROVE RefsOf(g, x) = RefsOf(h, x)
  <2>1. \A w \in Users : Count(g[w], x) = Count(h[w], x)
    BY <1>2, <1>3, <1>5
  <2>2. RefsOf(g, x) = {z \in Users \X Nat : 0 < z[2] /\ z[2] <= Count(g[z[1]], x)}
    BY <1>3, RefsAre
  <2>3. RefsOf(h, x) = {z \in Users \X Nat : 0 < z[2] /\ z[2] <= Count(h[z[1]], x)}
    BY RefsAre
  <2>4. \A z \in Users \X Nat : Count(g[z[1]], x) = Count(h[z[1]], x)
    BY <2>1
  <2> QED
    BY <2>2, <2>3, <2>4
<1>6. RefsOf(g, c) = RefsOf(h, c) \ {<<u, Count(h[u], c)>>} /\ <<u, Count(h[u], c)>> \in RefsOf(h, c)
  <2>1. \A w \in Users : Count(g[w], c) = IF w = u THEN Count(h[u], c) - 1 ELSE Count(h[w], c)
    BY <1>2, <1>3
  <2> DEFINE G == {z \in Users \X Nat : 0 < z[2] /\ z[2] <= Count(g[z[1]], c)}
             H == {z \in Users \X Nat : 0 < z[2] /\ z[2] <= Count(h[z[1]], c)}
             old == <<u, Count(h[u], c)>>
  <2>2. RefsOf(g, c) = G /\ RefsOf(h, c) = H
    BY <1>3, RefsAre
  <2>3. \A w \in Users, k \in Nat : <<w, k>> \in G <=> <<w, k>> \in H /\ <<w, k>> # old
    BY <1>4, <2>1
  <2>4. G \subseteq Users \X Nat /\ H \subseteq Users \X Nat
    OBVIOUS
  <2>5. old \in H
    BY <1>4
  <2>6. G = H \ {old}
    BY <2>3, <2>4
  <2> QED
    BY <2>2, <2>5, <2>6
<1>7. ASSUME c \in S PROVE Tally(g, Less(f, c), S)
  <2>1. c \in DOMAIN f
    BY <1>7, HeldIs
  <2>2. \A y : Count(Less(f, c), y) = IF y = c THEN Count(f, c) - 1 ELSE Count(f, y)
    BY <2>1, LessIs
  <2>3. \A x \in S : x # c => IsFiniteSet(RefsOf(g, x)) /\ Count(Less(f, c), x) = Cardinality(RefsOf(g, x))
    BY <1>5, <2>2 DEF Tally
  <2>4. IsFiniteSet(RefsOf(h, c)) /\ Count(f, c) = Cardinality(RefsOf(h, c))
    BY <1>7 DEF Tally
  <2>5. IsFiniteSet(RefsOf(g, c)) /\ Cardinality(RefsOf(g, c)) = Cardinality(RefsOf(h, c)) - 1
    <3> DEFINE R == RefsOf(h, c)
               old == <<u, Count(h[u], c)>>
    <3> HIDE DEF R, old
    <3>1. IsFiniteSet(R \ {old}) /\ (old \in R => Cardinality(R \ {old}) = Cardinality(R) - 1)
      BY <2>4, FS_RemoveElement DEF R
    <3> QED
      BY <1>6, <3>1 DEF R, old
  <2> QED
    BY <2>2, <2>3, <2>4, <2>5 DEF Tally
<1>8. ASSUME c \notin S PROVE Tally(g, f, S)
  BY <1>5, <1>8 DEF Tally
<1> QED
  BY <1>3, <1>7, <1>8

-----------------------------------------------------------------------------
(* The invariant                                                           *)

\* The tables and the users agree.
Ledger == held \in Hands /\ Sound(t) /\ Tally(held, t.cnt, Chans) /\ Tally(held, t.bind, Pairs)

\* What user u was told to be free, F, no other user has.
Apart(u, F) ==
  F # {} => /\ Lone(lineup) /\ job[u].what # "idle"
            /\ \A w \in Users \ {u} : DOMAIN held[w] \cap F = {}

\* Each user is in one of its local states, and what it knows to be free is.
Known == \A u \in Users : \E F : View(u, F) \in Locals(u) /\ Apart(u, F)

\* On one thread one user is busy.
Turns ==
  \A u \in Users : job[u].what # "idle" =>
    u \in lineup.users /\ (Lone(lineup) => \A w \in Users \ {u} : job[w].what = "idle")

\* What is apart is about to be put together.
Mended == \A p \in Cuts(t) : \E u \in Users : p \in Pieces(job[u], Script(u))

\* What the functions of the state are defined on.
Shapes ==
  /\ DOMAIN st = Users /\ DOMAIN job = Users /\ DOMAIN mem = Users
  /\ \A u \in Users : "what" \in DOMAIN job[u]
  /\ faults \in Nat /\ lineup \in Lineups

\* The inductive invariant.
IInv == Shapes /\ Ledger /\ Turns /\ Known /\ Mended

-----------------------------------------------------------------------------
(* A user that is about to make a call                                     *)

\* The call s of user u, in its local state l.
Calling(u, l, s) ==
  /\ Ledger /\ Known /\ Turns /\ Mended /\ u \in Users
  /\ l \in Locals(u) /\ l = View(u, l.free) /\ Apart(u, l.free)
  /\ job[u].what # "idle" /\ Left(job[u]) /\ s = Item(job[u], Script(u))

\* What the local state of a user tells of the state.
LEMMA ViewIs ==
  ASSUME NEW u, NEW l, l = View(u, l.free)
  PROVE  /\ l.st = st[u] /\ l.job = job[u] /\ l.mem = mem[u] /\ l.own = held[u]
         /\ l.calls = CallsOf(u) /\ l.made = t.on \cap Makes[u]
         /\ l.app = [scaled |-> scaled, type |-> recType, faults |-> faults, lineup |-> lineup]
         /\ l.app.lineup = lineup /\ l.app.faults = faults
         /\ ScriptOf(u, l) = Script(u) /\ PiecesOf(u, l) = Pieces(job[u], Script(u))
<1>1. /\ l.st = st[u] /\ l.job = job[u] /\ l.mem = mem[u] /\ l.own = held[u]
      /\ l.calls = CallsOf(u) /\ l.made = t.on \cap Makes[u]
      /\ l.app = [scaled |-> scaled, type |-> recType, faults |-> faults, lineup |-> lineup]
  BY DEF View
<1>2. /\ l.app.lineup = lineup /\ l.app.faults = faults /\ l.app.scaled = scaled /\ l.app.type = recType
  BY <1>1
<1>3. ScriptOf(u, l) = Script(u)
  BY <1>1, <1>2 DEF ScriptOf, Script
<1> QED
  BY <1>1, <1>2, <1>3 DEF PiecesOf

\* The call fits the local state, and the next local states are local states.
LEMMA CallerIs ==
  ASSUME NEW u, NEW l, NEW s, Calling(u, l, s)
  PROVE  /\ CallOf(u, l) = s /\ CallFits(u, l, s) /\ KeepsPieces(u, l, s)
         /\ Called(u, l) \subseteq Locals(u)
<1>1. l.job = job[u] /\ ScriptOf(u, l) = Script(u)
  BY ViewIs DEF Calling
<1>2. CallOf(u, l) = s
  BY <1>1 DEF CallOf, Calling
<1>3. Fits(u, l) /\ Follow(u, l) \subseteq Locals(u)
  BY LocalsClosed DEF Calling
<1>4. l.job.what # "idle" /\ Left(l.job)
  BY <1>1 DEF Calling
<1>5. Called(u, l) \subseteq Follow(u, l)
  BY <1>4 DEF Follow
<1> QED
  BY <1>2, <1>3, <1>4, <1>5 DEF Fits

\* A user has what its scripts take, and the pieces of its own reset.
LEMMA TakesIs ==
  ASSUME Known, NEW w \in Users
  PROVE  DOMAIN held[w] \subseteq Takes[w] /\ Pieces(job[w], Script(w)) \subseteq DOMAIN held[w]
<1>1. PICK F : View(w, F) \in Locals(w)
  BY DEF Known
<1> DEFINE k == View(w, F)
<1>2. k = View(w, k.free)
  BY DEF View
<1>3. Fits(w, k)
  BY <1>1, LocalsClosed
<1> HIDE DEF k
<1>4. k.own = held[w] /\ PiecesOf(w, k) = Pieces(job[w], Script(w))
  BY <1>2, ViewIs
<1> QED
  BY <1>3, <1>4 DEF Fits

\* What the local state tells to be spare no other user has.
LEMMA SpareIs ==
  ASSUME NEW u, NEW l, NEW s, Calling(u, l, s), NEW x, Spare(u, l, x), NEW w \in Users \ {u}
  PROVE  x \notin DOMAIN held[w]
<1>1. CASE x \notin Others[u]
  <2>1. Takes[w] \subseteq Others[u]
    BY DEF Others, Calling
  <2> QED
    BY <1>1, <2>1, TakesIs DEF Calling
<1>2. CASE x \in Others[u]
  <2>1. /\ Lone(l.app.lineup)
        /\ \A k \in Locals(w) :
             k.app.lineup = l.app.lineup /\ k.job.what = "idle" /\ DOMAIN k.own \cap l.free = {} => ~Has(k, x)
    BY <1>2 DEF Spare
  <2>2. l.app.lineup = lineup
    BY ViewIs DEF Calling
  <2>3. job[w].what = "idle"
    BY <2>1, <2>2 DEF Calling, Turns
  <2>4. DOMAIN held[w] \cap l.free = {}
    BY DEF Calling, Apart
  <2>5. PICK F : View(w, F) \in Locals(w)
    BY DEF Calling, Known
  <2> DEFINE k == View(w, F)
  <2>6. k = View(w, k.free)
    BY DEF View
  <2>7. k \in Locals(w)
    BY <2>5
  <2> HIDE DEF k
  <2>8. k.own = held[w] /\ k.job = job[w] /\ k.app.lineup = lineup
    BY <2>6, ViewIs
  <2> QED
    BY <2>1, <2>2, <2>3, <2>4, <2>7, <2>8 DEF Has
<1> QED
  BY <1>1, <1>2

\* What is counted is what someone has.
LEMMA CountedIs ==
  ASSUME Ledger
  PROVE  /\ \A c \in Chans : c \in DOMAIN t.cnt <=> \E w \in Users : c \in DOMAIN held[w]
         /\ \A p \in Pairs : p \in DOMAIN t.bind <=> \E w \in Users : p \in DOMAIN held[w]
         /\ DOMAIN t.cnt \subseteq Chans /\ DOMAIN t.bind \subseteq Pairs
<1>1. Chans \subseteq Things /\ Pairs \subseteq Things
  BY DEF Things
<1>2. t.cnt \in Counts(Chans) /\ t.bind \in Counts(Pairs)
  BY DEF Ledger, Sound, Tables
<1>3. \A c \in Chans : c \in DOMAIN t.cnt <=> \E w \in Users : c \in DOMAIN held[w]
  BY <1>1, <1>2, HeldIs DEF Ledger
<1>4. \A p \in Pairs : p \in DOMAIN t.bind <=> \E w \in Users : p \in DOMAIN held[w]
  BY <1>1, <1>2, HeldIs DEF Ledger
<1> QED
  BY <1>2, <1>3, <1>4, CountIs

\* Counted things are among those the scripts take.
LEMMA TakenIs ==
  ASSUME Ledger, Known
  PROVE  DOMAIN t.cnt \subseteq Chans \cap Taken /\ DOMAIN t.bind \subseteq Pairs \cap Taken
BY CountedIs, TakesIs DEF Taken

\* The tables have an entry for every channel the scripts take.
LEMMA RoomIs ==
  ASSUME Ledger, Known
  PROVE  /\ \A c \in Chans \cap Taken : c \notin DOMAIN t.cnt => ~NoEntry(t, c)
         /\ \A p \in Pairs \cap Taken : p \notin DOMAIN t.bind => ~NoBindEntry(t, p)
<1>0. t.cnt \in Counts(Chans) /\ t.bind \in Counts(Pairs)
  BY DEF Ledger, Sound, Tables
<1>1. ASSUME NEW c \in Chans \cap Taken, c \notin DOMAIN t.cnt PROVE ~NoEntry(t, c)
  <2> DEFINE A == {d \in Chans : Mod(d) = Mod(c) /\ Count(t.cnt, d) > 0}
             B == {d \in Chans \cap Taken : Mod(d) = Mod(c)}
  <2>1. A \subseteq B \ {c}
    BY <1>0, <1>1, TakenIs, CountIs
  <2>2. IsFiniteSet(B) /\ Cardinality(B) <= Capacity[<<Mod(c)>>] /\ c \in B /\ Capacity[<<Mod(c)>>] \in Nat
    BY SessionsAssumption, FS_Subset
  <2>3. NoEntry(t, c) <=> Cardinality(A) >= Capacity[<<Mod(c)>>]
    BY DEF NoEntry
  <2> HIDE DEF A, B
  <2>4. IsFiniteSet(B \ {c}) /\ Cardinality(B \ {c}) = Cardinality(B) - 1
    BY <2>2, FS_RemoveElement
  <2>5. IsFiniteSet(A) /\ Cardinality(A) <= Cardinality(B \ {c})
    BY <2>1, <2>4, FS_Subset
  <2>6. Cardinality(A) \in Nat /\ Cardinality(B) \in Nat
    BY <2>2, <2>5, FS_CardinalityType
  <2> QED
    BY <2>2, <2>3, <2>4, <2>5, <2>6
<1>2. ASSUME NEW p \in Pairs \cap Taken, p \notin DOMAIN t.bind PROVE ~NoBindEntry(t, p)
  <2> DEFINE A == {q \in Pairs : Table(q) = Table(p) /\ Count(t.bind, q) > 0}
             B == {q \in Pairs \cap Taken : Table(q) = Table(p)}
  <2>1. A \subseteq B \ {p}
    BY <1>0, <1>2, TakenIs, CountIs
  <2>2. IsFiniteSet(B) /\ Cardinality(B) <= Capacity[Table(p)] /\ p \in B /\ Capacity[Table(p)] \in Nat
    BY SessionsAssumption, FS_Subset
  <2>3. NoBindEntry(t, p) <=> Cardinality(A) >= Capacity[Table(p)]
    BY DEF NoBindEntry
  <2> HIDE DEF A, B
  <2>4. IsFiniteSet(B \ {p}) /\ Cardinality(B \ {p}) = Cardinality(B) - 1
    BY <2>2, FS_RemoveElement
  <2>5. IsFiniteSet(A) /\ Cardinality(A) <= Cardinality(B \ {p})
    BY <2>1, <2>4, FS_Subset
  <2>6. Cardinality(A) \in Nat /\ Cardinality(B) \in Nat
    BY <2>2, <2>5, FS_CardinalityType
  <2> QED
    BY <2>2, <2>3, <2>4, <2>5, <2>6
<1> QED
  BY <1>1, <1>2

\* An encoder created past the table is not counted.
LEMMA MadeIs ==
  ASSUME Ledger, Known, NEW w \in Users, NEW c \in Makes[w]
  PROVE  c \in Chans /\ c \notin DOMAIN t.cnt
BY TakenIs, SessionsAssumption

-----------------------------------------------------------------------------
(* Calls                                                                   *)

\* The answer to call s of user u when the calls in bad fail.
Reply(u, s, bad) == IF s.op = "type" THEN Good(t) ELSE Call(t, u, s.op, s.on, bad)

\* What the answer r does to the tables.
Effects(u, s, r) ==
  /\ Sound(r.t) /\ r.ok \in BOOLEAN
  /\ r.t.cnt  = IF r.ok /\ s.op \in {"init", "deinit"} THEN Counted(t.cnt, s.op, s.on) ELSE t.cnt
  /\ r.t.bind = IF r.ok /\ s.op \in {"bind", "unbind"} THEN Counted(t.bind, s.op, s.on) ELSE t.bind
  /\ \A w \in Users, c \in Chans :
       <<w, c>> \in r.t.cb <=> IF r.ok /\ s.op \in {"get", "stop"} /\ w = u /\ c = s.on THEN s.op = "get" ELSE <<w, c>> \in t.cb
  /\ \A w \in Users : \A c \in Makes[w] :
       c \in r.t.on <=> IF r.ok /\ s.op \in {"create", "destroy"} /\ c = s.on THEN s.op = "create" ELSE c \in t.on
  /\ \A p \in Cuts(r.t) :
       IF s.op = "unwire" /\ r.ok /\ p = s.on THEN TRUE ELSE p \in Cuts(t) /\ ~(s.op = "wire" /\ p = s.on)

\* What it tells the user.
Told(u, l, s, bad, r) ==
  /\ r.ok /\ s.op \in {"deinit", "unbind"} => Has(l, s.on)
  /\ bad = {} => r.ok \in Answers(u, l, s)
  /\ bad # {} /\ s.op \in {"init", "bind"} => ~Has(l, s.on)
  /\ \A f \in bad : ~r.ok /\ \A w \in Users \ {u} : DOMAIN held[w] \cap Tells(l, s, f) = {}

\* The calls in bad make a difference.
Failing(u, l, s, bad, r) ==
  /\ bad = {} \/ \E f \in Faults(u, l.job.what, s) : bad = {f}
  /\ r = Reply(u, s, bad) /\ (bad # {} => r # Reply(u, s, {}))

\* What a user has is counted.
LEMMA OwnIs ==
  ASSUME NEW u, NEW l, NEW s, Calling(u, l, s), NEW x
  PROVE  /\ Has(l, x) \in BOOLEAN
         /\ Has(l, x) <=> x \in DOMAIN held[u]
         /\ x \in Chans /\ Has(l, x) => x \in DOMAIN t.cnt /\ Count(t.cnt, x) # 0
         /\ x \in Pairs /\ Has(l, x) => x \in DOMAIN t.bind
         /\ x \in Makes[u] => (x \in l.made <=> x \in t.on)
<1>1. l = View(u, l.free) /\ Ledger /\ u \in Users
  BY DEF Calling
<1>2. l.own = held[u] /\ l.made = t.on \cap Makes[u]
  BY <1>1, ViewIs
<1>3. Has(l, x) <=> x \in DOMAIN held[u]
  BY <1>2 DEF Has
<1>4. x \in Chans /\ Has(l, x) => x \in DOMAIN t.cnt
  BY <1>1, <1>3, CountedIs
<1>5. x \in DOMAIN t.cnt => Count(t.cnt, x) # 0
  BY <1>1, CountIs DEF Ledger, Sound, Tables
<1>6. x \in Pairs /\ Has(l, x) => x \in DOMAIN t.bind
  BY <1>1, <1>3, CountedIs
<1> QED
  BY <1>2, <1>3, <1>4, <1>5, <1>6 DEF Has

\* What is spare only the user itself can have.
LEMMA MineIs ==
  ASSUME NEW u, NEW l, NEW s, Calling(u, l, s), NEW x, ~Has(l, x) => Spare(u, l, x)
  PROVE  /\ x \in Chans => (Has(l, x) <=> x \in DOMAIN t.cnt)
         /\ x \in Pairs => (Has(l, x) <=> x \in DOMAIN t.bind)
<1>1. ~Has(l, x) => \A w \in Users : x \notin DOMAIN held[w]
  BY OwnIs, SpareIs
<1>2. Ledger
  BY DEF Calling
<1> QED
  BY <1>1, <1>2, OwnIs, CountedIs

\* RKADK_MPI_*_Init.
LEMMA InitEffects ==
  ASSUME NEW u, NEW l, NEW s, Calling(u, l, s), s.op = "init", NEW bad, NEW r, Failing(u, l, s, bad, r)
  PROVE  Effects(u, s, r) /\ Told(u, l, s, bad, r)
<1> DEFINE c == s.on
<1>1. /\ Ledger /\ Known /\ u \in Users /\ c \in Chans /\ c \in Taken
      /\ Faults(u, l.job.what, s) \cap Uncoped = {}
  BY CallerIs DEF Calling, CallFits, Taken, Uncoped
<1>2. r = InitChn(t, c, bad) /\ (bad # {} => r # InitChn(t, c, {})) /\ bad \cap Uncoped = {}
  BY <1>1 DEF Failing, Reply, Call
<1>3. Sound(t) /\ (c \notin DOMAIN t.cnt => ~NoEntry(t, c))
  BY <1>1, RoomIs DEF Ledger
<1>4. Grown(t, r, c, bad)
  BY <1>1, <1>2, <1>3, InitIs
<1>5. bad # {} => ~r.ok
  BY <1>1, <1>2, <1>3, GrantedIs
<1>6. r.ok \/ (bad # {} /\ c \notin DOMAIN t.cnt)
  BY <1>4 DEF Grown
<1>7. Has(l, c) => c \in DOMAIN t.cnt
  BY <1>1, OwnIs
<1>8. ASSUME NEW f \in bad, NEW w \in Users \ {u} PROVE DOMAIN held[w] \cap Tells(l, s, f) = {}
  <2>1. bad = {f} /\ ~r.ok
    BY <1>5, <1>8 DEF Failing
  <2>2. c \notin DOMAIN t.cnt /\ (f \in {"VI_EnableDev", "VPSS_CreateGrp"} => \A d \in DOMAIN t.cnt : Dev(d) # Dev(c))
    BY <1>4, <2>1 DEF Grown
  <2>3. \A d \in Chans : d \in DOMAIN held[w] => d \in DOMAIN t.cnt
    BY <1>1, CountedIs
  <2> QED
    BY <1>1, <2>2, <2>3 DEF Tells
<1>9. Told(u, l, s, bad, r)
  BY <1>5, <1>6, <1>7, <1>8 DEF Told, Answers
<1>10. \A w \in Users : \A d \in Makes[w] : d # c /\ d \in Chans
  BY <1>1, SessionsAssumption
<1>11. Effects(u, s, r)
  BY <1>4, <1>10 DEF Effects, Grown, Counted, Cuts
<1> QED
  BY <1>9, <1>11

\* RKADK_MPI_*_DeInit.
LEMMA DeInitEffects ==
  ASSUME NEW u, NEW l, NEW s, Calling(u, l, s), s.op = "deinit", NEW bad, NEW r, Failing(u, l, s, bad, r)
  PROVE  Effects(u, s, r) /\ Told(u, l, s, bad, r)
<1> DEFINE c == s.on
<1>1. /\ Ledger /\ Known /\ u \in Users /\ c \in Chans
      /\ Faults(u, l.job.what, s) = {} /\ (~Has(l, c) => Spare(u, l, c))
  BY CallerIs DEF Calling, CallFits
<1>2. bad = {} /\ r = DeInitChn(t, c, {})
  BY <1>1 DEF Failing, Reply, Call
<1>3. Shrunk(t, r, c)
  BY <1>1, <1>2, DeInitIs DEF Ledger
<1>4. Has(l, c) <=> c \in DOMAIN t.cnt
  BY <1>1, MineIs
<1>9. r.ok \in {TRUE, FALSE} /\ (r.ok <=> Has(l, c))
  BY <1>3, <1>4, OwnIs DEF Shrunk
<1>5. Told(u, l, s, bad, r)
  BY <1>2, <1>9 DEF Told, Answers
<1>6. \A w \in Users : \A d \in Makes[w] : d \notin DOMAIN t.cnt /\ d \in Chans
  BY <1>1, MadeIs
<1>7. CASE r.ok
  <2>1. \A w \in Users : \A d \in Makes[w] : d # c
    BY <1>3, <1>6, <1>7 DEF Shrunk
  <2> QED
    BY <1>3, <1>5, <1>6, <1>7, <2>1 DEF Effects, Shrunk, Counted, Cuts
<1>8. CASE ~r.ok
  BY <1>3, <1>5, <1>8 DEF Effects, Shrunk, Counted, Cuts
<1> QED
  BY <1>3, <1>7, <1>8 DEF Shrunk

\* RKADK_MPI_SYS_Bind.
LEMMA BindEffects ==
  ASSUME NEW u, NEW l, NEW s, Calling(u, l, s), s.op = "bind", NEW bad, NEW r, Failing(u, l, s, bad, r)
  PROVE  Effects(u, s, r) /\ Told(u, l, s, bad, r)
<1> DEFINE p == s.on
<1>1. Ledger /\ Known /\ u \in Users /\ p \in Pairs /\ p \in Taken
  BY CallerIs DEF Calling, CallFits, Taken
<1>2. r = Bind(t, p, bad) /\ (bad # {} => r # Bind(t, p, {}))
  BY <1>1 DEF Failing, Reply, Call
<1>3. Sound(t) /\ (p \notin DOMAIN t.bind => ~NoBindEntry(t, p))
  BY <1>1, RoomIs DEF Ledger
<1>4. /\ SameChans(t, r) /\ r.ok \in BOOLEAN
      /\ r.ok => r.t.bind = More(t.bind, p) /\ Cuts(r.t) \subseteq Cuts(t) /\ r = Bind(t, p, {})
      /\ ~r.ok => r.t = t /\ p \notin DOMAIN t.bind /\ "SYS_Bind" \in bad
  BY <1>1, <1>2, <1>3, BindIs
<1>5. Has(l, p) => p \in DOMAIN t.bind
  BY <1>1, OwnIs
<1>6. ASSUME NEW f \in bad, NEW w \in Users \ {u} PROVE DOMAIN held[w] \cap Tells(l, s, f) = {}
  <2>1. f = "SYS_Bind" /\ p \notin DOMAIN t.bind
    BY <1>2, <1>4, <1>6 DEF Failing
  <2>2. p \notin DOMAIN held[w]
    BY <1>1, <2>1, CountedIs
  <2>3. Tells(l, s, f) \subseteq {p}
    BY <2>1 DEF Tells
  <2> QED
    BY <2>2, <2>3
<1>7. Told(u, l, s, bad, r)
  BY <1>2, <1>4, <1>5, <1>6 DEF Told, Answers
<1>8. Effects(u, s, r)
  BY <1>4 DEF Effects, SameChans, Counted
<1> QED
  BY <1>7, <1>8

\* RKADK_MPI_SYS_UnBind.
LEMMA UnBindEffects ==
  ASSUME NEW u, NEW l, NEW s, Calling(u, l, s), s.op = "unbind", NEW bad, NEW r, Failing(u, l, s, bad, r)
  PROVE  Effects(u, s, r) /\ Told(u, l, s, bad, r)
<1> DEFINE p == s.on
<1>1. /\ Ledger /\ Known /\ u \in Users /\ p \in Pairs
      /\ Faults(u, l.job.what, s) = {} /\ (~Has(l, p) => Spare(u, l, p))
  BY CallerIs DEF Calling, CallFits
<1>2. bad = {} /\ r = UnBind(t, p, {})
  BY <1>1 DEF Failing, Reply, Call
<1>3. /\ SameChans(t, r) /\ Cuts(r.t) \subseteq Cuts(t)
      /\ r.ok \in BOOLEAN /\ (r.ok <=> p \in DOMAIN t.bind)
      /\ r.t.bind = IF r.ok THEN Less(t.bind, p) ELSE t.bind
  BY <1>1, <1>2, UnBindIs DEF Ledger
<1>4. Has(l, p) <=> p \in DOMAIN t.bind
  BY <1>1, MineIs
<1>7. r.ok \in {TRUE, FALSE} /\ (r.ok <=> Has(l, p))
  BY <1>3, <1>4, OwnIs
<1>5. Told(u, l, s, bad, r)
  BY <1>2, <1>7 DEF Told, Answers
<1>6. Effects(u, s, r)
  BY <1>3 DEF Effects, SameChans, Counted
<1> QED
  BY <1>5, <1>6

\* RKADK_MEDIA_GetVencBuffer and RKADK_MEDIA_GetAencBuffer.
LEMMA GetEffects ==
  ASSUME NEW u, NEW l, NEW s, Calling(u, l, s), s.op = "get", NEW bad, NEW r, Failing(u, l, s, bad, r)
  PROVE  Effects(u, s, r) /\ Told(u, l, s, bad, r)
<1> DEFINE c == s.on
           y == [t EXCEPT !.cb = @ \cup {<<u, c>>}]
<1>1. /\ Ledger /\ Known /\ u \in Users /\ c \in Chans /\ Mod(c) \in {"VENC", "AENC"}
      /\ Faults(u, l.job.what, s) = {} /\ Has(l, c)
  BY CallerIs DEF Calling, CallFits
<1>2. bad = {} /\ r = GetVencBuffer(t, u, c, {})
  BY <1>1 DEF Failing, Reply, Call, GetAencBuffer
<1>3. Count(t.cnt, c) # 0
  BY <1>1, OwnIs
<1>4. r = [ok |-> TRUE, t |-> y]
  BY <1>2, <1>3 DEF GetVencBuffer, Good
<1>5. t.cb \cup {<<u, c>>} \in SUBSET (Users \X Chans)
  BY <1>1 DEF Ledger, Sound, Tables
<1>6. Sound(y) /\ y.cnt = t.cnt /\ y.on = t.on /\ y.bind = t.bind /\ y.wire = t.wire /\ y.cb = t.cb \cup {<<u, c>>}
  <2>1. PICK cb \in SUBSET (Users \X Chans) : cb = t.cb \cup {<<u, c>>}
    BY <1>5
  <2>2. Sound(t) /\ y = [t EXCEPT !.cb = cb]
    BY <1>1, <2>1 DEF Ledger
  <2> HIDE DEF y
  <2> QED
    BY <2>1, <2>2, SetCallbacksIs, SMTT(30)
<1> HIDE DEF y
<1>9. r.ok = TRUE
  BY <1>4
<1>7. Told(u, l, s, bad, r)
  BY <1>2, <1>9 DEF Told, Answers
<1>8. Effects(u, s, r)
  BY <1>4, <1>6 DEF Effects, Cuts
<1> QED
  BY <1>7, <1>8

\* RKADK_MEDIA_StopGetVencBuffer and RKADK_MEDIA_StopGetAencBuffer.
LEMMA StopEffects ==
  ASSUME NEW u, NEW l, NEW s, Calling(u, l, s), s.op = "stop", NEW bad, NEW r, Failing(u, l, s, bad, r)
  PROVE  Effects(u, s, r) /\ Told(u, l, s, bad, r)
<1> DEFINE c == s.on
           y == [t EXCEPT !.cb = @ \ {<<u, c>>}]
<1>1. /\ Ledger /\ Known /\ u \in Users /\ c \in Chans /\ Mod(c) \in {"VENC", "AENC"}
      /\ Faults(u, l.job.what, s) = {}
  BY CallerIs DEF Calling, CallFits
<1>2. bad = {} /\ r = StopGetVencBuffer(t, u, c)
  BY <1>1 DEF Failing, Reply, Call, StopGetAencBuffer
<1>3. Has(l, c) => Count(t.cnt, c) # 0
  BY <1>1, OwnIs
<1>4. CASE Count(t.cnt, c) = 0
  <2>1. r = [ok |-> FALSE, t |-> t]
    BY <1>2, <1>4 DEF StopGetVencBuffer, Bad
  <2>2. r.ok = FALSE /\ r.t = t
    BY <2>1
  <2>3. Told(u, l, s, bad, r)
    BY <1>2, <1>3, <1>4, <2>2 DEF Told, Answers
  <2> QED
    BY <1>1, <2>2, <2>3 DEF Effects, Cuts, Ledger
<1>5. CASE Count(t.cnt, c) # 0
  <2>1. r = [ok |-> TRUE, t |-> y]
    BY <1>2, <1>5 DEF StopGetVencBuffer, Good
  <2>2. t.cb \ {<<u, c>>} \in SUBSET (Users \X Chans)
    BY <1>1 DEF Ledger, Sound, Tables
  <2>3. Sound(y) /\ y.cnt = t.cnt /\ y.on = t.on /\ y.bind = t.bind /\ y.wire = t.wire /\ y.cb = t.cb \ {<<u, c>>}
    <3>1. PICK cb \in SUBSET (Users \X Chans) : cb = t.cb \ {<<u, c>>}
      BY <2>2
    <3>2. Sound(t) /\ y = [t EXCEPT !.cb = cb]
      BY <1>1, <3>1 DEF Ledger
    <3> HIDE DEF y
    <3> QED
      BY <3>1, <3>2, SetCallbacksIs, SMTT(30)
  <2> HIDE DEF y
  <2>6. r.ok = TRUE
    BY <2>1
  <2>4. Told(u, l, s, bad, r)
    BY <1>2, <2>6 DEF Told, Answers
  <2>5. Effects(u, s, r)
    BY <2>1, <2>3 DEF Effects, Cuts
  <2> QED
    BY <2>4, <2>5
<1> QED
  BY <1>4, <1>5

\* RK_MPI_SYS_Bind called past the table.
LEMMA WireEffects ==
  ASSUME NEW u, NEW l, NEW s, Calling(u, l, s), s.op = "wire", NEW bad, NEW r, Failing(u, l, s, bad, r)
  PROVE  Effects(u, s, r) /\ Told(u, l, s, bad, r)
<1> DEFINE p == s.on
           y == [t EXCEPT !.wire = @ \cup {p}]
<1>1. Ledger /\ u \in Users /\ p \in Pairs /\ Faults(u, l.job.what, s) = {}
  BY CallerIs DEF Calling, CallFits
<1>2. bad = {} /\ r = [ok |-> TRUE, t |-> y]
  BY <1>1 DEF Failing, Reply, Call, Good
<1>3. Sound(y) /\ y.cnt = t.cnt /\ y.on = t.on /\ y.cb = t.cb /\ y.bind = t.bind /\ y.wire = t.wire \cup {p}
  BY <1>1, WireIs DEF Ledger
<1> HIDE DEF y
<1>4. Told(u, l, s, bad, r)
  BY <1>2 DEF Told, Answers
<1>5. Effects(u, s, r)
  BY <1>2, <1>3 DEF Effects, Cuts
<1> QED
  BY <1>4, <1>5

\* RK_MPI_SYS_UnBind called past the table.
LEMMA UnwireEffects ==
  ASSUME NEW u, NEW l, NEW s, Calling(u, l, s), s.op = "unwire", NEW bad, NEW r, Failing(u, l, s, bad, r)
  PROVE  Effects(u, s, r) /\ Told(u, l, s, bad, r)
<1> DEFINE p == s.on
           y == [t EXCEPT !.wire = @ \ {p}]
<1>1. /\ Ledger /\ Known /\ Mended /\ u \in Users /\ p \in Pairs
      /\ Has(l, p) /\ p \notin PiecesOf(u, l)
  BY CallerIs DEF Calling, CallFits
<1>2. /\ r = IF p \notin t.wire \/ "SYS_UnBind" \in bad THEN Bad(t) ELSE Good(y)
      /\ bad # {} => r # (IF p \notin t.wire THEN Bad(t) ELSE Good(y))
  BY DEF Failing, Reply, Call
<1>3. p \notin Others[u] => p \in t.wire
  <2>1. ASSUME p \notin t.wire PROVE p \in Others[u]
    <3>1. p \in Cuts(t)
      BY <1>1, <2>1, ViewIs, CountedIs DEF Calling, Has, Cuts
    <3>2. PICK w \in Users : p \in Pieces(job[w], Script(w))
      BY <1>1, <3>1 DEF Mended
    <3>3. w # u
      BY <1>1, <3>2, ViewIs DEF Calling
    <3>4. p \in Takes[w]
      BY <1>1, <3>2, TakesIs
    <3> QED
      BY <1>1, <3>2, <3>3, <3>4 DEF Others
  <2> QED
    BY <2>1
<1>4. \A f : Tells(l, s, f) = {}
  BY DEF Tells
<1>5. CASE p \notin t.wire \/ "SYS_UnBind" \in bad
  <2>1. r = [ok |-> FALSE, t |-> t]
    BY <1>2, <1>5 DEF Bad
  <2>2. r.ok = FALSE /\ r.t = t
    BY <2>1
  <2>3. bad = {} => p \in Others[u]
    BY <1>3, <1>5
  <2>4. Told(u, l, s, bad, r)
    BY <1>4, <2>2, <2>3 DEF Told, Answers
  <2> QED
    BY <1>1, <2>2, <2>4 DEF Effects, Ledger
<1>6. CASE ~(p \notin t.wire \/ "SYS_UnBind" \in bad)
  <2>1. r = [ok |-> TRUE, t |-> y] /\ bad = {}
    BY <1>2, <1>6 DEF Good
  <2>2. Sound(y) /\ y.cnt = t.cnt /\ y.on = t.on /\ y.cb = t.cb /\ y.bind = t.bind /\ y.wire = t.wire \ {p}
    BY <1>1, WireIs DEF Ledger
  <2> HIDE DEF y
  <2>3. Told(u, l, s, bad, r)
    BY <2>1 DEF Told, Answers
  <2>4. Effects(u, s, r)
    BY <2>1, <2>2 DEF Effects, Cuts
  <2> QED
    BY <2>3, <2>4
<1> QED
  BY <1>5, <1>6

\* RK_MPI_VENC_CreateChn and RK_MPI_VENC_DestroyChn called past the table.
LEMMA CreateEffects ==
  ASSUME NEW u, NEW l, NEW s, Calling(u, l, s), s.op \in {"create", "destroy"}, NEW bad, NEW r, Failing(u, l, s, bad, r)
  PROVE  Effects(u, s, r) /\ Told(u, l, s, bad, r)
<1> DEFINE c == s.on
           on == IF s.op = "create" THEN t.on \cup {c} ELSE t.on \ {c}
           y == [t EXCEPT !.on = on]
           granted == IF s.op = "create" THEN "VENC_CreateChn" \notin bad ELSE c \in t.on
<1>1. /\ Ledger /\ Known /\ u \in Users /\ c \in Chans /\ c \in Makes[u] /\ c \notin DOMAIN t.cnt
      /\ s.op = "destroy" => Faults(u, l.job.what, s) = {}
  BY CallerIs, MadeIs DEF Calling, CallFits
<1>2. r = (IF granted THEN Good(y) ELSE Bad(t)) /\ (bad # {} => ~granted)
  <2>1. CASE s.op = "create"
    BY <2>1 DEF Failing, Reply, Call
  <2>2. CASE s.op = "destroy"
    BY <1>1, <2>2 DEF Failing, Reply, Call
  <2> QED
    BY <2>1, <2>2
<1>3. \A f : Tells(l, s, f) = {}
  BY DEF Tells
<1>4. c \in t.on <=> c \in l.made
  BY <1>1, OwnIs
<1>5. CASE ~granted
  <2>1. r = [ok |-> FALSE, t |-> t]
    BY <1>2, <1>5 DEF Bad
  <2>2. r.ok = FALSE /\ r.t = t
    BY <2>1
  <2>4. bad = {} => s.op = "destroy" /\ c \notin l.made
    BY <1>4, <1>5
  <2>5. bad = {} => r.ok \in Answers(u, l, s)
    BY <2>2, <2>4 DEF Answers
  <2>3. Told(u, l, s, bad, r)
    BY <1>3, <2>2, <2>5 DEF Told
  <2> QED
    BY <1>1, <2>2, <2>3 DEF Effects, Cuts, Ledger
<1>6. CASE granted
  <2>1. r = [ok |-> TRUE, t |-> y] /\ bad = {}
    BY <1>2, <1>6 DEF Good
  <2>2. on \in {t.on \cup {c}, t.on \ {c}}
    OBVIOUS
  <2>3. Sound(y) /\ y.cnt = t.cnt /\ y.on = on /\ y.cb = t.cb /\ y.bind = t.bind /\ y.wire = t.wire
    BY <1>1, <2>2, CreateIs DEF Ledger
  <2>4. r.ok = TRUE /\ r.t = y
    BY <2>1
  <2> HIDE DEF y
  <2>5. Told(u, l, s, bad, r)
    BY <1>4, <1>6, <2>1, <2>4 DEF Told, Answers
  <2>6. Effects(u, s, r)
    BY <2>3, <2>4 DEF Effects, Cuts
  <2> QED
    BY <2>5, <2>6
<1> QED
  BY <1>5, <1>6

\* Calls that touch no table.
LEMMA OtherEffects ==
  ASSUME NEW u, NEW l, NEW s, Calling(u, l, s), s.op \in {"call", "type"}, NEW bad, NEW r, Failing(u, l, s, bad, r)
  PROVE  Effects(u, s, r) /\ Told(u, l, s, bad, r)
<1>1. Ledger /\ (s.op = "type" => Faults(u, l.job.what, s) = {})
  BY CallerIs DEF Calling, CallFits
<1>2. r.t = t /\ r.ok \in BOOLEAN /\ (bad # {} => ~r.ok) /\ (bad = {} => r.ok)
  <2>1. CASE s.op = "call"
    BY <2>1 DEF Failing, Reply, Call, Good, Bad
  <2>2. CASE s.op = "type"
    BY <1>1, <2>2 DEF Failing, Reply, Good
  <2> QED
    BY <2>1, <2>2
<1>3. \A f : Tells(l, s, f) = {}
  BY DEF Tells
<1>4. Told(u, l, s, bad, r)
  BY <1>2, <1>3 DEF Told, Answers
<1>5. Effects(u, s, r)
  BY <1>1, <1>2 DEF Effects, Ledger, Cuts
<1> QED
  BY <1>4, <1>5

\* Every call does what Effects says and tells the caller what Told says.
LEMMA CallEffects ==
  ASSUME NEW u, NEW l, NEW s, Calling(u, l, s), NEW bad, NEW r, Failing(u, l, s, bad, r)
  PROVE  Effects(u, s, r) /\ Told(u, l, s, bad, r)
<1>1. s.op \in {"init", "deinit", "bind", "unbind", "get", "stop", "wire", "unwire", "create", "destroy", "call", "type"}
  BY CallerIs DEF CallFits
<1> QED
  BY <1>1, InitEffects, DeInitEffects, BindEffects, UnBindEffects, GetEffects, StopEffects,
     WireEffects, UnwireEffects, CreateEffects, OtherEffects

-----------------------------------------------------------------------------
(* A call                                                                  *)

\* A call changes where its job is and not what it is.
LEMMA AdvanceIs ==
  ASSUME NEW j, "what" \in DOMAIN j, NEW script, NEW s, NEW ok
  PROVE  "what" \in DOMAIN Advance(j, script, s, ok) /\ Advance(j, script, s, ok).what = j.what
<1>1. CASE Undoing(j)
  BY <1>1 DEF Advance
<1>2. CASE ~Undoing(j) /\ ok
  BY <1>2 DEF Advance
<1>3. CASE ~Undoing(j) /\ ~ok /\ s.skip # Abort
  BY <1>3 DEF Advance
<1>4. CASE ~Undoing(j) /\ ~ok /\ s.skip = Abort
  BY <1>4 DEF Advance
<1> QED
  BY <1>1, <1>2, <1>3, <1>4

\* The counts and the references change together.
LEMMA LedgerNext ==
  ASSUME NEW u, NEW l, NEW s, Calling(u, l, s), NEW bad, NEW r, Effects(u, s, r), Told(u, l, s, bad, r),
         NEW h, h = IF r.ok THEN [held EXCEPT ![u] = Counted(@, s.op, s.on)] ELSE held
  PROVE  h \in Hands /\ Tally(h, r.t.cnt, Chans) /\ Tally(h, r.t.bind, Pairs)
<1> DEFINE c == s.on
<1>1. /\ held \in Hands /\ Tally(held, t.cnt, Chans) /\ Tally(held, t.bind, Pairs) /\ u \in Users
      /\ t.cnt \in Counts(Chans) /\ t.bind \in Counts(Pairs)
  BY DEF Calling, Ledger, Sound, Tables
<1>2. Chans \in SUBSET Things /\ Pairs \in SUBSET Things /\ Chans \cap Pairs = {}
  BY SessionsAssumption DEF Things
<1>3. /\ s.op \in {"init", "deinit"} => c \in Chans /\ c \notin Pairs
      /\ s.op \in {"bind", "unbind"} => c \in Pairs /\ c \notin Chans
  BY <1>2, CallerIs DEF CallFits
<1>4. CASE r.ok /\ s.op \in {"init", "bind"}
  <2>1. h = [held EXCEPT ![u] = More(@, c)]
    BY <1>4 DEF Counted
  <2>2. c \in Things
    BY <1>3, <1>4 DEF Things
  <2>3. /\ h \in Hands
        /\ c \in Chans => Tally(h, More(t.cnt, c), Chans)
        /\ c \notin Chans => Tally(h, t.cnt, Chans)
    BY <1>1, <1>2, <2>1, <2>2, TallyMore
  <2>4. /\ c \in Pairs => Tally(h, More(t.bind, c), Pairs)
        /\ c \notin Pairs => Tally(h, t.bind, Pairs)
    BY <1>1, <1>2, <2>1, <2>2, TallyMore
  <2>5. /\ r.t.cnt = IF c \in Chans THEN More(t.cnt, c) ELSE t.cnt
        /\ r.t.bind = IF c \in Pairs THEN More(t.bind, c) ELSE t.bind
    BY <1>3, <1>4 DEF Effects, Counted
  <2> QED
    BY <2>3, <2>4, <2>5
<1>5. CASE r.ok /\ s.op \in {"deinit", "unbind"}
  <2>1. h = [held EXCEPT ![u] = Less(@, c)]
    BY <1>5 DEF Counted
  <2>2. c \in DOMAIN held[u]
    BY <1>5, OwnIs DEF Told
  <2>3. /\ h \in Hands
        /\ c \in Chans => Tally(h, Less(t.cnt, c), Chans)
        /\ c \notin Chans => Tally(h, t.cnt, Chans)
    BY <1>1, <1>2, <2>1, <2>2, TallyLess
  <2>4. /\ c \in Pairs => Tally(h, Less(t.bind, c), Pairs)
        /\ c \notin Pairs => Tally(h, t.bind, Pairs)
    BY <1>1, <1>2, <2>1, <2>2, TallyLess
  <2>5. /\ r.t.cnt = IF c \in Chans THEN Less(t.cnt, c) ELSE t.cnt
        /\ r.t.bind = IF c \in Pairs THEN Less(t.bind, c) ELSE t.bind
    BY <1>3, <1>5 DEF Effects, Counted
  <2> QED
    BY <2>3, <2>4, <2>5
<1>6. CASE ~r.ok \/ s.op \notin {"init", "bind", "deinit", "unbind"}
  <2>1. h = held
    BY <1>1, <1>6 DEF Counted, Hands
  <2>2. r.t.cnt = t.cnt /\ r.t.bind = t.bind
    BY <1>6 DEF Effects
  <2> QED
    BY <1>1, <2>1, <2>2
<1> QED
  BY <1>4, <1>5, <1>6

\* What the call does to the users.
Acts(u, s, r) ==
  /\ t' = r.t
  /\ job' = [job EXCEPT ![u] = Advance(@, Script(u), s, r.ok)]
  /\ held' = IF r.ok THEN [held EXCEPT ![u] = Counted(@, s.op, s.on)] ELSE held
  /\ mem' = IF s.op = "type" THEN [mem EXCEPT ![u].type = s.on] ELSE mem
  /\ st' = st /\ scaled' = scaled /\ recType' = recType /\ lineup' = lineup

\* The caller's next local state n, told what is free.
Comes(u, l, s, r, told, app, n) ==
  /\ Calling(u, l, s) /\ Effects(u, s, r) /\ Acts(u, s, r)
  /\ app = [scaled |-> scaled', type |-> recType', faults |-> faults', lineup |-> lineup']
  /\ n = After(u, l, s, r.ok, told, app)

\* What the caller's local state becomes.
LEMMA CallerNext ==
  ASSUME Shapes, NEW u, NEW l, NEW s, NEW r, NEW told, NEW app, NEW n, Comes(u, l, s, r, told, app, n)
  PROVE  View(u, n.free)' = n
<1>0. /\ Calling(u, l, s) /\ Effects(u, s, r) /\ Acts(u, s, r)
      /\ app = [scaled |-> scaled', type |-> recType', faults |-> faults', lineup |-> lineup']
      /\ n = After(u, l, s, r.ok, told, app)
  BY DEF Comes
<1>1. /\ l.st = st[u] /\ l.job = job[u] /\ l.mem = mem[u] /\ l.own = held[u]
      /\ l.calls = CallsOf(u) /\ l.made = t.on \cap Makes[u]
      /\ ScriptOf(u, l) = Script(u) /\ u \in Users
  <2>1. l = View(u, l.free) /\ u \in Users
    BY <1>0 DEF Calling
  <2> QED
    BY <2>1, ViewIs
<1>2. /\ s.op \in {"get", "stop"} => s.on \in Chans
      /\ s.op \in {"create", "destroy"} => s.on \in Makes[u]
  BY <1>0, CallerIs DEF CallFits
<1>3. job'[u] = Advance(l.job, ScriptOf(u, l), s, r.ok)
  BY <1>0, <1>1 DEF Shapes, Acts
<1>4. mem'[u] = IF s.op = "type" THEN [l.mem EXCEPT !.type = s.on] ELSE l.mem
  BY <1>0, <1>1 DEF Shapes, Acts
<1>5. held'[u] = IF r.ok THEN Counted(l.own, s.op, s.on) ELSE l.own
  BY <1>0, <1>1 DEF Acts, Calling, Ledger, Hands
<1>6. CallsOf(u)' =
      IF r.ok /\ s.op = "get" THEN l.calls \cup {s.on}
      ELSE IF r.ok /\ s.op = "stop" THEN l.calls \ {s.on} ELSE l.calls
  BY <1>0, <1>1, <1>2 DEF Acts, Effects, CallsOf
<1>7. t'.on \cap Makes[u] =
      IF r.ok /\ s.op = "create" THEN l.made \cup {s.on}
      ELSE IF r.ok /\ s.op = "destroy" THEN l.made \ {s.on} ELSE l.made
  BY <1>0, <1>1, <1>2 DEF Acts, Effects
<1>8. View(u, n.free)' =
      [st |-> st'[u], job |-> job'[u], mem |-> mem'[u],
       own |-> held'[u], calls |-> CallsOf(u)', made |-> t'.on \cap Makes[u],
       free |-> n.free,
       app |-> [scaled |-> scaled', type |-> recType', faults |-> faults', lineup |-> lineup']]
  BY DEF View
<1>9. n.free = l.free \cup told
  BY <1>0 DEF After
<1> QED
  BY <1>0, <1>1, <1>3, <1>4, <1>5, <1>6, <1>7, <1>8, <1>9 DEF Acts, After

\* What that of another user becomes.
LEMMA OtherNext ==
  ASSUME Shapes, NEW u, NEW l, NEW s, Calling(u, l, s), NEW r, Effects(u, s, r),
         Acts(u, s, r),
         NEW app, app = [scaled |-> scaled', type |-> recType', faults |-> faults', lineup |-> lineup'],
         NEW w \in Users \ {u}, NEW k, k = View(w, k.free)
  PROVE  /\ View(w, k.free)' = Shares(k, app)
         /\ job'[w] = job[w] /\ mem'[w] = mem[w] /\ held'[w] = held[w]
<1>1. /\ k.st = st[w] /\ k.job = job[w] /\ k.mem = mem[w] /\ k.own = held[w]
      /\ k.calls = CallsOf(w) /\ k.made = t.on \cap Makes[w]
  BY ViewIs
<1>2. s.op \in {"create", "destroy"} => s.on \in Makes[u] /\ s.on \notin Makes[w]
  BY CallerIs, SessionsAssumption DEF CallFits, Calling
<1>3. job'[w] = job[w] /\ mem'[w] = mem[w]
  BY DEF Acts, Shapes
<1>4. held'[w] = held[w]
  BY DEF Acts, Calling, Ledger, Hands
<1>5. CallsOf(w)' = k.calls
  BY <1>1 DEF Acts, Effects, CallsOf
<1>6. t'.on \cap Makes[w] = k.made
  BY <1>1, <1>2 DEF Acts, Effects
<1>7. View(w, k.free)' =
      [st |-> st'[w], job |-> job'[w], mem |-> mem'[w],
       own |-> held'[w], calls |-> CallsOf(w)', made |-> t'.on \cap Makes[w],
       free |-> k.free,
       app |-> [scaled |-> scaled', type |-> recType', faults |-> faults', lineup |-> lineup']]
  BY DEF View
<1> QED
  BY <1>1, <1>3, <1>4, <1>5, <1>6, <1>7 DEF Acts, Shares

\* A call leads from one good state to another.
LEMMA StepKeeps ==
  ASSUME IInv, NEW u \in lineup.users, Step(u)
  PROVE  IInv'
<1>1. u \in Users /\ job[u].what # "idle" /\ Left(job[u])
  BY SessionsAssumption DEF Step, IInv, Shapes
<1>2. PICK F : View(u, F) \in Locals(u) /\ Apart(u, F)
  BY <1>1 DEF IInv, Known
<1>3. PICK l, s : l = View(u, F) /\ s = Item(job[u], Script(u))
  OBVIOUS
<1>4. Calling(u, l, s)
  <2>1. l.free = F
    BY <1>3 DEF View
  <2> QED
    BY <1>1, <1>2, <1>3, <2>1 DEF Calling, IInv
<1>5. PICK bad, r :
         /\ bad \in {{}} \cup {{f} : f \in Faults(u, job[u].what, s)} /\ r = Reply(u, s, bad)
         /\ bad # {} => faults < lineup.maxFaults /\ r # Reply(u, s, {})
         /\ faults' = faults + Cardinality(bad) /\ Acts(u, s, r)
  <2>1. \E a \in {Script(u)} : \E b \in {Item(job[u], a)} :
          \E bad \in {{}} \cup {{f} : f \in Faults(u, job[u].what, b)} : \E r \in {Reply(u, b, bad)} :
            /\ bad # {} => faults < lineup.maxFaults /\ r # Reply(u, b, {})
            /\ faults' = faults + Cardinality(bad)
            /\ t' = r.t
            /\ job' = [job EXCEPT ![u] = Advance(@, a, b, r.ok)]
            /\ held' = IF r.ok THEN [held EXCEPT ![u] = Counted(@, b.op, b.on)] ELSE held
            /\ mem' = IF b.op = "type" THEN [mem EXCEPT ![u].type = b.on] ELSE mem
    BY ZenonT(60) DEF Step, Reply
  <2>2. \E bad \in {{}} \cup {{f} : f \in Faults(u, job[u].what, s)} : \E r \in {Reply(u, s, bad)} :
            /\ bad # {} => faults < lineup.maxFaults /\ r # Reply(u, s, {})
            /\ faults' = faults + Cardinality(bad)
            /\ t' = r.t
            /\ job' = [job EXCEPT ![u] = Advance(@, Script(u), s, r.ok)]
            /\ held' = IF r.ok THEN [held EXCEPT ![u] = Counted(@, s.op, s.on)] ELSE held
            /\ mem' = IF s.op = "type" THEN [mem EXCEPT ![u].type = s.on] ELSE mem
    BY <1>3, <2>1, ZenonT(60)
  <2>3. st' = st /\ scaled' = scaled /\ recType' = recType /\ lineup' = lineup
    BY DEF Step
  <2> QED
    BY <2>2, <2>3, ZenonT(60) DEF Acts
<1>6. st' = st /\ scaled' = scaled /\ recType' = recType /\ lineup' = lineup
  BY <1>5 DEF Acts
<1>7. l.job.what = job[u].what /\ l.app.faults = faults /\ l.app.lineup = lineup
      /\ l.app = [scaled |-> scaled, type |-> recType, faults |-> faults, lineup |-> lineup]
  BY <1>3, <1>4, ViewIs DEF Calling
<1>8. Failing(u, l, s, bad, r)
  BY <1>5, <1>7 DEF Failing
<1>9. Effects(u, s, r) /\ Told(u, l, s, bad, r)
  BY <1>4, <1>8, CallEffects
<1>10. /\ "what" \in DOMAIN job'[u] /\ job'[u].what = job[u].what
       /\ \A w \in Users \ {u} : job'[w] = job[w]
  BY <1>1, <1>5, AdvanceIs DEF Acts, IInv, Shapes
<1>11. \/ bad = {} /\ faults' = faults
       \/ \E f \in Faults(u, job[u].what, s) : bad = {f} /\ faults' = faults + 1 /\ faults < lineup.maxFaults
  <2>1. faults \in Nat
    BY DEF IInv, Shapes
  <2>2. CASE bad = {}
    BY <1>5, <2>1, <2>2, FS_EmptySet
  <2>3. ASSUME NEW f \in Faults(u, job[u].what, s), bad = {f} PROVE faults' = faults + 1 /\ faults < lineup.maxFaults
    BY <1>5, <2>3, FS_Singleton
  <2> QED
    BY <1>5, <2>2, <2>3
<1>21. PICK app : app = IF bad = {} THEN l.app ELSE Worse(l.app)
  OBVIOUS
<1>22. PICK told : (bad = {} => told = {}) /\ \A f : bad = {f} => told = Tells(l, s, f)
  <2>1. CASE bad = {}
    BY <2>1
  <2>2. CASE bad # {}
    <3>1. PICK f : bad = {f}
      BY <1>11, <2>2
    <3>2. \A g : bad = {g} => g = f
      BY <3>1
    <3> QED
      BY <2>2, <3>2
  <2> QED
    BY <2>1, <2>2
<1>23. PICK n : n = After(u, l, s, r.ok, told, app)
  OBVIOUS
<1>0. /\ app = IF bad = {} THEN l.app ELSE Worse(l.app)
      /\ (bad = {} => told = {}) /\ \A f : bad = {f} => told = Tells(l, s, f)
      /\ n = After(u, l, s, r.ok, told, app)
  BY <1>21, <1>22, <1>23
<1>12. app = [scaled |-> scaled', type |-> recType', faults |-> faults', lineup |-> lineup']
  <2>1. CASE bad = {}
    BY <1>0, <1>6, <1>7, <1>11, <2>1
  <2>2. CASE bad # {}
    BY <1>0, <1>6, <1>7, <1>11, <2>2 DEF Worse
  <2> QED
    BY <2>1, <2>2
<1>13. n \in Called(u, l)
  <2>1. CallOf(u, l) = s
    BY <1>4, CallerIs
  <2>2. CASE bad = {}
    <3>1. n = Answered(u, l, s, r.ok) /\ r.ok \in Answers(u, l, s)
      BY <1>0, <1>9, <2>2 DEF Answered, Told
    <3> QED
      BY <2>1, <3>1 DEF Called
  <2>3. CASE bad # {}
    <3>1. PICK f \in Faults(u, job[u].what, s) : bad = {f} /\ faults < lineup.maxFaults
      BY <1>11, <2>3
    <3>3. n = After(u, l, s, r.ok, Tells(l, s, f), Worse(l.app)) /\ r.ok = FALSE
      BY <1>0, <1>9, <2>3, <3>1 DEF Told, Effects
    <3>4. n = Failed(u, l, s, f)
      BY <3>3 DEF Failed
    <3>5. MayFail(u, l, s)
      BY <1>7, <1>9, <2>3, <3>1 DEF MayFail, Told
    <3> QED
      BY <1>7, <2>1, <3>1, <3>4, <3>5 DEF Called
  <2> QED
    BY <2>2, <2>3
<1>14. View(u, n.free)' = n
  <2>1. Comes(u, l, s, r, told, app, n)
    BY <1>4, <1>5, <1>9, <1>12, <1>23 DEF Comes
  <2> QED
    BY <2>1, CallerNext DEF IInv
<1>15. /\ told # {} => Lone(lineup)
       /\ \A w \in Users \ {u} : DOMAIN held[w] \cap told = {}
  <2>1. CASE bad = {}
    BY <1>0, <2>1
  <2>2. CASE bad # {}
    <3>1. PICK f : bad = {f}
      BY <1>11, <2>2
    <3>2. told = Tells(l, s, f)
      BY <1>0, <2>2, <3>1
    <3>3. Tells(l, s, f) # {} => Lone(lineup)
      BY <1>7 DEF Tells
    <3> QED
      BY <1>9, <3>1, <3>2, <3>3 DEF Told
  <2> QED
    BY <2>1, <2>2
<1>16. ASSUME NEW w \in Users \ {u}, NEW G, View(w, G) \in Locals(w)
       PROVE  /\ View(w, G)' \in Locals(w)
              /\ job'[w] = job[w] /\ mem'[w] = mem[w] /\ held'[w] = held[w]
  <2>6. PICK k : k = View(w, G)
    OBVIOUS
  <2>1. k.free = G /\ k \in Locals(w)
    BY <1>16, <2>6 DEF View
  <2>2. k = View(w, k.free)
    BY <2>1, <2>6
  <2>3. /\ View(w, k.free)' = Shares(k, app)
        /\ job'[w] = job[w] /\ mem'[w] = mem[w] /\ held'[w] = held[w]
    BY <1>4, <1>5, <1>9, <1>12, <2>2, OtherNext DEF IInv
  <2>4. k.app = [scaled |-> scaled, type |-> recType, faults |-> faults, lineup |-> lineup] /\ k.app.faults = faults /\ k.app.lineup = lineup
    BY <2>2, ViewIs
  <2>5. Shares(k, app) \in Locals(w)
    <3>1. CASE bad = {}
      <4>1. app = k.app
        BY <1>0, <1>7, <2>4, <3>1
      <4>2. Shares(k, app) = k
        BY <2>2, <4>1 DEF Shares, View
      <4> QED
        BY <2>1, <4>2
    <3>2. CASE bad # {}
      <4>1. app = Worse(k.app) /\ k.app.faults < k.app.lineup.maxFaults
        BY <1>0, <1>7, <1>11, <2>4, <3>2
      <4>2. Shares(k, app) \in Follow(w, k)
        BY <4>1 DEF Follow
      <4> QED
        BY <1>16, <2>1, <4>2, LocalsClosed
    <3> QED
      BY <3>1, <3>2
  <2> QED
    BY <2>1, <2>3, <2>5
<1>17. Shapes'
  <2>1. faults' \in Nat
    BY <1>11 DEF IInv, Shapes
  <2> QED
    BY <1>1, <1>5, <1>6, <1>10, <2>1 DEF Acts, IInv, Shapes
<1>18. Ledger'
  BY <1>4, <1>5, <1>9, LedgerNext DEF Acts, Ledger, Effects
<1>19. Turns'
  BY <1>6, <1>10 DEF IInv, Turns
<1>20. Known'
  <2>1. \E G : View(u, G)' \in Locals(u) /\ Apart(u, G)'
    <3>1. n \in Locals(u)
      BY <1>4, <1>13, CallerIs
    <3>2. \A w \in Users \ {u} : held'[w] = held[w]
      BY <1>16 DEF IInv, Known
    <3>3. Apart(u, l.free)
      BY <1>4 DEF Calling
    <3>5. n.free = l.free \cup told
      BY <1>23 DEF After
    <3>4. Apart(u, n.free)'
      BY <1>1, <3>5, <1>6, <1>10, <1>15, <3>2, <3>3 DEF Apart
    <3> QED
      BY <1>14, <3>1, <3>4
  <2>2. ASSUME NEW w \in Users \ {u} PROVE \E G : View(w, G)' \in Locals(w) /\ Apart(w, G)'
    <3>1. PICK G : View(w, G) \in Locals(w) /\ Apart(w, G)
      BY DEF IInv, Known
    <3>2. G = {}
      BY <1>1, <3>1 DEF Apart, IInv, Turns
    <3> QED
      BY <1>16, <3>1, <3>2 DEF Apart
  <2> QED
    BY <2>1, <2>2 DEF Known
<1>24. Mended'
  <2>1. /\ Script(u)' = ScriptOf(u, n) /\ job'[u] = n.job
        /\ Pieces(job[u], Script(u))' = PiecesOf(u, n)
    <3>1. /\ n.job = job'[u] /\ n.mem = mem'[u]
          /\ n.app = [scaled |-> scaled', type |-> recType', faults |-> faults', lineup |-> lineup']
      BY <1>14 DEF View
    <3>2. ScriptOf(u, n) = Script(u)'
      BY <3>1 DEF ScriptOf, Script
    <3> QED
      BY <3>1, <3>2 DEF PiecesOf
  <2>2. ASSUME NEW w \in Users \ {u} PROVE (Pieces(job[w], Script(w)))' = Pieces(job[w], Script(w))
    <3>1. job'[w] = job[w] /\ mem'[w] = mem[w]
      BY <1>16 DEF IInv, Known
    <3>2. Script(w)' = Script(w)
      BY <1>6, <3>1 DEF Script
    <3> QED
      BY <3>1, <3>2 DEF Pieces
  <2>3. Pieces(job[u], Script(u)) = PiecesOf(u, l)
    BY <1>4, ViewIs DEF Calling
  <2>4. ASSUME NEW p \in Cuts(r.t) PROVE \E w \in Users : p \in (Pieces(job[w], Script(w)))'
    <3>1. CASE s.op = "unwire" /\ r.ok /\ p = s.on
      <4>1. bad = {}
        BY <1>9, <1>11, <3>1 DEF Told
      <4>2. n = Answered(u, l, s, TRUE) /\ TRUE \in Answers(u, l, s)
        BY <1>0, <1>9, <3>1, <4>1 DEF Answered, Told, Effects
      <4>3. p \in PiecesOf(u, n)
        BY <1>4, <3>1, <4>2, CallerIs DEF KeepsPieces
      <4> QED
        BY <1>1, <2>1, <4>3
    <3>2. CASE ~(s.op = "unwire" /\ r.ok /\ p = s.on)
      <4>1. p \in Cuts(t) /\ ~(s.op = "wire" /\ p = s.on)
        BY <1>9, <3>2 DEF Effects
      <4>2. PICK w \in Users : p \in Pieces(job[w], Script(w))
        BY <4>1 DEF IInv, Mended
      <4>3. CASE w = u
        <5>1. p \in PiecesOf(u, l) /\ KeepsPieces(u, l, s)
          BY <1>4, <2>3, <4>2, <4>3, CallerIs
        <5>2. p \in PiecesOf(u, n)
          BY <1>13, <4>1, <5>1 DEF KeepsPieces
        <5> QED
          BY <1>1, <2>1, <5>2
      <4>4. CASE w # u
        BY <2>2, <4>2, <4>4
      <4> QED
        BY <4>3, <4>4
    <3> QED
      BY <3>1, <3>2
  <2> QED
    BY <1>5, <2>4 DEF Acts, Mended, Cuts
<1> QED
  BY <1>17, <1>18, <1>19, <1>20, <1>24 DEF IInv

-----------------------------------------------------------------------------
(* A job begins or ends                                                    *)

\* Only the job and the handle of user u change.
Moves(u) ==
  /\ UNCHANGED <<t, scaled, recType, held, faults, lineup>>
  /\ DOMAIN st' = Users /\ DOMAIN job' = Users /\ DOMAIN mem' = Users
  /\ \A w \in Users \ {u} : st'[w] = st[w] /\ job'[w] = job[w] /\ mem'[w] = mem[w]

\* A user moves to another of its local states and touches no table.
LEMMA MoveKeeps ==
  ASSUME IInv, NEW u \in Users, Moves(u), View(u, {})' \in Locals(u),
         "what" \in DOMAIN job'[u], Pieces(job[u], Script(u)) = {},
         job'[u].what # "idle" =>
           u \in lineup.users /\ (Lone(lineup) => \A w \in Users \ {u} : job[w].what = "idle")
  PROVE  IInv'
<1>1. /\ t' = t /\ scaled' = scaled /\ recType' = recType /\ held' = held /\ faults' = faults /\ lineup' = lineup
      /\ DOMAIN st' = Users /\ DOMAIN job' = Users /\ DOMAIN mem' = Users
      /\ \A w \in Users \ {u} : st'[w] = st[w] /\ job'[w] = job[w] /\ mem'[w] = mem[w]
  BY DEF Moves
<1>2. Shapes'
  BY <1>1 DEF IInv, Shapes
<1>3. Ledger'
  BY <1>1 DEF IInv, Ledger
<1>4. ASSUME job'[u].what # "idle", Lone(lineup), NEW w \in Users PROVE job[w].what = "idle" \/ w = u
  BY <1>4
<1>5. Turns'
  BY <1>1, <1>4 DEF IInv, Turns
<1>6. Known'
  <2>1. \E F : View(u, F)' \in Locals(u) /\ Apart(u, F)'
    <3>1. Apart(u, {})'
      BY DEF Apart
    <3> QED
      BY <3>1
  <2>2. ASSUME NEW w \in Users \ {u} PROVE \E F : View(w, F)' \in Locals(w) /\ Apart(w, F)'
    <3>1. PICK F : View(w, F) \in Locals(w) /\ Apart(w, F)
      BY DEF IInv, Known
    <3>2. View(w, F)' = View(w, F)
      BY <1>1 DEF View, CallsOf
    <3>3. Apart(w, F)'
      BY <1>1, <3>1 DEF Apart
    <3> QED
      BY <3>1, <3>2, <3>3
  <2> QED
    BY <2>1, <2>2 DEF Known
<1>7. Mended'
  <2>1. ASSUME NEW w \in Users \ {u} PROVE (Pieces(job[w], Script(w)))' = Pieces(job[w], Script(w))
    <3>1. Script(w)' = Script(w)
      BY <1>1 DEF Script
    <3>2. job'[w] = job[w]
      BY <1>1
    <3> QED
      BY <3>1, <3>2 DEF Pieces
  <2>2. ASSUME NEW p \in Cuts(t) PROVE \E w \in Users : p \in (Pieces(job[w], Script(w)))'
    <3>1. PICK w \in Users : p \in Pieces(job[w], Script(w))
      BY <2>2 DEF IInv, Mended
    <3> QED
      BY <2>1, <3>1
  <2> QED
    BY <1>1, <2>2 DEF Mended, Cuts
<1> QED
  BY <1>2, <1>3, <1>5, <1>6, <1>7 DEF IInv

\* An idle user knows of nothing that is free, and repairs nothing.
LEMMA IdleIs ==
  ASSUME IInv, NEW u \in Users, job[u].what = "idle"
  PROVE  View(u, {}) \in Locals(u) /\ Pieces(job[u], Script(u)) = {}
<1>1. PICK F : View(u, F) \in Locals(u) /\ Apart(u, F)
  BY DEF IInv, Known
<1>2. F = {}
  BY <1>1 DEF Apart
<1> QED
  BY <1>1, <1>2 DEF Pieces

\* An open, a close or a reset begins.
LEMMA BeginKeeps ==
  ASSUME IInv, NEW u \in lineup.users, Open(u) \/ Close(u) \/ Reset(u)
  PROVE  IInv'
<1>1. u \in Users /\ Free(u) /\ job[u].what = "idle"
  BY SessionsAssumption DEF Open, Close, Reset, Begin, Free, IInv, Shapes
<1>2. Lone(lineup) => \A w \in Users \ {u} : job[w].what = "idle"
  BY <1>1 DEF Free, Lone, IInv, Turns
<1>3. PICK l : l = View(u, {})
  OBVIOUS
<1>4. l = View(u, l.free)
  BY <1>3 DEF View
<1>5. /\ l.st = st[u] /\ l.job = job[u] /\ l.mem = mem[u] /\ l.own = held[u]
      /\ l.calls = CallsOf(u) /\ l.made = t.on \cap Makes[u]
      /\ l.app = [scaled |-> scaled, type |-> recType, faults |-> faults, lineup |-> lineup]
  BY <1>4, ViewIs
<1>6. l \in Locals(u) /\ Pieces(job[u], Script(u)) = {}
  BY <1>1, <1>3, IdleIs
<1>7. Begins(u, l) \subseteq Locals(u)
  BY <1>1, <1>5, <1>6, LocalsClosed DEF Follow
<1>8. PICK what, remembered :
         /\ job' = [job EXCEPT ![u] = [Idle EXCEPT !.what = what, !.was = mem[u].type]]
         /\ mem'[u] = remembered /\ DOMAIN mem' = Users /\ \A w \in Users \ {u} : mem'[w] = mem[w]
         /\ UNCHANGED <<t, st, scaled, recType, held, faults, lineup>>
         /\ Begun(l, what, remembered) \in Locals(u)
  <2>1. CASE Open(u)
    <3>1. l.st = "closed" /\ l.app.scaled = scaled /\ l.app.type = recType
      BY <1>5, <2>1 DEF Open
    <3>2. Begun(l, "open", Remembers(u, scaled, recType)) \in Locals(u)
      BY <1>7, <3>1 DEF Begins
    <3>3. /\ job' = [job EXCEPT ![u] = [Idle EXCEPT !.what = "open", !.was = mem[u].type]]
          /\ mem'[u] = Remembers(u, scaled, recType) /\ DOMAIN mem' = Users /\ \A w \in Users \ {u} : mem'[w] = mem[w]
          /\ UNCHANGED <<t, st, scaled, recType, held, faults, lineup>>
      BY <1>1, <2>1 DEF Open, Begin, IInv, Shapes
    <3> QED
      BY <3>2, <3>3
  <2>2. CASE Close(u)
    <3>1. l.st # "closed"
      BY <1>5, <2>2 DEF Close
    <3>2. Begun(l, "close", l.mem) \in Locals(u)
      BY <1>7, <3>1 DEF Begins
    <3>3. /\ job' = [job EXCEPT ![u] = [Idle EXCEPT !.what = "close", !.was = mem[u].type]]
          /\ mem'[u] = l.mem /\ DOMAIN mem' = Users /\ \A w \in Users \ {u} : mem'[w] = mem[w]
          /\ UNCHANGED <<t, st, scaled, recType, held, faults, lineup>>
      BY <1>1, <1>5, <2>2 DEF Close, Begin, IInv, Shapes
    <3> QED
      BY <3>2, <3>3
  <2>3. CASE Reset(u)
    <3>1. l.st # "closed" /\ "reset" \in Resets(u)
      BY <1>5, <2>3 DEF Reset, Resets
    <3>2. Begun(l, "reset", l.mem) \in Locals(u)
      BY <1>7, <3>1 DEF Begins
    <3>3. /\ job' = [job EXCEPT ![u] = [Idle EXCEPT !.what = "reset", !.was = mem[u].type]]
          /\ mem'[u] = l.mem /\ DOMAIN mem' = Users /\ \A w \in Users \ {u} : mem'[w] = mem[w]
          /\ UNCHANGED <<t, st, scaled, recType, held, faults, lineup>>
      BY <1>1, <1>5, <2>3 DEF Reset, Begin, IInv, Shapes
    <3> QED
      BY <3>2, <3>3
  <2> QED
    BY <2>1, <2>2, <2>3
<1>9. /\ job'[u] = [Idle EXCEPT !.what = what, !.was = mem[u].type]
      /\ DOMAIN job' = Users /\ \A w \in Users \ {u} : job'[w] = job[w]
  BY <1>1, <1>8 DEF IInv, Shapes
<1>10. Moves(u)
  BY <1>8, <1>9 DEF Moves, IInv, Shapes
<1>11. View(u, {})' = Begun(l, what, remembered)
  <2>1. View(u, {})' =
      [st |-> st'[u], job |-> job'[u], mem |-> mem'[u],
       own |-> held'[u], calls |-> CallsOf(u)', made |-> t'.on \cap Makes[u],
       free |-> {},
       app |-> [scaled |-> scaled', type |-> recType', faults |-> faults', lineup |-> lineup']]
    BY DEF View
  <2> QED
    BY <1>5, <1>8, <1>9, <2>1 DEF Begun, Now, CallsOf
<1>12. "what" \in DOMAIN job'[u]
  BY <1>9 DEF Idle
<1> QED
  BY <1>1, <1>2, <1>6, <1>8, <1>10, <1>11, <1>12, MoveKeeps

\* A job ends.
LEMMA EndKeeps ==
  ASSUME IInv, NEW u \in lineup.users, End(u)
  PROVE  IInv'
<1>1. u \in Users /\ job[u].what # "idle" /\ ~Left(job[u])
  BY SessionsAssumption DEF End, IInv, Shapes
<1>2. PICK F : View(u, F) \in Locals(u)
  BY <1>1 DEF IInv, Known
<1>3. PICK l : l = View(u, F)
  OBVIOUS
<1>4. l = View(u, l.free)
  BY <1>3 DEF View
<1>5. /\ l.st = st[u] /\ l.job = job[u] /\ l.mem = mem[u] /\ l.own = held[u]
      /\ l.calls = CallsOf(u) /\ l.made = t.on \cap Makes[u]
      /\ l.app = [scaled |-> scaled, type |-> recType, faults |-> faults, lineup |-> lineup]
  BY <1>4, ViewIs
<1>6. Ended(l) \in Locals(u)
  BY <1>1, <1>2, <1>3, <1>5, LocalsClosed DEF Follow
<1>7. Pieces(job[u], Script(u)) = {}
  BY <1>1 DEF Left, Pieces
<1>8. /\ st'[u] = StAfter(l.job, l.st) /\ job'[u] = Idle
      /\ mem'[u] = IF st'[u] = "open" THEN l.mem ELSE [vpss |-> {}, type |-> "normal"]
  BY <1>1, <1>5 DEF End, IInv, Shapes
<1>9. Moves(u)
  BY <1>1 DEF End, Moves, IInv, Shapes
<1>10. View(u, {})' = Ended(l)
  <2>1. View(u, {})' =
      [st |-> st'[u], job |-> job'[u], mem |-> mem'[u],
       own |-> held'[u], calls |-> CallsOf(u)', made |-> t'.on \cap Makes[u],
       free |-> {},
       app |-> [scaled |-> scaled', type |-> recType', faults |-> faults', lineup |-> lineup']]
    BY DEF View
  <2> QED
    BY <1>5, <1>8, <1>9, <2>1 DEF Ended, Now, Moves, CallsOf
<1>11. "what" \in DOMAIN job'[u]
  BY <1>8 DEF Idle
<1>12. Lone(lineup) => \A w \in Users \ {u} : job[w].what = "idle"
  BY <1>1 DEF IInv, Turns
<1> QED
  BY <1>1, <1>6, <1>7, <1>9, <1>10, <1>11, <1>12, MoveKeeps

\* The parameters change while nobody is busy.
LEMMA ShareKeeps ==
  ASSUME IInv, NEW sizes, NEW type,
         \A u \in Users : job[u].what = "idle", UNCHANGED <<t, st, job, mem, held, faults, lineup>>,
         scaled' = sizes, recType' = type,
         \A u \in Users : \A l \in Locals(u) :
           l.job.what = "idle" /\ l.app = [scaled |-> scaled, type |-> recType, faults |-> faults, lineup |-> lineup] =>
             Shares(l, [scaled |-> sizes, type |-> type, faults |-> faults, lineup |-> lineup]) \in Locals(u)
  PROVE  IInv'
<1>1. Shapes' /\ Ledger' /\ Turns'
  BY DEF IInv, Shapes, Ledger, Turns
<1>2. ASSUME NEW u \in Users PROVE View(u, {})' \in Locals(u)
  <2>1. PICK l : l = View(u, {})
    OBVIOUS
  <2>8. l.free = {}
    BY <2>1 DEF View
  <2>2. l = View(u, l.free)
    BY <2>1, <2>8
  <2>3. /\ l.st = st[u] /\ l.job = job[u] /\ l.mem = mem[u] /\ l.own = held[u]
        /\ l.calls = CallsOf(u) /\ l.made = t.on \cap Makes[u]
        /\ l.app = [scaled |-> scaled, type |-> recType, faults |-> faults, lineup |-> lineup]
    BY <2>2, ViewIs
  <2>4. l \in Locals(u)
    BY <2>1, IdleIs
  <2>5. Shares(l, [scaled |-> sizes, type |-> type, faults |-> faults, lineup |-> lineup]) \in Locals(u)
    BY <2>3, <2>4
  <2>6. View(u, {})' =
      [st |-> st'[u], job |-> job'[u], mem |-> mem'[u],
       own |-> held'[u], calls |-> CallsOf(u)', made |-> t'.on \cap Makes[u],
       free |-> {},
       app |-> [scaled |-> scaled', type |-> recType', faults |-> faults', lineup |-> lineup']]
    BY DEF View
  <2>7. View(u, {})' = Shares(l, [scaled |-> sizes, type |-> type, faults |-> faults, lineup |-> lineup])
    BY <2>3, <2>6, <2>8 DEF Shares, CallsOf
  <2> QED
    BY <2>5, <2>7
<1>3. Known'
  BY <1>2 DEF Known, Apart
<1>4. Mended'
  <2>1. Cuts(t) = {}
    BY IdleIs DEF IInv, Mended
  <2> QED
    BY <2>1 DEF Mended, Cuts
<1> QED
  BY <1>1, <1>3, <1>4 DEF IInv

\* RKADK_PARAM_SetCamParam changes a stream that is scaled or no longer is.
LEMMA ResizeKeeps ==
  ASSUME IInv, NEW p \in lineup.resizable, Resize(p)
  PROVE  IInv'
<1>1. ASSUME NEW u \in Users, NEW l \in Locals(u), l.job.what = "idle",
             l.app = [scaled |-> scaled, type |-> recType, faults |-> faults, lineup |-> lineup]
      PROVE  Shares(l, [scaled |-> Toggled(scaled, p), type |-> recType, faults |-> faults, lineup |-> lineup]) \in Locals(u)
  <2>1. l.app.scaled = scaled /\ l.app.type = recType /\ l.app.faults = faults /\ l.app.lineup = lineup
    BY <1>1
  <2>2. Rescaled(l, p) \in Locals(u)
    BY <1>1, <2>1, LocalsClosed DEF Follow
  <2> QED
    BY <2>1, <2>2 DEF Rescaled
<1>2. PICK sizes : sizes = Toggled(scaled, p)
  OBVIOUS
<1>3. PICK type : type = recType
  OBVIOUS
<1> QED
  BY <1>1, <1>2, <1>3, ShareKeeps DEF Resize

\* The record type is set.
LEMMA SetRecordTypeKeeps ==
  ASSUME IInv, SetRecordType
  PROVE  IInv'
<1>1. ASSUME NEW u \in Users, NEW l \in Locals(u), l.job.what = "idle",
             l.app = [scaled |-> scaled, type |-> recType, faults |-> faults, lineup |-> lineup]
      PROVE  Shares(l, [scaled |-> scaled, type |-> OtherType(recType), faults |-> faults, lineup |-> lineup]) \in Locals(u)
  <2>1. l.app.scaled = scaled /\ l.app.type = recType /\ l.app.faults = faults /\ l.app.lineup = lineup
    BY <1>1
  <2>2. Retyped(l) \in Locals(u)
    BY <1>1, LocalsClosed DEF Follow
  <2> QED
    BY <2>1, <2>2 DEF Retyped
<1>2. PICK sizes : sizes = scaled
  OBVIOUS
<1>3. PICK type : type = OtherType(recType)
  OBVIOUS
<1> QED
  BY <1>1, <1>2, <1>3, ShareKeeps DEF SetRecordType

-----------------------------------------------------------------------------
(* The invariant holds                                                     *)

\* The invariant holds at the start.
LEMMA InitKeeps == Init => IInv
<1> SUFFICES ASSUME Init PROVE IInv
  OBVIOUS
<1>1. /\ t.cnt = Unused /\ t.bind = Unused /\ t.grp = Unused /\ t.on = {} /\ t.wire = {} /\ t.cb = {}
      /\ \A u \in Users : held[u] = Unused /\ job[u] = Idle /\ st[u] = "closed"
      /\ \A u \in Users : mem[u] = [vpss |-> {}, type |-> "normal"]
      /\ scaled = {} /\ recType = "normal" /\ faults = 0 /\ lineup \in Lineups
  BY DEF Init, EmptyTables
<1>2. DOMAIN Unused = {} /\ \A x : Count(Unused, x) = 0
  BY DEF Unused, Count
<1>3. \A S : Unused \in Counts(S)
  BY UnusedIs
<1>4. Shapes
  BY DEF Init, Shapes, Idle
<1>5. Ledger
  <2>1. held \in Hands
    BY <1>3 DEF Init, Hands
  <2>2. \A x : RefsOf(held, x) = {}
    BY <1>1, <1>2, <2>1, RefsAre
  <2>3. t \in Tables
    BY <1>3 DEF Init, EmptyTables, Tables
  <2>4. Runs(t)
    BY <1>1, <1>2 DEF Runs
  <2>5. Groups(t)
    <3>1. \A d : InGroup(t, d) = {}
      BY <1>1, <1>2 DEF InGroup
    <3>2. \A d : Cardinality(InGroup(t, d)) = 0 /\ Count(t.grp, d) = 0
      BY <1>1, <1>2, <3>1, FS_EmptySet
    <3> QED
      BY <3>2 DEF Groups
  <2>6. Tally(held, t.cnt, Chans) /\ Tally(held, t.bind, Pairs)
    BY <1>1, <1>2, <2>2, FS_EmptySet DEF Tally
  <2> QED
    BY <2>1, <2>3, <2>4, <2>5, <2>6 DEF Ledger, Sound
<1>6. Turns
  BY <1>1 DEF Turns, Idle
<1>7. ASSUME NEW u \in Users PROVE View(u, {}) \in Locals(u)
  <2>1. View(u, {}) = Fresh(lineup)
    BY <1>1 DEF View, Fresh, CallsOf
  <2> QED
    BY <1>1, <2>1, LocalsClosed
<1>8. Known
  BY <1>7 DEF Known, Apart
<1>9. Mended
  BY <1>1, <1>2 DEF Mended, Cuts
<1> QED
  BY <1>4, <1>5, <1>6, <1>8, <1>9 DEF IInv

\* Every step keeps it.
LEMMA NextKeeps == IInv /\ [Next]_vars => IInv'
<1> SUFFICES ASSUME IInv, [Next]_vars PROVE IInv'
  OBVIOUS
<1>1. CASE \E u \in lineup.users : Open(u) \/ Close(u) \/ Reset(u)
  BY <1>1, BeginKeeps
<1>2. CASE \E u \in lineup.users : Step(u)
  BY <1>2, StepKeeps
<1>3. CASE \E u \in lineup.users : End(u)
  BY <1>3, EndKeeps
<1>4. CASE \E p \in lineup.resizable : Resize(p)
  BY <1>4, ResizeKeeps
<1>5. CASE SetRecordType
  BY <1>5, SetRecordTypeKeeps
<1>6. CASE UNCHANGED vars
  <2>1. /\ t' = t /\ st' = st /\ job' = job /\ mem' = mem /\ scaled' = scaled
        /\ recType' = recType /\ held' = held /\ faults' = faults /\ lineup' = lineup
    BY <1>6 DEF vars
  <2>2. Known' = Known
    BY <2>1 DEF Known, View, Apart, CallsOf
  <2>3. Mended' = Mended
    BY <2>1 DEF Mended, Cuts, Pieces, Script
  <2> QED
    BY <2>1, <2>2, <2>3 DEF IInv, Shapes, Ledger, Turns
<1> QED
  BY <1>1, <1>2, <1>3, <1>4, <1>5, <1>6 DEF Next

\* The tables of counts, the users' local states and the binds under repair agree
\* in every reachable state: the invariant the four theorems below follow from.
THEOREM Invariance == Spec => []IInv
BY InitKeeps, NextKeeps, PTL DEF Spec

-----------------------------------------------------------------------------
(* What it says                                                            *)

\* The counts are those of the references.
LEMMA ImpliesAccounted == IInv => Accounted
<1> SUFFICES ASSUME IInv PROVE Accounted
  OBVIOUS
<1>1. \A x : References(x) = RefsOf(held, x)
  BY DEF References, Holders, RefsOf
<1> QED
  BY <1>1 DEF IInv, Ledger, Tally, Accounted

\* A counted pair is bound, unless its reset is about to bind it.
LEMMA ImpliesOpenPathWorks == IInv => OpenPathWorks
<1> SUFFICES ASSUME IInv PROVE OpenPathWorks
  OBVIOUS
<1> DEFINE Resetting(p) == \E u \in Users :
             /\ job[u].what = "reset" /\ job[u].at # 0
             /\ \E script \in {Script(u)} : \E i \in job[u].at .. Len(script) :
                  script[i].op \in {"wire", "bind"} /\ script[i].on = p
<1>1. ASSUME NEW u \in Users, NEW x \in DOMAIN held[u], x \in Chans
      PROVE  x \in t.on /\ (Mod(x) \in {"VI", "AI", "VPSS", "VO"} => Dev(x) \in t.on)
  BY <1>1, CountedIs DEF IInv, Ledger, Sound, Runs
<1>2. ASSUME NEW u \in Users, NEW x \in DOMAIN held[u], x \notin Chans
      PROVE  x \in t.wire \/ Resetting(x)
  <2>1. x \in Pairs
    <3>1. held[u] \in Counts(Things)
      BY DEF IInv, Ledger, Hands
    <3> QED
      BY <1>2, <3>1, CountIs DEF Things
  <2>2. x \in DOMAIN t.bind
    BY <2>1, CountedIs DEF IInv
  <2>3. ASSUME x \notin t.wire PROVE Resetting(x)
    <3>1. PICK w \in Users : x \in Pieces(job[w], Script(w))
      BY <2>2, <2>3 DEF IInv, Mended, Cuts
    <3>2. /\ job[w].what = "reset" /\ job[w].at # 0
          /\ \E m \in job[w].at .. Len(Script(w)) : Script(w)[m].op = "wire" /\ Script(w)[m].on = x
      BY <3>1 DEF Pieces
    <3> QED
      BY <3>2
  <2> QED
    BY <2>3
<1> QED
  BY <1>1, <1>2 DEF OpenPathWorks

\* Callbacks belong to a user that is open or at work, and to an encoder that runs.
LEMMA ImpliesCallbacksHaveOwners == IInv => CallbacksHaveOwners
<1> SUFFICES ASSUME IInv, NEW r \in t.cb
             PROVE  (st[r[1]] = "open" \/ job[r[1]].what # "idle") /\ r[2] \in t.on
  BY DEF CallbacksHaveOwners
<1>1. PICK u \in Users, c \in Chans : r = <<u, c>>
  BY DEF IInv, Ledger, Sound, Tables
<1>2. PICK F : View(u, F) \in Locals(u)
  BY DEF IInv, Known
<1>3. PICK l : l = View(u, F)
  OBVIOUS
<1>4. l.st = st[u] /\ l.job = job[u] /\ l.own = held[u] /\ c \in l.calls
  BY <1>1, <1>3 DEF View, CallsOf
<1>5. Fits(u, l)
  BY <1>2, <1>3, LocalsClosed
<1>6. c \in DOMAIN held[u] /\ (st[u] = "open" \/ job[u].what # "idle")
  BY <1>4, <1>5 DEF Fits
<1>7. c \in t.on
  BY <1>6, CountedIs DEF IInv, Ledger, Sound, Runs
<1> QED
  BY <1>1, <1>6, <1>7

\* A close has met no failure.
LEMMA ImpliesCloseSucceeds == IInv => CloseSucceeds
<1> SUFFICES ASSUME IInv, NEW u \in Users, job[u].what = "close" PROVE job[u].ok
  BY DEF CloseSucceeds
<1>1. PICK F : View(u, F) \in Locals(u)
  BY DEF IInv, Known
<1>2. PICK l : l = View(u, F)
  OBVIOUS
<1>3. l.job = job[u]
  BY <1>2 DEF View
<1>4. Fits(u, l)
  BY <1>1, <1>2, LocalsClosed
<1> QED
  BY <1>3, <1>4 DEF Fits

\* For any number of users, on one thread or on several, each count of
\* rkadk_media_comm.c is the number of references its users were given and have not
\* given back, whatever opens, resets and closes ran and failed before.
THEOREM CountsAreReferences == Spec => []Accounted
BY Invariance, ImpliesAccounted, PTL

\* What an open user was given works: its channels and devices run and its pairs
\* are bound, unless a reset of theirs is about to bind them again.
THEOREM PathsWork == Spec => []OpenPathWorks
BY Invariance, ImpliesOpenPathWorks, PTL

\* Every callback in the tables is that of a user that is open or at work, on an
\* encoder that runs.
THEOREM CallbacksAreOwned == Spec => []CallbacksHaveOwners
BY Invariance, ImpliesCallbacksHaveOwners, PTL

\* No call of a close fails: each finds what it releases.
THEOREM ClosesSucceed == Spec => []CloseSucceeds
BY Invariance, ImpliesCloseSucceeds, PTL
=============================================================================
