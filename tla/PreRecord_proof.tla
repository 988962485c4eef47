-------------------------- MODULE PreRecord_proof --------------------------
(***************************************************************************)
(* Proofs about PreRecord: who holds a media buffer, and what a file has   *)
(* of the frames that were kept before it began; for any length of a group *)
(* of pictures, rate, cache, pool and bounds.                              *)
(***************************************************************************)
EXTENDS PreRecord, FiniteSetTheorems, SequenceTheorems, TLAPS

Cells   == [k : Kinds, t : Times, pool : BOOLEAN]
Opening == {"release", "video", "audio", "first", "begin"}
Leaving == {"leave", "disabled"}

\* The lists; what takes the first of stProcList finds one.
Lists ==
  /\ procList \in Seq(Cells)
  /\ DOMAIN preList = Kinds /\ \A k \in Kinds : preList[k] \in Seq(Times)
  /\ thr.pc \in {"audio", "first"} => procList # <<>>

\* The callbacks and their frames.
Frames ==
  /\ ref \in [Kinds -> [Times -> Int]]
  /\ cb \in [Kinds -> {"idle", "pre", "get"}]
  /\ next \in [Kinds -> Nat]
  /\ \A k \in Kinds : next[k] <= MaxT[k] /\ (cb[k] # "idle" => next[k] < MaxT[k])

\* The muxer thread has a cell except when it looks for one.
Thread ==
  /\ thr \in [pc : Opening \cup {"pop", "look", "write", "free", "dead"},
              cell : Cells \cup {NoCell}, seek : Int]
  /\ thr.cell = NoCell <=> thr.pc \in {"pop", "dead"}

\* The handle and the file.
Handle ==
  /\ h \in [en : BOOLEAN, reseting : BOOLEAN, first : BOOLEAN, want : BOOLEAN,
            split : BOOLEAN, mux : BOOLEAN, type : Types, mode : {"NONE", "SPLIT", "SINGLE"}]
  /\ exitFlag \in BOOLEAN
File ==
  /\ file \in [last : [Kinds -> Times \cup {-1}], start : Int, inOrder : BOOLEAN,
               whole : BOOLEAN, spoilt : BOOLEAN, stopped : BOOLEAN, late : BOOLEAN]
  /\ apart \in BOOLEAN

Typed == Lists /\ Frames /\ Thread /\ Handle /\ File

\* Where the application, the thread and the callbacks may be at a time.
Stages ==
  /\ app \in {"idle", "join", "release", "param"} \cup Leaving
  /\ h.reseting <=> app \in {"join", "release", "param"}
  /\ app # "idle" => ~h.en
  /\ app \in {"release", "param"} => thr.pc \in {"pop", "look", "free"}
  /\ app \in {"release", "param", "idle"} => ~exitFlag
  /\ app \in Leaving => \A k \in Kinds : cb[k] = "idle"
  /\ app = "disabled" => thr.pc = "dead"
  /\ thr.pc = "dead" => exitFlag
  /\ thr.pc = "write" => h.mux

-----------------------------------------------------------------------------
(* Counting                                                                *)

\* How many elements of a sequence are in a set.
Hits(s, S) == Cardinality({i \in DOMAIN s : s[i] \in S})

\* The count is a number.
LEMMA HitsType ==
  ASSUME NEW T, NEW s \in Seq(T), NEW S
  PROVE  /\ IsFiniteSet({i \in DOMAIN s : s[i] \in S})
         /\ Hits(s, S) \in Nat
<1>1. IsFiniteSet(1 .. Len(s))
  BY FS_Interval
<1>2. {i \in DOMAIN s : s[i] \in S} \subseteq 1 .. Len(s)
  OBVIOUS
<1>3. QED
  BY <1>1, <1>2, FS_Subset, FS_CardinalityType DEF Hits

\* Two sequences one after the other have what each of them has.
LEMMA HitsConcat ==
  ASSUME NEW T, NEW s \in Seq(T), NEW r \in Seq(T), NEW S
  PROVE  Hits(s \o r, S) = Hits(s, S) + Hits(r, S)
<1> DEFINE A == {i \in DOMAIN s : s[i] \in S}
           B == {i \in DOMAIN r : r[i] \in S}
           C == {i \in DOMAIN (s \o r) : (s \o r)[i] \in S}
           D == C \ A
           f == [i \in B |-> i + Len(s)]
<1>1. Len(s) \in Nat /\ Len(r) \in Nat /\ Len(s \o r) = Len(s) + Len(r)
  OBVIOUS
<1>2. \A i \in 1 .. Len(s) + Len(r) : (s \o r)[i] = IF i <= Len(s) THEN s[i] ELSE r[i - Len(s)]
  OBVIOUS
<1>3. /\ DOMAIN s = 1 .. Len(s) /\ DOMAIN r = 1 .. Len(r)
      /\ DOMAIN (s \o r) = 1 .. Len(s) + Len(r)
  BY <1>1
<1>4. A = {i \in C : i <= Len(s)}
  BY <1>1, <1>2, <1>3
<1>5. D = {i \in C : i > Len(s)}
  BY <1>1, <1>3, <1>4
<1>6. f \in Bijection(B, D)
  <2>1. ASSUME NEW i \in B PROVE f[i] \in D
    BY <1>1, <1>2, <1>3, <1>5
  <2>2. \A i, j \in B : f[i] = f[j] => i = j
    BY <1>1, <1>3
  <2>3. ASSUME NEW d \in D PROVE \E i \in B : f[i] = d
    <3>1. d \in Int /\ d > Len(s) /\ d <= Len(s) + Len(r) /\ (s \o r)[d] \in S
      BY <1>1, <1>3, <1>5
    <3>2. d - Len(s) \in B
      BY <3>1, <1>1, <1>2, <1>3
    <3>3. f[d - Len(s)] = d
      BY <3>1, <3>2, <1>1
    <3>4. QED
      BY <3>2, <3>3
  <2>4. f \in [B -> D]
    BY <2>1
  <2>5. QED
    <3> HIDE DEF B, D, f
    <3>1. f \in Injection(B, D)
      BY <2>2, <2>4 DEF Injection, IsInjective
    <3>2. f \in Surjection(B, D)
      BY <2>3, <2>4 DEF Surjection
    <3>3. QED
      BY <3>1, <3>2 DEF Bijection
<1>7. IsFiniteSet(A) /\ IsFiniteSet(B)
  BY HitsType
<1>8. IsFiniteSet(D) /\ Cardinality(D) = Cardinality(B)
  <2>1. ExistsBijection(B, D)
    BY <1>6 DEF ExistsBijection
  <2>2. QED
    BY <2>1, <1>7, FS_Bijection
<1>9. A \cup D = C /\ A \cap D = {}
  BY <1>4
<1>10. Cardinality(C) = Cardinality(A) + Cardinality(D)
  <2> HIDE DEF A, B, C, D
  <2>1. Cardinality(A \cup D) = Cardinality(A) + Cardinality(D) - Cardinality(A \cap D)
    BY <1>7, <1>8, FS_Union
  <2>2. Cardinality(A \cap D) = 0 /\ Cardinality(A) \in Nat /\ Cardinality(D) \in Nat
    BY <1>7, <1>8, <1>9, FS_EmptySet, FS_CardinalityType
  <2>3. Cardinality(C) = Cardinality(A \cup D)
    BY <1>9
  <2>4. QED
    BY <2>1, <2>2, <2>3
<1>11. QED
  BY <1>8, <1>10 DEF Hits

\* A single element.
LEMMA HitsOne ==
  ASSUME NEW c, NEW S
  PROVE  Hits(<<c>>, S) = IF c \in S THEN 1 ELSE 0
<1>1. CASE c \in S
  <2>1. {i \in DOMAIN <<c>> : <<c>>[i] \in S} = {1}
    BY <1>1
  <2>2. QED
    BY <1>1, <2>1, FS_Singleton DEF Hits
<1>2. CASE c \notin S
  <2>1. {i \in DOMAIN <<c>> : <<c>>[i] \in S} = {}
    BY <1>2
  <2>2. QED
    BY <1>2, <2>1, FS_EmptySet DEF Hits
<1>3. QED
  BY <1>1, <1>2

\* The empty sequence.
LEMMA HitsNone == ASSUME NEW S PROVE Hits(<<>>, S) = 0
<1>1. {i \in DOMAIN <<>> : <<>>[i] \in S} = {}
  OBVIOUS
<1>2. QED
  BY <1>1, FS_EmptySet DEF Hits

\* An element at the end.
LEMMA HitsAppend ==
  ASSUME NEW T, NEW s \in Seq(T), NEW c \in T, NEW S
  PROVE  Hits(Append(s, c), S) = Hits(s, S) + (IF c \in S THEN 1 ELSE 0)
<1>1. Append(s, c) = s \o <<c>> /\ <<c>> \in Seq(T)
  OBVIOUS
<1>2. Hits(s \o <<c>>, S) = Hits(s, S) + Hits(<<c>>, S)
  BY <1>1, HitsConcat
<1>3. QED
  BY <1>1, <1>2, HitsOne

\* Two sequences one after the other.
LEMMA Joined ==
  ASSUME NEW T, NEW s \in Seq(T), NEW r \in Seq(T)
  PROVE  /\ s \o r \in Seq(T) /\ Len(s \o r) = Len(s) + Len(r) /\ Len(s) \in Nat /\ Len(r) \in Nat
         /\ \A i \in 1 .. Len(s) + Len(r) : (s \o r)[i] = IF i <= Len(s) THEN s[i] ELSE r[i - Len(s)]
OBVIOUS

\* A sequence cut in two.
LEMMA HitsSplit ==
  ASSUME NEW T, NEW s \in Seq(T), NEW n \in 0 .. Len(s), NEW S
  PROVE  /\ SubSeq(s, 1, n) \in Seq(T) /\ SubSeq(s, n + 1, Len(s)) \in Seq(T)
         /\ Hits(s, S) = Hits(SubSeq(s, 1, n), S) + Hits(SubSeq(s, n + 1, Len(s)), S)
<1> DEFINE a == SubSeq(s, 1, n)
           b == SubSeq(s, n + 1, Len(s))
<1>1. a \in Seq(T) /\ Len(a) = n /\ \A i \in 1 .. n : a[i] = s[i]
  OBVIOUS
<1>2. b \in Seq(T) /\ Len(b) = Len(s) - n /\ \A i \in 1 .. Len(s) - n : b[i] = s[n + i]
  OBVIOUS
<1>3. a \o b = s
  <2> HIDE DEF a, b
  <2>0. n \in Nat /\ Len(s) \in Nat /\ n <= Len(s)
    OBVIOUS
  <2>1. /\ a \o b \in Seq(T) /\ Len(a \o b) = Len(s)
        /\ \A i \in 1 .. Len(s) : (a \o b)[i] = IF i <= n THEN a[i] ELSE b[i - n]
    <3>1. /\ a \o b \in Seq(T) /\ Len(a \o b) = Len(a) + Len(b)
          /\ \A i \in 1 .. Len(a) + Len(b) : (a \o b)[i] = IF i <= Len(a) THEN a[i] ELSE b[i - Len(a)]
      BY <1>1, <1>2, Joined
    <3>2. Len(a) + Len(b) = Len(s) /\ Len(a) = n
      BY <1>1, <1>2, <2>0
    <3>3. QED
      BY <3>1, <3>2
  <2>2. ASSUME NEW i \in 1 .. Len(s) PROVE (a \o b)[i] = s[i]
    <3>1. CASE i <= n
      BY <1>1, <2>0, <2>1, <3>1
    <3>2. CASE ~(i <= n)
      <4>1. (a \o b)[i] = b[i - n]
        BY <2>1, <3>2
      <4>2. i - n \in 1 .. Len(s) - n /\ n + (i - n) = i
        BY <2>0, <3>2
      <4>3. b[i - n] = s[n + (i - n)]
        BY <1>2, <4>2
      <4>4. QED
        BY <4>1, <4>2, <4>3
    <3>3. QED
      BY <3>1, <3>2
  <2>3. QED
    BY <2>1, <2>2, SeqEqual
<1>4. Hits(a \o b, S) = Hits(a, S) + Hits(b, S)
  BY <1>1, <1>2, HitsConcat
<1>5. QED
  BY <1>1, <1>2, <1>3, <1>4

\* The first element and the rest.
LEMMA HitsHead ==
  ASSUME NEW T, NEW s \in Seq(T), s # <<>>, NEW S
  PROVE  /\ Head(s) \in T /\ Tail(s) \in Seq(T)
         /\ Hits(s, S) = Hits(<<Head(s)>>, S) + Hits(Tail(s), S)
<1>1. Head(s) \in T /\ Tail(s) \in Seq(T) /\ <<Head(s)>> \in Seq(T)
  OBVIOUS
<1>2. s = <<Head(s)>> \o Tail(s)
  OBVIOUS
<1>3. Hits(<<Head(s)>> \o Tail(s), S) = Hits(<<Head(s)>>, S) + Hits(Tail(s), S)
  BY <1>1, HitsConcat
<1>4. QED
  BY <1>1, <1>2, <1>3

\* What the thread may have in hand, and the cells of a frame.
Slots == Cells \cup {NoCell}
Of(k, t) == {c \in Slots : c.k = k /\ c.t = t}

\* RKADK_MUXER_CellFree counts the cells of a frame.
LEMMA CountHits ==
  ASSUME NEW s \in Seq(Slots), NEW k, NEW t
  PROVE  CountIn(s, k, t) = Hits(s, Of(k, t)) /\ CountIn(s, k, t) \in Nat
<1>1. \A i \in DOMAIN s : s[i] \in Slots
  OBVIOUS
<1>2. {i \in DOMAIN s : s[i].k = k /\ s[i].t = t} = {i \in DOMAIN s : s[i] \in Of(k, t)}
  BY <1>1 DEF Of
<1>3. CountIn(s, k, t) = Hits(s, Of(k, t))
  BY <1>2 DEF CountIn, Hits
<1>4. QED
  BY <1>3, HitsType

\* The cells of a pre-record list are its frames.
LEMMA PreCellsHits ==
  ASSUME NEW s \in Seq(Times), NEW j \in Kinds, NEW k \in Kinds, NEW t \in Times
  PROVE  /\ PreCells(j, s) \in Seq(Cells) /\ Len(PreCells(j, s)) = Len(s)
         /\ \A i \in 1 .. Len(s) : PreCells(j, s)[i] = Cell(j, s[i], FALSE)
         /\ Hits(PreCells(j, s), Of(k, t)) = IF j = k THEN Hits(s, {t}) ELSE 0
<1> DEFINE P == PreCells(j, s)
<1>1. \A i \in 1 .. Len(s) : s[i] \in Times
  OBVIOUS
<1>2. P = [i \in 1 .. Len(s) |-> Cell(j, s[i], FALSE)]
  BY DEF PreCells
<1>3. \A i \in 1 .. Len(s) : P[i] = Cell(j, s[i], FALSE) /\ P[i] \in Cells
  BY <1>1, <1>2 DEF Cell, Cells
<1>4. P \in [1 .. Len(s) -> Cells]
  BY <1>2, <1>3
<1>5. P \in Seq(Cells) /\ Len(P) = Len(s)
  BY <1>4
<1>6. \A i \in 1 .. Len(s) : P[i] \in Of(k, t) <=> j = k /\ s[i] = t
  <2>1. \A i \in 1 .. Len(s) : P[i] \in Slots
    BY <1>3 DEF Slots
  <2>2. ASSUME NEW i \in 1 .. Len(s) PROVE P[i].k = j /\ P[i].t = s[i]
    <3>1. P[i] = [k |-> j, t |-> s[i], pool |-> FALSE]
      BY <1>3 DEF Cell
    <3> HIDE DEF P
    <3>2. QED
      BY <3>1
  <2>3. QED
    BY <2>1, <2>2 DEF Of
<1>7. {i \in DOMAIN P : P[i] \in Of(k, t)} = IF j = k THEN {i \in DOMAIN s : s[i] \in {t}} ELSE {}
  <2>1. DOMAIN P = 1 .. Len(s) /\ DOMAIN s = 1 .. Len(s)
    BY <1>2
  <2> HIDE DEF P
  <2>2. CASE j = k
    <3>1. {i \in DOMAIN P : P[i] \in Of(k, t)} = {i \in DOMAIN s : s[i] \in {t}}
      BY <1>6, <2>1, <2>2
    <3>2. QED
      BY <2>2, <3>1
  <2>3. CASE j # k
    <3>1. {i \in DOMAIN P : P[i] \in Of(k, t)} = {}
      BY <1>6, <2>1, <2>3
    <3>2. QED
      BY <2>3, <3>1
  <2>4. QED
    BY <2>2, <2>3
<1>8. Hits(P, Of(k, t)) = IF j = k THEN Hits(s, {t}) ELSE 0
  BY <1>7, FS_EmptySet DEF Hits
<1>9. QED
  BY <1>3, <1>5, <1>8

\* Of another kind they are none.
LEMMA PreCellsOfKind ==
  ASSUME NEW j \in Kinds, NEW t \in Times
  PROVE  \A s \in Seq(Times) : Hits(PreCells(j, s), Of(j, t)) = Hits(s, {t})
BY PreCellsHits
LEMMA PreCellsOfOther ==
  ASSUME NEW j \in Kinds, NEW k \in Kinds, NEW t \in Times, j # k
  PROVE  \A s \in Seq(Times) : Hits(PreCells(j, s), Of(k, t)) = 0
BY PreCellsHits

\* The counts stay numbers.
LEMMA UnrefType ==
  ASSUME Typed, NEW s \in Seq(Slots)
  PROVE  /\ Unref(s) \in [Kinds -> [Times -> Int]]
         /\ \A k \in Kinds, t \in Times : Unref(s)[k][t] = ref[k][t] - Hits(s, Of(k, t))
<1>1. \A k \in Kinds, t \in Times : CountIn(s, k, t) \in Nat /\ CountIn(s, k, t) = Hits(s, Of(k, t))
  BY CountHits
<1>2. QED
  BY <1>1 DEF Unref, Typed, Frames

-----------------------------------------------------------------------------
(* The types                                                               *)

LEMMA InitTyped == Init => Typed
<1> SUFFICES ASSUME Init PROVE Typed
  OBVIOUS
<1>1. Lists
  BY DEF Init, Lists
<1>2. Frames
  <2>1. \A k \in Kinds : next[k] = 0 /\ MaxT[k] \in Nat /\ cb[k] = "idle"
    BY PreRecordAssumption DEF Init, PreRecordAssumption, Kinds
  <2>2. ref \in [Kinds -> [Times -> Int]] /\ next \in [Kinds -> Nat]
    BY DEF Init
  <2>3. cb \in [Kinds -> {"idle", "pre", "get"}]
    BY DEF Init
  <2>4. QED
    BY <2>1, <2>2, <2>3 DEF Frames
<1>3. Thread
  BY DEF Init, Thread
<1>4. Handle
  <2>1. PICK mode \in Modes :
          h = [en |-> FALSE, reseting |-> FALSE, first |-> TRUE, want |-> FALSE, split |-> FALSE,
               mux |-> FALSE, type |-> "NORMAL", mode |-> mode]
    BY DEF Init
  <2>2. mode \in {"NONE", "SPLIT", "SINGLE"} /\ "NORMAL" \in Types /\ exitFlag = FALSE
    BY PreRecordAssumption DEF Init, PreRecordAssumption, Types
  <2>3. QED
    BY <2>1, <2>2 DEF Handle
<1>5. File
  BY DEF Init, NoFile, File
<1>6. QED
  BY <1>1, <1>2, <1>3, <1>4, <1>5 DEF Typed

\* The frames a callback works on have a number.
LEMMA TimesOfFrames ==
  ASSUME Typed, NEW k \in Kinds
  PROVE  /\ next[k] \in Nat /\ (cb[k] # "idle" => next[k] \in Times)
         /\ (next[k] < MaxT[k] => next[k] \in Times)
         /\ MaxT[k] \in Nat /\ MaxT["v"] \in Nat
<1>1. MaxT["v"] \in Nat /\ MaxT["a"] \in Nat /\ MaxT["a"] <= MaxT["v"]
  BY PreRecordAssumption DEF PreRecordAssumption
<1>2. QED
  BY <1>1 DEF Typed, Frames, Kinds, Times

\* The last and the newest of a pre-record list.
LEMMA KeptList ==
  ASSUME NEW s \in Seq(Times), NEW t \in Times
  PROVE  LET g == Append(s, t) IN
         /\ g \in Seq(Times) /\ g # <<>> /\ Kept(g) \in {g, Tail(g)}
         /\ Kept(g) \in Seq(Times) /\ Len(g) - Len(Kept(g)) \in {0, 1}
         /\ LET lost == SubSeq(g, 1, Len(g) - Len(Kept(g))) IN
            /\ lost \in Seq(Times)
            /\ \A S : Hits(g, S) = Hits(lost, S) + Hits(Kept(g), S)
<1> DEFINE g == Append(s, t)
<1>1. g \in Seq(Times) /\ Len(g) = Len(s) + 1 /\ Len(s) \in Nat
  OBVIOUS
<1> HIDE DEF g
<1>2. g # <<>> /\ Tail(g) \in Seq(Times) /\ Len(Tail(g)) = Len(g) - 1
  BY <1>1
<1>3. SubSeq(g, 1, 0) = <<>>
  BY <1>1
<1>4. SubSeq(g, 1, 1) = <<Head(g)>>
  <2>1. Len(g) >= 1 /\ Head(g) = g[1]
    BY <1>1, <1>2
  <2>2. SubSeq(g, 1, 1) \in Seq(Times) /\ Len(SubSeq(g, 1, 1)) = 1 /\ SubSeq(g, 1, 1)[1] = g[1]
    BY <1>1, <2>1
  <2>3. <<Head(g)>> \in Seq(Times) /\ Len(<<Head(g)>>) = 1 /\ <<Head(g)>>[1] = Head(g)
    BY <1>1, <2>1
  <2>4. \A i \in 1 .. Len(SubSeq(g, 1, 1)) : SubSeq(g, 1, 1)[i] = <<Head(g)>>[i]
    BY <2>1, <2>2, <2>3
  <2>5. QED
    BY <2>2, <2>3, <2>4, SeqEqual
<1>5. Kept(g) \in {g, Tail(g)}
  BY DEF Kept
<1>6. Len(g) - Len(Kept(g)) \in {0, 1} /\ Kept(g) \in Seq(Times)
  BY <1>1, <1>2, <1>5
<1> DEFINE lost == SubSeq(g, 1, Len(g) - Len(Kept(g)))
<1>7. lost \in Seq(Times) /\ \A S : Hits(g, S) = Hits(lost, S) + Hits(Kept(g), S)
  <2>1. CASE Kept(g) = g
    <3>1. lost = <<>>
      BY <1>1, <1>3, <2>1
    <3>2. \A S : Hits(lost, S) = 0 /\ Hits(g, S) \in Nat
      BY <1>1, <3>1, HitsNone, HitsType
    <3>3. <<>> \in Seq(Times)
      OBVIOUS
    <3> HIDE DEF lost
    <3>4. QED
      BY <2>1, <3>1, <3>2, <3>3
  <2>2. CASE Kept(g) = Tail(g)
    <3>1. Len(g) - Len(Kept(g)) = 1
      BY <1>1, <1>2, <2>2
    <3>2. lost = <<Head(g)>> /\ Head(g) \in Times
      BY <1>1, <1>2, <1>4, <3>1
    <3>3. \A S : Hits(g, S) = Hits(<<Head(g)>>, S) + Hits(Tail(g), S)
      BY <1>1, <1>2, HitsHead
    <3>4. <<Head(g)>> \in Seq(Times)
      BY <3>2
    <3> HIDE DEF lost
    <3>5. QED
      BY <2>2, <3>2, <3>3, <3>4
  <2>3. QED
    BY <1>5, <2>1, <2>2
<1>8. QED
  BY <1>1, <1>2, <1>5, <1>6, <1>7 DEF g

\* A sequence that grows at its end.
LEMMA Grown ==
  ASSUME NEW T, NEW s \in Seq(T), NEW c \in T
  PROVE  /\ Append(s, c) \in Seq(T) /\ Append(s, c) # <<>>
         /\ Len(Append(s, c)) = Len(s) + 1
         /\ \A i \in 1 .. Len(s) + 1 : Append(s, c)[i] = IF i <= Len(s) THEN s[i] ELSE c
OBVIOUS

\* A sequence without its first element.
LEMMA Shorter ==
  ASSUME NEW T, NEW s \in Seq(T), s # <<>>
  PROVE  /\ Tail(s) \in Seq(T) /\ Len(Tail(s)) = Len(s) - 1 /\ Len(s) \in Nat /\ Len(s) >= 1
         /\ Head(s) = s[1] /\ s[1] \in T
         /\ \A i \in 1 .. Len(s) - 1 : Tail(s)[i] = s[i + 1]
OBVIOUS

\* The frames taken from a pre-record list.
LEMMA PreCellsType ==
  ASSUME NEW s \in Seq(Times), NEW k \in Kinds
  PROVE  /\ PreCells(k, s) \in Seq(Cells) /\ Len(PreCells(k, s)) = Len(s)
         /\ \A i \in 1 .. Len(s) : PreCells(k, s)[i] = Cell(k, s[i], FALSE)
<1> DEFINE P == PreCells(k, s)
<1>1. P = [i \in 1 .. Len(s) |-> Cell(k, s[i], FALSE)]
  BY DEF PreCells
<1>2. \A i \in 1 .. Len(s) : P[i] = Cell(k, s[i], FALSE) /\ P[i] \in Cells
  BY <1>1 DEF Cell, Cells
<1>3. P \in [1 .. Len(s) -> Cells]
  BY <1>1, <1>2
<1>4. P \in Seq(Cells) /\ Len(P) = Len(s)
  BY <1>3
<1>5. QED
  BY <1>2, <1>4

\* What a cut of a pre-record list leaves and takes.
LEMMA CutType ==
  ASSUME NEW s \in Seq(Times), NEW n \in 0 .. Len(s), NEW k \in Kinds
  PROVE  /\ SubSeq(s, 1, n) \in Seq(Times) /\ SubSeq(s, n + 1, Len(s)) \in Seq(Times)
         /\ PreCells(k, SubSeq(s, 1, n)) \in Seq(Cells)
         /\ PreCells(k, SubSeq(s, n + 1, Len(s))) \in Seq(Cells)
         /\ Len(PreCells(k, SubSeq(s, n + 1, Len(s)))) = Len(s) - n
         /\ \A i \in 1 .. Len(s) - n :
              PreCells(k, SubSeq(s, n + 1, Len(s)))[i] = Cell(k, s[n + i], FALSE)
<1>1. SubSeq(s, 1, n) \in Seq(Times) /\ SubSeq(s, n + 1, Len(s)) \in Seq(Times)
  OBVIOUS
<1>2. /\ Len(SubSeq(s, n + 1, Len(s))) = Len(s) - n
      /\ \A i \in 1 .. Len(s) - n : SubSeq(s, n + 1, Len(s))[i] = s[n + i]
  OBVIOUS
<1>3. PreCells(k, SubSeq(s, 1, n)) \in Seq(Cells)
  BY <1>1, PreCellsType
<1> DEFINE b == SubSeq(s, n + 1, Len(s))
<1> HIDE DEF b
<1>4. /\ PreCells(k, b) \in Seq(Cells) /\ Len(PreCells(k, b)) = Len(b)
      /\ \A i \in 1 .. Len(b) : PreCells(k, b)[i] = Cell(k, b[i], FALSE)
  BY <1>1, PreCellsType DEF b
<1>5. Len(b) = Len(s) - n /\ \A i \in 1 .. Len(s) - n : b[i] = s[n + i]
  BY <1>2 DEF b
<1>6. \A i \in 1 .. Len(s) - n : PreCells(k, b)[i] = Cell(k, s[n + i], FALSE)
  BY <1>4, <1>5
<1>7. QED
  BY <1>1, <1>3, <1>4, <1>5, <1>6 DEF b

\* The sound that comes too late is some of it.
LEMMA LateCount ==
  ASSUME NEW s \in Seq(Times), NEW x
  PROVE  Len(s) - Cardinality({i \in DOMAIN s : s[i] - s[1] >= x}) \in 0 .. Len(s)
<1> DEFINE late == {i \in DOMAIN s : s[i] - s[1] >= x}
<1>1. IsFiniteSet(1 .. Len(s)) /\ Cardinality(1 .. Len(s)) = Len(s) /\ Len(s) \in Nat
  <2>1. Len(s) \in Nat
    OBVIOUS
  <2>2. IsFiniteSet(1 .. Len(s)) /\ Cardinality(1 .. Len(s)) = IF 1 > Len(s) THEN 0 ELSE Len(s) - 1 + 1
    BY <2>1, FS_Interval
  <2>3. QED
    BY <2>1, <2>2
<1>2. late \subseteq 1 .. Len(s)
  OBVIOUS
<1>3. Cardinality(late) \in Nat /\ Cardinality(late) <= Cardinality(1 .. Len(s))
  BY <1>1, <1>2, FS_Subset, FS_CardinalityType
<1> HIDE DEF late
<1>4. Len(s) - Cardinality(late) \in 0 .. Len(s)
  BY <1>1, <1>3
<1>5. QED
  BY <1>4 DEF late

\* The steps that leave the lists alone.
Calm ==
  \/ \E k \in Kinds : Arrive(k)
  \/ CheckExit \/ Look \/ Write \/ CellFree
  \/ Start \/ Stop \/ ManualSplit \/ Reset \/ ResetThread \/ ResetParam \/ Disable
  \/ UNCHANGED vars

\* What a step does to the lists.
LEMMA CalmLists == Calm => procList' = procList /\ preList' = preList
BY DEF Calm, Arrive, CheckExit, Look, Write, CellFree, Start, Stop, ManualSplit, Reset,
       ResetThread, ResetParam, Disable, vars

LEMMA NextLists == Typed /\ Stages /\ [Next]_vars => Lists'
<1> SUFFICES ASSUME Typed, Stages, [Next]_vars PROVE Lists'
  OBVIOUS
<1>1. /\ procList \in Seq(Cells) /\ DOMAIN preList = Kinds
      /\ \A k \in Kinds : preList[k] \in Seq(Times)
      /\ thr.pc \in {"audio", "first"} => procList # <<>>
  BY DEF Typed, Lists
<1>2. ASSUME NEW k \in Kinds, PreRecPush(k) PROVE Lists'
  <2>1. next[k] \in Times
    BY <1>2, TimesOfFrames DEF PreRecPush
  <2>2. procList' = procList /\ thr' = thr
    BY <1>2 DEF PreRecPush
  <2>3. PICK x : /\ preList' = [preList EXCEPT ![k] = x]
                 /\ x = Kept(Append(preList[k], next[k])) \/ x = <<>>
    BY <1>2 DEF PreRecPush
  <2>4. Kept(Append(preList[k], next[k])) \in Seq(Times)
    BY <1>1, <2>1, KeptList
  <2>5. x \in Seq(Times)
    <3>1. <<>> \in Seq(Times)
      OBVIOUS
    <3>2. QED
      BY <2>3, <2>4, <3>1
  <2>6. DOMAIN preList' = Kinds /\ \A j \in Kinds : preList'[j] \in Seq(Times)
    BY <1>1, <2>3, <2>5
  <2>7. QED
    BY <1>1, <2>2, <2>6 DEF Lists
<1>3. ASSUME NEW k \in Kinds, CellPush(k) PROVE Lists'
  <2>1. Cell(k, next[k], TRUE) \in Cells
    BY <1>3, TimesOfFrames DEF CellPush, Cell, Cells
  <2>2. procList' = Append(procList, Cell(k, next[k], TRUE)) /\ preList' = preList /\ thr' = thr
    BY <1>3 DEF CellPush, Push
  <2>3. procList' \in Seq(Cells) /\ procList' # <<>>
    <3>1. /\ Append(procList, Cell(k, next[k], TRUE)) \in Seq(Cells)
          /\ Append(procList, Cell(k, next[k], TRUE)) # <<>>
      BY <1>1, <2>1, Grown
    <3>2. QED
      BY <2>2, <3>1
  <2>4. QED
    BY <1>1, <2>2, <2>3 DEF Lists
<1>4. CASE CellPop \/ TakeFirst
  <2>1. /\ procList # <<>> /\ procList' = Tail(procList) /\ preList' = preList
        /\ thr'.pc \in {"look", "begin"}
    BY <1>1, <1>4 DEF CellPop, TakeFirst, Typed, Thread
  <2>2. procList' \in Seq(Cells)
    BY <1>1, <2>1
  <2>3. QED
    BY <1>1, <2>1, <2>2 DEF Lists
<1>5. CASE ReleaseProc
  <2>1. procList' = <<>> /\ preList' = preList /\ thr'.pc = "video"
    BY <1>5 DEF ReleaseProc, Typed, Thread
  <2>2. QED
    BY <1>1, <2>1 DEF Lists
<1>6. CASE TakeVideo
  <2>1. PICK n \in BeforeKey(preList["v"]) :
          /\ procList' = procList \o PreCells("v", SubSeq(preList["v"], n + 1, Len(preList["v"])))
          /\ thr'.pc = IF n = Len(preList["v"]) THEN "begin" ELSE "audio"
    BY <1>6 DEF TakeVideo, Typed, Thread
  <2>2. preList' = [preList EXCEPT !["v"] = <<>>]
    BY <1>6 DEF TakeVideo
  <2>3. n \in 0 .. Len(preList["v"]) /\ preList["v"] \in Seq(Times) /\ "v" \in Kinds
    BY <1>1 DEF BeforeKey, Kinds
  <2>4. /\ PreCells("v", SubSeq(preList["v"], n + 1, Len(preList["v"]))) \in Seq(Cells)
        /\ Len(PreCells("v", SubSeq(preList["v"], n + 1, Len(preList["v"])))) = Len(preList["v"]) - n
    BY <2>3, CutType
  <2>5. procList' \in Seq(Cells)
    BY <1>1, <2>1, <2>4
  <2>6. thr'.pc = "audio" => procList' # <<>>
    BY <1>1, <2>1, <2>3, <2>4
  <2>7. QED
    BY <1>1, <2>1, <2>2, <2>5, <2>6 DEF Lists
<1>7. CASE TakeAudio
  <2>1. PICK n :
          /\ n = Len(preList["a"])
                 - Cardinality({i \in DOMAIN preList["a"] : preList["a"][i] - preList["a"][1] >= thr.seek})
          /\ procList' = procList \o PreCells("a", SubSeq(preList["a"], n + 1, Len(preList["a"])))
    BY <1>7 DEF TakeAudio
  <2>2. preList' = [preList EXCEPT !["a"] = <<>>] /\ procList # <<>> /\ thr'.pc = "first"
    BY <1>1, <1>7 DEF TakeAudio, Typed, Thread
  <2>3. n \in 0 .. Len(preList["a"]) /\ preList["a"] \in Seq(Times) /\ "a" \in Kinds
    BY <1>1, <2>1, LateCount DEF Kinds
  <2>4. PreCells("a", SubSeq(preList["a"], n + 1, Len(preList["a"]))) \in Seq(Cells)
    BY <2>3, CutType
  <2>5. procList' \in Seq(Cells) /\ procList' # <<>>
    BY <1>1, <2>1, <2>2, <2>4
  <2>6. QED
    BY <1>1, <2>2, <2>5 DEF Lists
<1>8. CASE ResetRelease \/ DisableRelease
  <2>1. /\ procList' = <<>> /\ preList' = [k \in Kinds |-> <<>>]
        /\ thr' = thr /\ thr.pc \notin {"audio", "first"}
    BY <1>8 DEF ResetRelease, DisableRelease, ReleaseAll, Stages
  <2>2. QED
    BY <2>1 DEF Lists
<1>9. CASE Calm
  <2>1. procList' = procList /\ preList' = preList
    BY <1>9, CalmLists
  <2>2. thr'.pc \in {"audio", "first"} => thr.pc = thr'.pc
    BY <1>9 DEF Calm, Arrive, CheckExit, Look, Write, CellFree, Start, Stop, ManualSplit, Reset,
                ResetThread, ResetParam, Disable, vars, Typed, Thread
  <2>3. QED
    BY <1>1, <2>1, <2>2 DEF Lists
<1>10. QED
  BY <1>2, <1>3, <1>4, <1>5, <1>6, <1>7, <1>8, <1>9 DEF Next, Calm

\* The cell in hand and the lists are counted like any others.
LEMMA OfSlots ==
  ASSUME Typed
  PROVE  /\ procList \in Seq(Slots) /\ <<thr.cell>> \in Seq(Slots) /\ thr.cell \in Slots
         /\ \A s \in Seq(Cells) : s \in Seq(Slots)
<1>1. procList \in Seq(Cells) /\ thr.cell \in Slots
  BY DEF Typed, Lists, Thread, Slots
<1>2. \A s \in Seq(Cells) : s \in Seq(Slots)
  <2>1. Cells \subseteq Slots
    BY DEF Slots
  <2>2. QED
    BY <2>1
<1>3. QED
  BY <1>1, <1>2

\* What the callback does to its pre-record list and to the counts.
LEMMA PushValues ==
  ASSUME Typed, NEW k \in Kinds, PreRecPush(k)
  PROVE  \E lost, kept \in Seq(Times), taken \in {0, 1} :
           /\ preList' = [preList EXCEPT ![k] = kept]
           /\ ref' = [Unref(PreCells(k, lost)) EXCEPT ![k][next[k]] =
                        Unref(PreCells(k, lost))[k][next[k]] + taken - (IF h.en THEN 0 ELSE 1)]
           /\ kept = <<>> \/ kept \in {Append(preList[k], next[k]), Tail(Append(preList[k], next[k]))}
           /\ \A S : Hits(preList[k], S) + (IF next[k] \in S THEN taken ELSE 0)
                       = Hits(lost, S) + Hits(kept, S)
<1> DEFINE s == preList[k]
           t == next[k]
           g == Append(s, t)
           d == IF h.en THEN 0 ELSE 1
<1>1. s \in Seq(Times) /\ t \in Times
  BY TimesOfFrames DEF PreRecPush, Typed, Lists
<1>2. CASE h.type = "NORMAL"
  <2> DEFINE lost == SubSeq(g, 1, Len(g) - Len(Kept(g)))
  <2>1. /\ preList' = [preList EXCEPT ![k] = Kept(g)]
        /\ ref' = [Unref(PreCells(k, lost)) EXCEPT ![k][t] = Unref(PreCells(k, lost))[k][t] + 1 - d]
    BY <1>2 DEF PreRecPush
  <2>2. /\ Kept(g) \in Seq(Times) /\ lost \in Seq(Times) /\ Kept(g) \in {g, Tail(g)}
        /\ \A S : Hits(g, S) = Hits(lost, S) + Hits(Kept(g), S)
    BY <1>1, KeptList
  <2>3. \A S : Hits(g, S) = Hits(s, S) + (IF t \in S THEN 1 ELSE 0)
    BY <1>1, HitsAppend
  <2>4. \A S : Hits(s, S) + (IF t \in S THEN 1 ELSE 0) = Hits(lost, S) + Hits(Kept(g), S)
    BY <2>2, <2>3
  <2> HIDE DEF lost
  <2>5. QED
    BY <2>1, <2>2, <2>4
<1>3. CASE h.type # "NORMAL"
  <2>1. /\ preList' = [preList EXCEPT ![k] = <<>>]
        /\ ref' = [Unref(PreCells(k, s)) EXCEPT ![k][t] = Unref(PreCells(k, s))[k][t] + 0 - d]
    BY <1>3 DEF PreRecPush
  <2>2. \A S : Hits(<<>>, S) = 0 /\ Hits(s, S) \in Nat
    BY <1>1, HitsNone, HitsType
  <2>3. <<>> \in Seq(Times)
    OBVIOUS
  <2>4. \A S : Hits(s, S) + (IF t \in S THEN 0 ELSE 0) = Hits(s, S) + Hits(<<>>, S)
    BY <2>2
  <2>5. QED
    BY <1>1, <2>1, <2>3, <2>4
<1>4. QED
  BY <1>2, <1>3

\* The counts and the callbacks after a step.
LEMMA NextFrames == Typed /\ Stages /\ [Next]_vars => Frames'
<1> SUFFICES ASSUME Typed, Stages, [Next]_vars PROVE Frames'
  OBVIOUS
<1>1. /\ ref \in [Kinds -> [Times -> Int]]
      /\ cb \in [Kinds -> {"idle", "pre", "get"}] /\ next \in [Kinds -> Nat]
      /\ \A k \in Kinds : next[k] <= MaxT[k] /\ (cb[k] # "idle" => next[k] < MaxT[k])
  BY DEF Typed, Frames
<1>2. \A k \in Kinds : MaxT[k] \in Nat
  BY TimesOfFrames
<1>3. ASSUME NEW k \in Kinds, Arrive(k) PROVE Frames'
  <2>1. CASE h.reseting
    <3>1. next' = [next EXCEPT ![k] = next[k] + 1] /\ cb' = cb /\ ref' = ref
          /\ cb[k] = "idle" /\ next[k] < MaxT[k]
      BY <1>3, <2>1 DEF Arrive
    <3>2. QED
      BY <1>1, <1>2, <3>1 DEF Frames
  <2>2. CASE ~h.reseting
    <3>1. /\ next' = next /\ cb' = [cb EXCEPT ![k] = "pre"]
          /\ ref' = [ref EXCEPT ![k][next[k]] = 1] /\ next[k] < MaxT[k]
      BY <1>3, <2>2 DEF Arrive
    <3>2. QED
      <4>1. next[k] \in Times
        BY <3>1, TimesOfFrames
      <4>2. ref' \in [Kinds -> [Times -> Int]]
        BY <1>1, <3>1, <4>1
      <4>3. cb' \in [Kinds -> {"idle", "pre", "get"}]
        BY <1>1, <3>1
      <4>4. \A j \in Kinds : next'[j] <= MaxT[j] /\ (cb'[j] # "idle" => next'[j] < MaxT[j])
        BY <1>1, <3>1
      <4>5. QED
        BY <1>1, <3>1, <4>2, <4>3, <4>4 DEF Frames
  <2>3. QED
    BY <2>1, <2>2
<1>4. ASSUME NEW k \in Kinds, PreRecPush(k) PROVE Frames'
  <2>1. next[k] \in Times /\ next[k] < MaxT[k]
    BY <1>1, <1>4, TimesOfFrames DEF PreRecPush
  <2>2. PICK lost \in Seq(Times), kept \in Seq(Times), taken \in {0, 1} :
          ref' = [Unref(PreCells(k, lost)) EXCEPT ![k][next[k]] =
                   Unref(PreCells(k, lost))[k][next[k]] + taken - (IF h.en THEN 0 ELSE 1)]
    BY <1>4, PushValues
  <2>5. Unref(PreCells(k, lost)) \in [Kinds -> [Times -> Int]]
    BY PreCellsType, OfSlots, UnrefType
  <2>6. ref' \in [Kinds -> [Times -> Int]]
    BY <2>1, <2>2, <2>5
  <2>7. /\ cb' = [cb EXCEPT ![k] = IF h.en THEN "get" ELSE "idle"]
        /\ next' = [next EXCEPT ![k] = IF h.en THEN @ ELSE @ + 1]
    BY <1>4 DEF PreRecPush
  <2>8. QED
    BY <1>1, <1>2, <2>1, <2>6, <2>7 DEF Frames
<1>5. ASSUME NEW k \in Kinds, CellPush(k) PROVE Frames'
  <2>1. /\ ref' = ref /\ cb' = [cb EXCEPT ![k] = "idle"] /\ next' = [next EXCEPT ![k] = @ + 1]
        /\ cb[k] = "get"
    BY <1>5 DEF CellPush
  <2>2. QED
    BY <1>1, <1>2, <2>1 DEF Frames
<1>6. ASSUME NEW s \in Seq(Slots), ref' = Unref(s), cb' = cb, next' = next PROVE Frames'
  BY <1>1, <1>6, UnrefType DEF Frames
<1>7. CASE ReleaseProc
  BY <1>6, <1>7, OfSlots DEF ReleaseProc
<1>8. CASE TakeFirst \/ Write \/ CellFree
  BY <1>6, <1>8, OfSlots DEF TakeFirst, Write, CellFree
<1>9. CASE TakeVideo
  <2>1. PICK n \in BeforeKey(preList["v"]) : ref' = Unref(PreCells("v", SubSeq(preList["v"], 1, n)))
    BY <1>9 DEF TakeVideo
  <2>2. n \in 0 .. Len(preList["v"]) /\ preList["v"] \in Seq(Times) /\ "v" \in Kinds
    BY DEF BeforeKey, Kinds, Typed, Lists
  <2>3. PreCells("v", SubSeq(preList["v"], 1, n)) \in Seq(Cells)
    BY <2>2, CutType
  <2>4. cb' = cb /\ next' = next
    BY <1>9 DEF TakeVideo
  <2>5. QED
    BY <1>6, <2>1, <2>3, <2>4, OfSlots
<1>10. CASE TakeAudio
  <2>1. PICK n : /\ n = Len(preList["a"])
                   - Cardinality({i \in DOMAIN preList["a"] : preList["a"][i] - preList["a"][1] >= thr.seek})
                 /\ ref' = Unref(PreCells("a", SubSeq(preList["a"], 1, n)))
    BY <1>10 DEF TakeAudio
  <2>2. preList["a"] \in Seq(Times) /\ "a" \in Kinds
    BY DEF Kinds, Typed, Lists
  <2>3. n \in 0 .. Len(preList["a"])
    BY <2>1, <2>2, LateCount
  <2>4. PreCells("a", SubSeq(preList["a"], 1, n)) \in Seq(Cells)
    BY <2>2, <2>3, CutType
  <2>5. cb' = cb /\ next' = next
    BY <1>10 DEF TakeAudio
  <2>6. QED
    BY <1>6, <2>1, <2>4, <2>5, OfSlots
<1>11. CASE ResetRelease \/ DisableRelease
  <2>1. ref' = Unref(procList \o PreCells("v", preList["v"]) \o PreCells("a", preList["a"]))
        /\ cb' = cb /\ next' = next
    BY <1>11 DEF ResetRelease, DisableRelease, ReleaseAll
  <2>2. /\ procList \in Seq(Cells) /\ PreCells("v", preList["v"]) \in Seq(Cells)
        /\ PreCells("a", preList["a"]) \in Seq(Cells)
    BY PreCellsType DEF Typed, Lists, Kinds
  <2>3. procList \o PreCells("v", preList["v"]) \o PreCells("a", preList["a"]) \in Seq(Cells)
    BY <2>2
  <2>4. QED
    BY <1>6, <2>1, <2>3, OfSlots
<1>12. CASE UNCHANGED <<ref, cb, next>>
  BY <1>1, <1>12 DEF Frames
<1>13. QED
  BY <1>3, <1>4, <1>5, <1>7, <1>8, <1>9, <1>10, <1>11, <1>12
     DEF Next, CellPop, CheckExit, Look, Start, Stop, ManualSplit, Reset, ResetThread, ResetParam,
         Disable, vars

\* The muxer thread looks at a cell: what it closes and where it goes.
LEMMA LookValues ==
  ASSUME Typed, Look
  PROVE  /\ h'.en = h.en /\ h'.reseting = h.reseting /\ h'.type = h.type /\ h'.mode = h.mode
         /\ h' \in [en : BOOLEAN, reseting : BOOLEAN, first : BOOLEAN, want : BOOLEAN,
                     split : BOOLEAN, mux : BOOLEAN, type : Types, mode : {"NONE", "SPLIT", "SINGLE"}]
         /\ h'.mux => h.mux
         /\ thr'.cell = thr.cell /\ thr'.seek = thr.seek /\ thr.pc = "look"
         /\ thr' = [thr EXCEPT !.pc = thr'.pc]
         /\ thr'.pc \in {"write", "free", "release", "begin"}
         /\ thr'.pc # "free" => h.en
         /\ thr'.pc = "write" => h'.mux
         /\ thr'.pc = "free" => ~h.en \/ ~h'.mux
         /\ thr'.pc \in {"release", "begin"} => ~h'.mux /\ IsKey(thr.cell)
         /\ thr'.pc = "release" => Len(preList["v"]) >= Rate
         /\ thr'.pc \in {"write", "free"} => file' = file
         /\ thr'.pc \in {"release", "begin"} =>
              file' = [NoFile EXCEPT !.stopped = file.stopped, !.late = file.late]
<1> DEFINE x == CheckEnd(thr.cell)
<1>1. /\ h \in [en : BOOLEAN, reseting : BOOLEAN, first : BOOLEAN, want : BOOLEAN,
                 split : BOOLEAN, mux : BOOLEAN, type : Types, mode : {"NONE", "SPLIT", "SINGLE"}]
      /\ DOMAIN thr = {"pc", "cell", "seek"}
  BY DEF Typed, Handle, Thread
<1>2. /\ x \in [en : BOOLEAN, reseting : BOOLEAN, first : BOOLEAN, want : BOOLEAN,
                 split : BOOLEAN, mux : BOOLEAN, type : Types, mode : {"NONE", "SPLIT", "SINGLE"}]
      /\ x.en = h.en /\ x.reseting = h.reseting /\ x.type = h.type /\ x.mode = h.mode
      /\ x.mux => h.mux
  BY <1>1 DEF CheckEnd, Closed
<1> HIDE DEF x
<1>3. CASE ~h.en
  <2>1. h' = h /\ thr' = [thr EXCEPT !.pc = "free"] /\ file' = file /\ thr.pc = "look"
    BY <1>3 DEF Look
  <2>2. QED
    BY <1>1, <1>3, <2>1
<1>4. CASE h.en /\ x.mux
  <2>1. h' = x /\ thr' = [thr EXCEPT !.pc = "write"] /\ file' = file /\ thr.pc = "look"
    BY <1>4 DEF Look, x
  <2>2. QED
    BY <1>1, <1>2, <1>4, <2>1
<1>5. CASE h.en /\ ~x.mux /\ ~IsKey(thr.cell)
  <2>1. h' = x /\ thr' = [thr EXCEPT !.pc = "free"] /\ file' = file /\ thr.pc = "look"
    BY <1>5 DEF Look, x
  <2>2. QED
    BY <1>1, <1>2, <1>5, <2>1
<1>6. CASE h.en /\ ~x.mux /\ IsKey(thr.cell)
  <2>1. /\ h' = x /\ thr' = [thr EXCEPT !.pc = IF TakesLists(x) THEN "release" ELSE "begin"]
        /\ file' = [NoFile EXCEPT !.stopped = file.stopped, !.late = file.late] /\ thr.pc = "look"
    BY <1>6 DEF Look, x
  <2>2. TakesLists(x) => Len(preList["v"]) >= Rate
    BY DEF TakesLists
  <2>3. QED
    BY <1>1, <1>2, <1>6, <2>1, <2>2
<1>7. QED
  BY <1>1, <1>3, <1>4, <1>5, <1>6

\* Frames are numbered from zero: no frame is NoCell.
LEMMA NoCellIsNone == NoCell \notin Cells /\ \A c \in Cells : c # NoCell
BY TimesOfFrames DEF NoCell, Cell, Cells, Times

\* The thread after a step.
LEMMA NextThread == Typed /\ Stages /\ [Next]_vars => Thread'
<1> SUFFICES ASSUME Typed, Stages, [Next]_vars PROVE Thread'
  OBVIOUS
<1>1. /\ thr \in [pc : Opening \cup {"pop", "look", "write", "free", "dead"},
                   cell : Cells \cup {NoCell}, seek : Int]
      /\ thr.cell = NoCell <=> thr.pc \in {"pop", "dead"}
  BY DEF Typed, Thread
<1>2. CASE CellPop \/ TakeFirst
  <2>1. procList # <<>> /\ procList \in Seq(Cells)
    BY <1>2 DEF CellPop, TakeFirst, Typed, Lists
  <2>2. Head(procList) \in Cells /\ Head(procList) # NoCell
    BY <2>1, NoCellIsNone
  <2>3. thr'.pc \in {"look", "begin"} /\ thr' = [thr EXCEPT !.cell = Head(procList), !.pc = thr'.pc]
    BY <1>1, <1>2 DEF CellPop, TakeFirst
  <2>4. QED
    BY <1>1, <2>2, <2>3 DEF Thread, Opening
<1>3. CASE TakeVideo
  <2>1. PICK n \in BeforeKey(preList["v"]) :
          thr' = [thr EXCEPT !.pc = IF n = Len(preList["v"]) THEN "begin" ELSE "audio",
                             !.seek = IF n = Len(preList["v"]) THEN 0
                                      ELSE preList["v"][n + 1] - preList["v"][1]]
    BY <1>3 DEF TakeVideo
  <2>2. preList["v"] \in Seq(Times) /\ n \in 0 .. Len(preList["v"])
    BY DEF Typed, Lists, Kinds, BeforeKey
  <2>3. n # Len(preList["v"]) => preList["v"][n + 1] - preList["v"][1] \in Int
    <3>1. n # Len(preList["v"]) => n + 1 \in 1 .. Len(preList["v"]) /\ 1 \in 1 .. Len(preList["v"])
      BY <2>2
    <3>2. n # Len(preList["v"]) => preList["v"][n + 1] \in Times /\ preList["v"][1] \in Times
      BY <2>2, <3>1
    <3>3. QED
      BY <3>2 DEF Times
  <2>4. thr.pc = "video"
    BY <1>3 DEF TakeVideo
  <2> DEFINE p == IF n = Len(preList["v"]) THEN "begin" ELSE "audio"
             q == IF n = Len(preList["v"]) THEN 0 ELSE preList["v"][n + 1] - preList["v"][1]
  <2>5. thr' = [thr EXCEPT !.pc = p, !.seek = q] /\ p \in {"begin", "audio"} /\ q \in Int
    BY <2>1, <2>3
  <2> HIDE DEF p, q
  <2>6. thr' = [pc |-> p, cell |-> thr.cell, seek |-> q]
    BY <1>1, <2>5
  <2>7. thr.cell \in Cells \cup {NoCell} /\ thr.cell # NoCell
    BY <1>1, <2>4
  <2>8. QED
    BY <2>5, <2>6, <2>7 DEF Thread, Opening
<1>4. CASE Look
  <2>1. thr' = [thr EXCEPT !.pc = thr'.pc] /\ thr.pc = "look"
        /\ thr'.pc \in {"write", "free", "release", "begin"}
    BY <1>4, LookValues
  <2>2. QED
    BY <1>1, <2>1 DEF Thread, Opening
<1>5. CASE CheckExit \/ ReleaseProc \/ ResetThread
  <2>1. /\ thr' = [thr EXCEPT !.pc = thr'.pc]
        /\ \/ thr.pc \in {"pop", "dead"} /\ thr'.pc \in {"pop", "dead"}
           \/ thr.pc = "release" /\ thr'.pc = "video"
    BY <1>1, <1>5 DEF CheckExit, ReleaseProc, ResetThread
  <2>2. QED
    BY <1>1, <2>1 DEF Thread, Opening
<1>6. CASE TakeAudio
  <2>1. thr' = [thr EXCEPT !.pc = "first", !.seek = 0] /\ thr.pc = "audio"
    BY <1>6 DEF TakeAudio
  <2>2. thr' = [pc |-> "first", cell |-> thr.cell, seek |-> 0]
    BY <1>1, <2>1
  <2>3. thr.cell \in Cells \cup {NoCell} /\ thr.cell # NoCell
    BY <1>1, <2>1
  <2>4. QED
    BY <2>2, <2>3 DEF Thread, Opening
<1>7. CASE Write \/ CellFree
  <2>1. thr' = [thr EXCEPT !.cell = NoCell, !.pc = "pop"]
    BY <1>7 DEF Write, CellFree
  <2>2. QED
    BY <1>1, <2>1 DEF Thread, Opening
<1>8. CASE UNCHANGED thr
  BY <1>1, <1>8 DEF Thread
<1>9. QED
  BY <1>2, <1>3, <1>4, <1>5, <1>6, <1>7, <1>8
     DEF Next, Arrive, PreRecPush, CellPush, Start, Stop, ManualSplit, Reset, ResetRelease,
         ResetParam, Disable, DisableRelease, vars

\* The handle after a step.
LEMMA NextHandle == Typed /\ Stages /\ [Next]_vars => Handle'
<1> SUFFICES ASSUME Typed, Stages, [Next]_vars PROVE Handle'
  OBVIOUS
<1>1. CASE CheckExit
  BY <1>1 DEF CheckExit, Closed, Typed, Handle
<1>2. CASE Look
  <2>1. exitFlag' = exitFlag
    BY <1>2 DEF Look
  <2>2. QED
    BY <1>2, <2>1, LookValues DEF Typed, Handle
<1>3. CASE Write
  BY <1>3 DEF Write, Typed, Handle
<1>4. CASE Start \/ Stop \/ Reset \/ Disable
  BY <1>4 DEF Start, Stop, Reset, Disable, Stopped, Typed, Handle
<1>5. CASE ManualSplit
  BY <1>5 DEF ManualSplit, Typed, Handle
<1>6. CASE ResetParam
  BY <1>6 DEF ResetParam, Typed, Handle
<1>7. CASE ResetThread
  BY <1>7 DEF ResetThread, Typed, Handle
<1>8. CASE UNCHANGED <<h, exitFlag>>
  BY <1>8 DEF Typed, Handle
<1>9. QED
  BY <1>1, <1>2, <1>3, <1>4, <1>5, <1>6, <1>7, <1>8
     DEF Next, Arrive, PreRecPush, CellPush, CellPop, ReleaseProc, TakeVideo, TakeAudio, TakeFirst,
         CellFree, ResetRelease, DisableRelease, vars

\* The file after a step.
LEMMA NextFile == Typed /\ Stages /\ [Next]_vars => File'
<1> SUFFICES ASSUME Typed, Stages, [Next]_vars PROVE File'
  OBVIOUS
<1>1. CASE CheckExit
  BY <1>1 DEF CheckExit, NoneBetween, Typed, File
<1>2. CASE Look
  <2>1. apart' = apart
    BY <1>2 DEF Look
  <2>2. file' = file \/ file' = [NoFile EXCEPT !.stopped = file.stopped, !.late = file.late]
    BY <1>2, LookValues
  <2>3. NoFile \in [last : [Kinds -> Times \cup {-1}], start : Int, inOrder : BOOLEAN,
                    whole : BOOLEAN, spoilt : BOOLEAN, stopped : BOOLEAN, late : BOOLEAN]
    BY DEF NoFile
  <2>4. QED
    BY <2>1, <2>2, <2>3 DEF Typed, File
<1>3. CASE Write
  <2> DEFINE c == thr.cell
             judged == apart /\ ~file.spoilt
             whole  == judged /\ ~file.stopped /\ ~file.late
             begun  == IF thr.pc = "begin" THEN c.t ELSE file.start
             top    == IF c.t > file.last[c.k] THEN c.t ELSE file.last[c.k]
             ord    == file.inOrder /\ (judged => c.t > file.last[c.k] /\ (file.last["v"] = -1 => IsKey(c)))
             all    == file.whole /\ (whole /\ c.k = "v" /\ file.last[c.k] # -1 => c.t <= file.last[c.k] + 1)
  <2>1. file' = [file EXCEPT !.start = begun, !.last[c.k] = top, !.spoilt = ~judged,
                             !.inOrder = ord, !.whole = all] /\ apart' = apart
    BY <1>3 DEF Write
  <2>2. c.k \in Kinds /\ c.t \in Times /\ Times \subseteq Int
    BY <1>3 DEF Write, Typed, Thread, Cells, Times
  <2>3. begun \in Int /\ top \in Times \cup {-1} /\ ord \in BOOLEAN /\ all \in BOOLEAN /\ judged \in BOOLEAN
    BY <2>2 DEF Typed, File
  <2> HIDE DEF c, judged, whole, begun, top, ord, all
  <2>4. QED
    BY <2>1, <2>2, <2>3 DEF Typed, File
<1>4. CASE Stop \/ Reset
  BY <1>4 DEF Stop, Reset, Typed, File
<1>5. CASE ResetRelease
  BY <1>5 DEF ResetRelease, Typed, File
<1>6. CASE ReleaseProc \/ TakeVideo \/ TakeAudio
  BY <1>6 DEF ReleaseProc, TakeVideo, TakeAudio, NoneBetween, Typed, File
<1>7. CASE UNCHANGED <<file, apart>>
  BY <1>7 DEF Typed, File
<1>8. QED
  BY <1>1, <1>2, <1>3, <1>4, <1>5, <1>6, <1>7
     DEF Next, Arrive, PreRecPush, CellPush, CellPop, TakeFirst, CellFree, Start, ManualSplit,
         ResetThread, ResetParam, Disable, DisableRelease, vars

\* Where everybody is after a step.
LEMMA NextStages == Typed /\ Stages /\ [Next]_vars => Stages'
<1> SUFFICES ASSUME Typed, Stages, [Next]_vars PROVE Stages'
  OBVIOUS
<1> USE DEF Stages, Leaving
<1>1. ASSUME NEW k \in Kinds, Arrive(k) PROVE Stages'
  BY <1>1 DEF Arrive, Typed, Frames
<1>2. ASSUME NEW k \in Kinds, PreRecPush(k) PROVE Stages'
  BY <1>2 DEF PreRecPush, Typed, Frames
<1>3. ASSUME NEW k \in Kinds, CellPush(k) PROVE Stages'
  BY <1>3 DEF CellPush, Typed, Frames
<1>4. CASE CellPop \/ ReleaseProc \/ TakeAudio \/ TakeFirst \/ CellFree
  <2>1. /\ \/ thr.pc = "pop" /\ thr'.pc = "look"
           \/ thr.pc = "release" /\ thr'.pc = "video"
           \/ thr.pc = "audio" /\ thr'.pc = "first"
           \/ thr.pc = "first" /\ thr'.pc = "begin"
           \/ thr.pc = "free" /\ thr'.pc = "pop"
        /\ UNCHANGED <<h, cb, exitFlag, app>>
    BY <1>4 DEF CellPop, ReleaseProc, TakeAudio, TakeFirst, CellFree, Typed, Thread
  <2>2. QED
    BY <2>1
<1>5. CASE TakeVideo
  <2>1. thr'.pc \in {"begin", "audio"} /\ thr.pc = "video"
    BY <1>5 DEF TakeVideo, Typed, Thread
  <2>2. QED
    BY <1>5, <2>1 DEF TakeVideo
<1>6. CASE CheckExit
  BY <1>6 DEF CheckExit, Closed, Typed, Thread, Handle
<1>7. CASE Look
  <2>1. UNCHANGED <<cb, exitFlag, app>>
    BY <1>7 DEF Look
  <2>2. QED
    BY <1>7, <2>1, LookValues
<1>8. CASE Write
  BY <1>8 DEF Write, Typed, Thread, Handle
<1>9. CASE Start \/ Stop \/ ManualSplit \/ Reset
  <2>1. CASE Start
    BY <2>1 DEF Start, Op, Typed, Handle
  <2>2. CASE Stop
    BY <2>2 DEF Stop, Stopped, Op, Typed, Handle
  <2>3. CASE ManualSplit
    BY <2>3 DEF ManualSplit, Op, Typed, Handle
  <2>4. CASE Reset
    BY <2>4 DEF Reset, Stopped, Op, Typed, Handle
  <2>5. QED
    BY <1>9, <2>1, <2>2, <2>3, <2>4
<1>10. CASE ResetThread
  BY <1>10 DEF ResetThread, Typed, Thread
<1>11. CASE ResetRelease \/ DisableRelease
  BY <1>11 DEF ResetRelease, DisableRelease
<1>12. CASE ResetParam
  BY <1>12 DEF ResetParam, Typed, Handle
<1>13. CASE Disable
  BY <1>13 DEF Disable, Op, Typed, Handle
<1>14. CASE UNCHANGED vars
  BY <1>14 DEF vars
<1>15. QED
  BY <1>1, <1>2, <1>3, <1>4, <1>5, <1>6, <1>7, <1>8, <1>9, <1>10, <1>11, <1>12, <1>13, <1>14 DEF Next

\* What the thread takes from the pictures.
LEMMA TakeVideoValues ==
  ASSUME Typed, TakeVideo
  PROVE  \E n \in 0 .. Len(preList["v"]) :
           /\ \A i \in 1 .. n : preList["v"][i] % Gop # 0
           /\ n < Len(preList["v"]) => preList["v"][n + 1] % Gop = 0
           /\ ref' = Unref(PreCells("v", SubSeq(preList["v"], 1, n)))
           /\ procList' = procList \o PreCells("v", SubSeq(preList["v"], n + 1, Len(preList["v"])))
           /\ procList' \in Seq(Cells) /\ Len(procList') = Len(procList) + (Len(preList["v"]) - n)
           /\ \A i \in 1 .. Len(procList) + (Len(preList["v"]) - n) :
                procList'[i] = IF i <= Len(procList) THEN procList[i]
                               ELSE Cell("v", preList["v"][n + (i - Len(procList))], FALSE)
           /\ thr'.pc = IF n = Len(preList["v"]) THEN "begin" ELSE "audio"
           /\ thr'.cell = thr.cell
<1>1. preList["v"] \in Seq(Times) /\ procList \in Seq(Cells) /\ DOMAIN thr = {"pc", "cell", "seek"}
  BY DEF Typed, Lists, Thread, Kinds
<1>2. PICK n \in BeforeKey(preList["v"]) :
        /\ ref' = Unref(PreCells("v", SubSeq(preList["v"], 1, n)))
        /\ procList' = procList \o PreCells("v", SubSeq(preList["v"], n + 1, Len(preList["v"])))
        /\ thr' = [thr EXCEPT !.pc = IF n = Len(preList["v"]) THEN "begin" ELSE "audio",
                              !.seek = IF n = Len(preList["v"]) THEN 0
                                       ELSE preList["v"][n + 1] - preList["v"][1]]
  BY DEF TakeVideo
<1>3. /\ n \in 0 .. Len(preList["v"])
      /\ \A i \in 1 .. n : preList["v"][i] % Gop # 0
      /\ n < Len(preList["v"]) => preList["v"][n + 1] % Gop = 0
  BY DEF BeforeKey
<1> DEFINE P == PreCells("v", SubSeq(preList["v"], n + 1, Len(preList["v"])))
<1>4. /\ P \in Seq(Cells) /\ Len(P) = Len(preList["v"]) - n
      /\ \A i \in 1 .. Len(preList["v"]) - n : P[i] = Cell("v", preList["v"][n + i], FALSE)
  BY <1>1, <1>3, CutType DEF Kinds
<1>5. /\ procList' \in Seq(Cells) /\ Len(procList') = Len(procList) + Len(P)
      /\ \A i \in 1 .. Len(procList) + Len(P) :
           procList'[i] = IF i <= Len(procList) THEN procList[i] ELSE P[i - Len(procList)]
      /\ Len(procList) \in Nat
  BY <1>1, <1>2, <1>4, Joined
<1>6. thr'.pc = (IF n = Len(preList["v"]) THEN "begin" ELSE "audio") /\ thr'.cell = thr.cell
  BY <1>1, <1>2
<1> HIDE DEF P
<1>7. \A i \in 1 .. Len(procList) + (Len(preList["v"]) - n) :
        procList'[i] = IF i <= Len(procList) THEN procList[i]
                       ELSE Cell("v", preList["v"][n + (i - Len(procList))], FALSE)
  <2> SUFFICES ASSUME NEW i \in 1 .. Len(procList) + (Len(preList["v"]) - n)
               PROVE  procList'[i] = IF i <= Len(procList) THEN procList[i]
                        ELSE Cell("v", preList["v"][n + (i - Len(procList))], FALSE)
    OBVIOUS
  <2>1. Len(preList["v"]) \in Nat /\ n \in Nat /\ n <= Len(preList["v"]) /\ Len(procList) \in Nat
    BY <1>1, <1>3, <1>5
  <2>2. procList'[i] = IF i <= Len(procList) THEN procList[i] ELSE P[i - Len(procList)]
    BY <1>4, <1>5, <2>1
  <2>3. i > Len(procList) => i - Len(procList) \in 1 .. Len(preList["v"]) - n
    BY <2>1
  <2>4. i > Len(procList) => P[i - Len(procList)] = Cell("v", preList["v"][n + (i - Len(procList))], FALSE)
    BY <1>4, <2>3
  <2>5. CASE i <= Len(procList)
    BY <2>2, <2>5
  <2>6. CASE ~(i <= Len(procList))
    <3>1. i > Len(procList)
      BY <2>1, <2>6
    <3>2. QED
      BY <2>2, <2>4, <2>6, <3>1
  <2>7. QED
    BY <2>5, <2>6
<1>8. QED
  BY <1>2, <1>3, <1>4, <1>5, <1>6, <1>7

\* What the thread takes from the sound.
LEMMA TakeAudioValues ==
  ASSUME Typed, TakeAudio
  PROVE  \E n \in 0 .. Len(preList["a"]) :
           /\ ref' = Unref(PreCells("a", SubSeq(preList["a"], 1, n)))
           /\ procList' = procList \o PreCells("a", SubSeq(preList["a"], n + 1, Len(preList["a"])))
           /\ procList' \in Seq(Cells) /\ Len(procList') = Len(procList) + (Len(preList["a"]) - n)
           /\ \A i \in 1 .. Len(procList) + (Len(preList["a"]) - n) :
                procList'[i] = IF i <= Len(procList) THEN procList[i]
                               ELSE Cell("a", preList["a"][n + (i - Len(procList))], FALSE)
           /\ thr'.pc = "first" /\ thr'.cell = thr.cell
<1>1. preList["a"] \in Seq(Times) /\ procList \in Seq(Cells) /\ DOMAIN thr = {"pc", "cell", "seek"}
  BY DEF Typed, Lists, Thread, Kinds
<1> DEFINE n == Len(preList["a"])
                 - Cardinality({i \in DOMAIN preList["a"] : preList["a"][i] - preList["a"][1] >= thr.seek})
           P == PreCells("a", SubSeq(preList["a"], n + 1, Len(preList["a"])))
<1>2. n \in 0 .. Len(preList["a"])
  BY <1>1, LateCount
<1>3. /\ ref' = Unref(PreCells("a", SubSeq(preList["a"], 1, n)))
      /\ procList' = procList \o P
      /\ thr' = [thr EXCEPT !.pc = "first", !.seek = 0]
  BY DEF TakeAudio
<1> HIDE DEF n
<1>4. /\ P \in Seq(Cells) /\ Len(P) = Len(preList["a"]) - n
      /\ \A i \in 1 .. Len(preList["a"]) - n : P[i] = Cell("a", preList["a"][n + i], FALSE)
  BY <1>1, <1>2, CutType DEF Kinds
<1>5. /\ procList' \in Seq(Cells) /\ Len(procList') = Len(procList) + Len(P)
      /\ \A i \in 1 .. Len(procList) + Len(P) :
           procList'[i] = IF i <= Len(procList) THEN procList[i] ELSE P[i - Len(procList)]
      /\ Len(procList) \in Nat
  BY <1>1, <1>3, <1>4, Joined
<1>6. thr'.pc = "first" /\ thr'.cell = thr.cell
  BY <1>1, <1>3
<1>7. procList' = procList \o PreCells("a", SubSeq(preList["a"], n + 1, Len(preList["a"])))
  BY <1>3
<1> HIDE DEF P
<1>8. \A i \in 1 .. Len(procList) + (Len(preList["a"]) - n) :
        procList'[i] = IF i <= Len(procList) THEN procList[i]
                       ELSE Cell("a", preList["a"][n + (i - Len(procList))], FALSE)
  <2> SUFFICES ASSUME NEW i \in 1 .. Len(procList) + (Len(preList["a"]) - n)
               PROVE  procList'[i] = IF i <= Len(procList) THEN procList[i]
                        ELSE Cell("a", preList["a"][n + (i - Len(procList))], FALSE)
    OBVIOUS
  <2>1. Len(preList["a"]) \in Nat /\ n \in Nat /\ n <= Len(preList["a"]) /\ Len(procList) \in Nat
    BY <1>1, <1>2, <1>5
  <2>2. procList'[i] = IF i <= Len(procList) THEN procList[i] ELSE P[i - Len(procList)]
    BY <1>4, <1>5, <2>1
  <2>3. i > Len(procList) => i - Len(procList) \in 1 .. Len(preList["a"]) - n
    BY <2>1
  <2>4. i > Len(procList) => P[i - Len(procList)] = Cell("a", preList["a"][n + (i - Len(procList))], FALSE)
    BY <1>4, <2>3
  <2>5. CASE i <= Len(procList)
    BY <2>2, <2>5
  <2>6. CASE ~(i <= Len(procList))
    <3>1. i > Len(procList)
      BY <2>1, <2>6
    <3>2. QED
      BY <2>2, <2>4, <2>6, <3>1
  <2>7. QED
    BY <2>5, <2>6
<1>9. QED
  BY <1>2, <1>3, <1>4, <1>5, <1>6, <1>7, <1>8

-----------------------------------------------------------------------------
(* The frames so far                                                       *)

\* The frames delivered so far; one that is between the two lists may be in
\* stProcList or the file already, if it was taken meanwhile.
Delivered == [k \in Kinds |-> {t \in Int : t < next[k] \/ (t = next[k] /\ cb[k] = "get")}]
Reached   == [k \in Kinds |-> {t \in Int : t < next[k] \/ (t = next[k] /\ cb[k] = "get" /\ ~apart)}]

Known ==
  /\ \A i \in DOMAIN procList : procList[i].t \in Reached[procList[i].k]
  /\ thr.cell # NoCell => thr.cell.t \in Reached[thr.cell.k]
  /\ \A k \in Kinds : file.last[k] \in Reached[k]
  /\ \A k \in Kinds : \A i \in DOMAIN preList[k] : preList[k][i] \in Delivered[k]

\* What was delivered stays so.
LEMMA StillReached ==
  ASSUME Typed, Stages, [Next]_vars, NEW k \in Kinds
  PROVE  Delivered[k] \subseteq Delivered'[k] /\ Reached[k] \subseteq Reached'[k]
<1> DEFINE D == Delivered[k] \subseteq Delivered'[k] /\ Reached[k] \subseteq Reached'[k]
<1> USE DEF Delivered, Reached, Typed, Frames
<1>1. ASSUME NEW j \in Kinds, Arrive(j) PROVE D
  BY <1>1 DEF Arrive
<1>2. ASSUME NEW j \in Kinds, PreRecPush(j) PROVE D
  BY <1>2 DEF PreRecPush
<1>3. ASSUME NEW j \in Kinds, CellPush(j) PROVE D
  BY <1>3 DEF CellPush
<1>4. CASE UNCHANGED <<next, cb, apart>>
  BY <1>4
<1>5. CASE CheckExit
  BY <1>5 DEF CheckExit, NoneBetween
<1>6. CASE ReleaseProc \/ TakeVideo \/ TakeAudio
  BY <1>6 DEF ReleaseProc, TakeVideo, TakeAudio
<1>7. QED
  BY <1>1, <1>2, <1>3, <1>4, <1>5, <1>6
     DEF Next, CellPop, Look, TakeFirst, Write, CellFree, Start, Stop, ManualSplit, Reset,
         ResetThread, ResetRelease, ResetParam, Disable, DisableRelease, vars

\* The numbers of frames are integers; a cell is one of a kind.
LEMMA Numbers ==
  ASSUME Typed
  PROVE  /\ Times \subseteq Int /\ Times \subseteq Nat
         /\ \A i \in DOMAIN procList : procList[i] \in Cells /\ procList[i].k \in Kinds
                                       /\ procList[i].t \in Times
         /\ thr.cell # NoCell => thr.cell \in Cells /\ thr.cell.k \in Kinds /\ thr.cell.t \in Times
         /\ \A k \in Kinds : preList[k] \in Seq(Times)
                              /\ \A i \in DOMAIN preList[k] : preList[k][i] \in Times
         /\ \A k \in Kinds : file.last[k] \in Int
<1>1. Times \subseteq Int /\ Times \subseteq Nat
  BY DEF Times
<1>2. \A c \in Cells : c.k \in Kinds /\ c.t \in Times
  BY DEF Cells
<1>3. \A i \in DOMAIN procList : procList[i] \in Cells
  BY DEF Typed, Lists
<1>4. thr.cell # NoCell => thr.cell \in Cells
  BY DEF Typed, Thread
<1>5. \A k \in Kinds : preList[k] \in Seq(Times) /\ \A i \in DOMAIN preList[k] : preList[k][i] \in Times
  BY DEF Typed, Lists
<1>6. \A k \in Kinds : file.last[k] \in Int
  <2>1. file.last \in [Kinds -> Times \cup {-1}]
    BY DEF Typed, File
  <2>2. Times \cup {-1} \subseteq Int
    BY <1>1
  <2>3. QED
    BY <2>1, <2>2
<1>7. QED
  BY <1>1, <1>2, <1>3, <1>4, <1>5, <1>6

\* What a callback's push does to its list.
LEMMA PushKeeps ==
  ASSUME Typed, NEW k \in Kinds, PreRecPush(k)
  PROVE  /\ \A j \in Kinds : j # k => preList'[j] = preList[j]
         /\ preList'[k] \in Seq(Times)
         /\ \/ preList'[k] = <<>>
            \/ /\ preList'[k] = Append(preList[k], next[k])
               /\ Len(preList'[k]) = Len(preList[k]) + 1
               /\ \A i \in 1 .. Len(preList[k]) + 1 :
                    preList'[k][i] = IF i <= Len(preList[k]) THEN preList[k][i] ELSE next[k]
            \/ /\ preList'[k] = Tail(Append(preList[k], next[k]))
               /\ Len(preList'[k]) = Len(preList[k])
               /\ \A i \in 1 .. Len(preList[k]) :
                    preList'[k][i] = IF i < Len(preList[k]) THEN preList[k][i + 1] ELSE next[k]
<1> DEFINE s == preList[k]
           g == Append(s, next[k])
<1>1. s \in Seq(Times) /\ next[k] \in Times /\ DOMAIN preList = Kinds
  BY TimesOfFrames DEF PreRecPush, Typed, Lists
<1>2. PICK kept \in Seq(Times) : /\ preList' = [preList EXCEPT ![k] = kept]
                                 /\ kept = <<>> \/ kept \in {g, Tail(g)}
  BY PushValues
<1>3. preList'[k] = kept /\ \A j \in Kinds : j # k => preList'[j] = preList[j]
  BY <1>1, <1>2
<1>4. /\ g \in Seq(Times) /\ g # <<>> /\ Len(g) = Len(s) + 1
      /\ \A i \in 1 .. Len(s) + 1 : g[i] = IF i <= Len(s) THEN s[i] ELSE next[k]
  BY <1>1, Grown
<1> HIDE DEF g
<1>5. /\ Len(Tail(g)) = Len(g) - 1 /\ Len(s) \in Nat
      /\ \A i \in 1 .. Len(g) - 1 : Tail(g)[i] = g[i + 1]
  BY <1>1, <1>4, Shorter
<1>6. \A i \in 1 .. Len(s) : Tail(g)[i] = IF i < Len(s) THEN s[i + 1] ELSE next[k]
  <2> SUFFICES ASSUME NEW i \in 1 .. Len(s)
               PROVE  Tail(g)[i] = IF i < Len(s) THEN s[i + 1] ELSE next[k]
    OBVIOUS
  <2>1. i \in 1 .. Len(g) - 1 /\ i + 1 \in 1 .. Len(s) + 1 /\ (i < Len(s) <=> i + 1 <= Len(s))
    BY <1>4, <1>5
  <2>2. QED
    BY <1>4, <1>5, <2>1
<1>7. Len(Tail(g)) = Len(s)
  BY <1>4, <1>5
<1>8. CASE kept = <<>>
  BY <1>3, <1>8
<1>9. CASE kept = g
  BY <1>3, <1>4, <1>9 DEF g
<1>10. CASE kept = Tail(g)
  BY <1>3, <1>6, <1>7, <1>10 DEF g
<1>11. QED
  BY <1>2, <1>8, <1>9, <1>10

\* What a written frame changes.
LEMMA WriteValues ==
  ASSUME Typed, Write
  PROVE  LET c == thr.cell
             judged == apart /\ ~file.spoilt
         IN /\ c \in Cells /\ c.k \in Kinds /\ c.t \in Times /\ c # NoCell
            /\ \A k \in Kinds : file'.last[k] =
                 IF k # c.k THEN file.last[k] ELSE IF c.t > file.last[k] THEN c.t ELSE file.last[k]
            /\ file'.spoilt = ~judged
            /\ file'.inOrder = (file.inOrder /\
                 (judged => c.t > file.last[c.k] /\ (file.last["v"] = -1 => IsKey(c))))
            /\ file'.whole = (file.whole /\
                 (judged /\ ~file.stopped /\ ~file.late /\ c.k = "v" /\ file.last[c.k] # -1
                   => c.t <= file.last[c.k] + 1))
            /\ file'.stopped = file.stopped /\ file'.late = file.late
            /\ thr'.pc = "pop" /\ thr'.cell = NoCell
            /\ h'.mux /\ h'.en = h.en /\ h'.reseting = h.reseting
<1> DEFINE c == thr.cell
           judged == apart /\ ~file.spoilt
           whole  == judged /\ ~file.stopped /\ ~file.late
           begun  == IF thr.pc = "begin" THEN c.t ELSE file.start
           top    == IF c.t > file.last[c.k] THEN c.t ELSE file.last[c.k]
           ord    == file.inOrder /\ (judged => c.t > file.last[c.k] /\ (file.last["v"] = -1 => IsKey(c)))
           all    == file.whole /\ (whole /\ c.k = "v" /\ file.last[c.k] # -1 => c.t <= file.last[c.k] + 1)
<1>1. file' = [file EXCEPT !.start = begun, !.last[c.k] = top, !.spoilt = ~judged,
                           !.inOrder = ord, !.whole = all]
  BY DEF Write
<1>2. c \in Cells /\ c # NoCell /\ c.k \in Kinds /\ c.t \in Times
  BY Numbers, NoCellIsNone DEF Write, Typed, Thread
<1>3. /\ DOMAIN file = {"last", "start", "inOrder", "whole", "spoilt", "stopped", "late"}
      /\ DOMAIN file.last = Kinds
  BY DEF Typed, File
<1>4. thr'.pc = "pop" /\ thr'.cell = NoCell /\ h'.mux /\ h'.en = h.en /\ h'.reseting = h.reseting
  BY DEF Write, Typed, Thread, Handle
<1>5. /\ file'.last = [file.last EXCEPT ![c.k] = top] /\ file'.spoilt = ~judged
      /\ file'.inOrder = ord /\ file'.whole = all
      /\ file'.stopped = file.stopped /\ file'.late = file.late
  <2> HIDE DEF judged, begun, top, ord, all, whole, c
  <2>1. QED
    BY <1>1, <1>3
<1>6. \A k \in Kinds : file'.last[k] = IF k = c.k THEN top ELSE file.last[k]
  <2> HIDE DEF top, c
  <2>1. QED
    BY <1>2, <1>3, <1>5
<1>7. \A k \in Kinds : file'.last[k] =
        IF k # c.k THEN file.last[k] ELSE IF c.t > file.last[k] THEN c.t ELSE file.last[k]
  BY <1>6
<1>8. QED
  BY <1>2, <1>4, <1>5, <1>7

\* Everything in the lists and the file was delivered, after a step too.
LEMMA NextKnown == Typed /\ Stages /\ Known /\ [Next]_vars => Known'
<1> SUFFICES ASSUME Typed, Stages, Known, [Next]_vars PROVE Known'
  OBVIOUS
<1>1. /\ \A k \in Kinds : Delivered[k] \subseteq Delivered'[k] /\ Reached[k] \subseteq Reached'[k]
      /\ \A k \in Kinds : next[k] \in Nat
  BY StillReached DEF Typed, Frames
<1>2. /\ \A i \in DOMAIN procList : procList[i].k \in Kinds
                                    /\ procList[i].t \in Reached'[procList[i].k]
      /\ thr.cell # NoCell => thr.cell.k \in Kinds /\ thr.cell.t \in Reached'[thr.cell.k]
      /\ \A k \in Kinds : file.last[k] \in Reached'[k]
      /\ \A k \in Kinds : \A i \in DOMAIN preList[k] : preList[k][i] \in Delivered'[k]
  BY <1>1, Numbers DEF Known
<1>3. \A i \in DOMAIN procList' : procList'[i].t \in Reached'[procList'[i].k]
  <2>1. CASE procList' = procList \/ procList' = <<>>
    BY <1>2, <2>1
  <2>2. CASE CellPop \/ TakeFirst
    <3>1. procList \in Seq(Cells) /\ procList # <<>> /\ procList' = Tail(procList)
      BY <2>2 DEF CellPop, TakeFirst, Typed, Lists
    <3>2. /\ Len(procList') = Len(procList) - 1 /\ procList' \in Seq(Cells)
          /\ \A i \in 1 .. Len(procList) - 1 : procList'[i] = procList[i + 1]
      BY <3>1, Shorter
    <3>3. QED
      BY <1>2, <3>1, <3>2
  <2>3. ASSUME NEW k \in Kinds, CellPush(k)
        PROVE  \A i \in DOMAIN procList' : procList'[i].t \in Reached'[procList'[i].k]
    <3> DEFINE c == Cell(k, next[k], TRUE)
    <3>1. procList \in Seq(Cells) /\ procList' = Append(procList, c) /\ c \in Cells
      BY <2>3, TimesOfFrames DEF CellPush, Push, Typed, Lists, Cell, Cells
    <3>2. c.k = k /\ c.t \in Reached'[k]
      BY <1>1, <2>3 DEF CellPush, Reached, Cell, Typed, Frames
    <3> HIDE DEF c
    <3>3. /\ Len(procList') = Len(procList) + 1 /\ procList' \in Seq(Cells)
          /\ \A i \in 1 .. Len(procList) + 1 : procList'[i] = IF i <= Len(procList) THEN procList[i] ELSE c
      BY <3>1, Grown
    <3>4. QED
      BY <1>2, <3>1, <3>2, <3>3
  <2>4. ASSUME NEW k \in Kinds, NEW n \in 0 .. Len(preList[k]),
               procList' \in Seq(Cells), Len(procList') = Len(procList) + (Len(preList[k]) - n),
               \A i \in 1 .. Len(procList) + (Len(preList[k]) - n) :
                 procList'[i] = IF i <= Len(procList) THEN procList[i]
                                ELSE Cell(k, preList[k][n + (i - Len(procList))], FALSE),
               apart' = (apart /\ NoneBetween), next' = next, cb' = cb
        PROVE  \A i \in DOMAIN procList' : procList'[i].t \in Reached'[procList'[i].k]
    <3> SUFFICES ASSUME NEW i \in 1 .. Len(procList) + (Len(preList[k]) - n)
                 PROVE  procList'[i].t \in Reached'[procList'[i].k]
      BY <2>4
    <3>1. Len(procList) \in Nat /\ Len(preList[k]) \in Nat /\ DOMAIN procList = 1 .. Len(procList)
          /\ DOMAIN preList[k] = 1 .. Len(preList[k])
      BY Numbers DEF Typed, Lists
    <3>2. Delivered[k] \subseteq Reached'[k]
      BY <2>4 DEF Delivered, Reached, NoneBetween
    <3>3. CASE i <= Len(procList)
      <4>1. procList'[i] = procList[i]
        BY <2>4, <3>3
      <4>2. i \in DOMAIN procList
        BY <3>1, <3>3
      <4>3. QED
        BY <1>2, <4>1, <4>2
    <3>4. CASE ~(i <= Len(procList))
      <4> DEFINE j == n + (i - Len(procList))
      <4>1. procList'[i] = Cell(k, preList[k][j], FALSE)
        BY <2>4, <3>4
      <4>2. j \in DOMAIN preList[k]
        BY <3>1, <3>4
      <4> HIDE DEF j
      <4>3. preList[k][j] \in Reached'[k]
        BY <3>2, <4>2 DEF Known
      <4>4. QED
        BY <4>1, <4>3 DEF Cell
    <3>5. QED
      BY <3>3, <3>4
  <2>5. CASE TakeVideo \/ TakeAudio
    <3>1. apart' = (apart /\ NoneBetween) /\ next' = next /\ cb' = cb
      BY <2>5 DEF TakeVideo, TakeAudio
    <3>2. "v" \in Kinds /\ "a" \in Kinds
      BY DEF Kinds
    <3>3. CASE TakeVideo
      BY <2>4, <3>1, <3>2, <3>3, TakeVideoValues
    <3>4. CASE TakeAudio
      BY <2>4, <3>1, <3>2, <3>4, TakeAudioValues
    <3>5. QED
      BY <2>5, <3>3, <3>4
  <2>6. QED
    BY <2>1, <2>2, <2>3, <2>5
       DEF Next, Arrive, PreRecPush, CheckExit, Look, ReleaseProc, Write, CellFree, Start, Stop,
           ManualSplit, Reset, ResetThread, ResetRelease, ResetParam, Disable, DisableRelease,
           ReleaseAll, vars
<1>4. thr'.cell # NoCell => thr'.cell.t \in Reached'[thr'.cell.k]
  <2>1. CASE CellPop \/ TakeFirst
    <3>1. procList \in Seq(Cells) /\ procList # <<>> /\ thr'.cell = Head(procList)
      BY <2>1 DEF CellPop, TakeFirst, Typed, Lists, Thread
    <3>2. 1 \in DOMAIN procList /\ thr'.cell = procList[1]
      BY <3>1, Shorter
    <3>3. QED
      BY <1>2, <3>2
  <2>2. CASE thr'.cell \in {thr.cell, NoCell}
    BY <1>2, <2>2
  <2>3. CASE TakeVideo
    BY <1>2, <2>3, TakeVideoValues
  <2>4. CASE Look
    BY <1>2, <2>4, LookValues
  <2>5. QED
    BY <2>1, <2>2, <2>3, <2>4
       DEF Next, Arrive, PreRecPush, CellPush, CheckExit, ReleaseProc, TakeAudio, Write, CellFree,
           Start, Stop, ManualSplit, Reset, ResetThread, ResetRelease, ResetParam, Disable,
           DisableRelease, vars, Typed, Thread
<1>5. \A k \in Kinds : file'.last[k] \in Reached'[k]
  <2>1. CASE Write
    <3>1. thr.cell # NoCell /\ \A k \in Kinds : file'.last[k] \in {thr.cell.t, file.last[k]}
                                              /\ (file'.last[k] # file.last[k] => thr.cell.k = k)
      BY <2>1, WriteValues
    <3>2. QED
      BY <1>2, <3>1
  <2>2. CASE file'.last = file.last
    BY <1>2, <2>2
  <2>3. CASE Look
    <3>1. file'.last = file.last \/ file'.last = [k \in Kinds |-> -1]
      BY <2>3, LookValues DEF NoFile
    <3>2. \A k \in Kinds : next'[k] \in Nat
      BY NextFrames DEF Frames
    <3>3. QED
      BY <1>2, <3>1, <3>2 DEF Reached
  <2>4. QED
    BY <2>1, <2>2, <2>3
       DEF Next, Arrive, PreRecPush, CellPush, CellPop, CheckExit, ReleaseProc, TakeVideo, TakeAudio,
           TakeFirst, CellFree, Start, Stop, ManualSplit, Reset, ResetThread, ResetRelease,
           ResetParam, Disable, DisableRelease, vars, Typed, File
<1>6. \A k \in Kinds : \A i \in DOMAIN preList'[k] : preList'[k][i] \in Delivered'[k]
  <2>1. ASSUME NEW j \in Kinds, PreRecPush(j), NEW k \in Kinds, NEW i \in DOMAIN preList'[k]
        PROVE  preList'[k][i] \in Delivered'[k]
    <3>1. CASE j # k
      BY <1>2, <2>1, <3>1, PushKeeps
    <3>2. CASE j = k
      <4>1. next[k] \in Delivered'[k]
        BY <1>1, <2>1, <3>2 DEF PreRecPush, Delivered, Typed, Frames
      <4>2. preList'[k] \in Seq(Times) /\ i \in 1 .. Len(preList'[k]) /\ preList[k] \in Seq(Times)
        BY <2>1, <3>2, PushKeeps, Numbers
      <4>3. preList'[k][i] = next[k] \/ \E l \in DOMAIN preList[k] : preList'[k][i] = preList[k][l]
        <5>1. CASE preList'[k] = <<>>
          BY <4>2, <5>1
        <5>2. CASE /\ Len(preList'[k]) = Len(preList[k]) + 1
                   /\ \A l \in 1 .. Len(preList[k]) + 1 :
                        preList'[k][l] = IF l <= Len(preList[k]) THEN preList[k][l] ELSE next[k]
          BY <4>2, <5>2
        <5>3. CASE /\ Len(preList'[k]) = Len(preList[k])
                   /\ \A l \in 1 .. Len(preList[k]) :
                        preList'[k][l] = IF l < Len(preList[k]) THEN preList[k][l + 1] ELSE next[k]
          BY <4>2, <5>3
        <5>4. QED
          BY <2>1, <3>2, <5>1, <5>2, <5>3, PushKeeps
      <4>4. QED
        BY <1>2, <4>1, <4>3
    <3>3. QED
      BY <3>1, <3>2
  <2>2. CASE preList' = preList
    BY <1>2, <2>2
  <2>3. ASSUME NEW k \in Kinds, preList'[k] = <<>> \/ preList'[k] = preList[k]
        PROVE  \A i \in DOMAIN preList'[k] : preList'[k][i] \in Delivered'[k]
    BY <1>2, <2>3
  <2>4. CASE TakeVideo \/ TakeAudio \/ ResetRelease \/ DisableRelease
    <3>1. \A k \in Kinds : preList'[k] = <<>> \/ preList'[k] = preList[k]
      BY <2>4 DEF TakeVideo, TakeAudio, ResetRelease, DisableRelease, ReleaseAll, Typed, Lists
    <3>2. QED
      BY <2>3, <3>1
  <2>5. QED
    BY <2>1, <2>2, <2>4
       DEF Next, Arrive, CellPush, CellPop, CheckExit, Look, ReleaseProc, TakeFirst, Write, CellFree,
           Start, Stop, ManualSplit, Reset, ResetThread, ResetParam, Disable, vars
<1>7. QED
  BY <1>3, <1>4, <1>5, <1>6 DEF Known

-----------------------------------------------------------------------------
(* Media buffers                                                           *)

\* The users of a buffer, counted by Hits.
Busy(k, t) == IF cb[k] # "idle" /\ next[k] = t THEN 1 ELSE 0
Held(k, t) == Busy(k, t) + Hits(procList, Of(k, t)) + Hits(preList[k], {t}) + Hits(<<thr.cell>>, Of(k, t))
Counted == \A k \in Kinds, t \in Times : ref[k][t] = Held(k, t)

\* The two ways to count are the same.
LEMMA CountedIs == Typed => (BuffersCounted <=> Counted)
<1> SUFFICES ASSUME Typed PROVE BuffersCounted <=> Counted
  OBVIOUS
<1>1. /\ procList \in Seq(Cells) /\ thr.cell \in Slots /\ \A k \in Kinds : preList[k] \in Seq(Times)
      /\ procList \in Seq(Slots)
  BY OfSlots DEF Typed, Lists
<1>2. ASSUME NEW k \in Kinds, NEW t \in Times PROVE Holders(k, t) = Held(k, t)
  <2> DEFINE L == preList[k]
             c == thr.cell
  <2>1. procList \in Seq(Cells) /\ L \in Seq(Times) /\ c \in Slots
    BY <1>1
  <2> HIDE DEF L, c
  <2>2. CountIn(procList, k, t) = Hits(procList, Of(k, t))
    BY <1>1, CountHits
  <2>3. Cardinality({i \in DOMAIN L : L[i] = t}) = Hits(L, {t})
    <3>1. {i \in DOMAIN L : L[i] = t} = {i \in DOMAIN L : L[i] \in {t}}
      OBVIOUS
    <3>2. QED
      BY <3>1 DEF Hits
  <2>4. (IF c.k = k /\ c.t = t THEN 1 ELSE 0) = Hits(<<c>>, Of(k, t))
    <3>1. c \in Of(k, t) <=> c.k = k /\ c.t = t
      BY <2>1 DEF Of
    <3>2. QED
      BY <3>1, HitsOne
  <2>5. QED
    BY <2>2, <2>3, <2>4 DEF Holders, Held, Busy, L, c
<1>3. QED
  BY <1>2 DEF BuffersCounted, Counted

\* Counts of an empty place, of no cell and of nothing delivered.
LEMMA NoHits ==
  ASSUME NEW k \in Kinds, NEW t \in Times
  PROVE  Hits(<<NoCell>>, Of(k, t)) = 0 /\ \A S : Hits(<<>>, S) = 0
<1>1. NoCell \notin Of(k, t)
  BY TimesOfFrames DEF Of, NoCell, Cell, Times
<1>2. QED
  BY <1>1, HitsOne, HitsNone

LEMMA HitsZero ==
  ASSUME NEW s, NEW S, \A i \in DOMAIN s : s[i] \notin S
  PROVE  Hits(s, S) = 0
<1>1. {i \in DOMAIN s : s[i] \in S} = {}
  OBVIOUS
<1>2. QED
  BY <1>1, FS_EmptySet DEF Hits

\* A step that moves cells keeps the count of each of them.
LEMMA NextCounted == Typed /\ Stages /\ Known /\ Counted /\ [Next]_vars => Counted'
<1> SUFFICES ASSUME Typed, Stages, Known, Counted, [Next]_vars,
                    NEW k \in Kinds, NEW t \in Times
             PROVE  ref'[k][t] = Held(k, t)'
  BY DEF Counted
<1> DEFINE InProc == Hits(procList, Of(k, t))
           InPre  == Hits(preList[k], {t})
           InThr  == Hits(<<thr.cell>>, Of(k, t))
<1>1. ref[k][t] = Busy(k, t) + InProc + InPre + InThr
  BY DEF Counted, Held
<1>2. /\ InProc \in Nat /\ InPre \in Nat /\ InThr \in Nat /\ Busy(k, t) \in {0, 1}
      /\ procList \in Seq(Cells) /\ preList[k] \in Seq(Times) /\ thr.cell \in Slots
      /\ <<thr.cell>> \in Seq(Slots) /\ procList \in Seq(Slots)
  BY HitsType, OfSlots DEF Busy, Typed, Lists
<1>3. ref \in [Kinds -> [Times -> Int]] /\ DOMAIN preList = Kinds
      /\ \A s \in Seq(Slots) : Unref(s)[k][t] = ref[k][t] - Hits(s, Of(k, t))
  BY UnrefType DEF Typed, Frames, Lists
<1>4. Held(k, t)' = Busy(k, t)' + InProc' + InPre' + InThr'
  BY DEF Held
<1> DEFINE Goal == ref'[k][t] = Held(k, t)'
<1>5. ASSUME NEW j \in Kinds, Arrive(j) PROVE Goal
  <2>1. /\ procList' = procList /\ preList' = preList /\ thr' = thr /\ cb[j] = "idle"
        /\ InProc' = InProc /\ InPre' = InPre /\ InThr' = InThr
    BY <1>5 DEF Arrive
  <2>2. CASE h.reseting
    <3>1. ref' = ref /\ cb' = cb /\ \A l \in Kinds : l # j => next'[l] = next[l]
      BY <1>5, <2>2 DEF Arrive, Typed, Frames
    <3>2. Busy(k, t)' = Busy(k, t)
      BY <2>1, <3>1 DEF Busy
    <3> HIDE DEF InProc, InPre, InThr
    <3>3. QED
      BY <1>1, <1>4, <2>1, <3>1, <3>2
  <2>3. CASE ~h.reseting
    <3>1. /\ next' = next /\ cb' = [cb EXCEPT ![j] = "pre"] /\ ref' = [ref EXCEPT ![j][next[j]] = 1]
          /\ next[j] \in Times
      BY <1>5, <2>3, TimesOfFrames DEF Arrive
    <3>2. CASE k = j /\ t = next[j]
      <4>1. ref'[k][t] = 1
        BY <1>3, <3>1, <3>2
      <4>2. Busy(k, t)' = 1
        BY <3>1, <3>2 DEF Busy, Typed, Frames
      <4>3. \A x \in Reached[k] \cup Delivered[k] : x # t
        BY <2>1, <3>2, TimesOfFrames DEF Reached, Delivered
      <4>4. InProc = 0
        <5>1. \A i \in DOMAIN procList : procList[i] \notin Of(k, t)
          BY <4>3 DEF Known, Of
        <5>2. QED
          BY <5>1, HitsZero
      <4>5. InPre = 0
        <5>1. \A i \in DOMAIN preList[k] : preList[k][i] \notin {t}
          BY <4>3 DEF Known
        <5>2. QED
          BY <5>1, HitsZero
      <4>6. InThr = 0
        <5>1. thr.cell \notin Of(k, t)
          <6>1. CASE thr.cell = NoCell
            BY <6>1, TimesOfFrames DEF Of, NoCell, Cell, Times
          <6>2. CASE thr.cell # NoCell
            BY <4>3, <6>2 DEF Known, Of
          <6>3. QED
            BY <6>1, <6>2
        <5>2. QED
          BY <5>1, HitsOne
      <4> HIDE DEF InProc, InPre, InThr
      <4>7. QED
        BY <1>4, <2>1, <4>1, <4>2, <4>4, <4>5, <4>6
    <3>3. CASE ~(k = j /\ t = next[j])
      <4>1. ref'[k][t] = ref[k][t]
        BY <1>3, <3>1, <3>3
      <4>2. Busy(k, t)' = Busy(k, t)
        BY <2>1, <3>1, <3>3 DEF Busy, Typed, Frames
      <4> HIDE DEF InProc, InPre, InThr
      <4>3. QED
        BY <1>1, <1>4, <2>1, <4>1, <4>2
    <3>4. QED
      BY <3>2, <3>3
  <2>4. QED
    BY <2>2, <2>3
<1>6. ASSUME NEW j \in Kinds, PreRecPush(j) PROVE Goal
  <2> DEFINE d == IF h.en THEN 0 ELSE 1
  <2>1. PICK lost \in Seq(Times), kept \in Seq(Times), taken \in {0, 1} :
           /\ preList' = [preList EXCEPT ![j] = kept]
           /\ ref' = [Unref(PreCells(j, lost)) EXCEPT ![j][next[j]] =
                        Unref(PreCells(j, lost))[j][next[j]] + taken - (IF h.en THEN 0 ELSE 1)]
           /\ \A S : Hits(preList[j], S) + (IF next[j] \in S THEN taken ELSE 0)
                       = Hits(lost, S) + Hits(kept, S)
    <3>1. PreRecPush(j)
      BY <1>6
    <3>2. \E lost, kept \in Seq(Times), taken \in {0, 1} :
            /\ preList' = [preList EXCEPT ![j] = kept]
            /\ ref' = [Unref(PreCells(j, lost)) EXCEPT ![j][next[j]] =
                         Unref(PreCells(j, lost))[j][next[j]] + taken - (IF h.en THEN 0 ELSE 1)]
            /\ kept = <<>> \/ kept \in {Append(preList[j], next[j]), Tail(Append(preList[j], next[j]))}
            /\ \A S : Hits(preList[j], S) + (IF next[j] \in S THEN taken ELSE 0)
                        = Hits(lost, S) + Hits(kept, S)
      BY <3>1, PushValues, Zenon
    <3>3. QED
      BY <3>2, Zenon
  <2>2. /\ procList' = procList /\ thr' = thr /\ cb[j] = "pre"
        /\ cb' = [cb EXCEPT ![j] = IF h.en THEN "get" ELSE "idle"]
        /\ next' = [next EXCEPT ![j] = IF h.en THEN next[j] ELSE next[j] + 1]
        /\ InProc' = InProc /\ InThr' = InThr
    BY <1>6 DEF PreRecPush
  <2>3. /\ PreCells(j, lost) \in Seq(Slots)
        /\ Hits(PreCells(j, lost), Of(k, t)) = IF j = k THEN Hits(lost, {t}) ELSE 0
    BY PreCellsHits, OfSlots
  <2>4. /\ Unref(PreCells(j, lost))[k][t] = ref[k][t] - (IF j = k THEN Hits(lost, {t}) ELSE 0)
        /\ Unref(PreCells(j, lost)) \in [Kinds -> [Times -> Int]]
    BY <1>3, <2>3, UnrefType
  <2>5. next[j] \in Times
    BY <2>2, TimesOfFrames
  <2>6. ref'[k][t] = Unref(PreCells(j, lost))[k][t] + (IF k = j /\ t = next[j] THEN taken - d ELSE 0)
    <3> DEFINE U == Unref(PreCells(j, lost))
    <3>1. U[k][t] \in Int
      BY <2>4
    <3> HIDE DEF U
    <3>2. ref' = [U EXCEPT ![j][next[j]] = U[j][next[j]] + taken - d]
      BY <2>1 DEF U
    <3>3. U \in [Kinds -> [Times -> Int]]
      BY <2>4 DEF U
    <3>4. ref'[k][t] = U[k][t] + (IF k = j /\ t = next[j] THEN taken - d ELSE 0)
      BY <2>5, <3>1, <3>2, <3>3
    <3>5. QED
      BY <3>4 DEF U
  <2>7. Busy(k, t)' = Busy(k, t) - (IF k = j /\ t = next[j] THEN d ELSE 0)
    BY <2>2, <2>5 DEF Busy, Typed, Frames, Times
  <2>8. CASE k = j
    <3>1. InPre' = Hits(kept, {t})
      BY <1>3, <2>1, <2>8
    <3>2. InPre + (IF next[j] \in {t} THEN taken ELSE 0) = Hits(lost, {t}) + Hits(kept, {t})
      BY <2>1, <2>8
    <3>3. Hits(lost, {t}) \in Nat /\ Hits(kept, {t}) \in Nat
      BY HitsType
    <3>4. /\ InProc \in Nat /\ InPre \in Nat /\ InThr \in Nat /\ Busy(k, t) \in Int
          /\ ref[k][t] \in Int /\ d \in {0, 1} /\ taken \in {0, 1}
      BY <1>2, <1>3, <2>1
    <3>5. ref[k][t] = Busy(k, t) + InProc + InPre + InThr
      BY <1>1
    <3> HIDE DEF InProc, InPre, InThr, d
    <3>6. CASE t = next[j]
      <4>1. ref'[k][t] = ref[k][t] - Hits(lost, {t}) + taken - d
        BY <2>4, <2>6, <2>8, <3>3, <3>4, <3>6
      <4>2. InPre + taken = Hits(lost, {t}) + Hits(kept, {t})
        BY <3>2, <3>6
      <4>3. Busy(k, t)' = Busy(k, t) - d
        BY <2>7, <2>8, <3>6
      <4>4. ref'[k][t] = Busy(k, t) + InProc + Hits(kept, {t}) + InThr - d
        <5> DEFINE x == Hits(lost, {t})
                   y == Hits(kept, {t})
                   b == Busy(k, t)
                   r == ref[k][t]
        <5>1. r \in Int /\ b \in Int /\ InProc \in Int /\ InPre \in Int /\ InThr \in Int
              /\ x \in Int /\ y \in Int /\ taken \in Int /\ d \in Int
          BY <3>3, <3>4
        <5>2. r = b + InProc + InPre + InThr /\ InPre + taken = x + y
          BY <3>5, <4>2
        <5>3. ref'[k][t] = r - x + taken - d
          BY <4>1
        <5> HIDE DEF x, y, b, r
        <5>4. r - x + taken - d = b + InProc + y + InThr - d
          BY <5>1, <5>2
        <5>5. QED
          BY <5>3, <5>4 DEF y, b
      <4>5. QED
        BY <1>4, <2>2, <3>1, <3>3, <3>4, <4>3, <4>4
    <3>7. CASE t # next[j]
      <4>1. ref'[k][t] = ref[k][t] - Hits(lost, {t})
        BY <2>4, <2>6, <2>8, <3>3, <3>4, <3>7
      <4>2. InPre = Hits(lost, {t}) + Hits(kept, {t})
        BY <3>2, <3>4, <3>7
      <4>3. Busy(k, t)' = Busy(k, t)
        BY <2>7, <3>4, <3>7
      <4>4. ref'[k][t] = Busy(k, t) + InProc + Hits(kept, {t}) + InThr
        <5> DEFINE x == Hits(lost, {t})
                   y == Hits(kept, {t})
                   b == Busy(k, t)
                   r == ref[k][t]
        <5>1. r \in Int /\ b \in Int /\ InProc \in Int /\ InPre \in Int /\ InThr \in Int
              /\ x \in Int /\ y \in Int
          BY <3>3, <3>4
        <5>2. r = b + InProc + InPre + InThr /\ InPre = x + y
          BY <3>5, <4>2
        <5>3. ref'[k][t] = r - x
          BY <4>1
        <5> HIDE DEF x, y, b, r
        <5>4. r - x = b + InProc + y + InThr
          BY <5>1, <5>2
        <5>5. QED
          BY <5>3, <5>4 DEF y, b
      <4>5. QED
        BY <1>4, <2>2, <3>1, <3>3, <3>4, <4>3, <4>4
    <3>8. QED
      BY <3>6, <3>7
  <2>9. CASE k # j
    <3>1. InPre' = InPre
      BY <1>3, <2>1, <2>9
    <3> HIDE DEF InProc, InPre, InThr
    <3>2. QED
      BY <1>1, <1>2, <1>4, <2>2, <2>4, <2>6, <2>7, <2>9, <3>1
  <2>10. QED
    BY <2>8, <2>9
<1>7. ASSUME NEW j \in Kinds, CellPush(j) PROVE Goal
  <2> DEFINE c == Cell(j, next[j], TRUE)
  <2>1. /\ procList' = Append(procList, c) /\ preList' = preList /\ thr' = thr /\ ref' = ref
        /\ cb[j] = "get" /\ cb' = [cb EXCEPT ![j] = "idle"]
        /\ next' = [next EXCEPT ![j] = next[j] + 1] /\ c \in Cells
        /\ InPre' = InPre /\ InThr' = InThr
    BY <1>7, TimesOfFrames DEF CellPush, Push, Cell, Cells
  <2>2. c \in Of(k, t) <=> k = j /\ t = next[j]
    BY <2>1 DEF Of, Slots, Cell
  <2> HIDE DEF c
  <2>3. InProc' = InProc + (IF c \in Of(k, t) THEN 1 ELSE 0)
    BY <1>2, <2>1, HitsAppend
  <2>4. Busy(k, t)' = Busy(k, t) - (IF k = j /\ t = next[j] THEN 1 ELSE 0)
    BY <2>1 DEF Busy, Typed, Frames
  <2> HIDE DEF InProc, InPre, InThr
  <2>5. QED
    BY <1>1, <1>2, <1>4, <2>1, <2>2, <2>3, <2>4
<1>8. CASE CellPop \/ TakeFirst
  <2>1. /\ procList # <<>> /\ procList' = Tail(procList) /\ thr'.cell = Head(procList)
        /\ UNCHANGED <<preList, cb, next>> /\ InPre' = InPre
    BY <1>8 DEF CellPop, TakeFirst, Typed, Lists, Thread
  <2>2. InProc = Hits(<<Head(procList)>>, Of(k, t)) + Hits(Tail(procList), Of(k, t))
    BY <1>2, <2>1, HitsHead
  <2>3. InProc = InThr' + InProc' /\ InThr' \in Nat /\ InProc' \in Nat
    <3>1. Tail(procList) \in Seq(Cells) /\ Head(procList) \in Slots
      BY <1>2, <2>1, HitsHead DEF Slots
    <3>2. <<Head(procList)>> \in Seq(Slots)
      BY <3>1
    <3>3. QED
      BY <2>1, <2>2, <3>1, <3>2, HitsType
  <2>4. ref'[k][t] = ref[k][t] - InThr
    <3>1. CASE CellPop
      <4>1. ref' = ref /\ thr.cell = NoCell
        BY <3>1 DEF CellPop, Typed, Thread
      <4>2. QED
        BY <1>3, <4>1, NoHits
    <3>2. CASE TakeFirst
      BY <1>2, <1>3, <3>2 DEF TakeFirst
    <3>3. QED
      BY <1>8, <3>1, <3>2
  <2>5. Busy(k, t)' = Busy(k, t)
    BY <2>1 DEF Busy
  <2> HIDE DEF InProc, InPre, InThr
  <2>6. QED
    BY <1>1, <1>2, <1>4, <2>1, <2>3, <2>4, <2>5
<1>9. CASE ReleaseProc
  <2>1. /\ ref'[k][t] = ref[k][t] - InProc /\ procList' = <<>> /\ InPre' = InPre
        /\ thr'.cell = thr.cell /\ UNCHANGED <<cb, next>>
    BY <1>2, <1>3, <1>9 DEF ReleaseProc, Typed, Thread
  <2>2. InProc' = 0 /\ InThr' = InThr /\ Busy(k, t)' = Busy(k, t)
    BY <2>1, NoHits DEF Busy
  <2> HIDE DEF InProc, InPre, InThr
  <2>3. QED
    BY <1>1, <1>2, <1>4, <2>1, <2>2
<1>10. ASSUME NEW j \in Kinds, NEW n \in 0 .. Len(preList[j]),
              ref' = Unref(PreCells(j, SubSeq(preList[j], 1, n))),
              procList' = procList \o PreCells(j, SubSeq(preList[j], n + 1, Len(preList[j]))),
              preList' = [preList EXCEPT ![j] = <<>>],
              thr'.cell = thr.cell, UNCHANGED <<cb, next>>
       PROVE  Goal
  <2> DEFINE gone == SubSeq(preList[j], 1, n)
             rest == SubSeq(preList[j], n + 1, Len(preList[j]))
  <2>1. /\ gone \in Seq(Times) /\ rest \in Seq(Times)
        /\ Hits(preList[j], {t}) = Hits(gone, {t}) + Hits(rest, {t})
    BY HitsSplit DEF Typed, Lists
  <2> HIDE DEF gone, rest
  <2>2. /\ PreCells(j, gone) \in Seq(Slots) /\ PreCells(j, rest) \in Seq(Cells)
        /\ Hits(PreCells(j, gone), Of(k, t)) = (IF j = k THEN Hits(gone, {t}) ELSE 0)
        /\ Hits(PreCells(j, rest), Of(k, t)) = (IF j = k THEN Hits(rest, {t}) ELSE 0)
    <3>1. PreCells(j, gone) \in Seq(Cells) /\ PreCells(j, rest) \in Seq(Cells)
      BY <2>1, PreCellsType
    <3>2. CASE j = k
      <4>1. Hits(PreCells(j, gone), Of(j, t)) = Hits(gone, {t}) /\ Hits(PreCells(j, rest), Of(j, t)) = Hits(rest, {t})
        BY <2>1, PreCellsOfKind
      <4>2. QED
        BY <3>1, <3>2, <4>1, OfSlots
    <3>3. CASE j # k
      <4>1. Hits(PreCells(j, gone), Of(k, t)) = 0 /\ Hits(PreCells(j, rest), Of(k, t)) = 0
        BY <2>1, <3>3, PreCellsOfOther
      <4>2. QED
        BY <3>1, <3>3, <4>1, OfSlots
    <3>4. QED
      BY <3>2, <3>3
  <2>3. ref'[k][t] = ref[k][t] - (IF j = k THEN Hits(gone, {t}) ELSE 0)
    BY <1>3, <1>10, <2>2 DEF gone
  <2>4. InProc' = InProc + (IF j = k THEN Hits(rest, {t}) ELSE 0)
    <3>1. procList' = procList \o PreCells(j, rest)
      BY <1>10 DEF rest
    <3>2. Hits(procList \o PreCells(j, rest), Of(k, t)) = InProc + Hits(PreCells(j, rest), Of(k, t))
      BY <1>2, <2>2, HitsConcat
    <3>3. QED
      BY <2>2, <3>1, <3>2
  <2>5. InPre' = IF j = k THEN 0 ELSE InPre
    BY <1>3, <1>10, NoHits
  <2>6. InThr' = InThr /\ Busy(k, t)' = Busy(k, t)
    BY <1>10 DEF Busy
  <2>7. Hits(gone, {t}) \in Nat /\ Hits(rest, {t}) \in Nat /\ (j = k => InPre = Hits(gone, {t}) + Hits(rest, {t}))
    BY <2>1, HitsType
  <2> HIDE DEF InProc, InPre, InThr
  <2>8. QED
    BY <1>1, <1>2, <1>4, <2>3, <2>4, <2>5, <2>6, <2>7
<1>11. CASE TakeVideo
  <2>1. preList' = [preList EXCEPT !["v"] = <<>>] /\ UNCHANGED <<cb, next>> /\ "v" \in Kinds
    BY <1>11 DEF TakeVideo, Kinds
  <2>2. QED
    BY <1>10, <1>11, <2>1, TakeVideoValues
<1>12. CASE TakeAudio
  <2>1. preList' = [preList EXCEPT !["a"] = <<>>] /\ UNCHANGED <<cb, next>> /\ "a" \in Kinds
    BY <1>12 DEF TakeAudio, Kinds
  <2>2. QED
    BY <1>10, <1>12, <2>1, TakeAudioValues
<1>13. CASE Write \/ CellFree
  <2>1. /\ ref'[k][t] = ref[k][t] - InThr /\ thr'.cell = NoCell
        /\ UNCHANGED <<procList, preList, cb, next>> /\ InProc' = InProc /\ InPre' = InPre
    BY <1>2, <1>3, <1>13 DEF Write, CellFree, Typed, Thread
  <2>2. InThr' = 0 /\ Busy(k, t)' = Busy(k, t)
    BY <2>1, NoHits DEF Busy
  <2> HIDE DEF InProc, InPre, InThr
  <2>3. QED
    BY <1>1, <1>2, <1>4, <2>1, <2>2
<1>14. CASE ResetRelease \/ DisableRelease
  <2> DEFINE V == PreCells("v", preList["v"])
             A == PreCells("a", preList["a"])
  <2>1. /\ ref' = Unref((procList \o V) \o A) /\ procList' = <<>> /\ preList' = [j \in Kinds |-> <<>>]
        /\ thr' = thr /\ UNCHANGED <<cb, next>>
    BY <1>14 DEF ResetRelease, DisableRelease, ReleaseAll
  <2>2. /\ V \in Seq(Cells) /\ A \in Seq(Cells)
        /\ Hits(V, Of(k, t)) = (IF k = "v" THEN InPre ELSE 0)
        /\ Hits(A, Of(k, t)) = (IF k = "a" THEN InPre ELSE 0)
    <3>1. "v" \in Kinds /\ "a" \in Kinds /\ preList["v"] \in Seq(Times) /\ preList["a"] \in Seq(Times)
      BY DEF Kinds, Typed, Lists
    <3>2. V \in Seq(Cells) /\ A \in Seq(Cells)
      BY <3>1, PreCellsType
    <3>3. k = "v" => Hits(V, Of(k, t)) = InPre /\ Hits(A, Of(k, t)) = 0
      BY <3>1, PreCellsOfKind, PreCellsOfOther
    <3>4. k = "a" => Hits(V, Of(k, t)) = 0 /\ Hits(A, Of(k, t)) = InPre
      BY <3>1, PreCellsOfKind, PreCellsOfOther
    <3> HIDE DEF V, A, InPre
    <3>5. QED
      BY <3>2, <3>3, <3>4 DEF Kinds
  <2>3. k = "v" \/ k = "a"
    BY DEF Kinds
  <2> HIDE DEF V, A
  <2>4. procList \o V \in Seq(Cells) /\ (procList \o V) \o A \in Seq(Cells)
    BY <1>2, <2>2
  <2>5. Hits((procList \o V) \o A, Of(k, t)) = InProc + Hits(V, Of(k, t)) + Hits(A, Of(k, t))
    <3>1. Hits((procList \o V) \o A, Of(k, t)) = Hits(procList \o V, Of(k, t)) + Hits(A, Of(k, t))
      <4>1. procList \o V \in Seq(Cells) /\ A \in Seq(Cells)
        BY <2>2, <2>4
      <4>2. QED
        BY <4>1, HitsConcat, Zenon
    <3>2. Hits(procList \o V, Of(k, t)) = InProc + Hits(V, Of(k, t))
      BY <1>2, <2>2, HitsConcat
    <3>3. QED
      BY <3>1, <3>2
  <2>6. ref'[k][t] = ref[k][t] - Hits((procList \o V) \o A, Of(k, t))
    BY <1>3, <2>1, <2>4, OfSlots
  <2>7. InProc' = 0 /\ InPre' = 0 /\ InThr' = InThr /\ Busy(k, t)' = Busy(k, t)
    BY <2>1, NoHits DEF Busy
  <2>8. InProc \in Nat /\ InPre \in Nat /\ InThr \in Nat /\ ref[k][t] \in Int
    BY <1>2, <1>3
  <2> HIDE DEF InProc, InPre, InThr
  <2>9. Hits(V, Of(k, t)) + Hits(A, Of(k, t)) = InPre
    BY <2>2, <2>3, <2>8
  <2>10. /\ Hits(V, Of(k, t)) \in Nat /\ Hits(A, Of(k, t)) \in Nat /\ Busy(k, t) \in Int
    BY <1>2, <2>2, <2>8
  <2>11. ref'[k][t] = Busy(k, t) + InThr
    BY <1>1, <2>5, <2>6, <2>8, <2>9, <2>10
  <2>12. QED
    BY <1>4, <2>7, <2>8, <2>10, <2>11
<1>15. CASE UNCHANGED <<ref, cb, next, procList, preList>> /\ thr'.cell = thr.cell
  BY <1>1, <1>4, <1>15 DEF Busy
<1>16. QED
  BY <1>5, <1>6, <1>7, <1>8, <1>9, <1>11, <1>12, <1>13, <1>14, <1>15, LookValues
     DEF Next, CheckExit, Look, Start, Stop, ManualSplit, Reset, ResetThread, ResetParam, Disable,
         vars, Typed, Thread

-----------------------------------------------------------------------------
LEMMA InitStages == Init => Stages
<1> SUFFICES ASSUME Init PROVE Stages
  OBVIOUS
<1>1. /\ app = "idle" /\ exitFlag = FALSE /\ thr = [pc |-> "pop", cell |-> NoCell, seek |-> 0]
      /\ h.reseting = FALSE
  BY DEF Init
<1>2. QED
  BY <1>1 DEF Stages, Leaving

LEMMA InitKnown == Init => Known
<1> SUFFICES ASSUME Init PROVE Known
  OBVIOUS
<1>1. \A k \in Kinds : file.last[k] = -1 /\ next[k] = 0 /\ preList[k] = <<>>
  BY DEF Init, NoFile
<1>2. procList = <<>> /\ thr.cell = NoCell
  BY DEF Init
<1>3. \A k \in Kinds : file.last[k] \in Reached[k]
  BY <1>1 DEF Reached
<1>4. QED
  BY <1>1, <1>2, <1>3 DEF Known

LEMMA InitCounted == Init => Counted
<1> SUFFICES ASSUME Init, NEW k \in Kinds, NEW t \in Times PROVE ref[k][t] = Held(k, t)
  BY DEF Counted
<1>1. ref[k][t] = 0 /\ cb[k] = "idle" /\ procList = <<>> /\ preList[k] = <<>> /\ thr.cell = NoCell
  BY DEF Init
<1>2. Hits(procList, Of(k, t)) = 0 /\ Hits(preList[k], {t}) = 0 /\ Hits(<<thr.cell>>, Of(k, t)) = 0
  BY <1>1, NoHits
<1>3. Busy(k, t) = 0
  BY <1>1 DEF Busy
<1>4. QED
  BY <1>1, <1>2, <1>3 DEF Held

\* A step keeps the types.
LEMMA NextTyped == Typed /\ Stages /\ [Next]_vars => Typed'
<1> SUFFICES ASSUME Typed, Stages, [Next]_vars PROVE Typed'
  OBVIOUS
<1>1. Lists' /\ Frames' /\ Thread' /\ Handle' /\ File'
  BY NextLists, NextFrames, NextThread, NextHandle, NextFile
<1>2. QED
  BY <1>1 DEF Typed

LEMMA Invariance == Spec => [](Typed /\ Stages /\ Known)
<1> DEFINE I == Typed /\ Stages /\ Known
<1>1. Init => I
  BY InitTyped, InitStages, InitKnown
<1>2. I /\ [Next]_vars => I'
  BY NextTyped, NextStages, NextKnown
<1>3. QED
  BY <1>1, <1>2, PTL DEF Spec

\* A media buffer has as many users as hold it, at any time: none is lost and
\* none given back twice when a callback drops the oldest frame, the thread
\* takes the lists, cuts the sound, or a reset empties them.
THEOREM BuffersAreCounted == Spec => []BuffersCounted
<1>1. Init => Counted
  BY InitCounted
<1>2. Typed /\ Stages /\ Known /\ Counted /\ [Next]_vars => Counted'
  BY NextCounted
<1>3. Typed /\ Counted => BuffersCounted
  BY CountedIs
<1>4. QED
  BY <1>1, <1>2, <1>3, Invariance, PTL DEF Spec

-----------------------------------------------------------------------------
(* The order of the frames                                                 *)

\* A pre-record list rises.
Sorted == \A k \in Kinds : \A i, j \in DOMAIN preList[k] : i < j => preList[k][i] < preList[k][j]

LEMMA NextSorted == Typed /\ Known /\ Sorted /\ [Next]_vars => Sorted'
<1> SUFFICES ASSUME Typed, Known, Sorted, [Next]_vars PROVE Sorted'
  OBVIOUS
<1> DEFINE Rising(j) == \A l, m \in DOMAIN preList'[j] : l < m => preList'[j][l] < preList'[j][m]
<1>1. ASSUME NEW j \in Kinds, preList'[j] = <<>> \/ preList'[j] = preList[j] PROVE Rising(j)
  BY <1>1 DEF Sorted
<1>2. ASSUME NEW k \in Kinds, PreRecPush(k) PROVE \A j \in Kinds : Rising(j)
  <2> DEFINE s == preList[k]
             q == preList'[k]
             t == next[k]
  <2>1. /\ s \in Seq(Times) /\ q \in Seq(Times) /\ Times \subseteq Int /\ t \in Int
        /\ \A i \in 1 .. Len(s) : s[i] < t /\ s[i] \in Int
        /\ \A i, j \in 1 .. Len(s) : i < j => s[i] < s[j]
        /\ Len(s) \in Nat /\ DOMAIN q = 1 .. Len(q)
    <3>0. q \in Seq(Times)
      BY <1>2, PushKeeps
    <3>1. s \in Seq(Times) /\ q \in Seq(Times) /\ Times \subseteq Int /\ t \in Int /\ cb[k] = "pre"
      BY <1>2, <3>0, Numbers DEF PreRecPush, Typed, Frames
    <3>2. \A i \in DOMAIN s : s[i] < t
      BY <3>1 DEF Known, Delivered
    <3>3. DOMAIN s = 1 .. Len(s) /\ \A i \in 1 .. Len(s) : s[i] \in Times
      BY <3>1
    <3>4. \A i, j \in DOMAIN s : i < j => s[i] < s[j]
      BY DEF Sorted
    <3>5. DOMAIN q = 1 .. Len(q) /\ Len(s) \in Nat
      BY <3>1
    <3> HIDE DEF s, q, t
    <3>6. QED
      BY <3>1, <3>2, <3>3, <3>4, <3>5
  <2>2. \/ q = <<>>
        \/ Len(q) = Len(s) + 1 /\ \A i \in 1 .. Len(s) + 1 : q[i] = IF i <= Len(s) THEN s[i] ELSE t
        \/ Len(q) = Len(s) /\ \A i \in 1 .. Len(s) : q[i] = IF i < Len(s) THEN s[i + 1] ELSE t
    BY <1>2, PushKeeps
  <2> HIDE DEF s, q, t
  <2>3. \A l, m \in DOMAIN q : l < m => q[l] < q[m]
    <3> SUFFICES ASSUME NEW l \in DOMAIN q, NEW m \in DOMAIN q, l < m PROVE q[l] < q[m]
      OBVIOUS
    <3>1. l \in Nat /\ m \in Nat /\ l >= 1 /\ l < m /\ m <= Len(q)
      BY <2>1
    <3>2. CASE q = <<>>
      BY <3>2
    <3>3. CASE Len(q) = Len(s) + 1 /\ \A i \in 1 .. Len(s) + 1 : q[i] = IF i <= Len(s) THEN s[i] ELSE t
      <4>1. q[l] = s[l] /\ l \in 1 .. Len(s) /\ q[m] = IF m <= Len(s) THEN s[m] ELSE t
        BY <2>1, <3>1, <3>3
      <4>2. CASE m <= Len(s)
        BY <2>1, <3>1, <4>1, <4>2
      <4>3. CASE ~(m <= Len(s))
        BY <2>1, <4>1, <4>3
      <4>4. QED
        BY <4>2, <4>3
    <3>4. CASE Len(q) = Len(s) /\ \A i \in 1 .. Len(s) : q[i] = IF i < Len(s) THEN s[i + 1] ELSE t
      <4>1. q[l] = s[l + 1] /\ l + 1 \in 1 .. Len(s) /\ q[m] = IF m < Len(s) THEN s[m + 1] ELSE t
        BY <2>1, <3>1, <3>4
      <4>2. CASE m < Len(s)
        <5>1. m + 1 \in 1 .. Len(s) /\ l + 1 < m + 1
          BY <2>1, <3>1, <4>2
        <5>2. QED
          BY <2>1, <4>1, <4>2, <5>1
      <4>3. CASE ~(m < Len(s))
        BY <2>1, <4>1, <4>3
      <4>4. QED
        BY <4>2, <4>3
    <3>5. QED
      BY <2>2, <3>2, <3>3, <3>4
  <2>4. Rising(k)
    BY <2>3 DEF q
  <2>5. \A j \in Kinds : j # k => Rising(j)
    BY <1>1, <1>2, PushKeeps
  <2>6. QED
    BY <2>4, <2>5
<1> HIDE DEF Rising
<1>3. ASSUME preList' = preList PROVE \A j \in Kinds : Rising(j)
  BY <1>1, <1>3
<1>4. ASSUME TakeVideo \/ TakeAudio \/ ResetRelease \/ DisableRelease
      PROVE  \A j \in Kinds : Rising(j)
  <2>1. \A k \in Kinds : preList'[k] = <<>> \/ preList'[k] = preList[k]
    BY <1>4 DEF TakeVideo, TakeAudio, ResetRelease, DisableRelease, ReleaseAll, Typed, Lists
  <2>2. QED
    BY <1>1, <2>1
<1>5. \A j \in Kinds : Rising(j)
  BY <1>2, <1>3, <1>4
     DEF Next, Arrive, CellPush, CellPop, CheckExit, Look, ReleaseProc, TakeFirst, Write, CellFree,
         Start, Stop, ManualSplit, Reset, ResetThread, ResetParam, Disable, vars
<1>6. QED
  BY <1>5 DEF Sorted, Rising

\* A file that is being opened is empty; one that took the lists while a
\* callback was between them is not judged.
Begins ==
  /\ thr.pc \in Opening => ~h.mux /\ ~file.spoilt /\ \A k \in Kinds : file.last[k] = -1
  /\ thr.pc \in {"release", "video"} => IsKey(thr.cell)
  /\ ~apart /\ thr.pc \notin Opening => file.spoilt
  /\ h.mux /\ ~file.spoilt => file.last["v"] >= 0

\* A list that was taken whole begins with a key frame.
Taken == apart =>
  /\ thr.pc = "begin" => IsKey(thr.cell)
  /\ thr.pc \in {"video", "audio"} => NoneBetween
  /\ thr.pc = "video" => procList = <<>>
  /\ thr.pc \in {"audio", "first"} => IsKey(procList[1])
  /\ thr.pc = "audio" => \A i \in DOMAIN procList : procList[i].k = "v"

\* stProcList rises, behind the cell in hand and what is written.
Rises == \A i, j \in DOMAIN procList : i < j /\ procList[i].k = procList[j].k => procList[i].t < procList[j].t
Ahead == \A i \in DOMAIN procList : procList[i].k = thr.cell.k => thr.cell.t < procList[i].t
Fresh ==
  /\ \A i \in DOMAIN procList : file.last[procList[i].k] < procList[i].t
  /\ thr.cell # NoCell => file.last[thr.cell.k] < thr.cell.t
Ordered == apart => Rises /\ (thr.pc \notin {"audio", "first"} => Ahead) /\ (~file.spoilt => Fresh)

\* A step that leaves stProcList, the thread and what is written alone.
LEMMA QuietOrder ==
  ASSUME Typed, Stages, Begins, Taken, Ordered,
         procList' = procList, thr'.cell = thr.cell, h'.mux = h.mux, apart' = apart,
         file'.last = file.last, file'.spoilt = file.spoilt,
         thr'.pc = thr.pc \/ (thr.pc \notin Opening /\ thr'.pc \notin Opening),
         thr.pc \in {"video", "audio"} /\ NoneBetween => NoneBetween'
  PROVE  Begins' /\ Taken' /\ Ordered'
<1>1. Begins'
  BY DEF Begins, Opening, IsKey
<1>2. Taken'
  BY DEF Taken, Opening, IsKey
<1>3. Ordered'
  BY DEF Ordered, Rises, Ahead, Fresh, Opening
<1>4. QED
  BY <1>1, <1>2, <1>3

\* The callbacks and the application.
LEMMA OthersOrder ==
  ASSUME Typed, Stages, Begins, Taken, Ordered,
         \/ \E k \in Kinds : Arrive(k) \/ PreRecPush(k)
         \/ Start \/ Stop \/ ManualSplit \/ Reset \/ ResetThread \/ ResetParam \/ Disable
         \/ UNCHANGED vars
  PROVE  Begins' /\ Taken' /\ Ordered'
<1>1. procList' = procList /\ apart' = apart /\ h'.mux = h.mux
  BY DEF Arrive, PreRecPush, Start, Stop, Stopped, ManualSplit, Reset, ResetThread, ResetParam, Disable,
         vars, Typed, Handle
<1>2. file'.last = file.last /\ file'.spoilt = file.spoilt
  BY DEF Arrive, PreRecPush, Start, Stop, ManualSplit, Reset, ResetThread, ResetParam, Disable,
         vars, Typed, File
<1>3. thr'.cell = thr.cell /\ (thr'.pc = thr.pc \/ (thr.pc \notin Opening /\ thr'.pc \notin Opening))
  BY DEF Arrive, PreRecPush, Start, Stop, ManualSplit, Reset, ResetThread, ResetParam, Disable,
         vars, Typed, Thread, Opening
<1>4. thr.pc \in {"video", "audio"} /\ NoneBetween => NoneBetween'
  <2>1. ASSUME NEW k \in Kinds, Arrive(k) PROVE NoneBetween => NoneBetween'
    BY <2>1 DEF Arrive, NoneBetween, Typed, Frames
  <2>2. ASSUME NEW k \in Kinds, PreRecPush(k) PROVE thr.pc \notin {"video", "audio"}
    BY <2>2 DEF PreRecPush, Taking
  <2>3. QED
    BY <2>1, <2>2 DEF Start, Stop, ManualSplit, Reset, ResetThread, ResetParam, Disable, vars, NoneBetween
<1>5. QED
  BY <1>1, <1>2, <1>3, <1>4, QuietOrder

\* A callback puts its frame behind all others.
LEMMA CellPushOrder ==
  ASSUME Typed, Stages, Known, Begins, Taken, Ordered, NEW k \in Kinds, CellPush(k)
  PROVE  Begins' /\ Taken' /\ Ordered'
<1> DEFINE c == Cell(k, next[k], TRUE)
<1>1. /\ procList' = Append(procList, c) /\ cb[k] = "get" /\ next[k] \in Int
      /\ cb' = [cb EXCEPT ![k] = "idle"] /\ DOMAIN cb = Kinds
      /\ UNCHANGED <<h, thr, file, apart>>
  BY DEF CellPush, Push, Typed, Frames
<1>2. c \in Cells /\ c.k = k /\ c.t = next[k]
  BY TimesOfFrames DEF CellPush, Cell, Cells
<1>3. procList \in Seq(Cells)
  BY DEF Typed, Lists
<1>4. /\ Len(procList') = Len(procList) + 1 /\ Len(procList) \in Nat
      /\ DOMAIN procList = 1 .. Len(procList) /\ DOMAIN procList' = 1 .. Len(procList) + 1
      /\ \A i \in 1 .. Len(procList) + 1 : procList'[i] = IF i <= Len(procList) THEN procList[i] ELSE c
  <2> HIDE DEF c
  <2>1. procList' \in Seq(Cells)
    BY <1>1, <1>2, <1>3
  <2>2. /\ Len(procList') = Len(procList) + 1
        /\ \A i \in 1 .. Len(procList) + 1 : procList'[i] = IF i <= Len(procList) THEN procList[i] ELSE c
    BY <1>1, <1>2, <1>3, Grown
  <2>3. QED
    BY <1>3, <2>1, <2>2
<1> HIDE DEF c
<1>5. Begins'
  BY <1>1 DEF Begins
<1>6. ~NoneBetween
  BY <1>1 DEF NoneBetween
<1>7. Taken'
  <2>1. CASE apart /\ thr.pc = "first"
    <3>1. procList # <<>> /\ IsKey(procList[1])
      BY <2>1 DEF Taken, Typed, Lists
    <3>2. procList'[1] = procList[1]
      BY <1>3, <1>4, <3>1
    <3>3. QED
      BY <1>1, <2>1, <3>1, <3>2 DEF Taken, IsKey
  <2>2. CASE apart /\ thr.pc = "begin"
    BY <1>1, <2>2 DEF Taken
  <2>3. QED
    BY <1>1, <1>6, <2>1, <2>2 DEF Taken
<1>8. ASSUME apart PROVE Rises' /\ (thr.pc \notin {"audio", "first"} => Ahead') /\ (~file.spoilt => Fresh')
  <2>2. thr.cell # NoCell /\ thr.cell.k = k => thr.cell.t < next[k]
    BY <1>8 DEF Known, Reached
  <2>3. file.last[k] < next[k]
    BY <1>8 DEF Known, Reached
  <2>4. Rises'
    <3> SUFFICES ASSUME NEW i \in 1 .. Len(procList) + 1, NEW j \in 1 .. Len(procList) + 1, i < j,
                        procList'[i].k = procList'[j].k
                 PROVE  procList'[i].t < procList'[j].t
      BY <1>4 DEF Rises
    <3>1. i \in 1 .. Len(procList) /\ procList'[i] = procList[i]
      BY <1>4
    <3>2. CASE j <= Len(procList)
      <4>1. j \in 1 .. Len(procList) /\ procList'[j] = procList[j]
        BY <1>4, <3>2
      <4>2. QED
        BY <1>4, <1>8, <3>1, <4>1 DEF Ordered, Rises
    <3>3. CASE ~(j <= Len(procList))
      <4>1. procList'[j] = c
        BY <1>4, <3>3
      <4>2. procList'[j].t = next[k] /\ procList[i].k = k
        BY <1>2, <3>1, <4>1
      <4>3. procList[i].t < next[k]
        <5>1. procList[i].t \in Reached[k]
          BY <1>4, <3>1, <4>2 DEF Known
        <5>2. QED
          BY <1>8, <5>1 DEF Reached
      <4>4. QED
        BY <3>1, <4>2, <4>3
    <3>4. QED
      BY <3>2, <3>3
  <2>5. ASSUME thr.pc \notin {"audio", "first"} PROVE Ahead'
    <3>1. thr.cell.k = k => thr.cell.t < next[k]
      <4>1. CASE thr.cell = NoCell
        <5>1. thr.cell.t = -1 /\ next[k] \in Nat
          BY <4>1 DEF NoCell, Cell, Typed, Frames
        <5>2. QED
          BY <5>1
      <4>2. QED
        BY <2>2, <4>1
    <3>2. QED
      BY <1>1, <1>2, <1>4, <1>8, <2>5, <3>1 DEF Ordered, Ahead
  <2>6. ASSUME ~file.spoilt PROVE Fresh'
    BY <1>1, <1>2, <1>4, <1>8, <2>3, <2>6 DEF Ordered, Fresh
  <2>7. QED
    BY <2>4, <2>5, <2>6
<1>9. Ordered'
  BY <1>1, <1>8 DEF Ordered
<1>10. QED
  BY <1>5, <1>7, <1>9

\* The thread takes the first cell, or takes it as the beginning of a file.
LEMMA FirstOrder ==
  ASSUME Typed, Stages, Begins, Taken, Ordered, CellPop \/ TakeFirst
  PROVE  Begins' /\ Taken' /\ Ordered'
<1>1. /\ procList # <<>> /\ procList' = Tail(procList) /\ thr'.cell = procList[1]
      /\ UNCHANGED <<h, file, apart>>
      /\ \/ thr.pc = "pop" /\ thr'.pc = "look"
         \/ thr.pc = "first" /\ thr'.pc = "begin"
  <2>1. /\ procList # <<>> /\ procList' = Tail(procList)
        /\ UNCHANGED <<h, file, apart>>
        /\ thr.pc \in {"pop", "first"}
    BY DEF CellPop, TakeFirst, Typed, Lists
  <2>2. /\ thr'.cell = Head(procList)
        /\ \/ thr.pc = "pop" /\ thr'.pc = "look"
           \/ thr.pc = "first" /\ thr'.pc = "begin"
    <3>1. DOMAIN thr = {"pc", "cell", "seek"}
      BY DEF Typed, Thread
    <3>2. QED
      BY <3>1 DEF CellPop, TakeFirst
  <2>3. Head(procList) = procList[1]
    BY <2>1 DEF Typed, Lists
  <2>4. QED
    BY <2>1, <2>2, <2>3
<1>2. /\ procList \in Seq(Cells) /\ Len(procList) \in Nat /\ Len(procList) >= 1
      /\ DOMAIN procList = 1 .. Len(procList) /\ DOMAIN procList' = 1 .. Len(procList) - 1
      /\ \A i \in 1 .. Len(procList) - 1 : procList'[i] = procList[i + 1]
  <2>1. procList \in Seq(Cells)
    BY DEF Typed, Lists
  <2>2. /\ Tail(procList) \in Seq(Cells) /\ Len(Tail(procList)) = Len(procList) - 1
        /\ \A i \in 1 .. Len(procList) - 1 : Tail(procList)[i] = procList[i + 1]
    BY <1>1, <2>1, Shorter
  <2>3. QED
    BY <1>1, <2>1, <2>2
<1>3. Begins'
  BY <1>1 DEF Begins, Opening
<1>4. Taken'
  BY <1>1 DEF Taken, IsKey
<1>5. ASSUME apart PROVE Rises' /\ Ahead' /\ (~file.spoilt => Fresh')
  <2>1. Rises'
    <3> SUFFICES ASSUME NEW i \in DOMAIN procList', NEW j \in DOMAIN procList',
                        i < j, procList'[i].k = procList'[j].k
                 PROVE  procList'[i].t < procList'[j].t
      BY DEF Rises
    <3>1. /\ i + 1 \in DOMAIN procList /\ procList'[i] = procList[i + 1]
          /\ j + 1 \in DOMAIN procList /\ procList'[j] = procList[j + 1]
          /\ i + 1 < j + 1
      BY <1>2
    <3>2. QED
      BY <1>5, <3>1 DEF Ordered, Rises
  <2>2. Ahead'
    BY <1>1, <1>2, <1>5 DEF Ordered, Rises, Ahead
  <2>3. ASSUME ~file.spoilt PROVE Fresh'
    BY <1>1, <1>2, <1>5, <2>3 DEF Ordered, Fresh
  <2>4. QED
    BY <2>1, <2>2, <2>3
<1>6. QED
  BY <1>1, <1>3, <1>4, <1>5 DEF Ordered

\* It finds the list empty, looks at its cell, frees it, or releases the list.
LEMMA LookOrder ==
  ASSUME Typed, Stages, Begins, Taken, Ordered,
         CheckExit \/ Look \/ CellFree \/ ReleaseProc \/ ResetRelease \/ DisableRelease
  PROVE  Begins' /\ Taken' /\ Ordered'
<1>1. CASE CheckExit
  <2>1. /\ procList = <<>> /\ procList' = <<>> /\ thr.pc = "pop" /\ thr'.pc \in {"pop", "dead"}
        /\ thr'.cell = NoCell /\ thr.cell = NoCell /\ file'.last = file.last /\ file'.spoilt = file.spoilt
        /\ (apart => apart') /\ (h'.mux => h.mux)
    BY <1>1 DEF CheckExit, Closed, Typed, Thread, File, Handle
  <2>2. QED
    BY <2>1 DEF Begins, Taken, Ordered, Rises, Ahead, Fresh, Opening
<1>2. CASE Look
  <2>1. /\ procList' = procList /\ apart' = apart /\ thr.pc = "look" /\ thr'.cell = thr.cell
        /\ thr'.pc \in {"write", "free", "release", "begin"} /\ (h'.mux => h.mux)
        /\ thr'.pc \in {"release", "begin"} => ~h'.mux /\ IsKey(thr.cell)
    BY <1>2, LookValues DEF Look
  <2>2. CASE thr'.pc \in {"write", "free"}
    <3>1. file' = file
      BY <1>2, <2>2, LookValues
    <3>2. QED
      BY <2>1, <2>2, <3>1 DEF Begins, Taken, Ordered, Rises, Ahead, Fresh, Opening
  <2>3. CASE thr'.pc \in {"release", "begin"}
    <3>1. file'.spoilt = FALSE /\ \A k \in Kinds : file'.last[k] = -1
      <4>1. file' = [NoFile EXCEPT !.stopped = file.stopped, !.late = file.late]
        BY <1>2, <2>3, LookValues
      <4>2. file'.spoilt = NoFile.spoilt /\ file'.last = NoFile.last
        BY <4>1 DEF NoFile
      <4>3. QED
        BY <4>2 DEF NoFile
    <3>2. Begins' /\ Taken'
      BY <2>1, <2>3, <3>1 DEF Begins, Taken, Opening, IsKey
    <3>3. Fresh'
      <4>1. \A i \in DOMAIN procList : procList[i].k \in Kinds /\ procList[i].t \in Nat
        BY Numbers
      <4>2. thr.cell # NoCell => thr.cell.k \in Kinds /\ thr.cell.t \in Nat
        BY Numbers
      <4>3. QED
        BY <2>1, <3>1, <4>1, <4>2 DEF Fresh
    <3>4. Ordered'
      BY <2>1, <2>3, <3>3 DEF Ordered, Rises, Ahead
    <3>5. QED
      BY <3>2, <3>4
  <2>4. QED
    BY <2>1, <2>2, <2>3
<1>3. CASE CellFree
  <2>1. /\ UNCHANGED <<procList, h, file, apart>> /\ thr'.cell = NoCell /\ thr.pc = "free" /\ thr'.pc = "pop"
    BY <1>3 DEF CellFree, Typed, Thread
  <2>2. Ahead'
    <3>1. \A i \in DOMAIN procList : procList[i].t \in Nat
      BY Numbers
    <3>2. NoCell.t = -1
      BY DEF NoCell, Cell
    <3>3. QED
      BY <2>1, <3>1, <3>2 DEF Ahead
  <2>3. QED
    BY <2>1, <2>2 DEF Begins, Taken, Ordered, Rises, Fresh, Opening
<1>4. CASE ReleaseProc
  <2>1. /\ procList' = <<>> /\ UNCHANGED <<h, file, cb>> /\ thr'.cell = thr.cell /\ thr'.pc = "video"
        /\ apart' = (apart /\ NoneBetween) /\ thr.pc = "release"
    BY <1>4 DEF ReleaseProc, Typed, Thread
  <2>2. Begins' /\ Taken'
    BY <2>1 DEF Begins, Taken, Opening, NoneBetween, IsKey
  <2>3. Rises' /\ Ahead' /\ (apart /\ Fresh => Fresh')
    BY <2>1 DEF Rises, Ahead, Fresh
  <2>4. QED
    BY <2>1, <2>2, <2>3 DEF Ordered
<1>5. CASE ResetRelease \/ DisableRelease
  <2>1. /\ procList' = <<>> /\ UNCHANGED <<h, thr, apart>> /\ thr.pc \in {"pop", "look", "free", "dead"}
        /\ file'.last = file.last /\ file'.spoilt = file.spoilt
    BY <1>5 DEF ResetRelease, DisableRelease, ReleaseAll, Typed, File, Stages
  <2>2. QED
    BY <2>1 DEF Begins, Taken, Ordered, Rises, Ahead, Fresh, Opening
<1>6. QED
  BY <1>1, <1>2, <1>3, <1>4, <1>5

\* The pictures from the first key frame on.
LEMMA VideoOrder ==
  ASSUME Typed, Stages, Sorted, Begins, Taken, Ordered, TakeVideo
  PROVE  Begins' /\ Taken' /\ Ordered'
<1> DEFINE s == preList["v"]
<1>1. PICK n \in 0 .. Len(s) :
        /\ n < Len(s) => s[n + 1] % Gop = 0
        /\ procList' \in Seq(Cells) /\ Len(procList') = Len(procList) + (Len(s) - n)
        /\ \A i \in 1 .. Len(procList) + (Len(s) - n) :
             procList'[i] = IF i <= Len(procList) THEN procList[i]
                            ELSE Cell("v", s[n + (i - Len(procList))], FALSE)
        /\ thr'.pc = IF n = Len(s) THEN "begin" ELSE "audio"
        /\ thr'.cell = thr.cell
  BY TakeVideoValues
<1>2. /\ s \in Seq(Times) /\ Len(s) \in Nat /\ \A i \in 1 .. Len(s) : s[i] \in Nat
      /\ \A i, j \in 1 .. Len(s) : i < j => s[i] < s[j]
  <2>1. "v" \in Kinds
    BY DEF Kinds
  <2>2. s \in Seq(Times) /\ Times \subseteq Nat /\ \A i, j \in DOMAIN s : i < j => s[i] < s[j]
    BY <2>1, Numbers DEF Sorted
  <2> HIDE DEF s
  <2>3. Len(s) \in Nat /\ DOMAIN s = 1 .. Len(s) /\ \A i \in 1 .. Len(s) : s[i] \in Times
    BY <2>2
  <2>4. QED
    BY <2>2, <2>3
<1>3. /\ thr.pc = "video" /\ UNCHANGED <<h, file, cb>> /\ apart' = (apart /\ NoneBetween)
      /\ ~h.mux /\ ~file.spoilt /\ (\A k \in Kinds : file.last[k] = -1) /\ IsKey(thr.cell)
  BY DEF TakeVideo, Begins, Opening
<1>4. Begins'
  BY <1>1, <1>3 DEF Begins, Opening
<1> HIDE DEF s
<1>5. ASSUME apart, NoneBetween PROVE Taken' /\ Rises' /\ Fresh' /\ (thr'.pc = "begin" => Ahead')
  <2>1. procList = <<>> /\ Len(procList) = 0
    BY <1>3, <1>5 DEF Taken
  <2>2. /\ DOMAIN procList' = 1 .. Len(s) - n /\ n \in Nat /\ n <= Len(s)
        /\ \A i \in 1 .. Len(s) - n : procList'[i] = Cell("v", s[n + i], FALSE) /\ n + i \in 1 .. Len(s)
    <3>1. n \in Nat /\ n <= Len(s) /\ Len(procList') = Len(s) - n
      BY <1>1, <1>2, <2>1
    <3>2. ASSUME NEW i \in 1 .. Len(s) - n
          PROVE  procList'[i] = Cell("v", s[n + i], FALSE) /\ n + i \in 1 .. Len(s)
      <4>1. i \in 1 .. Len(procList) + (Len(s) - n) /\ ~(i <= Len(procList))
        BY <1>2, <2>1, <3>1
      <4>2. procList'[i] = Cell("v", s[n + (i - Len(procList))], FALSE)
        BY <1>1, <4>1
      <4>3. i - Len(procList) = i
        BY <2>1
      <4>4. n + i \in 1 .. Len(s)
        BY <1>2, <3>1
      <4>5. QED
        BY <4>2, <4>3, <4>4
    <3>3. DOMAIN procList' = 1 .. Len(procList')
      BY <1>1
    <3>4. QED
      BY <3>1, <3>2, <3>3
  <2>3. \A i \in 1 .. Len(s) - n : procList'[i].k = "v" /\ procList'[i].t = s[n + i]
    BY <2>2 DEF Cell
  <2>4. Rises'
    <3> SUFFICES ASSUME NEW i \in 1 .. Len(s) - n, NEW j \in 1 .. Len(s) - n, i < j
                 PROVE  procList'[i].t < procList'[j].t
      BY <2>2 DEF Rises
    <3>1. n + i \in 1 .. Len(s) /\ n + j \in 1 .. Len(s) /\ n + i < n + j
      BY <1>2, <2>2
    <3>2. QED
      BY <1>2, <2>3, <3>1
  <2>5. Fresh'
    <3>1. thr.cell # NoCell => thr.cell.k \in Kinds /\ thr.cell.t \in Nat
      BY Numbers
    <3>2. file'.last["v"] = -1 /\ (thr.cell # NoCell => file'.last[thr.cell.k] = -1)
      BY <1>3, <3>1 DEF Kinds
    <3>3. \A i \in 1 .. Len(s) - n : procList'[i].k = "v" /\ procList'[i].t \in Nat
      BY <1>2, <2>2, <2>3
    <3>4. ASSUME NEW i \in DOMAIN procList' PROVE file'.last[procList'[i].k] < procList'[i].t
      <4>1. i \in 1 .. Len(s) - n
        BY <2>2
      <4>2. procList'[i].t \in Nat /\ file'.last[procList'[i].k] = -1
        BY <3>2, <3>3, <4>1
      <4>3. QED
        BY <4>2
    <3>5. ASSUME thr'.cell # NoCell PROVE file'.last[thr'.cell.k] < thr'.cell.t
      <4>1. thr'.cell = thr.cell
        BY <1>1
      <4>2. thr.cell.t \in Nat /\ file'.last[thr.cell.k] = -1
        BY <3>1, <3>2, <3>5, <4>1
      <4>3. QED
        BY <4>1, <4>2
    <3>6. QED
      BY <3>4, <3>5 DEF Fresh
  <2>6. CASE n = Len(s)
    <3>1. thr'.pc = "begin" /\ DOMAIN procList' = {}
      BY <1>1, <1>2, <2>2, <2>6
    <3>2. Ahead' /\ Taken'
      BY <1>1, <1>3, <3>1 DEF Ahead, Taken, IsKey
    <3>3. QED
      BY <2>4, <2>5, <3>2
  <2>7. CASE n # Len(s)
    <3>1. thr'.pc = "audio" /\ n < Len(s) /\ 1 \in 1 .. Len(s) - n
      BY <1>1, <1>2, <2>2, <2>7
    <3>2. IsKey(procList[1])'
      BY <1>1, <2>3, <3>1 DEF IsKey
    <3>3. NoneBetween'
      BY <1>3, <1>5 DEF NoneBetween
    <3>4. Taken'
      BY <2>2, <2>3, <3>1, <3>2, <3>3 DEF Taken
    <3>5. QED
      BY <2>4, <2>5, <3>1, <3>4
  <2>8. QED
    BY <2>6, <2>7
<1>6. Taken'
  BY <1>3, <1>5 DEF Taken
<1>7. thr'.pc \in {"audio", "begin"}
  BY <1>1
<1>8. Ordered'
  BY <1>3, <1>5, <1>7 DEF Ordered
<1>9. QED
  BY <1>4, <1>6, <1>8

\* The sound behind them.
LEMMA AudioOrder ==
  ASSUME Typed, Stages, Sorted, Begins, Taken, Ordered, TakeAudio
  PROVE  Begins' /\ Taken' /\ Ordered'
<1> DEFINE s == preList["a"]
           p == Len(procList)
<1>1. PICK n \in 0 .. Len(s) :
        /\ procList' \in Seq(Cells) /\ Len(procList') = Len(procList) + (Len(s) - n)
        /\ \A i \in 1 .. Len(procList) + (Len(s) - n) :
             procList'[i] = IF i <= Len(procList) THEN procList[i]
                            ELSE Cell("a", s[n + (i - Len(procList))], FALSE)
        /\ thr'.pc = "first" /\ thr'.cell = thr.cell
  BY TakeAudioValues
<1>2. /\ s \in Seq(Times) /\ Len(s) \in Nat /\ \A i \in 1 .. Len(s) : s[i] \in Nat
      /\ \A i, j \in 1 .. Len(s) : i < j => s[i] < s[j]
  <2>1. "a" \in Kinds
    BY DEF Kinds
  <2>2. s \in Seq(Times) /\ Times \subseteq Nat /\ \A i, j \in DOMAIN s : i < j => s[i] < s[j]
    BY <2>1, Numbers DEF Sorted
  <2> HIDE DEF s
  <2>3. Len(s) \in Nat /\ DOMAIN s = 1 .. Len(s) /\ \A i \in 1 .. Len(s) : s[i] \in Times
    BY <2>2
  <2>4. QED
    BY <2>2, <2>3
<1>3. /\ thr.pc = "audio" /\ UNCHANGED <<h, file, cb>> /\ apart' = (apart /\ NoneBetween)
      /\ ~h.mux /\ ~file.spoilt /\ (\A k \in Kinds : file.last[k] = -1) /\ procList # <<>>
  BY DEF TakeAudio, Begins, Opening, Typed, Lists
<1>4. Begins'
  BY <1>1, <1>3 DEF Begins, Opening
<1>5. /\ DOMAIN procList = 1 .. p /\ p \in Nat /\ p >= 1
      /\ \A i \in 1 .. p : procList[i].t \in Nat
  <2>1. procList \in Seq(Cells) /\ \A i \in DOMAIN procList : procList[i].t \in Nat
    BY Numbers DEF Typed, Lists
  <2>2. QED
    BY <1>3, <2>1
<1> HIDE DEF s
<1>6. ASSUME apart, NoneBetween PROVE Taken' /\ Rises' /\ Fresh'
  <2>1. \A i \in 1 .. p : procList[i].k = "v"
    BY <1>3, <1>5, <1>6 DEF Taken
  <2>2. \A i, j \in 1 .. p : i < j => procList[i].t < procList[j].t
    BY <1>5, <1>6, <2>1 DEF Ordered, Rises
  <2>3. /\ DOMAIN procList' = 1 .. p + (Len(s) - n) /\ n \in Nat /\ n <= Len(s)
        /\ \A i \in 1 .. p : procList'[i] = procList[i]
    <3>1. n \in Nat /\ n <= Len(s) /\ Len(procList') = p + (Len(s) - n)
      BY <1>1, <1>2
    <3>2. ASSUME NEW i \in 1 .. p PROVE procList'[i] = procList[i]
      <4>1. i \in 1 .. p + (Len(s) - n) /\ i <= p
        BY <1>2, <1>5, <3>1
      <4>2. QED
        BY <1>1, <4>1
    <3>3. QED
      BY <1>1, <3>1, <3>2
  <2>4. ASSUME NEW i \in 1 .. p + (Len(s) - n), ~(i <= p)
        PROVE  /\ procList'[i].k = "a" /\ procList'[i].t = s[n + (i - p)]
               /\ n + (i - p) \in 1 .. Len(s) /\ procList'[i].t \in Nat
    <3>1. procList'[i] = Cell("a", s[n + (i - p)], FALSE)
      BY <1>1, <2>4
    <3>2. n + (i - p) \in 1 .. Len(s)
      BY <1>2, <1>5, <2>3, <2>4
    <3>3. QED
      BY <1>2, <3>1, <3>2 DEF Cell
  <2>5. Rises'
    <3> SUFFICES ASSUME NEW i \in 1 .. p + (Len(s) - n), NEW j \in 1 .. p + (Len(s) - n), i < j,
                        procList'[i].k = procList'[j].k
                 PROVE  procList'[i].t < procList'[j].t
      BY <2>3 DEF Rises
    <3>1. CASE i <= p /\ j <= p
      <4>1. i \in 1 .. p /\ j \in 1 .. p
        BY <1>5, <3>1
      <4>2. QED
        BY <2>2, <2>3, <4>1
    <3>2. CASE i <= p /\ ~(j <= p)
      <4>1. i \in 1 .. p
        BY <1>5, <3>2
      <4>2. procList'[i].k = "v" /\ procList'[j].k = "a"
        BY <2>1, <2>3, <2>4, <3>2, <4>1
      <4>3. QED
        BY <4>2
    <3>3. CASE ~(i <= p)
      <4>1. ~(j <= p)
        BY <1>5, <3>3
      <4>2. /\ procList'[i].t = s[n + (i - p)] /\ n + (i - p) \in 1 .. Len(s)
            /\ procList'[j].t = s[n + (j - p)] /\ n + (j - p) \in 1 .. Len(s)
        BY <2>4, <3>3, <4>1
      <4>3. n + (i - p) < n + (j - p)
        BY <1>5, <2>3
      <4>4. QED
        BY <1>2, <4>2, <4>3
    <3>4. QED
      BY <3>1, <3>2, <3>3
  <2>6. Fresh'
    <3>1. thr.cell # NoCell => thr.cell.k \in Kinds /\ thr.cell.t \in Nat
      BY Numbers
    <3>2. /\ file'.last["v"] = -1 /\ file'.last["a"] = -1
          /\ thr.cell # NoCell => file'.last[thr.cell.k] = -1
      BY <1>3, <3>1 DEF Kinds
    <3>3. ASSUME NEW i \in 1 .. p + (Len(s) - n)
          PROVE  procList'[i].k \in {"v", "a"} /\ procList'[i].t \in Nat
      <4>1. CASE i <= p
        <5>1. i \in 1 .. p
          BY <1>5, <4>1
        <5>2. QED
          BY <1>5, <2>1, <2>3, <5>1
      <4>2. CASE ~(i <= p)
        BY <2>4, <4>2
      <4>3. QED
        BY <4>1, <4>2
    <3>4. ASSUME NEW i \in DOMAIN procList' PROVE file'.last[procList'[i].k] < procList'[i].t
      <4>1. i \in 1 .. p + (Len(s) - n)
        BY <2>3
      <4>2. procList'[i].k \in {"v", "a"} /\ procList'[i].t \in Nat
        BY <3>3, <4>1
      <4>3. file'.last[procList'[i].k] = -1
        BY <3>2, <4>2
      <4>4. QED
        BY <4>2, <4>3
    <3>5. thr'.cell = thr.cell
      BY <1>1
    <3>6. QED
      BY <3>1, <3>2, <3>4, <3>5 DEF Fresh
  <2>7. IsKey(procList[1])'
    <3>1. IsKey(procList[1]) /\ procList'[1] = procList[1]
      BY <1>3, <1>5, <1>6, <2>3 DEF Taken
    <3>2. QED
      BY <3>1 DEF IsKey
  <2>8. Taken'
    BY <1>1, <2>7 DEF Taken
  <2>9. QED
    BY <2>5, <2>6, <2>8
<1>7. Taken' /\ Ordered'
  BY <1>1, <1>3, <1>6 DEF Taken, Ordered
<1>8. QED
  BY <1>4, <1>7

\* A frame is written: it is newer than what the file has, and the first one
\* is a key frame.
LEMMA WriteOrder ==
  ASSUME Typed, Stages, Begins, Taken, Ordered, Write
  PROVE  /\ Begins' /\ Taken' /\ Ordered'
         /\ file.inOrder => file'.inOrder
<1> DEFINE c == thr.cell
           judged == apart /\ ~file.spoilt
<1>1. /\ c \in Cells /\ c.k \in Kinds /\ c.t \in Times /\ c # NoCell
      /\ \A k \in Kinds : file'.last[k] =
           IF k # c.k THEN file.last[k] ELSE IF c.t > file.last[k] THEN c.t ELSE file.last[k]
      /\ file'.spoilt = ~judged
      /\ file'.inOrder = (file.inOrder /\
           (judged => c.t > file.last[c.k] /\ (file.last["v"] = -1 => IsKey(c))))
      /\ thr'.pc = "pop" /\ thr'.cell = NoCell
  BY WriteValues
<1>2. /\ thr.pc \in {"begin", "write"} /\ procList' = procList /\ apart' = apart
  BY DEF Write
<1>3. c.t \in Nat /\ \A k \in Kinds : file.last[k] \in Int
  BY <1>1, Numbers
<1> HIDE DEF c
<1>4. ASSUME judged
      PROVE  /\ file.last[c.k] < c.t /\ file'.last[c.k] = c.t /\ file'.last["v"] >= 0
             /\ file.last["v"] = -1 => IsKey(c)
             /\ \A i \in DOMAIN procList : file'.last[procList[i].k] < procList[i].t
  <2>1. Fresh /\ Ahead /\ Rises
    BY <1>2, <1>4 DEF Ordered
  <2>2. file.last[c.k] < c.t
    BY <1>1, <2>1 DEF Fresh, c
  <2>3. file'.last[c.k] = c.t
    BY <1>1, <1>3, <2>2
  <2>4. (thr.pc = "begin" => IsKey(c)) /\ (thr.pc = "write" => file.last["v"] >= 0)
    BY <1>4 DEF Taken, Begins, Stages, c
  <2>5. file.last["v"] = -1 => IsKey(c)
    BY <1>2, <2>4
  <2>6. file'.last["v"] >= 0
    <3>1. "v" \in Kinds
      BY DEF Kinds
    <3>2. CASE c.k = "v"
      BY <1>3, <2>3, <3>2
    <3>3. CASE c.k # "v"
      <4>1. thr.pc = "write" /\ file'.last["v"] = file.last["v"]
        BY <1>1, <1>2, <2>4, <3>1, <3>3 DEF IsKey
      <4>2. QED
        BY <2>4, <4>1
    <3>4. QED
      BY <3>2, <3>3
  <2>7. ASSUME NEW i \in DOMAIN procList PROVE file'.last[procList[i].k] < procList[i].t
    <3>1. procList[i].k \in Kinds /\ file.last[procList[i].k] < procList[i].t
      BY <2>1, Numbers DEF Fresh
    <3>2. CASE procList[i].k = c.k
      <4>1. c.t < procList[i].t
        BY <2>1, <3>2 DEF Ahead, c
      <4>2. QED
        BY <2>3, <3>2, <4>1
    <3>3. CASE procList[i].k # c.k
      BY <1>1, <3>1, <3>3
    <3>4. QED
      BY <3>2, <3>3
  <2>8. QED
    BY <2>2, <2>3, <2>5, <2>6, <2>7
<1> HIDE DEF judged
<1>5. file.inOrder => file'.inOrder
  BY <1>1, <1>3, <1>4
<1>6. Begins'
  BY <1>1, <1>2, <1>4 DEF Begins, Opening, judged
<1>7. Taken'
  BY <1>1 DEF Taken
<1>8. Ordered'
  <2>1. Ahead'
    <3>1. \A i \in DOMAIN procList : procList[i].t \in Nat
      BY Numbers
    <3>2. NoCell.t = -1
      BY DEF NoCell, Cell
    <3>3. QED
      BY <1>1, <1>2, <3>1, <3>2 DEF Ahead
  <2>2. judged => Fresh'
    BY <1>1, <1>2, <1>4 DEF Fresh
  <2>3. apart => Rises'
    BY <1>2 DEF Ordered, Rises
  <2>4. QED
    BY <1>1, <1>2, <2>1, <2>2, <2>3 DEF Ordered
<1>9. QED
  BY <1>5, <1>6, <1>7, <1>8

\* Only a written frame can break the order of the file.
LEMMA OtherFiles ==
  ASSUME Typed, [Next]_vars, ~Write
  PROVE  /\ file.inOrder => file'.inOrder
         /\ file.whole => file'.whole
<1>1. CASE Look
  <2>1. thr'.pc \in {"write", "free", "release", "begin"}
    BY <1>1, LookValues
  <2>2. CASE thr'.pc \in {"write", "free"}
    BY <1>1, <2>2, LookValues
  <2>3. CASE thr'.pc \in {"release", "begin"}
    <3>1. file' = [NoFile EXCEPT !.stopped = file.stopped, !.late = file.late]
      BY <1>1, <2>3, LookValues
    <3>2. file'.inOrder /\ file'.whole
      BY <3>1 DEF NoFile
    <3>3. QED
      BY <3>2
  <2>4. QED
    BY <2>1, <2>2, <2>3
<1>2. CASE CheckExit \/ ResetRelease \/ Stop \/ Reset
  BY <1>2 DEF CheckExit, ResetRelease, Stop, Reset, Typed, File
<1>3. CASE file' = file
  BY <1>3
<1>4. QED
  BY <1>1, <1>2, <1>3
     DEF Next, Arrive, PreRecPush, CellPush, CellPop, ReleaseProc, TakeVideo, TakeAudio, TakeFirst,
         CellFree, Start, ManualSplit, ResetThread, ResetParam, Disable, DisableRelease, vars

InOrder == Sorted /\ Begins /\ Taken /\ Ordered

LEMMA NextInOrder ==
  Typed /\ Stages /\ Known /\ InOrder /\ [Next]_vars
    => InOrder' /\ (file.inOrder => file'.inOrder)
<1> SUFFICES ASSUME Typed, Stages, Known, Sorted, Begins, Taken, Ordered, [Next]_vars
             PROVE  InOrder' /\ (file.inOrder => file'.inOrder)
  BY DEF InOrder
<1>1. Sorted'
  BY NextSorted
<1>2. Begins' /\ Taken' /\ Ordered'
  BY OthersOrder, CellPushOrder, FirstOrder, LookOrder, VideoOrder, AudioOrder, WriteOrder DEF Next
<1>3. file.inOrder => file'.inOrder
  BY WriteOrder, OtherFiles
<1>4. QED
  BY <1>1, <1>2, <1>3 DEF InOrder

LEMMA InitInOrder == Init => InOrder /\ file.inOrder
<1> SUFFICES ASSUME Init PROVE InOrder /\ file.inOrder
  OBVIOUS
<1>1. /\ procList = <<>> /\ thr.pc = "pop" /\ thr.cell = NoCell /\ apart = TRUE /\ h.mux = FALSE
      /\ file.inOrder = TRUE /\ \A k \in Kinds : preList[k] = <<>>
  BY DEF Init, NoFile
<1>2. Begins /\ Taken
  BY <1>1 DEF Begins, Taken, Opening
<1>3. Ordered
  BY <1>1 DEF Ordered, Rises, Ahead, Fresh
<1>4. Sorted
  BY <1>1 DEF Sorted
<1>5. QED
  BY <1>1, <1>2, <1>3, <1>4 DEF InOrder

\* A file begins with a key frame and its picture and its sound never go back
\* or repeat a frame, whatever was cached, cut, queued or dropped before, if no
\* callback was between the two lists when the file took them.
THEOREM FilesAreInOrder == Spec => []FileInOrder
<1> DEFINE I == InOrder /\ file.inOrder
<1>1. Init => I
  BY InitInOrder
<1>2. Typed /\ Stages /\ Known /\ I /\ [Next]_vars => I'
  BY NextInOrder
<1>3. I => FileInOrder
  BY DEF FileInOrder
<1> HIDE DEF I
<1>4. QED
  BY <1>1, <1>2, <1>3, Invariance, PTL DEF Spec

-----------------------------------------------------------------------------
(* The pictures of a file                                                  *)

\* The newest picture in the pre-record list, if there is one; the list misses
\* none, and is long enough when the thread takes it.
Newest == IF cb["v"] = "get" THEN next["v"] ELSE next["v"] - 1
Gapless ==
  /\ ~file.late /\ ~h.reseting =>
       \A i \in DOMAIN preList["v"] : preList["v"][i] = Newest - Len(preList["v"]) + i
  /\ ~file.late /\ app = "param" => preList["v"] = <<>> /\ cb["v"] = "idle"
  /\ thr.pc \in {"release", "video"} => Len(preList["v"]) >= Rate

\* The history of a late callback stays; that of a stop ends when the thread
\* finds the list of the stopped stream empty.
LEMMA Histories ==
  ASSUME Typed, [Next]_vars
  PROVE  /\ ~file'.late => ~file.late
         /\ ~file'.stopped => ~file.stopped \/ (CheckExit /\ ~h.en /\ NoneBetween)
<1>1. CASE Look
  <2>1. thr'.pc \in {"write", "free", "release", "begin"}
    BY <1>1, LookValues
  <2>2. CASE thr'.pc \in {"write", "free"}
    BY <1>1, <2>2, LookValues
  <2>3. CASE thr'.pc \in {"release", "begin"}
    <3>1. file' = [NoFile EXCEPT !.stopped = file.stopped, !.late = file.late]
      BY <1>1, <2>3, LookValues
    <3>2. file'.stopped = file.stopped /\ file'.late = file.late
      BY <3>1 DEF NoFile
    <3>3. QED
      BY <3>2
  <2>4. QED
    BY <2>1, <2>2, <2>3
<1>2. CASE CheckExit \/ ResetRelease \/ Stop \/ Reset
  BY <1>2 DEF CheckExit, ResetRelease, Stop, Reset, Typed, File
<1>3. CASE Write
  BY <1>3, WriteValues
<1>4. CASE file' = file
  BY <1>4
<1>5. QED
  BY <1>1, <1>2, <1>3, <1>4
     DEF Next, Arrive, PreRecPush, CellPush, CellPop, ReleaseProc, TakeVideo, TakeAudio, TakeFirst,
         CellFree, Start, ManualSplit, ResetThread, ResetParam, Disable, DisableRelease, vars

\* A pushed picture is the next one.
LEMMA PushGapless ==
  ASSUME Typed, Stages, Gapless, PreRecPush("v")
  PROVE  Gapless'
<1> DEFINE s == preList["v"]
           q == preList'["v"]
           t == next["v"]
<1>1. "v" \in Kinds
  BY DEF Kinds
<1>2. /\ cb["v"] = "pre" /\ ~Taking /\ UNCHANGED <<h, file, app, thr>> /\ t \in Nat
      /\ cb' = [cb EXCEPT !["v"] = IF h.en THEN "get" ELSE "idle"]
      /\ next' = [next EXCEPT !["v"] = IF h.en THEN t ELSE t + 1]
      /\ cb \in [Kinds -> {"idle", "pre", "get"}] /\ next \in [Kinds -> Nat]
  BY <1>1 DEF PreRecPush, Typed, Frames
<1>3. Newest = t - 1 /\ Newest' = t
  BY <1>1, <1>2 DEF Newest
<1>4. /\ s \in Seq(Times) /\ q \in Seq(Times)
      /\ \/ q = <<>>
         \/ /\ Len(q) = Len(s) + 1
            /\ \A i \in 1 .. Len(s) + 1 : q[i] = IF i <= Len(s) THEN s[i] ELSE t
         \/ /\ Len(q) = Len(s)
            /\ \A i \in 1 .. Len(s) : q[i] = IF i < Len(s) THEN s[i + 1] ELSE t
  BY <1>1, PushKeeps, Numbers
<1> HIDE DEF s, q, t
<1>5. DOMAIN q = 1 .. Len(q) /\ DOMAIN s = 1 .. Len(s) /\ Len(s) \in Nat
  BY <1>4
<1>6. ASSUME ~file.late, ~h.reseting, NEW i \in DOMAIN q PROVE q[i] = t - Len(q) + i
  <2>1. \A l \in 1 .. Len(s) : s[l] = t - 1 - Len(s) + l
    BY <1>3, <1>5, <1>6 DEF Gapless, s
  <2>2. CASE q = <<>>
    BY <1>6, <2>2
  <2>3. CASE Len(q) = Len(s) + 1 /\ \A l \in 1 .. Len(s) + 1 : q[l] = IF l <= Len(s) THEN s[l] ELSE t
    <3>1. CASE i <= Len(s)
      BY <1>2, <1>5, <1>6, <2>1, <2>3, <3>1
    <3>2. CASE ~(i <= Len(s))
      BY <1>2, <1>5, <1>6, <2>3, <3>2
    <3>3. QED
      BY <3>1, <3>2
  <2>4. CASE Len(q) = Len(s) /\ \A l \in 1 .. Len(s) : q[l] = IF l < Len(s) THEN s[l + 1] ELSE t
    <3>1. CASE i < Len(s)
      <4>1. i + 1 \in 1 .. Len(s) /\ q[i] = s[i + 1]
        BY <1>5, <1>6, <2>4, <3>1
      <4>2. QED
        BY <1>2, <1>5, <2>1, <2>4, <4>1
    <3>2. CASE ~(i < Len(s))
      BY <1>2, <1>5, <1>6, <2>4, <3>2
    <3>3. QED
      BY <3>1, <3>2
  <2>5. QED
    BY <1>4, <2>2, <2>3, <2>4
<1>7. /\ app # "param" \/ file.late
      /\ thr.pc \notin {"release", "video"}
  BY <1>2 DEF Gapless, Taking
<1>8. QED
  BY <1>2, <1>3, <1>6, <1>7 DEF Gapless, q

LEMMA NextGapless == Typed /\ Stages /\ Gapless /\ [Next]_vars => Gapless'
<1> SUFFICES ASSUME Typed, Stages, Gapless, [Next]_vars PROVE Gapless'
  OBVIOUS
<1> DEFINE V == preList["v"]
<1>1. /\ "v" \in Kinds /\ DOMAIN preList = Kinds /\ cb \in [Kinds -> {"idle", "pre", "get"}]
      /\ next \in [Kinds -> Nat] /\ (~file'.late => ~file.late)
  BY Histories DEF Kinds, Typed, Lists, Frames
<1>2. ASSUME NEW k \in Kinds, PreRecPush(k) PROVE Gapless'
  <2>1. CASE k = "v"
    BY <1>2, <2>1, PushGapless
  <2>2. CASE k # "v"
    <3>1. preList'["v"] = preList["v"]
      BY <1>1, <1>2, <2>2, PushKeeps
    <3>2. UNCHANGED <<h, file, app, thr>> /\ cb'["v"] = cb["v"] /\ next'["v"] = next["v"]
      BY <1>1, <1>2, <2>2 DEF PreRecPush
    <3>3. QED
      BY <3>1, <3>2 DEF Gapless, Newest
  <2>3. QED
    BY <2>1, <2>2
<1>3. ASSUME NEW k \in Kinds, Arrive(k) PROVE Gapless'
  <2>1. UNCHANGED <<h, preList, thr, file, app>> /\ cb[k] = "idle"
    BY <1>3 DEF Arrive
  <2>2. CASE h.reseting
    <3>1. cb' = cb
      BY <1>3, <2>2 DEF Arrive
    <3>2. QED
      BY <2>1, <2>2, <3>1 DEF Gapless
  <2>3. CASE ~h.reseting
    <3>1. next' = next /\ cb' = [cb EXCEPT ![k] = "pre"] /\ app # "param"
      BY <1>3, <2>3 DEF Arrive, Stages
    <3>2. Newest' = Newest
      BY <1>1, <2>1, <3>1 DEF Newest
    <3>3. QED
      BY <2>1, <3>1, <3>2 DEF Gapless
  <2>4. QED
    BY <2>2, <2>3
<1>4. ASSUME NEW k \in Kinds, CellPush(k) PROVE Gapless'
  <2>1. /\ UNCHANGED <<h, preList, thr, file, app>> /\ cb[k] = "get"
        /\ cb' = [cb EXCEPT ![k] = "idle"] /\ next' = [next EXCEPT ![k] = next[k] + 1]
    BY <1>4 DEF CellPush
  <2>2. Newest' = Newest
    BY <1>1, <2>1 DEF Newest
  <2>3. ~file.late /\ app = "param" => cb'["v"] = "idle"
    BY <1>1, <2>1 DEF Gapless
  <2>4. QED
    BY <2>1, <2>2, <2>3 DEF Gapless
<1>5. CASE TakeVideo \/ DisableRelease \/ ResetRelease
  <2>1. preList'["v"] = <<>> /\ cb' = cb /\ thr'.pc \notin {"release", "video"}
    <3>1. CASE TakeVideo
      BY <1>1, <3>1, TakeVideoValues DEF TakeVideo
    <3>2. CASE DisableRelease \/ ResetRelease
      BY <1>1, <3>2 DEF DisableRelease, ResetRelease, ReleaseAll, Stages
    <3>3. QED
      BY <1>5, <3>1, <3>2
  <2>2. ~file'.late /\ app' = "param" => cb["v"] = "idle"
    <3>1. CASE TakeVideo
      BY <1>1, <3>1 DEF TakeVideo, Gapless
    <3>2. CASE DisableRelease
      BY <3>2 DEF DisableRelease
    <3>3. CASE ResetRelease
      BY <1>1, <3>3 DEF ResetRelease, Typed, File
    <3>4. QED
      BY <1>5, <3>1, <3>2, <3>3
  <2>3. QED
    BY <2>1, <2>2 DEF Gapless
<1>6. CASE TakeAudio
  <2>1. preList'["v"] = V /\ UNCHANGED <<h, cb, next, app, file>> /\ thr'.pc = "first"
    BY <1>1, <1>6, TakeAudioValues DEF TakeAudio
  <2>2. QED
    BY <2>1 DEF Gapless, Newest
<1>7. CASE Look
  <2>1. UNCHANGED <<preList, cb, next, app>> /\ h'.reseting = h.reseting
        /\ (thr'.pc = "release" => Len(V) >= Rate) /\ thr'.pc # "video"
    BY <1>7, LookValues DEF Look
  <2>2. QED
    BY <1>1, <2>1 DEF Gapless, Newest
<1>8. ASSUME UNCHANGED <<preList, cb, next>>, app' = "param" => app = "param",
             h'.reseting = h.reseting, thr'.pc \in {"release", "video"} => thr.pc \in {"release", "video"}
      PROVE  Gapless'
  BY <1>1, <1>8 DEF Gapless, Newest
<1>9. CASE CheckExit
  BY <1>8, <1>9 DEF CheckExit, Closed, Typed, Handle, Thread
<1>10. CASE CellPop \/ ReleaseProc \/ TakeFirst \/ Write \/ CellFree
  BY <1>8, <1>10 DEF CellPop, ReleaseProc, TakeFirst, Write, CellFree, Typed, Handle, Thread
<1>11. CASE Start \/ Stop \/ ManualSplit \/ ResetThread \/ Disable \/ UNCHANGED vars
  BY <1>8, <1>11 DEF Start, Stop, Stopped, ManualSplit, ResetThread, Disable, Op, vars, Typed, Handle, Thread
<1>12. CASE Reset
  BY <1>1, <1>12 DEF Reset, Op, Stopped, Gapless, Typed, Handle
<1>13. CASE ResetParam
  BY <1>1, <1>13 DEF ResetParam, Gapless
<1>14. QED
  BY <1>2, <1>3, <1>4, <1>5, <1>6, <1>7, <1>9, <1>10, <1>11, <1>12, <1>13 DEF Next

\* A stream that is stopped and whose list was found empty has no cell and no
\* open file; a cell is freed unwritten only while no file is open.
Halted ==
  /\ ~h.en /\ ~file.stopped /\ app \notin Leaving =>
       procList = <<>> /\ NoneBetween /\ thr.cell = NoCell /\ ~h.mux
  /\ thr.pc = "free" /\ h.mux => file.stopped \/ app \in Leaving

LEMMA NextHalted == Typed /\ Stages /\ Halted /\ [Next]_vars => Halted'
<1> SUFFICES ASSUME Typed, Stages, Halted, [Next]_vars PROVE Halted'
  OBVIOUS
<1>1. \A k \in Kinds : cb \in [Kinds -> {"idle", "pre", "get"}]
  BY DEF Typed, Frames
<1> DEFINE Still == procList = <<>> /\ NoneBetween /\ thr.cell = NoCell /\ ~h.mux
<1>2. ASSUME NEW k \in Kinds, Arrive(k) \/ PreRecPush(k) \/ CellPush(k) PROVE Halted'
  <2>1. UNCHANGED <<h, thr, file, app>>
    BY <1>2 DEF Arrive, PreRecPush, CellPush
  <2>2. ASSUME Still, ~h.en PROVE procList' = <<>> /\ NoneBetween'
    <3>1. CASE Arrive(k)
      BY <1>1, <2>2, <3>1 DEF Arrive, NoneBetween
    <3>2. CASE PreRecPush(k)
      BY <1>1, <2>2, <3>2 DEF PreRecPush, NoneBetween
    <3>3. CASE CellPush(k)
      BY <2>2, <3>3 DEF CellPush, NoneBetween
    <3>4. QED
      BY <1>2, <3>1, <3>2, <3>3
  <2>3. QED
    BY <2>1, <2>2 DEF Halted
<1>3. CASE CheckExit
  <2>1. /\ procList = <<>> /\ procList' = <<>> /\ cb' = cb /\ thr'.cell = NoCell /\ app' = app
        /\ h'.en = h.en /\ (~h.en => ~h'.mux) /\ thr'.pc # "free"
        /\ file'.stopped = (file.stopped /\ (h.en \/ ~NoneBetween))
    BY <1>3 DEF CheckExit, Closed, Typed, Handle, Thread, File
  <2>2. QED
    BY <2>1 DEF Halted, NoneBetween
<1>4. CASE CellPop \/ Look \/ ReleaseProc \/ TakeVideo \/ TakeAudio \/ TakeFirst \/ Write \/ CellFree
  <2>1. /\ h'.en = h.en /\ app' = app /\ (~file'.stopped => ~file.stopped)
        /\ procList # <<>> \/ thr.cell # NoCell
    <3>1. ~file'.stopped => ~file.stopped
      BY <1>4, Histories DEF CheckExit, CellPop, Look, ReleaseProc, TakeVideo, TakeAudio, TakeFirst, Write, CellFree
    <3>2. procList # <<>> \/ thr.cell # NoCell
      BY <1>4 DEF CellPop, Look, ReleaseProc, TakeVideo, TakeAudio, TakeFirst, Write, CellFree, Typed, Thread
    <3>3. h'.en = h.en /\ app' = app
      <4>1. CASE Look
        BY <4>1, LookValues DEF Look
      <4>2. CASE ~Look
        BY <1>4, <4>2 DEF CellPop, ReleaseProc, TakeVideo, TakeAudio, TakeFirst, Write, CellFree, Typed, Handle
      <4>3. QED
        BY <4>1, <4>2
    <3>4. QED
      BY <3>1, <3>2, <3>3
  <2>2. h.en \/ file.stopped \/ app \in Leaving
    BY <2>1 DEF Halted
  <2>3. thr'.pc = "free" /\ h'.mux => file'.stopped \/ app' \in Leaving
    <3>1. CASE Look
      <4>1. thr'.pc = "free" /\ h'.mux => ~h.en /\ file' = file
        BY <3>1, LookValues
      <4>2. QED
        BY <2>1, <2>2, <4>1
    <3>2. CASE ~Look
      <4>1. thr'.pc # "free"
        <5>1. CASE TakeVideo
          BY <5>1, TakeVideoValues
        <5>2. CASE TakeAudio
          BY <5>2, TakeAudioValues
        <5>3. CASE CellPop \/ ReleaseProc \/ TakeFirst \/ Write \/ CellFree
          BY <5>3 DEF CellPop, ReleaseProc, TakeFirst, Write, CellFree, Typed, Thread
        <5>4. QED
          BY <1>4, <3>2, <5>1, <5>2, <5>3
      <4>2. QED
        BY <4>1
    <3>3. QED
      BY <3>1, <3>2
  <2>4. QED
    BY <2>1, <2>2, <2>3 DEF Halted
<1>5. CASE Start \/ Stop \/ ManualSplit \/ Reset \/ ResetThread \/ ResetParam \/ Disable \/ UNCHANGED vars
  <2>1. /\ UNCHANGED <<procList, cb>> /\ thr'.cell = thr.cell /\ h'.mux = h.mux
        /\ thr'.pc = "free" => thr.pc = "free"
        /\ file.stopped => file'.stopped
        /\ app \in Leaving => app' \in Leaving
    BY <1>5 DEF Start, Stop, Stopped, ManualSplit, Reset, ResetThread, ResetParam, Disable, Op, vars,
                Typed, Handle, Thread, File, Leaving
  <2>2. ~h'.en /\ ~file'.stopped /\ app' \notin Leaving => ~h.en
    BY <1>5 DEF Start, Stop, Stopped, ManualSplit, Reset, ResetThread, ResetParam, Disable, Op, vars,
                Typed, Handle, File, Leaving
  <2>3. QED
    BY <2>1, <2>2 DEF Halted, NoneBetween
<1>6. CASE ResetRelease \/ DisableRelease
  <2>1. /\ procList' = <<>> /\ UNCHANGED <<h, cb, thr>> /\ file'.stopped = file.stopped
        /\ app \in Leaving => app' \in Leaving
        /\ app' \notin Leaving => app \notin Leaving
    BY <1>6 DEF ResetRelease, DisableRelease, ReleaseAll, Typed, File, Leaving
  <2>2. QED
    BY <2>1 DEF Halted, NoneBetween
<1>7. QED
  BY <1>2, <1>3, <1>4, <1>5, <1>6 DEF Next

\* Every picture after one that is queued, in hand or written last is queued,
\* unless the stream was stopped meanwhile.
Queued == {t \in Times : \E i \in DOMAIN procList : procList[i].k = "v" /\ procList[i].t = t}
Hand == {t \in Times : thr.cell.k = "v" /\ thr.cell.t = t}
Later(t) == {u \in Times : t < u /\ u < next["v"]}
Chained == apart /\ ~file.late /\ ~file.stopped =>
  /\ \A t \in Queued : Later(t) \subseteq Queued
  /\ thr.cell # NoCell /\ thr.cell.k = "v" /\ thr.pc \notin {"video", "audio", "first"} =>
       Later(thr.cell.t) \subseteq Queued
  /\ h.mux /\ ~file.spoilt /\ (h.en \/ thr.pc = "write") => Later(file.last["v"]) \subseteq Queued \cup Hand

\* A step that leaves the cells alone.
LEMMA SameChain ==
  ASSUME Typed, Chained, procList' = procList, next'["v"] = next["v"], thr'.cell = thr.cell,
         apart' => apart, ~file'.late => ~file.late, ~file'.stopped => ~file.stopped,
         file'.last = file.last, ~file'.spoilt => ~file.spoilt, h'.mux => h.mux,
         h'.mux /\ (h'.en \/ thr'.pc = "write") => h.en \/ thr.pc = "write",
         thr'.pc = thr.pc \/ thr.pc \notin {"video", "audio", "first"}
  PROVE  Chained'
<1>1. Queued' = Queued /\ Hand' = Hand
  BY DEF Queued, Hand
<1>2. \A t : Later(t)' = Later(t)
  BY DEF Later
<1>3. Later(thr.cell.t)' = Later(thr.cell.t) /\ Later(file.last["v"])' = Later(file.last["v"])
  BY DEF Later
<1>4. QED
  BY <1>1, <1>2, <1>3 DEF Chained

\* A step after which there are no cells, or no file is judged.
LEMMA NoChain ==
  ASSUME \/ file'.stopped
         \/ file'.late
         \/ ~apart'
         \/ /\ procList' = <<>>
            /\ thr'.cell = NoCell \/ thr'.pc \in {"video", "audio", "first"}
            /\ ~h'.mux \/ file'.spoilt \/ (~h'.en /\ thr'.pc # "write")
  PROVE  Chained'
<1>1. CASE file'.stopped \/ file'.late \/ ~apart'
  BY <1>1 DEF Chained
<1>2. CASE procList' = <<>>
  <2>1. Queued' = {}
    BY <1>2 DEF Queued
  <2>2. QED
    BY <2>1, <1>1 DEF Chained
<1>3. QED
  BY <1>1, <1>2

\* Callbacks: a picture that comes while the stream is not stopped is queued.
LEMMA CallbackChain ==
  ASSUME Typed, Stages, Known, Halted, Chained, NEW k \in Kinds, Arrive(k) \/ PreRecPush(k) \/ CellPush(k)
  PROVE  Chained'
<1>1. /\ UNCHANGED <<h, thr, file, app, apart>> /\ "v" \in Kinds
      /\ next \in [Kinds -> Nat] /\ cb \in [Kinds -> {"idle", "pre", "get"}]
  BY DEF Arrive, PreRecPush, CellPush, Kinds, Typed, Frames
<1>2. CASE (Arrive(k) \/ PreRecPush(k)) /\ next'["v"] = next["v"]
  <2>1. procList' = procList
    BY <1>2 DEF Arrive, PreRecPush
  <2>2. QED
    BY <1>1, <1>2, <2>1, SameChain
<1>3. CASE (Arrive(k) \/ PreRecPush(k)) /\ next'["v"] # next["v"]
  <2>1. procList' = procList /\ ~h.en /\ app \notin Leaving
    <3>1. CASE Arrive(k)
      BY <1>3, <3>1 DEF Arrive, Stages, Leaving
    <3>2. CASE PreRecPush(k)
      <4>1. cb[k] = "pre" /\ procList' = procList
        BY <3>2 DEF PreRecPush
      <4>2. ~h.en
        BY <1>1, <1>3, <3>2 DEF PreRecPush
      <4>3. QED
        BY <4>1, <4>2 DEF Stages
    <3>3. QED
      BY <1>3, <3>1, <3>2
  <2>2. file.stopped \/ (procList = <<>> /\ thr.cell = NoCell /\ ~h.mux)
    BY <2>1 DEF Halted
  <2>3. QED
    BY <1>1, <2>1, <2>2, NoChain
<1>4. CASE CellPush(k)
  <2> DEFINE c == Cell(k, next[k], TRUE)
             t == next[k]
  <2>1. /\ procList' = Append(procList, c) /\ next' = [next EXCEPT ![k] = t + 1] /\ t \in Times
        /\ c.k = k /\ c.t = t /\ c \in Cells
    BY <1>4, TimesOfFrames DEF CellPush, Push, Cell, Cells
  <2>2. procList \in Seq(Cells)
    BY DEF Typed, Lists
  <2> HIDE DEF c
  <2>3. /\ DOMAIN procList = 1 .. Len(procList) /\ DOMAIN procList' = 1 .. Len(procList) + 1 /\ Len(procList) \in Nat
        /\ \A i \in 1 .. Len(procList) + 1 : procList'[i] = IF i <= Len(procList) THEN procList[i] ELSE c
    <3>1. /\ procList' \in Seq(Cells) /\ Len(procList') = Len(procList) + 1
          /\ \A i \in 1 .. Len(procList) + 1 : procList'[i] = IF i <= Len(procList) THEN procList[i] ELSE c
      BY <2>1, <2>2, Grown
    <3>2. QED
      BY <2>2, <3>1
  <2>4. Queued \subseteq Queued'
    <3> SUFFICES ASSUME NEW u \in Times, NEW i \in DOMAIN procList, procList[i].k = "v", procList[i].t = u
                 PROVE  u \in Queued'
      BY DEF Queued
    <3>1. i \in DOMAIN procList' /\ procList'[i] = procList[i]
      BY <2>3
    <3>2. QED
      BY <3>1 DEF Queued
  <2>5. Hand' = Hand
    BY <1>1 DEF Hand
  <2>6. CASE k = "v"
    <3>1. t \in Queued'
      <4>1. Len(procList) + 1 \in DOMAIN procList' /\ procList'[Len(procList) + 1] = c
        BY <2>3
      <4>2. QED
        BY <2>1, <2>6, <4>1 DEF Queued
    <3>2. Queued' \subseteq Queued \cup {t}
      <4> SUFFICES ASSUME NEW u \in Times, NEW i \in DOMAIN procList', procList'[i].k = "v", procList'[i].t = u
                   PROVE  u \in Queued \cup {t}
        BY DEF Queued
      <4>1. CASE i <= Len(procList)
        <5>1. i \in DOMAIN procList /\ procList'[i] = procList[i]
          BY <2>3, <4>1
        <5>2. QED
          BY <5>1 DEF Queued
      <4>2. CASE ~(i <= Len(procList))
        BY <2>1, <2>3, <4>2
      <4>3. QED
        BY <4>1, <4>2
    <3>3. next'["v"] = t + 1 /\ next["v"] = t /\ t \in Int /\ Times \subseteq Int
      BY <1>1, <2>1, <2>6, Numbers
    <3> HIDE DEF t
    <3>4. ASSUME NEW x \in Int PROVE Later(x)' \subseteq Later(x) \cup {t}
      <4>1. ASSUME NEW u \in Times, x < u, u < next'["v"] PROVE u \in Later(x) \cup {t}
        BY <3>3, <4>1 DEF Later
      <4>2. QED
        BY <4>1 DEF Later
    <3>5. ASSUME NEW x \in Int, x = t PROVE Later(x)' = {}
      <4>1. ASSUME NEW u \in Times, x < u, u < next'["v"] PROVE FALSE
        BY <3>3, <3>5, <4>1
      <4>2. QED
        BY <4>1 DEF Later
    <3>6. ASSUME apart, ~file.late, ~file.stopped, NEW x \in Queued' PROVE Later(x)' \subseteq Queued'
      <4>1. CASE x = t
        BY <3>3, <3>5, <4>1
      <4>2. CASE x # t
        <5>1. x \in Queued /\ x \in Int
          BY <3>2, <3>3, <3>6, <4>2 DEF Queued
        <5>2. Later(x) \subseteq Queued
          BY <3>6, <5>1 DEF Chained
        <5>3. QED
          BY <2>4, <3>1, <3>4, <5>1, <5>2
      <4>3. QED
        BY <4>1, <4>2
    <3>7. ASSUME apart, ~file.late, ~file.stopped, thr.cell # NoCell, thr.cell.k = "v",
                 thr.pc \notin {"video", "audio", "first"}
          PROVE  Later(thr.cell.t)' \subseteq Queued'
      <4>1. PICK x \in Int : x = thr.cell.t /\ x = thr'.cell.t
        BY <1>1, <3>7, Numbers
      <4>2. Later(x) \subseteq Queued
        BY <3>7, <4>1 DEF Chained
      <4>3. Later(x)' \subseteq Queued'
        BY <2>4, <3>1, <3>4, <4>2
      <4>4. Later(thr.cell.t)' = Later(x)'
        BY <4>1 DEF Later
      <4>5. QED
        BY <4>3, <4>4
    <3>8. ASSUME apart, ~file.late, ~file.stopped, h.mux, ~file.spoilt, h.en \/ thr.pc = "write"
          PROVE  Later(file.last["v"])' \subseteq Queued' \cup Hand
      <4>1. PICK x \in Int : x = file.last["v"] /\ x = file'.last["v"]
        BY <1>1, Numbers
      <4>2. Later(x) \subseteq Queued \cup Hand
        BY <3>8, <4>1 DEF Chained
      <4>3. Later(x)' \subseteq Queued' \cup Hand
        BY <2>4, <3>1, <3>4, <4>2
      <4>4. Later(file.last["v"])' = Later(x)'
        BY <4>1 DEF Later
      <4>5. QED
        BY <4>3, <4>4
    <3>9. QED
      BY <1>1, <2>5, <3>6, <3>7, <3>8 DEF Chained
  <2>7. CASE k # "v"
    <3>1. Queued' \subseteq Queued
      <4> SUFFICES ASSUME NEW u \in Times, NEW i \in DOMAIN procList', procList'[i].k = "v", procList'[i].t = u
                   PROVE  u \in Queued
        BY DEF Queued
      <4>1. i <= Len(procList)
        BY <2>1, <2>3, <2>7
      <4>2. i \in DOMAIN procList /\ procList'[i] = procList[i]
        BY <2>3, <4>1
      <4>3. QED
        BY <4>2 DEF Queued
    <3>2. next'["v"] = next["v"]
      BY <1>1, <2>1, <2>7
    <3>3. \A x : Later(x)' = Later(x)
      BY <3>2 DEF Later
    <3>4. Later(thr.cell.t)' = Later(thr.cell.t) /\ Later(file.last["v"])' = Later(file.last["v"])
      BY <1>1, <3>2 DEF Later
    <3>5. Queued' = Queued
      BY <2>4, <3>1
    <3>6. QED
      BY <1>1, <2>5, <3>3, <3>4, <3>5 DEF Chained
  <2>8. QED
    BY <2>6, <2>7
<1>5. QED
  BY <1>2, <1>3, <1>4

\* The thread takes the first cell into its hand.
LEMMA FirstChain ==
  ASSUME Typed, Stages, Begins, Taken, Ordered, Chained, CellPop \/ TakeFirst
  PROVE  Chained'
<1>1. /\ procList # <<>> /\ procList' = Tail(procList) /\ thr'.cell = procList[1]
      /\ UNCHANGED <<h, file, apart, next>>
      /\ \/ thr.pc = "pop" /\ thr'.pc = "look" /\ thr.cell = NoCell
         \/ thr.pc = "first" /\ thr'.pc = "begin" /\ ~h.mux
  <2>1. /\ procList # <<>> /\ procList' = Tail(procList)
        /\ UNCHANGED <<h, file, apart, next>>
        /\ thr.pc \in {"pop", "first"}
    BY DEF CellPop, TakeFirst, Typed, Lists
  <2>2. /\ thr'.cell = Head(procList)
        /\ \/ thr.pc = "pop" /\ thr'.pc = "look" /\ thr.cell = NoCell
           \/ thr.pc = "first" /\ thr'.pc = "begin"
    <3>1. DOMAIN thr = {"pc", "cell", "seek"} /\ (thr.pc = "pop" => thr.cell = NoCell)
      BY DEF Typed, Thread
    <3>2. QED
      BY <3>1 DEF CellPop, TakeFirst
  <2>3. Head(procList) = procList[1]
    BY <2>1 DEF Typed, Lists
  <2>4. thr.pc = "first" => ~h.mux
    BY DEF Begins, Opening
  <2>5. QED
    BY <2>1, <2>2, <2>3, <2>4
<1>2. /\ procList \in Seq(Cells) /\ Len(procList) \in Nat /\ Len(procList) >= 1
      /\ DOMAIN procList = 1 .. Len(procList) /\ DOMAIN procList' = 1 .. Len(procList) - 1
      /\ \A i \in 1 .. Len(procList) - 1 : procList'[i] = procList[i + 1]
  <2>1. procList \in Seq(Cells)
    BY DEF Typed, Lists
  <2>2. /\ Tail(procList) \in Seq(Cells) /\ Len(Tail(procList)) = Len(procList) - 1
        /\ \A i \in 1 .. Len(procList) - 1 : Tail(procList)[i] = procList[i + 1]
    BY <1>1, <2>1, Shorter
  <2>3. QED
    BY <1>1, <2>1, <2>2
<1>3. Queued' \subseteq Queued
  <2> SUFFICES ASSUME NEW u \in Times, NEW i \in DOMAIN procList', procList'[i].k = "v", procList'[i].t = u
               PROVE  u \in Queued
    BY DEF Queued
  <2>1. i + 1 \in DOMAIN procList /\ procList'[i] = procList[i + 1]
    BY <1>2
  <2>2. QED
    BY <2>1 DEF Queued
<1>4. Queued \subseteq Queued' \cup Hand'
  <2> SUFFICES ASSUME NEW u \in Times, NEW i \in DOMAIN procList, procList[i].k = "v", procList[i].t = u
               PROVE  u \in Queued' \cup Hand'
    BY DEF Queued
  <2>1. CASE i = 1
    BY <1>1, <2>1 DEF Hand
  <2>2. CASE i # 1
    <3>1. i - 1 \in DOMAIN procList' /\ (i - 1) + 1 = i
      BY <1>2, <2>2
    <3>2. procList'[i - 1] = procList[i]
      BY <1>2, <3>1
    <3>3. QED
      BY <3>1, <3>2 DEF Queued
  <2>3. QED
    BY <2>1, <2>2
<1>5. \A x \in Int : Later(x)' = Later(x)
  BY <1>1 DEF Later
<1>6. ASSUME apart, NEW x \in Queued', NEW y \in Hand' PROVE y < x
  <2>1. PICK i \in DOMAIN procList' : procList'[i].k = "v" /\ procList'[i].t = x
    BY <1>6 DEF Queued
  <2>2. i + 1 \in DOMAIN procList /\ procList[i + 1].k = "v" /\ procList[i + 1].t = x
        /\ 1 < i + 1 /\ 1 \in DOMAIN procList /\ procList[1].k = "v" /\ procList[1].t = y
    BY <1>1, <1>2, <1>6, <2>1 DEF Hand
  <2>3. QED
    BY <1>6, <2>2 DEF Ordered, Rises
<1>7. ASSUME apart, ~file.late, ~file.stopped, NEW x \in Queued' \cup Hand' PROVE Later(x)' \subseteq Queued'
  <2>1. x \in Queued /\ x \in Int
    <3>1. x \in Hand' => x \in Queued
      BY <1>1, <1>2 DEF Hand, Queued
    <3>2. Queued \subseteq Int
      BY Numbers DEF Queued
    <3>3. QED
      BY <1>3, <1>7, <3>1, <3>2
  <2>2. Later(x) \subseteq Queued
    BY <1>7, <2>1 DEF Chained
  <2>3. \A y \in Hand' : y <= x
    <3>1. x \in Hand' => \A y \in Hand' : y = x
      BY DEF Hand
    <3>2. Hand' \subseteq Int
      BY Numbers DEF Hand
    <3>3. QED
      BY <1>6, <1>7, <2>1, <3>1, <3>2
  <2>4. ASSUME NEW u \in Later(x) PROVE u \in Queued'
    <3>1. u \in Queued' \cup Hand' /\ x < u /\ u \in Int
      BY <1>4, <2>2, <2>4, Numbers DEF Later
    <3>2. u \notin Hand'
      BY <2>1, <2>3, <3>1
    <3>3. QED
      BY <3>1, <3>2
  <2>5. QED
    BY <1>5, <2>1, <2>4
<1>8. ASSUME thr'.cell.k = "v" PROVE thr'.cell.t \in Hand'
  <2>1. procList[1].t \in Times
    BY <1>2, Numbers
  <2>2. QED
    BY <1>1, <1>8, <2>1 DEF Hand
<1>9. ASSUME apart, ~file.late, ~file.stopped, h.mux, ~file.spoilt, h.en \/ thr'.pc = "write"
      PROVE  Later(file.last["v"])' \subseteq Queued' \cup Hand'
  <2>1. thr.pc = "pop" /\ thr.cell = NoCell /\ h.en
    BY <1>1, <1>9
  <2>2. Later(file.last["v"]) \subseteq Queued \cup Hand
    BY <1>9, <2>1 DEF Chained
  <2>3. Hand = {}
    <3>1. NoCell.t = -1 /\ \A t \in Times : t # -1
      BY Numbers DEF NoCell, Cell, Times
    <3>2. QED
      BY <2>1, <3>1 DEF Hand
  <2>4. Later(file.last["v"])' = Later(file.last["v"])
    BY <1>1 DEF Later
  <2>5. QED
    BY <1>4, <2>2, <2>3, <2>4
<1>10. QED
  <2>1. ASSUME apart', ~file'.late, ~file'.stopped
        PROVE  /\ \A x \in Queued' : Later(x)' \subseteq Queued'
               /\ thr'.cell.k = "v" => Later(thr.cell.t)' \subseteq Queued'
               /\ h.mux /\ ~file.spoilt /\ (h.en \/ thr'.pc = "write")
                    => Later(file.last["v"])' \subseteq Queued' \cup Hand'
    <3>1. apart /\ ~file.late /\ ~file.stopped
      BY <1>1, <2>1
    <3>2. ASSUME thr'.cell.k = "v" PROVE Later(thr.cell.t)' \subseteq Queued'
      <4>1. PICK x \in Hand' : x = thr'.cell.t
        BY <1>8, <3>2
      <4>2. Later(x)' \subseteq Queued'
        BY <1>7, <3>1
      <4>3. Later(thr.cell.t)' = Later(x)'
        BY <4>1 DEF Later
      <4>4. QED
        BY <4>2, <4>3
    <3>3. QED
      BY <1>7, <1>9, <3>1, <3>2
  <2>2. h' = h /\ file'.spoilt = file.spoilt
    BY <1>1
  <2>3. QED
    BY <2>1, <2>2 DEF Chained

\* A written picture is the one after the last, and the next ones are queued.
LEMMA WriteChain ==
  ASSUME Typed, Stages, Known, Begins, Taken, Ordered, Chained, Write
  PROVE  Chained' /\ (file.whole => file'.whole)
<1> DEFINE c == thr.cell
           last == file.last["v"]
           judged == apart /\ ~file.spoilt
<1>1. /\ c \in Cells /\ c.k \in Kinds /\ c.t \in Times /\ c # NoCell
      /\ \A k \in Kinds : file'.last[k] =
           IF k # c.k THEN file.last[k] ELSE IF c.t > file.last[k] THEN c.t ELSE file.last[k]
      /\ file'.spoilt = ~judged
      /\ file'.whole = (file.whole /\
           (judged /\ ~file.stopped /\ ~file.late /\ c.k = "v" /\ file.last[c.k] # -1
              => c.t <= file.last[c.k] + 1))
      /\ file'.stopped = file.stopped /\ file'.late = file.late
      /\ thr'.pc = "pop" /\ thr'.cell = NoCell /\ h'.en = h.en
  BY WriteValues
<1>2. /\ thr.pc \in {"begin", "write"} /\ procList' = procList /\ apart' = apart /\ next' = next
      /\ Queued' = Queued
  BY DEF Write, Queued
<1>3. /\ Times \subseteq Int /\ last \in Int /\ c.t \in Int /\ "v" \in Kinds
      /\ next["v"] \in Int
  BY <1>1, Numbers DEF Kinds, Typed, Frames
<1>4. \A x \in Int : Later(x)' = Later(x)
  BY <1>2 DEF Later
<1>5. ASSUME judged
      PROVE  /\ file.last[c.k] < c.t /\ \A u \in Queued : c.k = "v" => c.t < u
             /\ c.t \in Reached[c.k] /\ (thr.pc = "begin" => c.k = "v")
             /\ thr.pc = "write" => h.mux
  <2>1. Fresh /\ Ahead
    BY <1>2, <1>5 DEF Ordered
  <2>2. \A u \in Queued : c.k = "v" => c.t < u
    BY <2>1 DEF Ahead, Queued
  <2>3. QED
    BY <1>1, <1>5, <2>1, <2>2 DEF Fresh, Known, Taken, IsKey, Stages
<1> HIDE DEF c, last
<1>6. ASSUME judged, ~file.stopped, ~file.late PROVE Later(file.last["v"])' \subseteq Queued
  <2>1. CASE c.k = "v"
    <3>1. file'.last["v"] = c.t
      BY <1>1, <1>3, <1>5, <1>6, <2>1
    <3>2. Later(c.t) \subseteq Queued
      BY <1>1, <1>2, <1>6, <2>1 DEF Chained, c
    <3>3. Later(file.last["v"])' = Later(c.t)
      BY <1>2, <3>1 DEF Later
    <3>4. QED
      BY <3>2, <3>3
  <2>2. CASE c.k # "v"
    <3>1. file'.last["v"] = last
      BY <1>1, <1>3, <2>2 DEF last
    <3>2. thr.pc = "write" /\ h.mux /\ Hand = {}
      BY <1>2, <1>5, <1>6, <2>2 DEF Hand, c
    <3>3. Later(last) \subseteq Queued
      BY <1>6, <3>2 DEF Chained, last
    <3>4. Later(file.last["v"])' = Later(last)
      BY <1>2, <3>1 DEF Later
    <3>5. QED
      BY <3>3, <3>4
  <2>3. QED
    BY <2>1, <2>2
<1>7. Chained'
  <2>1. apart /\ ~file.late /\ ~file.stopped => \A t \in Queued : Later(t) \subseteq Queued
    BY DEF Chained
  <2>2. \A t \in Queued : Later(t)' = Later(t)
    BY <1>3, <1>4 DEF Queued
  <2>3. QED
    BY <1>1, <1>2, <1>6, <2>1, <2>2 DEF Chained
<1>8. ASSUME judged, ~file.stopped, ~file.late, c.k = "v", last # -1 PROVE c.t <= last + 1
  <2>1. thr.pc = "write" /\ h.mux
    <3>1. thr.pc # "begin"
      BY <1>3, <1>8 DEF Begins, Opening, last
    <3>2. QED
      BY <1>2, <1>5, <1>8, <3>1
  <2>2. Later(last) \subseteq Queued \cup Hand
    BY <1>8, <2>1 DEF Chained, last
  <2>3. SUFFICES ASSUME last + 1 < c.t PROVE FALSE
    BY <1>3
  <2>4. c.t < next["v"]
    <3>1. c.t \in Reached["v"] /\ apart
      BY <1>5, <1>8
    <3>2. Reached["v"] = {t \in Int : t < next["v"] \/ (t = next["v"] /\ cb["v"] = "get" /\ ~apart)}
      BY <1>3 DEF Reached
    <3>3. QED
      BY <3>1, <3>2
  <2>5. last + 1 \in Times
    <3>1. last + 1 >= 0
      <4>1. last \in Times \cup {-1}
        BY <1>3 DEF Typed, File, last
      <4>2. QED
        BY <4>1 DEF Times
    <3>2. c.t \in 0 .. MaxT["v"] - 1 /\ MaxT["v"] \in Nat
      BY <1>1, <1>3, TimesOfFrames DEF Times
    <3>3. QED
      BY <1>3, <2>3, <3>1, <3>2 DEF Times
  <2>6. last + 1 \in Later(last)
    BY <1>3, <2>3, <2>4, <2>5 DEF Later
  <2>7. last + 1 \notin Queued
    BY <1>3, <1>5, <1>8, <2>3, <2>5
  <2>8. last + 1 \notin Hand
    BY <1>3, <2>3 DEF Hand, c
  <2>9. QED
    BY <2>2, <2>6, <2>7, <2>8
<1>9. file.whole => file'.whole
  BY <1>1, <1>8 DEF last
<1>10. QED
  BY <1>7, <1>9

\* Among as many numbers as a group of pictures is long, one is a key frame's.
LEMMA KeyAmong ==
  ASSUME NEW f \in Nat
  PROVE  \E u \in f .. f + Gop - 1 : u % Gop = 0
<1>1. Gop \in Nat \ {0}
  BY PreRecordAssumption DEF PreRecordAssumption
<1>2. \A a \in Nat, g \in Nat \ {0}, b \in Nat : b = (a \div g) * g + g => b % g = 0 /\ b > a /\ b <= a + g
  <2> SUFFICES ASSUME NEW a \in Nat, NEW g \in Nat \ {0}, NEW b \in Nat, b = (a \div g) * g + g
               PROVE  b % g = 0 /\ b > a /\ b <= a + g
    OBVIOUS
  <2>1. QED
    OBVIOUS
<1>3. CASE f = 0
  <2>1. 0 % Gop = 0 /\ 0 \in f .. f + Gop - 1
    BY <1>1, <1>3
  <2>2. QED
    BY <2>1
<1>4. CASE f # 0
  <2> DEFINE a == f - 1
             b == (a \div Gop) * Gop + Gop
  <2>1. a \in Nat /\ a \div Gop \in Nat
    BY <1>1, <1>4
  <2>2. b \in Nat
    BY <1>1, <2>1
  <2>3. b % Gop = 0 /\ b > a /\ b <= a + Gop
    <3>1. b = (a \div Gop) * Gop + Gop
      OBVIOUS
    <3> HIDE DEF a, b
    <3>2. QED
      BY <1>1, <1>2, <2>1, <2>2, <3>1
  <2> HIDE DEF b
  <2>4. b \in f .. f + Gop - 1
    BY <1>1, <2>1, <2>2, <2>3
  <2>5. QED
    BY <2>3, <2>4
<1>5. QED
  BY <1>3, <1>4

\* The pictures the thread takes reach up to the newest, and have a key frame.
LEMMA VideoChain ==
  ASSUME Gop <= Rate, Typed, Stages, Begins, Taken, Gapless, Halted, Known, TakeVideo
  PROVE  Chained'
<1> DEFINE s == preList["v"]
           N == next["v"]
<1>1. PICK n \in 0 .. Len(s) :
        /\ \A i \in 1 .. n : s[i] % Gop # 0
        /\ procList' \in Seq(Cells) /\ Len(procList') = Len(procList) + (Len(s) - n)
        /\ \A i \in 1 .. Len(procList) + (Len(s) - n) :
             procList'[i] = IF i <= Len(procList) THEN procList[i]
                            ELSE Cell("v", s[n + (i - Len(procList))], FALSE)
        /\ thr'.pc = IF n = Len(s) THEN "begin" ELSE "audio"
        /\ thr'.cell = thr.cell
  BY TakeVideoValues
<1>2. /\ thr.pc = "video" /\ UNCHANGED <<h, file, cb, next, app>> /\ apart' = (apart /\ NoneBetween) /\ ~h.mux
  BY DEF TakeVideo, Begins, Opening
<1>3. CASE file.stopped \/ file.late \/ ~apart \/ ~NoneBetween
  BY <1>2, <1>3, NoChain
<1>4. CASE ~file.stopped /\ ~file.late /\ apart /\ NoneBetween
  <2>1. ~h.reseting
    <3>1. thr.cell # NoCell
      BY <1>2 DEF Typed, Thread
    <3>2. h.en \/ app \in Leaving
      BY <1>4, <3>1 DEF Halted
    <3>3. QED
      BY <3>2 DEF Stages, Leaving
  <2>2. "v" \in Kinds /\ cb["v"] # "get" /\ procList = <<>> /\ Len(procList) = 0
    BY <1>2, <1>4 DEF Kinds, NoneBetween, Taken
  <2>3. /\ s \in Seq(Times) /\ Len(s) \in Nat /\ DOMAIN s = 1 .. Len(s) /\ N \in Nat
        /\ \A i \in 1 .. Len(s) : s[i] = N - 1 - Len(s) + i
        /\ Len(s) >= Rate /\ Gop \in Nat \ {0} /\ Rate \in Nat /\ Times \subseteq Nat
    <3>1. s \in Seq(Times) /\ N \in Nat /\ Times \subseteq Nat
      BY <2>2, Numbers DEF Typed, Frames
    <3>2. Len(s) \in Nat /\ DOMAIN s = 1 .. Len(s)
      BY <3>1
    <3>3. \A i \in 1 .. Len(s) : s[i] = N - 1 - Len(s) + i
      BY <1>4, <2>1, <2>2, <3>2 DEF Gapless, Newest
    <3>4. Len(s) >= Rate
      BY <1>2 DEF Gapless
    <3>5. QED
      BY <3>1, <3>2, <3>3, <3>4, PreRecordAssumption DEF PreRecordAssumption
  <2> HIDE DEF s, N
  <2>4. n \in Nat /\ n < Len(s) /\ n # Len(s)
    <3>0. Len(s) \in Nat
      BY <2>3
    <3>1. n \in Nat /\ n <= Len(s) /\ 1 \in 1 .. Len(s)
      BY <2>3
    <3>2. s[1] \in Nat /\ s[1] = N - Len(s)
      <4>1. s[1] \in Times
        BY <2>3, <3>1
      <4>2. QED
        BY <2>3, <3>1, <4>1
    <3>3. PICK u \in s[1] .. s[1] + Gop - 1 : u % Gop = 0
      BY <3>2, KeyAmong
    <3>4. u - s[1] + 1 \in 1 .. Len(s) /\ u \in Int
      BY <2>3, <3>2, <3>3
    <3>5. s[u - s[1] + 1] = u
      BY <2>3, <3>2, <3>4
    <3>6. n # Len(s)
      BY <1>1, <3>3, <3>4, <3>5
    <3>7. QED
      BY <3>0, <3>1, <3>6
  <2>9. Len(s) \in Nat /\ N \in Nat /\ n \in Nat /\ n < Len(s) /\ Len(procList) = 0
    BY <2>2, <2>3, <2>4
  <2>5. /\ DOMAIN procList' = 1 .. Len(s) - n
        /\ \A i \in 1 .. Len(s) - n : procList'[i].k = "v" /\ procList'[i].t = N - 1 - Len(s) + (n + i)
    <3>1. Len(procList') = Len(s) - n
      BY <1>1, <2>2, <2>3, <2>4
    <3>2. DOMAIN procList' = 1 .. Len(procList')
      BY <1>1
    <3>3. ASSUME NEW i \in 1 .. Len(s) - n
          PROVE  procList'[i].k = "v" /\ procList'[i].t = N - 1 - Len(s) + (n + i)
      <4>1. i \in 1 .. Len(procList) + (Len(s) - n) /\ ~(i <= Len(procList))
        BY <2>9
      <4>2. procList'[i] = Cell("v", s[n + (i - Len(procList))], FALSE)
        BY <1>1, <4>1
      <4>3. i - Len(procList) = i /\ n + i \in 1 .. Len(s)
        BY <2>9
      <4>4. QED
        BY <2>3, <4>2, <4>3 DEF Cell
    <3>4. QED
      BY <3>1, <3>2, <3>3
  <2>6. ASSUME NEW t \in Queued', NEW u \in Later(t)' PROVE u \in Queued'
    <3>1. PICK i \in 1 .. Len(s) - n : t = N - 1 - Len(s) + (n + i)
      BY <2>5, <2>6 DEF Queued
    <3>2. u \in Times /\ t < u /\ u < N /\ u \in Int
      BY <1>2, <2>3, <2>6 DEF Later, N
    <3>3. PICK j \in Int : j = u - N + 1 + Len(s) - n
      <4>1. u - N + 1 + Len(s) - n \in Int
        BY <2>9, <3>2
      <4>2. QED
        BY <4>1, Zenon
    <3>6. j \in 1 .. Len(s) - n /\ N - 1 - Len(s) + (n + j) = u
      BY <2>9, <3>1, <3>2, <3>3
    <3>4. procList'[j].t = u /\ procList'[j].k = "v" /\ j \in DOMAIN procList'
      BY <2>5, <3>6
    <3>5. QED
      BY <3>2, <3>4 DEF Queued
  <2>7. thr'.pc = "audio"
    BY <1>1, <2>4
  <2>8. QED
    BY <1>2, <2>6, <2>7 DEF Chained
<1>5. QED
  BY <1>3, <1>4

\* The sound behind them is none of the pictures.
LEMMA AudioChain ==
  ASSUME Typed, Begins, Chained, TakeAudio
  PROVE  Chained'
<1> DEFINE s == preList["a"]
           p == Len(procList)
<1>1. PICK n \in 0 .. Len(s) :
        /\ procList' \in Seq(Cells) /\ Len(procList') = p + (Len(s) - n)
        /\ \A i \in 1 .. p + (Len(s) - n) :
             procList'[i] = IF i <= p THEN procList[i] ELSE Cell("a", s[n + (i - p)], FALSE)
        /\ thr'.pc = "first"
  BY TakeAudioValues
<1>2. /\ UNCHANGED <<h, file, next>> /\ apart' = (apart /\ NoneBetween) /\ ~h.mux
  BY DEF TakeAudio, Begins, Opening
<1>3. /\ s \in Seq(Times) /\ Len(s) \in Nat /\ procList \in Seq(Cells) /\ p \in Nat
      /\ DOMAIN procList = 1 .. p
  BY DEF Typed, Lists, Kinds
<1> HIDE DEF s, p
<1>4. DOMAIN procList' = 1 .. p + (Len(s) - n) /\ n \in Nat /\ n <= Len(s)
  <2>1. DOMAIN procList' = 1 .. Len(procList')
    BY <1>1
  <2>2. QED
    BY <1>1, <1>3, <2>1
<1>5. ASSUME NEW u \in Times PROVE u \in Queued' <=> u \in Queued
  <2>1. ASSUME NEW i \in DOMAIN procList', procList'[i].k = "v" PROVE i \in DOMAIN procList /\ procList'[i] = procList[i]
    <3>1. i <= p
      <4>1. ~(i <= p) => procList'[i] = Cell("a", s[n + (i - p)], FALSE)
        BY <1>1, <1>4
      <4>2. QED
        BY <2>1, <4>1 DEF Cell
    <3>2. i \in 1 .. p + (Len(s) - n) /\ i \in 1 .. p
      BY <1>3, <1>4, <2>1, <3>1
    <3>3. QED
      BY <1>1, <1>3, <3>1, <3>2
  <2>2. ASSUME NEW i \in DOMAIN procList PROVE i \in DOMAIN procList' /\ procList'[i] = procList[i]
    <3>1. i \in 1 .. p + (Len(s) - n) /\ i <= p
      BY <1>3, <1>4
    <3>2. QED
      BY <1>1, <1>4, <3>1
  <2>3. QED
    BY <2>1, <2>2 DEF Queued
<1>6. Queued' = Queued
  BY <1>5 DEF Queued
<1>7. \A t : Later(t)' = Later(t)
  BY <1>2 DEF Later
<1>8. QED
  BY <1>1, <1>2, <1>6, <1>7 DEF Chained

\* The other steps.
LEMMA OtherChain ==
  ASSUME Typed, Stages, Begins, Halted, Chained,
         \/ CheckExit \/ Look \/ ReleaseProc \/ CellFree
         \/ Start \/ Stop \/ ManualSplit \/ Reset \/ ResetThread \/ ResetRelease \/ ResetParam
         \/ Disable \/ DisableRelease \/ UNCHANGED vars
  PROVE  Chained'
<1>1. CASE CheckExit
  <2>1. /\ procList' = <<>> /\ procList = <<>> /\ thr.pc = "pop" /\ thr.cell = NoCell /\ thr'.cell = NoCell
        /\ thr'.pc \in {"pop", "dead"} /\ UNCHANGED <<next, ops>> /\ h'.en = h.en /\ (h'.mux => h.mux)
        /\ ~h.en => ~h'.mux
        /\ file'.last = file.last /\ file'.spoilt = file.spoilt /\ file'.late = file.late
        /\ h.en /\ ~file'.stopped => ~file.stopped
    BY <1>1 DEF CheckExit, Closed, Typed, Thread, File, Handle
  <2>2. CASE ~h.en \/ file'.stopped \/ file'.late \/ ~apart'
    BY <2>1, <2>2, NoChain
  <2>3. CASE h.en /\ ~file'.stopped /\ ~apart
    <3>1. file'.spoilt
      BY <2>1, <2>3 DEF Begins, Opening
    <3>2. QED
      BY <2>1, <3>1, NoChain
  <2>4. CASE h.en /\ ~file'.stopped /\ apart
    BY <2>1, <2>4, SameChain
  <2>5. QED
    BY <2>2, <2>3, <2>4
<1>2. CASE Look
  <2>1. /\ procList' = procList /\ next' = next /\ apart' = apart /\ thr.pc = "look" /\ thr'.cell = thr.cell
        /\ h'.en = h.en /\ (h'.mux => h.mux)
        /\ thr'.pc \in {"write", "free", "release", "begin"}
        /\ thr'.pc \in {"release", "begin"} => ~h'.mux
        /\ thr'.pc # "free" => h.en
    BY <1>2, LookValues DEF Look
  <2>2. CASE thr'.pc \in {"write", "free"}
    <3>1. file' = file
      BY <1>2, <2>2, LookValues
    <3>2. QED
      BY <2>1, <3>1, SameChain
  <2>3. CASE thr'.pc \in {"release", "begin"}
    <3>1. (~file'.late => ~file.late) /\ (~file'.stopped => ~file.stopped)
      <4>1. file' = [NoFile EXCEPT !.stopped = file.stopped, !.late = file.late]
        BY <1>2, <2>3, LookValues
      <4>2. QED
        BY <4>1 DEF NoFile
    <3>2. Queued' = Queued /\ (\A t : Later(t)' = Later(t)) /\ Later(thr.cell.t)' = Later(thr.cell.t)
      BY <2>1 DEF Queued, Later
    <3>3. QED
      BY <2>1, <2>3, <3>1, <3>2 DEF Chained
  <2>4. QED
    BY <2>1, <2>2, <2>3
<1>3. CASE ReleaseProc
  <2>1. procList' = <<>> /\ thr'.pc = "video" /\ ~h'.mux
    BY <1>3 DEF ReleaseProc, Typed, Thread, Begins, Opening
  <2>2. QED
    BY <2>1, NoChain
<1>4. CASE CellFree
  <2>1. /\ UNCHANGED <<procList, next, h, file, app, apart>> /\ thr'.cell = NoCell /\ thr'.pc = "pop" /\ thr.pc = "free"
    BY <1>4 DEF CellFree, Typed, Thread
  <2>2. ~file.stopped /\ h.mux => ~h.en
    BY <2>1 DEF Halted, Stages, Leaving
  <2>3. Queued' = Queued /\ \A t : Later(t)' = Later(t)
    BY <2>1 DEF Queued, Later
  <2>4. QED
    BY <2>1, <2>2, <2>3 DEF Chained
<1>5. CASE Stop \/ Reset
  <2>1. file'.stopped
    BY <1>5 DEF Stop, Reset, Typed, File
  <2>2. QED
    BY <2>1, NoChain
<1>6. CASE Start
  <2>1. /\ UNCHANGED <<procList, next, thr, file, apart>> /\ h'.mux = h.mux /\ app = "idle"
    BY <1>6 DEF Start, Op, Typed, Handle
  <2>2. CASE h.en
    BY <2>1, <2>2, SameChain
  <2>3. CASE ~h.en
    <3>1. file.stopped \/ (procList = <<>> /\ thr.cell = NoCell /\ ~h.mux)
      BY <2>1, <2>3 DEF Halted, Leaving
    <3>2. QED
      BY <2>1, <3>1, NoChain
  <2>4. QED
    BY <2>2, <2>3
<1>7. CASE ManualSplit \/ ResetThread \/ ResetParam \/ Disable \/ UNCHANGED vars
  <2>1. /\ UNCHANGED <<procList, next, file, apart>> /\ thr'.cell = thr.cell /\ h'.mux = h.mux
        /\ h'.en => h.en
        /\ thr'.pc = thr.pc \/ (thr.pc = "dead" /\ thr'.pc = "pop")
    BY <1>7 DEF ManualSplit, ResetThread, ResetParam, Disable, vars, Typed, Handle, Thread
  <2>2. QED
    BY <2>1, SameChain
<1>8. CASE ResetRelease
  <2>1. /\ procList' = <<>> /\ UNCHANGED <<h, thr>> /\ app = "release" /\ file'.stopped = file.stopped
    BY <1>8 DEF ResetRelease, ReleaseAll, Typed, File
  <2>2. file.stopped \/ (thr.cell = NoCell /\ ~h.mux)
    BY <2>1 DEF Halted, Stages, Leaving
  <2>3. QED
    BY <2>1, <2>2, NoChain
<1>9. CASE DisableRelease
  <2>1. procList' = <<>> /\ UNCHANGED <<h, thr>> /\ thr.pc = "dead" /\ app = "leave"
    BY <1>9 DEF DisableRelease, ReleaseAll
  <2>2. ~h.en /\ thr.cell = NoCell
    BY <2>1 DEF Stages, Typed, Thread
  <2>3. QED
    BY <2>1, <2>2, NoChain
<1>10. QED
  BY <1>1, <1>2, <1>3, <1>4, <1>5, <1>6, <1>7, <1>8, <1>9

Whole == Gapless /\ Halted /\ Chained

LEMMA NextWhole ==
  ASSUME Gop <= Rate
  PROVE  Typed /\ Stages /\ Known /\ InOrder /\ Whole /\ [Next]_vars
           => Whole' /\ (file.whole => file'.whole)
<1> SUFFICES ASSUME Typed, Stages, Known, Begins, Taken, Ordered, Gapless, Halted, Chained, [Next]_vars
             PROVE  Whole' /\ (file.whole => file'.whole)
  BY DEF InOrder, Whole
<1>1. Gapless' /\ Halted'
  BY NextGapless, NextHalted
<1>2. Chained'
  BY CallbackChain, FirstChain, WriteChain, VideoChain, AudioChain, OtherChain DEF Next
<1>3. file.whole => file'.whole
  BY WriteChain, OtherFiles
<1>4. QED
  BY <1>1, <1>2, <1>3 DEF Whole

LEMMA InitWhole == Init => Whole /\ file.whole
<1> SUFFICES ASSUME Init PROVE Whole /\ file.whole
  OBVIOUS
<1>1. /\ procList = <<>> /\ thr.pc = "pop" /\ thr.cell = NoCell /\ h.mux = FALSE /\ app = "idle"
      /\ file.whole = TRUE /\ preList["v"] = <<>> /\ \A k \in Kinds : cb[k] = "idle"
  BY DEF Init, NoFile, Kinds
<1>2. Gapless
  BY <1>1 DEF Gapless
<1>3. Halted
  BY <1>1 DEF Halted, NoneBetween
<1>4. Chained
  BY <1>1 DEF Chained, Queued
<1>5. QED
  BY <1>1, <1>2, <1>3, <1>4 DEF Whole

\* If a group of pictures is at most a second, a file misses no picture: none
\* between those that were cached and those that were queued when it began, and
\* none of those that came later, unless the stream was stopped, or reset while
\* a callback was under way.
THEOREM RecordingIsWhole ==
  ASSUME Gop <= Rate
  PROVE  Spec => []FileWhole
<1> DEFINE I == InOrder /\ Whole /\ file.whole
<1>1. Init => I
  BY InitInOrder, InitWhole
<1>2. Typed /\ Stages /\ Known /\ I /\ [Next]_vars => I'
  BY NextInOrder, NextWhole
<1>3. I => FileWhole
  BY DEF FileWhole
<1> HIDE DEF I
<1>4. QED
  BY <1>1, <1>2, <1>3, Invariance, PTL DEF Spec
=============================================================================
