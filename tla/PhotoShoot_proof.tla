------------------------- MODULE PhotoShoot_proof --------------------------
(* That no photo is handed over that was not asked for, that u32PhotoCnt   *)
(* never goes below zero, and that photos and thumbnails are of one shot:  *)
(* for shots of any number of photos, any number of slices, and any number *)
(* of shots, inits and resets.  And that the cutting of a photo into       *)
(* slices is right and ends, for pictures and slices of any number of rows *)
(* (module PhotoSlices).                                                   *)
(*                                                                         *)
(* PicturesCounted alone does not survive a step: what is in hand depends  *)
(* on where the thread is (Places), a shot may be counted or sent to the   *)
(* encoder only while nothing of the one before is left (Shooting), and    *)
(* nothing may be left when the handle is made again (Gone).               *)
EXTENDS PhotoShoot, PhotoSlices, TLAPS

\* Where the thread may be with and without slices, and with a thumbnail.
PlacesOK ==
  /\ thr.pc \in {"warm", "warmed", "warmThumb", "send", "given", "late"} => slice
  /\ thr.pc \in {"last", "stopMain", "emptyMain", "stopThumb"} => ~slice
  /\ thr.pc \in {"map", "warm", "warmed", "warmThumb"} => ~thr.thumb
  /\ thr.pc \in {"given", "thumb", "late"} => buf["main"] # None
  /\ ~slice /\ thr.pc = "release" => buf["main"] # None

\* TakePhoto counts and starts a shot when the one before is over.
Shooting ==
  /\ shooter.pc # "idle" => up /\ set \in Resets \cup {"idle"} /\ shooter.want \in Counts
  /\ shooter.pc = "count" => cnt = 0 /\ shot < MaxShots
  /\ set \in Resets \ {"mark"} => resetting
  /\ thr.pc = "late" => shooter.pc \notin {"main", "thumb"}
  /\ shooter.pc = "main" => cnt = shooter.want /\ recv["main"] = 0 /\ InHand = 0

\* Without a handle there is no thread and nothing in the encoder.
Gone == ~up => thr.pc = "off" /\ recv["main"] = 0 /\ buf["main"] = None

\* In a shot that met no reset on its way the encoder keeps its size, and what
\* is in its buffer was encoded with it.
Sized ==
  ~crossed /\ (cnt > 0 \/ shooter.pc = "count") =>
    /\ set \notin Resets /\ sizes \subseteq {size}
    /\ (~slice /\ buf["main"] # None) \/ thr.pc \in {"given", "thumb", "late"} => buf["main"].size = size

IInv == TypeOK /\ PlacesOK /\ Shooting /\ Gone /\ PicturesCounted /\ Sized /\ OneSizePerShot

-----------------------------------------------------------------------------
(* Arithmetic                                                              *)

LEMMA ProductInNat ==
  ASSUME NEW m \in Nat, NEW n \in Nat PROVE m * n \in Nat
  OBVIOUS

LEMMA InHandInNat ==
  ASSUME TypeOK PROVE InHand \in Nat
  BY SlicesAssumption DEF InHand, TypeOK

\* What is in hand is counted.
LEMMA InHandCounted ==
  ASSUME IInv, up, InHand # 0 PROVE cnt > 0
<1>1. InHand >= 1 /\ recv["main"] >= 0 /\ cnt \in Nat
  BY InHandInNat DEF IInv, TypeOK, Chans
<1>2. cnt # 0
  <2>1. SUFFICES ASSUME cnt = 0 PROVE FALSE
    OBVIOUS
  <2>2. cnt * Pieces = 0
    BY <2>1, SlicesAssumption DEF Pieces
  <2> QED
    BY <1>1, <2>2, InHandInNat DEF IInv, TypeOK, PicturesCounted, Chans
<1> QED
  BY <1>1, <1>2

-----------------------------------------------------------------------------
(* The initial states                                                      *)

LEMMA InitInv == ASSUME Init PROVE IInv
<1> USE SlicesAssumption, MaxShotsAssumption
<1>1. TypeOK
  <2>1. thr \in [pc : Places, piece : 1 .. Slices, thumb : BOOLEAN]
    BY DEF Init, Places
  <2>2. shooter \in [pc : {"idle", "count", "main", "thumb"}, want : Counts \cup {0}]
    BY DEF Init
  <2>3. recv \in [Chans -> Nat] /\ buf \in [Chans -> Picture \cup {None}]
    BY DEF Init
  <2>4. cnt \in Nat /\ size \in 0 .. 1 /\ shot \in 0 .. MaxShots
    BY DEF Init
  <2>5. /\ up \in BOOLEAN /\ slice \in BOOLEAN /\ get \in BOOLEAN /\ resetting \in BOOLEAN
        /\ bound \in BOOLEAN /\ clean \in BOOLEAN /\ crossed \in BOOLEAN /\ late \in BOOLEAN
        /\ set \in {"idle", "stop", "join"} \cup Resets
    BY Zenon DEF Init
  <2> QED
    BY <2>1, <2>2, <2>3, <2>4, <2>5, Zenon DEF TypeOK
<1>2. PlacesOK /\ Shooting /\ Gone /\ PicturesCounted /\ Sized /\ OneSizePerShot
  BY DEF Init, PlacesOK, Shooting, Gone, PicturesCounted, Sized, OneSizePerShot, Chans, Resets
<1> QED
  BY <1>1, <1>2 DEF IInv

-----------------------------------------------------------------------------
(* The steps                                                               *)

LEMMA EncodeInv == ASSUME NEW c \in Chans, IInv, Encode(c) PROVE IInv'
<1> USE SlicesAssumption, CountsAssumption, MaxShotsAssumption, NoneAssumption
<1>1. TypeOK'
  BY DEF IInv, Encode, TypeOK, Picture, Places, Chans, Resets, Shooting, hvars, history
<1>2. (PlacesOK /\ Shooting /\ Gone /\ PicturesCounted /\ Sized /\ OneSizePerShot)'
  BY DEF IInv, Encode, TypeOK, PlacesOK, Chans, Gone, hvars, history, Shooting, InHand,
         PicturesCounted, Pieces, Resets, Sized, OneSizePerShot
<1> QED
  BY <1>1, <1>2 DEF IInv

LEMMA TakeLooksInv == ASSUME NEW n \in Counts, IInv, TakeLooks(n) PROVE IInv'
<1> USE SlicesAssumption, CountsAssumption, MaxShotsAssumption, NoneAssumption
<1>1. TypeOK'
  BY DEF IInv, TakeLooks, TypeOK, Picture, Places, Chans, Resets, Shooting, hvars, cvars, history
<1>2. (PlacesOK /\ Shooting /\ Gone /\ PicturesCounted)'
  BY DEF IInv, TakeLooks, TypeOK, PlacesOK, Chans, Gone, Resets, hvars, cvars, Shooting, InHand, PicturesCounted, Pieces
<1>3. Sized'
  <2>1. up /\ cnt = 0
    BY DEF TakeLooks
  <2>2. InHand = 0
    BY <2>1, InHandCounted
  <2>3. (~slice => buf["main"] = None) /\ thr.pc \notin {"given", "thumb", "late"}
    BY <2>2 DEF InHand, IInv, TypeOK, PlacesOK
  <2>4. ~crossed' => set \notin Resets
    BY DEF TakeLooks, IInv, Shooting
  <2> QED
    BY <2>3, <2>4 DEF TakeLooks, Sized, hvars, cvars
<1>4. OneSizePerShot'
  BY DEF TakeLooks, OneSizePerShot
<1> QED
  BY <1>1, <1>2, <1>3, <1>4 DEF IInv

LEMMA TakeCountsInv == ASSUME IInv, TakeCounts PROVE IInv'
<1> USE SlicesAssumption, CountsAssumption, MaxShotsAssumption, NoneAssumption
<1>1. TypeOK'
  BY DEF IInv, TakeCounts, TypeOK, Picture, Places, Chans, Resets, Shooting, Idle, hvars, cvars, history
<1>2. PlacesOK'
  BY DEF IInv, TakeCounts, TypeOK, PlacesOK, Chans, Gone, Idle, hvars, cvars, history
<1>3. Shooting'
  <2>1. up /\ cnt = 0 /\ shooter.pc = "count"
    BY DEF IInv, Shooting, TakeCounts
  <2>2. InHand = 0 /\ recv["main"] = 0
    <3>1. cnt * Pieces = 0
      BY <2>1 DEF Pieces
    <3> QED
      BY <2>1, <3>1, InHandCounted DEF IInv, TypeOK, PicturesCounted, Chans
  <2>3. thr.pc # "late"
    BY <2>2 DEF InHand, IInv, TypeOK, PlacesOK
  <2>4. InHand' = 0
    BY <2>2 DEF InHand, TakeCounts, hvars, cvars
  <2> QED
    BY <2>1, <2>2, <2>3, <2>4 DEF IInv, TypeOK, TakeCounts, Shooting, Resets, hvars, cvars
<1>4. Gone'
  BY DEF IInv, TakeCounts, TypeOK, Gone, Shooting, Chans, Resets, Idle, hvars, cvars, history
<1>5. PicturesCounted'
  BY DEF IInv, TakeCounts, TypeOK, PlacesOK, Shooting, PicturesCounted, InHand, Pieces, Gone, Chans, Idle, hvars, cvars, history
<1>6. Sized'
  BY DEF IInv, TakeCounts, Sized, hvars, cvars, history
<1>7. OneSizePerShot'
  BY DEF IInv, TakeCounts, OneSizePerShot, Idle, hvars, cvars, history
<1> QED
  BY <1>1, <1>2, <1>3, <1>4, <1>5, <1>6, <1>7 DEF IInv

LEMMA TakeStartsMainInv == ASSUME IInv, TakeStartsMain PROVE IInv'
<1> USE SlicesAssumption, CountsAssumption, MaxShotsAssumption, NoneAssumption
<1>1. TypeOK'
  <2>1. shooter.want \in Nat /\ shooter.want * Slices \in Nat
    <3>1. shooter.want \in Nat
      <4>1. shooter.want \in Counts \cup {0}
        BY DEF IInv, TypeOK
      <4>2. Counts \cup {0} \subseteq Nat
        OBVIOUS
      <4> QED
        BY <4>1, <4>2, Zenon
    <3>2. Slices \in Nat
      OBVIOUS
    <3> QED
      BY <3>1, <3>2, ProductInNat
  <2>2. recv' \in [Chans -> Nat]
    BY <2>1 DEF IInv, TypeOK, TakeStartsMain, Chans
  <2>3. shooter' \in [pc : {"idle", "count", "main", "thumb"}, want : Counts \cup {0}] /\ clean' \in BOOLEAN
    BY DEF IInv, TypeOK, TakeStartsMain
  <2> QED
    BY <2>2, <2>3 DEF IInv, TypeOK, TakeStartsMain, hvars, history
<1>2. (PlacesOK /\ Shooting /\ Gone /\ PicturesCounted /\ Sized /\ OneSizePerShot)'
  BY DEF IInv, TakeStartsMain, TypeOK, PlacesOK, Chans, Gone, hvars, history, Shooting, InHand,
         PicturesCounted, Pieces, Resets, Sized, OneSizePerShot
<1> QED
  BY <1>1, <1>2 DEF IInv

LEMMA TakeStartsThumbInv == ASSUME IInv, TakeStartsThumb PROVE IInv'
<1> USE SlicesAssumption, CountsAssumption, MaxShotsAssumption, NoneAssumption
<1>1. TypeOK'
  BY DEF IInv, TakeStartsThumb, TypeOK, Picture, Places, Chans, Resets, Shooting, hvars, history
<1>2. (PlacesOK /\ Shooting /\ Gone /\ PicturesCounted /\ Sized /\ OneSizePerShot)'
  BY DEF IInv, TakeStartsThumb, TypeOK, PlacesOK, Chans, Gone, hvars, history, Shooting, InHand,
         PicturesCounted, Pieces, Resets, Sized, OneSizePerShot
<1> QED
  BY <1>1, <1>2 DEF IInv

LEMMA MapBufferInv == ASSUME IInv, MapBuffer PROVE IInv'
<1> USE SlicesAssumption, CountsAssumption, MaxShotsAssumption, NoneAssumption
<1>1. TypeOK'
  BY DEF IInv, MapBuffer, TypeOK, Picture, Places, Chans, Resets, Shooting, At, hvars, cvars, history
<1>2. (PlacesOK /\ Shooting /\ Gone /\ PicturesCounted /\ Sized /\ OneSizePerShot)'
  BY DEF IInv, MapBuffer, TypeOK, PlacesOK, Chans, Gone, At, hvars, cvars, history, Shooting,
         InHand, PicturesCounted, Pieces, Resets, Sized, OneSizePerShot
<1> QED
  BY <1>1, <1>2 DEF IInv

LEMMA SetUpSlicesInv == ASSUME IInv, SetUpSlices PROVE IInv'
<1> USE SlicesAssumption, CountsAssumption, MaxShotsAssumption, NoneAssumption
<1>1. TypeOK'
  BY DEF IInv, SetUpSlices, TypeOK, Picture, Places, Chans, Resets, Shooting, At, hvars, cvars, history
<1>2. (PlacesOK /\ Shooting /\ Gone /\ PicturesCounted /\ Sized /\ OneSizePerShot)'
  BY DEF IInv, SetUpSlices, TypeOK, PlacesOK, Chans, Gone, At, hvars, cvars, history, Shooting,
         InHand, PicturesCounted, Pieces, Resets, Sized, OneSizePerShot
<1> QED
  BY <1>1, <1>2 DEF IInv

LEMMA WarmUpMainInv == ASSUME IInv, WarmUpMain PROVE IInv'
<1> USE SlicesAssumption, CountsAssumption, MaxShotsAssumption, NoneAssumption
<1>1. TypeOK'
  BY DEF IInv, WarmUpMain, TypeOK, Picture, Places, Chans, Resets, Shooting, At, StopRecv, hvars, history
<1>2. (PlacesOK /\ Shooting /\ Gone /\ PicturesCounted /\ Sized /\ OneSizePerShot)'
  BY DEF IInv, WarmUpMain, TypeOK, PlacesOK, Chans, Gone, At, StopRecv, hvars, history,
         Shooting, InHand, PicturesCounted, Pieces, Resets, Sized, OneSizePerShot
<1> QED
  BY <1>1, <1>2 DEF IInv

LEMMA WarmUpResetMainInv == ASSUME IInv, WarmUpResetMain PROVE IInv'
<1> USE SlicesAssumption, CountsAssumption, MaxShotsAssumption, NoneAssumption
<1>1. TypeOK'
  BY DEF IInv, WarmUpResetMain, TypeOK, Picture, Places, Chans, Resets, Shooting, At, Empty, hvars, history
<1>2. (PlacesOK /\ Shooting /\ Gone /\ PicturesCounted /\ Sized /\ OneSizePerShot)'
  BY DEF IInv, WarmUpResetMain, TypeOK, PlacesOK, Chans, Gone, At, Empty, hvars, history,
         Shooting, InHand, PicturesCounted, Pieces, Resets, Sized, OneSizePerShot
<1> QED
  BY <1>1, <1>2 DEF IInv

LEMMA WarmUpThumbInv == ASSUME IInv, WarmUpThumb PROVE IInv'
<1> USE SlicesAssumption, CountsAssumption, MaxShotsAssumption, NoneAssumption
<1>1. TypeOK'
  BY DEF IInv, WarmUpThumb, TypeOK, Picture, Places, Chans, Resets, Shooting, At, StopRecv, Empty, hvars, history
<1>2. (PlacesOK /\ Shooting /\ Gone /\ PicturesCounted /\ Sized /\ OneSizePerShot)'
  BY DEF IInv, WarmUpThumb, TypeOK, PlacesOK, Chans, Gone, At, StopRecv, Empty, hvars, history,
         Shooting, InHand, PicturesCounted, Pieces, Resets, Sized, OneSizePerShot
<1> QED
  BY <1>1, <1>2 DEF IInv

LEMMA ClearThumbInv == ASSUME IInv, ClearThumb PROVE IInv'
<1> USE SlicesAssumption, CountsAssumption, MaxShotsAssumption, NoneAssumption
<1>1. TypeOK'
  BY DEF IInv, ClearThumb, TypeOK, Picture, Places, Chans, Resets, Shooting, At, Empty, hvars, history
<1>2. (PlacesOK /\ Shooting /\ Gone /\ PicturesCounted /\ Sized /\ OneSizePerShot)'
  BY DEF IInv, ClearThumb, TypeOK, PlacesOK, Chans, Gone, At, Empty, hvars, history, Shooting,
         InHand, PicturesCounted, Pieces, Resets, Sized, OneSizePerShot
<1> QED
  BY <1>1, <1>2 DEF IInv

LEMMA HeadInv == ASSUME IInv, Head PROVE IInv'
<1> USE SlicesAssumption, CountsAssumption, MaxShotsAssumption, NoneAssumption
<1>1. TypeOK'
  BY DEF IInv, Head, TypeOK, Picture, Places, Chans, Resets, Shooting, At, hvars, cvars, history
<1>2. (PlacesOK /\ Shooting /\ Gone /\ PicturesCounted /\ Sized /\ OneSizePerShot)'
  BY DEF IInv, Head, TypeOK, PlacesOK, Chans, Gone, At, hvars, cvars, history, Shooting, InHand,
         PicturesCounted, Pieces, Resets, Sized, OneSizePerShot
<1> QED
  BY <1>1, <1>2 DEF IInv

LEMMA WaitPhotoInv == ASSUME IInv, WaitPhoto PROVE IInv'
<1> USE SlicesAssumption, CountsAssumption, MaxShotsAssumption, NoneAssumption
<1>1. TypeOK'
  BY DEF IInv, WaitPhoto, TypeOK, Picture, Places, Chans, Resets, Shooting, At, hvars, cvars, history
<1>2. (PlacesOK /\ Shooting /\ Gone /\ PicturesCounted /\ Sized /\ OneSizePerShot)'
  BY DEF IInv, WaitPhoto, TypeOK, PlacesOK, Chans, Gone, At, hvars, cvars, history, Shooting,
         InHand, PicturesCounted, Pieces, Resets, Sized, OneSizePerShot
<1> QED
  BY <1>1, <1>2 DEF IInv

LEMMA WaitFrameInv == ASSUME IInv, WaitFrame PROVE IInv'
<1> USE SlicesAssumption, CountsAssumption, MaxShotsAssumption, NoneAssumption
<1>1. TypeOK'
  <2>1. thr' = [thr EXCEPT !.pc = "send", !.piece = 1] \/ thr' = [thr EXCEPT !.pc = "head", !.piece = 1]
    BY DEF WaitFrame
  <2>2. thr' \in [pc : Places, piece : 1 .. Slices, thumb : BOOLEAN]
    <3>1. thr \in [pc : Places, piece : 1 .. Slices, thumb : BOOLEAN]
      BY DEF IInv, TypeOK
    <3>2. "send" \in Places /\ "head" \in Places /\ 1 \in 1 .. Slices
      BY DEF Places
    <3> QED
      BY <2>1, <3>1, <3>2
  <2> QED
    BY <2>2 DEF IInv, TypeOK, WaitFrame, hvars, cvars, history
<1>2. (PlacesOK /\ Shooting /\ Gone /\ PicturesCounted /\ Sized /\ OneSizePerShot)'
  BY DEF IInv, WaitFrame, TypeOK, PlacesOK, Chans, Gone, hvars, cvars, history, Shooting,
         InHand, PicturesCounted, Pieces, Resets, Sized, OneSizePerShot
<1> QED
  BY <1>1, <1>2 DEF IInv

LEMMA SliceFailsInv == ASSUME IInv, SliceFails PROVE IInv'
<1> USE SlicesAssumption, CountsAssumption, MaxShotsAssumption, NoneAssumption
<1>1. TypeOK'
  <2>1. thr' \in [pc : Places, piece : 1 .. Slices, thumb : BOOLEAN]
    BY DEF IInv, TypeOK, SliceFails, At, Places
  <2>2. clean' \in BOOLEAN
    BY DEF SliceFails
  <2> QED
    BY <2>1, <2>2 DEF IInv, TypeOK, SliceFails, hvars, cvars, history
<1>2. (PlacesOK /\ Shooting /\ Gone /\ PicturesCounted /\ Sized /\ OneSizePerShot)'
  BY DEF IInv, SliceFails, TypeOK, PlacesOK, Chans, Gone, At, hvars, cvars, history, Shooting,
         InHand, PicturesCounted, Pieces, Resets, Sized, OneSizePerShot
<1> QED
  BY <1>1, <1>2 DEF IInv

LEMMA SendSliceInv == ASSUME IInv, SendSlice PROVE IInv'
<1> USE SlicesAssumption, CountsAssumption, MaxShotsAssumption, NoneAssumption
<1>1. TypeOK'
  <2>1. recv' \in [Chans -> Nat]
    BY DEF IInv, TypeOK, SendSlice, Chans
  <2>2. buf' \in [Chans -> Picture \cup {None}]
    BY DEF IInv, TypeOK, SendSlice, Picture
  <2>3. thr' \in [pc : Places, piece : 1 .. Slices, thumb : BOOLEAN] /\ clean' \in BOOLEAN
    BY DEF IInv, TypeOK, SendSlice, At, Places
  <2> QED
    BY <2>1, <2>2, <2>3 DEF IInv, TypeOK, SendSlice, hvars, history
<1>2. PlacesOK'
  BY DEF IInv, SendSlice, TypeOK, PlacesOK, Chans, Gone, At, hvars, history
<1>3. Shooting'
  <2>1. shooter.pc # "main"
    BY DEF IInv, SendSlice, Shooting
  <2>2. thr'.pc # "late"
    BY DEF IInv, TypeOK, SendSlice, At
  <2> QED
    BY <2>1, <2>2 DEF IInv, SendSlice, Shooting, hvars, history
<1>4. Gone'
  BY DEF IInv, SendSlice, TypeOK, Gone, Shooting, Chans, Resets, At, hvars, history
<1>5. PicturesCounted'
  BY DEF IInv, SendSlice, TypeOK, PlacesOK, Shooting, PicturesCounted, InHand, Pieces, Gone, Chans, At, hvars, history
<1>6. Sized'
  <2>1. buf'["main"].size = size' /\ slice' = slice /\ shooter' = shooter
    BY DEF IInv, TypeOK, SendSlice, Chans, hvars
  <2>2. cnt' = cnt /\ crossed' = crossed /\ set' = set /\ size' = size /\ sizes' = sizes
    BY DEF SendSlice, hvars, history
  <2> QED
    BY <2>1, <2>2 DEF IInv, Sized
<1>7. OneSizePerShot'
  BY DEF IInv, SendSlice, OneSizePerShot, history
<1> QED
  BY <1>1, <1>2, <1>3, <1>4, <1>5, <1>6, <1>7 DEF IInv

LEMMA GiveSliceInv == ASSUME IInv, GiveSlice PROVE IInv'
<1> USE SlicesAssumption, CountsAssumption, MaxShotsAssumption, NoneAssumption
<1>1. TypeOK'
  BY DEF IInv, GiveSlice, TypeOK, Picture, Places, Chans, Resets, Shooting, At, HandOver, hvars, cvars
<1>2. PlacesOK'
  BY DEF IInv, GiveSlice, TypeOK, PlacesOK, Chans, Gone, At, HandOver, hvars, cvars
<1>3. Shooting'
  BY DEF IInv, GiveSlice, TypeOK, PlacesOK, Shooting, InHand, PicturesCounted, Pieces, Chans, Resets, Gone, At, HandOver, hvars, cvars
<1>4. Gone'
  BY DEF IInv, GiveSlice, TypeOK, Gone, Shooting, Chans, Resets, At, HandOver, hvars, cvars
<1>5. PicturesCounted'
  BY DEF IInv, GiveSlice, TypeOK, PlacesOK, Shooting, PicturesCounted, InHand, Pieces, Gone, Chans, At, HandOver, hvars, cvars
<1>6. Sized'
  <2>1. /\ cnt' = cnt /\ crossed' = crossed /\ shooter' = shooter /\ set' = set /\ size' = size /\ slice' = slice /\ buf'["main"] = buf["main"]
        /\ buf["main"] # None /\ thr.pc \in {"given", "thumb", "late"} /\ thr'.pc \notin {"given", "thumb", "late"}
    BY DEF IInv, TypeOK, PlacesOK, GiveSlice, At, HandOver, Chans, hvars, cvars
  <2>2. sizes' = sizes \cup {buf["main"].size}
    BY DEF GiveSlice, HandOver
  <2> QED
    BY <2>1, <2>2 DEF IInv, Sized
<1>7. OneSizePerShot'
  <2>1. up /\ InHand # 0
    BY DEF IInv, TypeOK, PlacesOK, Gone, GiveSlice, InHand
  <2>2. cnt > 0
    BY <2>1, InHandCounted
  <2>3. ~crossed => sizes \subseteq {size} /\ buf["main"].size = size
    BY <2>2 DEF IInv, Sized, PlacesOK, GiveSlice
  <2> QED
    BY <2>3 DEF GiveSlice, HandOver, OneSizePerShot
<1> QED
  BY <1>1, <1>2, <1>3, <1>4, <1>5, <1>6, <1>7 DEF IInv

LEMMA GiveWithThumbInv == ASSUME IInv, GiveWithThumb PROVE IInv'
<1> USE SlicesAssumption, CountsAssumption, MaxShotsAssumption, NoneAssumption
<1>1. TypeOK'
  BY DEF IInv, GiveWithThumb, TypeOK, Picture, Places, Chans, Resets, Shooting, At, Empty, HandOver, hvars
<1>2. PlacesOK'
  BY DEF IInv, GiveWithThumb, TypeOK, PlacesOK, Chans, Gone, At, Empty, HandOver, hvars
<1>3. Shooting'
  BY DEF IInv, GiveWithThumb, TypeOK, PlacesOK, Shooting, InHand, PicturesCounted, Pieces, Chans, Resets, Gone, At, Empty, HandOver, hvars
<1>4. Gone'
  BY DEF IInv, GiveWithThumb, TypeOK, Gone, Shooting, Chans, Resets, At, Empty, HandOver, hvars
<1>5. PicturesCounted'
  BY DEF IInv, GiveWithThumb, TypeOK, PlacesOK, Shooting, PicturesCounted, InHand, Pieces, Gone, Chans, At, Empty, HandOver, hvars
<1>6. Sized'
  <2>1. /\ cnt' = cnt /\ crossed' = crossed /\ shooter' = shooter /\ set' = set /\ size' = size /\ slice' = slice /\ buf'["main"] = buf["main"]
        /\ buf["main"] # None /\ thr.pc \in {"given", "thumb", "late"} /\ thr'.pc \notin {"given", "thumb", "late"}
    BY DEF IInv, TypeOK, PlacesOK, GiveWithThumb, At, HandOver, Empty, Chans, hvars, cvars
  <2>2. sizes' = sizes \cup {buf["main"].size}
    BY DEF GiveWithThumb, HandOver
  <2> QED
    BY <2>1, <2>2 DEF IInv, Sized
<1>7. OneSizePerShot'
  <2>1. up /\ InHand # 0
    BY DEF IInv, TypeOK, PlacesOK, Gone, GiveWithThumb, InHand
  <2>2. cnt > 0
    BY <2>1, InHandCounted
  <2>3. ~crossed => sizes \subseteq {size} /\ buf["main"].size = size
    BY <2>2 DEF IInv, Sized, PlacesOK, GiveWithThumb
  <2> QED
    BY <2>3 DEF GiveWithThumb, HandOver, OneSizePerShot
<1> QED
  BY <1>1, <1>2, <1>3, <1>4, <1>5, <1>6, <1>7 DEF IInv

LEMMA GiveWithoutThumbInv == ASSUME IInv, GiveWithoutThumb PROVE IInv'
<1> USE SlicesAssumption, CountsAssumption, MaxShotsAssumption, NoneAssumption
<1>1. TypeOK'
  BY DEF IInv, GiveWithoutThumb, TypeOK, Picture, Places, Chans, Resets, Shooting, At, HandOver, hvars, cvars
<1>2. PlacesOK'
  BY DEF IInv, GiveWithoutThumb, TypeOK, PlacesOK, Chans, Gone, At, HandOver, hvars, cvars
<1>3. Shooting'
  BY DEF IInv, GiveWithoutThumb, TypeOK, PlacesOK, Shooting, InHand, PicturesCounted, Pieces, Chans, Resets, Gone, At, HandOver, hvars, cvars
<1>4. Gone'
  BY DEF IInv, GiveWithoutThumb, TypeOK, Gone, Shooting, Chans, Resets, At, HandOver, hvars, cvars
<1>5. PicturesCounted'
  BY DEF IInv, GiveWithoutThumb, TypeOK, PlacesOK, Shooting, PicturesCounted, InHand, Pieces, Gone, Chans, At, HandOver, hvars, cvars
<1>6. Sized'
  <2>1. /\ cnt' = cnt /\ crossed' = crossed /\ shooter' = shooter /\ set' = set /\ size' = size /\ slice' = slice /\ buf'["main"] = buf["main"]
        /\ buf["main"] # None /\ thr.pc \in {"given", "thumb", "late"} /\ thr'.pc \notin {"given", "thumb", "late"}
    BY DEF IInv, TypeOK, PlacesOK, GiveWithoutThumb, At, HandOver, Chans, hvars, cvars
  <2>2. sizes' = sizes \cup {buf["main"].size}
    BY DEF GiveWithoutThumb, HandOver
  <2> QED
    BY <2>1, <2>2 DEF IInv, Sized
<1>7. OneSizePerShot'
  <2>1. up /\ InHand # 0
    BY DEF IInv, TypeOK, PlacesOK, Gone, GiveWithoutThumb, InHand
  <2>2. cnt > 0
    BY <2>1, InHandCounted
  <2>3. ~crossed => sizes \subseteq {size} /\ buf["main"].size = size
    BY <2>2 DEF IInv, Sized, PlacesOK, GiveWithoutThumb
  <2> QED
    BY <2>3 DEF GiveWithoutThumb, HandOver, OneSizePerShot
<1> QED
  BY <1>1, <1>2, <1>3, <1>4, <1>5, <1>6, <1>7 DEF IInv

LEMMA GiveSliceWithThumbInv == ASSUME IInv, GiveSliceWithThumb PROVE IInv'
<1> USE SlicesAssumption, CountsAssumption, MaxShotsAssumption, NoneAssumption
<1>1. TypeOK'
  <2>1. thr' \in [pc : Places, piece : 1 .. Slices, thumb : BOOLEAN]
    BY DEF IInv, TypeOK, GiveSliceWithThumb, Places
  <2>2. buf' \in [Chans -> Picture \cup {None}]
    BY DEF IInv, TypeOK, GiveSliceWithThumb, Empty
  <2> QED
    BY <2>1, <2>2 DEF IInv, TypeOK, GiveSliceWithThumb, HandOver, hvars
<1>2. PlacesOK'
  BY DEF IInv, GiveSliceWithThumb, TypeOK, PlacesOK, Chans, Gone, Empty, HandOver, hvars
<1>3. Shooting'
  BY DEF IInv, GiveSliceWithThumb, TypeOK, PlacesOK, Shooting, InHand, PicturesCounted, Pieces, Chans, Resets, Gone, Empty, HandOver, hvars
<1>4. Gone'
  BY DEF IInv, GiveSliceWithThumb, TypeOK, Gone, Shooting, Chans, Resets, Empty, HandOver, hvars
<1>5. PicturesCounted'
  BY DEF IInv, GiveSliceWithThumb, TypeOK, PlacesOK, Shooting, PicturesCounted, InHand, Pieces, Gone, Chans, Empty, HandOver, hvars
<1>6. Sized'
  <2>1. /\ cnt' = cnt /\ crossed' = crossed /\ shooter' = shooter /\ set' = set /\ size' = size /\ slice' = slice /\ buf'["main"] = buf["main"]
        /\ buf["main"] # None /\ thr.pc \in {"given", "thumb", "late"} /\ thr'.pc \notin {"given", "thumb", "late"}
    BY DEF IInv, TypeOK, PlacesOK, GiveSliceWithThumb, At, HandOver, Empty, Chans, hvars, cvars
  <2>2. sizes' = sizes \cup {buf["main"].size}
    BY DEF GiveSliceWithThumb, HandOver
  <2> QED
    BY <2>1, <2>2 DEF IInv, Sized
<1>7. OneSizePerShot'
  <2>1. up /\ InHand # 0
    BY DEF IInv, TypeOK, PlacesOK, Gone, GiveSliceWithThumb, InHand
  <2>2. cnt > 0
    BY <2>1, InHandCounted
  <2>3. ~crossed => sizes \subseteq {size} /\ buf["main"].size = size
    BY <2>2 DEF IInv, Sized, PlacesOK, GiveSliceWithThumb
  <2> QED
    BY <2>3 DEF GiveSliceWithThumb, HandOver, OneSizePerShot
<1> QED
  BY <1>1, <1>2, <1>3, <1>4, <1>5, <1>6, <1>7 DEF IInv

LEMMA ThumbTimesOutInv == ASSUME IInv, ThumbTimesOut PROVE IInv'
<1> USE SlicesAssumption, CountsAssumption, MaxShotsAssumption, NoneAssumption
<1>1. TypeOK'
  BY DEF IInv, ThumbTimesOut, TypeOK, Picture, Places, Chans, Resets, Shooting, At, hvars, cvars, history
<1>2. (PlacesOK /\ Shooting /\ Gone /\ PicturesCounted /\ Sized /\ OneSizePerShot)'
  BY DEF IInv, ThumbTimesOut, TypeOK, PlacesOK, Chans, Gone, At, hvars, cvars, history, Shooting,
         InHand, PicturesCounted, Pieces, Resets, Sized, OneSizePerShot
<1> QED
  BY <1>1, <1>2 DEF IInv

LEMMA StopLateThumbInv == ASSUME IInv, StopLateThumb PROVE IInv'
<1> USE SlicesAssumption, CountsAssumption, MaxShotsAssumption, NoneAssumption
<1>1. TypeOK'
  <2>1. thr' \in [pc : Places, piece : 1 .. Slices, thumb : BOOLEAN] /\ late' \in BOOLEAN
    BY DEF IInv, TypeOK, StopLateThumb, Places
  <2> QED
    BY <2>1 DEF IInv, TypeOK, StopLateThumb, StopRecv, Chans, hvars
<1>2. (PlacesOK /\ Shooting /\ Gone /\ PicturesCounted /\ Sized /\ OneSizePerShot)'
  BY DEF IInv, StopLateThumb, TypeOK, PlacesOK, Chans, Gone, StopRecv, hvars, Shooting,
         InHand, PicturesCounted, Pieces, Resets, Sized, OneSizePerShot
<1> QED
  BY <1>1, <1>2 DEF IInv

LEMMA ReleaseInv == ASSUME IInv, Release PROVE IInv'
<1> USE SlicesAssumption, CountsAssumption, MaxShotsAssumption, NoneAssumption
<1>1. TypeOK'
  <2>1. CASE slice /\ thr.piece < Slices
    <3>1. thr' = [thr EXCEPT !.pc = "send", !.piece = thr.piece + 1]
      BY <2>1 DEF Release
    <3>2. thr.piece + 1 \in 1 .. Slices
      BY <2>1 DEF IInv, TypeOK
    <3>3. thr' \in [pc : Places, piece : 1 .. Slices, thumb : BOOLEAN]
      BY <3>1, <3>2 DEF IInv, TypeOK, Places
    <3> QED
      BY <3>3 DEF IInv, TypeOK, Release, Empty, Chans, hvars, history
  <2>2. CASE ~(slice /\ thr.piece < Slices)
    <3>1. thr' = [thr EXCEPT !.pc = "count", !.thumb = FALSE]
      BY <2>2 DEF Release
    <3>2. thr' \in [pc : Places, piece : 1 .. Slices, thumb : BOOLEAN]
      BY <3>1 DEF IInv, TypeOK, Places
    <3> QED
      BY <3>2 DEF IInv, TypeOK, Release, Empty, Chans, hvars, history
  <2> QED
    BY <2>1, <2>2
<1>2. PlacesOK'
  <2>1. CASE slice /\ thr.piece < Slices
    <3>1. thr'.pc = "send" /\ slice'
      BY <2>1 DEF IInv, TypeOK, Release, hvars
    <3> QED
      BY <3>1 DEF PlacesOK
  <2>2. CASE ~(slice /\ thr.piece < Slices)
    <3>1. thr'.pc = "count"
      BY <2>2 DEF IInv, TypeOK, Release
    <3> QED
      BY <3>1 DEF PlacesOK
  <2> QED
    BY <2>1, <2>2
<1>3. Shooting'
  <2>1. thr'.pc # "late"
    <3>1. \/ thr' = [thr EXCEPT !.pc = "send", !.piece = @ + 1]
          \/ thr' = [thr EXCEPT !.pc = "count", !.thumb = FALSE]
      BY DEF Release
    <3> QED
      BY <3>1 DEF IInv, TypeOK
  <2>2. shooter.pc # "main"
    <3>1. InHand # 0
      BY DEF IInv, TypeOK, PlacesOK, Release, InHand
    <3> QED
      BY <3>1 DEF IInv, Shooting
  <2>3. up' = up /\ cnt' = cnt /\ shooter' = shooter /\ set' = set /\ shot' = shot /\ resetting' = resetting
    BY DEF Release, hvars
  <2> QED
    BY <2>1, <2>2, <2>3 DEF IInv, Shooting
<1>4. Gone'
  BY DEF IInv, Release, TypeOK, Gone, Shooting, Chans, Resets, Empty, hvars, history
<1>5. PicturesCounted'
  <2>1. up' = up /\ slice' = slice /\ cnt' = cnt /\ recv' = recv /\ Pieces' = Pieces
    BY DEF Release, Pieces, hvars
  <2>2. InHand' = InHand
    <3>1. CASE slice /\ thr.piece < Slices
      <4>1. thr'.pc = "send" /\ thr'.piece = thr.piece + 1
        BY <3>1 DEF IInv, TypeOK, Release
      <4> QED
        BY <2>1, <3>1, <4>1 DEF IInv, TypeOK, Release, InHand
    <3>2. CASE slice /\ ~(thr.piece < Slices)
      <4>1. thr' = [thr EXCEPT !.pc = "count", !.thumb = FALSE]
        BY <3>2 DEF Release
      <4>2. thr.piece = Slices /\ thr'.pc = "count"
        BY <3>2, <4>1 DEF IInv, TypeOK
      <4> QED
        BY <2>1, <3>2, <4>2 DEF Release, InHand
    <3>3. CASE ~slice
      <4>1. thr'.pc = "count" /\ thr.pc = "release" /\ buf["main"] # None /\ buf'["main"] = None
        BY <3>3 DEF IInv, TypeOK, PlacesOK, Release, Empty, Chans
      <4> QED
        BY <2>1, <3>3, <4>1 DEF InHand
    <3> QED
      BY <3>1, <3>2, <3>3
  <2> QED
    BY <2>1, <2>2 DEF IInv, PicturesCounted
<1>6. Sized'
  <2>1. /\ cnt' = cnt /\ crossed' = crossed /\ shooter' = shooter /\ set' = set /\ size' = size /\ sizes' = sizes
        /\ buf'["main"] = None
    BY DEF IInv, TypeOK, Release, Empty, Chans, hvars, history
  <2>2. thr'.pc \notin {"given", "thumb", "late"}
    <3>1. \/ thr' = [thr EXCEPT !.pc = "send", !.piece = @ + 1]
          \/ thr' = [thr EXCEPT !.pc = "count", !.thumb = FALSE]
      BY DEF Release
    <3>2. thr'.pc \in {"send", "count"}
      BY <3>1 DEF IInv, TypeOK
    <3> QED
      BY <3>2
  <2> QED
    BY <2>1, <2>2 DEF IInv, Sized
<1>7. OneSizePerShot'
  BY DEF IInv, Release, OneSizePerShot, Empty, hvars, history
<1> QED
  BY <1>1, <1>2, <1>3, <1>4, <1>5, <1>6, <1>7 DEF IInv

LEMMA CountInv == ASSUME IInv, Count PROVE IInv'
<1> USE SlicesAssumption, CountsAssumption, MaxShotsAssumption, NoneAssumption
<1>1. TypeOK'
  <2>1. up /\ InHand # 0
    BY DEF IInv, TypeOK, Count, Gone, InHand
  <2>2. cnt # 0
    BY <2>1, InHandCounted
  <2>3. thr' \in [pc : Places, piece : 1 .. Slices, thumb : BOOLEAN]
    BY DEF IInv, TypeOK, Count, At, Places
  <2> QED
    BY <2>2, <2>3 DEF IInv, TypeOK, Count, hvars, cvars, history
<1>2. (PlacesOK /\ Shooting /\ Gone /\ PicturesCounted /\ Sized /\ OneSizePerShot)'
  BY DEF IInv, Count, TypeOK, PlacesOK, Chans, Gone, At, hvars, cvars, history, Shooting,
         InHand, PicturesCounted, Pieces, Resets, Sized, OneSizePerShot
<1> QED
  BY <1>1, <1>2 DEF IInv

LEMMA LastInv == ASSUME IInv, Last PROVE IInv'
<1> USE SlicesAssumption, CountsAssumption, MaxShotsAssumption, NoneAssumption
<1>1. TypeOK'
  BY DEF IInv, Last, TypeOK, Picture, Places, Chans, Resets, Shooting, At, hvars, cvars, history
<1>2. (PlacesOK /\ Shooting /\ Gone /\ PicturesCounted /\ Sized /\ OneSizePerShot)'
  BY DEF IInv, Last, TypeOK, PlacesOK, Chans, Gone, At, hvars, cvars, history, Shooting, InHand,
         PicturesCounted, Pieces, Resets, Sized, OneSizePerShot
<1> QED
  BY <1>1, <1>2 DEF IInv

LEMMA StopMainInv == ASSUME IInv, StopMain PROVE IInv'
<1> USE SlicesAssumption, CountsAssumption, MaxShotsAssumption, NoneAssumption
<1>1. TypeOK'
  BY DEF IInv, StopMain, TypeOK, Picture, Places, Chans, Resets, Shooting, At, StopRecv, hvars, history
<1>2. (PlacesOK /\ Shooting /\ Gone /\ PicturesCounted /\ Sized /\ OneSizePerShot)'
  BY DEF IInv, StopMain, TypeOK, PlacesOK, Chans, Gone, At, StopRecv, hvars, history, Shooting,
         InHand, PicturesCounted, Pieces, Resets, Sized, OneSizePerShot
<1> QED
  BY <1>1, <1>2 DEF IInv

LEMMA EmptyMainInv == ASSUME IInv, EmptyMain PROVE IInv'
<1> USE SlicesAssumption, CountsAssumption, MaxShotsAssumption, NoneAssumption
<1>1. TypeOK'
  BY DEF IInv, EmptyMain, TypeOK, Picture, Places, Chans, Resets, Shooting, At, Empty, hvars, history
<1>2. (PlacesOK /\ Shooting /\ Gone /\ PicturesCounted /\ Sized /\ OneSizePerShot)'
  BY DEF IInv, EmptyMain, TypeOK, PlacesOK, Chans, Gone, At, Empty, hvars, history, Shooting,
         InHand, PicturesCounted, Pieces, Resets, Sized, OneSizePerShot
<1> QED
  BY <1>1, <1>2 DEF IInv

LEMMA StopThumbInv == ASSUME IInv, StopThumb PROVE IInv'
<1> USE SlicesAssumption, CountsAssumption, MaxShotsAssumption, NoneAssumption
<1>1. TypeOK'
  BY DEF IInv, StopThumb, TypeOK, Picture, Places, Chans, Resets, Shooting, At, StopRecv, hvars, history
<1>2. (PlacesOK /\ Shooting /\ Gone /\ PicturesCounted /\ Sized /\ OneSizePerShot)'
  BY DEF IInv, StopThumb, TypeOK, PlacesOK, Chans, Gone, At, StopRecv, hvars, history, Shooting,
         InHand, PicturesCounted, Pieces, Resets, Sized, OneSizePerShot
<1> QED
  BY <1>1, <1>2 DEF IInv

LEMMA PhotoInitInv == ASSUME IInv, PhotoInit PROVE IInv'
<1> USE SlicesAssumption, CountsAssumption, MaxShotsAssumption, NoneAssumption
<1>1. TypeOK'
  <2>1. thr' \in [pc : Places, piece : 1 .. Slices, thumb : BOOLEAN]
    BY DEF PhotoInit, Places
  <2>2. recv' = recv /\ buf' = buf /\ shooter' = shooter /\ set' = set /\ shot' = shot /\ clean' = clean /\ crossed' = crossed
    BY DEF PhotoInit, cvars
  <2>3. /\ up' \in BOOLEAN /\ slice' \in BOOLEAN /\ get' \in BOOLEAN /\ resetting' \in BOOLEAN
        /\ bound' \in BOOLEAN /\ late' \in BOOLEAN /\ cnt' \in Nat /\ size' \in 0 .. 1
    <3>1. cnt' \in Nat /\ size' \in 0 .. 1
      BY DEF PhotoInit
    <3> QED
      BY <3>1, Zenon DEF PhotoInit
  <2> QED
    BY <2>1, <2>2, <2>3, Zenon DEF IInv, TypeOK
<1>2. (PlacesOK /\ Shooting /\ Gone /\ PicturesCounted /\ Sized /\ OneSizePerShot)'
  BY DEF IInv, PhotoInit, TypeOK, PlacesOK, Chans, Gone, cvars, Shooting, InHand,
         PicturesCounted, Pieces, Resets, Sized, OneSizePerShot
<1> QED
  BY <1>1, <1>2 DEF IInv

LEMMA ResetLooksInv == ASSUME IInv, ResetLooks PROVE IInv'
<1> USE SlicesAssumption, CountsAssumption, MaxShotsAssumption, NoneAssumption
<1>1. TypeOK'
  BY DEF IInv, ResetLooks, TypeOK, Picture, Places, Chans, Resets, Shooting, hvars, cvars, history
<1>2. (PlacesOK /\ Shooting /\ Gone /\ PicturesCounted)'
  BY DEF IInv, ResetLooks, TypeOK, PlacesOK, Chans, Gone, hvars, cvars, Shooting,
         InHand, PicturesCounted, Pieces, Resets
<1>3. Sized'
  <2>1. ~crossed' => cnt' = 0 /\ shooter'.pc # "count"
    BY DEF ResetLooks
  <2> QED
    BY <2>1 DEF Sized, IInv, TypeOK
<1>4. OneSizePerShot'
  BY DEF IInv, ResetLooks, OneSizePerShot
<1> QED
  BY <1>1, <1>2, <1>3, <1>4 DEF IInv

LEMMA DeInitBeginsInv == ASSUME IInv, DeInitBegins PROVE IInv'
<1> USE SlicesAssumption, CountsAssumption, MaxShotsAssumption, NoneAssumption
<1>1. TypeOK'
  BY DEF IInv, DeInitBegins, TypeOK, Picture, Places, Chans, Resets, Shooting, StopRecv, hvars, history
<1>2. (PlacesOK /\ Shooting /\ Gone /\ PicturesCounted /\ Sized /\ OneSizePerShot)'
  BY DEF IInv, DeInitBegins, TypeOK, PlacesOK, Chans, Gone, StopRecv, hvars, history, Shooting,
         InHand, PicturesCounted, Pieces, Resets, Sized, OneSizePerShot
<1> QED
  BY <1>1, <1>2 DEF IInv

LEMMA ResetMarksInv == ASSUME IInv, ResetMarks PROVE IInv'
<1> USE SlicesAssumption, CountsAssumption, MaxShotsAssumption, NoneAssumption
<1>1. TypeOK'
  BY DEF IInv, ResetMarks, TypeOK, Picture, Places, Chans, Resets, Shooting, cvars, history
<1>2. (PlacesOK /\ Shooting /\ Gone /\ PicturesCounted /\ Sized /\ OneSizePerShot)'
  BY DEF IInv, ResetMarks, TypeOK, PlacesOK, Chans, Gone, cvars, history, Shooting, InHand,
         PicturesCounted, Pieces, Resets, Sized, OneSizePerShot
<1> QED
  BY <1>1, <1>2 DEF IInv

LEMMA ResetUnbindsInv == ASSUME IInv, ResetUnbinds PROVE IInv'
<1> USE SlicesAssumption, CountsAssumption, MaxShotsAssumption, NoneAssumption
<1>1. TypeOK'
  BY DEF IInv, ResetUnbinds, TypeOK, Picture, Places, Chans, Resets, Shooting, cvars, history
<1>2. (PlacesOK /\ Shooting /\ Gone /\ PicturesCounted /\ Sized /\ OneSizePerShot)'
  BY DEF IInv, ResetUnbinds, TypeOK, PlacesOK, Chans, Gone, cvars, history, Shooting, InHand,
         PicturesCounted, Pieces, Resets, Sized, OneSizePerShot
<1> QED
  BY <1>1, <1>2 DEF IInv

LEMMA ResetSizesInv == ASSUME IInv, ResetSizes PROVE IInv'
<1> USE SlicesAssumption, CountsAssumption, MaxShotsAssumption, NoneAssumption
<1>1. TypeOK'
  BY DEF IInv, ResetSizes, TypeOK, Picture, Places, Chans, Resets, Shooting, cvars, history
<1>2. (PlacesOK /\ Shooting /\ Gone /\ PicturesCounted /\ Sized /\ OneSizePerShot)'
  BY DEF IInv, ResetSizes, TypeOK, PlacesOK, Chans, Gone, cvars, history, Shooting, InHand,
         PicturesCounted, Pieces, Resets, Sized, OneSizePerShot
<1> QED
  BY <1>1, <1>2 DEF IInv

LEMMA ResetBindsInv == ASSUME IInv, ResetBinds PROVE IInv'
<1> USE SlicesAssumption, CountsAssumption, MaxShotsAssumption, NoneAssumption
<1>1. TypeOK'
  BY DEF IInv, ResetBinds, TypeOK, Picture, Places, Chans, Resets, Shooting, cvars, history
<1>2. (PlacesOK /\ Shooting /\ Gone /\ PicturesCounted /\ Sized /\ OneSizePerShot)'
  BY DEF IInv, ResetBinds, TypeOK, PlacesOK, Chans, Gone, cvars, history, Shooting, InHand,
         PicturesCounted, Pieces, Resets, Sized, OneSizePerShot
<1> QED
  BY <1>1, <1>2 DEF IInv

LEMMA ResetEndsInv == ASSUME IInv, ResetEnds PROVE IInv'
<1> USE SlicesAssumption, CountsAssumption, MaxShotsAssumption, NoneAssumption
<1>1. TypeOK'
  BY DEF IInv, TypeOK, ResetEnds, Resets, cvars, history
<1>2. (PlacesOK /\ Shooting /\ Gone /\ PicturesCounted /\ Sized /\ OneSizePerShot)'
  BY DEF IInv, ResetEnds, TypeOK, PlacesOK, Chans, Gone, cvars, history, Shooting, InHand,
         PicturesCounted, Pieces, Resets, Sized, OneSizePerShot
<1> QED
  BY <1>1, <1>2 DEF IInv

LEMMA DeInitStopsInv == ASSUME IInv, DeInitStops PROVE IInv'
<1> USE SlicesAssumption, CountsAssumption, MaxShotsAssumption, NoneAssumption
<1>1. TypeOK'
  <2>1. get' \in BOOLEAN /\ set' \in {"idle", "stop", "join"} \cup Resets
    BY DEF DeInitStops
  <2> QED
    BY <2>1 DEF IInv, TypeOK, DeInitStops, cvars, history
<1>2. (PlacesOK /\ Shooting /\ Gone /\ PicturesCounted /\ Sized /\ OneSizePerShot)'
  BY DEF IInv, DeInitStops, TypeOK, PlacesOK, Chans, Gone, cvars, history, Shooting, InHand,
         PicturesCounted, Pieces, Resets, Sized, OneSizePerShot
<1> QED
  BY <1>1, <1>2 DEF IInv

LEMMA DeInitFreesInv == ASSUME IInv, DeInitFrees PROVE IInv'
<1> USE SlicesAssumption, CountsAssumption, MaxShotsAssumption, NoneAssumption
<1>1. TypeOK'
  BY DEF IInv, DeInitFrees, TypeOK, Picture, Places, Chans, Resets, Shooting, At, history
<1>2. (PlacesOK /\ Shooting /\ Gone /\ PicturesCounted /\ Sized /\ OneSizePerShot)'
  BY DEF IInv, DeInitFrees, TypeOK, PlacesOK, Chans, Gone, At, history, Shooting, InHand,
         PicturesCounted, Pieces, Resets, Sized, OneSizePerShot
<1> QED
  BY <1>1, <1>2 DEF IInv

-----------------------------------------------------------------------------
(* The invariant and what follows from it                                  *)

LEMMA NextInv == IInv /\ [Next]_vars => IInv'
<1> SUFFICES ASSUME IInv, [Next]_vars PROVE IInv'
  OBVIOUS
<1>1. CASE Camera
  BY <1>1, EncodeInv DEF Camera
<1>2. CASE TakeRest
  BY <1>2, TakeCountsInv, TakeStartsMainInv, TakeStartsThumbInv DEF TakeRest
<1>3. CASE Thread
  BY <1>3, MapBufferInv, SetUpSlicesInv, WarmUpMainInv, WarmUpResetMainInv, WarmUpThumbInv,
       ClearThumbInv, HeadInv, WaitPhotoInv, WaitFrameInv, SendSliceInv, GiveSliceInv,
       GiveWithThumbInv, GiveWithoutThumbInv, GiveSliceWithThumbInv, ThumbTimesOutInv, StopLateThumbInv,
       SliceFailsInv, ReleaseInv, CountInv, LastInv, StopMainInv, EmptyMainInv, StopThumbInv
     DEF Thread
<1>4. CASE SetRest
  BY <1>4, ResetMarksInv, ResetUnbindsInv, ResetSizesInv, ResetBindsInv, ResetEndsInv,
       DeInitStopsInv, DeInitFreesInv
     DEF SetRest
<1>5. CASE \E n \in Counts : TakeLooks(n)
  BY <1>5, TakeLooksInv
<1>6. CASE PhotoInit \/ ResetLooks \/ DeInitBegins
  BY <1>6, PhotoInitInv, ResetLooksInv, DeInitBeginsInv
<1>7. CASE UNCHANGED vars
  BY <1>7 DEF vars, hvars, cvars, history, IInv, TypeOK, PlacesOK, Shooting, Gone, PicturesCounted,
              Sized, OneSizePerShot, InHand, Pieces
<1> QED
  BY <1>1, <1>2, <1>3, <1>4, <1>5, <1>6, <1>7 DEF Next

\* The inductive invariant holds in every state of the photo module.
THEOREM Invariance == Spec => []IInv
<1>1. Init => IInv
  BY InitInv
<1> QED
  BY <1>1, NextInv, PTL DEF Spec

\* The variables of a handle and its encoders keep their types; u32PhotoCnt,
\* which is unsigned in the code, is never decremented at zero.
THEOREM TypeCorrect == Spec => []TypeOK
<1>1. IInv => TypeOK
  BY DEF IInv
<1> QED
  BY <1>1, Invariance, PTL

\* Every picture the encoder owes or the thread has in hand is counted.
THEOREM PicturesAreCounted == Spec => []PicturesCounted
<1>1. IInv => PicturesCounted
  BY DEF IInv
<1> QED
  BY <1>1, Invariance, PTL

\* The photos of one shot have one size, whenever a reset comes, unless TakePhoto
\* and Reset each made their tests before the other set what it tests.
THEOREM ShotsOfOneSize == Spec => []OneSizePerShot
<1>1. IInv => OneSizePerShot
  BY DEF IInv
<1> QED
  BY <1>1, Invariance, PTL

\* While the thread of a handle exists the handle does: DeInit frees it only
\* after the join.
THEOREM HandleIsAlive == Spec => []HandleAlive
<1>1. IInv => HandleAlive
  BY DEF IInv, Gone, HandleAlive
<1> QED
  BY <1>1, Invariance, PTL

-----------------------------------------------------------------------------
(* Thumbnails.  That the thumbnail a photo goes with is of its shot follows *)
(* from what is left of the thumbnails when a shot is accepted: nothing,    *)
(* for the thread stops their encoder after the last photo of a shot, or    *)
(* has taken one of them for every photo that is cut into slices.           *)

PictureOrNone == Picture \cup {None}

\* What was encoded or handed over is of a shot that was accepted.
Past ==
  /\ last \in [photo : PictureOrNone, thumb : PictureOrNone]
  /\ \A c \in Chans : buf[c] # None => buf[c].shot <= shot
  /\ last.photo # None => last.photo.shot <= shot

NoThumb == recv["thumb"] = 0 /\ buf["thumb"] = None

\* The thread has looked for the thumbnail of the photo that it cuts.
Looked == thr.thumb \/ thr.pc = "count"
ThumbsOwed == recv["thumb"] + (IF buf["thumb"] # None THEN 1 ELSE 0) + (IF Looked THEN 1 ELSE 0)

\* Every thumbnail that is owed is that of a photo to come, and an encoder of
\* whole photos owes none between the shots.  What came after a time-out breaks
\* it for photos in slices.
NoneLeft ==
  /\ ~up => NoThumb
  /\ up /\ slice /\ ~late => ThumbsOwed <= cnt
  /\ slice /\ ~late /\ shooter.pc \in {"main", "thumb"} => NoThumb /\ ~Looked
  /\ IF slice
     THEN (thr.pc \in {"given", "release"} => thr.thumb) /\ (thr.pc = "count" => ~thr.thumb)
     ELSE ~thr.thumb
  /\ up /\ ~slice /\ cnt = 0 =>
       /\ thr.pc \in {"map", "head", "wait", "done"} => NoThumb
       /\ thr.pc = "clearThumb" => recv["thumb"] = 0
  /\ late => slice

OwnThumb == clean /\ ~late /\ buf["thumb"] # None => buf["thumb"].shot = shot

ThumbInv == Past /\ NoneLeft /\ OwnThumb /\ ThumbOfShot

\* Most steps have nothing to do with thumbnails.
LEMMA ThumbsUntouched ==
  ASSUME IInv, ThumbInv, UNCHANGED <<up, slice, cnt, shot, last, late>>,
         recv'["thumb"] = recv["thumb"], buf'["thumb"] = buf["thumb"],
         buf'["main"] \in {buf["main"], None}, clean' => clean,
         shooter'.pc \in {"main", "thumb"} => shooter.pc \in {"main", "thumb"},
         thr'.thumb = thr.thumb, thr'.pc = "count" => thr.pc = "count",
         thr'.pc \in {"map", "head", "wait", "done"} =>
           thr.pc \in {"map", "head", "wait", "done"} \/ cnt # 0 \/ slice,
         thr'.pc \in {"clearThumb", "given", "release"} => thr'.pc = thr.pc
  PROVE  ThumbInv'
<1>1. Past'
  BY DEF ThumbInv, Past, Chans, PictureOrNone
<1>2. NoThumb' = NoThumb
  BY DEF NoThumb
<1>3. Looked' => Looked
  BY DEF Looked
<1>4. ThumbsOwed' <= ThumbsOwed
  BY <1>3 DEF ThumbsOwed, IInv, TypeOK, Chans
<1>5. (up /\ slice /\ ~late => ThumbsOwed <= cnt)'
  <2>1. ThumbsOwed \in Int /\ ThumbsOwed' \in Int /\ cnt \in Int
    BY DEF ThumbsOwed, IInv, TypeOK, Chans
  <2> QED
    BY <1>4, <2>1 DEF ThumbInv, NoneLeft
<1>6. NoneLeft'
  BY <1>2, <1>3, <1>5 DEF ThumbInv, NoneLeft, IInv, PlacesOK
<1>7. (OwnThumb /\ ThumbOfShot)'
  BY DEF ThumbInv, OwnThumb, ThumbOfShot
<1> QED
  BY <1>1, <1>6, <1>7 DEF ThumbInv

LEMMA TakeLooksThumb == ASSUME NEW n \in Counts, IInv, ThumbInv, TakeLooks(n) PROVE ThumbInv'
  BY ThumbsUntouched DEF IInv, TypeOK, Chans, TakeLooks, hvars, cvars, history

LEMMA MapBufferThumb == ASSUME IInv, ThumbInv, MapBuffer PROVE ThumbInv'
  BY ThumbsUntouched DEF IInv, TypeOK, Chans, MapBuffer, At, hvars, cvars, history

LEMMA SetUpSlicesThumb == ASSUME IInv, ThumbInv, SetUpSlices PROVE ThumbInv'
  BY ThumbsUntouched DEF IInv, TypeOK, Chans, SetUpSlices, At, hvars, cvars, history

LEMMA WarmUpMainThumb == ASSUME IInv, ThumbInv, WarmUpMain PROVE ThumbInv'
  BY ThumbsUntouched DEF IInv, TypeOK, Chans, WarmUpMain, At, StopRecv, hvars, history

LEMMA WarmUpResetMainThumb == ASSUME IInv, ThumbInv, WarmUpResetMain PROVE ThumbInv'
  BY ThumbsUntouched DEF IInv, TypeOK, Chans, WarmUpResetMain, At, Empty, hvars, history

LEMMA HeadThumb == ASSUME IInv, ThumbInv, Head PROVE ThumbInv'
  BY ThumbsUntouched DEF IInv, TypeOK, Chans, Head, At, hvars, cvars, history

LEMMA WaitPhotoThumb == ASSUME IInv, ThumbInv, WaitPhoto PROVE ThumbInv'
  BY ThumbsUntouched DEF IInv, TypeOK, Chans, WaitPhoto, At, hvars, cvars, history

LEMMA WaitFrameThumb == ASSUME IInv, ThumbInv, WaitFrame PROVE ThumbInv'
  BY ThumbsUntouched DEF IInv, TypeOK, Chans, WaitFrame, hvars, cvars, history

LEMMA SliceFailsThumb == ASSUME IInv, ThumbInv, SliceFails PROVE ThumbInv'
  BY ThumbsUntouched DEF IInv, PlacesOK, TypeOK, Chans, SliceFails, At, hvars, cvars, history

LEMMA ThumbTimesOutThumb == ASSUME IInv, ThumbInv, ThumbTimesOut PROVE ThumbInv'
  BY ThumbsUntouched DEF IInv, TypeOK, Chans, ThumbTimesOut, At, hvars, cvars, history

LEMMA LastThumb == ASSUME IInv, ThumbInv, Last PROVE ThumbInv'
  BY ThumbsUntouched DEF IInv, TypeOK, Chans, Last, At, hvars, cvars, history

LEMMA StopMainThumb == ASSUME IInv, ThumbInv, StopMain PROVE ThumbInv'
  BY ThumbsUntouched DEF IInv, TypeOK, Chans, StopMain, At, StopRecv, hvars, history

LEMMA EmptyMainThumb == ASSUME IInv, ThumbInv, EmptyMain PROVE ThumbInv'
  BY ThumbsUntouched DEF IInv, TypeOK, Chans, EmptyMain, At, Empty, hvars, history

LEMMA TakeStartsMainThumb == ASSUME IInv, ThumbInv, TakeStartsMain PROVE ThumbInv'
  BY ThumbsUntouched DEF IInv, TypeOK, Chans, TakeStartsMain, hvars, history

LEMMA ResetLooksThumb == ASSUME IInv, ThumbInv, ResetLooks PROVE ThumbInv'
  BY ThumbsUntouched DEF IInv, TypeOK, Chans, ResetLooks, hvars, cvars, history

LEMMA ResetMarksThumb == ASSUME IInv, ThumbInv, ResetMarks PROVE ThumbInv'
  BY ThumbsUntouched DEF IInv, TypeOK, Chans, ResetMarks, cvars, history

LEMMA ResetUnbindsThumb == ASSUME IInv, ThumbInv, ResetUnbinds PROVE ThumbInv'
  BY ThumbsUntouched DEF IInv, TypeOK, Chans, ResetUnbinds, cvars, history

LEMMA ResetSizesThumb == ASSUME IInv, ThumbInv, ResetSizes PROVE ThumbInv'
  BY ThumbsUntouched DEF IInv, TypeOK, Chans, ResetSizes, cvars, history

LEMMA ResetBindsThumb == ASSUME IInv, ThumbInv, ResetBinds PROVE ThumbInv'
  BY ThumbsUntouched DEF IInv, TypeOK, Chans, ResetBinds, cvars, history

LEMMA ResetEndsThumb == ASSUME IInv, ThumbInv, ResetEnds PROVE ThumbInv'
  BY ThumbsUntouched DEF IInv, TypeOK, Chans, ResetEnds, cvars, history

LEMMA DeInitBeginsThumb == ASSUME IInv, ThumbInv, DeInitBegins PROVE ThumbInv'
  BY ThumbsUntouched DEF IInv, TypeOK, Chans, DeInitBegins, StopRecv, hvars, history

LEMMA DeInitStopsThumb == ASSUME IInv, ThumbInv, DeInitStops PROVE ThumbInv'
  BY ThumbsUntouched DEF IInv, TypeOK, Chans, DeInitStops, cvars, history

LEMMA EncodeThumb == ASSUME NEW c \in Chans, IInv, ThumbInv, Encode(c) PROVE ThumbInv'
<1> USE SlicesAssumption, CountsAssumption, MaxShotsAssumption, NoneAssumption
<1>1. Past'
  BY DEF IInv, TypeOK, PlacesOK, Gone, Chans, ThumbInv, Past, PictureOrNone, Picture, Encode, hvars, history
<1>2. NoneLeft'
  BY DEF IInv, TypeOK, PlacesOK, Shooting, Gone, Chans, Resets, ThumbInv, NoneLeft, NoThumb, ThumbsOwed, Looked, Encode, hvars, history
<1>3. OwnThumb'
  BY DEF IInv, TypeOK, Gone, Shooting, Chans, ThumbInv, Past, NoneLeft, NoThumb, ThumbsOwed, Looked, OwnThumb, Encode, hvars, history
<1>4. ThumbOfShot'
  BY DEF IInv, TypeOK, PlacesOK, Gone, Chans, ThumbInv, Past, OwnThumb, ThumbOfShot, Encode, hvars, history
<1> QED
  BY <1>1, <1>2, <1>3, <1>4 DEF ThumbInv

LEMMA TakeCountsThumb == ASSUME IInv, ThumbInv, TakeCounts PROVE ThumbInv'
<1> USE SlicesAssumption, CountsAssumption, MaxShotsAssumption, NoneAssumption
<1>1. Past'
  BY DEF IInv, TypeOK, PlacesOK, Gone, Chans, ThumbInv, Past, PictureOrNone, Picture, TakeCounts, Idle, hvars, cvars, history
<1>2. NoneLeft'
  BY DEF IInv, TypeOK, PlacesOK, Shooting, Gone, Chans, Resets, ThumbInv, NoneLeft, NoThumb, ThumbsOwed, Looked, TakeCounts, Idle, hvars, cvars, history
<1>3. OwnThumb'
  BY DEF IInv, TypeOK, Gone, Shooting, Chans, ThumbInv, Past, NoneLeft, NoThumb, ThumbsOwed, Looked, OwnThumb, TakeCounts, Idle, hvars, cvars, history
<1>4. ThumbOfShot'
  BY DEF IInv, TypeOK, PlacesOK, Gone, Chans, ThumbInv, Past, OwnThumb, ThumbOfShot, TakeCounts, Idle, hvars, cvars, history
<1> QED
  BY <1>1, <1>2, <1>3, <1>4 DEF ThumbInv

LEMMA TakeStartsThumbThumb == ASSUME IInv, ThumbInv, TakeStartsThumb PROVE ThumbInv'
<1> USE SlicesAssumption, CountsAssumption, MaxShotsAssumption, NoneAssumption
<1>1. Past'
  BY DEF IInv, TypeOK, PlacesOK, Gone, Chans, ThumbInv, Past, PictureOrNone, Picture, TakeStartsThumb, hvars, history
<1>2. NoneLeft'
  BY DEF IInv, TypeOK, PlacesOK, Shooting, Gone, Chans, Resets, ThumbInv, NoneLeft, NoThumb, ThumbsOwed, Looked, TakeStartsThumb, hvars, history
<1>3. OwnThumb'
  BY DEF IInv, TypeOK, Gone, Shooting, Chans, ThumbInv, Past, NoneLeft, NoThumb, ThumbsOwed, Looked, OwnThumb, TakeStartsThumb, hvars, history
<1>4. ThumbOfShot'
  BY DEF IInv, TypeOK, PlacesOK, Gone, Chans, ThumbInv, Past, OwnThumb, ThumbOfShot, TakeStartsThumb, hvars, history
<1> QED
  BY <1>1, <1>2, <1>3, <1>4 DEF ThumbInv

LEMMA WarmUpThumbThumb == ASSUME IInv, ThumbInv, WarmUpThumb PROVE ThumbInv'
<1> USE SlicesAssumption, CountsAssumption, MaxShotsAssumption, NoneAssumption
<1>1. Past'
  BY DEF IInv, TypeOK, PlacesOK, Gone, Chans, ThumbInv, Past, PictureOrNone, Picture, WarmUpThumb, At, StopRecv, Empty, hvars, history
<1>2. NoneLeft'
  BY DEF IInv, TypeOK, PlacesOK, Shooting, Gone, Chans, Resets, ThumbInv, NoneLeft, NoThumb, ThumbsOwed, Looked, WarmUpThumb, At, StopRecv, Empty, hvars, history
<1>3. OwnThumb'
  BY DEF IInv, TypeOK, Gone, Shooting, Chans, ThumbInv, Past, NoneLeft, NoThumb, ThumbsOwed, Looked, OwnThumb, WarmUpThumb, At, StopRecv, Empty, hvars, history
<1>4. ThumbOfShot'
  BY DEF IInv, TypeOK, PlacesOK, Gone, Chans, ThumbInv, Past, OwnThumb, ThumbOfShot, WarmUpThumb, At, StopRecv, Empty, hvars, history
<1> QED
  BY <1>1, <1>2, <1>3, <1>4 DEF ThumbInv

LEMMA ClearThumbThumb == ASSUME IInv, ThumbInv, ClearThumb PROVE ThumbInv'
<1> USE SlicesAssumption, CountsAssumption, MaxShotsAssumption, NoneAssumption
<1>1. Past'
  BY DEF IInv, TypeOK, PlacesOK, Gone, Chans, ThumbInv, Past, PictureOrNone, Picture, ClearThumb, At, Empty, hvars, history
<1>2. NoneLeft'
  BY DEF IInv, TypeOK, PlacesOK, Shooting, Gone, Chans, Resets, ThumbInv, NoneLeft, NoThumb, ThumbsOwed, Looked, ClearThumb, At, Empty, hvars, history
<1>3. OwnThumb'
  BY DEF IInv, TypeOK, Gone, Shooting, Chans, ThumbInv, Past, NoneLeft, NoThumb, ThumbsOwed, Looked, OwnThumb, ClearThumb, At, Empty, hvars, history
<1>4. ThumbOfShot'
  BY DEF IInv, TypeOK, PlacesOK, Gone, Chans, ThumbInv, Past, OwnThumb, ThumbOfShot, ClearThumb, At, Empty, hvars, history
<1> QED
  BY <1>1, <1>2, <1>3, <1>4 DEF ThumbInv

LEMMA SendSliceThumb == ASSUME IInv, ThumbInv, SendSlice PROVE ThumbInv'
<1> USE SlicesAssumption, CountsAssumption, MaxShotsAssumption, NoneAssumption
<1>1. Past'
  BY DEF IInv, TypeOK, PlacesOK, Gone, Chans, ThumbInv, Past, PictureOrNone, Picture, SendSlice, At, hvars, cvars, history
<1>2. NoneLeft'
  BY DEF IInv, TypeOK, PlacesOK, Shooting, Gone, Chans, Resets, ThumbInv, NoneLeft, NoThumb, ThumbsOwed, Looked, SendSlice, At, hvars, cvars, history
<1>3. OwnThumb'
  <2>1. buf'["thumb"] = buf["thumb"] /\ shot' = shot /\ late' = late /\ (clean' => clean)
    BY DEF IInv, TypeOK, Chans, SendSlice, history
  <2> QED
    BY <2>1 DEF ThumbInv, OwnThumb
<1>4. ThumbOfShot'
  BY DEF IInv, TypeOK, PlacesOK, Gone, Chans, ThumbInv, Past, OwnThumb, ThumbOfShot, SendSlice, At, hvars, cvars, history
<1> QED
  BY <1>1, <1>2, <1>3, <1>4 DEF ThumbInv

LEMMA GiveSliceThumb == ASSUME IInv, ThumbInv, GiveSlice PROVE ThumbInv'
<1> USE SlicesAssumption, CountsAssumption, MaxShotsAssumption, NoneAssumption
<1>1. Past'
  BY DEF IInv, TypeOK, PlacesOK, Gone, Chans, ThumbInv, Past, PictureOrNone, Picture, GiveSlice, At, HandOver, hvars, cvars
<1>2. NoneLeft'
  BY DEF IInv, TypeOK, PlacesOK, Shooting, Gone, Chans, Resets, ThumbInv, NoneLeft, NoThumb, ThumbsOwed, Looked, GiveSlice, At, HandOver, hvars, cvars
<1>3. OwnThumb'
  BY DEF IInv, TypeOK, Gone, Shooting, Chans, ThumbInv, Past, NoneLeft, NoThumb, ThumbsOwed, Looked, OwnThumb, GiveSlice, At, HandOver, hvars, cvars
<1>4. ThumbOfShot'
  BY DEF IInv, TypeOK, PlacesOK, Gone, Chans, ThumbInv, Past, OwnThumb, ThumbOfShot, GiveSlice, At, HandOver, hvars, cvars
<1> QED
  BY <1>1, <1>2, <1>3, <1>4 DEF ThumbInv

LEMMA GiveWithThumbThumb == ASSUME IInv, ThumbInv, GiveWithThumb PROVE ThumbInv'
<1> USE SlicesAssumption, CountsAssumption, MaxShotsAssumption, NoneAssumption
<1>1. Past'
  BY DEF IInv, TypeOK, PlacesOK, Gone, Chans, ThumbInv, Past, PictureOrNone, Picture, GiveWithThumb, At, HandOver, Empty, hvars
<1>2. NoneLeft'
  BY DEF IInv, TypeOK, PlacesOK, Shooting, Gone, Chans, Resets, ThumbInv, NoneLeft, NoThumb, ThumbsOwed, Looked, GiveWithThumb, At, HandOver, Empty, hvars
<1>3. OwnThumb'
  BY DEF IInv, TypeOK, Gone, Shooting, Chans, ThumbInv, Past, NoneLeft, NoThumb, ThumbsOwed, Looked, OwnThumb, GiveWithThumb, At, HandOver, Empty, hvars
<1>4. ThumbOfShot'
  BY DEF IInv, TypeOK, PlacesOK, Gone, Chans, ThumbInv, Past, OwnThumb, ThumbOfShot, GiveWithThumb, At, HandOver, Empty, hvars
<1> QED
  BY <1>1, <1>2, <1>3, <1>4 DEF ThumbInv

LEMMA GiveWithoutThumbThumb == ASSUME IInv, ThumbInv, GiveWithoutThumb PROVE ThumbInv'
<1> USE SlicesAssumption, CountsAssumption, MaxShotsAssumption, NoneAssumption
<1>1. Past'
  BY DEF IInv, TypeOK, PlacesOK, Gone, Chans, ThumbInv, Past, PictureOrNone, Picture, GiveWithoutThumb, At, HandOver, hvars, cvars
<1>2. NoneLeft'
  BY DEF IInv, TypeOK, PlacesOK, Shooting, Gone, Chans, Resets, ThumbInv, NoneLeft, NoThumb, ThumbsOwed, Looked, GiveWithoutThumb, At, HandOver, hvars, cvars
<1>3. OwnThumb'
  BY DEF IInv, TypeOK, Gone, Shooting, Chans, ThumbInv, Past, NoneLeft, NoThumb, ThumbsOwed, Looked, OwnThumb, GiveWithoutThumb, At, HandOver, hvars, cvars
<1>4. ThumbOfShot'
  BY DEF IInv, TypeOK, PlacesOK, Gone, Chans, ThumbInv, Past, OwnThumb, ThumbOfShot, GiveWithoutThumb, At, HandOver, hvars, cvars
<1> QED
  BY <1>1, <1>2, <1>3, <1>4 DEF ThumbInv

LEMMA GiveSliceWithThumbThumb == ASSUME IInv, ThumbInv, GiveSliceWithThumb PROVE ThumbInv'
<1> USE SlicesAssumption, CountsAssumption, MaxShotsAssumption, NoneAssumption
<1>1. Past'
  BY DEF IInv, TypeOK, PlacesOK, Gone, Chans, ThumbInv, Past, PictureOrNone, Picture, GiveSliceWithThumb, HandOver, Empty, hvars
<1>2. NoneLeft'
  BY DEF IInv, TypeOK, PlacesOK, Shooting, Gone, Chans, Resets, ThumbInv, NoneLeft, NoThumb, ThumbsOwed, Looked, GiveSliceWithThumb, HandOver, Empty, hvars
<1>3. OwnThumb'
  BY DEF IInv, TypeOK, Gone, Shooting, Chans, ThumbInv, Past, NoneLeft, NoThumb, ThumbsOwed, Looked, OwnThumb, GiveSliceWithThumb, HandOver, Empty, hvars
<1>4. ThumbOfShot'
  BY DEF IInv, TypeOK, PlacesOK, Gone, Chans, ThumbInv, Past, OwnThumb, ThumbOfShot, GiveSliceWithThumb, HandOver, Empty, hvars
<1> QED
  BY <1>1, <1>2, <1>3, <1>4 DEF ThumbInv

LEMMA StopLateThumbThumb == ASSUME IInv, ThumbInv, StopLateThumb PROVE ThumbInv'
<1> USE SlicesAssumption, CountsAssumption, MaxShotsAssumption, NoneAssumption
<1>1. /\ recv'["thumb"] = 0 /\ buf' = buf /\ thr'.pc = "given" /\ thr'.thumb
      /\ up' = up /\ slice' = slice /\ cnt' = cnt /\ shooter' = shooter
      /\ clean' = clean /\ shot' = shot /\ last' = last
  BY DEF IInv, TypeOK, Chans, StopLateThumb, StopRecv, hvars
<1>2. Past'
  BY <1>1 DEF ThumbInv, Past
<1>3. up /\ slice /\ cnt > 0
  <2>1. slice /\ up /\ InHand # 0
    BY DEF IInv, TypeOK, Gone, PlacesOK, StopLateThumb, InHand
  <2> QED
    BY <2>1, InHandCounted
<1>4. late' \/ NoThumb'
  BY <1>1 DEF StopLateThumb, NoThumb
<1>5. (up /\ slice /\ ~late => ThumbsOwed <= cnt)'
  BY <1>1, <1>3, <1>4 DEF ThumbsOwed, Looked, NoThumb, IInv, TypeOK
<1>6. shooter.pc \notin {"main", "thumb"}
  BY DEF IInv, Shooting, StopLateThumb
<1>7. NoneLeft'
  BY <1>1, <1>3, <1>5, <1>6 DEF NoneLeft
<1>8. (OwnThumb /\ ThumbOfShot)'
  <2>1. late => late'
    BY DEF StopLateThumb
  <2>2. OwnThumb'
    BY <1>1, <2>1 DEF ThumbInv, OwnThumb
  <2>3. ThumbOfShot'
    BY <1>1, <2>1 DEF ThumbInv, ThumbOfShot
  <2> QED
    BY <2>2, <2>3
<1> QED
  BY <1>2, <1>7, <1>8 DEF ThumbInv

LEMMA ReleaseThumb == ASSUME IInv, ThumbInv, Release PROVE ThumbInv'
<1> USE SlicesAssumption, CountsAssumption, MaxShotsAssumption, NoneAssumption
<1>1. Past'
  BY DEF IInv, TypeOK, PlacesOK, Gone, Chans, ThumbInv, Past, PictureOrNone, Picture, Release, Empty, hvars, history
<1>2. NoneLeft'
  <2>1. /\ recv' = recv /\ buf'["thumb"] = buf["thumb"]
        /\ up' = up /\ slice' = slice /\ cnt' = cnt /\ shooter' = shooter /\ late' = late
    BY DEF IInv, TypeOK, Chans, Release, Empty, hvars, history
  <2>2. /\ thr'.pc \in {"send", "count"} /\ (thr'.pc = "send" => slice /\ thr'.thumb = thr.thumb)
        /\ (thr'.pc = "count" => ~thr'.thumb)
    <3>1. CASE slice /\ thr.piece < Slices
      <4>1. thr' = [thr EXCEPT !.pc = "send", !.piece = @ + 1]
        BY <3>1 DEF Release
      <4> QED
        BY <3>1, <4>1 DEF IInv, TypeOK
    <3>2. CASE ~(slice /\ thr.piece < Slices)
      <4>1. thr' = [thr EXCEPT !.pc = "count", !.thumb = FALSE]
        BY <3>2 DEF Release
      <4> QED
        BY <4>1 DEF IInv, TypeOK
    <3> QED
      BY <3>1, <3>2
  <2>3. slice => thr.thumb
    BY DEF ThumbInv, NoneLeft, Release
  <2>4. (slice => Looked' = Looked) /\ NoThumb' = NoThumb
    BY <2>1, <2>2, <2>3 DEF Looked, NoThumb
  <2>5. slice => ThumbsOwed' = ThumbsOwed
    BY <2>1, <2>4 DEF ThumbsOwed
  <2> QED
    BY <2>1, <2>2, <2>4, <2>5 DEF ThumbInv, NoneLeft
<1>3. OwnThumb'
  BY DEF IInv, TypeOK, Gone, Shooting, Chans, ThumbInv, Past, NoneLeft, NoThumb, ThumbsOwed, Looked, OwnThumb, Release, Empty, hvars, history
<1>4. ThumbOfShot'
  BY DEF IInv, TypeOK, PlacesOK, Gone, Chans, ThumbInv, Past, OwnThumb, ThumbOfShot, Release, Empty, hvars, history
<1> QED
  BY <1>1, <1>2, <1>3, <1>4 DEF ThumbInv

LEMMA CountThumb == ASSUME IInv, ThumbInv, Count PROVE ThumbInv'
<1> USE SlicesAssumption, CountsAssumption, MaxShotsAssumption, NoneAssumption
<1>1. Past'
  BY DEF IInv, TypeOK, PlacesOK, Gone, Chans, ThumbInv, Past, PictureOrNone, Picture, Count, At, hvars, cvars, history
<1>2. NoneLeft'
  <2>1. up /\ cnt > 0 /\ cnt \in Nat
    <3>1. up /\ InHand # 0
      BY DEF IInv, TypeOK, Gone, Count, InHand
    <3> QED
      BY <3>1, InHandCounted DEF IInv, TypeOK
  <2>2. /\ recv' = recv /\ buf' = buf /\ up' /\ slice' = slice /\ cnt' = cnt - 1 /\ shooter' = shooter /\ late' = late
        /\ thr'.thumb = thr.thumb /\ thr'.pc = (IF slice THEN "head" ELSE "last")
    BY <2>1 DEF IInv, TypeOK, Count, At, hvars, cvars, history
  <2>3. CASE slice
    <3>1. ~Looked' \/ thr.thumb
      BY <2>2, <2>3 DEF Looked
    <3>2. Looked /\ (late \/ shooter.pc \notin {"main", "thumb"})
      BY <2>3 DEF Count, Looked, ThumbInv, NoneLeft
    <3>3. (~thr.thumb)
      BY <2>3 DEF ThumbInv, NoneLeft, Count
    <3>4. ThumbsOwed' = ThumbsOwed - 1 /\ ThumbsOwed \in Nat
      BY <2>2, <3>1, <3>2, <3>3 DEF ThumbsOwed, IInv, TypeOK, Chans
    <3> QED
      BY <2>1, <2>2, <2>3, <3>2, <3>4 DEF ThumbInv, NoneLeft
  <2>4. CASE ~slice
    BY <2>2, <2>4 DEF ThumbInv, NoneLeft
  <2> QED
    BY <2>3, <2>4
<1>3. OwnThumb'
  BY DEF IInv, TypeOK, Gone, Shooting, Chans, ThumbInv, Past, NoneLeft, NoThumb, ThumbsOwed, Looked, OwnThumb, Count, At, hvars, cvars, history
<1>4. ThumbOfShot'
  BY DEF IInv, TypeOK, PlacesOK, Gone, Chans, ThumbInv, Past, OwnThumb, ThumbOfShot, Count, At, hvars, cvars, history
<1> QED
  BY <1>1, <1>2, <1>3, <1>4 DEF ThumbInv

LEMMA StopThumbThumb == ASSUME IInv, ThumbInv, StopThumb PROVE ThumbInv'
<1> USE SlicesAssumption, CountsAssumption, MaxShotsAssumption, NoneAssumption
<1>1. Past'
  BY DEF IInv, TypeOK, PlacesOK, Gone, Chans, ThumbInv, Past, PictureOrNone, Picture, StopThumb, At, StopRecv, hvars, history
<1>2. NoneLeft'
  BY DEF IInv, TypeOK, PlacesOK, Shooting, Gone, Chans, Resets, ThumbInv, NoneLeft, NoThumb, ThumbsOwed, Looked, StopThumb, At, StopRecv, hvars, history
<1>3. OwnThumb'
  BY DEF IInv, TypeOK, Gone, Shooting, Chans, ThumbInv, Past, NoneLeft, NoThumb, ThumbsOwed, Looked, OwnThumb, StopThumb, At, StopRecv, hvars, history
<1>4. ThumbOfShot'
  BY DEF IInv, TypeOK, PlacesOK, Gone, Chans, ThumbInv, Past, OwnThumb, ThumbOfShot, StopThumb, At, StopRecv, hvars, history
<1> QED
  BY <1>1, <1>2, <1>3, <1>4 DEF ThumbInv

LEMMA PhotoInitThumb == ASSUME IInv, ThumbInv, PhotoInit PROVE ThumbInv'
<1> USE SlicesAssumption, CountsAssumption, MaxShotsAssumption, NoneAssumption
<1>1. Past'
  BY DEF IInv, TypeOK, PlacesOK, Gone, Chans, ThumbInv, Past, PictureOrNone, Picture, PhotoInit, cvars, history
<1>2. NoneLeft'
  BY DEF IInv, TypeOK, PlacesOK, Shooting, Gone, Chans, Resets, ThumbInv, NoneLeft, NoThumb, ThumbsOwed, Looked, PhotoInit, cvars, history
<1>3. OwnThumb'
  BY DEF IInv, TypeOK, Gone, Shooting, Chans, ThumbInv, Past, NoneLeft, NoThumb, ThumbsOwed, Looked, OwnThumb, PhotoInit, cvars, history
<1>4. ThumbOfShot'
  BY DEF IInv, TypeOK, PlacesOK, Gone, Chans, ThumbInv, Past, OwnThumb, ThumbOfShot, PhotoInit, cvars, history
<1> QED
  BY <1>1, <1>2, <1>3, <1>4 DEF ThumbInv

LEMMA DeInitFreesThumb == ASSUME IInv, ThumbInv, DeInitFrees PROVE ThumbInv'
<1> USE SlicesAssumption, CountsAssumption, MaxShotsAssumption, NoneAssumption
<1>1. Past'
  BY DEF IInv, TypeOK, PlacesOK, Gone, Chans, ThumbInv, Past, PictureOrNone, Picture, DeInitFrees, At, history
<1>2. NoneLeft'
  BY DEF IInv, TypeOK, PlacesOK, Shooting, Gone, Chans, Resets, ThumbInv, NoneLeft, NoThumb, ThumbsOwed, Looked, DeInitFrees, At, history
<1>3. OwnThumb'
  BY DEF IInv, TypeOK, Gone, Shooting, Chans, ThumbInv, Past, NoneLeft, NoThumb, ThumbsOwed, Looked, OwnThumb, DeInitFrees, At, history
<1>4. ThumbOfShot'
  BY DEF IInv, TypeOK, PlacesOK, Gone, Chans, ThumbInv, Past, OwnThumb, ThumbOfShot, DeInitFrees, At, history
<1> QED
  BY <1>1, <1>2, <1>3, <1>4 DEF ThumbInv

LEMMA NextThumb == IInv /\ ThumbInv /\ [Next]_vars => ThumbInv'
<1> SUFFICES ASSUME IInv, ThumbInv, [Next]_vars PROVE ThumbInv'
  OBVIOUS
<1>1. CASE Camera
  BY <1>1, EncodeThumb DEF Camera
<1>2. CASE TakeRest
  BY <1>2, TakeCountsThumb, TakeStartsMainThumb, TakeStartsThumbThumb DEF TakeRest
<1>3. CASE Thread
  BY <1>3, MapBufferThumb, SetUpSlicesThumb, WarmUpMainThumb, WarmUpResetMainThumb,
       WarmUpThumbThumb, ClearThumbThumb, HeadThumb, WaitPhotoThumb, WaitFrameThumb,
       SendSliceThumb, GiveSliceThumb, GiveWithThumbThumb, GiveWithoutThumbThumb,
       GiveSliceWithThumbThumb, SliceFailsThumb, ThumbTimesOutThumb, StopLateThumbThumb, ReleaseThumb, CountThumb, LastThumb,
       StopMainThumb, EmptyMainThumb, StopThumbThumb
     DEF Thread
<1>4. CASE SetRest
  BY <1>4, ResetMarksThumb, ResetUnbindsThumb, ResetSizesThumb, ResetBindsThumb, ResetEndsThumb,
       DeInitStopsThumb, DeInitFreesThumb
     DEF SetRest
<1>5. CASE \E n \in Counts : TakeLooks(n)
  BY <1>5, TakeLooksThumb
<1>6. CASE PhotoInit \/ ResetLooks \/ DeInitBegins
  BY <1>6, PhotoInitThumb, ResetLooksThumb, DeInitBeginsThumb
<1>7. CASE UNCHANGED vars
  BY <1>7, ThumbsUntouched DEF vars, hvars, cvars, history, IInv, PlacesOK
<1> QED
  BY <1>1, <1>2, <1>3, <1>4, <1>5, <1>6, <1>7 DEF Next

LEMMA InitThumb == ASSUME Init PROVE ThumbInv
<1>1. Past
  BY NoneAssumption DEF Init, Past, PictureOrNone, Chans
<1>2. NoneLeft /\ OwnThumb /\ ThumbOfShot
  BY DEF Init, NoneLeft, NoThumb, Looked, OwnThumb, ThumbOfShot, Chans
<1> QED
  BY <1>1, <1>2 DEF ThumbInv

\* The thumbnail that goes with a photo of a shot accepted in peace is of that
\* shot, however late the thumbnails of the shots before it came, but for one that
\* came between SliceProc's time-out and its stop of the encoder.
THEOREM ThumbsOfTheirShot == Spec => []ThumbOfShot
<1>1. Init => ThumbInv
  BY InitThumb
<1>2. ThumbInv => ThumbOfShot
  BY DEF ThumbInv
<1> QED
  BY <1>1, <1>2, NextThumb, Invariance, PTL DEF Spec
-----------------------------------------------------------------------------
(* Division                                                                *)

LEMMA Division ==
  ASSUME NEW a \in Nat, NEW b \in Nat \ {0}
  PROVE  /\ a \div b \in Nat /\ a % b \in 0 .. b - 1
         /\ a = b * (a \div b) + (a % b)
  OBVIOUS

LEMMA TimesLess ==
  ASSUME NEW a \in Nat, NEW b \in Nat, NEW c \in Nat \ {0}, a < b
  PROVE  a * c < b * c
  OBVIOUS

LEMMA LessByTimes ==
  ASSUME NEW a \in Nat, NEW b \in Nat, NEW c \in Nat \ {0}, a * c < b * c
  PROVE  a < b
  OBVIOUS

LEMMA TimesLeq ==
  ASSUME NEW a \in Nat, NEW b \in Nat, NEW c \in Nat, a <= b
  PROVE  a * c <= b * c
  OBVIOUS

-----------------------------------------------------------------------------
(* The slices of the photo                                                 *)

\* The number of slices is the smallest that holds all rows.
LEMMA CountBounds ==
  ASSUME NEW image \in Nat \ {0}, NEW height \in Nat \ {0}
  PROVE  /\ SliceCount(image, height) \in Nat \ {0}
         /\ height * (SliceCount(image, height) - 1) < image
         /\ image <= height * SliceCount(image, height)
<1> DEFINE q == image \div height
           r == image % height
<1>1. q \in Nat /\ r \in 0 .. height - 1 /\ image = height * q + r
  BY Division
<1> HIDE DEF q, r
<1>2. CASE r = 0
  <2>1. SliceCount(image, height) = q
    BY <1>1, <1>2 DEF SliceCount, q, r
  <2>2. image = height * q
    BY <1>1, <1>2
  <2>3. q # 0
    <3>1. SUFFICES ASSUME q = 0 PROVE FALSE
      OBVIOUS
    <3>2. height * q = 0
      BY <3>1
    <3> QED
      BY <2>2, <3>2
  <2>4. height * (q - 1) = height * q - height
    BY <1>1
  <2> QED
    BY <1>1, <2>1, <2>2, <2>3, <2>4
<1>3. CASE r # 0
  <2>1. SliceCount(image, height) = q + 1
    BY <1>1, <1>3 DEF SliceCount, q, r
  <2>2. height * ((q + 1) - 1) = height * q
    BY <1>1
  <2>3. height * (q + 1) = height * q + height
    BY <1>1
  <2>4. height * q \in Nat
    BY <1>1
  <2> QED
    BY <1>1, <1>3, <2>1, <2>2, <2>3, <2>4
<1> QED
  BY <1>2, <1>3

\* The slices make up the photo: RKADK_PHOTO_SetSliceParam leaves a last slice
\* that is neither empty nor longer than the others.
THEOREM SlicesArePhoto ==
  ASSUME NEW image \in Nat \ {0}, NEW height \in Nat \ {0}
  PROVE  SlicesMakePhoto(image, height)
<1> DEFINE n == SliceCount(image, height)
<1>1. n \in Nat \ {0} /\ height * (n - 1) < image /\ image <= height * n
  BY CountBounds
<1> HIDE DEF n
<1>2. height * n = height * (n - 1) + height
  BY <1>1
<1>3. height * (n - 1) \in Nat
  BY <1>1
<1> QED
  BY <1>1, <1>2, <1>3 DEF SlicesMakePhoto, LastSlice, n

-----------------------------------------------------------------------------
(* The parts of the camera's picture                                       *)

\* Two parts in a row have twice their share, and an odd part no more than it.
LEMMA BeforeBound ==
  ASSUME NEW s \in Nat, NEW n \in Nat \ {0}
  PROVE  Before(s, n) \in Nat /\ Before(s, n) <= s * (n - 1)
<1> DEFINE h == (n - 1) \div 2
           o == (n - 1) % 2
           e == s % 2
<1>1. h \in Nat /\ o \in 0 .. 1 /\ n - 1 = 2 * h + o /\ e \in 0 .. 1
  BY Division
<1>2. e <= s
  BY Division
<1>3. OddPart(s) = s - e /\ OddPart(s) + EvenPart(s) = 2 * s
  BY <1>1 DEF OddPart, EvenPart
<1> HIDE DEF h, o, e
<1>4. Before(s, n) = (2 * s) * h + (IF o = 1 THEN s - e ELSE 0)
  BY <1>3 DEF Before, h, o
<1>5. s * (n - 1) = (2 * s) * h + s * o
  <2>1. s * (2 * h + o) = (2 * s) * h + s * o
    BY <1>1
  <2> QED
    BY <1>1, <2>1
<1>6. (2 * s) * h \in Nat
  BY <1>1
<1>7. CASE o = 1
  BY <1>1, <1>2, <1>4, <1>5, <1>6, <1>7
<1>8. CASE o = 0
  <2>1. s * o = 0
    BY <1>8
  <2> QED
    BY <1>4, <1>5, <1>6, <1>8, <2>1
<1> QED
  BY <1>1, <1>7, <1>8

\* The second try of RKADK_PHOTO_SetViSliceParam leaves rows for the last part,
\* so that it does not try again and again.
THEOREM RetryIsLast ==
  ASSUME NEW vi \in Nat \ {0}, NEW image \in Nat \ {0}, NEW height \in Nat \ {0}
  PROVE  RetryEnds(vi, image, height)
<1> DEFINE s == Share(vi, image, height)
           n == SliceCount(image, height)
           k == n - 1
<1>1. vi * height \in Nat
  BY ProductInNat
<1>2. s \in Nat /\ image * s <= vi * height
  <2> DEFINE r == (vi * height) % image
  <2>1. s \in Nat /\ r \in Nat /\ vi * height = image * s + r
    BY <1>1, Division DEF Share
  <2> HIDE DEF s, r
  <2>2. image * s \in Nat
    BY <2>1
  <2> QED
    BY <2>1, <2>2
<1>3. n \in Nat \ {0} /\ k \in Nat /\ height * k < image
  BY CountBounds
<1>4. Before(s, n) \in Nat /\ Before(s, n) <= s * k
  BY <1>2, <1>3, BeforeBound
<1>5. s * k < vi
  <2> HIDE DEF s, n, k
  <2>1. (image * s) * k <= (vi * height) * k
    <3>1. image * s \in Nat
      BY <1>2
    <3> QED
      BY <1>1, <1>2, <1>3, <3>1, TimesLeq
  <2>2. (height * k) * vi < image * vi
    <3>1. height * k \in Nat
      BY <1>3
    <3> QED
      BY <1>3, <3>1, TimesLess
  <2>3. (vi * height) * k = (height * k) * vi /\ (image * s) * k = (s * k) * image
    BY <1>2, <1>3
  <2>4. (s * k) * image < vi * image
    <3>1. (s * k) * image \in Int /\ (height * k) * vi \in Int /\ image * vi \in Int /\ image * vi = vi * image
      BY <1>2, <1>3
    <3> QED
      BY <2>1, <2>2, <2>3, <3>1
  <2>5. s * k \in Nat
    BY <1>2, <1>3
  <2> QED
    BY <2>4, <2>5, LessByTimes
<1> QED
  BY <1>4, <1>5, <1>2, <1>3 DEF RetryEnds, LastPart
=============================================================================
