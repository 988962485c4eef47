----------------------------- MODULE MediaAlone -----------------------------
(***************************************************************************)
(* What one user of MediaSessions knows: its own job, what it was given,   *)
(* and of the others only what they may have.  Locals is a set of such     *)
(* local states for each user that holds the first and is closed under     *)
(* what the user does, whatever the others do meanwhile, and in which no   *)
(* call of the user can harm another.  It is found user by user, without   *)
(* the interleavings; MediaSessions_proof shows that users who keep to     *)
(* their local states keep the properties of MediaSessions together.       *)
(***************************************************************************)
EXTENDS MediaSessions

CONSTANT Locals(_)   \* the local states of a user

Items(u) ==
  UNION {UNION {{Scripts[u][x][what][i] : i \in DOMAIN Scripts[u][x][what]} : what \in {"open", "close", "reset"}} :
         x \in Situations}

\* The channels and pairs a user's scripts take, those of the other users',
\* and the encoders a user creates past the table.
Takes  == [u \in Users |-> {s.on : s \in {s \in Items(u) : s.op \in {"init", "bind"}}}]
Others == [u \in Users |-> UNION {Takes[w] : w \in Users \ {u}}]
Taken  == UNION {Takes[u] : u \in Users}
Makes  == [u \in Users |-> {s.on : s \in {s \in Items(u) : s.op = "create"}}]

\* One thread for all users.
Lone(x) == \A u, w \in x.users : x.threadOf[u] = x.threadOf[w]

\* A local state.  calls: the encoders that call the user back; made: those it
\* created; free: what a failure told that no other user has; app: what all
\* users share.
Fresh(x) ==
  [st |-> "closed", job |-> Idle, mem |-> [vpss |-> {}, type |-> "normal"],
   own |-> Unused, calls |-> {}, made |-> {}, free |-> {},
   app |-> [scaled |-> {}, type |-> "normal", faults |-> 0, lineup |-> x]]

\* The local state of user u in a state of MediaSessions.
CallsOf(u) == {c \in Chans : <<u, c>> \in t.cb}

View(u, free) ==
  [st |-> st[u], job |-> job[u], mem |-> mem[u],
   own |-> held[u], calls |-> CallsOf(u), made |-> t.on \cap Makes[u], free |-> free,
   app |-> [scaled |-> scaled, type |-> recType, faults |-> faults, lineup |-> lineup]]

ScriptOf(u, l) ==
  Scripts[u][[scaled |-> l.app.scaled, type |-> l.app.type, was |-> l.job.was, vpss |-> l.mem.vpss]][l.job.what]
CallOf(u, l) == Item(l.job, ScriptOf(u, l))
Has(l, x)    == x \in DOMAIN l.own

-----------------------------------------------------------------------------
(* What follows a local state                                              *)

\* The answers of a call that is not made to fail, and whether it can be.
Answers(u, l, s) ==
  CASE s.op \in {"deinit", "unbind"} -> IF Has(l, s.on) THEN {TRUE} ELSE {FALSE}
    [] s.op = "stop"    -> IF Has(l, s.on) THEN {TRUE} ELSE BOOLEAN
    [] s.op = "unwire"  -> IF s.on \in Others[u] THEN BOOLEAN ELSE {TRUE}
    [] s.op = "destroy" -> IF s.on \in l.made THEN {TRUE} ELSE {FALSE}
    [] OTHER -> {TRUE}

MayFail(u, l, s) ==
  /\ l.app.faults < l.app.lineup.maxFaults
  /\ ~(s.op \in {"init", "bind"} /\ Has(l, s.on))

\* What fails for the first user of a device tells that it has no other.
Tells(l, s, f) ==
  IF ~Lone(l.app.lineup) \/ s.op \notin {"init", "bind"} THEN {}
  ELSE IF f \in {"VI_EnableDev", "VPSS_CreateGrp"} THEN {c \in Chans : Dev(c) = Dev(s.on)}
  ELSE {s.on}

Worse(app) == [scaled |-> app.scaled, type |-> app.type, faults |-> app.faults + 1, lineup |-> app.lineup]

After(u, l, s, ok, told, app) ==
  [st    |-> l.st,
   job   |-> Advance(l.job, ScriptOf(u, l), s, ok),
   mem   |-> IF s.op = "type" THEN [l.mem EXCEPT !.type = s.on] ELSE l.mem,
   own   |-> IF ok THEN Counted(l.own, s.op, s.on) ELSE l.own,
   calls |-> IF ok /\ s.op = "get" THEN l.calls \cup {s.on}
             ELSE IF ok /\ s.op = "stop" THEN l.calls \ {s.on} ELSE l.calls,
   made  |-> IF ok /\ s.op = "create" THEN l.made \cup {s.on}
             ELSE IF ok /\ s.op = "destroy" THEN l.made \ {s.on} ELSE l.made,
   free  |-> l.free \cup told,
   app   |-> app]

Answered(u, l, s, ok) == After(u, l, s, ok, {}, l.app)
Failed(u, l, s, f)    == After(u, l, s, FALSE, Tells(l, s, f), Worse(l.app))

Called(u, l) ==
  LET s == CallOf(u, l) IN
  {Answered(u, l, s, ok) : ok \in Answers(u, l, s)}
  \cup {Failed(u, l, s, f) : f \in IF MayFail(u, l, s) THEN Faults(u, l.job.what, s) ELSE {}}

\* A job begins or ends, which changes no tables.
Now(l, was, doing, remembered) ==
  [st |-> was, job |-> doing, mem |-> remembered,
   own |-> l.own, calls |-> l.calls, made |-> l.made, free |-> {}, app |-> l.app]

Begun(l, what, remembered) == Now(l, l.st, [Idle EXCEPT !.what = what, !.was = l.mem.type], remembered)

Ended(l) ==
  LET to == StAfter(l.job, l.st)
  IN  Now(l, to, Idle, IF to = "open" THEN l.mem ELSE [vpss |-> {}, type |-> "normal"])

\* What the users share changes.
Shares(l, app) ==
  [st |-> l.st, job |-> l.job, mem |-> l.mem,
   own |-> l.own, calls |-> l.calls, made |-> l.made, free |-> l.free, app |-> app]

Rescaled(l, p) ==
  Shares(l, [scaled |-> Toggled(l.app.scaled, p), type |-> l.app.type, faults |-> l.app.faults, lineup |-> l.app.lineup])
Retyped(l) ==
  Shares(l, [scaled |-> l.app.scaled, type |-> OtherType(l.app.type), faults |-> l.app.faults, lineup |-> l.app.lineup])

Resets(u) == IF Kind[u] \in {"audio", "disp"} THEN {} ELSE {"reset"}

Begins(u, l) ==
  IF l.st = "closed" THEN {Begun(l, "open", Remembers(u, l.app.scaled, l.app.type))}
  ELSE {Begun(l, what, l.mem) : what \in {"close"} \cup Resets(u)}

\* What comes next: a job begins, a parameter changes, a call, the end of a
\* job; or another user's call is made to fail.
Follow(u, l) ==
  (IF l.job.what = "idle"
   THEN Begins(u, l) \cup {Rescaled(l, p) : p \in l.app.lineup.resizable} \cup {Retyped(l)}
   ELSE IF Left(l.job) THEN Called(u, l) ELSE {Ended(l)})
  \cup (IF l.app.faults < l.app.lineup.maxFaults THEN {Shares(l, Worse(l.app))} ELSE {})

-----------------------------------------------------------------------------
(* What a local state has to be                                            *)

\* The pairs a reset has taken apart and is going to put together.
Pieces(j, script) ==
  IF j.what = "reset" /\ j.at # 0 /\ ~Undoing(j)
  THEN {p \in Pairs : \E m \in j.at .. Len(script) :
          /\ script[m].op = "wire" /\ script[m].on = p
          /\ \A i \in j.at .. m : ~(script[i].op = "unwire" /\ script[i].on = p)}
  ELSE {}
PiecesOf(u, l) == Pieces(l.job, ScriptOf(u, l))

\* No other user has x: none ever takes it, or none that is idle and has
\* nothing of what is known to be free.
Spare(u, l, x) ==
  \/ x \notin Others[u]
  \/ /\ Lone(l.app.lineup)
     /\ \A w \in Users \ {u} : \A k \in Locals(w) :
          k.app.lineup = l.app.lineup /\ k.job.what = "idle" /\ DOMAIN k.own \cap l.free = {} => ~Has(k, x)

\* A call that harms no other user: it releases nothing that only another has,
\* is made for what the user has, and is not made to fail where the code does
\* not cope.
CallFits(u, l, s) ==
  /\ s.op \in {"init", "deinit", "bind", "unbind", "get", "stop", "wire", "unwire", "create", "destroy", "call", "type"}
  /\ s.op \in {"init", "deinit", "get", "stop", "create", "destroy"} => s.on \in Chans
  /\ s.op \in {"bind", "unbind", "wire", "unwire"} => s.on \in Pairs
  /\ s.op \in {"get", "stop"} => Mod(s.on) \in {"VENC", "AENC"}
  /\ s.op \in {"init", "bind"} => s.on \in Takes[u]
  /\ s.op \in {"create", "destroy"} => s.on \in Makes[u]
  /\ s.op \in {"deinit", "unbind"} /\ ~Has(l, s.on) => Spare(u, l, s.on)
  /\ s.op \in {"get", "wire", "unwire"} => Has(l, s.on)
  /\ s.op = "unwire" => s.on \notin PiecesOf(u, l)
  /\ s.op \notin {"init", "bind", "create", "call", "unwire"} => Faults(u, l.job.what, s) = {}
  /\ s.op = "init" => Faults(u, l.job.what, s) \cap {"VI_EnableChn", "VO_Enable", "VO_EnableChn"} = {}

\* What was taken apart is still to be put together after the call.
KeepsPieces(u, l, s) ==
  /\ \A n \in Called(u, l) : PiecesOf(u, l) \ (IF s.op = "wire" THEN {s.on} ELSE {}) \subseteq PiecesOf(u, n)
  /\ s.op = "unwire" /\ TRUE \in Answers(u, l, s) => s.on \in PiecesOf(u, Answered(u, l, s, TRUE))

Fits(u, l) ==
  /\ DOMAIN l.own \subseteq Takes[u] /\ l.calls \subseteq DOMAIN l.own /\ PiecesOf(u, l) \subseteq DOMAIN l.own
  /\ l.job.what = "close" => l.job.ok
  /\ l.job.what = "idle" /\ l.st # "open" => l.calls = {}
  /\ l.job.what # "idle" /\ Left(l.job) =>
       CallFits(u, l, CallOf(u, l)) /\ KeepsPieces(u, l, CallOf(u, l))

ASSUME LocalsClosed ==
  \A u \in Users :
    /\ \A x \in Lineups : Fresh(x) \in Locals(u)
    /\ \A l \in Locals(u) : Fits(u, l) /\ Follow(u, l) \subseteq Locals(u)

\* The channels and their tables: the entries are enough for what the scripts
\* take, and a sound device has one channel.
ASSUME SessionsAssumption ==
  /\ IsFiniteSet(Users) /\ IsFiniteSet(Chans) /\ IsFiniteSet(Pairs) /\ Chans \cap Pairs = {}
  /\ \A c \in Chans : Mod(c) \in {"VI", "VPSS", "VENC", "AI", "AENC", "VO"}
  /\ \A c, d \in Chans : Dev(c) # d /\ (Mod(c) = "AI" /\ Dev(c) = Dev(d) => c = d)
  /\ \A c \in Chans :
       Capacity[<<Mod(c)>>] \in Nat
       /\ Cardinality({d \in Chans \cap Taken : Mod(d) = Mod(c)}) <= Capacity[<<Mod(c)>>]
  /\ \A p \in Pairs \cap Taken :
       Capacity[Table(p)] \in Nat
       /\ Cardinality({q \in Pairs \cap Taken : Table(q) = Table(p)}) <= Capacity[Table(p)]
  /\ \A u \in Users : Makes[u] \subseteq Chans \ Taken /\ \A w \in Users \ {u} : Makes[u] \cap Makes[w] = {}
  /\ \A x \in Lineups : x.users \subseteq Users
=============================================================================
