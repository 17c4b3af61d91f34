---------------------------- MODULE DaemonProofs ----------------------------
(***************************************************************************)
(* The lock on the data directory, for any number of processes, HTTP       *)
(* threads, requests and signals: one process at most has it open.         *)
(*                                                                         *)
(* That is not inductive.  A tool may keep the lock beyond its daemon, so  *)
(* who holds the lock and whose tools run belong together; and a tool is   *)
(* spawned by an HTTP thread, so no thread but main may be anywhere before *)
(* its process has opened the engine.                                      *)
(***************************************************************************)
EXTENDS Daemon, FiniteSetTheorems, TLAPS

(* Holds the lock, or would if its tools did not share it.                 *)
Holder(p) == Alive(p) /\ pc[p]["main"] # At("lock")

(* Places before the engine is there, and after everything.                *)
Outside == {At("new"), At("lock"), At("open"), At("none"), At("dead")}

LockInv ==
    /\ DOMAIN pc = Proc
    /\ pc = [p \in Proc |-> [t \in Thread |-> pc[p][t]]]
    /\ tools \subseteq Proc \X Handler
    /\ \A p, q \in Proc : Holder(p) /\ Holder(q) => p = q
    /\ \A p \in Proc : Holder(p) => \A x \in tools : x[1] = p
    /\ \A p \in Proc, t \in Thread \ {"main"} : pc[p][t] \notin {At("none"), At("dead")} => Opened(p)

-----------------------------------------------------------------------------
(* Places *)

LEMMA Places ==
    /\ \A s, r : At(s) = At(r) <=> s = r
    /\ \A s, r : At(s) # Wants(r) /\ At(s) # In(r)
    /\ \A s : At(s)[1] = "at" /\ Wants(s)[1] = "wants" /\ In(s)[1] = "in"
BY DEF At, Wants, In

LEMMA Inside ==
    /\ \A s : s \notin {"new", "lock", "open", "none", "dead"} => At(s) \notin Outside
    /\ \A s : Wants(s) \notin Outside /\ In(s) \notin Outside
    /\ \A l : l[1] \in {"wants", "in"} => l \notin Outside
BY Places DEF Outside

LEMMA JobPlaces == \A s \in DOMAIN Following : At(s) \notin Outside
BY Inside DEF Following

(* A step of one thread, seen from every thread.                           *)
LEMMA OneMoves ==
    ASSUME LockInv, NEW p \in Proc, NEW t \in Thread, NEW l, Goto(p, t, l)
    PROVE  /\ DOMAIN pc' = Proc /\ pc' = [q \in Proc |-> [u \in Thread |-> pc'[q][u]]]
           /\ \A q \in Proc, u \in Thread : pc'[q][u] = IF q = p /\ u = t THEN l ELSE pc[q][u]
           /\ "main" \in Thread
<1>1. pc' = [q \in Proc |-> [u \in Thread |-> IF q = p /\ u = t THEN l ELSE pc[q][u]]]
  BY DEF Goto, LockInv
<1> QED
  BY <1>1 DEF Thread

(* A thread that works does so in a process that has opened the engine.    *)
LEMMA AtWork ==
    ASSUME LockInv, NEW p \in Proc, NEW t \in Thread, pc[p][t] \notin Outside
    PROVE  Opened(p)
BY DEF LockInv, Outside, Opened, Alive

(* What main does before the engine is there, the lock apart.              *)
LEMMA MainMoves ==
    ASSUME LockInv, NEW p \in Proc, NEW l, Goto(p, "main", l), UNCHANGED tools,
           l \in {At("new"), At("lock"), At("dead")} <=> ~ Holder(p),
           Opened(p) => l \notin Outside
    PROVE  LockInv'
<1>1. "main" \in Thread
  BY DEF Thread
<1>2. /\ DOMAIN pc' = Proc /\ pc' = [q \in Proc |-> [u \in Thread |-> pc'[q][u]]]
      /\ \A q \in Proc, u \in Thread : pc'[q][u] = IF q = p /\ u = "main" THEN l ELSE pc[q][u]
  BY <1>1, OneMoves
<1>3. ASSUME NEW q \in Proc PROVE Holder(q)' <=> Holder(q)
  BY <1>1, <1>2 DEF Holder, Alive
<1>4. ASSUME NEW q \in Proc, Opened(q) PROVE Opened(q)'
  BY <1>1, <1>2, <1>4 DEF Opened, Alive, Outside
<1>5. ASSUME NEW q \in Proc, NEW u \in Thread \ {"main"} PROVE pc'[q][u] = pc[q][u]
  BY <1>2
<1> QED
  BY <1>2, <1>3, <1>4, <1>5 DEF LockInv

(* A thread inside goes elsewhere inside; it may spawn a tool.             *)
LEMMA WorkGoesOn ==
    ASSUME LockInv, NEW p \in Proc, NEW t \in Thread, NEW l, Goto(p, t, l),
           tools' \subseteq tools \cup {<<p, h>> : h \in Handler},
           pc[p][t] \notin Outside, l \notin Outside
    PROVE  LockInv'
<1>1. /\ DOMAIN pc' = Proc /\ pc' = [q \in Proc |-> [u \in Thread |-> pc'[q][u]]]
      /\ \A q \in Proc, u \in Thread : pc'[q][u] = IF q = p /\ u = t THEN l ELSE pc[q][u]
      /\ "main" \in Thread
  BY OneMoves
<1>2. Opened(p) /\ Holder(p)
  BY AtWork, Places DEF Opened, Holder
<1>3. ASSUME NEW q \in Proc PROVE (Holder(q)' <=> Holder(q)) /\ (Opened(q)' <=> Opened(q))
  BY <1>1, <1>2 DEF Holder, Opened, Alive, Outside
<1>4. tools' \subseteq Proc \X Handler
  BY DEF LockInv
<1>5. \A q \in Proc : Holder(q) => q = p
  BY <1>2 DEF LockInv
<1>6. \A x \in tools' : x[1] = p
  BY <1>2 DEF LockInv
<1>7. \A q \in Proc, u \in Thread \ {"main"} : pc'[q][u] \notin {At("none"), At("dead")} => Opened(q)'
  BY <1>1, <1>2, <1>3 DEF LockInv
<1>8. \A q, r \in Proc : Holder(q)' /\ Holder(r)' => q = r
  BY <1>3, <1>5
<1>9. \A q \in Proc : Holder(q)' => \A x \in tools' : x[1] = q
  BY <1>3, <1>5, <1>6
<1> QED
  BY <1>1, <1>4, <1>7, <1>8, <1>9 DEF LockInv

(* A process that ends takes its hold with it and leaves its tools.        *)
LEMMA Dies ==
    ASSUME LockInv, NEW p \in Proc, Die(p)
    PROVE  LockInv'
<1>1. pc' = [q \in Proc |-> [u \in Thread |-> IF q = p THEN At("dead") ELSE pc[q][u]]]
  BY DEF Die, LockInv
<1>2. tools' = tools /\ "main" \in Thread
  BY DEF Die, Thread
<1>3. ASSUME NEW q \in Proc, q # p
      PROVE  (Holder(q)' <=> Holder(q)) /\ (Opened(q)' <=> Opened(q))
  BY <1>1, <1>2, <1>3 DEF Holder, Opened, Alive
<1>4. ~ Holder(p)'
  BY <1>1, <1>2 DEF Holder, Alive
<1>5. \A q \in Proc, u \in Thread \ {"main"} : pc'[q][u] \notin {At("none"), At("dead")} => Opened(q)'
  BY <1>1, <1>3 DEF LockInv
<1>6. \A q, r \in Proc : Holder(q)' /\ Holder(r)' => q = r
  BY <1>3, <1>4 DEF LockInv
<1>7. \A q \in Proc : Holder(q)' => \A x \in tools' : x[1] = q
  BY <1>2, <1>3, <1>4 DEF LockInv
<1>8. DOMAIN pc' = Proc /\ pc' = [q \in Proc |-> [u \in Thread |-> pc'[q][u]]]
  BY <1>1
<1> QED
  BY <1>2, <1>5, <1>6, <1>7, <1>8 DEF LockInv

-----------------------------------------------------------------------------
(* Steps *)

LEMMA InitLock == Init => LockInv
<1> SUFFICES ASSUME Init PROVE LockInv
  OBVIOUS
<1>1. pc = [p \in Proc |-> [t \in Thread |-> At(IF t = "main" THEN "new" ELSE "none")]] /\ tools = {}
  BY DEF Init
<1>2. \A p \in Proc : ~ Holder(p)
  BY <1>1, Places DEF Holder, Alive, Thread
<1>3. \A p \in Proc, t \in Thread \ {"main"} : pc[p][t] = At("none")
  BY <1>1
<1>4. DOMAIN pc = Proc /\ pc = [p \in Proc |-> [t \in Thread |-> pc[p][t]]]
  BY <1>1
<1> QED
  BY <1>1, <1>2, <1>3, <1>4 DEF LockInv

(* The lock is taken when it is free, and then nobody else holds it.       *)
LEMMA LockKeeps ==
    ASSUME LockInv, NEW p \in Proc, Lock(p)
    PROVE  LockInv'
<1>1. CASE ~ LockFree(p)
  BY <1>1, Dies DEF Lock
<1>2. CASE LockFree(p)
  <2>1. Goto(p, "main", At("open")) /\ tools = {} /\ tools' = {} /\ pc[p]["main"] = At("lock")
    BY <1>2 DEF Lock, LockFree
  <2>2. "main" \in Thread
    BY DEF Thread
  <2>3. /\ DOMAIN pc' = Proc /\ pc' = [q \in Proc |-> [u \in Thread |-> pc'[q][u]]]
        /\ \A q \in Proc, u \in Thread : pc'[q][u] = IF q = p /\ u = "main" THEN At("open") ELSE pc[q][u]
    BY <2>1, <2>2, OneMoves
  <2>4. ASSUME NEW q \in Proc, q # p
        PROVE  ~ Holder(q)' /\ ~ Holder(q)
    BY <1>2, <2>2, <2>3, <2>4 DEF LockFree, Holder, Alive
  <2>5. ASSUME NEW q \in Proc, NEW u \in Thread \ {"main"}
        PROVE  pc'[q][u] \in {At("none"), At("dead")}
    <3>1. pc'[q][u] = pc[q][u]
      BY <2>3
    <3>2. ~ Opened(q)
      BY <2>1, <2>4 DEF Opened, Holder
    <3> QED
      BY <3>1, <3>2 DEF LockInv
  <2> QED
    BY <2>1, <2>3, <2>4, <2>5 DEF LockInv
<1> QED
  BY <1>1, <1>2

(* Serving: main goes on and the other threads begin.                      *)
LEMMA ServeKeeps ==
    ASSUME LockInv, NEW p \in Proc, Serve(p)
    PROVE  LockInv'
<1>1. PICK background \in {At("none"), At("loop")}, ready \in BOOLEAN :
          pc' = [pc EXCEPT ![p] = [t \in Thread |->
              CASE t = "main"    -> At(IF ready THEN "listen" ELSE "stop")
                [] t = "cluster" -> background
                [] OTHER         -> At(IF ready THEN "idle" ELSE "none")]]
  BY DEF Serve
<1>2. "main" \in Thread /\ tools' = tools /\ pc[p]["main"] = At("serve")
  BY DEF Thread, Serve
<1>3. DOMAIN pc' = Proc /\ \A q \in Proc \ {p} : pc'[q] = pc[q]
  BY <1>1 DEF LockInv
<1>4. pc'[p]["main"] \in {At("listen"), At("stop")} /\ pc'[p] = [t \in Thread |-> pc'[p][t]]
  BY <1>1, <1>2 DEF LockInv
<1>5. Opened(p) /\ Opened(p)' /\ Holder(p) /\ Holder(p)'
  BY <1>2, <1>4, Places DEF Opened, Alive, Holder
<1>6. ASSUME NEW q \in Proc
      PROVE  (Holder(q)' <=> Holder(q)) /\ (Opened(q)' <=> Opened(q))
  BY <1>3, <1>5 DEF Holder, Opened, Alive
<1>7. pc' = [q \in Proc |-> [t \in Thread |-> pc'[q][t]]]
  <2>1. \A q \in Proc : pc'[q] = [t \in Thread |-> pc'[q][t]]
    BY <1>3, <1>4 DEF LockInv
  <2>2. pc' = [q \in Proc |-> pc'[q]]
    BY <1>1 DEF LockInv
  <2> QED
    BY <2>1, <2>2
<1>8. \A q \in Proc, t \in Thread \ {"main"} : pc'[q][t] \notin {At("none"), At("dead")} => Opened(q)'
  BY <1>3, <1>5, <1>6 DEF LockInv
<1> QED
  BY <1>2, <1>3, <1>6, <1>7, <1>8 DEF LockInv

LEMMA MainKeeps ==
    ASSUME LockInv, NEW p \in Proc, MainStep(p)
    PROVE  LockInv'
<1> "main" \in Thread
  BY DEF Thread
<1>1. CASE Lock(p)
  BY <1>1, LockKeeps
<1>2. CASE Open(p)
  <2>1. CASE Die(p)
    BY <2>1, Dies
  <2>2. CASE Goto(p, "main", At("mode")) /\ UNCHANGED tools
    <3>1. pc[p]["main"] = At("open")
      BY <1>2 DEF Open
    <3>2. Holder(p) /\ ~ Opened(p)
      BY <3>1, Places DEF Holder, Opened, Alive
    <3>3. At("mode") \notin {At("new"), At("lock"), At("dead")}
      BY Places
    <3> QED
      BY <2>2, <3>2, <3>3, MainMoves
  <2> QED
    BY <1>2, <2>1, <2>2 DEF Open
<1>3. CASE Mode(p)
  <2>1. pc[p]["main"] = At("mode") /\ tools' = tools
    BY <1>3 DEF Mode
  <2>2. PICK l \in {Wants("reindex"), At("ask"), Wants("eval"), At("stop"), At("serve")} : Goto(p, "main", l)
    BY <1>3 DEF Mode, Order
  <2>3. l \notin Outside /\ At("mode") \notin Outside
    BY Inside
  <2> QED
    BY <2>1, <2>2, <2>3, WorkGoesOn
<1>4. CASE Serve(p)
  BY <1>4, ServeKeeps
<1>5. CASE StopBackground(p)
  BY <1>5, Inside, WorkGoesOn DEF StopBackground
<1>6. CASE Join(p)
  BY <1>6, Inside, WorkGoesOn DEF Join
<1>7. CASE Return(p)
  BY <1>7, Dies DEF Return
<1> QED
  BY <1>1, <1>2, <1>3, <1>4, <1>5, <1>6, <1>7 DEF MainStep

LEMMA Resumes ==
    ASSUME NEW p, NEW t
    PROVE  Resume(p, t) \notin Outside
BY Inside DEF Resume

(* Sections of the gallery and the steps of recluster.                     *)
LEMMA ReclusterKeeps ==
    ASSUME LockInv, NEW p \in Proc, NEW t \in Thread, Recluster(p, t)
    PROVE  LockInv'
<1>1. tools' = tools
  BY DEF Recluster, Ask, Serial, Think, Throw, Unlock, Reset
<1>2. pc[p][t] \notin Outside
  BY Inside, JobPlaces DEF Recluster, Ask, Serial, Think, Throw, MayThrow, Unlock, Reset
<1>3. \E l : l \notin Outside /\ Goto(p, t, l)
  BY Inside, Resumes DEF Recluster, Ask, Serial, Think, Throw, Unlock, Reset
<1> QED
  BY <1>1, <1>2, <1>3, WorkGoesOn

LEMMA SectionsKeep ==
    ASSUME LockInv, NEW p \in Proc, NEW t \in Thread, Enter(p, t) \/ Leave(p, t)
    PROVE  LockInv'
<1>1. tools' = tools
  BY DEF Enter, Leave
<1>2. pc[p][t] \notin Outside
  BY Inside DEF Enter, Leave, InGallery
<1>3. CASE Enter(p, t)
  BY <1>1, <1>2, <1>3, Inside, WorkGoesOn DEF Enter
<1>4. CASE Leave(p, t)
  <2> DEFINE l == CASE pc[p][t][2] \in DOMAIN Following -> At(pc[p][t][2])
                    [] pc[p][t] = In("apply")           -> At("unlock")
                    [] pc[p][t] = In("flush")           -> At("gone")
                    [] OTHER                            -> Resume(p, t)
  <2>1. Goto(p, t, l)
    BY <1>4 DEF Leave
  <2>2. l \notin Outside
    BY Inside, Resumes, JobPlaces
  <2> QED
    BY <1>1, <1>2, <2>1, <2>2, WorkGoesOn
<1> QED
  BY <1>3, <1>4

LEMMA BackgroundKeeps ==
    ASSUME LockInv, NEW p \in Proc, Background(p)
    PROVE  LockInv'
<1>1. tools' = tools /\ "cluster" \in Thread
  BY DEF Background, Loop, Woken, TimedOut, Relock, Thread
<1>2. pc[p]["cluster"] \notin Outside
  BY Inside DEF Background, Loop, Woken, TimedOut, Relock
<1>3. \E l : l \notin Outside /\ Goto(p, "cluster", l)
  BY Inside DEF Background, Loop, Woken, TimedOut, Relock
<1> QED
  BY <1>1, <1>2, <1>3, WorkGoesOn

LEMMA HandlerKeeps ==
    ASSUME LockInv, NEW p \in Proc, NEW h \in Handler, Request(p, h) \/ ToolWaited(p, h)
    PROVE  LockInv'
<1>1. tools' \subseteq tools \cup {<<p, u>> : u \in Handler}
  BY DEF Request, ToolWaited
<1>2. pc[p][h] \notin Outside /\ h \in Thread
  BY Inside DEF Request, ToolWaited, Thread
<1>3. \E l : l \notin Outside /\ Goto(p, h, l)
  BY Inside DEF Request, ToolWaited
<1> QED
  BY <1>1, <1>2, <1>3, WorkGoesOn

LEMMA StepKeeps ==
    ASSUME LockInv, NEW p \in Proc, NEW t \in Thread, Step(p, t)
    PROVE  LockInv'
BY SectionsKeep, ReclusterKeeps, MainKeeps, BackgroundKeeps, HandlerKeeps DEF Step

LEMMA EnvironmentKeeps ==
    ASSUME LockInv, NEW p \in Proc, Environment(p)
    PROVE  LockInv'
<1>1. CASE Start(p)
  <2>1. pc[p]["main"] = At("new") /\ Goto(p, "main", At("lock")) /\ UNCHANGED tools
    BY <1>1 DEF Start
  <2>2. ~ Holder(p) /\ ~ Opened(p)
    BY <2>1 DEF Holder, Opened, Alive
  <2> QED
    BY <2>1, <2>2, MainMoves
<1>2. CASE Kill(p)
  BY <1>2, Dies DEF Kill
<1>3. CASE \E h \in Handler : Request(p, h)
  BY <1>3, HandlerKeeps
<1>4. CASE \E t \in Thread : Signal(p, t)
  <2>1. UNCHANGED <<pc, tools>>
    BY <1>4 DEF Signal
  <2> QED
    BY <2>1 DEF LockInv, Holder, Opened, Alive
<1> QED
  BY <1>1, <1>2, <1>3, <1>4 DEF Environment

LEMMA NextLock == LockInv /\ [Next]_vars => LockInv'
<1> SUFFICES ASSUME LockInv, [Next]_vars PROVE LockInv'
  OBVIOUS
<1>1. CASE OrphanEnds
  <2>1. pc' = pc /\ tools' \subseteq tools
    BY <1>1 DEF OrphanEnds
  <2> QED
    BY <2>1 DEF LockInv, Holder, Opened, Alive
<1>2. ASSUME NEW p \in Proc, Environment(p) PROVE LockInv'
  BY <1>2, EnvironmentKeeps
<1>3. ASSUME NEW p \in Proc, NEW t \in Thread, Step(p, t) PROVE LockInv'
  BY <1>3, StepKeeps
<1>4. ASSUME NEW p \in Proc, NEW t \in Thread, OnSignal(p, t) PROVE LockInv'
  BY <1>4, Dies DEF OnSignal
<1>5. CASE UNCHANGED vars
  BY <1>5 DEF vars, LockInv, Holder, Opened, Alive
<1>6. CASE Next
  BY <1>1, <1>2, <1>3, <1>4, <1>6 DEF Next
<1> QED
  BY <1>5, <1>6

LEMMA LockHolds == Spec => []LockInv
BY InitLock, NextLock, PTL DEF Spec

LEMMA LockGivesOneWriter == LockInv => DirectoryHasOneWriter
<1> SUFFICES ASSUME LockInv PROVE DirectoryHasOneWriter
  OBVIOUS
<1> DEFINE S == {p \in Proc : pc[p]["main"] # At("lock") /\ Alive(p)}
<1>1. \A p, q \in S : p = q
  BY DEF LockInv, Holder
<1>2. Cardinality(S) <= 1
  <2> HIDE DEF S
  <2>1. CASE S = {}
    BY <2>1, FS_EmptySet
  <2>2. CASE S # {}
    <3>1. PICK p \in S : S = {p}
      BY <1>1, <2>2
    <3> QED
      BY <3>1, FS_Singleton
  <2> QED
    BY <2>1, <2>2
<1>3. \A p \in Proc : Opened(p) => Holder(p)
  BY DEF Opened, Holder
<1> QED
  BY <1>2, <1>3 DEF LockInv, DirectoryHasOneWriter

(* However many processes are started over one directory, killed or ended  *)
(* by signals, with PDF tools left behind that inherited the lock: two     *)
(* never have it open, and whoever has opened the engine finds no tool of  *)
(* another alive.                                                          *)
THEOREM OneWriter == Spec => []DirectoryHasOneWriter
BY LockHolds, LockGivesOneWriter, PTL
=============================================================================
