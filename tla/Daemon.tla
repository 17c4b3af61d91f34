------------------------------- MODULE Daemon -------------------------------
(***************************************************************************)
(* A process hvaxd from start to end (src/main.cpp): the lock on the data  *)
(* directory, the one-shot modes, the HTTP threads, the background         *)
(* clustering thread of src/engine.cpp and what SIGINT and SIGTERM do.     *)
(* What a thread does with the gallery is left to Gallery and Recluster;   *)
(* here only its shared and exclusive sections of mu_ count.               *)
(*                                                                         *)
(* A thread is at a step, or wants a section, or is in it.  Left out: a    *)
(* lock file that cannot be opened (the daemon then goes on without it),   *)
(* the locks of the allocator the signal handler may need, and signals     *)
(* after the engine is destroyed.                                          *)
(***************************************************************************)
EXTENDS Naturals, Sequences, FiniteSets

CONSTANTS
    Proc,         \* processes started over one data directory, once each
    Brief,        \* those started with --once only
    Handler,      \* HTTP threads of a process
    MaxRequests,  \* bound: requests
    MaxRounds,    \* bound: times the background thread's wait times out
    MaxSignals    \* bound: SIGINT and SIGTERM

ASSUME DaemonBounds ==
    /\ Brief \subseteq Proc /\ "main" \notin Handler /\ "cluster" \notin Handler
    /\ {MaxRequests, MaxRounds, MaxSignals} \subseteq Nat

VARIABLES
    pc,           \* per process and thread, where it is
    todo,         \* per process, the modes it was started for and has not finished
    clustering,   \* per process, clustering_
    stop,         \* per process, cluster_stop_
    interrupted,  \* pairs <<process, thread>>: the thread runs on_signal
    tools,        \* pairs <<process, thread>>: a PDF tool that thread spawned runs
    onePhoto,     \* all faces are in one photo
    requests, rounds, signals

counters == <<requests, rounds, signals>>
vars     == <<pc, todo, clustering, stop, interrupted, tools, onePhoto, counters>>

Thread == {"main", "cluster"} \cup Handler
At(s)    == <<"at", s>>
Wants(s) == <<"wants", s>>
In(s)    == <<"in", s>>

Shared    == {"read", "eval", "snap", "knn", "centroids", "next"}
Exclusive == {"write", "reindex", "apply", "flush"}

(* Threads with mu_ in their hands.                                        *)
InGallery(p, t) == pc[p][t][1] = "in"
Alive(p)        == pc[p]["main"] \notin {At("new"), At("dead")}
Opened(p)       == Alive(p) /\ pc[p]["main"] \notin {At("lock"), At("open")}

(* Ways to be started: --reindex, --cluster and --eval go together, --once *)
(* counts only without them, and without any mode hvaxd serves.            *)
Commands(p) ==
    IF p \in Brief THEN {{"once"}}
    ELSE (SUBSET {"reindex", "cluster", "eval"} \ {{}}) \cup {{"once"}, {"serve"}}

Init ==
    /\ pc = [p \in Proc |-> [t \in Thread |-> At(IF t = "main" THEN "new" ELSE "none")]]
    /\ todo \in {f \in [Proc -> UNION {Commands(p) : p \in Proc}] : \A p \in Proc : f[p] \in Commands(p)}
    /\ clustering = [p \in Proc |-> FALSE]
    /\ stop = [p \in Proc |-> FALSE]
    /\ interrupted = {} /\ tools = {}
    /\ onePhoto \in BOOLEAN
    /\ requests = 0 /\ rounds = 0 /\ signals = 0

Goto(p, t, l) == pc' = [pc EXCEPT ![p][t] = l]

(* The process is gone, with its threads and its lock; a tool it spawned   *)
(* lives on and holds the lock, which it inherited.                        *)
Die(p) ==
    /\ pc' = [pc EXCEPT ![p] = [t \in Thread |-> At("dead")]]
    /\ clustering' = [clustering EXCEPT ![p] = FALSE]
    /\ stop' = [stop EXCEPT ![p] = FALSE]
    /\ interrupted' = {i \in interrupted : i[1] # p}
    /\ UNCHANGED <<todo, tools, onePhoto, counters>>

-----------------------------------------------------------------------------
(* Starting: the lock, then the engine, then the modes in this order *)

Start(p) ==
    /\ pc[p]["main"] = At("new")
    /\ Goto(p, "main", At("lock"))
    /\ UNCHANGED <<todo, clustering, stop, interrupted, tools, onePhoto, counters>>

(* Mistake: flock with LOCK_SH.                                            *)
LockFreeShared(p) == TRUE

(* flock(LOCK_EX | LOCK_NB): nobody else has the lock.                     *)
LockFree(p) == tools = {} /\ \A q \in Proc \ {p} : Alive(q) => pc[q]["main"] = At("lock")

Lock(p) ==
    /\ pc[p]["main"] = At("lock")
    /\ IF LockFree(p)
       THEN /\ Goto(p, "main", At("open"))
            /\ UNCHANGED <<todo, clustering, stop, interrupted, tools, onePhoto, counters>>
       ELSE Die(p)

(* The constructor of Engine, which may throw.                             *)
Open(p) ==
    /\ pc[p]["main"] = At("open")
    /\ \/ Die(p)
       \/ /\ Goto(p, "main", At("mode"))
          /\ UNCHANGED <<todo, clustering, stop, interrupted, tools, onePhoto, counters>>

Order == <<"reindex", "cluster", "eval", "once", "serve">>

(* The first of them that is asked for and not done.                       *)
Mode(p) ==
    /\ pc[p]["main"] = At("mode")
    /\ \E i \in DOMAIN Order :
          /\ Order[i] \in todo[p] /\ \A j \in 1 .. i - 1 : Order[j] \notin todo[p]
          /\ todo' = [todo EXCEPT ![p] = @ \ {Order[i]}]
          /\ Goto(p, "main", CASE Order[i] = "reindex" -> Wants("reindex")
                               [] Order[i] = "cluster" -> At("ask")
                               [] Order[i] = "eval"    -> Wants("eval")
                               [] Order[i] = "once"    -> At("stop")
                               [] Order[i] = "serve"   -> At("serve"))
    /\ UNCHANGED <<clustering, stop, interrupted, tools, onePhoto, counters>>

(* run_server: start_background_cluster, unless the interval is 0, then    *)
(* listen, with its threads, which fails or goes on for ever.              *)
Serve(p) ==
    /\ pc[p]["main"] = At("serve")
    /\ \E background \in {At("none"), At("loop")}, ready \in BOOLEAN :
          pc' = [pc EXCEPT ![p] = [t \in Thread |->
              CASE t = "main"    -> At(IF ready THEN "listen" ELSE "stop")
                [] t = "cluster" -> background
                [] OTHER         -> At(IF ready THEN "idle" ELSE "none")]]
    /\ UNCHANGED <<todo, clustering, stop, interrupted, tools, onePhoto, counters>>

-----------------------------------------------------------------------------
(* Sections of the gallery *)

Enter(p, t) ==
    /\ pc[p][t][1] = "wants"
    /\ \A u \in Thread :
          InGallery(p, u) => pc[p][t][2] \in Shared /\ pc[p][u][2] \in Shared
    /\ Goto(p, t, In(pc[p][t][2]))
    /\ UNCHANGED <<todo, clustering, stop, interrupted, tools, onePhoto, counters>>

(* The sections of a clustering job: which one follows which.              *)
Following == [snap |-> "knn", knn |-> "centroids", centroids |-> "next", next |-> "apply"]

(* Where a thread goes on when its section, or its recluster, is over.     *)
Resume(p, t) ==
    CASE t = "main"    -> At(IF todo[p] = {} THEN "stop" ELSE "mode")
      [] t = "cluster" -> At("relock")
      [] OTHER         -> At("idle")

(* impostor_eval draws until two faces of different photos came up.        *)
Leave(p, t) ==
    /\ InGallery(p, t)
    /\ ~ (pc[p][t] = In("eval") /\ onePhoto)
    /\ Goto(p, t, CASE pc[p][t][2] \in DOMAIN Following -> At(pc[p][t][2])
                    [] pc[p][t] = In("apply")           -> At("unlock")
                    [] pc[p][t] = In("flush")           -> At("gone")
                    [] OTHER                            -> Resume(p, t))
    /\ UNCHANGED <<todo, clustering, stop, interrupted, tools, onePhoto, counters>>

-----------------------------------------------------------------------------
(* Gallery::recluster, called by the background thread, a request or main *)

(* clustering_.exchange(true): refused, or alone.                          *)
Ask(p, t) ==
    /\ pc[p][t] = At("ask")
    /\ Goto(p, t, IF ~ clustering[p] THEN At("serial") ELSE IF t = "main" THEN At("stop") ELSE Resume(p, t))
    /\ clustering' = [clustering EXCEPT ![p] = TRUE]
    /\ UNCHANGED <<todo, stop, interrupted, tools, onePhoto, counters>>

HasSerial(p, t) ==
    pc[p][t] \in UNION {{Wants(s), In(s)} : s \in DOMAIN Following \cup {"apply"}}
                     \cup {At(s) : s \in DOMAIN Following} \cup {At("unlock")}

(* cluster_mu_ for the whole job.                                          *)
Serial(p, t) ==
    /\ pc[p][t] = At("serial")
    /\ \A u \in Thread : ~ HasSerial(p, u)
    /\ Goto(p, t, Wants("snap"))
    /\ UNCHANGED <<todo, clustering, stop, interrupted, tools, onePhoto, counters>>

(* The graph, the labels, the groups and their ids are worked out without  *)
(* mu_ but for three shared sections: the neighbours (of one chunk of      *)
(* rows, or none if no row is eligible), the centroids and the next id.    *)
Think(p, t) ==
    /\ \E s \in DOMAIN Following :
          /\ pc[p][t] = At(s)
          /\ \/ Goto(p, t, Wants(Following[s]))
             \/ s = "snap" /\ Goto(p, t, Wants("centroids"))
    /\ UNCHANGED <<todo, clustering, stop, interrupted, tools, onePhoto, counters>>

(* Between two sections, and in those that allocate.                       *)
MayThrow(p, t) == pc[p][t] \in {In("snap"), In("knn"), In("apply")} \cup {At(s) : s \in DOMAIN Following}

(* Mistake: clustering_ is reset where recluster returns, not by Reset.    *)
ThrowKeepingFlag(p, t) ==
    /\ MayThrow(p, t)
    /\ Goto(p, t, Resume(p, t))
    /\ UNCHANGED <<todo, clustering, stop, interrupted, tools, onePhoto, counters>>

(* Memory runs out: the guards unwind.  A command that throws is the last. *)
Throw(p, t) ==
    /\ MayThrow(p, t)
    /\ Goto(p, t, At("unlock"))
    /\ todo' = [todo EXCEPT ![p] = {}]
    /\ UNCHANGED <<clustering, stop, interrupted, tools, onePhoto, counters>>

Unlock(p, t) ==
    /\ pc[p][t] = At("unlock")
    /\ Goto(p, t, At("reset"))
    /\ UNCHANGED <<todo, clustering, stop, interrupted, tools, onePhoto, counters>>

Reset(p, t) ==
    /\ pc[p][t] = At("reset")
    /\ clustering' = [clustering EXCEPT ![p] = FALSE]
    /\ Goto(p, t, Resume(p, t))
    /\ UNCHANGED <<todo, stop, interrupted, tools, onePhoto, counters>>

Recluster(p, t) == Ask(p, t) \/ Serial(p, t) \/ Think(p, t) \/ Throw(p, t) \/ Unlock(p, t) \/ Reset(p, t)

-----------------------------------------------------------------------------
(* The background thread: cluster_cv_mu_ is its own at "loop" *)

Loop(p) ==
    /\ pc[p]["cluster"] = At("loop")
    /\ Goto(p, "cluster", At(IF stop[p] THEN "done" ELSE "sleep"))
    /\ UNCHANGED <<todo, clustering, stop, interrupted, tools, onePhoto, counters>>

(* wait_for with its predicate: woken by stop, or the interval is over.    *)
Woken(p) ==
    /\ pc[p]["cluster"] = At("sleep")
    /\ stop[p]
    /\ Goto(p, "cluster", At("done"))
    /\ UNCHANGED <<todo, clustering, stop, interrupted, tools, onePhoto, counters>>

TimedOut(p) ==
    /\ pc[p]["cluster"] = At("sleep")
    /\ ~ stop[p] /\ rounds < MaxRounds
    /\ rounds' = rounds + 1
    /\ Goto(p, "cluster", At("ask"))
    /\ UNCHANGED <<todo, clustering, stop, interrupted, tools, onePhoto, requests, signals>>

(* Mistake: a thread that is late runs the next job at once, without       *)
(* another look at the flag.                                               *)
RelockUnchecked(p) ==
    /\ pc[p]["cluster"] = At("relock")
    /\ Goto(p, "cluster", At("ask"))
    /\ UNCHANGED <<todo, clustering, stop, interrupted, tools, onePhoto, counters>>

Relock(p) ==
    /\ pc[p]["cluster"] = At("relock")
    /\ Goto(p, "cluster", At("loop"))
    /\ UNCHANGED <<todo, clustering, stop, interrupted, tools, onePhoto, counters>>

Background(p) == Loop(p) \/ Woken(p) \/ TimedOut(p) \/ Relock(p)

-----------------------------------------------------------------------------
(* Requests *)

Request(p, h) ==
    /\ pc[p][h] = At("idle") /\ requests < MaxRequests
    /\ requests' = requests + 1
    /\ \/ \E s \in {"read", "write"} : Goto(p, h, Wants(s)) /\ UNCHANGED tools
       \/ Goto(p, h, At("ask")) /\ UNCHANGED tools
       \/ Goto(p, h, At("tool")) /\ tools' = tools \cup {<<p, h>>}
    /\ UNCHANGED <<todo, clustering, stop, interrupted, onePhoto, rounds, signals>>

(* run_pdf_tool: the tool ended, or its 60 seconds are over and SIGKILL    *)
(* ended it.                                                               *)
ToolWaited(p, h) ==
    /\ pc[p][h] = At("tool")
    /\ tools' = tools \ {<<p, h>>}
    /\ Goto(p, h, At("idle"))
    /\ UNCHANGED <<todo, clustering, stop, interrupted, onePhoto, counters>>

(* A tool whose daemon is dead has no deadline; it ends when it ends.      *)
OrphanEnds ==
    /\ \E x \in tools : ~ Alive(x[1]) /\ tools' = tools \ {x}
    /\ UNCHANGED <<pc, todo, clustering, stop, interrupted, onePhoto, counters>>

-----------------------------------------------------------------------------
(* Ending: Engine::~Engine, a signal, or SIGKILL *)

StopBackground(p) ==
    /\ pc[p]["main"] = At("stop")
    /\ pc[p]["cluster"] # At("loop")
    /\ stop' = [stop EXCEPT ![p] = TRUE]
    /\ Goto(p, "main", At("join"))
    /\ UNCHANGED <<todo, clustering, interrupted, tools, onePhoto, counters>>

Join(p) ==
    /\ pc[p]["main"] = At("join")
    /\ pc[p]["cluster"] \in {At("none"), At("done")}
    /\ Goto(p, "main", Wants("flush"))
    /\ UNCHANGED <<todo, clustering, stop, interrupted, tools, onePhoto, counters>>

Return(p) == pc[p]["main"] = At("gone") /\ Die(p)

(* The kernel picks a thread; on_signal runs on top of whatever it did.    *)
(* Before the handler is set, and for SIGKILL, the process just ends.      *)
Signal(p, t) ==
    /\ Opened(p) /\ signals < MaxSignals
    /\ pc[p][t] \notin {At("none"), At("done"), At("gone")}
    /\ <<p, t>> \notin interrupted
    /\ interrupted' = interrupted \cup {<<p, t>>}
    /\ signals' = signals + 1
    /\ UNCHANGED <<pc, todo, clustering, stop, tools, onePhoto, requests, rounds>>

(* A writer that waits for readers has announced itself: a second writer   *)
(* on the same thread may wait for the first one.                          *)
StandsInTheWay(p, u) == InGallery(p, u) \/ pc[p][u] \in {Wants(s) : s \in Exclusive}

(* Mistake: the handler waits for a running job first.                     *)
OnSignalAfterJob(p, t) ==
    /\ <<p, t>> \in interrupted
    /\ ~ clustering[p]
    /\ \A u \in Thread : ~ InGallery(p, u)
    /\ Die(p)

(* flush() takes mu_ exclusively, then _exit(0).                           *)
OnSignal(p, t) ==
    /\ <<p, t>> \in interrupted
    /\ \A u \in Thread : ~ InGallery(p, u)
    /\ Die(p)

Kill(p) == Alive(p) /\ Die(p)

-----------------------------------------------------------------------------
MainStep(p) == Lock(p) \/ Open(p) \/ Mode(p) \/ Serve(p) \/ StopBackground(p) \/ Join(p) \/ Return(p)

Step(p, t) ==
    /\ <<p, t>> \notin interrupted
    /\ \/ Enter(p, t) \/ Leave(p, t) \/ Recluster(p, t)
       \/ t = "main" /\ MainStep(p)
       \/ t = "cluster" /\ Background(p)
       \/ t \in Handler /\ ToolWaited(p, t)

Environment(p) ==
    \/ Start(p) \/ Kill(p)
    \/ \E h \in Handler : <<p, h>> \notin interrupted /\ Request(p, h)
    \/ \E t \in Thread : Signal(p, t)

Next == OrphanEnds \/ \E p \in Proc : Environment(p) \/ \E t \in Thread : Step(p, t) \/ OnSignal(p, t)

(* The process hangs: the signal came to a thread with mu_ in its hands,   *)
(* or about to take it exclusively.                                        *)
Stuck(p) == \E i \in interrupted : i[1] = p /\ StandsInTheWay(p, i[2])

(* Threads run, tools are waited for with a deadline, and a lock that is   *)
(* free is taken in the end, by a handler only if its own thread does not  *)
(* stand in the way.                                                       *)
Fairness ==
    \A p \in Proc, t \in Thread :
        WF_vars(Step(p, t)) /\ WF_vars(~ Stuck(p) /\ OnSignal(p, t))

Spec == Init /\ [][Next]_vars /\ Fairness
-----------------------------------------------------------------------------
(* Properties *)

(* One process at most has the data directory open, also while processes   *)
(* are killed and leave tools behind that hold the lock.                   *)
DirectoryHasOneWriter ==
    /\ Cardinality({p \in Proc : pc[p]["main"] # At("lock") /\ Alive(p)}) <= 1
    /\ \A p \in Proc : Opened(p) => \A x \in tools : x[1] = p

(* A command ends, and so does hvaxd when it cannot listen: the background *)
(* thread is stopped and joined wherever it is, asleep, in a job or        *)
(* between the two.  Except that a signal may hang the process, and        *)
(* impostor_eval never ends with all faces in one photo.                   *)
CommandsEnd ==
    \A p \in Proc :
        Opened(p) /\ pc[p]["main"] # At("listen")
            ~> \/ pc[p]["main"] \in {At("listen"), At("dead")} \/ Stuck(p)
               \/ pc[p]["main"] = In("eval") /\ onePhoto

(* SIGINT or SIGTERM ends the process, in the middle of requests and of a  *)
(* clustering job, unless it hangs as Stuck says.                          *)
SignalEndsTheProcess ==
    \A p \in Proc, t \in Thread : <<p, t>> \in interrupted ~> ~ Alive(p) \/ Stuck(p)

(* "Clustering already running" is not for ever: whatever ends a job, an   *)
(* error included, the next one can run.                                   *)
ClusteringComesFree ==
    \A p \in Proc : clustering[p] ~> ~ clustering[p] \/ Stuck(p)
=============================================================================
