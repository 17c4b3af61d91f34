----------------------------- MODULE Extension -----------------------------
(***************************************************************************)
(* The browser extension: content scripts report images                    *)
(* (extension/src/content.ts), the service worker fetches and posts them   *)
(* (extension/src/background.ts), as many at a time as the server's `jobs` *)
(* allows.                                                                 *)
(*                                                                         *)
(* The worker is one thread: what it does between two awaits is one step.  *)
(* A task is one message of a content script; a frame sends a URL once and *)
(* another frame may send the same.  Settings are the server's name.  The  *)
(* browser may end the worker at any time and start it anew for the next   *)
(* message.  Left out: the counters in session storage, what the page does *)
(* to fetch, capture and transcode an image, and the question of the popup *)
(* ("get-status"), which refreshes the limit as a task does.               *)
(***************************************************************************)
EXTENDS Integers, Sequences, FiniteSets

CONSTANTS
    Task,        \* messages of content scripts
    UrlOf,       \* the URL of each
    ByUrl,       \* the messages "ingest-url"; the others are "ingest-bytes"
    Server,      \* servers the settings may name
    JobsOf,      \* the `jobs` each reports
    Fallback,    \* DEFAULT_JOBS
    MaxChanges,  \* bound: changes of the settings
    MaxDeaths    \* bound: ends of the worker

ASSUME ExtensionBounds ==
    /\ ByUrl \subseteq Task
    /\ UrlOf \in [Task -> STRING] /\ JobsOf \in [Server -> Nat \ {0}]
    /\ Fallback \in Nat \ {0} /\ {MaxChanges, MaxDeaths} \subseteq Nat

VARIABLES
    server,      \* the settings in storage
    notify,      \* storage.onChanged has yet to be delivered
    generation,  \* jobsGeneration
    refresh,     \* jobsRefresh: the server asked and the generation, or none
    jobsKey,     \* server of the last answer, "" if it does not count any more
    maxParallel, active, waiters,
    inFlight, posted,
    pc,          \* per task: its step
    target,      \* per task: the server in its settings, until ensureJobs
    posts,       \* tasks that sent a POST since the worker started
    changes, deaths

limits == <<generation, refresh, jobsKey, maxParallel, active, waiters>>
sets   == <<inFlight, posted>>
vars   == <<server, notify, limits, sets, pc, target, posts, changes, deaths>>

NoRefresh == [asks |-> "", generation |-> 0]

(* A worker that has just started.                                         *)
Fresh ==
    /\ generation = 0 /\ refresh = NoRefresh /\ jobsKey = ""
    /\ maxParallel = Fallback /\ active = 0 /\ waiters = <<>>
    /\ inFlight = {} /\ posted = {} /\ posts = {}

Init ==
    /\ server \in Server
    /\ notify = FALSE
    /\ Fresh
    /\ pc = [t \in Task |-> "page"]
    /\ target = [t \in Task |-> ""]
    /\ changes = 0 /\ deaths = 0

Goto(t, step) == pc' = [pc EXCEPT ![t] = step]

-----------------------------------------------------------------------------
(* A task, up to its slot *)

(* Mistake: only what is under way counts as known.                        *)
WantedUnlessInFlight(t) == UrlOf[t] \notin inFlight

Wanted(t) == UrlOf[t] \notin inFlight \cup posted

(* dispatch, sendMessage, enqueue.  Bytes are claimed at once, a URL only  *)
(* when the settings are there.                                            *)
Message(t) ==
    /\ pc[t] = "page"
    /\ IF t \in ByUrl \/ Wanted(t)
       THEN /\ Goto(t, "load")
            /\ inFlight' = IF t \in ByUrl THEN inFlight ELSE inFlight \cup {UrlOf[t]}
       ELSE Goto(t, "done") /\ UNCHANGED inFlight
    /\ UNCHANGED <<server, notify, limits, posted, target, posts, changes, deaths>>

(* loadSettings resolves.  An image may be too small for them.             *)
Load(t) ==
    /\ pc[t] = "load"
    /\ \/ /\ t \in ByUrl
          /\ Goto(t, "done") /\ UNCHANGED <<inFlight, target>>
       \/ /\ t \in ByUrl => Wanted(t)
          /\ target' = [target EXCEPT ![t] = server]
          /\ inFlight' = inFlight \cup {UrlOf[t]}
          /\ Goto(t, "jobs")
    /\ UNCHANGED <<server, notify, limits, posted, posts, changes, deaths>>

(* ensureJobs: the last answer still counts, or a refresh is joined that   *)
(* runs already, for whichever server, or one is started.  An answer       *)
(* counts for JOBS_TTL_MS; that time may be over.                          *)
EnsureJobs(t) ==
    /\ pc[t] = "jobs"
    /\ target' = [target EXCEPT ![t] = ""]
    /\ \/ jobsKey = target[t] /\ Goto(t, "acquire") /\ UNCHANGED refresh
       \/ /\ Goto(t, "refresh")
          /\ refresh' = IF refresh # NoRefresh THEN refresh
                        ELSE [asks |-> target[t], generation |-> generation]
    /\ UNCHANGED <<server, notify, generation, jobsKey, maxParallel, active, waiters,
                   sets, posts, changes, deaths>>

(* Mistake: who waits is not told that there are more slots now.           *)
SetMaxParallelOnly(n) ==
    /\ maxParallel' = n
    /\ pc' = [t \in Task |-> IF pc[t] = "refresh" THEN "acquire" ELSE pc[t]]
    /\ UNCHANGED <<active, waiters>>

(* setMaxParallel, and all who awaited the refresh go on.                  *)
SetMaxParallel(n) ==
    LET more == CHOOSE m \in 0 .. Len(waiters) :
                   /\ m = Len(waiters) \/ active + m >= n
                   /\ \A k \in 0 .. m - 1 : active + k < n
        now  == {waiters[i] : i \in 1 .. more}
    IN  /\ maxParallel' = n
        /\ active' = active + more
        /\ waiters' = SubSeq(waiters, more + 1, Len(waiters))
        /\ pc' = [t \in Task |-> IF t \in now THEN "fetch"
                                 ELSE IF pc[t] = "refresh" THEN "acquire" ELSE pc[t]]

(* fetchJobs ends, within its two timeouts: nothing came of it, or the     *)
(* answer of an earlier generation, or one that sets the limit.            *)
Answer ==
    /\ refresh # NoRefresh
    /\ refresh' = NoRefresh
    /\ IF refresh.generation # generation
       THEN SetMaxParallel(maxParallel) /\ UNCHANGED jobsKey
       ELSE /\ jobsKey' = refresh.asks
            /\ \E n \in {JobsOf[refresh.asks], maxParallel} : SetMaxParallel(n)
    /\ UNCHANGED <<server, notify, generation, sets, target, posts, changes, deaths>>

(* acquire, and await it.                                                  *)
Acquire(t) ==
    /\ pc[t] = "acquire"
    /\ IF active < maxParallel
       THEN Goto(t, "fetch") /\ active' = active + 1 /\ UNCHANGED waiters
       ELSE Goto(t, "wait") /\ waiters' = Append(waiters, t) /\ UNCHANGED active
    /\ UNCHANGED <<server, notify, generation, refresh, jobsKey, maxParallel,
                   sets, target, posts, changes, deaths>>

-----------------------------------------------------------------------------
(* A task with its slot *)

(* The worker fetched the image, or the page did, or the bytes decoded.    *)
(* postBody loads the settings again and sends the POST.                   *)
Post(t) ==
    /\ pc[t] = "fetch"
    /\ Goto(t, "posting")
    /\ posted' = posted \cup {UrlOf[t]}
    /\ posts' = posts \cup {t}
    /\ UNCHANGED <<server, notify, limits, inFlight, target, changes, deaths>>

(* Mistake: the slot goes to a waiter whatever the limit is now.           *)
ReleaseToWaiter(t) ==
    IF waiters # <<>>
    THEN /\ pc' = [pc EXCEPT ![t] = "done", ![Head(waiters)] = "fetch"]
         /\ waiters' = Tail(waiters) /\ UNCHANGED active
    ELSE /\ Goto(t, "done")
         /\ active' = active - 1 /\ UNCHANGED waiters

(* Mistake: a task that fails keeps its slot.                              *)
ReleaseUnlessFailed(t) ==
    IF pc[t] = "fetch"
    THEN Goto(t, "done") /\ UNCHANGED <<active, waiters>>
    ELSE ReleaseToWaiter(t)

(* release: the slot is handed on unless there are too many; the last test *)
(* of the code cannot succeed then.                                        *)
Release(t) ==
    IF waiters # <<>> /\ active <= maxParallel
    THEN /\ pc' = [pc EXCEPT ![t] = "done", ![Head(waiters)] = "fetch"]
         /\ waiters' = Tail(waiters) /\ UNCHANGED active
    ELSE /\ Goto(t, "done")
         /\ active' = active - 1 /\ UNCHANGED waiters

(* The end of a task that has a slot: neither could fetch it, or it was    *)
(* fetched but the settings now refuse it, or the POST was answered, with  *)
(* an error or not.                                                        *)
End(t) ==
    /\ pc[t] \in {"fetch", "posting"}
    /\ posted' \in {posted, posted \cup {UrlOf[t]}}
    /\ Release(t)
    /\ inFlight' = inFlight \ {UrlOf[t]}
    /\ UNCHANGED <<server, notify, generation, refresh, jobsKey, maxParallel,
                   target, posts, changes, deaths>>

-----------------------------------------------------------------------------
(* The world around the worker *)

(* The user names another server; the worker hears of it later.            *)
ChangeSettings ==
    /\ changes < MaxChanges
    /\ changes' = changes + 1
    /\ server' \in Server \ {server}
    /\ notify' = TRUE
    /\ UNCHANGED <<limits, sets, pc, target, posts, deaths>>

(* storage.onChanged: invalidateJobs.                                      *)
OnChanged ==
    /\ notify
    /\ notify' = FALSE
    /\ generation' = generation + 1
    /\ jobsKey' = ""
    /\ UNCHANGED <<server, refresh, maxParallel, active, waiters, sets, pc, target, posts, changes, deaths>>

(* The worker ends, its tasks are lost, nobody sends them again.           *)
WorkerEnds ==
    /\ deaths < MaxDeaths
    /\ deaths' = deaths + 1
    /\ notify' = FALSE
    /\ generation' = 0 /\ refresh' = NoRefresh /\ jobsKey' = ""
    /\ maxParallel' = Fallback /\ active' = 0 /\ waiters' = <<>>
    /\ inFlight' = {} /\ posted' = {} /\ posts' = {}
    /\ pc' = [t \in Task |-> IF pc[t] = "page" THEN "page" ELSE "done"]
    /\ target' = [t \in Task |-> ""]
    /\ UNCHANGED <<server, changes>>

Work == Answer \/ \E t \in Task : Load(t) \/ EnsureJobs(t) \/ Acquire(t) \/ Post(t) \/ End(t)

Next == Work \/ ChangeSettings \/ OnChanged \/ WorkerEnds \/ \E t \in Task : Message(t)

(* The event loop goes on, and every fetch is answered or fails: those of  *)
(* the limit within two seconds, those of images and the POST only because *)
(* the browser does not wait for ever, as the code sets them no timeout.   *)
Spec == Init /\ [][Next]_vars /\ WF_vars(Work)
-----------------------------------------------------------------------------
(* Properties *)

Holders == {t \in Task : pc[t] \in {"fetch", "posting"}}
Queued  == {t \in Task : pc[t] = "wait"}

(* No task waits while a slot is free, however the limit moved while slots *)
(* were taken: a wake-up that is lost would block uploads for good.        *)
NoIdleSlots == Queued # {} => Cardinality(Holders) >= maxParallel

(* Nobody gets a slot over the limit: after a lower limit arrived, tasks   *)
(* end one by one until there are no more than it allows.                  *)
SlotsFollowLimit ==
    [][Holders' \ Holders # {} => Cardinality(Holders') <= maxParallel']_vars

(* A URL several frames show is posted once while the worker lives, as a   *)
(* URL or as bytes, however the tasks overlap.                             *)
PostedOnce == \A t, u \in posts : UrlOf[t] = UrlOf[u] => t = u

(* Every message comes to an end, posted, refused or failed.               *)
EveryTaskEnds == \A t \in Task : pc[t] # "page" ~> pc[t] = "done"
=============================================================================
