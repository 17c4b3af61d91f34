------------------------------- MODULE Client -------------------------------
(***************************************************************************)
(* The command-line client (src/client.cpp): `hvax ingest` walks over the  *)
(* files with a pool of workers, `hvax serve` does the same for pictures   *)
(* a browser posts.  Both keep two caches on disk, faces per model and     *)
(* markers per server, which outlive the process; the process may be       *)
(* killed at any step, requests and answers may be lost.                   *)
(*                                                                         *)
(* A file is its content.  Cache files are written beside their name and   *)
(* renamed; a write that fails is silent.  The server may know pictures    *)
(* from elsewhere, so it may recognise any content.  Left out: the counter *)
(* of cache hits, the remote /v1/stats, deletions on the server, and model *)
(* files replaced while a process runs.                                    *)
(***************************************************************************)
EXTENDS Naturals, SequencesExt

CONSTANTS
    Worker,      \* threads
    Server,      \* galleries a run may talk to
    Model,       \* models and detector settings a run may use
    Files,       \* contents of the files, in the order of collect_files
    Faceless,    \* pairs <<model, content>> without a face
    Posts,       \* contents a browser may post
    MaxPosts,    \* bound: posts to one `hvax serve`
    MaxRuns      \* bound: runs

ASSUME ClientBounds == {MaxPosts, MaxRuns} \subseteq Nat

(* parse_options insists on a positive number of jobs, and a run without a *)
(* file ends before it starts a thread.                                    *)
ASSUME SomeWork == Worker # {} /\ Files # <<>> /\ Files \in Seq(ToSet(Files))

VARIABLES
    payloads,    \* cached faces: records of namespace, content, whether there is no face
    markers,     \* pairs <<namespace, content>>: the server has this content
    known,       \* per server, contents stored there or recognised as a stored picture
    run,         \* the running process: command, server, model
    runs,        \* runs started
    next, stop,  \* the next file, and whether workers are to stop
    pipeline,    \* "fresh" until a worker needs it, then "ready" or "broken"
    reported,    \* its failure has been reported
    count,       \* Counters
    pc, work, hit  \* per worker: step, content, whether its faces were cached

disk    == <<payloads, markers>>
process == <<run, runs>>
vars    == <<disk, known, process, next, stop, pipeline, reported, count, pc, work, hit>>

Off  == [command |-> "off", server |-> "none", model |-> "none"]
Zero == [completed |-> 0, stored |-> 0, duplicate |-> 0, noFace |-> 0, errors |-> 0]

(* Mistakes: one namespace for all models, one for all servers.            *)
ProcessedRootShared == "all"
RemoteRootShared    == "all"

(* The two namespaces of ProcessingCache.                                  *)
ProcessedRoot == run.model
RemoteRoot    == run.server

Cached(c)   == {p \in payloads : p.root = ProcessedRoot /\ p.content = c}
Marked(c)   == <<RemoteRoot, c>> \in markers
NoFace(c)   == <<run.model, c>> \in Faceless
Content     == ToSet(Files) \cup Posts
Working     == \E w \in Worker : pc[w] # "off"

Init ==
    /\ payloads = {} /\ markers = {}
    /\ known = [s \in Server |-> {}]
    /\ run = Off /\ runs = 0
    /\ next = 1 /\ stop = FALSE
    /\ pipeline = "fresh" /\ reported = FALSE
    /\ count = Zero
    /\ pc = [w \in Worker |-> "off"]
    /\ work = [w \in Worker |-> "none"]
    /\ hit = [w \in Worker |-> FALSE]

Goto(w, label) == pc' = [pc EXCEPT ![w] = label]

(* A process starts: a worker checks the stop flag first, a handler of the *)
(* local server waits for a request.                                       *)
Start ==
    /\ run = Off /\ runs < MaxRuns
    /\ \E command \in {"ingest", "serve"}, s \in Server, m \in Model :
          /\ run' = [command |-> command, server |-> s, model |-> m]
          /\ pc' = [w \in Worker |-> IF command = "ingest" THEN "check" ELSE "wait"]
    /\ runs' = runs + 1
    /\ UNCHANGED <<disk, known, next, stop, pipeline, reported, count, work, hit>>

(* SIGKILL, or Ctrl-C: there is no handler.  Or main has joined its        *)
(* workers and prints the summary.                                         *)
Exit ==
    /\ run' = Off
    /\ next' = 1 /\ stop' = FALSE
    /\ pipeline' = "fresh" /\ reported' = FALSE
    /\ count' = Zero
    /\ pc' = [w \in Worker |-> "off"]
    /\ work' = [w \in Worker |-> "none"]
    /\ hit' = [w \in Worker |-> FALSE]
    /\ UNCHANGED <<disk, known, runs>>

Kill == Working /\ Exit
Join == run.command = "ingest" /\ ~ Working /\ Exit

-----------------------------------------------------------------------------
(* One file, or one posted picture *)

Forget(w) == work' = [work EXCEPT ![w] = "none"] /\ hit' = [hit EXCEPT ![w] = FALSE]

(* process_one returned true, or the handler of the local server.          *)
Done(w, kind) ==
    /\ Goto(w, IF run.command = "ingest" THEN "check" ELSE "wait")
    /\ count' = IF run.command = "ingest" THEN [count EXCEPT !.completed = @ + 1, ![kind] = @ + 1] ELSE count
    /\ Forget(w)
    /\ UNCHANGED <<next, stop, reported>>

(* Mistake: a file that failed is tried again.                             *)
FailRetrying(w) ==
    /\ Goto(w, IF run.command = "ingest" THEN "look" ELSE "wait")
    /\ UNCHANGED <<next, stop, reported, count, work, hit>>

(* Any other exception ends this file only.                                *)
Fail(w) == Done(w, "errors")

(* PipelineInitializationError: the first worker reports it, every worker  *)
(* that meets it stops the pool.  The local server answers 502.            *)
FailForGood(w) ==
    IF run.command = "serve" THEN Fail(w) ELSE
        /\ Goto(w, "check")
        /\ stop' = TRUE
        /\ reported' = TRUE
        /\ count' = [count EXCEPT !.completed = @ + 1, !.errors = @ + (IF reported THEN 0 ELSE 1)]
        /\ Forget(w)
        /\ UNCHANGED next

Continue(w, label) == Goto(w, label) /\ UNCHANGED <<next, stop, reported, count, work>>
Proceed(w, label)  == Continue(w, label) /\ UNCHANGED hit

CheckStop(w) ==
    /\ pc[w] = "check"
    /\ Proceed(w, IF stop THEN "off" ELSE "claim")
    /\ UNCHANGED <<disk, known, process, pipeline>>

(* Mistake: the index is read in one step and set to one more in another.  *)
ClaimInTwoSteps(w) ==
    /\ \/ /\ pc[w] = "claim" /\ next > Len(Files)
          /\ Goto(w, "off") /\ UNCHANGED <<next, work>>
       \/ /\ pc[w] = "claim" /\ next <= Len(Files)
          /\ work' = [work EXCEPT ![w] = Files[next]]
          /\ Goto(w, "claimed") /\ UNCHANGED next
       \/ /\ pc[w] = "claimed"
          /\ next' = SelectInSeq(Files, LAMBDA c : c = work[w]) + 1
          /\ Goto(w, "look") /\ UNCHANGED work
    /\ UNCHANGED <<disk, known, process, stop, pipeline, reported, count, hit>>

Claim(w) ==
    /\ pc[w] = "claim"
    /\ next' = next + 1
    /\ IF next > Len(Files)
       THEN Goto(w, "off") /\ UNCHANGED work
       ELSE Goto(w, "look") /\ work' = [work EXCEPT ![w] = Files[next]]
    /\ UNCHANGED <<disk, known, process, stop, pipeline, reported, count, hit>>

(* POST /v1/ingest of the local server; next counts the posts.             *)
Post(w) ==
    /\ pc[w] = "wait" /\ next <= MaxPosts
    /\ next' = next + 1
    /\ \E c \in Posts : work' = [work EXCEPT ![w] = c]
    /\ Goto(w, "look")
    /\ UNCHANGED <<disk, known, process, stop, pipeline, reported, count, hit>>

(* read_file, load_remote, load and decode_image: what needs no network.   *)
(* A file may be missing, too large or no picture.                         *)
Look(w) ==
    LET c       == work[w]
        skipped == \E p \in Cached(c) : p.empty
    IN  /\ pc[w] = "look"
        /\ \/ Fail(w)
           \/ Marked(c) /\ Done(w, "duplicate")
           \/ ~ Marked(c) /\ skipped /\ Done(w, "noFace")
           \/ /\ ~ Marked(c) /\ ~ skipped
              /\ Continue(w, "preflight")
              /\ hit' = [hit EXCEPT ![w] = Cached(c) # {}]
        /\ UNCHANGED <<disk, known, process, pipeline>>

Know(c) == known' = [known EXCEPT ![run.server] = @ \cup {c}]

(* store_remote, which may fail without anyone noticing.                   *)
Remember(c) == markers' \in {markers, markers \cup {<<RemoteRoot, c>>}}

(* preflight: no answer, an error, a duplicate (these bytes, or a picture  *)
(* already there at least as large), or neither; the last is also assumed  *)
(* of a server too old to have the route.                                  *)
Preflight(w) ==
    LET c == work[w]
    IN  /\ pc[w] = "preflight"
        /\ \/ Fail(w) /\ UNCHANGED <<known, markers>>
           \/ Know(c) /\ Remember(c) /\ Done(w, "duplicate")
           \/ Proceed(w, "payload") /\ UNCHANGED <<known, markers>>
        /\ UNCHANGED <<payloads, process, pipeline>>

(* LazyPipeline::get loads the models once, whoever comes first.           *)
LoadModels == pipeline' \in (IF pipeline = "fresh" THEN {"ready", "broken"} ELSE {pipeline})

(* ProcessingCache::store, which may fail as silently.                     *)
Save(c) == payloads' \in {payloads, payloads \cup {[root |-> ProcessedRoot, content |-> c, empty |-> NoFace(c)]}}

(* The faces come from the cache or from inference, which may throw.       *)
Payload(w) ==
    LET c == work[w]
    IN  /\ pc[w] = "payload"
        /\ \/ hit[w] /\ Proceed(w, "upload") /\ UNCHANGED <<payloads, pipeline>>
           \/ /\ ~ hit[w]
              /\ LoadModels
              /\ \/ pipeline' = "broken" /\ FailForGood(w) /\ UNCHANGED payloads
                 \/ pipeline' = "ready" /\ Fail(w) /\ UNCHANGED payloads
                 \/ pipeline' = "ready" /\ Save(c) /\ Proceed(w, "upload")
        /\ UNCHANGED <<markers, known, process>>

(* upload_processed.  The server stores the picture or finds one it        *)
(* resembles; without faces it may answer 204.  The request, or the        *)
(* answer, may be lost.                                                    *)
Upload(w) ==
    LET c     == work[w]
        empty == ~ hit[w] /\ NoFace(c)
    IN  /\ pc[w] = "upload"
        /\ \/ Fail(w) /\ UNCHANGED <<known, markers>>
           \/ Know(c) /\ Fail(w) /\ UNCHANGED markers
           \/ empty /\ Done(w, "noFace") /\ UNCHANGED <<known, markers>>
           \/ /\ Know(c) /\ Remember(c)
              /\ \/ Done(w, "duplicate")
                 \/ ~ empty /\ c \notin known[run.server] /\ Done(w, "stored")
        /\ UNCHANGED <<payloads, process, pipeline>>

Step(w) == CheckStop(w) \/ Claim(w) \/ Look(w) \/ Preflight(w) \/ Payload(w) \/ Upload(w)

Next == Start \/ Kill \/ Join \/ \E w \in Worker : Post(w) \/ Step(w)

(* Threads run, and every request ends: configure_client sets timeouts.    *)
Fairness == WF_vars(Join) /\ \A w \in Worker : WF_vars(Step(w))

Spec == Init /\ [][Next]_vars /\ Fairness
-----------------------------------------------------------------------------
(* Properties *)

(* A marker is only believed for the server that gave it, and that server  *)
(* did answer for the content: through lost answers, kills between upload  *)
(* and marker, and runs against other servers.                             *)
MarkersAreTrue == run # Off => \A c \in Content : Marked(c) => c \in known[run.server]

Summary == run.command = "ingest" /\ ~ Working

(* A run that is about to exit with 0 left nothing behind: each file is on *)
(* the server, or the model of this run finds no face in it, whatever      *)
(* earlier runs with other models and servers left in the caches.          *)
CleanExitMeansDone ==
    Summary /\ count.errors = 0 =>
        \A k \in 1 .. Len(Files) : Files[k] \in known[run.server] \/ NoFace(Files[k])

(* The summary counts every file once, however the workers share them out; *)
(* unless the models cannot be loaded, and then it reports an error.       *)
SummaryAddsUp ==
    Summary =>
        IF stop THEN count.errors > 0
        ELSE /\ count.completed = Len(Files)
             /\ count.stored + count.duplicate + count.noFace + count.errors = Len(Files)

(* Every ingest run comes to its end, with errors on the way or not.       *)
RunEnds == run.command = "ingest" ~> run = Off
=============================================================================
