---------------------------- MODULE ClientProofs ----------------------------
(***************************************************************************)
(* What the caches of the client may be trusted with, and what an exit     *)
(* without errors says, for any number of threads, files, servers, models  *)
(* and runs.  The caches are right for whoever reads them because a marker *)
(* names the server that gave it and a payload the model it came from;     *)
(* an exit without errors is right because every file below next is either *)
(* accounted for or in the hands of a worker, or an error was counted; the *)
(* summary adds up because files taken are completed or in a hand.         *)
(***************************************************************************)
EXTENDS Client, FiniteSetTheorems, TLAPS

Busy   == {"look", "preflight", "payload", "upload"}
Labels == {"off", "check", "claim", "wait"} \cup Busy
Kinds  == {"stored", "duplicate", "noFace", "errors"}

Counters == [completed : Nat, stored : Nat, duplicate : Nat, noFace : Nat, errors : Nat]

StateOK ==
    /\ run \in [command : {"off", "ingest", "serve"}, server : Server \cup {"none"}, model : Model \cup {"none"}]
    /\ run.command # "off" => run.server \in Server
    /\ known = [s \in Server |-> known[s]]
    /\ next \in Nat \ {0}
    /\ count \in Counters
    /\ pc \in [Worker -> Labels]
    /\ work = [w \in Worker |-> work[w]]
    /\ \A w \in Worker : pc[w] \in Busy => work[w] \in Content

(* Nobody works without a process, and no file of it has been taken.       *)
OffIsIdle ==
    /\ run.command = "off" => run = Off /\ next = 1 /\ \A w \in Worker : pc[w] = "off"
    /\ run.command = "ingest" => \A w \in Worker : pc[w] # "wait"

(* Every marker is true of its server, every payload of its model.         *)
CachesRight ==
    /\ \A s \in Server, c \in Content : <<s, c>> \in markers => c \in known[s]
    /\ \A p \in payloads : p.empty => <<p.root, p.content>> \in Faceless

(* A pool that stops early has counted an error.                           *)
StopsCounted == stop \/ reported => count.errors > 0

(* A thread of an ingest run leaves when the files are taken.              *)
LeavesLate ==
    run.command = "ingest" =>
        \A w \in Worker : pc[w] = "off" => stop \/ next > Len(Files)

Accounted(c) == c \in known[run.server] \/ NoFace(c)
InHand(c)    == \E w \in Worker : pc[w] \in Busy /\ work[w] = c

TakenAccounted ==
    run.command = "ingest" /\ count.errors = 0 =>
        \A k \in 1 .. Len(Files) : k < next => Accounted(Files[k]) \/ InHand(Files[k])

ClientInv ==
    StateOK /\ OffIsIdle /\ CachesRight /\ StopsCounted /\ LeavesLate /\ TakenAccounted

-----------------------------------------------------------------------------
LEMMA FileIsContent ==
    ASSUME NEW k \in 1 .. Len(Files)
    PROVE  Files[k] \in Content
BY SomeWork DEF Content, ToSet

LEMMA LengthIsNatural == Len(Files) \in Nat
BY SomeWork

(* The counters after a file.                                              *)
LEMMA CountGrows ==
    ASSUME count \in Counters, NEW kind \in Kinds,
           count' = [count EXCEPT !.completed = @ + 1, ![kind] = @ + 1]
    PROVE  /\ count' \in Counters
           /\ count'.errors = 0 => count.errors = 0 /\ kind # "errors"
           /\ count.errors > 0 => count'.errors > 0
<1>0. /\ count.completed + 1 \in Nat
      /\ count[kind] + 1 \in Nat
  BY DEF Counters, Kinds
<1> DEFINE a == count.completed + 1
           b == count[kind] + 1
<1>1. /\ count' = [count EXCEPT !.completed = a, ![kind] = b]
      /\ a \in Nat /\ b \in Nat /\ b = count[kind] + 1
  BY <1>0
<1> HIDE DEF a, b
<1>2. count' \in Counters
  BY <1>1 DEF Counters, Kinds
<1>3. count'.errors = IF kind = "errors" THEN count.errors + 1 ELSE count.errors
  BY <1>1 DEF Counters, Kinds
<1>4. count.errors \in Nat
  BY DEF Counters
<1> QED
  BY <1>2, <1>3, <1>4

(* What a step of one worker on its file may do to the caches.             *)
Grows ==
    /\ known' = [s \in Server |-> known'[s]]
    /\ \A s \in Server : known[s] \subseteq known'[s]

LEMMA LearningGrows ==
    ASSUME StateOK, run.command # "off", NEW c, Know(c) \/ UNCHANGED known
    PROVE  Grows
BY DEF StateOK, Know, Grows

(* A worker whose file is accounted for, or has failed, or who goes on     *)
(* with it, leaves the other workers and their files as they were.         *)
LEMMA OthersKeepTheirs ==
    ASSUME ClientInv, NEW w \in Worker, run.command = "ingest",
           UNCHANGED <<run, next>>, Grows, count.errors = 0,
           \A v \in Worker \ {w} : pc'[v] = pc[v] /\ work'[v] = work[v],
           \/ work[w] \in known'[run.server] \/ NoFace(work[w])
           \/ pc'[w] \in Busy /\ work'[w] = work[w]
           \/ pc[w] \notin Busy
    PROVE  \A k \in 1 .. Len(Files) : k < next' => (Accounted(Files[k]) \/ InHand(Files[k]))'
<1> SUFFICES ASSUME NEW k \in 1 .. Len(Files), k < next
             PROVE  Accounted(Files[k])' \/ InHand(Files[k])'
  OBVIOUS
<1>1. run.server \in Server
  BY DEF ClientInv, StateOK
<1>2. CASE Accounted(Files[k])
  BY <1>1, <1>2 DEF Accounted, Grows, NoFace
<1>3. ASSUME NEW v \in Worker, pc[v] \in Busy, work[v] = Files[k]
      PROVE  Accounted(Files[k])' \/ InHand(Files[k])'
  <2>1. CASE v # w
    BY <1>3, <2>1 DEF InHand
  <2>2. CASE v = w
    BY <1>3, <2>2 DEF InHand, Accounted, NoFace
  <2> QED
    BY <2>1, <2>2
<1> QED
  BY <1>2, <1>3 DEF ClientInv, TakenAccounted, InHand

LEMMA DoneKeeps ==
    ASSUME ClientInv, NEW w \in Worker, pc[w] \in Busy, run.command # "off",
           NEW kind \in Kinds, Done(w, kind), UNCHANGED run, Grows, CachesRight',
           kind # "errors" => work[w] \in known'[run.server] \/ NoFace(work[w])
    PROVE  ClientInv'
<1>1. count.errors \in Nat /\ run.command \in {"ingest", "serve"}
  BY DEF ClientInv, StateOK, Counters
<1>2. /\ count' \in Counters
      /\ run.command = "ingest" /\ count'.errors = 0 => count.errors = 0 /\ kind # "errors"
      /\ count.errors > 0 => count'.errors > 0
  <2>1. CASE run.command = "ingest"
    BY <2>1, CountGrows DEF Done, ClientInv, StateOK
  <2>2. CASE run.command # "ingest"
    BY <2>2 DEF Done, ClientInv, StateOK
  <2> QED
    BY <2>1, <2>2
<1>3. /\ pc' = [pc EXCEPT ![w] = IF run.command = "ingest" THEN "check" ELSE "wait"]
      /\ work' = [work EXCEPT ![w] = "none"]
      /\ UNCHANGED <<next, stop, reported>>
  BY DEF Done, Goto, Forget
<1>4. StateOK'
  BY <1>2, <1>3 DEF ClientInv, StateOK, Grows, Labels, Busy
<1>5. OffIsIdle'
  BY <1>3 DEF ClientInv, OffIsIdle, StateOK
<1>6. StopsCounted' /\ LeavesLate'
  BY <1>2, <1>3 DEF ClientInv, StopsCounted, LeavesLate, StateOK
<1>7. TakenAccounted'
  <2> SUFFICES ASSUME run'.command = "ingest", count'.errors = 0
               PROVE  \A k \in 1 .. Len(Files) : k < next' => (Accounted(Files[k]) \/ InHand(Files[k]))'
    BY DEF TakenAccounted
  <2>1. \A v \in Worker \ {w} : pc'[v] = pc[v] /\ work'[v] = work[v]
    BY <1>3 DEF ClientInv, StateOK
  <2> QED
    BY <1>2, <1>3, <2>1, OthersKeepTheirs
<1> QED
  BY <1>4, <1>5, <1>6, <1>7 DEF ClientInv

LEMMA ContinueKeeps ==
    ASSUME ClientInv, NEW w \in Worker, pc[w] \in Busy, run.command # "off",
           NEW label \in Busy, Continue(w, label), UNCHANGED run, Grows, CachesRight'
    PROVE  ClientInv'
<1>1. /\ pc' = [pc EXCEPT ![w] = label]
      /\ UNCHANGED <<next, stop, reported, count, work>>
  BY DEF Continue, Goto
<1>2. StateOK'
  BY <1>1 DEF ClientInv, StateOK, Grows, Labels
<1>3. OffIsIdle'
  BY <1>1 DEF ClientInv, OffIsIdle, StateOK, Busy
<1>4. StopsCounted' /\ LeavesLate'
  BY <1>1 DEF ClientInv, StopsCounted, LeavesLate, StateOK, Busy
<1>5. TakenAccounted'
  <2> SUFFICES ASSUME run'.command = "ingest", count'.errors = 0
               PROVE  \A k \in 1 .. Len(Files) : k < next' => (Accounted(Files[k]) \/ InHand(Files[k]))'
    BY DEF TakenAccounted
  <2>1. \A v \in Worker \ {w} : pc'[v] = pc[v] /\ work'[v] = work[v]
    BY <1>1 DEF ClientInv, StateOK
  <2>2. pc'[w] \in Busy /\ work'[w] = work[w] /\ count.errors = 0
    BY <1>1 DEF ClientInv, StateOK
  <2> QED
    BY <1>1, <2>1, <2>2, OthersKeepTheirs
<1> QED
  BY <1>2, <1>3, <1>4, <1>5 DEF ClientInv

LEMMA FailForGoodKeeps ==
    ASSUME ClientInv, NEW w \in Worker, pc[w] \in Busy, run.command # "off",
           FailForGood(w), UNCHANGED run, Grows, CachesRight'
    PROVE  ClientInv'
<1>1. CASE run.command = "serve"
  BY <1>1, DoneKeeps DEF FailForGood, Fail, Kinds
<1>2. CASE run.command # "serve"
  <2>1. /\ pc' = [pc EXCEPT ![w] = "check"]
        /\ work' = [work EXCEPT ![w] = "none"]
        /\ UNCHANGED next
        /\ count' = [count EXCEPT !.completed = @ + 1, !.errors = @ + (IF reported THEN 0 ELSE 1)]
    BY <1>2 DEF FailForGood, Goto, Forget
  <2>2. count' \in Counters /\ count'.errors > 0
    <3>1. count \in Counters /\ (reported => count.errors > 0)
      BY DEF ClientInv, StateOK, StopsCounted
    <3>2. /\ count.completed \in Nat /\ count.completed + 1 \in Nat
          /\ count.errors \in Nat
      BY <3>1 DEF Counters
    <3> DEFINE a == count.completed + 1
               b == count.errors + (IF reported THEN 0 ELSE 1)
    <3>3. a \in Nat /\ b \in Nat /\ b > 0
      BY <3>1, <3>2
    <3>4. count' = [count EXCEPT !.completed = a, !.errors = b]
      BY <2>1
    <3> HIDE DEF a, b
    <3> QED
      BY <3>1, <3>3, <3>4 DEF Counters
  <2>3. StateOK'
    BY <2>1, <2>2 DEF ClientInv, StateOK, Grows, Labels, Busy
  <2>4. OffIsIdle'
    BY <2>1 DEF ClientInv, OffIsIdle, StateOK
  <2>5. StopsCounted' /\ TakenAccounted'
    BY <2>2 DEF StopsCounted, TakenAccounted
  <2>6. LeavesLate'
    BY <2>1, <1>2 DEF ClientInv, LeavesLate, StateOK, FailForGood
  <2> QED
    BY <2>3, <2>4, <2>5, <2>6 DEF ClientInv
<1> QED
  BY <1>1, <1>2

-----------------------------------------------------------------------------
(* One lemma per action *)

LEMMA InitHolds == Init => ClientInv
BY DEF Init, ClientInv, StateOK, OffIsIdle, CachesRight, StopsCounted, LeavesLate,
       TakenAccounted, Off, Zero, Counters, Labels, Busy

LEMMA CachesUntouched ==
    ASSUME ClientInv, UNCHANGED <<disk, known>>
    PROVE  CachesRight' /\ (UNCHANGED run => Grows)
BY DEF ClientInv, CachesRight, Grows, StateOK, disk

LEMMA StartKeeps ==
    ASSUME ClientInv, Start
    PROVE  ClientInv'
<1>1. CachesRight'
  BY CachesUntouched DEF Start
<1>2. PICK command \in {"ingest", "serve"}, s \in Server, m \in Model :
        /\ run' = [command |-> command, server |-> s, model |-> m]
        /\ pc' = [w \in Worker |-> IF command = "ingest" THEN "check" ELSE "wait"]
  BY DEF Start
<1>3. UNCHANGED <<known, next, stop, reported, count, work>> /\ next = 1
  BY DEF Start, ClientInv, OffIsIdle, Off
<1>4. StateOK'
  BY <1>2, <1>3 DEF ClientInv, StateOK, Labels, Busy
<1>5. OffIsIdle' /\ StopsCounted' /\ LeavesLate' /\ TakenAccounted'
  BY <1>2, <1>3 DEF ClientInv, OffIsIdle, StopsCounted, LeavesLate, TakenAccounted
<1> QED
  BY <1>1, <1>4, <1>5 DEF ClientInv

LEMMA ExitKeeps ==
    ASSUME ClientInv, Exit
    PROVE  ClientInv'
<1>1. CachesRight'
  BY CachesUntouched DEF Exit
<1>2. StateOK'
  BY DEF ClientInv, StateOK, Exit, Off, Zero, Counters, Labels, Busy
<1>3. OffIsIdle' /\ StopsCounted' /\ LeavesLate' /\ TakenAccounted'
  BY DEF Exit, Off, OffIsIdle, StopsCounted, LeavesLate, TakenAccounted
<1> QED
  BY <1>1, <1>2, <1>3 DEF ClientInv

(* A worker between two files.                                             *)
LEMMA CheckStopKeeps ==
    ASSUME ClientInv, NEW w \in Worker, CheckStop(w)
    PROVE  ClientInv'
<1>1. /\ pc[w] = "check"
      /\ pc' = [pc EXCEPT ![w] = IF stop THEN "off" ELSE "claim"]
      /\ UNCHANGED <<run, known, next, stop, reported, count, work>>
  BY DEF CheckStop, Proceed, Continue, Goto, process
<1>2. CachesRight' /\ Grows
  BY CachesUntouched, <1>1 DEF CheckStop
<1>3. StateOK'
  BY <1>1 DEF ClientInv, StateOK, Labels, Busy
<1>4. OffIsIdle' /\ StopsCounted' /\ LeavesLate'
  BY <1>1 DEF ClientInv, StateOK, OffIsIdle, StopsCounted, LeavesLate
<1>5. TakenAccounted'
  <2> SUFFICES ASSUME run'.command = "ingest", count'.errors = 0
               PROVE  \A k \in 1 .. Len(Files) : k < next' => (Accounted(Files[k]) \/ InHand(Files[k]))'
    BY DEF TakenAccounted
  <2>1. \A v \in Worker \ {w} : pc'[v] = pc[v] /\ work'[v] = work[v]
    BY <1>1 DEF ClientInv, StateOK
  <2>2. pc[w] \notin Busy
    BY <1>1 DEF Busy
  <2> QED
    BY <1>1, <1>2, <2>1, <2>2, OthersKeepTheirs
<1> QED
  BY <1>2, <1>3, <1>4, <1>5 DEF ClientInv

LEMMA ClaimKeeps ==
    ASSUME ClientInv, NEW w \in Worker, Claim(w)
    PROVE  ClientInv'
<1>1. /\ pc[w] = "claim"
      /\ next' = next + 1 /\ next \in Nat \ {0}
      /\ UNCHANGED <<run, known, stop, reported, count>>
      /\ Len(Files) \in Nat
  BY LengthIsNatural DEF Claim, process, ClientInv, StateOK
<1>2. CachesRight'
  BY CachesUntouched DEF Claim
<1>3. \/ /\ next > Len(Files) /\ UNCHANGED work
         /\ pc' = [pc EXCEPT ![w] = "off"]
      \/ /\ next \in 1 .. Len(Files)
         /\ pc' = [pc EXCEPT ![w] = "look"]
         /\ work' = [work EXCEPT ![w] = Files[next]]
         /\ Files[next] \in Content
  BY <1>1, FileIsContent DEF Claim, Goto
<1>4. StateOK'
  BY <1>1, <1>3 DEF ClientInv, StateOK, Labels, Busy
<1>5. OffIsIdle' /\ StopsCounted'
  BY <1>1, <1>3 DEF ClientInv, StateOK, OffIsIdle, StopsCounted
<1>6. LeavesLate'
  BY <1>1, <1>3 DEF ClientInv, StateOK, LeavesLate
<1>7. TakenAccounted'
  <2> SUFFICES ASSUME run'.command = "ingest", count'.errors = 0,
                      NEW k \in 1 .. Len(Files), k < next'
               PROVE  Accounted(Files[k])' \/ InHand(Files[k])'
    BY DEF TakenAccounted
  <2>1. CASE k < next
    <3>1. Accounted(Files[k]) \/ InHand(Files[k])
      BY <1>1, <2>1 DEF ClientInv, TakenAccounted
    <3>2. InHand(Files[k]) => InHand(Files[k])'
      BY <1>1, <1>3 DEF InHand, ClientInv, StateOK, Busy
    <3> QED
      BY <3>1, <3>2, <1>1 DEF Accounted, NoFace
  <2>2. CASE k = next
    BY <1>1, <1>3, <2>2 DEF InHand, ClientInv, StateOK, Busy
  <2> QED
    BY <1>1, <2>1, <2>2
<1> QED
  BY <1>2, <1>4, <1>5, <1>6, <1>7 DEF ClientInv

LEMMA PostKeeps ==
    ASSUME ClientInv, NEW w \in Worker, Post(w)
    PROVE  ClientInv'
<1>1. PICK c \in Posts : work' = [work EXCEPT ![w] = c]
  BY DEF Post
<1>2. /\ pc[w] = "wait" /\ pc' = [pc EXCEPT ![w] = "look"]
      /\ next' = next + 1
      /\ UNCHANGED <<run, known, stop, reported, count>>
  BY DEF Post, Goto, process
<1>3. run.command = "serve"
  BY <1>2 DEF ClientInv, StateOK, OffIsIdle
<1>4. CachesRight'
  BY CachesUntouched DEF Post
<1>5. StateOK'
  BY <1>1, <1>2 DEF ClientInv, StateOK, Labels, Busy, Content
<1>6. OffIsIdle' /\ StopsCounted' /\ LeavesLate' /\ TakenAccounted'
  BY <1>2, <1>3 DEF ClientInv, OffIsIdle, StopsCounted, LeavesLate, TakenAccounted
<1> QED
  BY <1>4, <1>5, <1>6 DEF ClientInv

-----------------------------------------------------------------------------
(* A worker at its file *)

LEMMA BusyRuns ==
    ASSUME ClientInv, NEW w \in Worker, pc[w] \in Busy
    PROVE  run.command # "off" /\ run.server \in Server /\ work[w] \in Content
BY DEF ClientInv, StateOK, OffIsIdle, Busy

(* Know and Remember keep the markers true: both speak of this server.     *)
LEMMA RememberedIsKnown ==
    ASSUME ClientInv, NEW c \in Content, run.command # "off",
           Know(c), Remember(c), UNCHANGED payloads
    PROVE  CachesRight' /\ Grows /\ c \in known'[run.server]
<1>1. run.server \in Server /\ known' = [known EXCEPT ![run.server] = @ \cup {c}]
  BY DEF ClientInv, StateOK, Know
<1>2. Grows /\ c \in known'[run.server]
  BY <1>1 DEF ClientInv, StateOK, Grows
<1>3. \A m \in markers' : m \in markers \/ m = <<run.server, c>>
  BY DEF Remember, RemoteRoot
<1> QED
  BY <1>2, <1>3 DEF ClientInv, CachesRight, Grows

LEMMA LookKeeps ==
    ASSUME ClientInv, NEW w \in Worker, Look(w)
    PROVE  ClientInv'
<1>1. pc[w] \in Busy /\ UNCHANGED run
  BY DEF Look, Busy, process
<1>2. CachesRight' /\ Grows
  BY <1>1, CachesUntouched DEF Look
<1>3. run.command # "off" /\ run.server \in Server /\ work[w] \in Content
  BY <1>1, BusyRuns
<1>4. CASE Fail(w)
  BY <1>1, <1>2, <1>3, <1>4, DoneKeeps DEF Fail, Kinds
<1>5. CASE Marked(work[w]) /\ Done(w, "duplicate")
  <2>1. work[w] \in known'[run.server]
    BY <1>2, <1>3, <1>5 DEF Marked, RemoteRoot, ClientInv, CachesRight, Grows
  <2> QED
    BY <1>1, <1>2, <1>3, <1>5, <2>1, DoneKeeps DEF Kinds
<1>6. ASSUME NEW p \in Cached(work[w]), p.empty, Done(w, "noFace")
      PROVE  ClientInv'
  <2>1. NoFace(work[w])
    BY <1>6 DEF Cached, ProcessedRoot, NoFace, ClientInv, CachesRight
  <2> QED
    BY <1>1, <1>2, <1>3, <1>6, <2>1, DoneKeeps DEF Kinds
<1>7. CASE Continue(w, "preflight")
  BY <1>1, <1>2, <1>3, <1>7, ContinueKeeps DEF Busy
<1> QED
  BY <1>4, <1>5, <1>6, <1>7 DEF Look

LEMMA PreflightKeeps ==
    ASSUME ClientInv, NEW w \in Worker, Preflight(w)
    PROVE  ClientInv'
<1>1. pc[w] \in Busy /\ UNCHANGED run /\ UNCHANGED payloads
  BY DEF Preflight, Busy, process
<1>2. run.command # "off" /\ run.server \in Server /\ work[w] \in Content
  BY <1>1, BusyRuns
<1>3. CASE Fail(w) /\ UNCHANGED <<known, markers>>
  BY <1>1, <1>2, <1>3, CachesUntouched, DoneKeeps DEF Fail, Kinds, disk
<1>4. CASE Know(work[w]) /\ Remember(work[w]) /\ Done(w, "duplicate")
  BY <1>1, <1>2, <1>4, RememberedIsKnown, DoneKeeps DEF Kinds
<1>5. CASE Proceed(w, "payload") /\ UNCHANGED <<known, markers>>
  BY <1>1, <1>2, <1>5, CachesUntouched, ContinueKeeps DEF Proceed, Busy, disk
<1> QED
  BY <1>3, <1>4, <1>5 DEF Preflight

LEMMA PayloadKeeps ==
    ASSUME ClientInv, NEW w \in Worker, Payload(w)
    PROVE  ClientInv'
<1>1. pc[w] \in Busy /\ UNCHANGED <<run, markers, known>>
  BY DEF Payload, Busy, process
<1>2. run.command # "off" /\ run.server \in Server /\ work[w] \in Content
  BY <1>1, BusyRuns
<1>3. Grows
  BY <1>1 DEF ClientInv, StateOK, Grows
<1>4. UNCHANGED payloads => CachesRight'
  BY <1>1, CachesUntouched DEF disk
<1>5. CASE Proceed(w, "upload") /\ UNCHANGED payloads
  BY <1>1, <1>2, <1>3, <1>4, <1>5, ContinueKeeps DEF Proceed, Busy
<1>6. CASE FailForGood(w) /\ UNCHANGED payloads
  BY <1>1, <1>2, <1>3, <1>4, <1>6, FailForGoodKeeps
<1>7. CASE Fail(w) /\ UNCHANGED payloads
  BY <1>1, <1>2, <1>3, <1>4, <1>7, DoneKeeps DEF Fail, Kinds
<1>8. CASE Save(work[w]) /\ Proceed(w, "upload")
  <2> DEFINE saved == [root |-> run.model, content |-> work[w], empty |-> NoFace(work[w])]
  <2>1. \A p \in payloads' : p \in payloads \/ p = saved
    BY <1>8 DEF Save, ProcessedRoot
  <2>2. saved.root = run.model /\ saved.content = work[w] /\ saved.empty = NoFace(work[w])
    OBVIOUS
  <2> HIDE DEF saved
  <2>3. \A p \in payloads' : p.empty => <<p.root, p.content>> \in Faceless
    BY <2>1, <2>2 DEF NoFace, ClientInv, CachesRight
  <2>4. CachesRight'
    BY <1>1, <2>3 DEF ClientInv, CachesRight
  <2> QED
    BY <1>1, <1>2, <1>3, <1>8, <2>4, ContinueKeeps DEF Proceed, Busy
<1> QED
  BY <1>5, <1>6, <1>7, <1>8 DEF Payload

LEMMA UploadKeeps ==
    ASSUME ClientInv, NEW w \in Worker, Upload(w)
    PROVE  ClientInv'
<1>1. pc[w] \in Busy /\ UNCHANGED run /\ UNCHANGED payloads
  BY DEF Upload, Busy, process
<1>2. run.command # "off" /\ run.server \in Server /\ work[w] \in Content
  BY <1>1, BusyRuns
<1>3. CASE Fail(w) /\ UNCHANGED <<known, markers>>
  BY <1>1, <1>2, <1>3, CachesUntouched, DoneKeeps DEF Fail, Kinds, disk
<1>4. CASE Know(work[w]) /\ Fail(w) /\ UNCHANGED markers
  <2>1. Remember(work[w])
    BY <1>4 DEF Remember
  <2> QED
    BY <1>1, <1>2, <1>4, <2>1, RememberedIsKnown, DoneKeeps DEF Fail, Kinds
<1>5. CASE NoFace(work[w]) /\ Done(w, "noFace") /\ UNCHANGED <<known, markers>>
  BY <1>1, <1>2, <1>5, CachesUntouched, DoneKeeps DEF Kinds, disk
<1>6. CASE Know(work[w]) /\ Remember(work[w]) /\ (Done(w, "duplicate") \/ Done(w, "stored"))
  BY <1>1, <1>2, <1>6, RememberedIsKnown, DoneKeeps DEF Kinds
<1> QED
  BY <1>3, <1>4, <1>5, <1>6 DEF Upload

-----------------------------------------------------------------------------
(* The theorems *)

LEMMA StepKeeps == ClientInv /\ [Next]_vars => ClientInv'
<1> SUFFICES ASSUME ClientInv, [Next]_vars
             PROVE  ClientInv'
  OBVIOUS
<1>1. CASE Start
  BY <1>1, StartKeeps
<1>2. CASE Kill \/ Join
  BY <1>2, ExitKeeps DEF Kill, Join
<1>3. ASSUME NEW w \in Worker, Post(w) \/ Step(w)
      PROVE  ClientInv'
  BY <1>3, PostKeeps, CheckStopKeeps, ClaimKeeps, LookKeeps, PreflightKeeps, PayloadKeeps, UploadKeeps
     DEF Step
<1>4. CASE UNCHANGED vars
  <2>1. UNCHANGED <<disk, known, run, next, stop, reported, count, pc, work>>
    BY <1>4 DEF vars, process
  <2>2. CachesRight'
    BY <2>1, CachesUntouched
  <2> QED
    BY <2>1, <2>2 DEF ClientInv, StateOK, OffIsIdle, StopsCounted, LeavesLate,
                      TakenAccounted, Accounted, InHand, NoFace
<1> QED
  BY <1>1, <1>2, <1>3, <1>4 DEF Next

LEMMA InvariantHolds == Spec => []ClientInv
BY InitHolds, StepKeeps, PTL DEF Spec

(* load_remote answers "already there" only for pictures the server it is  *)
(* asked about has answered for, whatever was lost or killed before.       *)
THEOREM MarkersCorrect == Spec => []MarkersAreTrue
<1>1. ClientInv => MarkersAreTrue
  <2> SUFFICES ASSUME ClientInv, run # Off, NEW c \in Content, Marked(c)
               PROVE  c \in known[run.server]
    BY DEF MarkersAreTrue
  <2>1. CASE run.command # "off"
    BY <2>1 DEF ClientInv, StateOK, CachesRight, Marked, RemoteRoot
  <2>2. CASE run.command = "off"
    BY <2>2 DEF ClientInv, OffIsIdle
  <2> QED
    BY <2>1, <2>2
<1> QED
  BY <1>1, InvariantHolds, PTL

(* `hvax ingest` returns 0 only when every file is on the server or has no *)
(* face for the model of the run.                                          *)
THEOREM CleanExitCorrect == Spec => []CleanExitMeansDone
<1>1. ClientInv => CleanExitMeansDone
  <2> SUFFICES ASSUME ClientInv, run.command = "ingest", ~ Working, count.errors = 0,
                      NEW k \in 1 .. Len(Files)
               PROVE  Files[k] \in known[run.server] \/ NoFace(Files[k])
    BY DEF CleanExitMeansDone, Summary
  <2>1. PICK w \in Worker : pc[w] = "off"
    BY SomeWork DEF Working
  <2>2. next > Len(Files)
    BY <2>1 DEF ClientInv, StopsCounted, LeavesLate, StateOK, Counters
  <2>3. k < next
    BY <2>2, LengthIsNatural DEF ClientInv, StateOK
  <2>4. ~ InHand(Files[k])
    BY DEF InHand, Working, Busy
  <2> QED
    BY <2>3, <2>4 DEF ClientInv, TakenAccounted, Accounted
<1> QED
  BY <1>1, InvariantHolds, PTL

-----------------------------------------------------------------------------
(* The summary: every file that was taken is in the hands of one worker or *)
(* has been counted as completed, and every completed file under one of    *)
(* the four headings, as long as nobody stops the pool.                    *)

Hands == {w \in Worker : pc[w] \in Busy}
Taken == IF next > Len(Files) THEN Len(Files) ELSE next - 1
Ended == count.stored + count.duplicate + count.noFace + count.errors

EveryFileCounted ==
    /\ run.command = "off" => count = Zero
    /\ run.command = "ingest" =>
          /\ IsFiniteSet(Hands)
          /\ count.completed + Cardinality(Hands) = Taken
          /\ ~ stop => Ended = count.completed

LEMMA TallyGrows ==
    ASSUME count \in Counters, NEW kind \in Kinds,
           count' = [count EXCEPT !.completed = @ + 1, ![kind] = @ + 1]
    PROVE  count'.completed = count.completed + 1 /\ Ended' = Ended + 1
<1>1. /\ count.completed \in Nat /\ count.stored \in Nat /\ count.duplicate \in Nat
      /\ count.noFace \in Nat /\ count.errors \in Nat
  BY DEF Counters
<1>2. /\ count'.completed = count.completed + 1
      /\ count'.stored    = IF kind = "stored" THEN count.stored + 1 ELSE count.stored
      /\ count'.duplicate = IF kind = "duplicate" THEN count.duplicate + 1 ELSE count.duplicate
      /\ count'.noFace    = IF kind = "noFace" THEN count.noFace + 1 ELSE count.noFace
      /\ count'.errors    = IF kind = "errors" THEN count.errors + 1 ELSE count.errors
  BY DEF Counters, Kinds
<1> QED
  BY <1>1, <1>2 DEF Ended, Kinds

(* What a step of one worker does to the hands.                            *)
LEMMA HandsChange ==
    ASSUME ClientInv, IsFiniteSet(Hands), NEW w \in Worker, NEW label, Goto(w, label)
    PROVE  /\ IsFiniteSet(Hands') /\ Cardinality(Hands) \in Nat /\ Cardinality(Hands') \in Nat
           /\ pc[w] \in Busy /\ label \notin Busy => Cardinality(Hands) = Cardinality(Hands') + 1
           /\ pc[w] \notin Busy /\ label \in Busy => Cardinality(Hands') = Cardinality(Hands) + 1
           /\ (pc[w] \in Busy <=> label \in Busy) => Cardinality(Hands') = Cardinality(Hands)
<1>1. \A v \in Worker : pc'[v] = IF v = w THEN label ELSE pc[v]
  BY DEF Goto, ClientInv, StateOK
<1>2. CASE pc[w] \in Busy /\ label \notin Busy
  <2>1. Hands' = Hands \ {w} /\ w \in Hands
    BY <1>1, <1>2 DEF Hands
  <2>2. IsFiniteSet(Hands') /\ Cardinality(Hands') = Cardinality(Hands) - 1
    BY <2>1, FS_RemoveElement
  <2>3. Cardinality(Hands) \in Nat /\ Cardinality(Hands') \in Nat
    BY <2>2, FS_CardinalityType
  <2> QED
    BY <1>2, <2>2, <2>3
<1>3. CASE pc[w] \notin Busy /\ label \in Busy
  <2>1. Hands' = Hands \cup {w} /\ w \notin Hands
    BY <1>1, <1>3 DEF Hands
  <2> QED
    BY <1>3, <2>1, FS_AddElement, FS_CardinalityType
<1>4. CASE pc[w] \in Busy <=> label \in Busy
  <2>1. Hands' = Hands
    BY <1>1, <1>4 DEF Hands
  <2> QED
    BY <1>4, <2>1, FS_CardinalityType
<1> QED
  BY <1>2, <1>3, <1>4

(* A file is finished: one hand less, one file more.                       *)
LEMMA FinishedIsCounted ==
    ASSUME ClientInv, EveryFileCounted, NEW w \in Worker, pc[w] \in Busy, run.command # "off",
           NEW kind \in Kinds, Done(w, kind), UNCHANGED run
    PROVE  EveryFileCounted'
<1> SUFFICES ASSUME run.command = "ingest"
             PROVE  EveryFileCounted'
  BY DEF EveryFileCounted
<1>1. /\ Goto(w, "check") /\ "check" \notin Busy
      /\ count' = [count EXCEPT !.completed = @ + 1, ![kind] = @ + 1]
      /\ UNCHANGED <<next, stop>> /\ Taken' = Taken
  BY DEF Done, Busy, Taken
<1>2. count'.completed = count.completed + 1 /\ Ended' = Ended + 1
  BY <1>1, TallyGrows DEF ClientInv, StateOK
<1>3. IsFiniteSet(Hands') /\ Cardinality(Hands) = Cardinality(Hands') + 1 /\ Cardinality(Hands') \in Nat
  BY <1>1, HandsChange DEF EveryFileCounted
<1>4. count.completed \in Nat
  BY DEF ClientInv, StateOK, Counters
<1> QED
  BY <1>1, <1>2, <1>3, <1>4 DEF EveryFileCounted

LEMMA HeldIsCounted ==
    ASSUME ClientInv, EveryFileCounted, NEW w \in Worker, pc[w] \in Busy, run.command # "off",
           NEW label \in Busy, Continue(w, label), UNCHANGED run
    PROVE  EveryFileCounted'
<1>1. Goto(w, label) /\ UNCHANGED <<next, stop, count>> /\ Taken' = Taken /\ Ended' = Ended
  BY DEF Continue, Taken, Ended
<1>2. IsFiniteSet(Hands) => IsFiniteSet(Hands') /\ Cardinality(Hands') = Cardinality(Hands)
  BY <1>1, HandsChange
<1> QED
  BY <1>1, <1>2 DEF EveryFileCounted

LEMMA StoppedIsCounted ==
    ASSUME ClientInv, EveryFileCounted, NEW w \in Worker, pc[w] \in Busy, run.command # "off",
           FailForGood(w), UNCHANGED run
    PROVE  EveryFileCounted'
<1>1. CASE run.command = "serve"
  BY <1>1, FinishedIsCounted DEF FailForGood, Fail, Kinds
<1>2. CASE run.command # "serve"
  <2>1. /\ Goto(w, "check") /\ "check" \notin Busy /\ stop'
        /\ count' = [count EXCEPT !.completed = @ + 1, !.errors = @ + (IF reported THEN 0 ELSE 1)]
        /\ UNCHANGED next /\ Taken' = Taken /\ run.command = "ingest"
    BY <1>2 DEF FailForGood, Busy, Taken, ClientInv, StateOK
  <2>2. count'.completed = count.completed + 1 /\ count.completed \in Nat
    BY <2>1 DEF ClientInv, StateOK, Counters
  <2>3. IsFiniteSet(Hands') /\ Cardinality(Hands) = Cardinality(Hands') + 1 /\ Cardinality(Hands') \in Nat
    BY <2>1, HandsChange DEF EveryFileCounted
  <2> QED
    BY <2>1, <2>2, <2>3 DEF EveryFileCounted
<1> QED
  BY <1>1, <1>2

LEMMA ClaimIsCounted ==
    ASSUME ClientInv, EveryFileCounted, NEW w \in Worker, Claim(w)
    PROVE  EveryFileCounted'
<1>1. /\ pc[w] = "claim" /\ pc[w] \notin Busy /\ "off" \notin Busy /\ "look" \in Busy
      /\ next' = next + 1 /\ next \in Nat \ {0}
      /\ UNCHANGED <<run, stop, count>> /\ Ended' = Ended
      /\ Len(Files) \in Nat
  BY LengthIsNatural DEF Claim, process, ClientInv, StateOK, Busy, Ended
<1> SUFFICES ASSUME run.command = "ingest"
             PROVE  EveryFileCounted'
  BY <1>1 DEF EveryFileCounted
<1>2. CASE next > Len(Files)
  <2>1. Goto(w, "off") /\ Taken' = Taken
    BY <1>1, <1>2 DEF Claim, Taken
  <2>2. IsFiniteSet(Hands') /\ Cardinality(Hands') = Cardinality(Hands)
    BY <1>1, <2>1, HandsChange DEF EveryFileCounted
  <2> QED
    BY <1>1, <2>1, <2>2 DEF EveryFileCounted
<1>3. CASE next <= Len(Files)
  <2>1. Goto(w, "look") /\ Taken' = Taken + 1
    BY <1>1, <1>3 DEF Claim, Taken
  <2>2. /\ IsFiniteSet(Hands') /\ Cardinality(Hands') = Cardinality(Hands) + 1
        /\ Cardinality(Hands) \in Nat
    BY <1>1, <2>1, HandsChange DEF EveryFileCounted
  <2>3. count.completed \in Nat
    BY DEF ClientInv, StateOK, Counters
  <2> QED
    BY <1>1, <2>1, <2>2, <2>3 DEF EveryFileCounted
<1> QED
  BY <1>1, <1>2, <1>3

LEMMA CheckIsCounted ==
    ASSUME ClientInv, EveryFileCounted, NEW w \in Worker, CheckStop(w)
    PROVE  EveryFileCounted'
<1>1. /\ pc[w] \notin Busy /\ \E label : label \notin Busy /\ Goto(w, label)
      /\ UNCHANGED <<run, next, stop, count>> /\ Taken' = Taken /\ Ended' = Ended
  BY DEF CheckStop, Proceed, Continue, process, Busy, Taken, Ended
<1>2. IsFiniteSet(Hands) => IsFiniteSet(Hands') /\ Cardinality(Hands') = Cardinality(Hands)
  BY <1>1, HandsChange
<1> QED
  BY <1>1, <1>2 DEF EveryFileCounted

LEMMA StartIsCounted ==
    ASSUME ClientInv, EveryFileCounted, Start
    PROVE  EveryFileCounted'
<1>1. run'.command \in {"ingest", "serve"} /\ \A w \in Worker : pc'[w] \in {"check", "wait"}
  BY DEF Start
<1>2. count' = Zero /\ next' = 1
  BY DEF Start, Off, EveryFileCounted, ClientInv, OffIsIdle
<1>3. Hands' = {} /\ Ended' = 0 /\ count'.completed = 0 /\ Taken' = 0
  BY <1>1, <1>2, LengthIsNatural, SomeWork DEF Hands, Busy, Ended, Zero, Taken
<1> QED
  BY <1>1, <1>3, FS_EmptySet DEF EveryFileCounted

LEMMA WorkIsCounted ==
    ASSUME ClientInv, EveryFileCounted, NEW w \in Worker,
           Look(w) \/ Preflight(w) \/ Payload(w) \/ Upload(w)
    PROVE  EveryFileCounted'
<1>1. pc[w] \in Busy /\ UNCHANGED run
  BY DEF Look, Preflight, Payload, Upload, Busy, process
<1>2. run.command # "off"
  BY <1>1, BusyRuns
<1>3. \/ \E kind \in Kinds : Done(w, kind)
      \/ \E label \in Busy : Continue(w, label)
      \/ FailForGood(w)
  BY DEF Look, Preflight, Payload, Upload, Fail, Proceed, Kinds, Busy
<1> QED
  BY <1>1, <1>2, <1>3, FinishedIsCounted, HeldIsCounted, StoppedIsCounted

LEMMA CountKeeps == ClientInv /\ EveryFileCounted /\ [Next]_vars => EveryFileCounted'
<1> SUFFICES ASSUME ClientInv, EveryFileCounted, [Next]_vars
             PROVE  EveryFileCounted'
  OBVIOUS
<1>1. CASE Start
  BY <1>1, StartIsCounted
<1>2. CASE Kill \/ Join
  BY <1>2 DEF Kill, Join, Exit, Off, EveryFileCounted
<1>3. ASSUME NEW w \in Worker, Post(w)
      PROVE  EveryFileCounted'
  <2>1. run.command = "serve" /\ UNCHANGED run
    BY <1>3 DEF Post, process, ClientInv, StateOK, OffIsIdle
  <2> QED
    BY <2>1 DEF EveryFileCounted
<1>4. ASSUME NEW w \in Worker, Step(w)
      PROVE  EveryFileCounted'
  BY <1>4, ClaimIsCounted, CheckIsCounted, WorkIsCounted DEF Step
<1>5. CASE UNCHANGED vars
  BY <1>5 DEF vars, process, EveryFileCounted, Hands, Taken, Ended
<1>6. CASE Next
  BY <1>1, <1>2, <1>3, <1>4, <1>6 DEF Next
<1> QED
  BY <1>5, <1>6

(* Whatever the workers race for and whichever files fail, the printed     *)
(* summary counts every file once, under one heading; it does not only     *)
(* when the pool was stopped, and then it counts an error.                 *)
THEOREM SummaryCorrect == Spec => []SummaryAddsUp
<1>1. Init => EveryFileCounted
  BY DEF Init, Off, EveryFileCounted
<1>2. ClientInv /\ EveryFileCounted => SummaryAddsUp
  <2> SUFFICES ASSUME ClientInv, EveryFileCounted, run.command = "ingest", ~ Working, ~ stop
               PROVE  count.completed = Len(Files) /\ Ended = Len(Files)
    BY DEF SummaryAddsUp, Summary, Ended, ClientInv, StopsCounted
  <2>1. PICK w \in Worker : pc[w] = "off"
    BY SomeWork DEF Working
  <2>2. Taken = Len(Files)
    BY <2>1 DEF ClientInv, LeavesLate, Taken
  <2>3. Hands = {}
    BY DEF Hands, Working, Busy
  <2>4. count.completed \in Nat
    BY DEF ClientInv, StateOK, Counters
  <2> QED
    BY <2>2, <2>3, <2>4, FS_EmptySet DEF EveryFileCounted
<1>3. Spec => []EveryFileCounted
  BY <1>1, CountKeeps, InvariantHolds, PTL DEF Spec
<1> QED
  BY <1>2, <1>3, InvariantHolds, PTL
=============================================================================
