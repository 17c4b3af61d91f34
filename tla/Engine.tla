------------------------------- MODULE Engine -------------------------------
(***************************************************************************)
(* The engine of hvaxd (src/engine.cpp) under the HTTP workers that call   *)
(* it (src/http/server.cpp).  Each call into the gallery runs under mu_    *)
(* and is one step; what the engine does is sequences of such calls, with  *)
(* the ingest lock held over some of them, inference permits taken by      *)
(* others, and deletions that take neither.                                *)
(*                                                                         *)
(* The gallery is what PhotoStore says: photo i holds held[i].  A content  *)
(* stands for the decoded picture too; how alike two pictures are, how     *)
(* many pixels they have and whether a face is found are constants.        *)
(***************************************************************************)
EXTENDS Naturals, Sequences

CONSTANTS
    Worker,       \* HTTP worker threads
    Content,      \* uploads, named by their SHA-256
    None,
    NoWorker,
    Pixels,       \* pixels of a content
    HardAlike,    \* pairs of contents within both perceptual thresholds
    SoftAlike,    \* pairs within one of them
    Faceless,     \* contents without a face
    Corrupt,      \* contents that do not decode
    Permits,      \* inference_slots_
    Requests,     \* what a worker may be asked: sequences of tasks
    MaxPhotos,    \* bound: photos ever stored
    MaxRequests   \* bound: requests a worker serves

ASSUME EngineBounds ==
    /\ Permits \in Nat \ {0} /\ MaxPhotos \in Nat /\ MaxRequests \in Nat
    /\ Pixels \in [Content -> Nat]

(* What a worker may be asked to do with an upload.                        *)
Kinds == {"ingest", "processed", "look", "check", "delete"}
Jobs  == [how : Kinds, content : Content]

ASSUME NamesAreNames    == None \notin Content /\ NoWorker \notin Worker
ASSUME RequestsAreTasks == Requests \subseteq Seq(Jobs) /\ <<>> \notin Requests

VARIABLES
    count, held,  \* the gallery
    ingestMu,     \* owner of ingest_mu_
    permits,      \* inference permits left
    pc,           \* what a worker does next
    tasks,        \* what is left of its request
    found,        \* the photo it found under an earlier lock, 0 if none
    answer,       \* the last answer it gave
    disturbed,    \* a deletion ran since its task began
    served        \* requests begun

storeVars == <<count, held>>
vars == <<storeVars, ingestMu, permits, pc, tasks, found, answer, disturbed, served>>

Photo      == 1 .. MaxPhotos
Task(w)    == Head(tasks[w])
Upload(w)  == Task(w).content
Holding(c) == {i \in Photo : held[i] = c}

AlikePhotos(c, pairs) == {i \in Photo : held[i] # None /\ <<c, held[i]>> \in pairs}

Init ==
    /\ count = 0
    /\ held = [i \in Photo |-> None]
    /\ ingestMu = NoWorker
    /\ permits = Permits
    /\ pc = [w \in Worker |-> "idle"]
    /\ tasks = [w \in Worker |-> <<>>]
    /\ found = [w \in Worker |-> 0]
    /\ answer = [w \in Worker |-> "none"]
    /\ disturbed = [w \in Worker |-> FALSE]
    /\ served = [w \in Worker |-> 0]

-----------------------------------------------------------------------------
(* Requests *)

(* Where a task begins: the routes /v1/ingest, /v1/ingest/processed (also  *)
(* a page of a PDF already examined), /v1/query/image, /v1/ingest/check    *)
(* and DELETE /v1/images.                                                  *)
Entry(how) ==
    CASE how = "ingest"    -> "lookup"
      [] how = "processed" -> "enter"
      [] how = "look"      -> "permit"
      [] how = "check"     -> "check"
      [] how = "delete"    -> "find"

Goto(w, label) == pc' = [pc EXCEPT ![w] = label]

(* A request is a sequence of tasks: one, or the pages of a PDF.           *)
Receive(w) ==
    /\ pc[w] = "idle" /\ served[w] < MaxRequests
    /\ \E r \in Requests :
          /\ tasks' = [tasks EXCEPT ![w] = r]
          /\ Goto(w, Entry(Head(r).how))
    /\ served' = [served EXCEPT ![w] = @ + 1]
    /\ found' = [found EXCEPT ![w] = 0]
    /\ answer' = [answer EXCEPT ![w] = "none"]
    /\ disturbed' = [disturbed EXCEPT ![w] = FALSE]
    /\ UNCHANGED <<storeVars, ingestMu, permits>>

(* The task of w is answered; the next page of a PDF follows.              *)
Answer(w, what) ==
    LET rest == Tail(tasks[w])
    IN  /\ answer' = [answer EXCEPT ![w] = what]
        /\ tasks' = [tasks EXCEPT ![w] = rest]
        /\ Goto(w, IF rest = <<>> THEN "idle" ELSE Entry(Head(rest).how))
        /\ disturbed' = [disturbed EXCEPT ![w] = FALSE]
        /\ UNCHANGED served

(* An exception reaches the route: an error is answered and the pages that *)
(* are left are dropped.                                                   *)
Throw(w) ==
    /\ answer' = [answer EXCEPT ![w] = "error"]
    /\ tasks' = [tasks EXCEPT ![w] = <<>>]
    /\ Goto(w, "idle")
    /\ UNCHANGED <<disturbed, served>>

(* lock_guard's destructor.                                                *)
Unlock(w) == ingestMu' = IF ingestMu = w THEN NoWorker ELSE ingestMu

(* Mistake: the ingest lock is released by hand and not on an exception.   *)
ThrowLocked(w) == Throw(w) /\ UNCHANGED ingestMu

(* The exception unwinds the lock_guard of persist_ingest.                 *)
ThrowUnlocking(w) == Throw(w) /\ Unlock(w)

-----------------------------------------------------------------------------
(* Inference *)

(* Engine::ingest, before any lock: the bytes are known, or decoded.       *)
LookUp(w) ==
    /\ pc[w] = "lookup"
    /\ \/ \E i \in Holding(Upload(w)) :
             /\ found' = [found EXCEPT ![w] = i]
             /\ Answer(w, "duplicate")
       \/ /\ Holding(Upload(w)) = {} /\ Upload(w) \in Corrupt
          /\ Answer(w, "bad_image") /\ UNCHANGED found
       \/ /\ Holding(Upload(w)) = {} /\ Upload(w) \notin Corrupt
          /\ Goto(w, "permit")
          /\ UNCHANGED <<found, tasks, answer, disturbed, served>>
    /\ UNCHANGED <<storeVars, ingestMu, permits>>

(* SemaphorePermit's constructor waits.                                    *)
AcquirePermit(w) ==
    /\ pc[w] = "permit" /\ permits > 0
    /\ permits' = permits - 1
    /\ Goto(w, "infer")
    /\ UNCHANGED <<storeVars, ingestMu, tasks, found, answer, disturbed, served>>

(* run_pipeline: whether it returns or throws (the model may be missing),  *)
(* the destructor returns the permit.                                      *)
Infer(w) ==
    /\ pc[w] = "infer"
    /\ permits' = permits + 1
    /\ \/ Task(w).how = "look" /\ Answer(w, "faces")
       \/ /\ Task(w).how = "ingest" /\ Goto(w, "enter")
          /\ UNCHANGED <<tasks, answer, disturbed, served>>
       \/ Throw(w)
    /\ UNCHANGED <<storeVars, ingestMu, found>>

-----------------------------------------------------------------------------
(* persist_ingest *)

(* persist_ingest takes the ingest lock.                                   *)
Enter(w) ==
    /\ pc[w] = "enter" /\ ingestMu = NoWorker
    /\ ingestMu' = w
    /\ Goto(w, "recheck")
    /\ UNCHANGED <<storeVars, permits, tasks, found, answer, disturbed, served>>

Proceed(w, label) ==
    /\ Goto(w, label)
    /\ UNCHANGED <<ingestMu, tasks, answer, disturbed, served>>

AnswerUnlocking(w, what) == Answer(w, what) /\ Unlock(w)

(* Mistake: the hash is not looked up again under the ingest lock.         *)
RecheckSkipped(w) ==
    /\ pc[w] = "recheck"
    /\ found' = [found EXCEPT ![w] = 0]
    /\ Proceed(w, "compare")
    /\ UNCHANGED <<storeVars, permits>>

(* find_by_sha once more: an equal upload may have been stored meanwhile.  *)
Recheck(w) ==
    /\ pc[w] = "recheck"
    /\ \/ \E i \in Holding(Upload(w)) :
             /\ found' = [found EXCEPT ![w] = i]
             /\ AnswerUnlocking(w, "duplicate")
       \/ /\ Holding(Upload(w)) = {}
          /\ found' = [found EXCEPT ![w] = 0]
          /\ Proceed(w, "compare")
    /\ UNCHANGED <<storeVars, permits>>

(* find_perceptual: a photo within both thresholds, else one within one.   *)
Compare(w) ==
    LET hard == AlikePhotos(Upload(w), HardAlike)
        soft == AlikePhotos(Upload(w), SoftAlike)
    IN  /\ pc[w] = "compare"
        /\ \/ \E i \in hard : found' = [found EXCEPT ![w] = i] /\ Proceed(w, "decide")
           \/ hard = {} /\ \E i \in soft : found' = [found EXCEPT ![w] = i] /\ Proceed(w, "confirm")
           \/ hard \cup soft = {} /\ UNCHANGED found /\ Proceed(w, "store")
        /\ UNCHANGED <<storeVars, permits>>

(* confirm_soft: every new face resembles a stored one.  A photo deleted   *)
(* meanwhile has no faces to resemble.                                     *)
Confirm(w) ==
    /\ pc[w] = "confirm"
    /\ \/ held[found[w]] # None /\ Upload(w) \notin Faceless /\ Proceed(w, "decide")
       \/ Proceed(w, "store")
    /\ UNCHANGED <<storeVars, permits, found>>

(* Mistake: a larger copy is taken for a duplicate.                        *)
DecideKeeping(w) ==
    /\ pc[w] = "decide"
    /\ \/ held[found[w]] = None /\ ThrowUnlocking(w)
       \/ held[found[w]] # None /\ Proceed(w, "fill")
    /\ UNCHANGED <<storeVars, permits, found>>

(* image() of the photo found throws when it was deleted meanwhile; the    *)
(* copy with more pixels stays, or comes if it has a face.                 *)
Decide(w) ==
    LET i    == found[w]
        wins == held[i] # None /\ Upload(w) \notin Faceless /\ Pixels[Upload(w)] > Pixels[held[i]]
    IN  /\ pc[w] = "decide"
        /\ \/ held[i] = None /\ ThrowUnlocking(w)
           \/ held[i] # None /\ ~ wins /\ Proceed(w, "fill")
           \/ wins /\ Proceed(w, "upgrade")
        /\ UNCHANGED <<storeVars, permits, found>>

(* fill_from reads the photo found again to answer with it.                *)
Fill(w) ==
    /\ pc[w] = "fill"
    /\ IF held[found[w]] = None THEN ThrowUnlocking(w) ELSE AnswerUnlocking(w, "duplicate")
    /\ UNCHANGED <<storeVars, permits, found>>

(* Gallery::upgrade throws when the photo was deleted meanwhile.  It also  *)
(* throws half way, with the hash and the master already replaced, when    *)
(* the HNSW still has a key that is added again (Gallery!UpgradeThrows).   *)
Upgrade(w) ==
    /\ pc[w] = "upgrade"
    /\ \/ held[found[w]] = None /\ ThrowUnlocking(w) /\ UNCHANGED storeVars
       \/ /\ held[found[w]] # None
          /\ held' = [held EXCEPT ![found[w]] = Upload(w)]
          /\ AnswerUnlocking(w, "upgraded") \/ ThrowUnlocking(w)
          /\ UNCHANGED count
    /\ UNCHANGED <<permits, found>>

(* Gallery::insert, unless there is no face to store.                      *)
Store(w) ==
    /\ pc[w] = "store"
    /\ \/ /\ Upload(w) \in Faceless
          /\ AnswerUnlocking(w, "no_face")
          /\ UNCHANGED <<storeVars, found>>
       \/ /\ Upload(w) \notin Faceless /\ count < MaxPhotos
          /\ count' = count + 1
          /\ held' = [held EXCEPT ![count + 1] = Upload(w)]
          /\ found' = [found EXCEPT ![w] = count + 1]
          /\ AnswerUnlocking(w, "stored")
    /\ UNCHANGED permits

-----------------------------------------------------------------------------
(* Requests without the ingest lock *)

(* check_ingest, one gallery call at a time.                               *)
Check(w) ==
    /\ pc[w] = "check"
    /\ \/ Holding(Upload(w)) # {} /\ Answer(w, "known")
       \/ /\ Holding(Upload(w)) = {}
          /\ Goto(w, "check_alike")
          /\ UNCHANGED <<tasks, answer, disturbed, served>>
    /\ UNCHANGED <<storeVars, ingestMu, permits, found>>

CheckAlike(w) ==
    LET hard == AlikePhotos(Upload(w), HardAlike)
    IN  /\ pc[w] = "check_alike"
        /\ \/ \E i \in hard :
                 /\ found' = [found EXCEPT ![w] = i]
                 /\ Goto(w, "check_image")
                 /\ UNCHANGED <<tasks, answer, disturbed, served>>
           \/ hard = {} /\ Answer(w, "process") /\ UNCHANGED found
        /\ UNCHANGED <<storeVars, ingestMu, permits>>

CheckImage(w) ==
    LET i == found[w]
    IN  /\ pc[w] = "check_image"
        /\ \/ held[i] = None /\ Throw(w)
           \/ held[i] # None
              /\ Answer(w, IF Pixels[Upload(w)] > Pixels[held[i]] THEN "process" ELSE "known")
        /\ UNCHANGED <<storeVars, ingestMu, permits, found>>

(* delete_image: the hash is looked up under one lock.                     *)
Find(w) ==
    /\ pc[w] = "find"
    /\ \/ \E i \in Holding(Upload(w)) :
             /\ found' = [found EXCEPT ![w] = i]
             /\ Goto(w, "remove")
             /\ UNCHANGED <<tasks, answer, disturbed, served>>
       \/ Holding(Upload(w)) = {} /\ Answer(w, "not_found") /\ UNCHANGED found
    /\ UNCHANGED <<storeVars, ingestMu, permits>>

(* remove_image under the next, whatever the photo holds by now.           *)
RemoveFound(w) ==
    LET i == found[w]
    IN  /\ pc[w] = "remove"
        /\ answer' = [answer EXCEPT ![w] = IF held[i] = None THEN "not_found" ELSE "deleted"]
        /\ held' = [held EXCEPT ![i] = None]
        /\ disturbed' = [v \in Worker |-> v # w /\ (disturbed[v] \/ held[i] # None)]
        /\ tasks' = [tasks EXCEPT ![w] = <<>>]
        /\ Goto(w, "idle")
        /\ UNCHANGED <<count, ingestMu, permits, found, served>>

Step(w) ==
    \/ LookUp(w) \/ AcquirePermit(w) \/ Infer(w)
    \/ Enter(w) \/ Recheck(w) \/ Compare(w) \/ Confirm(w) \/ Decide(w)
    \/ Fill(w) \/ Upgrade(w) \/ Store(w)
    \/ Check(w) \/ CheckAlike(w) \/ CheckImage(w)
    \/ Find(w) \/ RemoveFound(w)

Next == \E w \in Worker : Receive(w) \/ Step(w)

(* A worker that can run is run; nobody promises that a mutex or a         *)
(* semaphore is fair, so no more than weak fairness is assumed.            *)
Fairness == \A w \in Worker : WF_vars(Step(w))

Spec == Init /\ [][Next]_vars /\ Fairness
-----------------------------------------------------------------------------
(* Properties *)

Resembles(c, d) == <<c, d>> \in HardAlike \cup SoftAlike

(* Every interleaving of uploads and deletions is one of the abstract      *)
(* store: equal bytes are stored once although the first look-up takes no  *)
(* lock, and a master is only replaced by a larger copy of the picture.    *)
PhotoStoreSpec == INSTANCE PhotoStore WITH
    Supersedes <- {p \in Content \X Content : Resembles(p[1], p[2]) /\ Pixels[p[1]] > Pixels[p[2]]}

ImplementsPhotoStore == PhotoStoreSpec!Spec

(* What an answered upload may rely on, unless a photo was deleted in the  *)
(* meantime: the photo named holds these bytes, or a resembling copy that  *)
(* is at least as large (or the upload had no face).  Nobody is told of an *)
(* error because of someone else's upload: the one error left is that of   *)
(* an upgrade which threw after it had stored the bytes of this upload.    *)
AnswersHold ==
    [][\A w \in Worker :
        LET i == found'[w]
        IN  (pc[w] \in {"recheck", "decide", "fill", "upgrade", "store"} /\ ~ disturbed[w]
               /\ tasks'[w] # tasks[w]) =>
                 /\ answer'[w] = "error" => pc[w] = "upgrade" /\ held'[i] = Upload(w)
                 /\ answer'[w] \in {"duplicate", "upgraded", "stored"} =>
                       /\ held'[i] # None
                       /\ \/ held'[i] = Upload(w)
                          \/ Resembles(Upload(w), held'[i])
                             /\ (Upload(w) \in Faceless \/ Pixels[held'[i]] >= Pixels[Upload(w)])]_vars

(* Every request is answered, errors of the pipeline and deletions that    *)
(* pull a photo away under an upload included: no path keeps a permit or   *)
(* the ingest lock.  With finitely many requests weak fairness suffices.   *)
RequestsAnswered == \A w \in Worker : pc[w] # "idle" ~> pc[w] = "idle"
=============================================================================
