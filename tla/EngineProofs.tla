---------------------------- MODULE EngineProofs ----------------------------
(***************************************************************************)
(* Engine implements PhotoStore, and its answers hold, for any number of   *)
(* workers, contents and permits.  Two facts carry both proofs: between    *)
(* the second look-up of the hash and the insert nobody else can store a   *)
(* photo, for the ingest lock is held; and a deletion, which takes no      *)
(* lock, only empties numbers, so what was looked up may be gone, and the  *)
(* worker disturbed, but it is never something else.                       *)
(***************************************************************************)
EXTENDS Engine, TLAPS

Entries  == {"lookup", "enter", "permit", "check", "find"}
Compared == {"compare", "confirm", "decide", "fill", "upgrade", "store"}
Locked   == {"recheck"} \cup Compared
Labels   == {"idle", "infer", "check_alike", "check_image", "remove"} \cup Entries \cup Locked

StateOK ==
    /\ count \in 0 .. MaxPhotos
    /\ held \in [Photo -> Content \cup {None}]
    /\ ingestMu \in Worker \cup {NoWorker}
    /\ pc \in [Worker -> Labels]
    /\ tasks \in [Worker -> Seq(Jobs)]
    /\ found \in [Worker -> 0 .. MaxPhotos]

(* A worker at work has a task.                                            *)
Busy(w) == pc[w] # "idle" => tasks[w] # <<>>

(* persist_ingest runs under the ingest lock.                              *)
HoldsLock(w) == pc[w] \in Locked => ingestMu = w

(* After the second look-up the upload is not stored.                      *)
StillNew(w) == pc[w] \in Compared => Holding(Upload(w)) = {}

(* The photo found resembles the upload, unless it was deleted since; one  *)
(* about to be upgraded has fewer pixels.                                  *)
StillAlike(w) ==
    pc[w] \in {"confirm", "decide", "upgrade"} =>
        /\ found[w] \in Photo
        /\ held[found[w]] # None =>
              /\ Resembles(Upload(w), held[found[w]])
              /\ pc[w] = "upgrade" => Pixels[Upload(w)] > Pixels[held[found[w]]]

Own(w) == Busy(w) /\ HoldsLock(w) /\ StillNew(w) /\ StillAlike(w)

EngineInv == StateOK /\ \A w \in Worker : Own(w)

-----------------------------------------------------------------------------
(* Where a task begins is no place under the lock.                         *)
LEMMA EntryIsOutside ==
    ASSUME NEW r \in Seq(Jobs), r # <<>>
    PROVE  Entry(Head(r).how) \in Entries
<1>1. Head(r) \in Jobs
  OBVIOUS
<1>2. Head(r).how \in Kinds
  BY <1>1 DEF Jobs
<1> QED
  BY <1>2 DEF Entry, Entries, Kinds

LEMMA TaskIsAJob ==
    ASSUME StateOK, NEW w \in Worker, tasks[w] # <<>>
    PROVE  Upload(w) \in Content /\ Tail(tasks[w]) \in Seq(Jobs)
<1>1. tasks[w] \in Seq(Jobs)
  BY DEF StateOK
<1>2. Head(tasks[w]) \in Jobs /\ Tail(tasks[w]) \in Seq(Jobs)
  BY <1>1
<1> QED
  BY <1>2 DEF Upload, Task, Jobs

(* How a worker leaves a task: outside the lock, with a task if it goes on.*)
Outside(w) ==
    \E l \in {"idle"} \cup Entries, r \in Seq(Jobs) :
        /\ l # "idle" => r # <<>>
        /\ pc' = [pc EXCEPT ![w] = l]
        /\ tasks' = [tasks EXCEPT ![w] = r]

LEMMA AnswerLeaves ==
    ASSUME StateOK, NEW w \in Worker, tasks[w] # <<>>, NEW what, Answer(w, what)
    PROVE  Outside(w)
<1> DEFINE rest == Tail(tasks[w])
<1>1. rest \in Seq(Jobs)
  BY TaskIsAJob
<1>2. tasks' = [tasks EXCEPT ![w] = rest]
  BY DEF Answer
<1>3. pc' = [pc EXCEPT ![w] = IF rest = <<>> THEN "idle" ELSE Entry(Head(rest).how)]
  BY DEF Answer, Goto
<1>4. CASE rest = <<>>
  BY <1>1, <1>2, <1>3, <1>4 DEF Outside
<1>5. CASE rest # <<>>
  BY <1>1, <1>2, <1>3, <1>5, EntryIsOutside DEF Outside, Entries
<1> QED
  BY <1>4, <1>5

-----------------------------------------------------------------------------
(* What a step of worker w may do to the others: it takes nobody's lock,   *)
(* and changes photos, other than by deleting them, under the lock only.   *)
Leaves(w) ==
    /\ \A v \in Worker \ {w} : ingestMu = v => ingestMu' = v
    /\ ingestMu = w \/ \A i \in Photo : held'[i] \in {held[i], None}

StoreOK == count' \in 0 .. MaxPhotos /\ held' \in [Photo -> Content \cup {None}] /\ ingestMu' \in Worker \cup {NoWorker}

LEMMA StepKeeps ==
    ASSUME EngineInv, NEW w \in Worker, Leaves(w), StoreOK,
           NEW l \in Labels, pc' = [pc EXCEPT ![w] = l],
           NEW r \in Seq(Jobs), tasks' = [tasks EXCEPT ![w] = r],
           NEW f \in 0 .. MaxPhotos, found' = [found EXCEPT ![w] = f],
           Own(w)'
    PROVE  EngineInv'
<1>1. StateOK'
  BY DEF EngineInv, StateOK, StoreOK
<1>2. ASSUME NEW v \in Worker, v # w
      PROVE  Own(v)'
  <2>1. pc'[v] = pc[v] /\ tasks'[v] = tasks[v] /\ found'[v] = found[v] /\ Upload(v)' = Upload(v)
    BY <1>2 DEF EngineInv, StateOK, Upload, Task
  <2>2. Own(v) /\ pc[v] \in Labels /\ (pc[v] # "idle" => Upload(v) \in Content)
    BY TaskIsAJob DEF EngineInv, Own, Busy, StateOK
  <2>3. pc[v] \in Locked => ingestMu = v /\ ingestMu' = v /\ \A i \in Photo : held'[i] \in {held[i], None}
    BY <1>2, <2>2 DEF Leaves, Own, HoldsLock
  <2>4. Busy(v)' /\ HoldsLock(v)'
    BY <2>1, <2>2, <2>3 DEF Own, Busy, HoldsLock
  <2>5. StillNew(v)'
    BY <2>1, <2>2, <2>3, NamesAreNames DEF Own, StillNew, Holding, Locked, Compared
  <2>6. StillAlike(v)'
    BY <2>1, <2>2, <2>3 DEF Own, StillAlike, Locked, Compared
  <2> QED
    BY <2>4, <2>5, <2>6 DEF Own
<1> QED
  BY <1>1, <1>2 DEF EngineInv

(* Answers and exceptions lead out of persist_ingest.                      *)
LEMMA OutsideKeeps ==
    ASSUME EngineInv, NEW w \in Worker, Leaves(w), StoreOK, Outside(w),
           NEW f \in 0 .. MaxPhotos, found' = [found EXCEPT ![w] = f]
    PROVE  EngineInv'
<1>1. PICK l \in {"idle"} \cup Entries, r \in Seq(Jobs) :
         /\ l # "idle" => r # <<>>
         /\ pc' = [pc EXCEPT ![w] = l]
         /\ tasks' = [tasks EXCEPT ![w] = r]
  BY DEF Outside
<1>2. pc'[w] = l /\ tasks'[w] = r /\ l \in Labels /\ l \notin Locked
  BY <1>1 DEF EngineInv, StateOK, Labels, Entries, Locked, Compared
<1>3. Own(w)'
  BY <1>1, <1>2 DEF Own, Busy, HoldsLock, StillNew, StillAlike, Locked, Compared
<1> QED
  BY <1>1, <1>2, <1>3, StepKeeps

LEMMA ThrowLeaves ==
    ASSUME StateOK, NEW w \in Worker, Throw(w)
    PROVE  Outside(w)
<1>1. <<>> \in Seq(Jobs)
  OBVIOUS
<1>2. pc' = [pc EXCEPT ![w] = "idle"] /\ tasks' = [tasks EXCEPT ![w] = <<>>]
  BY DEF Throw, Goto
<1> QED
  BY <1>1, <1>2 DEF Outside

(* A worker that goes on with its task.                                    *)
LEMMA InsideKeeps ==
    ASSUME EngineInv, NEW w \in Worker, pc[w] # "idle", Leaves(w), StoreOK,
           NEW l \in Labels, pc' = [pc EXCEPT ![w] = l], tasks' = tasks,
           NEW f \in 0 .. MaxPhotos, found' = [found EXCEPT ![w] = f],
           HoldsLock(w)', StillNew(w)', StillAlike(w)'
    PROVE  EngineInv'
<1> DEFINE r == tasks[w]
<1>1. r \in Seq(Jobs) /\ r # <<>> /\ tasks' = [tasks EXCEPT ![w] = r]
  BY DEF EngineInv, Own, Busy, StateOK
<1>2. Own(w)'
  BY <1>1 DEF Own, Busy
<1> HIDE DEF r
<1> QED
  BY <1>1, <1>2, StepKeeps

(* Steps that leave photos and locks alone and do not enter persist_ingest.*)
LEMMA FreeStepKeeps ==
    ASSUME EngineInv, NEW w \in Worker, pc[w] # "idle", UNCHANGED <<storeVars, ingestMu>>,
           NEW f \in 0 .. MaxPhotos, found' = [found EXCEPT ![w] = f],
           \/ Outside(w)
           \/ \E l \in Labels \ Locked : pc' = [pc EXCEPT ![w] = l] /\ tasks' = tasks
    PROVE  EngineInv'
<1>1. Leaves(w) /\ StoreOK
  BY DEF EngineInv, StateOK, StoreOK, Leaves, storeVars
<1>2. CASE Outside(w)
  BY <1>1, <1>2, OutsideKeeps
<1>3. ASSUME NEW l \in Labels \ Locked, pc' = [pc EXCEPT ![w] = l], tasks' = tasks
      PROVE  EngineInv'
  <2>1. pc'[w] = l
    BY <1>3 DEF EngineInv, StateOK
  <2>2. HoldsLock(w)' /\ StillNew(w)' /\ StillAlike(w)'
    BY <1>3, <2>1 DEF HoldsLock, StillNew, StillAlike, Locked, Compared
  <2> QED
    BY <1>1, <1>3, <2>2, InsideKeeps
<1> QED
  BY <1>2, <1>3

(* The value found keeps or gets.                                          *)
LEMMA FoundKept ==
    ASSUME EngineInv, NEW w \in Worker, UNCHANGED found
    PROVE  found[w] \in 0 .. MaxPhotos /\ found' = [found EXCEPT ![w] = found[w]]
BY DEF EngineInv, StateOK

LEMMA Indices == 0 \in 0 .. MaxPhotos /\ Photo \subseteq 0 .. MaxPhotos
BY EngineBounds DEF Photo

-----------------------------------------------------------------------------
(* Steps without the lock *)

LEMMA ReceiveKeeps ==
    ASSUME EngineInv, NEW w \in Worker, Receive(w)
    PROVE  EngineInv'
<1>1. PICK r \in Requests : tasks' = [tasks EXCEPT ![w] = r] /\ pc' = [pc EXCEPT ![w] = Entry(Head(r).how)]
  BY DEF Receive, Goto
<1>2. r \in Seq(Jobs) /\ r # <<>>
  BY RequestsAreTasks
<1>3. Entry(Head(r).how) \in Entries
  BY <1>2, EntryIsOutside
<1>4. Outside(w)
  BY <1>1, <1>2, <1>3 DEF Outside, Entries
<1>5. UNCHANGED <<storeVars, ingestMu>> /\ found' = [found EXCEPT ![w] = 0]
  BY DEF Receive
<1>6. Leaves(w) /\ StoreOK
  BY <1>5 DEF EngineInv, StateOK, StoreOK, Leaves, storeVars
<1> QED
  BY <1>4, <1>5, <1>6, Indices, OutsideKeeps

LEMMA AtWork ==
    ASSUME EngineInv, NEW w \in Worker, pc[w] # "idle"
    PROVE  StateOK /\ tasks[w] # <<>> /\ Upload(w) \in Content
BY TaskIsAJob DEF EngineInv, Own, Busy

LEMMA FreeStepsKeep ==
    ASSUME EngineInv, NEW w \in Worker,
           \/ LookUp(w) \/ AcquirePermit(w) \/ Infer(w)
           \/ Check(w) \/ CheckAlike(w) \/ CheckImage(w) \/ Find(w)
    PROVE  EngineInv'
<1> DEFINE Free(l) == pc' = [pc EXCEPT ![w] = l] /\ tasks' = tasks
<1>1. pc[w] # "idle"
  BY DEF LookUp, AcquirePermit, Infer, Check, CheckAlike, CheckImage, Find
<1>2. UNCHANGED <<storeVars, ingestMu>>
  BY DEF LookUp, AcquirePermit, Infer, Check, CheckAlike, CheckImage, Find
<1>3. \/ \E what : Answer(w, what)
      \/ Throw(w)
      \/ \E l \in {"permit", "infer", "enter", "check_alike", "check_image", "remove"} : Free(l)
  BY DEF LookUp, AcquirePermit, Infer, Check, CheckAlike, CheckImage, Find, Goto
<1>4. Outside(w) \/ \E l \in Labels \ Locked : Free(l)
  <2>1. {"permit", "infer", "enter", "check_alike", "check_image", "remove"} \subseteq Labels \ Locked
    BY DEF Labels, Entries, Locked, Compared
  <2> QED
    BY <1>1, <1>3, <2>1, AtWork, AnswerLeaves, ThrowLeaves
<1>5. \E f \in 0 .. MaxPhotos : found' = [found EXCEPT ![w] = f]
  <2>1. UNCHANGED found \/ \E i \in Photo : found' = [found EXCEPT ![w] = i]
    BY DEF LookUp, AcquirePermit, Infer, Check, CheckAlike, CheckImage, Find, Holding, AlikePhotos
  <2> QED
    BY <2>1, FoundKept, Indices
<1> QED
  BY <1>1, <1>2, <1>4, <1>5, FreeStepKeeps

(* delete_image empties a number, whoever looked it up.                    *)
LEMMA RemoveKeeps ==
    ASSUME EngineInv, NEW w \in Worker, RemoveFound(w)
    PROVE  EngineInv'
<1>1. held' = [held EXCEPT ![found[w]] = None] /\ UNCHANGED <<count, ingestMu, found>>
  BY DEF RemoveFound
<1>2. Leaves(w) /\ StoreOK
  BY <1>1 DEF EngineInv, StateOK, StoreOK, Leaves
<1>3. Outside(w)
  <2>1. <<>> \in Seq(Jobs)
    OBVIOUS
  <2>2. pc' = [pc EXCEPT ![w] = "idle"] /\ tasks' = [tasks EXCEPT ![w] = <<>>]
    BY DEF RemoveFound, Goto
  <2> QED
    BY <2>1, <2>2 DEF Outside
<1> QED
  BY <1>1, <1>2, <1>3, FoundKept, OutsideKeeps

-----------------------------------------------------------------------------
(* Steps of persist_ingest *)

(* An answer or an exception gives the lock back, and the photos may have  *)
(* changed under it.                                                       *)
LEMMA LeaveLockKeeps ==
    ASSUME EngineInv, NEW w \in Worker, ingestMu = w, Unlock(w),
           count' \in 0 .. MaxPhotos, held' \in [Photo -> Content \cup {None}], Outside(w),
           NEW f \in 0 .. MaxPhotos, found' = [found EXCEPT ![w] = f]
    PROVE  EngineInv'
<1>1. Leaves(w) /\ StoreOK
  BY DEF Unlock, Leaves, StoreOK
<1> QED
  BY <1>1, OutsideKeeps

(* The other steps keep photos and lock.                                   *)
LEMMA UnderLockKeeps ==
    ASSUME EngineInv, NEW w \in Worker, pc[w] \in Locked, UNCHANGED storeVars,
           NEW l \in Compared, Proceed(w, l), Holding(Upload(w)) = {},
           NEW f \in 0 .. MaxPhotos, found' = [found EXCEPT ![w] = f],
           l \in {"confirm", "decide", "upgrade"} =>
               /\ f \in Photo
               /\ held[f] # None => /\ Resembles(Upload(w), held[f])
                                    /\ l = "upgrade" => Pixels[Upload(w)] > Pixels[held[f]]
    PROVE  EngineInv'
<1>1. pc' = [pc EXCEPT ![w] = l] /\ tasks' = tasks /\ ingestMu' = ingestMu /\ held' = held /\ count' = count
  BY DEF Proceed, Goto, storeVars
<1>2. ingestMu = w /\ pc[w] # "idle" /\ l \in Labels
  BY DEF EngineInv, Own, HoldsLock, Locked, Compared, Labels
<1>3. Leaves(w) /\ StoreOK
  BY <1>1 DEF EngineInv, StateOK, Leaves, StoreOK
<1>4. pc'[w] = l /\ found'[w] = f /\ Upload(w)' = Upload(w)
  BY <1>1 DEF EngineInv, StateOK, Upload, Task
<1>5. HoldsLock(w)' /\ StillNew(w)'
  BY <1>1, <1>2, <1>4 DEF HoldsLock, StillNew, Holding
<1>6. StillAlike(w)'
  BY <1>1, <1>4 DEF StillAlike
<1> QED
  BY <1>1, <1>2, <1>3, <1>5, <1>6, InsideKeeps

LEMMA EnterKeeps ==
    ASSUME EngineInv, NEW w \in Worker, Enter(w)
    PROVE  EngineInv'
<1>1. /\ pc' = [pc EXCEPT ![w] = "recheck"] /\ pc[w] # "idle" /\ ingestMu = NoWorker /\ ingestMu' = w
      /\ UNCHANGED <<count, held, tasks, found>>
  BY DEF Enter, Goto, storeVars
<1>2. Leaves(w) /\ StoreOK
  BY <1>1, NamesAreNames DEF EngineInv, StateOK, Leaves, StoreOK
<1>3. pc'[w] = "recheck" /\ "recheck" \in Labels
  BY <1>1 DEF EngineInv, StateOK, Labels, Locked
<1>4. HoldsLock(w)' /\ StillNew(w)' /\ StillAlike(w)'
  BY <1>1, <1>3 DEF HoldsLock, StillNew, StillAlike, Compared
<1> QED
  BY <1>1, <1>2, <1>3, <1>4, FoundKept, InsideKeeps

LEMMA RecheckKeeps ==
    ASSUME EngineInv, NEW w \in Worker, Recheck(w)
    PROVE  EngineInv'
<1>1. pc[w] \in Locked /\ pc[w] # "idle" /\ ingestMu = w /\ UNCHANGED storeVars
  BY DEF Recheck, Locked, EngineInv, Own, HoldsLock
<1>2. count' \in 0 .. MaxPhotos /\ held' \in [Photo -> Content \cup {None}]
  BY <1>1 DEF EngineInv, StateOK, storeVars
<1>3. CASE Holding(Upload(w)) # {}
  <2>1. PICK i \in Photo : found' = [found EXCEPT ![w] = i] /\ Answer(w, "duplicate") /\ Unlock(w)
    BY <1>3 DEF Recheck, AnswerUnlocking, Holding
  <2> QED
    BY <1>1, <1>2, <2>1, AtWork, AnswerLeaves, LeaveLockKeeps, Indices
<1>4. CASE Holding(Upload(w)) = {}
  <2>1. found' = [found EXCEPT ![w] = 0] /\ Proceed(w, "compare")
    BY <1>4 DEF Recheck
  <2> QED
    BY <1>1, <1>4, <2>1, Indices, UnderLockKeeps DEF Compared
<1> QED
  BY <1>3, <1>4

LEMMA CompareKeeps ==
    ASSUME EngineInv, NEW w \in Worker, Compare(w)
    PROVE  EngineInv'
<1>1. pc[w] \in Locked /\ Holding(Upload(w)) = {} /\ UNCHANGED storeVars
  BY DEF Compare, Locked, Compared, EngineInv, Own, StillNew
<1>2. ASSUME NEW i \in AlikePhotos(Upload(w), HardAlike) \cup AlikePhotos(Upload(w), SoftAlike),
             NEW l \in {"confirm", "decide"}, Proceed(w, l), found' = [found EXCEPT ![w] = i]
      PROVE  EngineInv'
  <2>1. i \in Photo /\ Resembles(Upload(w), held[i])
    BY DEF AlikePhotos, Resembles
  <2> QED
    BY <1>1, <1>2, <2>1, Indices, UnderLockKeeps DEF Compared
<1>3. CASE UNCHANGED found /\ Proceed(w, "store")
  BY <1>1, <1>3, FoundKept, UnderLockKeeps DEF Compared
<1> QED
  BY <1>2, <1>3 DEF Compare

LEMMA ConfirmKeeps ==
    ASSUME EngineInv, NEW w \in Worker, Confirm(w)
    PROVE  EngineInv'
<1>1. pc[w] \in Locked /\ Holding(Upload(w)) = {} /\ UNCHANGED storeVars /\ UNCHANGED found
  BY DEF Confirm, Locked, Compared, EngineInv, Own, StillNew
<1>2. found[w] \in Photo /\ (held[found[w]] # None => Resembles(Upload(w), held[found[w]]))
  BY DEF Confirm, EngineInv, Own, StillAlike
<1>3. \E l \in {"decide", "store"} : Proceed(w, l)
  BY DEF Confirm
<1> QED
  BY <1>1, <1>2, <1>3, FoundKept, UnderLockKeeps DEF Compared

LEMMA DecideKeeps ==
    ASSUME EngineInv, NEW w \in Worker, Decide(w)
    PROVE  EngineInv'
<1>1. /\ pc[w] \in Locked /\ pc[w] # "idle" /\ ingestMu = w /\ Holding(Upload(w)) = {}
      /\ UNCHANGED storeVars /\ UNCHANGED found
  BY DEF Decide, Locked, Compared, EngineInv, Own, HoldsLock, StillNew
<1>2. found[w] \in Photo /\ (held[found[w]] # None => Resembles(Upload(w), held[found[w]]))
  BY DEF Decide, EngineInv, Own, StillAlike
<1>3. count' \in 0 .. MaxPhotos /\ held' \in [Photo -> Content \cup {None}]
  BY <1>1 DEF EngineInv, StateOK, storeVars
<1>4. CASE Throw(w) /\ Unlock(w)
  BY <1>1, <1>3, <1>4, AtWork, ThrowLeaves, FoundKept, LeaveLockKeeps
<1>5. CASE Proceed(w, "fill")
  BY <1>1, <1>5, FoundKept, UnderLockKeeps DEF Compared
<1>6. CASE Pixels[Upload(w)] > Pixels[held[found[w]]] /\ Proceed(w, "upgrade")
  BY <1>1, <1>2, <1>6, FoundKept, UnderLockKeeps DEF Compared
<1> QED
  BY <1>4, <1>5, <1>6 DEF Decide, ThrowUnlocking

LEMMA FillKeeps ==
    ASSUME EngineInv, NEW w \in Worker, Fill(w)
    PROVE  EngineInv'
<1>1. pc[w] # "idle" /\ ingestMu = w /\ UNCHANGED storeVars /\ UNCHANGED found
  BY DEF Fill, Locked, Compared, EngineInv, Own, HoldsLock
<1>2. count' \in 0 .. MaxPhotos /\ held' \in [Photo -> Content \cup {None}]
  BY <1>1 DEF EngineInv, StateOK, storeVars
<1>3. (Throw(w) \/ Answer(w, "duplicate")) /\ Unlock(w)
  BY DEF Fill, ThrowUnlocking, AnswerUnlocking
<1> QED
  BY <1>1, <1>2, <1>3, AtWork, ThrowLeaves, AnswerLeaves, FoundKept, LeaveLockKeeps

LEMMA UpgradeKeeps ==
    ASSUME EngineInv, NEW w \in Worker, Upgrade(w)
    PROVE  EngineInv'
<1>1. pc[w] # "idle" /\ ingestMu = w /\ UNCHANGED found /\ count' = count
  BY DEF Upgrade, storeVars, Locked, Compared, EngineInv, Own, HoldsLock
<1>2. count' \in 0 .. MaxPhotos /\ held' \in [Photo -> Content \cup {None}]
  BY <1>1, AtWork DEF Upgrade, EngineInv, StateOK, storeVars
<1>3. (Throw(w) \/ Answer(w, "upgraded")) /\ Unlock(w)
  BY DEF Upgrade, ThrowUnlocking, AnswerUnlocking
<1> QED
  BY <1>1, <1>2, <1>3, AtWork, ThrowLeaves, AnswerLeaves, FoundKept, LeaveLockKeeps

LEMMA StoreKeeps ==
    ASSUME EngineInv, NEW w \in Worker, Store(w)
    PROVE  EngineInv'
<1>1. pc[w] # "idle" /\ ingestMu = w
  BY DEF Store, Locked, Compared, EngineInv, Own, HoldsLock
<1>2. CASE UNCHANGED <<storeVars, found>> /\ Answer(w, "no_face") /\ Unlock(w)
  <2>1. count' \in 0 .. MaxPhotos /\ held' \in [Photo -> Content \cup {None}]
    BY <1>2 DEF EngineInv, StateOK, storeVars
  <2> QED
    BY <1>1, <1>2, <2>1, AtWork, AnswerLeaves, FoundKept, LeaveLockKeeps
<1>3. CASE /\ count < MaxPhotos /\ count' = count + 1
           /\ held' = [held EXCEPT ![count + 1] = Upload(w)]
           /\ found' = [found EXCEPT ![w] = count + 1]
           /\ Answer(w, "stored") /\ Unlock(w)
  <2>1. count + 1 \in 0 .. MaxPhotos
    BY <1>3, EngineBounds DEF EngineInv, StateOK
  <2>2. count' \in 0 .. MaxPhotos /\ held' \in [Photo -> Content \cup {None}]
    BY <1>1, <1>3, <2>1, AtWork DEF EngineInv, StateOK
  <2> QED
    BY <1>1, <1>3, <2>1, <2>2, AtWork, AnswerLeaves, LeaveLockKeeps
<1> QED
  BY <1>2, <1>3 DEF Store, AnswerUnlocking

(* Every step keeps what the workers know.                                 *)
LEMMA NextKeeps ==
    ASSUME EngineInv, [Next]_vars
    PROVE  EngineInv'
<1>1. ASSUME NEW w \in Worker, Receive(w) \/ Step(w)
      PROVE  EngineInv'
  BY <1>1, ReceiveKeeps, FreeStepsKeep, RemoveKeeps, EnterKeeps, RecheckKeeps, CompareKeeps, ConfirmKeeps,
     DecideKeeps, FillKeeps, UpgradeKeeps, StoreKeeps DEF Step
<1>2. CASE UNCHANGED vars
  <2>1. UNCHANGED <<count, held, ingestMu, pc, tasks, found>>
    BY <1>2 DEF vars, storeVars
  <2> QED
    BY <2>1 DEF EngineInv, StateOK, Own, Busy, HoldsLock, StillNew, StillAlike, Holding, Upload, Task
<1> QED
  BY <1>1, <1>2 DEF Next

-----------------------------------------------------------------------------
(* Refinement *)

(* The second look-up still holds when insert runs.                        *)
LEMMA StoreIsAdd ==
    ASSUME EngineInv, NEW w \in Worker, Store(w)
    PROVE  [PhotoStoreSpec!Next]_(PhotoStoreSpec!store)
<1>1. CASE UNCHANGED storeVars
  BY <1>1 DEF storeVars, PhotoStoreSpec!store
<1>2. CASE count < MaxPhotos /\ count' = count + 1 /\ held' = [held EXCEPT ![count + 1] = Upload(w)]
  <2>1. pc[w] = "store" /\ Upload(w) \in Content /\ Holding(Upload(w)) = {}
    BY AtWork DEF Store, EngineInv, Own, StillNew, Compared
  <2>2. ~ PhotoStoreSpec!Stored(Upload(w))
    BY <2>1 DEF PhotoStoreSpec!Stored, PhotoStoreSpec!Number, Holding, Photo
  <2> QED
    BY <1>2, <2>1, <2>2 DEF PhotoStoreSpec!Next, PhotoStoreSpec!Add
<1> QED
  BY <1>1, <1>2 DEF Store

(* The photo to be upgraded is gone, or still a smaller copy.              *)
LEMMA UpgradeIsReplace ==
    ASSUME EngineInv, NEW w \in Worker, Upgrade(w)
    PROVE  [PhotoStoreSpec!Next]_(PhotoStoreSpec!store)
<1>1. CASE UNCHANGED storeVars
  BY <1>1 DEF storeVars, PhotoStoreSpec!store
<1>2. CASE held[found[w]] # None /\ held' = [held EXCEPT ![found[w]] = Upload(w)] /\ UNCHANGED count
  <2> DEFINE i == found[w]
             c == Upload(w)
  <2>1. pc[w] = "upgrade" /\ c \in Content /\ Holding(c) = {}
    BY AtWork DEF Upgrade, EngineInv, Own, StillNew, Compared
  <2>2. i \in Photo /\ Resembles(c, held[i]) /\ Pixels[c] > Pixels[held[i]]
    BY <1>2, <2>1 DEF EngineInv, Own, StillAlike
  <2>3. held[i] \in Content
    BY <1>2, <2>2 DEF EngineInv, StateOK
  <2>4. ~ PhotoStoreSpec!Stored(c)
    BY <2>1 DEF PhotoStoreSpec!Stored, PhotoStoreSpec!Number, Holding, Photo
  <2>5. PhotoStoreSpec!Replace(i, c)
    BY <1>2, <2>1, <2>2, <2>3, <2>4 DEF PhotoStoreSpec!Replace
  <2> QED
    BY <2>1, <2>2, <2>5 DEF PhotoStoreSpec!Next, PhotoStoreSpec!Number, Photo
<1> QED
  BY <1>1, <1>2 DEF Upgrade

LEMMA RemoveIsDelete ==
    ASSUME EngineInv, NEW w \in Worker, RemoveFound(w)
    PROVE  [PhotoStoreSpec!Next]_(PhotoStoreSpec!store)
<1>1. held' = [held EXCEPT ![found[w]] = None] /\ UNCHANGED count
  BY DEF RemoveFound
<1>2. CASE found[w] \in Photo /\ held[found[w]] # None
  BY <1>1, <1>2 DEF PhotoStoreSpec!Next, PhotoStoreSpec!Delete, PhotoStoreSpec!Number, Photo
<1>3. CASE ~ (found[w] \in Photo /\ held[found[w]] # None)
  <2>1. held' = held
    BY <1>1, <1>3 DEF EngineInv, StateOK
  <2> QED
    BY <1>1, <2>1 DEF PhotoStoreSpec!store
<1> QED
  BY <1>2, <1>3

LEMMA NextIsAStoreStep ==
    ASSUME EngineInv, [Next]_vars
    PROVE  [PhotoStoreSpec!Next]_(PhotoStoreSpec!store)
<1>1. ASSUME NEW w \in Worker, Receive(w) \/ Step(w)
      PROVE  [PhotoStoreSpec!Next]_(PhotoStoreSpec!store)
  <2>1. UNCHANGED storeVars \/ Store(w) \/ Upgrade(w) \/ RemoveFound(w)
    BY <1>1 DEF Step, Receive, LookUp, AcquirePermit, Infer, Enter, Recheck, Compare, Confirm, Decide, Fill,
       Check, CheckAlike, CheckImage, Find
  <2>2. CASE UNCHANGED storeVars
    BY <2>2 DEF storeVars, PhotoStoreSpec!store
  <2> QED
    BY <2>1, <2>2, StoreIsAdd, UpgradeIsReplace, RemoveIsDelete
<1>2. CASE UNCHANGED vars
  BY <1>2 DEF vars, storeVars, PhotoStoreSpec!store
<1> QED
  BY <1>1, <1>2 DEF Next

(* However many workers upload, check, look and delete, the engine is the  *)
(* abstract photo store: equal bytes are stored once, although the first   *)
(* look-up takes no lock, and a photo is replaced only by a larger copy    *)
(* that resembles it, although deletions run beside all of it.             *)
THEOREM EngineIsAPhotoStore == Spec => ImplementsPhotoStore
<1>1. Init => EngineInv
  BY EngineBounds, NamesAreNames DEF Init, EngineInv, StateOK, Own, Busy, HoldsLock, StillNew, StillAlike,
     Labels, Entries, Locked, Compared
<1>2. EngineInv /\ [Next]_vars => EngineInv'
  BY NextKeeps
<1>3. Init => PhotoStoreSpec!Init
  BY DEF Init, PhotoStoreSpec!Init, PhotoStoreSpec!Number, Photo
<1>4. EngineInv /\ [Next]_vars => [PhotoStoreSpec!Next]_(PhotoStoreSpec!store)
  BY NextIsAStoreStep
<1> QED
  BY <1>1, <1>2, <1>3, <1>4, PTL DEF Spec, ImplementsPhotoStore, PhotoStoreSpec!Spec

-----------------------------------------------------------------------------
(* Answers.  EngineInv does not say what an answer may rely on: the photo  *)
(* found may be gone, but then the worker has been disturbed; and a worker *)
(* about to answer "duplicate" has found a copy that is large enough.      *)

Relying == {"confirm", "decide", "fill", "upgrade"}

LargeEnough(c, d) == c \in Faceless \/ Pixels[d] >= Pixels[c]

Relies(w) ==
    pc[w] \in Relying =>
        /\ found[w] \in Photo
        /\ held[found[w]] = None => disturbed[w]
        /\ held[found[w]] # None =>
              /\ Resembles(Upload(w), held[found[w]])
              /\ pc[w] = "fill" => LargeEnough(Upload(w), held[found[w]])

AnswerInv ==
    /\ disturbed \in [Worker -> BOOLEAN]
    /\ answer = [w \in Worker |-> answer[w]]
    /\ \A w \in Worker : Relies(w)

(* What a step of w leaves to the others.                                  *)
Untouched(w) ==
    \A v \in Worker \ {w} : pc'[v] = pc[v] /\ tasks'[v] = tasks[v] /\ found'[v] = found[v]

(* The ways a step changes its own worker.                                 *)
LEMMA OwnEntriesOnly ==
    ASSUME EngineInv, NEW w \in Worker,
           \E l : pc' = [pc EXCEPT ![w] = l],
           UNCHANGED tasks \/ \E r : tasks' = [tasks EXCEPT ![w] = r],
           UNCHANGED found \/ \E f : found' = [found EXCEPT ![w] = f]
    PROVE  Untouched(w)
BY DEF EngineInv, StateOK, Untouched

LEMMA StepIsOwn ==
    ASSUME EngineInv, NEW w \in Worker, Receive(w) \/ Step(w)
    PROVE  Untouched(w)
<1>1. \E l : pc' = [pc EXCEPT ![w] = l]
  BY DEF Step, Receive, LookUp, AcquirePermit, Infer, Enter, Recheck, Compare, Confirm, Decide, Fill, Upgrade,
     Store, Check, CheckAlike, CheckImage, Find, RemoveFound, Goto, Answer, Throw, ThrowUnlocking,
     AnswerUnlocking, Proceed
<1>2. UNCHANGED tasks \/ \E r : tasks' = [tasks EXCEPT ![w] = r]
  BY DEF Step, Receive, LookUp, AcquirePermit, Infer, Enter, Recheck, Compare, Confirm, Decide, Fill, Upgrade,
     Store, Check, CheckAlike, CheckImage, Find, RemoveFound, Goto, Answer, Throw, ThrowUnlocking,
     AnswerUnlocking, Proceed
<1>3. UNCHANGED found \/ \E f : found' = [found EXCEPT ![w] = f]
  BY DEF Step, Receive, LookUp, AcquirePermit, Infer, Enter, Recheck, Compare, Confirm, Decide, Fill, Upgrade,
     Store, Check, CheckAlike, CheckImage, Find, RemoveFound, Goto, Answer, Throw, ThrowUnlocking,
     AnswerUnlocking, Proceed
<1> QED
  BY <1>1, <1>2, <1>3, OwnEntriesOnly

(* Who else is disturbed: nobody, but by a deletion.                       *)
LEMMA OnlyDeletionsDisturb ==
    ASSUME AnswerInv, NEW w \in Worker, Receive(w) \/ Step(w)
    PROVE  /\ disturbed' \in [Worker -> BOOLEAN] /\ answer' = [v \in Worker |-> answer'[v]]
           /\ RemoveFound(w) \/ \A v \in Worker \ {w} : disturbed'[v] = disturbed[v]
<1>1. CASE RemoveFound(w)
  BY <1>1 DEF AnswerInv, RemoveFound
<1>2. CASE ~ RemoveFound(w)
  <2>1. UNCHANGED disturbed \/ disturbed' = [disturbed EXCEPT ![w] = FALSE]
    BY <1>2 DEF Step, Receive, LookUp, AcquirePermit, Infer, Enter, Recheck, Compare, Confirm, Decide, Fill,
       Upgrade, Store, Check, CheckAlike, CheckImage, Find, Answer, Throw, ThrowUnlocking, AnswerUnlocking, Proceed
  <2>2. UNCHANGED answer \/ \E a : answer' = [answer EXCEPT ![w] = a]
    BY <1>2 DEF Step, Receive, LookUp, AcquirePermit, Infer, Enter, Recheck, Compare, Confirm, Decide, Fill,
       Upgrade, Store, Check, CheckAlike, CheckImage, Find, Answer, Throw, ThrowUnlocking, AnswerUnlocking, Proceed
  <2>3. answer' = [v \in Worker |-> answer'[v]]
    BY <2>2 DEF AnswerInv
  <2>4. disturbed' \in [Worker -> BOOLEAN] /\ \A v \in Worker \ {w} : disturbed'[v] = disturbed[v]
    BY <2>1 DEF AnswerInv
  <2> QED
    BY <2>3, <2>4
<1> QED
  BY <1>1, <1>2

(* The photos change under the lock or by a deletion.                      *)
LEMMA PhotosChangeLocked ==
    ASSUME EngineInv, NEW w \in Worker, Receive(w) \/ Step(w)
    PROVE  UNCHANGED held \/ ingestMu = w \/ RemoveFound(w)
BY DEF EngineInv, Own, HoldsLock, Locked, Compared, Step, Receive, LookUp, AcquirePermit, Infer, Enter, Recheck,
   Compare, Confirm, Decide, Fill, Upgrade, Store, Check, CheckAlike, CheckImage, Find, storeVars

LEMMA OthersRely ==
    ASSUME EngineInv, AnswerInv, NEW w \in Worker, Receive(w) \/ Step(w),
           NEW v \in Worker, v # w
    PROVE  Relies(v)'
<1>1. /\ pc'[v] = pc[v] /\ tasks'[v] = tasks[v] /\ found'[v] = found[v] /\ Upload(v)' = Upload(v)
      /\ Relies(v)
  BY StepIsOwn DEF Untouched, Upload, Task, AnswerInv
<1>2. CASE UNCHANGED held /\ ~ RemoveFound(w)
  BY <1>1, <1>2, OnlyDeletionsDisturb DEF Relies
<1>3. CASE ingestMu = w
  BY <1>1, <1>3 DEF Relies, EngineInv, Own, HoldsLock, Locked, Compared, Relying
<1>4. CASE RemoveFound(w)
  <2> SUFFICES ASSUME pc[v] \in Relying
               PROVE  Relies(v)'
    BY <1>1 DEF Relies
  <2> DEFINE i == found[w]
             j == found[v]
  <2>1. /\ held' = [held EXCEPT ![i] = None]
        /\ disturbed'[v] <=> disturbed[v] \/ held[i] # None
    BY <1>4 DEF RemoveFound
  <2>2. j \in Photo /\ (held[j] = None => disturbed[v])
    BY <1>1 DEF Relies
  <2>3. CASE i = j
    <3>1. held'[j] = None /\ disturbed'[v]
      BY <2>1, <2>2, <2>3 DEF EngineInv, StateOK
    <3> QED
      BY <1>1, <2>2, <3>1 DEF Relies
  <2>4. CASE i # j
    <3>1. held'[j] = held[j] /\ (disturbed[v] => disturbed'[v])
      BY <2>1, <2>2, <2>4 DEF EngineInv, StateOK
    <3> QED
      BY <1>1, <2>2, <3>1 DEF Relies
  <2> QED
    BY <2>3, <2>4
<1> QED
  BY <1>2, <1>3, <1>4, PhotosChangeLocked

(* An answer or an exception leads where nothing is relied on.             *)
LEMMA OutsideReliesOnNothing ==
    ASSUME EngineInv, NEW w \in Worker, Outside(w)
    PROVE  Relies(w)'
<1>1. pc'[w] \in {"idle"} \cup Entries
  BY DEF Outside, EngineInv, StateOK
<1> QED
  BY <1>1 DEF Entries, Relies, Relying

LEMMA FreeReliesOnNothing ==
    ASSUME EngineInv, NEW w \in Worker, NEW l, l \notin Relying, Goto(w, l)
    PROVE  Relies(w)'
BY DEF EngineInv, StateOK, Goto, Relies

LEMMA WorkerRelies ==
    ASSUME EngineInv, AnswerInv, NEW w \in Worker, Receive(w) \/ Step(w)
    PROVE  Relies(w)'
<1> USE DEF Relying
<1>1. CASE Receive(w)
  <2>1. PICK r \in Requests : Goto(w, Entry(Head(r).how))
    BY <1>1 DEF Receive
  <2>2. Entry(Head(r).how) \notin Relying
    BY RequestsAreTasks, EntryIsOutside DEF Entries
  <2> QED
    BY <2>1, <2>2, FreeReliesOnNothing
<1>2. CASE \E what : Answer(w, what)
  <2>1. CASE pc[w] # "idle"
    BY <1>2, <2>1, AtWork, AnswerLeaves, OutsideReliesOnNothing
  <2>2. CASE pc[w] = "idle"
    BY <1>1, <2>2 DEF Step, LookUp, AcquirePermit, Infer, Enter, Recheck, Compare, Confirm, Decide, Fill,
       Upgrade, Store, Check, CheckAlike, CheckImage, Find, RemoveFound
  <2> QED
    BY <2>1, <2>2
<1>3. CASE Throw(w)
  BY <1>3, ThrowLeaves, OutsideReliesOnNothing DEF EngineInv
<1>4. CASE \E l \in Labels \ Relying : Goto(w, l)
  BY <1>4, FreeReliesOnNothing
<1>5. CASE Compare(w)
  <2>1. ASSUME NEW i \in AlikePhotos(Upload(w), HardAlike) \cup AlikePhotos(Upload(w), SoftAlike),
               NEW l \in {"confirm", "decide"}, Proceed(w, l), found' = [found EXCEPT ![w] = i]
        PROVE  Relies(w)'
    <3>1. i \in Photo /\ held[i] # None /\ Resembles(Upload(w), held[i])
      BY DEF AlikePhotos, Resembles
    <3>2. /\ pc'[w] = l /\ found'[w] = i /\ held' = held /\ Upload(w)' = Upload(w)
      BY <1>5, <2>1 DEF Compare, Proceed, Goto, storeVars, EngineInv, StateOK, Upload, Task
    <3> QED
      BY <3>1, <3>2 DEF Relies
  <2>2. CASE Proceed(w, "store")
    BY <2>2, FreeReliesOnNothing DEF Proceed
  <2> QED
    BY <1>5, <2>1, <2>2 DEF Compare
<1>6. CASE Confirm(w) \/ Decide(w)
  <2>1. pc[w] \in {"confirm", "decide"} /\ UNCHANGED <<held, found>>
    BY <1>6 DEF Confirm, Decide, storeVars
  <2>2. ASSUME NEW l \in {"decide", "upgrade", "fill"}, Proceed(w, l),
               l = "fill" /\ held[found[w]] # None => LargeEnough(Upload(w), held[found[w]])
        PROVE  Relies(w)'
    <3>1. pc'[w] = l /\ Upload(w)' = Upload(w) /\ disturbed' = disturbed
      BY <2>2 DEF Proceed, Goto, EngineInv, StateOK, Upload, Task
    <3> QED
      BY <2>1, <2>2, <3>1 DEF AnswerInv, Relies
  <2>3. CASE Decide(w) /\ Proceed(w, "fill") /\ held[found[w]] # None
    <3>1. ~ (Upload(w) \notin Faceless /\ Pixels[Upload(w)] > Pixels[held[found[w]]])
      BY <2>3 DEF Decide, Proceed, Goto, EngineInv, StateOK
    <3>2. Upload(w) \in Content /\ held[found[w]] \in Content
      BY <2>1, <2>3, AtWork DEF AnswerInv, Relies, EngineInv, StateOK
    <3>3. LargeEnough(Upload(w), held[found[w]])
      BY <3>1, <3>2, EngineBounds DEF LargeEnough
    <3> QED
      BY <2>2, <2>3, <3>3
  <2>4. CASE Proceed(w, "store")
    BY <2>4, FreeReliesOnNothing DEF Proceed
  <2> QED
    BY <1>3, <1>6, <2>2, <2>3, <2>4 DEF Confirm, Decide, ThrowUnlocking
<1>7. \/ Receive(w) \/ (\E what : Answer(w, what)) \/ Throw(w)
      \/ (\E l \in Labels \ Relying : Goto(w, l))
      \/ Compare(w) \/ Confirm(w) \/ Decide(w)
  <2>1. {"permit", "infer", "enter", "recheck", "compare", "check_alike", "check_image", "remove", "idle"}
           \subseteq Labels \ Relying
    BY DEF Labels, Entries, Locked, Compared
  <2> QED
    BY <2>1 DEF Step, LookUp, AcquirePermit, Infer, Enter, Recheck, Fill, Upgrade, Store, Check, CheckAlike,
       CheckImage, Find, RemoveFound, AnswerUnlocking, ThrowUnlocking, Proceed
<1> QED
  BY <1>1, <1>2, <1>3, <1>4, <1>5, <1>6, <1>7

LEMMA AnswerInvKept ==
    ASSUME EngineInv, AnswerInv, [Next]_vars
    PROVE  AnswerInv'
<1>1. ASSUME NEW w \in Worker, Receive(w) \/ Step(w)
      PROVE  AnswerInv'
  <2>1. \A v \in Worker : Relies(v)'
    BY <1>1, OthersRely, WorkerRelies
  <2> QED
    BY <1>1, <2>1, OnlyDeletionsDisturb DEF AnswerInv
<1>2. CASE UNCHANGED vars
  BY <1>2 DEF vars, storeVars, AnswerInv, Relies, Upload, Task
<1> QED
  BY <1>1, <1>2 DEF Next

(* The answer a worker gives in a step of its own.                         *)
LEMMA AnswerHoldsNow ==
    ASSUME EngineInv, AnswerInv, NEW w \in Worker, Receive(w) \/ Step(w),
           pc[w] \in {"recheck", "decide", "fill", "upgrade", "store"}, ~ disturbed[w],
           tasks'[w] # tasks[w]
    PROVE  LET i == found'[w]
           IN  /\ answer'[w] = "error" => pc[w] = "upgrade" /\ held'[i] = Upload(w)
               /\ answer'[w] \in {"duplicate", "upgraded", "stored"} =>
                     /\ held'[i] # None
                     /\ \/ held'[i] = Upload(w)
                        \/ Resembles(Upload(w), held'[i])
                           /\ (Upload(w) \in Faceless \/ Pixels[held'[i]] >= Pixels[Upload(w)])
<1> USE DEF Relying
<1>0. /\ Upload(w) \in Content /\ Upload(w) # None /\ Relies(w)
      /\ \A what : Answer(w, what) => answer'[w] = what
      /\ \A l : Proceed(w, l) => tasks' = tasks
  BY AtWork, NamesAreNames DEF AnswerInv, Answer, Proceed
<1>1. CASE pc[w] = "recheck"
  <2>1. Recheck(w)
    BY <1>1 DEF Step, Receive, LookUp, AcquirePermit, Infer, Enter, Compare, Confirm, Decide, Fill, Upgrade,
       Store, Check, CheckAlike, CheckImage, Find, RemoveFound
  <2>2. PICK i \in Holding(Upload(w)) : found' = [found EXCEPT ![w] = i] /\ Answer(w, "duplicate")
    BY <1>0, <2>1 DEF Recheck, AnswerUnlocking
  <2>3. found'[w] = i /\ held'[i] = Upload(w) /\ answer'[w] = "duplicate"
    BY <1>0, <2>1, <2>2 DEF Recheck, storeVars, Holding, EngineInv, StateOK
  <2> QED
    BY <1>0, <2>3
<1>2. CASE pc[w] = "decide"
  <2>1. Decide(w)
    BY <1>2 DEF Step, Receive, LookUp, AcquirePermit, Infer, Enter, Recheck, Compare, Confirm, Fill, Upgrade,
       Store, Check, CheckAlike, CheckImage, Find, RemoveFound
  <2> QED
    BY <1>0, <1>2, <2>1 DEF Decide, Relies
<1>3. CASE pc[w] = "fill"
  <2>1. Fill(w)
    BY <1>3 DEF Step, Receive, LookUp, AcquirePermit, Infer, Enter, Recheck, Compare, Confirm, Decide, Upgrade,
       Store, Check, CheckAlike, CheckImage, Find, RemoveFound
  <2>2. held[found[w]] # None /\ Answer(w, "duplicate") /\ UNCHANGED <<held, found>>
    BY <1>0, <1>3, <2>1 DEF Fill, Relies, AnswerUnlocking, storeVars
  <2> QED
    BY <1>0, <1>3, <2>2 DEF Relies, LargeEnough
<1>4. CASE pc[w] = "upgrade"
  <2>1. Upgrade(w)
    BY <1>4 DEF Step, Receive, LookUp, AcquirePermit, Infer, Enter, Recheck, Compare, Confirm, Decide, Fill,
       Store, Check, CheckAlike, CheckImage, Find, RemoveFound
  <2>2. /\ found[w] \in Photo /\ (Answer(w, "upgraded") \/ Throw(w)) /\ UNCHANGED found
        /\ held' = [held EXCEPT ![found[w]] = Upload(w)]
    BY <1>0, <1>4, <2>1 DEF Upgrade, Relies, AnswerUnlocking, ThrowUnlocking
  <2>3. held'[found'[w]] = Upload(w)
    BY <2>2 DEF EngineInv, StateOK
  <2>4. answer'[w] \in {"upgraded", "error"}
    BY <1>0, <2>2 DEF AnswerInv, Throw
  <2> QED
    BY <1>0, <1>4, <2>3, <2>4
<1>5. CASE pc[w] = "store"
  <2>1. Store(w)
    BY <1>5 DEF Step, Receive, LookUp, AcquirePermit, Infer, Enter, Recheck, Compare, Confirm, Decide, Fill,
       Upgrade, Check, CheckAlike, CheckImage, Find, RemoveFound
  <2>2. CASE Answer(w, "no_face")
    BY <1>0, <2>2
  <2>3. CASE /\ count < MaxPhotos /\ held' = [held EXCEPT ![count + 1] = Upload(w)]
             /\ found' = [found EXCEPT ![w] = count + 1] /\ Answer(w, "stored")
    <3>1. count + 1 \in Photo
      BY <2>3, EngineBounds DEF EngineInv, StateOK, Photo
    <3>2. found'[w] = count + 1 /\ held'[found'[w]] = Upload(w)
      BY <2>3, <3>1 DEF EngineInv, StateOK
    <3> QED
      BY <1>0, <2>3, <3>2
  <2> QED
    BY <2>1, <2>2, <2>3 DEF Store, AnswerUnlocking
<1> QED
  BY <1>1, <1>2, <1>3, <1>4, <1>5

LEMMA AnswersHoldNext ==
    ASSUME EngineInv, AnswerInv, Next, NEW w \in Worker,
           pc[w] \in {"recheck", "decide", "fill", "upgrade", "store"}, ~ disturbed[w],
           tasks'[w] # tasks[w]
    PROVE  Receive(w) \/ Step(w)
BY StepIsOwn DEF Next, Untouched

(* Whatever uploads and deletions run beside it, an upload that no         *)
(* deletion disturbed is answered with an error only when its bytes were   *)
(* stored by an upgrade that threw afterwards, and a photo it is told of   *)
(* holds its bytes or a copy that is at least as large.                    *)
THEOREM AnswersAreReliable == Spec => AnswersHold
<1>1. Init => EngineInv /\ AnswerInv
  <2>1. Init => EngineInv
    BY EngineBounds, NamesAreNames DEF Init, EngineInv, StateOK, Own, Busy, HoldsLock, StillNew, StillAlike,
       Labels, Entries, Locked, Compared
  <2>2. Init => AnswerInv
    BY DEF Init, AnswerInv, Relies, Relying
  <2> QED
    BY <2>1, <2>2
<1>2. EngineInv /\ AnswerInv /\ [Next]_vars => EngineInv' /\ AnswerInv'
  BY NextKeeps, AnswerInvKept
<1> DEFINE Held ==
        \A w \in Worker :
            LET i == found'[w]
            IN  (pc[w] \in {"recheck", "decide", "fill", "upgrade", "store"} /\ ~ disturbed[w]
                   /\ tasks'[w] # tasks[w]) =>
                     /\ answer'[w] = "error" => pc[w] = "upgrade" /\ held'[i] = Upload(w)
                     /\ answer'[w] \in {"duplicate", "upgraded", "stored"} =>
                           /\ held'[i] # None
                           /\ \/ held'[i] = Upload(w)
                              \/ Resembles(Upload(w), held'[i])
                                 /\ (Upload(w) \in Faceless \/ Pixels[held'[i]] >= Pixels[Upload(w)])
<1>3. EngineInv /\ AnswerInv /\ [Next]_vars => [Held]_vars
  <2> SUFFICES ASSUME EngineInv, AnswerInv, Next PROVE Held
    OBVIOUS
  <2> QED
    BY AnswersHoldNext, AnswerHoldsNow
<1>4. Spec => [][Held]_vars
  <2> HIDE DEF Held
  <2> QED
    BY <1>1, <1>2, <1>3, PTL DEF Spec
<1> QED
  BY <1>4 DEF AnswersHold
=============================================================================
