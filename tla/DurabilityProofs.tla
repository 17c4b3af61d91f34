-------------------------- MODULE DurabilityProofs --------------------------
(***************************************************************************)
(* What survives a kill, for any number of contents, photos, faces and     *)
(* kills: a start accepts the slot files, a photo that is found has its    *)
(* master, an answered photo keeps its content and its faces, and the      *)
(* start repairs what was left half done.                                  *)
(*                                                                         *)
(* A kill may come between any two writes, so both invariants speak of the *)
(* writes still to make.  DurableInv: the one write to the photos comes    *)
(* first or right behind its master; a master is unlinked only when the    *)
(* photos that need it are overwritten before; no write to come touches a  *)
(* photo somebody was answered about; an answer comes last, behind what it *)
(* announces; everything else is Quiet.  RepairInv: whoever gets or loses  *)
(* a face is recomputed behind that; a face that dies belongs to nobody by *)
(* then; what is wrong now is recomputed, or the face gets another ref;    *)
(* the writes take the lengths of the files that go together to equal      *)
(* ones, and the embeddings stay short of the faces while a face is in no  *)
(* list.                                                                   *)
(***************************************************************************)
EXTENDS Durability, FiniteSetTheorems, SequenceTheorems, WellFoundedInduction, TLAPS

ImageRec == [sha : Sha, live : BOOLEAN]
FaceRec  == [image : Nat, live : BOOLEAN, ref : Nat]
IdRec    == [live : BOOLEAN, size : Nat]
(* What is appended: a face of nobody, an identity without faces.          *)
FreshFace == [image : Nat, live : BOOLEAN, ref : {0}]
FreshId   == [live : BOOLEAN, size : {0}]
Numbers  == {"embs", "i8", "centroids"}

Quiet ==
    [op : {"append"}, file : Numbers, rec : Nat]
      \cup [op : {"append"}, file : {"identities"}, rec : FreshId]
      \cup [op : {"put"}, file : {"embs", "i8"}, at : Nat, rec : Nat]
      \cup [op : {"ref"}, at : Nat, id : Nat]
      \cup [op : {"recompute"}, id : Nat]

ImageAppends == [op : {"append"}, file : {"images"}, rec : ImageRec]
ImagePuts    == [op : {"put"}, file : {"images"}, at : Nat, rec : ImageRec]
ImageWrites  == ImageAppends \cup ImagePuts
FaceAppends  == [op : {"append"}, file : {"faces"}, rec : FreshFace]
Tombs        == [op : {"tombstone"}, at : Nat]
MasterWrites == [op : {"master"}, sha : Sha]
Unlinks      == [op : {"unlink"}, sha : Sha]
Answers      == [op : {"answer"}, photo : Nat, sha : Sha]
AnyWrite     == Quiet \cup ImageWrites \cup FaceAppends \cup Tombs \cup MasterWrites \cup Unlinks \cup Answers

FilesOK ==
    /\ file \in [File -> [recs : Seq(ImageRec \cup FaceRec \cup IdRec \cup Nat), cap : Nat \ {0}, room : Nat]]
    /\ Recs("images") \in Seq(ImageRec) /\ Recs("faces") \in Seq(FaceRec)
    /\ Recs("identities") \in Seq(IdRec) /\ \A f \in Numbers : Recs(f) \in Seq(Nat)

TypeOK ==
    /\ FilesOK
    /\ masters \subseteq Sha
    /\ todo \in Seq(AnyWrite)
    /\ acked \subseteq [photo : Nat, sha : Sha, rows : SUBSET Nat]

Pending == 1 .. Len(todo)
Image(i) == Recs("images")[i]

UniqueLive == \A i, j \in LivePhotos : Image(i).sha = Image(j).sha => i = j

(* The photo is written first, or right behind its master.                 *)
ImagesFirst ==
    \A k \in Pending : todo[k] \in ImageWrites =>
        LET w == todo[k]
        IN  /\ \/ k = 1 /\ (w.rec.live => w.rec.sha \in masters)
               \/ k = 2 /\ todo[1] = WriteMaster(w.rec.sha)
            /\ w.rec.live => \A i \in LivePhotos : Image(i).sha = w.rec.sha => w \in ImagePuts /\ w.at = i
            /\ w \in ImagePuts => w.at \in Photos /\ \A a \in acked : a.photo # w.at

(* Whoever needs a master that is to go is overwritten before.             *)
UnlinksLate ==
    \A k \in Pending : todo[k] \in Unlinks =>
        /\ \A i \in LivePhotos : Image(i).sha = todo[k].sha =>
              \E j \in 1 .. k - 1 : todo[j] \in ImagePuts /\ todo[j].at = i
        /\ \A j \in Pending : todo[j] \in ImageWrites /\ todo[j].rec.live => todo[j].rec.sha # todo[k].sha

(* No write to come touches the faces of an answered photo.                *)
AckedUntouched ==
    \A a \in acked, k \in Pending :
        /\ todo[k] \in FaceAppends => todo[k].rec.image # a.photo
        /\ todo[k] \in Tombs /\ todo[k].at \in Rows => Face(todo[k].at).image # a.photo

(* An answer is the last thing, and what it announces is or comes true.    *)
AnswersLast ==
    \A k \in Pending : todo[k] \in Answers =>
        /\ k = Len(todo)
        /\ \/ /\ todo[k].photo \in Photos /\ Image(todo[k].photo) = [sha |-> todo[k].sha, live |-> TRUE]
              /\ \A j \in Pending : todo[j] \notin ImageWrites
           \/ \E j \in 1 .. k - 1 :
                 /\ todo[j] \in ImageWrites /\ todo[j].rec = [sha |-> todo[k].sha, live |-> TRUE]
                 /\ \/ todo[j] \in ImagePuts /\ todo[j].at = todo[k].photo
                    \/ todo[j] \in ImageAppends /\ todo[k].photo = Count("images") + 1

QueueInv == ImagesFirst /\ UnlinksLate /\ AckedUntouched /\ AnswersLast

DurableInv ==
    TypeOK /\ ReopenAccepts /\ UniqueLive /\ LivePhotosHaveMasters /\ AcknowledgedSurvive /\ QueueInv

-----------------------------------------------------------------------------
(* Loops *)

(* A set of numbers with 0 that is closed under + 1 is all of them.        *)
LEMMA CountingUp ==
    ASSUME NEW T \in SUBSET Nat, 0 \in T, \A n \in T : n + 1 \in T
    PROVE  T = Nat
<1> SUFFICES ASSUME Nat \ T # {} PROVE FALSE
  OBVIOUS
<1> DEFINE D == Nat \ T
<1>1. \E x \in D : \A y \in D : <<y, x>> \notin OpToRel(<, Nat)
  <2>1. D \subseteq Nat /\ D # {}
    OBVIOUS
  <2> HIDE DEF D
  <2> QED
    BY <2>1, NatLessThanWellFounded, WFMin
<1>2. PICK x \in D : \A y \in D : <<y, x>> \notin OpToRel(<, Nat)
  BY <1>1
<1>3. x \in Nat /\ x # 0 /\ x - 1 \in Nat /\ x - 1 < x
  OBVIOUS
<1>4. <<x - 1, x>> \in OpToRel(<, Nat)
  BY <1>3 DEF OpToRel
<1>5. x - 1 \in T
  BY <1>2, <1>3, <1>4
<1>6. (x - 1) + 1 \in T
  BY <1>5
<1> QED
  BY <1>3, <1>6

(* What FlattenSeq is built from: the first n of them, one after another.  *)
Joined(ss, n, g) == g = [i \in 1 .. n |-> IF i = 1 THEN ss[i] ELSE g[i - 1] \o ss[i]]

LEMMA JoinedExists ==
    ASSUME NEW ss, NEW n \in Nat
    PROVE  \E g : Joined(ss, n, g)
<1> DEFINE T == {m \in Nat : \E g : Joined(ss, m, g)}
<1>1. 0 \in T
  <2>1. Joined(ss, 0, [i \in 1 .. 0 |-> 0])
    BY DEF Joined
  <2> QED
    BY <2>1
<1>2. ASSUME NEW m \in T PROVE m + 1 \in T
  <2>1. PICK g : Joined(ss, m, g)
    OBVIOUS
  <2> DEFINE h == [i \in 1 .. m + 1 |-> IF i = m + 1 THEN (IF i = 1 THEN ss[i] ELSE g[m] \o ss[i]) ELSE g[i]]
  <2>2. ASSUME NEW i \in 1 .. m + 1
        PROVE  h[i] = IF i = 1 THEN ss[i] ELSE h[i - 1] \o ss[i]
    <3>1. CASE i = m + 1
      BY <3>1
    <3>2. CASE i # m + 1
      <4>1. i \in 1 .. m /\ h[i] = g[i]
        BY <3>2
      <4>2. g[i] = IF i = 1 THEN ss[i] ELSE g[i - 1] \o ss[i]
        BY <2>1, <4>1 DEF Joined
      <4>3. i # 1 => h[i - 1] = g[i - 1]
        BY <4>1
      <4> QED
        BY <4>1, <4>2, <4>3
    <3> QED
      BY <3>1, <3>2
  <2>3. h = [i \in 1 .. m + 1 |-> h[i]]
    OBVIOUS
  <2>4. Joined(ss, m + 1, h)
    <3> HIDE DEF h
    <3> QED
      BY <2>2, <2>3 DEF Joined
  <2> QED
    BY <2>4
<1>3. T = Nat
  <2> HIDE DEF T
  <2>1. T \in SUBSET Nat
    BY DEF T
  <2> QED
    BY <1>1, <1>2, <2>1, CountingUp
<1> QED
  BY <1>3

LEMMA FlattenSteps ==
    ASSUME NEW ss, Len(ss) \in Nat
    PROVE  \E F : /\ \A i \in 1 .. Len(ss) : F[i] = IF i = 1 THEN ss[i] ELSE F[i - 1] \o ss[i]
                  /\ Len(ss) # 0 => FlattenSeq(ss) = F[Len(ss)]
<1> DEFINE n == Len(ss)
           F == CHOOSE g : Joined(ss, n, g)
<1>1. Joined(ss, n, F)
  BY JoinedExists
<1>2. \A i \in 1 .. n : F[i] = IF i = 1 THEN ss[i] ELSE F[i - 1] \o ss[i]
  BY <1>1 DEF Joined
<1>3. n # 0 => FlattenSeq(ss) = F[n]
  BY DEF FlattenSeq, Joined
<1> HIDE DEF F
<1> QED
  BY <1>2, <1>3

(* What the empty sequence is and concatenation keeps, all of them         *)
(* together are if each one is.                                            *)
LEMMA FlattenIn ==
    ASSUME NEW Q, <<>> \in Q, \A s, t \in Q : s \o t \in Q, NEW ss \in Seq(Q)
    PROVE  FlattenSeq(ss) \in Q
<1> DEFINE n == Len(ss)
<1>1. n \in Nat /\ \A i \in 1 .. n : ss[i] \in Q
  BY ElementOfSeq, LenProperties
<1>2. PICK F : /\ \A i \in 1 .. n : F[i] = IF i = 1 THEN ss[i] ELSE F[i - 1] \o ss[i]
               /\ n # 0 => FlattenSeq(ss) = F[n]
  BY <1>1, FlattenSteps
<1> DEFINE T == {m \in Nat : m \in 1 .. n => F[m] \in Q}
<1>3. T = Nat
  <2>1. 0 \in T
    OBVIOUS
  <2>2. ASSUME NEW m \in T PROVE m + 1 \in T
    <3> SUFFICES ASSUME m + 1 \in 1 .. n PROVE F[m + 1] \in Q
      OBVIOUS
    <3>1. CASE m = 0
      BY <1>1, <1>2, <3>1
    <3>2. CASE m # 0
      <4>1. m \in 1 .. n /\ (m + 1) - 1 = m /\ m + 1 # 1
        BY <1>1, <3>2
      <4>2. F[m] \in Q /\ ss[m + 1] \in Q
        BY <1>1, <4>1
      <4>3. F[m + 1] = F[m] \o ss[m + 1]
        BY <1>2, <4>1
      <4> QED
        BY <4>2, <4>3
    <3> QED
      BY <3>1, <3>2
  <2> HIDE DEF T
  <2>3. T \in SUBSET Nat
    BY DEF T
  <2> QED
    BY <2>1, <2>2, <2>3, CountingUp
<1>4. CASE n = 0
  <2>1. ss = <<>>
    BY <1>4, EmptySeq
  <2> QED
    BY <2>1, <1>4 DEF FlattenSeq
<1>5. CASE n # 0
  <2>1. F[n] \in Q
    BY <1>1, <1>3, <1>5
  <2> QED
    BY <1>2, <1>5, <2>1
<1> QED
  BY <1>4, <1>5

(* Sequences of X one after another are a sequence of X.                   *)
LEMMA FlattenType ==
    ASSUME NEW X, NEW ss \in Seq(Seq(X))
    PROVE  FlattenSeq(ss) \in Seq(X)
<1>1. <<>> \in Seq(X) /\ \A s, t \in Seq(X) : s \o t \in Seq(X)
  BY EmptySeq, ConcatProperties
<1> QED
  BY <1>1, FlattenIn

(* What one of them holds is held by all of them together.                 *)
LEMMA FlattenHas ==
    ASSUME NEW X, NEW ss \in Seq(Seq(X)), NEW j \in 1 .. Len(ss), NEW x, \E p \in 1 .. Len(ss[j]) : ss[j][p] = x
    PROVE  \E p \in 1 .. Len(FlattenSeq(ss)) : FlattenSeq(ss)[p] = x
<1> DEFINE n == Len(ss)
           Has(s) == \E p \in 1 .. Len(s) : s[p] = x
<1>1. n \in Nat /\ n # 0 /\ \A i \in 1 .. n : ss[i] \in Seq(X)
  BY ElementOfSeq, LenProperties
<1>2. PICK F : /\ \A i \in 1 .. n : F[i] = IF i = 1 THEN ss[i] ELSE F[i - 1] \o ss[i]
               /\ n # 0 => FlattenSeq(ss) = F[n]
  BY <1>1, FlattenSteps
<1>3. \A s, t \in Seq(X) : Has(s) \/ Has(t) => Has(s \o t)
  <2> SUFFICES ASSUME NEW s \in Seq(X), NEW t \in Seq(X), Has(s) \/ Has(t) PROVE Has(s \o t)
    OBVIOUS
  <2>1. /\ Len(s) \in Nat /\ Len(t) \in Nat /\ Len(s \o t) = Len(s) + Len(t)
        /\ \A i \in 1 .. Len(s) + Len(t) : (s \o t)[i] = IF i <= Len(s) THEN s[i] ELSE t[i - Len(s)]
    BY ConcatProperties, LenProperties
  <2>2. ASSUME NEW p \in 1 .. Len(s), s[p] = x PROVE Has(s \o t)
    <3>1. p \in 1 .. Len(s) + Len(t) /\ p <= Len(s)
      BY <2>1
    <3> QED
      BY <2>1, <2>2, <3>1
  <2>3. ASSUME NEW p \in 1 .. Len(t), t[p] = x PROVE Has(s \o t)
    <3>1. p + Len(s) \in 1 .. Len(s) + Len(t) /\ ~ p + Len(s) <= Len(s) /\ (p + Len(s)) - Len(s) = p
      BY <2>1
    <3> QED
      BY <2>1, <2>3, <3>1
  <2> QED
    BY <2>2, <2>3
<1> HIDE DEF Has
<1> DEFINE T == {m \in Nat : m \in 1 .. n => F[m] \in Seq(X) /\ (j <= m => Has(F[m]))}
<1>4. T = Nat
  <2>1. 0 \in T
    OBVIOUS
  <2>2. ASSUME NEW m \in T PROVE m + 1 \in T
    <3> SUFFICES ASSUME m + 1 \in 1 .. n
                 PROVE  F[m + 1] \in Seq(X) /\ (j <= m + 1 => Has(F[m + 1]))
      OBVIOUS
    <3>1. Has(ss[j])
      BY DEF Has
    <3>2. CASE m = 0
      <4>1. F[1] = ss[1] /\ ss[1] \in Seq(X) /\ (j <= 1 => j = 1)
        BY <1>1, <1>2, <3>2
      <4> QED
        BY <3>1, <3>2, <4>1
    <3>3. CASE m # 0
      <4>1. m \in 1 .. n /\ (m + 1) - 1 = m /\ m + 1 # 1 /\ (j <= m + 1 => j <= m \/ j = m + 1)
        BY <1>1, <3>3
      <4>2. F[m] \in Seq(X) /\ ss[m + 1] \in Seq(X) /\ (j <= m => Has(F[m]))
        BY <1>1, <4>1
      <4>3. F[m + 1] = F[m] \o ss[m + 1]
        BY <1>2, <4>1
      <4>4. F[m + 1] \in Seq(X)
        BY <4>2, <4>3, ConcatProperties
      <4> QED
        BY <1>3, <3>1, <4>1, <4>2, <4>3, <4>4
    <3> QED
      BY <3>2, <3>3
  <2> HIDE DEF T
  <2>3. T \in SUBSET Nat
    BY DEF T
  <2> QED
    BY <2>1, <2>2, <2>3, CountingUp
<1>5. Has(F[n])
  BY <1>1, <1>4
<1> QED
  BY <1>1, <1>2, <1>5 DEF Has

-----------------------------------------------------------------------------
(* Files *)

(* The kinds of writes are told apart by what they say they are.           *)
LEMMA Kinds ==
    ASSUME NEW w \in AnyWrite
    PROVE  /\ w.op = "append" => w \in Quiet \cup ImageAppends \cup FaceAppends
           /\ w.op = "put" => w \in Quiet \cup ImagePuts
           /\ w.op \in {"ref", "recompute"} => w \in Quiet
           /\ (w.op = "tombstone" <=> w \in Tombs) /\ (w.op = "answer" <=> w \in Answers)
           /\ (w.op = "master" <=> w \in MasterWrites) /\ (w.op = "unlink" <=> w \in Unlinks)
           /\ w \in ImageWrites => w.file = "images" /\ w.op \in {"append", "put"}
           /\ w \in FaceAppends => w.file = "faces" /\ w.op = "append"
BY DEF AnyWrite, Quiet, Numbers, ImageWrites, ImageAppends, ImagePuts, FaceAppends, Tombs, MasterWrites,
       Unlinks, Answers

LEMMA QuietIsQuiet ==
    ASSUME NEW w \in Quiet
    PROVE  /\ w \in AnyWrite
           /\ w \notin ImageWrites /\ w \notin FaceAppends /\ w \notin Tombs
           /\ w \notin MasterWrites /\ w \notin Unlinks /\ w \notin Answers
BY DEF AnyWrite, Quiet, Numbers, ImageWrites, ImageAppends, ImagePuts, FaceAppends, Tombs, MasterWrites,
       Unlinks, Answers

RecOf(f) ==
    CASE f = "images" -> ImageRec [] f = "faces" -> FaceRec [] f = "identities" -> IdRec [] OTHER -> Nat

AnyRec == ImageRec \cup FaceRec \cup IdRec \cup Nat

LEMMA RecsTyped ==
    FilesOK <=> /\ file \in [File -> [recs : Seq(AnyRec), cap : Nat \ {0}, room : Nat]]
                /\ \A f \in File : Recs(f) \in Seq(RecOf(f))
BY DEF FilesOK, RecOf, File, Numbers, AnyRec

LEMMA CountIsNat ==
    ASSUME FilesOK, NEW f \in File
    PROVE  Count(f) \in Nat
BY RecsTyped, LenProperties DEF Count

(* One file gets new records, or a new size.                               *)
LEMMA OneFileChanges ==
    ASSUME FilesOK, NEW f \in File, NEW s \in Seq(RecOf(f)), NEW c \in Nat \ {0}, NEW m \in Nat,
           file' = [file EXCEPT ![f] = [recs |-> s, cap |-> c, room |-> m]]
    PROVE  /\ FilesOK' /\ Recs(f)' = s /\ file'[f].cap = c /\ file'[f].room = m
           /\ \A g \in File \ {f} : file'[g] = file[g] /\ Recs(g)' = Recs(g)
<1>1. RecOf(f) \subseteq AnyRec
  BY DEF RecOf, AnyRec
<1>2. s \in Seq(AnyRec)
  BY <1>1
<1> DEFINE r == [recs |-> s, cap |-> c, room |-> m]
<1>3. r \in [recs : Seq(AnyRec), cap : Nat \ {0}, room : Nat] /\ r.recs = s /\ r.cap = c /\ r.room = m
  BY <1>2
<1> HIDE DEF r
<1>4. /\ file' \in [File -> [recs : Seq(AnyRec), cap : Nat \ {0}, room : Nat]]
      /\ file'[f] = r /\ \A g \in File \ {f} : file'[g] = file[g]
  BY <1>3, RecsTyped DEF r
<1>5. Recs(f)' = s /\ \A g \in File \ {f} : Recs(g)' = Recs(g)
  BY <1>3, <1>4 DEF Recs
<1>6. (\A g \in File : Recs(g) \in Seq(RecOf(g)))'
  BY <1>5, RecsTyped DEF RecOf
<1>7. FilesOK'
  BY <1>4, <1>6 DEF FilesOK, RecOf, File, Numbers, AnyRec
<1> QED
  BY <1>3, <1>4, <1>5, <1>7

(* A record overwritten: lengths and sizes stay.                           *)
LEMMA PatchedKeeps ==
    ASSUME FilesOK, ReopenAccepts, NEW f \in File, NEW k \in 1 .. Count(f), NEW rec \in RecOf(f),
           file' = Patched(f, k, rec)
    PROVE  /\ FilesOK' /\ ReopenAccepts'
           /\ Recs(f)' = [Recs(f) EXCEPT ![k] = rec] /\ Count(f)' = Count(f)
           /\ \A g \in File \ {f} : Recs(g)' = Recs(g)
<1> DEFINE s == [Recs(f) EXCEPT ![k] = rec]
<1>1. Recs(f) \in Seq(RecOf(f)) /\ file[f] \in [recs : Seq(AnyRec), cap : Nat \ {0}, room : Nat]
  BY RecsTyped
<1>2. s \in Seq(RecOf(f)) /\ Len(s) = Len(Recs(f))
  BY <1>1, ExceptSeq DEF Count
<1> DEFINE c == file[f].cap
           m == file[f].room
<1>3. c \in Nat \ {0} /\ m \in Nat /\ file' = [file EXCEPT ![f] = [recs |-> s, cap |-> c, room |-> m]]
  <2>1. file' = [file EXCEPT ![f] = [file[f] EXCEPT !.recs = s]]
    BY DEF Patched, Recs
  <2> HIDE DEF s
  <2>2. [file[f] EXCEPT !.recs = s] = [recs |-> s, cap |-> c, room |-> m]
    BY <1>1
  <2>3. c \in Nat \ {0} /\ m \in Nat
    BY <1>1
  <2> QED
    BY <2>1, <2>2, <2>3
<1> HIDE DEF s, c, m
<1>4. /\ FilesOK' /\ Recs(f)' = s /\ file'[f].cap = c /\ file'[f].room = m
      /\ \A g \in File \ {f} : file'[g] = file[g] /\ Recs(g)' = Recs(g)
  BY <1>2, <1>3, OneFileChanges
<1>5. Count(f)' = Count(f)
  BY <1>2, <1>4 DEF Count
<1>6. ReopenAccepts'
  BY <1>4, <1>5 DEF ReopenAccepts, Count, c, m
<1> QED
  BY <1>4, <1>5, <1>6 DEF s

(* What the photos and the faces say does not change.                      *)
PhotosSame == Recs("images")' = Recs("images")
FacesSame  == \A r \in Rows \cup Rows' :
                 r \in Rows /\ r \in Rows' /\ Face(r)'.live = Face(r).live /\ Face(r)'.image = Face(r).image

LEMMA SameViews ==
    /\ PhotosSame => /\ LivePhotos' = LivePhotos /\ Photos' = Photos
                     /\ \A i : Image(i)' = Image(i)
    /\ FacesSame => /\ Rows' = Rows
                    /\ \A i : PhotoRows(i)' = PhotoRows(i)
BY DEF PhotosSame, FacesSame, LivePhotos, Photos, Count, Image, Rows, PhotoRows

-----------------------------------------------------------------------------
(* The queue *)

LEMMA Advances ==
    ASSUME todo \in Seq(AnyWrite), todo # <<>>, Done
    PROVE  /\ Len(todo) \in Nat \ {0} /\ Head(todo) = todo[1] /\ todo[1] \in AnyWrite
           /\ todo' \in Seq(AnyWrite) /\ Len(todo') = Len(todo) - 1
           /\ \A k \in Pending' : k + 1 \in Pending /\ todo'[k] = todo[k + 1] /\ todo[k + 1] \in AnyWrite
<1>1. Len(todo) \in Nat \ {0} /\ Head(todo) = todo[1] /\ todo[1] \in AnyWrite
  BY EmptySeq, LenProperties, ElementOfSeq, HeadTailProperties
<1>2. /\ todo' \in Seq(AnyWrite) /\ Len(todo') = Len(todo) - 1
      /\ \A k \in 1 .. Len(todo) - 1 : todo'[k] = todo[k + 1]
  BY HeadTailProperties DEF Done
<1>3. \A k \in 1 .. Len(todo) - 1 : k + 1 \in 1 .. Len(todo) /\ todo[k + 1] \in AnyWrite
  BY <1>1, ElementOfSeq
<1> QED
  BY <1>1, <1>2, <1>3 DEF Pending

(* The first write is done; it was not to the photos.  Rows are as before  *)
(* or belong to nobody's answer.                                           *)
LEMMA QueueAdvances ==
    ASSUME TypeOK, QueueInv, todo # <<>>, Done, todo[1] \notin ImageWrites, PhotosSame, UNCHANGED acked,
           masters \subseteq masters' \/ todo[1] \in Unlinks,
           todo[1] \in MasterWrites => todo[1].sha \in masters',
           \A r \in Rows', a \in acked :
               Face(r)'.image = a.photo => r \in Rows /\ Face(r).image = a.photo
    PROVE  QueueInv'
<1>1. /\ Len(todo) \in Nat \ {0} /\ Len(todo') = Len(todo) - 1
      /\ \A k \in Pending' : k + 1 \in Pending /\ todo'[k] = todo[k + 1] /\ todo[k + 1] \in AnyWrite
      /\ Pending' = 1 .. Len(todo) - 1
  BY Advances DEF TypeOK, Pending
<1>2. LivePhotos' = LivePhotos /\ Photos' = Photos /\ \A i : Image(i)' = Image(i)
  BY SameViews
<1>3. ImagesFirst'
  <2> SUFFICES ASSUME NEW k \in Pending', todo'[k] \in ImageWrites
               PROVE  /\ k = 1 /\ (todo'[k].rec.live => todo'[k].rec.sha \in masters')
                      /\ todo'[k].rec.live =>
                            \A i \in LivePhotos : Image(i).sha = todo'[k].rec.sha => todo'[k] \in ImagePuts /\ todo'[k].at = i
                      /\ todo'[k] \in ImagePuts => todo'[k].at \in Photos /\ \A a \in acked : a.photo # todo'[k].at
    BY <1>2 DEF ImagesFirst
  <2> DEFINE w == todo[k + 1]
  <2>1. k + 1 \in Pending /\ w \in ImageWrites /\ todo'[k] = w /\ k \in Nat /\ k # 0
    BY <1>1
  <2> HIDE DEF w
  <2>2. /\ k + 1 = 2 /\ todo[1] = WriteMaster(w.rec.sha)
        /\ w.rec.live => \A i \in LivePhotos : Image(i).sha = w.rec.sha => w \in ImagePuts /\ w.at = i
        /\ w \in ImagePuts => w.at \in Photos /\ \A a \in acked : a.photo # w.at
    BY <2>1 DEF QueueInv, ImagesFirst, w
  <2>3. todo[1].op = "master" /\ todo[1].sha = w.rec.sha /\ todo[1] \in AnyWrite
    BY <2>2, Advances DEF WriteMaster, TypeOK
  <2>4. w.rec.sha \in masters'
    BY <2>3, Kinds
  <2> QED
    BY <2>1, <2>2, <2>4
<1>4. UnlinksLate'
  <2> SUFFICES ASSUME NEW k \in Pending', todo'[k] \in Unlinks
               PROVE  /\ \A i \in LivePhotos : Image(i).sha = todo'[k].sha =>
                            \E j \in 1 .. k - 1 : todo'[j] \in ImagePuts /\ todo'[j].at = i
                      /\ \A j \in Pending' : todo'[j] \in ImageWrites /\ todo'[j].rec.live =>
                            todo'[j].rec.sha # todo'[k].sha
    BY <1>2 DEF UnlinksLate
  <2>1. k + 1 \in Pending /\ todo[k + 1] \in Unlinks /\ todo'[k] = todo[k + 1] /\ k \in Nat
    BY <1>1
  <2>2. ASSUME NEW i \in LivePhotos, Image(i).sha = todo[k + 1].sha
        PROVE  \E j \in 1 .. k - 1 : todo'[j] \in ImagePuts /\ todo'[j].at = i
    <3>1. PICK j \in 1 .. (k + 1) - 1 : todo[j] \in ImagePuts /\ todo[j].at = i
      BY <2>1, <2>2 DEF QueueInv, UnlinksLate
    <3>2. j # 1
      BY <3>1 DEF ImageWrites
    <3>3. j - 1 \in 1 .. k - 1 /\ (j - 1) + 1 = j /\ j - 1 \in Pending'
      BY <1>1, <2>1, <3>1, <3>2
    <3>4. todo'[j - 1] = todo[j]
      BY <1>1, <3>3
    <3> QED
      BY <3>1, <3>3, <3>4
  <2>3. \A j \in Pending' : todo'[j] \in ImageWrites /\ todo'[j].rec.live => todo'[j].rec.sha # todo[k + 1].sha
    <3>1. \A j \in Pending : todo[j] \in ImageWrites /\ todo[j].rec.live => todo[j].rec.sha # todo[k + 1].sha
      BY <2>1 DEF QueueInv, UnlinksLate
    <3> QED
      BY <1>1, <3>1
  <2> QED
    BY <2>1, <2>2, <2>3
<1>5. AckedUntouched'
  <2> SUFFICES ASSUME NEW a \in acked, NEW k \in Pending'
               PROVE  /\ todo'[k] \in FaceAppends => todo'[k].rec.image # a.photo
                      /\ todo'[k] \in Tombs /\ todo'[k].at \in Rows' => Recs("faces")'[todo'[k].at].image # a.photo
    BY DEF AckedUntouched, Face
  <2>1. k + 1 \in Pending /\ todo'[k] = todo[k + 1]
    BY <1>1
  <2>2. /\ todo[k + 1] \in FaceAppends => todo[k + 1].rec.image # a.photo
        /\ todo[k + 1] \in Tombs /\ todo[k + 1].at \in Rows => Face(todo[k + 1].at).image # a.photo
    BY <2>1 DEF QueueInv, AckedUntouched
  <2>3. \A x \in Rows' : Recs("faces")'[x].image = a.photo => x \in Rows /\ Face(x).image = a.photo
    BY DEF Face
  <2> QED
    BY <2>1, <2>2, <2>3
<1>6. AnswersLast'
  <2>1. Count("images")' = Count("images")
    BY DEF PhotosSame, Count
  <2>2. ASSUME NEW k \in Pending', todo'[k] \in Answers
        PROVE  /\ k = Len(todo')
               /\ \/ /\ todo'[k].photo \in Photos /\ Image(todo'[k].photo) = [sha |-> todo'[k].sha, live |-> TRUE]
                     /\ \A j \in Pending' : todo'[j] \notin ImageWrites
                  \/ \E j \in 1 .. k - 1 :
                        /\ todo'[j] \in ImageWrites /\ todo'[j].rec = [sha |-> todo'[k].sha, live |-> TRUE]
                        /\ \/ todo'[j] \in ImagePuts /\ todo'[j].at = todo'[k].photo
                           \/ todo'[j] \in ImageAppends /\ todo'[k].photo = Count("images") + 1
    <3> DEFINE v   == todo[k + 1]
               rec == [sha |-> v.sha, live |-> TRUE]
    <3>1. k + 1 \in Pending /\ todo'[k] = v /\ v \in Answers /\ k \in Nat
      BY <1>1, <2>2
    <3>2. /\ k + 1 = Len(todo)
          /\ \/ /\ v.photo \in Photos /\ Image(v.photo) = rec
                /\ \A j \in Pending : todo[j] \notin ImageWrites
             \/ \E j \in 1 .. (k + 1) - 1 :
                   /\ todo[j] \in ImageWrites /\ todo[j].rec = rec
                   /\ \/ todo[j] \in ImagePuts /\ todo[j].at = v.photo
                      \/ todo[j] \in ImageAppends /\ v.photo = Count("images") + 1
      BY <3>1 DEF QueueInv, AnswersLast
    <3> HIDE DEF rec
    <3>3. k = Len(todo')
      BY <1>1, <3>1, <3>2
    <3>4. CASE v.photo \in Photos /\ Image(v.photo) = rec /\ \A j \in Pending : todo[j] \notin ImageWrites
      <4>1. \A j \in Pending' : todo'[j] \notin ImageWrites
        BY <1>1, <3>4
      <4> QED
        BY <3>1, <3>3, <3>4, <4>1 DEF rec
    <3>5. ASSUME NEW j \in 1 .. (k + 1) - 1, todo[j] \in ImageWrites, todo[j].rec = rec,
                 \/ todo[j] \in ImagePuts /\ todo[j].at = v.photo
                 \/ todo[j] \in ImageAppends /\ v.photo = Count("images") + 1
          PROVE  \E m \in 1 .. k - 1 :
                    /\ todo'[m] \in ImageWrites /\ todo'[m].rec = rec
                    /\ \/ todo'[m] \in ImagePuts /\ todo'[m].at = v.photo
                       \/ todo'[m] \in ImageAppends /\ v.photo = Count("images") + 1
      <4>1. j # 1
        BY <3>5
      <4>2. j - 1 \in 1 .. k - 1 /\ (j - 1) + 1 = j /\ j - 1 \in Pending'
        BY <1>1, <3>1, <4>1
      <4>3. todo'[j - 1] = todo[j]
        BY <1>1, <4>2
      <4> QED
        BY <3>5, <4>2, <4>3
    <3> QED
      BY <3>1, <3>2, <3>3, <3>4, <3>5 DEF rec
  <2> QED
    BY <1>2, <2>1, <2>2 DEF AnswersLast, PhotosSame, Image
<1> QED
  BY <1>3, <1>4, <1>5, <1>6 DEF QueueInv

-----------------------------------------------------------------------------
(* Writes *)

(* The first write is done, and photos and their rows are as the answers   *)
(* and the masters need them.                                              *)
LEMMA FirstWriteDone ==
    ASSUME DurableInv, todo # <<>>, Done, todo[1] \notin ImageWrites, PhotosSame, UNCHANGED acked,
           FilesOK', ReopenAccepts',
           masters' \subseteq Sha,
           masters \subseteq masters' \/ todo[1] \in Unlinks,
           todo[1] \in MasterWrites => todo[1].sha \in masters',
           \A i \in LivePhotos : Image(i).sha \in masters',
           \A r \in Rows', a \in acked :
               Face(r)'.image = a.photo => r \in Rows /\ Face(r).image = a.photo,
           \A a \in acked : PhotoRows(a.photo)' = PhotoRows(a.photo)
    PROVE  DurableInv'
<1>1. TypeOK /\ QueueInv /\ UniqueLive /\ AcknowledgedSurvive
  BY DEF DurableInv
<1>2. QueueInv'
  BY <1>1, QueueAdvances
<1>3. LivePhotos' = LivePhotos /\ Photos' = Photos /\ \A i : Image(i)' = Image(i)
  BY SameViews
<1>4. TypeOK'
  <2>1. todo' \in Seq(AnyWrite)
    BY <1>1, Advances DEF TypeOK
  <2> QED
    BY <1>1, <2>1 DEF TypeOK
<1>5. UniqueLive' /\ LivePhotosHaveMasters'
  BY <1>1, <1>3 DEF UniqueLive, LivePhotosHaveMasters, Image, PhotosSame
<1>6. AcknowledgedSurvive'
  BY <1>1, <1>3 DEF AcknowledgedSurvive, PhotosSame
<1> QED
  BY <1>2, <1>4, <1>5, <1>6 DEF DurableInv

(* Nothing is done yet but room made for it.                               *)
LEMMA FileGrows ==
    ASSUME DurableInv, NEW f \in File, NEW c \in Nat \ {0}, NEW m \in Nat,
           file[f].cap <= c, c <= m,
           file' = [file EXCEPT ![f] = [recs |-> Recs(f), cap |-> c, room |-> m]],
           UNCHANGED <<masters, todo, acked>>
    PROVE  DurableInv'
<1>1. FilesOK /\ TypeOK /\ ReopenAccepts /\ Recs(f) \in Seq(RecOf(f))
  BY RecsTyped DEF DurableInv, TypeOK
<1>2. /\ FilesOK' /\ Recs(f)' = Recs(f) /\ file'[f].cap = c /\ file'[f].room = m
      /\ \A g \in File \ {f} : file'[g] = file[g] /\ Recs(g)' = Recs(g)
  <2> DEFINE s == Recs(f)
  <2>1. s \in Seq(RecOf(f)) /\ file' = [file EXCEPT ![f] = [recs |-> s, cap |-> c, room |-> m]]
    BY <1>1
  <2> HIDE DEF s
  <2>2. /\ FilesOK' /\ Recs(f)' = s /\ file'[f].cap = c /\ file'[f].room = m
        /\ \A g \in File \ {f} : file'[g] = file[g] /\ Recs(g)' = Recs(g)
    BY <1>1, <2>1, OneFileChanges
  <2> QED
    BY <2>2 DEF s
<1>3. \A g \in File : Recs(g)' = Recs(g)
  BY <1>2
<1>4. ReopenAccepts'
  <2>1. \A g \in File : Count(g)' = Count(g) /\ Count(g) \in Nat /\ file[g].cap \in Nat
    BY <1>1, <1>3, RecsTyped, CountIsNat DEF Count
  <2> QED
    BY <1>1, <1>2, <2>1 DEF ReopenAccepts
<1>5. Recs("images")' = Recs("images") /\ Recs("faces")' = Recs("faces")
  BY <1>3 DEF File
<1>6. /\ Photos' = Photos /\ LivePhotos' = LivePhotos /\ Rows' = Rows
      /\ \A i : PhotoRows(i)' = PhotoRows(i)
  BY <1>5 DEF Photos, LivePhotos, Rows, PhotoRows, Face, Count
<1>7. QueueInv'
  BY <1>5, <1>6 DEF DurableInv, QueueInv, ImagesFirst, UnlinksLate, AckedUntouched, AnswersLast, Image, Face,
                    Count, Pending
<1> QED
  BY <1>2, <1>4, <1>5, <1>6, <1>7 DEF DurableInv, TypeOK, UniqueLive, LivePhotosHaveMasters, AcknowledgedSurvive,
                                       Image

(* Overwriting a row the file does not have changes nothing.               *)
LEMMA PatchedOutside ==
    ASSUME FilesOK, NEW f \in File, NEW k, k \notin 1 .. Count(f), NEW rec
    PROVE  Patched(f, k, rec) = file
<1> DEFINE s == Recs(f)
           R == [recs : Seq(AnyRec), cap : Nat \ {0}, room : Nat]
<1>1. s \in Seq(RecOf(f)) /\ file[f] \in R /\ file \in [File -> R]
  BY RecsTyped
<1>2. DOMAIN s = 1 .. Count(f) /\ s = [j \in DOMAIN s |-> s[j]]
  BY <1>1, SeqDef, LenProperties DEF Count
<1>3. [s EXCEPT ![k] = rec] = s
  BY <1>2
<1>4. file[f].recs = s
  BY DEF Recs
<1> HIDE DEF s
<1>5. [file[f] EXCEPT !.recs = s] = file[f]
  BY <1>1, <1>4
<1>6. Patched(f, k, rec) = [file EXCEPT ![f] = [file[f] EXCEPT !.recs = [s EXCEPT ![k] = rec]]]
  BY <1>4 DEF Patched
<1>7. [file EXCEPT ![f] = file[f]] = file
  BY <1>1
<1> QED
  BY <1>3, <1>5, <1>6, <1>7

(* A record overwritten, or nothing.                                       *)
LEMMA PutDone ==
    ASSUME FilesOK, ReopenAccepts, NEW f \in File, NEW k, NEW rec,
           k \in 1 .. Count(f) => rec \in RecOf(f),
           file' = Patched(f, k, rec)
    PROVE  /\ FilesOK' /\ ReopenAccepts'
           /\ \A g \in File \ {f} : Recs(g)' = Recs(g)
           /\ Count(f)' = Count(f)
           /\ k \in 1 .. Count(f) => Recs(f)' = [Recs(f) EXCEPT ![k] = rec]
           /\ \A j \in 1 .. Count(f) : j # k => Recs(f)'[j] = Recs(f)[j]
           /\ k \in 1 .. Count(f) => Recs(f)'[k] = rec
<1>1. CASE k \in 1 .. Count(f)
  <2>1. /\ FilesOK' /\ ReopenAccepts'
        /\ Recs(f)' = [Recs(f) EXCEPT ![k] = rec] /\ Count(f)' = Count(f)
        /\ \A g \in File \ {f} : Recs(g)' = Recs(g)
    BY <1>1, PatchedKeeps
  <2>2. Recs(f) \in Seq(RecOf(f)) /\ DOMAIN Recs(f) = 1 .. Count(f)
    BY RecsTyped, LenProperties DEF Count
  <2> QED
    BY <1>1, <2>1, <2>2
<1>2. CASE k \notin 1 .. Count(f)
  <2>1. file' = file
    BY <1>2, PatchedOutside
  <2> QED
    BY <1>2, <2>1 DEF FilesOK, ReopenAccepts, Recs, Count
<1> QED
  BY <1>1, <1>2

(* A record added, where the header has room.                              *)
LEMMA AppendDone ==
    ASSUME FilesOK, ReopenAccepts, NEW f \in File, NEW rec \in RecOf(f), Count(f) < file[f].cap,
           file' = [file EXCEPT ![f].recs = Append(@, rec)]
    PROVE  /\ FilesOK' /\ ReopenAccepts'
           /\ Recs(f)' = Append(Recs(f), rec) /\ Count(f)' = Count(f) + 1
           /\ \A j \in 1 .. Count(f) : Recs(f)'[j] = Recs(f)[j]
           /\ Recs(f)'[Count(f) + 1] = rec
           /\ \A g \in File \ {f} : Recs(g)' = Recs(g)
<1> DEFINE s == Append(Recs(f), rec)
           c == file[f].cap
           m == file[f].room
<1>1. Recs(f) \in Seq(RecOf(f)) /\ file[f] \in [recs : Seq(AnyRec), cap : Nat \ {0}, room : Nat]
  BY RecsTyped
<1>2. /\ s \in Seq(RecOf(f)) /\ Len(s) = Len(Recs(f)) + 1 /\ s[Len(Recs(f)) + 1] = rec
      /\ \A j \in 1 .. Len(Recs(f)) : s[j] = Recs(f)[j]
  BY <1>1, AppendProperties
<1>3. c \in Nat \ {0} /\ m \in Nat /\ file' = [file EXCEPT ![f] = [recs |-> s, cap |-> c, room |-> m]]
  <2>1. file' = [file EXCEPT ![f] = [file[f] EXCEPT !.recs = s]]
    BY DEF Recs
  <2> HIDE DEF s
  <2>2. [file[f] EXCEPT !.recs = s] = [recs |-> s, cap |-> c, room |-> m]
    BY <1>1
  <2>3. c \in Nat \ {0} /\ m \in Nat
    BY <1>1
  <2> QED
    BY <2>1, <2>2, <2>3
<1> HIDE DEF s, c, m
<1>4. /\ FilesOK' /\ Recs(f)' = s /\ file'[f].cap = c /\ file'[f].room = m
      /\ \A g \in File \ {f} : file'[g] = file[g] /\ Recs(g)' = Recs(g)
  BY <1>2, <1>3, OneFileChanges
<1>5. Count(f)' = Count(f) + 1 /\ Count(f) \in Nat
  BY <1>2, <1>4, CountIsNat DEF Count
<1>6. ReopenAccepts'
  <2>1. Count(f)' <= c /\ c <= m
    BY <1>3, <1>5 DEF ReopenAccepts, c, m
  <2> QED
    BY <1>4, <2>1 DEF ReopenAccepts, Count
<1> QED
  BY <1>2, <1>4, <1>5, <1>6 DEF s, Count

(* Every append makes room, or adds its record.                            *)
LEMMA AppendOrGrow ==
    ASSUME DurableInv, NEW w, w.file \in File, w.rec \in RecOf(w.file), DoAppend(w)
    PROVE  \/ DurableInv'
           \/ /\ Count(w.file) < file[w.file].cap
              /\ file' = [file EXCEPT ![w.file].recs = Append(@, w.rec)]
              /\ Done /\ UNCHANGED <<masters, acked>>
<1> DEFINE f == w.file
           c == file[f].cap
           m == file[f].room
<1>1. FilesOK /\ ReopenAccepts /\ f \in File
  BY DEF DurableInv, TypeOK
<1>2. file[f] \in [recs : Seq(AnyRec), cap : Nat \ {0}, room : Nat] /\ Count(f) <= c /\ c <= m
  BY <1>1, RecsTyped DEF ReopenAccepts
<1>3. c \in Nat \ {0} /\ m \in Nat /\ file[f] = [recs |-> Recs(f), cap |-> c, room |-> m]
  BY <1>2 DEF Recs
<1>4. CASE m < 2 * c /\ file' = [file EXCEPT ![f].room = 2 * c] /\ UNCHANGED <<todo, masters, acked>>
  <2>1. file' = [file EXCEPT ![f] = [recs |-> Recs(f), cap |-> c, room |-> 2 * c]]
    <3> DEFINE s == Recs(f)
               d == 2 * c
    <3>1. file' = [file EXCEPT ![f] = [file[f] EXCEPT !.room = d]]
      BY <1>4
    <3> HIDE DEF d
    <3>2. [file[f] EXCEPT !.room = d] = [recs |-> s, cap |-> c, room |-> d]
      BY <1>2 DEF Recs
    <3> HIDE DEF s, c, m, f
    <3>3. file' = [file EXCEPT ![f] = [recs |-> s, cap |-> c, room |-> d]]
      BY <3>1, <3>2
    <3> QED
      BY <3>3 DEF s, d
  <2>2. 2 * c \in Nat /\ c <= 2 * c
    BY <1>3
  <2> HIDE DEF c
  <2>3. c \in Nat \ {0} /\ file[f].cap <= c
    BY <1>3 DEF c
  <2> QED
    BY <1>1, <1>4, <2>1, <2>2, <2>3, FileGrows
<1>5. CASE m >= 2 * c /\ file' = [file EXCEPT ![f].cap = 2 * c] /\ UNCHANGED <<todo, masters, acked>>
  <2>1. file' = [file EXCEPT ![f] = [recs |-> Recs(f), cap |-> 2 * c, room |-> m]]
    <3> DEFINE s == Recs(f)
               d == 2 * c
    <3>1. file' = [file EXCEPT ![f] = [file[f] EXCEPT !.cap = d]]
      BY <1>5
    <3> HIDE DEF d
    <3>2. [file[f] EXCEPT !.cap = d] = [recs |-> s, cap |-> d, room |-> m]
      BY <1>2 DEF Recs
    <3> HIDE DEF s, c, m, f
    <3>3. file' = [file EXCEPT ![f] = [recs |-> s, cap |-> d, room |-> m]]
      BY <3>1, <3>2
    <3> QED
      BY <3>3 DEF s, d
  <2>2. 2 * c \in Nat \ {0} /\ c <= 2 * c /\ 2 * c <= m
    BY <1>3, <1>5
  <2> HIDE DEF m
  <2>3. m \in Nat
    BY <1>3
  <2> QED
    BY <1>1, <1>5, <2>1, <2>2, <2>3, FileGrows
<1> QED
  BY <1>4, <1>5 DEF DoAppend

(* A write that leaves what photos and faces say alone.                    *)
LEMMA NothingSeen ==
    ASSUME DurableInv, todo # <<>>, Done, todo[1] \in Quiet, PhotosSame, FacesSame,
           UNCHANGED <<masters, acked>>, FilesOK', ReopenAccepts'
    PROVE  DurableInv'
<1>1. todo[1] \notin ImageWrites /\ todo[1] \notin MasterWrites
  BY QuietIsQuiet
<1>2. masters' \subseteq Sha /\ \A i \in LivePhotos : Image(i).sha \in masters'
  BY DEF DurableInv, TypeOK, LivePhotosHaveMasters, Image
<1>3. \A r \in Rows' : r \in Rows /\ Face(r)'.image = Face(r).image
  BY DEF FacesSame
<1>4. \A i : PhotoRows(i)' = PhotoRows(i)
  BY SameViews
<1> QED
  BY <1>1, <1>2, <1>3, <1>4, FirstWriteDone

LEMMA FaceTyped ==
    ASSUME FilesOK, NEW r \in Rows
    PROVE  Face(r) \in FaceRec
BY ElementOfSeq DEF FilesOK, Rows, Count, Face

(* Files other than those of the photos and faces, or a face's reference.  *)
LEMMA OthersSame ==
    ASSUME \A g \in {"images", "faces"} : Recs(g)' = Recs(g)
    PROVE  PhotosSame /\ FacesSame
BY DEF PhotosSame, FacesSame, Rows, Count, Face

LEMMA QuietAppend ==
    ASSUME DurableInv, todo # <<>>, todo[1] \in Quiet, DoAppend(todo[1])
    PROVE  DurableInv'
<1> DEFINE w == todo[1]
<1>1. w.file \in {"embs", "i8", "centroids", "identities"} /\ w.rec \in RecOf(w.file) /\ w.file \in File
  <2>1. \/ w.file \in Numbers /\ w.rec \in Nat
        \/ w.file = "identities" /\ w.rec \in FreshId
    BY DEF Quiet, DoAppend
  <2>2. FreshId \subseteq IdRec
    BY DEF FreshId, IdRec
  <2> QED
    BY <2>1, <2>2 DEF Numbers, RecOf, File
<1>2. CASE /\ Count(w.file) < file[w.file].cap
           /\ file' = [file EXCEPT ![w.file].recs = Append(@, w.rec)]
           /\ Done /\ UNCHANGED <<masters, acked>>
  <2>1. /\ FilesOK' /\ ReopenAccepts'
        /\ \A g \in File \ {w.file} : Recs(g)' = Recs(g)
    BY <1>1, <1>2, AppendDone DEF DurableInv, TypeOK
  <2>2. PhotosSame /\ FacesSame
    BY <1>1, <2>1, OthersSame DEF File
  <2> QED
    BY <1>2, <2>1, <2>2, NothingSeen
<1> QED
  BY <1>1, <1>2, AppendOrGrow

LEMMA QuietPut ==
    ASSUME DurableInv, todo # <<>>, todo[1] \in Quiet, DoPut(todo[1])
    PROVE  DurableInv'
<1> DEFINE w == todo[1]
<1>1. w.file \in {"embs", "i8"} /\ w.rec \in RecOf(w.file) /\ w.file \in File
  BY DEF Quiet, DoPut, Numbers, RecOf, File
<1>2. FilesOK /\ ReopenAccepts
  BY DEF DurableInv, TypeOK
<1>3. /\ FilesOK' /\ ReopenAccepts'
      /\ \A g \in File \ {w.file} : Recs(g)' = Recs(g)
  <2>1. CASE file' = Patched(w.file, w.at, w.rec)
    BY <1>1, <1>2, <2>1, PutDone
  <2>2. CASE file' = file
    BY <1>2, <2>2 DEF FilesOK, ReopenAccepts, Recs, Count
  <2> QED
    BY <2>1, <2>2 DEF DoPut
<1>4. PhotosSame /\ FacesSame
  BY <1>1, <1>3, OthersSame DEF File
<1> QED
  BY <1>3, <1>4, NothingSeen DEF DoPut

LEMMA QuietRecompute ==
    ASSUME DurableInv, todo # <<>>, todo[1] \in Quiet, DoRecompute(todo[1])
    PROVE  DurableInv'
<1> DEFINE w   == todo[1]
           rec == [live |-> MembersOf(w.id) # {}, size |-> Cardinality(MembersOf(w.id))]
<1>1. FilesOK /\ ReopenAccepts
  BY DEF DurableInv, TypeOK
<1>2. rec \in RecOf("identities")
  <2>1. Count("faces") \in Nat
    BY <1>1, CountIsNat DEF File
  <2>2. IsFiniteSet(Rows)
    BY <2>1, FS_Interval DEF Rows
  <2>3. Cardinality(MembersOf(w.id)) \in Nat
    BY <2>2, FS_Subset, FS_CardinalityType DEF MembersOf
  <2> QED
    BY <2>3 DEF RecOf, IdRec
<1> HIDE DEF rec
<1>3. file' = Patched("identities", w.id, rec) /\ Done /\ UNCHANGED <<masters, acked>>
  BY DEF DoRecompute, rec
<1>4. /\ FilesOK' /\ ReopenAccepts'
      /\ \A g \in File \ {"identities"} : Recs(g)' = Recs(g)
  BY <1>1, <1>2, <1>3, PutDone DEF File
<1>5. PhotosSame /\ FacesSame
  BY <1>4, OthersSame DEF File
<1> QED
  BY <1>3, <1>4, <1>5, NothingSeen

LEMMA QuietSetRef ==
    ASSUME DurableInv, todo # <<>>, todo[1] \in Quiet, DoSetRef(todo[1])
    PROVE  DurableInv'
<1> DEFINE w   == todo[1]
           rec == [Face(w.at) EXCEPT !.ref = w.id]
<1>1. FilesOK /\ ReopenAccepts
  BY DEF DurableInv, TypeOK
<1>2. w.id \in Nat
  BY DEF Quiet, DoSetRef
<1>3. w.at \in Rows => /\ rec \in RecOf("faces")
                       /\ rec.live = Face(w.at).live /\ rec.image = Face(w.at).image
  BY <1>1, <1>2, FaceTyped DEF FaceRec, RecOf
<1> HIDE DEF rec
<1>4. file' = Patched("faces", w.at, rec) /\ Done /\ UNCHANGED <<masters, acked>>
  BY DEF DoSetRef, rec
<1>5. /\ FilesOK' /\ ReopenAccepts'
      /\ \A g \in File \ {"faces"} : Recs(g)' = Recs(g)
      /\ Count("faces")' = Count("faces")
      /\ \A j \in Rows : j # w.at => Recs("faces")'[j] = Recs("faces")[j]
      /\ w.at \in Rows => Recs("faces")'[w.at] = rec
  BY <1>1, <1>3, <1>4, PutDone DEF File, Rows
<1>6. PhotosSame
  BY <1>5 DEF PhotosSame, File
<1>7. FacesSame
  BY <1>3, <1>5 DEF FacesSame, Rows, Face
<1> QED
  BY <1>4, <1>5, <1>6, <1>7, NothingSeen

LEMMA Tombstone ==
    ASSUME DurableInv, todo # <<>>, todo[1] \in Tombs, DoTombstone(todo[1])
    PROVE  DurableInv'
<1> DEFINE w   == todo[1]
           rec == [Face(w.at) EXCEPT !.live = FALSE]
<1>1. FilesOK /\ ReopenAccepts /\ TypeOK /\ AckedUntouched /\ LivePhotosHaveMasters
  BY DEF DurableInv, TypeOK, QueueInv
<1>2. w.at \in Rows => rec \in RecOf("faces") /\ rec.image = Face(w.at).image
  BY <1>1, FaceTyped DEF FaceRec, RecOf
<1> HIDE DEF rec
<1>3. file' = Patched("faces", w.at, rec) /\ Done /\ UNCHANGED <<masters, acked>>
  BY DEF DoTombstone, rec
<1>4. /\ FilesOK' /\ ReopenAccepts'
      /\ \A g \in File \ {"faces"} : Recs(g)' = Recs(g)
      /\ Count("faces")' = Count("faces")
      /\ \A j \in Rows : j # w.at => Recs("faces")'[j] = Recs("faces")[j]
      /\ w.at \in Rows => Recs("faces")'[w.at] = rec
  BY <1>1, <1>2, <1>3, PutDone DEF File, Rows
<1>5. PhotosSame /\ Rows' = Rows
  BY <1>4 DEF PhotosSame, File, Rows
<1>6. ASSUME NEW r \in Rows', NEW a \in acked, Face(r)'.image = a.photo
      PROVE  r \in Rows /\ Face(r).image = a.photo
  BY <1>2, <1>4, <1>5, <1>6 DEF Face
<1>7. 1 \in Pending
  BY <1>1, EmptySeq, LenProperties DEF TypeOK, Pending
<1>8. ASSUME NEW a \in acked
      PROVE  PhotoRows(a.photo)' = PhotoRows(a.photo)
  <2>1. w.at \in Rows => Face(w.at).image # a.photo /\ Recs("faces")'[w.at].image # a.photo
    BY <1>1, <1>2, <1>4, <1>7 DEF AckedUntouched, Face
  <2>2. \A r \in Rows : r # w.at => Face(r)' = Face(r)
    BY <1>4 DEF Face
  <2>3. \A r \in Rows : (Face(r)'.live /\ Face(r)'.image = a.photo) <=> (Face(r).live /\ Face(r).image = a.photo)
    BY <2>1, <2>2 DEF Face
  <2> QED
    BY <1>5, <2>3 DEF PhotoRows
<1>9. w \notin ImageWrites /\ w \notin MasterWrites
  BY DEF Tombs, ImageWrites, ImageAppends, ImagePuts, MasterWrites
<1>10. masters' \subseteq Sha /\ \A i \in LivePhotos : Image(i).sha \in masters'
  BY <1>1, <1>3 DEF TypeOK, LivePhotosHaveMasters, Image
<1> QED
  BY <1>3, <1>4, <1>5, <1>6, <1>8, <1>9, <1>10, FirstWriteDone

LEMMA FaceAppended ==
    ASSUME DurableInv, todo # <<>>, todo[1] \in FaceAppends, DoAppend(todo[1])
    PROVE  DurableInv'
<1> DEFINE w == todo[1]
           n == Count("faces")
<1>1. w.file = "faces" /\ w.rec \in RecOf("faces") /\ w.file \in File
  BY DEF FaceAppends, RecOf, FaceRec, FreshFace, File
<1>2. FilesOK /\ ReopenAccepts /\ TypeOK /\ AckedUntouched /\ LivePhotosHaveMasters /\ n \in Nat
  BY CountIsNat DEF DurableInv, TypeOK, QueueInv, File
<1>3. CASE /\ n < file["faces"].cap
           /\ file' = [file EXCEPT !["faces"].recs = Append(@, w.rec)]
           /\ Done /\ UNCHANGED <<masters, acked>>
  <2> DEFINE rec == w.rec
  <2>1. rec \in RecOf("faces") /\ "faces" \in File /\ file' = [file EXCEPT !["faces"].recs = Append(@, rec)]
    BY <1>1, <1>3
  <2> HIDE DEF rec
  <2>2. /\ FilesOK' /\ ReopenAccepts' /\ Count("faces")' = n + 1
        /\ \A j \in 1 .. n : Recs("faces")'[j] = Recs("faces")[j]
        /\ Recs("faces")'[n + 1] = rec
        /\ \A g \in File \ {"faces"} : Recs(g)' = Recs(g)
    BY <1>2, <1>3, <2>1, AppendDone
  <2>3. PhotosSame /\ Rows' = Rows \cup {n + 1} /\ n + 1 \notin Rows
    BY <1>2, <2>2 DEF PhotosSame, File, Rows
  <2>4. 1 \in Pending
    BY <1>2, EmptySeq, LenProperties DEF TypeOK, Pending
  <2>5. \A a \in acked : rec.image # a.photo
    BY <1>2, <2>4 DEF AckedUntouched, rec
  <2>6. /\ \A r \in Rows : Face(r)' = Face(r)
        /\ \A a \in acked : \A r \in Rows' : r \notin Rows => Face(r)'.image # a.photo
    BY <2>2, <2>3, <2>5 DEF Face, Rows
  <2>7. \A a \in acked : PhotoRows(a.photo)' = PhotoRows(a.photo)
    BY <2>3, <2>6 DEF PhotoRows
  <2>8. w \notin ImageWrites /\ w \notin MasterWrites
    BY DEF FaceAppends, ImageWrites, ImageAppends, ImagePuts, MasterWrites
  <2>9. masters' \subseteq Sha /\ \A i \in LivePhotos : Image(i).sha \in masters'
    BY <1>2, <1>3 DEF TypeOK, LivePhotosHaveMasters, Image
  <2>10. \A r \in Rows', a \in acked : Face(r)'.image = a.photo => r \in Rows /\ Face(r).image = a.photo
    BY <2>6
  <2> QED
    BY <1>3, <2>2, <2>3, <2>7, <2>8, <2>9, <2>10, FirstWriteDone
<1> QED
  BY <1>1, <1>3, AppendOrGrow

LEMMA MasterDone ==
    ASSUME DurableInv, todo # <<>>, todo[1] \in AnyWrite, DoMaster(todo[1])
    PROVE  DurableInv'
<1> DEFINE w == todo[1]
<1>1. FilesOK /\ ReopenAccepts /\ TypeOK /\ UnlinksLate /\ LivePhotosHaveMasters
  BY DEF DurableInv, TypeOK, QueueInv
<1>2. PhotosSame /\ Rows' = Rows /\ \A r : Face(r)' = Face(r)
  BY DEF DoMaster, PhotosSame, Rows, Count, Recs, Face
<1>3. FilesOK' /\ ReopenAccepts' /\ \A i : PhotoRows(i)' = PhotoRows(i)
  BY <1>1 DEF DoMaster, FilesOK, ReopenAccepts, Count, Recs, PhotoRows, Rows, Face
<1>4. 1 \in Pending
  BY <1>1, EmptySeq, LenProperties DEF TypeOK, Pending
<1>5. w \notin ImageWrites /\ (w.op = "master" <=> w \in MasterWrites) /\ (w.op = "unlink" <=> w \in Unlinks)
  BY Kinds DEF DoMaster
<1>6. CASE w.op = "master" /\ masters' = masters \cup {w.sha}
  <2>1. w.sha \in Sha
    BY <1>5, <1>6 DEF MasterWrites
  <2>2. masters \subseteq masters' /\ masters' \subseteq Sha /\ w.sha \in masters'
    BY <1>1, <1>6, <2>1 DEF TypeOK
  <2>3. \A i \in LivePhotos : Image(i).sha \in masters'
    BY <1>1, <2>2 DEF LivePhotosHaveMasters, Image
  <2> QED
    BY <1>2, <1>3, <1>5, <2>2, <2>3, FirstWriteDone DEF DoMaster
<1>7. CASE w.op = "unlink" /\ masters' = masters \ {w.sha}
  <2>1. w \in Unlinks /\ w \notin MasterWrites
    BY <1>5, <1>7
  <2>2. \A i \in LivePhotos : Image(i).sha # w.sha
    BY <1>4, <2>1, <1>1 DEF UnlinksLate
  <2>3. masters' \subseteq Sha /\ \A i \in LivePhotos : Image(i).sha \in masters'
    BY <1>1, <1>7, <2>2 DEF TypeOK, LivePhotosHaveMasters, Image
  <2> QED
    BY <1>2, <1>3, <1>5, <2>1, <2>3, FirstWriteDone DEF DoMaster
<1> QED
  BY <1>6, <1>7 DEF DoMaster

LEMMA Answered ==
    ASSUME DurableInv, todo # <<>>, todo[1] \in Answers, DoAnswer(todo[1])
    PROVE  DurableInv'
<1> DEFINE w == todo[1]
           a == [photo |-> w.photo, sha |-> w.sha, rows |-> PhotoRows(w.photo)]
<1>1. FilesOK /\ ReopenAccepts /\ TypeOK /\ UniqueLive /\ LivePhotosHaveMasters /\ AcknowledgedSurvive /\ AnswersLast
  BY DEF DurableInv, TypeOK, QueueInv
<1>2. w.photo \in Nat /\ w.sha \in Sha
  BY DEF Answers
<1>3. 1 \in Pending
  BY <1>1, EmptySeq, LenProperties DEF TypeOK, Pending
<1>4. /\ Len(todo) = 1
      /\ w.photo \in Photos /\ Image(w.photo) = [sha |-> w.sha, live |-> TRUE]
  <2>1. 1 .. 1 - 1 = {}
    OBVIOUS
  <2> HIDE DEF w
  <2>2. \A j \in 1 .. 1 - 1 : FALSE
    BY <2>1
  <2> QED
    BY <1>1, <1>3, <2>2 DEF AnswersLast, w
<1>5. todo' \in Seq(AnyWrite) /\ Pending' = {}
  BY <1>1, <1>4, Advances DEF DoAnswer, TypeOK, Pending
<1>6. Recs("images")' = Recs("images") /\ Recs("faces")' = Recs("faces")
  BY DEF DoAnswer, Recs
<1>7. /\ LivePhotos' = LivePhotos /\ \A i : PhotoRows(i)' = PhotoRows(i)
  BY <1>6 DEF LivePhotos, Photos, PhotoRows, Rows, Face, Count
<1>8. PhotoRows(w.photo) \in SUBSET Nat
  BY DEF PhotoRows, Rows
<1>9. FilesOK' /\ ReopenAccepts'
  BY <1>1 DEF DoAnswer, FilesOK, ReopenAccepts, Count, Recs
<1>10. TypeOK'
  BY <1>1, <1>2, <1>5, <1>8, <1>9 DEF TypeOK, DoAnswer
<1>11. UniqueLive' /\ LivePhotosHaveMasters'
  BY <1>1, <1>6, <1>7 DEF UniqueLive, LivePhotosHaveMasters, Image, DoAnswer
<1>12. AcknowledgedSurvive'
  <2> SUFFICES ASSUME NEW b \in acked'
               PROVE  /\ b.photo \in LivePhotos
                      /\ Recs("images")[b.photo] = [sha |-> b.sha, live |-> TRUE]
                      /\ PhotoRows(b.photo) = b.rows
    BY <1>6, <1>7 DEF AcknowledgedSurvive
  <2>1. CASE b \in acked
    BY <1>1, <2>1 DEF AcknowledgedSurvive
  <2>2. CASE b = a
    <3>1. b.photo = w.photo /\ b.sha = w.sha /\ b.rows = PhotoRows(w.photo)
      BY <2>2
    <3>2. w.photo \in LivePhotos
      BY <1>4 DEF LivePhotos, Image
    <3> QED
      BY <1>4, <3>1, <3>2 DEF Image
  <2> QED
    BY <2>1, <2>2 DEF DoAnswer
<1>13. QueueInv'
  BY <1>5 DEF QueueInv, ImagesFirst, UnlinksLate, AckedUntouched, AnswersLast
<1> QED
  BY <1>9, <1>10, <1>11, <1>12, <1>13 DEF DurableInv

(* The photo is written.  Nothing else to come writes a photo; the master  *)
(* is there already, and whoever was answered about keeps his slot.        *)
LEMMA ImageWritten ==
    ASSUME DurableInv, todo # <<>>, Done, UNCHANGED <<masters, acked>>,
           NEW w \in ImageWrites, w = todo[1], NEW p \in Nat,
           \/ w \in ImagePuts /\ p = w.at
           \/ w \in ImageAppends /\ w \notin ImagePuts /\ p = Count("images") + 1,
           FilesOK', ReopenAccepts', Recs("faces")' = Recs("faces"),
           Photos' = Photos \cup {p}, Recs("images")'[p] = w.rec,
           \A i \in Photos : i # p => Recs("images")'[i] = Recs("images")[i]
    PROVE  DurableInv'
<1>1. /\ FilesOK /\ ReopenAccepts /\ TypeOK /\ UniqueLive /\ LivePhotosHaveMasters /\ AcknowledgedSurvive
      /\ ImagesFirst /\ UnlinksLate /\ AckedUntouched /\ AnswersLast
  BY DEF DurableInv, TypeOK, QueueInv
<1>2. /\ Len(todo) \in Nat \ {0} /\ Len(todo') = Len(todo) - 1 /\ todo' \in Seq(AnyWrite)
      /\ \A k \in Pending' : k + 1 \in Pending /\ todo'[k] = todo[k + 1] /\ todo[k + 1] \in AnyWrite
      /\ Pending' = 1 .. Len(todo) - 1 /\ 1 \in Pending
  BY <1>1, Advances DEF TypeOK, Pending
<1>3. /\ w.rec.live => w.rec.sha \in masters
      /\ w.rec.live => \A i \in LivePhotos : Image(i).sha = w.rec.sha => w \in ImagePuts /\ w.at = i
      /\ w \in ImagePuts => w.at \in Photos /\ \A a \in acked : a.photo # w.at
  BY <1>1, <1>2 DEF ImagesFirst, Pending
<1>4. \A k \in Pending : todo[k] \in ImageWrites => k = 1
  <2> SUFFICES ASSUME NEW k \in Pending, todo[k] \in ImageWrites, k = 2, w = WriteMaster(todo[k].rec.sha)
               PROVE  FALSE
    BY <1>1 DEF ImagesFirst
  <2> QED
    BY DEF WriteMaster, ImageWrites, ImageAppends, ImagePuts
<1>5. \A k \in Pending' : todo'[k] \notin ImageWrites
  <2> SUFFICES ASSUME NEW k \in Pending', todo[k + 1] \in ImageWrites PROVE FALSE
    BY <1>2
  <2> QED
    BY <1>2, <1>4
<1>6. \A i \in LivePhotos' : \/ i = p /\ w.rec.live /\ Recs("images")'[i] = w.rec
                             \/ i # p /\ i \in LivePhotos /\ Recs("images")'[i] = Recs("images")[i]
  BY DEF LivePhotos
<1>7. \A i \in LivePhotos : i # p => i \in LivePhotos' /\ Recs("images")'[i] = Recs("images")[i]
  BY DEF LivePhotos
<1>8. w.rec.live => \A i \in LivePhotos : Image(i).sha = w.rec.sha => i = p
  BY <1>3
<1>9. UniqueLive'
  <2> SUFFICES ASSUME NEW i \in LivePhotos', NEW j \in LivePhotos',
                      Recs("images")'[i].sha = Recs("images")'[j].sha
               PROVE  i = j
    BY DEF UniqueLive, Image
  <2>1. CASE i = p /\ j # p
    BY <1>6, <1>8, <2>1 DEF Image
  <2>2. CASE i # p /\ j = p
    BY <1>6, <1>8, <2>2 DEF Image
  <2>3. CASE i # p /\ j # p
    BY <1>1, <1>6, <2>3 DEF Image, UniqueLive
  <2> QED
    BY <2>1, <2>2, <2>3
<1>10. LivePhotosHaveMasters'
  <2> SUFFICES ASSUME NEW i \in LivePhotos' PROVE Recs("images")'[i].sha \in masters
    BY DEF LivePhotosHaveMasters
  <2> QED
    BY <1>1, <1>3, <1>6 DEF LivePhotosHaveMasters
<1>11. \A i : PhotoRows(i)' = PhotoRows(i)
  BY DEF PhotoRows, Rows, Count, Face
<1>12. AcknowledgedSurvive'
  <2> SUFFICES ASSUME NEW a \in acked
               PROVE  /\ a.photo \in LivePhotos'
                      /\ Recs("images")'[a.photo] = [sha |-> a.sha, live |-> TRUE]
                      /\ PhotoRows(a.photo)' = a.rows
    BY DEF AcknowledgedSurvive
  <2>1. /\ a.photo \in LivePhotos /\ Recs("images")[a.photo] = [sha |-> a.sha, live |-> TRUE]
        /\ PhotoRows(a.photo) = a.rows
    BY <1>1 DEF AcknowledgedSurvive
  <2>2. a.photo # p
    <3>1. CASE w \in ImagePuts /\ p = w.at
      BY <1>3, <3>1
    <3>2. CASE p = Count("images") + 1
      <4>1. Count("images") \in Nat /\ a.photo \in 1 .. Count("images")
        BY <1>1, <2>1, CountIsNat DEF LivePhotos, Photos, File
      <4> QED
        BY <3>2, <4>1
    <3> QED
      BY <3>1, <3>2
  <2> QED
    BY <1>7, <1>11, <2>1, <2>2
<1>13. TypeOK'
  BY <1>1, <1>2 DEF TypeOK
<1>14. ImagesFirst'
  BY <1>5 DEF ImagesFirst
<1>15. UnlinksLate'
  <2> SUFFICES ASSUME NEW k \in Pending', todo'[k] \in Unlinks, NEW i \in LivePhotos',
                      Recs("images")'[i].sha = todo'[k].sha
               PROVE  FALSE
    BY <1>5 DEF UnlinksLate, Image
  <2> DEFINE u == todo[k + 1]
  <2>1. k + 1 \in Pending /\ u \in Unlinks /\ Recs("images")'[i].sha = u.sha
    BY <1>2
  <2>2. w.rec.live => w.rec.sha # u.sha
    BY <1>1, <1>2, <2>1 DEF UnlinksLate
  <2>3. i # p /\ i \in LivePhotos /\ Image(i).sha = u.sha
    BY <1>6, <2>1, <2>2 DEF Image
  <2>4. PICK j \in 1 .. (k + 1) - 1 : todo[j] \in ImagePuts /\ todo[j].at = i
    BY <1>1, <2>1, <2>3 DEF UnlinksLate
  <2>5. j = 1
    BY <1>4, <2>1, <2>4 DEF ImageWrites, Pending
  <2> QED
    BY <2>3, <2>4, <2>5
<1>16. AckedUntouched'
  <2> SUFFICES ASSUME NEW a \in acked, NEW k \in Pending'
               PROVE  /\ todo'[k] \in FaceAppends => todo'[k].rec.image # a.photo
                      /\ todo'[k] \in Tombs /\ todo'[k].at \in Rows => Recs("faces")[todo'[k].at].image # a.photo
    BY DEF AckedUntouched, Face, Rows, Count
  <2>1. k + 1 \in Pending /\ todo'[k] = todo[k + 1]
    BY <1>2
  <2> QED
    BY <1>1, <2>1 DEF AckedUntouched, Face
<1>17. AnswersLast'
  <2>1. ASSUME NEW k \in Pending', todo'[k] \in Answers
        PROVE  /\ k = Len(todo')
               /\ todo'[k].photo \in Photos'
               /\ Recs("images")'[todo'[k].photo] = [sha |-> todo'[k].sha, live |-> TRUE]
    <3> DEFINE v   == todo[k + 1]
               rec == [sha |-> v.sha, live |-> TRUE]
    <3>1. k + 1 \in Pending /\ todo'[k] = v /\ v \in Answers /\ k \in Nat
      BY <1>2, <2>1
    <3>2. /\ k + 1 = Len(todo)
          /\ \/ \A j \in Pending : todo[j] \notin ImageWrites
             \/ \E j \in 1 .. (k + 1) - 1 :
                   /\ todo[j] \in ImageWrites /\ todo[j].rec = rec
                   /\ \/ todo[j] \in ImagePuts /\ todo[j].at = v.photo
                      \/ todo[j] \in ImageAppends /\ v.photo = Count("images") + 1
      BY <1>1, <3>1 DEF AnswersLast
    <3> HIDE DEF rec
    <3>3. /\ w.rec = rec
          /\ \/ w \in ImagePuts /\ w.at = v.photo
             \/ w \in ImageAppends /\ v.photo = Count("images") + 1
      <4>1. PICK j \in 1 .. (k + 1) - 1 :
                   /\ todo[j] \in ImageWrites /\ todo[j].rec = rec
                   /\ \/ todo[j] \in ImagePuts /\ todo[j].at = v.photo
                      \/ todo[j] \in ImageAppends /\ v.photo = Count("images") + 1
        BY <1>2, <3>2
      <4>2. j = 1
        BY <1>4, <3>1, <4>1 DEF Pending
      <4> QED
        BY <4>1, <4>2
    <3>4. w \in ImagePuts <=> w \notin ImageAppends
      BY DEF ImageWrites, ImageAppends, ImagePuts
    <3>5. v.photo = p
      BY <3>3, <3>4
    <3> QED
      BY <1>2, <3>1, <3>2, <3>3, <3>5 DEF rec
  <2>2. \A k \in Pending' : todo'[k] \in Answers =>
           /\ k = Len(todo')
           /\ todo'[k].photo \in Photos' /\ Recs("images")'[todo'[k].photo] = [sha |-> todo'[k].sha, live |-> TRUE]
           /\ \A j \in Pending' : todo'[j] \notin ImageWrites
    BY <1>5, <2>1
  <2> QED
    BY <2>2 DEF AnswersLast, Image
<1> QED
  BY <1>9, <1>10, <1>12, <1>13, <1>14, <1>15, <1>16, <1>17 DEF DurableInv, QueueInv

LEMMA ImageAppended ==
    ASSUME DurableInv, todo # <<>>, todo[1] \in ImageAppends, DoAppend(todo[1])
    PROVE  DurableInv'
<1> DEFINE w == todo[1]
           n == Count("images")
<1>1. w.file = "images" /\ w.rec \in RecOf("images") /\ w.file \in File
  BY DEF ImageAppends, RecOf, File
<1>2. FilesOK /\ ReopenAccepts /\ n \in Nat
  BY CountIsNat DEF DurableInv, TypeOK, File
<1>3. CASE /\ n < file["images"].cap
           /\ file' = [file EXCEPT !["images"].recs = Append(@, w.rec)]
           /\ Done /\ UNCHANGED <<masters, acked>>
  <2> DEFINE rec == w.rec
  <2>1. rec \in RecOf("images") /\ "images" \in File /\ file' = [file EXCEPT !["images"].recs = Append(@, rec)]
    BY <1>1, <1>3
  <2> HIDE DEF rec
  <2>2. /\ FilesOK' /\ ReopenAccepts' /\ Count("images")' = n + 1
        /\ \A j \in 1 .. n : Recs("images")'[j] = Recs("images")[j]
        /\ Recs("images")'[n + 1] = rec
        /\ \A g \in File \ {"images"} : Recs(g)' = Recs(g)
    BY <1>2, <1>3, <2>1, AppendDone
  <2>3. Recs("faces")' = Recs("faces") /\ Photos' = Photos \cup {n + 1}
    BY <1>2, <2>2 DEF File, Photos
  <2> DEFINE v == w
             p == n + 1
  <2>4. /\ v \in ImageWrites /\ v = todo[1] /\ p \in Nat /\ v \in ImageAppends /\ v \notin ImagePuts
        /\ p = Count("images") + 1 /\ Recs("images")'[p] = v.rec /\ Photos' = Photos \cup {p}
        /\ \A i \in Photos : i # p => Recs("images")'[i] = Recs("images")[i]
    BY <1>2, <2>2, <2>3 DEF ImageWrites, ImageAppends, ImagePuts, rec, Photos
  <2> HIDE DEF v, p
  <2> QED
    BY <1>3, <2>2, <2>3, <2>4, ImageWritten
<1> QED
  BY <1>1, <1>3, AppendOrGrow

LEMMA ImageOverwritten ==
    ASSUME DurableInv, todo # <<>>, todo[1] \in ImagePuts, DoPut(todo[1])
    PROVE  DurableInv'
<1> DEFINE w   == todo[1]
           at  == w.at
           rec == w.rec
<1>1. w.file = "images" /\ rec \in RecOf("images") /\ at \in Nat
  BY DEF ImagePuts, RecOf
<1>2. FilesOK /\ ReopenAccepts /\ TypeOK /\ ImagesFirst
  BY DEF DurableInv, TypeOK, QueueInv
<1>3. 1 \in Pending
  BY <1>2, EmptySeq, LenProperties DEF TypeOK, Pending
<1>4. at \in Photos /\ at \in 1 .. Count("images")
  BY <1>2, <1>3 DEF ImagesFirst, ImageWrites, Photos
<1>5. file' = Patched("images", at, rec)
  BY <1>1, <1>2, <1>4, CountIsNat DEF DoPut, File
<1> HIDE DEF at, rec
<1>6. /\ FilesOK' /\ ReopenAccepts'
      /\ \A g \in File \ {"images"} : Recs(g)' = Recs(g)
      /\ Count("images")' = Count("images")
      /\ \A j \in 1 .. Count("images") : j # at => Recs("images")'[j] = Recs("images")[j]
      /\ Recs("images")'[at] = rec
  BY <1>1, <1>2, <1>4, <1>5, PutDone DEF File
<1>7. Recs("faces")' = Recs("faces") /\ Photos' = Photos \cup {at}
  BY <1>4, <1>6 DEF File, Photos
<1> DEFINE v == w
<1>8. v \in ImageWrites /\ v = todo[1] /\ v \in ImagePuts /\ at = v.at /\ Recs("images")'[at] = v.rec
  BY <1>6 DEF ImageWrites, at, rec
<1>9. \A i \in Photos : i # at => Recs("images")'[i] = Recs("images")[i]
  BY <1>6 DEF Photos
<1>10. Done /\ UNCHANGED <<masters, acked>>
  BY DEF DoPut
<1> HIDE DEF v
<1> QED
  BY <1>1, <1>6, <1>7, <1>8, <1>9, <1>10, ImageWritten

LEMMA WriteKeeps ==
    ASSUME DurableInv, Write
    PROVE  DurableInv'
<1> DEFINE w == todo[1]
<1>1. todo # <<>> /\ Head(todo) = w /\ w \in AnyWrite
  BY Advances, HeadTailProperties, EmptySeq, LenProperties, ElementOfSeq DEF DurableInv, TypeOK, Write
<1>2. \/ DoAppend(w) \/ DoPut(w) \/ DoSetRef(w) \/ DoTombstone(w)
      \/ DoRecompute(w) \/ DoMaster(w) \/ DoAnswer(w)
  BY <1>1 DEF Write
<1>3. CASE DoAppend(w)
  BY <1>1, <1>3, Kinds, QuietAppend, FaceAppended, ImageAppended DEF DoAppend
<1>4. CASE DoPut(w)
  BY <1>1, <1>4, Kinds, QuietPut, ImageOverwritten DEF DoPut
<1>5. CASE DoSetRef(w)
  BY <1>1, <1>5, Kinds, QuietSetRef DEF DoSetRef
<1>6. CASE DoTombstone(w)
  BY <1>1, <1>6, Kinds, Tombstone DEF DoTombstone
<1>7. CASE DoRecompute(w)
  BY <1>1, <1>7, Kinds, QuietRecompute DEF DoRecompute
<1>8. CASE DoMaster(w)
  BY <1>1, <1>8, MasterDone
<1>9. CASE DoAnswer(w)
  BY <1>1, <1>9, Kinds, Answered DEF DoAnswer
<1> QED
  BY <1>2, <1>3, <1>4, <1>5, <1>6, <1>7, <1>8, <1>9

-----------------------------------------------------------------------------
(* Handlers *)

(* A handler that writes nothing photos or answers depend on.              *)
LEMMA QuietHandler ==
    ASSUME DurableInv, UNCHANGED <<file, masters>>, todo' \in Seq(Quiet), acked' \subseteq acked
    PROVE  DurableInv'
<1>1. /\ FilesOK /\ ReopenAccepts /\ TypeOK /\ UniqueLive /\ LivePhotosHaveMasters /\ AcknowledgedSurvive
  BY DEF DurableInv, TypeOK
<1>2. Recs("images")' = Recs("images") /\ Recs("faces")' = Recs("faces")
  BY DEF Recs
<1>3. LivePhotos' = LivePhotos /\ \A i : PhotoRows(i)' = PhotoRows(i)
  BY <1>2 DEF LivePhotos, Photos, PhotoRows, Rows, Face, Count
<1>4. FilesOK' /\ ReopenAccepts'
  BY <1>1 DEF FilesOK, ReopenAccepts, Count, Recs
<1>5. todo' \in Seq(AnyWrite)
  <2>1. Quiet \subseteq AnyWrite
    BY QuietIsQuiet
  <2> QED
    BY <2>1
<1>6. UniqueLive' /\ LivePhotosHaveMasters' /\ AcknowledgedSurvive'
  BY <1>1, <1>2, <1>3 DEF UniqueLive, LivePhotosHaveMasters, AcknowledgedSurvive, Image
<1>7. \A k \in Pending' : todo'[k] \in Quiet
  BY ElementOfSeq DEF Pending
<1>8. QueueInv'
  BY <1>7, QuietIsQuiet DEF QueueInv, ImagesFirst, UnlinksLate, AckedUntouched, AnswersLast
<1> QED
  BY <1>1, <1>4, <1>5, <1>6, <1>8 DEF DurableInv, TypeOK

(* What the handlers of photo i write between its slot and their end.      *)
Own(i) ==
    Quiet \cup {w \in FaceAppends : w.rec.image = i}
          \cup {w \in Tombs : w.at \in Rows => Face(w.at).image = i}

(* t starts with pre and continues with members of B.                      *)
Begins(t, pre, B) ==
    /\ t \in Seq(AnyWrite) /\ Len(pre) <= Len(t)
    /\ \A k \in 1 .. Len(pre) : t[k] = pre[k]
    /\ \A k \in Len(pre) + 1 .. Len(t) : t[k] \in B

LEMMA BeginsItself ==
    ASSUME NEW pre \in Seq(AnyWrite), NEW B
    PROVE  Begins(pre, pre, B)
BY LenProperties DEF Begins

LEMMA BeginsLonger ==
    ASSUME NEW pre \in Seq(AnyWrite), NEW B \in SUBSET AnyWrite, NEW t, Begins(t, pre, B), NEW b \in Seq(B)
    PROVE  Begins(t \o b, pre, B)
<1>1. b \in Seq(AnyWrite) /\ t \in Seq(AnyWrite) /\ Len(pre) \in Nat /\ Len(t) \in Nat /\ Len(b) \in Nat
  BY LenProperties DEF Begins
<1>2. /\ t \o b \in Seq(AnyWrite) /\ Len(t \o b) = Len(t) + Len(b)
      /\ \A k \in 1 .. Len(t) + Len(b) : (t \o b)[k] = IF k <= Len(t) THEN t[k] ELSE b[k - Len(t)]
  BY <1>1, ConcatProperties
<1>3. \A k \in 1 .. Len(b) : b[k] \in B
  BY ElementOfSeq
<1>4. \A k \in 1 .. Len(pre) : (t \o b)[k] = pre[k]
  BY <1>1, <1>2 DEF Begins
<1>5. ASSUME NEW k \in Len(pre) + 1 .. Len(t \o b)
      PROVE  (t \o b)[k] \in B
  <2>1. CASE k <= Len(t)
    BY <1>1, <1>2, <2>1 DEF Begins
  <2>2. CASE k > Len(t)
    BY <1>1, <1>2, <1>3, <2>2
  <2> QED
    BY <1>1, <1>2, <2>1, <2>2
<1> QED
  BY <1>1, <1>2, <1>4, <1>5 DEF Begins

(* What is asked of the queue, where the photos stay.                      *)
LEMMA QueueStated ==
    ASSUME PhotosSame
    PROVE  /\ (\A k \in Pending' : todo'[k] \in ImageWrites =>
                  /\ \/ k = 1 /\ (todo'[k].rec.live => todo'[k].rec.sha \in masters')
                     \/ k = 2 /\ todo'[1] = [op |-> "master", sha |-> todo'[k].rec.sha]
                  /\ todo'[k].rec.live =>
                        \A j \in LivePhotos : Recs("images")[j].sha = todo'[k].rec.sha => todo'[k] \in ImagePuts /\ todo'[k].at = j
                  /\ todo'[k] \in ImagePuts => todo'[k].at \in Photos /\ \A a \in acked' : a.photo # todo'[k].at)
              => ImagesFirst'
           /\ (\A k \in Pending' : todo'[k] \in Unlinks =>
                  /\ \A j \in LivePhotos : Recs("images")[j].sha = todo'[k].sha =>
                        \E x \in 1 .. k - 1 : todo'[x] \in ImagePuts /\ todo'[x].at = j
                  /\ \A j \in Pending' : todo'[j] \in ImageWrites /\ todo'[j].rec.live =>
                        todo'[j].rec.sha # todo'[k].sha)
              => UnlinksLate'
<1>1. Recs("images")' = Recs("images") /\ LivePhotos' = LivePhotos /\ Photos' = Photos
  BY SameViews DEF PhotosSame
<1> QED
  BY <1>1 DEF ImagesFirst, UnlinksLate, Image, WriteMaster

(* The handlers of a photo: its master if it has a new one, its slot, what *)
(* is its own, and at the end the master it no longer needs and the answer.*)
LEMMA PhotoHandler ==
    ASSUME DurableInv, UNCHANGED <<file, masters>>, acked' \subseteq acked,
           NEW i \in Nat, \A a \in acked' : a.photo # i,
           NEW w \in ImageWrites, NEW pre \in Seq(AnyWrite), pre[Len(pre)] = w,
           \/ Len(pre) = 1 /\ ~ w.rec.live
           \/ Len(pre) = 2 /\ pre[1] = WriteMaster(w.rec.sha) /\ pre[1] \in MasterWrites,
           w.rec.live => \A j \in LivePhotos : Image(j).sha # w.rec.sha,
           w \in ImagePuts => w.at = i /\ i \in Photos,
           w \in ImageAppends => i = Count("images") + 1,
           NEW t, Begins(t, pre, Own(i)), NEW post \in Seq(Unlinks \cup Answers), todo' = t \o post,
           \A k \in 1 .. Len(post) : post[k] \in Unlinks =>
               /\ w \in ImagePuts /\ \A j \in LivePhotos : Image(j).sha = post[k].sha => j = i
               /\ w.rec.live => w.rec.sha # post[k].sha,
           \A k \in 1 .. Len(post) : post[k] \in Answers =>
               k = Len(post) /\ post[k].photo = i /\ w.rec = [sha |-> post[k].sha, live |-> TRUE]
    PROVE  DurableInv'
<1>1. /\ FilesOK /\ ReopenAccepts /\ TypeOK /\ UniqueLive /\ LivePhotosHaveMasters /\ AcknowledgedSurvive
  BY DEF DurableInv, TypeOK
<1>2. Recs("images")' = Recs("images") /\ Recs("faces")' = Recs("faces")
  BY DEF Recs
<1>3. /\ LivePhotos' = LivePhotos /\ Photos' = Photos /\ Rows' = Rows
      /\ \A x : PhotoRows(x)' = PhotoRows(x)
  BY <1>2 DEF LivePhotos, Photos, PhotoRows, Rows, Face, Count
<1>4. FilesOK' /\ ReopenAccepts'
  BY <1>1 DEF FilesOK, ReopenAccepts, Count, Recs
<1>5. UniqueLive' /\ LivePhotosHaveMasters' /\ AcknowledgedSurvive'
  BY <1>1, <1>2, <1>3 DEF UniqueLive, LivePhotosHaveMasters, AcknowledgedSurvive, Image
<1> DEFINE p == Len(pre)
           n == Len(t)
           m == Len(post)
<1>6. /\ p \in {1, 2} /\ n \in Nat /\ m \in Nat /\ p <= n /\ t \in Seq(AnyWrite) /\ pre[p] = w
      /\ (\A k \in 1 .. p : t[k] = pre[k]) /\ (\A k \in p + 1 .. n : t[k] \in Own(i))
  BY LenProperties DEF Begins
<1>7. Unlinks \cup Answers \subseteq AnyWrite /\ post \in Seq(AnyWrite)
  BY DEF AnyWrite
<1>8. /\ todo' \in Seq(AnyWrite) /\ Len(todo') = n + m
      /\ \A k \in 1 .. n + m : todo'[k] = IF k <= n THEN t[k] ELSE post[k - n]
  BY <1>6, <1>7, ConcatProperties
<1> HIDE DEF p, n, m
<1>9. /\ Pending' = 1 .. n + m /\ p \in Pending' /\ todo'[p] = w
      /\ p = 2 => todo'[1] = pre[1]
  <2>1. \A k \in 1 .. p : k \in 1 .. n + m /\ k <= n /\ t[k] = pre[k]
    BY <1>6
  <2>2. \A k \in 1 .. p : todo'[k] = pre[k]
    BY <1>8, <2>1
  <2>3. p \in 1 .. p /\ 1 \in 1 .. p
    BY <1>6
  <2> QED
    BY <1>6, <1>8, <2>1, <2>2, <2>3 DEF Pending
<1>10. \A k \in Pending' : \/ k = p /\ todo'[k] = w
                           \/ k < p /\ k = 1 /\ p = 2 /\ todo'[k] = pre[1] /\ pre[1] \in MasterWrites
                           \/ todo'[k] \in Own(i)
                           \/ k > n /\ k - n \in 1 .. m /\ todo'[k] = post[k - n] /\ post[k - n] \in Unlinks \cup Answers
  <2> SUFFICES ASSUME NEW k \in 1 .. n + m
               PROVE  \/ k = p /\ todo'[k] = w
                      \/ k < p /\ k = 1 /\ p = 2 /\ todo'[k] = pre[1] /\ pre[1] \in MasterWrites
                      \/ todo'[k] \in Own(i)
                      \/ k > n /\ k - n \in 1 .. m /\ todo'[k] = post[k - n] /\ post[k - n] \in Unlinks \cup Answers
    BY <1>9
  <2>1. CASE k <= p
    <3>1. k = p \/ (k = 1 /\ p = 2 /\ k < p)
      BY <1>6, <2>1
    <3>2. p = 2 => pre[1] \in MasterWrites
      BY DEF p
    <3> QED
      BY <1>9, <3>1, <3>2
  <2>2. CASE p < k /\ k <= n
    <3>1. k \in p + 1 .. n /\ todo'[k] = t[k]
      BY <1>6, <1>8, <2>2
    <3> QED
      BY <1>6, <3>1
  <2>3. CASE n < k
    <3>1. k - n \in 1 .. m /\ todo'[k] = post[k - n]
      BY <1>6, <1>8, <2>3
    <3>2. post[k - n] \in Unlinks \cup Answers
      BY <3>1, ElementOfSeq DEF m
    <3> QED
      BY <2>3, <3>1, <3>2
  <2>4. k <= p \/ (p < k /\ k <= n) \/ n < k
    BY <1>6
  <2> QED
    BY <2>1, <2>2, <2>3, <2>4
<1>11. \A u : u \in ImageWrites => u \notin MasterWrites /\ u \notin Own(i) /\ u \notin Unlinks \cup Answers
  BY DEF ImageWrites, ImageAppends, ImagePuts, MasterWrites, Own, Quiet, Numbers, FaceAppends, Tombs, Unlinks, Answers
<1>12. \A u : u \in Unlinks \cup Answers => u \notin MasterWrites /\ u \notin Own(i)
  BY DEF MasterWrites, Own, Quiet, FaceAppends, Tombs, Unlinks, Answers
<1>13. \A u : u \in FaceAppends \cup Tombs => u \notin MasterWrites /\ u \notin ImageWrites /\ u \notin Unlinks \cup Answers
  BY DEF ImageWrites, ImageAppends, ImagePuts, MasterWrites, FaceAppends, Tombs, Unlinks, Answers
<1>14. \A k \in Pending' : todo'[k] \in ImageWrites => k = p /\ todo'[k] = w
  BY <1>10, <1>11
<1>15. \A k \in Pending' : todo'[k] \in Unlinks \cup Answers =>
                              k - n \in 1 .. m /\ todo'[k] = post[k - n] /\ p \in 1 .. k - 1
  <2> SUFFICES ASSUME NEW k \in Pending', todo'[k] \in Unlinks \cup Answers
               PROVE  k - n \in 1 .. m /\ todo'[k] = post[k - n] /\ p \in 1 .. k - 1
    OBVIOUS
  <2>1. k > n /\ k - n \in 1 .. m /\ todo'[k] = post[k - n]
    BY <1>10, <1>11, <1>12
  <2>2. k \in Nat
    BY <1>6, <1>9
  <2> QED
    BY <1>6, <2>1, <2>2
<1>16. \A k \in Pending' : todo'[k] \in FaceAppends \cup Tombs => todo'[k] \in Own(i)
  BY <1>10, <1>13
<1>17. ImagesFirst'
  <2>1. \/ p = 1 /\ ~ w.rec.live
        \/ p = 2 /\ todo'[1] = WriteMaster(w.rec.sha)
    BY <1>9 DEF p
  <2>2. ASSUME NEW k \in Pending', todo'[k] \in ImageWrites
        PROVE  /\ \/ k = 1 /\ (todo'[k].rec.live => todo'[k].rec.sha \in masters')
                  \/ k = 2 /\ todo'[1] = [op |-> "master", sha |-> todo'[k].rec.sha]
               /\ todo'[k].rec.live =>
                     \A j \in LivePhotos : Recs("images")[j].sha = todo'[k].rec.sha => todo'[k] \in ImagePuts /\ todo'[k].at = j
               /\ todo'[k] \in ImagePuts => todo'[k].at \in Photos /\ \A a \in acked' : a.photo # todo'[k].at
    <3>1. k = p /\ todo'[k] = w
      BY <1>14, <2>2
    <3> QED
      BY <2>1, <3>1 DEF Image, WriteMaster
  <2>3. PhotosSame
    BY <1>2 DEF PhotosSame
  <2> QED
    BY <2>2, <2>3, QueueStated
<1>18. UnlinksLate'
  <2>1. ASSUME NEW k \in Pending', todo'[k] \in Unlinks
        PROVE  /\ \A j \in LivePhotos : Recs("images")[j].sha = todo'[k].sha =>
                     \E x \in 1 .. k - 1 : todo'[x] \in ImagePuts /\ todo'[x].at = j
               /\ \A j \in Pending' : todo'[j] \in ImageWrites /\ todo'[j].rec.live =>
                     todo'[j].rec.sha # todo'[k].sha
    <3>1. k - n \in 1 .. m /\ todo'[k] = post[k - n] /\ p \in 1 .. k - 1
      BY <1>15, <2>1
    <3>2. /\ w \in ImagePuts /\ \A j \in LivePhotos : Image(j).sha = todo'[k].sha => j = i
          /\ w.rec.live => w.rec.sha # todo'[k].sha
      BY <2>1, <3>1 DEF m
    <3> QED
      BY <1>9, <1>14, <3>1, <3>2 DEF Image
  <2>2. PhotosSame
    BY <1>2 DEF PhotosSame
  <2> QED
    BY <2>1, <2>2, QueueStated
<1>19. AckedUntouched'
  <2> SUFFICES ASSUME NEW a \in acked', NEW k \in Pending', todo'[k] \in FaceAppends \cup Tombs
               PROVE  /\ todo'[k] \in FaceAppends => todo'[k].rec.image # a.photo
                      /\ todo'[k] \in Tombs /\ todo'[k].at \in Rows => Recs("faces")[todo'[k].at].image # a.photo
    BY <1>2, <1>3 DEF AckedUntouched, Face
  <2>1. todo'[k] \in Own(i)
    BY <1>16
  <2>2. todo'[k] \in FaceAppends => todo'[k].rec.image = i
    BY <2>1 DEF Own, Quiet, Numbers, FaceAppends, Tombs
  <2>3. todo'[k] \in Tombs /\ todo'[k].at \in Rows => Recs("faces")[todo'[k].at].image = i
    BY <2>1 DEF Own, Quiet, FaceAppends, Tombs, Face
  <2> QED
    BY <2>2, <2>3
<1>20. AnswersLast'
  <2>1. ASSUME NEW k \in Pending', todo'[k] \in Answers
        PROVE  /\ k = Len(todo')
               /\ \E j \in 1 .. k - 1 :
                     /\ todo'[j] \in ImageWrites /\ todo'[j].rec = [sha |-> todo'[k].sha, live |-> TRUE]
                     /\ \/ todo'[j] \in ImagePuts /\ todo'[j].at = todo'[k].photo
                        \/ todo'[j] \in ImageAppends /\ todo'[k].photo = Count("images") + 1
    <3> DEFINE v == todo'[k]
    <3>1. k - n \in 1 .. m /\ v = post[k - n] /\ p \in 1 .. k - 1
      BY <1>15, <2>1
    <3>2. k - n = m /\ v.photo = i /\ w.rec = [sha |-> v.sha, live |-> TRUE]
      BY <2>1, <3>1 DEF m
    <3>3. k = Len(todo')
      <4>1. k \in Nat
        BY <1>6, <1>9
      <4> QED
        BY <1>6, <1>8, <3>2, <4>1
    <3>4. \/ w \in ImagePuts /\ w.at = v.photo
          \/ w \in ImageAppends /\ v.photo = Count("images") + 1
      BY <3>2 DEF ImageWrites
    <3> HIDE DEF v
    <3> QED
      BY <1>9, <3>1, <3>2, <3>3, <3>4 DEF v
  <2>2. Count("images")' = Count("images")
    BY <1>2 DEF Count
  <2> QED
    BY <2>1, <2>2 DEF AnswersLast
<1>21. TypeOK'
  BY <1>1, <1>4, <1>8 DEF TypeOK
<1> QED
  BY <1>4, <1>5, <1>17, <1>18, <1>19, <1>20, <1>21 DEF DurableInv, QueueInv

LEMMA QuietOnes ==
    /\ \A r, id \in Nat : SetRef(r, id) \in Quiet /\ Recompute(id) \in Quiet
    /\ \A f \in {"embs", "i8"}, k, rec \in Nat : Put(f, k, rec) \in Quiet
    /\ \A f \in Numbers, rec \in Nat : Append_(f, rec) \in Quiet
    /\ \A rec \in FreshId : Append_("identities", rec) \in Quiet
BY DEF Quiet, Numbers, SetRef, Recompute, Put, Append_

LEMMA One ==
    ASSUME NEW X
    PROVE  /\ <<>> \in Seq(X)
           /\ \A x \in X : <<x>> \in Seq(X)
           /\ \A x, y \in X : <<x, y>> \in Seq(X)
           /\ \A x, y, z \in X : <<x, y, z>> \in Seq(X)
BY EmptySeq

(* A loop writes what each of its rounds writes.                           *)
LEMMA Looped ==
    ASSUME NEW X, NEW n \in Nat, NEW ss, ss = [k \in 1 .. n |-> ss[k]], \A k \in 1 .. n : ss[k] \in Seq(X)
    PROVE  FlattenSeq(ss) \in Seq(X)
<1>1. ss \in Seq(Seq(X))
  <2>1. ss \in [1 .. n -> Seq(X)]
    OBVIOUS
  <2> QED
    BY <2>1, SeqDef
<1> QED
  BY <1>1, FlattenType

LEMMA MovesQuiet ==
    ASSUME FilesOK, NEW rows, NEW id \in Nat
    PROVE  Moves(rows, id) \in Seq(Quiet)
<1> DEFINE ss == [k \in 1 .. Count("faces") |-> IF k \in rows THEN <<SetRef(k, id)>> ELSE <<>>]
<1>1. Count("faces") \in Nat
  BY CountIsNat DEF File
<1>2. \A k \in 1 .. Count("faces") : ss[k] \in Seq(Quiet)
  BY QuietOnes, One
<1>3. ss = [k \in 1 .. Count("faces") |-> ss[k]]
  OBVIOUS
<1>4. Moves(rows, id) = FlattenSeq(ss)
  BY DEF Moves, ForEach
<1> HIDE DEF ss
<1> QED
  BY <1>1, <1>2, <1>3, <1>4, Looped

Recomputes(n, S) == ForEach(n, S, LAMBDA id : <<Recompute(id)>>)

LEMMA RecomputesQuiet ==
    ASSUME NEW n \in Nat, NEW S
    PROVE  Recomputes(n, S) \in Seq(Quiet)
<1> DEFINE ss == [k \in 1 .. n |-> IF k \in S THEN <<Recompute(k)>> ELSE <<>>]
<1>1. \A k \in 1 .. n : ss[k] \in Seq(Quiet)
  BY QuietOnes, One
<1>2. ss = [k \in 1 .. n |-> ss[k]]
  OBVIOUS
<1>3. Recomputes(n, S) = FlattenSeq(ss)
  BY DEF Recomputes, ForEach
<1> HIDE DEF ss
<1> QED
  BY <1>1, <1>2, <1>3, Looped

LEMMA NewIdentityQuiet ==
    ASSUME NEW id \in Nat
    PROVE  NewIdentity(id) \in Seq(Quiet)
<1>1. [live |-> TRUE, size |-> 0] \in FreshId
  BY DEF FreshId
<1> QED
  BY <1>1, QuietOnes, One DEF NewIdentity, Numbers

LEMMA FillUpToQuiet ==
    ASSUME FilesOK, NEW f \in Numbers, NEW rows \in Nat
    PROVE  FillUpTo(f, rows) \in Seq(Quiet)
<1> DEFINE n == IF rows > Count(f) THEN rows - Count(f) ELSE 0
<1>1. Count(f) \in Nat
  BY CountIsNat DEF File, Numbers
<1>2. n \in Nat
  BY <1>1
<1>3. \A k \in 1 .. n : Append_(f, Count(f) + k) \in Quiet
  BY <1>1, <1>2, QuietOnes
<1> HIDE DEF n
<1>4. [k \in 1 .. n |-> Append_(f, Count(f) + k)] \in [1 .. n -> Quiet]
  BY <1>3
<1> QED
  BY <1>2, <1>4, SeqDef DEF FillUpTo, n

LEMMA StartQuiet ==
    ASSUME FilesOK
    PROVE  StartWrites \in Seq(Quiet)
<1> DEFINE rows == Least(Count("embs"), Count("faces"))
           n    == Count("i8")
           ss   == [k \in 1 .. n |-> IF k \in 1 .. n THEN <<Put("i8", k, Recs("embs")[k])>> ELSE <<>>]
<1>1. /\ Count("embs") \in Nat /\ Count("faces") \in Nat /\ n \in Nat /\ Count("identities") \in Nat
      /\ Recs("embs") \in Seq(Nat)
  BY CountIsNat DEF FilesOK, Numbers, File
<1>2. rows \in Nat /\ rows <= Count("embs")
  BY <1>1 DEF Least
<1>3. FillUpTo("i8", rows) \in Seq(Quiet) /\ FillUpTo("centroids", Count("identities")) \in Seq(Quiet)
  BY <1>1, <1>2, FillUpToQuiet DEF Numbers
<1> HIDE DEF rows, n
<1>4. n < rows => FlattenSeq(ss) \in Seq(Quiet)
  <2> SUFFICES ASSUME n < rows PROVE FlattenSeq(ss) \in Seq(Quiet)
    OBVIOUS
  <2>1. \A k \in 1 .. n : Recs("embs")[k] \in Nat
    BY <1>1, <1>2, ElementOfSeq DEF Count
  <2>2. \A k \in 1 .. n : ss[k] \in Seq(Quiet)
    BY <2>1, QuietOnes, One
  <2>3. ss = [k \in 1 .. n |-> ss[k]]
    OBVIOUS
  <2> HIDE DEF ss
  <2> QED
    BY <1>1, <2>2, <2>3, Looped
<1>5. AlignFiles = FillUpTo("i8", rows) \o (IF n < rows THEN FlattenSeq(ss) ELSE <<>>)
                      \o FillUpTo("centroids", Count("identities"))
  BY DEF AlignFiles, ForEach, rows, n
<1> HIDE DEF ss
<1>6. (IF n < rows THEN FlattenSeq(ss) ELSE <<>>) \in Seq(Quiet)
  BY <1>4, One
<1>7. AlignFiles \in Seq(Quiet)
  BY <1>3, <1>5, <1>6, ConcatProperties
<1>8. ClearDangling \in Seq(Quiet)
  BY MovesQuiet DEF ClearDangling
<1>9. Recount \in Seq(Quiet)
  BY <1>1, RecomputesQuiet DEF Recount, Recomputes
<1> QED
  BY <1>7, <1>8, <1>9, ConcatProperties DEF StartWrites

LEMMA KillKeeps ==
    ASSUME DurableInv, Kill
    PROVE  DurableInv'
BY StartQuiet, QuietHandler DEF Kill, DurableInv, TypeOK

LEMMA LiveIdsNat ==
    ASSUME FilesOK
    PROVE  LiveIds \subseteq Nat /\ \A id \in LiveIds : id <= Count("identities")
BY CountIsNat DEF LiveIds, Ids, File

LEMMA SplitKeeps ==
    ASSUME DurableInv, NEW id \in LiveIds, NEW moving, Split(id, moving)
    PROVE  DurableInv'
<1> DEFINE nid == Count("identities") + 1
<1>1. FilesOK /\ Count("identities") \in Nat /\ nid \in Nat /\ id \in Nat
  BY CountIsNat, LiveIdsNat DEF DurableInv, TypeOK, File
<1>2. NewIdentity(nid) \in Seq(Quiet) /\ Moves(moving, nid) \in Seq(Quiet) /\ <<Recompute(id), Recompute(nid)>> \in Seq(Quiet)
  BY <1>1, NewIdentityQuiet, MovesQuiet, QuietOnes, One
<1>3. todo' = NewIdentity(nid) \o Moves(moving, nid) \o <<Recompute(id), Recompute(nid)>>
  BY DEF Split, Handle
<1> HIDE DEF nid
<1>4. todo' \in Seq(Quiet)
  BY <1>2, <1>3, ConcatProperties
<1> QED
  BY <1>4, QuietHandler DEF Split, Handle

LEMMA MergeKeeps ==
    ASSUME DurableInv, NEW target \in LiveIds, NEW src \in LiveIds, Merge(target, src)
    PROVE  DurableInv'
<1>1. FilesOK /\ target \in Nat /\ src \in Nat
  BY LiveIdsNat DEF DurableInv, TypeOK
<1>2. Moves(MembersOf(src), target) \in Seq(Quiet) /\ <<Recompute(src), Recompute(target)>> \in Seq(Quiet)
  BY <1>1, MovesQuiet, QuietOnes, One
<1>3. todo' = Moves(MembersOf(src), target) \o <<Recompute(src), Recompute(target)>>
  BY DEF Merge, Handle
<1>4. todo' \in Seq(Quiet)
  BY <1>2, <1>3, ConcatProperties
<1> QED
  BY <1>4, QuietHandler DEF Merge, Handle

LEMMA DissolveKeeps ==
    ASSUME DurableInv, NEW id \in LiveIds, Dissolve(id)
    PROVE  DurableInv'
<1>1. FilesOK /\ id \in Nat /\ 0 \in Nat
  BY LiveIdsNat DEF DurableInv, TypeOK
<1>2. Moves(MembersOf(id), 0) \in Seq(Quiet) /\ <<Recompute(id)>> \in Seq(Quiet)
  BY <1>1, MovesQuiet, QuietOnes, One
<1>3. todo' = Moves(MembersOf(id), 0) \o <<Recompute(id)>>
  BY DEF Dissolve, Handle
<1>4. todo' \in Seq(Quiet)
  BY <1>2, <1>3, ConcatProperties
<1> QED
  BY <1>4, QuietHandler DEF Dissolve, Handle

(* A face leaves its identity, or joins one.                               *)
LEMMA ComingsAndGoings ==
    ASSUME FilesOK, NEW r \in Nat, NEW id \in Nat
    PROVE  /\ Join(r, id) \in Seq(Quiet)
           /\ r \in Rows => Leave(r) \in Seq(Quiet)
<1>1. Join(r, id) \in Seq(Quiet)
  BY QuietOnes, One DEF Join
<1>2. r \in Rows => Leave(r) \in Seq(Quiet)
  <2>1. r \in Rows => Face(r).ref \in Nat
    BY FaceTyped DEF FaceRec
  <2> QED
    BY <2>1, QuietOnes, One DEF Leave
<1> QED
  BY <1>1, <1>2

LEMMA AssignFaceKeeps ==
    ASSUME DurableInv, NEW r \in Rows, NEW id \in LiveIds \cup {0}, AssignFace(r, id)
    PROVE  DurableInv'
<1>1. FilesOK /\ id \in Nat /\ r \in Nat
  BY LiveIdsNat DEF DurableInv, TypeOK, Rows
<1>2. Leave(r) \in Seq(Quiet) /\ Join(r, id) \in Seq(Quiet)
  BY <1>1, ComingsAndGoings
<1>3. todo' = Leave(r) \o Join(r, id)
  BY DEF AssignFace, Handle
<1>4. todo' \in Seq(Quiet)
  BY <1>2, <1>3, ConcatProperties
<1> QED
  BY <1>4, QuietHandler DEF AssignFace, Handle

(* The new identities of a labelling.                                      *)
Creates(fresh) == FlattenSeq([k \in 1 .. fresh |-> NewIdentity(Count("identities") + k)])

LEMMA CreatesQuiet ==
    ASSUME FilesOK, NEW fresh \in Nat
    PROVE  Creates(fresh) \in Seq(Quiet)
<1> DEFINE ss == [k \in 1 .. fresh |-> NewIdentity(Count("identities") + k)]
<1>1. Count("identities") \in Nat
  BY CountIsNat DEF File
<1>2. \A k \in 1 .. fresh : ss[k] \in Seq(Quiet)
  BY <1>1, NewIdentityQuiet
<1>3. ss = [k \in 1 .. fresh |-> ss[k]]
  OBVIOUS
<1>4. Creates(fresh) = FlattenSeq(ss)
  BY DEF Creates
<1> HIDE DEF ss
<1> QED
  BY <1>2, <1>3, <1>4, Looped

LEMMA ApplyLabelsKeeps ==
    ASSUME DurableInv, NEW n \in Nat, NEW fresh \in 0 .. MaxIds, NEW label \in [1 .. n -> 0 .. MaxIds],
           ApplyLabels(label, fresh)
    PROVE  DurableInv'
<1> DEFINE ids  == Count("identities")
           m    == Count("faces")
           rows == {r \in DOMAIN label : Face(r).live}
           kept == {r \in EmbeddedRows \ DOMAIN label : Face(r).live}
           used == {label[r] : r \in rows} \cup {Face(r).ref : r \in kept}
           ss   == [k \in 1 .. m |-> IF k \in rows THEN <<SetRef(k, label[k])>> ELSE <<>>]
           S    == used \cup LiveIds \cup (ids + 1 .. ids + fresh)
<1>1. FilesOK /\ ids \in Nat /\ fresh \in Nat /\ ids + fresh \in Nat /\ m \in Nat
  BY CountIsNat, DurabilityBounds DEF DurableInv, TypeOK, File
<1>2. \A r \in rows : label[r] \in Nat
  BY DurabilityBounds
<1>3. \A k \in 1 .. m : ss[k] \in Seq(Quiet)
  <2> SUFFICES ASSUME NEW k \in 1 .. m PROVE ss[k] \in Seq(Quiet)
    OBVIOUS
  <2> HIDE DEF rows
  <2>1. k \in Nat
    OBVIOUS
  <2> QED
    BY <1>2, <2>1, QuietOnes, One
<1>4. ss = [k \in 1 .. m |-> ss[k]]
  OBVIOUS
<1>5. todo' = Creates(fresh) \o FlattenSeq(ss) \o Recomputes(ids + fresh, S)
  BY DEF ApplyLabels, Handle, ForEach, Recomputes, Creates
<1> HIDE DEF ss, S, m, ids
<1>6. /\ Creates(fresh) \in Seq(Quiet) /\ FlattenSeq(ss) \in Seq(Quiet)
      /\ Recomputes(ids + fresh, S) \in Seq(Quiet)
  BY <1>1, <1>3, <1>4, Looped, RecomputesQuiet, CreatesQuiet
<1>7. todo' \in Seq(Quiet)
  BY <1>5, <1>6, ConcatProperties
<1> QED
  BY <1>7, QuietHandler DEF ApplyLabels, Handle

LEMMA OwnWrites ==
    ASSUME NEW i
    PROVE  /\ Quiet \subseteq Own(i) /\ Own(i) \subseteq AnyWrite
           /\ Seq(Quiet) \subseteq Seq(Own(i))
<1>1. Quiet \subseteq Own(i)
  BY DEF Own
<1>2. Own(i) \subseteq AnyWrite
  BY DEF Own, AnyWrite
<1> HIDE DEF Own
<1> QED
  BY <1>1, <1>2

LEMMA AppendFaceOwn ==
    ASSUME FilesOK, NEW r \in Nat, NEW i \in Nat, NEW id \in Nat
    PROVE  AppendFace(r, i, id) \in Seq(Own(i))
<1> DEFINE a == Append_("faces", [image |-> i, live |-> TRUE, ref |-> 0])
<1>1. a \in Own(i)
  <2>1. [image |-> i, live |-> TRUE, ref |-> 0] \in FreshFace
    BY DEF FreshFace
  <2>2. a \in FaceAppends /\ a.rec.image = i
    BY <2>1 DEF FaceAppends, Append_
  <2> QED
    BY <2>2 DEF Own
<1>2. Append_("embs", r) \in Own(i) /\ Append_("i8", r) \in Own(i)
  BY QuietOnes, OwnWrites DEF Numbers
<1> HIDE DEF a
<1>3. Join(r, id) \in Seq(Own(i))
  BY ComingsAndGoings, OwnWrites
<1>4. <<a, Append_("embs", r), Append_("i8", r)>> \in Seq(Own(i))
  BY <1>1, <1>2, One
<1>5. AppendFace(r, i, id) = <<a, Append_("embs", r), Append_("i8", r)>> \o Join(r, id)
  BY DEF AppendFace, a
<1> QED
  BY <1>3, <1>4, <1>5, ConcatProperties

Drops(S) == ForEach(Count("faces"), S, Drop)

LEMMA DropsOwn ==
    ASSUME FilesOK, NEW i, NEW S \in SUBSET PhotoRows(i)
    PROVE  Drops(S) \in Seq(Own(i))
<1> DEFINE n  == Count("faces")
           ss == [k \in 1 .. n |-> IF k \in S THEN Drop(k) ELSE <<>>]
<1>1. n \in Nat
  BY CountIsNat DEF File
<1>2. ASSUME NEW k \in 1 .. n
      PROVE  ss[k] \in Seq(Own(i))
  <2>1. CASE k \in S
    <3>1. k \in Rows /\ Face(k).image = i /\ Face(k).ref \in Nat /\ k \in Nat
      BY <2>1, FaceTyped DEF PhotoRows, FaceRec, Rows
    <3>2. Leave(k) \in Seq(Quiet)
      BY <3>1, QuietOnes, One DEF Leave
    <3>3. TombFace(k) \in Own(i)
      BY <3>1 DEF TombFace, Own, Tombs
    <3>4. Leave(k) \in Seq(Own(i)) /\ <<TombFace(k)>> \in Seq(Own(i))
      BY <3>2, <3>3, OwnWrites, One
    <3>5. Leave(k) \o <<TombFace(k)>> \in Seq(Own(i))
      BY <3>4, ConcatProperties
    <3> QED
      BY <2>1, <3>5 DEF Drop
  <2>2. CASE k \notin S
    BY <2>2, One
  <2> QED
    BY <2>1, <2>2
<1>3. ss = [k \in 1 .. n |-> ss[k]]
  OBVIOUS
<1>4. Drops(S) = FlattenSeq(ss)
  BY DEF Drops, ForEach
<1> HIDE DEF ss, n
<1> QED
  BY <1>1, <1>2, <1>3, <1>4, Looped

LEMMA RemapsQuiet ==
    ASSUME FilesOK, NEW to, \A q \in DOMAIN to : to[q] \in Nat
    PROVE  Remaps(to) \in Seq(Quiet)
<1> DEFINE n  == Count("faces")
           ss == [k \in 1 .. n |-> IF k \in DOMAIN to THEN Remap(k, to[k]) ELSE <<>>]
<1>1. n \in Nat
  BY CountIsNat DEF File
<1>2. ASSUME NEW k \in 1 .. n
      PROVE  ss[k] \in Seq(Quiet)
  <2>1. CASE k \in DOMAIN to
    <3> DEFINE moves == IF to[k] = 0 THEN Leave(k) ELSE IF Face(k).ref = 0 THEN Join(k, to[k]) ELSE <<>>
    <3>1. k \in Rows /\ k \in Nat /\ to[k] \in Nat
      BY <2>1 DEF Rows
    <3>2. moves \in Seq(Quiet)
      BY <3>1, ComingsAndGoings, One
    <3>3. <<Put("embs", k, k), Put("i8", k, k)>> \in Seq(Quiet)
      BY <3>1, QuietOnes, One
    <3>4. ss[k] = <<Put("embs", k, k), Put("i8", k, k)>> \o moves
      BY <2>1 DEF Remap
    <3> HIDE DEF moves
    <3> QED
      BY <3>2, <3>3, <3>4, ConcatProperties
  <2>2. CASE k \notin DOMAIN to
    BY <2>2, One
  <2> QED
    BY <2>1, <2>2
<1>3. ss = [k \in 1 .. n |-> ss[k]]
  OBVIOUS
<1>4. Remaps(to) = FlattenSeq(ss)
  BY DEF Remaps, ForEach
<1> HIDE DEF ss, n
<1> QED
  BY <1>1, <1>2, <1>3, <1>4, Looped

LEMMA AnsweredArePhotos ==
    ASSUME DurableInv
    PROVE  \A a \in acked : a.photo \in Photos
BY DEF DurableInv, AcknowledgedSurvive, LivePhotos

LEMMA InsertKeeps ==
    ASSUME DurableInv, NEW s \in Sha, NEW id \in LiveIds \cup {0}, Insert(s, id)
    PROVE  DurableInv'
<1> DEFINE i    == Count("images") + 1
           r    == Count("faces") + 1
           w    == Append_("images", [sha |-> s, live |-> TRUE])
           pre  == <<WriteMaster(s), w>>
           t    == pre \o AppendFace(r, i, id)
           post == <<Answer(i, s)>>
<1>1. FilesOK /\ i \in Nat /\ r \in Nat /\ id \in Nat /\ i \notin Photos
  BY CountIsNat, LiveIdsNat DEF DurableInv, TypeOK, File, Photos
<1>2. /\ todo' = t \o post /\ UNCHANGED <<file, masters, acked>>
      /\ \A j \in LivePhotos : Image(j).sha # s
  BY DEF Insert, Handle, Unknown, Image
<1>3. /\ w \in ImageAppends /\ w \in ImageWrites /\ w \notin ImagePuts
      /\ w.rec = [sha |-> s, live |-> TRUE] /\ w.rec.live /\ w.rec.sha = s
      /\ WriteMaster(s) \in MasterWrites
  BY DEF Append_, ImageAppends, ImageWrites, ImagePuts, ImageRec, WriteMaster, MasterWrites
<1> HIDE DEF w
<1>4. pre \in Seq(AnyWrite) /\ Len(pre) = 2 /\ pre[1] = WriteMaster(s) /\ pre[2] = w
  <2>1. w \in AnyWrite /\ WriteMaster(s) \in AnyWrite
    BY <1>3 DEF AnyWrite
  <2> QED
    BY <2>1, One
<1> HIDE DEF pre
<1>5. Begins(t, pre, Own(i))
  BY <1>1, <1>4, AppendFaceOwn, OwnWrites, BeginsItself, BeginsLonger
<1>6. /\ post \in Seq(Unlinks \cup Answers) /\ Len(post) = 1
      /\ post[1] \in Answers /\ post[1] \notin Unlinks /\ post[1].photo = i /\ post[1].sha = s
  <2>1. /\ Answer(i, s) \in Answers /\ Answer(i, s) \notin Unlinks
        /\ Answer(i, s).photo = i /\ Answer(i, s).sha = s
    BY <1>1 DEF Answer, Answers, Unlinks
  <2> QED
    BY <2>1, One
<1>7. \A a \in acked' : a.photo # i
  BY <1>1, <1>2, AnsweredArePhotos
<1>8. \A k \in 1 .. Len(post) : k = 1
  BY <1>6
<1>9. i = Count("images") + 1
  OBVIOUS
<1> HIDE DEF t, post, i
<1>10. \A k \in 1 .. Len(post) : post[k] \in Unlinks =>
               /\ w \in ImagePuts /\ \A j \in LivePhotos : Image(j).sha = post[k].sha => j = i
               /\ w.rec.live => w.rec.sha # post[k].sha
  BY <1>6, <1>8
<1>11. \A k \in 1 .. Len(post) : post[k] \in Answers =>
               k = Len(post) /\ post[k].photo = i /\ w.rec = [sha |-> post[k].sha, live |-> TRUE]
  BY <1>3, <1>6, <1>8
<1>12. \/ Len(pre) = 1 /\ ~ w.rec.live
       \/ Len(pre) = 2 /\ pre[1] = WriteMaster(w.rec.sha) /\ pre[1] \in MasterWrites
  BY <1>3, <1>4
<1>13. pre[Len(pre)] = w /\ acked' \subseteq acked /\ (w.rec.live => \A j \in LivePhotos : Image(j).sha # w.rec.sha)
  BY <1>2, <1>3, <1>4
<1> QED
  BY <1>1, <1>2, <1>3, <1>4, <1>5, <1>6, <1>7, <1>9, <1>10, <1>12, <1>13, <1>11, PhotoHandler

LEMMA RemoveImageKeeps ==
    ASSUME DurableInv, NEW i \in LivePhotos, RemoveImage(i)
    PROVE  DurableInv'
<1> DEFINE s    == Image(i).sha
           w    == Put("images", i, [sha |-> s, live |-> FALSE])
           pre  == <<w>>
           t    == pre \o Drops(PhotoRows(i))
           post == <<UnlinkMaster(s)>>
<1>1. FilesOK /\ UniqueLive /\ i \in Photos /\ i \in Nat /\ s \in Sha
  <2>1. FilesOK /\ UniqueLive /\ i \in Photos /\ i \in Nat
    BY DEF DurableInv, TypeOK, LivePhotos, Photos
  <2>2. Image(i) \in ImageRec
    BY <2>1, ElementOfSeq DEF FilesOK, Photos, Count, Image
  <2> QED
    BY <2>1, <2>2 DEF ImageRec
<1>2. todo' = t \o post /\ UNCHANGED <<file, masters>> /\ acked' = Untouched(i)
  BY DEF RemoveImage, Handle, Drops, Image
<1>3. \A j \in LivePhotos : Image(j).sha = s => j = i
  BY <1>1 DEF UniqueLive
<1> HIDE DEF s
<1>4. w \in ImagePuts /\ w \in ImageWrites /\ w \notin ImageAppends /\ ~ w.rec.live /\ w.at = i
  BY <1>1 DEF Put, ImageAppends, ImageWrites, ImagePuts, ImageRec
<1> HIDE DEF w
<1>5. pre \in Seq(AnyWrite) /\ Len(pre) = 1 /\ pre[1] = w
  <2>1. w \in AnyWrite
    BY <1>4 DEF AnyWrite
  <2> QED
    BY <2>1, One
<1> HIDE DEF pre
<1>6. Begins(t, pre, Own(i))
  BY <1>1, <1>5, DropsOwn, OwnWrites, BeginsItself, BeginsLonger
<1>7. /\ post \in Seq(Unlinks \cup Answers) /\ Len(post) = 1
      /\ post[1] \in Unlinks /\ post[1] \notin Answers /\ post[1].sha = s
  <2>1. UnlinkMaster(s) \in Unlinks /\ UnlinkMaster(s) \notin Answers /\ UnlinkMaster(s).sha = s
    BY <1>1 DEF UnlinkMaster, Answers, Unlinks
  <2> QED
    BY <2>1, One
<1>8. acked' \subseteq acked /\ \A a \in acked' : a.photo # i
  BY <1>2 DEF Untouched
<1>9. \A k \in 1 .. Len(post) : k = 1
  BY <1>7
<1> HIDE DEF t, post
<1>10. \A k \in 1 .. Len(post) : post[k] \in Unlinks =>
               /\ w \in ImagePuts /\ \A j \in LivePhotos : Image(j).sha = post[k].sha => j = i
               /\ w.rec.live => w.rec.sha # post[k].sha
  BY <1>3, <1>4, <1>7, <1>9
<1>12. \A k \in 1 .. Len(post) : post[k] \in Answers =>
               k = Len(post) /\ post[k].photo = i /\ w.rec = [sha |-> post[k].sha, live |-> TRUE]
  BY <1>7, <1>9
<1>11. /\ \/ Len(pre) = 1 /\ ~ w.rec.live
          \/ Len(pre) = 2 /\ pre[1] = WriteMaster(w.rec.sha) /\ pre[1] \in MasterWrites
       /\ pre[Len(pre)] = w /\ (w.rec.live => \A j \in LivePhotos : Image(j).sha # w.rec.sha)
  BY <1>4, <1>5
<1> QED
  BY <1>1, <1>2, <1>4, <1>5, <1>6, <1>7, <1>8, <1>10, <1>11, <1>12, PhotoHandler

LEMMA RemappingsAre ==
    ASSUME FilesOK, NEW i, NEW to \in Remappings(i)
    PROVE  \A q \in DOMAIN to : to[q] \in Nat /\ to[q] <= Count("identities")
<1>1. Count("identities") \in Nat
  BY CountIsNat DEF File
<1>2. PICK rows : to \in [rows -> Ids \cup {0}]
  BY DEF Remappings
<1> QED
  BY <1>1, <1>2 DEF Ids

LEMMA UpgradeKeeps ==
    ASSUME DurableInv, NEW i \in LivePhotos, NEW s \in Sha, NEW to \in Remappings(i), Upgrade(i, s, to)
    PROVE  DurableInv'
<1> DEFINE old  == Image(i).sha
           r    == Count("faces") + 1
           w    == Put("images", i, [sha |-> s, live |-> TRUE])
           pre  == <<WriteMaster(s), w>>
           kept == DOMAIN to \ {r}
           more == IF r \in DOMAIN to THEN AppendFace(r, i, to[r]) ELSE <<>>
           refs == {Face(q).ref : q \in {k \in kept : to[k] # 0}}
           t1   == pre \o Remaps(to)
           t2   == t1 \o more
           t3   == t2 \o Drops(PhotoRows(i) \ kept)
           t    == t3 \o Recomputes(Count("identities"), refs)
           post == <<UnlinkMaster(old), Answer(i, s)>>
<1>1. /\ FilesOK /\ UniqueLive /\ i \in Photos /\ i \in Nat /\ old \in Sha
      /\ r \in Nat /\ Count("identities") \in Nat
  <2>1. FilesOK /\ UniqueLive /\ i \in Photos /\ i \in Nat /\ r \in Nat /\ Count("identities") \in Nat
    BY CountIsNat DEF DurableInv, TypeOK, LivePhotos, Photos, File
  <2>2. Image(i) \in ImageRec
    BY <2>1, ElementOfSeq DEF FilesOK, Photos, Count, Image
  <2> QED
    BY <2>1, <2>2 DEF ImageRec
<1>2. todo' = t \o post /\ UNCHANGED <<file, masters>> /\ acked' = Untouched(i)
  BY DEF Upgrade, Handle, Replace, Drops, Recomputes, Image
<1>3. \A j \in LivePhotos : (Image(j).sha = old => j = i) /\ Image(j).sha # s
  BY <1>1 DEF UniqueLive, Upgrade, Unknown, Image
<1>4. old # s
  BY <1>3
<1> HIDE DEF old
<1>5. /\ w \in ImagePuts /\ w \in ImageWrites /\ w \notin ImageAppends /\ w.at = i
      /\ w.rec = [sha |-> s, live |-> TRUE] /\ w.rec.live /\ w.rec.sha = s
      /\ WriteMaster(s) \in MasterWrites
  BY <1>1 DEF Put, ImageAppends, ImageWrites, ImagePuts, ImageRec, WriteMaster, MasterWrites
<1> HIDE DEF w
<1>6. pre \in Seq(AnyWrite) /\ Len(pre) = 2 /\ pre[1] = WriteMaster(s) /\ pre[2] = w
  <2>1. w \in AnyWrite /\ WriteMaster(s) \in AnyWrite
    BY <1>5 DEF AnyWrite
  <2> QED
    BY <2>1, One
<1>20. \A q \in DOMAIN to : to[q] \in Nat
  BY <1>1, RemappingsAre
<1>7. more \in Seq(Own(i))
  BY <1>1, <1>20, AppendFaceOwn, One
<1>8. /\ Remaps(to) \in Seq(Own(i)) /\ Recomputes(Count("identities"), refs) \in Seq(Own(i))
      /\ Drops(PhotoRows(i) \ kept) \in Seq(Own(i)) /\ Own(i) \in SUBSET AnyWrite
  <2>1. PhotoRows(i) \ kept \in SUBSET PhotoRows(i)
    OBVIOUS
  <2> HIDE DEF refs
  <2> QED
    BY <1>1, <1>20, <2>1, RemapsQuiet, RecomputesQuiet, DropsOwn, OwnWrites
<1> HIDE DEF pre, more, refs, kept
<1>9. Begins(t1, pre, Own(i))
  BY <1>6, <1>8, BeginsItself, BeginsLonger
<1> HIDE DEF t1
<1>10. Begins(t2, pre, Own(i))
  BY <1>6, <1>7, <1>8, <1>9, BeginsLonger
<1> HIDE DEF t2
<1>11. Begins(t3, pre, Own(i))
  BY <1>6, <1>8, <1>10, BeginsLonger
<1> HIDE DEF t3
<1>12. Begins(t, pre, Own(i))
  BY <1>6, <1>8, <1>11, BeginsLonger
<1>13. /\ post \in Seq(Unlinks \cup Answers) /\ Len(post) = 2
       /\ post[1] \in Unlinks /\ post[1] \notin Answers /\ post[1].sha = old
       /\ post[2] \in Answers /\ post[2] \notin Unlinks /\ post[2].photo = i /\ post[2].sha = s
  <2>1. /\ UnlinkMaster(old) \in Unlinks /\ UnlinkMaster(old) \notin Answers /\ UnlinkMaster(old).sha = old
        /\ Answer(i, s) \in Answers /\ Answer(i, s) \notin Unlinks
        /\ Answer(i, s).photo = i /\ Answer(i, s).sha = s
    BY <1>1 DEF UnlinkMaster, Answer, Answers, Unlinks
  <2> QED
    BY <2>1, One
<1>14. acked' \subseteq acked /\ \A a \in acked' : a.photo # i
  BY <1>2 DEF Untouched
<1>15. \A k \in 1 .. Len(post) : k = 1 \/ k = 2
  BY <1>13
<1> HIDE DEF t, post
<1>16. \A k \in 1 .. Len(post) : post[k] \in Unlinks =>
               /\ w \in ImagePuts /\ \A j \in LivePhotos : Image(j).sha = post[k].sha => j = i
               /\ w.rec.live => w.rec.sha # post[k].sha
  BY <1>3, <1>4, <1>5, <1>13, <1>15
<1>17. \A k \in 1 .. Len(post) : post[k] \in Answers =>
               k = Len(post) /\ post[k].photo = i /\ w.rec = [sha |-> post[k].sha, live |-> TRUE]
  BY <1>5, <1>13, <1>15
<1>18. w.rec.live => \A j \in LivePhotos : Image(j).sha # w.rec.sha
  BY <1>3, <1>5
<1>19. /\ \/ Len(pre) = 1 /\ ~ w.rec.live
          \/ Len(pre) = 2 /\ pre[1] = WriteMaster(w.rec.sha) /\ pre[1] \in MasterWrites
       /\ pre[Len(pre)] = w
  BY <1>5, <1>6
<1> QED
  BY <1>1, <1>2, <1>5, <1>6, <1>12, <1>13, <1>14, <1>16, <1>17, <1>18, <1>19, PhotoHandler

LEMMA UpgradeThrowsKeeps ==
    ASSUME DurableInv, NEW i \in LivePhotos, NEW s \in Sha, NEW to \in Remappings(i), UpgradeThrows(i, s, to)
    PROVE  DurableInv'
<1> DEFINE w    == Put("images", i, [sha |-> s, live |-> TRUE])
           pre  == <<WriteMaster(s), w>>
           t    == pre \o Remaps(to)
           post == <<>>
<1>1. FilesOK /\ i \in Photos /\ i \in Nat
  BY DEF DurableInv, TypeOK, LivePhotos, Photos
<1>2. todo' = t /\ UNCHANGED <<file, masters>> /\ acked' = Untouched(i)
  BY DEF UpgradeThrows, Handle, Replace
<1>3. \A j \in LivePhotos : Image(j).sha # s
  BY DEF UpgradeThrows, Unknown, Image
<1>4. /\ w \in ImagePuts /\ w \in ImageWrites /\ w \notin ImageAppends /\ w.at = i
      /\ w.rec = [sha |-> s, live |-> TRUE] /\ w.rec.live /\ w.rec.sha = s
      /\ WriteMaster(s) \in MasterWrites
  BY <1>1 DEF Put, ImageAppends, ImageWrites, ImagePuts, ImageRec, WriteMaster, MasterWrites
<1> HIDE DEF w
<1>5. pre \in Seq(AnyWrite) /\ Len(pre) = 2 /\ pre[1] = WriteMaster(s) /\ pre[2] = w
  <2>1. w \in AnyWrite /\ WriteMaster(s) \in AnyWrite
    BY <1>4 DEF AnyWrite
  <2> QED
    BY <2>1, One
<1>6. Remaps(to) \in Seq(Own(i)) /\ Own(i) \in SUBSET AnyWrite
  BY <1>1, RemappingsAre, RemapsQuiet, OwnWrites
<1> HIDE DEF pre
<1>7. Begins(t, pre, Own(i))
  BY <1>5, <1>6, BeginsItself, BeginsLonger
<1>8. acked' \subseteq acked /\ \A a \in acked' : a.photo # i
  BY <1>2 DEF Untouched
<1>9. post \in Seq(Unlinks \cup Answers) /\ \A k : k \notin 1 .. Len(post)
  BY EmptySeq
<1>10. t \in Seq(AnyWrite)
  BY <1>7 DEF Begins
<1>11. todo' = t \o post
  BY <1>2, <1>10, ConcatEmptySeq
<1> HIDE DEF t, post
<1>12. w.rec.live => \A j \in LivePhotos : Image(j).sha # w.rec.sha
  BY <1>3, <1>4
<1>13. /\ \/ Len(pre) = 1 /\ ~ w.rec.live
          \/ Len(pre) = 2 /\ pre[1] = WriteMaster(w.rec.sha) /\ pre[1] \in MasterWrites
       /\ pre[Len(pre)] = w
  BY <1>4, <1>5
<1> QED
  BY <1>1, <1>2, <1>4, <1>5, <1>7, <1>8, <1>9, <1>11, <1>12, <1>13, PhotoHandler

-----------------------------------------------------------------------------
(* Theorems *)

LEMMA InitHolds ==
    Init => DurableInv
<1> SUFFICES ASSUME Init PROVE DurableInv
  OBVIOUS
<1>1. \A f \in File : file[f] = [recs |-> <<>>, cap |-> FirstCap, room |-> FirstCap]
  BY DEF Init, EmptyFile
<1>2. FirstCap \in Nat \ {0}
  BY DurabilityBounds
<1>3. \A f \in File : Recs(f) = <<>> /\ Count(f) = 0
  BY <1>1 DEF Recs, Count
<1>4. FilesOK
  <2>1. <<>> \in Seq(AnyRec)
    BY EmptySeq
  <2>2. EmptyFile \in [recs : Seq(AnyRec), cap : Nat \ {0}, room : Nat]
    BY <1>2, <2>1 DEF EmptyFile
  <2>3. file \in [File -> [recs : Seq(AnyRec), cap : Nat \ {0}, room : Nat]]
    BY <2>2 DEF Init
  <2>4. \A f \in File : Recs(f) \in Seq(RecOf(f))
    BY <1>3, EmptySeq
  <2> QED
    BY <2>3, <2>4, RecsTyped
<1>5. ReopenAccepts
  BY <1>1, <1>2, <1>3 DEF ReopenAccepts
<1>6. TypeOK /\ Pending = {}
  BY <1>4, EmptySeq DEF TypeOK, Init, Pending
<1>7. LivePhotos = {}
  BY <1>3 DEF LivePhotos, Photos, File
<1> QED
  BY <1>5, <1>6, <1>7 DEF DurableInv, UniqueLive, LivePhotosHaveMasters, AcknowledgedSurvive, QueueInv,
                          ImagesFirst, UnlinksLate, AckedUntouched, AnswersLast, Init

LEMMA NextKeeps ==
    DurableInv /\ [Next]_vars => DurableInv'
<1> SUFFICES ASSUME DurableInv, [Next]_vars PROVE DurableInv'
  OBVIOUS
<1>1. CASE Write
  BY <1>1, WriteKeeps
<1>2. CASE IngestStep
  BY <1>2, InsertKeeps, UpgradeKeeps, UpgradeThrowsKeeps DEF IngestStep
<1>3. ASSUME NEW i \in LivePhotos, RemoveImage(i) PROVE DurableInv'
  BY <1>3, RemoveImageKeeps
<1>4. CASE CurationStep
  <2>1. ASSUME NEW n \in {0} \cup EmbeddedRows
        PROVE  n \in Nat
    BY DEF EmbeddedRows, Rows
  <2> QED
    BY <1>4, <2>1, SplitKeeps, MergeKeeps, DissolveKeeps, AssignFaceKeeps, ApplyLabelsKeeps DEF CurationStep
<1>5. CASE Kill
  BY <1>5, KillKeeps
<1>6. CASE UNCHANGED vars
  <2>1. Recs("images")' = Recs("images") /\ Recs("faces")' = Recs("faces") /\ Pending' = Pending
    BY <1>6 DEF vars, Recs, Pending
  <2>2. TypeOK' /\ ReopenAccepts'
    BY <1>6 DEF vars, DurableInv, TypeOK, FilesOK, ReopenAccepts, Recs, Count
  <2>3. /\ LivePhotos' = LivePhotos /\ Photos' = Photos /\ Rows' = Rows
        /\ \A i : PhotoRows(i)' = PhotoRows(i)
    BY <2>1 DEF LivePhotos, Photos, PhotoRows, Rows, Face, Count
  <2>4. UniqueLive' /\ LivePhotosHaveMasters' /\ AcknowledgedSurvive'
    BY <1>6, <2>1, <2>3 DEF vars, DurableInv, UniqueLive, LivePhotosHaveMasters, AcknowledgedSurvive, Image
  <2>5. QueueInv'
    BY <1>6, <2>1, <2>3 DEF vars, DurableInv, QueueInv, ImagesFirst, UnlinksLate, AckedUntouched, AnswersLast, Image,
                            Face, Count
  <2> QED
    BY <2>2, <2>4, <2>5 DEF DurableInv
<1> QED
  BY <1>1, <1>2, <1>3, <1>4, <1>5, <1>6 DEF Next

LEMMA AlwaysDurable ==
    Spec => []DurableInv
BY InitHolds, NextKeeps, PTL DEF Spec

(* A start finds no header that announces more than its file holds         *)
(* (SlotFile::open throws on one), whenever the process was killed.        *)
THEOREM EveryStartOpens ==
    Spec => []ReopenAccepts
<1>1. DurableInv => ReopenAccepts
  BY DEF DurableInv
<1> QED
  BY <1>1, AlwaysDurable, PTL

(* A photo that is found has its master, at every moment of insert,        *)
(* upgrade and remove_image and after a kill there.                        *)
THEOREM MastersAreThere ==
    Spec => []LivePhotosHaveMasters
<1>1. DurableInv => LivePhotosHaveMasters
  BY DEF DurableInv
<1> QED
  BY <1>1, AlwaysDurable, PTL

(* An answered photo keeps its content and exactly the faces the answer    *)
(* listed, through any kills, until somebody upgrades or deletes it.       *)
THEOREM AnswersSurviveKills ==
    Spec => []AcknowledgedSurvive
<1>1. DurableInv => AcknowledgedSurvive
  BY DEF DurableInv
<1> QED
  BY <1>1, AlwaysDurable, PTL

-----------------------------------------------------------------------------
(* What a start repairs *)

AppendsTo(w, f)   == w.op = "append" /\ w.file = f
Redone(s, k, id)  == \E j \in k + 1 .. Len(s) : s[j] = Recompute(id)
Before(s, k)      == {s[j] : j \in 1 .. k - 1}

(* Whatever a face is made to refer to is recomputed afterwards, also when *)
(* the face moves on meanwhile.                                            *)
NewRefsRedone(s) ==
    \A k \in 1 .. Len(s) : s[k].op = "ref" =>
        /\ s[k].id # 0 => Redone(s, k, s[k].id)
        /\ \A x \in Before(s, k) : x.op = "ref" /\ x.at = s[k].at /\ x.id # 0 => Redone(s, k, x.id)

(* So is what the face refers to now, unless that is dead and stays dead.  *)
OldRefsRedone(s) ==
    \A k \in 1 .. Len(s) : s[k].op = "ref" /\ s[k].at \in Rows =>
        LET id == Face(s[k].at).ref
        IN  /\ id # 0 /\ (id \in LiveIds \/ Recompute(id) \in Before(s, k))
            /\ \A x \in Before(s, k) : x.op = "ref" => x.at # s[k].at
            => Redone(s, k, id)

(* A face is tombstoned when it refers to nobody.                          *)
TombsFree(s) ==
    \A k \in 1 .. Len(s) : s[k].op = "tombstone" =>
        /\ \A j \in 1 .. Len(s) : s[j].op = "ref" /\ s[j].at = s[k].at => s[j].id = 0
        /\ s[k].at \in Rows => Face(s[k].at).ref = 0 \/ SetRef(s[k].at, 0) \in Before(s, k)

WritesRepair(s) == NewRefsRedone(s) /\ OldRefsRedone(s) /\ TombsFree(s)

(* The lengths of the files that go together, and what a write makes them. *)
Aligned   == {"faces", "embs", "i8", "identities", "centroids"}
Lengths   == [f \in Aligned |-> Count(f)]
After(c, w) == [f \in Aligned |-> IF AppendsTo(w, f) THEN c[f] + 1 ELSE c[f]]

(* No file is ahead of the one it follows; the embeddings stay short of    *)
(* the faces by gap.                                                       *)
Ordered(c, gap) == c["embs"] + gap <= c["faces"] /\ c["i8"] <= c["embs"] /\ c["centroids"] <= c["identities"]

(* The writes s take the lengths from c to d, in this order all the way,   *)
(* and a face is made to refer to an identity there is by then.            *)
Path(s, c, d, gap) ==
    \E g \in [0 .. Len(s) -> [Aligned -> Nat]] :
        /\ g[0] = c /\ g[Len(s)] = d
        /\ \A k \in 0 .. Len(s) : Ordered(g[k], gap)
        /\ \A k \in 1 .. Len(s) :
              g[k] = After(g[k - 1], s[k]) /\ (s[k].op = "ref" => s[k].id <= g[k - 1]["identities"])

(* While a face is in no list the embeddings are short.                    *)
Gap(U) == IF U = {} THEN 0 ELSE 1

(* The files that mirror others end as long as those.                      *)
Align(s, U) ==
    \E d \in [Aligned -> Nat] : Path(s, Lengths, d, Gap(U)) /\ d["i8"] = d["embs"] /\ d["centroids"] = d["identities"]

RowsInRange(U) == U \subseteq Rows /\ \A r \in Rows : Face(r).ref <= Count("identities")

(* What is wrong now is recomputed, or the face is given another ref.  The *)
(* faces in U are in no list.                                              *)
Listed(id, U) == {r \in Rows \ U : RefersTo(r, id)}
SizeRight(id, U) == Recs("identities")[id].size = Cardinality(Listed(id, U))

WrongsRighted(s, U) ==
    /\ \A id \in LiveIds : SizeRight(id, U) \/ Redone(s, 0, id)
    /\ \A r \in Rows \ U : Face(r).live /\ Face(r).ref # 0 /\ Face(r).ref \notin LiveIds =>
          \/ Redone(s, 0, Face(r).ref)
          \/ \E j \in 1 .. Len(s) : s[j].op = "ref" /\ s[j].at = r

RepairInv == RowsInRange(unlisted) /\ WritesRepair(todo) /\ Align(todo, unlisted) /\ WrongsRighted(todo, unlisted)

-----------------------------------------------------------------------------
(* What a write does to rows and identities *)

Follows(w) ==
    /\ \A f \in File : Count(f)' = IF AppendsTo(w, f) THEN Count(f) + 1 ELSE Count(f)
    /\ \A r \in Rows :
          /\ Face(r)'.ref = IF w.op = "ref" /\ w.at = r THEN w.id ELSE Face(r).ref
          /\ Face(r)'.live <=> Face(r).live /\ ~ (w.op = "tombstone" /\ w.at = r)
    /\ \A r \in Rows' : r \notin Rows => Face(r)'.ref = 0
    /\ \A id \in Ids :
          Recs("identities")'[id] =
              IF w = Recompute(id) THEN [live |-> MembersOf(id) # {}, size |-> Cardinality(MembersOf(id))]
              ELSE Recs("identities")[id]
    /\ \A id \in Ids' : id \notin Ids => Recs("identities")'[id].size = 0
    /\ unlisted' = IF w.op = "ref" THEN unlisted \ {w.at} ELSE unlisted

(* A write to a file start does not look at, or to none.                   *)
LEMMA FollowsPlain ==
    ASSUME NEW w, w.op \in {"put", "master", "unlink", "answer", "append"},
           \A f \in File : Count(f)' = IF AppendsTo(w, f) THEN Count(f) + 1 ELSE Count(f),
           Recs("faces")' = Recs("faces"), Recs("identities")' = Recs("identities"), unlisted' = unlisted
    PROVE  Follows(w)
<1>1. Rows' = Rows /\ Ids' = Ids
  BY DEF Rows, Ids, Count
<1>2. \A id : w # Recompute(id)
  BY DEF Recompute
<1> QED
  BY <1>1, <1>2 DEF Follows, Face

LEMMA PutFollows ==
    ASSUME FilesOK, ReopenAccepts, NEW w \in AnyWrite, DoPut(w)
    PROVE  Follows(w)
<1>1. w.op = "put" /\ w.file \in {"images", "embs", "i8"} /\ w.file \in File /\ w.rec \in RecOf(w.file)
  <2>1. \/ w.file \in {"embs", "i8"} /\ w.rec \in Nat
        \/ w.file = "images" /\ w.rec \in ImageRec
    BY Kinds DEF DoPut, Quiet, ImagePuts
  <2> QED
    BY <2>1 DEF DoPut, RecOf, File
<1>2. \A f \in File : ~ AppendsTo(w, f)
  BY <1>1 DEF AppendsTo
<1>3. (\A g \in File \ {w.file} : Recs(g)' = Recs(g)) /\ Count(w.file)' = Count(w.file)
  <2>1. CASE file' = Patched(w.file, w.at, w.rec)
    BY <1>1, <2>1, PutDone
  <2>2. CASE file' = file
    BY <2>2 DEF Recs, Count
  <2> QED
    BY <2>1, <2>2 DEF DoPut
<1>4. \A f \in File : Count(f)' = Count(f)
  BY <1>3 DEF Count
<1>5. Recs("faces")' = Recs("faces") /\ Recs("identities")' = Recs("identities") /\ unlisted' = unlisted
  BY <1>1, <1>3 DEF File, DoPut
<1> QED
  BY <1>1, <1>2, <1>4, <1>5, FollowsPlain

LEMMA NoFileFollows ==
    ASSUME NEW w, DoMaster(w) \/ DoAnswer(w)
    PROVE  Follows(w)
<1>1. file' = file /\ w.op \in {"master", "unlink", "answer"} /\ unlisted' = unlisted
  BY DEF DoMaster, DoAnswer
<1>2. \A f \in File : Count(f)' = Count(f) /\ ~ AppendsTo(w, f)
  BY <1>1 DEF Count, Recs, AppendsTo
<1>3. Recs("faces")' = Recs("faces") /\ Recs("identities")' = Recs("identities")
  BY <1>1 DEF Recs
<1> QED
  BY <1>1, <1>2, <1>3, FollowsPlain

LEMMA SetRefFollows ==
    ASSUME FilesOK, ReopenAccepts, NEW w \in AnyWrite, DoSetRef(w)
    PROVE  Follows(w)
<1> DEFINE rec == [Face(w.at) EXCEPT !.ref = w.id]
<1>1. w.op = "ref" /\ w.id \in Nat /\ unlisted' = unlisted \ {w.at}
  BY Kinds DEF DoSetRef, Quiet
<1>2. w.at \in Rows => /\ rec \in RecOf("faces")
                       /\ rec.live = Face(w.at).live /\ rec.ref = w.id
  BY <1>1, FaceTyped DEF FaceRec, RecOf
<1> HIDE DEF rec
<1>3. file' = Patched("faces", w.at, rec)
  BY DEF DoSetRef, rec
<1>4. /\ \A g \in File \ {"faces"} : Recs(g)' = Recs(g)
      /\ Count("faces")' = Count("faces")
      /\ \A j \in Rows : j # w.at => Recs("faces")'[j] = Recs("faces")[j]
      /\ w.at \in Rows => Recs("faces")'[w.at] = rec
  BY <1>2, <1>3, PutDone DEF File, Rows
<1>5. \A f \in File : Count(f)' = Count(f) /\ ~ AppendsTo(w, f)
  BY <1>1, <1>4 DEF Count, AppendsTo
<1>6. Rows' = Rows /\ Ids' = Ids /\ Recs("identities")' = Recs("identities")
  BY <1>4, <1>5 DEF Rows, Ids, File
<1>7. \A r \in Rows : /\ Face(r)'.ref = IF w.op = "ref" /\ w.at = r THEN w.id ELSE Face(r).ref
                      /\ Face(r)'.live <=> Face(r).live /\ ~ (w.op = "tombstone" /\ w.at = r)
  BY <1>1, <1>2, <1>4 DEF Face
<1>8. \A id : w # Recompute(id)
  BY <1>1 DEF Recompute
<1> QED
  BY <1>1, <1>5, <1>6, <1>7, <1>8 DEF Follows

LEMMA TombstoneFollows ==
    ASSUME FilesOK, ReopenAccepts, NEW w \in AnyWrite, DoTombstone(w)
    PROVE  Follows(w)
<1> DEFINE rec == [Face(w.at) EXCEPT !.live = FALSE]
<1>1. w.op = "tombstone" /\ unlisted' = unlisted
  BY DEF DoTombstone
<1>2. w.at \in Rows => /\ rec \in RecOf("faces")
                       /\ rec.live = FALSE /\ rec.ref = Face(w.at).ref
  BY FaceTyped DEF FaceRec, RecOf
<1> HIDE DEF rec
<1>3. file' = Patched("faces", w.at, rec)
  BY DEF DoTombstone, rec
<1>4. /\ \A g \in File \ {"faces"} : Recs(g)' = Recs(g)
      /\ Count("faces")' = Count("faces")
      /\ \A j \in Rows : j # w.at => Recs("faces")'[j] = Recs("faces")[j]
      /\ w.at \in Rows => Recs("faces")'[w.at] = rec
  BY <1>2, <1>3, PutDone DEF File, Rows
<1>5. \A f \in File : Count(f)' = Count(f) /\ ~ AppendsTo(w, f)
  BY <1>1, <1>4 DEF Count, AppendsTo
<1>6. Rows' = Rows /\ Ids' = Ids /\ Recs("identities")' = Recs("identities")
  BY <1>4, <1>5 DEF Rows, Ids, File
<1>7. \A r \in Rows : /\ Face(r)'.ref = IF w.op = "ref" /\ w.at = r THEN w.id ELSE Face(r).ref
                      /\ Face(r)'.live <=> Face(r).live /\ ~ (w.op = "tombstone" /\ w.at = r)
  BY <1>1, <1>2, <1>4 DEF Face
<1>8. \A id : w # Recompute(id)
  BY <1>1 DEF Recompute
<1> QED
  BY <1>1, <1>5, <1>6, <1>7, <1>8 DEF Follows

LEMMA RecomputeFollows ==
    ASSUME FilesOK, ReopenAccepts, NEW w \in AnyWrite, DoRecompute(w)
    PROVE  Follows(w)
<1> DEFINE rec == [live |-> MembersOf(w.id) # {}, size |-> Cardinality(MembersOf(w.id))]
<1>1. w.op = "recompute" /\ w \in [op : {"recompute"}, id : Nat] /\ unlisted' = unlisted
  BY Kinds DEF DoRecompute, Quiet
<1>2. \A id : w = Recompute(id) <=> id = w.id
  BY <1>1 DEF Recompute
<1>3. rec \in RecOf("identities")
  <2>1. Count("faces") \in Nat
    BY CountIsNat DEF File
  <2>2. IsFiniteSet(Rows)
    BY <2>1, FS_Interval DEF Rows
  <2>3. Cardinality(MembersOf(w.id)) \in Nat
    BY <2>2, FS_Subset, FS_CardinalityType DEF MembersOf
  <2> QED
    BY <2>3 DEF RecOf, IdRec
<1> HIDE DEF rec
<1>4. file' = Patched("identities", w.id, rec)
  BY DEF DoRecompute, rec
<1>5. /\ \A g \in File \ {"identities"} : Recs(g)' = Recs(g)
      /\ Count("identities")' = Count("identities")
      /\ \A j \in Ids : j # w.id => Recs("identities")'[j] = Recs("identities")[j]
      /\ w.id \in Ids => Recs("identities")'[w.id] = rec
  BY <1>3, <1>4, PutDone DEF File, Ids
<1>6. \A f \in File : Count(f)' = Count(f) /\ ~ AppendsTo(w, f)
  BY <1>1, <1>5 DEF Count, AppendsTo
<1>7. Rows' = Rows /\ Ids' = Ids /\ Recs("faces")' = Recs("faces")
  BY <1>5, <1>6 DEF Rows, Ids, File
<1>8. \A id \in Ids :
          Recs("identities")'[id] =
              IF w = Recompute(id) THEN [live |-> MembersOf(id) # {}, size |-> Cardinality(MembersOf(id))]
              ELSE Recs("identities")[id]
  BY <1>2, <1>5 DEF rec
<1> QED
  BY <1>1, <1>6, <1>7, <1>8 DEF Follows, Face

(* A file got room, but no record.                                         *)
Grows == todo' = todo /\ unlisted' = unlisted /\ \A f \in File : Recs(f)' = Recs(f)

LEMMA AppendFollows ==
    ASSUME FilesOK, ReopenAccepts, NEW w \in AnyWrite, DoAppend(w)
    PROVE  Grows \/ (Done /\ Follows(w))
<1>1. w.op = "append" /\ w.file \in File /\ w.rec \in RecOf(w.file) /\ unlisted' = unlisted
  <2>1. \/ w.file \in Numbers /\ w.rec \in Nat
        \/ w.file = "identities" /\ w.rec \in FreshId
        \/ w.file = "images" /\ w.rec \in ImageRec
        \/ w.file = "faces" /\ w.rec \in FreshFace
    BY Kinds DEF DoAppend, Quiet, ImageAppends, FaceAppends
  <2>2. FreshId \subseteq IdRec /\ FreshFace \subseteq FaceRec
    BY DEF FreshId, IdRec, FreshFace, FaceRec
  <2> QED
    BY <2>1, <2>2 DEF DoAppend, Numbers, RecOf, File
<1>2. CASE \E c : \/ file' = [file EXCEPT ![w.file].room = c] /\ todo' = todo
                  \/ file' = [file EXCEPT ![w.file].cap = c] /\ todo' = todo
  <2>1. \A f \in File : file[f] \in [recs : Seq(AnyRec), cap : Nat \ {0}, room : Nat]
    BY RecsTyped
  <2>2. PICK c : \/ file' = [file EXCEPT ![w.file].room = c]
                 \/ file' = [file EXCEPT ![w.file].cap = c]
    BY <1>2
  <2> DEFINE f == w.file
             x == [file[f] EXCEPT !.room = c]
             y == [file[f] EXCEPT !.cap = c]
  <2>3. x.recs = file[f].recs /\ y.recs = file[f].recs
    BY <1>1, <2>1
  <2>4. file' = [file EXCEPT ![f] = x] \/ file' = [file EXCEPT ![f] = y]
    BY <2>2
  <2>5. DOMAIN file = File
    BY RecsTyped
  <2> HIDE DEF x, y
  <2>6. \A g \in File : file'[g].recs = file[g].recs
    BY <2>3, <2>4, <2>5
  <2> QED
    BY <1>1, <1>2, <2>6 DEF Grows, Recs
<1>3. CASE Done /\ Count(w.file) < file[w.file].cap /\ file' = [file EXCEPT ![w.file].recs = Append(@, w.rec)]
  <2> DEFINE rec == w.rec
             f == w.file
             n == Count(f)
  <2>1. f \in File /\ rec \in RecOf(f) /\ Count(f) < file[f].cap /\ file' = [file EXCEPT ![f].recs = Append(@, rec)]
    BY <1>1, <1>3
  <2>2. f = "faces" => rec.ref = 0
    BY Kinds DEF DoAppend, FaceAppends, FreshFace, Quiet, Numbers, ImageAppends
  <2>3. f = "identities" => rec.size = 0
    BY Kinds DEF DoAppend, FaceAppends, FreshId, Quiet, Numbers, ImageAppends
  <2>4. \A g \in File : AppendsTo(w, g) <=> g = f
    BY <1>1 DEF AppendsTo
  <2> HIDE DEF rec, f
  <2>5. /\ Count(f)' = n + 1
        /\ \A j \in 1 .. n : Recs(f)'[j] = Recs(f)[j]
        /\ Recs(f)'[n + 1] = rec
        /\ \A g \in File \ {f} : Recs(g)' = Recs(g)
    BY <2>1, AppendDone
  <2>6. \A g \in File : Count(g)' = IF AppendsTo(w, g) THEN Count(g) + 1 ELSE Count(g)
    BY <2>4, <2>5 DEF Count
  <2>7. n \in Nat
    BY <2>1, CountIsNat
  <2>8. \A id : w # Recompute(id)
    BY <1>1 DEF Recompute
  <2>9. CASE f = "faces"
    <3>1. Rows' = Rows \cup {n + 1} /\ Ids' = Ids /\ Recs("identities")' = Recs("identities")
      BY <2>5, <2>7, <2>9 DEF Rows, Ids, Count, File
    <3>2. /\ \A r \in Rows : Face(r)' = Face(r)
          /\ \A r \in Rows' : r \notin Rows => Face(r)'.ref = 0
      BY <2>2, <2>5, <2>9, <3>1 DEF Face, Rows
    <3> QED
      BY <1>1, <1>3, <2>6, <2>8, <3>1, <3>2 DEF Follows
  <2>10. CASE f = "identities"
    <3>1. Ids' = Ids \cup {n + 1} /\ Rows' = Rows /\ Recs("faces")' = Recs("faces")
      BY <2>5, <2>7, <2>10 DEF Rows, Ids, Count, File
    <3>2. /\ \A id \in Ids : Recs("identities")'[id] = Recs("identities")[id]
          /\ \A id \in Ids' : id \notin Ids => Recs("identities")'[id].size = 0
      BY <2>3, <2>5, <2>10, <3>1 DEF Ids
    <3> QED
      BY <1>1, <1>3, <2>6, <2>8, <3>1, <3>2 DEF Follows, Face
  <2>11. CASE f \notin {"faces", "identities"}
    <3>1. Recs("faces")' = Recs("faces") /\ Recs("identities")' = Recs("identities")
      BY <2>5, <2>11 DEF File
    <3> QED
      BY <1>1, <1>3, <2>6, <3>1, FollowsPlain
  <2> QED
    BY <2>9, <2>10, <2>11
<1> QED
  BY <1>2, <1>3 DEF DoAppend

LEMMA WriteFollows ==
    ASSUME DurableInv, Write
    PROVE  Grows \/ (Done /\ Follows(todo[1]))
<1> DEFINE w == todo[1]
<1>1. FilesOK /\ ReopenAccepts /\ todo # <<>>
  BY DEF DurableInv, TypeOK, Write
<1>2. Head(todo) = w /\ w \in AnyWrite
  BY <1>1, EmptySeq, LenProperties, ElementOfSeq, HeadTailProperties DEF DurableInv, TypeOK
<1> HIDE DEF w
<1>3. CASE DoAppend(w)
  BY <1>1, <1>2, <1>3, AppendFollows DEF w
<1>4. CASE DoPut(w)
  BY <1>1, <1>2, <1>4, PutFollows DEF w, DoPut
<1>5. CASE DoSetRef(w)
  BY <1>1, <1>2, <1>5, SetRefFollows DEF w, DoSetRef
<1>6. CASE DoTombstone(w)
  BY <1>1, <1>2, <1>6, TombstoneFollows DEF w, DoTombstone
<1>7. CASE DoRecompute(w)
  BY <1>1, <1>2, <1>7, RecomputeFollows DEF w, DoRecompute
<1>8. CASE DoMaster(w) \/ DoAnswer(w)
  BY <1>8, NoFileFollows DEF w, DoMaster, DoAnswer
<1> QED
  BY <1>2, <1>3, <1>4, <1>5, <1>6, <1>7, <1>8 DEF Write

-----------------------------------------------------------------------------
(* The first write is done *)

LEMMA Shifted ==
    ASSUME todo \in Seq(AnyWrite), todo # <<>>, Done
    PROVE  /\ Len(todo) \in Nat \ {0} /\ Len(todo') = Len(todo) - 1
           /\ todo[1] \in AnyWrite
           /\ \A k \in 1 .. Len(todo') :
                 /\ k \in Nat /\ k + 1 \in 1 .. Len(todo)
                 /\ todo'[k] = todo[k + 1] /\ todo[k + 1] \in AnyWrite
                 /\ todo[1] \in Before(todo, k + 1)
                 /\ Before(todo', k) \subseteq Before(todo, k + 1)
                 /\ \A x \in Before(todo, k + 1) : x = todo[1] \/ x \in Before(todo', k)
                 /\ \A id : Redone(todo, k + 1, id) => Redone(todo', k, id)
           /\ \A id : Redone(todo, 1, id) => Redone(todo', 0, id)
           /\ \A id : Redone(todo, 0, id) => todo[1] = Recompute(id) \/ Redone(todo', 0, id)
<1> DEFINE n == Len(todo)
<1>1. n \in Nat \ {0} /\ Len(todo') = n - 1 /\ todo[1] \in AnyWrite
  BY Advances
<1>2. \A k \in 1 .. n - 1 : k \in Nat /\ k + 1 \in 1 .. n /\ todo'[k] = todo[k + 1] /\ todo[k + 1] \in AnyWrite
  BY <1>1, Advances DEF Pending
<1> HIDE DEF n
<1>3. ASSUME NEW k \in 1 .. n - 1
      PROVE  /\ todo[1] \in Before(todo, k + 1)
             /\ Before(todo', k) \subseteq Before(todo, k + 1)
             /\ \A x \in Before(todo, k + 1) : x = todo[1] \/ x \in Before(todo', k)
  <2>1. 1 \in 1 .. (k + 1) - 1
    BY <1>2
  <2>2. \A j \in 1 .. k - 1 : j + 1 \in 1 .. (k + 1) - 1 /\ todo'[j] = todo[j + 1]
    BY <1>1, <1>2
  <2>3. \A j \in 1 .. (k + 1) - 1 : j # 1 => j - 1 \in 1 .. k - 1 /\ todo'[j - 1] = todo[j]
    <3> SUFFICES ASSUME NEW j \in 1 .. (k + 1) - 1, j # 1
                 PROVE  j - 1 \in 1 .. k - 1 /\ todo'[j - 1] = todo[j]
      OBVIOUS
    <3>1. j - 1 \in 1 .. k - 1 /\ j - 1 \in 1 .. n - 1 /\ (j - 1) + 1 = j
      BY <1>1, <1>2
    <3> QED
      BY <1>2, <3>1
  <2>4. todo[1] \in Before(todo, k + 1)
    BY <2>1 DEF Before
  <2>5. Before(todo', k) \subseteq Before(todo, k + 1)
    BY <2>2 DEF Before
  <2>6. ASSUME NEW x \in Before(todo, k + 1) PROVE x = todo[1] \/ x \in Before(todo', k)
    <3>1. PICK j \in 1 .. (k + 1) - 1 : x = todo[j]
      BY DEF Before
    <3> QED
      BY <2>3, <3>1 DEF Before
  <2> QED
    BY <2>4, <2>5, <2>6
<1>4. ASSUME NEW k \in 0 .. n - 1, NEW id, Redone(todo, k + 1, id)
      PROVE  Redone(todo', k, id)
  <2>1. PICK j \in (k + 1) + 1 .. n : todo[j] = Recompute(id)
    BY <1>4 DEF Redone, n
  <2>2. j - 1 \in k + 1 .. n - 1 /\ j - 1 \in 1 .. n - 1 /\ (j - 1) + 1 = j
    BY <1>1
  <2>3. todo'[j - 1] = Recompute(id)
    BY <1>2, <2>1, <2>2
  <2> QED
    BY <1>1, <2>2, <2>3 DEF Redone
<1>5. ASSUME NEW id, Redone(todo, 0, id), todo[1] # Recompute(id)
      PROVE  Redone(todo, 1, id)
  <2>1. PICK j \in 0 + 1 .. n : todo[j] = Recompute(id)
    BY <1>5 DEF Redone, n
  <2>2. j \in 1 + 1 .. n
    BY <1>1, <1>5, <2>1
  <2> QED
    BY <2>1, <2>2 DEF Redone, n
<1>6. \A id : Redone(todo, 1, id) => Redone(todo', 0, id)
  <2>1. 0 \in 0 .. n - 1 /\ 0 + 1 = 1
    BY <1>1
  <2> QED
    BY <1>4, <2>1
<1>7. \A k \in 1 .. n - 1 : \A id : Redone(todo, k + 1, id) => Redone(todo', k, id)
  <2>1. \A k \in 1 .. n - 1 : k \in 0 .. n - 1
    BY <1>1
  <2> QED
    BY <1>4, <2>1
<1> QED
  BY <1>1, <1>2, <1>3, <1>5, <1>6, <1>7 DEF n

LEMMA NewRefsAdvance ==
    ASSUME DurableInv, todo # <<>>, Done, NewRefsRedone(todo)
    PROVE  NewRefsRedone(todo')
<1>1. todo \in Seq(AnyWrite)
  BY DEF DurableInv, TypeOK
<1> SUFFICES ASSUME NEW k \in 1 .. Len(todo'), todo'[k].op = "ref"
             PROVE  /\ todo'[k].id # 0 => Redone(todo', k, todo'[k].id)
                    /\ \A x \in Before(todo', k) :
                          x.op = "ref" /\ x.at = todo'[k].at /\ x.id # 0 => Redone(todo', k, x.id)
  BY DEF NewRefsRedone
<1>2. /\ k + 1 \in 1 .. Len(todo) /\ todo'[k] = todo[k + 1]
      /\ Before(todo', k) \subseteq Before(todo, k + 1)
      /\ \A id : Redone(todo, k + 1, id) => Redone(todo', k, id)
  BY <1>1, Shifted
<1>3. /\ todo[k + 1].id # 0 => Redone(todo, k + 1, todo[k + 1].id)
      /\ \A x \in Before(todo, k + 1) :
            x.op = "ref" /\ x.at = todo[k + 1].at /\ x.id # 0 => Redone(todo, k + 1, x.id)
  BY <1>2 DEF NewRefsRedone
<1> QED
  BY <1>2, <1>3

(* Who is referred to is only revived by being recomputed.                 *)
LEMMA LivesOn ==
    ASSUME FilesOK, RowsInRange(unlisted), NEW w, Follows(w), NEW r \in Rows, NEW id, id = Face(r).ref, id # 0,
           id \in LiveIds'
    PROVE  id \in LiveIds \/ w = Recompute(id)
<1>1. id \in Nat /\ id <= Count("identities") /\ Count("identities") \in Nat
  BY FaceTyped, CountIsNat DEF FaceRec, RowsInRange, File
<1>2. id \in Ids
  BY <1>1 DEF Ids
<1>3. w # Recompute(id) => Recs("identities")'[id] = Recs("identities")[id]
  BY <1>2 DEF Follows
<1> QED
  BY <1>2, <1>3 DEF LiveIds

LEMMA OldRefsAdvance ==
    ASSUME DurableInv, RepairInv, todo # <<>>, Done, Follows(todo[1])
    PROVE  OldRefsRedone(todo)'
<1> DEFINE w == todo[1]
<1>1. FilesOK /\ todo \in Seq(AnyWrite) /\ NewRefsRedone(todo) /\ OldRefsRedone(todo) /\ RowsInRange(unlisted)
  BY DEF DurableInv, TypeOK, RepairInv, WritesRepair
<1>2. ASSUME NEW k \in 1 .. Len(todo'), todo'[k].op = "ref", NEW r \in Rows', todo'[k].at = r,
             NEW id, id = Face(r)'.ref, id # 0, id \in LiveIds' \/ Recompute(id) \in Before(todo', k),
             \A x \in Before(todo', k) : x.op = "ref" => x.at # r
      PROVE  Redone(todo', k, id)
  <2>1. /\ k + 1 \in 1 .. Len(todo) /\ todo'[k] = todo[k + 1]
        /\ w \in Before(todo, k + 1)
        /\ \A x \in Before(todo, k + 1) : x = w \/ x \in Before(todo', k)
        /\ Before(todo', k) \subseteq Before(todo, k + 1)
        /\ Redone(todo, k + 1, id) => Redone(todo', k, id)
    BY <1>1, Shifted
  <2>2. r \in Rows
    BY <1>2 DEF Follows
  <2>3. Face(r)'.ref = IF w.op = "ref" /\ w.at = r THEN w.id ELSE Face(r).ref
    BY <2>2 DEF Follows
  <2>4. CASE w.op = "ref" /\ w.at = r
    BY <1>1, <1>2, <2>1, <2>3, <2>4 DEF NewRefsRedone
  <2>5. CASE ~ (w.op = "ref" /\ w.at = r)
    <3>1. id = Face(r).ref
      BY <1>2, <2>3, <2>5
    <3>2. id \in LiveIds \/ Recompute(id) \in Before(todo, k + 1)
      BY <1>1, <1>2, <2>1, <2>2, <3>1, LivesOn
    <3>3. \A x \in Before(todo, k + 1) : x.op = "ref" => x.at # r
      BY <1>2, <2>1, <2>5
    <3> QED
      BY <1>1, <1>2, <2>1, <2>2, <3>1, <3>2, <3>3 DEF OldRefsRedone
  <2> QED
    BY <2>4, <2>5
<1> QED
  BY <1>2 DEF OldRefsRedone, Face

LEMMA TombsAdvance ==
    ASSUME DurableInv, RepairInv, todo # <<>>, Done, Follows(todo[1])
    PROVE  TombsFree(todo)'
<1> DEFINE w == todo[1]
<1>1. todo \in Seq(AnyWrite) /\ TombsFree(todo)
  BY DEF DurableInv, TypeOK, RepairInv, WritesRepair
<1>2. ASSUME NEW k \in 1 .. Len(todo'), todo'[k].op = "tombstone"
      PROVE  \A j \in 1 .. Len(todo') : todo'[j].op = "ref" /\ todo'[j].at = todo'[k].at => todo'[j].id = 0
  BY <1>1, <1>2, Shifted DEF TombsFree
<1>3. ASSUME NEW k \in 1 .. Len(todo'), todo'[k].op = "tombstone", NEW r \in Rows', todo'[k].at = r
      PROVE  Face(r)'.ref = 0 \/ SetRef(r, 0) \in Before(todo', k)
  <2>1. /\ k + 1 \in 1 .. Len(todo) /\ 1 \in 1 .. Len(todo) /\ todo'[k] = todo[k + 1]
        /\ \A x \in Before(todo, k + 1) : x = w \/ x \in Before(todo', k)
    BY <1>1, Shifted
  <2>2. CASE r \notin Rows
    BY <2>2 DEF Follows
  <2>3. CASE r \in Rows
    <3>1. Face(r)'.ref = IF w.op = "ref" /\ w.at = r THEN w.id ELSE Face(r).ref
      BY <2>3 DEF Follows
    <3>2. w.op = "ref" /\ w.at = r => w.id = 0
      BY <1>1, <1>3, <2>1 DEF TombsFree
    <3>3. Face(r).ref = 0 \/ SetRef(r, 0) \in Before(todo, k + 1)
      BY <1>1, <1>3, <2>1, <2>3 DEF TombsFree
    <3>4. w = SetRef(r, 0) => w.op = "ref" /\ w.at = r
      BY DEF SetRef
    <3> QED
      BY <2>1, <3>1, <3>2, <3>3, <3>4
  <2> QED
    BY <2>2, <2>3
<1> QED
  BY <1>2, <1>3 DEF TombsFree, Face

(* A path without its first step.                                          *)
LEMMA PathAdvances ==
    ASSUME todo \in Seq(AnyWrite), todo # <<>>, Done, NEW c, NEW d, NEW p \in Nat, NEW q \in Nat, q <= p,
           Path(todo, c, d, p)
    PROVE  Path(todo', After(c, todo[1]), d, q)
<1> DEFINE n == Len(todo)
<1>1. n \in Nat \ {0} /\ Len(todo') = n - 1 /\ \A k \in 1 .. n - 1 : k + 1 \in 1 .. n /\ todo'[k] = todo[k + 1]
  BY Shifted
<1> HIDE DEF n
<1>2. PICK g \in [0 .. n -> [Aligned -> Nat]] :
        /\ g[0] = c /\ g[n] = d
        /\ \A k \in 0 .. n : Ordered(g[k], p)
        /\ \A k \in 1 .. n :
              g[k] = After(g[k - 1], todo[k]) /\ (todo[k].op = "ref" => todo[k].id <= g[k - 1]["identities"])
  BY DEF Path, n
<1> DEFINE h == [k \in 0 .. n - 1 |-> g[k + 1]]
<1>3. h \in [0 .. n - 1 -> [Aligned -> Nat]] /\ \A k \in 0 .. n - 1 : h[k] = g[k + 1] /\ k + 1 \in 0 .. n
  <2>1. \A k \in 0 .. n - 1 : k + 1 \in 0 .. n
    BY <1>1
  <2>2. \A k \in 0 .. n - 1 : g[k + 1] \in [Aligned -> Nat]
    BY <2>1
  <2> QED
    BY <2>1, <2>2
<1> HIDE DEF h
<1>4. h[0] = After(c, todo[1]) /\ h[n - 1] = d
  <2>1. 0 \in 0 .. n - 1 /\ n - 1 \in 0 .. n - 1 /\ (n - 1) + 1 = n /\ 1 \in 1 .. n /\ 1 - 1 = 0
    BY <1>1
  <2> QED
    BY <1>2, <1>3, <2>1
<1>5. \A k \in 0 .. n - 1 : Ordered(h[k], q)
  <2> SUFFICES ASSUME NEW k \in 0 .. n - 1 PROVE Ordered(h[k], q)
    OBVIOUS
  <2>1. Ordered(h[k], p) /\ h[k] \in [Aligned -> Nat]
    BY <1>2, <1>3
  <2> QED
    BY <2>1 DEF Ordered, Aligned
<1>6. \A k \in 1 .. n - 1 :
          h[k] = After(h[k - 1], todo'[k]) /\ (todo'[k].op = "ref" => todo'[k].id <= h[k - 1]["identities"])
  <2> SUFFICES ASSUME NEW k \in 1 .. n - 1
               PROVE  /\ h[k] = After(h[k - 1], todo'[k])
                      /\ todo'[k].op = "ref" => todo'[k].id <= h[k - 1]["identities"]
    OBVIOUS
  <2>1. k - 1 \in 0 .. n - 1 /\ k \in 0 .. n - 1 /\ (k - 1) + 1 = k /\ (k + 1) - 1 = k /\ k + 1 \in 1 .. n
    BY <1>1
  <2>2. h[k - 1] = g[k] /\ h[k] = g[k + 1] /\ todo'[k] = todo[k + 1]
    BY <1>1, <1>3, <2>1
  <2> QED
    BY <1>2, <2>1, <2>2
<1> QED
  BY <1>1, <1>3, <1>4, <1>5, <1>6 DEF Path

LEMMA PathEnds ==
    ASSUME NEW s, Len(s) \in Nat, NEW c, NEW d, NEW p \in Nat, Path(s, c, d, p)
    PROVE  /\ c \in [Aligned -> Nat] /\ d \in [Aligned -> Nat] /\ Ordered(c, p) /\ Ordered(d, p)
           /\ Len(s) = 0 => c = d
           /\ 1 \in 1 .. Len(s) /\ s[1].op = "ref" => s[1].id <= c["identities"]
<1>1. PICK g \in [0 .. Len(s) -> [Aligned -> Nat]] :
        /\ g[0] = c /\ g[Len(s)] = d
        /\ \A k \in 0 .. Len(s) : Ordered(g[k], p)
        /\ \A k \in 1 .. Len(s) :
              g[k] = After(g[k - 1], s[k]) /\ (s[k].op = "ref" => s[k].id <= g[k - 1]["identities"])
  BY DEF Path
<1>2. 0 \in 0 .. Len(s) /\ Len(s) \in 0 .. Len(s) /\ 1 - 1 = 0
  OBVIOUS
<1> QED
  BY <1>1, <1>2

LEMMA LengthsAre ==
    ASSUME FilesOK
    PROVE  /\ Lengths \in [Aligned -> Nat] /\ \A f \in Aligned : Lengths[f] = Count(f) /\ Count(f) \in Nat
           /\ Aligned \subseteq File
<1>1. Aligned \subseteq File
  BY DEF Aligned, File
<1> QED
  BY <1>1, CountIsNat DEF Lengths

LEMMA AlignAdvances ==
    ASSUME DurableInv, RepairInv, todo # <<>>, Done, Follows(todo[1])
    PROVE  Align(todo, unlisted)'
<1> DEFINE w == todo[1]
<1>1. FilesOK /\ todo \in Seq(AnyWrite) /\ Align(todo, unlisted)
  BY DEF DurableInv, TypeOK, RepairInv
<1>2. PICK d \in [Aligned -> Nat] :
         Path(todo, Lengths, d, Gap(unlisted)) /\ d["i8"] = d["embs"] /\ d["centroids"] = d["identities"]
  BY <1>1 DEF Align
<1>3. Lengths' = After(Lengths, w)
  <2>1. \A f \in Aligned : Count(f)' = IF AppendsTo(w, f) THEN Count(f) + 1 ELSE Count(f)
    BY <1>1, LengthsAre DEF Follows
  <2>2. Lengths' = [f \in Aligned |-> Count(f)']
    BY DEF Lengths
  <2>3. After(Lengths, w) = [f \in Aligned |-> IF AppendsTo(w, f) THEN Count(f) + 1 ELSE Count(f)]
    BY <1>1, LengthsAre DEF After
  <2> QED
    BY <2>1, <2>2, <2>3
<1>4. Gap(unlisted) \in Nat /\ Gap(unlisted') \in Nat /\ Gap(unlisted') <= Gap(unlisted)
  <2>1. unlisted' \subseteq unlisted
    BY DEF Follows
  <2> QED
    BY <2>1 DEF Gap
<1>5. Path(todo', Lengths', d, Gap(unlisted'))
  BY <1>1, <1>2, <1>3, <1>4, PathAdvances
<1> DEFINE e == Lengths
<1> QED
  <2>1. \E x \in [Aligned -> Nat] : Path(todo', Lengths', x, Gap(unlisted')) /\ x["i8"] = x["embs"] /\ x["centroids"] = x["identities"]
    BY <1>2, <1>5
  <2> QED
    BY <2>1 DEF Align, Path, Gap

(* The first write of a queue has nothing before it.                       *)
LEMMA FirstWrite ==
    ASSUME DurableInv, RepairInv, todo # <<>>
    PROVE  LET w == todo[1]
           IN  /\ 1 \in 1 .. Len(todo) /\ Before(todo, 1) = {}
               /\ w \in AnyWrite
               /\ w.op = "ref" =>
                     /\ w.id \in Nat /\ w.id <= Count("identities")
                     /\ w.id # 0 => Redone(todo, 1, w.id)
                     /\ w.at \in Rows /\ Face(w.at).ref \in LiveIds \ {0} => Redone(todo, 1, Face(w.at).ref)
               /\ w.op = "tombstone" /\ w.at \in Rows => Face(w.at).ref = 0
<1> DEFINE w == todo[1]
<1>1. FilesOK /\ todo \in Seq(AnyWrite) /\ WritesRepair(todo) /\ Align(todo, unlisted)
  BY DEF DurableInv, TypeOK, RepairInv
<1>2. 1 \in 1 .. Len(todo) /\ w \in AnyWrite /\ Len(todo) \in Nat
  BY <1>1, EmptySeq, LenProperties, ElementOfSeq
<1>3. Before(todo, 1) = {}
  BY DEF Before
<1>4. w.op = "ref" => w.id \in Nat
  BY <1>2, Kinds DEF Quiet
<1>5. w.op = "ref" => w.id <= Count("identities")
  <2>1. PICK d : Path(todo, Lengths, d, Gap(unlisted))
    BY <1>1 DEF Align
  <2>2. Gap(unlisted) \in Nat
    BY DEF Gap
  <2>3. w.op = "ref" => w.id <= Lengths["identities"]
    BY <1>2, <2>1, <2>2, PathEnds
  <2> QED
    BY <1>1, <2>3, LengthsAre DEF Aligned
<1>6. w.op = "ref" =>
          /\ w.id # 0 => Redone(todo, 1, w.id)
          /\ w.at \in Rows /\ Face(w.at).ref \in LiveIds \ {0} => Redone(todo, 1, Face(w.at).ref)
  BY <1>1, <1>2, <1>3 DEF WritesRepair, NewRefsRedone, OldRefsRedone
<1>7. w.op = "tombstone" /\ w.at \in Rows => Face(w.at).ref = 0
  BY <1>1, <1>2, <1>3 DEF WritesRepair, TombsFree
<1> QED
  BY <1>2, <1>3, <1>4, <1>5, <1>6, <1>7

LEMMA RowsGrow ==
    ASSUME FilesOK, NEW w, Follows(w)
    PROVE  /\ Rows \subseteq Rows' /\ Ids \subseteq Ids'
           /\ w.op # "append" => Rows' = Rows /\ Ids' = Ids
<1>1. /\ Count("faces") \in Nat /\ Count("identities") \in Nat
      /\ Count("faces")' = IF AppendsTo(w, "faces") THEN Count("faces") + 1 ELSE Count("faces")
      /\ Count("identities")' = IF AppendsTo(w, "identities") THEN Count("identities") + 1 ELSE Count("identities")
  BY CountIsNat DEF Follows, File
<1>2. w.op # "append" => ~ AppendsTo(w, "faces") /\ ~ AppendsTo(w, "identities")
  BY DEF AppendsTo
<1> QED
  BY <1>1, <1>2 DEF Rows, Ids

LEMMA RowsAdvance ==
    ASSUME DurableInv, RepairInv, todo # <<>>, Follows(todo[1])
    PROVE  RowsInRange(unlisted)'
<1> DEFINE w == todo[1]
<1>1. FilesOK /\ RowsInRange(unlisted)
  BY DEF DurableInv, TypeOK, RepairInv
<1>2. /\ Count("identities") \in Nat
      /\ Count("identities")' = IF AppendsTo(w, "identities") THEN Count("identities") + 1 ELSE Count("identities")
  BY <1>1, CountIsNat DEF Follows, File
<1>3. w.op = "ref" => w.id \in Nat /\ w.id <= Count("identities")
  BY FirstWrite
<1>4. unlisted' \subseteq Rows'
  BY <1>1, RowsGrow DEF RowsInRange, Follows
<1>5. ASSUME NEW r \in Rows' PROVE Face(r)'.ref <= Count("identities")'
  <2>1. CASE r \notin Rows
    BY <1>2, <2>1 DEF Follows
  <2>2. CASE r \in Rows
    <3>1. Face(r)'.ref = IF w.op = "ref" /\ w.at = r THEN w.id ELSE Face(r).ref
      BY <2>2 DEF Follows
    <3>2. Face(r).ref \in Nat /\ Face(r).ref <= Count("identities")
      BY <1>1, <2>2, FaceTyped DEF RowsInRange, FaceRec
    <3> QED
      BY <1>2, <1>3, <3>1, <3>2
  <2> QED
    BY <2>1, <2>2
<1> QED
  BY <1>4, <1>5 DEF RowsInRange, Face

(* Whose faces stay: an identity the write does not name.                  *)
LEMMA MembersStay ==
    ASSUME NEW w, Follows(w), Rows \subseteq Rows', unlisted \subseteq Rows, NEW id, id # 0,
           \A r \in Rows : w.op = "ref" /\ w.at = r => w.id # id /\ Face(r).ref # id,
           \A r \in Rows : w.op = "tombstone" /\ w.at = r => Face(r).ref # id
    PROVE  Listed(id, unlisted)' = Listed(id, unlisted)
<1>1. ASSUME NEW r \in Rows
      PROVE  (r \notin unlisted' /\ Face(r)'.live /\ Face(r)'.ref = id)
                <=> (r \notin unlisted /\ Face(r).live /\ Face(r).ref = id)
  <2>1. /\ Face(r)'.ref = IF w.op = "ref" /\ w.at = r THEN w.id ELSE Face(r).ref
        /\ Face(r)'.live <=> Face(r).live /\ ~ (w.op = "tombstone" /\ w.at = r)
        /\ r \in unlisted' <=> r \in unlisted /\ ~ (w.op = "ref" /\ w.at = r)
    BY DEF Follows
  <2> QED
    BY <2>1
<1>2. \A r \in Rows' : r \notin Rows => Face(r)'.ref # id
  BY DEF Follows
<1>3. Listed(id, unlisted)' = {r \in Rows' \ unlisted' : Face(r)'.live /\ Face(r)'.ref = id}
  BY DEF Listed, RefersTo, Face
<1>4. Listed(id, unlisted) = {r \in Rows \ unlisted : Face(r).live /\ Face(r).ref = id}
  BY DEF Listed, RefersTo
<1> QED
  BY <1>1, <1>2, <1>3, <1>4

LEMMA Recomputed ==
    ASSUME NEW id \in Ids, Follows(Recompute(id))
    PROVE  /\ Recs("identities")'[id].live <=> Listed(id, unlisted) # {}
           /\ Recs("identities")'[id].size = Cardinality(Listed(id, unlisted))
<1> DEFINE b == MembersOf(id) # {}
           n == Cardinality(MembersOf(id))
           x == Recs("identities")'[id]
<1>1. x = [live |-> b, size |-> n]
  BY DEF Follows
<1>2. MembersOf(id) = Listed(id, unlisted)
  BY DEF MembersOf, Listed
<1> HIDE DEF b, n, x
<1>3. x.live = b /\ x.size = n
  BY <1>1
<1> QED
  BY <1>2, <1>3 DEF b, n, x

LEMMA SizesAdvance ==
    ASSUME DurableInv, RepairInv, todo # <<>>, Done, Follows(todo[1]), NEW id \in LiveIds'
    PROVE  SizeRight(id, unlisted)' \/ Redone(todo', 0, id)
<1> DEFINE w == todo[1]
<1>1. /\ FilesOK /\ todo \in Seq(AnyWrite) /\ RowsInRange(unlisted) /\ unlisted \subseteq Rows
      /\ \A i \in LiveIds : SizeRight(i, unlisted) \/ Redone(todo, 0, i)
  BY DEF DurableInv, TypeOK, RepairInv, WrongsRighted, RowsInRange
<1>2. /\ Redone(todo, 0, id) => w = Recompute(id) \/ Redone(todo', 0, id)
      /\ Redone(todo, 1, id) => Redone(todo', 0, id)
      /\ w \in AnyWrite
  BY <1>1, Shifted
<1>3. Rows \subseteq Rows' /\ Ids \subseteq Ids' /\ (w.op # "append" => Rows' = Rows /\ Ids' = Ids)
  BY <1>1, RowsGrow
<1>4. id \in Ids' /\ id # 0
  BY DEF LiveIds, Ids
<1>5. CASE id \notin Ids
  <2>1. Recs("identities")'[id].size = 0
    BY <1>4, <1>5 DEF Follows
  <2>2. w.op = "append"
    BY <1>3, <1>4, <1>5
  <2>3. \A r \in Rows : Face(r)'.ref # id
    <3> SUFFICES ASSUME NEW r \in Rows PROVE Face(r)'.ref # id
      OBVIOUS
    <3>1. Face(r)'.ref = Face(r).ref /\ Face(r).ref <= Count("identities") /\ Face(r).ref \in Nat
      BY <1>1, <2>2, FaceTyped DEF Follows, RowsInRange, FaceRec
    <3>2. Count("identities") \in Nat
      BY <1>1, CountIsNat DEF File
    <3> QED
      BY <1>4, <1>5, <3>1, <3>2 DEF Ids
  <2>4. \A r \in Rows' : Face(r)'.ref # id
    BY <1>4, <2>3 DEF Follows
  <2>5. Listed(id, unlisted)' = {}
    BY <2>4 DEF Listed, RefersTo, Face
  <2> QED
    BY <2>1, <2>5, FS_EmptySet DEF SizeRight
<1>6. CASE id \in Ids /\ w = Recompute(id)
  <2>1. Recs("identities")'[id].size = Cardinality(Listed(id, unlisted))
    BY <1>6, Recomputed
  <2>2. w.op = "recompute"
    BY <1>6 DEF Recompute
  <2>3. Listed(id, unlisted)' = Listed(id, unlisted)
    BY <1>1, <1>3, <1>4, <2>2, MembersStay
  <2> QED
    BY <2>1, <2>3 DEF SizeRight
<1>7. CASE id \in Ids /\ w # Recompute(id)
  <2>1. Recs("identities")'[id] = Recs("identities")[id] /\ id \in LiveIds
    BY <1>7 DEF Follows, LiveIds
  <2>2. CASE Redone(todo, 0, id) \/ Redone(todo, 1, id)
    BY <1>2, <1>7, <2>2
  <2>3. CASE SizeRight(id, unlisted) /\ ~ Redone(todo, 1, id)
    <3>1. /\ w.op = "ref" /\ w.id # 0 => Redone(todo, 1, w.id)
          /\ w.op = "ref" /\ w.at \in Rows /\ Face(w.at).ref \in LiveIds \ {0} => Redone(todo, 1, Face(w.at).ref)
          /\ w.op = "tombstone" /\ w.at \in Rows => Face(w.at).ref = 0
      BY FirstWrite
    <3>2. Listed(id, unlisted)' = Listed(id, unlisted)
      BY <1>1, <1>3, <1>4, <2>1, <2>3, <3>1, MembersStay
    <3> QED
      BY <2>1, <2>3, <3>2 DEF SizeRight
  <2> QED
    BY <1>1, <2>1, <2>2, <2>3
<1> QED
  BY <1>5, <1>6, <1>7

LEMMA DanglingAdvance ==
    ASSUME DurableInv, RepairInv, todo # <<>>, Done, Follows(todo[1]),
           NEW r \in Rows', r \notin unlisted', Face(r)'.live, NEW id, id = Face(r)'.ref, id # 0, id \notin LiveIds'
    PROVE  \/ Redone(todo', 0, id)
           \/ \E j \in 1 .. Len(todo') : todo'[j].op = "ref" /\ todo'[j].at = r
<1> DEFINE w == todo[1]
<1>1. FilesOK /\ todo \in Seq(AnyWrite) /\ RowsInRange(unlisted) /\ WrongsRighted(todo, unlisted)
  BY DEF DurableInv, TypeOK, RepairInv
<1>2. /\ Len(todo) \in Nat \ {0} /\ Len(todo') = Len(todo) - 1
      /\ \A k \in 1 .. Len(todo') : todo'[k] = todo[k + 1]
      /\ Redone(todo, 0, id) => w = Recompute(id) \/ Redone(todo', 0, id)
      /\ Redone(todo, 1, id) => Redone(todo', 0, id)
  BY <1>1, Shifted
<1>3. r \in Rows /\ Ids \subseteq Ids'
  BY <1>1, RowsGrow DEF Follows
<1>4. /\ id = IF w.op = "ref" /\ w.at = r THEN w.id ELSE Face(r).ref
      /\ Face(r).live
  BY <1>3 DEF Follows
<1>5. CASE w.op = "ref" /\ w.at = r
  BY <1>2, <1>4, <1>5, FirstWrite
<1>6. CASE ~ (w.op = "ref" /\ w.at = r)
  <2>1. id = Face(r).ref /\ r \notin unlisted
    BY <1>4, <1>6 DEF Follows
  <2>2. id \in Ids
    <3>1. id \in Nat /\ id <= Count("identities") /\ Count("identities") \in Nat
      BY <1>1, <1>3, <2>1, FaceTyped, CountIsNat DEF RowsInRange, FaceRec, File
    <3> QED
      BY <3>1 DEF Ids
  <2>3. r \in Listed(id, unlisted)
    BY <1>3, <1>4, <2>1 DEF Listed, RefersTo
  <2>4. w # Recompute(id)
    <3>1. ASSUME w = Recompute(id) PROVE Recs("identities")'[id].live
      BY <2>2, <2>3, <3>1, Recomputed
    <3> QED
      BY <1>3, <2>2, <3>1 DEF LiveIds
  <2>5. id \notin LiveIds
    BY <1>3, <2>2, <2>4 DEF LiveIds, Follows
  <2>6. \/ Redone(todo, 0, id)
        \/ \E j \in 1 .. Len(todo) : todo[j].op = "ref" /\ todo[j].at = r
    BY <1>1, <1>3, <1>4, <2>1, <2>5 DEF WrongsRighted
  <2>7. ASSUME NEW j \in 1 .. Len(todo), todo[j].op = "ref", todo[j].at = r
        PROVE  \E i \in 1 .. Len(todo') : todo'[i].op = "ref" /\ todo'[i].at = r
    <3>1. j # 1
      BY <1>6, <2>7
    <3>2. j - 1 \in 1 .. Len(todo') /\ (j - 1) + 1 = j
      BY <1>2, <3>1
    <3> QED
      BY <1>2, <2>7, <3>2
  <2> QED
    BY <1>2, <2>4, <2>6, <2>7
<1> QED
  BY <1>5, <1>6

LEMMA RepairAdvances ==
    ASSUME DurableInv, RepairInv, todo # <<>>, Done, Follows(todo[1])
    PROVE  RepairInv'
<1>1. FilesOK /\ todo \in Seq(AnyWrite) /\ WritesRepair(todo)
  BY DEF DurableInv, TypeOK, RepairInv
<1>2. NewRefsRedone(todo')
  BY <1>1, NewRefsAdvance DEF WritesRepair
<1>3. OldRefsRedone(todo)' /\ TombsFree(todo)' /\ Align(todo, unlisted)' /\ RowsInRange(unlisted)'
  BY OldRefsAdvance, TombsAdvance, AlignAdvances, RowsAdvance
<1>4. WrongsRighted(todo, unlisted)'
  <2>1. \A id \in LiveIds' : SizeRight(id, unlisted)' \/ Redone(todo', 0, id)
    BY SizesAdvance
  <2>2. \A r \in Rows' : r \notin unlisted' /\ Face(r)'.live /\ Face(r)'.ref # 0 /\ Face(r)'.ref \notin LiveIds' =>
            \/ Redone(todo', 0, Face(r)'.ref)
            \/ \E j \in 1 .. Len(todo') : todo'[j].op = "ref" /\ todo'[j].at = r
    BY DanglingAdvance
  <2> QED
    BY <2>1, <2>2 DEF WrongsRighted, Face, Redone
<1> QED
  BY <1>2, <1>3, <1>4 DEF RepairInv, WritesRepair

(* What is asked of the writes to come is asked of the records only.       *)
LEMMA SameRecords ==
    ASSUME \A f \in File : Recs(f)' = Recs(f), RowsInRange(unlisted'), WritesRepair(todo'),
           Align(todo', unlisted'), WrongsRighted(todo', unlisted')
    PROVE  RepairInv'
<1>1. Rows' = Rows /\ Ids' = Ids /\ LiveIds' = LiveIds
  BY DEF Rows, Ids, LiveIds, Count, File
<1>2. /\ \A f \in File : Count(f)' = Count(f)
      /\ \A r : Face(r)' = Face(r)
      /\ Lengths' = Lengths
  BY <1>1 DEF Face, Count, File, Lengths, Aligned
<1>3. NewRefsRedone(todo') /\ TombsFree(todo)'
  BY <1>1, <1>2 DEF WritesRepair, TombsFree, Face
<1>4. OldRefsRedone(todo)'
  BY <1>1, <1>2 DEF WritesRepair, OldRefsRedone, Face
<1>5. Align(todo, unlisted)'
  BY <1>2 DEF Align, Path, Gap
<1>6. RowsInRange(unlisted)'
  BY <1>1, <1>2 DEF RowsInRange, Face, File
<1>7. \A id : SizeRight(id, unlisted)' <=> SizeRight(id, unlisted')
  BY <1>1, <1>2 DEF SizeRight, Listed, RefersTo, Face, File
<1>8. WrongsRighted(todo, unlisted)'
  <2>1. \A id \in LiveIds : SizeRight(id, unlisted)' \/ Redone(todo', 0, id)
    BY <1>7 DEF WrongsRighted
  <2>2. \A r \in Rows \ unlisted' : Face(r).live /\ Face(r).ref # 0 /\ Face(r).ref \notin LiveIds =>
            \/ Redone(todo', 0, Face(r).ref)
            \/ \E j \in 1 .. Len(todo') : todo'[j].op = "ref" /\ todo'[j].at = r
    BY DEF WrongsRighted
  <2> QED
    BY <1>1, <1>2, <2>1, <2>2 DEF WrongsRighted, Face, Redone
<1> QED
  BY <1>3, <1>4, <1>5, <1>6, <1>8 DEF RepairInv, WritesRepair

LEMMA GrowRepairs ==
    ASSUME RepairInv, Grows
    PROVE  RepairInv'
BY SameRecords DEF RepairInv, Grows

LEMMA WriteRepairs ==
    ASSUME DurableInv, RepairInv, Write
    PROVE  RepairInv'
BY WriteFollows, GrowRepairs, RepairAdvances DEF Write

-----------------------------------------------------------------------------
(* What the handlers write *)

(* What holds while requests are served.                                   *)
LEMMA Settled ==
    ASSUME DurableInv, RepairInv, todo = <<>>
    PROVE  /\ FilesOK /\ RowsInRange(unlisted) /\ Ordered(Lengths, Gap(unlisted))
           /\ \A id \in LiveIds : SizeRight(id, unlisted)
           /\ \A r \in Rows \ unlisted : Face(r).live /\ Face(r).ref # 0 => Face(r).ref \in LiveIds
           /\ Count("i8") = Count("embs") /\ Count("centroids") = Count("identities")
           /\ unlisted # {} => Count("embs") < Count("faces")
<1>1. FilesOK /\ RowsInRange(unlisted) /\ Len(todo) = 0
  BY DEF DurableInv, TypeOK, RepairInv
<1>2. \A id : ~ Redone(todo, 0, id)
  BY <1>1 DEF Redone
<1>3. /\ \A id \in LiveIds : SizeRight(id, unlisted)
      /\ \A r \in Rows \ unlisted : Face(r).live /\ Face(r).ref # 0 => Face(r).ref \in LiveIds
  BY <1>1, <1>2 DEF RepairInv, WrongsRighted
<1>4. PICK d : Path(todo, Lengths, d, Gap(unlisted)) /\ d["i8"] = d["embs"] /\ d["centroids"] = d["identities"]
  BY DEF RepairInv, Align
<1>5. Gap(unlisted) \in Nat /\ (unlisted # {} => Gap(unlisted) = 1)
  BY DEF Gap
<1>6. Ordered(Lengths, Gap(unlisted)) /\ Lengths = d
  BY <1>1, <1>4, <1>5, PathEnds
<1>7. /\ Count("i8") = Count("embs") /\ Count("centroids") = Count("identities")
      /\ unlisted # {} => Count("embs") < Count("faces")
  BY <1>1, <1>4, <1>5, <1>6, LengthsAre DEF Ordered, Aligned
<1> QED
  BY <1>1, <1>3, <1>6, <1>7

LEMMA HandlerRepairs ==
    ASSUME DurableInv, RepairInv, todo = <<>>, file' = file, unlisted' = unlisted,
           WritesRepair(todo'), Align(todo', unlisted)
    PROVE  RepairInv'
<1>1. WrongsRighted(todo', unlisted)
  BY Settled DEF WrongsRighted
<1> QED
  BY <1>1, SameRecords DEF RepairInv, Recs

(* Where things are in two sequences, one behind the other.                *)
LEMMA Joints ==
    ASSUME NEW s \in Seq(AnyWrite), NEW t \in Seq(AnyWrite)
    PROVE  /\ s \o t \in Seq(AnyWrite) /\ Len(s) \in Nat /\ Len(t) \in Nat /\ Len(s \o t) = Len(s) + Len(t)
           /\ \A k \in 1 .. Len(s) :
                 /\ k \in 1 .. Len(s \o t) /\ (s \o t)[k] = s[k] /\ Before(s \o t, k) = Before(s, k)
                 /\ \A id : Redone(s, k, id) => Redone(s \o t, k, id)
                 /\ \A id : Redone(t, 0, id) => Redone(s \o t, k, id)
           /\ \A k \in 1 .. Len(t) :
                 /\ k + Len(s) \in 1 .. Len(s \o t) /\ (s \o t)[k + Len(s)] = t[k]
                 /\ Before(s \o t, k + Len(s)) = Before(s, Len(s) + 1) \cup Before(t, k)
                 /\ \A id : Redone(t, k, id) => Redone(s \o t, k + Len(s), id)
           /\ \A k \in 1 .. Len(s \o t) : k \in 1 .. Len(s) \/ \E j \in 1 .. Len(t) : k = j + Len(s)
<1> DEFINE u == s \o t
           m == Len(s)
           n == Len(t)
<1>1. /\ u \in Seq(AnyWrite) /\ m \in Nat /\ n \in Nat /\ Len(u) = m + n
      /\ \A i \in 1 .. m + n : u[i] = IF i <= m THEN s[i] ELSE t[i - m]
  BY ConcatProperties, LenProperties
<1> HIDE DEF u, m, n
<1>2. \A k \in 1 .. m : k \in 1 .. Len(u) /\ u[k] = s[k]
  BY <1>1
<1>3. \A k \in 1 .. n : k + m \in 1 .. Len(u) /\ u[k + m] = t[k]
  <2> SUFFICES ASSUME NEW k \in 1 .. n PROVE k + m \in 1 .. Len(u) /\ u[k + m] = t[k]
    OBVIOUS
  <2>1. k + m \in 1 .. m + n /\ ~ (k + m <= m) /\ (k + m) - m = k
    BY <1>1
  <2> QED
    BY <1>1, <2>1
<1>4. ASSUME NEW k \in 1 .. m
      PROVE  /\ Before(u, k) = Before(s, k)
             /\ \A id : Redone(s, k, id) => Redone(u, k, id)
             /\ \A id : Redone(t, 0, id) => Redone(u, k, id)
  <2>1. Before(u, k) = Before(s, k)
    <3>1. \A j \in 1 .. k - 1 : u[j] = s[j]
      BY <1>1, <1>2
    <3> QED
      BY <3>1 DEF Before
  <2>2. ASSUME NEW id, Redone(s, k, id) PROVE Redone(u, k, id)
    <3>1. PICK j \in k + 1 .. m : s[j] = Recompute(id)
      BY <2>2 DEF Redone, m
    <3>2. j \in 1 .. m /\ j \in k + 1 .. Len(u)
      BY <1>1
    <3> QED
      BY <1>2, <3>1, <3>2 DEF Redone
  <2>3. ASSUME NEW id, Redone(t, 0, id) PROVE Redone(u, k, id)
    <3>1. PICK j \in 0 + 1 .. n : t[j] = Recompute(id)
      BY <2>3 DEF Redone, n
    <3>2. j \in 1 .. n /\ j + m \in k + 1 .. Len(u)
      BY <1>1
    <3> QED
      BY <1>3, <3>1, <3>2 DEF Redone
  <2> QED
    BY <2>1, <2>2, <2>3
<1>5. ASSUME NEW k \in 1 .. n
      PROVE  /\ Before(u, k + m) = Before(s, m + 1) \cup Before(t, k)
             /\ \A id : Redone(t, k, id) => Redone(u, k + m, id)
  <2>1. ASSUME NEW x \in Before(u, k + m) PROVE x \in Before(s, m + 1) \cup Before(t, k)
    <3>1. PICK j \in 1 .. (k + m) - 1 : x = u[j]
      BY DEF Before
    <3>2. CASE j <= m
      <4>1. j \in 1 .. m /\ j \in 1 .. (m + 1) - 1
        BY <1>1, <3>2
      <4> QED
        BY <1>2, <3>1, <4>1 DEF Before
    <3>3. CASE ~ j <= m
      <4>1. j - m \in 1 .. n /\ j - m \in 1 .. k - 1 /\ (j - m) + m = j
        BY <1>1, <3>3
      <4> QED
        BY <1>3, <3>1, <4>1 DEF Before
    <3> QED
      BY <3>2, <3>3
  <2>2. ASSUME NEW x \in Before(s, m + 1) PROVE x \in Before(u, k + m)
    <3>1. PICK j \in 1 .. (m + 1) - 1 : x = s[j]
      BY DEF Before
    <3>2. j \in 1 .. m /\ j \in 1 .. (k + m) - 1
      BY <1>1
    <3> QED
      BY <1>2, <3>1, <3>2 DEF Before
  <2>3. ASSUME NEW x \in Before(t, k) PROVE x \in Before(u, k + m)
    <3>1. PICK j \in 1 .. k - 1 : x = t[j]
      BY DEF Before
    <3>2. j \in 1 .. n /\ j + m \in 1 .. (k + m) - 1
      BY <1>1
    <3> QED
      BY <1>3, <3>1, <3>2 DEF Before
  <2>4. ASSUME NEW id, Redone(t, k, id) PROVE Redone(u, k + m, id)
    <3>1. PICK j \in k + 1 .. n : t[j] = Recompute(id)
      BY <2>4 DEF Redone, n
    <3>2. j \in 1 .. n /\ j + m \in (k + m) + 1 .. Len(u)
      BY <1>1
    <3> QED
      BY <1>3, <3>1, <3>2 DEF Redone
  <2> QED
    BY <2>1, <2>2, <2>3, <2>4
<1>6. \A k \in 1 .. Len(u) : k \in 1 .. m \/ \E j \in 1 .. n : k = j + m
  <2> SUFFICES ASSUME NEW k \in 1 .. Len(u), k \notin 1 .. m PROVE \E j \in 1 .. n : k = j + m
    OBVIOUS
  <2>1. k - m \in 1 .. n /\ k = (k - m) + m
    BY <1>1
  <2> QED
    BY <2>1
<1> QED
  BY <1>1, <1>2, <1>3, <1>4, <1>5, <1>6 DEF u, m, n

(* Writes no length depends on, with refs to the first n identities.       *)
Still(n) == {w \in AnyWrite : (w.op = "append" => w.file = "images") /\ (w.op = "ref" => w.id <= n)}

LEMMA PathStill ==
    ASSUME NEW c \in [Aligned -> Nat], NEW p \in Nat, Ordered(c, p), NEW s \in Seq(Still(c["identities"]))
    PROVE  Path(s, c, c, p)
<1> DEFINE g == [k \in 0 .. Len(s) |-> c]
           X == Still(c["identities"])
<1>1. Len(s) \in Nat
  BY LenProperties
<1>2. \A k \in 1 .. Len(s) : s[k] \in X
  <2> HIDE DEF X
  <2>1. s \in Seq(X)
    BY DEF X
  <2> QED
    BY <2>1, ElementOfSeq
<1>3. g \in [0 .. Len(s) -> [Aligned -> Nat]] /\ \A k \in 0 .. Len(s) : g[k] = c
  OBVIOUS
<1> HIDE DEF g
<1>4. \A k \in 1 .. Len(s) : k - 1 \in 0 .. Len(s) /\ k \in 0 .. Len(s)
  BY <1>1
<1>5. ASSUME NEW k \in 1 .. Len(s)
      PROVE  g[k] = After(g[k - 1], s[k]) /\ (s[k].op = "ref" => s[k].id <= g[k - 1]["identities"])
  <2>1. \A f \in Aligned : ~ AppendsTo(s[k], f)
    BY <1>2 DEF Still, AppendsTo, Aligned
  <2>2. After(c, s[k]) = c
    BY <2>1 DEF After
  <2>3. s[k].op = "ref" => s[k].id <= c["identities"]
    BY <1>2 DEF Still
  <2> QED
    BY <1>3, <1>4, <2>2, <2>3
<1>6. 0 \in 0 .. Len(s) /\ Len(s) \in 0 .. Len(s)
  BY <1>1
<1> QED
  BY <1>3, <1>5, <1>6 DEF Path

LEMMA PathOne ==
    ASSUME NEW c \in [Aligned -> Nat], NEW p \in Nat, NEW w, w.op # "ref", Ordered(c, p), Ordered(After(c, w), p)
    PROVE  Path(<<w>>, c, After(c, w), p) /\ After(c, w) \in [Aligned -> Nat]
<1> DEFINE d == After(c, w)
           s == <<w>>
           g == [k \in 0 .. 1 |-> IF k = 0 THEN c ELSE d]
<1>1. d \in [Aligned -> Nat]
  BY DEF After
<1>2. Len(s) = 1 /\ s[1] = w
  OBVIOUS
<1>3. d = After(c, w)
  OBVIOUS
<1> HIDE DEF s, d
<1>4. g \in [0 .. 1 -> [Aligned -> Nat]] /\ g[0] = c /\ g[1] = d
  BY <1>1
<1> HIDE DEF g
<1>5. \A k \in 1 .. 1 : k = 1 /\ k - 1 = 0
  OBVIOUS
<1>6. \A k \in 0 .. 1 : k = 0 \/ k = 1
  OBVIOUS
<1>7. Path(s, c, d, p)
  BY <1>2, <1>3, <1>4, <1>5, <1>6 DEF Path
<1> QED
  BY <1>1, <1>7 DEF s, d

LEMMA PathJoin ==
    ASSUME NEW s \in Seq(AnyWrite), NEW t \in Seq(AnyWrite), NEW c, NEW d, NEW e, NEW p \in Nat,
           Path(s, c, d, p), Path(t, d, e, p)
    PROVE  Path(s \o t, c, e, p)
<1> DEFINE m == Len(s)
           n == Len(t)
           u == s \o t
<1>1. /\ m \in Nat /\ n \in Nat /\ Len(u) = m + n
      /\ \A k \in 1 .. m : u[k] = s[k]
      /\ \A k \in 1 .. n : u[k + m] = t[k]
  BY Joints
<1>2. PICK g \in [0 .. m -> [Aligned -> Nat]] :
        /\ g[0] = c /\ g[m] = d
        /\ \A k \in 0 .. m : Ordered(g[k], p)
        /\ \A k \in 1 .. m :
              g[k] = After(g[k - 1], s[k]) /\ (s[k].op = "ref" => s[k].id <= g[k - 1]["identities"])
  BY DEF Path
<1>3. PICK h \in [0 .. n -> [Aligned -> Nat]] :
        /\ h[0] = d /\ h[n] = e
        /\ \A k \in 0 .. n : Ordered(h[k], p)
        /\ \A k \in 1 .. n :
              h[k] = After(h[k - 1], t[k]) /\ (t[k].op = "ref" => t[k].id <= h[k - 1]["identities"])
  BY DEF Path
<1> DEFINE f == [k \in 0 .. m + n |-> IF k <= m THEN g[k] ELSE h[k - m]]
<1> HIDE DEF u, m, n
<1>4. \A k \in 0 .. m : k \in 0 .. m + n /\ f[k] = g[k]
  BY <1>1
<1>5. \A k \in m .. m + n : k \in 0 .. m + n /\ k - m \in 0 .. n /\ f[k] = h[k - m]
  <2> SUFFICES ASSUME NEW k \in m .. m + n PROVE k \in 0 .. m + n /\ k - m \in 0 .. n /\ f[k] = h[k - m]
    OBVIOUS
  <2>1. k \in 0 .. m + n /\ k - m \in 0 .. n
    BY <1>1
  <2>2. CASE k = m
    <3>1. k - m = 0 /\ k <= m
      BY <1>1, <2>2
    <3> QED
      BY <1>2, <1>3, <2>1, <2>2, <3>1
  <2>3. CASE k # m
    <3>1. ~ (k <= m)
      BY <1>1, <2>3
    <3> QED
      BY <2>1, <3>1
  <2> QED
    BY <2>1, <2>2, <2>3
<1>6. \A k \in 0 .. m + n : k \in 0 .. m \/ k \in m .. m + n
  BY <1>1
<1>7. f = [k \in 0 .. m + n |-> f[k]]
  OBVIOUS
<1> HIDE DEF f
<1>8. \A k \in 0 .. m + n : f[k] \in [Aligned -> Nat] /\ Ordered(f[k], p)
  BY <1>2, <1>3, <1>4, <1>5, <1>6
<1>9. ASSUME NEW k \in 1 .. m + n
      PROVE  f[k] = After(f[k - 1], u[k]) /\ (u[k].op = "ref" => u[k].id <= f[k - 1]["identities"])
  <2>1. CASE k <= m
    <3>1. k \in 0 .. m /\ k - 1 \in 0 .. m /\ k \in 1 .. m
      BY <1>1, <2>1
    <3> QED
      BY <1>1, <1>2, <1>4, <3>1
  <2>2. CASE ~ (k <= m)
    <3>1. /\ k \in m .. m + n /\ k - 1 \in m .. m + n /\ k - m \in 1 .. n
          /\ (k - 1) - m = (k - m) - 1 /\ (k - m) + m = k
      BY <1>1, <2>2
    <3>2. f[k] = h[k - m] /\ f[k - 1] = h[(k - m) - 1] /\ u[k] = t[k - m]
      <4>1. f[k] = h[k - m] /\ f[k - 1] = h[(k - 1) - m]
        BY <1>5, <3>1
      <4>2. u[(k - m) + m] = t[k - m]
        BY <1>1, <3>1
      <4> QED
        BY <3>1, <4>1, <4>2
    <3> QED
      BY <1>3, <3>1, <3>2
  <2> QED
    BY <2>1, <2>2
<1>10. f[0] = c /\ f[m + n] = e
  <2>1. 0 \in 0 .. m /\ m + n \in m .. m + n /\ (m + n) - m = n
    BY <1>1
  <2> QED
    BY <1>2, <1>3, <1>4, <1>5, <2>1
<1>11. f \in [0 .. m + n -> [Aligned -> Nat]]
  BY <1>7, <1>8
<1>12. Path(u, c, e, p)
  BY <1>1, <1>8, <1>9, <1>10, <1>11 DEF Path
<1> QED
  BY <1>12 DEF u

(* A loop whose rounds take the lengths from one station to the next.      *)
LEMMA PathLoop ==
    ASSUME NEW n \in Nat, NEW ss \in [1 .. n -> Seq(AnyWrite)], NEW p \in Nat,
           NEW g \in [0 .. n -> [Aligned -> Nat]], Ordered(g[0], p),
           \A k \in 1 .. n : Path(ss[k], g[k - 1], g[k], p)
    PROVE  Path(FlattenSeq(ss), g[0], g[n], p)
<1>1. ss \in Seq(Seq(AnyWrite)) /\ Len(ss) = n
  BY SeqDef, LenProperties
<1>2. PICK F : /\ \A i \in 1 .. Len(ss) : F[i] = IF i = 1 THEN ss[i] ELSE F[i - 1] \o ss[i]
               /\ Len(ss) # 0 => FlattenSeq(ss) = F[Len(ss)]
  BY <1>1, FlattenSteps
<1> DEFINE T == {m \in Nat : m \in 1 .. n => F[m] \in Seq(AnyWrite) /\ Path(F[m], g[0], g[m], p)}
<1>3. T = Nat
  <2>1. 0 \in T
    OBVIOUS
  <2>2. ASSUME NEW m \in T PROVE m + 1 \in T
    <3> SUFFICES ASSUME m + 1 \in 1 .. n
                 PROVE  F[m + 1] \in Seq(AnyWrite) /\ Path(F[m + 1], g[0], g[m + 1], p)
      OBVIOUS
    <3>1. ss[m + 1] \in Seq(AnyWrite) /\ (m + 1) - 1 = m /\ Path(ss[m + 1], g[m], g[m + 1], p)
      OBVIOUS
    <3>2. CASE m = 0
      <4>1. F[m + 1] = ss[m + 1]
        BY <1>1, <1>2, <3>2
      <4> QED
        BY <3>1, <3>2, <4>1
    <3>3. CASE m # 0
      <4>1. m \in 1 .. n /\ m + 1 # 1
        BY <3>3
      <4>2. F[m + 1] = F[m] \o ss[m + 1]
        BY <1>1, <1>2, <3>1, <4>1
      <4>3. F[m] \in Seq(AnyWrite) /\ Path(F[m], g[0], g[m], p)
        BY <4>1
      <4>4. F[m + 1] \in Seq(AnyWrite)
        BY <3>1, <4>2, <4>3, ConcatProperties
      <4>5. Path(F[m] \o ss[m + 1], g[0], g[m + 1], p)
        BY <3>1, <4>3, PathJoin
      <4> QED
        BY <4>2, <4>4, <4>5
    <3> QED
      BY <3>2, <3>3
  <2> HIDE DEF T
  <2>3. T \in SUBSET Nat
    BY DEF T
  <2> QED
    BY <2>1, <2>2, <2>3, CountingUp
<1>4. CASE n = 0
  <2>1. ss = <<>>
    BY <1>1, <1>4, EmptySeq
  <2>2. FlattenSeq(ss) = <<>>
    BY <2>1 DEF FlattenSeq
  <2>3. <<>> \in Seq(Still(g[0]["identities"])) /\ g[0] \in [Aligned -> Nat]
    BY One
  <2> QED
    BY <1>4, <2>2, <2>3, PathStill
<1>5. CASE n # 0
  <2>1. n \in T
    <3> HIDE DEF T
    <3> QED
      BY <1>3
  <2>2. n \in 1 .. n
    BY <1>5
  <2>3. Path(F[n], g[0], g[n], p)
    BY <2>1, <2>2
  <2>4. FlattenSeq(ss) = F[n]
    BY <1>1, <1>2, <1>5
  <2> QED
    BY <2>3, <2>4
<1> QED
  BY <1>4, <1>5

(* Of each row in S at most one ref is written, and whoever gets or loses  *)
(* the face is recomputed; a face that is tombstoned belongs to nobody.    *)
RefFine(s, k) ==
    /\ s[k].id # 0 => Redone(s, k, s[k].id)
    /\ s[k].at \in Rows /\ Face(s[k].at).ref # 0 => Redone(s, k, Face(s[k].at).ref)
    /\ \A x \in Before(s, k) : x.op = "ref" => x.at # s[k].at

TombFine(s, k) ==
    /\ \A j \in 1 .. Len(s) : s[j].op = "ref" /\ s[j].at = s[k].at => s[j].id = 0
    /\ s[k].at \in Rows => Face(s[k].at).ref = 0 \/ SetRef(s[k].at, 0) \in Before(s, k)

FineAt(S) ==
    {s \in Seq(AnyWrite) : \A k \in 1 .. Len(s) :
        /\ s[k].op \in {"ref", "tombstone"} => s[k].at \in S
        /\ s[k].op = "ref" => RefFine(s, k)
        /\ s[k].op = "tombstone" => TombFine(s, k)}

LEMMA FineRepairs ==
    ASSUME NEW S, NEW s \in FineAt(S)
    PROVE  WritesRepair(s)
<1>1. NewRefsRedone(s)
  BY DEF FineAt, RefFine, NewRefsRedone
<1>2. OldRefsRedone(s)
  BY DEF FineAt, RefFine, OldRefsRedone
<1>3. TombsFree(s)
  BY DEF FineAt, TombFine, TombsFree
<1> QED
  BY <1>1, <1>2, <1>3 DEF WritesRepair

LEMMA FineMore ==
    ASSUME NEW S, NEW T, S \subseteq T, NEW s \in FineAt(S)
    PROVE  s \in FineAt(T)
BY DEF FineAt

LEMMA FineJoin ==
    ASSUME NEW S, NEW T, S \cap T = {}, NEW s \in FineAt(S), NEW t \in FineAt(T)
    PROVE  s \o t \in FineAt(S \cup T)
<1> DEFINE m == Len(s)
           n == Len(t)
           u == s \o t
<1>0. s \in Seq(AnyWrite) /\ t \in Seq(AnyWrite)
  BY DEF FineAt
<1>1. /\ u \in Seq(AnyWrite) /\ m \in Nat /\ n \in Nat
      /\ \A k \in 1 .. Len(u) : k \in 1 .. m \/ \E j \in 1 .. n : k = j + m
  BY <1>0, Joints
<1>2. \A k \in 1 .. m :
         /\ k \in 1 .. Len(u) /\ u[k] = s[k] /\ Before(u, k) = Before(s, k)
         /\ \A id : Redone(s, k, id) => Redone(u, k, id)
  BY <1>0, Joints
<1>3. \A k \in 1 .. n :
         /\ k + m \in 1 .. Len(u) /\ u[k + m] = t[k]
         /\ Before(u, k + m) = Before(s, m + 1) \cup Before(t, k)
         /\ \A id : Redone(t, k, id) => Redone(u, k + m, id)
  BY <1>0, Joints
<1>4. /\ \A k \in 1 .. m : s[k].op \in {"ref", "tombstone"} => s[k].at \in S
      /\ \A k \in 1 .. n : t[k].op \in {"ref", "tombstone"} => t[k].at \in T
  BY DEF FineAt
<1>5. \A x \in Before(s, m + 1) : x.op = "ref" => x.at \in S
  <2> SUFFICES ASSUME NEW j \in 1 .. (m + 1) - 1, s[j].op = "ref" PROVE s[j].at \in S
    BY DEF Before
  <2>1. j \in 1 .. m
    BY <1>1
  <2> QED
    BY <1>4, <2>1
<1>6. \A k \in 1 .. Len(u) : u[k].op \in {"ref", "tombstone"} => u[k].at \in S \cup T
  BY <1>1, <1>2, <1>3, <1>4
<1>7. ASSUME NEW k \in 1 .. m, s[k].op = "ref" PROVE RefFine(u, k)
  <2>1. RefFine(s, k)
    BY <1>7 DEF FineAt
  <2>2. /\ u[k] = s[k] /\ Before(u, k) = Before(s, k)
        /\ \A id : Redone(s, k, id) => Redone(u, k, id)
    BY <1>2
  <2> HIDE DEF u
  <2> QED
    BY <2>1, <2>2 DEF RefFine
<1>8. ASSUME NEW k \in 1 .. n, t[k].op = "ref" PROVE RefFine(u, k + m)
  <2>1. RefFine(t, k) /\ t[k].at \in T
    BY <1>8 DEF FineAt
  <2>2. /\ u[k + m] = t[k]
        /\ Before(u, k + m) = Before(s, m + 1) \cup Before(t, k)
        /\ \A id : Redone(t, k, id) => Redone(u, k + m, id)
    BY <1>3
  <2> HIDE DEF u
  <2>3. \A x \in Before(u, k + m) : x.op = "ref" => x.at # t[k].at
    <3>1. \A x \in Before(s, m + 1) : x.op = "ref" => x.at # t[k].at
      BY <1>5, <2>1
    <3>2. \A x \in Before(t, k) : x.op = "ref" => x.at # t[k].at
      BY <2>1 DEF RefFine
    <3> QED
      BY <2>2, <3>1, <3>2
  <2> QED
    BY <2>1, <2>2, <2>3 DEF RefFine
<1>9. ASSUME NEW k \in 1 .. m, s[k].op = "tombstone" PROVE TombFine(u, k)
  <2>1. TombFine(s, k) /\ s[k].at \in S
    BY <1>9 DEF FineAt
  <2>2. \A j \in 1 .. Len(u) : u[j].op = "ref" /\ u[j].at = s[k].at => u[j].id = 0
    <3> SUFFICES ASSUME NEW j \in 1 .. Len(u), u[j].op = "ref", u[j].at = s[k].at PROVE u[j].id = 0
      OBVIOUS
    <3>1. CASE j \in 1 .. m
      <4>1. u[j] = s[j]
        BY <1>2, <3>1
      <4> QED
        BY <2>1, <3>1, <4>1 DEF TombFine
    <3>2. ASSUME NEW i \in 1 .. n, j = i + m PROVE FALSE
      <4>1. u[j] = t[i]
        BY <1>3, <3>2
      <4>2. t[i].at \in T
        BY <1>4, <4>1
      <4> QED
        BY <2>1, <4>1, <4>2
    <3> QED
      BY <1>1, <3>1, <3>2
  <2>3. u[k] = s[k] /\ Before(u, k) = Before(s, k)
    BY <1>2
  <2> HIDE DEF u
  <2> QED
    BY <2>1, <2>2, <2>3 DEF TombFine
<1>10. ASSUME NEW k \in 1 .. n, t[k].op = "tombstone" PROVE TombFine(u, k + m)
  <2>1. TombFine(t, k) /\ t[k].at \in T
    BY <1>10 DEF FineAt
  <2>2. \A j \in 1 .. Len(u) : u[j].op = "ref" /\ u[j].at = t[k].at => u[j].id = 0
    <3> SUFFICES ASSUME NEW j \in 1 .. Len(u), u[j].op = "ref", u[j].at = t[k].at PROVE u[j].id = 0
      OBVIOUS
    <3>1. CASE j \in 1 .. m
      <4>1. u[j] = s[j]
        BY <1>2, <3>1
      <4>2. s[j].at \in S
        BY <1>4, <3>1, <4>1
      <4> QED
        BY <2>1, <4>1, <4>2
    <3>2. ASSUME NEW i \in 1 .. n, j = i + m PROVE u[j].id = 0
      <4>1. u[j] = t[i]
        BY <1>3, <3>2
      <4> QED
        BY <2>1, <4>1 DEF TombFine
    <3> QED
      BY <1>1, <3>1, <3>2
  <2>3. u[k + m] = t[k] /\ Before(u, k + m) = Before(s, m + 1) \cup Before(t, k)
    BY <1>3
  <2> HIDE DEF u
  <2> QED
    BY <2>1, <2>2, <2>3 DEF TombFine
<1>11. ASSUME NEW k \in 1 .. Len(u)
       PROVE  (u[k].op = "ref" => RefFine(u, k)) /\ (u[k].op = "tombstone" => TombFine(u, k))
  <2>1. CASE k \in 1 .. m
    <3>1. u[k] = s[k]
      BY <1>2, <2>1
    <3> QED
      BY <1>7, <1>9, <2>1, <3>1
  <2>2. ASSUME NEW j \in 1 .. n, k = j + m
        PROVE  (u[k].op = "ref" => RefFine(u, k)) /\ (u[k].op = "tombstone" => TombFine(u, k))
    <3>1. u[k] = t[j]
      BY <1>3, <2>2
    <3> QED
      BY <1>8, <1>10, <2>2, <3>1
  <2> QED
    BY <1>1, <2>1, <2>2
<1> HIDE DEF u
<1>12. u \in FineAt(S \cup T)
  BY <1>1, <1>6, <1>11 DEF FineAt
<1> QED
  BY <1>12 DEF u

(* A loop whose k-th round writes to row k only.                           *)
LEMMA FineLoop ==
    ASSUME NEW n \in Nat, NEW S, NEW ss, ss = [k \in 1 .. n |-> ss[k]], \A k \in 1 .. n : ss[k] \in FineAt(S \cap {k})
    PROVE  FlattenSeq(ss) \in FineAt(S)
<1>1. Len(ss) = n
  <2>1. ss \in [1 .. n -> {ss[k] : k \in 1 .. n}]
    OBVIOUS
  <2>2. ss \in Seq({ss[k] : k \in 1 .. n})
    BY <2>1, SeqDef
  <2> QED
    BY <2>1, <2>2, LenProperties
<1>2. PICK F : /\ \A i \in 1 .. Len(ss) : F[i] = IF i = 1 THEN ss[i] ELSE F[i - 1] \o ss[i]
               /\ Len(ss) # 0 => FlattenSeq(ss) = F[Len(ss)]
  BY <1>1, FlattenSteps
<1> DEFINE T == {m \in Nat : m \in 1 .. n => F[m] \in FineAt(S \cap (1 .. m))}
<1>3. T = Nat
  <2>1. 0 \in T
    OBVIOUS
  <2>2. ASSUME NEW m \in T PROVE m + 1 \in T
    <3> SUFFICES ASSUME m + 1 \in 1 .. n
                 PROVE  F[m + 1] \in FineAt(S \cap (1 .. m + 1))
      OBVIOUS
    <3>1. ss[m + 1] \in FineAt(S \cap {m + 1}) /\ (m + 1) - 1 = m
      OBVIOUS
    <3>2. CASE m = 0
      <4>1. F[m + 1] = ss[m + 1]
        BY <1>1, <1>2, <3>2
      <4>2. S \cap {m + 1} \subseteq S \cap (1 .. m + 1)
        OBVIOUS
      <4>3. F[m + 1] \in FineAt(S \cap {m + 1})
        BY <3>1, <4>1
      <4> DEFINE A == S \cap {m + 1}
                 B == S \cap (1 .. m + 1)
      <4>4. A \subseteq B /\ F[m + 1] \in FineAt(A)
        BY <4>2, <4>3
      <4> HIDE DEF A, B
      <4>5. F[m + 1] \in FineAt(B)
        BY <4>4, FineMore
      <4> QED
        BY <4>5 DEF B
    <3>3. CASE m # 0
      <4>1. m \in 1 .. n /\ m + 1 # 1
        BY <3>3
      <4>2. F[m + 1] = F[m] \o ss[m + 1]
        BY <1>1, <1>2, <3>1, <4>1
      <4>3. F[m] \in FineAt(S \cap (1 .. m))
        BY <4>1
      <4>4. (S \cap (1 .. m)) \cap (S \cap {m + 1}) = {}
        OBVIOUS
      <4>5. F[m] \o ss[m + 1] \in FineAt((S \cap (1 .. m)) \cup (S \cap {m + 1}))
        BY <3>1, <4>3, <4>4, FineJoin
      <4>6. (S \cap (1 .. m)) \cup (S \cap {m + 1}) = S \cap (1 .. m + 1)
        OBVIOUS
      <4> QED
        BY <4>2, <4>5, <4>6
    <3> QED
      BY <3>2, <3>3
  <2> HIDE DEF T
  <2>3. T \in SUBSET Nat
    BY DEF T
  <2> QED
    BY <2>1, <2>2, <2>3, CountingUp
<1>4. CASE n = 0
  <2>1. ss = <<>>
    BY <1>4
  <2>2. FlattenSeq(ss) = <<>>
    BY <2>1 DEF FlattenSeq
  <2>3. <<>> \in Seq(AnyWrite) /\ Len(<<>>) = 0
    BY One
  <2> QED
    BY <2>2, <2>3 DEF FineAt
<1>5. CASE n # 0
  <2>1. n \in T
    <3> HIDE DEF T
    <3> QED
      BY <1>3
  <2>2. n \in 1 .. n /\ S \cap (1 .. n) \subseteq S
    BY <1>5
  <2>3. F[n] \in FineAt(S \cap (1 .. n))
    BY <2>1, <2>2
  <2>4. FlattenSeq(ss) = F[n]
    BY <1>1, <1>2, <1>5
  <2> QED
    BY <2>2, <2>3, <2>4, FineMore
<1> QED
  BY <1>4, <1>5

(* Writes that neither refer a face nor tombstone one.                     *)
Gentle == {w \in AnyWrite : w.op \notin {"ref", "tombstone"}}

LEMMA GentleFine ==
    ASSUME NEW s \in Seq(Gentle), NEW S
    PROVE  s \in FineAt(S)
<1>1. Gentle \subseteq AnyWrite
  BY DEF Gentle
<1>2. s \in Seq(AnyWrite) /\ \A k \in 1 .. Len(s) : s[k] \in Gentle
  <2> HIDE DEF Gentle
  <2> QED
    BY <1>1, ElementOfSeq
<1>3. \A k \in 1 .. Len(s) : s[k].op \notin {"ref", "tombstone"}
  BY <1>2 DEF Gentle
<1> QED
  BY <1>2, <1>3 DEF FineAt

LEMMA StillOnes ==
    ASSUME NEW n
    PROVE  /\ \A id \in Nat : Recompute(id) \in Gentle \cap Still(n)
           /\ \A f \in {"embs", "i8"}, k, rec \in Nat : Put(f, k, rec) \in Gentle \cap Still(n)
           /\ \A k \in Nat, rec \in ImageRec :
                 Put("images", k, rec) \in Gentle \cap Still(n) /\ Append_("images", rec) \in Gentle \cap Still(n)
           /\ \A s \in Sha : WriteMaster(s) \in Gentle \cap Still(n) /\ UnlinkMaster(s) \in Gentle \cap Still(n)
           /\ \A i \in Nat, s \in Sha : Answer(i, s) \in Gentle \cap Still(n)
           /\ \A r \in Nat : TombFace(r) \in Still(n)
           /\ \A r, id \in Nat : id <= n => SetRef(r, id) \in Still(n)
<1>1. \A id \in Nat : Recompute(id) \in Gentle \cap Still(n)
  BY QuietOnes DEF Gentle, Still, AnyWrite, Recompute
<1>2. \A f \in {"embs", "i8"}, k, rec \in Nat : Put(f, k, rec) \in Gentle \cap Still(n)
  BY QuietOnes DEF Gentle, Still, AnyWrite, Put
<1>3. \A k \in Nat, rec \in ImageRec :
         Put("images", k, rec) \in Gentle \cap Still(n) /\ Append_("images", rec) \in Gentle \cap Still(n)
  BY DEF Gentle, Still, AnyWrite, ImageWrites, ImagePuts, ImageAppends, Put, Append_
<1>4. \A s \in Sha : WriteMaster(s) \in Gentle \cap Still(n) /\ UnlinkMaster(s) \in Gentle \cap Still(n)
  BY DEF Gentle, Still, AnyWrite, MasterWrites, Unlinks, WriteMaster, UnlinkMaster
<1>5. \A i \in Nat, s \in Sha : Answer(i, s) \in Gentle \cap Still(n)
  BY DEF Gentle, Still, AnyWrite, Answers, Answer
<1>6. \A r \in Nat : TombFace(r) \in Still(n)
  BY DEF Still, AnyWrite, Tombs, TombFace
<1>7. \A r, id \in Nat : id <= n => SetRef(r, id) \in Still(n)
  BY QuietOnes DEF Still, AnyWrite, SetRef
<1> QED
  BY <1>1, <1>2, <1>3, <1>4, <1>5, <1>6, <1>7

LEMMA StillWrites ==
    ASSUME NEW n, NEW s \in Seq(Still(n))
    PROVE  s \in Seq(AnyWrite)
<1>1. Still(n) \subseteq AnyWrite
  BY DEF Still
<1> QED
  BY <1>1

LEMMA RecomputesStill ==
    ASSUME NEW n \in Nat, NEW S, NEW m
    PROVE  Recomputes(n, S) \in Seq(Gentle) /\ Recomputes(n, S) \in Seq(Still(m))
<1> DEFINE ss == [k \in 1 .. n |-> IF k \in S THEN <<Recompute(k)>> ELSE <<>>]
<1>1. \A k \in 1 .. n : ss[k] \in Seq(Gentle) /\ ss[k] \in Seq(Still(m))
  BY StillOnes, One
<1>2. ss = [k \in 1 .. n |-> ss[k]]
  OBVIOUS
<1>3. Recomputes(n, S) = FlattenSeq(ss)
  BY DEF Recomputes, ForEach
<1> HIDE DEF ss
<1> QED
  BY <1>1, <1>2, <1>3, Looped

(* A ref and the recomputing behind it.                                    *)
LEMMA RefAndRedo ==
    ASSUME NEW r \in Nat, NEW to \in Nat, NEW id \in Nat, to # 0 => to = id,
           r \in Rows => Face(r).ref \in {0, id}
    PROVE  <<SetRef(r, to), Recompute(id)>> \in FineAt({r})
<1> DEFINE a == SetRef(r, to)
           b == Recompute(id)
           s == <<a, b>>
<1>1. a.op = "ref" /\ a.at = r /\ a.id = to /\ b.op = "recompute" /\ b = Recompute(id)
  BY DEF SetRef, Recompute
<1>2. a \in AnyWrite /\ b \in AnyWrite
  BY QuietOnes DEF AnyWrite
<1> HIDE DEF a, b
<1>3. s \in Seq(AnyWrite) /\ Len(s) = 2 /\ s[1] = a /\ s[2] = b
  BY <1>2, One
<1> HIDE DEF s
<1>4. Redone(s, 1, id)
  <2>1. 2 \in 1 + 1 .. Len(s)
    BY <1>3
  <2> QED
    BY <1>1, <1>3, <2>1 DEF Redone
<1>5. Before(s, 1) = {}
  BY DEF Before
<1>6. RefFine(s, 1)
  BY <1>1, <1>3, <1>4, <1>5 DEF RefFine
<1>7. \A k \in 1 .. Len(s) : k = 1 \/ k = 2
  BY <1>3
<1>8. s \in FineAt({r})
  BY <1>1, <1>3, <1>6, <1>7 DEF FineAt
<1> QED
  BY <1>8 DEF s, a, b

LEMMA JoinFine ==
    ASSUME NEW r \in Nat, NEW id \in Nat, r \in Rows => Face(r).ref = 0
    PROVE  Join(r, id) \in FineAt({r}) /\ \A n : id <= n => Join(r, id) \in Seq(Still(n))
<1>1. CASE id = 0
  BY <1>1, One, GentleFine DEF Join
<1>2. CASE id # 0
  <2>1. Join(r, id) = <<SetRef(r, id), Recompute(id)>>
    BY <1>2 DEF Join
  <2> QED
    BY <2>1, RefAndRedo, StillOnes, One
<1> QED
  BY <1>1, <1>2

LEMMA LeaveFine ==
    ASSUME FilesOK, NEW r \in Rows
    PROVE  Leave(r) \in FineAt({r}) /\ \A n \in Nat : Leave(r) \in Seq(Still(n))
<1>1. r \in Nat /\ Face(r).ref \in Nat
  BY FaceTyped DEF FaceRec, Rows
<1>2. CASE Face(r).ref = 0
  BY <1>2, One, GentleFine DEF Leave
<1>3. CASE Face(r).ref # 0
  <2>1. Leave(r) = <<SetRef(r, 0), Recompute(Face(r).ref)>>
    BY <1>3 DEF Leave
  <2>2. \A n \in Nat : 0 <= n
    OBVIOUS
  <2> QED
    BY <1>1, <2>1, <2>2, RefAndRedo, StillOnes, One
<1> QED
  BY <1>2, <1>3

LEMMA DropFine ==
    ASSUME FilesOK, NEW r \in Rows
    PROVE  Drop(r) \in FineAt({r}) /\ \A n \in Nat : Drop(r) \in Seq(Still(n))
<1> DEFINE a == SetRef(r, 0)
           b == Recompute(Face(r).ref)
           c == TombFace(r)
           l == Leave(r)
           u == l \o <<c>>
<1>1. r \in Nat /\ Face(r).ref \in Nat
  BY FaceTyped DEF FaceRec, Rows
<1>2. /\ c \in AnyWrite /\ c.op = "tombstone" /\ c.at = r
      /\ a = SetRef(r, 0) /\ a.op = "ref" /\ a.at = r /\ a.id = 0 /\ b.op = "recompute"
  BY <1>1 DEF AnyWrite, Tombs, TombFace, SetRef, Recompute
<1>3. Drop(r) = u
  BY DEF Drop
<1>4. \A n \in Nat : u \in Seq(Still(n))
  <2> SUFFICES ASSUME NEW n \in Nat PROVE u \in Seq(Still(n))
    OBVIOUS
  <2>1. l \in Seq(Still(n)) /\ <<c>> \in Seq(Still(n))
    BY <1>1, LeaveFine, StillOnes, One
  <2> QED
    BY <2>1, ConcatProperties
<1>5. l \in FineAt({r}) /\ l \in Seq(AnyWrite)
  BY LeaveFine DEF FineAt
<1>6. /\ Face(r).ref = 0 => l = <<>>
      /\ Face(r).ref # 0 => l = <<a, b>>
  BY DEF Leave
<1>7. \A k \in 1 .. Len(l) : l[k].op # "tombstone" /\ (l[k].op = "ref" => l[k].id = 0)
  <2>1. CASE Face(r).ref = 0
    BY <1>6, <2>1
  <2>2. CASE Face(r).ref # 0
    <3>1. l = <<a, b>>
      BY <1>6, <2>2
    <3> HIDE DEF a, b, l
    <3>2. \A k \in 1 .. Len(l) : l[k] = a \/ l[k] = b
      BY <3>1
    <3> QED
      BY <1>2, <3>2
  <2> QED
    BY <2>1, <2>2
<1> DEFINE t == <<c>>
<1> HIDE DEF a, b, c, l
<1>8. t \in Seq(AnyWrite) /\ Len(t) = 1 /\ t[1] = c
  BY <1>2, One
<1> HIDE DEF t
<1>9. /\ l \o t \in Seq(AnyWrite) /\ Len(l) \in Nat
      /\ \A k \in 1 .. Len(l) :
            /\ (l \o t)[k] = l[k] /\ Before(l \o t, k) = Before(l, k)
            /\ \A id : Redone(l, k, id) => Redone(l \o t, k, id)
  BY <1>5, <1>8, Joints
<1>10. /\ (l \o t)[1 + Len(l)] = c /\ Before(l \o t, 1 + Len(l)) = Before(l, Len(l) + 1) \cup Before(t, 1)
  <2>1. l \in Seq(AnyWrite) /\ t \in Seq(AnyWrite)
    BY <1>5, <1>8
  <2>2. 1 \in 1 .. Len(t)
    BY <1>8
  <2>3. ASSUME NEW k \in 1 .. Len(t)
        PROVE  (l \o t)[k + Len(l)] = t[k] /\ Before(l \o t, k + Len(l)) = Before(l, Len(l) + 1) \cup Before(t, k)
    BY <2>1, Joints
  <2>4. (l \o t)[1 + Len(l)] = t[1] /\ Before(l \o t, 1 + Len(l)) = Before(l, Len(l) + 1) \cup Before(t, 1)
    BY <2>2, <2>3
  <2> QED
    BY <1>8, <2>4
<1>11. \A k \in 1 .. Len(l \o t) : k \in 1 .. Len(l) \/ k = 1 + Len(l)
  <2>1. \A k \in 1 .. Len(l \o t) : k \in 1 .. Len(l) \/ \E j \in 1 .. Len(t) : k = j + Len(l)
    BY <1>5, <1>8, Joints
  <2> QED
    BY <1>8, <2>1
<1> DEFINE v == l \o t
<1> HIDE DEF v
<1>12. /\ v \in Seq(AnyWrite) /\ v[1 + Len(l)] = c
       /\ \A k \in 1 .. Len(l) :
            /\ v[k] = l[k] /\ Before(v, k) = Before(l, k)
            /\ \A id : Redone(l, k, id) => Redone(v, k, id)
       /\ Before(v, 1 + Len(l)) = Before(l, Len(l) + 1) \cup Before(t, 1)
       /\ \A k \in 1 .. Len(v) : k \in 1 .. Len(l) \/ k = 1 + Len(l)
  BY <1>9, <1>10, <1>11 DEF v
<1>13. \A j \in 1 .. Len(v) : v[j].op = "ref" => v[j].id = 0
  BY <1>2, <1>7, <1>12
<1>14. Face(r).ref = 0 \/ SetRef(r, 0) \in Before(v, 1 + Len(l))
  <2> SUFFICES ASSUME Face(r).ref # 0 PROVE a \in Before(l, Len(l) + 1)
    BY <1>2, <1>12
  <2>1. l = <<a, b>>
    BY <1>6
  <2>2. Len(l) = 2 /\ l[1] = a /\ 1 \in 1 .. (Len(l) + 1) - 1
    BY <2>1
  <2> QED
    BY <2>2 DEF Before
<1>15. TombFine(v, 1 + Len(l))
  BY <1>2, <1>12, <1>13, <1>14 DEF TombFine
<1>16. \A k \in 1 .. Len(l) : /\ l[k].op = "ref" => RefFine(l, k)
                              /\ l[k].op \in {"ref", "tombstone"} => l[k].at \in {r}
  BY <1>5 DEF FineAt
<1>17. \A k \in 1 .. Len(l) : l[k].op = "ref" => RefFine(v, k)
  BY <1>12, <1>16 DEF RefFine
<1>18. v \in FineAt({r})
  BY <1>2, <1>7, <1>12, <1>15, <1>16, <1>17 DEF FineAt
<1> QED
  BY <1>3, <1>4, <1>18 DEF v, t

(* A new embedding, and the face stays, joins or leaves.                   *)
LEMMA RemapFine ==
    ASSUME FilesOK, NEW q \in Rows, NEW id \in Nat
    PROVE  Remap(q, id) \in FineAt({q}) /\ \A n \in Nat : id <= n => Remap(q, id) \in Seq(Still(n))
<1> DEFINE p     == <<Put("embs", q, q), Put("i8", q, q)>>
           moves == IF id = 0 THEN Leave(q) ELSE IF Face(q).ref = 0 THEN Join(q, id) ELSE <<>>
<1>1. q \in Nat
  BY DEF Rows
<1>2. p \in Seq(Gentle) /\ \A n : p \in Seq(Still(n))
  BY <1>1, StillOnes, One
<1>3. moves \in FineAt({q}) /\ \A n \in Nat : id <= n => moves \in Seq(Still(n))
  <2>1. CASE id = 0
    BY <2>1, LeaveFine
  <2>2. CASE id # 0 /\ Face(q).ref = 0
    BY <1>1, <2>2, JoinFine
  <2>3. CASE id # 0 /\ Face(q).ref # 0
    BY <2>3, One, GentleFine
  <2> QED
    BY <2>1, <2>2, <2>3
<1>4. Remap(q, id) = p \o moves
  BY DEF Remap
<1> HIDE DEF p, moves
<1>5. p \in FineAt({})
  BY <1>2, GentleFine
<1>6. p \o moves \in FineAt({} \cup {q})
  BY <1>3, <1>5, FineJoin
<1>7. \A n \in Nat : id <= n => p \o moves \in Seq(Still(n))
  BY <1>2, <1>3, ConcatProperties
<1>8. {} \cup {q} = {q}
  OBVIOUS
<1> QED
  BY <1>4, <1>6, <1>7, <1>8

LEMMA DropsFine ==
    ASSUME FilesOK, NEW S \in SUBSET Rows, NEW n \in Nat
    PROVE  Drops(S) \in FineAt(S) /\ Drops(S) \in Seq(Still(n))
<1> DEFINE m  == Count("faces")
           ss == [k \in 1 .. m |-> IF k \in S THEN Drop(k) ELSE <<>>]
<1>1. m \in Nat
  BY CountIsNat DEF File
<1>2. ASSUME NEW k \in 1 .. m PROVE ss[k] \in FineAt(S \cap {k}) /\ ss[k] \in Seq(Still(n))
  <2>1. CASE k \in S
    <3>1. S \cap {k} = {k} /\ ss[k] = Drop(k)
      BY <2>1
    <3> HIDE DEF ss
    <3> QED
      BY <2>1, <3>1, DropFine
  <2>2. CASE k \notin S
    BY <2>2, One, GentleFine
  <2> QED
    BY <2>1, <2>2
<1>3. ss = [k \in 1 .. m |-> ss[k]]
  OBVIOUS
<1>4. Drops(S) = FlattenSeq(ss)
  BY DEF Drops, ForEach
<1> HIDE DEF ss, m
<1> QED
  BY <1>1, <1>2, <1>3, <1>4, FineLoop, Looped

LEMMA RemapsFine ==
    ASSUME FilesOK, NEW n \in Nat, NEW to, \A q \in DOMAIN to : to[q] \in Nat /\ to[q] <= n
    PROVE  Remaps(to) \in FineAt(DOMAIN to \cap Rows) /\ Remaps(to) \in Seq(Still(n))
<1> DEFINE m  == Count("faces")
           S  == DOMAIN to \cap Rows
           ss == [k \in 1 .. m |-> IF k \in DOMAIN to THEN Remap(k, to[k]) ELSE <<>>]
<1>1. m \in Nat /\ Rows = 1 .. m
  BY CountIsNat DEF File, Rows
<1>2. ASSUME NEW k \in 1 .. m PROVE ss[k] \in FineAt(S \cap {k}) /\ ss[k] \in Seq(Still(n))
  <2>1. CASE k \in S
    <3>1. k \in DOMAIN to /\ S \cap {k} = {k} /\ ss[k] = Remap(k, to[k]) /\ k \in Rows
      BY <1>1, <2>1
    <3>2. to[k] \in Nat /\ to[k] <= n
      BY <3>1
    <3> HIDE DEF ss, S, m
    <3> QED
      BY <3>1, <3>2, RemapFine
  <2>2. CASE k \notin S
    <3>1. ss[k] = <<>>
      BY <1>1, <2>2
    <3> QED
      BY <3>1, One, GentleFine
  <2> QED
    BY <2>1, <2>2
<1>3. ss = [k \in 1 .. m |-> ss[k]]
  OBVIOUS
<1>4. Remaps(to) = FlattenSeq(ss)
  BY DEF Remaps, ForEach
<1> HIDE DEF ss, m, S
<1>5. FlattenSeq(ss) \in FineAt(S) /\ FlattenSeq(ss) \in Seq(Still(n))
  BY <1>1, <1>2, <1>3, FineLoop, Looped
<1> QED
  BY <1>4, <1>5 DEF S

LEMMA FineWrites ==
    ASSUME NEW S, NEW s \in FineAt(S)
    PROVE  s \in Seq(AnyWrite)
BY DEF FineAt

(* From lengths c the writes s lead to aligned ones, and create nobody.    *)
Leads(s, c, p) ==
    \E d \in [Aligned -> Nat] :
        Path(s, c, d, p) /\ d["i8"] = d["embs"] /\ d["centroids"] = c["centroids"] /\ d["identities"] = c["identities"]

LEMMA StillLeads ==
    ASSUME NEW c \in [Aligned -> Nat], NEW p \in Nat, Ordered(c, p), c["i8"] = c["embs"],
           NEW s \in Seq(Still(c["identities"]))
    PROVE  Leads(s, c, p)
BY PathStill DEF Leads

LEMMA LeadsOn ==
    ASSUME NEW c \in [Aligned -> Nat], NEW p \in Nat, Ordered(c, p),
           NEW s \in Seq(AnyWrite), Leads(s, c, p), NEW t \in Seq(Still(c["identities"]))
    PROVE  Leads(s \o t, c, p) /\ Leads(t \o s, c, p)
<1>1. PICK d \in [Aligned -> Nat] :
         Path(s, c, d, p) /\ d["i8"] = d["embs"] /\ d["centroids"] = c["centroids"] /\ d["identities"] = c["identities"]
  BY DEF Leads
<1>2. t \in Seq(AnyWrite) /\ Len(s) \in Nat
  BY StillWrites, LenProperties
<1>3. Ordered(d, p)
  BY <1>1, <1>2, PathEnds
<1>4. Path(t, c, c, p)
  BY PathStill
<1>5. Path(t, d, d, p)
  BY <1>1, <1>3, PathStill
<1>6. Path(s \o t, c, d, p)
  BY <1>1, <1>2, <1>5, PathJoin
<1>7. Path(t \o s, c, d, p)
  BY <1>1, <1>2, <1>4, PathJoin
<1> QED
  BY <1>1, <1>6, <1>7 DEF Leads

(* A handler that runs while requests are served.                          *)
LEMMA Handled ==
    ASSUME DurableInv, RepairInv, todo = <<>>, file' = file, unlisted' = unlisted, NEW S, todo' \in FineAt(S),
           Leads(todo', Lengths, Gap(unlisted)), Lengths["centroids"] = Lengths["identities"]
    PROVE  RepairInv'
<1>1. Align(todo', unlisted)
  BY DEF Align, Leads
<1> QED
  BY <1>1, FineRepairs, HandlerRepairs

(* What a handler can rely on.                                             *)
LEMMA Served ==
    ASSUME DurableInv, RepairInv, todo = <<>>
    PROVE  /\ FilesOK /\ Lengths \in [Aligned -> Nat] /\ Gap(unlisted) \in Nat /\ Ordered(Lengths, Gap(unlisted))
           /\ Lengths["i8"] = Lengths["embs"] /\ Lengths["centroids"] = Lengths["identities"]
           /\ Lengths["identities"] = Count("identities") /\ Count("identities") \in Nat
           /\ \A id \in LiveIds \cup {0} : id \in Nat /\ id <= Count("identities")
<1>1. FilesOK /\ Ordered(Lengths, Gap(unlisted)) /\ Count("i8") = Count("embs") /\ Count("centroids") = Count("identities")
  BY Settled
<1>2. Lengths \in [Aligned -> Nat] /\ \A f \in Aligned : Lengths[f] = Count(f) /\ Count(f) \in Nat
  BY <1>1, LengthsAre
<1>3. Gap(unlisted) \in Nat
  BY DEF Gap
<1>4. \A id \in LiveIds \cup {0} : id \in Nat /\ id <= Count("identities")
  BY <1>1, <1>2, LiveIdsNat DEF Aligned
<1> QED
  BY <1>1, <1>2, <1>3, <1>4 DEF Aligned

(* Three rows and the one who gets the face.                               *)
LEMMA AppendFacePath ==
    ASSUME NEW c \in [Aligned -> Nat], NEW p \in Nat, Ordered(c, p), c["i8"] = c["embs"],
           NEW r \in Nat, NEW i \in Nat, NEW id \in Nat, id <= c["identities"], r \notin Rows
    PROVE  /\ AppendFace(r, i, id) \in FineAt({r})
           /\ Leads(AppendFace(r, i, id), c, p)
<1> DEFINE a  == Append_("faces", [image |-> i, live |-> TRUE, ref |-> 0])
           b  == Append_("embs", r)
           e  == Append_("i8", r)
           c1 == After(c, a)
           c2 == After(c1, b)
           c3 == After(c2, e)
           rows == <<a, b, e>>
           join == Join(r, id)
<1>1. a \in Gentle /\ b \in Gentle /\ e \in Gentle
  <2>1. [image |-> i, live |-> TRUE, ref |-> 0] \in FreshFace
    BY DEF FreshFace
  <2>2. a \in AnyWrite
    BY <2>1 DEF AnyWrite, FaceAppends, Append_
  <2>3. b \in AnyWrite /\ e \in AnyWrite
    BY QuietOnes DEF AnyWrite, Numbers
  <2>4. a.op = "append" /\ b.op = "append" /\ e.op = "append"
    BY DEF Append_
  <2> HIDE DEF a, b, e
  <2> QED
    BY <2>2, <2>3, <2>4 DEF Gentle
<1>2. /\ \A f : AppendsTo(a, f) <=> f = "faces"
      /\ \A f : AppendsTo(b, f) <=> f = "embs"
      /\ \A f : AppendsTo(e, f) <=> f = "i8"
      /\ a.op # "ref" /\ b.op # "ref" /\ e.op # "ref"
  BY DEF AppendsTo, Append_
<1>3. AppendFace(r, i, id) = rows \o join
  BY DEF AppendFace
<1> HIDE DEF a, b, e
<1>4. /\ c1 = [f \in Aligned |-> IF f = "faces" THEN c[f] + 1 ELSE c[f]]
      /\ c2 = [f \in Aligned |-> IF f = "embs" THEN c1[f] + 1 ELSE c1[f]]
      /\ c3 = [f \in Aligned |-> IF f = "i8" THEN c2[f] + 1 ELSE c2[f]]
  BY <1>2 DEF After
<1>5. c1 \in [Aligned -> Nat] /\ c1["faces"] = c["faces"] + 1 /\ \A f \in Aligned \ {"faces"} : c1[f] = c[f]
  <2> HIDE DEF c1, c2, c3
  <2> QED
    BY <1>4 DEF Aligned
<1>6. c2 \in [Aligned -> Nat] /\ c2["embs"] = c1["embs"] + 1 /\ \A f \in Aligned \ {"embs"} : c2[f] = c1[f]
  <2> HIDE DEF c1, c2, c3
  <2> QED
    BY <1>4, <1>5 DEF Aligned
<1>7. c3 \in [Aligned -> Nat] /\ c3["i8"] = c2["i8"] + 1 /\ \A f \in Aligned \ {"i8"} : c3[f] = c2[f]
  <2> HIDE DEF c1, c2, c3
  <2> QED
    BY <1>4, <1>6 DEF Aligned
<1>8. Ordered(c1, p) /\ Ordered(c2, p) /\ Ordered(c3, p)
  <2>1. \A f \in Aligned : c[f] \in Nat
    OBVIOUS
  <2>2. /\ c["embs"] \in Nat /\ c["i8"] \in Nat /\ c["faces"] \in Nat
        /\ c["embs"] + p <= c["faces"] /\ c["i8"] = c["embs"] /\ c["centroids"] <= c["identities"]
    BY <2>1 DEF Ordered, Aligned
  <2> HIDE DEF c1, c2, c3
  <2>3. /\ c1["faces"] = c["faces"] + 1 /\ c1["embs"] = c["embs"] /\ c1["i8"] = c["i8"]
        /\ c1["centroids"] = c["centroids"] /\ c1["identities"] = c["identities"]
    BY <1>5 DEF Aligned
  <2>4. /\ c2["faces"] = c["faces"] + 1 /\ c2["embs"] = c["embs"] + 1 /\ c2["i8"] = c["i8"]
        /\ c2["centroids"] = c["centroids"] /\ c2["identities"] = c["identities"]
    BY <1>6, <2>3 DEF Aligned
  <2>5. /\ c3["faces"] = c["faces"] + 1 /\ c3["embs"] = c["embs"] + 1 /\ c3["i8"] = c["i8"] + 1
        /\ c3["centroids"] = c["centroids"] /\ c3["identities"] = c["identities"]
    BY <1>7, <2>4 DEF Aligned
  <2> QED
    BY <2>2, <2>3, <2>4, <2>5 DEF Ordered
<1>9. Path(<<a>>, c, c1, p) /\ Path(<<b>>, c1, c2, p) /\ Path(<<e>>, c2, c3, p)
  <2>1. Path(<<a>>, c, After(c, a), p)
    BY <1>2, <1>8, PathOne
  <2>2. Path(<<b>>, c1, After(c1, b), p)
    <3>1. c2 = After(c1, b)
      OBVIOUS
    <3> HIDE DEF c1, c2
    <3> QED
      BY <1>2, <1>5, <1>8, <3>1, PathOne
  <2>3. Path(<<e>>, c2, After(c2, e), p)
    <3>1. c3 = After(c2, e)
      OBVIOUS
    <3> HIDE DEF c2, c3
    <3> QED
      BY <1>2, <1>6, <1>8, <3>1, PathOne
  <2> QED
    BY <2>1, <2>2, <2>3
<1> HIDE DEF c1, c2, c3
<1>10. rows \in Seq(Gentle) /\ rows \in Seq(AnyWrite) /\ Path(rows, c, c3, p)
  <2>1. a \in AnyWrite /\ b \in AnyWrite /\ e \in AnyWrite
    BY <1>1 DEF Gentle
  <2>2. <<a>> \in Seq(AnyWrite) /\ <<b>> \in Seq(AnyWrite) /\ <<e>> \in Seq(AnyWrite) /\ rows \in Seq(AnyWrite)
    BY <2>1, One
  <2>3. <<a>> \o <<b>> \in Seq(AnyWrite) /\ Path(<<a>> \o <<b>>, c, c2, p)
    BY <1>9, <2>2, PathJoin, ConcatProperties
  <2>4. Path((<<a>> \o <<b>>) \o <<e>>, c, c3, p)
    BY <1>9, <2>2, <2>3, PathJoin
  <2> DEFINE x == (<<a>> \o <<b>>) \o <<e>>
  <2>5. x = rows
    <3> DEFINE y == <<a>> \o <<b>>
    <3>1. y \in Seq(AnyWrite) /\ Len(y) = 2 /\ y[1] = a /\ y[2] = b
      BY <2>2, ConcatProperties
    <3> HIDE DEF y
    <3> DEFINE z == <<e>>
    <3>10. z \in Seq(AnyWrite) /\ Len(z) = 1 /\ z[1] = e
      BY <2>2
    <3> HIDE DEF z
    <3>11. /\ y \o z \in Seq(AnyWrite) /\ Len(y \o z) = Len(y) + Len(z)
           /\ \A k \in 1 .. Len(y) + Len(z) : (y \o z)[k] = IF k <= Len(y) THEN y[k] ELSE z[k - Len(y)]
      BY <3>1, <3>10, ConcatProperties
    <3>2. y \o <<e>> \in Seq(AnyWrite) /\ Len(y \o <<e>>) = 3
      BY <3>1, <3>10, <3>11 DEF z
    <3>12. (y \o z)[1] = a /\ (y \o z)[2] = b /\ (y \o z)[3] = e
      BY <3>1, <3>10, <3>11
    <3>3. (y \o <<e>>)[1] = a /\ (y \o <<e>>)[2] = b /\ (y \o <<e>>)[3] = e
      BY <3>12 DEF z
    <3>4. x = y \o <<e>>
      BY DEF y
    <3> HIDE DEF x
    <3>5. x \in Seq(AnyWrite) /\ Len(x) = 3 /\ x[1] = a /\ x[2] = b /\ x[3] = e
      BY <3>2, <3>3, <3>4
    <3>6. Len(rows) = 3 /\ rows[1] = a /\ rows[2] = b /\ rows[3] = e
      OBVIOUS
    <3> HIDE DEF rows
    <3>7. \A k \in 1 .. Len(x) : k = 1 \/ k = 2 \/ k = 3
      BY <3>5
    <3>8. \A k \in 1 .. Len(x) : x[k] = rows[k]
      BY <3>5, <3>6, <3>7
    <3> QED
      BY <2>2, <3>5, <3>6, <3>8, SeqEqual
  <2>6. rows \in Seq(Gentle)
    BY <1>1, One
  <2> QED
    BY <2>2, <2>4, <2>5, <2>6
<1>11. join \in FineAt({r}) /\ \A n : id <= n => join \in Seq(Still(n))
  BY JoinFine
<1> HIDE DEF rows, join
<1>12. \A f \in {"centroids", "identities"} : c3[f] = c[f]
  BY <1>5, <1>6, <1>7 DEF Aligned
<1>13. join \in Seq(Still(c3["identities"])) /\ join \in Seq(AnyWrite)
  BY <1>11, <1>12, StillWrites
<1>14. Path(rows \o join, c, c3, p)
  <2>1. Path(join, c3, c3, p)
    BY <1>7, <1>8, <1>13, PathStill
  <2> QED
    BY <1>10, <1>13, <2>1, PathJoin
<1>15. c3["i8"] = c3["embs"]
  BY <1>5, <1>6, <1>7 DEF Aligned
<1>16. rows \o join \in FineAt({r})
  <2>1. rows \in FineAt({})
    BY <1>10, GentleFine
  <2>2. {} \cap {r} = {} /\ {} \cup {r} = {r}
    OBVIOUS
  <2>3. rows \o join \in FineAt({} \cup {r})
    BY <1>11, <2>1, <2>2, FineJoin
  <2> QED
    BY <2>2, <2>3
<1>17. Leads(rows \o join, c, p)
  BY <1>7, <1>12, <1>14, <1>15 DEF Leads
<1> QED
  BY <1>3, <1>16, <1>17

LEMMA InsertRepairs ==
    ASSUME DurableInv, RepairInv, NEW s \in Sha, NEW id \in LiveIds \cup {0}, Insert(s, id)
    PROVE  RepairInv'
<1> DEFINE i    == Count("images") + 1
           r    == Count("faces") + 1
           c    == Lengths
           p    == Gap(unlisted)
           pre  == <<WriteMaster(s), Append_("images", [sha |-> s, live |-> TRUE])>>
           face == AppendFace(r, i, id)
           post == <<Answer(i, s)>>
<1>1. todo = <<>> /\ todo' = (pre \o face) \o post /\ file' = file /\ unlisted' = unlisted
  BY DEF Insert, Handle
<1>2. /\ FilesOK /\ c \in [Aligned -> Nat] /\ p \in Nat /\ Ordered(c, p) /\ c["i8"] = c["embs"]
      /\ c["centroids"] = c["identities"] /\ id \in Nat /\ id <= c["identities"]
  BY <1>1, Served
<1>3. i \in Nat /\ r \in Nat /\ r \notin Rows
  BY <1>2, CountIsNat DEF File, Rows
<1>4. \A n : pre \in Seq(Gentle) /\ pre \in Seq(Still(n)) /\ post \in Seq(Gentle) /\ post \in Seq(Still(n))
  <2>1. [sha |-> s, live |-> TRUE] \in ImageRec
    BY DEF ImageRec
  <2> HIDE DEF i
  <2> QED
    BY <1>3, <2>1, StillOnes, One
<1> HIDE DEF c, p, i, r, pre, post
<1>5. face \in FineAt({r}) /\ Leads(face, c, p)
  BY <1>2, <1>3, AppendFacePath
<1> HIDE DEF face
<1>6. pre \in FineAt({}) /\ post \in FineAt({})
  BY <1>4, GentleFine
<1>7. pre \in Seq(AnyWrite) /\ face \in Seq(AnyWrite)
  BY <1>5, <1>6, FineWrites
<1>8. pre \o face \in FineAt({} \cup {r}) /\ pre \o face \in Seq(AnyWrite)
  BY <1>5, <1>6, <1>7, FineJoin, ConcatProperties
<1>9. (pre \o face) \o post \in FineAt(({} \cup {r}) \cup {})
  BY <1>6, <1>8, FineJoin
<1>10. Leads(pre \o face, c, p)
  BY <1>2, <1>4, <1>5, <1>7, LeadsOn
<1>11. Leads((pre \o face) \o post, c, p)
  BY <1>2, <1>4, <1>8, <1>10, LeadsOn
<1> QED
  BY <1>1, <1>2, <1>9, <1>11, Handled DEF c, p

(* What is written to a photo and its faces leads to aligned files.        *)
LEMMA StillHandled ==
    ASSUME DurableInv, RepairInv, todo = <<>>, file' = file, unlisted' = unlisted,
           NEW S, todo' \in FineAt(S), todo' \in Seq(Still(Count("identities")))
    PROVE  RepairInv'
<1>1. Leads(todo', Lengths, Gap(unlisted)) /\ Lengths["centroids"] = Lengths["identities"]
  BY Served, StillLeads
<1> QED
  BY <1>1, Handled

LEMMA PhotosAre ==
    ASSUME DurableInv, NEW i \in LivePhotos
    PROVE  i \in Nat /\ Recs("images")[i] \in ImageRec /\ Recs("images")[i].sha \in Sha
<1>1. FilesOK /\ i \in Photos /\ i \in Nat
  BY DEF DurableInv, TypeOK, LivePhotos, Photos
<1>2. Recs("images")[i] \in ImageRec
  BY <1>1, ElementOfSeq DEF FilesOK, Photos, Count
<1> QED
  BY <1>1, <1>2 DEF ImageRec

LEMMA RemoveImageRepairs ==
    ASSUME DurableInv, RepairInv, NEW i \in LivePhotos, RemoveImage(i)
    PROVE  RepairInv'
<1> DEFINE s    == Recs("images")[i].sha
           n    == Count("identities")
           pre  == <<Put("images", i, [sha |-> s, live |-> FALSE])>>
           drop == Drops(PhotoRows(i))
           post == <<UnlinkMaster(s)>>
<1>1. todo = <<>> /\ todo' = (pre \o drop) \o post /\ file' = file /\ unlisted' = unlisted
  BY DEF RemoveImage, Handle, Drops
<1>2. FilesOK /\ n \in Nat /\ i \in Nat /\ s \in Sha
  BY <1>1, Served, PhotosAre
<1>3. pre \in Seq(Gentle) /\ pre \in Seq(Still(n)) /\ post \in Seq(Gentle) /\ post \in Seq(Still(n))
  <2>1. [sha |-> s, live |-> FALSE] \in ImageRec
    BY <1>2 DEF ImageRec
  <2> HIDE DEF s, n
  <2> QED
    BY <1>2, <2>1, StillOnes, One
<1>4. drop \in FineAt(PhotoRows(i)) /\ drop \in Seq(Still(n))
  <2>1. PhotoRows(i) \in SUBSET Rows
    BY DEF PhotoRows
  <2> QED
    BY <1>2, <2>1, DropsFine
<1> HIDE DEF s, n, pre, drop, post
<1>5. pre \in FineAt({}) /\ post \in FineAt({})
  BY <1>3, GentleFine
<1>6. pre \o drop \in FineAt({} \cup PhotoRows(i)) /\ pre \o drop \in Seq(Still(n))
  BY <1>3, <1>4, <1>5, FineJoin, ConcatProperties
<1>7. (pre \o drop) \o post \in FineAt(({} \cup PhotoRows(i)) \cup {}) /\ (pre \o drop) \o post \in Seq(Still(n))
  BY <1>3, <1>5, <1>6, FineJoin, ConcatProperties
<1> QED
  BY <1>1, <1>7, StillHandled DEF n

LEMMA ReplaceStill ==
    ASSUME NEW i \in Nat, NEW s \in Sha, NEW n
    PROVE  Replace(i, s) \in Seq(Gentle) /\ Replace(i, s) \in Seq(Still(n))
<1>1. [sha |-> s, live |-> TRUE] \in ImageRec
  BY DEF ImageRec
<1> QED
  BY <1>1, StillOnes, One DEF Replace

LEMMA UpgradeThrowsRepairs ==
    ASSUME DurableInv, RepairInv, NEW i \in LivePhotos, NEW s \in Sha, NEW to \in Remappings(i), UpgradeThrows(i, s, to)
    PROVE  RepairInv'
<1> DEFINE n     == Count("identities")
           pre   == Replace(i, s)
           remap == Remaps(to)
           S     == DOMAIN to \cap Rows
<1>1. todo = <<>> /\ todo' = pre \o remap /\ file' = file /\ unlisted' = unlisted
  BY DEF UpgradeThrows, Handle
<1>2. FilesOK /\ n \in Nat /\ i \in Nat
  BY <1>1, Served, PhotosAre
<1>3. pre \in Seq(Gentle) /\ pre \in Seq(Still(n))
  BY <1>2, ReplaceStill
<1>4. remap \in FineAt(S) /\ remap \in Seq(Still(n))
  BY <1>2, RemappingsAre, RemapsFine
<1> HIDE DEF n, pre, remap, S
<1>5. pre \in FineAt({})
  BY <1>3, GentleFine
<1>6. pre \o remap \in FineAt({} \cup S) /\ pre \o remap \in Seq(Still(n))
  BY <1>3, <1>4, <1>5, FineJoin, ConcatProperties
<1> QED
  BY <1>1, <1>6, StillHandled DEF n

LEMMA UpgradeRepairs ==
    ASSUME DurableInv, RepairInv, NEW i \in LivePhotos, NEW s \in Sha, NEW to \in Remappings(i), Upgrade(i, s, to)
    PROVE  RepairInv'
<1> DEFINE r     == Count("faces") + 1
           n     == Count("identities")
           c     == Lengths
           p     == Gap(unlisted)
           kept  == DOMAIN to \ {r}
           refs  == {Face(q).ref : q \in {k \in kept : to[k] # 0}}
           S     == DOMAIN to \cap Rows
           T     == PhotoRows(i) \ kept
           pre   == Replace(i, s)
           remap == Remaps(to)
           more  == IF r \in DOMAIN to THEN AppendFace(r, i, to[r]) ELSE <<>>
           drop  == Drops(T)
           redo  == Recomputes(n, refs)
           post  == <<UnlinkMaster(Recs("images")[i].sha), Answer(i, s)>>
           t1    == pre \o remap
           t2    == t1 \o more
           t3    == t2 \o drop
           t4    == t3 \o redo
           t5    == t4 \o post
<1>1. todo = <<>> /\ todo' = t5 /\ file' = file /\ unlisted' = unlisted
  BY DEF Upgrade, Handle, Drops, Recomputes
<1>2. /\ FilesOK /\ c \in [Aligned -> Nat] /\ p \in Nat /\ Ordered(c, p) /\ c["i8"] = c["embs"]
      /\ c["centroids"] = c["identities"] /\ c["identities"] = n /\ n \in Nat
      /\ i \in Nat /\ Recs("images")[i].sha \in Sha
  BY <1>1, Served, PhotosAre
<1>3. r \in Nat /\ r \notin Rows /\ T \in SUBSET Rows
  BY <1>2, CountIsNat DEF File, Rows, PhotoRows
<1>4. \A q \in DOMAIN to : to[q] \in Nat /\ to[q] <= n
  BY <1>2, RemappingsAre
<1>5. pre \in Seq(Gentle) /\ pre \in Seq(Still(n))
  BY <1>2, ReplaceStill
<1>6. remap \in FineAt(S) /\ remap \in Seq(Still(n))
  BY <1>2, <1>4, RemapsFine
<1>7. drop \in FineAt(T) /\ drop \in Seq(Still(n))
  BY <1>2, <1>3, DropsFine
<1>8. redo \in Seq(Gentle) /\ redo \in Seq(Still(n))
  <2> HIDE DEF refs
  <2> QED
    BY <1>2, RecomputesStill
<1>9. post \in Seq(Gentle) /\ post \in Seq(Still(n))
  <2> HIDE DEF n
  <2> QED
    BY <1>2, StillOnes, One
<1>10. S \cap {r} = {} /\ (S \cup {r}) \cap T = {}
  BY <1>3
<1> HIDE DEF n, c, p, r, S, T, kept, refs, pre, remap, drop, redo, post
<1>11. more \in FineAt({r}) /\ Leads(more, c, p)
  <2>1. CASE r \in DOMAIN to
    <3>1. more = AppendFace(r, i, to[r]) /\ to[r] \in Nat /\ to[r] <= c["identities"]
      BY <1>2, <1>4, <2>1
    <3> HIDE DEF more
    <3>2. AppendFace(r, i, to[r]) \in FineAt({r}) /\ Leads(AppendFace(r, i, to[r]), c, p)
      BY <1>2, <1>3, <3>1, AppendFacePath
    <3> QED
      BY <3>1, <3>2
  <2>2. CASE r \notin DOMAIN to
    <3>1. more = <<>>
      BY <2>2
    <3>2. <<>> \in Seq(Gentle) /\ <<>> \in Seq(Still(c["identities"]))
      BY One
    <3> HIDE DEF more
    <3> QED
      BY <1>2, <3>1, <3>2, GentleFine, StillLeads
  <2> QED
    BY <2>1, <2>2
<1> HIDE DEF more
<1>12. t1 \in FineAt({} \cup S) /\ t1 \in Seq(Still(n))
  <2>1. pre \in FineAt({})
    BY <1>5, GentleFine
  <2> QED
    BY <1>5, <1>6, <2>1, FineJoin, ConcatProperties
<1> HIDE DEF t1
<1>13. t2 \in FineAt(S \cup {r}) /\ Leads(t2, c, p)
  <2>1. {} \cup S = S /\ more \in Seq(AnyWrite)
    BY <1>11, FineWrites
  <2>2. t1 \in FineAt(S) /\ t1 \in Seq(Still(c["identities"]))
    BY <1>2, <1>12, <2>1
  <2>3. t1 \o more \in FineAt(S \cup {r})
    BY <1>10, <1>11, <2>2, FineJoin
  <2>4. Leads(t1 \o more, c, p)
    BY <1>2, <1>11, <2>1, <2>2, LeadsOn
  <2> QED
    BY <2>3, <2>4
<1> HIDE DEF t2
<1>14. t3 \in FineAt((S \cup {r}) \cup T) /\ Leads(t3, c, p)
  <2>1. t2 \in Seq(AnyWrite) /\ drop \in Seq(Still(c["identities"]))
    BY <1>2, <1>7, <1>13, FineWrites
  <2>2. t2 \o drop \in FineAt((S \cup {r}) \cup T)
    BY <1>7, <1>10, <1>13, FineJoin
  <2>3. Leads(t2 \o drop, c, p)
    BY <1>2, <1>13, <2>1, LeadsOn
  <2> QED
    BY <2>2, <2>3
<1> HIDE DEF t3
<1> DEFINE U == (S \cup {r}) \cup T
<1> HIDE DEF U
<1>15. t4 \in FineAt(U \cup {}) /\ Leads(t4, c, p)
  <2>1. t3 \in FineAt(U) /\ t3 \in Seq(AnyWrite) /\ redo \in Seq(Still(c["identities"])) /\ redo \in FineAt({})
    BY <1>2, <1>8, <1>14, FineWrites, GentleFine DEF U
  <2>2. t3 \o redo \in FineAt(U \cup {})
    BY <2>1, FineJoin
  <2>3. Leads(t3 \o redo, c, p)
    BY <1>2, <1>14, <2>1, LeadsOn
  <2> QED
    BY <2>2, <2>3
<1> HIDE DEF t4
<1>16. t5 \in FineAt((U \cup {}) \cup {}) /\ Leads(t5, c, p)
  <2>1. t4 \in Seq(AnyWrite) /\ post \in Seq(Still(c["identities"])) /\ post \in FineAt({})
    BY <1>2, <1>9, <1>15, FineWrites, GentleFine
  <2>2. t4 \o post \in FineAt((U \cup {}) \cup {})
    BY <1>15, <2>1, FineJoin
  <2>3. Leads(t4 \o post, c, p)
    BY <1>2, <1>15, <2>1, LeadsOn
  <2> QED
    BY <2>2, <2>3
<1> HIDE DEF t5
<1> QED
  BY <1>1, <1>2, <1>16, Handled DEF c, p

(* A face leaves one identity and joins another: two refs to one row.      *)
LEMMA AssignFaceRepairs ==
    ASSUME DurableInv, RepairInv, NEW r \in Rows, NEW id \in LiveIds \cup {0}, AssignFace(r, id)
    PROVE  RepairInv'
<1> DEFINE n   == Count("identities")
           old == Face(r).ref
           l   == Leave(r)
           j   == Join(r, id)
           u   == l \o j
<1>1. todo = <<>> /\ todo' = u /\ file' = file /\ unlisted' = unlisted
  BY DEF AssignFace, Handle
<1>2. FilesOK /\ n \in Nat /\ id \in Nat /\ id <= n /\ r \in Nat /\ old \in Nat
  <2>1. FilesOK /\ n \in Nat /\ id \in Nat /\ id <= n
    BY <1>1, Served
  <2> QED
    BY <2>1, FaceTyped DEF FaceRec, Rows
<1>3. l \in FineAt({r}) /\ l \in Seq(Still(n))
  BY <1>2, LeaveFine
<1>4. j \in Seq(Still(n))
  <2>1. CASE id = 0
    BY <2>1, One DEF Join
  <2>2. CASE id # 0
    BY <1>2, <2>2, StillOnes, One DEF Join
  <2> QED
    BY <2>1, <2>2
<1>5. u \in Seq(Still(n)) /\ u \in Seq(AnyWrite)
  BY <1>3, <1>4, StillWrites, ConcatProperties
<1>6. CASE old = 0 \/ id = 0
  <2>1. u \in FineAt({r})
    <3>1. CASE id = 0
      <4>1. j = <<>> /\ l \in Seq(AnyWrite)
        BY <1>3, <3>1, FineWrites DEF Join
      <4>2. l \o <<>> = l
        BY <4>1, ConcatEmptySeq
      <4> QED
        BY <1>3, <4>1, <4>2
    <3>2. CASE old = 0
      <4>1. l = <<>> /\ j \in Seq(AnyWrite)
        BY <1>4, <3>2, StillWrites DEF Leave
      <4>2. j \in FineAt({r})
        BY <1>2, <3>2, JoinFine
      <4> HIDE DEF l, j
      <4>3. <<>> \o j = j
        BY <4>1, ConcatEmptySeq
      <4> QED
        BY <4>1, <4>2, <4>3
    <3> QED
      BY <1>6, <3>1, <3>2
  <2> HIDE DEF u, n
  <2> QED
    BY <1>1, <1>5, <2>1, StillHandled DEF n
<1>7. CASE old # 0 /\ id # 0
  <2> DEFINE a == SetRef(r, 0)
             b == Recompute(old)
             d == SetRef(r, id)
             e == Recompute(id)
  <2>1. l = <<a, b>> /\ j = <<d, e>>
    BY <1>7 DEF Leave, Join
  <2>2. /\ a.op = "ref" /\ a.at = r /\ a.id = 0 /\ b.op = "recompute" /\ b = Recompute(old)
        /\ d.op = "ref" /\ d.at = r /\ d.id = id /\ e.op = "recompute" /\ e = Recompute(id)
    BY DEF SetRef, Recompute
  <2>3. l \in Seq(AnyWrite) /\ j \in Seq(AnyWrite)
    BY <1>3, <1>4, StillWrites
  <2> HIDE DEF a, b, d, e, l, j, old
  <2>4. Len(l) = 2 /\ l[1] = a /\ l[2] = b /\ Len(j) = 2 /\ j[1] = d /\ j[2] = e
    BY <2>1
  <2>5. Len(u) = 4 /\ u[1] = a /\ u[2] = b /\ u[3] = d /\ u[4] = e
    <3>1. /\ Len(u) = Len(l) + Len(j)
          /\ \A k \in 1 .. Len(l) + Len(j) : u[k] = IF k <= Len(l) THEN l[k] ELSE j[k - Len(l)]
      BY <2>3, ConcatProperties
    <3> HIDE DEF u
    <3> QED
      BY <2>4, <3>1
  <2> HIDE DEF u, n
  <2>6. Redone(u, 1, old) /\ Redone(u, 3, id)
    <3>1. 2 \in 1 + 1 .. Len(u) /\ 4 \in 3 + 1 .. Len(u)
      BY <2>5
    <3> QED
      BY <2>2, <2>5, <3>1 DEF Redone
  <2>7. Before(u, 1) = {} /\ a \in Before(u, 3) /\ \A x \in Before(u, 3) : x = a \/ x = b
    <3>1. \A k \in 1 .. 3 - 1 : k = 1 \/ k = 2
      OBVIOUS
    <3>2. 1 \in 1 .. 3 - 1
      OBVIOUS
    <3>3. Before(u, 1) = {}
      BY DEF Before
    <3>4. a \in Before(u, 3)
      BY <2>5, <3>2 DEF Before
    <3>5. \A x \in Before(u, 3) : x = a \/ x = b
      BY <2>5, <3>1 DEF Before
    <3> QED
      BY <3>3, <3>4, <3>5
  <2>8. \A k \in 1 .. Len(u) : k = 1 \/ k = 2 \/ k = 3 \/ k = 4
    BY <2>5
  <2>9. \A k \in 1 .. Len(u) : u[k].op # "tombstone" /\ (u[k].op = "ref" => k = 1 \/ k = 3)
    BY <2>2, <2>5, <2>8
  <2>10. NewRefsRedone(u)
    BY <2>2, <2>5, <2>6, <2>7, <2>9 DEF NewRefsRedone
  <2>11. OldRefsRedone(u)
    <3> SUFFICES ASSUME NEW k \in 1 .. Len(u), u[k].op = "ref", u[k].at \in Rows,
                        \A x \in Before(u, k) : x.op = "ref" => x.at # u[k].at
                 PROVE  Redone(u, k, Face(u[k].at).ref)
      BY DEF OldRefsRedone
    <3>1. k = 1
      BY <2>2, <2>5, <2>7, <2>9
    <3> QED
      BY <2>2, <2>5, <2>6, <3>1 DEF old
  <2>12. TombsFree(u)
    BY <2>9 DEF TombsFree
  <2>13. Align(u, unlisted)
    <3>1. Leads(u, Lengths, Gap(unlisted)) /\ Lengths["centroids"] = Lengths["identities"]
      BY <1>1, <1>5, Served, StillLeads DEF n
    <3> QED
      BY <3>1 DEF Align, Leads
  <2> QED
    BY <1>1, <2>10, <2>11, <2>12, <2>13, HandlerRepairs DEF WritesRepair
<1> QED
  BY <1>6, <1>7

Has(s, x) == \E p \in 1 .. Len(s) : s[p] = x

LEMMA RedoneIsHas ==
    ASSUME NEW s, NEW id
    PROVE  Redone(s, 0, id) <=> Has(s, Recompute(id))
<1>1. 0 + 1 = 1
  OBVIOUS
<1> QED
  BY <1>1 DEF Redone, Has

(* What a round of a loop writes is among what the loop writes.            *)
LEMMA LoopHas ==
    ASSUME NEW X, NEW n \in Nat, NEW ss \in [1 .. n -> Seq(X)], NEW k \in 1 .. n, NEW x, ss[k] = <<x>>
    PROVE  Has(FlattenSeq(ss), x)
<1>1. ss \in Seq(Seq(X)) /\ Len(ss) = n
  BY SeqDef, LenProperties
<1>2. ss \in Seq(Seq(X)) /\ k \in 1 .. Len(ss)
  BY <1>1
<1>3. 1 \in 1 .. Len(ss[k]) /\ ss[k][1] = x
  OBVIOUS
<1>4. \E p \in 1 .. Len(ss[k]) : ss[k][p] = x
  BY <1>3
<1>5. \E p \in 1 .. Len(FlattenSeq(ss)) : FlattenSeq(ss)[p] = x
  BY <1>2, <1>4, FlattenHas, Zenon
<1> QED
  BY <1>5 DEF Has

(* A loop that writes w[k] in its k-th round, if k is in S.                *)
LEMMA OneEach ==
    ASSUME NEW n \in Nat, NEW S, NEW w, NEW ss, ss = [k \in 1 .. n |-> IF k \in S THEN <<w[k]>> ELSE <<>>]
    PROVE  /\ FlattenSeq(ss) \in Seq({w[k] : k \in S \cap (1 .. n)})
           /\ \A k \in S \cap (1 .. n) : Has(FlattenSeq(ss), w[k])
<1> DEFINE X == {w[k] : k \in S \cap (1 .. n)}
<1>1. \A k \in 1 .. n : ss[k] \in Seq(X)
  <2>1. \A k \in 1 .. n : k \in S => w[k] \in X /\ ss[k] = <<w[k]>>
    OBVIOUS
  <2>2. \A k \in 1 .. n : k \notin S => ss[k] = <<>>
    OBVIOUS
  <2> HIDE DEF X
  <2> QED
    BY <2>1, <2>2, One
<1>2. ss \in [1 .. n -> Seq(X)]
  BY <1>1
<1>3. ss \in Seq(Seq(X)) /\ Len(ss) = n
  BY <1>2, SeqDef, LenProperties
<1>4. FlattenSeq(ss) \in Seq(X)
  BY <1>3, FlattenType
<1>5. ASSUME NEW k \in S \cap (1 .. n) PROVE Has(FlattenSeq(ss), w[k])
  <2>1. ss[k] = <<w[k]>>
    OBVIOUS
  <2> DEFINE x == w[k]
  <2>2. ss[k] = <<x>> /\ k \in 1 .. n
    BY <2>1
  <2> HIDE DEF x, X
  <2>3. Has(FlattenSeq(ss), x)
    BY <1>2, <2>2, LoopHas
  <2> QED
    BY <2>3 DEF x
<1> QED
  BY <1>4, <1>5

LEMMA MovesAre ==
    ASSUME FilesOK, NEW rows, NEW id
    PROVE  /\ Moves(rows, id) \in Seq({SetRef(r, id) : r \in Rows \cap rows})
           /\ \A r \in Rows \cap rows : Has(Moves(rows, id), SetRef(r, id))
<1> DEFINE n == Count("faces")
           w == [k \in 1 .. n |-> SetRef(k, id)]
           ss == [k \in 1 .. n |-> IF k \in rows THEN <<w[k]>> ELSE <<>>]
<1>1. n \in Nat /\ Rows = 1 .. n
  BY CountIsNat DEF File, Rows
<1>2. Moves(rows, id) = FlattenSeq(ss)
  <2> DEFINE tt == [k \in 1 .. n |-> IF k \in rows THEN <<SetRef(k, id)>> ELSE <<>>]
  <2>1. ss = tt
    OBVIOUS
  <2>2. Moves(rows, id) = FlattenSeq(tt)
    BY DEF Moves, ForEach
  <2> HIDE DEF ss, tt
  <2> QED
    BY <2>1, <2>2
<1>3. {w[k] : k \in rows \cap (1 .. n)} = {SetRef(r, id) : r \in Rows \cap rows}
  BY <1>1
<1>4. \A k \in 1 .. n : w[k] = SetRef(k, id)
  OBVIOUS
<1>5. ss = [k \in 1 .. n |-> IF k \in rows THEN <<w[k]>> ELSE <<>>]
  OBVIOUS
<1> HIDE DEF n, w, ss
<1>6. /\ FlattenSeq(ss) \in Seq({w[k] : k \in rows \cap (1 .. n)})
      /\ \A k \in rows \cap (1 .. n) : Has(FlattenSeq(ss), w[k])
  BY <1>1, <1>5, OneEach
<1> QED
  BY <1>1, <1>2, <1>3, <1>4, <1>6

Redoing == {w \in AnyWrite : w.op = "recompute"}

LEMMA RedoingOnes ==
    ASSUME NEW id \in Nat
    PROVE  Recompute(id) \in Redoing
BY QuietOnes DEF Redoing, AnyWrite, Recompute

LEMMA RecomputesAre ==
    ASSUME NEW n \in Nat, NEW S
    PROVE  /\ Recomputes(n, S) \in Seq(Redoing)
           /\ \A id \in 1 .. n : id \in S => Redone(Recomputes(n, S), 0, id)
<1> DEFINE w == [k \in 1 .. n |-> Recompute(k)]
           ss == [k \in 1 .. n |-> IF k \in S THEN <<w[k]>> ELSE <<>>]
<1>1. Recomputes(n, S) = FlattenSeq(ss)
  <2>1. ss = [k \in 1 .. n |-> IF k \in S THEN <<Recompute(k)>> ELSE <<>>]
    OBVIOUS
  <2> HIDE DEF ss
  <2> QED
    BY <2>1 DEF Recomputes, ForEach
<1>2. \A k \in 1 .. n : w[k] = Recompute(k)
  OBVIOUS
<1>3. ss = [k \in 1 .. n |-> IF k \in S THEN <<w[k]>> ELSE <<>>]
  OBVIOUS
<1> HIDE DEF w, ss
<1>4. /\ FlattenSeq(ss) \in Seq({w[k] : k \in S \cap (1 .. n)})
      /\ \A k \in S \cap (1 .. n) : Has(FlattenSeq(ss), w[k])
  BY <1>3, OneEach
<1>5. {w[k] : k \in S \cap (1 .. n)} \subseteq Redoing
  BY <1>2, RedoingOnes
<1>6. FlattenSeq(ss) \in Seq(Redoing)
  BY <1>4, <1>5
<1> QED
  BY <1>1, <1>2, <1>4, <1>6, RedoneIsHas

LEMMA TwoRedone ==
    ASSUME NEW a \in Nat, NEW b \in Nat
    PROVE  LET C == <<Recompute(a), Recompute(b)>>
           IN  C \in Seq(Redoing) /\ Redone(C, 0, a) /\ Redone(C, 0, b)
<1> DEFINE C == <<Recompute(a), Recompute(b)>>
<1>1. C \in Seq(Redoing)
  BY RedoingOnes, One
<1>2. 1 \in 0 + 1 .. Len(C) /\ 2 \in 0 + 1 .. Len(C) /\ C[1] = Recompute(a) /\ C[2] = Recompute(b)
  OBVIOUS
<1> HIDE DEF C
<1> QED
  BY <1>1, <1>2 DEF C, Redone

(* Writes that leave the faces alone, and recompute nobody.                *)
Storing == {w \in AnyWrite : w.op \in {"append", "put"}}

(* Faces are moved, and then everybody alive who got or lost one is        *)
(* recomputed.                                                             *)
LEMMA MovesRepair ==
    ASSUME NEW N \in Seq(Storing), NEW Mv \in SUBSET AnyWrite, NEW M \in Seq(Mv), NEW C \in Seq(Redoing),
           \A w \in Mv : /\ w.op = "ref"
                         /\ w.id # 0 => Redone(C, 0, w.id)
                         /\ w.at \in Rows /\ Face(w.at).ref \in LiveIds \ {0} => Redone(C, 0, Face(w.at).ref)
    PROVE  WritesRepair((N \o M) \o C)
<1> DEFINE g == N \o M
           u == g \o C
           n == Len(N)
           p == Len(g)
<1>1. /\ N \in Seq(AnyWrite) /\ M \in Seq(AnyWrite) /\ C \in Seq(AnyWrite)
      /\ \A k \in 1 .. Len(N) : N[k] \in Storing
      /\ \A k \in 1 .. Len(M) : M[k] \in Mv
      /\ \A k \in 1 .. Len(C) : C[k] \in Redoing
  <2>1. Storing \subseteq AnyWrite /\ Redoing \subseteq AnyWrite
    BY DEF Storing, Redoing
  <2> QED
    BY <2>1, ElementOfSeq
<1>2. /\ \A k \in 1 .. Len(N) : N[k].op \in {"append", "put"}
      /\ \A k \in 1 .. Len(C) : C[k].op = "recompute"
  BY <1>1 DEF Storing, Redoing
<1> HIDE DEF g, u, n, p
<1>3. /\ g \in Seq(AnyWrite) /\ p \in Nat /\ n \in Nat
      /\ \A k \in 1 .. n : k \in 1 .. p /\ g[k] = N[k]
      /\ \A k \in 1 .. Len(M) : g[k + n] = M[k]
      /\ \A k \in 1 .. p : k \in 1 .. n \/ \E j \in 1 .. Len(M) : k = j + n
  BY <1>1, Joints DEF g, n, p
<1>4. /\ u \in Seq(AnyWrite)
      /\ \A k \in 1 .. p : k \in 1 .. Len(u) /\ u[k] = g[k] /\ \A id : Redone(C, 0, id) => Redone(u, k, id)
      /\ \A k \in 1 .. Len(C) : u[k + p] = C[k]
      /\ \A k \in 1 .. Len(u) : k \in 1 .. p \/ \E j \in 1 .. Len(C) : k = j + p
  BY <1>1, <1>3, Joints DEF u, p
<1>5. \A k \in 1 .. p : u[k].op \in {"append", "put"} \/ (u[k] \in Mv /\ u[k].op = "ref")
  <2> SUFFICES ASSUME NEW k \in 1 .. p PROVE g[k].op \in {"append", "put"} \/ (g[k] \in Mv /\ g[k].op = "ref")
    BY <1>4
  <2>1. CASE k \in 1 .. n
    BY <1>2, <1>3, <2>1 DEF n
  <2>2. ASSUME NEW j \in 1 .. Len(M), k = j + n PROVE g[k] \in Mv /\ g[k].op = "ref"
    BY <1>1, <1>3, <2>2
  <2> QED
    BY <1>3, <2>1, <2>2
<1>6. \A k \in 1 .. Len(u) : k \in 1 .. p \/ u[k].op = "recompute"
  BY <1>2, <1>4
<1>7. \A k \in 1 .. Len(u) : /\ u[k].op = "ref" => k \in 1 .. p /\ u[k] \in Mv
                             /\ u[k].op # "tombstone"
  BY <1>5, <1>6
<1>8. \A k \in 1 .. p : \A x \in Before(u, k) : x.op # "recompute" /\ (x.op = "ref" => x \in Mv)
  <2> SUFFICES ASSUME NEW k \in 1 .. p, NEW j \in 1 .. k - 1
               PROVE  u[j].op # "recompute" /\ (u[j].op = "ref" => u[j] \in Mv)
    BY DEF Before
  <2>1. j \in 1 .. p
    BY <1>3
  <2> QED
    BY <1>5, <2>1
<1>9. NewRefsRedone(u)
  <2> SUFFICES ASSUME NEW k \in 1 .. Len(u), u[k].op = "ref"
               PROVE  /\ u[k].id # 0 => Redone(u, k, u[k].id)
                      /\ \A x \in Before(u, k) : x.op = "ref" /\ x.at = u[k].at /\ x.id # 0 => Redone(u, k, x.id)
    BY DEF NewRefsRedone
  <2>1. k \in 1 .. p /\ u[k] \in Mv
    BY <1>7
  <2> QED
    BY <1>4, <1>8, <2>1
<1>10. OldRefsRedone(u)
  <2> SUFFICES ASSUME NEW k \in 1 .. Len(u), u[k].op = "ref", u[k].at \in Rows, NEW id, id = Face(u[k].at).ref, id # 0,
                      id \in LiveIds \/ Recompute(id) \in Before(u, k)
               PROVE  Redone(u, k, id)
    BY DEF OldRefsRedone
  <2>1. k \in 1 .. p /\ u[k] \in Mv
    BY <1>7
  <2>2. Recompute(id) \notin Before(u, k)
    <3>1. Recompute(id).op = "recompute"
      BY DEF Recompute
    <3> HIDE DEF Recompute
    <3> QED
      BY <1>8, <2>1, <3>1
  <2>3. Redone(C, 0, id)
    BY <2>1, <2>2
  <2> QED
    BY <1>4, <2>1, <2>3
<1>11. TombsFree(u)
  BY <1>7 DEF TombsFree
<1> QED
  BY <1>9, <1>10, <1>11 DEF WritesRepair, u, g

(* The lengths on the way of such writes are those of the first part.      *)
LEMMA MovesLead ==
    ASSUME NEW N \in Seq(AnyWrite), NEW c \in [Aligned -> Nat], NEW d \in [Aligned -> Nat], NEW p \in Nat, Path(N, c, d, p),
           NEW M \in Seq(Still(d["identities"])), NEW C \in Seq(Redoing)
    PROVE  Path((N \o M) \o C, c, d, p)
<1>1. C \in Seq(Still(d["identities"])) /\ Len(N) \in Nat
  <2>1. Redoing \subseteq Still(d["identities"])
    BY DEF Redoing, Still
  <2> QED
    BY <2>1, LenProperties
<1>2. Ordered(d, p)
  BY <1>1, PathEnds
<1>3. Path(M, d, d, p) /\ Path(C, d, d, p)
  BY <1>1, <1>2, PathStill
<1>4. M \in Seq(AnyWrite) /\ C \in Seq(AnyWrite)
  BY <1>1, StillWrites
<1>5. N \o M \in Seq(AnyWrite) /\ Path(N \o M, c, d, p)
  BY <1>3, <1>4, PathJoin, ConcatProperties
<1> QED
  BY <1>3, <1>4, <1>5, PathJoin

(* The lengths when k identities more have been made.                      *)
More(c, k) == [f \in Aligned |-> IF f \in {"identities", "centroids"} THEN c[f] + k ELSE c[f]]

LEMMA MoreIs ==
    ASSUME NEW c \in [Aligned -> Nat], NEW p \in Nat, Ordered(c, p), NEW k \in Nat
    PROVE  /\ More(c, k) \in [Aligned -> Nat] /\ Ordered(More(c, k), p) /\ More(c, 0) = c
           /\ More(c, k)["identities"] = c["identities"] + k /\ More(c, k)["centroids"] = c["centroids"] + k
           /\ More(c, k)["i8"] = c["i8"] /\ More(c, k)["embs"] = c["embs"]
           /\ More(More(c, k), 1) = More(c, k + 1)
<1>1. \A f \in Aligned : c[f] \in Nat
  OBVIOUS
<1>2. /\ \A f \in Aligned : More(c, k)[f] = (IF f \in {"identities", "centroids"} THEN c[f] + k ELSE c[f])
      /\ More(c, k) \in [Aligned -> Nat]
  BY <1>1 DEF More
<1>3. /\ More(c, k)["identities"] = c["identities"] + k /\ More(c, k)["centroids"] = c["centroids"] + k
      /\ More(c, k)["i8"] = c["i8"] /\ More(c, k)["embs"] = c["embs"] /\ More(c, k)["faces"] = c["faces"]
  BY <1>2 DEF Aligned
<1>4. Ordered(More(c, k), p)
  <2>1. c["centroids"] \in Nat /\ c["identities"] \in Nat
    BY <1>1 DEF Aligned
  <2> QED
    BY <1>3, <2>1 DEF Ordered
<1>5. More(c, 0) = c
  <2>1. \A f \in Aligned : More(c, 0)[f] = c[f]
    BY <1>1 DEF More
  <2>2. More(c, 0) \in [Aligned -> Nat]
    BY <1>1 DEF More
  <2> QED
    BY <2>1, <2>2
<1>6. More(More(c, k), 1) = More(c, k + 1)
  <2> DEFINE x == More(c, k)
  <2>1. \A f \in Aligned : x[f] = (IF f \in {"identities", "centroids"} THEN c[f] + k ELSE c[f])
    BY <1>2
  <2> HIDE DEF x
  <2>2. \A f \in Aligned : (IF f \in {"identities", "centroids"} THEN x[f] + 1 ELSE x[f])
                              = (IF f \in {"identities", "centroids"} THEN c[f] + (k + 1) ELSE c[f])
    BY <1>1, <2>1
  <2>3. More(x, 1) = More(c, k + 1)
    BY <2>2 DEF More
  <2> QED
    BY <2>3 DEF x
<1> QED
  BY <1>2, <1>3, <1>4, <1>5, <1>6

LEMMA NewIdentityPath ==
    ASSUME NEW c \in [Aligned -> Nat], NEW p \in Nat, Ordered(c, p), NEW id \in Nat
    PROVE  NewIdentity(id) \in Seq(Storing) /\ Path(NewIdentity(id), c, More(c, 1), p)
<1> DEFINE a  == Append_("identities", [live |-> TRUE, size |-> 0])
           b  == Append_("centroids", id)
           c1 == After(c, a)
           c2 == After(c1, b)
<1>1. a \in AnyWrite /\ b \in AnyWrite /\ a \in Storing /\ b \in Storing
  <2>1. [live |-> TRUE, size |-> 0] \in FreshId
    BY DEF FreshId
  <2>2. a \in AnyWrite /\ b \in AnyWrite
    BY <2>1, QuietOnes DEF AnyWrite, Numbers
  <2>3. a.op = "append" /\ b.op = "append"
    BY DEF Append_
  <2> HIDE DEF a, b
  <2> QED
    BY <2>2, <2>3 DEF Storing
<1>2. /\ \A f : AppendsTo(a, f) <=> f = "identities"
      /\ \A f : AppendsTo(b, f) <=> f = "centroids"
      /\ a.op # "ref" /\ b.op # "ref"
  BY DEF AppendsTo, Append_
<1>3. NewIdentity(id) = <<a, b>>
  BY DEF NewIdentity
<1> HIDE DEF a, b
<1>4. /\ c1 = [f \in Aligned |-> IF f = "identities" THEN c[f] + 1 ELSE c[f]]
      /\ c2 = [f \in Aligned |-> IF f = "centroids" THEN c1[f] + 1 ELSE c1[f]]
  BY <1>2 DEF After
<1>5. c1 \in [Aligned -> Nat] /\ c1["identities"] = c["identities"] + 1 /\ \A f \in Aligned \ {"identities"} : c1[f] = c[f]
  <2> HIDE DEF c1, c2
  <2> QED
    BY <1>4 DEF Aligned
<1>6. c2 = More(c, 1)
  <2> HIDE DEF c1, c2
  <2>1. c2 = [f \in Aligned |-> IF f \in {"identities", "centroids"} THEN c[f] + 1 ELSE c[f]]
    BY <1>4 DEF Aligned
  <2> QED
    BY <2>1 DEF More
<1>7. Ordered(c1, p)
  <2> HIDE DEF c1, c2
  <2>1. c["centroids"] \in Nat /\ c["identities"] \in Nat
    BY DEF Aligned
  <2>2. /\ c1["identities"] = c["identities"] + 1 /\ c1["centroids"] = c["centroids"]
        /\ c1["faces"] = c["faces"] /\ c1["embs"] = c["embs"] /\ c1["i8"] = c["i8"]
    BY <1>5 DEF Aligned
  <2> QED
    BY <2>1, <2>2 DEF Ordered
<1>8. Ordered(c2, p)
  BY <1>6, MoreIs
<1>9. Path(<<a>>, c, After(c, a), p) /\ Path(<<b>>, c1, After(c1, b), p)
  <2>1. Path(<<a>>, c, After(c, a), p)
    BY <1>2, <1>7, PathOne
  <2>2. c2 = After(c1, b)
    OBVIOUS
  <2> HIDE DEF c1, c2
  <2>3. Path(<<b>>, c1, After(c1, b), p)
    BY <1>2, <1>5, <1>7, <1>8, <2>2, PathOne
  <2> QED
    BY <2>1, <2>3
<1>10. Path(<<a>>, c, c1, p) /\ Path(<<b>>, c1, c2, p)
  BY <1>9
<1> HIDE DEF c1, c2
<1>11. <<a>> \in Seq(AnyWrite) /\ <<b>> \in Seq(AnyWrite) /\ <<a, b>> \in Seq(Storing) /\ <<a, b>> \in Seq(AnyWrite)
  BY <1>1, One
<1>12. Path(<<a>> \o <<b>>, c, c2, p)
  BY <1>10, <1>11, PathJoin
<1>13. <<a>> \o <<b>> = <<a, b>>
  <2> DEFINE x == <<a>> \o <<b>>
             y == <<a, b>>
  <2>1. x \in Seq(AnyWrite) /\ Len(x) = 2 /\ x[1] = a /\ x[2] = b
    BY <1>11, ConcatProperties
  <2>2. y \in Seq(AnyWrite) /\ Len(y) = 2 /\ y[1] = a /\ y[2] = b
    BY <1>11
  <2> HIDE DEF x, y
  <2>3. \A k \in 1 .. Len(x) : k = 1 \/ k = 2
    BY <2>1
  <2>4. \A k \in 1 .. Len(x) : x[k] = y[k]
    BY <2>1, <2>2, <2>3
  <2>5. x = y
    BY <2>1, <2>2, <2>4, SeqEqual
  <2> QED
    BY <2>5 DEF x, y
<1> DEFINE v == <<a, b>>
<1>14. Path(v, c, c2, p) /\ v \in Seq(Storing)
  BY <1>11, <1>12, <1>13
<1> HIDE DEF v
<1>15. NewIdentity(id) = v
  BY <1>3 DEF v
<1> QED
  BY <1>6, <1>14, <1>15

LEMMA CreatesPath ==
    ASSUME FilesOK, NEW c \in [Aligned -> Nat], NEW p \in Nat, Ordered(c, p), NEW fresh \in Nat
    PROVE  Creates(fresh) \in Seq(Storing) /\ Path(Creates(fresh), c, More(c, fresh), p)
<1> DEFINE ss == [k \in 1 .. fresh |-> NewIdentity(Count("identities") + k)]
           g  == [k \in 0 .. fresh |-> More(c, k)]
<1>1. Count("identities") \in Nat
  BY CountIsNat DEF File
<1>2. \A k \in 1 .. fresh : ss[k] = NewIdentity(Count("identities") + k) /\ Count("identities") + k \in Nat
  BY <1>1
<1>3. \A k \in 0 .. fresh : g[k] = More(c, k) /\ g[k] \in [Aligned -> Nat] /\ Ordered(g[k], p)
  BY MoreIs
<1>4. g \in [0 .. fresh -> [Aligned -> Nat]]
  BY <1>3
<1>5. ss = [k \in 1 .. fresh |-> ss[k]]
  OBVIOUS
<1>6. Creates(fresh) = FlattenSeq(ss)
  BY DEF Creates
<1> HIDE DEF ss, g
<1>7. \A k \in 1 .. fresh : ss[k] \in Seq(Storing)
  <2> SUFFICES ASSUME NEW k \in 1 .. fresh PROVE ss[k] \in Seq(Storing)
    OBVIOUS
  <2> QED
    BY <1>2, NewIdentityPath
<1>8. ASSUME NEW k \in 1 .. fresh PROVE Path(ss[k], g[k - 1], g[k], p)
  <2>1. k - 1 \in 0 .. fresh /\ k \in 0 .. fresh /\ (k - 1) + 1 = k /\ k - 1 \in Nat
    OBVIOUS
  <2>2. g[k - 1] \in [Aligned -> Nat] /\ Ordered(g[k - 1], p) /\ g[k - 1] = More(c, k - 1) /\ g[k] = More(c, k)
    BY <1>3, <2>1
  <2>3. Path(ss[k], g[k - 1], More(g[k - 1], 1), p)
    BY <1>2, <2>2, NewIdentityPath
  <2>4. More(More(c, k - 1), 1) = More(c, k)
    <3>1. More(More(c, k - 1), 1) = More(c, (k - 1) + 1)
      BY <2>1, MoreIs
    <3> QED
      BY <2>1, <3>1
  <2> QED
    BY <2>2, <2>3, <2>4
<1>9. FlattenSeq(ss) \in Seq(Storing)
  BY <1>5, <1>7, Looped
<1>10. ss \in [1 .. fresh -> Seq(AnyWrite)]
  <2>1. Seq(Storing) \subseteq Seq(AnyWrite)
    <3>1. Storing \subseteq AnyWrite
      BY DEF Storing
    <3> QED
      BY <3>1
  <2> QED
    BY <1>5, <1>7, <2>1
<1>11. Ordered(g[0], p) /\ g[0] = c /\ g[fresh] = More(c, fresh)
  <2>1. 0 \in 0 .. fresh /\ fresh \in 0 .. fresh
    OBVIOUS
  <2> QED
    BY <1>3, <2>1, MoreIs
<1>12. Path(FlattenSeq(ss), g[0], g[fresh], p)
  BY <1>4, <1>8, <1>10, <1>11, PathLoop
<1> QED
  BY <1>6, <1>9, <1>11, <1>12

(* A handler that runs while requests are served: perhaps new identities,  *)
(* faces moved to identities there are then, and the recomputing.          *)
LEMMA CurationRepairs ==
    ASSUME DurableInv, RepairInv, todo = <<>>, file' = file, unlisted' = unlisted,
           NEW d \in [Aligned -> Nat], d["i8"] = d["embs"], d["centroids"] = d["identities"],
           NEW N \in Seq(Storing), Path(N, Lengths, d, Gap(unlisted)),
           NEW Mv \in SUBSET Still(d["identities"]), NEW M \in Seq(Mv), NEW C \in Seq(Redoing),
           \A w \in Mv : /\ w.op = "ref"
                         /\ w.id # 0 => Redone(C, 0, w.id)
                         /\ w.at \in Rows /\ Face(w.at).ref \in LiveIds \ {0} => Redone(C, 0, Face(w.at).ref),
           todo' = (N \o M) \o C
    PROVE  RepairInv'
<1>1. Mv \in SUBSET AnyWrite /\ N \in Seq(AnyWrite) /\ M \in Seq(Still(d["identities"]))
  <2>1. Still(d["identities"]) \subseteq AnyWrite /\ Storing \subseteq AnyWrite
    BY DEF Still, Storing
  <2> QED
    BY <2>1
<1>2. WritesRepair((N \o M) \o C)
  BY <1>1, MovesRepair
<1>3. Path((N \o M) \o C, Lengths, d, Gap(unlisted))
  BY <1>1, Served, MovesLead
<1>4. Align(todo', unlisted)
  BY <1>3 DEF Align
<1> QED
  BY <1>2, <1>4, HandlerRepairs

(* No new identity.                                                        *)
LEMMA MovingRepairs ==
    ASSUME DurableInv, RepairInv, todo = <<>>, file' = file, unlisted' = unlisted,
           NEW rows \in SUBSET Rows, NEW id \in LiveIds \cup {0}, NEW C \in Seq(Redoing),
           id # 0 => Redone(C, 0, id), \A r \in rows : Redone(C, 0, Face(r).ref),
           todo' = Moves(rows, id) \o C
    PROVE  RepairInv'
<1> DEFINE n  == Count("identities")
           N  == <<>>
           M  == Moves(rows, id)
           Mv == {SetRef(r, id) : r \in Rows \cap rows}
<1>1. /\ FilesOK /\ Lengths \in [Aligned -> Nat] /\ Gap(unlisted) \in Nat /\ Ordered(Lengths, Gap(unlisted))
      /\ Lengths["i8"] = Lengths["embs"] /\ Lengths["centroids"] = Lengths["identities"]
      /\ Lengths["identities"] = n /\ n \in Nat /\ id \in Nat /\ id <= n
  BY Served
<1>2. M \in Seq(Mv)
  BY <1>1, MovesAre
<1>3. Mv \in SUBSET Still(n)
  <2>1. \A r \in Rows : r \in Nat
    BY DEF Rows
  <2> HIDE DEF n
  <2> QED
    BY <1>1, <2>1, StillOnes
<1>4. ASSUME NEW w \in Mv
      PROVE  /\ w.op = "ref"
             /\ w.id # 0 => Redone(C, 0, w.id)
             /\ w.at \in Rows /\ Face(w.at).ref \in LiveIds \ {0} => Redone(C, 0, Face(w.at).ref)
  <2>1. PICK r \in rows : w = SetRef(r, id)
    OBVIOUS
  <2>2. w.op = "ref" /\ w.at = r /\ w.id = id
    BY <2>1 DEF SetRef
  <2> QED
    BY <2>2
<1>5. N \in Seq(Storing) /\ N \in Seq(Still(Lengths["identities"]))
  BY One
<1> HIDE DEF N, M, Mv, n
<1>6. Path(N, Lengths, Lengths, Gap(unlisted))
  BY <1>1, <1>5, PathStill
<1>7. N \o M = M
  BY <1>2, ConcatEmptySeq DEF N
<1>8. todo' = (N \o M) \o C
  BY <1>7 DEF M
<1> QED
  BY <1>1, <1>2, <1>3, <1>4, <1>5, <1>6, <1>8, CurationRepairs

LEMMA MergeRepairs ==
    ASSUME DurableInv, RepairInv, NEW target \in LiveIds, NEW src \in LiveIds, Merge(target, src)
    PROVE  RepairInv'
<1> DEFINE C == <<Recompute(src), Recompute(target)>>
           rows == MembersOf(src)
<1>1. todo = <<>> /\ file' = file /\ unlisted' = unlisted /\ todo' = Moves(rows, target) \o C
  BY DEF Merge, Handle
<1>2. target \in Nat /\ src \in Nat
  BY <1>1, Served
<1>3. C \in Seq(Redoing) /\ Redone(C, 0, src) /\ Redone(C, 0, target)
  BY <1>2, TwoRedone
<1>4. rows \in SUBSET Rows /\ \A r \in rows : Face(r).ref = src
  BY DEF MembersOf, RefersTo
<1> HIDE DEF C, rows
<1> QED
  BY <1>1, <1>3, <1>4, MovingRepairs

LEMMA DissolveRepairs ==
    ASSUME DurableInv, RepairInv, NEW id \in LiveIds, Dissolve(id)
    PROVE  RepairInv'
<1> DEFINE C == <<Recompute(id)>>
           rows == MembersOf(id)
<1>1. todo = <<>> /\ file' = file /\ unlisted' = unlisted /\ todo' = Moves(rows, 0) \o C
  BY DEF Dissolve, Handle
<1>2. id \in Nat
  BY <1>1, Served
<1>3. C \in Seq(Redoing) /\ Redone(C, 0, id)
  <2>1. 1 \in 0 + 1 .. Len(C) /\ C[1] = Recompute(id)
    OBVIOUS
  <2>2. Redone(C, 0, id)
    BY <2>1 DEF Redone
  <2> QED
    BY <1>2, <2>2, RedoingOnes, One
<1>4. rows \in SUBSET Rows /\ \A r \in rows : Face(r).ref = id
  BY DEF MembersOf, RefersTo
<1> HIDE DEF C, rows
<1> QED
  BY <1>1, <1>3, <1>4, MovingRepairs

LEMMA SplitRepairs ==
    ASSUME DurableInv, RepairInv, NEW id \in LiveIds, NEW moving, Split(id, moving)
    PROVE  RepairInv'
<1> DEFINE n   == Count("identities")
           nid == n + 1
           c   == Lengths
           p   == Gap(unlisted)
           d   == More(c, 1)
           N   == NewIdentity(nid)
           M   == Moves(moving, nid)
           C   == <<Recompute(id), Recompute(nid)>>
           Mv  == {SetRef(r, nid) : r \in Rows \cap moving}
<1>1. /\ todo = <<>> /\ file' = file /\ unlisted' = unlisted /\ todo' = (N \o M) \o C
      /\ \A r \in moving : r \in Rows /\ Face(r).ref = id
  BY DEF Split, Handle, RefersTo
<1>2. /\ FilesOK /\ c \in [Aligned -> Nat] /\ p \in Nat /\ Ordered(c, p) /\ c["i8"] = c["embs"]
      /\ c["centroids"] = c["identities"] /\ c["identities"] = n /\ n \in Nat /\ id \in Nat
  BY <1>1, Served
<1>3. nid \in Nat /\ nid <= nid
  BY <1>2
<1> HIDE DEF c, p
<1>4. d \in [Aligned -> Nat] /\ d["i8"] = d["embs"] /\ d["centroids"] = d["identities"] /\ d["identities"] = nid
  BY <1>2, MoreIs
<1> HIDE DEF d
<1>5. N \in Seq(Storing) /\ Path(N, c, d, p)
  <2> HIDE DEF nid
  <2> QED
    BY <1>2, <1>3, NewIdentityPath DEF d
<1>6. M \in Seq(Mv)
  <2> HIDE DEF nid
  <2> QED
    BY <1>2, MovesAre
<1>7. C \in Seq(Redoing) /\ Redone(C, 0, id) /\ Redone(C, 0, nid)
  <2> HIDE DEF nid
  <2> QED
    BY <1>2, <1>3, TwoRedone
<1>8. Mv \in SUBSET Still(nid)
  <2>1. \A r \in Rows : r \in Nat
    BY DEF Rows
  <2> HIDE DEF nid
  <2> QED
    BY <1>3, <2>1, StillOnes
<1>9. \A w \in Mv : \E r \in moving : w = SetRef(r, nid)
  OBVIOUS
<1> HIDE DEF N, M, C, Mv, nid
<1>10. ASSUME NEW w \in Mv
       PROVE  /\ w.op = "ref"
              /\ w.id # 0 => Redone(C, 0, w.id)
              /\ w.at \in Rows /\ Face(w.at).ref \in LiveIds \ {0} => Redone(C, 0, Face(w.at).ref)
  <2>1. PICK r \in moving : w = SetRef(r, nid)
    BY <1>9
  <2>2. w.op = "ref" /\ w.at = r /\ w.id = nid
    BY <2>1 DEF SetRef
  <2> QED
    BY <1>1, <1>7, <2>2
<1> QED
  BY <1>1, <1>4, <1>5, <1>6, <1>7, <1>8, <1>10, CurationRepairs DEF c, p

LEMMA HasJoin ==
    ASSUME NEW s \in Seq(AnyWrite), NEW t \in Seq(AnyWrite), NEW x, Has(s, x) \/ Has(t, x)
    PROVE  Has(s \o t, x)
<1>1. ASSUME NEW k \in 1 .. Len(s), s[k] = x PROVE Has(s \o t, x)
  <2>1. k \in 1 .. Len(s \o t) /\ (s \o t)[k] = s[k]
    BY Joints
  <2> QED
    BY <1>1, <2>1 DEF Has
<1>2. ASSUME NEW k \in 1 .. Len(t), t[k] = x PROVE Has(s \o t, x)
  <2>1. k + Len(s) \in 1 .. Len(s \o t) /\ (s \o t)[k + Len(s)] = t[k]
    BY Joints
  <2> QED
    BY <1>2, <2>1 DEF Has
<1> QED
  BY <1>1, <1>2 DEF Has

(* Lists rebuilt over the embedded rows leave out the faces behind them.   *)
Behind == Rows \ EmbeddedRows

LEMMA OrderedAnew ==
    ASSUME FilesOK, NEW p \in Nat, Ordered(Lengths, p)
    PROVE  Gap(Behind) \in Nat /\ Ordered(Lengths, Gap(Behind)) /\ Rows \ Behind = EmbeddedRows
<1>1. /\ Lengths["embs"] = Count("embs") /\ Lengths["faces"] = Count("faces")
      /\ Count("embs") \in Nat /\ Count("faces") \in Nat
  BY LengthsAre DEF Aligned
<1>2. Behind # {} => Count("embs") + 1 <= Count("faces")
  BY <1>1 DEF Behind, EmbeddedRows, Rows
<1>3. Rows \ Behind = EmbeddedRows
  BY DEF Behind, EmbeddedRows
<1>4. Gap(Behind) \in Nat /\ (Gap(Behind) = 0 \/ (Gap(Behind) = 1 /\ Behind # {}))
  BY DEF Gap
<1>5. Lengths["embs"] + Gap(Behind) <= Lengths["faces"]
  <2>1. Lengths["embs"] + p <= Lengths["faces"]
    BY DEF Ordered
  <2> QED
    BY <1>1, <1>2, <1>4, <2>1
<1> QED
  BY <1>3, <1>4, <1>5 DEF Ordered

LEMMA ApplyLabelsRepairs ==
    ASSUME DurableInv, RepairInv, NEW k \in Nat, NEW fresh \in 0 .. MaxIds, NEW label \in [1 .. k -> 0 .. MaxIds],
           ApplyLabels(label, fresh)
    PROVE  RepairInv'
<1> DEFINE ids  == Count("identities")
           all  == ids + fresh
           m    == Count("faces")
           c    == Lengths
           p    == Gap(Behind)
           d    == More(c, fresh)
           rows == {r \in DOMAIN label : Face(r).live}
           kept == {r \in EmbeddedRows \ DOMAIN label : Face(r).live}
           used == {label[r] : r \in rows} \cup {Face(r).ref : r \in kept}
           S    == used \cup LiveIds \cup (ids + 1 .. ids + fresh)
           ss   == [q \in 1 .. m |-> IF q \in rows THEN <<SetRef(q, label[q])>> ELSE <<>>]
           N    == Creates(fresh)
           M    == FlattenSeq(ss)
           C    == Recomputes(all, S)
           Mv   == {SetRef(r, label[r]) : r \in rows \cap (1 .. m)}
           u    == (N \o M) \o C
<1>1. /\ todo = <<>> /\ file' = file /\ unlisted' = Behind /\ todo' = u
      /\ \A r \in DOMAIN label : label[r] <= all
  BY DEF ApplyLabels, Handle, ForEach, Recomputes, Creates, Behind
<1>2. /\ FilesOK /\ c \in [Aligned -> Nat] /\ c["i8"] = c["embs"] /\ c["centroids"] = c["identities"]
      /\ c["identities"] = ids /\ ids \in Nat /\ \A id \in LiveIds : id \in Nat /\ id <= ids
      /\ p \in Nat /\ Ordered(c, p) /\ Rows \ Behind = EmbeddedRows
  <2>1. Gap(unlisted) \in Nat /\ Ordered(Lengths, Gap(unlisted)) /\ FilesOK
    BY <1>1, Served
  <2> QED
    BY <1>1, <2>1, Served, OrderedAnew
<1>3. fresh \in Nat /\ all \in Nat /\ m \in Nat /\ Rows = 1 .. m
  BY <1>2, DurabilityBounds, CountIsNat DEF File, Rows
<1>4. RowsInRange(unlisted)
  BY DEF RepairInv
<1>5. \A r \in Rows : Face(r).ref \in Nat /\ Face(r).ref <= ids
  BY <1>2, <1>4, FaceTyped DEF FaceRec, RowsInRange
<1>6. \A r \in rows : label[r] \in Nat /\ label[r] <= all /\ label[r] \in S
  <2>1. \A r \in rows : label[r] \in 0 .. MaxIds
    OBVIOUS
  <2>2. \A r \in rows : label[r] \in used
    OBVIOUS
  <2> HIDE DEF rows, used, all
  <2> QED
    BY <1>1, <2>1, <2>2, DurabilityBounds DEF rows
<1>7. \A id \in LiveIds : id \in S
  OBVIOUS
<1>8. \A r \in EmbeddedRows : Face(r).live => r \in rows \/ Face(r).ref \in S
  OBVIOUS
<1>9. /\ M \in Seq(Mv)
      /\ \A r \in rows \cap (1 .. m) : Has(M, SetRef(r, label[r]))
  <2> DEFINE w == [q \in 1 .. m |-> SetRef(q, label[q])]
  <2>1. \A q \in 1 .. m : w[q] = SetRef(q, label[q])
    OBVIOUS
  <2>2. ss = [q \in 1 .. m |-> IF q \in rows THEN <<w[q]>> ELSE <<>>]
    <3> HIDE DEF rows, SetRef
    <3> QED
      OBVIOUS
  <2> HIDE DEF w, ss, rows, m
  <2>3. /\ FlattenSeq(ss) \in Seq({w[q] : q \in rows \cap (1 .. m)})
        /\ \A q \in rows \cap (1 .. m) : Has(FlattenSeq(ss), w[q])
    BY <1>3, <2>2, OneEach
  <2>4. {w[q] : q \in rows \cap (1 .. m)} = Mv
    BY <2>1
  <2> QED
    BY <2>1, <2>3, <2>4
<1>10. C \in Seq(Redoing) /\ \A id \in 1 .. all : id \in S => Redone(C, 0, id)
  <2> HIDE DEF S, all
  <2> QED
    BY <1>3, RecomputesAre
<1>11. N \in Seq(Storing) /\ Path(N, c, d, p)
  <2> HIDE DEF c, p
  <2> QED
    BY <1>2, <1>3, CreatesPath
<1>12. d \in [Aligned -> Nat] /\ d["i8"] = d["embs"] /\ d["centroids"] = d["identities"] /\ d["identities"] = all
  <2> HIDE DEF c, p, ids, all, S, used, rows, kept, ss, N, M, C, Mv, u
  <2>1. /\ More(c, fresh) \in [Aligned -> Nat]
        /\ More(c, fresh)["identities"] = c["identities"] + fresh
        /\ More(c, fresh)["centroids"] = c["centroids"] + fresh
        /\ More(c, fresh)["i8"] = c["i8"] /\ More(c, fresh)["embs"] = c["embs"]
    BY <1>2, <1>3, MoreIs
  <2> QED
    BY <1>2, <2>1 DEF all
<1>13. \A w \in Mv : \E r \in rows \cap (1 .. m) : w = SetRef(r, label[r])
  OBVIOUS
<1> HIDE DEF rows, used, S, ss, N, M, C, Mv, c, p, d, m, kept, all, ids
<1>14. \A w \in Mv : w \in Still(all)
  <2> SUFFICES ASSUME NEW w \in Mv PROVE w \in Still(all)
    OBVIOUS
  <2>1. PICK r \in rows \cap (1 .. m) : w = SetRef(r, label[r])
    BY <1>13
  <2>2. r \in Nat
    BY <1>3
  <2> QED
    BY <1>6, <2>1, <2>2, StillOnes
<1>15. ASSUME NEW w \in Mv
       PROVE  /\ w.op = "ref"
              /\ w.id # 0 => Redone(C, 0, w.id)
              /\ w.at \in Rows /\ Face(w.at).ref \in LiveIds \ {0} => Redone(C, 0, Face(w.at).ref)
  <2>1. PICK r \in rows \cap (1 .. m) : w = SetRef(r, label[r])
    BY <1>13
  <2>2. w.op = "ref" /\ w.at = r /\ w.id = label[r]
    BY <2>1 DEF SetRef
  <2>3. label[r] # 0 => label[r] \in 1 .. all /\ label[r] \in S
    BY <1>3, <1>6
  <2>4. \A id \in LiveIds \ {0} : id \in 1 .. all /\ id \in S
    BY <1>2, <1>3, <1>7 DEF all
  <2> QED
    BY <1>10, <2>2, <2>3, <2>4
<1>16. Mv \in SUBSET AnyWrite /\ N \in Seq(AnyWrite) /\ M \in Seq(Still(all))
  <2>1. Still(all) \subseteq AnyWrite /\ Storing \subseteq AnyWrite /\ Mv \subseteq Still(all)
    BY <1>14 DEF Still, Storing
  <2> QED
    BY <1>9, <1>11, <2>1
<1>17. WritesRepair(u)
  BY <1>9, <1>10, <1>11, <1>15, <1>16, MovesRepair
<1>18. Path(u, c, d, p)
  BY <1>2, <1>10, <1>11, <1>12, <1>16, MovesLead
<1>19. Align(u, Behind)
  BY <1>12, <1>18 DEF Align, c, p
<1>20. /\ \A x : Has(M, x) => Has(u, x)
       /\ \A x : Has(C, x) => Has(u, x)
  <2> DEFINE g == N \o M
  <2>1. M \in Seq(AnyWrite) /\ C \in Seq(AnyWrite)
    <3>1. Redoing \subseteq AnyWrite
      BY DEF Redoing
    <3> QED
      BY <1>10, <1>16, <3>1, StillWrites
  <2>2. g \in Seq(AnyWrite) /\ \A x : Has(M, x) => Has(g, x)
    BY <1>16, <2>1, HasJoin, ConcatProperties
  <2>3. u = g \o C
    OBVIOUS
  <2> HIDE DEF g, u
  <2> QED
    BY <2>1, <2>2, <2>3, HasJoin
<1> HIDE DEF u
<1>21. \A id \in 1 .. all : id \in S => Redone(u, 0, id)
  BY <1>10, <1>20, RedoneIsHas
<1>22. \A id \in LiveIds : Redone(u, 0, id)
  <2>1. \A id \in LiveIds : id \in 1 .. all
    BY <1>2, <1>3 DEF all, LiveIds, Ids, ids
  <2> QED
    BY <1>7, <1>21, <2>1
<1>23. ASSUME NEW r \in EmbeddedRows, Face(r).live, Face(r).ref # 0
       PROVE  Redone(u, 0, Face(r).ref) \/ \E j \in 1 .. Len(u) : u[j].op = "ref" /\ u[j].at = r
  <2>1. r \in Rows
    BY DEF EmbeddedRows
  <2>2. CASE r \in rows
    <3>1. Has(u, SetRef(r, label[r]))
      BY <1>3, <1>9, <1>20, <2>1, <2>2
    <3>2. SetRef(r, label[r]).op = "ref" /\ SetRef(r, label[r]).at = r
      BY DEF SetRef
    <3> QED
      BY <3>1, <3>2 DEF Has
  <2>3. CASE Face(r).ref \in S
    <3>1. Face(r).ref \in 1 .. all
      BY <1>2, <1>3, <1>5, <1>23, <2>1 DEF all
    <3> QED
      BY <1>21, <2>3, <3>1
  <2> QED
    BY <1>8, <1>23, <2>2, <2>3
<1>24. WrongsRighted(u, Behind)
  BY <1>2, <1>22, <1>23 DEF WrongsRighted
<1>25. RowsInRange(Behind)
  BY <1>4 DEF RowsInRange, Behind
<1>26. \A f \in File : Recs(f)' = Recs(f)
  BY <1>1 DEF Recs
<1> QED
  BY <1>1, <1>17, <1>19, <1>24, <1>25, <1>26, SameRecords

-----------------------------------------------------------------------------
(* What a start writes *)

(* A short file grows to the length of the one it follows.                 *)
LEMMA FillUpToPath ==
    ASSUME FilesOK, NEW f \in {"i8", "centroids"}, NEW rows \in Nat,
           NEW c \in [Aligned -> Nat], NEW p \in Nat, Ordered(c, p), c[f] = Count(f), Count(f) <= rows,
           rows <= c[IF f = "i8" THEN "embs" ELSE "identities"]
    PROVE  /\ FillUpTo(f, rows) \in Seq(Storing)
           /\ [c EXCEPT ![f] = rows] \in [Aligned -> Nat]
           /\ Path(FillUpTo(f, rows), c, [c EXCEPT ![f] = rows], p)
<1> DEFINE m == rows - Count(f)
           s == [k \in 1 .. m |-> Append_(f, Count(f) + k)]
           G(k) == [x \in Aligned |-> IF x = f THEN c[x] + k ELSE c[x]]
           g == [k \in 0 .. m |-> G(k)]
<1>1. Count(f) \in Nat /\ f \in Aligned
  BY CountIsNat DEF File, Aligned
<1>2. m \in Nat /\ (IF rows > Count(f) THEN rows - Count(f) ELSE 0) = m /\ Count(f) + m = rows
  BY <1>1
<1>3. FillUpTo(f, rows) = s
  <2> HIDE DEF m
  <2> QED
    BY <1>2 DEF FillUpTo
<1>4. \A k \in 1 .. m : s[k] \in Storing /\ s[k].op # "ref" /\ \A x : AppendsTo(s[k], x) <=> x = f
  <2> SUFFICES ASSUME NEW k \in 1 .. m
               PROVE  s[k] \in Storing /\ s[k].op # "ref" /\ \A x : AppendsTo(s[k], x) <=> x = f
    OBVIOUS
  <2> DEFINE w == Append_(f, Count(f) + k)
  <2>1. s[k] = w
    OBVIOUS
  <2>2. Count(f) + k \in Nat
    BY <1>1, <1>2
  <2>3. w \in AnyWrite
    BY <2>2, QuietOnes DEF AnyWrite, Numbers
  <2>4. w.op = "append" /\ w.file = f
    BY DEF Append_
  <2> HIDE DEF w, s
  <2> QED
    BY <2>1, <2>3, <2>4 DEF Storing, AppendsTo
<1>5. s \in [1 .. m -> Storing]
  <2>1. s = [k \in 1 .. m |-> s[k]]
    OBVIOUS
  <2> HIDE DEF s
  <2> QED
    BY <1>4, <2>1
<1> HIDE DEF s
<1>6. s \in Seq(Storing) /\ Len(s) = m
  BY <1>2, <1>5, SeqDef, LenProperties
<1>7. \A k \in Nat : G(k) \in [Aligned -> Nat] /\ \A x \in Aligned : G(k)[x] = IF x = f THEN c[x] + k ELSE c[x]
  OBVIOUS
<1>8. \A k \in 0 .. m : g[k] = G(k) /\ g[k] \in [Aligned -> Nat]
  BY <1>7
<1>9. g \in [0 .. m -> [Aligned -> Nat]]
  BY <1>8
<1>10. G(0) = c /\ G(m) = [c EXCEPT ![f] = rows]
  <2> DEFINE e == [c EXCEPT ![f] = rows]
             a == G(0)
             b == G(m)
  <2>1. a \in [Aligned -> Nat] /\ b \in [Aligned -> Nat] /\ e \in [Aligned -> Nat]
    BY <1>2, <1>7
  <2>2. \A x \in Aligned : a[x] = c[x]
    OBVIOUS
  <2>3. \A x \in Aligned : b[x] = e[x]
    BY <1>2
  <2> HIDE DEF a, b, e
  <2> QED
    BY <2>1, <2>2, <2>3 DEF a, b, e
<1>11. \A k \in 0 .. m : Ordered(G(k), p)
  <2> SUFFICES ASSUME NEW k \in 0 .. m PROVE Ordered(G(k), p)
    OBVIOUS
  <2> DEFINE a == G(k)
  <2>1. \A x \in Aligned : c[x] \in Nat /\ a[x] = (IF x = f THEN c[x] + k ELSE c[x])
    OBVIOUS
  <2>2. c[f] + k <= rows
    BY <1>1, <1>2
  <2> HIDE DEF a, m
  <2>3. ASSUME f = "i8" PROVE Ordered(a, p)
    <3>1. /\ a["faces"] = c["faces"] /\ a["embs"] = c["embs"] /\ a["i8"] = c["i8"] + k
          /\ a["identities"] = c["identities"] /\ a["centroids"] = c["centroids"]
      BY <2>1, <2>3 DEF Aligned
    <3> QED
      BY <2>1, <2>2, <2>3, <3>1 DEF Ordered, Aligned
  <2>4. ASSUME f = "centroids" PROVE Ordered(a, p)
    <3>1. /\ a["faces"] = c["faces"] /\ a["embs"] = c["embs"] /\ a["i8"] = c["i8"]
          /\ a["identities"] = c["identities"] /\ a["centroids"] = c["centroids"] + k
      BY <2>1, <2>4 DEF Aligned
    <3> QED
      BY <2>1, <2>2, <2>4, <3>1 DEF Ordered, Aligned
  <2> QED
    BY <2>3, <2>4 DEF a
<1>12. \A k \in 1 .. m : G(k) = After(G(k - 1), s[k])
  <2> SUFFICES ASSUME NEW k \in 1 .. m PROVE G(k) = After(G(k - 1), s[k])
    OBVIOUS
  <2> DEFINE b == G(k - 1)
  <2>1. After(b, s[k]) = [x \in Aligned |-> IF x = f THEN b[x] + 1 ELSE b[x]]
    <3> HIDE DEF b, m
    <3> QED
      BY <1>4 DEF After
  <2>2. \A x \in Aligned : c[x] \in Nat /\ k \in Nat /\ b[x] = IF x = f THEN c[x] + (k - 1) ELSE c[x]
    BY <1>2
  <2>3. \A x \in Aligned : (IF x = f THEN b[x] + 1 ELSE b[x]) = (IF x = f THEN c[x] + k ELSE c[x])
    <3> HIDE DEF b, m
    <3> QED
      BY <2>2
  <2> HIDE DEF b
  <2> QED
    BY <2>1, <2>3 DEF b
<1> HIDE DEF G, g
<1>13. \A k \in 1 .. m : k \in 0 .. m /\ k - 1 \in 0 .. m
  BY <1>2
<1>14. 0 \in 0 .. m /\ m \in 0 .. m
  BY <1>2
<1> HIDE DEF m
<1>15. Path(s, c, [c EXCEPT ![f] = rows], p)
  <2>1. g[0] = c /\ g[m] = [c EXCEPT ![f] = rows]
    BY <1>8, <1>10, <1>14
  <2>2. \A k \in 0 .. m : Ordered(g[k], p)
    BY <1>8, <1>11
  <2>3. \A k \in 1 .. m : g[k] = After(g[k - 1], s[k])
    BY <1>8, <1>12, <1>13
  <2> QED
    BY <1>4, <1>6, <1>9, <2>1, <2>2, <2>3 DEF Path
<1>16. [c EXCEPT ![f] = rows] \in [Aligned -> Nat]
  OBVIOUS
<1> QED
  BY <1>3, <1>6, <1>15, <1>16

(* Short files are extended, dangling refs cleared, wrong sizes recounted. *)
LEMMA StartsRepairing ==
    ASSUME DurableInv, RepairInv
    PROVE  WritesRepair(StartWrites) /\ Align(StartWrites, Behind) /\ WrongsRighted(StartWrites, Behind)
<1> DEFINE c     == Lengths
           p     == Gap(Behind)
           rows  == Least(Count("embs"), Count("faces"))
           n     == Count("i8")
           ids   == Count("identities")
           c1    == [c EXCEPT !["i8"] = rows]
           d     == [c1 EXCEPT !["centroids"] = ids]
           ss    == [k \in 1 .. n |-> IF k \in 1 .. n THEN <<Put("i8", k, Recs("embs")[k])>> ELSE <<>>]
           dang  == {r \in EmbeddedRows : Face(r).live /\ Face(r).ref \notin LiveIds \cup {0}}
           wrong == {id \in LiveIds : Recs("identities")[id].size # Cardinality({r \in EmbeddedRows : RefersTo(r, id)})}
           Mv    == {SetRef(r, 0) : r \in Rows \cap dang}
           F == FillUpTo("i8", rows)
           P == IF n < rows THEN FlattenSeq(ss) ELSE <<>>
           G == FillUpTo("centroids", ids)
           N == (F \o P) \o G
           M == Moves(dang, 0)
           C == Recomputes(ids, wrong)
           u == (N \o M) \o C
<1>1. /\ FilesOK /\ Recs("embs") \in Seq(Nat) /\ n \in Nat /\ ids \in Nat
      /\ Count("embs") \in Nat /\ Count("faces") \in Nat
  BY CountIsNat DEF DurableInv, TypeOK, FilesOK, Numbers, File
<1>2. /\ c \in [Aligned -> Nat] /\ \A f \in Aligned : c[f] = Count(f)
      /\ c["i8"] = n /\ c["embs"] = Count("embs") /\ c["identities"] = ids /\ c["centroids"] = Count("centroids")
  BY <1>1, LengthsAre DEF Aligned
<1>3. p \in Nat /\ Ordered(c, p) /\ Rows \ Behind = EmbeddedRows /\ c["embs"] <= c["faces"]
  <2>1. PICK q \in Nat : Ordered(c, q)
    <3>1. Len(todo) \in Nat
      BY LenProperties DEF DurableInv, TypeOK
    <3>2. PICK e : Path(todo, c, e, Gap(unlisted))
      BY DEF RepairInv, Align
    <3>3. Gap(unlisted) \in Nat
      BY DEF Gap
    <3> QED
      BY <3>1, <3>2, <3>3, PathEnds
  <2> HIDE DEF p
  <2>2. c["embs"] + q <= c["faces"] /\ c["embs"] \in Nat /\ c["faces"] \in Nat
    BY <1>2, <2>1 DEF Ordered, Aligned
  <2> QED
    BY <1>1, <2>1, <2>2, OrderedAnew DEF p
<1>4. rows = Count("embs") /\ rows \in Nat /\ n <= rows /\ Count("centroids") <= ids
  <2>1. Count("embs") <= Count("faces") /\ n <= Count("embs") /\ Count("centroids") <= ids
    BY <1>2, <1>3 DEF Ordered, Aligned
  <2> QED
    BY <1>1, <2>1 DEF Least
<1>5. StartWrites = u
  BY DEF StartWrites, AlignFiles, ClearDangling, Recount, ForEach, Recomputes
<1> HIDE DEF c, p, rows, ids
<1>6. F \in Seq(Storing) /\ c1 \in [Aligned -> Nat] /\ Path(F, c, c1, p)
  <2> HIDE DEF n
  <2>1. c["i8"] = Count("i8") /\ Count("i8") <= rows /\ rows <= c["embs"]
    BY <1>1, <1>2, <1>4 DEF n
  <2> QED
    BY <1>1, <1>2, <1>3, <1>4, <2>1, FillUpToPath
<1>7. P \in Seq(Storing) /\ P \in Seq(Still(c1["identities"]))
  <2> DEFINE X == Storing \cap Still(c1["identities"])
  <2>1. \A k \in 1 .. n : n < rows => Recs("embs")[k] \in Nat
    BY <1>1, <1>4, ElementOfSeq DEF Count
  <2>2. \A k \in 1 .. n : n < rows => Put("i8", k, Recs("embs")[k]) \in X
    <3> SUFFICES ASSUME NEW k \in 1 .. n, n < rows PROVE Put("i8", k, Recs("embs")[k]) \in X
      OBVIOUS
    <3> DEFINE w == Put("i8", k, Recs("embs")[k])
    <3>1. w \in Gentle \cap Still(c1["identities"]) /\ w.op = "put"
      BY <2>1, StillOnes DEF Put
    <3> HIDE DEF w
    <3>2. w \in AnyWrite
      BY <3>1 DEF Gentle
    <3> QED
      BY <3>1, <3>2 DEF w, Storing
  <2>3. \A k \in 1 .. n : n < rows => ss[k] \in Seq(X)
    <3> HIDE DEF Put, X
    <3> QED
      BY <2>2, One
  <2>4. ss = [k \in 1 .. n |-> ss[k]]
    OBVIOUS
  <2> HIDE DEF ss, n, X
  <2>5. P \in Seq(X)
    BY <1>1, <2>3, <2>4, Looped, One
  <2> HIDE DEF P, c1
  <2>6. X \subseteq Storing /\ X \subseteq Still(c1["identities"])
    BY DEF X
  <2> QED
    BY <2>5, <2>6
<1>8. Ordered(c1, p) /\ c1["identities"] = ids /\ c1["embs"] = Count("embs") /\ c1["centroids"] = Count("centroids")
  <2>1. Len(F) \in Nat
    BY <1>6, LenProperties
  <2>2. c1["identities"] = c["identities"] /\ c1["embs"] = c["embs"] /\ c1["centroids"] = c["centroids"]
    BY <1>2 DEF Aligned
  <2> HIDE DEF c1, F
  <2> QED
    BY <1>2, <1>3, <1>6, <2>1, <2>2, PathEnds
<1>9. c1["i8"] = rows
  BY <1>2 DEF Aligned
<1> HIDE DEF F, P, ss, n
<1>10. G \in Seq(Storing) /\ d \in [Aligned -> Nat] /\ Path(G, c1, d, p)
  <2> HIDE DEF c1
  <2>1. c1["centroids"] = Count("centroids") /\ ids <= c1["identities"]
    BY <1>1, <1>8
  <2> QED
    BY <1>1, <1>3, <1>4, <1>6, <1>8, <2>1, FillUpToPath
<1>11. d["i8"] = d["embs"] /\ d["centroids"] = d["identities"]
  <2>1. d["i8"] = c1["i8"] /\ d["embs"] = c1["embs"] /\ d["identities"] = c1["identities"] /\ d["centroids"] = ids
    <3> HIDE DEF c1
    <3> QED
      BY <1>6 DEF Aligned
  <2> HIDE DEF d, c1
  <2> QED
    BY <1>4, <1>8, <1>9, <2>1
<1> HIDE DEF c1, d, G
<1>12. N \in Seq(Storing) /\ Path(N, c, d, p)
  <2>1. F \in Seq(AnyWrite) /\ P \in Seq(AnyWrite) /\ G \in Seq(AnyWrite)
    <3>1. Storing \subseteq AnyWrite
      BY DEF Storing
    <3> QED
      BY <1>6, <1>7, <1>10, <3>1
  <2>2. Path(P, c1, c1, p)
    BY <1>3, <1>6, <1>7, <1>8, PathStill
  <2>3. F \o P \in Seq(AnyWrite) /\ Path(F \o P, c, c1, p)
    BY <1>3, <1>6, <2>1, <2>2, PathJoin, ConcatProperties
  <2>4. Path(N, c, d, p)
    BY <1>3, <1>10, <2>1, <2>3, PathJoin
  <2>5. F \o P \in Seq(Storing)
    BY <1>6, <1>7, ConcatProperties
  <2> QED
    BY <1>10, <2>4, <2>5, ConcatProperties
<1>13. M \in Seq(Mv) /\ \A r \in Rows \cap dang : Has(M, SetRef(r, 0))
  <2> HIDE DEF dang
  <2> QED
    BY <1>1, MovesAre
<1>14. C \in Seq(Redoing) /\ \A id \in 1 .. ids : id \in wrong => Redone(C, 0, id)
  <2> HIDE DEF wrong
  <2> QED
    BY <1>1, RecomputesAre
<1>15. Mv \in SUBSET AnyWrite /\ \A k : Mv \subseteq Still(k) \/ ~ (0 <= k)
  <2>1. \A r \in Rows : r \in Nat
    BY DEF Rows
  <2> HIDE DEF dang
  <2>2. \A r \in Rows : SetRef(r, 0) \in AnyWrite
    BY <2>1, QuietOnes DEF AnyWrite
  <2>3. \A k : 0 <= k => \A r \in Rows : SetRef(r, 0) \in Still(k)
    BY <2>1, StillOnes
  <2> QED
    BY <2>2, <2>3
<1>16. \A w \in Mv : \E r \in Rows \cap dang : w = SetRef(r, 0)
  OBVIOUS
<1>17. \A r \in Rows \cap dang : Face(r).ref \notin LiveIds
  OBVIOUS
<1>18. \A r \in EmbeddedRows : Face(r).live /\ Face(r).ref # 0 /\ Face(r).ref \notin LiveIds => r \in Rows \cap dang
  BY DEF EmbeddedRows
<1>19. \A id \in LiveIds : id \in 1 .. ids /\ (SizeRight(id, Behind) \/ id \in wrong)
  <2>1. \A id : Listed(id, Behind) = {r \in EmbeddedRows : RefersTo(r, id)}
    BY <1>3 DEF Listed
  <2>2. \A id \in LiveIds : id \in 1 .. ids
    BY DEF LiveIds, Ids, ids
  <2> QED
    BY <2>1, <2>2 DEF SizeRight
<1> HIDE DEF N, M, C, Mv, dang, wrong
<1>20. ASSUME NEW w \in Mv
       PROVE  /\ w.op = "ref"
              /\ w.id # 0 => Redone(C, 0, w.id)
              /\ w.at \in Rows /\ Face(w.at).ref \in LiveIds \ {0} => Redone(C, 0, Face(w.at).ref)
  <2>1. PICK r \in Rows \cap dang : w = SetRef(r, 0)
    BY <1>16
  <2>2. w.op = "ref" /\ w.at = r /\ w.id = 0
    BY <2>1 DEF SetRef
  <2> QED
    BY <1>17, <2>1, <2>2
<1>21. WritesRepair(u)
  BY <1>12, <1>13, <1>14, <1>15, <1>20, MovesRepair
<1>22. Path(u, c, d, p)
  <2>1. 0 <= d["identities"]
    <3>1. d["identities"] \in Nat
      BY <1>10 DEF Aligned
    <3> QED
      BY <3>1
  <2>2. M \in Seq(Still(d["identities"])) /\ N \in Seq(AnyWrite)
    <3>1. Mv \subseteq Still(d["identities"]) /\ Storing \subseteq AnyWrite
      BY <1>15, <2>1 DEF Storing
    <3> QED
      BY <1>12, <1>13, <3>1
  <2> QED
    BY <1>2, <1>3, <1>10, <1>12, <1>14, <2>2, MovesLead
<1>23. Align(u, Behind)
  BY <1>10, <1>11, <1>22 DEF Align, c, p
<1>24. /\ \A x : Has(M, x) => Has(u, x)
       /\ \A x : Has(C, x) => Has(u, x)
  <2> DEFINE g == N \o M
  <2>1. N \in Seq(AnyWrite) /\ M \in Seq(AnyWrite) /\ C \in Seq(AnyWrite)
    <3>1. Storing \subseteq AnyWrite /\ Redoing \subseteq AnyWrite
      BY DEF Storing, Redoing
    <3> QED
      BY <1>12, <1>13, <1>14, <1>15, <3>1
  <2>2. g \in Seq(AnyWrite) /\ \A x : Has(M, x) => Has(g, x)
    BY <2>1, HasJoin, ConcatProperties
  <2>3. u = g \o C
    OBVIOUS
  <2> HIDE DEF g, u
  <2> QED
    BY <2>1, <2>2, <2>3, HasJoin
<1> HIDE DEF u
<1>25. \A id \in LiveIds : SizeRight(id, Behind) \/ Redone(u, 0, id)
  BY <1>14, <1>19, <1>24, RedoneIsHas
<1>26. ASSUME NEW r \in Rows \cap dang PROVE \E j \in 1 .. Len(u) : u[j].op = "ref" /\ u[j].at = r
  <2>1. SetRef(r, 0).op = "ref" /\ SetRef(r, 0).at = r
    BY DEF SetRef
  <2> QED
    BY <1>13, <1>24, <2>1 DEF Has
<1>27. WrongsRighted(u, Behind)
  BY <1>3, <1>18, <1>25, <1>26 DEF WrongsRighted
<1> QED
  BY <1>5, <1>21, <1>23, <1>27

LEMMA KillRepairs ==
    ASSUME DurableInv, RepairInv, Kill
    PROVE  RepairInv'
<1>1. todo' = StartWrites /\ unlisted' = Behind /\ \A f \in File : Recs(f)' = Recs(f)
  BY DEF Kill, Recs, Behind
<1>2. RowsInRange(Behind)
  BY DEF RepairInv, RowsInRange, Behind
<1> QED
  BY <1>1, <1>2, StartsRepairing, SameRecords

LEMMA InitRepairs ==
    ASSUME Init
    PROVE  RepairInv
<1>1. FilesOK /\ todo \in Seq(AnyWrite)
  BY InitHolds DEF DurableInv, TypeOK
<1>2. \A f \in File : Recs(f) = <<>> /\ Count(f) = 0
  BY DEF Init, EmptyFile, Recs, Count
<1>3. todo = <<>> /\ Len(todo) = 0 /\ unlisted = {}
  BY DEF Init
<1>4. Rows = {} /\ LiveIds = {}
  BY <1>2 DEF Rows, LiveIds, Ids, File
<1>5. WritesRepair(todo)
  BY <1>3 DEF WritesRepair, NewRefsRedone, OldRefsRedone, TombsFree
<1>6. Align(todo, unlisted)
  <2>1. Lengths \in [Aligned -> Nat] /\ \A f \in Aligned : Lengths[f] = 0
    BY <1>1, <1>2, LengthsAre
  <2>2. Ordered(Lengths, 0) /\ Lengths["i8"] = Lengths["embs"] /\ Lengths["centroids"] = Lengths["identities"]
    BY <2>1 DEF Ordered, Aligned
  <2>3. todo \in Seq(Still(Lengths["identities"]))
    BY <1>3, One
  <2>4. Path(todo, Lengths, Lengths, 0)
    BY <2>1, <2>2, <2>3, PathStill
  <2> QED
    BY <1>3, <2>1, <2>2, <2>4 DEF Align, Gap
<1> QED
  BY <1>3, <1>4, <1>5, <1>6 DEF RepairInv, RowsInRange, WrongsRighted

LEMMA NextRepairs ==
    ASSUME DurableInv, RepairInv, [Next]_vars
    PROVE  RepairInv'
<1>1. CASE Write
  BY <1>1, WriteRepairs
<1>2. CASE IngestStep
  BY <1>2, InsertRepairs, UpgradeRepairs, UpgradeThrowsRepairs DEF IngestStep
<1>3. ASSUME NEW i \in LivePhotos, RemoveImage(i) PROVE RepairInv'
  BY <1>3, RemoveImageRepairs
<1>4. CASE CurationStep
  <2>1. ASSUME NEW n \in {0} \cup EmbeddedRows
        PROVE  n \in Nat
    BY DEF EmbeddedRows, Rows
  <2> QED
    BY <1>4, <2>1, SplitRepairs, MergeRepairs, DissolveRepairs, AssignFaceRepairs, ApplyLabelsRepairs DEF CurationStep
<1>5. CASE Kill
  BY <1>5, KillRepairs
<1>6. CASE UNCHANGED vars
  <2>1. todo' = todo /\ unlisted' = unlisted /\ \A f \in File : Recs(f)' = Recs(f)
    BY <1>6 DEF vars, Recs
  <2> QED
    BY <2>1, SameRecords DEF RepairInv
<1> QED
  BY <1>1, <1>2, <1>3, <1>4, <1>5, <1>6 DEF Next

(* While requests are served, no listed face refers to a dead identity,    *)
(* every live identity has its size right, the mirrored files are as long  *)
(* as what they mirror, and a face is in no list only while the embeddings *)
(* are short: after any number of kills at any write of insert, upgrade    *)
(* (also one that throws), remove_image, split, merge, dissolve,           *)
(* assign_face, apply_labels_locked or of the start itself                 *)
(* (load_identity_state_locked, ensure_i8_version).                        *)
THEOREM StartsRepair ==
    Spec => []StartRepairs
<1>1. Init => DurableInv /\ RepairInv
  BY InitHolds, InitRepairs
<1>2. DurableInv /\ RepairInv /\ [Next]_vars => (DurableInv /\ RepairInv)'
  BY NextKeeps, NextRepairs
<1>3. DurableInv /\ RepairInv => StartRepairs
  <2>1. \A id : MembersOf(id) = Listed(id, unlisted)
    BY DEF MembersOf, Listed
  <2> QED
    BY <2>1, Settled DEF StartRepairs, Serving, SizeRight
<1> QED
  BY <1>1, <1>2, <1>3, PTL DEF Spec
=============================================================================
