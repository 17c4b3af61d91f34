----------------------------- MODULE Durability -----------------------------
(***************************************************************************)
(* What a kill leaves in the data directory of hvaxd, and what the next    *)
(* start makes of it (include/hvax/util/mmap_slots.hpp, the handlers and   *)
(* the constructor of src/store/gallery.cpp, load_identity_state_locked).  *)
(*                                                                         *)
(* The slot files are shared mappings, so everything written before a      *)
(* SIGKILL survives it; loss of power is not modelled.  A handler is the   *)
(* sequence todo of the writes it has still to make, one slot file or one  *)
(* master at a time; the memory of the process mirrors the files and dies  *)
(* with it.  A start is a handler too: it repairs, write by write.         *)
(*                                                                         *)
(* Rows and ids count from 1.  An embedding is named by the face row it    *)
(* was computed for.  Left out: the flag of the quality gate (what it does *)
(* to an identity is not), pins, the hidden flag and the HNSW.             *)
(***************************************************************************)
EXTENDS Naturals, FiniteSets, SequencesExt

CONSTANTS
    Sha,         \* contents a photograph can have
    FirstCap,    \* capacity of a new slot file (1024 records in the code)
    MaxPhotos,   \* bound: photos ever appended
    MaxRows,     \* bound: face rows ever appended
    MaxIds,      \* bound: identities ever appended
    MaxKills     \* bound: kills

ASSUME DurabilityBounds == FirstCap \in Nat \ {0} /\ {MaxPhotos, MaxRows, MaxIds, MaxKills} \subseteq Nat

File == {"images", "faces", "embs", "i8", "identities", "centroids"}

VARIABLES
    file,      \* the slot files: records, header capacity, records the file has room for
    masters,   \* contents of the files under images/
    todo,      \* writes the running handler has still to make
    unlisted,  \* faces in no member list, whatever they refer to (memory, see MembersOf)
    acked,     \* photos whose ingest returned and nobody asked to change since
    kills      \* kills so far

vars == <<file, masters, todo, unlisted, acked, kills>>

Recs(f)  == file[f].recs
Count(f) == Len(Recs(f))
Rows     == 1 .. Count("faces")
Photos   == 1 .. Count("images")
Ids      == 1 .. Count("identities")
Face(r)  == Recs("faces")[r]

LivePhotos     == {i \in Photos : Recs("images")[i].live}
PhotoRows(i)   == {r \in Rows : Face(r).live /\ Face(r).image = i}
LiveIds        == {id \in Ids : Recs("identities")[id].live}
(* The rows load_identity_state_locked and apply_labels_locked list.       *)
EmbeddedRows   == {r \in Rows : r <= Count("embs")}
RefersTo(r, id) == Face(r).live /\ Face(r).ref = id
(* The member list of id.  Lists are rebuilt over the EmbeddedRows, so a   *)
(* face behind them is in none, until it is given to an identity again.    *)
MembersOf(id)  == {r \in Rows \ unlisted : RefersTo(r, id)}

(* What a loop over the numbers to n writes, for those in S.               *)
ForEach(n, S, Writes(_)) == FlattenSeq([k \in 1 .. n |-> IF k \in S THEN Writes(k) ELSE <<>>])

-----------------------------------------------------------------------------
(* Writes *)

Append_(f, rec)  == [op |-> "append", file |-> f, rec |-> rec]
Put(f, k, rec)   == [op |-> "put", file |-> f, at |-> k, rec |-> rec]
SetRef(r, id)    == [op |-> "ref", at |-> r, id |-> id]
TombFace(r)      == [op |-> "tombstone", at |-> r]
Recompute(id)    == [op |-> "recompute", id |-> id]
WriteMaster(s)   == [op |-> "master", sha |-> s]
UnlinkMaster(s)  == [op |-> "unlink", sha |-> s]
Answer(i, s)     == [op |-> "answer", photo |-> i, sha |-> s]

Patched(f, k, rec) == [file EXCEPT ![f].recs[k] = rec]

Done == todo' = Tail(todo)

(* Mistake: the header announces the new capacity before the file grows.   *)
AppendAnnouncedEarly(w) ==
    LET f == file[w.file]
    IN  /\ w.op = "append"
        /\ \/ /\ Count(w.file) < f.cap /\ f.cap <= f.room
              /\ file' = [file EXCEPT ![w.file].recs = Append(@, w.rec)]
              /\ Done
           \/ /\ Count(w.file) >= f.cap
              /\ file' = [file EXCEPT ![w.file].cap = 2 * f.room]
              /\ UNCHANGED todo
           \/ /\ f.room < f.cap
              /\ file' = [file EXCEPT ![w.file].room = f.cap]
              /\ UNCHANGED todo
        /\ UNCHANGED <<masters, unlisted, acked>>

(* SlotFile::append: the record, then the count that makes it visible (one *)
(* write here, as a record beyond the count is never read).  A full file   *)
(* grows first, by ftruncate; the header learns the capacity afterwards.   *)
DoAppend(w) ==
    LET f == file[w.file]
    IN  /\ w.op = "append"
        /\ \/ /\ Count(w.file) < f.cap
              /\ file' = [file EXCEPT ![w.file].recs = Append(@, w.rec)]
              /\ Done
           \/ /\ Count(w.file) >= f.cap /\ f.room < 2 * f.cap
              /\ file' = [file EXCEPT ![w.file].room = 2 * f.cap]
              /\ UNCHANGED todo
           \/ /\ Count(w.file) >= f.cap /\ f.room >= 2 * f.cap
              /\ file' = [file EXCEPT ![w.file].cap = 2 * f.cap]
              /\ UNCHANGED todo
        /\ UNCHANGED <<masters, unlisted, acked>>

(* A record overwritten in place.  A row beyond the count (an embedding    *)
(* the file is short of) is memory of the mapping that the next append     *)
(* overwrites.                                                             *)
DoPut(w) ==
    /\ w.op = "put"
    /\ file' = IF w.at <= Count(w.file) THEN Patched(w.file, w.at, w.rec) ELSE file
    /\ Done /\ UNCHANGED <<masters, unlisted, acked>>

(* The ref of a face, and with it the list of the identity.                *)
DoSetRef(w) ==
    /\ w.op = "ref"
    /\ file' = Patched("faces", w.at, [Face(w.at) EXCEPT !.ref = w.id])
    /\ unlisted' = unlisted \ {w.at}
    /\ Done /\ UNCHANGED <<masters, acked>>

DoTombstone(w) ==
    /\ w.op = "tombstone"
    /\ file' = Patched("faces", w.at, [Face(w.at) EXCEPT !.live = FALSE])
    /\ Done /\ UNCHANGED <<masters, unlisted, acked>>

(* recompute_identity_locked: the slot's size and liveness from its list.  *)
DoRecompute(w) ==
    /\ w.op = "recompute"
    /\ file' = Patched("identities", w.id,
                       [live |-> MembersOf(w.id) # {}, size |-> Cardinality(MembersOf(w.id))])
    /\ Done /\ UNCHANGED <<masters, unlisted, acked>>

(* fsync_file writes beside the name and renames: all bytes or none.       *)
DoMaster(w) ==
    /\ \/ w.op = "master" /\ masters' = masters \cup {w.sha}
       \/ w.op = "unlink" /\ masters' = masters \ {w.sha}
    /\ Done /\ UNCHANGED <<file, unlisted, acked>>

(* The handler returns and the caller is told which faces are stored.      *)
DoAnswer(w) ==
    /\ w.op = "answer"
    /\ acked' = acked \cup {[photo |-> w.photo, sha |-> w.sha, rows |-> PhotoRows(w.photo)]}
    /\ Done /\ UNCHANGED <<file, masters, unlisted>>

Write ==
    /\ todo # <<>>
    /\ LET w == Head(todo)
       IN  \/ DoAppend(w) \/ DoPut(w) \/ DoSetRef(w) \/ DoTombstone(w)
           \/ DoRecompute(w) \/ DoMaster(w) \/ DoAnswer(w)
    /\ UNCHANGED kills

-----------------------------------------------------------------------------
(* Handlers *)

Handle(writes) ==
    /\ todo = <<>>
    /\ todo' = writes
    /\ UNCHANGED <<file, masters, kills>>

Join(r, id) == IF id = 0 THEN <<>> ELSE <<SetRef(r, id), Recompute(id)>>
Leave(r)    == IF Face(r).ref = 0 THEN <<>> ELSE <<SetRef(r, 0), Recompute(Face(r).ref)>>

(* append_face_locked, for the row a new face takes: the three row-aligned *)
(* files one after the other, then the identity it is close enough to.     *)
AppendFace(r, i, id) ==
    <<Append_("faces", [image |-> i, live |-> TRUE, ref |-> 0]),
      Append_("embs", r), Append_("i8", r)>> \o Join(r, id)

Unknown(s)   == \A i \in LivePhotos : Recs("images")[i].sha # s
Untouched(i) == {a \in acked : a.photo # i}

(* Mistake: the photo's slot is written before its master file.            *)
InsertSlotFirst(s, id) ==
    LET i == Count("images") + 1
        r == Count("faces") + 1
    IN  /\ Unknown(s) /\ i <= MaxPhotos /\ r <= MaxRows
        /\ Handle(<<Append_("images", [sha |-> s, live |-> TRUE]), WriteMaster(s)>>
                     \o AppendFace(r, i, id) \o <<Answer(i, s)>>)
        /\ UNCHANGED <<unlisted, acked>>

(* Gallery::insert of a photo with one face.                               *)
Insert(s, id) ==
    LET i == Count("images") + 1
        r == Count("faces") + 1
    IN  /\ Unknown(s) /\ i <= MaxPhotos /\ r <= MaxRows
        /\ Handle(<<WriteMaster(s), Append_("images", [sha |-> s, live |-> TRUE])>>
                     \o AppendFace(r, i, id) \o <<Answer(i, s)>>)
        /\ UNCHANGED <<unlisted, acked>>

(* A face that stays gets a new embedding in place.  It joins id, stays    *)
(* with it, or (0) is now too poor and leaves.                             *)
Remap(q, id) ==
    <<Put("embs", q, q), Put("i8", q, q)>>
        \o (IF id = 0 THEN Leave(q) ELSE IF Face(q).ref = 0 THEN Join(q, id) ELSE <<>>)

(* Where the faces of photo i may end in an upgrade: only a face without   *)
(* identity joins one, and one that is alive at that moment.               *)
Remapping(i, to) ==
    LET poor == {q \in DOMAIN to \cap PhotoRows(i) : to[q] = 0}
    IN  \A q \in DOMAIN to :
           \/ to[q] = 0
           \/ q \in PhotoRows(i) /\ Face(q).ref = to[q]
           \/ (q \in PhotoRows(i) => Face(q).ref = 0) /\ to[q] \in LiveIds /\ MembersOf(to[q]) \ poor # {}

Replace(i, s) == <<WriteMaster(s), Put("images", i, [sha |-> s, live |-> TRUE])>>
Remaps(to)    == ForEach(Count("faces"), DOMAIN to, LAMBDA q : Remap(q, to[q]))
Drop(r)       == Leave(r) \o <<TombFace(r)>>

(* Gallery::upgrade of photo i to the larger copy s, whose faces are the   *)
(* rows of to: some the photo has, and perhaps the next free row.  The     *)
(* other rows are tombstoned; identities of faces with a new embedding are *)
(* recomputed.                                                             *)
Upgrade(i, s, to) ==
    LET r    == Count("faces") + 1
        kept == DOMAIN to \ {r}
    IN  /\ i \in LivePhotos /\ Unknown(s)
        /\ kept \subseteq PhotoRows(i) /\ Remapping(i, to)
        /\ r \in DOMAIN to => r <= MaxRows
        /\ Handle(Replace(i, s) \o Remaps(to)
                     \o (IF r \in DOMAIN to THEN AppendFace(r, i, to[r]) ELSE <<>>)
                     \o ForEach(Count("faces"), PhotoRows(i) \ kept, Drop)
                     \o ForEach(Count("identities"), {Face(q).ref : q \in {k \in kept : to[k] # 0}},
                                LAMBDA id : <<Recompute(id)>>)
                     \o <<UnlinkMaster(Recs("images")[i].sha), Answer(i, s)>>)
        /\ acked' = Untouched(i) /\ UNCHANGED unlisted

(* hnsw_.add throws at one of the faces that stay.                         *)
UpgradeThrows(i, s, to) ==
    /\ i \in LivePhotos /\ Unknown(s)
    /\ DOMAIN to \subseteq PhotoRows(i) /\ Remapping(i, to)
    /\ Handle(Replace(i, s) \o Remaps(to))
    /\ acked' = Untouched(i) /\ UNCHANGED unlisted

(* Gallery::remove_image: the photo is tombstoned before its faces, its    *)
(* master goes last.                                                       *)
RemoveImage(i) ==
    LET s == Recs("images")[i].sha
    IN  /\ i \in LivePhotos
        /\ Handle(<<Put("images", i, [sha |-> s, live |-> FALSE])>>
                     \o ForEach(Count("faces"), PhotoRows(i), Drop) \o <<UnlinkMaster(s)>>)
        /\ acked' = Untouched(i) /\ UNCHANGED unlisted

(* new_identity_locked.                                                    *)
NewIdentity(id) == <<Append_("identities", [live |-> TRUE, size |-> 0]), Append_("centroids", id)>>

Moves(rows, id) == ForEach(Count("faces"), rows, LAMBDA r : <<SetRef(r, id)>>)

(* Gallery::split_identity, of faces that refer to id: the code compares   *)
(* their number with the list, not the faces.                              *)
Split(id, moving) ==
    LET nid == Count("identities") + 1
    IN  /\ id \in LiveIds /\ nid <= MaxIds
        /\ moving # {} /\ moving \subseteq {r \in Rows : RefersTo(r, id)}
        /\ Cardinality(moving) < Cardinality(MembersOf(id))
        /\ Handle(NewIdentity(nid) \o Moves(moving, nid) \o <<Recompute(id), Recompute(nid)>>)
        /\ UNCHANGED <<unlisted, acked>>

(* Gallery::merge_identities of two; the smaller id is the target.         *)
Merge(target, src) ==
    /\ {target, src} \subseteq LiveIds /\ target < src
    /\ Handle(Moves(MembersOf(src), target) \o <<Recompute(src), Recompute(target)>>)
    /\ UNCHANGED <<unlisted, acked>>

(* Gallery::dissolve_identity.                                             *)
Dissolve(id) ==
    /\ id \in LiveIds
    /\ Handle(Moves(MembersOf(id), 0) \o <<Recompute(id)>>)
    /\ UNCHANGED <<unlisted, acked>>

(* Gallery::assign_face, to nobody if id is 0.  It asks for a face row,    *)
(* not for an embedding.                                                   *)
AssignFace(r, id) ==
    /\ r \in Rows /\ Face(r).live /\ id \in LiveIds \cup {0} /\ Face(r).ref # id
    /\ Handle(Leave(r) \o Join(r, id))
    /\ UNCHANGED <<unlisted, acked>>

(* apply_labels_locked with labels for the rows a snapshot saw, the last   *)
(* fresh of them new.  It rebuilds the lists; an identity without faces    *)
(* that was dead stays so.                                                 *)
ApplyLabels(label, fresh) ==
    LET ids  == Count("identities")
        rows == {r \in DOMAIN label : Face(r).live}
        kept == {r \in EmbeddedRows \ DOMAIN label : Face(r).live}
        used == {label[r] : r \in rows} \cup {Face(r).ref : r \in kept}
    IN  /\ ids + fresh <= MaxIds
        /\ \A r \in DOMAIN label : label[r] <= ids + fresh
        /\ fresh # 0 => \E r \in DOMAIN label : label[r] = ids + fresh
        /\ Handle(FlattenSeq([k \in 1 .. fresh |-> NewIdentity(ids + k)])
                     \o ForEach(Count("faces"), rows, LAMBDA r : <<SetRef(r, label[r])>>)
                     \o ForEach(ids + fresh, used \cup LiveIds \cup (ids + 1 .. ids + fresh),
                                LAMBDA id : <<Recompute(id)>>))
        /\ unlisted' = Rows \ EmbeddedRows
        /\ UNCHANGED acked

-----------------------------------------------------------------------------
(* Kill and start *)

(* Row n + 1 of the row-aligned file f, while it is shorter than rows.     *)
FillUpTo(f, rows) == [k \in 1 .. (IF rows > Count(f) THEN rows - Count(f) ELSE 0)
                         |-> Append_(f, Count(f) + k)]

Least(m, n) == IF m <= n THEN m ELSE n

(* ensure_i8_version extends and requantises a short int8 file from the    *)
(* embeddings; load_identity_state_locked extends the centroids.           *)
AlignFiles ==
    LET rows == Least(Count("embs"), Count("faces"))
    IN  FillUpTo("i8", rows)
          \o (IF Count("i8") < rows
              THEN ForEach(Count("i8"), 1 .. Count("i8"), LAMBDA r : <<Put("i8", r, Recs("embs")[r])>>) ELSE <<>>)
          \o FillUpTo("centroids", Count("identities"))

(* load_identity_state_locked clears refs to dead identities.              *)
ClearDangling ==
    Moves({r \in EmbeddedRows : Face(r).live /\ Face(r).ref \notin LiveIds \cup {0}}, 0)

(* It then recomputes every live identity whose stored size differs from   *)
(* the list it has built.                                                  *)
Recount ==
    LET Listed(id) == {r \in EmbeddedRows : RefersTo(r, id)}
        wrongSize  == {id \in LiveIds : Recs("identities")[id].size # Cardinality(Listed(id))}
    IN  ForEach(Count("identities"), wrongSize, LAMBDA id : <<Recompute(id)>>)

(* Mistake: the start trusts every stored size.                            *)
StartWithoutRecount == AlignFiles \o ClearDangling

(* Mistake: the start does what its warning says, it truncates to min.     *)
StartTruncating ==
    ForEach(Count("faces"), {r \in Rows : r > Count("embs")}, LAMBDA r : <<TombFace(r)>>)
       \o AlignFiles \o ClearDangling \o Recount

(* The constructor.  Files of faces and embeddings that differ in length   *)
(* stay as they are: the warning "truncating to min" announces what no     *)
(* code does.                                                              *)
StartWrites == AlignFiles \o ClearDangling \o Recount

(* SIGKILL at any point, also while starting, and the next start.  The     *)
(* lists it builds are there at once: nothing it writes changes them, and  *)
(* only the recomputing behind reads them.                                 *)
Kill ==
    /\ kills < MaxKills
    /\ kills' = kills + 1
    /\ todo' = StartWrites
    /\ unlisted' = Rows \ EmbeddedRows
    /\ UNCHANGED <<file, masters, acked>>

EmptyFile == [recs |-> <<>>, cap |-> FirstCap, room |-> FirstCap]

(* A data directory just created; a kill inside the very first open, which *)
(* leaves a file without a magic, is not modelled.                         *)
Init ==
    /\ file = [f \in File |-> EmptyFile]
    /\ masters = {} /\ todo = <<>> /\ unlisted = {} /\ acked = {} /\ kills = 0

(* The identities the faces of a new copy may end in, see Remapping.       *)
Remappings(i) ==
    UNION {[rows -> Ids \cup {0}] : rows \in SUBSET (PhotoRows(i) \cup {Count("faces") + 1})}

IngestStep ==
    \E s \in Sha :
        \/ \E id \in LiveIds \cup {0} : Insert(s, id)
        \/ \E i \in LivePhotos : \E to \in Remappings(i) : Upgrade(i, s, to) \/ UpgradeThrows(i, s, to)

CurationStep ==
    \/ \E id \in LiveIds : \E moving \in SUBSET Rows : Split(id, moving)
    \/ \E target, src \in LiveIds : Merge(target, src)
    \/ \E id \in LiveIds : Dissolve(id)
    \/ \E r \in Rows, id \in LiveIds \cup {0} : AssignFace(r, id)
    \/ \E n \in {0} \cup EmbeddedRows, fresh \in 0 .. MaxIds :
          \E label \in [1 .. n -> 0 .. MaxIds] : ApplyLabels(label, fresh)

Next == Write \/ IngestStep \/ (\E i \in LivePhotos : RemoveImage(i)) \/ CurationStep \/ Kill

Spec == Init /\ [][Next]_vars
-----------------------------------------------------------------------------
(* Properties *)

Serving == todo = <<>>

(* SlotFile::open throws on a header whose count exceeds its capacity or   *)
(* whose capacity exceeds the file.  No kill leaves one behind: the order  *)
(* of growing a file and announcing it is what makes a start possible.     *)
ReopenAccepts == \A f \in File : Count(f) <= file[f].cap /\ file[f].cap <= file[f].room

(* At every moment, also half way through insert, upgrade and remove_image *)
(* and after a kill there, a photo that is found has its master file.      *)
LivePhotosHaveMasters == \A i \in LivePhotos : Recs("images")[i].sha \in masters

(* A photo whose ingest was answered keeps its content and exactly the     *)
(* faces the answer listed, through kills in the middle of later handlers  *)
(* and of starts, until someone upgrades or deletes it.                    *)
AcknowledgedSurvive ==
    \A a \in acked :
        /\ a.photo \in LivePhotos
        /\ Recs("images")[a.photo] = [sha |-> a.sha, live |-> TRUE]
        /\ PhotoRows(a.photo) = a.rows

(* Whatever a handler left half done the start repairs.  While requests    *)
(* are served a listed face refers to a live identity, the stored size of  *)
(* a live identity is the length of its list, the int8 and centroid files  *)
(* are as long as what they are aligned with, and a face can be missing    *)
(* from the lists only where a kill has left the embeddings short of rows. *)
StartRepairs ==
    Serving =>
        /\ \A r \in Rows \ unlisted : Face(r).live => Face(r).ref \in LiveIds \cup {0}
        /\ \A id \in LiveIds : Recs("identities")[id].size = Cardinality(MembersOf(id))
        /\ Count("i8") = Count("embs") /\ Count("centroids") = Count("identities")
        /\ unlisted # {} => Count("embs") < Count("faces")

(* README: "face_id equals embedding row".  Refuted: after a kill between  *)
(* the two appends of append_face_locked the embeddings are one row short, *)
(* no start repairs it, and every later face stores its embedding under    *)
(* the row of the face before.                                             *)
RowsAligned ==
    Serving => \A r \in Rows : Face(r).live => r <= Count("embs") /\ Recs("embs")[r] = r
=============================================================================
