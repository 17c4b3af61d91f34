------------------------------ MODULE Gallery ------------------------------
(***************************************************************************)
(* The gallery of hvaxd (src/store/gallery.cpp, src/store/identity.cpp):   *)
(* the slot files, the mirrors kept beside them in memory, the HNSW index  *)
(* and the master files, and every handler that changes them.  A handler   *)
(* runs under the exclusive lock mu_, so here it is one step; module       *)
(* Recluster splits the one handler that releases the lock half way.       *)
(*                                                                         *)
(* Flag words are modelled as the sets of the slots that carry a flag.     *)
(* Embeddings, boxes and names are abstracted: which identity a face is    *)
(* close enough to join, which old and new faces of an upgraded photo      *)
(* match, and whether a face passes the quality gate are inputs.  An       *)
(* identity is named by the value a face row stores for it                 *)
(* (identity_id + 1); 0 means unassigned.                                  *)
(***************************************************************************)
EXTENDS Clustering

CONSTANTS
    Sha,          \* contents a photograph can have, named by their SHA-256
    NoSha,        \* the hash of a slot never written
    MaxImages,    \* bound: image slots ever appended
    MaxFaces,     \* bound: face slots ever appended
    MaxIds,       \* bound: identity slots ever appended
    MaxNew,       \* bound: faces one ingest appends
    CountMax      \* the largest value of hidden_count_, which wraps

ASSUME BoundsAssumption ==
    /\ NoSha \notin Sha
    /\ MaxImages \in Nat /\ MaxFaces \in Nat /\ MaxIds \in Nat /\ MaxNew \in Nat
    /\ CountMax \in Nat /\ MaxIds <= CountMax

ImageId == 1 .. MaxImages
Row     == 0 .. (MaxFaces - 1)
Id      == 1 .. MaxIds

VARIABLES
    \* images.slots, sha_to_idx_ and the files under images/
    imageCount,   \* slots appended
    liveImages,   \* slots without kTombstone
    imageSha,     \* the slot's sha256
    shaIndex,     \* sha_to_idx_: the image with these bytes, 0 if none
    masters,      \* master files on disk
    \* faces.slots (and its row-aligned embeddings), image_faces_
    faceCount,
    liveFaces,    \* slots without kTombstone
    lowQuality,   \* slots with kLowQuality
    faceImage,    \* the slot's image_id
    imageFaces,   \* image_faces_: live face rows of an image
    \* the HNSW
    indexed,      \* keys in memory
    indexFile,    \* keys in index.usearch
    \* identities.slots, hidden_, hidden_count_
    idCount,
    liveIds,      \* slots without kTombstone
    pinned,       \* slots with kIdentityPinned
    hidden,       \* slots with kIdentityHidden
    hiddenMask,   \* hidden_: the mirror searches consult
    hiddenCount,  \* hidden_count_
    \* who is who
    ref,          \* the face slot's identity_ref
    members,      \* members_: face rows of an identity
    size          \* the identity slot's size

imageVars    == <<imageCount, liveImages, imageSha, shaIndex, masters>>
faceVars     == <<faceCount, liveFaces, lowQuality, faceImage, imageFaces>>
indexVars    == <<indexed, indexFile>>
hiddenVars   == <<hidden, hiddenMask, hiddenCount>>
assignVars   == <<liveIds, ref, members, size>>
vars == <<imageVars, faceVars, indexVars, hiddenVars, assignVars, idCount, pinned>>

TypeOK ==
    /\ imageCount \in 0 .. MaxImages
    /\ liveImages \in SUBSET ImageId
    /\ imageSha \in [ImageId -> Sha \cup {NoSha}]
    /\ shaIndex \in [Sha -> 0 .. MaxImages]
    /\ masters \in SUBSET Sha
    /\ faceCount \in 0 .. MaxFaces
    /\ liveFaces \in SUBSET Row
    /\ lowQuality \in SUBSET Row
    /\ faceImage \in [Row -> 0 .. MaxImages]
    /\ imageFaces \in [ImageId -> SUBSET Row]
    /\ indexed \in SUBSET Row
    /\ indexFile \in SUBSET Row
    /\ idCount \in 0 .. MaxIds
    /\ liveIds \in SUBSET Id
    /\ pinned \in SUBSET Id
    /\ hidden \in SUBSET Id
    /\ hiddenMask \in SUBSET Id
    /\ hiddenCount \in 0 .. CountMax
    /\ ref \in [Row -> 0 .. MaxIds]
    /\ members \in [Id -> SUBSET Row]
    /\ size \in [Id -> 0 .. MaxFaces]

(* face_indexable: neither tombstoned nor low quality.                     *)
Indexable == liveFaces \ lowQuality

(* An empty data directory.                                                *)
Init ==
    /\ imageCount = 0 /\ liveImages = {}
    /\ imageSha = [i \in ImageId |-> NoSha]
    /\ shaIndex = [s \in Sha |-> 0]
    /\ masters = {}
    /\ faceCount = 0 /\ liveFaces = {} /\ lowQuality = {}
    /\ faceImage = [r \in Row |-> 0]
    /\ imageFaces = [i \in ImageId |-> {}]
    /\ indexed = {} /\ indexFile = {}
    /\ idCount = 0 /\ liveIds = {} /\ pinned = {}
    /\ hidden = {} /\ hiddenMask = {} /\ hiddenCount = 0
    /\ ref = [r \in Row |-> 0]
    /\ members = [id \in Id |-> {}]
    /\ size = [id \in Id |-> 0]

-----------------------------------------------------------------------------
(* Helpers of the handlers *)

(* recompute_identity_locked over the touched identities: an empty one is  *)
(* tombstoned, any other gets its size and is live again.  Flags other     *)
(* than kTombstone stay.                                                   *)
Recompute(touched, mem) ==
    /\ members' = mem
    /\ liveIds' = (liveIds \ touched) \cup {id \in touched : mem[id] # {}}
    /\ size' = [id \in Id |-> IF id \in touched THEN Cardinality(mem[id]) ELSE size[id]]

(* Mistake: unassign_locked forgets to erase the row from members_.        *)
MembersNeverErased(out, joined) ==
    [id \in Id |-> members[id] \cup {r \in DOMAIN joined : joined[r] = id}]

(* members_ after the rows of out left their identity (unassign_locked)    *)
(* and each row r of joined entered joined[r] (assign_locked).             *)
MembersAfter(out, joined) ==
    [id \in Id |-> (members[id] \ {r \in out : ref[r] = id})
                      \cup {r \in DOMAIN joined : joined[r] = id}]

RefsAfter(out, joined) ==
    [r \in Row |-> IF r \in DOMAIN joined /\ joined[r] # 0 THEN joined[r]
                   ELSE IF r \in out THEN 0 ELSE ref[r]]

(* Mistake: unassign_locked does not recompute the identity it leaves.     *)
TouchedByJoinOnly(out, joined) == {joined[r] : r \in DOMAIN joined} \ {0}

(* The identities unassign_locked and assign_locked recompute.             *)
Touched(out, joined) ==
    ({ref[r] : r \in out} \cup {joined[r] : r \in DOMAIN joined}) \ {0}

Reassign(out, joined, refreshed) ==
    /\ ref' = RefsAfter(out, joined)
    /\ Recompute(Touched(out, joined) \cup refreshed, MembersAfter(out, joined))

NoJoin == [r \in {} |-> 0]

(* The rows append_face_locked takes for k new faces.                      *)
NewRows(k) == faceCount .. (faceCount + k - 1)

(* Mistake: image ids and image slots are confused by one.                 *)
AppendFacesOffByOne(i, k) ==
    /\ faceCount + k <= MaxFaces
    /\ faceCount' = faceCount + k
    /\ faceImage' = [r \in Row |-> IF r \in NewRows(k) THEN i + 1 ELSE faceImage[r]]

(* append_face_locked: k rows for image i, the low ones below the gate.    *)
AppendFaces(i, k) ==
    /\ faceCount + k <= MaxFaces
    /\ faceCount' = faceCount + k
    /\ faceImage' = [r \in Row |-> IF r \in NewRows(k) THEN i ELSE faceImage[r]]

-----------------------------------------------------------------------------
(* Ingest *)

(* Gallery::insert, called by Engine::persist_ingest under ingest_mu_ when *)
(* find_by_sha found nothing.  Each face above the gate enters the HNSW    *)
(* and joins the nearest live identity if it is close enough.              *)
Insert(s, k, low, join) ==
    LET i == imageCount + 1
    IN  /\ shaIndex[s] = 0
        /\ imageCount < MaxImages
        /\ AppendFaces(i, k)
        /\ \A r \in NewRows(k) : join[r] \in (IF r \in low THEN {0} ELSE liveIds \cup {0})
        /\ masters' = masters \cup {s}
        /\ imageCount' = i
        /\ liveImages' = liveImages \cup {i}
        /\ imageSha' = [imageSha EXCEPT ![i] = s]
        /\ shaIndex' = [shaIndex EXCEPT ![s] = i]
        /\ liveFaces' = liveFaces \cup NewRows(k)
        /\ lowQuality' = lowQuality \cup low
        /\ imageFaces' = [imageFaces EXCEPT ![i] = NewRows(k)]
        /\ indexed' = indexed \cup (NewRows(k) \ low)
        /\ Reassign({}, join, {})
        /\ UNCHANGED <<indexFile, hiddenVars, idCount, pinned>>

(* Mistake: the old hash keeps pointing at the upgraded image.             *)
ReplaceMasterKeepingHash(i, s) ==
    /\ i \in liveImages
    /\ shaIndex[s] = 0
    /\ imageSha' = [imageSha EXCEPT ![i] = s]
    /\ shaIndex' = [shaIndex EXCEPT ![s] = i]
    /\ UNCHANGED <<imageCount, liveImages>>

(* The new master of an upgraded image, and its hash.                      *)
ReplaceMaster(i, s) ==
    /\ i \in liveImages
    /\ shaIndex[s] = 0
    /\ imageSha' = [imageSha EXCEPT ![i] = s]
    /\ shaIndex' = [t \in Sha |-> IF t = s THEN i ELSE IF t = imageSha[i] THEN 0 ELSE shaIndex[t]]
    /\ UNCHANGED <<imageCount, liveImages>>

(* Kept faces that are not indexed yet and pass the gate now.              *)
Promoted(kept, low) == (kept \cap lowQuality) \ low

(* A kept face may only look for an identity when it passes the gate and   *)
(* has none.                                                               *)
RemapJoins(kept, low, join) ==
    \A r \in kept :
        join[r] \in (IF r \in low \/ ref[r] # 0 THEN {0} ELSE liveIds \cup {0})

(* Gallery::upgrade: a larger copy of photo i arrived.  The old faces that *)
(* match a new one are kept, k new ones are appended, the rest tombstoned. *)
(* A new face joins after the remapped faces left their identities and     *)
(* before the unmatched old faces do.  A kept face that is low now loses   *)
(* its key only if it was above the gate before: a stale key stays.        *)
Upgrade(i, s, kept, k, low, join) ==
    LET new     == NewRows(k)
        dropped == imageFaces[i] \ kept
        leaving == kept \cap low
        first   == [r \in kept |-> join[r]]
        joinable == {id \in liveIds : id \notin Touched(leaving, first)
                                      \/ MembersAfter(leaving, first)[id] # {}}
        staying == {ref[r] : r \in kept \ low} \ {0}
    IN  /\ kept # {} \/ k > 0
        /\ ReplaceMaster(i, s)
        /\ AppendFaces(i, k)
        /\ Promoted(kept, low) \cap indexed = {}
        /\ RemapJoins(kept, low, join)
        /\ \A r \in new : join[r] \in (IF r \in low THEN {0} ELSE joinable \cup {0})
        /\ masters' = (masters \cup {s}) \ {imageSha[i]}
        /\ liveFaces' = (liveFaces \ dropped) \cup new
        /\ lowQuality' = (lowQuality \ kept) \cup low
        /\ imageFaces' = [imageFaces EXCEPT ![i] = kept \cup new]
        /\ indexed' = (indexed \ ((leaving \ lowQuality) \cup dropped)) \cup ((kept \cup new) \ low)
        /\ Reassign(leaving \cup dropped, join, staying)
        /\ UNCHANGED <<indexFile, hiddenVars, idCount, pinned>>

(* Gallery::upgrade again, when the key of a promoted face is already in   *)
(* the HNSW: HnswIndex::add discards usearch's error, whose destructor     *)
(* throws, and the handler ends there.  The faces of done were remapped,   *)
(* the flags of bad were already rewritten; no face is appended or         *)
(* tombstoned and the old master stays.                                    *)
UpgradeThrows(i, s, done, bad, low, join) ==
    LET leaving == done \cap low
    IN  /\ ReplaceMaster(i, s)
        /\ bad \in (lowQuality \cap indexed) \ done
        /\ Promoted(done, low) \cap indexed = {}
        /\ RemapJoins(done, low, join)
        /\ masters' = masters \cup {s}
        /\ lowQuality' = (lowQuality \ (done \cup {bad})) \cup low
        /\ indexed' = (indexed \ (leaving \ lowQuality)) \cup (done \ low)
        /\ Reassign(leaving, join, {})
        /\ UNCHANGED <<faceCount, liveFaces, faceImage, imageFaces, indexFile, hiddenVars, idCount, pinned>>

(* Gallery::remove_image: the photo and all its faces are tombstoned.      *)
RemoveImage(i) ==
    LET gone == imageFaces[i]
    IN  /\ i \in liveImages
        /\ liveImages' = liveImages \ {i}
        /\ shaIndex' = [shaIndex EXCEPT ![imageSha[i]] = 0]
        /\ masters' = masters \ {imageSha[i]}
        /\ liveFaces' = liveFaces \ gone
        /\ imageFaces' = [imageFaces EXCEPT ![i] = {}]
        /\ indexed' = indexed \ gone
        /\ Reassign(gone, NoJoin, {})
        /\ UNCHANGED <<imageCount, imageSha, faceCount, lowQuality, faceImage, indexFile,
                       hiddenVars, idCount, pinned>>

-----------------------------------------------------------------------------
(* Curation by an operator *)

Incremented(n) == IF n = CountMax THEN 0 ELSE n + 1
Decremented(n) == IF n = 0 THEN CountMax ELSE n - 1

(* Mistake: the flag is set but the mirror is not.                         *)
HideFlagOnly(id) ==
    /\ id \in liveIds
    /\ hidden' = hidden \cup {id}
    /\ pinned' = pinned \cup {id}
    /\ hiddenCount' = IF id \in hidden THEN hiddenCount ELSE Incremented(hiddenCount)
    /\ UNCHANGED <<imageVars, faceVars, indexVars, assignVars, idCount, hiddenMask>>

(* Gallery::set_identity_hidden(id, true).                                 *)
Hide(id) ==
    /\ id \in liveIds
    /\ hidden' = hidden \cup {id}
    /\ pinned' = pinned \cup {id}
    /\ hiddenMask' = hiddenMask \cup {id}
    /\ hiddenCount' = IF id \in hidden THEN hiddenCount ELSE Incremented(hiddenCount)
    /\ UNCHANGED <<imageVars, faceVars, indexVars, assignVars, idCount>>

(* Gallery::set_identity_hidden(id, false).                                *)
Unhide(id) ==
    /\ id \in liveIds
    /\ hidden' = hidden \ {id}
    /\ hiddenMask' = hiddenMask \ {id}
    /\ hiddenCount' = IF id \in hidden THEN Decremented(hiddenCount) ELSE hiddenCount
    /\ UNCHANGED <<imageVars, faceVars, indexVars, assignVars, idCount, pinned>>

(* Gallery::merge_identities: the smallest id takes the members of all.    *)
Merge(ids, target) ==
    LET moved  == UNION {members[id] : id \in ids \ {target}}
        mem    == [id \in Id |-> IF id = target THEN members[id] \cup moved
                                 ELSE IF id \in ids THEN {} ELSE members[id]]
    IN  /\ ids \subseteq liveIds
        /\ \E id \in ids : id # target
        /\ \A id \in ids : target <= id
        /\ ref' = [r \in Row |-> IF r \in moved THEN target ELSE ref[r]]
        /\ Recompute(ids, mem)
        /\ pinned' = pinned \cup {target}
        /\ UNCHANGED <<imageVars, faceVars, indexVars, hiddenVars, idCount>>

(* Gallery::split_identity: some, not all, faces of id become a new pinned *)
(* identity, which starts unhidden whatever id was.                        *)
Split(id, moving) ==
    LET nid == idCount + 1
        mem == [members EXCEPT ![id] = @ \ moving, ![nid] = moving]
    IN  /\ id \in liveIds
        /\ idCount < MaxIds
        /\ moving # {}
        /\ \A r \in moving : r < faceCount /\ ref[r] = id
        /\ Cardinality(moving) < Cardinality(members[id])
        /\ idCount' = nid
        /\ ref' = [r \in Row |-> IF r \in moving THEN nid ELSE ref[r]]
        /\ Recompute({id, nid}, mem)
        /\ pinned' = pinned \cup {id, nid}
        /\ UNCHANGED <<imageVars, faceVars, indexVars, hiddenVars>>

(* Gallery::rename_identity; the name itself is not modelled.              *)
Rename(id) ==
    /\ id \in liveIds
    /\ pinned' = pinned \cup {id}
    /\ UNCHANGED <<imageVars, faceVars, indexVars, hiddenVars, assignVars, idCount>>

(* Gallery::dissolve_identity.                                             *)
Dissolve(id) ==
    /\ id \in liveIds
    /\ ref' = [r \in Row |-> IF r \in members[id] THEN 0 ELSE ref[r]]
    /\ Recompute({id}, [members EXCEPT ![id] = {}])
    /\ pinned' = pinned \ {id}
    /\ UNCHANGED <<imageVars, faceVars, indexVars, hiddenVars, idCount>>

(* Mistake: the target's index is checked, that it is still alive is not.  *)
AssignFaceUnchecked(r, id) ==
    /\ r \in Indexable
    /\ id \in 1 .. idCount
    /\ IF ref[r] = id THEN UNCHANGED assignVars ELSE Reassign({r}, [q \in {r} |-> id], {})
    /\ pinned' = pinned \cup {id}
    /\ UNCHANGED <<imageVars, faceVars, indexVars, hiddenVars, idCount>>

(* Gallery::assign_face(row, id).                                          *)
AssignFace(r, id) ==
    /\ r \in Indexable
    /\ id \in liveIds
    /\ IF ref[r] = id THEN UNCHANGED assignVars ELSE Reassign({r}, [q \in {r} |-> id], {})
    /\ pinned' = pinned \cup {id}
    /\ UNCHANGED <<imageVars, faceVars, indexVars, hiddenVars, idCount>>

(* Gallery::assign_face(row, -1).                                          *)
UnassignFace(r) ==
    /\ r \in Indexable
    /\ Reassign({r}, NoJoin, {})
    /\ UNCHANGED <<imageVars, faceVars, indexVars, hiddenVars, idCount, pinned>>

-----------------------------------------------------------------------------
(* Batch clustering *)

(* Mistake: the snapshot sees no pinned identity.                          *)
SnapshotWithoutPins == SnapshotOf(0 .. (faceCount - 1), Indexable, ref, {})

Snapshot == SnapshotOf(0 .. (faceCount - 1), Indexable, ref, pinned \cap liveIds)

(* The number of identity slots apply_labels_locked ends with: enough for  *)
(* the largest label.                                                      *)
SlotsFor(labels) ==
    {c \in idCount .. MaxIds :
        /\ \A r \in DOMAIN labels : labels[r] <= c
        /\ c = idCount \/ \E r \in DOMAIN labels : labels[r] = c}

(* Mistake: rows appended since the snapshot lose their identity.          *)
ApplyLabelsToAll(labels) ==
    \E count \in SlotsFor(labels) :
    LET newRef   == [r \in Row |-> IF r \in DOMAIN labels \cap liveFaces THEN labels[r] ELSE 0]
        mem      == [id \in Id |-> {r \in Indexable : newRef[r] = id}]
    IN  /\ idCount' = count
        /\ ref' = newRef
        /\ Recompute({id \in 1 .. count : mem[id] # {} \/ id \in liveIds \/ id > idCount}, mem)
        /\ UNCHANGED <<imageVars, faceVars, indexVars, hiddenVars, pinned>>

(* Mistake: an identity the labels leave empty is not recomputed.          *)
ApplyLabelsSkippingEmpty(labels) ==
    \E count \in SlotsFor(labels) :
    LET newRef   == [r \in Row |-> IF r \in DOMAIN labels \cap liveFaces THEN labels[r] ELSE ref[r]]
        mem      == [id \in Id |-> {r \in Indexable : newRef[r] = id}]
    IN  /\ idCount' = count
        /\ ref' = newRef
        /\ Recompute({id \in 1 .. count : mem[id] # {}}, mem)
        /\ UNCHANGED <<imageVars, faceVars, indexVars, hiddenVars, pinned>>

(* Mistake: faces tombstoned since the snapshot are relabelled and listed. *)
ApplyLabelsUnchecked(labels) ==
    \E count \in SlotsFor(labels) :
    LET newRef   == [r \in Row |-> IF r \in DOMAIN labels THEN labels[r] ELSE ref[r]]
        mem      == [id \in Id |-> {r \in Row : newRef[r] = id}]
    IN  /\ idCount' = count
        /\ ref' = newRef
        /\ Recompute({id \in 1 .. count : mem[id] # {} \/ id \in liveIds \/ id > idCount}, mem)
        /\ UNCHANGED <<imageVars, faceVars, indexVars, hiddenVars, pinned>>

(* apply_labels_locked: append identity slots up to the largest label,     *)
(* relabel every live snapshot row, rebuild the member lists from the refs *)
(* and recompute every identity that has members or is live.               *)
ApplyLabels(labels) ==
    \E count \in SlotsFor(labels) :
    LET newRef   == [r \in Row |-> IF r \in DOMAIN labels \cap liveFaces THEN labels[r] ELSE ref[r]]
        mem      == [id \in Id |-> {r \in Indexable : newRef[r] = id}]
        appended == (idCount + 1) .. count
    IN  /\ idCount' = count
        /\ ref' = newRef
        /\ Recompute({id \in 1 .. count : mem[id] # {} \/ id \in liveIds \cup appended}, mem)
        /\ UNCHANGED <<imageVars, faceVars, indexVars, hiddenVars, pinned>>

(* hvaxd --cluster, or any run of Gallery::recluster that no other handler *)
(* overlaps.                                                               *)
ClusterOnce ==
    \E root \in Groupings(Snapshot) :
        \E pos \in Orders(Snapshot, root), fid \in [Roots(root) -> Id] :
            /\ NamedBy(Snapshot, root, pos, idCount + 1, fid)
            /\ ApplyLabels(Labels(Snapshot, root, fid))

-----------------------------------------------------------------------------
(* Stopping and starting *)

Holders(s) == {i \in liveImages : imageSha[i] = s}

(* rebuild_maps and load_identity_state_locked, with low as the rows that  *)
(* carry kLowQuality: mirrors are rebuilt, dangling and gated refs         *)
(* repaired, identities whose stored size is wrong recomputed.             *)
Load(low) ==
    LET repaired == [r \in Row |-> IF r \in liveFaces /\ (r \in low \cup lowQuality \/ ref[r] \notin liveIds)
                                   THEN 0 ELSE ref[r]]
        mem      == [id \in Id |-> {r \in liveFaces : repaired[r] = id}]
    IN  /\ lowQuality' = low
        /\ ref' = repaired
        /\ Recompute({id \in liveIds : size[id] # Cardinality(mem[id])}, mem)
        /\ imageFaces' = [i \in ImageId |-> {r \in liveFaces : faceImage[r] = i}]
        /\ shaIndex' \in {f \in [Sha -> 0 .. MaxImages] : \A s \in Sha :
                IF Holders(s) = {} THEN f[s] = 0
                ELSE f[s] \in Holders(s) /\ \A i \in Holders(s) : i <= f[s]}
        /\ UNCHANGED <<imageCount, liveImages, imageSha, masters, faceCount, liveFaces,
                       faceImage, hidden, idCount, pinned>>

(* HnswIndex::save writes nothing when the index is empty.                 *)
Saved(keys, file) == IF keys = {} THEN file ELSE keys

(* Mistake: a clean stop does not save the HNSW.                           *)
RestartUnsaved ==
    /\ Load(lowQuality)
    /\ hiddenMask' = hidden \cap liveIds
    /\ hiddenCount' = Cardinality(hidden \cap liveIds)
    /\ indexed' = Saved(indexFile, Indexable)
    /\ indexFile' = Saved(indexFile, Indexable)

(* A clean stop (Gallery::flush) and the next start, which builds the HNSW *)
(* anew only if the file held no key.                                      *)
Restart ==
    LET file == Saved(indexed, indexFile)
    IN  /\ Load(lowQuality)
        /\ hiddenMask' = hidden \cap liveIds
        /\ hiddenCount' = Cardinality(hidden \cap liveIds)
        /\ indexed' = Saved(file, Indexable)
        /\ indexFile' = Saved(file, Indexable)

(* hvaxd --reindex from start to exit, then the next start: the gate is    *)
(* applied to every live face (low is its verdict), the HNSW rebuilt and   *)
(* saved.                                                                  *)
Reindex(low) ==
    LET file == Saved(liveFaces \ low, Saved(indexed, indexFile))
    IN  /\ low \cap liveFaces = low
        /\ Load(low \cup (lowQuality \ liveFaces))
        /\ hiddenMask' = hidden \cap liveIds'
        /\ hiddenCount' = Cardinality(hiddenMask')
        /\ indexed' = file
        /\ indexFile' = file

-----------------------------------------------------------------------------

(* The inputs an ingest can bring: bytes the gallery does not hold (the    *)
(* first test of persist_ingest), how many faces are appended, which of    *)
(* the faces fall below the gate, whom the others are close enough to.     *)
UnknownSha == {s \in Sha : shaIndex[s] = 0}

Appended(least) == {k \in least .. MaxNew : faceCount + k <= MaxFaces}

JoinChoices(rows, low) ==
    {[r \in rows |-> IF r \in low THEN 0 ELSE near[r]] : near \in [rows \ low -> liveIds \cup {0}]}

IngestStep ==
    \E s \in UnknownSha :
        \/ \E k \in Appended(1) : \E low \in SUBSET NewRows(k) :
              \E join \in JoinChoices(NewRows(k), low) : Insert(s, k, low, join)
        \/ \E i \in liveImages, k \in Appended(0) : \E kept \in SUBSET imageFaces[i] :
              \E low \in SUBSET (kept \cup NewRows(k)) :
                 \E join \in JoinChoices(kept \cup NewRows(k), low) : Upgrade(i, s, kept, k, low, join)
        \/ \E i \in liveImages : \E bad \in imageFaces[i] \cap lowQuality \cap indexed :
              \E done \in SUBSET (imageFaces[i] \ {bad}) : \E low \in SUBSET done :
                 \E join \in JoinChoices(done, low) : UpgradeThrows(i, s, done, bad, low, join)

RemoveStep == \E i \in ImageId : RemoveImage(i)

CurationStep ==
    \/ \E id \in Id : Hide(id) \/ Unhide(id) \/ Rename(id) \/ Dissolve(id)
    \/ \E ids \in SUBSET Id : \E target \in ids : Merge(ids, target)
    \/ \E id \in Id : \E moving \in SUBSET {r \in Row : ref[r] = id} : Split(id, moving)
    \/ \E r \in Row : UnassignFace(r) \/ \E id \in Id : AssignFace(r, id)

RestartStep == Restart \/ \E low \in SUBSET liveFaces : Reindex(low)

Next == IngestStep \/ RemoveStep \/ CurationStep \/ ClusterOnce \/ RestartStep

Spec == Init /\ [][Next]_vars
-----------------------------------------------------------------------------
(* Properties *)

(* A face row and the member lists tell the same story (identity_ref and   *)
(* members_): an identity lists exactly the indexable faces that refer to  *)
(* it, and no face refers to a tombstoned identity or is assigned while    *)
(* tombstoned or below the gate.                                           *)
MembershipMirrorsRefs ==
    /\ \A id \in Id : members[id] = {r \in Indexable : ref[r] = id}
    /\ \A r \in Row : ref[r] # 0 => r \in Indexable /\ ref[r] \in liveIds

(* An identity is live exactly while it has a face, and its stored size,   *)
(* which load_identity_state_locked trusts, is the number of its faces.    *)
IdentitiesMatchMembers ==
    \A id \in Id :
        /\ id \in liveIds <=> members[id] # {}
        /\ size[id] = Cardinality(members[id])
        /\ id \in liveIds => id <= idCount

(* A live photo is found by its hash and by no other, its master file is   *)
(* on disk, image_faces_ lists exactly its live faces, and no face         *)
(* outlives its photo.                                                     *)
PhotosConsistent ==
    /\ \A i \in liveImages : i <= imageCount /\ imageSha[i] \in masters /\ shaIndex[imageSha[i]] = i
    /\ \A s \in Sha : shaIndex[s] # 0 => shaIndex[s] \in liveImages /\ imageSha[shaIndex[s]] = s
    /\ \A i \in ImageId : imageFaces[i] = {r \in liveFaces : faceImage[r] = i}
    /\ \A r \in liveFaces : r < faceCount /\ faceImage[r] \in liveImages

(* Every face that passes the gate is in the HNSW, also after a clean stop *)
(* and start: a search above exact_until can reach it.                     *)
IndexCoversFaces == Indexable \subseteq indexed

(* row_hidden_locked, what every search, lookup and crop asks.             *)
RowHidden(r) == hiddenCount # 0 /\ ref[r] \in hiddenMask

(* The mirror searches consult agrees with the flag on disk: the faces of  *)
(* a hidden identity are suppressed, also those that joined it later, and  *)
(* no other face is.                                                       *)
HiddenFacesSuppressed ==
    \A r \in liveFaces : RowHidden(r) <=> ref[r] \in hidden \cap liveIds

(* Ingest, deletion, clustering, reindexing and restarts never move a face *)
(* out of a pinned identity while it stays indexable: only an operator     *)
(* does.                                                                   *)
AutomationKeepsPinnedFaces ==
    [][(\E r \in Indexable \cap Indexable' : ref[r] \in pinned /\ ref'[r] # ref[r])
          => CurationStep]_vars

(* The id of a dissolved or emptied identity never comes back to life for  *)
(* other faces.                                                            *)
DeadIdsStayDead ==
    [][\A id \in 1 .. idCount : id \notin liveIds => id \notin liveIds']_vars

-----------------------------------------------------------------------------
(* Refuted: what the documentation says and the code does not do *)

(* README: faces below the gate "are not added to the HNSW".  Refuted: an  *)
(* empty index is never saved, so reindexing under a gate no face passes   *)
(* leaves the old keys in index.usearch and the next start loads them.     *)
IndexedFacesPassGate == indexed \subseteq Indexable

Taken(id, x) == Cardinality(members[id] \cap members'[x])

(* README: "Existing identity ids are kept for the cluster that overlaps   *)
(* them most".  Refuted: groups choose in order of size, so a larger or    *)
(* equal group takes the id with fewer of its faces, and a new identity    *)
(* receives more of them than the old one keeps.                           *)
IdsFollowLargestOverlap ==
    [][ClusterOnce =>
          \A id \in (liveIds \cap liveIds') \ pinned :
              \A x \in Id \ liveIds : Taken(id, x) <= Taken(id, id)]_vars
=============================================================================
