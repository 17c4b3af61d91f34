--------------------------- MODULE GalleryProofs ---------------------------
(***************************************************************************)
(* Theorems about module Gallery, for every value of its constants: every  *)
(* variable keeps its type, the hash map, the master files and the face    *)
(* lists always agree with the slot files, the HNSW holds every face it    *)
(* should, and the photos are an implementation of PhotoStore; face rows,  *)
(* member lists and identities agree, and so do the rows of hidden people. *)
(***************************************************************************)
EXTENDS Gallery, FiniteSetTheorems, TLAPS

-----------------------------------------------------------------------------
(* Sizes of sets of rows and identities *)

(* Rows are finitely many, so a member list's length is a size.            *)
LEMMA RowsCounted ==
    ASSUME NEW R \in SUBSET Row
    PROVE  /\ IsFiniteSet(R)
           /\ Cardinality(R) \in 0 .. MaxFaces
<1>1. MaxFaces \in Nat
  BY BoundsAssumption
<1>2. IsFiniteSet(Row) /\ Cardinality(Row) <= MaxFaces
  BY <1>1, FS_Interval DEF Row
<1>3. IsFiniteSet(R) /\ Cardinality(R) <= Cardinality(Row)
  BY <1>2, FS_Subset
<1>4. Cardinality(R) \in Nat /\ Cardinality(Row) \in Nat
  BY <1>2, <1>3, FS_CardinalityType
<1> QED
  BY <1>1, <1>2, <1>3, <1>4

(* The same for identities.                                                *)
LEMMA IdsCounted ==
    ASSUME NEW I \in SUBSET Id
    PROVE  /\ IsFiniteSet(I)
           /\ Cardinality(I) \in 0 .. MaxIds
<1>1. MaxIds \in Nat
  BY BoundsAssumption
<1>2. IsFiniteSet(Id) /\ Cardinality(Id) <= MaxIds
  BY <1>1, FS_Interval DEF Id
<1>3. IsFiniteSet(I) /\ Cardinality(I) <= Cardinality(Id)
  BY <1>2, FS_Subset
<1>4. Cardinality(I) \in Nat /\ Cardinality(Id) \in Nat
  BY <1>2, <1>3, FS_CardinalityType
<1> QED
  BY <1>1, <1>2, <1>3, <1>4

-----------------------------------------------------------------------------
(* Types of the handlers' helpers *)

(* A choice of identities to join is a function into the live identities,  *)
(* and a face below the gate joins none.                                   *)
LEMMA JoinChoiceType ==
    ASSUME NEW rows, NEW low, NEW join \in JoinChoices(rows, low)
    PROVE  /\ join \in [rows -> liveIds \cup {0}]
           /\ \A r \in rows \cap low : join[r] = 0
BY DEF JoinChoices

LEMMA NewRowsType ==
    ASSUME TypeOK, NEW k \in Nat, faceCount + k <= MaxFaces
    PROVE  NewRows(k) \in SUBSET Row
BY BoundsAssumption DEF TypeOK, NewRows, Row

LEMMA RecomputeType ==
    ASSUME TypeOK, NEW touched \in SUBSET Id, NEW mem \in [Id -> SUBSET Row],
           Recompute(touched, mem)
    PROVE  /\ liveIds' \in SUBSET Id
           /\ members' \in [Id -> SUBSET Row]
           /\ size' \in [Id -> 0 .. MaxFaces]
<1>1. \A id \in Id : Cardinality(mem[id]) \in 0 .. MaxFaces
  BY RowsCounted
<1>2. \A id \in Id : size[id] \in 0 .. MaxFaces
  BY DEF TypeOK
<1>3. size' = [id \in Id |-> IF id \in touched THEN Cardinality(mem[id]) ELSE size[id]]
  BY DEF Recompute
<1>4. size' \in [Id -> 0 .. MaxFaces]
  BY <1>1, <1>2, <1>3
<1> QED
  BY <1>4 DEF Recompute, TypeOK

LEMMA ReassignType ==
    ASSUME TypeOK, NEW out \in SUBSET Row, NEW rows \in SUBSET Row,
           NEW joined \in [rows -> 0 .. MaxIds], NEW refreshed \in SUBSET Id,
           Reassign(out, joined, refreshed)
    PROVE  /\ ref' \in [Row -> 0 .. MaxIds]
           /\ liveIds' \in SUBSET Id
           /\ members' \in [Id -> SUBSET Row]
           /\ size' \in [Id -> 0 .. MaxFaces]
           /\ Touched(out, joined) \cup refreshed \in SUBSET Id
           /\ MembersAfter(out, joined) \in [Id -> SUBSET Row]
<1>1. MaxIds \in Nat
  BY BoundsAssumption
<1>2. ref' \in [Row -> 0 .. MaxIds]
  BY <1>1 DEF TypeOK, Reassign, RefsAfter
<1>3. Touched(out, joined) \cup refreshed \in SUBSET Id
  BY <1>1 DEF TypeOK, Touched, Id
<1>4. MembersAfter(out, joined) \in [Id -> SUBSET Row]
  BY DEF TypeOK, MembersAfter
<1>5. Recompute(Touched(out, joined) \cup refreshed, MembersAfter(out, joined))
  BY DEF Reassign
<1> QED
  BY <1>2, <1>3, <1>4, <1>5, RecomputeType

-----------------------------------------------------------------------------
(* What a clustering decides, from whatever snapshot *)

LEMMA AtMostOne ==
    ASSUME NEW S, IsFiniteSet(S), Cardinality(S) <= 1, NEW x \in S, NEW y \in S
    PROVE  x = y
<1>1. Cardinality(S) = 0 \/ Cardinality(S) = 1
  BY FS_CardinalityType
<1> QED
  BY <1>1, FS_EmptySet, FS_Singleton

(* Every row of the snapshot gets a label: none, or the id of its group.   *)
LEMMA LabelsType ==
    ASSUME NEW snap, NEW root \in Groupings(snap), NEW fid \in [Roots(root) -> Id]
    PROVE  /\ Labels(snap, root, fid) \in [snap.rows -> 0 .. MaxIds]
           /\ \A r \in snap.rows : Labels(snap, root, fid)[r] # 0 =>
                 /\ r \in snap.eligible /\ root[r] \in Roots(root)
                 /\ Labels(snap, root, fid)[r] = fid[root[r]]
<1>1. \A r \in snap.eligible : root[r] \in Roots(root)
  BY DEF Groupings, Roots
<1>2. \A r \in snap.eligible : fid[root[r]] \in 0 .. MaxIds
  BY <1>1, BoundsAssumption DEF Id
<1>3. 0 \in 0 .. MaxIds
  BY BoundsAssumption
<1> QED
  BY <1>1, <1>2, <1>3 DEF Labels

(* The ids a clustering gives: one that faces of the group had when the    *)
(* snapshot was taken, or a number not handed out when it was named.       *)
LEMMA NamesAreRefsOrFresh ==
    ASSUME NEW snap, snap.eligible \subseteq Row, NEW next \in Nat,
           NEW root \in Groupings(snap), NEW pos \in Orders(snap, root),
           NEW fid \in [Roots(root) -> Id], NamedBy(snap, root, pos, next, fid),
           NEW c \in Roots(root)
    PROVE  \/ \E r \in snap.eligible : root[r] = c /\ fid[c] = snap.ref[r]
           \/ fid[c] >= next
<1>1. root \in [snap.eligible -> snap.eligible]
  BY DEF Groupings
<1>2. Group(root, c) = {r \in snap.eligible : root[r] = c}
  BY <1>1 DEF Group
<1> DEFINE pinnedRefs == PinnedOf(snap, root, c)
           earlier    == {d \in DOMAIN pos : pos[d] < pos[c]}
           claimed    == {fid[d] : d \in (Roots(root) \ DOMAIN pos) \cup earlier}
           wanted     == {snap.ref[r] : r \in Group(root, c)} \ ({0} \cup claimed)
           fresh      == {d \in earlier : fid[d] >= next}
<1>3. IF pinnedRefs # {} THEN fid[c] \in pinnedRefs
      ELSE IF wanted = {} THEN fid[c] = next + Cardinality(fresh)
      ELSE fid[c] \in wanted
  BY DEF NamedBy
<1>4. fid[c] \in pinnedRefs \/ fid[c] \in wanted
        => \E r \in snap.eligible : root[r] = c /\ fid[c] = snap.ref[r]
  BY <1>2 DEF PinnedOf
<1>5. Cardinality(fresh) \in Nat
  <2>1. DOMAIN pos \subseteq Row
    BY <1>1 DEF Orders, Roots
  <2>2. fresh \in SUBSET Row
    BY <2>1
  <2> HIDE DEF fresh
  <2> QED
    BY <2>2, RowsCounted, BoundsAssumption
<1> HIDE DEF pinnedRefs, wanted, fresh
<1> QED
  BY <1>3, <1>4, <1>5

(* All rows of a group with a pinned identity get that identity's label:   *)
(* a group carries one at most, and is not dropped for being small.        *)
LEMMA PinnedGroupsKeepTheirId ==
    ASSUME NEW snap, snap.pinned \in SUBSET Id,
           NEW root \in Groupings(snap), NEW pos, NEW next,
           NEW fid \in [Roots(root) -> Id], NamedBy(snap, root, pos, next, fid),
           NEW r \in snap.eligible \cap snap.rows, snap.ref[r] \in snap.pinned
    PROVE  Labels(snap, root, fid)[r] = snap.ref[r]
<1> DEFINE c    == root[r]
           kept == PinnedOf(snap, root, c)
<1>1. c \in Roots(root) /\ Cardinality(kept) <= 1
  BY DEF Groupings, Roots
<1>2. snap.ref[r] \in kept
  BY DEF PinnedOf, Group, Groupings
<1>3. IsFiniteSet(kept)
  <2>1. kept \in SUBSET Id
    BY DEF PinnedOf
  <2> QED
    BY <2>1, IdsCounted
<1>4. fid[c] \in kept
  <2> HIDE DEF c
  <2> QED
    BY <1>1, <1>2 DEF NamedBy
<1>5. fid[c] = snap.ref[r]
  <2> HIDE DEF c, kept
  <2> QED
    BY <1>1, <1>2, <1>3, <1>4, AtMostOne
<1> QED
  BY <1>2, <1>5 DEF Labels, Dropped

-----------------------------------------------------------------------------
(* Type correctness *)

LEMMA CardinalitiesFit ==
    ASSUME TypeOK
    PROVE  /\ Incremented(hiddenCount) \in 0 .. CountMax
           /\ Decremented(hiddenCount) \in 0 .. CountMax
BY BoundsAssumption DEF TypeOK, Incremented, Decremented

(* insert and both ends of upgrade.                                        *)
LEMMA IngestKeepsType == TypeOK /\ IngestStep => TypeOK'
<1> SUFFICES ASSUME TypeOK, IngestStep PROVE TypeOK'
  OBVIOUS
<1>0. MaxIds \in Nat /\ MaxImages \in Nat /\ liveIds \cup {0} \subseteq 0 .. MaxIds
  BY BoundsAssumption DEF TypeOK, Id
<1>1. ASSUME NEW s \in UnknownSha, NEW k \in Appended(1), NEW low \in SUBSET NewRows(k),
             NEW join \in JoinChoices(NewRows(k), low), Insert(s, k, low, join)
      PROVE  TypeOK'
  <2>1. k \in Nat /\ faceCount + k <= MaxFaces /\ s \in Sha
    BY BoundsAssumption DEF Appended, UnknownSha
  <2>2. NewRows(k) \in SUBSET Row
    BY <2>1, NewRowsType
  <2>3. join \in [NewRows(k) -> 0 .. MaxIds]
    BY <1>0, JoinChoiceType
  <2>4. Reassign({}, join, {})
    BY <1>1 DEF Insert
  <2>5. /\ ref' \in [Row -> 0 .. MaxIds] /\ liveIds' \in SUBSET Id
        /\ members' \in [Id -> SUBSET Row] /\ size' \in [Id -> 0 .. MaxFaces]
    BY <2>2, <2>3, <2>4, ReassignType
  <2>6. imageCount + 1 \in ImageId /\ imageCount + 1 \in 0 .. MaxImages
    BY <1>0, <1>1 DEF Insert, TypeOK, ImageId
  <2>7. faceCount' \in 0 .. MaxFaces /\ faceImage' \in [Row -> 0 .. MaxImages]
    BY <1>1, <2>1, <2>6, BoundsAssumption DEF Insert, AppendFaces, TypeOK
  <2>8. /\ imageCount' \in 0 .. MaxImages /\ liveImages' \in SUBSET ImageId
        /\ imageSha' \in [ImageId -> Sha \cup {NoSha}] /\ shaIndex' \in [Sha -> 0 .. MaxImages]
        /\ masters' \in SUBSET Sha
    BY <1>1, <2>1, <2>6 DEF Insert, TypeOK
  <2>9. /\ liveFaces' \in SUBSET Row /\ lowQuality' \in SUBSET Row
        /\ imageFaces' \in [ImageId -> SUBSET Row] /\ indexed' \in SUBSET Row
    BY <1>1, <2>2, <2>6 DEF Insert, TypeOK
  <2> QED
    BY <1>1, <2>5, <2>7, <2>8, <2>9 DEF Insert, TypeOK, hiddenVars
<1>2. ASSUME NEW s \in UnknownSha, NEW i \in liveImages, NEW k \in Appended(0),
             NEW kept \in SUBSET imageFaces[i], NEW low \in SUBSET (kept \cup NewRows(k)),
             NEW join \in JoinChoices(kept \cup NewRows(k), low),
             Upgrade(i, s, kept, k, low, join)
      PROVE  TypeOK'
  <2>1. k \in Nat /\ faceCount + k <= MaxFaces /\ s \in Sha /\ i \in ImageId /\ i \in 0 .. MaxImages
    BY BoundsAssumption DEF Appended, UnknownSha, TypeOK, ImageId
  <2>2. NewRows(k) \in SUBSET Row /\ imageFaces[i] \in SUBSET Row
    BY <2>1, NewRowsType DEF TypeOK
  <2>3. join \in [kept \cup NewRows(k) -> 0 .. MaxIds]
    BY <1>0, JoinChoiceType
  <2> DEFINE out == (kept \cap low) \cup (imageFaces[i] \ kept)
             staying == {ref[r] : r \in kept \ low} \ {0}
  <2>4. Reassign(out, join, staying)
    BY <1>2 DEF Upgrade
  <2>5. staying \in SUBSET Id
    BY <1>0, <2>2 DEF TypeOK, Id
  <2> HIDE DEF staying
  <2>6. /\ ref' \in [Row -> 0 .. MaxIds] /\ liveIds' \in SUBSET Id
        /\ members' \in [Id -> SUBSET Row] /\ size' \in [Id -> 0 .. MaxFaces]
    BY <2>2, <2>3, <2>4, <2>5, ReassignType
  <2>7. faceCount' \in 0 .. MaxFaces /\ faceImage' \in [Row -> 0 .. MaxImages]
    BY <1>2, <2>1, BoundsAssumption DEF Upgrade, AppendFaces, TypeOK
  <2>8. /\ imageCount' \in 0 .. MaxImages /\ liveImages' \in SUBSET ImageId
        /\ imageSha' \in [ImageId -> Sha \cup {NoSha}] /\ shaIndex' \in [Sha -> 0 .. MaxImages]
        /\ masters' \in SUBSET Sha
    BY <1>0, <1>2, <2>1 DEF Upgrade, ReplaceMaster, TypeOK
  <2>9. /\ liveFaces' \in SUBSET Row /\ lowQuality' \in SUBSET Row
        /\ imageFaces' \in [ImageId -> SUBSET Row] /\ indexed' \in SUBSET Row
    BY <1>2, <2>1, <2>2 DEF Upgrade, TypeOK
  <2> QED
    BY <1>2, <2>6, <2>7, <2>8, <2>9 DEF Upgrade, TypeOK, hiddenVars
<1>3. ASSUME NEW s \in UnknownSha, NEW i \in liveImages,
             NEW bad \in imageFaces[i] \cap lowQuality \cap indexed,
             NEW done \in SUBSET (imageFaces[i] \ {bad}), NEW low \in SUBSET done,
             NEW join \in JoinChoices(done, low),
             UpgradeThrows(i, s, done, bad, low, join)
      PROVE  TypeOK'
  <2>1. s \in Sha /\ i \in ImageId /\ i \in 0 .. MaxImages
    BY BoundsAssumption DEF UnknownSha, TypeOK, ImageId
  <2>2. done \in SUBSET Row /\ low \in SUBSET Row
    BY <2>1 DEF TypeOK
  <2>3. join \in [done -> 0 .. MaxIds]
    BY <1>0, JoinChoiceType
  <2>4. Reassign(done \cap low, join, {})
    BY <1>3 DEF UpgradeThrows
  <2>5. /\ ref' \in [Row -> 0 .. MaxIds] /\ liveIds' \in SUBSET Id
        /\ members' \in [Id -> SUBSET Row] /\ size' \in [Id -> 0 .. MaxFaces]
    BY <2>2, <2>3, <2>4, ReassignType
  <2>6. /\ imageCount' \in 0 .. MaxImages /\ liveImages' \in SUBSET ImageId
        /\ imageSha' \in [ImageId -> Sha \cup {NoSha}] /\ shaIndex' \in [Sha -> 0 .. MaxImages]
        /\ masters' \in SUBSET Sha
    BY <1>0, <1>3, <2>1 DEF UpgradeThrows, ReplaceMaster, TypeOK
  <2>7. lowQuality' \in SUBSET Row /\ indexed' \in SUBSET Row
    BY <1>3, <2>2 DEF UpgradeThrows, TypeOK
  <2> QED
    BY <1>3, <2>5, <2>6, <2>7 DEF UpgradeThrows, TypeOK, hiddenVars
<1> QED
  BY <1>1, <1>2, <1>3 DEF IngestStep

LEMMA RemoveKeepsType == TypeOK /\ RemoveStep => TypeOK'
<1> SUFFICES ASSUME TypeOK, NEW i \in ImageId, RemoveImage(i) PROVE TypeOK'
  BY DEF RemoveStep
<1>1. imageFaces[i] \in SUBSET Row
  BY DEF TypeOK
<1>2. NoJoin \in [{} -> 0 .. MaxIds]
  BY DEF NoJoin
<1>3. Reassign(imageFaces[i], NoJoin, {})
  BY DEF RemoveImage
<1>4. /\ ref' \in [Row -> 0 .. MaxIds] /\ liveIds' \in SUBSET Id
      /\ members' \in [Id -> SUBSET Row] /\ size' \in [Id -> 0 .. MaxFaces]
  BY <1>1, <1>2, <1>3, ReassignType
<1>5. MaxImages \in Nat
  BY BoundsAssumption
<1>6. shaIndex' \in [Sha -> 0 .. MaxImages]
  <2>1. shaIndex' = [shaIndex EXCEPT ![imageSha[i]] = 0] /\ 0 \in 0 .. MaxImages
    BY <1>5 DEF RemoveImage
  <2>2. shaIndex \in [Sha -> 0 .. MaxImages]
    BY DEF TypeOK
  <2> QED
    BY <2>1, <2>2
<1> QED
  BY <1>1, <1>4, <1>6 DEF RemoveImage, TypeOK, hiddenVars

LEMMA CurationKeepsType == TypeOK /\ CurationStep => TypeOK'
<1> SUFFICES ASSUME TypeOK, CurationStep PROVE TypeOK'
  OBVIOUS
<1>1. ASSUME NEW id \in Id, Hide(id) \/ Unhide(id) \/ Rename(id)
      PROVE  TypeOK'
  <2>1. hiddenCount' \in 0 .. CountMax
    BY <1>1, CardinalitiesFit DEF Hide, Unhide, Rename, TypeOK, hiddenVars
  <2>2. hidden' \in SUBSET Id /\ hiddenMask' \in SUBSET Id /\ pinned' \in SUBSET Id
    BY <1>1 DEF Hide, Unhide, Rename, TypeOK, hiddenVars
  <2>3. UNCHANGED <<imageVars, faceVars, indexVars, assignVars, idCount>>
    BY <1>1 DEF Hide, Unhide, Rename
  <2> QED
    BY <2>1, <2>2, <2>3 DEF TypeOK, imageVars, faceVars, indexVars, assignVars
<1>2. ASSUME NEW id \in Id, Dissolve(id)
      PROVE  TypeOK'
  <2>1. Recompute({id}, [members EXCEPT ![id] = {}])
    BY <1>2 DEF Dissolve
  <2>2. [members EXCEPT ![id] = {}] \in [Id -> SUBSET Row]
    BY DEF TypeOK
  <2>3. /\ liveIds' \in SUBSET Id /\ members' \in [Id -> SUBSET Row]
        /\ size' \in [Id -> 0 .. MaxFaces]
    BY <2>1, <2>2, RecomputeType
  <2>4. ref' \in [Row -> 0 .. MaxIds] /\ pinned' \in SUBSET Id
    BY <1>2, BoundsAssumption DEF Dissolve, TypeOK
  <2> QED
    BY <1>2, <2>3, <2>4 DEF Dissolve, TypeOK, imageVars, faceVars, indexVars, hiddenVars
<1>3. ASSUME NEW ids \in SUBSET Id, NEW target \in ids, Merge(ids, target)
      PROVE  TypeOK'
  <2> DEFINE moved == UNION {members[id] : id \in ids \ {target}}
             mem   == [id \in Id |-> IF id = target THEN members[id] \cup moved
                                     ELSE IF id \in ids THEN {} ELSE members[id]]
  <2>1. moved \in SUBSET Row
    BY DEF TypeOK
  <2>2. mem \in [Id -> SUBSET Row]
    <3> HIDE DEF moved
    <3> QED
      BY <2>1 DEF TypeOK
  <2>3. Recompute(ids, mem)
    BY <1>3 DEF Merge
  <2>4. /\ liveIds' \in SUBSET Id /\ members' \in [Id -> SUBSET Row]
        /\ size' \in [Id -> 0 .. MaxFaces]
    <3> HIDE DEF mem
    <3> QED
      BY <2>2, <2>3, RecomputeType
  <2>5. ref' = [r \in Row |-> IF r \in moved THEN target ELSE ref[r]]
    BY <1>3 DEF Merge
  <2>6. target \in 0 .. MaxIds
    BY BoundsAssumption DEF Id
  <2>7. ref' \in [Row -> 0 .. MaxIds]
    BY <2>5, <2>6 DEF TypeOK
  <2>8. pinned' \in SUBSET Id
    BY <1>3 DEF Merge, TypeOK
  <2> QED
    BY <1>3, <2>4, <2>7, <2>8 DEF Merge, TypeOK, imageVars, faceVars, indexVars, hiddenVars
<1>4. ASSUME NEW id \in Id, NEW moving \in SUBSET {r \in Row : ref[r] = id}, Split(id, moving)
      PROVE  TypeOK'
  <2> DEFINE nid == idCount + 1
             mem == [members EXCEPT ![id] = @ \ moving, ![nid] = moving]
  <2>1. nid \in Id /\ nid \in 0 .. MaxIds
    BY <1>4, BoundsAssumption DEF Split, TypeOK, Id
  <2>2. mem \in [Id -> SUBSET Row]
    BY <2>1 DEF TypeOK
  <2>3. Recompute({id, nid}, mem)
    BY <1>4 DEF Split
  <2>4. /\ liveIds' \in SUBSET Id /\ members' \in [Id -> SUBSET Row]
        /\ size' \in [Id -> 0 .. MaxFaces]
    <3> HIDE DEF mem
    <3> QED
      BY <2>1, <2>2, <2>3, RecomputeType
  <2>5. ref' \in [Row -> 0 .. MaxIds] /\ pinned' \in SUBSET Id /\ idCount' \in 0 .. MaxIds
    BY <1>4, <2>1 DEF Split, TypeOK
  <2> QED
    BY <1>4, <2>4, <2>5 DEF Split, TypeOK, imageVars, faceVars, indexVars, hiddenVars
<1>5. ASSUME NEW r \in Row, UnassignFace(r)
      PROVE  TypeOK'
  <2>1. Reassign({r}, NoJoin, {}) /\ NoJoin \in [{} -> 0 .. MaxIds]
    BY <1>5 DEF UnassignFace, NoJoin
  <2>2. /\ ref' \in [Row -> 0 .. MaxIds] /\ liveIds' \in SUBSET Id
        /\ members' \in [Id -> SUBSET Row] /\ size' \in [Id -> 0 .. MaxFaces]
    BY <2>1, ReassignType
  <2> QED
    BY <1>5, <2>2 DEF UnassignFace, TypeOK, imageVars, faceVars, indexVars, hiddenVars
<1>6. ASSUME NEW r \in Row, NEW id \in Id, AssignFace(r, id)
      PROVE  TypeOK'
  <2>1. [q \in {r} |-> id] \in [{r} -> 0 .. MaxIds]
    BY BoundsAssumption DEF Id
  <2>2. ASSUME Reassign({r}, [q \in {r} |-> id], {})
        PROVE  /\ ref' \in [Row -> 0 .. MaxIds] /\ liveIds' \in SUBSET Id
               /\ members' \in [Id -> SUBSET Row] /\ size' \in [Id -> 0 .. MaxFaces]
    BY <2>1, <2>2, ReassignType
  <2>3. /\ ref' \in [Row -> 0 .. MaxIds] /\ liveIds' \in SUBSET Id
        /\ members' \in [Id -> SUBSET Row] /\ size' \in [Id -> 0 .. MaxFaces]
    BY <1>6, <2>2 DEF AssignFace, TypeOK, assignVars
  <2>4. pinned' \in SUBSET Id
    BY <1>6 DEF AssignFace, TypeOK
  <2> QED
    BY <1>6, <2>3, <2>4 DEF AssignFace, TypeOK, imageVars, faceVars, indexVars, hiddenVars
<1> QED
  BY <1>1, <1>2, <1>3, <1>4, <1>5, <1>6 DEF CurationStep

LEMMA ApplyKeepsType ==
    ASSUME TypeOK, NEW rows \in SUBSET Row, NEW labels \in [rows -> 0 .. MaxIds],
           ApplyLabels(labels)
    PROVE  TypeOK'
<1>1. PICK count \in SlotsFor(labels) :
        LET newRef   == [r \in Row |-> IF r \in DOMAIN labels \cap liveFaces THEN labels[r] ELSE ref[r]]
            mem      == [id \in Id |-> {r \in Indexable : newRef[r] = id}]
            appended == (idCount + 1) .. count
        IN  /\ idCount' = count
            /\ ref' = newRef
            /\ Recompute({id \in 1 .. count : mem[id] # {} \/ id \in liveIds \cup appended}, mem)
            /\ UNCHANGED <<imageVars, faceVars, indexVars, hiddenVars, pinned>>
  BY DEF ApplyLabels
<1>2. count \in 0 .. MaxIds
  BY BoundsAssumption DEF SlotsFor, TypeOK
<1> DEFINE mem     == [id \in Id |-> {r \in Indexable : ref'[r] = id}]
           touched == {id \in 1 .. count : mem[id] # {} \/ id \in liveIds \cup ((idCount + 1) .. count)}
<1>3. Recompute(touched, mem)
  BY <1>1
<1>4. touched \in SUBSET Id
  BY <1>2, BoundsAssumption DEF Id
<1>5. mem \in [Id -> SUBSET Row]
  BY DEF Indexable, TypeOK
<1>6. /\ liveIds' \in SUBSET Id /\ members' \in [Id -> SUBSET Row]
      /\ size' \in [Id -> 0 .. MaxFaces]
  <2> HIDE DEF mem, touched
  <2> QED
    BY <1>3, <1>4, <1>5, RecomputeType
<1>7. ref' \in [Row -> 0 .. MaxIds]
  BY <1>1 DEF TypeOK
<1> QED
  BY <1>1, <1>2, <1>6, <1>7 DEF TypeOK, imageVars, faceVars, indexVars, hiddenVars

(* The rows of a snapshot taken now are those that exist.                  *)
LEMMA SnapshotRows ==
    ASSUME TypeOK
    PROVE  /\ Snapshot.rows = 0 .. (faceCount - 1) /\ Snapshot.rows \in SUBSET Row
           /\ Snapshot.eligible = Indexable /\ Snapshot.eligible \subseteq Row
           /\ Snapshot.ref = ref
           /\ Snapshot.pinned = pinned \cap liveIds /\ Snapshot.pinned \in SUBSET Id
BY BoundsAssumption DEF Snapshot, SnapshotOf, TypeOK, Row, Indexable

LEMMA ClusterKeepsType == TypeOK /\ ClusterOnce => TypeOK'
<1> SUFFICES ASSUME TypeOK, NEW root \in Groupings(Snapshot), NEW fid \in [Roots(root) -> Id],
                    ApplyLabels(Labels(Snapshot, root, fid))
             PROVE  TypeOK'
  BY DEF ClusterOnce
<1>1. Labels(Snapshot, root, fid) \in [Snapshot.rows -> 0 .. MaxIds]
  BY LabelsType
<1> QED
  BY <1>1, SnapshotRows, ApplyKeepsType

LEMMA RestartKeepsType == TypeOK /\ RestartStep => TypeOK'
<1> SUFFICES ASSUME TypeOK, RestartStep PROVE TypeOK'
  OBVIOUS
<1>1. ASSUME NEW low \in SUBSET Row, Load(low)
      PROVE  /\ lowQuality' \in SUBSET Row /\ ref' \in [Row -> 0 .. MaxIds]
             /\ liveIds' \in SUBSET Id /\ members' \in [Id -> SUBSET Row]
             /\ size' \in [Id -> 0 .. MaxFaces]
             /\ imageFaces' \in [ImageId -> SUBSET Row] /\ shaIndex' \in [Sha -> 0 .. MaxImages]
             /\ UNCHANGED <<imageCount, liveImages, imageSha, masters, faceCount, liveFaces,
                            faceImage, hidden, idCount, pinned>>
  <2> DEFINE mem     == [id \in Id |-> {r \in liveFaces : ref'[r] = id}]
             touched == {id \in liveIds : size[id] # Cardinality(mem[id])}
  <2>1. Recompute(touched, mem)
    BY <1>1 DEF Load
  <2>2. mem \in [Id -> SUBSET Row] /\ touched \in SUBSET Id
    BY DEF TypeOK
  <2>3. /\ liveIds' \in SUBSET Id /\ members' \in [Id -> SUBSET Row]
        /\ size' \in [Id -> 0 .. MaxFaces]
    <3> HIDE DEF mem, touched
    <3> QED
      BY <2>1, <2>2, RecomputeType
  <2>4. ref' \in [Row -> 0 .. MaxIds]
    BY <1>1, BoundsAssumption DEF Load, TypeOK
  <2> QED
    BY <1>1, <2>3, <2>4 DEF Load, TypeOK
<1>2. \A I \in SUBSET Id : Cardinality(I) \in 0 .. CountMax
  BY IdsCounted, BoundsAssumption
<1>3. CASE Restart
  <2>1. Load(lowQuality) /\ lowQuality \in SUBSET Row
    BY <1>3 DEF Restart, TypeOK
  <2>2. hiddenMask' \in SUBSET Id /\ hiddenCount' \in 0 .. CountMax
    BY <1>2, <1>3 DEF Restart, TypeOK
  <2>3. indexed' \in SUBSET Row /\ indexFile' \in SUBSET Row
    BY <1>3 DEF Restart, Saved, Indexable, TypeOK
  <2> QED
    BY <1>1, <2>1, <2>2, <2>3 DEF TypeOK
<1>4. ASSUME NEW low \in SUBSET liveFaces, Reindex(low)
      PROVE  TypeOK'
  <2> DEFINE gated == low \cup (lowQuality \ liveFaces)
  <2>1. Load(gated) /\ gated \in SUBSET Row
    BY <1>4 DEF Reindex, TypeOK
  <2>2. hiddenMask' \in SUBSET Id
    BY <1>4 DEF Reindex, TypeOK
  <2>3. hiddenCount' \in 0 .. CountMax
    BY <1>2, <1>4, <2>2 DEF Reindex
  <2>4. indexed' \in SUBSET Row /\ indexFile' \in SUBSET Row
    BY <1>4 DEF Reindex, Saved, TypeOK
  <2> HIDE DEF gated
  <2> QED
    BY <1>1, <2>1, <2>2, <2>3, <2>4 DEF TypeOK
<1> QED
  BY <1>3, <1>4 DEF RestartStep

(* Every variable keeps its type, whatever the handlers do in whatever     *)
(* order: counts stay within their bounds, rows and ids point into their   *)
(* files, hidden_count_ fits.                                              *)
THEOREM TypeCorrect == Spec => []TypeOK
<1>1. Init => TypeOK
  BY BoundsAssumption DEF Init, TypeOK
<1>2. TypeOK /\ [Next]_vars => TypeOK'
  <2> SUFFICES ASSUME TypeOK, [Next]_vars PROVE TypeOK'
    OBVIOUS
  <2>1. CASE Next
    BY <2>1, IngestKeepsType, RemoveKeepsType, CurationKeepsType, ClusterKeepsType,
       RestartKeepsType DEF Next
  <2>2. CASE UNCHANGED vars
    BY <2>2 DEF TypeOK, vars, imageVars, faceVars, indexVars, hiddenVars, assignVars
  <2> QED
    BY <2>1, <2>2
<1> QED
  BY <1>1, <1>2, PTL DEF Spec

-----------------------------------------------------------------------------
(* The photos.  The inductive invariant adds to PhotosConsistent that only *)
(* slots already appended carry the low-quality flag, so that a face       *)
(* appended later does not inherit it.                                     *)

PhotosInv ==
    /\ TypeOK
    /\ PhotosConsistent
    /\ \A r \in lowQuality : r < faceCount

(* Appending rows disturbs no row that exists.                             *)
LEMMA NewRowsAreFresh ==
    ASSUME PhotosInv, NEW k \in Nat, faceCount + k <= MaxFaces
    PROVE  /\ NewRows(k) \cap (liveFaces \cup lowQuality) = {}
           /\ \A r \in NewRows(k) : r < faceCount + k
           /\ NewRows(k) \in SUBSET Row
<1>1. NewRows(k) \in SUBSET Row
  BY NewRowsType DEF PhotosInv
<1>2. \A r \in NewRows(k) : r \in Nat /\ faceCount <= r /\ r < faceCount + k
  BY DEF PhotosInv, TypeOK, NewRows
<1>3. \A r \in liveFaces \cup lowQuality : r \in Nat /\ r < faceCount
  BY BoundsAssumption DEF PhotosInv, PhotosConsistent, TypeOK, Row
<1>4. faceCount \in Nat
  BY DEF PhotosInv, TypeOK
<1> QED
  BY <1>1, <1>2, <1>3, <1>4

(* The hash of a live photo is a real one, and the photo is in the map.    *)
LEMMA LiveShaIsKnown ==
    ASSUME PhotosInv, NEW i \in liveImages
    PROVE  i \in ImageId /\ i # 0 /\ imageSha[i] \in Sha /\ shaIndex[imageSha[i]] = i
BY BoundsAssumption DEF PhotosInv, PhotosConsistent, TypeOK, ImageId

LEMMA InsertKeepsPhotos ==
    ASSUME PhotosInv, NEW s \in UnknownSha, NEW k \in Appended(1), NEW low \in SUBSET NewRows(k),
           NEW join, Insert(s, k, low, join)
    PROVE  PhotosConsistent' /\ \A r \in lowQuality' : r < faceCount'
<1> DEFINE i == imageCount + 1
<1>1. k \in Nat /\ faceCount + k <= MaxFaces /\ s \in Sha /\ shaIndex[s] = 0
  BY BoundsAssumption DEF Appended, UnknownSha
<1>2. i \in ImageId /\ i # 0 /\ i \notin liveImages
  BY BoundsAssumption DEF PhotosInv, PhotosConsistent, TypeOK, Insert, ImageId
<1>3. /\ imageSha' = [imageSha EXCEPT ![i] = s] /\ shaIndex' = [shaIndex EXCEPT ![s] = i]
      /\ imageCount' = i /\ masters' = masters \cup {s} /\ liveImages' = liveImages \cup {i}
      /\ imageFaces' = [imageFaces EXCEPT ![i] = NewRows(k)]
      /\ liveFaces' = liveFaces \cup NewRows(k) /\ lowQuality' = lowQuality \cup low
      /\ faceCount' = faceCount + k
      /\ faceImage' = [r \in Row |-> IF r \in NewRows(k) THEN i ELSE faceImage[r]]
  BY DEF Insert, AppendFaces
<1>4. /\ NewRows(k) \cap (liveFaces \cup lowQuality) = {}
      /\ \A r \in NewRows(k) : r < faceCount + k
      /\ NewRows(k) \in SUBSET Row
  BY <1>1, NewRowsAreFresh
<1>5. \A j \in liveImages : j \in ImageId /\ j # 0 /\ imageSha[j] \in Sha /\ shaIndex[imageSha[j]] = j
  BY LiveShaIsKnown
<1> HIDE DEF i
<1>6. \A j \in liveImages' : j <= imageCount' /\ imageSha'[j] \in masters' /\ shaIndex'[imageSha'[j]] = j
  <2>1. imageSha'[i] = s /\ shaIndex'[s] = i /\ i <= imageCount'
    BY <1>1, <1>2, <1>3 DEF PhotosInv, TypeOK, i
  <2>2. ASSUME NEW j \in liveImages
        PROVE  j <= imageCount' /\ imageSha'[j] \in masters' /\ shaIndex'[imageSha'[j]] = j
    <3>1. j # i /\ imageSha'[j] = imageSha[j] /\ imageSha[j] # s
      BY <1>1, <1>2, <1>3, <1>5 DEF PhotosInv, TypeOK
    <3>2. j <= imageCount'
      BY <1>3 DEF PhotosInv, PhotosConsistent, TypeOK, ImageId, i
    <3> QED
      BY <1>3, <1>5, <3>1, <3>2 DEF PhotosInv, PhotosConsistent, TypeOK
  <2> QED
    BY <1>3, <2>1, <2>2
<1>7. \A t \in Sha : shaIndex'[t] # 0 => shaIndex'[t] \in liveImages' /\ imageSha'[shaIndex'[t]] = t
  <2> SUFFICES ASSUME NEW t \in Sha, shaIndex'[t] # 0
               PROVE  shaIndex'[t] \in liveImages' /\ imageSha'[shaIndex'[t]] = t
    OBVIOUS
  <2>1. CASE t = s
    BY <1>1, <1>2, <1>3, <2>1 DEF PhotosInv, TypeOK
  <2>2. CASE t # s
    <3>1. shaIndex'[t] = shaIndex[t]
      BY <1>3, <2>2 DEF PhotosInv, TypeOK
    <3>2. shaIndex[t] \in liveImages /\ imageSha[shaIndex[t]] = t
      BY <3>1 DEF PhotosInv, PhotosConsistent
    <3> QED
      BY <1>2, <1>3, <1>5, <3>1, <3>2 DEF PhotosInv, TypeOK
  <2> QED
    BY <2>1, <2>2
<1>8. \A j \in ImageId : imageFaces'[j] = {r \in liveFaces' : faceImage'[r] = j}
  <2> SUFFICES ASSUME NEW j \in ImageId
               PROVE  imageFaces'[j] = {r \in liveFaces' : faceImage'[r] = j}
    OBVIOUS
  <2>1. imageFaces[j] = {r \in liveFaces : faceImage[r] = j}
    BY DEF PhotosInv, PhotosConsistent
  <2>2. \A r \in liveFaces : r \in Row /\ faceImage[r] # i
    BY <1>2 DEF PhotosInv, PhotosConsistent, TypeOK
  <2>3. imageFaces'[j] = IF j = i THEN NewRows(k) ELSE imageFaces[j]
    BY <1>3 DEF PhotosInv, TypeOK
  <2> QED
    BY <1>3, <1>4, <2>1, <2>2, <2>3
<1>9. \A r \in liveFaces' : r < faceCount' /\ faceImage'[r] \in liveImages'
  BY <1>1, <1>3, <1>4 DEF PhotosInv, PhotosConsistent, TypeOK, Row
<1>10. \A r \in lowQuality' : r < faceCount'
  BY <1>1, <1>3, <1>4 DEF PhotosInv, TypeOK, Row
<1> QED
  BY <1>6, <1>7, <1>8, <1>9, <1>10 DEF PhotosConsistent

(* upgrade moves a photo from its old hash to the new one; the old master  *)
(* may go, for no other photo has its bytes.                               *)
LEMMA ReplaceMasterKeepsMap ==
    ASSUME PhotosInv, NEW s \in UnknownSha, NEW i \in liveImages, ReplaceMaster(i, s),
           (masters \cup {s}) \ {imageSha[i]} \subseteq masters'
    PROVE  /\ \A j \in liveImages' : j <= imageCount' /\ imageSha'[j] \in masters'
                                     /\ shaIndex'[imageSha'[j]] = j
           /\ \A t \in Sha : shaIndex'[t] # 0 => shaIndex'[t] \in liveImages'
                                                 /\ imageSha'[shaIndex'[t]] = t
<1>1. s \in Sha /\ shaIndex[s] = 0
  BY DEF UnknownSha
<1>2. \A j \in liveImages : j \in ImageId /\ j # 0 /\ imageSha[j] \in Sha /\ shaIndex[imageSha[j]] = j
  BY LiveShaIsKnown
<1>3. /\ imageSha' = [imageSha EXCEPT ![i] = s]
      /\ shaIndex' = [t \in Sha |-> IF t = s THEN i ELSE IF t = imageSha[i] THEN 0 ELSE shaIndex[t]]
      /\ imageCount' = imageCount /\ liveImages' = liveImages
  BY DEF ReplaceMaster
<1>4. imageSha \in [ImageId -> Sha \cup {NoSha}]
  BY DEF PhotosInv, TypeOK
<1>5. imageSha[i] # s
  BY <1>1, <1>2
<1>6. ASSUME NEW j \in liveImages
      PROVE  j <= imageCount' /\ imageSha'[j] \in masters' /\ shaIndex'[imageSha'[j]] = j
  <2>1. j <= imageCount' /\ imageSha[j] \in masters
    BY <1>3 DEF PhotosInv, PhotosConsistent
  <2>2. CASE j = i
    BY <1>1, <1>2, <1>3, <1>4, <1>5, <2>1, <2>2
  <2>3. CASE j # i
    <3>1. imageSha'[j] = imageSha[j] /\ imageSha[j] # imageSha[i] /\ imageSha[j] # s
      BY <1>1, <1>2, <1>3, <1>4, <2>3
    <3> QED
      BY <1>2, <1>3, <2>1, <3>1
  <2> QED
    BY <2>2, <2>3
<1>7. ASSUME NEW t \in Sha, shaIndex'[t] # 0
      PROVE  shaIndex'[t] \in liveImages' /\ imageSha'[shaIndex'[t]] = t
  <2>1. CASE t = s
    BY <1>1, <1>2, <1>3, <1>4, <2>1
  <2>2. CASE t # s
    <3>1. shaIndex'[t] = shaIndex[t] /\ t # imageSha[i]
      BY <1>3, <1>7, <2>2
    <3>2. shaIndex[t] \in liveImages /\ imageSha[shaIndex[t]] = t
      BY <1>7, <3>1 DEF PhotosInv, PhotosConsistent
    <3> QED
      BY <1>2, <1>3, <1>4, <3>1, <3>2
  <2> QED
    BY <2>1, <2>2
<1> QED
  BY <1>3, <1>6, <1>7

LEMMA UpgradeKeepsPhotos ==
    ASSUME PhotosInv, NEW s \in UnknownSha, NEW i \in liveImages, NEW k \in Appended(0),
           NEW kept \in SUBSET imageFaces[i], NEW low \in SUBSET (kept \cup NewRows(k)),
           NEW join, Upgrade(i, s, kept, k, low, join)
    PROVE  PhotosConsistent' /\ \A r \in lowQuality' : r < faceCount'
<1>1. k \in Nat /\ faceCount + k <= MaxFaces
  BY BoundsAssumption DEF Appended
<1>2. ReplaceMaster(i, s) /\ masters' = (masters \cup {s}) \ {imageSha[i]}
  BY DEF Upgrade
<1>3. /\ faceCount' = faceCount + k
      /\ faceImage' = [r \in Row |-> IF r \in NewRows(k) THEN i ELSE faceImage[r]]
      /\ liveFaces' = (liveFaces \ (imageFaces[i] \ kept)) \cup NewRows(k)
      /\ lowQuality' = (lowQuality \ kept) \cup low
      /\ imageFaces' = [imageFaces EXCEPT ![i] = kept \cup NewRows(k)]
      /\ liveImages' = liveImages
  BY DEF Upgrade, AppendFaces, ReplaceMaster
<1>4. /\ NewRows(k) \cap (liveFaces \cup lowQuality) = {}
      /\ \A r \in NewRows(k) : r < faceCount + k
      /\ NewRows(k) \in SUBSET Row
  BY <1>1, NewRowsAreFresh
<1>5. i \in ImageId
  BY LiveShaIsKnown
<1>6. \A j \in ImageId : imageFaces[j] = {r \in liveFaces : faceImage[r] = j}
  BY DEF PhotosInv, PhotosConsistent
<1>7. \A r \in liveFaces : r \in Row /\ r < faceCount /\ faceImage[r] \in liveImages
  BY DEF PhotosInv, PhotosConsistent, TypeOK
<1>8. /\ \A j \in liveImages' : j <= imageCount' /\ imageSha'[j] \in masters'
                                /\ shaIndex'[imageSha'[j]] = j
      /\ \A t \in Sha : shaIndex'[t] # 0 => shaIndex'[t] \in liveImages'
                                            /\ imageSha'[shaIndex'[t]] = t
  BY <1>2, ReplaceMasterKeepsMap
<1>9. ASSUME NEW j \in ImageId
      PROVE  imageFaces'[j] = {r \in liveFaces' : faceImage'[r] = j}
  <2>1. imageFaces'[j] = IF j = i THEN kept \cup NewRows(k) ELSE imageFaces[j]
    BY <1>3 DEF PhotosInv, TypeOK
  <2> QED
    BY <1>3, <1>4, <1>5, <1>6, <1>7, <2>1
<1>10. \A r \in liveFaces' : r < faceCount' /\ faceImage'[r] \in liveImages'
  BY <1>1, <1>3, <1>4, <1>7 DEF PhotosInv, TypeOK, Row
<1>11. \A r \in lowQuality' : r < faceCount'
  BY <1>1, <1>3, <1>4, <1>5, <1>6, <1>7 DEF PhotosInv, TypeOK, Row
<1> QED
  BY <1>8, <1>9, <1>10, <1>11 DEF PhotosConsistent

LEMMA UpgradeThrowsKeepsPhotos ==
    ASSUME PhotosInv, NEW s \in UnknownSha, NEW i \in liveImages, NEW bad,
           NEW done \in SUBSET imageFaces[i], NEW low \in SUBSET done,
           NEW join, UpgradeThrows(i, s, done, bad, low, join)
    PROVE  PhotosConsistent' /\ \A r \in lowQuality' : r < faceCount'
<1>1. /\ \A j \in liveImages' : j <= imageCount' /\ imageSha'[j] \in masters'
                                /\ shaIndex'[imageSha'[j]] = j
      /\ \A t \in Sha : shaIndex'[t] # 0 => shaIndex'[t] \in liveImages'
                                            /\ imageSha'[shaIndex'[t]] = t
  BY ReplaceMasterKeepsMap DEF UpgradeThrows
<1>2. UNCHANGED <<faceCount, liveFaces, faceImage, imageFaces, liveImages>>
  BY DEF UpgradeThrows, ReplaceMaster
<1>3. low \subseteq liveFaces
  BY LiveShaIsKnown DEF PhotosInv, PhotosConsistent
<1>4. \A r \in lowQuality' : r < faceCount'
  BY <1>2, <1>3 DEF UpgradeThrows, PhotosInv, PhotosConsistent
<1> QED
  BY <1>1, <1>2, <1>4 DEF PhotosInv, PhotosConsistent

LEMMA RemoveKeepsPhotos ==
    ASSUME PhotosInv, NEW i \in ImageId, RemoveImage(i)
    PROVE  PhotosConsistent' /\ \A r \in lowQuality' : r < faceCount'
<1>1. i \in liveImages
  BY DEF RemoveImage
<1>2. \A j \in liveImages : j \in ImageId /\ j # 0 /\ imageSha[j] \in Sha /\ shaIndex[imageSha[j]] = j
  BY LiveShaIsKnown
<1>3. /\ liveImages' = liveImages \ {i} /\ shaIndex' = [shaIndex EXCEPT ![imageSha[i]] = 0]
      /\ masters' = masters \ {imageSha[i]} /\ liveFaces' = liveFaces \ imageFaces[i]
      /\ imageFaces' = [imageFaces EXCEPT ![i] = {}]
      /\ UNCHANGED <<imageCount, imageSha, faceCount, lowQuality, faceImage>>
  BY DEF RemoveImage
<1>4. \A t \in Sha : shaIndex'[t] = IF t = imageSha[i] THEN 0 ELSE shaIndex[t]
  BY <1>1, <1>2, <1>3 DEF PhotosInv, TypeOK
<1>5. \A j \in liveImages' : j <= imageCount' /\ imageSha'[j] \in masters' /\ shaIndex'[imageSha'[j]] = j
  BY <1>1, <1>2, <1>3, <1>4 DEF PhotosInv, PhotosConsistent
<1>6. \A t \in Sha : shaIndex'[t] # 0 => shaIndex'[t] \in liveImages' /\ imageSha'[shaIndex'[t]] = t
  BY <1>2, <1>3, <1>4 DEF PhotosInv, PhotosConsistent
<1>7. ASSUME NEW j \in ImageId
      PROVE  imageFaces'[j] = {r \in liveFaces' : faceImage'[r] = j}
  <2>1. imageFaces'[j] = IF j = i THEN {} ELSE imageFaces[j]
    BY <1>3 DEF PhotosInv, TypeOK
  <2>2. \A q \in ImageId : imageFaces[q] = {r \in liveFaces : faceImage[r] = q}
    BY DEF PhotosInv, PhotosConsistent
  <2> QED
    BY <1>3, <2>1, <2>2
<1>8. \A r \in liveFaces' : r < faceCount' /\ faceImage'[r] \in liveImages'
  BY <1>3 DEF PhotosInv, PhotosConsistent, TypeOK
<1>9. \A r \in lowQuality' : r < faceCount'
  BY <1>3 DEF PhotosInv
<1> QED
  BY <1>5, <1>6, <1>7, <1>8, <1>9 DEF PhotosConsistent

(* A start rebuilds the map and the lists from the slots.                  *)
LEMMA LoadKeepsPhotos ==
    ASSUME PhotosInv, NEW low, Load(low), \A r \in low : r < faceCount
    PROVE  PhotosConsistent' /\ \A r \in lowQuality' : r < faceCount'
<1>1. \A j \in liveImages : j \in ImageId /\ j # 0 /\ imageSha[j] \in Sha /\ shaIndex[imageSha[j]] = j
  BY LiveShaIsKnown
<1>2. UNCHANGED <<imageCount, liveImages, imageSha, masters, faceCount, liveFaces, faceImage>>
  BY DEF Load
<1>3. \A t \in Sha : IF Holders(t) = {} THEN shaIndex'[t] = 0 ELSE shaIndex'[t] \in Holders(t)
  BY DEF Load
<1>4. \A j \in liveImages : Holders(imageSha[j]) = {j}
  BY <1>1 DEF Holders
<1>5. \A j \in liveImages' : j <= imageCount' /\ imageSha'[j] \in masters' /\ shaIndex'[imageSha'[j]] = j
  BY <1>1, <1>2, <1>3, <1>4 DEF PhotosInv, PhotosConsistent
<1>6. \A t \in Sha : shaIndex'[t] # 0 => shaIndex'[t] \in liveImages' /\ imageSha'[shaIndex'[t]] = t
  BY <1>2, <1>3 DEF Holders
<1>7. imageFaces' = [i \in ImageId |-> {r \in liveFaces : faceImage[r] = i}] /\ lowQuality' = low
  BY DEF Load
<1> QED
  BY <1>2, <1>5, <1>6, <1>7 DEF PhotosInv, PhotosConsistent

LEMMA PhotosStep ==
    ASSUME PhotosInv, [Next]_vars
    PROVE  PhotosConsistent' /\ \A r \in lowQuality' : r < faceCount'
<1>1. CASE IngestStep
  BY <1>1, InsertKeepsPhotos, UpgradeKeepsPhotos, UpgradeThrowsKeepsPhotos DEF IngestStep
<1>2. CASE RemoveStep
  BY <1>2, RemoveKeepsPhotos DEF RemoveStep
<1>3. ASSUME UNCHANGED <<imageVars, faceVars>>
      PROVE  PhotosConsistent' /\ \A r \in lowQuality' : r < faceCount'
  BY <1>3 DEF PhotosInv, PhotosConsistent, imageVars, faceVars
<1>4. CASE CurationStep
  BY <1>3, <1>4 DEF CurationStep, Hide, Unhide, Rename, Dissolve, Merge, Split, UnassignFace, AssignFace
<1>5. CASE ClusterOnce
  BY <1>3, <1>5 DEF ClusterOnce, ApplyLabels
<1>6. CASE Restart
  BY <1>6, LoadKeepsPhotos DEF Restart, PhotosInv
<1>7. ASSUME NEW low \in SUBSET liveFaces, Reindex(low)
      PROVE  PhotosConsistent' /\ \A r \in lowQuality' : r < faceCount'
  <2>1. Load(low \cup (lowQuality \ liveFaces))
    BY <1>7 DEF Reindex
  <2>2. \A r \in low \cup (lowQuality \ liveFaces) : r < faceCount
    BY DEF PhotosInv, PhotosConsistent
  <2> QED
    BY <2>1, <2>2, LoadKeepsPhotos
<1>8. CASE UNCHANGED vars
  BY <1>3, <1>8 DEF vars
<1> QED
  BY <1>1, <1>2, <1>4, <1>5, <1>6, <1>7, <1>8 DEF Next, RestartStep

(* A live photo is found by its hash and by no other, its master file is   *)
(* on disk, image_faces_ lists its live faces, and no face outlives its    *)
(* photo: after any sequence of ingests, upgrades (also aborted ones),     *)
(* deletions, curation, clustering and clean restarts.                     *)
THEOREM PhotosCorrect == Spec => []PhotosConsistent
<1>1. Init => PhotosInv
  BY BoundsAssumption DEF Init, PhotosInv, PhotosConsistent, TypeOK, ImageId
<1>2. TypeOK /\ TypeOK' /\ PhotosInv /\ [Next]_vars => PhotosInv'
  BY PhotosStep DEF PhotosInv
<1>3. PhotosInv => PhotosConsistent
  BY DEF PhotosInv
<1> QED
  BY <1>1, <1>2, <1>3, TypeCorrect, PTL DEF Spec

-----------------------------------------------------------------------------
(* The HNSW *)

(* The one place where a key leaves the index is the one where its face    *)
(* stops being indexable.                                                  *)
LEMMA IndexStep ==
    ASSUME IndexCoversFaces, [Next]_vars
    PROVE  IndexCoversFaces'
<1>1. CASE IngestStep
  <2>1. ASSUME NEW s, NEW k, NEW low, NEW join, Insert(s, k, low, join)
        PROVE  IndexCoversFaces'
    BY <2>1 DEF Insert, IndexCoversFaces, Indexable
  <2>2. ASSUME NEW s, NEW i, NEW k, NEW kept, NEW low, NEW join, Upgrade(i, s, kept, k, low, join)
        PROVE  IndexCoversFaces'
    BY <2>2 DEF Upgrade, IndexCoversFaces, Indexable
  <2>3. ASSUME NEW s, NEW i, NEW done, NEW bad \in indexed, NEW low, NEW join,
               bad \notin done, UpgradeThrows(i, s, done, bad, low, join)
        PROVE  IndexCoversFaces'
    BY <2>3 DEF UpgradeThrows, IndexCoversFaces, Indexable
  <2> QED
    BY <1>1, <2>1, <2>2, <2>3 DEF IngestStep
<1>2. CASE RemoveStep
  BY <1>2 DEF RemoveStep, RemoveImage, IndexCoversFaces, Indexable
<1>3. ASSUME UNCHANGED <<faceVars, indexVars>>
      PROVE  IndexCoversFaces'
  BY <1>3 DEF IndexCoversFaces, Indexable, faceVars, indexVars
<1>4. CASE CurationStep
  BY <1>3, <1>4 DEF CurationStep, Hide, Unhide, Rename, Dissolve, Merge, Split, UnassignFace, AssignFace
<1>5. CASE ClusterOnce
  BY <1>3, <1>5 DEF ClusterOnce, ApplyLabels
<1>6. CASE Restart
  BY <1>6 DEF Restart, Load, Saved, IndexCoversFaces, Indexable
<1>7. ASSUME NEW low \in SUBSET liveFaces, Reindex(low)
      PROVE  IndexCoversFaces'
  BY <1>7 DEF Reindex, Load, Saved, IndexCoversFaces, Indexable
<1>8. CASE UNCHANGED vars
  BY <1>3, <1>8 DEF vars
<1> QED
  BY <1>1, <1>2, <1>4, <1>5, <1>6, <1>7, <1>8 DEF Next, RestartStep

(* Every face above the gate can be reached through the HNSW, also after   *)
(* an upgrade that throws and after any clean stop, start or reindex.      *)
THEOREM IndexCorrect == Spec => []IndexCoversFaces
<1>1. Init => IndexCoversFaces
  BY DEF Init, IndexCoversFaces, Indexable
<1>2. IndexCoversFaces /\ [Next]_vars => IndexCoversFaces'
  BY IndexStep
<1> QED
  BY <1>1, <1>2, PTL DEF Spec

-----------------------------------------------------------------------------
(* Gallery implements PhotoStore: with its hash map, slots, tombstones,    *)
(* master files, aborted upgrades and restarts it is a store that keeps    *)
(* equal bytes once under a number handed out once.  Engine builds on      *)
(* PhotoStore; here is why it may.                                         *)

(* A tombstoned slot holds nothing.                                        *)
Held == [i \in ImageId |-> IF i \in liveImages THEN imageSha[i] ELSE NoSha]

Store == INSTANCE PhotoStore WITH
    Content <- Sha, None <- NoSha, Supersedes <- Sha \X Sha, MaxPhotos <- MaxImages,
    count <- imageCount, held <- Held

(* What the hash map says of live photos and of unknown bytes.             *)
LEMMA MapIsExact ==
    ASSUME TypeOK, PhotosConsistent
    PROVE  /\ \A i \in liveImages : i \in ImageId /\ imageSha[i] \in Sha /\ shaIndex[imageSha[i]] = i
           /\ \A s \in UnknownSha : s \in Sha /\ ~ Store!Stored(s)
<1>1. ASSUME NEW i \in liveImages
      PROVE  i \in ImageId /\ i # 0 /\ imageSha[i] \in Sha /\ shaIndex[imageSha[i]] = i
  BY BoundsAssumption DEF TypeOK, PhotosConsistent, ImageId
<1>2. ASSUME NEW s \in UnknownSha
      PROVE  s \in Sha /\ ~ Store!Stored(s)
  BY <1>1, BoundsAssumption DEF UnknownSha, Store!Stored, Store!Number, Held, ImageId
<1> QED
  BY <1>1, <1>2

(* The photos are untouched.                                               *)
LEMMA SamePhotos ==
    ASSUME UNCHANGED <<imageCount, liveImages, imageSha>>
    PROVE  UNCHANGED Store!store
BY DEF Store!store, Held

(* insert hands out the next number.                                       *)
LEMMA InsertAdds ==
    ASSUME TypeOK, PhotosConsistent, NEW s \in UnknownSha, NEW k, NEW low, NEW join, Insert(s, k, low, join)
    PROVE  Store!Add(s)
<1> DEFINE i == imageCount + 1
<1>1. imageCount < MaxImages /\ i \in ImageId
  BY BoundsAssumption DEF Insert, TypeOK, ImageId
<1>2. imageCount' = i /\ liveImages' = liveImages \cup {i} /\ imageSha' = [imageSha EXCEPT ![i] = s]
  BY DEF Insert
<1>3. imageSha \in [ImageId -> Sha \cup {NoSha}]
  BY DEF TypeOK
<1>4. Held' = [Held EXCEPT ![i] = s]
  BY <1>1, <1>2, <1>3 DEF Held
<1> QED
  BY <1>1, <1>2, <1>4, MapIsExact DEF Store!Add

(* upgrade replaces what a photo holds, whether it returns or throws.      *)
LEMMA UpgradeReplaces ==
    ASSUME TypeOK, PhotosConsistent, NEW s \in UnknownSha, NEW i \in liveImages, ReplaceMaster(i, s)
    PROVE  Store!Replace(i, s)
<1>1. i \in ImageId /\ imageSha[i] \in Sha /\ s \in Sha /\ ~ Store!Stored(s)
  BY MapIsExact
<1>2. Held[i] = imageSha[i] /\ Held[i] # NoSha
  BY <1>1, BoundsAssumption DEF Held
<1>3. imageCount' = imageCount /\ liveImages' = liveImages /\ imageSha' = [imageSha EXCEPT ![i] = s]
  BY DEF ReplaceMaster
<1>4. imageSha \in [ImageId -> Sha \cup {NoSha}]
  BY DEF TypeOK
<1>5. Held' = [Held EXCEPT ![i] = s]
  BY <1>1, <1>3, <1>4 DEF Held
<1> QED
  BY <1>1, <1>2, <1>3, <1>5 DEF Store!Replace

(* remove_image empties a number for good.                                 *)
LEMMA RemoveDeletes ==
    ASSUME TypeOK, PhotosConsistent, NEW i \in ImageId, RemoveImage(i)
    PROVE  Store!Delete(i)
<1>1. i \in liveImages /\ liveImages' = liveImages \ {i} /\ UNCHANGED <<imageCount, imageSha>>
  BY DEF RemoveImage
<1>2. Held[i] # NoSha
  BY <1>1, MapIsExact, BoundsAssumption DEF Held
<1>3. Held' = [Held EXCEPT ![i] = NoSha]
  BY <1>1 DEF Held
<1> QED
  BY <1>1, <1>2, <1>3 DEF Store!Delete

LEMMA StepIsAStoreStep ==
    ASSUME TypeOK, PhotosConsistent, [Next]_vars
    PROVE  [Store!Next]_(Store!store)
<1>1. CASE IngestStep
  <2>1. ASSUME NEW s \in UnknownSha, NEW k, NEW low, NEW join, Insert(s, k, low, join)
        PROVE  Store!Next
    BY <2>1, InsertAdds, MapIsExact DEF Store!Next
  <2>2. ASSUME NEW s \in UnknownSha, NEW i \in liveImages, ReplaceMaster(i, s)
        PROVE  Store!Next
    BY <2>2, UpgradeReplaces, MapIsExact DEF Store!Next, Store!Number, ImageId
  <2>3. ASSUME NEW s \in UnknownSha, NEW i \in liveImages, NEW k, NEW kept, NEW low, NEW join,
               Upgrade(i, s, kept, k, low, join)
        PROVE  Store!Next
    BY <2>2, <2>3 DEF Upgrade
  <2>4. ASSUME NEW s \in UnknownSha, NEW i \in liveImages, NEW done, NEW bad, NEW low, NEW join,
               UpgradeThrows(i, s, done, bad, low, join)
        PROVE  Store!Next
    BY <2>2, <2>4 DEF UpgradeThrows
  <2> QED
    BY <1>1, <2>1, <2>3, <2>4 DEF IngestStep
<1>2. CASE RemoveStep
  BY <1>2, RemoveDeletes DEF RemoveStep, Store!Next, Store!Number, ImageId
<1>3. CASE CurationStep
  BY <1>3, SamePhotos DEF CurationStep, Hide, Unhide, Rename, Dissolve, Merge, Split,
     UnassignFace, AssignFace, imageVars
<1>4. CASE ClusterOnce
  BY <1>4, SamePhotos DEF ClusterOnce, ApplyLabels, imageVars
<1>5. CASE RestartStep
  BY <1>5, SamePhotos DEF RestartStep, Restart, Reindex, Load
<1>6. CASE UNCHANGED vars
  BY <1>6, SamePhotos DEF vars, imageVars
<1> QED
  BY <1>1, <1>2, <1>3, <1>4, <1>5, <1>6 DEF Next

(* Whatever the gallery's handlers do, each of their steps is one step of  *)
(* the abstract photo store or none: no two live photos have equal bytes,  *)
(* no number is handed out twice, and only an upgrade changes what a       *)
(* photo holds.                                                            *)
THEOREM GalleryIsAPhotoStore == Spec => Store!Spec
<1>1. Init => Store!Init
  BY DEF Init, Store!Init, Store!Number, Held, ImageId
<1>2. TypeOK /\ PhotosConsistent /\ [Next]_vars => [Store!Next]_(Store!store)
  BY StepIsAStoreStep
<1> QED
  BY <1>1, <1>2, TypeCorrect, PhotosCorrect, PTL DEF Spec, Store!Spec

-----------------------------------------------------------------------------
(* Who is who: face rows, member lists and identity slots agree after      *)
(* every handler that runs undisturbed, hidden people stay suppressed, ids *)
(* of dead identities are never reused and automation leaves pinned        *)
(* identities their faces.                                                 *)
(*                                                                         *)
(* Neither MembershipMirrorsRefs nor IdentitiesMatchMembers is inductive   *)
(* alone, and both need PhotosInv: a handler finds the faces of a photo    *)
(* through image_faces_, and a face appended later must take a row nobody  *)
(* uses.                                                                   *)

MembershipInv ==
    /\ PhotosInv
    /\ MembershipMirrorsRefs
    /\ IdentitiesMatchMembers

-----------------------------------------------------------------------------
(* What recompute_identity_locked establishes, given lists that mirror the *)
(* refs and differ from the old ones only where it is called.              *)
LEMMA RecomputeKeepsMembership ==
    ASSUME MembershipInv,
           NEW touched \in SUBSET Id, NEW mem \in [Id -> SUBSET Row], Recompute(touched, mem),
           \A id \in Id \ touched : mem[id] = members[id],
           \A id \in touched : id <= idCount',
           idCount' \in Nat, idCount <= idCount',
           ref' \in [Row -> 0 .. MaxIds],
           \A id \in Id : mem[id] = {r \in Indexable' : ref'[r] = id},
           \A r \in Row : ref'[r] # 0 => r \in Indexable'
    PROVE  MembershipMirrorsRefs' /\ IdentitiesMatchMembers'
<1>1. /\ members' = mem
      /\ liveIds' = (liveIds \ touched) \cup {id \in touched : mem[id] # {}}
      /\ size' = [id \in Id |-> IF id \in touched THEN Cardinality(mem[id]) ELSE size[id]]
  BY DEF Recompute
<1>2. ASSUME NEW id \in Id
      PROVE  /\ id \in liveIds' <=> members'[id] # {}
             /\ size'[id] = Cardinality(members'[id])
             /\ id \in liveIds' => id <= idCount'
  <2>1. /\ id \in liveIds <=> members[id] # {}
        /\ size[id] = Cardinality(members[id])
        /\ id \in liveIds => id <= idCount
    BY DEF MembershipInv, IdentitiesMatchMembers
  <2>2. id \in Nat /\ idCount \in Nat
    BY BoundsAssumption DEF Id, MembershipInv, PhotosInv, TypeOK
  <2>3. CASE id \in touched
    BY <1>1, <2>3
  <2>4. CASE id \notin touched
    BY <1>1, <2>1, <2>2, <2>4
  <2> QED
    BY <2>3, <2>4
<1>3. \A id \in Id : members'[id] = {r \in Indexable' : ref'[r] = id}
  BY <1>1
<1>4. ASSUME NEW r \in Row, ref'[r] # 0
      PROVE  ref'[r] \in liveIds'
  <2>1. ref'[r] \in Id
    BY <1>4, BoundsAssumption DEF Id
  <2>2. r \in members'[ref'[r]]
    BY <1>1, <1>4, <2>1
  <2> QED
    BY <1>2, <2>1, <2>2
<1> QED
  BY <1>2, <1>3, <1>4 DEF MembershipMirrorsRefs, IdentitiesMatchMembers

(* The same for unassign_locked and assign_locked: enough that a face      *)
(* joins only while indexable and after leaving the identity it had, and   *)
(* that every assigned face that stops being indexable leaves.             *)
LEMMA ReassignKeepsMembership ==
    ASSUME MembershipInv, TypeOK', NEW out \in SUBSET Row, NEW rows \in SUBSET Row,
           NEW joined \in [rows -> liveIds \cup {0}], NEW refreshed \in SUBSET liveIds,
           Reassign(out, joined, refreshed), idCount' = idCount,
           \A r \in rows : joined[r] # 0 => r \in Indexable' /\ (ref[r] = 0 \/ r \in out),
           \A r \in Row : ref[r] # 0 /\ r \notin out => r \in Indexable'
    PROVE  MembershipMirrorsRefs' /\ IdentitiesMatchMembers'
<1> DEFINE touched == Touched(out, joined) \cup refreshed
           mem     == MembersAfter(out, joined)
<1>1. TypeOK /\ liveIds \subseteq Id /\ 0 \notin Id
  <2>1. TypeOK
    BY DEF MembershipInv, PhotosInv
  <2> QED
    BY <2>1 DEF TypeOK, Id
<1>2. joined \in [rows -> 0 .. MaxIds] /\ refreshed \in SUBSET Id
  <2>1. liveIds \cup {0} \subseteq 0 .. MaxIds
    BY <1>1, BoundsAssumption DEF Id
  <2> QED
    BY <1>1, <2>1
<1>3. /\ ref' \in [Row -> 0 .. MaxIds] /\ touched \in SUBSET Id /\ mem \in [Id -> SUBSET Row]
  BY <1>1, <1>2, ReassignType
<1>4. ref' = RefsAfter(out, joined) /\ Recompute(touched, mem)
  BY DEF Reassign
<1>5. \A id \in touched : id <= idCount'
  <2>1. \A r \in Row : ref[r] # 0 => ref[r] \in liveIds
    BY DEF MembershipInv, MembershipMirrorsRefs
  <2>2. touched \subseteq liveIds
    BY <1>1, <2>1 DEF Touched
  <2> QED
    BY <1>1, <2>2 DEF MembershipInv, IdentitiesMatchMembers
<1>6. \A r \in Row : ref'[r] = IF r \in rows /\ joined[r] # 0 THEN joined[r]
                               ELSE IF r \in out THEN 0 ELSE ref[r]
  BY <1>4 DEF RefsAfter
<1>7. \A id \in Id : mem[id] = (members[id] \ {r \in out : ref[r] = id}) \cup {r \in rows : joined[r] = id}
  BY DEF MembersAfter
<1>8. \A id \in Id : members[id] = {r \in Indexable : ref[r] = id}
  BY DEF MembershipInv, MembershipMirrorsRefs
<1>9. \A r \in Row : ref[r] # 0 => r \in Indexable
  BY DEF MembershipInv, MembershipMirrorsRefs
<1>10. Indexable \subseteq Row /\ Indexable' \subseteq Row
  BY <1>1 DEF Indexable, TypeOK
<1>11. \A r \in Row : ref'[r] # 0 => r \in Indexable'
  BY <1>6
<1>12. ASSUME NEW id \in Id
       PROVE  mem[id] = {r \in Indexable' : ref'[r] = id}
  <2>1. id # 0
    BY <1>1
  <2>2. ASSUME NEW r \in mem[id]
        PROVE  r \in Indexable' /\ ref'[r] = id
    <3>1. CASE r \in rows /\ joined[r] = id
      BY <1>6, <2>1, <3>1
    <3>2. CASE r \in members[id] /\ ~(r \in out /\ ref[r] = id)
      <4>1. r \in Row /\ ref[r] = id /\ r \notin out
        BY <1>8, <1>10, <3>2
      <4>2. ~(r \in rows /\ joined[r] # 0)
        BY <2>1, <4>1
      <4> QED
        BY <1>6, <2>1, <4>1, <4>2
    <3> QED
      BY <1>7, <2>2, <3>1, <3>2
  <2>3. ASSUME NEW r \in Indexable', ref'[r] = id
        PROVE  r \in mem[id]
    <3>1. r \in Row
      BY <1>10
    <3>2. CASE r \in rows /\ joined[r] # 0
      BY <1>6, <1>7, <2>3, <3>1, <3>2
    <3>3. CASE ~(r \in rows /\ joined[r] # 0)
      <4>1. r \notin out /\ ref[r] = id
        BY <1>6, <2>1, <2>3, <3>1, <3>3
      <4> QED
        BY <1>7, <1>8, <1>9, <2>1, <3>1, <4>1
    <3> QED
      BY <3>2, <3>3
  <2> QED
    BY <2>2, <2>3
<1>13. ASSUME NEW id \in Id \ touched
       PROVE  mem[id] = members[id]
  <2>1. \A r \in out : ref[r] # id
    BY <1>1 DEF Touched
  <2>2. \A r \in rows : joined[r] # id
    BY <1>1 DEF Touched
  <2> QED
    BY <1>7, <2>1, <2>2
<1>14. idCount' \in Nat /\ idCount <= idCount'
  BY <1>1 DEF TypeOK
<1> HIDE DEF touched, mem
<1> QED
  BY <1>3, <1>4, <1>5, <1>11, <1>12, <1>13, <1>14, RecomputeKeepsMembership

-----------------------------------------------------------------------------
(* Each handler *)

LEMMA MembershipFacts ==
    ASSUME MembershipInv
    PROVE  /\ TypeOK /\ PhotosConsistent
           /\ \A r \in Row : ref[r] # 0 => r \in Indexable /\ ref[r] \in liveIds
           /\ \A id \in Id : members[id] = {r \in Indexable : ref[r] = id}
           /\ \A id \in Id : id \in liveIds <=> members[id] # {}
           /\ \A id \in liveIds : id \in Id /\ id <= idCount
           /\ liveIds \subseteq Id /\ 0 \notin Id
           /\ idCount \in Nat
<1>1. TypeOK /\ PhotosConsistent
  BY DEF MembershipInv, PhotosInv
<1>2. liveIds \subseteq Id /\ 0 \notin Id /\ idCount \in Nat
  BY <1>1 DEF TypeOK, Id
<1> QED
  BY <1>1, <1>2 DEF MembershipInv, MembershipMirrorsRefs, IdentitiesMatchMembers

LEMMA InsertKeepsMembership ==
    ASSUME MembershipInv, TypeOK', NEW s \in UnknownSha, NEW k \in Appended(1),
           NEW low \in SUBSET NewRows(k), NEW join \in JoinChoices(NewRows(k), low),
           Insert(s, k, low, join)
    PROVE  MembershipMirrorsRefs' /\ IdentitiesMatchMembers'
<1>1. /\ k \in Nat /\ faceCount + k <= MaxFaces
  BY BoundsAssumption DEF Appended
<1>2. NewRows(k) \cap (liveFaces \cup lowQuality) = {} /\ NewRows(k) \in SUBSET Row
  BY <1>1, NewRowsAreFresh DEF MembershipInv
<1>3. /\ join \in [NewRows(k) -> liveIds \cup {0}]
      /\ \A r \in NewRows(k) \cap low : join[r] = 0
  BY JoinChoiceType
<1>4. Reassign({}, join, {}) /\ idCount' = idCount
  BY DEF Insert
<1>5. Indexable' = Indexable \cup (NewRows(k) \ low)
  BY <1>2 DEF Insert, Indexable
<1>6. \A r \in NewRows(k) : join[r] # 0 => r \in Indexable' /\ (ref[r] = 0 \/ r \in {})
  BY <1>2, <1>3, <1>5, MembershipFacts DEF Indexable
<1>7. \A r \in Row : ref[r] # 0 /\ r \notin {} => r \in Indexable'
  BY <1>5, MembershipFacts
<1> QED
  BY <1>2, <1>3, <1>4, <1>6, <1>7, ReassignKeepsMembership

LEMMA UpgradeKeepsMembership ==
    ASSUME MembershipInv, TypeOK', NEW s \in UnknownSha, NEW i \in liveImages, NEW k \in Appended(0),
           NEW kept \in SUBSET imageFaces[i], NEW low \in SUBSET (kept \cup NewRows(k)),
           NEW join \in JoinChoices(kept \cup NewRows(k), low),
           Upgrade(i, s, kept, k, low, join)
    PROVE  MembershipMirrorsRefs' /\ IdentitiesMatchMembers'
<1> DEFINE out     == (kept \cap low) \cup (imageFaces[i] \ kept)
           staying == {ref[r] : r \in kept \ low} \ {0}
<1>1. k \in Nat /\ faceCount + k <= MaxFaces /\ i \in ImageId
  BY MembershipFacts, BoundsAssumption DEF Appended, TypeOK
<1>2. NewRows(k) \cap (liveFaces \cup lowQuality) = {} /\ NewRows(k) \in SUBSET Row
  BY <1>1, NewRowsAreFresh DEF MembershipInv
<1>3. imageFaces[i] \subseteq liveFaces /\ liveFaces \subseteq Row
  BY <1>1, MembershipFacts DEF PhotosConsistent, TypeOK
<1>4. /\ join \in [kept \cup NewRows(k) -> liveIds \cup {0}]
      /\ \A r \in (kept \cup NewRows(k)) \cap low : join[r] = 0
  BY JoinChoiceType
<1>5. Reassign(out, join, staying) /\ idCount' = idCount
  BY DEF Upgrade
<1>6. /\ liveFaces' = (liveFaces \ (imageFaces[i] \ kept)) \cup NewRows(k)
      /\ lowQuality' = (lowQuality \ kept) \cup low
  BY DEF Upgrade
<1>7. staying \in SUBSET liveIds
  BY <1>3, MembershipFacts
<1>8. ASSUME NEW r \in kept \cup NewRows(k), join[r] # 0
      PROVE  r \in Indexable' /\ (ref[r] = 0 \/ r \in out)
  <2>1. r \notin low
    BY <1>4, <1>8
  <2>2. CASE r \in kept
    <3>1. ref[r] = 0
      BY <1>8, <2>1, <2>2 DEF Upgrade, RemapJoins
    <3> QED
      BY <1>3, <1>6, <2>1, <2>2, <3>1 DEF Indexable
  <2>3. CASE r \in NewRows(k)
    <3>1. r \in Row /\ r \notin Indexable
      BY <1>2, <2>3 DEF Indexable
    <3>2. ref[r] = 0
      BY <3>1, MembershipFacts
    <3> QED
      BY <1>2, <1>6, <2>1, <2>3, <3>2 DEF Indexable
  <2> QED
    BY <2>2, <2>3
<1>9. ASSUME NEW r \in Row, ref[r] # 0, r \notin out
      PROVE  r \in Indexable'
  <2>1. r \in liveFaces /\ r \notin lowQuality
    BY <1>9, MembershipFacts DEF Indexable
  <2>2. r \notin low
    BY <1>2, <1>9, <2>1
  <2> QED
    BY <1>6, <1>9, <2>1, <2>2 DEF Indexable
<1>10. out \in SUBSET Row /\ kept \cup NewRows(k) \in SUBSET Row
  BY <1>2, <1>3
<1> HIDE DEF out, staying
<1> QED
  BY <1>4, <1>5, <1>7, <1>8, <1>9, <1>10, ReassignKeepsMembership

LEMMA UpgradeThrowsKeepsMembership ==
    ASSUME MembershipInv, TypeOK', NEW s \in UnknownSha, NEW i \in liveImages,
           NEW bad \in imageFaces[i] \cap lowQuality \cap indexed,
           NEW done \in SUBSET (imageFaces[i] \ {bad}), NEW low \in SUBSET done,
           NEW join \in JoinChoices(done, low),
           UpgradeThrows(i, s, done, bad, low, join)
    PROVE  MembershipMirrorsRefs' /\ IdentitiesMatchMembers'
<1>1. i \in ImageId
  BY MembershipFacts DEF TypeOK
<1>2. imageFaces[i] \subseteq liveFaces /\ liveFaces \subseteq Row
  BY <1>1, MembershipFacts DEF PhotosConsistent, TypeOK
<1>3. /\ join \in [done -> liveIds \cup {0}]
      /\ \A r \in done \cap low : join[r] = 0
  BY JoinChoiceType
<1>4. Reassign(done \cap low, join, {}) /\ idCount' = idCount
  BY DEF UpgradeThrows
<1>5. liveFaces' = liveFaces /\ lowQuality' = (lowQuality \ (done \cup {bad})) \cup low
  BY DEF UpgradeThrows
<1>6. \A r \in done : join[r] # 0 => r \notin low /\ ref[r] = 0
  BY <1>3 DEF UpgradeThrows, RemapJoins
<1>7. \A r \in done : join[r] # 0 => r \in Indexable' /\ (ref[r] = 0 \/ r \in done \cap low)
  BY <1>2, <1>5, <1>6 DEF Indexable
<1>8. \A r \in Row : ref[r] # 0 /\ r \notin done \cap low => r \in Indexable'
  BY <1>5, MembershipFacts DEF Indexable
<1>9. done \cap low \in SUBSET Row /\ done \in SUBSET Row
  BY <1>2
<1> QED
  BY <1>3, <1>4, <1>7, <1>8, <1>9, ReassignKeepsMembership

LEMMA RemoveKeepsMembership ==
    ASSUME MembershipInv, TypeOK', NEW i \in ImageId, RemoveImage(i)
    PROVE  MembershipMirrorsRefs' /\ IdentitiesMatchMembers'
<1>1. NoJoin \in [{} -> liveIds \cup {0}]
  BY DEF NoJoin
<1>2. Reassign(imageFaces[i], NoJoin, {}) /\ idCount' = idCount
  BY DEF RemoveImage
<1>3. imageFaces[i] \in SUBSET Row
  BY MembershipFacts DEF TypeOK
<1>4. \A r \in Row : ref[r] # 0 /\ r \notin imageFaces[i] => r \in Indexable'
  BY MembershipFacts DEF RemoveImage, Indexable
<1> QED
  BY <1>1, <1>2, <1>3, <1>4, ReassignKeepsMembership

LEMMA DissolveKeepsMembership ==
    ASSUME MembershipInv, TypeOK', NEW id \in Id, Dissolve(id)
    PROVE  MembershipMirrorsRefs' /\ IdentitiesMatchMembers'
<1> DEFINE mem == [members EXCEPT ![id] = {}]
<1>1. /\ Recompute({id}, mem) /\ idCount' = idCount /\ id \in liveIds
      /\ ref' = [r \in Row |-> IF r \in members[id] THEN 0 ELSE ref[r]]
  BY DEF Dissolve
<1>2. Indexable' = Indexable /\ Indexable \subseteq Row
  BY MembershipFacts DEF Dissolve, faceVars, Indexable, TypeOK
<1>3. mem \in [Id -> SUBSET Row] /\ \A x \in Id : mem[x] = IF x = id THEN {} ELSE members[x]
  BY MembershipFacts DEF TypeOK
<1>4. \A x \in Id : mem[x] = {r \in Indexable' : ref'[r] = x}
  BY <1>1, <1>2, <1>3, MembershipFacts
<1>5. \A r \in Row : ref'[r] # 0 => r \in Indexable'
  BY <1>1, <1>2, MembershipFacts
<1>6. ref' \in [Row -> 0 .. MaxIds] /\ idCount' \in Nat /\ idCount <= idCount' /\ id <= idCount'
  BY <1>1, MembershipFacts DEF TypeOK
<1> HIDE DEF mem
<1> QED
  BY <1>1, <1>3, <1>4, <1>5, <1>6, RecomputeKeepsMembership

LEMMA MergeKeepsMembership ==
    ASSUME MembershipInv, TypeOK', NEW ids \in SUBSET Id, NEW target \in ids, Merge(ids, target)
    PROVE  MembershipMirrorsRefs' /\ IdentitiesMatchMembers'
<1> DEFINE moved == UNION {members[id] : id \in ids \ {target}}
           mem   == [id \in Id |-> IF id = target THEN members[id] \cup moved
                                   ELSE IF id \in ids THEN {} ELSE members[id]]
<1>1. /\ Recompute(ids, mem) /\ idCount' = idCount /\ ids \subseteq liveIds
      /\ ref' = [r \in Row |-> IF r \in moved THEN target ELSE ref[r]]
  BY DEF Merge
<1>2. Indexable' = Indexable /\ Indexable \subseteq Row
  BY MembershipFacts DEF Merge, faceVars, Indexable, TypeOK
<1>3. \A r : r \in moved <=> r \in Indexable /\ ref[r] \in ids \ {target}
  BY MembershipFacts
<1>4. moved \subseteq Row
  BY <1>2, <1>3
<1> HIDE DEF moved
<1>5. mem \in [Id -> SUBSET Row]
  BY <1>4, MembershipFacts DEF TypeOK
<1>6. ASSUME NEW x \in Id
      PROVE  mem[x] = {r \in Indexable' : ref'[r] = x}
  <2>1. members[x] = {r \in Indexable : ref[r] = x}
    BY MembershipFacts
  <2>2. \A r \in Indexable : ref'[r] = IF r \in moved THEN target ELSE ref[r]
    BY <1>1, <1>2
  <2>3. CASE x = target
    BY <1>2, <1>3, <2>1, <2>2, <2>3
  <2>4. CASE x # target /\ x \in ids
    BY <1>2, <1>3, <2>1, <2>2, <2>4
  <2>5. CASE x \notin ids
    BY <1>2, <1>3, <2>1, <2>2, <2>5
  <2> QED
    BY <2>3, <2>4, <2>5
<1>7. \A r \in Row : ref'[r] # 0 => r \in Indexable'
  BY <1>1, <1>2, <1>3, MembershipFacts
<1>8. /\ ref' \in [Row -> 0 .. MaxIds] /\ idCount' \in Nat /\ idCount <= idCount'
      /\ \A id \in ids : id <= idCount'
  BY <1>1, MembershipFacts DEF TypeOK
<1>9. \A x \in Id \ ids : mem[x] = members[x]
  OBVIOUS
<1> HIDE DEF mem
<1> QED
  BY <1>1, <1>5, <1>6, <1>7, <1>8, <1>9, RecomputeKeepsMembership

LEMMA SplitKeepsMembership ==
    ASSUME MembershipInv, TypeOK', NEW id \in Id, NEW moving \in SUBSET {r \in Row : ref[r] = id},
           Split(id, moving)
    PROVE  MembershipMirrorsRefs' /\ IdentitiesMatchMembers'
<1> DEFINE nid == idCount + 1
           mem == [members EXCEPT ![id] = @ \ moving, ![nid] = moving]
<1>1. /\ Recompute({id, nid}, mem) /\ idCount' = nid /\ id \in liveIds /\ idCount < MaxIds
      /\ ref' = [r \in Row |-> IF r \in moving THEN nid ELSE ref[r]]
  BY DEF Split
<1>2. Indexable' = Indexable /\ Indexable \subseteq Row
  BY MembershipFacts DEF Split, faceVars, Indexable, TypeOK
<1>3. nid \in Id /\ nid \notin liveIds /\ nid # id /\ nid # 0
  BY <1>1, MembershipFacts, BoundsAssumption DEF Id
<1> HIDE DEF nid
<1>4. members \in [Id -> SUBSET Row]
  BY MembershipFacts DEF TypeOK
<1>5. /\ mem \in [Id -> SUBSET Row]
      /\ \A x \in Id : mem[x] = IF x = nid THEN moving
                                ELSE IF x = id THEN members[x] \ moving ELSE members[x]
  BY <1>3, <1>4
<1> HIDE DEF mem
<1>6. moving \subseteq Indexable /\ \A r \in moving : ref[r] = id
  BY MembershipFacts
<1>7. ASSUME NEW x \in Id
      PROVE  mem[x] = {r \in Indexable' : ref'[r] = x}
  <2>1. members[x] = {r \in Indexable : ref[r] = x}
    BY MembershipFacts
  <2>2. \A r \in Indexable : ref'[r] = IF r \in moving THEN nid ELSE ref[r]
    BY <1>1, <1>2
  <2>3. \A r \in Indexable : ref[r] # nid
    BY <1>2, <1>3, MembershipFacts
  <2> QED
    BY <1>2, <1>3, <1>5, <1>6, <2>1, <2>2, <2>3
<1>8. \A r \in Row : ref'[r] # 0 => r \in Indexable'
  BY <1>1, <1>2, <1>6, MembershipFacts
<1>9. /\ ref' \in [Row -> 0 .. MaxIds] /\ idCount' \in Nat /\ idCount <= idCount'
      /\ \A x \in {id, nid} : x <= idCount'
  BY <1>1, MembershipFacts DEF TypeOK, nid, Id
<1>10. \A x \in Id \ {id, nid} : mem[x] = members[x]
  BY <1>5
<1> QED
  BY <1>1, <1>3, <1>5, <1>7, <1>8, <1>9, <1>10, RecomputeKeepsMembership

LEMMA CurationKeepsMembership ==
    ASSUME MembershipInv, TypeOK', CurationStep
    PROVE  MembershipMirrorsRefs' /\ IdentitiesMatchMembers'
<1>1. ASSUME UNCHANGED <<faceVars, assignVars, idCount>>
      PROVE  MembershipMirrorsRefs' /\ IdentitiesMatchMembers'
  BY <1>1 DEF MembershipInv, MembershipMirrorsRefs, IdentitiesMatchMembers, Indexable,
              faceVars, assignVars
<1>2. ASSUME NEW id \in Id, Hide(id) \/ Unhide(id) \/ Rename(id)
      PROVE  MembershipMirrorsRefs' /\ IdentitiesMatchMembers'
  BY <1>1, <1>2 DEF Hide, Unhide, Rename
<1>3. ASSUME NEW r \in Row, UnassignFace(r)
      PROVE  MembershipMirrorsRefs' /\ IdentitiesMatchMembers'
  <2>1. Reassign({r}, NoJoin, {}) /\ NoJoin \in [{} -> liveIds \cup {0}] /\ idCount' = idCount
    BY <1>3 DEF UnassignFace, NoJoin
  <2>2. \A q \in Row : ref[q] # 0 /\ q \notin {r} => q \in Indexable'
    BY <1>3, MembershipFacts DEF UnassignFace, faceVars, Indexable
  <2> QED
    BY <2>1, <2>2, ReassignKeepsMembership
<1>4. ASSUME NEW r \in Row, NEW id \in Id, AssignFace(r, id)
      PROVE  MembershipMirrorsRefs' /\ IdentitiesMatchMembers'
  <2>1. CASE ref[r] = id
    BY <1>1, <1>4, <2>1 DEF AssignFace
  <2>2. CASE ref[r] # id
    <3>1. Reassign({r}, [q \in {r} |-> id], {}) /\ idCount' = idCount /\ id \in liveIds
      BY <1>4, <2>2 DEF AssignFace
    <3>2. [q \in {r} |-> id] \in [{r} -> liveIds \cup {0}]
      BY <3>1
    <3>3. Indexable' = Indexable /\ r \in Indexable
      BY <1>4 DEF AssignFace, faceVars, Indexable
    <3>4. \A q \in Row : ref[q] # 0 /\ q \notin {r} => q \in Indexable'
      BY <3>3, MembershipFacts
    <3>5. \A q \in {r} : q \in Indexable' /\ (ref[q] = 0 \/ q \in {r})
      BY <3>3
    <3> QED
      BY <3>1, <3>2, <3>4, <3>5, ReassignKeepsMembership
  <2> QED
    BY <2>1, <2>2
<1> QED
  BY <1>2, <1>3, <1>4, DissolveKeepsMembership, MergeKeepsMembership, SplitKeepsMembership
  DEF CurationStep

(* Labels cover every row, so the rebuilt lists mirror the new refs.       *)
LEMMA ClusterKeepsMembership ==
    ASSUME MembershipInv, TypeOK', ClusterOnce
    PROVE  MembershipMirrorsRefs' /\ IdentitiesMatchMembers'
<1>0. PICK root \in Groupings(Snapshot) :
        \E fid \in [Roots(root) -> Id] : ApplyLabels(Labels(Snapshot, root, fid))
  BY DEF ClusterOnce
<1>1. PICK fid \in [Roots(root) -> Id] : ApplyLabels(Labels(Snapshot, root, fid))
  BY <1>0
<1> DEFINE labels == Labels(Snapshot, root, fid)
<1>2. labels \in [0 .. (faceCount - 1) -> 0 .. MaxIds]
  BY <1>0, <1>1, LabelsType, SnapshotRows, MembershipFacts
<1>3. \A r \in Row : r \in DOMAIN labels /\ labels[r] # 0 => r \in Indexable
  BY DEF Labels, Snapshot, SnapshotOf
<1> HIDE DEF labels
<1>4. PICK count \in SlotsFor(labels) :
        LET newRef   == [r \in Row |-> IF r \in DOMAIN labels \cap liveFaces THEN labels[r] ELSE ref[r]]
            mem      == [id \in Id |-> {r \in Indexable : newRef[r] = id}]
            appended == (idCount + 1) .. count
        IN  /\ idCount' = count
            /\ ref' = newRef
            /\ Recompute({id \in 1 .. count : mem[id] # {} \/ id \in liveIds \cup appended}, mem)
            /\ UNCHANGED <<imageVars, faceVars, indexVars, hiddenVars, pinned>>
  BY <1>1 DEF ApplyLabels, labels
<1> DEFINE mem     == [id \in Id |-> {r \in Indexable : ref'[r] = id}]
           touched == {id \in 1 .. count : mem[id] # {} \/ id \in liveIds \cup ((idCount + 1) .. count)}
<1>5. Recompute(touched, mem) /\ idCount' = count
  BY <1>4
<1>6. /\ count \in Nat /\ idCount <= count /\ count <= MaxIds
      /\ \A r \in DOMAIN labels : labels[r] <= count
  BY BoundsAssumption, MembershipFacts DEF SlotsFor
<1>7. \A r \in Row : ref'[r] = IF r \in DOMAIN labels \cap liveFaces THEN labels[r] ELSE ref[r]
  BY <1>4
<1>8. Indexable' = Indexable /\ Indexable \subseteq Row
  BY <1>4, MembershipFacts DEF faceVars, Indexable, TypeOK
<1>9. touched \in SUBSET Id /\ mem \in [Id -> SUBSET Row] /\ \A id \in touched : id <= idCount'
  BY <1>5, <1>6, <1>8, BoundsAssumption DEF Id
<1>10. \A r \in Row : ref'[r] # 0 => r \in Indexable'
  BY <1>3, <1>7, <1>8, MembershipFacts
<1>11. \A id \in Id : mem[id] = {r \in Indexable' : ref'[r] = id}
  BY <1>8
<1>12. ASSUME NEW id \in Id \ touched
       PROVE  mem[id] = members[id]
  <2>1. id \in Nat /\ id >= 1
    BY BoundsAssumption DEF Id
  <2>2. id \notin liveIds
    BY <1>6, <2>1, MembershipFacts
  <2>3. members[id] = {}
    BY <2>2, MembershipFacts
  <2>4. CASE id <= count
    BY <1>6, <2>1, <2>3, <2>4
  <2>5. CASE ~(id <= count)
    <3>1. ASSUME NEW r \in Indexable, ref'[r] = id
          PROVE  FALSE
      <4>1. r \in Row /\ r \in liveFaces
        BY <1>8 DEF Indexable
      <4>2. CASE r \in DOMAIN labels
        BY <1>6, <1>7, <2>5, <3>1, <4>1, <4>2
      <4>3. CASE r \notin DOMAIN labels
        BY <1>7, <2>1, <2>2, <3>1, <4>1, <4>3, MembershipFacts
      <4> QED
        BY <4>2, <4>3
    <3> QED
      BY <2>3, <3>1
  <2> QED
    BY <2>4, <2>5
<1>13. ref' \in [Row -> 0 .. MaxIds] /\ idCount' \in Nat /\ idCount <= idCount'
  BY <1>5, <1>6 DEF TypeOK
<1> HIDE DEF mem, touched
<1> QED
  BY <1>5, <1>9, <1>10, <1>11, <1>12, <1>13, RecomputeKeepsMembership

(* A start recomputes only identities whose stored size is wrong: enough,  *)
(* since repairing refs can only shorten a list.                           *)
LEMMA LoadKeepsMembership ==
    ASSUME MembershipInv, TypeOK', NEW low \in SUBSET Row, Load(low)
    PROVE  MembershipMirrorsRefs' /\ IdentitiesMatchMembers'
<1> DEFINE mem     == [id \in Id |-> {r \in liveFaces : ref'[r] = id}]
           touched == {id \in liveIds : size[id] # Cardinality(mem[id])}
<1>1. /\ Recompute(touched, mem) /\ idCount' = idCount
      /\ ref' = [r \in Row |-> IF r \in liveFaces /\ (r \in low \cup lowQuality \/ ref[r] \notin liveIds)
                               THEN 0 ELSE ref[r]]
  BY DEF Load
<1>2. Indexable' = liveFaces \ low /\ liveFaces \subseteq Row
  BY MembershipFacts DEF Load, Indexable, TypeOK
<1>3. \A r \in Row : ref'[r] # 0 => r \in Indexable /\ r \in Indexable' /\ ref'[r] = ref[r]
  BY <1>1, <1>2, MembershipFacts DEF Indexable
<1>4. mem \in [Id -> SUBSET Row]
  BY <1>2
<1>5. ASSUME NEW id \in Id
      PROVE  mem[id] = {r \in Indexable' : ref'[r] = id} /\ mem[id] \subseteq members[id]
  BY <1>2, <1>3, MembershipFacts
<1>6. ASSUME NEW id \in Id \ touched
      PROVE  mem[id] = members[id]
  <2>1. mem[id] \subseteq members[id] /\ members[id] \in SUBSET Row
    BY <1>5, MembershipFacts DEF TypeOK
  <2>2. CASE id \notin liveIds
    BY <2>1, <2>2, MembershipFacts
  <2>3. CASE id \in liveIds
    <3>1. Cardinality(mem[id]) = Cardinality(members[id])
      BY <2>3 DEF MembershipInv, IdentitiesMatchMembers
    <3>2. IsFiniteSet(members[id])
      BY <2>1, RowsCounted
    <3> HIDE DEF mem
    <3> QED
      BY <2>1, <3>1, <3>2, FS_Subset
  <2> QED
    BY <2>2, <2>3
<1>7. /\ ref' \in [Row -> 0 .. MaxIds] /\ idCount' \in Nat /\ idCount <= idCount'
      /\ touched \in SUBSET Id /\ \A id \in touched : id <= idCount'
  BY <1>1, MembershipFacts DEF TypeOK
<1> HIDE DEF mem, touched
<1> QED
  BY <1>1, <1>3, <1>4, <1>5, <1>6, <1>7, RecomputeKeepsMembership

LEMMA MembershipStep ==
    ASSUME MembershipInv, TypeOK', [Next]_vars
    PROVE  MembershipMirrorsRefs' /\ IdentitiesMatchMembers'
<1>1. CASE IngestStep
  BY <1>1, InsertKeepsMembership, UpgradeKeepsMembership, UpgradeThrowsKeepsMembership DEF IngestStep
<1>2. CASE RemoveStep
  BY <1>2, RemoveKeepsMembership DEF RemoveStep
<1>3. CASE CurationStep
  BY <1>3, CurationKeepsMembership
<1>4. CASE ClusterOnce
  BY <1>4, ClusterKeepsMembership
<1>5. CASE Restart
  BY <1>5, LoadKeepsMembership, MembershipFacts DEF Restart, TypeOK
<1>6. ASSUME NEW low \in SUBSET liveFaces, Reindex(low)
      PROVE  MembershipMirrorsRefs' /\ IdentitiesMatchMembers'
  <2>1. low \cup (lowQuality \ liveFaces) \in SUBSET Row
    BY MembershipFacts DEF TypeOK
  <2>2. Load(low \cup (lowQuality \ liveFaces))
    BY <1>6 DEF Reindex
  <2> QED
    BY <2>1, <2>2, LoadKeepsMembership
<1>7. CASE UNCHANGED vars
  BY <1>7 DEF MembershipInv, MembershipMirrorsRefs, IdentitiesMatchMembers, Indexable, vars,
              faceVars, assignVars
<1> QED
  BY <1>1, <1>2, <1>3, <1>4, <1>5, <1>6, <1>7 DEF Next, RestartStep

LEMMA MembershipInvariant == Spec => []MembershipInv
<1>1. Init => MembershipInv
  <2> SUFFICES ASSUME Init PROVE MembershipInv
    OBVIOUS
  <2>1. PhotosInv
    BY BoundsAssumption DEF Init, PhotosInv, PhotosConsistent, TypeOK, ImageId
  <2>2. MembershipMirrorsRefs
    BY DEF Init, MembershipMirrorsRefs, Indexable
  <2>3. IdentitiesMatchMembers
    BY FS_EmptySet DEF Init, IdentitiesMatchMembers
  <2> QED
    BY <2>1, <2>2, <2>3 DEF MembershipInv
<1>2. TypeOK' /\ MembershipInv /\ [Next]_vars => MembershipInv'
  BY MembershipStep, PhotosStep DEF MembershipInv, PhotosInv
<1> QED
  BY <1>1, <1>2, TypeCorrect, PTL DEF Spec

(* An identity lists exactly the indexable faces whose row refers to it,   *)
(* and no row refers to a dead identity, whatever was ingested, deleted,   *)
(* curated, clustered, reindexed or restarted before.                      *)
THEOREM MembershipCorrect == Spec => []MembershipMirrorsRefs
<1>1. MembershipInv => MembershipMirrorsRefs
  BY DEF MembershipInv
<1> QED
  BY <1>1, MembershipInvariant, PTL

(* An identity is live exactly while it has faces, and its stored size,    *)
(* which the next start trusts, is their number.                           *)
THEOREM IdentitiesCorrect == Spec => []IdentitiesMatchMembers
<1>1. MembershipInv => IdentitiesMatchMembers
  BY DEF MembershipInv
<1> QED
  BY <1>1, MembershipInvariant, PTL

-----------------------------------------------------------------------------
(* Identities that died *)

LEMMA ReassignRevivesNone ==
    ASSUME MembershipInv, NEW out \in SUBSET Row, NEW rows,
           NEW joined \in [rows -> liveIds \cup {0}], NEW refreshed \in SUBSET liveIds,
           Reassign(out, joined, refreshed)
    PROVE  liveIds' \subseteq liveIds
<1>1. \A r \in Row : ref[r] # 0 => ref[r] \in liveIds
  BY MembershipFacts
<1>2. Touched(out, joined) \cup refreshed \subseteq liveIds
  BY <1>1 DEF Touched
<1> QED
  BY <1>2 DEF Reassign, Recompute

LEMMA IngestRevivesNone ==
    ASSUME MembershipInv, IngestStep
    PROVE  liveIds' \subseteq liveIds /\ idCount' = idCount
<1>1. ASSUME NEW s \in UnknownSha, NEW k \in Appended(1), NEW low \in SUBSET NewRows(k),
             NEW join \in JoinChoices(NewRows(k), low), Insert(s, k, low, join)
      PROVE  liveIds' \subseteq liveIds /\ idCount' = idCount
  <2>1. Reassign({}, join, {}) /\ join \in [NewRows(k) -> liveIds \cup {0}] /\ idCount' = idCount
    BY <1>1, JoinChoiceType DEF Insert
  <2> QED
    BY <2>1, ReassignRevivesNone
<1>2. ASSUME NEW s \in UnknownSha, NEW i \in liveImages, NEW k \in Appended(0),
             NEW kept \in SUBSET imageFaces[i], NEW low \in SUBSET (kept \cup NewRows(k)),
             NEW join \in JoinChoices(kept \cup NewRows(k), low),
             Upgrade(i, s, kept, k, low, join)
      PROVE  liveIds' \subseteq liveIds /\ idCount' = idCount
  <2> DEFINE out     == (kept \cap low) \cup (imageFaces[i] \ kept)
             staying == {ref[r] : r \in kept \ low} \ {0}
  <2>1. Reassign(out, join, staying) /\ join \in [kept \cup NewRows(k) -> liveIds \cup {0}]
        /\ idCount' = idCount
    BY <1>2, JoinChoiceType DEF Upgrade
  <2>2. imageFaces[i] \in SUBSET Row
    BY MembershipFacts DEF TypeOK
  <2>3. out \in SUBSET Row /\ staying \in SUBSET liveIds
    BY <2>2, MembershipFacts
  <2> HIDE DEF out, staying
  <2> QED
    BY <2>1, <2>3, ReassignRevivesNone
<1>3. ASSUME NEW s \in UnknownSha, NEW i \in liveImages,
             NEW bad \in imageFaces[i] \cap lowQuality \cap indexed,
             NEW done \in SUBSET (imageFaces[i] \ {bad}), NEW low \in SUBSET done,
             NEW join \in JoinChoices(done, low),
             UpgradeThrows(i, s, done, bad, low, join)
      PROVE  liveIds' \subseteq liveIds /\ idCount' = idCount
  <2>1. Reassign(done \cap low, join, {}) /\ join \in [done -> liveIds \cup {0}] /\ idCount' = idCount
    BY <1>3, JoinChoiceType DEF UpgradeThrows
  <2>2. done \cap low \in SUBSET Row
    BY MembershipFacts DEF TypeOK
  <2> QED
    BY <2>1, <2>2, ReassignRevivesNone
<1> QED
  BY <1>1, <1>2, <1>3 DEF IngestStep

LEMMA ClusterRevivesNone ==
    ASSUME MembershipInv, ClusterOnce
    PROVE  /\ idCount' \in Nat /\ idCount <= idCount'
           /\ \A id \in liveIds' : id \in liveIds \/ id > idCount
<1>1. PICK root \in Groupings(Snapshot) :
        \E pos \in Orders(Snapshot, root), fid \in [Roots(root) -> Id] :
            /\ NamedBy(Snapshot, root, pos, idCount + 1, fid)
            /\ ApplyLabels(Labels(Snapshot, root, fid))
  BY DEF ClusterOnce
<1>2. PICK pos \in Orders(Snapshot, root), fid \in [Roots(root) -> Id] :
            /\ NamedBy(Snapshot, root, pos, idCount + 1, fid)
            /\ ApplyLabels(Labels(Snapshot, root, fid))
  BY <1>1
<1> DEFINE labels == Labels(Snapshot, root, fid)
<1>3. labels \in [0 .. (faceCount - 1) -> 0 .. MaxIds]
  BY <1>1, <1>2, LabelsType, SnapshotRows, MembershipFacts
<1>4. ASSUME NEW c \in Roots(root), fid[c] # 0
      PROVE  fid[c] \in liveIds \/ fid[c] > idCount
  <2>1. \/ \E r \in Indexable : fid[c] = ref[r]
        \/ fid[c] >= idCount + 1
    BY <1>2, NamesAreRefsOrFresh, SnapshotRows, MembershipFacts
  <2>2. Indexable \subseteq Row /\ fid[c] \in Nat
    BY <1>2, SnapshotRows, MembershipFacts DEF Id
  <2> QED
    BY <1>4, <2>1, <2>2, MembershipFacts
<1>5. ASSUME NEW r \in 0 .. (faceCount - 1), labels[r] # 0
      PROVE  labels[r] \in liveIds \/ labels[r] > idCount
  <2>1. r \in Snapshot.rows
    BY SnapshotRows, MembershipFacts
  <2>2. root[r] \in Roots(root) /\ labels[r] = fid[root[r]]
    BY <1>5, <2>1, LabelsType
  <2> QED
    BY <1>4, <1>5, <2>2
<1> HIDE DEF labels
<1>6. PICK count \in SlotsFor(labels) :
        LET newRef   == [r \in Row |-> IF r \in DOMAIN labels \cap liveFaces THEN labels[r] ELSE ref[r]]
            mem      == [id \in Id |-> {r \in Indexable : newRef[r] = id}]
            appended == (idCount + 1) .. count
        IN  /\ idCount' = count
            /\ ref' = newRef
            /\ Recompute({id \in 1 .. count : mem[id] # {} \/ id \in liveIds \cup appended}, mem)
            /\ UNCHANGED <<imageVars, faceVars, indexVars, hiddenVars, pinned>>
  BY <1>2 DEF ApplyLabels, labels
<1> DEFINE mem     == [id \in Id |-> {r \in Indexable : ref'[r] = id}]
           touched == {id \in 1 .. count : mem[id] # {} \/ id \in liveIds \cup ((idCount + 1) .. count)}
<1>7. liveIds' = (liveIds \ touched) \cup {id \in touched : mem[id] # {}} /\ idCount' = count
  BY <1>6 DEF Recompute
<1>8. count \in Nat /\ idCount <= count /\ count <= MaxIds
  BY BoundsAssumption, MembershipFacts DEF SlotsFor
<1>9. ASSUME NEW id \in liveIds', id \notin liveIds
      PROVE  id > idCount
  <2>1. id \in Id /\ mem[id] # {}
    BY <1>7, <1>8, <1>9, BoundsAssumption DEF Id
  <2>2. PICK r \in Indexable : ref'[r] = id
    BY <2>1
  <2>3. r \in Row /\ r \in liveFaces /\ r \in 0 .. (faceCount - 1)
    BY <2>2, MembershipFacts DEF Indexable, PhotosConsistent, TypeOK, Row
  <2>4. ref'[r] = labels[r]
    BY <1>3, <1>6, <2>3
  <2>5. id # 0
    BY <2>1, MembershipFacts
  <2> QED
    BY <1>5, <1>9, <2>2, <2>3, <2>4, <2>5
<1> QED
  BY <1>7, <1>8, <1>9

(* No handler makes a dead identity live again.                            *)
LEMMA RevivesNone ==
    ASSUME MembershipInv, [Next]_vars
    PROVE  /\ idCount' \in Nat /\ idCount <= idCount'
           /\ \A id \in liveIds' : id \in liveIds \/ id > idCount
<1>0. idCount \in Nat /\ liveIds \subseteq Id /\ Id \subseteq Nat
  BY MembershipFacts DEF Id
<1>1. ASSUME liveIds' \subseteq liveIds, idCount' = idCount
      PROVE  /\ idCount' \in Nat /\ idCount <= idCount'
             /\ \A id \in liveIds' : id \in liveIds \/ id > idCount
  BY <1>0, <1>1
<1>2. CASE IngestStep
  BY <1>1, <1>2, IngestRevivesNone
<1>3. ASSUME NEW i \in ImageId, RemoveImage(i)
      PROVE  liveIds' \subseteq liveIds /\ idCount' = idCount
  <2>1. Reassign(imageFaces[i], NoJoin, {}) /\ NoJoin \in [{} -> liveIds \cup {0}] /\ idCount' = idCount
    BY <1>3 DEF RemoveImage, NoJoin
  <2>2. imageFaces[i] \in SUBSET Row
    BY MembershipFacts DEF TypeOK
  <2> QED
    BY <2>1, <2>2, ReassignRevivesNone
<1>4. ASSUME NEW id \in Id, Hide(id) \/ Unhide(id) \/ Rename(id) \/ Dissolve(id)
      PROVE  liveIds' \subseteq liveIds /\ idCount' = idCount
  BY <1>4 DEF Hide, Unhide, Rename, Dissolve, assignVars, Recompute
<1>5. ASSUME NEW ids \in SUBSET Id, NEW target \in ids, Merge(ids, target)
      PROVE  liveIds' \subseteq liveIds /\ idCount' = idCount
  BY <1>5 DEF Merge, Recompute
<1>6. ASSUME NEW id \in Id, NEW moving, Split(id, moving)
      PROVE  idCount' = idCount + 1 /\ liveIds' \subseteq liveIds \cup {idCount + 1}
  BY <1>6 DEF Split, Recompute
<1>7. ASSUME NEW r \in Row, UnassignFace(r)
      PROVE  liveIds' \subseteq liveIds /\ idCount' = idCount
  <2>1. Reassign({r}, NoJoin, {}) /\ NoJoin \in [{} -> liveIds \cup {0}] /\ idCount' = idCount
    BY <1>7 DEF UnassignFace, NoJoin
  <2> QED
    BY <2>1, ReassignRevivesNone
<1>8. ASSUME NEW r \in Row, NEW id \in Id, AssignFace(r, id)
      PROVE  liveIds' \subseteq liveIds /\ idCount' = idCount
  <2>1. CASE ref[r] = id
    BY <1>8, <2>1 DEF AssignFace, assignVars
  <2>2. CASE ref[r] # id
    <3>1. Reassign({r}, [q \in {r} |-> id], {}) /\ id \in liveIds /\ idCount' = idCount
      BY <1>8, <2>2 DEF AssignFace
    <3> QED
      BY <3>1, ReassignRevivesNone
  <2> QED
    BY <2>1, <2>2
<1>9. ASSUME NEW low, Load(low)
      PROVE  liveIds' \subseteq liveIds /\ idCount' = idCount
  BY <1>9 DEF Load, Recompute
<1>10. CASE CurationStep
  <2>1. \/ liveIds' \subseteq liveIds /\ idCount' = idCount
        \/ idCount' = idCount + 1 /\ liveIds' \subseteq liveIds \cup {idCount + 1}
    BY <1>4, <1>5, <1>6, <1>7, <1>8, <1>10 DEF CurationStep
  <2> QED
    BY <1>0, <1>1, <2>1
<1>11. CASE ClusterOnce
  BY <1>11, ClusterRevivesNone
<1>12. CASE RemoveStep
  BY <1>1, <1>3, <1>12 DEF RemoveStep
<1>13. CASE RestartStep
  BY <1>1, <1>9, <1>13 DEF RestartStep, Restart, Reindex
<1>14. CASE UNCHANGED vars
  BY <1>1, <1>14 DEF vars, assignVars
<1> QED
  BY <1>2, <1>10, <1>11, <1>12, <1>13, <1>14 DEF Next

(* The id of a dissolved, merged or emptied identity stays dead.           *)
THEOREM DeadStayDead == Spec => DeadIdsStayDead
<1>1. MembershipInv /\ [Next]_vars
        => [\A id \in 1 .. idCount : id \notin liveIds => id \notin liveIds']_vars
  <2> SUFFICES ASSUME MembershipInv, [Next]_vars, NEW id \in 1 .. idCount, id \in liveIds'
               PROVE  id \in liveIds
    OBVIOUS
  <2> QED
    BY RevivesNone, MembershipFacts
<1> QED
  BY <1>1, MembershipInvariant, PTL DEF Spec, DeadIdsStayDead

-----------------------------------------------------------------------------
(* Hidden people *)

(* HiddenFacesSuppressed is not inductive: hidden_count_ must be the       *)
(* number of entries of hidden_ that are set, and an id not handed out yet *)
(* must not carry the flag.  Dead identities may keep both.                *)
HiddenInv ==
    /\ hiddenMask \subseteq hidden
    /\ hiddenMask \cap liveIds = hidden \cap liveIds
    /\ hiddenCount = Cardinality(hiddenMask)
    /\ \A id \in hidden : id <= idCount

LEMMA HiddenStep ==
    ASSUME MembershipInv, HiddenInv, [Next]_vars
    PROVE  HiddenInv'
<1>0. /\ hiddenMask \in SUBSET Id /\ hidden \in SUBSET Id /\ Id \subseteq Nat
      /\ IsFiniteSet(hiddenMask) /\ Cardinality(hiddenMask) \in Nat
      /\ idCount \in Nat /\ idCount' \in Nat /\ idCount <= idCount'
      /\ \A id \in liveIds' : id \in liveIds \/ id > idCount
  <2>1. hiddenMask \in SUBSET Id /\ hidden \in SUBSET Id /\ Id \subseteq Nat /\ idCount \in Nat
    BY MembershipFacts DEF TypeOK, Id
  <2> QED
    BY <2>1, IdsCounted, FS_CardinalityType, RevivesNone
<1>1. ASSUME UNCHANGED hiddenVars
      PROVE  HiddenInv'
  <2>1. hidden' = hidden /\ hiddenMask' = hiddenMask /\ hiddenCount' = hiddenCount
    BY <1>1 DEF hiddenVars
  <2>2. \A id \in hidden : id \in Nat /\ id <= idCount
    BY <1>0 DEF HiddenInv
  <2>3. \A id \in hidden : id \in liveIds' => id \in liveIds
    BY <1>0, <2>2
  <2>4. hiddenMask \cap liveIds' = hidden \cap liveIds'
    BY <2>3 DEF HiddenInv
  <2>5. \A id \in hidden : id <= idCount'
    BY <1>0, <2>2
  <2> QED
    BY <2>1, <2>4, <2>5 DEF HiddenInv
<1>2. CASE IngestStep
  <2>1. ASSUME NEW s, NEW k, NEW low, NEW join, Insert(s, k, low, join)
        PROVE  UNCHANGED hiddenVars
    BY <2>1 DEF Insert
  <2>2. ASSUME NEW s, NEW i, NEW k, NEW kept, NEW low, NEW join, Upgrade(i, s, kept, k, low, join)
        PROVE  UNCHANGED hiddenVars
    BY <2>2 DEF Upgrade
  <2>3. ASSUME NEW s, NEW i, NEW done, NEW bad, NEW low, NEW join,
               UpgradeThrows(i, s, done, bad, low, join)
        PROVE  UNCHANGED hiddenVars
    BY <2>3 DEF UpgradeThrows
  <2> QED
    BY <1>1, <1>2, <2>1, <2>2, <2>3 DEF IngestStep
<1>3. CASE RemoveStep
  BY <1>1, <1>3 DEF RemoveStep, RemoveImage
<1>4. ASSUME NEW id \in Id, Hide(id)
      PROVE  HiddenInv'
  <2>1. /\ id \in liveIds /\ hidden' = hidden \cup {id} /\ hiddenMask' = hiddenMask \cup {id}
        /\ hiddenCount' = IF id \in hidden THEN hiddenCount ELSE Incremented(hiddenCount)
        /\ liveIds' = liveIds /\ idCount' = idCount
    BY <1>4 DEF Hide, assignVars
  <2>2. id <= idCount
    BY <2>1, MembershipFacts
  <2>3. Cardinality(hiddenMask') = IF id \in hiddenMask THEN hiddenCount ELSE hiddenCount + 1
    BY <1>0, <2>1, FS_AddElement DEF HiddenInv
  <2>4. hiddenMask' \in SUBSET Id
    BY <1>0, <2>1
  <2>5. Cardinality(hiddenMask') \in 0 .. CountMax
    <3>1. Cardinality(hiddenMask') \in 0 .. MaxIds
      BY <2>4, IdsCounted
    <3> QED
      BY <3>1, BoundsAssumption
  <2>6. hiddenCount' = Cardinality(hiddenMask')
    <3>1. id \in hidden <=> id \in hiddenMask
      BY <2>1 DEF HiddenInv
    <3>2. id \notin hidden => hiddenCount # CountMax
      BY <1>0, <2>3, <2>5, <3>1, BoundsAssumption DEF HiddenInv
    <3> QED
      BY <2>1, <2>3, <3>1, <3>2 DEF Incremented
  <2> QED
    BY <2>1, <2>2, <2>6 DEF HiddenInv
<1>5. ASSUME NEW id \in Id, Unhide(id)
      PROVE  HiddenInv'
  <2>1. /\ id \in liveIds /\ hidden' = hidden \ {id} /\ hiddenMask' = hiddenMask \ {id}
        /\ hiddenCount' = IF id \in hidden THEN Decremented(hiddenCount) ELSE hiddenCount
        /\ liveIds' = liveIds /\ idCount' = idCount
    BY <1>5 DEF Unhide, assignVars
  <2>2. Cardinality(hiddenMask') = IF id \in hiddenMask THEN hiddenCount - 1 ELSE hiddenCount
    BY <1>0, <2>1, FS_RemoveElement DEF HiddenInv
  <2>3. id \in hidden <=> id \in hiddenMask
    BY <2>1 DEF HiddenInv
  <2>4. id \in hidden => hiddenCount # 0
    BY <1>0, <2>3, FS_EmptySet DEF HiddenInv
  <2>5. hiddenCount' = Cardinality(hiddenMask')
    BY <2>1, <2>2, <2>3, <2>4 DEF Decremented
  <2> QED
    BY <2>1, <2>5 DEF HiddenInv
<1>6. CASE CurationStep
  <2>1. ASSUME NEW id \in Id, Rename(id) \/ Dissolve(id)
        PROVE  UNCHANGED hiddenVars
    BY <2>1 DEF Rename, Dissolve
  <2>2. ASSUME NEW ids, NEW target, Merge(ids, target)
        PROVE  UNCHANGED hiddenVars
    BY <2>2 DEF Merge
  <2>3. ASSUME NEW id, NEW moving, Split(id, moving)
        PROVE  UNCHANGED hiddenVars
    BY <2>3 DEF Split
  <2>4. ASSUME NEW r, NEW id, UnassignFace(r) \/ AssignFace(r, id)
        PROVE  UNCHANGED hiddenVars
    BY <2>4 DEF UnassignFace, AssignFace
  <2> QED
    BY <1>1, <1>4, <1>5, <1>6, <2>1, <2>2, <2>3, <2>4 DEF CurationStep
<1>7. CASE ClusterOnce
  BY <1>1, <1>7 DEF ClusterOnce, ApplyLabels
<1>8. ASSUME hidden' = hidden, hiddenCount' = Cardinality(hiddenMask'),
             \/ hiddenMask' = hidden \cap liveIds /\ liveIds' \subseteq liveIds
             \/ hiddenMask' = hidden \cap liveIds'
      PROVE  HiddenInv'
  BY <1>0, <1>8 DEF HiddenInv
<1>9. CASE Restart
  <2>1. hidden' = hidden /\ liveIds' \subseteq liveIds
    BY <1>9 DEF Restart, Load, Recompute
  <2>2. hiddenMask' = hidden \cap liveIds /\ hiddenCount' = Cardinality(hidden \cap liveIds)
    BY <1>9 DEF Restart
  <2> QED
    BY <1>8, <2>1, <2>2
<1>10. ASSUME NEW low, Reindex(low)
       PROVE  HiddenInv'
  BY <1>8, <1>10 DEF Reindex, Load
<1>11. CASE UNCHANGED vars
  BY <1>1, <1>11 DEF vars
<1> QED
  BY <1>2, <1>3, <1>6, <1>7, <1>9, <1>10, <1>11 DEF Next, RestartStep

(* Every face of a hidden identity is suppressed and no other face is,     *)
(* also for faces that join it later and after it, or another hidden       *)
(* identity, died.                                                         *)
THEOREM HiddenCorrect == Spec => []HiddenFacesSuppressed
<1>1. Init => HiddenInv
  BY FS_EmptySet DEF Init, HiddenInv
<1>2. MembershipInv /\ HiddenInv /\ [Next]_vars => HiddenInv'
  BY HiddenStep
<1>3. MembershipInv /\ HiddenInv => HiddenFacesSuppressed
  <2> SUFFICES ASSUME MembershipInv, HiddenInv, NEW r \in liveFaces
               PROVE  RowHidden(r) <=> ref[r] \in hidden \cap liveIds
    BY DEF HiddenFacesSuppressed
  <2>1. r \in Row /\ hiddenMask \in SUBSET Id /\ 0 \notin Id
    BY MembershipFacts DEF TypeOK
  <2>2. ref[r] \in hiddenMask => ref[r] \in liveIds
    BY <2>1, MembershipFacts
  <2>3. hiddenMask # {} => hiddenCount # 0
    BY <2>1, IdsCounted, FS_EmptySet DEF HiddenInv
  <2> QED
    BY <2>2, <2>3 DEF HiddenInv, RowHidden
<1> QED
  BY <1>1, <1>2, <1>3, MembershipInvariant, PTL DEF Spec

-----------------------------------------------------------------------------
(* Pinned people *)

LEMMA ClusterKeepsPinned ==
    ASSUME MembershipInv, ClusterOnce, NEW r \in Indexable, ref[r] \in pinned
    PROVE  ref'[r] = ref[r]
<1>1. PICK root \in Groupings(Snapshot) :
        \E pos \in Orders(Snapshot, root), fid \in [Roots(root) -> Id] :
            /\ NamedBy(Snapshot, root, pos, idCount + 1, fid)
            /\ ApplyLabels(Labels(Snapshot, root, fid))
  BY DEF ClusterOnce
<1>2. PICK pos \in Orders(Snapshot, root), fid \in [Roots(root) -> Id] :
            /\ NamedBy(Snapshot, root, pos, idCount + 1, fid)
            /\ ApplyLabels(Labels(Snapshot, root, fid))
  BY <1>1
<1> DEFINE labels == Labels(Snapshot, root, fid)
<1>3. r \in Row /\ ref[r] \in liveIds /\ r \in liveFaces /\ r \in 0 .. (faceCount - 1)
  <2>1. pinned \in SUBSET Id /\ 0 \notin Id
    BY MembershipFacts DEF TypeOK
  <2>2. r \in Row /\ r \in liveFaces
    BY MembershipFacts DEF Indexable, TypeOK
  <2>3. r \in 0 .. (faceCount - 1)
    BY <2>2, MembershipFacts DEF PhotosConsistent, TypeOK, Row
  <2> QED
    BY <2>1, <2>2, <2>3, MembershipFacts
<1>4. labels[r] = ref[r]
  <2>1. /\ r \in Snapshot.eligible \cap Snapshot.rows /\ Snapshot.pinned \in SUBSET Id
        /\ Snapshot.ref[r] = ref[r] /\ Snapshot.ref[r] \in Snapshot.pinned
    BY <1>3, SnapshotRows, MembershipFacts
  <2> QED
    BY <1>2, <2>1, PinnedGroupsKeepTheirId
<1>5. DOMAIN labels = 0 .. (faceCount - 1)
  BY SnapshotRows, MembershipFacts DEF Labels
<1> HIDE DEF labels
<1>6. ref'[r] = IF r \in DOMAIN labels \cap liveFaces THEN labels[r] ELSE ref[r]
  BY <1>2, <1>3 DEF ApplyLabels, labels
<1> QED
  BY <1>3, <1>4, <1>5, <1>6

(* Only an operator takes a face out of a pinned identity: ingest,         *)
(* upgrades, deletion, undisturbed clustering, reindexing and restarts     *)
(* leave every face that stays indexable where it is.                      *)
THEOREM PinnedFacesKept == Spec => AutomationKeepsPinnedFaces
<1>1. ASSUME MembershipInv, [Next]_vars, NEW r \in Indexable, r \in Indexable',
             ref[r] \in pinned, ref'[r] # ref[r]
      PROVE  CurationStep
  <2>1. r \in Row /\ r \in liveFaces /\ r \notin lowQuality /\ ref[r] # 0 /\ ref[r] \in liveIds
    <3>1. pinned \in SUBSET Id /\ 0 \notin Id /\ liveFaces \in SUBSET Row
      BY <1>1, MembershipFacts DEF TypeOK
    <3>2. r \in liveFaces /\ r \notin lowQuality
      BY DEF Indexable
    <3> QED
      BY <1>1, <3>1, <3>2, MembershipFacts
  <2>2. ASSUME NEW s \in UnknownSha, NEW k \in Appended(1), NEW low \in SUBSET NewRows(k),
               NEW join \in JoinChoices(NewRows(k), low), Insert(s, k, low, join)
        PROVE  ref'[r] = ref[r]
    <3>1. k \in Nat /\ faceCount + k <= MaxFaces
      BY BoundsAssumption DEF Appended
    <3>2. NewRows(k) \cap liveFaces = {}
      BY <3>1, <1>1, NewRowsAreFresh DEF MembershipInv
    <3> QED
      BY <2>1, <2>2, <3>2, JoinChoiceType DEF Insert, Reassign, RefsAfter
  <2>3. ASSUME NEW s \in UnknownSha, NEW i \in liveImages, NEW k \in Appended(0),
               NEW kept \in SUBSET imageFaces[i], NEW low \in SUBSET (kept \cup NewRows(k)),
               NEW join \in JoinChoices(kept \cup NewRows(k), low),
               Upgrade(i, s, kept, k, low, join)
        PROVE  ref'[r] = ref[r]
    <3>1. k \in Nat /\ faceCount + k <= MaxFaces
      BY BoundsAssumption DEF Appended
    <3>2. NewRows(k) \cap liveFaces = {}
      BY <3>1, <1>1, NewRowsAreFresh DEF MembershipInv
    <3>3. r \notin (kept \cap low) \cup (imageFaces[i] \ kept)
      BY <1>1, <2>1, <2>3, <3>2 DEF Upgrade, Indexable
    <3>4. r \in kept => join[r] = 0
      BY <2>1, <2>3 DEF Upgrade, RemapJoins
    <3>5. DOMAIN join = kept \cup NewRows(k)
      BY JoinChoiceType
    <3> QED
      BY <2>1, <2>3, <3>2, <3>3, <3>4, <3>5 DEF Upgrade, Reassign, RefsAfter
  <2>4. ASSUME NEW s, NEW i, NEW bad, NEW done, NEW low, NEW join \in JoinChoices(done, low),
               UpgradeThrows(i, s, done, bad, low, join)
        PROVE  ref'[r] = ref[r]
    <3>1. r \notin done \cap low
      BY <1>1, <2>4 DEF UpgradeThrows, Indexable
    <3>2. r \in done => join[r] = 0
      BY <2>1, <2>4 DEF UpgradeThrows, RemapJoins
    <3>3. DOMAIN join = done
      BY JoinChoiceType
    <3> QED
      BY <2>1, <2>4, <3>1, <3>2, <3>3 DEF UpgradeThrows, Reassign, RefsAfter
  <2>5. ASSUME NEW i \in ImageId, RemoveImage(i)
        PROVE  ref'[r] = ref[r]
    <3>1. r \notin imageFaces[i]
      BY <1>1, <2>5 DEF RemoveImage, Indexable
    <3> QED
      BY <2>1, <2>5, <3>1 DEF RemoveImage, Reassign, RefsAfter, NoJoin
  <2>6. ASSUME NEW low, Load(low)
        PROVE  ref'[r] = ref[r]
    BY <1>1, <2>1, <2>6 DEF Load, Indexable
  <2>7. ~IngestStep
    BY <1>1, <2>2, <2>3, <2>4 DEF IngestStep
  <2>8. ~RemoveStep
    BY <1>1, <2>5 DEF RemoveStep
  <2>9. ~ClusterOnce
    BY <1>1, ClusterKeepsPinned
  <2>10. ~RestartStep
    BY <1>1, <2>6 DEF RestartStep, Restart, Reindex
  <2>11. ~UNCHANGED vars
    BY <1>1 DEF vars, assignVars
  <2> QED
    BY <1>1, <2>7, <2>8, <2>9, <2>10, <2>11 DEF Next
<1>2. MembershipInv /\ [Next]_vars
        => [(\E r \in Indexable \cap Indexable' : ref[r] \in pinned /\ ref'[r] # ref[r])
               => CurationStep]_vars
  BY <1>1
<1> QED
  BY <1>2, MembershipInvariant, PTL DEF Spec, AutomationKeepsPinnedFaces
=============================================================================
