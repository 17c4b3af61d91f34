-------------------------- MODULE ReclusterProofs --------------------------
(***************************************************************************)
(* The clustering job among the other handlers, for any number of jobs,    *)
(* handlers and restarts in any order.                                     *)
(*                                                                         *)
(* What Gallery promises of identities does not survive the job: apply     *)
(* labels a face that fell below the gate since the snapshot without       *)
(* listing it, and it can revive an identity dissolved meanwhile.  What    *)
(* does survive is weaker and carries the proofs here: a list never names  *)
(* a face that does not refer back, and an id the start forgot to hide is  *)
(* an id nothing refers to, the job's snapshot and labels included.        *)
(***************************************************************************)
EXTENDS Recluster, GalleryProofs

(* Only a live face is assigned, to an id that was handed out.             *)
AssignedFacesLive == \A r \in Row : ref[r] # 0 => r \in liveFaces /\ ref[r] <= idCount

ListsInv ==
    /\ ListedFacesReferBack
    /\ IdentitiesMatchMembers
    /\ AssignedFacesLive

(* Flagged on disk, not in the mirror: dead when the process started.      *)
Forgotten == hidden \ hiddenMask

HiddenCounted ==
    /\ hiddenMask \subseteq hidden
    /\ hiddenCount = Cardinality(hiddenMask)
    /\ \A id \in hidden : id <= idCount

NobodyRefersToForgotten ==
    /\ \A r \in Row : ref[r] \notin Forgotten
    /\ \A r \in snap.eligible : snap.ref[r] \notin Forgotten
    /\ \A r \in DOMAIN labels : labels[r] \notin Forgotten

PinnedLabelled ==
    phase = "named" =>
        \A r \in snap.eligible : snap.ref[r] \in snap.pinned => labels[r] = snap.ref[r]

(* Snapshot and labels stay within the rows and ids that exist.            *)
JobTypeOK ==
    /\ TypeOK
    /\ phase \in {"idle", "begun", "named"}
    /\ snap \in [rows : SUBSET Row, eligible : SUBSET Row, ref : [Row -> 0 .. MaxIds], pinned : SUBSET Id]
    /\ snap.eligible \subseteq snap.rows
    /\ labels \in [DOMAIN labels -> 0 .. MaxIds]
    /\ DOMAIN labels = IF phase = "named" THEN snap.rows ELSE {}
    /\ runs \in 0 .. MaxRuns
    /\ handled \in 0 .. MaxHandled

JobInv ==
    /\ JobTypeOK
    /\ PhotosInv
    /\ ListsInv
    /\ HiddenCounted
    /\ NobodyRefersToForgotten
    /\ PinnedLabelled

-----------------------------------------------------------------------------
(* Lists *)

LEMMA EmptyIsCounted ==
    ASSUME NEW R \in SUBSET Row
    PROVE  R = {} <=> Cardinality(R) = 0
BY RowsCounted, FS_EmptySet

LEMMA ListsFacts ==
    ASSUME TypeOK, ListsInv
    PROVE  /\ \A id \in Id : members[id] \in SUBSET Row
           /\ \A id \in Id : \A r \in members[id] : r \in liveFaces /\ r \in Row /\ ref[r] = id
           /\ \A id \in Id : id \in liveIds <=> members[id] # {}
           /\ \A id \in Id : size[id] = Cardinality(members[id])
           /\ \A id \in liveIds : id \in Id /\ id <= idCount
           /\ \A r \in Row : ref[r] # 0 => r \in liveFaces /\ ref[r] \in Id /\ ref[r] <= idCount
           /\ liveIds \subseteq Id /\ 0 \notin Id /\ Id \subseteq Nat /\ idCount \in Nat
           /\ liveFaces \subseteq Row
BY BoundsAssumption DEF ListsInv, ListedFacesReferBack, IdentitiesMatchMembers, AssignedFacesLive,
   TypeOK, Id

(* What recompute_identity_locked establishes, given lists whose faces     *)
(* refer back and that are as long as before where it is not called.       *)
LEMMA RecomputeKeepsLists ==
    ASSUME TypeOK, IdentitiesMatchMembers,
           NEW touched \in SUBSET Id, NEW mem \in [Id -> SUBSET Row], Recompute(touched, mem),
           \A id \in Id \ touched : Cardinality(mem[id]) = Cardinality(members[id]),
           \A id \in touched : id <= idCount',
           idCount' \in Nat, idCount <= idCount',
           \A id \in Id : \A r \in mem[id] : r \in liveFaces' /\ ref'[r] = id
    PROVE  ListedFacesReferBack' /\ IdentitiesMatchMembers'
<1>1. /\ members' = mem
      /\ liveIds' = (liveIds \ touched) \cup {id \in touched : mem[id] # {}}
      /\ size' = [id \in Id |-> IF id \in touched THEN Cardinality(mem[id]) ELSE size[id]]
  BY DEF Recompute
<1>2. ASSUME NEW id \in Id
      PROVE  /\ id \in liveIds' <=> members'[id] # {}
             /\ size'[id] = Cardinality(members'[id])
             /\ id \in liveIds' => id <= idCount'
  <2>1. /\ id \in liveIds <=> members[id] # {}
        /\ size[id] = Cardinality(members[id])
        /\ id \in liveIds => id <= idCount
    BY DEF IdentitiesMatchMembers
  <2>2. id \in Nat /\ idCount \in Nat
    BY BoundsAssumption DEF Id, TypeOK
  <2>3. CASE id \in touched
    BY <1>1, <2>3
  <2>4. CASE id \notin touched
    <3>1. members[id] = {} <=> mem[id] = {}
      BY <2>4, EmptyIsCounted DEF TypeOK
    <3> QED
      BY <1>1, <2>1, <2>2, <2>4, <3>1
  <2> QED
    BY <2>3, <2>4
<1>3. ListedFacesReferBack'
  BY <1>1 DEF ListedFacesReferBack
<1> QED
  BY <1>2, <1>3 DEF IdentitiesMatchMembers

(* The same for unassign_locked and assign_locked: enough that a face      *)
(* joins only while live and after leaving the identity it had, and that   *)
(* every assigned face that dies leaves.                                   *)
LEMMA ReassignKeepsLists ==
    ASSUME TypeOK, ListsInv, NEW out \in SUBSET Row, NEW rows \in SUBSET Row,
           NEW joined \in [rows -> liveIds \cup {0}], NEW refreshed \in SUBSET Id,
           \A id \in refreshed : id <= idCount,
           Reassign(out, joined, refreshed), idCount' = idCount,
           \A r \in rows : joined[r] # 0 => r \in liveFaces' /\ (ref[r] = 0 \/ r \in out),
           \A r \in Row : ref[r] # 0 /\ r \notin out => r \in liveFaces'
    PROVE  /\ ListsInv'
           /\ \A r \in Row : ref'[r] \in liveIds \cup {0, ref[r]}
<1> DEFINE touched == Touched(out, joined) \cup refreshed
           mem     == MembersAfter(out, joined)
<1>1. liveIds \subseteq Id /\ 0 \notin Id /\ idCount \in Nat /\ Id \subseteq Nat
  BY ListsFacts
<1>2. joined \in [rows -> 0 .. MaxIds]
  <2>1. liveIds \cup {0} \subseteq 0 .. MaxIds
    BY <1>1, BoundsAssumption DEF Id
  <2> QED
    BY <2>1
<1>3. /\ ref' \in [Row -> 0 .. MaxIds] /\ touched \in SUBSET Id /\ mem \in [Id -> SUBSET Row]
  BY <1>2, ReassignType
<1>4. ref' = RefsAfter(out, joined) /\ Recompute(touched, mem)
  BY DEF Reassign
<1>5. \A id \in touched : id <= idCount'
  BY ListsFacts DEF Touched
<1>6. \A r \in Row : ref'[r] = IF r \in rows /\ joined[r] # 0 THEN joined[r]
                               ELSE IF r \in out THEN 0 ELSE ref[r]
  BY <1>4 DEF RefsAfter
<1>7. \A id \in Id : mem[id] = (members[id] \ {r \in out : ref[r] = id}) \cup {r \in rows : joined[r] = id}
  BY DEF MembersAfter
<1>8. ASSUME NEW id \in Id, NEW r \in mem[id]
      PROVE  r \in liveFaces' /\ ref'[r] = id
  <2>1. CASE r \in rows /\ joined[r] = id
    BY <1>1, <1>6, <2>1
  <2>2. CASE r \in members[id] /\ ~(r \in out /\ ref[r] = id)
    <3>1. r \in Row /\ ref[r] = id /\ r \notin out
      BY <2>2, ListsFacts
    <3>2. ~(r \in rows /\ joined[r] # 0)
      BY <1>1, <3>1
    <3> QED
      BY <1>1, <1>6, <3>1, <3>2
  <2> QED
    BY <1>7, <1>8, <2>1, <2>2
<1>9. ASSUME NEW id \in Id \ touched
      PROVE  mem[id] = members[id]
  <2>1. \A r \in out : ref[r] # id
    BY <1>1 DEF Touched
  <2>2. \A r \in rows : joined[r] # id
    BY <1>1 DEF Touched
  <2> QED
    BY <1>7, <2>1, <2>2
<1>10. ListedFacesReferBack' /\ IdentitiesMatchMembers'
  <2>1. \A id \in Id \ touched : Cardinality(mem[id]) = Cardinality(members[id])
    BY <1>9
  <2>2. IdentitiesMatchMembers
    BY DEF ListsInv
  <2> HIDE DEF touched, mem
  <2> QED
    BY <1>1, <1>3, <1>4, <1>5, <1>8, <2>1, <2>2, RecomputeKeepsLists
<1>11. AssignedFacesLive'
  BY <1>6, ListsFacts DEF AssignedFacesLive
<1>12. \A r \in Row : ref'[r] \in liveIds \cup {0, ref[r]}
  BY <1>6
<1> QED
  BY <1>10, <1>11, <1>12 DEF ListsInv

-----------------------------------------------------------------------------
(* Each handler: the lists, and whom a face can come to refer to *)

(* The ids a row may refer to after a step.                                *)
RefsStayKnown == \A r \in Row : ref'[r] \in liveIds \cup {0, ref[r]} \/ ref'[r] > idCount

LEMMA InsertKeepsLists ==
    ASSUME PhotosInv, ListsInv, NEW s \in UnknownSha, NEW k \in Appended(1),
           NEW low \in SUBSET NewRows(k), NEW join \in JoinChoices(NewRows(k), low),
           Insert(s, k, low, join)
    PROVE  ListsInv' /\ RefsStayKnown
<1>1. k \in Nat /\ faceCount + k <= MaxFaces /\ TypeOK
  BY BoundsAssumption DEF Appended, PhotosInv
<1>2. NewRows(k) \cap liveFaces = {} /\ NewRows(k) \in SUBSET Row
  BY <1>1, NewRowsAreFresh
<1>3. join \in [NewRows(k) -> liveIds \cup {0}]
  BY JoinChoiceType
<1>4. Reassign({}, join, {}) /\ idCount' = idCount /\ liveFaces' = liveFaces \cup NewRows(k)
  BY DEF Insert
<1>5. \A r \in NewRows(k) : ref[r] = 0
  BY <1>1, <1>2, ListsFacts
<1>6. \A r \in Row : ref[r] # 0 => r \in liveFaces'
  BY <1>1, <1>4, ListsFacts
<1> QED
  BY <1>1, <1>2, <1>3, <1>4, <1>5, <1>6, ReassignKeepsLists DEF RefsStayKnown

LEMMA UpgradeKeepsLists ==
    ASSUME PhotosInv, ListsInv, NEW s \in UnknownSha, NEW i \in liveImages, NEW k \in Appended(0),
           NEW kept \in SUBSET imageFaces[i], NEW low \in SUBSET (kept \cup NewRows(k)),
           NEW join \in JoinChoices(kept \cup NewRows(k), low),
           Upgrade(i, s, kept, k, low, join)
    PROVE  ListsInv' /\ RefsStayKnown
<1> DEFINE out     == (kept \cap low) \cup (imageFaces[i] \ kept)
           staying == {ref[r] : r \in kept \ low} \ {0}
<1>1. k \in Nat /\ faceCount + k <= MaxFaces /\ i \in ImageId /\ TypeOK
  BY BoundsAssumption DEF Appended, PhotosInv, TypeOK
<1>2. NewRows(k) \cap liveFaces = {} /\ NewRows(k) \in SUBSET Row
  BY <1>1, NewRowsAreFresh
<1>3. imageFaces[i] \subseteq liveFaces /\ liveFaces \subseteq Row
  BY <1>1 DEF PhotosInv, PhotosConsistent, TypeOK
<1>4. /\ join \in [kept \cup NewRows(k) -> liveIds \cup {0}]
      /\ \A r \in (kept \cup NewRows(k)) \cap low : join[r] = 0
  BY JoinChoiceType
<1>5. Reassign(out, join, staying) /\ idCount' = idCount
  BY DEF Upgrade
<1>6. liveFaces' = (liveFaces \ (imageFaces[i] \ kept)) \cup NewRows(k)
  BY DEF Upgrade
<1>7. staying \in SUBSET Id /\ \A id \in staying : id <= idCount
  BY <1>1, <1>3, ListsFacts
<1>8. ASSUME NEW r \in kept \cup NewRows(k), join[r] # 0
      PROVE  r \in liveFaces' /\ (ref[r] = 0 \/ r \in out)
  <2>1. r \notin low
    BY <1>4, <1>8
  <2>2. CASE r \in kept
    <3>1. ref[r] = 0
      BY <1>8, <2>1, <2>2 DEF Upgrade, RemapJoins
    <3> QED
      BY <1>3, <1>6, <2>2, <3>1
  <2>3. CASE r \in NewRows(k)
    <3>1. ref[r] = 0
      BY <1>1, <1>2, <2>3, ListsFacts
    <3> QED
      BY <1>6, <2>3, <3>1
  <2> QED
    BY <2>2, <2>3
<1>9. \A r \in Row : ref[r] # 0 /\ r \notin out => r \in liveFaces'
  BY <1>1, <1>6, ListsFacts
<1>10. out \in SUBSET Row /\ kept \cup NewRows(k) \in SUBSET Row
  BY <1>2, <1>3
<1> HIDE DEF out, staying
<1> QED
  BY <1>1, <1>4, <1>5, <1>7, <1>8, <1>9, <1>10, ReassignKeepsLists DEF RefsStayKnown

LEMMA UpgradeThrowsKeepsLists ==
    ASSUME PhotosInv, ListsInv, NEW s \in UnknownSha, NEW i \in liveImages, NEW bad,
           NEW done \in SUBSET (imageFaces[i] \ {bad}), NEW low \in SUBSET done,
           NEW join \in JoinChoices(done, low),
           UpgradeThrows(i, s, done, bad, low, join)
    PROVE  ListsInv' /\ RefsStayKnown
<1>0. TypeOK
  BY DEF PhotosInv
<1>1. i \in ImageId
  BY <1>0 DEF TypeOK
<1>2. imageFaces[i] \subseteq liveFaces /\ liveFaces \subseteq Row
  BY <1>0, <1>1 DEF PhotosInv, PhotosConsistent, TypeOK
<1>3. /\ join \in [done -> liveIds \cup {0}]
      /\ \A r \in done \cap low : join[r] = 0
  BY JoinChoiceType
<1>4. Reassign(done \cap low, join, {}) /\ idCount' = idCount /\ liveFaces' = liveFaces
  BY DEF UpgradeThrows
<1>5. \A r \in done : join[r] # 0 => r \in liveFaces' /\ ref[r] = 0
  BY <1>2, <1>3, <1>4 DEF UpgradeThrows, RemapJoins
<1>6. \A r \in Row : ref[r] # 0 => r \in liveFaces'
  BY <1>0, <1>4, ListsFacts
<1>7. done \cap low \in SUBSET Row /\ done \in SUBSET Row
  BY <1>2
<1> QED
  BY <1>0, <1>3, <1>4, <1>5, <1>6, <1>7, ReassignKeepsLists DEF RefsStayKnown

LEMMA RemoveKeepsLists ==
    ASSUME PhotosInv, ListsInv, NEW i \in ImageId, RemoveImage(i)
    PROVE  ListsInv' /\ RefsStayKnown
<1>1. TypeOK
  BY DEF PhotosInv
<1>2. NoJoin \in [{} -> liveIds \cup {0}]
  BY DEF NoJoin
<1>3. Reassign(imageFaces[i], NoJoin, {}) /\ idCount' = idCount
      /\ liveFaces' = liveFaces \ imageFaces[i]
  BY DEF RemoveImage
<1>4. imageFaces[i] \in SUBSET Row
  BY <1>1 DEF TypeOK
<1>5. \A r \in Row : ref[r] # 0 /\ r \notin imageFaces[i] => r \in liveFaces'
  BY <1>1, <1>3, ListsFacts
<1> QED
  BY <1>1, <1>2, <1>3, <1>4, <1>5, ReassignKeepsLists DEF RefsStayKnown

LEMMA DissolveKeepsLists ==
    ASSUME TypeOK, ListsInv, NEW id \in Id, Dissolve(id)
    PROVE  ListsInv' /\ RefsStayKnown
<1> DEFINE mem == [members EXCEPT ![id] = {}]
<1>1. /\ Recompute({id}, mem) /\ idCount' = idCount /\ id \in liveIds /\ liveFaces' = liveFaces
      /\ ref' = [r \in Row |-> IF r \in members[id] THEN 0 ELSE ref[r]]
  BY DEF Dissolve, faceVars
<1>2. mem \in [Id -> SUBSET Row] /\ \A x \in Id : mem[x] = IF x = id THEN {} ELSE members[x]
  BY DEF TypeOK
<1>3. \A x \in Id : \A r \in mem[x] : r \in liveFaces' /\ ref'[r] = x
  BY <1>1, <1>2, ListsFacts
<1>4. AssignedFacesLive' /\ RefsStayKnown
  BY <1>1, ListsFacts DEF AssignedFacesLive, RefsStayKnown
<1>5. /\ idCount' \in Nat /\ idCount <= idCount' /\ id <= idCount' /\ IdentitiesMatchMembers
      /\ \A x \in Id \ {id} : Cardinality(mem[x]) = Cardinality(members[x])
  BY <1>1, <1>2, ListsFacts DEF ListsInv
<1> HIDE DEF mem
<1> QED
  BY <1>1, <1>2, <1>3, <1>4, <1>5, RecomputeKeepsLists DEF ListsInv

LEMMA MergeKeepsLists ==
    ASSUME TypeOK, ListsInv, NEW ids \in SUBSET Id, NEW target \in ids, Merge(ids, target)
    PROVE  ListsInv' /\ RefsStayKnown
<1> DEFINE moved == UNION {members[id] : id \in ids \ {target}}
           mem   == [id \in Id |-> IF id = target THEN members[id] \cup moved
                                   ELSE IF id \in ids THEN {} ELSE members[id]]
<1>1. /\ Recompute(ids, mem) /\ idCount' = idCount /\ ids \subseteq liveIds /\ liveFaces' = liveFaces
      /\ ref' = [r \in Row |-> IF r \in moved THEN target ELSE ref[r]]
  BY DEF Merge, faceVars
<1>2. \A r \in moved : r \in Row /\ r \in liveFaces /\ ref[r] \in ids
  BY ListsFacts
<1> HIDE DEF moved
<1>3. mem \in [Id -> SUBSET Row]
  BY <1>2 DEF TypeOK
<1>4. ASSUME NEW x \in Id, NEW r \in mem[x]
      PROVE  r \in liveFaces' /\ ref'[r] = x
  <2>1. r \in Row /\ r \in liveFaces
    BY <1>2, <1>4, ListsFacts
  <2>2. CASE x = target
    BY <1>1, <1>4, <2>1, <2>2, ListsFacts
  <2>3. CASE x # target
    <3>1. r \in members[x] /\ x \notin ids
      BY <1>4, <2>3
    <3> QED
      BY <1>1, <1>2, <2>1, <3>1, ListsFacts
  <2> QED
    BY <2>2, <2>3
<1>5. AssignedFacesLive' /\ RefsStayKnown
  BY <1>1, <1>2, ListsFacts DEF AssignedFacesLive, RefsStayKnown
<1>6. /\ idCount' \in Nat /\ idCount <= idCount' /\ (\A x \in ids : x <= idCount')
      /\ IdentitiesMatchMembers
      /\ \A x \in Id \ ids : Cardinality(mem[x]) = Cardinality(members[x])
  BY <1>1, ListsFacts DEF ListsInv
<1> HIDE DEF mem
<1> QED
  BY <1>1, <1>3, <1>4, <1>5, <1>6, RecomputeKeepsLists DEF ListsInv

LEMMA SplitKeepsLists ==
    ASSUME TypeOK, ListsInv, NEW id \in Id, NEW moving \in SUBSET {r \in Row : ref[r] = id},
           Split(id, moving)
    PROVE  ListsInv' /\ RefsStayKnown
<1> DEFINE nid == idCount + 1
           mem == [members EXCEPT ![id] = @ \ moving, ![nid] = moving]
<1>1. /\ Recompute({id, nid}, mem) /\ idCount' = nid /\ id \in liveIds /\ idCount < MaxIds
      /\ ref' = [r \in Row |-> IF r \in moving THEN nid ELSE ref[r]] /\ liveFaces' = liveFaces
  BY DEF Split, faceVars
<1>2. nid \in Id /\ nid \in Nat /\ nid > idCount /\ idCount \in Nat /\ id <= idCount
  BY <1>1, ListsFacts, BoundsAssumption DEF Id
<1> HIDE DEF nid
<1>3. nid # id /\ nid # 0 /\ id # 0 /\ \A r \in Row : ref[r] # nid
  BY <1>1, <1>2, ListsFacts
<1>4. members \in [Id -> SUBSET Row]
  BY DEF TypeOK
<1>5. /\ mem \in [Id -> SUBSET Row]
      /\ \A x \in Id : mem[x] = IF x = nid THEN moving
                                ELSE IF x = id THEN members[x] \ moving ELSE members[x]
  BY <1>2, <1>3, <1>4
<1> HIDE DEF mem
<1>6. \A r \in moving : r \in Row /\ ref[r] = id /\ r \in liveFaces
  BY <1>3, ListsFacts
<1>7. ASSUME NEW x \in Id, NEW r \in mem[x]
      PROVE  r \in liveFaces' /\ ref'[r] = x
  <2>1. CASE x = nid
    BY <1>1, <1>5, <1>6, <1>7, <2>1
  <2>2. CASE x # nid
    <3>1. r \in members[x] /\ (x = id => r \notin moving)
      BY <1>5, <1>7, <2>2
    <3>2. r \in Row /\ r \in liveFaces /\ ref[r] = x
      BY <3>1, ListsFacts
    <3> QED
      BY <1>1, <1>6, <3>1, <3>2
  <2> QED
    BY <2>1, <2>2
<1>8. AssignedFacesLive' /\ RefsStayKnown
  BY <1>1, <1>2, <1>6, ListsFacts DEF AssignedFacesLive, RefsStayKnown
<1>9. /\ idCount' \in Nat /\ idCount <= idCount' /\ (\A x \in {id, nid} : x <= idCount')
      /\ IdentitiesMatchMembers
      /\ \A x \in Id \ {id, nid} : Cardinality(mem[x]) = Cardinality(members[x])
  BY <1>1, <1>2, <1>5, ListsFacts DEF ListsInv
<1> QED
  BY <1>1, <1>2, <1>5, <1>7, <1>8, <1>9, RecomputeKeepsLists DEF ListsInv

LEMMA CurationKeepsLists ==
    ASSUME TypeOK, ListsInv, CurationStep
    PROVE  ListsInv' /\ RefsStayKnown
<1>1. ASSUME UNCHANGED <<faceVars, assignVars, idCount>>
      PROVE  ListsInv' /\ RefsStayKnown
  BY <1>1 DEF ListsInv, ListedFacesReferBack, IdentitiesMatchMembers, AssignedFacesLive,
              RefsStayKnown, faceVars, assignVars
<1>2. ASSUME NEW id \in Id, Hide(id) \/ Unhide(id) \/ Rename(id)
      PROVE  ListsInv' /\ RefsStayKnown
  BY <1>1, <1>2 DEF Hide, Unhide, Rename
<1>3. ASSUME NEW r \in Row, UnassignFace(r)
      PROVE  ListsInv' /\ RefsStayKnown
  <2>1. Reassign({r}, NoJoin, {}) /\ NoJoin \in [{} -> liveIds \cup {0}] /\ idCount' = idCount
    BY <1>3 DEF UnassignFace, NoJoin
  <2>2. \A q \in Row : ref[q] # 0 /\ q \notin {r} => q \in liveFaces'
    BY <1>3, ListsFacts DEF UnassignFace, faceVars
  <2> QED
    BY <2>1, <2>2, ReassignKeepsLists DEF RefsStayKnown
<1>4. ASSUME NEW r \in Row, NEW id \in Id, AssignFace(r, id)
      PROVE  ListsInv' /\ RefsStayKnown
  <2>1. CASE ref[r] = id
    BY <1>1, <1>4, <2>1 DEF AssignFace
  <2>2. CASE ref[r] # id
    <3> DEFINE out    == {r}
               joined == [q \in out |-> id]
    <3>1. Reassign(out, joined, {}) /\ idCount' = idCount /\ id \in liveIds
      BY <1>4, <2>2 DEF AssignFace
    <3>2. joined \in [out -> liveIds \cup {0}] /\ out \in SUBSET Row
      BY <3>1
    <3>3. liveFaces' = liveFaces /\ \A q \in out : q \in liveFaces
      BY <1>4 DEF AssignFace, faceVars, Indexable
    <3>4. \A q \in Row : ref[q] # 0 /\ q \notin out => q \in liveFaces'
      BY <3>3, ListsFacts
    <3>5. \A q \in out : joined[q] # 0 => q \in liveFaces' /\ (ref[q] = 0 \/ q \in out)
      BY <3>3
    <3> HIDE DEF out, joined
    <3> QED
      BY <3>1, <3>2, <3>4, <3>5, ReassignKeepsLists DEF RefsStayKnown
  <2> QED
    BY <2>1, <2>2
<1> QED
  BY <1>2, <1>3, <1>4, DissolveKeepsLists, MergeKeepsLists, SplitKeepsLists DEF CurationStep

(* A start repairs the refs, so every face refers to nobody or to a live   *)
(* identity, and recomputes the lists whose stored size no longer fits.    *)
LEMMA LoadKeepsLists ==
    ASSUME TypeOK, ListsInv, NEW low \in SUBSET Row, Load(low)
    PROVE  ListsInv' /\ (\A r \in Row : ref'[r] \in liveIds' \cup {0}) /\ liveIds' \subseteq liveIds
<1> DEFINE mem     == [id \in Id |-> {r \in liveFaces : ref'[r] = id}]
           touched == {id \in liveIds : size[id] # Cardinality(mem[id])}
<1>1. /\ Recompute(touched, mem) /\ idCount' = idCount /\ liveFaces' = liveFaces
      /\ ref' = [r \in Row |-> IF r \in liveFaces /\ (r \in low \cup lowQuality \/ ref[r] \notin liveIds)
                               THEN 0 ELSE ref[r]]
  BY DEF Load
<1>2. \A r \in Row : ref'[r] # 0 => r \in liveFaces /\ ref'[r] = ref[r] /\ ref[r] \in liveIds
  BY <1>1, ListsFacts
<1>3. mem \in [Id -> SUBSET Row] /\ touched \in SUBSET Id /\ \A id \in Id : \A r \in mem[id] :
         r \in liveFaces' /\ ref'[r] = id
  BY <1>1, ListsFacts
<1>4. ASSUME NEW id \in Id \ touched
      PROVE  Cardinality(mem[id]) = Cardinality(members[id])
  <2>1. CASE id \in liveIds
    BY <2>1, ListsFacts
  <2>2. CASE id \notin liveIds
    <3>1. id # 0 /\ members[id] = {}
      BY <2>2, ListsFacts
    <3>2. \A r \in liveFaces : ref'[r] # id
      BY <1>2, <2>2, <3>1, ListsFacts
    <3>3. mem[id] = {}
      BY <3>2
    <3> QED
      BY <3>1, <3>3
  <2> QED
    BY <2>1, <2>2
<1>5. /\ idCount' \in Nat /\ idCount <= idCount' /\ (\A id \in touched : id <= idCount')
      /\ IdentitiesMatchMembers
  BY <1>1, ListsFacts DEF ListsInv
<1>6. liveIds' = (liveIds \ touched) \cup {id \in touched : mem[id] # {}}
  BY <1>1 DEF Recompute
<1>7. ASSUME NEW r \in Row, ref'[r] # 0
      PROVE  ref'[r] \in liveIds'
  <2>1. r \in mem[ref'[r]]
    BY <1>2, <1>7, ListsFacts
  <2> QED
    BY <1>2, <1>6, <1>7, <2>1
<1>8. AssignedFacesLive'
  BY <1>1, <1>2, ListsFacts DEF AssignedFacesLive
<1>9. touched \subseteq liveIds
  OBVIOUS
<1> HIDE DEF mem, touched
<1> QED
  BY <1>1, <1>3, <1>4, <1>5, <1>6, <1>7, <1>8, <1>9, RecomputeKeepsLists DEF ListsInv

(* The labels reach live rows only and every list is built anew from the   *)
(* refs, so it does not matter what happened since they were computed.     *)
LEMMA ApplyKeepsLists ==
    ASSUME TypeOK, ListsInv, NEW rows \in SUBSET Row, NEW given \in [rows -> 0 .. MaxIds],
           ApplyLabels(given)
    PROVE  /\ ListsInv' /\ idCount <= idCount'
           /\ \A r \in Row : ref'[r] = IF r \in rows \cap liveFaces THEN given[r] ELSE ref[r]
           /\ members' = [id \in Id |-> {r \in Indexable : ref'[r] = id}]
<1>1. PICK count \in SlotsFor(given) :
        LET newRef   == [r \in Row |-> IF r \in DOMAIN given \cap liveFaces THEN given[r] ELSE ref[r]]
            mem      == [id \in Id |-> {r \in Indexable : newRef[r] = id}]
            appended == (idCount + 1) .. count
        IN  /\ idCount' = count
            /\ ref' = newRef
            /\ Recompute({id \in 1 .. count : mem[id] # {} \/ id \in liveIds \cup appended}, mem)
            /\ UNCHANGED <<imageVars, faceVars, indexVars, hiddenVars, pinned>>
  BY DEF ApplyLabels
<1> DEFINE mem     == [id \in Id |-> {r \in Indexable : ref'[r] = id}]
           touched == {id \in 1 .. count : mem[id] # {} \/ id \in liveIds \cup ((idCount + 1) .. count)}
<1>2. Recompute(touched, mem) /\ idCount' = count /\ liveFaces' = liveFaces
  BY <1>1 DEF faceVars
<1>3. /\ count \in Nat /\ idCount \in Nat /\ idCount <= count /\ count <= MaxIds
      /\ \A r \in rows : given[r] <= count
  BY BoundsAssumption, ListsFacts DEF SlotsFor
<1>4. \A r \in Row : ref'[r] = IF r \in rows \cap liveFaces THEN given[r] ELSE ref[r]
  BY <1>1
<1>5. Indexable \subseteq liveFaces /\ liveFaces \subseteq Row
  BY ListsFacts DEF Indexable
<1>6. \A r \in Row : ref'[r] # 0 => r \in liveFaces /\ ref'[r] <= count
  <2>1. \A r \in Row : ref[r] \in Nat
    BY BoundsAssumption DEF TypeOK
  <2> QED
    BY <1>3, <1>4, <2>1, ListsFacts
<1>7. /\ touched \in SUBSET Id /\ mem \in [Id -> SUBSET Row] /\ (\A id \in touched : id <= idCount')
      /\ \A id \in Id : \A r \in mem[id] : r \in liveFaces' /\ ref'[r] = id
  BY <1>2, <1>3, <1>5, BoundsAssumption DEF Id
<1>8. ASSUME NEW id \in Id \ touched
      PROVE  mem[id] = members[id]
  <2>1. id \in Nat /\ id >= 1
    BY BoundsAssumption DEF Id
  <2>2. id \notin liveIds
    BY <1>3, <2>1, ListsFacts
  <2>3. members[id] = {}
    BY <2>2, ListsFacts
  <2>4. CASE id <= count
    BY <1>3, <2>1, <2>3, <2>4
  <2>5. CASE ~(id <= count)
    BY <1>5, <1>6, <2>1, <2>3, <2>5
  <2> QED
    BY <2>4, <2>5
<1>9. AssignedFacesLive' /\ members' = mem
  BY <1>2, <1>6 DEF AssignedFacesLive, Recompute
<1>10. /\ IdentitiesMatchMembers /\ idCount' \in Nat /\ idCount <= idCount'
       /\ \A id \in Id \ touched : Cardinality(mem[id]) = Cardinality(members[id])
  BY <1>2, <1>3, <1>8 DEF ListsInv
<1>11. ListsInv' /\ idCount <= idCount'
  <2> HIDE DEF mem, touched
  <2> QED
    BY <1>2, <1>7, <1>9, <1>10, RecomputeKeepsLists DEF ListsInv
<1> QED
  BY <1>4, <1>9, <1>11

-----------------------------------------------------------------------------
(* Hiding *)

(* A live identity has a face, which refers to it, so it was not forgotten.*)
LEMMA LiveNotForgotten ==
    ASSUME TypeOK, ListsInv, HiddenCounted, NobodyRefersToForgotten
    PROVE  /\ \A id \in liveIds : id \notin Forgotten
           /\ 0 \notin Forgotten
           /\ \A id \in Forgotten : id \in Nat /\ id <= idCount
<1>1. ASSUME NEW id \in liveIds
      PROVE  id \notin Forgotten
  <2>1. PICK r \in members[id] : TRUE
    BY ListsFacts
  <2>2. r \in Row /\ ref[r] = id
    BY <2>1, ListsFacts
  <2> QED
    BY <2>2 DEF NobodyRefersToForgotten
<1>2. 0 \notin Forgotten
  BY ListsFacts DEF Forgotten, TypeOK
<1>3. ASSUME NEW id \in Forgotten
      PROVE  id \in Nat /\ id <= idCount
  BY <1>3, ListsFacts DEF Forgotten, HiddenCounted, TypeOK
<1> QED
  BY <1>1, <1>2, <1>3

LEMMA UnchangedHidingKept ==
    ASSUME HiddenCounted, TypeOK, UNCHANGED hiddenVars, idCount' \in Nat, idCount <= idCount'
    PROVE  HiddenCounted' /\ Forgotten' = Forgotten
<1>1. hidden' = hidden /\ hiddenMask' = hiddenMask /\ hiddenCount' = hiddenCount
  BY DEF hiddenVars
<1>2. \A id \in hidden : id \in Nat /\ id <= idCount
  BY DEF HiddenCounted, TypeOK, Id
<1>3. idCount \in Nat
  BY DEF TypeOK
<1>4. \A id \in hidden' : id <= idCount'
  BY <1>1, <1>2, <1>3
<1> QED
  BY <1>1, <1>4 DEF HiddenCounted, Forgotten

LEMMA HideKeepsCount ==
    ASSUME TypeOK, ListsInv, HiddenCounted, NobodyRefersToForgotten, NEW id \in Id,
           Hide(id) \/ Unhide(id)
    PROVE  HiddenCounted' /\ Forgotten' \subseteq Forgotten
<1>0. /\ hiddenMask \in SUBSET Id /\ hidden \in SUBSET Id
      /\ IsFiniteSet(hiddenMask) /\ Cardinality(hiddenMask) \in Nat
  <2>1. hiddenMask \in SUBSET Id /\ hidden \in SUBSET Id
    BY DEF TypeOK
  <2> QED
    BY <2>1, IdsCounted, FS_CardinalityType
<1>1. id \in liveIds
  BY DEF Hide, Unhide
<1>2. id \in hidden <=> id \in hiddenMask
  BY <1>1, LiveNotForgotten DEF Forgotten, HiddenCounted
<1>3. CASE Hide(id)
  <2>1. /\ hidden' = hidden \cup {id} /\ hiddenMask' = hiddenMask \cup {id}
        /\ hiddenCount' = IF id \in hidden THEN hiddenCount ELSE Incremented(hiddenCount)
        /\ idCount' = idCount
    BY <1>3 DEF Hide
  <2>2. id <= idCount
    BY <1>1, ListsFacts
  <2>3. Cardinality(hiddenMask') = IF id \in hiddenMask THEN hiddenCount ELSE hiddenCount + 1
    BY <1>0, <2>1, FS_AddElement DEF HiddenCounted
  <2>4. hiddenMask' \in SUBSET Id
    BY <1>0, <2>1
  <2>5. Cardinality(hiddenMask') \in 0 .. CountMax
    <3>1. Cardinality(hiddenMask') \in 0 .. MaxIds
      BY <2>4, IdsCounted
    <3> QED
      BY <3>1, BoundsAssumption
  <2>6. id \notin hidden => hiddenCount # CountMax
    BY <1>0, <1>2, <2>3, <2>5, BoundsAssumption DEF HiddenCounted
  <2>7. hiddenCount' = Cardinality(hiddenMask')
    BY <1>2, <2>1, <2>3, <2>6 DEF Incremented
  <2> QED
    BY <2>1, <2>2, <2>7 DEF HiddenCounted, Forgotten
<1>4. CASE Unhide(id)
  <2>1. /\ hidden' = hidden \ {id} /\ hiddenMask' = hiddenMask \ {id}
        /\ hiddenCount' = IF id \in hidden THEN Decremented(hiddenCount) ELSE hiddenCount
        /\ idCount' = idCount
    BY <1>4 DEF Unhide
  <2>2. Cardinality(hiddenMask') = IF id \in hiddenMask THEN hiddenCount - 1 ELSE hiddenCount
    BY <1>0, <2>1, FS_RemoveElement DEF HiddenCounted
  <2>3. id \in hidden => hiddenCount # 0
    BY <1>0, <1>2, FS_EmptySet DEF HiddenCounted
  <2>4. hiddenCount' = Cardinality(hiddenMask')
    BY <1>2, <2>1, <2>2, <2>3 DEF Decremented
  <2> QED
    BY <2>1, <2>4 DEF HiddenCounted, Forgotten
<1> QED
  BY <1>3, <1>4

-----------------------------------------------------------------------------
(* The steps of the job and of the others *)

(* While the job runs or not: what any handler keeps.                      *)
LEMMA HandlerStep ==
    ASSUME JobInv, TypeOK', Handler
    PROVE  JobInv'
<1>1. TypeOK /\ PhotosInv /\ ListsInv /\ HiddenCounted /\ NobodyRefersToForgotten /\ PinnedLabelled
  BY DEF JobInv, JobTypeOK
<1>2. PhotosInv'
  BY <1>1, PhotosStep DEF Handler, Next, PhotosInv
<1>3. ListsInv' /\ RefsStayKnown
  <2>1. CASE IngestStep
    BY <1>1, <2>1, InsertKeepsLists, UpgradeKeepsLists, UpgradeThrowsKeepsLists DEF IngestStep
  <2>2. CASE RemoveStep
    BY <1>1, <2>2, RemoveKeepsLists DEF RemoveStep
  <2>3. CASE CurationStep
    BY <1>1, <2>3, CurationKeepsLists
  <2> QED
    BY <2>1, <2>2, <2>3 DEF Handler
<1>4. \/ UNCHANGED hiddenVars /\ idCount' \in {idCount, idCount + 1}
      \/ \E id \in Id : Hide(id) \/ Unhide(id)
  <2>1. ASSUME NEW s, NEW k, NEW low, NEW join, Insert(s, k, low, join)
        PROVE  UNCHANGED hiddenVars /\ idCount' = idCount
    BY <2>1 DEF Insert
  <2>2. ASSUME NEW s, NEW i, NEW k, NEW kept, NEW low, NEW join, Upgrade(i, s, kept, k, low, join)
        PROVE  UNCHANGED hiddenVars /\ idCount' = idCount
    BY <2>2 DEF Upgrade
  <2>3. ASSUME NEW s, NEW i, NEW done, NEW bad, NEW low, NEW join,
               UpgradeThrows(i, s, done, bad, low, join)
        PROVE  UNCHANGED hiddenVars /\ idCount' = idCount
    BY <2>3 DEF UpgradeThrows
  <2>4. ASSUME NEW i, RemoveImage(i)
        PROVE  UNCHANGED hiddenVars /\ idCount' = idCount
    BY <2>4 DEF RemoveImage
  <2>5. ASSUME NEW id, Rename(id) \/ Dissolve(id)
        PROVE  UNCHANGED hiddenVars /\ idCount' = idCount
    BY <2>5 DEF Rename, Dissolve
  <2>6. ASSUME NEW ids, NEW target, Merge(ids, target)
        PROVE  UNCHANGED hiddenVars /\ idCount' = idCount
    BY <2>6 DEF Merge
  <2>7. ASSUME NEW id, NEW moving, Split(id, moving)
        PROVE  UNCHANGED hiddenVars /\ idCount' = idCount + 1
    BY <2>7 DEF Split
  <2>8. ASSUME NEW r, NEW id, UnassignFace(r) \/ AssignFace(r, id)
        PROVE  UNCHANGED hiddenVars /\ idCount' = idCount
    BY <2>8 DEF UnassignFace, AssignFace
  <2>9. IngestStep => UNCHANGED hiddenVars /\ idCount' = idCount
    BY <2>1, <2>2, <2>3 DEF IngestStep
  <2>10. RemoveStep => UNCHANGED hiddenVars /\ idCount' = idCount
    BY <2>4 DEF RemoveStep
  <2>11. CurationStep => \/ UNCHANGED hiddenVars /\ idCount' \in {idCount, idCount + 1}
                         \/ \E id \in Id : Hide(id) \/ Unhide(id)
    BY <2>5, <2>6, <2>7, <2>8 DEF CurationStep
  <2> QED
    BY <2>9, <2>10, <2>11 DEF Handler
<1>5. HiddenCounted' /\ Forgotten' \subseteq Forgotten
  <2>1. idCount \in Nat /\ idCount + 1 \in Nat /\ idCount <= idCount + 1 /\ idCount <= idCount
    BY <1>1, ListsFacts
  <2> QED
    BY <1>1, <1>4, <2>1, UnchangedHidingKept, HideKeepsCount
<1>6. UNCHANGED <<phase, snap, labels, runs>>
  BY DEF Handler
<1>7. \A r \in Row : ref'[r] \notin Forgotten
  <2>1. \A r \in Row : ref'[r] \in liveIds \cup {0} \/ ref'[r] = ref[r] \/ ref'[r] > idCount
    BY <1>3 DEF RefsStayKnown
  <2>2. \A id \in Forgotten : ~(id > idCount)
    BY <1>1, LiveNotForgotten, ListsFacts
  <2>3. \A r \in Row : ref[r] \notin Forgotten
    BY <1>1 DEF NobodyRefersToForgotten
  <2> QED
    BY <1>1, <2>1, <2>2, <2>3, LiveNotForgotten
<1>8. NobodyRefersToForgotten'
  BY <1>1, <1>5, <1>6, <1>7 DEF NobodyRefersToForgotten
<1>9. PinnedLabelled'
  BY <1>1, <1>6 DEF PinnedLabelled
<1>10. JobTypeOK'
  <2>1. handled' \in 0 .. MaxHandled
    BY RunBoundsAssumption DEF Handler, JobInv, JobTypeOK
  <2>2. phase' = phase /\ snap' = snap /\ labels' = labels /\ runs' = runs
    BY <1>6
  <2> QED
    BY <2>1, <2>2 DEF JobInv, JobTypeOK
<1> QED
  BY <1>2, <1>3, <1>5, <1>8, <1>9, <1>10 DEF JobInv

(* The job's own variables once it is over.                                *)
LEMMA IdleIsTyped ==
    ASSUME JobTypeOK, TypeOK', JobIdle, runs' \in 0 .. MaxRuns, handled' \in 0 .. MaxHandled
    PROVE  /\ JobTypeOK' /\ PinnedLabelled'
           /\ snap'.eligible = {} /\ DOMAIN labels' = {}
<1>1. phase' = "idle" /\ snap' = NoSnap /\ labels' = NoLabels
  BY DEF JobIdle
<1>2. NoSnap \in [rows : SUBSET Row, eligible : SUBSET Row, ref : [Row -> 0 .. MaxIds], pinned : SUBSET Id]
  BY BoundsAssumption DEF NoSnap, SnapshotOf
<1>3. NoSnap.eligible = {} /\ NoSnap.rows = {}
  BY DEF NoSnap, SnapshotOf
<1>4. DOMAIN NoLabels = {} /\ NoLabels \in [{} -> 0 .. MaxIds]
  BY DEF NoLabels
<1> QED
  BY <1>1, <1>2, <1>3, <1>4 DEF JobTypeOK, PinnedLabelled

LEMMA BeginStep ==
    ASSUME JobInv, Begin
    PROVE  JobInv'
<1>1. TypeOK /\ ListsInv /\ PhotosInv
  BY DEF JobInv, JobTypeOK
<1>2. /\ phase' = "begun" /\ snap' = Snapshot /\ labels' = labels /\ handled' = handled
      /\ runs' = runs + 1 /\ runs < MaxRuns /\ UNCHANGED vars /\ phase = "idle"
  BY DEF Begin
<1>3. TypeOK' /\ PhotosInv'
  BY <1>1, <1>2 DEF PhotosInv, PhotosConsistent, TypeOK, vars, imageVars, faceVars, indexVars,
                    hiddenVars, assignVars
<1>4. ListsInv' /\ HiddenCounted' /\ Forgotten' = Forgotten /\ ref' = ref
  BY <1>2 DEF JobInv, ListsInv, ListedFacesReferBack, IdentitiesMatchMembers, AssignedFacesLive,
              HiddenCounted, Forgotten, vars, faceVars, hiddenVars, assignVars
<1>5. /\ snap'.eligible \subseteq Row /\ snap'.ref = ref /\ snap'.eligible \subseteq snap'.rows
  <2>1. Indexable \subseteq 0 .. (faceCount - 1)
    BY <1>1 DEF PhotosInv, PhotosConsistent, Indexable, TypeOK, Row
  <2> QED
    BY <1>1, <1>2, <2>1, SnapshotRows
<1>6. NobodyRefersToForgotten'
  BY <1>2, <1>4, <1>5 DEF JobInv, NobodyRefersToForgotten
<1>7. PinnedLabelled'
  BY <1>2 DEF PinnedLabelled
<1>8. JobTypeOK'
  <2>1. snap' \in [rows : SUBSET Row, eligible : SUBSET Row, ref : [Row -> 0 .. MaxIds], pinned : SUBSET Id]
    <3>1. Snapshot = [rows |-> Snapshot.rows, eligible |-> Snapshot.eligible,
                      ref |-> Snapshot.ref, pinned |-> Snapshot.pinned]
      BY DEF Snapshot, SnapshotOf
    <3>2. Snapshot.ref \in [Row -> 0 .. MaxIds]
      BY <1>1, SnapshotRows DEF TypeOK
    <3> QED
      BY <1>1, <1>2, <3>1, <3>2, SnapshotRows
  <2>2. runs' \in 0 .. MaxRuns
    BY <1>2, RunBoundsAssumption DEF JobInv, JobTypeOK
  <2>3. labels' \in [DOMAIN labels' -> 0 .. MaxIds] /\ DOMAIN labels' = {} /\ handled' \in 0 .. MaxHandled
    BY <1>2 DEF JobInv, JobTypeOK
  <2> QED
    BY <1>2, <1>3, <1>5, <2>1, <2>2, <2>3 DEF JobTypeOK
<1> QED
  BY <1>3, <1>4, <1>6, <1>7, <1>8 DEF JobInv

(* The ids the job hands out are ids its snapshot referred to or larger    *)
(* than any in the file now, so none of them was forgotten.                *)
LEMMA NameStep ==
    ASSUME JobInv, Name
    PROVE  JobInv'
<1>1. PICK root \in Groupings(snap) :
        \E pos \in Orders(snap, root), fid \in [Roots(root) -> Id] :
           /\ NamedBy(snap, root, pos, idCount + 1, fid)
           /\ labels' = Labels(snap, root, fid)
  BY DEF Name
<1>2. PICK pos \in Orders(snap, root), fid \in [Roots(root) -> Id] :
           /\ NamedBy(snap, root, pos, idCount + 1, fid)
           /\ labels' = Labels(snap, root, fid)
  BY <1>1
<1>3. /\ phase' = "named" /\ UNCHANGED <<vars, snap, runs, handled>>
  BY DEF Name
<1>4. /\ snap.rows \in SUBSET Row /\ snap.eligible \subseteq Row /\ snap.pinned \in SUBSET Id
      /\ snap.eligible \subseteq snap.rows
  BY DEF JobInv, JobTypeOK
<1>5. TypeOK /\ ListsInv /\ PhotosInv /\ HiddenCounted /\ NobodyRefersToForgotten
  BY DEF JobInv, JobTypeOK
<1>6. TypeOK' /\ PhotosInv'
  BY <1>3, <1>5 DEF PhotosInv, PhotosConsistent, TypeOK, vars, imageVars, faceVars, indexVars,
                    hiddenVars, assignVars
<1>7. ListsInv' /\ HiddenCounted' /\ Forgotten' = Forgotten /\ ref' = ref
  BY <1>3, <1>5 DEF ListsInv, ListedFacesReferBack, IdentitiesMatchMembers, AssignedFacesLive,
                    HiddenCounted, Forgotten, vars, faceVars, hiddenVars, assignVars
<1>8. /\ labels' \in [snap.rows -> 0 .. MaxIds]
      /\ \A r \in snap.rows : labels'[r] # 0 =>
            r \in snap.eligible /\ root[r] \in Roots(root) /\ labels'[r] = fid[root[r]]
  BY <1>1, <1>2, LabelsType
<1>9. ASSUME NEW r \in snap.rows
      PROVE  labels'[r] \notin Forgotten
  <2>1. CASE labels'[r] = 0
    BY <1>5, <2>1, LiveNotForgotten
  <2>2. CASE labels'[r] # 0
    <3>1. root[r] \in Roots(root) /\ labels'[r] = fid[root[r]]
      BY <1>8, <2>2
    <3>2. idCount + 1 \in Nat /\ idCount \in Nat
      BY <1>5, ListsFacts
    <3>3. \/ \E q \in snap.eligible : fid[root[r]] = snap.ref[q]
          \/ fid[root[r]] >= idCount + 1
      BY <1>1, <1>2, <1>4, <3>1, <3>2, NamesAreRefsOrFresh
    <3>4. CASE \E q \in snap.eligible : fid[root[r]] = snap.ref[q]
      BY <1>5, <3>1, <3>4 DEF NobodyRefersToForgotten
    <3>5. CASE fid[root[r]] >= idCount + 1
      <4>1. ~(fid[root[r]] <= idCount)
        <5>1. fid[root[r]] \in Nat
          BY <3>1, BoundsAssumption DEF Id
        <5> QED
          BY <3>2, <3>5, <5>1
      <4> QED
        BY <1>5, <3>1, <4>1, LiveNotForgotten
    <3> QED
      BY <3>3, <3>4, <3>5
  <2> QED
    BY <2>1, <2>2
<1>10. NobodyRefersToForgotten'
  BY <1>3, <1>5, <1>7, <1>8, <1>9 DEF NobodyRefersToForgotten
<1>11. ASSUME NEW r \in snap.eligible, snap.ref[r] \in snap.pinned
       PROVE  labels'[r] = snap.ref[r]
  BY <1>1, <1>2, <1>4, <1>11, PinnedGroupsKeepTheirId
<1>12. PinnedLabelled'
  BY <1>3, <1>11 DEF PinnedLabelled
<1>13. JobTypeOK'
  <2>1. snap' = snap /\ runs' = runs /\ handled' = handled
    BY <1>3
  <2> QED
    BY <1>3, <1>6, <1>8, <2>1 DEF JobInv, JobTypeOK
<1> QED
  BY <1>6, <1>7, <1>10, <1>12, <1>13 DEF JobInv

(* What the exclusive lock finds: labels computed from an old snapshot.    *)
LEMMA LabelsAtApply ==
    ASSUME JobInv, Apply
    PROVE  /\ snap.rows \in SUBSET Row /\ labels \in [snap.rows -> 0 .. MaxIds]
           /\ ApplyLabels(labels)
BY DEF JobInv, JobTypeOK, Apply

LEMMA ApplyStep ==
    ASSUME JobInv, Apply
    PROVE  JobInv'
<1>1. TypeOK /\ ListsInv /\ PhotosInv /\ HiddenCounted /\ NobodyRefersToForgotten
  BY DEF JobInv, JobTypeOK
<1>2. TypeOK'
  BY <1>1, LabelsAtApply, ApplyKeepsType
<1>3. /\ ListsInv' /\ idCount <= idCount'
      /\ \A r \in Row : ref'[r] = IF r \in snap.rows \cap liveFaces THEN labels[r] ELSE ref[r]
  BY <1>1, LabelsAtApply, ApplyKeepsLists
<1>4. UNCHANGED <<imageVars, faceVars, hiddenVars>>
  BY DEF Apply, ApplyLabels
<1>5. PhotosInv'
  BY <1>1, <1>2, <1>4 DEF PhotosInv, PhotosConsistent, imageVars, faceVars
<1>6. HiddenCounted' /\ Forgotten' = Forgotten
  BY <1>1, <1>2, <1>3, <1>4, UnchangedHidingKept DEF TypeOK
<1>7. JobTypeOK' /\ PinnedLabelled' /\ snap'.eligible = {} /\ DOMAIN labels' = {}
  BY <1>2, IdleIsTyped DEF Apply, JobInv, JobTypeOK
<1>8. \A r \in Row : ref'[r] \notin Forgotten
  BY <1>1, <1>3, LabelsAtApply DEF NobodyRefersToForgotten
<1>9. NobodyRefersToForgotten'
  BY <1>6, <1>7, <1>8 DEF NobodyRefersToForgotten
<1> QED
  BY <1>3, <1>5, <1>6, <1>7, <1>9 DEF JobInv

(* A start clears the mirror of every dead identity, and no face refers to *)
(* a dead one after it.                                                    *)
LEMMA StopStep ==
    ASSUME JobInv, Stop
    PROVE  JobInv'
<1>1. TypeOK /\ ListsInv /\ PhotosInv /\ HiddenCounted
  BY DEF JobInv, JobTypeOK
<1>2. TypeOK' /\ PhotosInv'
  BY <1>1, RestartKeepsType, PhotosStep DEF Stop, Next, PhotosInv
<1>3. /\ ListsInv' /\ (\A r \in Row : ref'[r] \in liveIds' \cup {0}) /\ liveIds' \subseteq liveIds
      /\ hidden' = hidden /\ idCount' = idCount
  <2>1. CASE Restart
    <3>1. Load(lowQuality) /\ lowQuality \in SUBSET Row
      BY <1>1, <2>1 DEF Restart, TypeOK
    <3> QED
      BY <1>1, <3>1, LoadKeepsLists DEF Load
  <2>2. ASSUME NEW low \in SUBSET liveFaces, Reindex(low)
        PROVE  /\ ListsInv' /\ (\A r \in Row : ref'[r] \in liveIds' \cup {0}) /\ liveIds' \subseteq liveIds
               /\ hidden' = hidden /\ idCount' = idCount
    <3> DEFINE gated == low \cup (lowQuality \ liveFaces)
    <3>1. Load(gated) /\ gated \in SUBSET Row
      BY <1>1, <2>2 DEF Reindex, TypeOK
    <3> HIDE DEF gated
    <3> QED
      BY <1>1, <3>1, LoadKeepsLists DEF Load
  <2> QED
    BY <2>1, <2>2 DEF Stop, RestartStep
<1>4. /\ hiddenCount' = Cardinality(hiddenMask')
      /\ hiddenMask' = hidden \cap liveIds \/ hiddenMask' = hidden \cap liveIds'
  <2>1. Restart => hiddenMask' = hidden \cap liveIds /\ hiddenCount' = Cardinality(hiddenMask')
    BY DEF Restart
  <2>2. ASSUME NEW low, Reindex(low)
        PROVE  hiddenMask' = hidden \cap liveIds' /\ hiddenCount' = Cardinality(hiddenMask')
    BY <2>2 DEF Reindex
  <2> QED
    BY <2>1, <2>2 DEF Stop, RestartStep
<1>5. HiddenCounted'
  BY <1>1, <1>3, <1>4 DEF HiddenCounted
<1>6. \A r \in Row : ref'[r] \notin Forgotten'
  <2>1. 0 \notin hidden
    BY <1>1, ListsFacts DEF TypeOK
  <2> QED
    BY <1>3, <1>4, <2>1 DEF Forgotten
<1>7. JobTypeOK' /\ PinnedLabelled' /\ snap'.eligible = {} /\ DOMAIN labels' = {}
  <2>1. handled' \in 0 .. MaxHandled /\ runs' \in 0 .. MaxRuns /\ JobIdle /\ JobTypeOK
    BY RunBoundsAssumption DEF Stop, JobInv, JobTypeOK
  <2> QED
    BY <1>2, <2>1, IdleIsTyped
<1>8. NobodyRefersToForgotten'
  BY <1>6, <1>7 DEF NobodyRefersToForgotten
<1> QED
  BY <1>2, <1>3, <1>5, <1>7, <1>8 DEF JobInv

-----------------------------------------------------------------------------
(* Theorems *)

LEMMA JobInvariant == JobSpec => []JobInv
<1>1. JobInit => JobInv
  <2> SUFFICES ASSUME JobInit PROVE JobInv
    OBVIOUS
  <2>1. PhotosInv /\ TypeOK
    BY BoundsAssumption DEF JobInit, Init, PhotosInv, PhotosConsistent, TypeOK, ImageId
  <2>2. ListsInv
    BY FS_EmptySet DEF JobInit, Init, ListsInv, ListedFacesReferBack, IdentitiesMatchMembers,
                       AssignedFacesLive
  <2>3. HiddenCounted /\ Forgotten = {}
    BY FS_EmptySet DEF JobInit, Init, HiddenCounted, Forgotten
  <2>4. snap = NoSnap /\ labels = NoLabels /\ phase = "idle" /\ runs = 0 /\ handled = 0
    BY DEF JobInit
  <2>5. NoSnap \in [rows : SUBSET Row, eligible : SUBSET Row, ref : [Row -> 0 .. MaxIds], pinned : SUBSET Id]
    BY BoundsAssumption DEF NoSnap, SnapshotOf
  <2>6. NoSnap.eligible = {} /\ DOMAIN NoLabels = {} /\ NoLabels \in [{} -> 0 .. MaxIds]
    BY DEF NoSnap, SnapshotOf, NoLabels
  <2>7. JobTypeOK
    BY <2>1, <2>4, <2>5, <2>6, RunBoundsAssumption DEF JobTypeOK
  <2> QED
    BY <2>1, <2>2, <2>3, <2>4, <2>7 DEF JobInv, NobodyRefersToForgotten, PinnedLabelled
<1>2. JobInv /\ [JobNext]_allVars => JobInv'
  <2> SUFFICES ASSUME JobInv, [JobNext]_allVars PROVE JobInv'
    OBVIOUS
  <2>1. CASE Handler
    <3>1. TypeOK'
      BY <2>1, IngestKeepsType, RemoveKeepsType, CurationKeepsType DEF Handler, JobInv, JobTypeOK
    <3> QED
      BY <2>1, <3>1, HandlerStep
  <2>2. CASE UNCHANGED allVars
    <3>1. UNCHANGED <<vars, phase, snap, labels, runs, handled>>
      BY <2>2 DEF allVars, jobVars
    <3>2. TypeOK' /\ PhotosInv'
      BY <3>1 DEF JobInv, PhotosInv, PhotosConsistent, TypeOK, vars, imageVars, faceVars,
                  indexVars, hiddenVars, assignVars
    <3>3. ListsInv' /\ HiddenCounted' /\ NobodyRefersToForgotten' /\ PinnedLabelled'
      BY <3>1 DEF JobInv, ListsInv, ListedFacesReferBack, IdentitiesMatchMembers,
                  AssignedFacesLive, HiddenCounted, NobodyRefersToForgotten, Forgotten,
                  PinnedLabelled, vars, faceVars, hiddenVars, assignVars
    <3> QED
      BY <3>1, <3>2, <3>3 DEF JobInv, JobTypeOK
  <2> QED
    BY <2>1, <2>2, BeginStep, NameStep, ApplyStep, StopStep DEF JobNext
<1> QED
  BY <1>1, <1>2, PTL DEF JobSpec

(* Whatever the job overlaps, a face is listed under one identity at most, *)
(* the one its row refers to, and a tombstoned face under none.            *)
THEOREM ListsReferBack == JobSpec => []ListedFacesReferBack
<1>1. JobInv => ListedFacesReferBack
  BY DEF JobInv, ListsInv
<1> QED
  BY <1>1, JobInvariant, PTL

(* Also with the job between two handlers an identity is live exactly      *)
(* while it lists a face, and its stored size is the length of its list.   *)
THEOREM JobKeepsIdentities == JobSpec => []IdentitiesMatchMembers
<1>1. JobInv => IdentitiesMatchMembers
  BY DEF JobInv, ListsInv
<1> QED
  BY <1>1, JobInvariant, PTL

(* A face whose row refers to a live hidden identity is suppressed by      *)
(* every search and lookup, also when the job ran across hiding, merging,  *)
(* dissolving or a deletion.                                               *)
THEOREM HiddenStayHidden == JobSpec => []HiddenNeverSurface
<1>1. JobInv => HiddenNeverSurface
  <2> SUFFICES ASSUME JobInv, NEW r \in liveFaces, ref[r] \in hidden \cap liveIds
               PROVE  RowHidden(r)
    BY DEF HiddenNeverSurface
  <2>1. TypeOK /\ ListsInv /\ HiddenCounted /\ NobodyRefersToForgotten
    BY DEF JobInv, JobTypeOK
  <2>2. ref[r] \in hiddenMask
    BY <2>1, LiveNotForgotten DEF Forgotten
  <2>3. hiddenCount # 0
    BY <2>1, <2>2, IdsCounted, FS_EmptySet DEF HiddenCounted, TypeOK
  <2> QED
    BY <2>2, <2>3 DEF RowHidden
<1> QED
  BY <1>1, JobInvariant, PTL

(* The job never moves a face it saw in a pinned identity: when it ends,   *)
(* each of them that still exists refers to that identity.                 *)
THEOREM PinnedRowsKept == JobSpec => PinnedRowsAreFixed
<1>1. ASSUME JobInv, Apply, NEW r \in snap.eligible \cap liveFaces, snap.ref[r] \in snap.pinned
      PROVE  ref'[r] = snap.ref[r]
  <2>1. TypeOK /\ ListsInv /\ PinnedLabelled /\ phase = "named" /\ snap.eligible \subseteq snap.rows
    BY <1>1 DEF JobInv, JobTypeOK, Apply
  <2>2. labels[r] = snap.ref[r]
    BY <1>1, <2>1 DEF PinnedLabelled
  <2>3. r \in Row /\ r \in snap.rows \cap liveFaces
    BY <2>1, ListsFacts
  <2> QED
    BY <1>1, <2>1, <2>2, <2>3, LabelsAtApply, ApplyKeepsLists
<1>2. JobInv /\ [JobNext]_allVars
        => [Apply => \A r \in snap.eligible \cap liveFaces :
                        snap.ref[r] \in snap.pinned => ref'[r] = snap.ref[r]]_allVars
  BY <1>1
<1> QED
  BY <1>2, JobInvariant, PTL DEF JobSpec, PinnedRowsAreFixed

(* A face ingested while the job ran keeps the identity it joined, and     *)
(* that identity is live when the job ends even if the labels left it      *)
(* none of its old faces.                                                  *)
THEOREM IngestSurvivesJob == JobSpec => IngestMeanwhileSurvives
<1>1. ASSUME JobInv, Apply, NEW r \in Indexable \ snap.rows, ref[r] # 0
      PROVE  ref'[r] = ref[r] /\ ref[r] \in liveIds'
  <2>1. TypeOK /\ ListsInv
    BY <1>1 DEF JobInv, JobTypeOK
  <2>2. r \in Row /\ r \notin snap.rows /\ ref[r] \in Id
    BY <1>1, <2>1, ListsFacts DEF Indexable
  <2>3. ref'[r] = ref[r] /\ ListsInv'
    BY <1>1, <2>1, <2>2, LabelsAtApply, ApplyKeepsLists
  <2>4. r \in members'[ref[r]]
    BY <1>1, <2>1, <2>2, <2>3, LabelsAtApply, ApplyKeepsLists
  <2> QED
    BY <2>2, <2>3, <2>4 DEF ListsInv, IdentitiesMatchMembers
<1>2. JobInv /\ [JobNext]_allVars
        => [Apply => \A r \in Indexable \ snap.rows :
                        ref[r] # 0 => ref'[r] = ref[r] /\ ref[r] \in liveIds']_allVars
  BY <1>1
<1> QED
  BY <1>2, JobInvariant, PTL DEF JobSpec, IngestMeanwhileSurvives

-----------------------------------------------------------------------------
(* One at a time: no other handler runs while a job does; a stop may still *)
(* end it.                                                                 *)
AloneNext == JobNext /\ (Handler => phase = "idle")
AloneSpec == JobInit /\ [][AloneNext]_allVars

(* The labels are those ClusterOnce would choose now.                      *)
NamedNow ==
    \E root \in Groupings(Snapshot) :
        \E pos \in Orders(Snapshot, root), fid \in [Roots(root) -> Id] :
            /\ NamedBy(Snapshot, root, pos, idCount + 1, fid)
            /\ labels = Labels(Snapshot, root, fid)

(* Alone, a job writes under the exclusive lock what it saw under the      *)
(* shared one.                                                             *)
AloneInv ==
    /\ phase \in {"idle", "begun", "named"}
    /\ phase # "idle" => snap = Snapshot
    /\ phase = "named" => NamedNow

LEMMA AloneStep ==
    ASSUME AloneInv, [AloneNext]_allVars
    PROVE  AloneInv' /\ [Next]_vars
<1>1. ASSUME UNCHANGED vars PROVE Snapshot' = Snapshot /\ idCount' = idCount
  BY <1>1 DEF vars, faceVars, assignVars, Snapshot, SnapshotOf, Indexable
<1>2. CASE Begin
  BY <1>1, <1>2 DEF Begin, AloneInv
<1>3. CASE Name
  <2>1. UNCHANGED vars /\ snap' = snap /\ phase' = "named" /\ snap = Snapshot
    BY <1>3 DEF Name, AloneInv
  <2>2. PICK root \in Groupings(snap) :
          \E pos \in Orders(snap, root), fid \in [Roots(root) -> Id] :
             /\ NamedBy(snap, root, pos, idCount + 1, fid)
             /\ labels' = Labels(snap, root, fid)
    BY <1>3 DEF Name
  <2>3. NamedNow'
    BY <1>1, <2>1, <2>2 DEF NamedNow
  <2> QED
    BY <1>1, <2>1, <2>3 DEF AloneInv
<1>4. CASE Apply
  <2>1. NamedNow /\ ApplyLabels(labels) /\ phase' = "idle"
    BY <1>4 DEF Apply, JobIdle, AloneInv
  <2>2. ClusterOnce
    BY <2>1 DEF NamedNow, ClusterOnce
  <2> QED
    BY <2>1, <2>2 DEF AloneInv, Next
<1>5. CASE Handler /\ phase = "idle"
  <2>1. (IngestStep \/ RemoveStep \/ CurationStep) /\ phase' = "idle"
    BY <1>5 DEF Handler
  <2> QED
    BY <2>1 DEF AloneInv, Next
<1>6. CASE Stop
  BY <1>6 DEF Stop, JobIdle, AloneInv, Next
<1>7. CASE UNCHANGED allVars
  <2>1. UNCHANGED vars /\ snap' = snap /\ labels' = labels /\ phase' = phase
    BY <1>7 DEF allVars, jobVars
  <2> QED
    BY <1>1, <2>1 DEF AloneInv, NamedNow
<1> QED
  BY <1>2, <1>3, <1>4, <1>5, <1>6, <1>7 DEF AloneNext, JobNext

(* A job that no other handler overlaps is the single step ClusterOnce of  *)
(* Gallery, for every gallery it can start from, so everything proved of   *)
(* Gallery holds of it; what is lost in Recluster is lost to overlap.      *)
THEOREM AloneIsGallery == AloneSpec => Spec
<1>1. JobInit => Init /\ AloneInv
  BY DEF JobInit, AloneInv
<1>2. AloneInv /\ [AloneNext]_allVars => AloneInv' /\ [Next]_vars
  BY AloneStep
<1> QED
  BY <1>1, <1>2, PTL DEF AloneSpec, Spec
=============================================================================
