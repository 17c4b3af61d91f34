----------------------------- MODULE Clustering -----------------------------
(***************************************************************************)
(* The decisions of Gallery::recluster (src/store/identity.cpp): how the   *)
(* rows of a snapshot are grouped, how a group is given a stable identity  *)
(* id, and which groups are left unassigned.                               *)
(*                                                                         *)
(* Embeddings are abstracted away.  The nearest-neighbour graph, Chinese   *)
(* Whispers and the centroid merge may produce any grouping of the         *)
(* eligible rows, except where the code restricts it: rows of a pinned     *)
(* identity carry a fixed label (n + ref) and two pinned groups never      *)
(* merge.  A group is named by its smallest row, as in UnionFind, whose    *)
(* smaller root wins.                                                      *)
(*                                                                         *)
(* An identity is named by the value the face row stores for it,           *)
(* identity_id + 1; 0 stands for "unassigned".                             *)
(***************************************************************************)
EXTENDS Naturals, FiniteSets

CONSTANTS MinSize       \* ClusterParams::min_size

ASSUME MinSizeAssumption == MinSize \in Nat

(* What the job copies under its first shared lock: the rows that existed, *)
(* the ones that may be clustered, their identities, the pinned ones.      *)
SnapshotOf(rows, eligible, refs, pinnedIds) ==
    [rows |-> rows, eligible |-> eligible, ref |-> refs, pinned |-> pinnedIds]

Group(root, c) == {r \in DOMAIN root : root[r] = c}

Roots(root) == {r \in DOMAIN root : root[r] = r}

(* Mistake: no group is seen to carry a pinned identity.                   *)
PinnedIgnored(snap, root, c) == {}

(* The pinned identity a group carries (cpinned, fpinned): one or none.    *)
PinnedOf(snap, root, c) == {snap.ref[r] : r \in Group(root, c)} \cap snap.pinned

(* The groupings label propagation and centroid merge can end with.        *)
Groupings(snap) ==
    {root \in [snap.eligible -> snap.eligible] :
        /\ \A r \in snap.eligible : root[r] <= r /\ root[root[r]] = root[r]
        /\ \A r, q \in snap.eligible :
              snap.ref[r] = snap.ref[q] /\ snap.ref[r] \in snap.pinned
                 => root[r] = root[q]
        /\ \A c \in Roots(root) : Cardinality(PinnedOf(snap, root, c)) <= 1}

Overlap(snap, root, c, id) == Cardinality({r \in Group(root, c) : snap.ref[r] = id})

(* The order in which unpinned groups choose an id: larger groups first,   *)
(* equal ones by label, which may fall either way.                         *)
Orders(snap, root) ==
    LET free == {c \in Roots(root) : PinnedOf(snap, root, c) = {}}
    IN  {pos \in [free -> 1 .. Cardinality(free)] :
            \A c, d \in free :
               /\ c # d => pos[c] # pos[d]
               /\ Cardinality(Group(root, c)) > Cardinality(Group(root, d))
                    => pos[c] < pos[d]}

(* fid is the naming the code computes: a pinned group keeps its identity, *)
(* every other group in turn claims the unclaimed identity most of its     *)
(* rows had (the smallest on a tie), or the next fresh id.                 *)
NamedBy(snap, root, pos, next, fid) ==
    \A c \in Roots(root) :
        LET pinnedRefs == PinnedOf(snap, root, c)
            earlier    == {d \in DOMAIN pos : pos[d] < pos[c]}
            claimed    == {fid[d] : d \in (Roots(root) \ DOMAIN pos) \cup earlier}
            wanted     == {snap.ref[r] : r \in Group(root, c)} \ ({0} \cup claimed)
        IN  IF pinnedRefs # {}
            THEN fid[c] \in pinnedRefs
            ELSE IF wanted = {}
            THEN fid[c] = next + Cardinality({d \in earlier : fid[d] >= next})
            ELSE /\ fid[c] \in wanted
                 /\ \A id \in wanted :
                      \/ Overlap(snap, root, c, id) < Overlap(snap, root, c, fid[c])
                      \/ /\ Overlap(snap, root, c, id) = Overlap(snap, root, c, fid[c])
                         /\ fid[c] <= id

(* A group below min_size is left unassigned unless it carries a pinned    *)
(* identity.                                                               *)
Dropped(snap, root, c) ==
    /\ PinnedOf(snap, root, c) = {}
    /\ Cardinality(Group(root, c)) < MinSize

(* row_labels: the identity each snapshot row is given, 0 for none.        *)
Labels(snap, root, fid) ==
    [r \in snap.rows |->
        IF r \in snap.eligible
        THEN IF Dropped(snap, root, root[r]) THEN 0 ELSE fid[root[r]]
        ELSE 0]
=============================================================================
