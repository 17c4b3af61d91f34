----------------------------- MODULE Recluster -----------------------------
(***************************************************************************)
(* Gallery::recluster (src/store/identity.cpp) while the server keeps      *)
(* serving.  The job copies flags, identities and pins under a shared lock *)
(* (Begin), computes groups without it, reads identities_.size() under a   *)
(* second shared lock to number new identities (Name) and writes the       *)
(* labels under the exclusive lock (Apply).  Every other handler may run   *)
(* in between; clustering_ and cluster_mu_ admit one job at a time.        *)
(***************************************************************************)
EXTENDS Gallery

CONSTANTS
    MaxRuns,      \* bound: jobs started
    MaxHandled    \* bound: handlers and restarts, before, between and during jobs

ASSUME RunBoundsAssumption == MaxRuns \in Nat /\ MaxHandled \in Nat

VARIABLES
    phase,        \* of the job: "idle", "begun" (snapshot taken), "named"
    snap,         \* its snapshot
    labels,       \* its row_labels
    runs,         \* jobs started so far
    handled       \* handlers and restarts so far

jobVars == <<phase, snap, labels, runs, handled>>
allVars == <<vars, jobVars>>

NoSnap   == SnapshotOf({}, {}, [r \in Row |-> 0], {})
NoLabels == [r \in {} |-> 0]

JobIdle ==
    /\ phase' = "idle"
    /\ snap' = NoSnap
    /\ labels' = NoLabels

JobInit ==
    /\ Init
    /\ phase = "idle" /\ snap = NoSnap /\ labels = NoLabels
    /\ runs = 0 /\ handled = 0

(* clustering_.exchange(true) returned false; the first shared lock.       *)
Begin ==
    /\ phase = "idle"
    /\ runs < MaxRuns
    /\ phase' = "begun"
    /\ snap' = Snapshot
    /\ runs' = runs + 1
    /\ UNCHANGED <<vars, labels, handled>>

(* Label propagation, centroid merge and naming: everything but next_id    *)
(* comes from the snapshot.                                                *)
Name ==
    /\ phase = "begun"
    /\ \E root \in Groupings(snap) :
          \E pos \in Orders(snap, root), fid \in [Roots(root) -> Id] :
             /\ NamedBy(snap, root, pos, idCount + 1, fid)
             /\ labels' = Labels(snap, root, fid)
    /\ phase' = "named"
    /\ UNCHANGED <<vars, snap, runs, handled>>

(* The exclusive lock: nothing read since the snapshot is looked at again. *)
Apply ==
    /\ phase = "named"
    /\ ApplyLabels(labels)
    /\ JobIdle
    /\ UNCHANGED <<runs, handled>>

(* Any other handler of the running server.                                *)
Handler ==
    /\ IngestStep \/ RemoveStep \/ CurationStep
    /\ handled < MaxHandled
    /\ handled' = handled + 1
    /\ UNCHANGED <<phase, snap, labels, runs>>

(* The process stops, the job with it, and starts again.                   *)
Stop ==
    /\ RestartStep
    /\ handled < MaxHandled
    /\ handled' = handled + 1
    /\ JobIdle
    /\ UNCHANGED runs

JobNext == Begin \/ Name \/ Apply \/ Handler \/ Stop

JobSpec == JobInit /\ [][JobNext]_allVars

-----------------------------------------------------------------------------
(* Properties *)

(* Whatever the job overlaps, a face is listed under one identity at most, *)
(* the one its row refers to, and a tombstoned face under none.            *)
ListedFacesReferBack ==
    \A id \in Id : members[id] \subseteq {r \in liveFaces : ref[r] = id}

(* A face whose row refers to a live hidden identity is suppressed even    *)
(* when the job overlapped hiding, merging or dissolving.                  *)
HiddenNeverSurface ==
    \A r \in liveFaces : ref[r] \in hidden \cap liveIds => RowHidden(r)

(* A pinned identity's faces are fixed labels: a face the snapshot saw in  *)
(* a pinned identity, if it still exists, is in that identity when the job *)
(* ends.                                                                   *)
PinnedRowsAreFixed ==
    [][Apply =>
          \A r \in snap.eligible \cap liveFaces :
              snap.ref[r] \in snap.pinned => ref'[r] = snap.ref[r]]_allVars

(* A face ingested while the job ran keeps the identity it joined, and     *)
(* that identity outlives the job.                                         *)
IngestMeanwhileSurvives ==
    [][Apply =>
          \A r \in Indexable \ snap.rows :
              ref[r] # 0 => ref'[r] = ref[r] /\ ref[r] \in liveIds']_allVars

(* README: "a pinned identity is never dissolved by the job".  Refuted: a  *)
(* pin set after Begin is not seen.                                        *)
PinnedNeverDissolvedByJob ==
    [][Apply => pinned \cap liveIds \subseteq liveIds']_allVars
=============================================================================
