---------------------------- MODULE Communities ----------------------------
(***************************************************************************)
(* The algorithms under Gallery::recluster (src/identity/cluster.cpp and   *)
(* cluster.hpp): the graph from the nearest neighbours, Chinese Whispers   *)
(* on it, renumbering of labels, union-find.                               *)
(*                                                                         *)
(* Nodes are 0 .. n-1, weights are natural numbers, and 0 says there is no *)
(* edge.  A graph of neighbours is directed: near[i][j] is what the search *)
(* for i's neighbours gave for j.                                          *)
(***************************************************************************)
EXTENDS Ranking

CONSTANT MaxIters   \* ClusterParams::max_iters

ASSUME IterationBound == MaxIters \in Nat \ {0}

Nodes(n) == 0 .. n - 1

(* Mistake: an edge keeps the weight it was seen with first.               *)
SymmetrizeKeepingOneWay(near, n, floor, eligible) ==
    LET kept(i, j) == IF i # j /\ {i, j} \subseteq eligible /\ near[i][j] >= floor THEN near[i][j] ELSE 0
    IN  [i \in Nodes(n) |-> [j \in Nodes(n) |-> kept(i, j)]]

(* symmetrize_knn: eligible nodes, no loops, the larger weight.            *)
SymmetrizeKnn(near, n, floor, eligible) ==
    LET kept(i, j) == IF i # j /\ {i, j} \subseteq eligible /\ near[i][j] >= floor THEN near[i][j] ELSE 0
    IN  [i \in Nodes(n) |-> [j \in Nodes(n) |-> IF kept(i, j) > kept(j, i) THEN kept(i, j) ELSE kept(j, i)]]

(* The weight of a label among the neighbours of a node.                   *)
Weight(w, label, i, l) == SumFunction([j \in DOMAIN label |-> IF label[j] = l THEN w[i][j] ELSE 0])

(* The label a node would take: the heaviest, then the smallest, and its   *)
(* own unless that is strictly lighter.                                    *)
Preferred(w, label, i) ==
    LET around == {label[j] : j \in {k \in DOMAIN label : w[i][k] > 0}}
        best   == CHOOSE l \in around : \A m \in around :
                      \/ Weight(w, label, i, m) < Weight(w, label, i, l)
                      \/ Weight(w, label, i, m) = Weight(w, label, i, l) /\ l <= m
    IN  IF around = {} THEN label[i]
        ELSE IF Weight(w, label, i, best) > Weight(w, label, i, label[i]) THEN best ELSE label[i]

(* Mistake: all nodes move at once.                                        *)
SweepAtOnce(w, label, fixed) ==
    [i \in DOMAIN label |-> IF i \in fixed THEN label[i] ELSE Preferred(w, label, i)]

(* One pass: nodes in order, in place.                                     *)
Sweep(w, label, fixed) ==
    FoldLeft(LAMBDA l, i : IF i \in fixed THEN l ELSE [l EXCEPT ![i] = Preferred(w, l, i)],
             label, Ascending(DOMAIN label))

(* chinese_whispers: passes until nothing moves.                           *)
ChineseWhispers(w, label, fixed) ==
    LET pass[k \in 0 .. MaxIters] == IF k = 0 THEN label ELSE Sweep(w, pass[k - 1], fixed)
    IN  pass[MaxIters]

(* The labels recluster starts from: rows of a pinned identity have its    *)
(* own, above all rows, and keep it; so do rows that take no part.         *)
StartLabels(n, pinned) == [i \in Nodes(n) |-> IF i \in DOMAIN pinned THEN n + pinned[i] ELSE i]

FixedNodes(n, eligible, pinned) == (Nodes(n) \ eligible) \cup DOMAIN pinned

(* compact_labels: 0 .. C-1, in the order of the labels' values.           *)
CompactLabels(labels) ==
    [i \in DOMAIN labels |-> Cardinality({l \in ToSet(labels) : l < labels[i]})]

(* UnionFind, a forest of parents; find halves paths, which changes no     *)
(* root.                                                                   *)
RootIn(parent, x) ==
    LET up[k \in 0 .. Cardinality(DOMAIN parent)] == IF k = 0 THEN x ELSE parent[up[k - 1]]
    IN  up[Cardinality(DOMAIN parent)]

Unite(parent, a, b) ==
    LET ra == RootIn(parent, a)
        rb == RootIn(parent, b)
    IN  IF ra < rb THEN [parent EXCEPT ![rb] = ra] ELSE [parent EXCEPT ![ra] = rb]

-----------------------------------------------------------------------------
(* What they promise *)

(* Nodes that edges connect, each node with itself.                        *)
Component(w, i) ==
    LET grow(s) == s \cup {j \in DOMAIN w : \E k \in s : w[k][j] > 0}
        reach[k \in 0 .. Cardinality(DOMAIN w)] == IF k = 0 THEN {i} ELSE grow(reach[k - 1])
    IN  reach[Cardinality(DOMAIN w)]

(* The graph does not depend on who found whom, and keeps the best weight. *)
GraphIsRight(near, n, floor, eligible) ==
    LET w == SymmetrizeKnn(near, n, floor, eligible)
    IN  \A i, j \in Nodes(n) :
            /\ w[i][j] = w[j][i]
            /\ w[i][j] > 0 => i # j /\ {i, j} \subseteq eligible /\ w[i][j] >= floor
            /\ i # j /\ {i, j} \subseteq eligible /\ near[i][j] >= floor => w[i][j] >= near[i][j]

(* The weight of the edges inside a label, counted from both ends.         *)
Agreement(w, label) == SumFunction([i \in DOMAIN label |-> Weight(w, label, i, label[i])])

(* Whispers settle: no free node would move any more, unless every pass    *)
(* there was has made labels agree more (by 2 at least, as weights are     *)
(* natural numbers here, floats in the code); fixed nodes keep their label *)
(* and a label reaches only nodes connected to one that started with it.   *)
WhispersAreRight(w, label, fixed) ==
    LET end == ChineseWhispers(w, label, fixed)
    IN  /\ \/ \A i \in DOMAIN label \ fixed : Preferred(w, end, i) = end[i]
           \/ Agreement(w, end) >= Agreement(w, label) + 2 * MaxIters
        /\ \A i \in DOMAIN label :
              /\ i \in fixed => end[i] = label[i]
              /\ \E j \in Component(w, i) : label[j] = end[i]

(* The same groups, numbered without a gap.                                *)
CompactIsRight(labels) ==
    LET out == CompactLabels(labels)
    IN  /\ ToSet(out) = 0 .. Cardinality(ToSet(labels)) - 1
        /\ \A i, j \in DOMAIN labels : labels[i] = labels[j] <=> out[i] = out[j]

(* After any unions, two nodes have one root exactly when they are         *)
(* connected, and it is the smallest node of them.                         *)
UnionIsRight(n, unions) ==
    LET forest == FoldLeft(LAMBDA p, u : Unite(p, u[1], u[2]), [x \in Nodes(n) |-> x], unions)
        edges  == [i \in Nodes(n) |-> [j \in Nodes(n) |-> IF \E u \in ToSet(unions) : {i, j} = {u[1], u[2]} THEN 1 ELSE 0]]
    IN  \A i \in Nodes(n) : RootIn(forest, i) = CHOOSE m \in Component(edges, i) : \A k \in Component(edges, i) : m <= k
=============================================================================
