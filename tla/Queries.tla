------------------------------ MODULE Queries ------------------------------
(***************************************************************************)
(* Reads of the gallery, and the algorithms under a clustering job, put to *)
(* every input of given sets.  A state holds one input; the properties say *)
(* of each that the answer is right.  The sets are what the other modules  *)
(* say a gallery can be.                                                   *)
(***************************************************************************)
EXTENDS Search, People, Communities

CONSTANTS
    Galleries, Options, Templates,   \* of Search
    Censuses,                        \* of People
    Graphs,                          \* of Communities: neighbours, the rows that take part, the pinned ones
    Unions                           \* the same: a number of nodes, pairs to unite

(* Rows are numbers; only identities are hidden; what passes the gate is   *)
(* in the index (IndexCoversFaces of Gallery).                             *)
IsGallery(g) ==
    /\ IsFiniteSet(Rows(g)) /\ Rows(g) \subseteq Nat
    /\ \A r \in Rows(g) : {g.face[r].live, g.face[r].low} \subseteq BOOLEAN /\ g.face[r].score \in Nat
    /\ g.indexed \subseteq Rows(g) /\ Rows(g) \ Skipped(g, FALSE) \subseteq g.indexed
    /\ 0 \notin g.hidden

IsOptions(o) ==
    /\ o.k \in Nat \ {0} /\ o.min \in Nat
    /\ {o.low, o.range, o.group, o.key, o.few, o.i8} \subseteq BOOLEAN

IsTemplate(t) == t.k \in Nat \ {0} /\ t.min \in Nat /\ {t.key, t.few} \subseteq BOOLEAN

(* A limit of Everyone takes all of a census.                              *)
IsCensus(c) ==
    /\ IsFiniteSet(DOMAIN c.who) /\ DOMAIN c.who \subseteq Nat /\ Cardinality(DOMAIN c.who) <= Everyone
    /\ \A r \in DOMAIN c.who : c.photo[r] \in Nat /\ c.time[r] \in Nat
    /\ IsFiniteSet(c.ids) /\ c.ids \subseteq Nat /\ Cardinality(c.ids) <= Everyone
    /\ \A id \in c.ids : c.score[id] \in Nat

(* An edge has a weight; a pinned row takes part.                          *)
IsGraph(g) ==
    /\ g.n \in Nat /\ g.floor \in Nat \ {0}
    /\ \A i, j \in Nodes(g.n) : g.near[i][j] \in Nat
    /\ g.eligible \subseteq Nodes(g.n) /\ DOMAIN g.pinned \subseteq g.eligible
    /\ \A i \in DOMAIN g.pinned : g.pinned[i] \in Nat

IsUnions(u) == u.n \in Nat /\ u.pairs \in Seq(Nodes(u.n) \X Nodes(u.n))

ASSUME InputsAssumption ==
    /\ \A g \in Galleries : IsGallery(g)
    /\ \A o \in Options : IsOptions(o)
    /\ \A t \in Templates : IsTemplate(t)
    /\ \A c \in Censuses : IsCensus(c)
    /\ \A g \in Graphs : IsGraph(g)
    /\ \A u \in Unions : IsUnions(u)

VARIABLE input

None == [of |-> "none"]

PickSearch == \E g \in Galleries : input' = [of |-> "search", gallery |-> g]
PickPeople == \E c \in Censuses  : input' = [of |-> "people", census |-> c]
PickGraph  == \E x \in Graphs    : input' = [of |-> "graph", graph |-> x]
PickUnions == \E u \in Unions    : input' = [of |-> "unions", unions |-> u]

QueriesInit == input = None

QueriesNext ==
    \/ input = None /\ (PickSearch \/ PickPeople \/ PickGraph \/ PickUnions)
    \/ input # None /\ input' = None

QueriesSpec == QueriesInit /\ [][QueriesNext]_input

-----------------------------------------------------------------------------
(* Search returns the best faces a caller may see, however they were       *)
(* found; what is missing is crowded out by more faces than the slack is   *)
(* for.                                                                    *)
SearchFindsWhatCounts ==
    input.of = "search" =>
        /\ \A o \in Options   : SearchIsRight(input.gallery, o)
        /\ \A t \in Templates : TemplateIsRight(input.gallery, t)

(* The views of people agree with each other and keep the hidden hidden.   *)
PeopleViewsAgree == input.of = "people" => PeopleAreRight(input.census)

(* Clustering groups what is connected, whoever found the edge, as the     *)
(* recluster job needs it: rows of a pinned identity keep its label, those *)
(* that take part are numbered without a gap.                              *)
GraphIsClustered(g) ==
    LET w     == SymmetrizeKnn(g.near, g.n, g.floor, g.eligible)
        label == StartLabels(g.n, g.pinned)
        fixed == FixedNodes(g.n, g.eligible, g.pinned)
        end   == ChineseWhispers(w, label, fixed)
    IN  /\ GraphIsRight(g.near, g.n, g.floor, g.eligible)
        /\ WhispersAreRight(w, label, fixed)
        /\ CompactIsRight([i \in g.eligible |-> end[i]])

ClusteringLabels ==
    /\ input.of = "graph"  => GraphIsClustered(input.graph)
    /\ input.of = "unions" => UnionIsRight(input.unions.n, input.unions.pairs)
=============================================================================
