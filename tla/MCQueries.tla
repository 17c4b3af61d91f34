----------------------------- MODULE MCQueries -----------------------------
(* The reads and the algorithms on every small input of these shapes.      *)
EXTENDS Queries

(* Four faces: a face is dead, below the gate, or in an identity or none.  *)
(* Identity 1 may be hidden, rows 1 and 4 are in one photo, a face below   *)
(* the gate may still be in the index.                                     *)
MCRow   == 1 .. 4
MCKind  == {"dead", "low", "nobody", "one", "two"}
MCScore == {<<1, 2, 3, 4>>, <<4, 3, 2, 1>>, <<2, 4, 3, 2>>, <<2, 2, 3, 1>>}

MCFace(kind, score, r) ==
    [live  |-> kind[r] # "dead", low |-> kind[r] = "low", score |-> score[r], image |-> IF r = 4 THEN 1 ELSE r,
     who   |-> CASE kind[r] = "one" -> 1 [] kind[r] = "two" -> 2 [] OTHER -> 0]

MCGallery(kind, score, stale, hidden) ==
    [face    |-> [r \in MCRow |-> MCFace(kind, score, r)],
     hidden  |-> hidden,
     indexed |-> {r \in MCRow : kind[r] \in {"nobody", "one", "two"} \/ (stale /\ kind[r] = "low")}]

MCGalleries ==
    {MCGallery(p[1], p[2], p[3], p[4]) : p \in {q \in [MCRow -> MCKind] \X MCScore \X BOOLEAN \X {{}, {1}} :
        /\ q[3] => \E r \in MCRow : q[1][r] = "low"
        /\ q[4] # {} => \E r \in MCRow : q[1][r] = "one"}}

(* Options of a search and of a search with a template.                    *)
MCScan == {[few |-> TRUE, i8 |-> FALSE], [few |-> TRUE, i8 |-> TRUE], [few |-> FALSE, i8 |-> TRUE]}

MCOptions ==
    {[k |-> k, min |-> min, low |-> low, range |-> mode = "range", group |-> mode = "group", key |-> key,
      few |-> scan.few, i8 |-> scan.i8] :
        k \in 1 .. 2, min \in {1, 3}, low \in BOOLEAN, mode \in {"k", "range", "group"}, key \in BOOLEAN, scan \in MCScan}

MCTemplates ==
    {[k |-> k, min |-> min, excluded |-> ex, key |-> key, few |-> few] :
        k \in 1 .. 2, min \in {1, 3}, ex \in {{}, {1}}, key \in BOOLEAN, few \in BOOLEAN}

-----------------------------------------------------------------------------
(* Four faces in two photos, each of one of three identities or of none.   *)
(* Two identities may be hidden; an identity may be without a face.        *)
MCCensuses ==
    {[who   |-> p[1], photo |-> p[2], hidden |-> p[3], ids |-> {1, 2, 4},
      time  |-> [r \in MCRow |-> IF r \in p[4] THEN 1 ELSE r],
      score |-> [i \in {1, 2, 4} |-> IF i = 1 THEN 2 ELSE i]] :
        p \in [MCRow -> {0, 1, 2, 4}] \X {q \in [MCRow -> 1 .. 2] : q[1] = 2} \X {{}, {1}, {1, 2}} \X {{}, {1, 4}}}

-----------------------------------------------------------------------------
(* Four nodes.  Between two there is no edge, or one that either found     *)
(* with weight 1 or 3 (and the other with less), or both with 2.           *)
MCPair == {<<0, 0>>, <<1, 0>>, <<1, 3>>, <<2, 2>>}
MCEdge == {e \in Nodes(4) \X Nodes(4) : e[1] < e[2]}

MCNear(pair) ==
    [i \in Nodes(4) |-> [j \in Nodes(4) |->
        IF i = j THEN 3 ELSE IF i < j THEN pair[<<i, j>>][1] ELSE pair[<<j, i>>][2]]]

(* Rows 0 and 3 may be pinned to identity 0, row 2 may take no part.       *)
MCGraphs ==
    {[n |-> 4, floor |-> 1, near |-> MCNear(p[1]), pinned |-> [i \in p[2] |-> 0], eligible |-> p[3]] :
        p \in [MCEdge -> MCPair] \X {{}, {0}, {0, 3}} \X {Nodes(4), {0, 1, 3}}}

MCUnions == {[n |-> 4, pairs |-> p] : p \in [1 .. 3 -> Nodes(4) \X Nodes(4)]}
=============================================================================
