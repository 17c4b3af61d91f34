------------------------------- MODULE Search -------------------------------
(***************************************************************************)
(* Search over the faces of a gallery (src/store/gallery.cpp): candidates  *)
(* from an exact scan, a scan of 8-bit copies or the HNSW, scored again,   *)
(* stripped of hidden faces, cut to k or grouped by identity; and the      *)
(* search for photos with a template.                                      *)
(*                                                                         *)
(* A gallery is a record: per row its flags, score against the query,      *)
(* identity (0 for none) and photo; the hidden identities; the rows in the *)
(* index.  Scores are numbers, equal ones rank by row.  The 8-bit score    *)
(* falls short of the real one by less than I8Margin.                      *)
(***************************************************************************)
EXTENDS Ranking

CONSTANTS
    Slack,          \* 16: fetched beyond 2k when faces are hidden
    GroupFactor, GroupMin,        \* 8 and 64: hits fetched to be grouped
    I8Factor, I8Slack, I8Margin,  \* 4, 32 and 0.02: the pool of the 8-bit scan
    PoolFactor, PoolMin,          \* 8 and 64: keys asked of the HNSW
    TemplateFactor, TemplateMin,  \* 16 and 512: the same for a template
    MaxRange                      \* cfg_.max_range

ASSUME SearchBounds ==
    /\ {Slack, GroupFactor, GroupMin, I8Factor, I8Slack, I8Margin, PoolFactor, PoolMin,
        TemplateFactor, TemplateMin, MaxRange} \subseteq Nat
    /\ I8Margin > 0

Larger(a, b) == IF a > b THEN a ELSE b

Rows(g)    == DOMAIN g.face
Score(g)   == [r \in Rows(g) |-> g.face[r].score]
Coarse(g)  == [r \in Rows(g) |-> g.face[r].score - (g.face[r].score % I8Margin)]

(* face_flags & skip_mask.                                                 *)
Skipped(g, low) == {r \in Rows(g) : ~ g.face[r].live \/ (g.face[r].low /\ ~ low)}

(* HnswIndex::search, when it finds the true nearest.                      *)
Nearest(g, k) == ToSet(First(Ranked(g.indexed, Score(g)), Larger(k, 1)))

(* Score again, drop what is below the floor, cut.                         *)
Rerank(g, rows, want, floor) ==
    First(Ranked({r \in rows : g.face[r].score >= floor}, Score(g)), want)

Exact(g, o)  == o.few \/ o.low \/ g.indexed = {}
I8Pool(want) == Larger(want * I8Factor, want + I8Slack)

(* A search by range asks for want >= max_range, so max_pool is pool and   *)
(* the loop that would widen it ends at once.                              *)
Pool(o, want) == IF o.range THEN Larger(PoolMin, want) ELSE Larger(want * PoolFactor, PoolMin)

(* candidates_locked                                                       *)
Candidates(g, o, want) ==
    LET open  == Rows(g) \ Skipped(g, o.low)
        floor == IF o.min > I8Margin THEN o.min - I8Margin ELSE 0
    IN  CASE Exact(g, o) /\ o.i8   -> Rerank(g, ToSet(TopK(open, I8Pool(want), floor, Coarse(g))), want, o.min)
          [] Exact(g, o) /\ ~ o.i8 -> TopK(open, want, o.min, Score(g))
          [] ~ Exact(g, o)         -> Rerank(g, Nearest(g, Pool(o, want)) \cap open, want, o.min)

(* row_hidden_locked, hydrate.                                             *)
HiddenRow(g, r)       == g.face[r].who \in g.hidden
Hydrate(g, rows, key) ==
    EntriesAt(rows, {i \in DOMAIN rows : g.face[rows[i]].live /\ (key \/ ~ HiddenRow(g, rows[i]))})

(* group_hits: the best hit of each identity, and how many more there are. *)
(* What has no identity is a group of its own.                             *)
GroupHits(g, hits, k) ==
    LET add(out, r) ==
            LET who  == g.face[r].who
                slot == SelectInSeq(out, LAMBDA h : who # 0 /\ g.face[h.row].who = who)
            IN  CASE slot # 0                  -> [out EXCEPT ![slot].collapsed = @ + 1]
                  [] slot = 0 /\ Len(out) >= k -> out
                  [] slot = 0 /\ Len(out) < k  -> Append(out, [row |-> r, collapsed |-> 0])
    IN  FoldLeft(add, <<>>, hits)

(* search_locked                                                           *)
Want(o)     == CASE o.range                -> Larger(MaxRange, o.k)
                 [] ~ o.range /\ o.group   -> Larger(o.k * GroupFactor, GroupMin)
                 [] ~ o.range /\ ~ o.group -> o.k
Fetch(g, o) == IF g.hidden # {} /\ ~ o.key /\ ~ o.range THEN Want(o) * 2 + Slack ELSE Want(o)

SearchLocked(g, o) ==
    LET hits == Hydrate(g, Candidates(g, o, Fetch(g, o)), o.key)
    IN  IF o.group THEN GroupHits(g, hits, o.k)
        ELSE [i \in 1 .. Len(IF o.range THEN hits ELSE First(hits, o.k)) |-> [row |-> hits[i], collapsed |-> 0]]

(* Mistake: the last face of a photo that was looked at stands for it.     *)
ConsiderLast(g, t, rows) ==
    {r \in rows : \A q \in rows : g.face[q].image = g.face[r].image => q <= r}

(* search_template, for one example.  consider() keeps the best face of    *)
(* each photo.                                                             *)
Consider(g, t, rows) ==
    {r \in rows : \A q \in rows : g.face[q].image = g.face[r].image =>
        g.face[q].score < g.face[r].score \/ (g.face[q].score = g.face[r].score /\ r <= q)}

TemplateRows(g, t) ==
    {r \in Rows(g) \ Skipped(g, FALSE) :
        /\ g.face[r].image \notin t.excluded
        /\ t.key \/ ~ HiddenRow(g, r)
        /\ g.face[r].score >= t.min}

SearchTemplate(g, t) ==
    LET count == Larger(TemplateMin, t.k * TemplateFactor)
        asked == IF t.few THEN Rows(g) ELSE Nearest(g, count)
    IN  Hydrate(g, First(Ranked(Consider(g, t, asked \cap TemplateRows(g, t)), Score(g)), t.k), t.key)

-----------------------------------------------------------------------------
(* What a search promises *)

(* The faces a caller may see that match.                                  *)
Matches(g, o) ==
    {r \in Rows(g) \ Skipped(g, o.low) : g.face[r].score >= o.min /\ (o.key \/ ~ HiddenRow(g, r))}

Above(g, rows, r) == {q \in rows : g.face[q].score >= g.face[r].score} \ {r}

(* The 8-bit scan cannot tell r from the faces that fill its pool.         *)
Blurred(g, o, r) ==
    /\ Exact(g, o) /\ o.i8
    /\ Cardinality({q \in Rows(g) \ Skipped(g, o.low) : g.face[q].score + I8Margin > g.face[r].score} \ {r})
          >= I8Pool(Fetch(g, o))

(* A match is missing only if the page is full of matches as good, or if   *)
(* so many faces stand before it that no slack is left for it: hidden ones *)
(* in the pool of a search by k or by range, other matches among the hits  *)
(* to be grouped, keys in the index that no longer count, or faces the     *)
(* 8-bit scan takes for as good.                                           *)
Crowded(g, o, r) ==
    LET hidden == {q \in Above(g, Rows(g) \ Skipped(g, o.low), r) : HiddenRow(g, q)}
        seen   == Above(g, Matches(g, o), r)
        stale  == Above(g, g.indexed \cap Skipped(g, o.low), r)
    IN  \/ (o.group \/ ~ o.key) /\ Cardinality(hidden \cup seen) >= Fetch(g, o)
        \/ ~ Exact(g, o) /\ Cardinality(hidden \cup seen \cup stale) >= Pool(o, Fetch(g, o))
        \/ Blurred(g, o, r)

SearchIsRight(g, o) ==
    LET hits   == SearchLocked(g, o)
        found  == {hits[i].row : i \in DOMAIN hits}
        all    == Matches(g, o)
        missed == {r \in all \ found : ~ o.group \/ g.face[r].who = 0
                                       \/ \A q \in found : g.face[q].who # g.face[r].who}
        full   == Len(hits) >= (IF o.range /\ ~ o.group THEN Want(o) ELSE o.k)
    IN  /\ found \subseteq all /\ Cardinality(found) = Len(hits)
        /\ \A i, j \in DOMAIN hits : i < j => g.face[hits[i].row].score >= g.face[hits[j].row].score
        /\ \A r \in missed : Crowded(g, o, r) \/ (full /\ \A q \in found : g.face[q].score >= g.face[r].score)
        /\ o.group => \A i \in DOMAIN hits :
               LET who == g.face[hits[i].row].who
                   one == {r \in all : who # 0 /\ g.face[r].who = who}
               IN  /\ \A j \in DOMAIN hits : i # j => who = 0 \/ g.face[hits[j].row].who # who
                   /\ \A r \in one : g.face[r].score <= g.face[hits[i].row].score \/ Blurred(g, o, r)
                   /\ hits[i].collapsed <= Cardinality(one)
                   /\ (\A r \in one : ~ Crowded(g, o, r)) /\ who # 0 => hits[i].collapsed = Cardinality(one) - 1

(* Each photo once, with its best face, the k best photos; one is missing  *)
(* only if enough keys of the index are nearer.                            *)
TemplateIsRight(g, t) ==
    LET hits  == SearchTemplate(g, t)
        found == ToSet(hits)
        all   == TemplateRows(g, t)
        count == Larger(TemplateMin, t.k * TemplateFactor)
    IN  /\ found \subseteq all
        /\ \A q, r \in found : g.face[q].image = g.face[r].image => q = r
        /\ \A r \in all \ found :
              \/ \E q \in found : g.face[q].image = g.face[r].image /\ g.face[q].score >= g.face[r].score
              \/ Len(hits) = t.k /\ \A q \in found : g.face[q].score >= g.face[r].score
              \/ ~ t.few /\ Cardinality(Above(g, g.indexed, r)) >= count
=============================================================================
