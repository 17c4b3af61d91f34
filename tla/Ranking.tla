------------------------------ MODULE Ranking ------------------------------
(***************************************************************************)
(* What every list of the gallery is made of: numbers (rows, identities,   *)
(* photos) in order of a score, the heap that keeps the k best of them,    *)
(* pages.  A score is a function from numbers to numbers.                  *)
(***************************************************************************)
EXTENDS Naturals, SequencesExt, FiniteSetsExt

(* Equal scores rank by number: std::sort leaves them in any order.        *)
Before(score, a, b) == score[a] > score[b] \/ (score[a] = score[b] /\ a < b)

Ranked(S, score) ==
    [i \in 1 .. Cardinality(S) |-> CHOOSE x \in S : Cardinality({y \in S : Before(score, y, x)}) = i - 1]

Ascending(S) == Ranked(S, [x \in S |-> 0])

First(s, k) == SubSeq(s, 1, IF k < Len(s) THEN k ELSE Len(s))

(* offset and limit                                                        *)
Page(s, offset, limit) ==
    SubSeq(s, offset + 1, IF offset + limit < Len(s) THEN offset + limit ELSE Len(s))

(* The entries at some places of a list, in the order of the list.         *)
EntriesAt(s, places) == [i \in 1 .. Cardinality(places) |-> s[Ascending(places)[i]]]

(* Mistake: once the heap is full it never gives way.                      *)
TopKKeepingFirst(S, k, floor, score) ==
    LET kept == {r \in S : score[r] >= floor}
    IN  Ranked({r \in kept : Cardinality({q \in kept : q < r}) < k}, score)

(* topk_generic, and search_identities: in order of number, a heap of the  *)
(* k best so far.                                                          *)
TopK(S, k, floor, score) ==
    LET worst(heap) == CHOOSE r \in heap : \A q \in heap \ {r} : Before(score, q, r)
        push(heap, r) ==
            CASE score[r] < floor -> heap
              [] score[r] >= floor /\ Cardinality(heap) < k -> heap \cup {r}
              [] score[r] >= floor /\ Cardinality(heap) >= k ->
                     IF score[r] > score[worst(heap)] THEN (heap \ {worst(heap)}) \cup {r} ELSE heap
    IN  IF k = 0 THEN <<>> ELSE Ranked(FoldLeft(push, {}, Ascending(S)), score)
=============================================================================
