---------------------------- MODULE QueriesProofs ----------------------------
(***************************************************************************)
(* The answers of Search, People and Communities are right for every input *)
(* of every size, whatever the parameters of the code.                     *)
(*                                                                         *)
(* Part 1, Ranking: a ranked list holds each row of its set once, in the   *)
(* order of Before; its first k are the rows that fewer than k others come *)
(* before, and pushing rows one by one into a bounded heap (TopK) gives    *)
(* the same.  A fold is the last of a list of steps: StepsExist says that  *)
(* a recursive function on finite sets of places exists, CountingUp is     *)
(* induction on natural numbers for a set (an operator could not be passed *)
(* to the library's theorem).                                              *)
(*                                                                         *)
(* Part 2, Search: what a list of candidates must hold for the answer to   *)
(* be right, and that each way of finding candidates gives that.           *)
(*                                                                         *)
(* Part 3, People: each list is the ranked list of a set that is easy to   *)
(* describe, and counts agree because both sides count the same pairs.     *)
(*                                                                         *)
(* Part 4, Communities: a node that moves raises the agreement of the      *)
(* labels by twice what it gains, so a pass raises it or changes nothing;  *)
(* a component is the smallest set no edge leaves; trees are united at     *)
(* their roots, inside a component.                                        *)
(***************************************************************************)
EXTENDS Queries, FiniteSetTheorems, SequenceTheorems, WellFoundedInduction, TLAPS

-----------------------------------------------------------------------------
(***************************************************************************)
(* Part 1.  Ranking                                                        *)
(***************************************************************************)

(* What can be ranked.                                                     *)
Scored(S, score) == IsFiniteSet(S) /\ S \subseteq Nat /\ \A x \in S : score[x] \in Nat

Ahead(S, score, x) == {y \in S : Before(score, y, x)}

(* The k best.                                                             *)
Best(S, score, k) == {x \in S : Cardinality(Ahead(S, score, x)) < k}

-----------------------------------------------------------------------------
(* Ranks *)

LEMMA BeforeOrders ==
    ASSUME NEW S, NEW score, Scored(S, score), NEW a \in S, NEW b \in S, NEW c \in S
    PROVE  /\ ~ Before(score, a, a)
           /\ a # b => Before(score, a, b) \/ Before(score, b, a)
           /\ Before(score, a, b) => ~ Before(score, b, a) /\ a # b /\ score[a] >= score[b]
           /\ Before(score, a, b) /\ Before(score, b, c) => Before(score, a, c)
BY DEF Scored, Before

LEMMA AheadIsFinite ==
    ASSUME NEW S, NEW score, Scored(S, score), NEW x \in S
    PROVE  /\ IsFiniteSet(Ahead(S, score, x)) /\ Ahead(S, score, x) \subseteq S
           /\ Cardinality(S) \in Nat
           /\ Cardinality(Ahead(S, score, x)) \in Nat
           /\ Cardinality(Ahead(S, score, x)) < Cardinality(S)
<1>1. Ahead(S, score, x) \subseteq S \ {x}
  BY BeforeOrders DEF Ahead
<1>2. IsFiniteSet(S) /\ Cardinality(S) \in Nat
  BY FS_CardinalityType DEF Scored
<1>3. IsFiniteSet(S \ {x}) /\ Cardinality(S \ {x}) = Cardinality(S) - 1
  BY <1>2, FS_RemoveElement
<1>4. /\ IsFiniteSet(Ahead(S, score, x))
      /\ Cardinality(Ahead(S, score, x)) <= Cardinality(S \ {x})
  BY <1>1, <1>3, FS_Subset
<1>5. Cardinality(Ahead(S, score, x)) \in Nat
  BY <1>4, FS_CardinalityType
<1> QED
  BY <1>1, <1>2, <1>3, <1>4, <1>5

LEMMA AheadGrows ==
    ASSUME NEW S, NEW score, Scored(S, score), NEW x \in S, NEW y \in S
    PROVE  Before(score, x, y) <=> Cardinality(Ahead(S, score, x)) < Cardinality(Ahead(S, score, y))
<1>1. ASSUME NEW a \in S, NEW b \in S, Before(score, a, b)
      PROVE  Cardinality(Ahead(S, score, a)) < Cardinality(Ahead(S, score, b))
  <2>1. a \notin Ahead(S, score, a) /\ Ahead(S, score, a) \cup {a} \subseteq Ahead(S, score, b)
    BY <1>1, BeforeOrders DEF Ahead
  <2>2. IsFiniteSet(Ahead(S, score, a)) /\ IsFiniteSet(Ahead(S, score, b))
        /\ Cardinality(Ahead(S, score, a)) \in Nat /\ Cardinality(Ahead(S, score, b)) \in Nat
    BY AheadIsFinite
  <2>3. Cardinality(Ahead(S, score, a) \cup {a}) = Cardinality(Ahead(S, score, a)) + 1
    BY <2>1, <2>2, FS_AddElement
  <2>4. Cardinality(Ahead(S, score, a) \cup {a}) <= Cardinality(Ahead(S, score, b))
    BY <2>1, <2>2, FS_Subset
  <2> QED
    BY <2>2, <2>3, <2>4
<1>2. Cardinality(Ahead(S, score, x)) \in Nat /\ Cardinality(Ahead(S, score, y)) \in Nat
  BY AheadIsFinite
<1>3. CASE Before(score, x, y)
  BY <1>1, <1>3
<1>4. CASE x = y
  BY <1>2, <1>4, BeforeOrders
<1>5. CASE Before(score, y, x)
  <2>1. Cardinality(Ahead(S, score, y)) < Cardinality(Ahead(S, score, x))
    BY <1>1, <1>5
  <2> QED
    BY <1>2, <1>5, <2>1, BeforeOrders
<1> QED
  BY <1>3, <1>4, <1>5, BeforeOrders

(* Every place of the list is somebody's.                                  *)
LEMMA RanksAreTaken ==
    ASSUME NEW S, NEW score, Scored(S, score), NEW i \in 1 .. Cardinality(S)
    PROVE  \E x \in S : Cardinality(Ahead(S, score, x)) = i - 1
<1> DEFINE n  == Cardinality(S)
           rk == [x \in S |-> Cardinality(Ahead(S, score, x))]
<1>1. n \in Nat /\ IsFiniteSet(S)
  BY FS_CardinalityType DEF Scored
<1>2. rk \in [S -> 0 .. n - 1]
  BY <1>1, AheadIsFinite
<1>3. \A x, y \in S : rk[x] = rk[y] => x = y
  <2> SUFFICES ASSUME NEW x \in S, NEW y \in S, rk[x] = rk[y] PROVE x = y
    OBVIOUS
  <2>1. Cardinality(Ahead(S, score, x)) = Cardinality(Ahead(S, score, y))
    OBVIOUS
  <2>2. Cardinality(Ahead(S, score, x)) \in Nat
    BY AheadIsFinite
  <2>3. ~ Before(score, x, y) /\ ~ Before(score, y, x)
    BY <2>1, <2>2, AheadGrows
  <2> QED
    BY <2>3, BeforeOrders
<1>4. IsFiniteSet(0 .. n - 1) /\ Cardinality(0 .. n - 1) = n
  <2>1. 0 \in Int /\ n - 1 \in Int
    BY <1>1
  <2>2. IsFiniteSet(0 .. n - 1) /\ Cardinality(0 .. n - 1) = IF 0 > n - 1 THEN 0 ELSE n - 1 - 0 + 1
    BY <2>1, FS_Interval
  <2> QED
    BY <1>1, <2>2
<1> HIDE DEF rk, n
<1>5. rk \in Injection(S, 0 .. n - 1)
  BY <1>2, <1>3 DEF Injection, IsInjective
<1>6. rk \in Surjection(S, 0 .. n - 1)
  BY <1>4, <1>5, FS_Injection DEF n
<1>7. i - 1 \in 0 .. n - 1
  BY <1>1 DEF n
<1>8. PICK x \in S : rk[x] = i - 1
  BY <1>6, <1>7 DEF Surjection
<1> QED
  BY <1>8 DEF rk

LEMMA RankedPlaces ==
    ASSUME NEW S, NEW score, Scored(S, score), NEW i \in 1 .. Cardinality(S)
    PROVE  /\ Ranked(S, score)[i] \in S
           /\ Cardinality(Ahead(S, score, Ranked(S, score)[i])) = i - 1
<1>1. Ranked(S, score)[i] = CHOOSE x \in S : Cardinality(Ahead(S, score, x)) = i - 1
  BY DEF Ranked, Ahead
<1>2. \E x \in S : Cardinality(Ahead(S, score, x)) = i - 1
  BY RanksAreTaken
<1> QED
  BY <1>1, <1>2

(* A list in order of score: everybody once, whoever comes earlier is      *)
(* ahead.                                                                  *)
LEMMA RankedList ==
    ASSUME NEW S, NEW score, Scored(S, score)
    PROVE  /\ Cardinality(S) \in Nat
           /\ Ranked(S, score) \in Seq(S)
           /\ Ranked(S, score) \in [1 .. Cardinality(S) -> S]
           /\ Len(Ranked(S, score)) = Cardinality(S)
           /\ DOMAIN Ranked(S, score) = 1 .. Cardinality(S)
<1>1. Cardinality(S) \in Nat
  BY FS_CardinalityType DEF Scored
<1>2. Ranked(S, score) \in [1 .. Cardinality(S) -> S]
  <2>1. \A i \in 1 .. Cardinality(S) : Ranked(S, score)[i] \in S
    BY RankedPlaces
  <2>2. Ranked(S, score) = [i \in 1 .. Cardinality(S) |-> Ranked(S, score)[i]]
    BY DEF Ranked
  <2> QED
    BY <2>1, <2>2
<1>3. Ranked(S, score) \in Seq(S)
  BY <1>1, <1>2, SeqDef
<1>4. DOMAIN Ranked(S, score) = 1 .. Cardinality(S)
  BY <1>2
<1>5. Len(Ranked(S, score)) = Cardinality(S)
  <2>1. /\ Len(Ranked(S, score)) \in Nat
        /\ DOMAIN Ranked(S, score) = 1 .. Len(Ranked(S, score))
    BY <1>3, LenProperties
  <2> QED
    BY <1>1, <1>4, <2>1
<1> QED
  BY <1>1, <1>2, <1>3, <1>4, <1>5

LEMMA RankedOrder ==
    ASSUME NEW S, NEW score, Scored(S, score),
           NEW i \in 1 .. Cardinality(S), NEW j \in 1 .. Cardinality(S)
    PROVE  /\ i < j <=> Before(score, Ranked(S, score)[i], Ranked(S, score)[j])
           /\ i < j => score[Ranked(S, score)[i]] >= score[Ranked(S, score)[j]]
           /\ Ranked(S, score)[i] = Ranked(S, score)[j] <=> i = j
<1> DEFINE a == Ranked(S, score)[i]
           b == Ranked(S, score)[j]
<1>1. /\ a \in S /\ Cardinality(Ahead(S, score, a)) = i - 1
      /\ b \in S /\ Cardinality(Ahead(S, score, b)) = j - 1
  BY RankedPlaces
<1> HIDE DEF a, b
<1>2. Before(score, a, b) <=> i - 1 < j - 1
  BY <1>1, AheadGrows
<1>3. Cardinality(S) \in Nat
  BY FS_CardinalityType DEF Scored
<1>4. Before(score, a, b) <=> i < j
  BY <1>2, <1>3
<1>5. a = b => i = j
  <2>1. a = b => i - 1 = j - 1
    BY <1>1
  <2> QED
    BY <1>3, <2>1
<1> QED
  BY <1>1, <1>4, <1>5, BeforeOrders DEF a, b

LEMMA RankedHasAll ==
    ASSUME NEW S, NEW score, Scored(S, score), NEW x \in S
    PROVE  /\ Cardinality(Ahead(S, score, x)) + 1 \in 1 .. Cardinality(S)
           /\ Ranked(S, score)[Cardinality(Ahead(S, score, x)) + 1] = x
<1> DEFINE m == Cardinality(Ahead(S, score, x))
<1>1. m \in Nat /\ Cardinality(S) \in Nat /\ m < Cardinality(S)
  BY AheadIsFinite
<1> HIDE DEF m
<1>2. m + 1 \in 1 .. Cardinality(S)
  BY <1>1
<1>3. /\ Ranked(S, score)[m + 1] \in S
      /\ Cardinality(Ahead(S, score, Ranked(S, score)[m + 1])) = (m + 1) - 1
  BY <1>2, RankedPlaces
<1>4. Cardinality(Ahead(S, score, Ranked(S, score)[m + 1])) = m
  BY <1>1, <1>3
<1>5. ~ Before(score, x, Ranked(S, score)[m + 1]) /\ ~ Before(score, Ranked(S, score)[m + 1], x)
  BY <1>1, <1>3, <1>4, AheadGrows DEF m
<1> QED
  BY <1>2, <1>3, <1>5, BeforeOrders DEF m

-----------------------------------------------------------------------------
(* Pages, and the best of a list *)

LEMMA FirstOf ==
    ASSUME NEW S, NEW s \in Seq(S), NEW k \in Nat
    PROVE  /\ First(s, k) \in Seq(S)
           /\ Len(First(s, k)) = (IF k < Len(s) THEN k ELSE Len(s))
           /\ Len(First(s, k)) \in Nat /\ Len(First(s, k)) <= k /\ Len(First(s, k)) <= Len(s)
           /\ DOMAIN First(s, k) = 1 .. Len(First(s, k))
           /\ \A i \in 1 .. Len(First(s, k)) : i \in 1 .. Len(s) /\ First(s, k)[i] = s[i]
<1> DEFINE m == IF k < Len(s) THEN k ELSE Len(s)
<1>1. Len(s) \in Nat /\ \A i \in 1 .. Len(s) : s[i] \in S
  BY LenProperties, ElementOfSeq
<1>2. m \in Nat /\ m <= Len(s) /\ m <= k
  BY <1>1
<1>3. First(s, k) = SubSeq(s, 1, m)
  BY DEF First
<1> HIDE DEF m
<1>4. \A i \in 1 .. m : s[i] \in S
  BY <1>1, <1>2
<1>5. /\ SubSeq(s, 1, m) \in Seq(S)
      /\ Len(SubSeq(s, 1, m)) = IF 1 <= m THEN m - 1 + 1 ELSE 0
      /\ \A i \in 1 .. m - 1 + 1 : SubSeq(s, 1, m)[i] = s[1 + i - 1]
  BY <1>2, <1>4, SubSeqProperties
<1>6. Len(First(s, k)) = m
  BY <1>2, <1>3, <1>5
<1>7. \A i \in 1 .. m : i \in 1 .. Len(s) /\ First(s, k)[i] = s[i]
  BY <1>1, <1>2, <1>3, <1>5
<1>8. DOMAIN First(s, k) = 1 .. m
  BY <1>3, <1>5, <1>6, LenProperties
<1> QED
  BY <1>2, <1>3, <1>5, <1>6, <1>7, <1>8 DEF m

(* The k best are the first k of the list.                                 *)
LEMMA FirstAreBest ==
    ASSUME NEW S, NEW score, Scored(S, score), NEW k \in Nat
    PROVE  /\ ToSet(First(Ranked(S, score), k)) = Best(S, score, k)
           /\ First(Ranked(S, score), k) \in Seq(S)
           /\ Len(First(Ranked(S, score), k)) = IF k < Cardinality(S) THEN k ELSE Cardinality(S)
<1> DEFINE s == Ranked(S, score)
           f == First(s, k)
           n == Cardinality(S)
<1>1. n \in Nat /\ s \in Seq(S) /\ Len(s) = n
  BY RankedList
<1> HIDE DEF s
<1>2. /\ f \in Seq(S) /\ DOMAIN f = 1 .. Len(f) /\ Len(f) = (IF k < n THEN k ELSE n)
      /\ \A i \in 1 .. Len(f) : i \in 1 .. n /\ f[i] = s[i]
  BY <1>1, FirstOf
<1> HIDE DEF f, n
<1>3. ASSUME NEW i \in 1 .. Len(f) PROVE f[i] \in Best(S, score, k)
  <2>1. i \in 1 .. n /\ f[i] = s[i]
    BY <1>2
  <2>2. s[i] \in S /\ Cardinality(Ahead(S, score, s[i])) = i - 1
    BY <2>1, RankedPlaces DEF s, n
  <2>3. i - 1 < k
    BY <1>1, <1>2, <2>1
  <2> QED
    BY <2>1, <2>2, <2>3 DEF Best
<1>4. ASSUME NEW x \in Best(S, score, k) PROVE \E i \in 1 .. Len(f) : f[i] = x
  <2> DEFINE m == Cardinality(Ahead(S, score, x))
  <2>1. x \in S /\ m < k /\ m \in Nat
    BY AheadIsFinite DEF Best
  <2>2. m + 1 \in 1 .. n /\ s[m + 1] = x
    BY <2>1, RankedHasAll DEF s, n
  <2> HIDE DEF m
  <2>3. m + 1 \in 1 .. Len(f)
    BY <1>1, <1>2, <2>1, <2>2
  <2> QED
    BY <1>2, <2>2, <2>3
<1>5. ToSet(f) = Best(S, score, k)
  BY <1>2, <1>3, <1>4 DEF ToSet
<1> QED
  BY <1>2, <1>5 DEF f, s, n

LEMMA BestIsFull ==
    ASSUME NEW S, NEW score, Scored(S, score), NEW k \in Nat
    PROVE  /\ Best(S, score, k) \subseteq S /\ IsFiniteSet(Best(S, score, k))
           /\ Cardinality(Best(S, score, k)) = (IF k < Cardinality(S) THEN k ELSE Cardinality(S))
           /\ \A b \in Best(S, score, k), q \in S \ Best(S, score, k) : Before(score, b, q)
<1> DEFINE n == Cardinality(S)
           m == IF k < n THEN k ELSE n
           B == Best(S, score, k)
           f == [i \in 1 .. m |-> Ranked(S, score)[i]]
<1>1. n \in Nat /\ IsFiniteSet(S)
  BY FS_CardinalityType DEF Scored
<1>2. B \subseteq S /\ IsFiniteSet(B)
  <2>1. B \subseteq S
    BY DEF Best
  <2> QED
    BY <1>1, <2>1, FS_Subset
<1>3. m \in Nat /\ 1 .. m \subseteq 1 .. n /\ m <= k
  BY <1>1
<1>4. ASSUME NEW i \in 1 .. m PROVE f[i] \in B
  <2>1. i \in 1 .. n /\ i - 1 < k
    BY <1>1, <1>3
  <2>2. f[i] \in S /\ Cardinality(Ahead(S, score, f[i])) = i - 1
    BY <2>1, RankedPlaces
  <2> QED
    BY <2>1, <2>2 DEF Best
<1>5. ASSUME NEW x \in B PROVE \E i \in 1 .. m : f[i] = x
  <2> DEFINE a == Cardinality(Ahead(S, score, x))
  <2>1. x \in S /\ a < k /\ a \in Nat
    BY AheadIsFinite DEF Best
  <2>2. a + 1 \in 1 .. n /\ Ranked(S, score)[a + 1] = x
    BY <2>1, RankedHasAll
  <2> HIDE DEF a
  <2>3. a + 1 \in 1 .. m
    BY <1>1, <2>1, <2>2
  <2> QED
    BY <2>2, <2>3
<1>6. \A i, j \in 1 .. m : f[i] = f[j] => i = j
  BY <1>3, RankedOrder
<1> HIDE DEF B, f
<1>7. f \in [1 .. m -> B]
  BY <1>4 DEF f
<1> HIDE DEF m
<1>8. f \in Bijection(1 .. m, B)
  BY <1>5, <1>6, <1>7 DEF Bijection, Injection, Surjection, IsInjective
<1>9. Cardinality(B) = m
  BY <1>3, <1>8, FS_CountingElements DEF ExistsBijection
<1>10. ASSUME NEW b \in B, NEW q \in S \ B PROVE Before(score, b, q)
  <2>1. /\ b \in S /\ q \in S
        /\ Cardinality(Ahead(S, score, b)) < k /\ ~ Cardinality(Ahead(S, score, q)) < k
        /\ Cardinality(Ahead(S, score, b)) \in Nat /\ Cardinality(Ahead(S, score, q)) \in Nat
    BY AheadIsFinite DEF B, Best
  <2>2. Cardinality(Ahead(S, score, b)) < Cardinality(Ahead(S, score, q))
    BY <2>1
  <2> QED
    BY <2>1, <2>2, AheadGrows
<1> QED
  BY <1>2, <1>9, <1>10 DEF B, m, n

(* The k best are told by their number and by being ahead of the rest.     *)
LEMMA BestIsUnique ==
    ASSUME NEW S, NEW score, Scored(S, score), NEW k \in Nat, NEW B \in SUBSET S,
           Cardinality(B) = IF k < Cardinality(S) THEN k ELSE Cardinality(S),
           \A b \in B, q \in S \ B : Before(score, b, q)
    PROVE  B = Best(S, score, k)
<1>0. Cardinality(S) \in Nat /\ IsFiniteSet(S)
  BY FS_CardinalityType DEF Scored
<1>1. IsFiniteSet(B) /\ Cardinality(B) <= k
  <2>1. IsFiniteSet(B)
    BY <1>0, FS_Subset
  <2>2. Cardinality(B) <= k
    BY <1>0
  <2> QED
    BY <2>1, <2>2
<1>2. ASSUME NEW x \in B PROVE x \in Best(S, score, k)
  <2>1. Ahead(S, score, x) \subseteq B \ {x}
    BY BeforeOrders DEF Ahead
  <2>2. IsFiniteSet(B \ {x}) /\ Cardinality(B \ {x}) = Cardinality(B) - 1
    BY <1>1, FS_RemoveElement
  <2>3. Cardinality(Ahead(S, score, x)) <= Cardinality(B \ {x})
    BY <2>1, <2>2, FS_Subset
  <2>4. Cardinality(Ahead(S, score, x)) \in Nat /\ Cardinality(B) \in Nat
    BY <1>1, AheadIsFinite, FS_CardinalityType
  <2>5. Cardinality(Ahead(S, score, x)) < k
    BY <1>1, <2>2, <2>3, <2>4
  <2> QED
    BY <2>5 DEF Best
<1>3. B \subseteq Best(S, score, k)
  BY <1>2
<1>4. IsFiniteSet(Best(S, score, k)) /\ Cardinality(Best(S, score, k)) = Cardinality(B)
  BY BestIsFull
<1> QED
  BY <1>3, <1>4, FS_Subset

LEMMA SubsetIsScored ==
    ASSUME NEW S, NEW score, Scored(S, score), NEW T \in SUBSET S
    PROVE  Scored(T, score)
BY FS_Subset DEF Scored

-----------------------------------------------------------------------------
(* Folds *)

(* A set of numbers with 0 that is closed under + 1 is all of them.        *)
LEMMA CountingUp ==
    ASSUME NEW T \in SUBSET Nat, 0 \in T, \A n \in T : n + 1 \in T
    PROVE  T = Nat
<1> SUFFICES ASSUME Nat \ T # {} PROVE FALSE
  OBVIOUS
<1> DEFINE D == Nat \ T
<1>1. \E x \in D : \A y \in D : <<y, x>> \notin OpToRel(<, Nat)
  <2>1. D \subseteq Nat /\ D # {}
    OBVIOUS
  <2> HIDE DEF D
  <2> QED
    BY <2>1, NatLessThanWellFounded, WFMin
<1>2. PICK x \in D : \A y \in D : <<y, x>> \notin OpToRel(<, Nat)
  BY <1>1
<1>3. x \in Nat /\ x # 0 /\ x - 1 \in Nat /\ x - 1 < x
  OBVIOUS
<1>4. <<x - 1, x>> \in OpToRel(<, Nat)
  BY <1>3 DEF OpToRel
<1>5. x - 1 \in T
  BY <1>2, <1>3, <1>4
<1>6. (x - 1) + 1 \in T
  BY <1>5
<1> QED
  BY <1>3, <1>6

LEMMA MaxIs ==
    ASSUME NEW s \in SUBSET Nat, NEW m \in s, \A x \in s : m >= x
    PROVE  Max(s) = m
<1>1. \E x \in s : \A y \in s : x >= y
  OBVIOUS
<1>2. Max(s) \in s /\ \A y \in s : Max(s) >= y
  BY <1>1 DEF Max
<1>3. Max(s) \in Nat /\ m \in Nat /\ Max(s) >= m /\ m >= Max(s)
  BY <1>2
<1> QED
  BY <1>3

(* The values FoldLeft computes, a step at a time.                         *)
Stepped(n, base, step, iter) ==
    \A s \in SUBSET (1 .. n) : iter[s] = IF s = {} THEN base ELSE step[<<iter[s \ {Max(s)}], Max(s)>>]

LEMMA StepsExist ==
    ASSUME NEW n \in Nat, NEW St, NEW base \in St, NEW step \in [St \X (1 .. n) -> St]
    PROVE  \E iter \in [SUBSET (1 .. n) -> St] : Stepped(n, base, step, iter)
<1> DEFINE Done(m) == \E iter \in [SUBSET (1 .. m) -> St] : Stepped(m, base, step, iter)
           T == {m \in Nat : m <= n => Done(m)}
<1>1. 0 \in T
  <2> DEFINE it == [s \in SUBSET (1 .. 0) |-> base]
  <2>1. it \in [SUBSET (1 .. 0) -> St]
    OBVIOUS
  <2>2. \A s \in SUBSET (1 .. 0) : s = {} /\ it[s] = base
    OBVIOUS
  <2> HIDE DEF it
  <2>3. Stepped(0, base, step, it)
    BY <2>2 DEF Stepped
  <2> QED
    BY <2>1, <2>3
<1>2. ASSUME NEW m \in T PROVE m + 1 \in T
  <2>0. m \in Nat /\ (m <= n => Done(m)) /\ m + 1 \in Nat
    <3> HIDE DEF Done
    <3> QED
      OBVIOUS
  <2> SUFFICES ASSUME m + 1 <= n PROVE Done(m + 1)
    <3> HIDE DEF Done
    <3> QED
      BY <2>0
  <2>1. PICK it \in [SUBSET (1 .. m) -> St] : Stepped(m, base, step, it)
    <3>1. m <= n
      BY <2>0
    <3>2. Done(m)
      <4> HIDE DEF Done
      <4> QED
        BY <2>0, <3>1
    <3> QED
      BY <3>2
  <2> DEFINE new == [s \in SUBSET (1 .. m + 1) |->
                        IF s \subseteq 1 .. m THEN it[s] ELSE step[<<it[s \ {m + 1}], m + 1>>]]
  <2>2. ASSUME NEW s \in SUBSET (1 .. m + 1), ~ (s \subseteq 1 .. m)
        PROVE  /\ Max(s) = m + 1 /\ s # {} /\ s \ {m + 1} \in SUBSET (1 .. m)
               /\ s \ {m + 1} \in SUBSET (1 .. m + 1) /\ m + 1 \in 1 .. n
    <3>1. m + 1 \in s /\ s \subseteq Nat /\ \A x \in s : m + 1 >= x
      BY <2>2
    <3>2. Max(s) = m + 1
      BY <3>1, MaxIs
    <3> QED
      BY <3>1, <3>2
  <2>3. \A s \in SUBSET (1 .. m) : s \in SUBSET (1 .. m + 1) /\ s \ {Max(s)} \in SUBSET (1 .. m)
    <3>1. 1 .. m \subseteq 1 .. m + 1
      BY <2>0
    <3> QED
      BY <3>1
  <2>4. \A s \in SUBSET (1 .. m) : new[s] = it[s]
    BY <2>3
  <2>5. \A s \in SUBSET (1 .. m + 1) : ~ (s \subseteq 1 .. m) => new[s] = step[<<it[s \ {m + 1}], m + 1>>]
    OBVIOUS
  <2>6. ASSUME NEW s \in SUBSET (1 .. m + 1) PROVE new[s] \in St
    <3>1. CASE s \subseteq 1 .. m
      BY <3>1, <2>4
    <3>2. CASE ~ (s \subseteq 1 .. m)
      <4>1. it[s \ {m + 1}] \in St /\ m + 1 \in 1 .. n
        BY <3>2, <2>2
      <4>2. step[<<it[s \ {m + 1}], m + 1>>] \in St
        BY <4>1
      <4> QED
        BY <3>2, <2>5, <4>2
    <3> QED
      BY <3>1, <3>2
  <2>7. new \in [SUBSET (1 .. m + 1) -> St]
    BY <2>6
  <2> HIDE DEF new
  <2>8. ASSUME NEW s \in SUBSET (1 .. m + 1)
        PROVE  new[s] = IF s = {} THEN base ELSE step[<<new[s \ {Max(s)}], Max(s)>>]
    <3>1. CASE s \subseteq 1 .. m
      <4>1. it[s] = IF s = {} THEN base ELSE step[<<it[s \ {Max(s)}], Max(s)>>]
        BY <2>1, <3>1 DEF Stepped
      <4>2. new[s] = it[s] /\ new[s \ {Max(s)}] = it[s \ {Max(s)}]
        BY <2>3, <2>4, <3>1
      <4> QED
        BY <4>1, <4>2
    <3>2. CASE ~ (s \subseteq 1 .. m)
      <4>1. Max(s) = m + 1 /\ s # {} /\ s \ {m + 1} \in SUBSET (1 .. m)
        BY <3>2, <2>2
      <4>2. new[s \ {m + 1}] = it[s \ {m + 1}]
        BY <4>1, <2>4
      <4>3. new[s] = step[<<it[s \ {m + 1}], m + 1>>]
        BY <3>2, <2>5
      <4> QED
        BY <4>1, <4>2, <4>3
    <3> QED
      BY <3>1, <3>2
  <2>9. Stepped(m + 1, base, step, new)
    BY <2>8 DEF Stepped
  <2> QED
    BY <2>7, <2>9
<1> HIDE DEF Done
<1>3. T = Nat
  <2> HIDE DEF T
  <2>1. T \in SUBSET Nat
    BY DEF T
  <2> QED
    BY <1>1, <1>2, <2>1, CountingUp
<1>4. Done(n)
  BY <1>3
<1> QED
  BY <1>4 DEF Done

(* The steps, in order.                                                    *)
LEMMA StepsInOrder ==
    ASSUME NEW n \in Nat, NEW i \in 1 .. n
    PROVE  /\ 1 .. i \in SUBSET (1 .. n) /\ 1 .. i # {} /\ Max(1 .. i) = i
           /\ (1 .. i) \ {i} = 1 .. i - 1 /\ 1 .. i - 1 \in SUBSET (1 .. n)
<1>1. i \in 1 .. i /\ 1 .. i \in SUBSET Nat /\ \A x \in 1 .. i : i >= x
  OBVIOUS
<1>2. Max(1 .. i) = i
  BY <1>1, MaxIs
<1> QED
  BY <1>1, <1>2

LEMMA MaxOfPlaces ==
    ASSUME NEW n \in Nat, NEW s \in SUBSET (1 .. n), s # {}
    PROVE  /\ Max(s) \in s /\ Max(s) \in 1 .. n /\ \A x \in s : Max(s) >= x
           /\ s \ {Max(s)} \in SUBSET (1 .. n)
<1> DEFINE D == {d \in Nat : n - d \in s}
<1>1. \E x \in D : \A y \in D : <<y, x>> \notin OpToRel(<, Nat)
  <2>1. PICK x \in s : TRUE
    OBVIOUS
  <2>2. n - x \in Nat /\ n - (n - x) = x
    BY <2>1
  <2>3. D \subseteq Nat /\ D # {}
    BY <2>1, <2>2
  <2> HIDE DEF D
  <2> QED
    BY <2>3, NatLessThanWellFounded, WFMin
<1>2. PICK d \in D : \A y \in D : <<y, d>> \notin OpToRel(<, Nat)
  BY <1>1
<1>3. d \in Nat /\ n - d \in s /\ n - d \in Nat
  OBVIOUS
<1>4. ASSUME NEW x \in s PROVE n - d >= x
  <2> SUFFICES ASSUME ~ (n - d >= x) PROVE FALSE
    OBVIOUS
  <2>1. x \in Nat /\ n - x \in Nat /\ n - (n - x) = x /\ n - x < d
    BY <1>3
  <2>2. n - x \in D
    BY <2>1
  <2>3. <<n - x, d>> \in OpToRel(<, Nat)
    BY <1>3, <2>1 DEF OpToRel
  <2> QED
    BY <1>2, <2>2, <2>3
<1>5. s \in SUBSET Nat
  OBVIOUS
<1>6. Max(s) = n - d
  BY <1>3, <1>4, <1>5, MaxIs
<1> QED
  BY <1>3, <1>4, <1>6

-----------------------------------------------------------------------------
(* TopK *)

LEMMA AscendingList ==
    ASSUME NEW S \in SUBSET Nat, IsFiniteSet(S)
    PROVE  /\ Scored(S, [x \in S |-> 0])
           /\ Cardinality(S) \in Nat
           /\ Ascending(S) \in [1 .. Cardinality(S) -> S]
           /\ Ascending(S) \in Seq(S)
           /\ Len(Ascending(S)) = Cardinality(S)
           /\ \A x \in S : \E i \in 1 .. Cardinality(S) : Ascending(S)[i] = x
           /\ \A i, j \in 1 .. Cardinality(S) : i < j <=> Ascending(S)[i] < Ascending(S)[j]
<1> DEFINE zero == [x \in S |-> 0]
<1>1. Scored(S, zero)
  BY DEF Scored
<1>2. Ascending(S) = Ranked(S, zero)
  BY DEF Ascending
<1>3. \A x, y \in S : Before(zero, x, y) <=> x < y
  BY DEF Before
<1> HIDE DEF zero
<1>4. /\ Cardinality(S) \in Nat
      /\ Ascending(S) \in [1 .. Cardinality(S) -> S]
      /\ Ascending(S) \in Seq(S)
      /\ Len(Ascending(S)) = Cardinality(S)
  BY <1>1, <1>2, RankedList
<1>5. \A x \in S : \E i \in 1 .. Cardinality(S) : Ascending(S)[i] = x
  BY <1>1, <1>2, RankedHasAll
<1>6. ASSUME NEW i \in 1 .. Cardinality(S), NEW j \in 1 .. Cardinality(S)
      PROVE  i < j <=> Ascending(S)[i] < Ascending(S)[j]
  <2>1. i < j <=> Before(zero, Ascending(S)[i], Ascending(S)[j])
    BY <1>1, <1>2, RankedOrder
  <2>2. Ascending(S)[i] \in S /\ Ascending(S)[j] \in S
    BY <1>4
  <2> QED
    BY <1>3, <2>1, <2>2
<1> QED
  BY <1>1, <1>4, <1>5, <1>6 DEF zero

(* Who gives way: the last of the heap.                                    *)
Worst(score, heap) == CHOOSE r \in heap : \A q \in heap \ {r} : Before(score, q, r)

Pushed(score, k, floor, heap, r) ==
    CASE score[r] < floor -> heap
      [] score[r] >= floor /\ Cardinality(heap) < k -> heap \cup {r}
      [] score[r] >= floor /\ Cardinality(heap) >= k ->
             IF score[r] > score[Worst(score, heap)] THEN (heap \ {Worst(score, heap)}) \cup {r} ELSE heap

Heaps(n, seq, score, k, floor) ==
    CHOOSE iter : iter = [s \in SUBSET (1 .. n) |->
        IF s = {} THEN {} ELSE Pushed(score, k, floor, iter[s \ {Max(s)}], seq[Max(s)])]

LEMMA TopKUnfolds ==
    ASSUME NEW S \in SUBSET Nat, IsFiniteSet(S), NEW score, NEW k \in Nat \ {0}, NEW floor
    PROVE  TopK(S, k, floor, score) =
              Ranked(Heaps(Cardinality(S), Ascending(S), score, k, floor)[1 .. Cardinality(S)], score)
<1>1. DOMAIN Ascending(S) = 1 .. Cardinality(S)
  BY AscendingList
<1>2. k # 0
  OBVIOUS
<1> QED
  BY <1>1, <1>2 DEF TopK, FoldLeft, MapThenFoldSet, Heaps, Pushed, Worst

LEMMA WorstIsLast ==
    ASSUME NEW H, NEW score, Scored(H, score), H # {}
    PROVE  /\ Worst(score, H) \in H
           /\ \A q \in H \ {Worst(score, H)} : Before(score, q, Worst(score, H))
<1> DEFINE n == Cardinality(H)
           w == Ranked(H, score)[n]
<1>1. n \in Nat /\ n # 0
  BY FS_CardinalityType, FS_EmptySet DEF Scored
<1>2. n \in 1 .. n
  BY <1>1
<1>3. w \in H
  BY <1>2, RankedPlaces
<1>4. ASSUME NEW q \in H \ {w} PROVE Before(score, q, w)
  <2> DEFINE m == Cardinality(Ahead(H, score, q)) + 1
  <2>1. m \in 1 .. n /\ Ranked(H, score)[m] = q
    BY RankedHasAll
  <2> HIDE DEF m
  <2>2. m # n
    BY <2>1
  <2>3. m < n
    BY <1>1, <2>1, <2>2
  <2>4. m < n <=> Before(score, Ranked(H, score)[m], Ranked(H, score)[n])
    BY <1>2, <2>1, RankedOrder
  <2> QED
    BY <2>1, <2>3, <2>4
<1> HIDE DEF w, n
<1>5. \E r \in H : \A q \in H \ {r} : Before(score, q, r)
  BY <1>3, <1>4
<1> QED
  BY <1>5 DEF Worst

(* What passes the floor.                                                  *)
Kept(S, floor, score) == {x \in S : score[x] >= floor}

(* A push keeps the k best.                                                *)
LEMMA PushKeepsBest ==
    ASSUME NEW S, NEW score, Scored(S, score), NEW k \in Nat \ {0}, NEW floor \in Nat,
           NEW T \in SUBSET S, NEW r \in S \ T, \A q \in T : q < r
    PROVE  Pushed(score, k, floor, Best(Kept(T, floor, score), score, k), r)
              = Best(Kept(T \cup {r}, floor, score), score, k)
<1> DEFINE K == Kept(T, floor, score)
           N == Kept(T \cup {r}, floor, score)
           H == Best(K, score, k)
           w == Worst(score, H)
<1>1. /\ K \in SUBSET S /\ N \in SUBSET S /\ r \notin K /\ \A q \in K : q < r
      /\ score[r] < floor => N = K
      /\ score[r] >= floor => N = K \cup {r}
      /\ score[r] \in Nat
  <2>1. score[r] \in Nat /\ \A x \in T : score[x] \in Nat
    BY DEF Scored
  <2>2. K \in SUBSET S /\ N \in SUBSET S /\ r \notin K /\ \A q \in K : q < r
    BY DEF Kept
  <2>3. ASSUME score[r] < floor PROVE N = K
    <3>1. ~ (score[r] >= floor)
      BY <2>1, <2>3
    <3> QED
      BY <3>1 DEF Kept
  <2>4. score[r] >= floor => N = K \cup {r}
    BY DEF Kept
  <2> QED
    BY <2>1, <2>2, <2>3, <2>4
<1> HIDE DEF K, N
<1>2. Scored(K, score) /\ Scored(N, score)
  BY <1>1, SubsetIsScored
<1>3. Cardinality(K) \in Nat /\ IsFiniteSet(K)
  BY <1>2, FS_CardinalityType DEF Scored
<1>4. /\ H \subseteq K /\ IsFiniteSet(H)
      /\ Cardinality(H) = (IF k < Cardinality(K) THEN k ELSE Cardinality(K))
      /\ \A b \in H, q \in K \ H : Before(score, b, q)
  BY <1>2, BestIsFull
<1>5. Cardinality(H) \in Nat
  BY <1>4, FS_CardinalityType
<1> HIDE DEF H
<1>6. CASE score[r] < floor
  BY <1>1, <1>6 DEF Pushed, H, K, N
<1>7. CASE score[r] >= floor /\ Cardinality(H) < k
  <2>1. ~ (k < Cardinality(K)) /\ Cardinality(H) = Cardinality(K)
    BY <1>3, <1>4, <1>7
  <2>2. H = K
    BY <1>3, <1>4, <2>1, FS_Subset
  <2>3. N = K \cup {r} /\ Cardinality(N) = Cardinality(K) + 1
    BY <1>1, <1>3, <1>7, FS_AddElement
  <2>4. Cardinality(N) = IF k < Cardinality(N) THEN k ELSE Cardinality(N)
    BY <1>3, <1>7, <2>1, <2>3
  <2>5. N = Best(N, score, k)
    BY <1>2, <2>4, BestIsUnique
  <2>6. Pushed(score, k, floor, H, r) = H \cup {r}
    BY <1>1, <1>5, <1>7 DEF Pushed
  <2> QED
    BY <2>2, <2>3, <2>5, <2>6 DEF H, K, N
<1>8. CASE score[r] >= floor /\ Cardinality(H) >= k
  <2>1. Cardinality(H) = k /\ k <= Cardinality(K)
    BY <1>3, <1>4, <1>8
  <2>2. N = K \cup {r} /\ Cardinality(N) = Cardinality(K) + 1
    BY <1>1, <1>3, <1>8, FS_AddElement
  <2>3. k = IF k < Cardinality(N) THEN k ELSE Cardinality(N)
    BY <1>3, <2>1, <2>2
  <2>4. Scored(H, score) /\ H # {}
    BY <1>2, <1>4, <2>1, SubsetIsScored, FS_EmptySet
  <2>5. w \in H /\ \A q \in H \ {w} : Before(score, q, w)
    BY <2>4, WorstIsLast
  <2>6. r \in N /\ H \subseteq N /\ r \notin H
    BY <1>1, <1>4, <2>2
  <2>7. CASE score[r] > score[w]
    <3> DEFINE G == (H \ {w}) \cup {r}
    <3>1. Pushed(score, k, floor, H, r) = G
      BY <1>1, <1>5, <1>8, <2>7 DEF Pushed
    <3>2. IsFiniteSet(H \ {w}) /\ Cardinality(H \ {w}) = k - 1
      BY <1>4, <2>1, <2>5, FS_RemoveElement
    <3>3. Cardinality(G) = k - 1 + 1
      BY <2>6, <3>2, FS_AddElement
    <3>4. Cardinality(G) = k
      BY <3>3
    <3>5. G \in SUBSET N
      BY <2>6
    <3>6. Before(score, r, w)
      BY <2>7 DEF Before
    <3>7. ASSUME NEW b \in G, NEW q \in N \ G PROVE Before(score, b, q)
      <4>1. b \in N /\ q \in N /\ w \in N
        BY <2>5, <2>6
      <4>2. Before(score, b, w)
        BY <2>5, <3>6
      <4>3. CASE q = w
        BY <4>2, <4>3
      <4>4. CASE q # w
        <5>1. q \in K \ H
          BY <2>2, <4>4
        <5>2. Before(score, w, q)
          BY <1>4, <2>5, <5>1
        <5> QED
          BY <1>2, <4>1, <4>2, <5>2, BeforeOrders
      <4> QED
        BY <4>3, <4>4
    <3> HIDE DEF G
    <3>8. G = Best(N, score, k)
      <4>1. Cardinality(G) = IF k < Cardinality(N) THEN k ELSE Cardinality(N)
        BY <2>3, <3>4
      <4> QED
        BY <1>2, <3>5, <3>7, <4>1, BestIsUnique
    <3> QED
      BY <3>1, <3>8 DEF H, K, N
  <2>8. CASE ~ (score[r] > score[w])
    <3>1. Pushed(score, k, floor, H, r) = H
      BY <1>1, <1>5, <1>8, <2>8 DEF Pushed
    <3>2. ASSUME NEW b \in H, NEW q \in N \ H PROVE Before(score, b, q)
      <4>1. CASE q = r
        <5>1. /\ score[b] \in Nat /\ score[w] \in Nat /\ score[r] \in Nat
              /\ b \in K /\ b \in N /\ w \in N
          BY <1>1, <1>2, <1>4, <2>5, <2>6 DEF Scored
        <5>2. score[b] >= score[w]
          <6>1. CASE b = w
            BY <5>1, <6>1
          <6>2. CASE b # w
            <7>1. Before(score, b, w)
              BY <2>5, <6>2
            <7> QED
              BY <1>2, <5>1, <7>1, BeforeOrders
          <6> QED
            BY <6>1, <6>2
        <5>3. b < r
          BY <1>1, <5>1
        <5> QED
          BY <2>8, <4>1, <5>1, <5>2, <5>3 DEF Before
      <4>2. CASE q # r
        BY <1>4, <2>2, <4>2
      <4> QED
        BY <4>1, <4>2
    <3>3. H = Best(N, score, k)
      <4>1. Cardinality(H) = IF k < Cardinality(N) THEN k ELSE Cardinality(N)
        BY <2>1, <2>3
      <4>2. H \in SUBSET N
        BY <2>6
      <4> QED
        BY <1>2, <3>2, <4>1, <4>2, BestIsUnique
    <3> QED
      BY <3>1, <3>3 DEF H, K, N
  <2> QED
    BY <2>7, <2>8
<1>9. score[r] < floor \/ score[r] >= floor
  BY <1>1
<1>10. Cardinality(H) < k \/ Cardinality(H) >= k
  BY <1>5
<1> QED
  BY <1>6, <1>7, <1>8, <1>9, <1>10

(* The heap after i places of the list.                                    *)
LEMMA HeapsUnfold ==
    ASSUME NEW S, NEW score, Scored(S, score), NEW k \in Nat, NEW floor \in Nat,
           NEW n \in Nat, NEW seq \in [1 .. n -> S]
    PROVE  /\ Heaps(n, seq, score, k, floor)[1 .. 0] = {}
           /\ \A i \in 1 .. n :
                 Heaps(n, seq, score, k, floor)[1 .. i]
                    = Pushed(score, k, floor, Heaps(n, seq, score, k, floor)[1 .. i - 1], seq[i])
<1> DEFINE St   == SUBSET S
           step == [p \in St \X (1 .. n) |-> Pushed(score, k, floor, p[1], seq[p[2]])]
           push(g, s) == IF s = {} THEN {} ELSE Pushed(score, k, floor, g[s \ {Max(s)}], seq[Max(s)])
           h == Heaps(n, seq, score, k, floor)
<1>1. ASSUME NEW H \in St, NEW r \in S PROVE Pushed(score, k, floor, H, r) \in St
  <2>1. Cardinality(H) \in Nat /\ score[r] \in Nat
    BY FS_CardinalityType, FS_Subset DEF Scored
  <2> QED
    BY <2>1 DEF Pushed
<1>2. step \in [St \X (1 .. n) -> St]
  <2>1. ASSUME NEW p \in St \X (1 .. n) PROVE Pushed(score, k, floor, p[1], seq[p[2]]) \in St
    BY <1>1
  <2> QED
    BY <2>1
<1>3. \A H \in St, i \in 1 .. n : step[<<H, i>>] = Pushed(score, k, floor, H, seq[i])
  OBVIOUS
<1>4. {} \in St
  OBVIOUS
<1> HIDE DEF St, step
<1>5. PICK it \in [SUBSET (1 .. n) -> St] : Stepped(n, {}, step, it)
  BY <1>2, <1>4, StepsExist
<1>6. ASSUME NEW s \in SUBSET (1 .. n) PROVE it[s] = push(it, s)
  <2>1. it[s] = IF s = {} THEN {} ELSE step[<<it[s \ {Max(s)}], Max(s)>>]
    BY <1>5 DEF Stepped
  <2>2. CASE s = {}
    BY <2>1, <2>2
  <2>3. CASE s # {}
    <3>1. Max(s) \in 1 .. n /\ s \ {Max(s)} \in SUBSET (1 .. n)
      BY <2>3, MaxOfPlaces
    <3>2. it[s \ {Max(s)}] \in St
      BY <3>1
    <3> QED
      BY <1>3, <2>1, <2>3, <3>1, <3>2
  <2> QED
    BY <2>2, <2>3
<1>7. it = [s \in SUBSET (1 .. n) |-> push(it, s)]
  BY <1>6
<1>8. h = [s \in SUBSET (1 .. n) |-> push(h, s)]
  <2>1. \E iter : iter = [s \in SUBSET (1 .. n) |-> push(iter, s)]
    BY <1>7
  <2> QED
    BY <2>1 DEF Heaps
<1> HIDE DEF h
<1>9. h[1 .. 0] = {}
  BY <1>8
<1>10. ASSUME NEW i \in 1 .. n PROVE h[1 .. i] = Pushed(score, k, floor, h[1 .. i - 1], seq[i])
  <2>1. h[1 .. i] = push(h, 1 .. i)
    BY <1>8, StepsInOrder
  <2> QED
    BY <2>1, StepsInOrder
<1> QED
  BY <1>9, <1>10 DEF h

(* A heap fed with everything holds the k best of what passes the floor.   *)
LEMMA HeapIsBest ==
    ASSUME NEW S, NEW score, Scored(S, score), NEW k \in Nat \ {0}, NEW floor \in Nat
    PROVE  Heaps(Cardinality(S), Ascending(S), score, k, floor)[1 .. Cardinality(S)]
              = Best(Kept(S, floor, score), score, k)
<1> DEFINE n == Cardinality(S)
           seq == Ascending(S)
           h == Heaps(n, seq, score, k, floor)
           to(m) == {seq[i] : i \in 1 .. m}
           Good == {m \in Nat : m <= n => h[1 .. m] = Best(Kept(to(m), floor, score), score, k)}
<1>1. /\ n \in Nat /\ seq \in [1 .. n -> S] /\ S \subseteq Nat
      /\ \A x \in S : \E i \in 1 .. n : seq[i] = x
      /\ \A i, j \in 1 .. n : i < j <=> seq[i] < seq[j]
  BY AscendingList DEF Scored
<1> HIDE DEF n, seq
<1>2. /\ h[1 .. 0] = {}
      /\ \A i \in 1 .. n : h[1 .. i] = Pushed(score, k, floor, h[1 .. i - 1], seq[i])
  <2>1. k \in Nat /\ n \in Nat /\ seq \in [1 .. n -> S]
    BY <1>1
  <2> HIDE DEF to, Good
  <2>2. h[1 .. 0] = {}
    BY <2>1, HeapsUnfold
  <2>3. \A i \in 1 .. n : h[1 .. i] = Pushed(score, k, floor, h[1 .. i - 1], seq[i])
    BY <2>1, HeapsUnfold
  <2> QED
    BY <2>2, <2>3
<1> HIDE DEF h
<1>3. 0 \in Good
  BY <1>2 DEF Kept, Best
<1>4. ASSUME NEW m \in Good PROVE m + 1 \in Good
  <2> SUFFICES ASSUME m + 1 <= n
               PROVE  h[1 .. m + 1] = Best(Kept(to(m + 1), floor, score), score, k)
    OBVIOUS
  <2>1. m \in Nat /\ m + 1 \in 1 .. n /\ m <= n /\ (m + 1) - 1 = m /\ 1 .. m \subseteq 1 .. n
    BY <1>1
  <2>2. h[1 .. m] = Best(Kept(to(m), floor, score), score, k)
    BY <2>1
  <2>3. h[1 .. m + 1] = Pushed(score, k, floor, h[1 .. m], seq[m + 1])
    BY <1>2, <2>1
  <2>4. to(m) \in SUBSET S /\ seq[m + 1] \in S
    BY <1>1, <2>1
  <2>5. \A q \in to(m) : q < seq[m + 1]
    BY <1>1, <2>1
  <2>6. seq[m + 1] \notin to(m)
    BY <1>1, <2>1, <2>4, <2>5
  <2>7. to(m + 1) = to(m) \cup {seq[m + 1]}
    BY <2>1
  <2> HIDE DEF to
  <2>8. Pushed(score, k, floor, Best(Kept(to(m), floor, score), score, k), seq[m + 1])
           = Best(Kept(to(m) \cup {seq[m + 1]}, floor, score), score, k)
    BY <2>4, <2>5, <2>6, PushKeepsBest
  <2> QED
    BY <2>2, <2>3, <2>7, <2>8
<1>5. Good = Nat
  <2>1. Good \in SUBSET Nat
    OBVIOUS
  <2> HIDE DEF Good
  <2> QED
    BY <1>3, <1>4, <2>1, CountingUp
<1>6. h[1 .. n] = Best(Kept(to(n), floor, score), score, k)
  BY <1>1, <1>5
<1>7. to(n) = S
  BY <1>1
<1> QED
  BY <1>6, <1>7 DEF h, n, seq

(* The heap gives the first k of the list of what passes the floor.        *)
LEMMA TopKIsFirst ==
    ASSUME NEW S, NEW score, Scored(S, score), NEW k \in Nat, NEW floor \in Nat
    PROVE  TopK(S, k, floor, score) = Ranked(Best(Kept(S, floor, score), score, k), score)
<1> DEFINE K == Kept(S, floor, score)
<1>1. CASE k = 0
  <2>1. TopK(S, k, floor, score) = <<>>
    BY <1>1 DEF TopK
  <2>2. ASSUME NEW x \in K PROVE ~ Cardinality(Ahead(K, score, x)) < k
    <3>1. Scored(K, score)
      BY SubsetIsScored DEF Kept
    <3>2. Cardinality(Ahead(K, score, x)) \in Nat
      BY <3>1, AheadIsFinite
    <3> QED
      BY <1>1, <3>2
  <2>3. Best(K, score, k) = {}
    BY <2>2 DEF Best
  <2>4. Ranked({}, score) = <<>>
    BY FS_EmptySet DEF Ranked
  <2> QED
    BY <2>1, <2>3, <2>4
<1>2. CASE k # 0
  <2>1. S \in SUBSET Nat /\ IsFiniteSet(S)
    BY DEF Scored
  <2> QED
    BY <1>2, <2>1, TopKUnfolds, HeapIsBest
<1> QED
  BY <1>1, <1>2

-----------------------------------------------------------------------------
(* Lists that are in order *)

LEMMA SortedIsRanked ==
    ASSUME NEW S, NEW score, Scored(S, score), NEW m \in Nat, NEW s \in [1 .. m -> S],
           \A i, j \in 1 .. m : i < j => Before(score, s[i], s[j])
    PROVE  /\ s = Ranked(ToSet(s), score)
           /\ ToSet(s) \in SUBSET S /\ Cardinality(ToSet(s)) = m
<1> DEFINE T == ToSet(s)
<1>1. T = {s[i] : i \in 1 .. m}
  BY DEF ToSet
<1>2. T \in SUBSET S /\ Scored(T, score)
  BY <1>1, SubsetIsScored
<1>3. ASSUME NEW i \in 1 .. m, NEW j \in 1 .. m PROVE i < j <=> Before(score, s[i], s[j])
  <2>1. i < j \/ i = j \/ j < i
    OBVIOUS
  <2>2. s[i] \in S /\ s[j] \in S
    OBVIOUS
  <2>3. Before(score, s[i], s[j]) => ~ Before(score, s[j], s[i]) /\ s[i] # s[j]
    BY <2>2, BeforeOrders
  <2> QED
    BY <2>1, <2>3
<1>4. ASSUME NEW i \in 1 .. m, NEW j \in 1 .. m, s[i] = s[j] PROVE i = j
  <2>1. ~ Before(score, s[i], s[j]) /\ ~ Before(score, s[j], s[i])
    BY <1>4, BeforeOrders
  <2>2. i < j \/ i = j \/ j < i
    OBVIOUS
  <2> QED
    BY <1>3, <2>1, <2>2
<1> HIDE DEF T
<1>5. Cardinality(T) = m
  <2>1. s \in Bijection(1 .. m, T)
    BY <1>1, <1>4 DEF Bijection, Injection, Surjection, IsInjective
  <2>2. IsFiniteSet(T)
    BY <1>2 DEF Scored
  <2> QED
    BY <2>1, <2>2, FS_CountingElements DEF ExistsBijection
<1>6. ASSUME NEW i \in 1 .. m PROVE Cardinality(Ahead(T, score, s[i])) = i - 1
  <2> DEFINE A == Ahead(T, score, s[i])
             f == [j \in 1 .. i - 1 |-> s[j]]
  <2>1. /\ i - 1 \in Nat /\ 1 .. i - 1 \subseteq 1 .. m
        /\ \A j \in 1 .. m : j \in 1 .. i - 1 <=> j < i
    OBVIOUS
  <2>2. s[i] \in T
    BY <1>1
  <2>3. IsFiniteSet(A)
    BY <1>2, <2>2, AheadIsFinite
  <2>4. \A j \in 1 .. i - 1 : f[j] = s[j] /\ s[j] \in A
    BY <1>1, <1>3, <2>1 DEF Ahead
  <2>5. \A x \in A : \E j \in 1 .. i - 1 : f[j] = x
    BY <1>1, <1>3, <2>1 DEF Ahead
  <2>6. \A j, k \in 1 .. i - 1 : f[j] = f[k] => j = k
    BY <1>4, <2>1
  <2>7. f \in [1 .. i - 1 -> A]
    BY <2>4
  <2> HIDE DEF f, A
  <2>8. f \in Bijection(1 .. i - 1, A)
    BY <2>5, <2>6, <2>7 DEF Bijection, Injection, Surjection, IsInjective
  <2> QED
    BY <2>1, <2>3, <2>8, FS_CountingElements DEF ExistsBijection, A
<1>7. ASSUME NEW i \in 1 .. m PROVE Ranked(T, score)[i] = s[i]
  <2>1. s[i] \in T
    BY <1>1
  <2>2. Ranked(T, score)[Cardinality(Ahead(T, score, s[i])) + 1] = s[i]
    BY <1>2, <2>1, RankedHasAll
  <2>3. Cardinality(Ahead(T, score, s[i])) + 1 = i
    BY <1>6
  <2> QED
    BY <2>2, <2>3
<1>8. Ranked(T, score) \in [1 .. m -> T]
  BY <1>2, <1>5, RankedList
<1>9. s = Ranked(T, score)
  BY <1>7, <1>8
<1> QED
  BY <1>2, <1>5, <1>9 DEF T

(* The first k of a list are the k best, in order.                         *)
LEMMA FirstIsRanked ==
    ASSUME NEW S, NEW score, Scored(S, score), NEW k \in Nat
    PROVE  First(Ranked(S, score), k) = Ranked(Best(S, score, k), score)
<1> DEFINE s == Ranked(S, score)
           f == First(s, k)
           m == Len(f)
<1>1. Cardinality(S) \in Nat /\ s \in Seq(S) /\ Len(s) = Cardinality(S)
  BY RankedList
<1>2. ToSet(f) = Best(S, score, k)
  BY FirstAreBest
<1> HIDE DEF s
<1>3. /\ f \in Seq(S) /\ m \in Nat /\ DOMAIN f = 1 .. m
      /\ \A i \in 1 .. m : i \in 1 .. Len(s) /\ f[i] = s[i]
  BY <1>1, FirstOf
<1> HIDE DEF f, m
<1>4. f \in [1 .. m -> S]
  <2>1. f \in [1 .. Len(f) -> S]
    BY <1>3, LenProperties
  <2> QED
    BY <2>1 DEF m
<1>5. ASSUME NEW i \in 1 .. m, NEW j \in 1 .. m, i < j PROVE Before(score, f[i], f[j])
  <2>1. i \in 1 .. Cardinality(S) /\ j \in 1 .. Cardinality(S) /\ f[i] = s[i] /\ f[j] = s[j]
    BY <1>1, <1>3
  <2>2. i < j <=> Before(score, s[i], s[j])
    BY <2>1, RankedOrder DEF s
  <2> QED
    BY <1>5, <2>1, <2>2
<1>6. f = Ranked(ToSet(f), score)
  BY <1>3, <1>4, <1>5, SortedIsRanked
<1> QED
  BY <1>2, <1>6 DEF f, s

(* Entries of a list in order are in order.                                *)
LEMMA EntriesAtIsRanked ==
    ASSUME NEW S, NEW score, Scored(S, score), NEW P \in SUBSET (1 .. Cardinality(S))
    PROVE  EntriesAt(Ranked(S, score), P) = Ranked({Ranked(S, score)[i] : i \in P}, score)
<1> DEFINE n == Cardinality(S)
           s == Ranked(S, score)
           m == Cardinality(P)
           a == Ascending(P)
           e == EntriesAt(s, P)
<1>1. n \in Nat /\ s \in [1 .. n -> S] /\ \A i, j \in 1 .. n : i < j => Before(score, s[i], s[j])
  BY RankedList, RankedOrder
<1>2. IsFiniteSet(P) /\ P \in SUBSET Nat
  <2>1. IsFiniteSet(1 .. n)
    BY <1>1, FS_Interval
  <2>2. P \subseteq 1 .. n
    OBVIOUS
  <2> HIDE DEF n
  <2>3. IsFiniteSet(P)
    BY <2>1, <2>2, FS_Subset
  <2>4. P \subseteq Nat
    BY <2>2
  <2> QED
    BY <2>3, <2>4
<1>3. /\ m \in Nat /\ a \in [1 .. m -> P]
      /\ \A x \in P : \E i \in 1 .. m : a[i] = x
      /\ \A i, j \in 1 .. m : i < j <=> a[i] < a[j]
  BY <1>2, AscendingList
<1>4. e = [i \in 1 .. m |-> s[a[i]]]
  BY DEF EntriesAt
<1> HIDE DEF n, s, m, a, e
<1>5. P \in SUBSET (1 .. n)
  BY DEF n
<1>6. e \in [1 .. m -> S] /\ \A i, j \in 1 .. m : i < j => Before(score, e[i], e[j])
  BY <1>1, <1>3, <1>4, <1>5
<1>7. ToSet(e) = {s[i] : i \in P}
  <2>1. DOMAIN e = 1 .. m
    BY <1>4
  <2> QED
    BY <1>3, <1>4, <2>1 DEF ToSet
<1>8. e = Ranked(ToSet(e), score)
  BY <1>3, <1>6, SortedIsRanked
<1> QED
  BY <1>7, <1>8 DEF e, s

(* Of a list in order: what it holds, and in what order.                   *)
LEMMA RankedSet ==
    ASSUME NEW S, NEW score, Scored(S, score)
    PROVE  ToSet(Ranked(S, score)) = S
<1>1. DOMAIN Ranked(S, score) = 1 .. Cardinality(S)
      /\ \A i \in 1 .. Cardinality(S) : Ranked(S, score)[i] \in S
  BY RankedList
<1>2. \A x \in S : \E i \in 1 .. Cardinality(S) : Ranked(S, score)[i] = x
  BY RankedHasAll
<1> QED
  BY <1>1, <1>2 DEF ToSet

(***************************************************************************)
(* Part 2.  Search                                                         *)
(***************************************************************************)

-----------------------------------------------------------------------------
(* Search: candidates *)

Open(g, o) == Rows(g) \ Skipped(g, o.low)

LEMMA GalleryIsScored ==
    ASSUME NEW g, IsGallery(g)
    PROVE  /\ Scored(Rows(g), Score(g))
           /\ \A r \in Rows(g) : g.face[r].score \in Nat /\ Score(g)[r] = g.face[r].score
BY DEF IsGallery, Scored, Score

LEMMA CoarseIsScored ==
    ASSUME NEW g, IsGallery(g)
    PROVE  /\ Scored(Rows(g), Coarse(g))
           /\ \A r \in Rows(g) : /\ Coarse(g)[r] \in Nat /\ Coarse(g)[r] <= g.face[r].score
                                 /\ g.face[r].score < Coarse(g)[r] + I8Margin
<1>1. I8Margin \in Nat /\ I8Margin > 0
  BY SearchBounds
<1>2. ASSUME NEW r \in Rows(g)
      PROVE  /\ Coarse(g)[r] \in Nat /\ Coarse(g)[r] <= g.face[r].score
             /\ g.face[r].score < Coarse(g)[r] + I8Margin
  <2> DEFINE s == g.face[r].score
             m == s % I8Margin
  <2>1. s \in Nat
    BY GalleryIsScored
  <2>2. Coarse(g)[r] = s - m
    BY DEF Coarse
  <2> HIDE DEF s
  <2>3. m \in 0 .. I8Margin - 1 /\ s = I8Margin * (s \div I8Margin) + m /\ s \div I8Margin \in Nat
    BY <1>1, <2>1
  <2> DEFINE p == I8Margin * (s \div I8Margin)
  <2>4. p \in Nat
    BY <1>1, <2>3
  <2>5. s = p + m
    BY <2>3
  <2> HIDE DEF m, p
  <2> QED
    BY <1>1, <2>1, <2>2, <2>3, <2>4, <2>5 DEF s
<1> QED
  BY <1>2 DEF IsGallery, Scored

LEMMA RerankIsRanked ==
    ASSUME NEW g, IsGallery(g), NEW rows \in SUBSET Rows(g), NEW want \in Nat, NEW floor \in Nat
    PROVE  /\ Scored(Kept(rows, floor, Score(g)), Score(g))
           /\ Rerank(g, rows, want, floor)
                 = Ranked(Best(Kept(rows, floor, Score(g)), Score(g), want), Score(g))
<1>1. {r \in rows : g.face[r].score >= floor} = Kept(rows, floor, Score(g))
  BY GalleryIsScored DEF Kept
<1>2. Scored(Kept(rows, floor, Score(g)), Score(g))
  BY GalleryIsScored, SubsetIsScored DEF Kept
<1> QED
  BY <1>1, <1>2, FirstIsRanked DEF Rerank

(* Nearest leaves out only what as many are nearer than.                   *)
LEMMA NearestIsBest ==
    ASSUME NEW g, IsGallery(g), NEW k \in Nat
    PROVE  /\ Nearest(g, k) \subseteq g.indexed /\ g.indexed \subseteq Rows(g)
           /\ \A r \in g.indexed \ Nearest(g, k) :
                 /\ Cardinality(Above(g, g.indexed, r)) >= k
                 /\ \A q \in Nearest(g, k) : Before(Score(g), q, r)
<1> DEFINE m == Larger(k, 1)
           N == Nearest(g, k)
           X == g.indexed
<1>1. m \in Nat /\ m >= k
  BY DEF Larger
<1>2. X \subseteq Rows(g)
  BY DEF IsGallery
<1>3. Scored(X, Score(g))
  BY <1>2, GalleryIsScored, SubsetIsScored
<1>4. N = Best(X, Score(g), m)
  BY <1>1, <1>3, FirstAreBest DEF Nearest
<1>5. /\ N \subseteq X /\ IsFiniteSet(N)
      /\ Cardinality(N) = (IF m < Cardinality(X) THEN m ELSE Cardinality(X))
      /\ \A b \in N, q \in X \ N : Before(Score(g), b, q)
  BY <1>1, <1>3, <1>4, BestIsFull
<1>6. IsFiniteSet(X) /\ Cardinality(X) \in Nat
  BY <1>3, FS_CardinalityType DEF Scored
<1> HIDE DEF N, X, m
<1>7. ASSUME NEW r \in X \ N PROVE Cardinality(Above(g, X, r)) >= k
  <2>1. ~ (Cardinality(X) = Cardinality(N))
    BY <1>5, <1>6, <1>7, FS_Subset
  <2>2. Cardinality(N) = m
    BY <1>5, <2>1
  <2>3. N \subseteq Above(g, X, r)
    BY <1>2, <1>3, <1>5, <1>7, GalleryIsScored, BeforeOrders DEF Above, Before
  <2>4. IsFiniteSet(Above(g, X, r))
    BY <1>6, FS_Subset DEF Above
  <2>5. Cardinality(N) <= Cardinality(Above(g, X, r)) /\ Cardinality(Above(g, X, r)) \in Nat
    BY <2>3, <2>4, FS_Subset, FS_CardinalityType
  <2> QED
    BY <1>1, <2>2, <2>5
<1> QED
  BY <1>2, <1>5, <1>7 DEF X, N

(* What a search looks at before it cuts.                                  *)
Floor(o) == IF o.min > I8Margin THEN o.min - I8Margin ELSE 0

Looked(g, o, want) ==
    CASE Exact(g, o) /\ o.i8   -> Best(Kept(Open(g, o), Floor(o), Coarse(g)), Coarse(g), I8Pool(want))
      [] Exact(g, o) /\ ~ o.i8 -> Open(g, o)
      [] ~ Exact(g, o)         -> Nearest(g, Pool(o, want)) \cap Open(g, o)

Considered(g, o, want) == Kept(Looked(g, o, want), o.min, Score(g))

LEMMA PoolsAreNumbers ==
    ASSUME NEW o, NEW want \in Nat
    PROVE  I8Pool(want) \in Nat /\ Pool(o, want) \in Nat
<1>1. I8Factor \in Nat /\ I8Slack \in Nat /\ PoolFactor \in Nat /\ PoolMin \in Nat
  BY SearchBounds
<1>2. want * I8Factor \in Nat /\ want + I8Slack \in Nat /\ want * PoolFactor \in Nat
  BY <1>1
<1> QED
  BY <1>1, <1>2 DEF I8Pool, Pool, Larger

LEMMA CandidatesAreBest ==
    ASSUME NEW g, IsGallery(g), NEW o, IsOptions(o), NEW want \in Nat
    PROVE  /\ Considered(g, o, want) \subseteq Open(g, o)
           /\ \A r \in Considered(g, o, want) : g.face[r].score >= o.min
           /\ Scored(Considered(g, o, want), Score(g))
           /\ Candidates(g, o, want) = Ranked(Best(Considered(g, o, want), Score(g), want), Score(g))
<1> DEFINE X == Open(g, o)
           P == Considered(g, o, want)
<1>1. o.min \in Nat /\ I8Margin \in Nat /\ Floor(o) \in Nat
  BY SearchBounds DEF IsOptions, Floor
<1>2. X \in SUBSET Rows(g) /\ I8Pool(want) \in Nat /\ Pool(o, want) \in Nat
  BY PoolsAreNumbers DEF Open
<1>3. Scored(X, Score(g)) /\ Scored(X, Coarse(g))
  BY <1>2, GalleryIsScored, CoarseIsScored, SubsetIsScored
<1>4. CASE Exact(g, o) /\ o.i8
  <2> DEFINE K == Kept(X, Floor(o), Coarse(g))
             B == Best(K, Coarse(g), I8Pool(want))
  <2>1. K \in SUBSET X /\ B \in SUBSET K
    BY DEF Kept, Best
  <2>2. Scored(B, Coarse(g)) /\ B \in SUBSET Rows(g)
    BY <1>2, <1>3, <2>1, SubsetIsScored
  <2>3. TopK(X, I8Pool(want), Floor(o), Coarse(g)) = Ranked(B, Coarse(g))
    BY <1>1, <1>2, <1>3, TopKIsFirst
  <2>4. ToSet(TopK(X, I8Pool(want), Floor(o), Coarse(g))) = B
    BY <2>2, <2>3, RankedSet
  <2>5. Candidates(g, o, want) = Rerank(g, ToSet(TopK(X, I8Pool(want), Floor(o), Coarse(g))), want, o.min)
    BY <1>4 DEF Candidates, Open, Floor
  <2>6. Looked(g, o, want) = B
    BY <1>4 DEF Looked
  <2> HIDE DEF B, K, X
  <2>7. P = Kept(B, o.min, Score(g))
    BY <2>6 DEF Considered
  <2>8. Candidates(g, o, want) = Rerank(g, B, want, o.min)
    BY <2>4, <2>5
  <2>9. Scored(P, Score(g)) /\ Candidates(g, o, want) = Ranked(Best(P, Score(g), want), Score(g))
    BY <1>1, <2>2, <2>7, <2>8, RerankIsRanked
  <2>10. P \in SUBSET B /\ \A r \in P : Score(g)[r] >= o.min
    BY <2>7 DEF Kept
  <2>11. \A r \in P : g.face[r].score >= o.min
    BY <2>2, <2>10, GalleryIsScored
  <2> QED
    BY <2>1, <2>9, <2>10, <2>11 DEF X
<1>5. CASE Exact(g, o) /\ ~ o.i8
  <2>1. Looked(g, o, want) = X
    BY <1>5 DEF Looked
  <2>2. Candidates(g, o, want) = TopK(X, want, o.min, Score(g))
    BY <1>5 DEF Candidates, Open
  <2> HIDE DEF X
  <2>3. P = Kept(X, o.min, Score(g))
    BY <2>1 DEF Considered
  <2>4. Candidates(g, o, want) = Ranked(Best(P, Score(g), want), Score(g))
    BY <1>1, <1>3, <2>2, <2>3, TopKIsFirst
  <2>5. P \in SUBSET X /\ \A r \in P : Score(g)[r] >= o.min
    BY <2>3 DEF Kept
  <2>6. Scored(P, Score(g))
    BY <1>3, <2>5, SubsetIsScored
  <2>7. \A r \in P : g.face[r].score >= o.min
    BY <1>2, <2>5, GalleryIsScored
  <2> QED
    BY <2>4, <2>5, <2>6, <2>7 DEF X
<1>6. CASE ~ Exact(g, o)
  <2> DEFINE B == Nearest(g, Pool(o, want)) \cap X
  <2>1. Looked(g, o, want) = B
    BY <1>6 DEF Looked
  <2>2. Candidates(g, o, want) = Rerank(g, B, want, o.min)
    BY <1>6 DEF Candidates, Open
  <2>3. B \in SUBSET Rows(g) /\ B \in SUBSET X
    BY <1>2
  <2> HIDE DEF B, X
  <2>4. P = Kept(B, o.min, Score(g))
    BY <2>1 DEF Considered
  <2>5. Scored(P, Score(g)) /\ Candidates(g, o, want) = Ranked(Best(P, Score(g), want), Score(g))
    BY <1>1, <2>2, <2>3, <2>4, RerankIsRanked
  <2>6. P \in SUBSET B /\ \A r \in P : Score(g)[r] >= o.min
    BY <2>4 DEF Kept
  <2>7. \A r \in P : g.face[r].score >= o.min
    BY <2>3, <2>6, GalleryIsScored
  <2> QED
    BY <2>3, <2>5, <2>6, <2>7 DEF X
<1> HIDE DEF P, X
<1> QED
  BY <1>4, <1>5, <1>6 DEF P, X

(* A face that matches and is not considered: the 8-bit scan took others   *)
(* for as good, or as many keys of the index as were asked are nearer.     *)
LEMMA NotConsidered ==
    ASSUME NEW g, IsGallery(g), NEW o, IsOptions(o), NEW want \in Nat,
           NEW r \in Open(g, o) \ Considered(g, o, want), g.face[r].score >= o.min
    PROVE  /\ Exact(g, o) =>
                 /\ o.i8
                 /\ Cardinality({q \in Open(g, o) : g.face[q].score + I8Margin > g.face[r].score} \ {r}) >= I8Pool(want)
           /\ ~ Exact(g, o) =>
                 /\ Cardinality(Above(g, g.indexed, r)) >= Pool(o, want)
                 /\ \A q \in Considered(g, o, want) : Before(Score(g), q, r)
<1> DEFINE X == Open(g, o)
           P == Considered(g, o, want)
           near == {q \in X : g.face[q].score + I8Margin > g.face[r].score} \ {r}
<1>1. o.min \in Nat /\ I8Margin \in Nat /\ Floor(o) \in Nat
  BY SearchBounds DEF IsOptions, Floor
<1>2. X \in SUBSET Rows(g) /\ I8Pool(want) \in Nat /\ Pool(o, want) \in Nat /\ r \in X
  BY PoolsAreNumbers DEF Open
<1>3. Scored(X, Score(g)) /\ Scored(X, Coarse(g))
  BY <1>2, GalleryIsScored, CoarseIsScored, SubsetIsScored
<1>4. r \notin Looked(g, o, want)
  <2>1. Score(g)[r] >= o.min
    BY <1>2, GalleryIsScored
  <2> QED
    BY <2>1 DEF Considered, Kept
<1>5. CASE Exact(g, o) /\ o.i8
  <2> DEFINE K == Kept(X, Floor(o), Coarse(g))
             B == Best(K, Coarse(g), I8Pool(want))
  <2>1. r \notin B
    BY <1>4, <1>5 DEF Looked
  <2>2. K \in SUBSET X
    BY DEF Kept
  <2>3. r \in K
    <3>1. Coarse(g)[r] \in Nat /\ g.face[r].score < Coarse(g)[r] + I8Margin /\ g.face[r].score \in Nat
      BY <1>2, CoarseIsScored, GalleryIsScored
    <3>2. Coarse(g)[r] >= Floor(o)
      BY <1>1, <3>1 DEF Floor
    <3> QED
      BY <1>2, <3>2 DEF Kept
  <2>4. Scored(K, Coarse(g))
    BY <1>3, <2>2, SubsetIsScored
  <2> HIDE DEF K
  <2>5. /\ B \subseteq K /\ IsFiniteSet(B)
        /\ Cardinality(B) = (IF I8Pool(want) < Cardinality(K) THEN I8Pool(want) ELSE Cardinality(K))
        /\ \A b \in B, q \in K \ B : Before(Coarse(g), b, q)
    BY <1>2, <2>4, BestIsFull
  <2> HIDE DEF B
  <2>6. IsFiniteSet(K) /\ Cardinality(K) # Cardinality(B)
    BY <2>1, <2>3, <2>4, <2>5, FS_Subset DEF Scored
  <2>7. Cardinality(B) = I8Pool(want)
    BY <2>5, <2>6
  <2>8. ASSUME NEW b \in B PROVE b \in near
    <3>1. b \in X /\ b # r /\ Before(Coarse(g), b, r)
      BY <2>1, <2>2, <2>3, <2>5
    <3>2. /\ Coarse(g)[b] \in Nat /\ Coarse(g)[b] <= g.face[b].score /\ g.face[b].score \in Nat
          /\ Coarse(g)[r] \in Nat /\ g.face[r].score < Coarse(g)[r] + I8Margin /\ g.face[r].score \in Nat
      BY <1>2, <3>1, CoarseIsScored, GalleryIsScored
    <3>3. Coarse(g)[b] >= Coarse(g)[r]
      BY <3>1, <3>2 DEF Before
    <3>4. g.face[b].score + I8Margin > g.face[r].score
      BY <1>1, <3>2, <3>3
    <3> QED
      BY <3>1, <3>4
  <2>9. near \subseteq X /\ IsFiniteSet(X)
    BY <1>3 DEF Scored
  <2> HIDE DEF near
  <2>10. IsFiniteSet(near)
    BY <2>9, FS_Subset
  <2>11. Cardinality(B) <= Cardinality(near) /\ Cardinality(near) \in Nat
    <3>1. B \subseteq near
      BY <2>8
    <3> QED
      BY <2>10, <3>1, FS_Subset, FS_CardinalityType
  <2>12. Cardinality(near) >= I8Pool(want)
    BY <1>2, <2>7, <2>11
  <2> QED
    BY <1>5, <2>12 DEF near
<1>6. CASE Exact(g, o) /\ ~ o.i8
  BY <1>2, <1>4, <1>6 DEF Looked
<1>7. CASE ~ Exact(g, o)
  <2>1. ~ o.low
    BY <1>7 DEF Exact
  <2>2. r \in g.indexed
    <3>1. r \in Rows(g) \ Skipped(g, FALSE)
      BY <2>1 DEF Open, Skipped
    <3> QED
      BY <3>1 DEF IsGallery
  <2>3. r \notin Nearest(g, Pool(o, want))
    BY <1>2, <1>4, <1>7 DEF Looked
  <2>4. /\ Cardinality(Above(g, g.indexed, r)) >= Pool(o, want)
        /\ \A q \in Nearest(g, Pool(o, want)) : Before(Score(g), q, r)
    BY <1>2, <2>2, <2>3, NearestIsBest
  <2>5. P \subseteq Nearest(g, Pool(o, want))
    BY <1>7 DEF Considered, Looked, Kept
  <2> QED
    BY <1>7, <2>4, <2>5
<1> QED
  BY <1>5, <1>6, <1>7

-----------------------------------------------------------------------------
(* Search: what is shown *)

LEMMA FetchIsANumber ==
    ASSUME NEW g, NEW o, IsOptions(o)
    PROVE  /\ Want(o) \in Nat /\ Fetch(g, o) \in Nat /\ Fetch(g, o) >= Want(o)
           /\ o.key \/ o.range => Fetch(g, o) = Want(o)
           /\ o.range => Want(o) >= o.k
           /\ ~ o.range /\ ~ o.group => Want(o) = o.k
<1>1. MaxRange \in Nat /\ GroupFactor \in Nat /\ GroupMin \in Nat /\ Slack \in Nat
  BY SearchBounds
<1>2. o.k \in Nat /\ o.k * GroupFactor \in Nat /\ o.range \in BOOLEAN /\ o.group \in BOOLEAN /\ o.key \in BOOLEAN
  BY <1>1 DEF IsOptions
<1> DEFINE R == o.range
           G == o.group
           Y == o.key
<1> HIDE DEF R, G, Y
<1>3. Want(o) = CASE R -> Larger(MaxRange, o.k)
                  [] ~ R /\ G   -> Larger(o.k * GroupFactor, GroupMin)
                  [] ~ R /\ ~ G -> o.k
  BY DEF Want, R, G
<1>4. Want(o) \in Nat /\ (R => Want(o) >= o.k) /\ (~ R /\ ~ G => Want(o) = o.k)
  BY <1>1, <1>2, <1>3 DEF Larger, R, G
<1>5. Fetch(g, o) = IF g.hidden # {} /\ ~ Y /\ ~ R THEN Want(o) * 2 + Slack ELSE Want(o)
  BY DEF Fetch, R, Y
<1>6. Fetch(g, o) \in Nat /\ Fetch(g, o) >= Want(o) /\ (Y \/ R => Fetch(g, o) = Want(o))
  BY <1>1, <1>4, <1>5
<1> QED
  BY <1>4, <1>6 DEF R, G, Y

(* Of live faces hydrate drops the hidden ones, for whom they are hidden.  *)
LEMMA HydrateDropsHidden ==
    ASSUME NEW g, IsGallery(g), NEW A \in SUBSET Rows(g), \A r \in A : g.face[r].live, NEW key \in BOOLEAN
    PROVE  /\ Hydrate(g, Ranked(A, Score(g)), key) = Ranked({r \in A : key \/ ~ HiddenRow(g, r)}, Score(g))
           /\ Scored({r \in A : key \/ ~ HiddenRow(g, r)}, Score(g))
<1> DEFINE s == Ranked(A, Score(g))
           n == Cardinality(A)
           P == {i \in DOMAIN s : g.face[s[i]].live /\ (key \/ ~ HiddenRow(g, s[i]))}
<1>1. Scored(A, Score(g))
  BY GalleryIsScored, SubsetIsScored
<1>2. /\ DOMAIN s = 1 .. n
      /\ \A i \in 1 .. n : s[i] \in A
      /\ \A x \in A : \E i \in 1 .. n : s[i] = x
  <2>1. DOMAIN s = 1 .. n /\ s \in [1 .. n -> A]
    BY <1>1, RankedList
  <2>2. \A x \in A : \E i \in 1 .. n : s[i] = x
    BY <1>1, RankedHasAll
  <2> QED
    BY <2>1, <2>2
<1>3. Hydrate(g, s, key) = EntriesAt(s, P)
  BY DEF Hydrate
<1>4. P \in SUBSET (1 .. n)
  BY <1>2
<1>5. EntriesAt(s, P) = Ranked({s[i] : i \in P}, Score(g))
  BY <1>1, <1>4, EntriesAtIsRanked
<1> HIDE DEF s, n
<1>6. {s[i] : i \in P} = {r \in A : key \/ ~ HiddenRow(g, r)}
  BY <1>2
<1>7. Scored({r \in A : key \/ ~ HiddenRow(g, r)}, Score(g))
  BY <1>1, SubsetIsScored
<1> QED
  BY <1>3, <1>5, <1>6, <1>7 DEF s

Picked(g, o) == Best(Considered(g, o, Fetch(g, o)), Score(g), Fetch(g, o))
Shown(g, o)  == {r \in Picked(g, o) : o.key \/ ~ HiddenRow(g, r)}

LEMMA HitsAreShown ==
    ASSUME NEW g, IsGallery(g), NEW o, IsOptions(o)
    PROVE  /\ Hydrate(g, Candidates(g, o, Fetch(g, o)), o.key) = Ranked(Shown(g, o), Score(g))
           /\ Scored(Shown(g, o), Score(g))
           /\ Shown(g, o) \subseteq Matches(g, o)
           /\ Shown(g, o) \subseteq Picked(g, o)
<1> DEFINE P == Considered(g, o, Fetch(g, o))
           B == Picked(g, o)
           V == {r \in B : o.key \/ ~ HiddenRow(g, r)}
<1>1. Fetch(g, o) \in Nat /\ o.key \in BOOLEAN
  BY FetchIsANumber DEF IsOptions
<1>2. /\ P \subseteq Open(g, o) /\ \A r \in P : g.face[r].score >= o.min
      /\ Candidates(g, o, Fetch(g, o)) = Ranked(B, Score(g))
  BY <1>1, CandidatesAreBest DEF Picked
<1>3. B \subseteq P
  BY DEF Picked, Best
<1> HIDE DEF B, P
<1>4. B \in SUBSET Rows(g) /\ \A r \in B : g.face[r].live
  BY <1>2, <1>3 DEF Open, Skipped
<1>5. Hydrate(g, Ranked(B, Score(g)), o.key) = Ranked(V, Score(g)) /\ Scored(V, Score(g))
  BY <1>1, <1>4, HydrateDropsHidden
<1>6. V \subseteq Matches(g, o)
  BY <1>2, <1>3 DEF Matches, Open
<1> QED
  BY <1>2, <1>5, <1>6 DEF Shown, B

(* A match that is not shown has enough before it.                         *)
LEMMA NotShown ==
    ASSUME NEW g, IsGallery(g), NEW o, IsOptions(o), NEW r \in Matches(g, o) \ Shown(g, o)
    PROVE  /\ \/ Crowded(g, o, r)
              \/ /\ o.key /\ ~ o.group /\ Cardinality(Shown(g, o)) = Want(o)
                 /\ \A q \in Shown(g, o) : Before(Score(g), q, r)
           /\ \/ Blurred(g, o, r)
              \/ \A q \in Shown(g, o) : Before(Score(g), q, r)
<1> DEFINE F == Fetch(g, o)
           P == Considered(g, o, F)
           B == Picked(g, o)
           X == Open(g, o)
           hidden == {q \in Above(g, Rows(g) \ Skipped(g, o.low), r) : HiddenRow(g, q)}
           seen   == Above(g, Matches(g, o), r)
           stale  == Above(g, g.indexed \cap Skipped(g, o.low), r)
<1>1. F \in Nat /\ o.key \in BOOLEAN /\ o.group \in BOOLEAN
  BY FetchIsANumber DEF IsOptions
<1>2. /\ P \subseteq X /\ (\A q \in P : g.face[q].score >= o.min)
      /\ Scored(P, Score(g))
  BY <1>1, CandidatesAreBest
<1>3. r \in X /\ g.face[r].score >= o.min /\ (o.key \/ ~ HiddenRow(g, r)) /\ r \in Rows(g)
  BY DEF Matches, Open
<1>4. B = Best(P, Score(g), F)
  BY DEF Picked
<1>5. r \notin B
  BY <1>3 DEF Shown
<1>6. IsFiniteSet(Rows(g)) /\ g.indexed \subseteq Rows(g)
  BY DEF IsGallery
<1>7. /\ hidden \subseteq Rows(g) /\ seen \subseteq Rows(g) /\ stale \subseteq Rows(g)
  BY <1>6 DEF Above, Matches
<1>8. Shown(g, o) \subseteq B
  BY DEF Shown
<1>9. X \subseteq Rows(g)
  BY DEF Open
<1>10. CASE r \notin P /\ Exact(g, o)
  <2>1. /\ o.i8
        /\ Cardinality({q \in X : g.face[q].score + I8Margin > g.face[r].score} \ {r}) >= I8Pool(F)
    BY <1>1, <1>3, <1>10, NotConsidered
  <2>2. Blurred(g, o, r)
    BY <1>10, <2>1 DEF Blurred, Open
  <2> QED
    BY <2>2 DEF Crowded
<1>11. CASE r \notin P /\ ~ Exact(g, o)
  <2>1. /\ Cardinality(Above(g, g.indexed, r)) >= Pool(o, F)
        /\ \A q \in P : Before(Score(g), q, r)
    BY <1>1, <1>3, <1>11, NotConsidered
  <2>2. B \subseteq P
    BY <1>4 DEF Best
  <2>3. Above(g, g.indexed, r) \subseteq hidden \cup seen \cup stale
    <3> SUFFICES ASSUME NEW q \in Above(g, g.indexed, r), q \notin stale, q \notin hidden
                 PROVE  q \in seen
      OBVIOUS
    <3>1. q \in Rows(g) \ Skipped(g, o.low) /\ q # r /\ g.face[q].score >= g.face[r].score
      BY <1>6 DEF Above
    <3>2. ~ HiddenRow(g, q)
      BY <3>1 DEF Above
    <3>3. g.face[q].score >= o.min
      <4>1. g.face[q].score \in Nat /\ g.face[r].score \in Nat /\ o.min \in Nat
        BY <1>3, <3>1, GalleryIsScored DEF IsOptions
      <4> QED
        BY <1>3, <3>1, <4>1
    <3> QED
      BY <3>1, <3>2, <3>3 DEF Matches, Above
  <2> DEFINE U == hidden \cup seen \cup stale
  <2>4. IsFiniteSet(U)
    BY <1>6, <1>7, FS_Subset
  <2> HIDE DEF U
  <2>5. Cardinality(Above(g, g.indexed, r)) <= Cardinality(U) /\ Cardinality(U) \in Nat
        /\ Cardinality(Above(g, g.indexed, r)) \in Nat
    BY <2>3, <2>4, FS_Subset, FS_CardinalityType DEF U
  <2>6. Pool(o, F) \in Nat
    BY <1>1, PoolsAreNumbers
  <2>7. Cardinality(U) >= Pool(o, F)
    BY <2>1, <2>5, <2>6
  <2>8. Crowded(g, o, r)
    BY <1>11, <2>7 DEF Crowded, U
  <2> QED
    BY <1>8, <2>1, <2>2, <2>8
<1>12. CASE r \in P
  <2>1. /\ B \subseteq P /\ IsFiniteSet(B)
        /\ Cardinality(B) = (IF F < Cardinality(P) THEN F ELSE Cardinality(P))
        /\ \A b \in B, q \in P \ B : Before(Score(g), b, q)
    BY <1>1, <1>2, <1>4, BestIsFull
  <2> HIDE DEF B
  <2>2. IsFiniteSet(P) /\ Cardinality(P) # Cardinality(B)
    BY <1>2, <1>5, <1>12, <2>1, FS_Subset DEF Scored
  <2>3. Cardinality(B) = F
    BY <2>1, <2>2
  <2>4. \A q \in B : Before(Score(g), q, r)
    BY <1>5, <1>12, <2>1
  <2>5. B \subseteq hidden \cup seen
    <3> SUFFICES ASSUME NEW q \in B, q \notin hidden PROVE q \in seen
      OBVIOUS
    <3>1. q \in P /\ q \in X /\ q \in Rows(g) \ Skipped(g, o.low) /\ q # r
      BY <1>2, <1>5, <2>1 DEF Open
    <3>2. g.face[q].score >= g.face[r].score
      BY <1>3, <2>4, <3>1, GalleryIsScored DEF Before
    <3>3. g.face[q].score >= o.min
      BY <1>2, <3>1
    <3>4. ~ HiddenRow(g, q)
      BY <3>1, <3>2 DEF Above
    <3> QED
      BY <3>1, <3>2, <3>3, <3>4 DEF Matches, Above
  <2> DEFINE U == hidden \cup seen
  <2>6. IsFiniteSet(U)
    BY <1>6, <1>7, FS_Subset
  <2> HIDE DEF U
  <2>7. F <= Cardinality(U) /\ Cardinality(U) \in Nat
    BY <2>3, <2>5, <2>6, FS_Subset, FS_CardinalityType DEF U
  <2>8. Cardinality(U) >= F
    BY <1>1, <2>7
  <2>9. CASE o.group \/ ~ o.key
    <3>1. Crowded(g, o, r)
      BY <2>8, <2>9 DEF Crowded, U
    <3> QED
      BY <1>8, <2>4, <3>1
  <2>10. CASE o.key /\ ~ o.group
    <3>1. Shown(g, o) = B
      BY <2>10 DEF Shown, B
    <3>2. F = Want(o)
      BY <2>10, FetchIsANumber
    <3> QED
      BY <2>3, <2>4, <2>10, <3>1, <3>2
  <2> QED
    BY <1>1, <2>9, <2>10
<1> QED
  BY <1>10, <1>11, <1>12

-----------------------------------------------------------------------------
(* One more at the end of a list *)

LEMMA RankedExtends ==
    ASSUME NEW T, NEW r, NEW score, Scored(T \cup {r}, score), r \notin T,
           \A q \in T : Before(score, q, r)
    PROVE  /\ Scored(T, score) /\ Cardinality(T) \in Nat /\ Cardinality(T \cup {r}) = Cardinality(T) + 1
           /\ Ahead(T \cup {r}, score, r) = T
           /\ Ranked(T \cup {r}, score)[Cardinality(T) + 1] = r
<1> DEFINE N == T \cup {r}
<1>1. Scored(N, score) /\ T \in SUBSET N /\ r \in N
  OBVIOUS
<1>2. Scored(T, score)
  BY <1>1, SubsetIsScored
<1>3. IsFiniteSet(T) /\ Cardinality(T) \in Nat
  BY <1>2, FS_CardinalityType DEF Scored
<1>4. Cardinality(N) = Cardinality(T) + 1
  BY <1>3, FS_AddElement
<1>5. ~ Before(score, r, r)
  BY <1>1, BeforeOrders
<1>6. Ahead(N, score, r) = T
  BY <1>5 DEF Ahead
<1> HIDE DEF N
<1>7. Ranked(N, score)[Cardinality(T) + 1] = r
  BY <1>1, <1>6, RankedHasAll
<1> QED
  BY <1>2, <1>3, <1>4, <1>6, <1>7 DEF N

LEMMA OthersKeepTheirPlace ==
    ASSUME NEW T, NEW r, NEW score, Scored(T \cup {r}, score), r \notin T,
           \A q \in T : Before(score, q, r), NEW x \in T
    PROVE  Ahead(T \cup {r}, score, x) = Ahead(T, score, x)
<1>1. ~ Before(score, r, x)
  BY BeforeOrders
<1> QED
  BY <1>1 DEF Ahead

LEMMA OthersStay ==
    ASSUME NEW T, NEW r, NEW score, Scored(T \cup {r}, score), r \notin T,
           \A q \in T : Before(score, q, r), NEW i \in 1 .. Cardinality(T)
    PROVE  Ranked(T \cup {r}, score)[i] = Ranked(T, score)[i]
<1> DEFINE N == T \cup {r}
           x == Ranked(T, score)[i]
<1>1. Scored(N, score) /\ T \in SUBSET N /\ r \in N
  OBVIOUS
<1>2. Scored(T, score)
  BY <1>1, SubsetIsScored
<1>3. x \in T /\ Cardinality(Ahead(T, score, x)) = i - 1
  BY <1>2, RankedPlaces
<1> HIDE DEF x
<1>4. Ahead(N, score, x) = Ahead(T, score, x)
  BY <1>3, OthersKeepTheirPlace
<1> HIDE DEF N
<1>5. Ranked(N, score)[Cardinality(Ahead(N, score, x)) + 1] = x
  BY <1>1, <1>3, RankedHasAll
<1>6. Cardinality(Ahead(N, score, x)) + 1 = i
  BY <1>3, <1>4
<1> QED
  BY <1>5, <1>6 DEF x, N

LEMMA BestExtends ==
    ASSUME NEW T, NEW r, NEW score, Scored(T \cup {r}, score), r \notin T,
           \A q \in T : Before(score, q, r), NEW k \in Nat
    PROVE  Best(T \cup {r}, score, k) = IF Cardinality(T) < k THEN T \cup {r} ELSE Best(T, score, k)
<1>1. /\ Scored(T, score) /\ Cardinality(T) \in Nat
      /\ Ahead(T \cup {r}, score, r) = T
  BY RankedExtends
<1>2. \A x \in T : Ahead(T \cup {r}, score, x) = Ahead(T, score, x)
  BY OthersKeepTheirPlace
<1>3. \A x \in T : Cardinality(Ahead(T, score, x)) \in Nat /\ Cardinality(Ahead(T, score, x)) < Cardinality(T)
  BY <1>1, AheadIsFinite
<1>4. CASE Cardinality(T) < k
  <2>1. \A x \in T \cup {r} : Cardinality(Ahead(T \cup {r}, score, x)) < k
    BY <1>1, <1>2, <1>3, <1>4
  <2> QED
    BY <1>4, <2>1 DEF Best
<1>5. CASE ~ (Cardinality(T) < k)
  BY <1>1, <1>2, <1>5 DEF Best
<1> QED
  BY <1>4, <1>5

(* A set that is not empty has a first.                                    *)
LEMMA SomebodyIsFirst ==
    ASSUME NEW S, NEW score, Scored(S, score), S # {}
    PROVE  \E x \in S : \A q \in S \ {x} : Before(score, x, q)
<1> DEFINE n == Cardinality(S)
           x == Ranked(S, score)[1]
<1>1. n \in Nat /\ n # 0
  BY FS_CardinalityType, FS_EmptySet DEF Scored
<1>2. 1 \in 1 .. n
  BY <1>1
<1>3. x \in S
  BY <1>2, RankedPlaces
<1>4. ASSUME NEW q \in S \ {x} PROVE Before(score, x, q)
  <2> DEFINE m == Cardinality(Ahead(S, score, q)) + 1
  <2>1. m \in 1 .. n /\ Ranked(S, score)[m] = q
    BY RankedHasAll
  <2> HIDE DEF m
  <2>2. m # 1
    BY <2>1
  <2>3. 1 < m
    BY <1>1, <2>1, <2>2
  <2>4. 1 < m <=> Before(score, Ranked(S, score)[1], Ranked(S, score)[m])
    BY <1>2, <2>1, RankedOrder
  <2> QED
    BY <2>1, <2>3, <2>4
<1> QED
  BY <1>3, <1>4

-----------------------------------------------------------------------------
(* Search: hits in groups *)

(* The best of each identity, and each face without one.                   *)
Leaders(g, A) ==
    {r \in A : \A q \in A \ {r} :
        g.face[r].who # 0 /\ g.face[q].who = g.face[r].who => Before(Score(g), r, q)}

Same(g, A, r) == {q \in A : g.face[q].who = g.face[r].who}

Led(g, A, k) == Best(Leaders(g, A), Score(g), k)

More(g, A, r) == IF g.face[r].who = 0 THEN 0 ELSE Cardinality(Same(g, A, r)) - 1

Grouped(g, A, k) ==
    [i \in 1 .. Cardinality(Led(g, A, k)) |->
        [row |-> Ranked(Led(g, A, k), Score(g))[i],
         collapsed |-> More(g, A, Ranked(Led(g, A, k), Score(g))[i])]]

LEMMA LeadersLead ==
    ASSUME NEW g, NEW A, Scored(A, Score(g))
    PROVE  /\ Leaders(g, A) \in SUBSET A /\ Scored(Leaders(g, A), Score(g))
           /\ \A x, y \in Leaders(g, A) : g.face[x].who # 0 /\ g.face[x].who = g.face[y].who => x = y
           /\ \A r \in A : \E x \in Leaders(g, A) :
                 /\ x = r \/ Before(Score(g), x, r)
                 /\ g.face[x].who = g.face[r].who
<1>1. Leaders(g, A) \in SUBSET A /\ Scored(Leaders(g, A), Score(g))
  BY SubsetIsScored DEF Leaders
<1>2. ASSUME NEW x \in Leaders(g, A), NEW y \in Leaders(g, A),
             g.face[x].who # 0, g.face[x].who = g.face[y].who, x # y
      PROVE  FALSE
  <2>1. x \in A /\ y \in A /\ Before(Score(g), x, y) /\ Before(Score(g), y, x)
    BY <1>2 DEF Leaders
  <2> QED
    BY <2>1, BeforeOrders
<1>3. ASSUME NEW r \in A
      PROVE  \E x \in Leaders(g, A) : (x = r \/ Before(Score(g), x, r)) /\ g.face[x].who = g.face[r].who
  <2> DEFINE M == Same(g, A, r)
  <2>1. CASE g.face[r].who = 0
    BY <2>1 DEF Leaders
  <2>2. CASE g.face[r].who # 0
    <3>1. M \in SUBSET A /\ r \in M
      BY DEF Same
    <3> HIDE DEF M
    <3>2. PICK x \in M : \A q \in M \ {x} : Before(Score(g), x, q)
      BY <3>1, SubsetIsScored, SomebodyIsFirst
    <3>3. x \in A /\ g.face[x].who = g.face[r].who
      BY <3>2 DEF M, Same
    <3>4. \A q \in A \ {x} : g.face[q].who = g.face[x].who => Before(Score(g), x, q)
      BY <3>2, <3>3 DEF M, Same
    <3>5. x \in Leaders(g, A)
      BY <3>3, <3>4 DEF Leaders
    <3> QED
      BY <3>1, <3>2, <3>3, <3>5
  <2> QED
    BY <2>1, <2>2
<1> QED
  BY <1>1, <1>2, <1>3

LEMMA GroupedIsAList ==
    ASSUME NEW g, NEW A, Scored(A, Score(g)), NEW k \in Nat
    PROVE  /\ Led(g, A, k) \in SUBSET Leaders(g, A) /\ Led(g, A, k) \in SUBSET A
           /\ Scored(Led(g, A, k), Score(g))
           /\ Cardinality(Led(g, A, k)) \in Nat /\ IsFiniteSet(Led(g, A, k))
           /\ Cardinality(Led(g, A, k)) <= k
           /\ Grouped(g, A, k) \in Seq([row : A, collapsed : Int])
           /\ Len(Grouped(g, A, k)) = Cardinality(Led(g, A, k))
           /\ DOMAIN Grouped(g, A, k) = 1 .. Cardinality(Led(g, A, k))
           /\ \A i \in 1 .. Cardinality(Led(g, A, k)) : Ranked(Led(g, A, k), Score(g))[i] \in Led(g, A, k)
           /\ \A x \in Led(g, A, k) :
                 \E i \in 1 .. Cardinality(Led(g, A, k)) : Ranked(Led(g, A, k), Score(g))[i] = x
<1> DEFINE B == Led(g, A, k)
           n == Cardinality(B)
           s == Ranked(B, Score(g))
           G == Grouped(g, A, k)
<1>1. Leaders(g, A) \in SUBSET A /\ Scored(Leaders(g, A), Score(g))
  BY LeadersLead
<1>2. /\ B \subseteq Leaders(g, A) /\ IsFiniteSet(B)
      /\ n = (IF k < Cardinality(Leaders(g, A)) THEN k ELSE Cardinality(Leaders(g, A)))
  BY <1>1, BestIsFull DEF Led
<1>3. n \in Nat /\ Cardinality(Leaders(g, A)) \in Nat
  BY <1>1, <1>2, FS_CardinalityType DEF Scored
<1>4. Scored(B, Score(g))
  BY <1>1, <1>2, SubsetIsScored
<1>5. n <= k
  BY <1>2, <1>3
<1> HIDE DEF B
<1>6. s \in [1 .. n -> B] /\ \A x \in B : \E i \in 1 .. n : s[i] = x
  BY <1>4, RankedList, RankedHasAll
<1>7. ASSUME NEW x \in A PROVE More(g, A, x) \in Int
  <2>1. IsFiniteSet(A) /\ Same(g, A, x) \subseteq A
    BY DEF Scored, Same
  <2>2. Cardinality(Same(g, A, x)) \in Nat
    BY <2>1, FS_Subset, FS_CardinalityType
  <2> QED
    BY <2>2 DEF More
<1>8. G = [i \in 1 .. n |-> [row |-> s[i], collapsed |-> More(g, A, s[i])]]
  BY DEF Grouped, B
<1> HIDE DEF n, s, G
<1>9. G \in [1 .. n -> [row : A, collapsed : Int]]
  BY <1>1, <1>2, <1>6, <1>7, <1>8
<1>10. G \in Seq([row : A, collapsed : Int])
  BY <1>3, <1>9, SeqDef
<1>11. DOMAIN G = 1 .. n /\ Len(G) = n
  <2>1. Len(G) \in Nat /\ DOMAIN G = 1 .. Len(G)
    BY <1>10, LenProperties
  <2> QED
    BY <1>3, <1>9, <2>1
<1> QED
  BY <1>1, <1>2, <1>3, <1>4, <1>5, <1>6, <1>10, <1>11 DEF B, n, s, G

(* What group_hits does with one more hit.                                 *)
Slot(g, out, r) == SelectInSeq(out, LAMBDA h : g.face[r].who # 0 /\ g.face[h.row].who = g.face[r].who)

Added(g, k, out, r) ==
    CASE Slot(g, out, r) # 0                  -> [out EXCEPT ![Slot(g, out, r)].collapsed = @ + 1]
      [] Slot(g, out, r) = 0 /\ Len(out) >= k -> out
      [] Slot(g, out, r) = 0 /\ Len(out) < k  -> Append(out, [row |-> r, collapsed |-> 0])

LEMMA NoSlot ==
    ASSUME NEW g, NEW out, Len(out) \in Nat, NEW r,
           \A j \in 1 .. Len(out) : ~ (g.face[r].who # 0 /\ g.face[out[j].row].who = g.face[r].who)
    PROVE  Slot(g, out, r) = 0
<1> DEFINE I == {j \in 1 .. Len(out) : g.face[r].who # 0 /\ g.face[out[j].row].who = g.face[r].who}
<1>1. I = {}
  OBVIOUS
<1> QED
  BY <1>1 DEF Slot, SelectInSeq

(* One more hit, behind the others, in the groups.                         *)
LEMMA GroupStep ==
    ASSUME NEW g, NEW A, NEW r, Scored(A \cup {r}, Score(g)), r \notin A,
           \A q \in A : Before(Score(g), q, r), NEW k \in Nat
    PROVE  Added(g, k, Grouped(g, A, k), r) = Grouped(g, A \cup {r}, k)
<1> DEFINE N   == A \cup {r}
           LA  == Leaders(g, A)
           B   == Led(g, A, k)
           n   == Cardinality(B)
           s   == Ranked(B, Score(g))
           out == Grouped(g, A, k)
           who == g.face[r].who
           new == [row |-> r, collapsed |-> 0]
<1>1. Scored(A, Score(g)) /\ IsFiniteSet(A)
  <2>1. A \in SUBSET (A \cup {r})
    OBVIOUS
  <2>2. Scored(A, Score(g))
    BY <2>1, SubsetIsScored
  <2> QED
    BY <2>2 DEF Scored
<1>2. /\ B \subseteq LA /\ LA \subseteq A /\ Scored(B, Score(g)) /\ Scored(LA, Score(g))
      /\ n \in Nat /\ n <= k
      /\ B = Best(LA, Score(g), k)
      /\ Cardinality(LA) \in Nat
      /\ n = IF k < Cardinality(LA) THEN k ELSE Cardinality(LA)
  <2>1. LA \in SUBSET A /\ Scored(LA, Score(g))
    BY <1>1, LeadersLead
  <2>2. B = Best(LA, Score(g), k)
    BY DEF Led
  <2>3. B \in SUBSET LA /\ Scored(B, Score(g)) /\ n \in Nat /\ n <= k
    BY <1>1, GroupedIsAList
  <2> HIDE DEF B, LA
  <2>4. Cardinality(B) = IF k < Cardinality(LA) THEN k ELSE Cardinality(LA)
    BY <2>1, <2>2, BestIsFull
  <2>5. Cardinality(LA) \in Nat
    BY <2>1, FS_CardinalityType DEF Scored
  <2> QED
    BY <2>1, <2>2, <2>3, <2>4, <2>5
<1>3. /\ out \in Seq([row : A, collapsed : Int]) /\ Len(out) = n /\ DOMAIN out = 1 .. n
      /\ \A i \in 1 .. n : s[i] \in B
      /\ \A x \in B : \E i \in 1 .. n : s[i] = x
  BY <1>1, GroupedIsAList
<1>4. out = [i \in 1 .. n |-> [row |-> s[i], collapsed |-> More(g, A, s[i])]]
  BY DEF Grouped
<1>5. \A i, j \in 1 .. n : s[i] = s[j] => i = j
  BY <1>2, RankedOrder
<1>6. /\ \A x, y \in LA : g.face[x].who # 0 /\ g.face[x].who = g.face[y].who => x = y
      /\ \A q \in A : \E x \in LA : g.face[x].who = g.face[q].who
  BY <1>1, LeadersLead
<1>7. \A x \in A : ~ Before(Score(g), r, x) /\ Before(Score(g), x, r)
  BY BeforeOrders
<1>8. \A x \in A : g.face[x].who # who \/ who = 0 => More(g, N, x) = More(g, A, x)
  <2> SUFFICES ASSUME NEW x \in A, g.face[x].who # who \/ who = 0, g.face[x].who # 0
               PROVE  More(g, N, x) = More(g, A, x)
    BY DEF More
  <2>1. Same(g, N, x) = Same(g, A, x)
    BY DEF Same
  <2> QED
    BY <2>1 DEF More
<1> HIDE DEF B, n, s, out, LA
<1>9. CASE who # 0 /\ \E q \in A : g.face[q].who = who
  <2>1. PICK x \in LA : g.face[x].who = who
    BY <1>6, <1>9
  <2>2. Leaders(g, N) = LA
    BY <1>2, <1>7, <1>9 DEF Leaders, LA
  <2>3. Led(g, N, k) = B
    BY <1>2, <2>2 DEF Led
  <2>4. Grouped(g, N, k) = [i \in 1 .. n |-> [row |-> s[i], collapsed |-> More(g, N, s[i])]]
    BY <2>3 DEF Grouped, n, s
  <2>5. \A y \in B : g.face[y].who = who => y = x
    BY <1>2, <1>6, <1>9, <2>1
  <2>6. CASE x \in B
    <3>1. PICK i \in 1 .. n : s[i] = x
      BY <1>3, <2>6
    <3>2. \A j \in 1 .. n : g.face[s[j]].who = who => j = i
      BY <1>3, <1>5, <2>5, <3>1
    <3>3. \A j \in 1 .. n : out[j].row = s[j] /\ out[j].collapsed = More(g, A, s[j])
      BY <1>4
    <3>4. i \in 1 .. Len(out) /\ g.face[r].who # 0 /\ g.face[out[i].row].who = g.face[r].who
      BY <1>3, <1>9, <2>1, <3>1, <3>3
    <3>5. \A j \in 1 .. Len(out) : g.face[out[j].row].who = g.face[r].who => j = i
      BY <1>3, <3>2, <3>3
    <3>6. Slot(g, out, r) = i
      <4>1. {j \in 1 .. Len(out) : g.face[r].who # 0 /\ g.face[out[j].row].who = g.face[r].who} = {i}
        BY <3>4, <3>5
      <4>2. Slot(g, out, r) = Min({i})
        BY <4>1 DEF Slot, SelectInSeq
      <4>3. i \in Nat /\ Min({i}) = i
        BY DEF Min
      <4> QED
        BY <4>2, <4>3
    <3>7. i # 0 /\ Added(g, k, out, r) = [out EXCEPT ![i].collapsed = @ + 1]
      BY <3>6 DEF Added
    <3>8. More(g, N, s[i]) = More(g, A, s[i]) + 1
      <4>1. Same(g, N, x) = Same(g, A, x) \cup {r} /\ r \notin Same(g, A, x)
        BY <2>1 DEF Same
      <4>2. IsFiniteSet(Same(g, A, x))
        BY <1>1, FS_Subset DEF Same
      <4>3. Cardinality(Same(g, A, x)) \in Nat
            /\ Cardinality(Same(g, N, x)) = Cardinality(Same(g, A, x)) + 1
        BY <4>1, <4>2, FS_AddElement, FS_CardinalityType
      <4> QED
        BY <1>9, <2>1, <3>1, <4>3 DEF More
    <3>9. \A j \in 1 .. n : j # i => More(g, N, s[j]) = More(g, A, s[j])
      BY <1>2, <1>3, <1>8, <3>2
    <3> DEFINE bump(h) == [h EXCEPT !.collapsed = @ + 1]
    <3>10. [out EXCEPT ![i].collapsed = @ + 1] = [j \in 1 .. n |-> IF j = i THEN bump(out[i]) ELSE out[j]]
      BY <1>3, <1>4
    <3>11. bump(out[i]) = [row |-> s[i], collapsed |-> More(g, N, s[i])]
      <4> DEFINE m == More(g, A, s[i])
      <4>1. out[i] = [row |-> s[i], collapsed |-> m]
        BY <1>4
      <4> HIDE DEF m
      <4>2. bump(out[i]) = [row |-> s[i], collapsed |-> m + 1]
        BY <4>1
      <4> QED
        BY <3>8, <4>2 DEF m
    <3> HIDE DEF bump
    <3>12. ASSUME NEW j \in 1 .. n
           PROVE  (IF j = i THEN bump(out[i]) ELSE out[j]) = [row |-> s[j], collapsed |-> More(g, N, s[j])]
      <4>1. CASE j = i
        BY <3>11, <4>1
      <4>2. CASE j # i
        <5>1. out[j] = [row |-> s[j], collapsed |-> More(g, A, s[j])]
          BY <1>4
        <5> QED
          BY <3>9, <4>2, <5>1
      <4> QED
        BY <4>1, <4>2
    <3>13. [out EXCEPT ![i].collapsed = @ + 1]
              = [j \in 1 .. n |-> [row |-> s[j], collapsed |-> More(g, N, s[j])]]
      BY <3>10, <3>12
    <3> QED
      BY <2>4, <3>7, <3>13 DEF out
  <2>7. CASE x \notin B
    <3>1. \A j \in 1 .. n : g.face[s[j]].who # who
      BY <1>3, <2>5, <2>7
    <3>2. \A j \in 1 .. Len(out) : ~ (g.face[r].who # 0 /\ g.face[out[j].row].who = g.face[r].who)
      BY <1>3, <1>4, <3>1
    <3>3. Slot(g, out, r) = 0
      BY <1>2, <1>3, <3>2, NoSlot
    <3>4. n = k
      <4>1. n # Cardinality(LA)
        BY <1>2, <2>7, FS_Subset DEF Scored, n
      <4> QED
        BY <1>2, <4>1
    <3>5. Added(g, k, out, r) = out
      BY <1>3, <3>3, <3>4 DEF Added
    <3>6. \A j \in 1 .. n : More(g, N, s[j]) = More(g, A, s[j])
      BY <1>2, <1>3, <1>8, <3>1
    <3> QED
      BY <1>4, <2>4, <3>5, <3>6 DEF out
  <2> QED
    BY <2>6, <2>7
<1>10. CASE who = 0 \/ \A q \in A : g.face[q].who # who
  <2>1. Leaders(g, N) = LA \cup {r}
    BY <1>2, <1>10 DEF Leaders, LA
  <2>2. r \notin LA /\ \A q \in LA : Before(Score(g), q, r)
    BY <1>2
  <2>3. Scored(LA \cup {r}, Score(g))
    <3>1. LA \cup {r} \in SUBSET N
      BY <1>2
    <3> QED
      BY <3>1, SubsetIsScored
  <2>4. Led(g, N, k) = IF Cardinality(LA) < k THEN LA \cup {r} ELSE B
    <3>1. Best(LA \cup {r}, Score(g), k) = IF Cardinality(LA) < k THEN LA \cup {r} ELSE Best(LA, Score(g), k)
      BY <2>2, <2>3, BestExtends
    <3> QED
      BY <1>2, <2>1, <3>1 DEF Led
  <2>5. \A j \in 1 .. Len(out) : ~ (g.face[r].who # 0 /\ g.face[out[j].row].who = g.face[r].who)
    <3>1. \A j \in 1 .. n : out[j].row = s[j] /\ s[j] \in A
      BY <1>2, <1>3, <1>4
    <3> QED
      BY <1>3, <1>10, <3>1
  <2>6. Slot(g, out, r) = 0
    BY <1>2, <1>3, <2>5, NoSlot
  <2>7. \A j \in 1 .. n : More(g, N, s[j]) = More(g, A, s[j])
    BY <1>2, <1>3, <1>8, <1>10
  <2>8. CASE ~ (Cardinality(LA) < k)
    <3>1. n = k
      BY <1>2, <2>8
    <3>2. Added(g, k, out, r) = out
      BY <1>3, <2>6, <3>1 DEF Added
    <3>3. Led(g, N, k) = B
      BY <2>4, <2>8
    <3>4. Grouped(g, N, k) = [i \in 1 .. n |-> [row |-> s[i], collapsed |-> More(g, N, s[i])]]
      BY <3>3 DEF Grouped, n, s
    <3> QED
      BY <1>4, <2>7, <3>2, <3>4 DEF out
  <2>9. CASE Cardinality(LA) < k
    <3>1. n < k /\ n = Cardinality(LA)
      BY <1>2, <2>9
    <3>2. B = LA
      BY <1>2, <3>1, FS_Subset DEF Scored, n
    <3>3. Led(g, N, k) = B \cup {r} /\ r \notin B /\ Scored(B \cup {r}, Score(g))
          /\ \A q \in B : Before(Score(g), q, r)
      BY <2>2, <2>3, <2>4, <2>9, <3>2
    <3> DEFINE L == Ranked(B \cup {r}, Score(g))
    <3>4. Cardinality(B \cup {r}) = n + 1 /\ L[n + 1] = r
      BY <3>3, RankedExtends DEF n
    <3>5. \A i \in 1 .. n : L[i] = s[i]
      BY <3>3, OthersStay DEF n, s
    <3> HIDE DEF L
    <3>6. Grouped(g, N, k) = [i \in 1 .. n + 1 |-> [row |-> L[i], collapsed |-> More(g, N, L[i])]]
      BY <3>3, <3>4 DEF Grouped, L
    <3>7. More(g, N, r) = 0
      <4>1. CASE who = 0
        BY <4>1 DEF More
      <4>2. CASE who # 0
        <5>1. Same(g, N, r) = {r}
          BY <1>10, <4>2 DEF Same
        <5>2. Cardinality({r}) = 1
          BY FS_Singleton
        <5> QED
          BY <4>2, <5>1, <5>2 DEF More
      <4> QED
        BY <4>1, <4>2
    <3>8. Added(g, k, out, r) = Append(out, new)
      BY <1>3, <2>6, <3>1 DEF Added
    <3>9. Append(out, new) = [i \in 1 .. n + 1 |-> IF i <= n THEN out[i] ELSE new]
      <4>1. new \in [row : N, collapsed : Int] /\ out \in Seq([row : N, collapsed : Int])
        <5>1. new \in [row : N, collapsed : Int]
          OBVIOUS
        <5>2. out \in [1 .. n -> [row : A, collapsed : Int]]
          BY <1>3, LenProperties
        <5>3. out \in [1 .. n -> [row : N, collapsed : Int]]
          BY <5>2
        <5>4. out \in Seq([row : N, collapsed : Int])
          <6> DEFINE R == [row : N, collapsed : Int]
          <6>1. out \in [1 .. n -> R]
            BY <5>3
          <6> HIDE DEF R
          <6>2. out \in Seq(R)
            BY <1>2, <6>1, SeqDef
          <6> QED
            BY <6>2 DEF R
        <5> QED
          BY <5>1, <5>4
      <4>2. /\ Append(out, new) \in Seq([row : N, collapsed : Int])
            /\ Len(Append(out, new)) = n + 1
            /\ \A i \in 1 .. n : Append(out, new)[i] = out[i]
            /\ Append(out, new)[n + 1] = new
        BY <1>3, <4>1, AppendProperties
      <4>3. DOMAIN Append(out, new) = 1 .. n + 1
        BY <4>2, LenProperties
      <4>4. Append(out, new) = [i \in 1 .. n + 1 |-> Append(out, new)[i]]
        BY <4>2, <4>3, LenProperties
      <4>5. \A i \in 1 .. n + 1 : i = n + 1 \/ i \in 1 .. n
        BY <1>2
      <4> QED
        BY <1>2, <4>2, <4>4, <4>5
    <3>10. ASSUME NEW i \in 1 .. n + 1
           PROVE  (IF i <= n THEN out[i] ELSE new) = [row |-> L[i], collapsed |-> More(g, N, L[i])]
      <4>1. CASE i \in 1 .. n
        <5>1. out[i] = [row |-> s[i], collapsed |-> More(g, A, s[i])]
          BY <1>4, <4>1
        <5>2. L[i] = s[i] /\ More(g, N, s[i]) = More(g, A, s[i])
          BY <2>7, <3>5, <4>1
        <5>3. i <= n
          BY <4>1, <1>2
        <5> QED
          BY <5>1, <5>2, <5>3
      <4>2. CASE i = n + 1
        BY <1>2, <3>4, <3>7, <4>2
      <4> QED
        BY <1>2, <4>1, <4>2
    <3> QED
      BY <3>6, <3>8, <3>9, <3>10 DEF out
  <2> QED
    BY <2>8, <2>9
<1> QED
  BY <1>9, <1>10

LEMMA MinOfPlaces ==
    ASSUME NEW s \in SUBSET Nat, s # {}
    PROVE  Min(s) \in s /\ \A x \in s : Min(s) <= x
<1>1. \E x \in s : \A y \in s : <<y, x>> \notin OpToRel(<, Nat)
  BY NatLessThanWellFounded, WFMin
<1>2. PICK m \in s : \A y \in s : <<y, m>> \notin OpToRel(<, Nat)
  BY <1>1
<1>3. ASSUME NEW y \in s PROVE m <= y
  <2>1. y \in Nat /\ m \in Nat
    OBVIOUS
  <2>2. ~ (y < m)
    BY <1>2, <2>1 DEF OpToRel
  <2> QED
    BY <2>1, <2>2
<1>4. \E x \in s : \A y \in s : x <= y
  BY <1>3
<1> QED
  BY <1>4 DEF Min

LEMMA AddedIsAList ==
    ASSUME NEW g, NEW V, NEW k \in Nat, NEW out \in Seq([row : V, collapsed : Int]), NEW r \in V
    PROVE  Added(g, k, out, r) \in Seq([row : V, collapsed : Int])
<1> DEFINE R == [row : V, collapsed : Int]
           I == {j \in 1 .. Len(out) : g.face[r].who # 0 /\ g.face[out[j].row].who = g.face[r].who}
           slot == Slot(g, out, r)
           new == [row |-> r, collapsed |-> 0]
<1>1. slot = IF I # {} THEN Min(I) ELSE 0
  BY DEF Slot, SelectInSeq
<1>2. Len(out) \in Nat /\ DOMAIN out = 1 .. Len(out) /\ out \in [1 .. Len(out) -> R]
  BY LenProperties
<1>3. slot = 0 \/ slot \in 1 .. Len(out)
  <2>1. I \in SUBSET Nat /\ I \subseteq 1 .. Len(out)
    OBVIOUS
  <2> HIDE DEF I
  <2> QED
    BY <1>1, <2>1, MinOfPlaces
<1> HIDE DEF slot
<1>4. Added(g, k, out, r) =
         CASE slot # 0                  -> [out EXCEPT ![slot].collapsed = @ + 1]
           [] slot = 0 /\ Len(out) >= k -> out
           [] slot = 0 /\ Len(out) < k  -> Append(out, new)
  BY DEF Added, slot
<1>5. CASE slot # 0
  <2>1. slot \in 1 .. Len(out) /\ out[slot] \in R
    BY <1>2, <1>3, <1>5
  <2>2. [out[slot] EXCEPT !.collapsed = @ + 1] \in R
    BY <2>1
  <2>3. [out EXCEPT ![slot].collapsed = @ + 1] \in [1 .. Len(out) -> R]
    <3> DEFINE bump == [out[slot] EXCEPT !.collapsed = @ + 1]
    <3>1. [out EXCEPT ![slot].collapsed = @ + 1] = [out EXCEPT ![slot] = bump]
      OBVIOUS
    <3> HIDE DEF bump, R
    <3>2. [out EXCEPT ![slot] = bump] \in [1 .. Len(out) -> R]
      BY <1>2, <2>2 DEF bump
    <3> QED
      BY <3>1, <3>2
  <2> HIDE DEF R
  <2>4. [out EXCEPT ![slot].collapsed = @ + 1] \in Seq(R)
    BY <1>2, <2>3, SeqDef
  <2>5. Added(g, k, out, r) \in Seq(R)
    BY <1>4, <1>5, <2>4
  <2> QED
    BY <2>5 DEF R
<1>6. CASE slot = 0
  <2>1. new \in R
    OBVIOUS
  <2>2. out \in Seq(R)
    OBVIOUS
  <2> HIDE DEF R, new
  <2>3. Append(out, new) \in Seq(R)
    BY <2>1, <2>2, AppendProperties
  <2>4. Len(out) >= k \/ Len(out) < k
    BY <1>2
  <2>5. Added(g, k, out, r) \in Seq(R)
    BY <1>4, <1>6, <2>2, <2>3, <2>4
  <2> QED
    BY <2>5 DEF R
<1> QED
  BY <1>5, <1>6

Groupings(n, hits, g, k) ==
    CHOOSE iter : iter = [s \in SUBSET (1 .. n) |->
        IF s = {} THEN <<>> ELSE Added(g, k, iter[s \ {Max(s)}], hits[Max(s)])]

LEMMA GroupHitsUnfolds ==
    ASSUME NEW g, NEW hits, NEW n \in Nat, DOMAIN hits = 1 .. n, NEW k
    PROVE  GroupHits(g, hits, k) = Groupings(n, hits, g, k)[1 .. n]
BY DEF GroupHits, FoldLeft, MapThenFoldSet, Groupings, Added, Slot

Unfolds(n, hits, g, k, h) ==
    /\ h[1 .. 0] = <<>>
    /\ \A i \in 1 .. n : h[1 .. i] = Added(g, k, h[1 .. i - 1], hits[i])

LEMMA GroupingsUnfold ==
    ASSUME NEW g, NEW V, NEW n \in Nat, NEW hits \in [1 .. n -> V], NEW k \in Nat
    PROVE  Unfolds(n, hits, g, k, Groupings(n, hits, g, k))
<1> DEFINE St   == Seq([row : V, collapsed : Int])
           step == [p \in St \X (1 .. n) |-> Added(g, k, p[1], hits[p[2]])]
           next(f, s) == IF s = {} THEN <<>> ELSE Added(g, k, f[s \ {Max(s)}], hits[Max(s)])
           h == Groupings(n, hits, g, k)
<1>1. \A out \in St, r \in V : Added(g, k, out, r) \in St
  BY AddedIsAList
<1>2. <<>> \in St
  OBVIOUS
<1> HIDE DEF St
<1>3. step \in [St \X (1 .. n) -> St]
  <2>1. ASSUME NEW p \in St \X (1 .. n) PROVE Added(g, k, p[1], hits[p[2]]) \in St
    BY <1>1
  <2> QED
    BY <2>1
<1>4. \A out \in St, i \in 1 .. n : step[<<out, i>>] = Added(g, k, out, hits[i])
  OBVIOUS
<1> HIDE DEF step
<1>5. PICK it \in [SUBSET (1 .. n) -> St] : Stepped(n, <<>>, step, it)
  BY <1>2, <1>3, StepsExist
<1>6. ASSUME NEW s \in SUBSET (1 .. n) PROVE it[s] = next(it, s)
  <2>1. it[s] = IF s = {} THEN <<>> ELSE step[<<it[s \ {Max(s)}], Max(s)>>]
    BY <1>5 DEF Stepped
  <2>2. CASE s = {}
    BY <2>1, <2>2
  <2>3. CASE s # {}
    <3>1. Max(s) \in 1 .. n /\ s \ {Max(s)} \in SUBSET (1 .. n)
      BY <2>3, MaxOfPlaces
    <3>2. it[s \ {Max(s)}] \in St
      BY <3>1
    <3> QED
      BY <1>4, <2>1, <2>3, <3>1, <3>2
  <2> QED
    BY <2>2, <2>3
<1>7. it = [s \in SUBSET (1 .. n) |-> next(it, s)]
  BY <1>6
<1>8. h = [s \in SUBSET (1 .. n) |-> next(h, s)]
  <2>1. \E iter : iter = [s \in SUBSET (1 .. n) |-> next(iter, s)]
    BY <1>7
  <2> QED
    BY <2>1 DEF Groupings
<1> HIDE DEF h
<1>9. h[1 .. 0] = <<>>
  BY <1>8
<1>10. ASSUME NEW i \in 1 .. n PROVE h[1 .. i] = Added(g, k, h[1 .. i - 1], hits[i])
  <2>1. h[1 .. i] = next(h, 1 .. i)
    BY <1>8, StepsInOrder
  <2> QED
    BY <2>1, StepsInOrder
<1> QED
  BY <1>9, <1>10 DEF h, Unfolds

(* group_hits gives the best face of each identity, k at most, and counts  *)
(* what it stands for.                                                     *)
LEMMA GroupHitsGroups ==
    ASSUME NEW g, NEW V, Scored(V, Score(g)), NEW k \in Nat
    PROVE  GroupHits(g, Ranked(V, Score(g)), k) = Grouped(g, V, k)
<1> DEFINE n == Cardinality(V)
           hits == Ranked(V, Score(g))
           h == Groupings(n, hits, g, k)
           to(m) == {hits[i] : i \in 1 .. m}
           Good == {m \in Nat : m <= n => h[1 .. m] = Grouped(g, to(m), k)}
<1>1. /\ n \in Nat /\ hits \in [1 .. n -> V] /\ DOMAIN hits = 1 .. n
      /\ \A x \in V : \E i \in 1 .. n : hits[i] = x
  BY RankedList, RankedHasAll
<1>2. \A i, j \in 1 .. n : (i < j <=> Before(Score(g), hits[i], hits[j])) /\ (hits[i] = hits[j] <=> i = j)
  BY RankedOrder
<1> HIDE DEF n, hits
<1>3. /\ h[1 .. 0] = <<>>
      /\ \A i \in 1 .. n : h[1 .. i] = Added(g, k, h[1 .. i - 1], hits[i])
  <2>1. Unfolds(n, hits, g, k, h)
    BY <1>1, GroupingsUnfold
  <2> HIDE DEF h
  <2> QED
    BY <2>1 DEF Unfolds
<1> HIDE DEF h
<1>4. 0 \in Good
  <2>1. to(0) = {}
    OBVIOUS
  <2>2. Led(g, {}, k) = {}
    BY DEF Led, Best, Leaders
  <2>3. Grouped(g, {}, k) = <<>>
    <3>1. Scored({}, Score(g))
      BY FS_EmptySet DEF Scored
    <3>2. Grouped(g, {}, k) \in Seq([row : {}, collapsed : Int]) /\ Len(Grouped(g, {}, k)) = Cardinality({})
      BY <2>2, <3>1, GroupedIsAList
    <3>3. Len(Grouped(g, {}, k)) = 0
      BY <3>2, FS_EmptySet
    <3> QED
      BY <3>2, <3>3, EmptySeq
  <2> QED
    BY <1>3, <2>1, <2>3
<1>5. ASSUME NEW m \in Good PROVE m + 1 \in Good
  <2> SUFFICES ASSUME m + 1 <= n PROVE h[1 .. m + 1] = Grouped(g, to(m + 1), k)
    OBVIOUS
  <2>1. m \in Nat /\ m + 1 \in 1 .. n /\ m <= n /\ (m + 1) - 1 = m /\ 1 .. m \subseteq 1 .. n
    BY <1>1
  <2>2. h[1 .. m] = Grouped(g, to(m), k)
    BY <2>1
  <2>3. h[1 .. m + 1] = Added(g, k, h[1 .. m], hits[m + 1])
    BY <1>3, <2>1
  <2>4. \A q \in to(m) : Before(Score(g), q, hits[m + 1])
    BY <1>2, <2>1
  <2>5. hits[m + 1] \notin to(m)
    BY <1>2, <2>1
  <2>6. to(m + 1) = to(m) \cup {hits[m + 1]}
    BY <2>1
  <2>7. to(m + 1) \in SUBSET V
    BY <1>1, <2>1
  <2> HIDE DEF to
  <2>8. Scored(to(m) \cup {hits[m + 1]}, Score(g))
    BY <2>6, <2>7, SubsetIsScored
  <2>9. Added(g, k, Grouped(g, to(m), k), hits[m + 1]) = Grouped(g, to(m) \cup {hits[m + 1]}, k)
    BY <2>4, <2>5, <2>8, GroupStep
  <2> QED
    BY <2>2, <2>3, <2>6, <2>9
<1>6. Good = Nat
  <2>1. Good \in SUBSET Nat
    OBVIOUS
  <2> HIDE DEF Good
  <2> QED
    BY <1>4, <1>5, <2>1, CountingUp
<1>7. h[1 .. n] = Grouped(g, to(n), k)
  <2>1. n \in Nat /\ n <= n
    BY <1>1
  <2>2. n \in Good
    <3> HIDE DEF Good
    <3> QED
      BY <2>1, <1>6
  <2> HIDE DEF to
  <2> QED
    BY <2>1, <2>2
<1>8. to(n) = V
  BY <1>1
<1>9. GroupHits(g, hits, k) = h[1 .. n]
  BY <1>1, GroupHitsUnfolds DEF h
<1> QED
  BY <1>7, <1>8, <1>9 DEF hits

-----------------------------------------------------------------------------
(* Search: the answer *)

Found(g, o) ==
    IF o.group THEN Led(g, Shown(g, o), o.k)
    ELSE IF o.range THEN Shown(g, o) ELSE Best(Shown(g, o), Score(g), o.k)

LEMMA FoundIsShown ==
    ASSUME NEW g, IsGallery(g), NEW o, IsOptions(o)
    PROVE  /\ Found(g, o) \subseteq Shown(g, o) /\ Found(g, o) \subseteq Matches(g, o)
           /\ Matches(g, o) \subseteq Rows(g) /\ IsFiniteSet(Matches(g, o))
           /\ Scored(Found(g, o), Score(g)) /\ Scored(Shown(g, o), Score(g))
           /\ Cardinality(Found(g, o)) \in Nat
<1>1. Scored(Shown(g, o), Score(g)) /\ Shown(g, o) \subseteq Matches(g, o)
  BY HitsAreShown
<1>2. o.k \in Nat
  BY DEF IsOptions
<1>3. Led(g, Shown(g, o), o.k) \subseteq Shown(g, o)
  BY <1>1, <1>2, GroupedIsAList
<1>4. Best(Shown(g, o), Score(g), o.k) \subseteq Shown(g, o)
  BY DEF Best
<1>5. Found(g, o) \subseteq Shown(g, o)
  BY <1>3, <1>4 DEF Found
<1>6. Scored(Found(g, o), Score(g))
  BY <1>1, <1>5, SubsetIsScored
<1>7. Matches(g, o) \subseteq Rows(g) /\ IsFiniteSet(Matches(g, o))
  BY FS_Subset DEF Matches, IsGallery
<1> QED
  BY <1>1, <1>5, <1>6, <1>7, FS_CardinalityType DEF Scored

LEMMA GroupedLength ==
    ASSUME NEW g, NEW A, Scored(A, Score(g)), NEW k \in Nat
    PROVE  /\ DOMAIN Grouped(g, A, k) = 1 .. Cardinality(Led(g, A, k))
           /\ Len(Grouped(g, A, k)) = Cardinality(Led(g, A, k))
BY GroupedIsAList

LEMMA HitsAreFound ==
    ASSUME NEW g, IsGallery(g), NEW o, IsOptions(o)
    PROVE  /\ DOMAIN SearchLocked(g, o) = 1 .. Cardinality(Found(g, o))
           /\ Len(SearchLocked(g, o)) = Cardinality(Found(g, o))
           /\ \A i \in 1 .. Cardinality(Found(g, o)) :
                 /\ SearchLocked(g, o)[i].row = Ranked(Found(g, o), Score(g))[i]
                 /\ o.group => SearchLocked(g, o)[i].collapsed
                                  = More(g, Shown(g, o), Ranked(Found(g, o), Score(g))[i])
<1> DEFINE V == Shown(g, o)
           F == Found(g, o)
           n == Cardinality(F)
           hits == Hydrate(g, Candidates(g, o, Fetch(g, o)), o.key)
           plain == [i \in 1 .. Len(IF o.range THEN hits ELSE First(hits, o.k)) |-> [row |-> hits[i], collapsed |-> 0]]
<1>1. hits = Ranked(V, Score(g)) /\ Scored(V, Score(g))
  BY HitsAreShown
<1>2. o.k \in Nat /\ o.group \in BOOLEAN /\ o.range \in BOOLEAN
  BY DEF IsOptions
<1>3. Scored(F, Score(g)) /\ n \in Nat
  BY FoundIsShown
<1>4. SearchLocked(g, o) = IF o.group THEN GroupHits(g, hits, o.k) ELSE plain
  BY DEF SearchLocked
<1> HIDE DEF hits
<1>5. CASE o.group
  <2>1. SearchLocked(g, o) = Grouped(g, V, o.k)
    BY <1>1, <1>2, <1>4, <1>5, GroupHitsGroups
  <2>2. F = Led(g, V, o.k)
    BY <1>5 DEF Found
  <2> HIDE DEF V, F
  <2>3. DOMAIN Grouped(g, V, o.k) = 1 .. n /\ Len(Grouped(g, V, o.k)) = n
    <3>1. DOMAIN Grouped(g, V, o.k) = 1 .. Cardinality(Led(g, V, o.k))
      BY <1>1, <1>2, GroupedLength
    <3>2. Len(Grouped(g, V, o.k)) = Cardinality(Led(g, V, o.k))
      BY <1>1, <1>2, GroupedLength
    <3> QED
      BY <2>2, <3>1, <3>2
  <2>4. \A i \in 1 .. n : /\ Grouped(g, V, o.k)[i].row = Ranked(F, Score(g))[i]
                          /\ Grouped(g, V, o.k)[i].collapsed = More(g, V, Ranked(F, Score(g))[i])
    BY <2>2 DEF Grouped
  <2> QED
    BY <2>1, <2>3, <2>4 DEF V, F
<1>6. CASE ~ o.group
  <2>1. SearchLocked(g, o) = plain
    BY <1>2, <1>4, <1>6
  <2>2. Len(IF o.range THEN hits ELSE First(hits, o.k)) = n /\ \A i \in 1 .. n : hits[i] = Ranked(F, Score(g))[i]
    <3>1. CASE o.range
      <4>1. F = V
        BY <1>6, <3>1 DEF Found
      <4>2. Len(Ranked(V, Score(g))) = Cardinality(V)
        BY <1>1, RankedList
      <4> QED
        BY <1>1, <3>1, <4>1, <4>2
    <3>2. CASE ~ o.range
      <4>1. F = Best(V, Score(g), o.k)
        BY <1>2, <1>6, <3>2 DEF Found
      <4> HIDE DEF V, F
      <4>2. First(hits, o.k) = Ranked(F, Score(g))
        BY <1>1, <1>2, <4>1, FirstIsRanked
      <4>3. hits \in Seq(V)
        BY <1>1, RankedList
      <4>4. Len(First(hits, o.k)) = n
        BY <1>3, <4>2, RankedList DEF F
      <4>5. \A i \in 1 .. Len(First(hits, o.k)) : First(hits, o.k)[i] = hits[i]
        BY <1>2, <4>3, FirstOf
      <4> QED
        BY <3>2, <4>2, <4>4, <4>5
    <3> QED
      BY <1>2, <3>1, <3>2
  <2>3. plain = [i \in 1 .. n |-> [row |-> hits[i], collapsed |-> 0]]
    BY <2>2
  <2> HIDE DEF plain, n
  <2>4. plain \in [1 .. n -> [row : {hits[i] : i \in 1 .. n}, collapsed : {0}]]
    BY <2>3
  <2> DEFINE R == [row : {hits[i] : i \in 1 .. n}, collapsed : {0}]
  <2>5. plain \in [1 .. n -> R]
    BY <2>4
  <2> HIDE DEF R
  <2>6. plain \in Seq(R)
    BY <1>3, <2>5, SeqDef DEF n
  <2>7. DOMAIN plain = 1 .. n
    BY <2>5
  <2>8. Len(plain) = n
    <3>1. Len(plain) \in Nat /\ DOMAIN plain = 1 .. Len(plain)
      BY <2>6, LenProperties
    <3>2. n \in Nat
      BY <1>3 DEF n
    <3> QED
      BY <2>7, <3>1, <3>2
  <2>9. \A i \in 1 .. n : plain[i].row = Ranked(F, Score(g))[i]
    BY <2>2, <2>3 DEF n
  <2> QED
    BY <1>6, <2>1, <2>7, <2>8, <2>9 DEF n
<1> QED
  BY <1>2, <1>5, <1>6

(* What has no better in its group among the shown is its group's face.    *)
LEMMA MissedIsBehind ==
    ASSUME NEW g, IsGallery(g), NEW o, IsOptions(o), NEW r \in Shown(g, o) \ Found(g, o),
           o.group /\ g.face[r].who # 0 => \A q \in Found(g, o) : g.face[q].who # g.face[r].who
    PROVE  /\ Cardinality(Found(g, o)) = o.k
           /\ \A q \in Found(g, o) : Before(Score(g), q, r)
           /\ ~ o.range \/ o.group
<1> DEFINE V == Shown(g, o)
           F == Found(g, o)
<1>1. Scored(V, Score(g)) /\ F \subseteq V /\ Scored(F, Score(g))
  BY FoundIsShown
<1>2. o.k \in Nat /\ o.group \in BOOLEAN /\ o.range \in BOOLEAN
  BY DEF IsOptions
<1>3. ASSUME NEW S, Scored(S, Score(g)), F = Best(S, Score(g), o.k), NEW x \in S \ F
      PROVE  Cardinality(F) = o.k /\ \A q \in F : Before(Score(g), q, x)
  <2> HIDE DEF F
  <2>1. /\ F \subseteq S
        /\ Cardinality(F) = (IF o.k < Cardinality(S) THEN o.k ELSE Cardinality(S))
        /\ \A b \in F, q \in S \ F : Before(Score(g), b, q)
    BY <1>2, <1>3, BestIsFull
  <2>2. Cardinality(S) # Cardinality(F)
    BY <1>3, <2>1, FS_Subset DEF Scored
  <2> QED
    BY <1>3, <2>1, <2>2
<1>4. CASE o.group
  <2>1. F = Best(Leaders(g, V), Score(g), o.k)
    BY <1>4 DEF Found, Led
  <2>2. /\ Leaders(g, V) \in SUBSET V /\ Scored(Leaders(g, V), Score(g))
        /\ \E x \in Leaders(g, V) : (x = r \/ Before(Score(g), x, r)) /\ g.face[x].who = g.face[r].who
    BY <1>1, LeadersLead
  <2>3. PICK x \in Leaders(g, V) :
           /\ x = r \/ Before(Score(g), x, r)
           /\ g.face[x].who = g.face[r].who
           /\ g.face[r].who = 0 => x = r
    <3>1. CASE g.face[r].who = 0
      <4>1. r \in Leaders(g, V)
        BY <3>1 DEF Leaders
      <4> QED
        BY <4>1
    <3>2. CASE g.face[r].who # 0
      BY <2>2, <3>2
    <3> QED
      BY <3>1, <3>2
  <2>4. x \notin F
    BY <1>4, <2>3
  <2> HIDE DEF F, V
  <2>5. Cardinality(F) = o.k /\ \A q \in F : Before(Score(g), q, x)
    BY <1>3, <2>1, <2>2, <2>3, <2>4
  <2>6. \A q \in F : Before(Score(g), q, r)
    <3> SUFFICES ASSUME NEW q \in F PROVE Before(Score(g), q, r)
      OBVIOUS
    <3>1. q \in V /\ x \in V /\ r \in V
      BY <1>1, <2>2, <2>3 DEF V
    <3> QED
      BY <1>1, <2>3, <2>5, <3>1, BeforeOrders
  <2> QED
    BY <1>4, <2>5, <2>6 DEF F
<1>5. CASE ~ o.group
  <2>1. ~ o.range
    BY <1>2, <1>5 DEF Found
  <2>2. F = Best(V, Score(g), o.k)
    BY <1>2, <1>5, <2>1 DEF Found
  <2>3. r \in V \ F
    OBVIOUS
  <2> HIDE DEF F, V
  <2>4. Cardinality(F) = o.k /\ \A q \in F : Before(Score(g), q, r)
    BY <1>1, <1>3, <2>2, <2>3
  <2> QED
    BY <2>1, <2>4 DEF F
<1> QED
  BY <1>2, <1>4, <1>5

(* Every search of every gallery is right.                                 *)
LEMMA SearchAnswersRight ==
    ASSUME NEW g, IsGallery(g), NEW o, IsOptions(o)
    PROVE  SearchIsRight(g, o)
<1> DEFINE hits   == SearchLocked(g, o)
           found  == {hits[i].row : i \in DOMAIN hits}
           all    == Matches(g, o)
           missed == {r \in all \ found : ~ o.group \/ g.face[r].who = 0
                                          \/ \A q \in found : g.face[q].who # g.face[r].who}
           full   == Len(hits) >= (IF o.range /\ ~ o.group THEN Want(o) ELSE o.k)
           V      == Shown(g, o)
           F      == Found(g, o)
           n      == Cardinality(F)
           s      == Ranked(F, Score(g))
<1>1. o.k \in Nat /\ o.group \in BOOLEAN /\ o.range \in BOOLEAN /\ o.key \in BOOLEAN
      /\ Want(o) \in Nat /\ (o.range => Want(o) >= o.k) /\ (~ o.range /\ ~ o.group => Want(o) = o.k)
  BY FetchIsANumber DEF IsOptions
<1>2. /\ F \subseteq V /\ F \subseteq all /\ all \subseteq Rows(g) /\ IsFiniteSet(all)
      /\ Scored(F, Score(g)) /\ Scored(V, Score(g)) /\ n \in Nat
  BY FoundIsShown
<1>3. V \subseteq all
  BY HitsAreShown
<1>4. /\ DOMAIN hits = 1 .. n /\ Len(hits) = n
      /\ \A i \in 1 .. n : hits[i].row = s[i]
  BY HitsAreFound
<1>5. o.group => \A i \in 1 .. n : hits[i].collapsed = More(g, V, s[i])
  BY HitsAreFound
<1>6. /\ \A i \in 1 .. n : s[i] \in F
      /\ \A x \in F : \E i \in 1 .. n : s[i] = x
  <2>1. s \in [1 .. n -> F]
    BY <1>2, RankedList
  <2> QED
    BY <1>2, <2>1, RankedHasAll
<1>7. found = F
  BY <1>4, <1>6
<1>8. \A r \in all : g.face[r].score \in Nat /\ Score(g)[r] = g.face[r].score
  BY <1>2, GalleryIsScored
<1>9. \A i, j \in 1 .. n : i < j => g.face[s[i]].score >= g.face[s[j]].score
  <2> SUFFICES ASSUME NEW i \in 1 .. n, NEW j \in 1 .. n, i < j
               PROVE  g.face[s[i]].score >= g.face[s[j]].score
    OBVIOUS
  <2>1. Score(g)[s[i]] >= Score(g)[s[j]]
    BY <1>2, RankedOrder
  <2>2. s[i] \in all /\ s[j] \in all
    BY <1>2, <1>6
  <2> QED
    BY <1>8, <2>1, <2>2
<1>10. \A q, r \in all : Before(Score(g), q, r) => g.face[q].score >= g.face[r].score
  BY <1>8 DEF Before
<1>11. ASSUME NEW r \in all \ V
       PROVE  /\ \/ Crowded(g, o, r)
                 \/ o.key /\ ~ o.group /\ Cardinality(V) = Want(o) /\ \A q \in V : Before(Score(g), q, r)
              /\ Blurred(g, o, r) \/ \A q \in V : Before(Score(g), q, r)
  BY NotShown
<1>12. ASSUME NEW r \in V \ F,
              o.group /\ g.face[r].who # 0 => \A q \in F : g.face[q].who # g.face[r].who
       PROVE  n = o.k /\ (\A q \in F : Before(Score(g), q, r)) /\ (~ o.range \/ o.group)
  BY <1>12, MissedIsBehind
<1>13. ~ o.group => F = IF o.range THEN V ELSE Best(V, Score(g), o.k)
  BY DEF Found
<1> HIDE DEF hits, F, V, n, s, all
<1>14. ASSUME NEW r \in missed
       PROVE  Crowded(g, o, r) \/ (full /\ \A q \in F : g.face[q].score >= g.face[r].score)
  <2>1. r \in all /\ r \notin F
    BY <1>7
  <2>2. o.group /\ g.face[r].who # 0 => \A q \in F : g.face[q].who # g.face[r].who
    BY <1>7
  <2>3. CASE r \in V
    <3>1. n = o.k /\ (\A q \in F : Before(Score(g), q, r)) /\ (~ o.range \/ o.group)
      BY <1>12, <2>1, <2>2, <2>3
    <3>2. full
      BY <1>1, <1>4, <3>1
    <3>3. \A q \in F : g.face[q].score >= g.face[r].score
      BY <1>2, <1>10, <2>1, <3>1
    <3> QED
      BY <3>2, <3>3
  <2>4. CASE r \notin V
    <3>1. SUFFICES ASSUME ~ Crowded(g, o, r)
                   PROVE  full /\ \A q \in F : g.face[q].score >= g.face[r].score
      OBVIOUS
    <3>2. ~ o.group /\ Cardinality(V) = Want(o) /\ \A q \in V : Before(Score(g), q, r)
      BY <1>11, <2>1, <2>4, <3>1
    <3>3. \A q \in F : g.face[q].score >= g.face[r].score
      BY <1>2, <1>10, <2>1, <3>2
    <3>4. CASE o.range
      <4>1. F = V
        BY <1>13, <3>2, <3>4
      <4>2. n = Want(o)
        BY <3>2, <4>1 DEF n
      <4>3. full
        BY <1>1, <1>4, <3>2, <3>4, <4>2
      <4> QED
        BY <3>3, <4>3
    <3>5. CASE ~ o.range
      <4>1. F = Best(V, Score(g), o.k) /\ Want(o) = o.k
        BY <1>1, <1>13, <3>2, <3>5
      <4>2. n = IF o.k < Cardinality(V) THEN o.k ELSE Cardinality(V)
        BY <1>1, <1>2, <4>1, BestIsFull DEF n
      <4>3. n = o.k
        BY <1>1, <3>2, <4>1, <4>2
      <4>4. full
        BY <1>1, <1>4, <3>5, <4>3
      <4> QED
        BY <3>3, <4>4
    <3> QED
      BY <1>1, <3>4, <3>5
  <2> QED
    BY <2>3, <2>4
<1> DEFINE who(i) == g.face[hits[i].row].who
           one(i) == {r \in all : who(i) # 0 /\ g.face[r].who = who(i)}
<1>15. ASSUME o.group, NEW i \in 1 .. n
       PROVE  /\ \A j \in 1 .. n : i # j => who(i) = 0 \/ g.face[hits[j].row].who # who(i)
              /\ \A r \in one(i) : g.face[r].score <= g.face[hits[i].row].score \/ Blurred(g, o, r)
              /\ hits[i].collapsed <= Cardinality(one(i))
              /\ (\A r \in one(i) : ~ Crowded(g, o, r)) /\ who(i) # 0
                    => hits[i].collapsed = Cardinality(one(i)) - 1
  <2> DEFINE x == s[i]
             S == Same(g, V, x)
  <2>1. F = Led(g, V, o.k) /\ F \subseteq Leaders(g, V) /\ Leaders(g, V) \subseteq V
    <3>1. F = Led(g, V, o.k)
      BY <1>15 DEF Found, F, V
    <3>2. Led(g, V, o.k) \in SUBSET Leaders(g, V)
      BY <1>1, <1>2, GroupedIsAList
    <3>3. Leaders(g, V) \in SUBSET V
      BY <1>2, LeadersLead
    <3> QED
      BY <3>1, <3>2, <3>3
  <2>2. x \in F /\ x \in Leaders(g, V) /\ x \in V /\ x \in all /\ hits[i].row = x
    BY <1>2, <1>4, <1>6, <2>1
  <2>3. hits[i].collapsed = More(g, V, x)
    BY <1>5, <1>15
  <2>4. \A j \in 1 .. n : s[j] = x => j = i
    <3> SUFFICES ASSUME NEW j \in 1 .. n, s[j] = x PROVE j = i
      OBVIOUS
    <3> QED
      BY <1>2, RankedOrder DEF s, n
  <2> HIDE DEF x
  <2>5. \A j \in 1 .. n : i # j => who(i) = 0 \/ g.face[hits[j].row].who # who(i)
    <3> SUFFICES ASSUME NEW j \in 1 .. n, i # j, who(i) # 0, g.face[hits[j].row].who = who(i) PROVE FALSE
      OBVIOUS
    <3>1. s[j] \in Leaders(g, V) /\ hits[j].row = s[j]
      BY <1>4, <1>6, <2>1
    <3>2. \A y, z \in Leaders(g, V) : g.face[y].who # 0 /\ g.face[y].who = g.face[z].who => y = z
      BY <1>2, LeadersLead
    <3>3. s[j] = x
      BY <2>2, <3>1, <3>2
    <3> QED
      BY <2>4, <3>3
  <2>6. ASSUME NEW r \in one(i) PROVE g.face[r].score <= g.face[hits[i].row].score \/ Blurred(g, o, r)
    <3>1. r \in all /\ g.face[x].who # 0 /\ g.face[r].who = g.face[x].who
      BY <2>2
    <3>2. CASE r \in V
      <4>1. r = x \/ Before(Score(g), x, r)
        BY <2>2, <3>1, <3>2 DEF Leaders
      <4>2. g.face[x].score >= g.face[r].score
        <5>1. g.face[x].score \in Nat
          BY <1>8, <2>2
        <5> QED
          BY <1>10, <2>2, <3>1, <4>1, <5>1
      <4>3. g.face[x].score \in Nat /\ g.face[r].score \in Nat
        BY <1>8, <2>2, <3>1
      <4> QED
        BY <2>2, <4>2, <4>3
    <3>3. CASE r \notin V
      <4>1. Blurred(g, o, r) \/ Before(Score(g), x, r)
        BY <1>11, <2>2, <3>1, <3>3
      <4>2. Before(Score(g), x, r) => g.face[x].score >= g.face[r].score
        BY <1>10, <2>2, <3>1
      <4>3. g.face[x].score \in Nat /\ g.face[r].score \in Nat
        BY <1>8, <2>2, <3>1
      <4> QED
        BY <2>2, <4>1, <4>2, <4>3
    <3> QED
      BY <3>2, <3>3
  <2>7. IsFiniteSet(one(i)) /\ Cardinality(one(i)) \in Nat
    BY <1>2, FS_Subset, FS_CardinalityType
  <2>8. g.face[x].who # 0 => S \subseteq one(i)
    BY <1>3, <2>2 DEF Same
  <2>9. hits[i].collapsed <= Cardinality(one(i))
    <3>1. CASE g.face[x].who = 0
      BY <2>3, <2>7, <3>1 DEF More
    <3>2. CASE g.face[x].who # 0
      <4>1. Cardinality(S) <= Cardinality(one(i)) /\ Cardinality(S) \in Nat
        BY <2>7, <2>8, <3>2, FS_Subset, FS_CardinalityType
      <4>2. hits[i].collapsed = Cardinality(S) - 1
        BY <2>3, <3>2 DEF More
      <4>3. \A p, q \in Nat : p <= q => p - 1 <= q
        OBVIOUS
      <4> HIDE DEF one
      <4> QED
        BY <2>7, <4>1, <4>2, <4>3
    <3> QED
      BY <3>1, <3>2
  <2>10. ASSUME \A r \in one(i) : ~ Crowded(g, o, r), who(i) # 0
         PROVE  hits[i].collapsed = Cardinality(one(i)) - 1
    <3>1. one(i) \subseteq V
      <4> SUFFICES ASSUME NEW r \in one(i), r \notin V PROVE FALSE
        OBVIOUS
      <4>1. r \in all /\ ~ Crowded(g, o, r)
        BY <2>10
      <4> QED
        BY <1>11, <1>15, <4>1
    <3>2. one(i) = S
      BY <1>3, <2>2, <2>10, <3>1 DEF Same
    <3> QED
      BY <2>2, <2>3, <2>10, <3>2 DEF More
  <2> QED
    BY <2>5, <2>6, <2>9, <2>10
<1>16. Cardinality(found) = Len(hits) /\ found \subseteq all
  BY <1>2, <1>4, <1>7 DEF n
<1>17. \A i, j \in DOMAIN hits : i < j => g.face[hits[i].row].score >= g.face[hits[j].row].score
  BY <1>4, <1>9
<1>18. \A r \in missed : Crowded(g, o, r) \/ (full /\ \A q \in found : g.face[q].score >= g.face[r].score)
  <2> SUFFICES ASSUME NEW r \in missed
               PROVE  Crowded(g, o, r) \/ (full /\ \A q \in found : g.face[q].score >= g.face[r].score)
    OBVIOUS
  <2>1. Crowded(g, o, r) \/ (full /\ \A q \in F : g.face[q].score >= g.face[r].score)
    BY <1>14
  <2> HIDE DEF found, full, missed
  <2> QED
    BY <1>7, <2>1
<1> DEFINE Fine(i) ==
              /\ \A j \in DOMAIN hits : i # j => who(i) = 0 \/ g.face[hits[j].row].who # who(i)
              /\ \A r \in one(i) : g.face[r].score <= g.face[hits[i].row].score \/ Blurred(g, o, r)
              /\ hits[i].collapsed <= Cardinality(one(i))
              /\ (\A r \in one(i) : ~ Crowded(g, o, r)) /\ who(i) # 0
                    => hits[i].collapsed = Cardinality(one(i)) - 1
<1>19. o.group => \A i \in DOMAIN hits : Fine(i)
  <2> SUFFICES ASSUME o.group, NEW i \in DOMAIN hits PROVE Fine(i)
    OBVIOUS
  <2> HIDE DEF who, one
  <2> QED
    BY <1>4, <1>15
<1>20. SearchIsRight(g, o) <=>
          /\ found \subseteq all /\ Cardinality(found) = Len(hits)
          /\ \A i, j \in DOMAIN hits : i < j => g.face[hits[i].row].score >= g.face[hits[j].row].score
          /\ \A r \in missed : Crowded(g, o, r) \/ (full /\ \A q \in found : g.face[q].score >= g.face[r].score)
          /\ o.group => \A i \in DOMAIN hits : Fine(i)
  BY DEF SearchIsRight, hits, all
<1> HIDE DEF found, missed, full, Fine
<1> QED
  BY <1>16, <1>17, <1>18, <1>19, <1>20

-----------------------------------------------------------------------------
(* Search with a template *)

(* Each photo is stood for by the best of its faces.                       *)
LEMMA ConsiderKeepsBest ==
    ASSUME NEW g, IsGallery(g), NEW t, NEW A \in SUBSET Rows(g)
    PROVE  /\ Consider(g, t, A) \in SUBSET A
           /\ \A q, r \in Consider(g, t, A) : g.face[q].image = g.face[r].image => q = r
           /\ \A r \in A : \E c \in Consider(g, t, A) :
                 g.face[c].image = g.face[r].image /\ g.face[c].score >= g.face[r].score
<1> DEFINE C == Consider(g, t, A)
<1>1. \A r \in A : r \in Nat /\ g.face[r].score \in Nat /\ Score(g)[r] = g.face[r].score
  BY GalleryIsScored DEF IsGallery
<1>2. C \subseteq A
  BY DEF Consider
<1>3. ASSUME NEW q \in C, NEW r \in C, g.face[q].image = g.face[r].image PROVE q = r
  <2>1. q \in A /\ r \in A
    BY <1>2
  <2>2. g.face[q].score < g.face[r].score \/ (g.face[q].score = g.face[r].score /\ r <= q)
    BY <1>3, <2>1 DEF Consider
  <2>3. g.face[r].score < g.face[q].score \/ (g.face[r].score = g.face[q].score /\ q <= r)
    BY <1>3, <2>1 DEF Consider
  <2> QED
    BY <1>1, <2>1, <2>2, <2>3
<1>4. ASSUME NEW r \in A
      PROVE  \E c \in C : g.face[c].image = g.face[r].image /\ g.face[c].score >= g.face[r].score
  <2> DEFINE M == {q \in A : g.face[q].image = g.face[r].image}
  <2>1. M \in SUBSET Rows(g) /\ r \in M
    OBVIOUS
  <2> HIDE DEF M
  <2>2. Scored(M, Score(g))
    BY <2>1, GalleryIsScored, SubsetIsScored
  <2>3. PICK c \in M : \A q \in M \ {c} : Before(Score(g), c, q)
    BY <2>1, <2>2, SomebodyIsFirst
  <2>4. c \in A /\ g.face[c].image = g.face[r].image
    BY DEF M
  <2>5. ASSUME NEW q \in A, g.face[q].image = g.face[c].image
        PROVE  g.face[q].score < g.face[c].score \/ (g.face[q].score = g.face[c].score /\ c <= q)
    <3>1. q \in M
      BY <2>4, <2>5 DEF M
    <3>2. CASE q = c
      BY <1>1, <2>4, <3>2
    <3>3. CASE q # c
      <4>1. Before(Score(g), c, q)
        BY <2>3, <3>1, <3>3
      <4> QED
        BY <1>1, <2>4, <4>1 DEF Before
    <3> QED
      BY <3>2, <3>3
  <2>6. c \in C
    BY <2>4, <2>5 DEF Consider
  <2>7. g.face[c].score >= g.face[r].score
    <3>1. g.face[r].score < g.face[c].score \/ (g.face[r].score = g.face[c].score /\ c <= r)
      BY <2>4, <2>5
    <3> QED
      BY <1>1, <2>4, <3>1
  <2> QED
    BY <2>4, <2>6, <2>7
<1> QED
  BY <1>2, <1>3, <1>4

(* Every search with a template is right.                                  *)
LEMMA TemplateAnswersRight ==
    ASSUME NEW g, IsGallery(g), NEW t, IsTemplate(t)
    PROVE  TemplateIsRight(g, t)
<1> DEFINE hits  == SearchTemplate(g, t)
           found == ToSet(hits)
           all   == TemplateRows(g, t)
           count == Larger(TemplateMin, t.k * TemplateFactor)
           asked == IF t.few THEN Rows(g) ELSE Nearest(g, count)
           C     == Consider(g, t, asked \cap all)
           B     == Best(C, Score(g), t.k)
<1>1. t.k \in Nat /\ t.key \in BOOLEAN /\ t.few \in BOOLEAN
  BY DEF IsTemplate
<1>2. count \in Nat
  <2>1. TemplateMin \in Nat /\ TemplateFactor \in Nat /\ t.k * TemplateFactor \in Nat
    BY <1>1, SearchBounds
  <2> QED
    BY <2>1 DEF Larger
<1> HIDE DEF count
<1>3. all \subseteq Rows(g) /\ \A r \in all : g.face[r].live /\ (t.key \/ ~ HiddenRow(g, r)) /\ r \in g.indexed
  <2>1. \A r \in all : r \in Rows(g) \ Skipped(g, FALSE) /\ (t.key \/ ~ HiddenRow(g, r))
    BY DEF TemplateRows
  <2>2. \A r \in Rows(g) \ Skipped(g, FALSE) : g.face[r].live
    BY DEF Skipped
  <2>3. Rows(g) \ Skipped(g, FALSE) \subseteq g.indexed
    BY DEF IsGallery
  <2> QED
    BY <2>1, <2>2, <2>3
<1>4. asked \cap all \in SUBSET Rows(g)
  BY <1>3
<1> HIDE DEF asked, all
<1>5. /\ C \in SUBSET (asked \cap all)
      /\ \A q, r \in C : g.face[q].image = g.face[r].image => q = r
      /\ \A r \in asked \cap all : \E c \in C :
            g.face[c].image = g.face[r].image /\ g.face[c].score >= g.face[r].score
  BY <1>4, ConsiderKeepsBest
<1> HIDE DEF C
<1>6. Scored(C, Score(g))
  <2>1. C \in SUBSET Rows(g)
    BY <1>4, <1>5
  <2> QED
    BY <2>1, GalleryIsScored, SubsetIsScored
<1>7. /\ B \subseteq C
      /\ Cardinality(B) = (IF t.k < Cardinality(C) THEN t.k ELSE Cardinality(C))
      /\ \A b \in B, q \in C \ B : Before(Score(g), b, q)
  BY <1>1, <1>6, BestIsFull
<1>8. First(Ranked(C, Score(g)), t.k) = Ranked(B, Score(g))
  BY <1>1, <1>6, FirstIsRanked
<1> HIDE DEF B
<1>9. B \in SUBSET Rows(g) /\ \A r \in B : g.face[r].live /\ (t.key \/ ~ HiddenRow(g, r))
  BY <1>3, <1>4, <1>5, <1>7
<1>10. hits = Ranked(B, Score(g))
  <2>1. hits = Hydrate(g, Ranked(B, Score(g)), t.key)
    BY <1>8 DEF SearchTemplate, C, asked, all, count
  <2>2. Hydrate(g, Ranked(B, Score(g)), t.key) = Ranked({r \in B : t.key \/ ~ HiddenRow(g, r)}, Score(g))
    BY <1>1, <1>9, HydrateDropsHidden
  <2>3. {r \in B : t.key \/ ~ HiddenRow(g, r)} = B
    BY <1>9
  <2> QED
    BY <2>1, <2>2, <2>3
<1>11. Scored(B, Score(g))
  BY <1>9, GalleryIsScored, SubsetIsScored
<1> HIDE DEF hits
<1>12. found = B /\ Len(hits) = Cardinality(B)
  BY <1>10, <1>11, RankedSet, RankedList
<1>13. B \subseteq all
  BY <1>5, <1>7
<1>14. \A q, r \in B : g.face[q].image = g.face[r].image => q = r
  BY <1>5, <1>7
<1> DEFINE Excused(r) ==
              \/ \E q \in B : g.face[q].image = g.face[r].image /\ g.face[q].score >= g.face[r].score
              \/ Len(hits) = t.k /\ \A q \in B : g.face[q].score >= g.face[r].score
              \/ ~ t.few /\ Cardinality(Above(g, g.indexed, r)) >= count
<1>15. ASSUME NEW r \in all \ B PROVE Excused(r)
  <2>1. CASE r \in asked
    <3>1. PICK c \in C : g.face[c].image = g.face[r].image /\ g.face[c].score >= g.face[r].score
      BY <1>5, <2>1
    <3>2. CASE c \in B
      BY <3>1, <3>2
    <3>3. CASE c \notin B
      <4>1. Cardinality(B) # Cardinality(C)
        BY <1>6, <1>7, <3>3, FS_Subset DEF Scored
      <4>2. Len(hits) = t.k
        BY <1>7, <1>12, <4>1
      <4>3. ASSUME NEW q \in B PROVE g.face[q].score >= g.face[r].score
        <5>1. Before(Score(g), q, c)
          BY <1>7, <3>3
        <5>2. \A x \in {q, c, r} : g.face[x].score \in Nat /\ Score(g)[x] = g.face[x].score
          BY <1>3, <1>5, <1>13, GalleryIsScored
        <5> QED
          BY <3>1, <5>1, <5>2 DEF Before
      <4> QED
        BY <4>2, <4>3
    <3> QED
      BY <3>2, <3>3
  <2>2. CASE r \notin asked
    <3>1. ~ t.few /\ r \notin Nearest(g, count) /\ r \in g.indexed
      BY <1>1, <1>3, <2>2 DEF asked
    <3>2. Cardinality(Above(g, g.indexed, r)) >= count
      BY <1>2, <3>1, NearestIsBest
    <3> QED
      BY <3>1, <3>2
  <2> QED
    BY <2>1, <2>2
<1> DEFINE ExcusedOf(f, r) ==
              \/ \E q \in f : g.face[q].image = g.face[r].image /\ g.face[q].score >= g.face[r].score
              \/ Len(hits) = t.k /\ \A q \in f : g.face[q].score >= g.face[r].score
              \/ ~ t.few /\ Cardinality(Above(g, g.indexed, r)) >= count
<1>16. TemplateIsRight(g, t) <=>
          /\ found \subseteq all
          /\ \A q, r \in found : g.face[q].image = g.face[r].image => q = r
          /\ \A r \in all \ found : ExcusedOf(found, r)
  BY DEF TemplateIsRight, hits, all, count
<1>17. \A r : ExcusedOf(B, r) <=> Excused(r)
  OBVIOUS
<1> HIDE DEF Excused, ExcusedOf, found
<1> QED
  BY <1>12, <1>13, <1>14, <1>15, <1>16, <1>17

(* Theorem.  Whatever the galleries, the options and the templates, search *)
(* returns the best faces a caller may see, and what is missing is crowded *)
(* out.                                                                    *)
THEOREM SearchCorrect == QueriesSpec => []SearchFindsWhatCounts
<1> DEFINE Right == input.of = "search" => input.gallery \in Galleries
<1>1. QueriesInit => Right
  BY DEF QueriesInit, None
<1>2. Right /\ [QueriesNext]_input => Right'
  <2> SUFFICES ASSUME Right, [QueriesNext]_input PROVE Right'
    OBVIOUS
  <2>1. CASE PickSearch
    BY <2>1 DEF PickSearch
  <2>2. CASE PickPeople
    BY <2>2 DEF PickPeople
  <2>3. CASE PickGraph
    BY <2>3 DEF PickGraph
  <2>4. CASE PickUnions
    BY <2>4 DEF PickUnions
  <2>5. CASE input' = None
    BY <2>5 DEF None
  <2>6. CASE UNCHANGED input
    BY <2>6
  <2> QED
    BY <2>1, <2>2, <2>3, <2>4, <2>5, <2>6 DEF QueriesNext
<1>3. Right => SearchFindsWhatCounts
  <2> SUFFICES ASSUME Right, input.of = "search"
               PROVE  /\ \A o \in Options   : SearchIsRight(input.gallery, o)
                      /\ \A t \in Templates : TemplateIsRight(input.gallery, t)
    BY DEF SearchFindsWhatCounts
  <2>1. IsGallery(input.gallery)
    BY InputsAssumption
  <2>2. ASSUME NEW o \in Options PROVE SearchIsRight(input.gallery, o)
    BY <2>1, InputsAssumption, SearchAnswersRight
  <2>3. ASSUME NEW t \in Templates PROVE TemplateIsRight(input.gallery, t)
    BY <2>1, InputsAssumption, TemplateAnswersRight
  <2> QED
    BY <2>2, <2>3
<1> QED
  BY <1>1, <1>2, <1>3, PTL DEF QueriesSpec

(***************************************************************************)
(* Part 3.  People                                                         *)
(***************************************************************************)

-----------------------------------------------------------------------------
(* Pages *)

LEMMA PageOf ==
    ASSUME NEW S, NEW s \in Seq(S), NEW n \in Nat, Len(s) <= Everyone
    PROVE  /\ Page(s, 0, Everyone) = s
           /\ Page(s, 0, n) \o Page(s, n, Everyone) = s
<1> DEFINE m == Len(s)
           k == IF n < m THEN n ELSE m
           a == SubSeq(s, 1, k)
           b == SubSeq(s, n + 1, m)
<1>1. m \in Nat /\ k \in Nat /\ k <= m /\ Everyone \in Nat /\ \A i \in 1 .. m : s[i] \in S
  BY LenProperties, ElementOfSeq, PeopleBounds
<1>2. Page(s, 0, Everyone) = SubSeq(s, 1, m)
  BY <1>1 DEF Page
<1>3. SubSeq(s, 1, m) = s
  BY SubSeqFull
<1>4. Page(s, 0, n) = a
  BY <1>1 DEF Page
<1>5. Page(s, n, Everyone) = b
  BY <1>1 DEF Page
<1> HIDE DEF m, k
<1>6. /\ a \in Seq(S) /\ Len(a) = k
      /\ \A i \in 1 .. k : a[i] = s[i]
  <2>1. \A i \in 1 .. k : s[i] \in S
    BY <1>1
  <2>2. /\ a \in Seq(S) /\ Len(a) = IF 1 <= k THEN k - 1 + 1 ELSE 0
        /\ \A i \in 1 .. k - 1 + 1 : a[i] = s[1 + i - 1]
    BY <1>1, <2>1, SubSeqProperties
  <2> QED
    BY <1>1, <2>2
<1>7. /\ b \in Seq(S) /\ Len(b) = m - k
      /\ \A i \in 1 .. m - k : b[i] = s[k + i]
  <2>1. \A i \in n + 1 .. m : s[i] \in S
    BY <1>1
  <2>2. /\ b \in Seq(S) /\ Len(b) = IF n + 1 <= m THEN m - (n + 1) + 1 ELSE 0
        /\ \A i \in 1 .. m - (n + 1) + 1 : b[i] = s[(n + 1) + i - 1]
    BY <1>1, <2>1, SubSeqProperties
  <2>3. CASE n < m
    <3>1. k = n
      BY <2>3 DEF k
    <3> HIDE DEF b
    <3>2. n + 1 <= m /\ m - (n + 1) + 1 = m - n
      BY <1>1, <2>3
    <3>3. \A i \in 1 .. m - n : (n + 1) + i - 1 = n + i
      BY <1>1
    <3> QED
      BY <2>2, <3>1, <3>2, <3>3
  <2>4. CASE ~ n < m
    <3>1. k = m /\ ~ n + 1 <= m /\ m - k = 0
      BY <1>1, <2>4 DEF k
    <3> QED
      BY <2>2, <3>1
  <2> QED
    BY <2>3, <2>4
<1> HIDE DEF a, b
<1>8. a \o b \in Seq(S) /\ Len(a \o b) = m
      /\ \A i \in 1 .. m : (a \o b)[i] = IF i <= k THEN a[i] ELSE b[i - k]
  <2>1. /\ a \o b \in Seq(S) /\ Len(a \o b) = Len(a) + Len(b)
        /\ \A i \in 1 .. Len(a) + Len(b) : (a \o b)[i] = IF i <= Len(a) THEN a[i] ELSE b[i - Len(a)]
    BY <1>6, <1>7, ConcatProperties
  <2>2. Len(a) + Len(b) = m
    BY <1>1, <1>6, <1>7
  <2> QED
    BY <1>6, <2>1, <2>2
<1>9. \A i \in 1 .. m : (a \o b)[i] = s[i]
  <2> SUFFICES ASSUME NEW i \in 1 .. m PROVE (a \o b)[i] = s[i]
    OBVIOUS
  <2>1. CASE i <= k
    <3>1. i \in 1 .. k
      BY <1>1, <2>1
    <3>2. (a \o b)[i] = a[i]
      BY <1>8, <2>1
    <3> QED
      BY <1>6, <3>1, <3>2
  <2>2. CASE ~ i <= k
    <3>1. i - k \in 1 .. m - k /\ k + (i - k) = i
      BY <1>1, <2>2
    <3> QED
      BY <1>7, <1>8, <2>2, <3>1
  <2> QED
    BY <2>1, <2>2
<1>10. a \o b = s
  <2>1. Len(a \o b) = Len(s)
    BY <1>8 DEF m
  <2> QED
    BY <1>8, <1>9, <2>1, SeqEqual DEF m
<1> QED
  BY <1>2, <1>3, <1>4, <1>5, <1>10 DEF m

-----------------------------------------------------------------------------
(* Sums over the rows of photos *)

AnyOf(s) == CHOOSE x \in s : TRUE

SumOf(s, g) == IF s = {} THEN 0 ELSE AnyOf(s).faces + g[s \ {AnyOf(s)}]

Sums(S) == CHOOSE g : g = [s \in SUBSET S |-> SumOf(s, g)]

(* What the sum of MapThenSumSet is defined by.                            *)
LEMMA SumUnfolds ==
    ASSUME NEW S
    PROVE  MapThenSumSet(LAMBDA b : b.faces, S) = Sums(S)[S]
BY DEF MapThenSumSet, MapThenFoldSet, Sums, SumOf, AnyOf

LEMMA OneLess ==
    ASSUME NEW t, IsFiniteSet(t), NEW n \in Nat, Cardinality(t) = n + 1, NEW x \in t
    PROVE  Cardinality(t \ {x}) = n
<1>1. Cardinality(t \ {x}) = Cardinality(t) - 1
  BY FS_RemoveElement
<1> QED
  BY <1>1

UnionOf(part, s) == UNION {part[x] : x \in s}

(* One part more.                                                          *)
LEMMA UnionGrows ==
    ASSUME NEW S, IsFiniteSet(S), NEW part, \A x \in S : IsFiniteSet(part[x]),
           \A x, y \in S : x # y => part[x] \cap part[y] = {},
           NEW s \in SUBSET S, NEW x \in s, IsFiniteSet(UnionOf(part, s \ {x}))
    PROVE  /\ IsFiniteSet(UnionOf(part, s))
           /\ Cardinality(UnionOf(part, s)) = Cardinality(part[x]) + Cardinality(UnionOf(part, s \ {x}))
<1> DEFINE A == part[x]
           B == UnionOf(part, s \ {x})
<1>1. UnionOf(part, s) = A \cup B
  BY DEF UnionOf
<1>2. A \cap B = {}
  BY DEF UnionOf
<1>3. IsFiniteSet(A) /\ IsFiniteSet(B)
  OBVIOUS
<1> HIDE DEF A, B
<1>4. /\ IsFiniteSet(A \cup B)
      /\ Cardinality(A \cup B) = Cardinality(A) + Cardinality(B) - Cardinality(A \cap B)
  BY <1>3, FS_Union
<1>5. Cardinality(A \cap B) = 0 /\ Cardinality(A) \in Nat /\ Cardinality(B) \in Nat
  BY <1>2, <1>3, FS_EmptySet, FS_CardinalityType
<1>6. Cardinality(A \cup B) = Cardinality(A) + Cardinality(B)
  BY <1>4, <1>5
<1> QED
  BY <1>1, <1>4, <1>6 DEF A, B

LEMMA UnionIsFinite ==
    ASSUME NEW S, IsFiniteSet(S), NEW part, \A x \in S : IsFiniteSet(part[x]),
           \A x, y \in S : x # y => part[x] \cap part[y] = {},
           NEW s \in SUBSET S
    PROVE  IsFiniteSet(UnionOf(part, s))
<1> DEFINE Good == {n \in Nat : \A t \in SUBSET S : Cardinality(t) = n => IsFiniteSet(UnionOf(part, t))}
<1>1. 0 \in Good
  <2> SUFFICES ASSUME NEW t \in SUBSET S, Cardinality(t) = 0 PROVE IsFiniteSet(UnionOf(part, t))
    OBVIOUS
  <2>0. IsFiniteSet(t)
    BY FS_Subset
  <2>1. t = {}
    BY <2>0, FS_EmptySet
  <2>2. UnionOf(part, t) = {}
    BY <2>1 DEF UnionOf
  <2> QED
    BY <2>2, FS_EmptySet
<1>2. ASSUME NEW n \in Good PROVE n + 1 \in Good
  <2> SUFFICES ASSUME NEW t \in SUBSET S, Cardinality(t) = n + 1 PROVE IsFiniteSet(UnionOf(part, t))
    OBVIOUS
  <2>0. IsFiniteSet(t)
    BY FS_Subset
  <2>1. IsFiniteSet(t) /\ n \in Nat /\ n + 1 # 0
    BY <2>0
  <2>2. PICK x \in t : TRUE
    BY <2>1, FS_EmptySet
  <2>3. Cardinality(t \ {x}) = n
    BY <2>1, <2>2, OneLess
  <2>4. IsFiniteSet(UnionOf(part, t \ {x}))
    BY <2>3
  <2> QED
    BY <2>2, <2>4, UnionGrows
<1>3. Good = Nat
  <2>1. Good \in SUBSET Nat
    OBVIOUS
  <2> HIDE DEF Good
  <2> QED
    BY <1>1, <1>2, <2>1, CountingUp
<1>4. Cardinality(s) \in Nat
  BY FS_Subset, FS_CardinalityType
<1> QED
  BY <1>3, <1>4

(* Each entry of a timeline counts its part: the sum counts them all.      *)
LEMMA SumOfParts ==
    ASSUME NEW S, IsFiniteSet(S), NEW part, \A x \in S : IsFiniteSet(part[x]),
           \A x, y \in S : x # y => part[x] \cap part[y] = {},
           \A x \in S : x.faces = Cardinality(part[x])
    PROVE  MapThenSumSet(LAMBDA b : b.faces, S) = Cardinality(UnionOf(part, S))
<1> DEFINE c == [s \in SUBSET S |-> Cardinality(UnionOf(part, s))]
           g == Sums(S)
<1>1. ASSUME NEW s \in SUBSET S PROVE c[s] = SumOf(s, c)
  <2>1. CASE s = {}
    <3>1. UnionOf(part, s) = {}
      BY <2>1 DEF UnionOf
    <3> QED
      BY <2>1, <3>1, FS_EmptySet DEF SumOf
  <2>2. CASE s # {}
    <3>1. AnyOf(s) \in s
      BY <2>2 DEF AnyOf
    <3>2. s \ {AnyOf(s)} \in SUBSET S
      OBVIOUS
    <3>3. IsFiniteSet(UnionOf(part, s \ {AnyOf(s)}))
      BY <3>2, UnionIsFinite
    <3>4. Cardinality(UnionOf(part, s)) = Cardinality(part[AnyOf(s)]) + Cardinality(UnionOf(part, s \ {AnyOf(s)}))
      BY <3>1, <3>3, UnionGrows
    <3>5. AnyOf(s).faces = Cardinality(part[AnyOf(s)])
      BY <3>1
    <3> QED
      BY <2>2, <3>2, <3>4, <3>5 DEF SumOf
  <2> QED
    BY <2>1, <2>2
<1>2. c = [s \in SUBSET S |-> SumOf(s, c)]
  <2>1. c = [s \in SUBSET S |-> c[s]]
    OBVIOUS
  <2> HIDE DEF c
  <2> QED
    BY <1>1, <2>1
<1> HIDE DEF c
<1>3. g = [s \in SUBSET S |-> SumOf(s, g)]
  <2>1. \E f : f = [s \in SUBSET S |-> SumOf(s, f)]
    BY <1>2
  <2> QED
    BY <2>1 DEF Sums
<1> HIDE DEF g
<1> DEFINE Good == {n \in Nat : \A t \in SUBSET S : Cardinality(t) = n => g[t] = c[t]}
<1>4. 0 \in Good
  <2> SUFFICES ASSUME NEW t \in SUBSET S, Cardinality(t) = 0 PROVE g[t] = c[t]
    OBVIOUS
  <2>0. IsFiniteSet(t)
    BY FS_Subset
  <2>1. t = {}
    BY <2>0, FS_EmptySet
  <2> QED
    BY <1>1, <1>3, <2>1 DEF SumOf
<1>5. ASSUME NEW n \in Good PROVE n + 1 \in Good
  <2> SUFFICES ASSUME NEW t \in SUBSET S, Cardinality(t) = n + 1 PROVE g[t] = c[t]
    OBVIOUS
  <2>0. IsFiniteSet(t)
    BY FS_Subset
  <2>1. IsFiniteSet(t) /\ n \in Nat /\ n + 1 # 0
    BY <2>0
  <2>2. t # {}
    BY <2>1, FS_EmptySet
  <2>3. AnyOf(t) \in t
    BY <2>2 DEF AnyOf
  <2>4. Cardinality(t \ {AnyOf(t)}) = n /\ t \ {AnyOf(t)} \in SUBSET S
    BY <2>1, <2>3, OneLess
  <2>5. g[t \ {AnyOf(t)}] = c[t \ {AnyOf(t)}]
    BY <2>4
  <2>6. g[t] = SumOf(t, g) /\ c[t] = SumOf(t, c)
    BY <1>1, <1>3
  <2> QED
    BY <2>5, <2>6 DEF SumOf
<1>6. Good = Nat
  <2>1. Good \in SUBSET Nat
    OBVIOUS
  <2> HIDE DEF Good
  <2> QED
    BY <1>4, <1>5, <2>1, CountingUp
<1>7. Cardinality(S) \in Nat
  BY FS_CardinalityType
<1>8. g[S] = c[S]
  BY <1>6, <1>7
<1>9. MapThenSumSet(LAMBDA b : b.faces, S) = g[S]
  BY SumUnfolds DEF g
<1> QED
  BY <1>8, <1>9 DEF c

-----------------------------------------------------------------------------
(* The lists of a census *)

SizeOf(c) == [id \in c.ids |-> Cardinality(Members(c, id))]

Visible(c, key) == {id \in c.ids : MayBeSeen(c, id, key)}

LEMMA RowsAreFinite ==
    ASSUME NEW c, IsCensus(c), NEW T \in SUBSET DOMAIN c.who
    PROVE  IsFiniteSet(T) /\ Cardinality(T) \in Nat /\ Cardinality(T) <= Everyone /\ T \subseteq Nat
<1>1. IsFiniteSet(DOMAIN c.who) /\ Cardinality(DOMAIN c.who) <= Everyone /\ DOMAIN c.who \subseteq Nat
  BY DEF IsCensus
<1>2. IsFiniteSet(T) /\ Cardinality(T) <= Cardinality(DOMAIN c.who)
  BY <1>1, FS_Subset
<1>3. Cardinality(T) \in Nat /\ Cardinality(DOMAIN c.who) \in Nat
  BY <1>1, <1>2, FS_CardinalityType
<1> QED
  BY <1>1, <1>2, <1>3, PeopleBounds

LEMMA MembersAreRows ==
    ASSUME NEW c, IsCensus(c), NEW id
    PROVE  /\ Members(c, id) \in SUBSET DOMAIN c.who
           /\ Scored(Members(c, id), c.time)
           /\ Cardinality(Members(c, id)) \in Nat /\ Cardinality(Members(c, id)) <= Everyone
<1>1. Members(c, id) \in SUBSET DOMAIN c.who
  BY DEF Members
<1>2. IsFiniteSet(Members(c, id)) /\ Members(c, id) \subseteq Nat
      /\ Cardinality(Members(c, id)) \in Nat /\ Cardinality(Members(c, id)) <= Everyone
  BY <1>1, RowsAreFinite
<1>3. \A r \in Members(c, id) : c.time[r] \in Nat
  BY <1>1 DEF IsCensus
<1> QED
  BY <1>1, <1>2, <1>3 DEF Scored

LEMMA IdsAreScored ==
    ASSUME NEW c, IsCensus(c), NEW T \in SUBSET c.ids
    PROVE  /\ IsFiniteSet(T) /\ Cardinality(T) \in Nat /\ Cardinality(T) <= Everyone
           /\ T \subseteq Nat /\ Scored(T, SizeOf(c)) /\ Scored(T, c.score)
<1>1. IsFiniteSet(c.ids) /\ Cardinality(c.ids) <= Everyone /\ T \subseteq Nat
      /\ \A id \in T : c.score[id] \in Nat
  BY DEF IsCensus
<1>2. IsFiniteSet(T) /\ Cardinality(T) <= Cardinality(c.ids)
  BY <1>1, FS_Subset
<1>3. Cardinality(T) \in Nat /\ Cardinality(c.ids) \in Nat
  BY <1>1, <1>2, FS_CardinalityType
<1>4. \A id \in T : SizeOf(c)[id] \in Nat
  <2> SUFFICES ASSUME NEW id \in T PROVE SizeOf(c)[id] \in Nat
    OBVIOUS
  <2>1. Cardinality(Members(c, id)) \in Nat
    BY MembersAreRows
  <2> QED
    BY <2>1 DEF SizeOf
<1>5. Cardinality(T) <= Everyone
  BY <1>1, <1>2, <1>3, PeopleBounds
<1> QED
  BY <1>1, <1>2, <1>3, <1>4, <1>5 DEF Scored

(* A page of everyone is the whole list, two pages make it.                *)
LEMMA RankedPages ==
    ASSUME NEW S, NEW score, Scored(S, score), Cardinality(S) <= Everyone, NEW n \in Nat
    PROVE  /\ Page(Ranked(S, score), 0, Everyone) = Ranked(S, score)
           /\ Page(Ranked(S, score), 0, n) \o Page(Ranked(S, score), n, Everyone) = Ranked(S, score)
<1>1. Ranked(S, score) \in Seq(S) /\ Len(Ranked(S, score)) = Cardinality(S)
  BY RankedList
<1> QED
  BY <1>1, PageOf

LEMMA IdentitiesListed ==
    ASSUME NEW c, IsCensus(c), NEW key, NEW n \in Nat
    PROVE  /\ ListIdentities(c, 0, Everyone, key) = Ranked(Visible(c, key), SizeOf(c))
           /\ ListIdentities(c, 0, n, key) \o ListIdentities(c, n, Everyone, key)
                 = ListIdentities(c, 0, Everyone, key)
           /\ ToSet(ListIdentities(c, 0, Everyone, key)) = Visible(c, key)
<1>1. Visible(c, key) \in SUBSET c.ids
  BY DEF Visible
<1>2. Scored(Visible(c, key), SizeOf(c)) /\ Cardinality(Visible(c, key)) <= Everyone
  BY <1>1, IdsAreScored
<1>3. \A i, l : ListIdentities(c, i, l, key) = Page(Ranked(Visible(c, key), SizeOf(c)), i, l)
  BY DEF ListIdentities, Visible, SizeOf
<1>4. /\ Page(Ranked(Visible(c, key), SizeOf(c)), 0, Everyone) = Ranked(Visible(c, key), SizeOf(c))
      /\ Page(Ranked(Visible(c, key), SizeOf(c)), 0, n) \o Page(Ranked(Visible(c, key), SizeOf(c)), n, Everyone)
            = Ranked(Visible(c, key), SizeOf(c))
  BY <1>2, RankedPages
<1>5. ToSet(Ranked(Visible(c, key), SizeOf(c))) = Visible(c, key)
  BY <1>2, RankedSet
<1> QED
  BY <1>3, <1>4, <1>5

LEMMA FacesListed ==
    ASSUME NEW c, IsCensus(c), NEW id, NEW key, NEW n \in Nat
    PROVE  /\ MayBeSeen(c, id, key) =>
                 /\ IdentityFaces(c, id, 0, Everyone, key) = Ranked(Members(c, id), c.time)
                 /\ Len(IdentityFaces(c, id, 0, Everyone, key)) = Cardinality(Members(c, id))
           /\ ~ MayBeSeen(c, id, key) => IdentityFaces(c, id, 0, Everyone, key) = <<>>
           /\ IdentityFaces(c, id, 0, n, key) \o IdentityFaces(c, id, n, Everyone, key)
                 = IdentityFaces(c, id, 0, Everyone, key)
<1>1. Scored(Members(c, id), c.time) /\ Cardinality(Members(c, id)) <= Everyone
  BY MembersAreRows
<1>2. /\ Page(Ranked(Members(c, id), c.time), 0, Everyone) = Ranked(Members(c, id), c.time)
      /\ Page(Ranked(Members(c, id), c.time), 0, n) \o Page(Ranked(Members(c, id), c.time), n, Everyone)
            = Ranked(Members(c, id), c.time)
  BY <1>1, RankedPages
<1>3. Len(Ranked(Members(c, id), c.time)) = Cardinality(Members(c, id))
  BY <1>1, RankedList
<1>4. CASE MayBeSeen(c, id, key)
  <2>1. \A i, l : IdentityFaces(c, id, i, l, key) = Page(Ranked(Members(c, id), c.time), i, l)
    BY <1>4 DEF IdentityFaces
  <2> QED
    BY <1>2, <1>3, <1>4, <2>1
<1>5. CASE ~ MayBeSeen(c, id, key)
  <2>1. \A i, l : IdentityFaces(c, id, i, l, key) = <<>>
    BY <1>5 DEF IdentityFaces
  <2>2. <<>> \in Seq({}) /\ <<>> \o <<>> = <<>>
    BY EmptySeq, ConcatEmptySeq
  <2> QED
    BY <1>5, <2>1, <2>2
<1> QED
  BY <1>4, <1>5

LEMMA PeopleFound ==
    ASSUME NEW c, IsCensus(c), NEW key, NEW k \in Nat, NEW floor \in Nat
    PROVE  /\ ToSet(SearchIdentities(c, k, floor, key)) \subseteq Visible(c, key)
           /\ BestPeople(c, k, floor, key)
<1> DEFINE all   == {id \in c.ids : MayBeSeen(c, id, key) /\ c.score[id] >= floor}
           found == ToSet(SearchIdentities(c, k, floor, key))
<1>1. all \in SUBSET c.ids /\ Visible(c, key) \in SUBSET c.ids /\ all \subseteq Visible(c, key)
  BY DEF Visible
<1>2. Scored(all, c.score) /\ Scored(Visible(c, key), c.score)
  BY <1>1, IdsAreScored
<1>3. Kept(Visible(c, key), floor, c.score) = all
  BY DEF Kept, Visible
<1>4. SearchIdentities(c, k, floor, key) = TopK(Visible(c, key), k, floor, c.score)
  BY DEF SearchIdentities, Visible
<1>5. TopK(Visible(c, key), k, floor, c.score)
         = Ranked(Best(Kept(Visible(c, key), floor, c.score), c.score, k), c.score)
  BY <1>2, TopKIsFirst
<1> HIDE DEF all
<1>6. SearchIdentities(c, k, floor, key) = Ranked(Best(all, c.score, k), c.score)
  BY <1>3, <1>4, <1>5
<1>7. /\ Best(all, c.score, k) \subseteq all
      /\ Cardinality(Best(all, c.score, k)) = (IF k < Cardinality(all) THEN k ELSE Cardinality(all))
      /\ \A b \in Best(all, c.score, k), q \in all \ Best(all, c.score, k) : Before(c.score, b, q)
  BY <1>2, BestIsFull
<1>8. Scored(Best(all, c.score, k), c.score)
  BY <1>2, <1>7, SubsetIsScored
<1>9. found = Best(all, c.score, k)
  BY <1>6, <1>8, RankedSet
<1>10. Cardinality(all) \in Nat /\ \A a \in all : c.score[a] \in Nat
  BY <1>2, FS_CardinalityType DEF Scored
<1> HIDE DEF found
<1>11. found \subseteq all
  BY <1>7, <1>9
<1>12. Cardinality(found) = IF Cardinality(all) < k THEN Cardinality(all) ELSE k
  BY <1>7, <1>9, <1>10
<1>13. \A a \in found, b \in all \ found : c.score[a] >= c.score[b]
  <2> SUFFICES ASSUME NEW a \in found, NEW b \in all \ found PROVE c.score[a] >= c.score[b]
    OBVIOUS
  <2>1. Before(c.score, a, b) /\ c.score[a] \in Nat /\ c.score[b] \in Nat
    BY <1>7, <1>9, <1>10, <1>11
  <2> QED
    BY <2>1 DEF Before
<1>14. BestPeople(c, k, floor, key)
  BY <1>11, <1>12, <1>13 DEF BestPeople, found, all
<1> QED
  BY <1>1, <1>11, <1>14 DEF found

-----------------------------------------------------------------------------
(* Who is seen with whom *)

Both(c, a, b) == Photos(c, a) \cap Photos(c, b)

Met(c, id, key) == {o \in c.ids \ {id} : MayBeSeen(c, o, key) /\ Both(c, id, o) # {}}

Count(c, id, o) == [id |-> o, shared |-> Cardinality(Both(c, id, o))]

LEMMA BothAreFew ==
    ASSUME NEW c, IsCensus(c), NEW a, NEW b
    PROVE  /\ IsFiniteSet(Both(c, a, b)) /\ Both(c, a, b) \subseteq Nat
           /\ Cardinality(Both(c, a, b)) \in Nat /\ Cardinality(Both(c, a, b)) <= Everyone
           /\ Both(c, a, b) = Both(c, b, a)
<1> DEFINE f == [r \in Members(c, a) |-> c.photo[r]]
<1>1. /\ Members(c, a) \in SUBSET DOMAIN c.who /\ IsFiniteSet(Members(c, a))
      /\ Cardinality(Members(c, a)) \in Nat /\ Cardinality(Members(c, a)) <= Everyone
  BY MembersAreRows DEF Scored
<1>2. f \in Surjection(Members(c, a), Photos(c, a))
  BY DEF Surjection, Photos
<1>3. IsFiniteSet(Photos(c, a)) /\ Cardinality(Photos(c, a)) <= Cardinality(Members(c, a))
  <2> HIDE DEF f
  <2> QED
    BY <1>1, <1>2, FS_Surjection
<1>4. Both(c, a, b) \in SUBSET Photos(c, a)
  BY DEF Both
<1>5. IsFiniteSet(Both(c, a, b)) /\ Cardinality(Both(c, a, b)) <= Cardinality(Photos(c, a))
  BY <1>3, <1>4, FS_Subset
<1>6. Cardinality(Both(c, a, b)) \in Nat /\ Cardinality(Photos(c, a)) \in Nat
  BY <1>3, <1>5, FS_CardinalityType
<1>7. Both(c, a, b) \subseteq Nat
  <2>1. \A r \in Members(c, a) : c.photo[r] \in Nat
    BY <1>1 DEF IsCensus
  <2> QED
    BY <2>1 DEF Both, Photos
<1>8. Cardinality(Both(c, a, b)) <= Everyone
  BY <1>1, <1>3, <1>5, <1>6, PeopleBounds
<1>9. Both(c, a, b) = Both(c, b, a)
  BY DEF Both
<1> QED
  BY <1>5, <1>6, <1>7, <1>8, <1>9

(* A photo a face is in is one of the photos of its identity.              *)
LEMMA PhotosAre ==
    ASSUME NEW c, NEW id, NEW i
    PROVE  i \in Photos(c, id) <=> \E r \in InPhoto(c, i) : c.who[r] = id
BY DEF Photos, InPhoto, Members

LEMMA OthersAre ==
    ASSUME NEW c, NEW id, NEW key
    PROVE  Others(c, id, key) = {p \in (c.ids \ {id}) \X Photos(c, id) :
                                    p[2] \in Photos(c, p[1]) /\ MayBeSeen(c, p[1], key)}
<1>1. ASSUME NEW p \in (c.ids \ {id}) \X Photos(c, id)
      PROVE  ((\E o \in InPhoto(c, p[2]) : c.who[o] = p[1]) /\ (key \/ p[1] \notin c.hidden))
                <=> p[2] \in Photos(c, p[1]) /\ MayBeSeen(c, p[1], key)
  BY PhotosAre DEF MayBeSeen
<1> QED
  BY <1>1 DEF Others

LEMMA PairsOf ==
    ASSUME NEW c, IsCensus(c), NEW id, NEW key, NEW o
    PROVE  /\ o \in {p[1] : p \in Others(c, id, key)} <=> o \in Met(c, id, key)
           /\ o \in Met(c, id, key) =>
                 Cardinality({p \in Others(c, id, key) : p[1] = o}) = Cardinality(Both(c, id, o))
<1> DEFINE P == {p \in Others(c, id, key) : p[1] = o}
           B == Both(c, id, o)
           f == [i \in B |-> <<o, i>>]
<1>1. \A p \in Others(c, id, key) :
         /\ p[1] \in c.ids \ {id} /\ p[2] \in Both(c, id, p[1]) /\ MayBeSeen(c, p[1], key)
         /\ p = <<p[1], p[2]>>
  BY OthersAre DEF Both
<1>2. ASSUME NEW i \in B, o \in c.ids \ {id}, MayBeSeen(c, o, key) PROVE <<o, i>> \in Others(c, id, key)
  BY <1>2, OthersAre DEF Both
<1>3. o \in {p[1] : p \in Others(c, id, key)} => o \in Met(c, id, key)
  BY <1>1 DEF Met
<1>4. ASSUME o \in Met(c, id, key) PROVE o \in {p[1] : p \in Others(c, id, key)}
  <2>1. o \in c.ids \ {id} /\ MayBeSeen(c, o, key) /\ B # {}
    BY <1>4 DEF Met
  <2>2. PICK i \in B : TRUE
    BY <2>1
  <2>3. <<o, i>> \in Others(c, id, key) /\ <<o, i>>[1] = o
    BY <1>2, <2>1, <2>2
  <2> QED
    BY <2>3
<1>5. ASSUME o \in Met(c, id, key) PROVE Cardinality(P) = Cardinality(B)
  <2>1. o \in c.ids \ {id} /\ MayBeSeen(c, o, key)
    BY <1>5 DEF Met
  <2>2. \A i \in B : <<o, i>> \in P
    BY <1>2, <2>1
  <2>3. f \in [B -> P]
    BY <2>2
  <2>4. \A p \in P : p[2] \in B /\ f[p[2]] = p
    BY <1>1
  <2>5. \A i, j \in B : f[i] = f[j] => i = j
    OBVIOUS
  <2> HIDE DEF f, P
  <2>6. f \in Bijection(B, P)
    BY <2>3, <2>4, <2>5 DEF Bijection, Injection, Surjection, IsInjective
  <2>7. IsFiniteSet(B)
    BY BothAreFew
  <2> QED
    BY <2>6, <2>7, FS_Bijection DEF ExistsBijection
<1> QED
  BY <1>3, <1>4, <1>5

(* The list of those an identity was met with holds each of them once.     *)
LEMMA CompanyListed ==
    ASSUME NEW c, IsCensus(c), NEW id, NEW key, MayBeSeen(c, id, key)
    PROVE  /\ \A i \in DOMAIN Cooccurring(c, id, Everyone, key) :
                 \E o \in Met(c, id, key) : Cooccurring(c, id, Everyone, key)[i] = Count(c, id, o)
           /\ \A o \in Met(c, id, key) :
                 \E i \in DOMAIN Cooccurring(c, id, Everyone, key) :
                    Cooccurring(c, id, Everyone, key)[i] = Count(c, id, o)
<1> DEFINE M == Met(c, id, key)
           shared == [o \in M |-> Cardinality({p \in Others(c, id, key) : p[1] = o})]
           ids == Ranked(M, shared)
           n == Cardinality(M)
           s == ByCount(shared)
<1>1. {p[1] : p \in Others(c, id, key)} = M
  BY PairsOf
<1>2. Cooccurring(c, id, Everyone, key) = Page(s, 0, Everyone)
  BY <1>1 DEF Cooccurring
<1>3. \A o \in M : shared[o] = Cardinality(Both(c, id, o)) /\ shared[o] \in Nat
  <2> SUFFICES ASSUME NEW o \in M PROVE shared[o] = Cardinality(Both(c, id, o)) /\ shared[o] \in Nat
    OBVIOUS
  <2>1. Cardinality({p \in Others(c, id, key) : p[1] = o}) = Cardinality(Both(c, id, o))
    BY PairsOf
  <2>2. Cardinality(Both(c, id, o)) \in Nat
    BY BothAreFew
  <2> QED
    BY <2>1, <2>2
<1>4. DOMAIN shared = M
  OBVIOUS
<1> HIDE DEF shared
<1>5. M \in SUBSET c.ids
  BY DEF Met
<1>6. IsFiniteSet(M) /\ M \subseteq Nat /\ n \in Nat /\ n <= Everyone
  BY <1>5, IdsAreScored
<1>7. Scored(M, shared)
  BY <1>3, <1>6 DEF Scored
<1>8. DOMAIN ids = 1 .. n /\ ids \in [1 .. n -> M]
  BY <1>7, RankedList
<1>9. \A o \in M : \E i \in 1 .. n : ids[i] = o
  BY <1>7, RankedHasAll
<1>10. s = [i \in DOMAIN ids |-> [id |-> ids[i], shared |-> shared[ids[i]]]]
  BY <1>4 DEF ByCount
<1> HIDE DEF ids, M, n, s
<1>11. DOMAIN s = 1 .. n /\ \A i \in 1 .. n : s[i] = Count(c, id, ids[i])
  BY <1>3, <1>8, <1>10 DEF Count
<1>12. Page(s, 0, Everyone) = s
  <2> DEFINE T == {Count(c, id, o) : o \in M}
  <2>1. \A i \in 1 .. n : s[i] \in T
    BY <1>8, <1>11
  <2>2. s = [i \in 1 .. n |-> s[i]]
    BY <1>8, <1>10
  <2> HIDE DEF T
  <2>3. s \in [1 .. n -> T]
    BY <2>1, <2>2
  <2>4. s \in Seq(T)
    BY <1>6, <2>3, SeqDef
  <2>5. Len(s) \in Nat /\ DOMAIN s = 1 .. Len(s)
    BY <2>4, LenProperties
  <2>6. Len(s) = n
    BY <1>6, <1>11, <2>5
  <2> QED
    BY <1>6, <2>4, <2>6, PageOf
<1>13. Cooccurring(c, id, Everyone, key) = s
  BY <1>2, <1>12
<1>14. \A i \in DOMAIN s : \E o \in M : s[i] = Count(c, id, o)
  BY <1>8, <1>11
<1>15. \A o \in M : \E i \in DOMAIN s : s[i] = Count(c, id, o)
  BY <1>9, <1>11
<1>16. M = Met(c, id, key)
  BY DEF M
<1> QED
  BY <1>13, <1>14, <1>15, <1>16

(* Shared photos: as many as the two are both in, each with faces of both. *)
LEMMA SharedListed ==
    ASSUME NEW c, IsCensus(c), NEW id, NEW o, NEW key, id # o,
           MayBeSeen(c, id, key), MayBeSeen(c, o, key)
    PROVE  /\ SharedImages(c, id, o, 0, Everyone, key).total = Cardinality(Both(c, id, o))
           /\ Len(SharedImages(c, id, o, 0, Everyone, key).images) = Cardinality(Both(c, id, o))
           /\ \A k \in DOMAIN SharedImages(c, id, o, 0, Everyone, key).images :
                 /\ SharedImages(c, id, o, 0, Everyone, key).images[k].faces # {}
                 /\ SharedImages(c, id, o, 0, Everyone, key).images[k].others # {}
<1> DEFINE B == Both(c, id, o)
           newest == [i \in B |-> i]
           ranked == Ranked(B, newest)
           n == Cardinality(B)
           faces(i, who) == {r \in InPhoto(c, i) : c.who[r] = who}
           s == [k \in DOMAIN ranked |-> [photo  |-> ranked[k],
                                          faces  |-> faces(ranked[k], id),
                                          others |-> faces(ranked[k], o)]]
<1>1. {i \in Photos(c, id) : \E r \in InPhoto(c, i) : c.who[r] = o} = B
  BY PhotosAre DEF Both
<1>2. SharedImages(c, id, o, 0, Everyone, key) = [total |-> n, images |-> Page(s, 0, Everyone)]
  BY <1>1 DEF SharedImages
<1>3. IsFiniteSet(B) /\ B \subseteq Nat /\ n \in Nat /\ n <= Everyone
  BY BothAreFew
<1>4. Scored(B, newest)
  BY <1>3 DEF Scored
<1> HIDE DEF newest
<1>5. DOMAIN ranked = 1 .. n /\ ranked \in [1 .. n -> B]
  BY <1>4, RankedList
<1> HIDE DEF ranked, n
<1>6. \A i \in B : faces(i, id) # {} /\ faces(i, o) # {}
  <2>1. \A i \in B : i \in Photos(c, id) /\ i \in Photos(c, o)
    BY DEF Both
  <2> QED
    BY <2>1, PhotosAre
<1> HIDE DEF B, faces
<1>7. DOMAIN s = 1 .. n /\ \A k \in 1 .. n : s[k].faces # {} /\ s[k].others # {}
  BY <1>5, <1>6
<1>8. s = [k \in 1 .. n |-> s[k]]
  BY <1>5
<1> HIDE DEF s
<1>9. Page(s, 0, Everyone) = s /\ Len(s) = n
  <2> DEFINE T == {s[k] : k \in 1 .. n}
  <2>1. \A k \in 1 .. n : s[k] \in T
    OBVIOUS
  <2> HIDE DEF T
  <2>2. s \in [1 .. n -> T]
    BY <1>8, <2>1
  <2>3. s \in Seq(T)
    BY <1>3, <2>2, SeqDef
  <2>4. Len(s) \in Nat /\ DOMAIN s = 1 .. Len(s)
    BY <2>3, LenProperties
  <2>5. Len(s) = n
    BY <1>3, <1>7, <2>4
  <2> QED
    BY <1>3, <2>3, <2>5, PageOf
<1>10. SharedImages(c, id, o, 0, Everyone, key) = [total |-> n, images |-> s]
  BY <1>2, <1>9
<1> QED
  BY <1>7, <1>9, <1>10 DEF n, B

(* A timeline adds up to the faces.                                        *)
LEMMA TimelineAddsUp ==
    ASSUME NEW c, IsCensus(c), NEW id, NEW key, MayBeSeen(c, id, key)
    PROVE  MapThenSumSet(LAMBDA b : b.faces, Timeline(c, id, Bucket, key)) = Cardinality(Members(c, id))
<1> DEFINE M == Members(c, id)
           start(r) == (c.time[r] \div Bucket) * Bucket
           entry(s) == [start |-> s, faces |-> Cardinality({r \in M : start(r) = s})]
           T == Timeline(c, id, Bucket, key)
           part == [b \in T |-> {r \in M : start(r) = b.start}]
           first == [r \in M |-> entry(start(r))]
<1>1. T = {entry(s) : s \in {start(r) : r \in M}}
  BY PeopleBounds DEF Timeline
<1>2. T = {entry(start(r)) : r \in M}
  BY <1>1
<1>3. IsFiniteSet(M)
  BY MembersAreRows DEF Scored
<1> HIDE DEF T, M, start
<1>4. first \in Surjection(M, T)
  BY <1>2 DEF Surjection
<1>5. IsFiniteSet(T)
  <2> HIDE DEF first
  <2> QED
    BY <1>3, <1>4, FS_Surjection
<1>6. \A b \in T : b = entry(b.start) /\ part[b] \subseteq M
  <2> SUFFICES ASSUME NEW b \in T PROVE b = entry(b.start) /\ part[b] \subseteq M
    OBVIOUS
  <2>1. PICK r \in M : b = entry(start(r))
    BY <1>2
  <2>2. b.start = start(r)
    BY <2>1
  <2>3. b = entry(b.start)
    BY <2>1, <2>2
  <2>4. part[b] \subseteq M
    OBVIOUS
  <2> QED
    BY <2>3, <2>4
<1>7. \A b \in T : b.faces = Cardinality(part[b])
  BY <1>6
<1>8. \A b \in T : IsFiniteSet(part[b])
  <2> SUFFICES ASSUME NEW b \in T PROVE IsFiniteSet(part[b])
    OBVIOUS
  <2>1. part[b] \in SUBSET M
    BY <1>6
  <2> HIDE DEF part
  <2> QED
    BY <1>3, <2>1, FS_Subset
<1>9. \A x, y \in T : x # y => part[x] \cap part[y] = {}
  <2> SUFFICES ASSUME NEW x \in T, NEW y \in T, NEW r \in part[x] \cap part[y] PROVE x = y
    OBVIOUS
  <2>1. x.start = start(r) /\ y.start = start(r)
    OBVIOUS
  <2>2. x = entry(x.start) /\ y = entry(y.start)
    BY <1>6
  <2> HIDE DEF entry
  <2> QED
    BY <2>1, <2>2
<1>10. UnionOf(part, T) = M
  <2>1. \A r \in M : \E b \in T : r \in part[b]
    <3> SUFFICES ASSUME NEW r \in M PROVE \E b \in T : r \in part[b]
      OBVIOUS
    <3>1. entry(start(r)) \in T /\ entry(start(r)).start = start(r)
      BY <1>2
    <3> HIDE DEF entry
    <3> QED
      BY <3>1
  <2>2. \A b \in T : part[b] \subseteq M
    BY <1>6
  <2> HIDE DEF part
  <2> QED
    BY <2>1, <2>2 DEF UnionOf
<1> HIDE DEF part
<1>11. MapThenSumSet(LAMBDA b : b.faces, T) = Cardinality(UnionOf(part, T))
  BY <1>5, <1>7, <1>8, <1>9, SumOfParts
<1> QED
  BY <1>10, <1>11 DEF T, M

-----------------------------------------------------------------------------
(* The answers about people *)

(* Whom an identity was met with, seen from the other side.                *)
LEMMA MeetingIsMutual ==
    ASSUME NEW c, IsCensus(c), NEW key, NEW id \in c.ids, MayBeSeen(c, id, key),
           NEW o \in Met(c, id, key)
    PROVE  /\ o \in c.ids /\ o # id /\ MayBeSeen(c, o, key) /\ id \in Met(c, o, key)
           /\ [id |-> id, shared |-> Count(c, id, o).shared] \in ToSet(Cooccurring(c, o, Everyone, key))
<1>1. o \in c.ids /\ o # id /\ MayBeSeen(c, o, key) /\ Both(c, id, o) # {}
  BY DEF Met
<1>2. Both(c, o, id) = Both(c, id, o)
  BY BothAreFew
<1>3. id \in Met(c, o, key)
  BY <1>1, <1>2 DEF Met
<1>4. PICK i \in DOMAIN Cooccurring(c, o, Everyone, key) :
         Cooccurring(c, o, Everyone, key)[i] = Count(c, o, id)
  BY <1>1, <1>3, CompanyListed
<1>5. Count(c, o, id) = [id |-> id, shared |-> Count(c, id, o).shared]
  BY <1>2 DEF Count
<1> QED
  BY <1>1, <1>3, <1>4, <1>5 DEF ToSet

LEMMA ViewsAgree ==
    ASSUME NEW c, IsCensus(c), NEW key
    PROVE  AnswersAgree(c, key)
<1> SUFFICES ASSUME NEW id \in {i \in c.ids : MayBeSeen(c, i, key)}
    PROVE  LET met   == Cooccurring(c, id, Everyone, key)
               times == Timeline(c, id, Bucket, key)
           IN  /\ MapThenSumSet(LAMBDA b : b.faces, times) = Len(IdentityFaces(c, id, 0, Everyone, key))
               /\ \A i \in DOMAIN met :
                     LET back   == Cooccurring(c, met[i].id, Everyone, key)
                         shared == SharedImages(c, id, met[i].id, 0, Everyone, key)
                     IN  /\ [id |-> id, shared |-> met[i].shared] \in ToSet(back)
                         /\ shared.total = met[i].shared /\ Len(shared.images) = shared.total
                         /\ \A k \in DOMAIN shared.images :
                               shared.images[k].faces # {} /\ shared.images[k].others # {}
               /\ \A o \in c.ids \ {id} :
                     SharedImages(c, id, o, 0, Everyone, key).total > 0 => \E i \in DOMAIN met : met[i].id = o
  BY DEF AnswersAgree
<1> DEFINE met == Cooccurring(c, id, Everyone, key)
           with(o) == SharedImages(c, id, o, 0, Everyone, key)
<1>1. id \in c.ids /\ MayBeSeen(c, id, key)
  OBVIOUS
<1>2. MapThenSumSet(LAMBDA b : b.faces, Timeline(c, id, Bucket, key))
         = Len(IdentityFaces(c, id, 0, Everyone, key))
  <2>1. Len(IdentityFaces(c, id, 0, Everyone, key)) = Cardinality(Members(c, id))
    BY <1>1, FacesListed, PeopleBounds
  <2>2. MapThenSumSet(LAMBDA b : b.faces, Timeline(c, id, Bucket, key)) = Cardinality(Members(c, id))
    BY <1>1, TimelineAddsUp
  <2> QED
    BY <2>1, <2>2
<1>3. /\ \A i \in DOMAIN met : \E o \in Met(c, id, key) : met[i] = Count(c, id, o)
      /\ \A o \in Met(c, id, key) : \E i \in DOMAIN met : met[i] = Count(c, id, o)
  BY <1>1, CompanyListed
<1> HIDE DEF met
<1>4. ASSUME NEW i \in DOMAIN met
      PROVE  /\ [id |-> id, shared |-> met[i].shared] \in ToSet(Cooccurring(c, met[i].id, Everyone, key))
             /\ with(met[i].id).total = met[i].shared
             /\ Len(with(met[i].id).images) = with(met[i].id).total
             /\ \A k \in DOMAIN with(met[i].id).images :
                   with(met[i].id).images[k].faces # {} /\ with(met[i].id).images[k].others # {}
  <2>1. PICK o \in Met(c, id, key) : met[i] = Count(c, id, o)
    BY <1>3
  <2>2. met[i].id = o /\ met[i].shared = Cardinality(Both(c, id, o))
        /\ met[i].shared = Count(c, id, o).shared
    BY <2>1 DEF Count
  <2>3. /\ o \in c.ids /\ o # id /\ MayBeSeen(c, o, key)
        /\ [id |-> id, shared |-> Count(c, id, o).shared] \in ToSet(Cooccurring(c, o, Everyone, key))
    BY <1>1, MeetingIsMutual
  <2>4. /\ with(o).total = Cardinality(Both(c, id, o))
        /\ Len(with(o).images) = Cardinality(Both(c, id, o))
        /\ \A k \in DOMAIN with(o).images : with(o).images[k].faces # {} /\ with(o).images[k].others # {}
    BY <1>1, <2>3, SharedListed
  <2> HIDE DEF with
  <2> QED
    BY <2>2, <2>3, <2>4
<1>5. ASSUME NEW o \in c.ids \ {id}, with(o).total > 0
      PROVE  \E i \in DOMAIN met : met[i].id = o
  <2>1. MayBeSeen(c, o, key)
    <3> SUFFICES ASSUME ~ MayBeSeen(c, o, key) PROVE FALSE
      OBVIOUS
    <3>1. with(o) = [total |-> 0, images |-> <<>>]
      BY DEF SharedImages
    <3> QED
      BY <1>5, <3>1
  <2>2. with(o).total = Cardinality(Both(c, id, o))
    BY <1>1, <2>1, SharedListed
  <2>3. Both(c, id, o) # {}
    BY <1>5, <2>2, FS_EmptySet
  <2>4. o \in Met(c, id, key)
    BY <2>1, <2>3 DEF Met
  <2>5. PICK i \in DOMAIN met : met[i] = Count(c, id, o)
    BY <1>3, <2>4
  <2> QED
    BY <2>5 DEF Count
<1> QED
  BY <1>2, <1>4, <1>5 DEF met, with

(* Without the key, key being FALSE: company that is not hidden, and       *)
(* nothing of a hidden identity.                                           *)
LEMMA CompanyIsSeen ==
    ASSUME NEW c, IsCensus(c), NEW key, ~ key, NEW id, NEW i \in DOMAIN Cooccurring(c, id, Everyone, key)
    PROVE  Cooccurring(c, id, Everyone, key)[i].id \notin c.hidden
<1>1. CASE MayBeSeen(c, id, key)
  <2>1. PICK o \in Met(c, id, key) : Cooccurring(c, id, Everyone, key)[i] = Count(c, id, o)
    BY <1>1, CompanyListed
  <2>2. o \notin c.hidden
    BY DEF Met, MayBeSeen
  <2> QED
    BY <2>1, <2>2 DEF Count
<1>2. CASE ~ MayBeSeen(c, id, key)
  <2>1. Cooccurring(c, id, Everyone, key) = <<>>
    BY <1>2 DEF Cooccurring
  <2> QED
    BY <2>1
<1> QED
  BY <1>1, <1>2

LEMMA HiddenAnswersNothing ==
    ASSUME NEW c, NEW key, NEW id, ~ MayBeSeen(c, id, key), NEW o
    PROVE  /\ IdentityFaces(c, id, 0, Everyone, key) = <<>>
           /\ Cooccurring(c, id, Everyone, key) = <<>>
           /\ Timeline(c, id, Bucket, key) = {}
           /\ SharedImages(c, id, o, 0, Everyone, key).total = 0
           /\ SharedImages(c, o, id, 0, Everyone, key).total = 0
<1>1. IdentityFaces(c, id, 0, Everyone, key) = <<>> /\ Timeline(c, id, Bucket, key) = {}
  BY DEF IdentityFaces, Timeline
<1>2. Cooccurring(c, id, Everyone, key) = <<>>
  BY DEF Cooccurring
<1>3. /\ SharedImages(c, id, o, 0, Everyone, key) = [total |-> 0, images |-> <<>>]
      /\ SharedImages(c, o, id, 0, Everyone, key) = [total |-> 0, images |-> <<>>]
  BY DEF SharedImages
<1> QED
  BY <1>1, <1>2, <1>3

LEMMA HiddenAreNowhere ==
    ASSUME NEW c, IsCensus(c)
    PROVE  NothingHidden(c)
<1> DEFINE key == FALSE
<1>0. key = FALSE
  OBVIOUS
<1> HIDE DEF key
<1>1. \A id \in Visible(c, key) : id \notin c.hidden
  BY <1>0 DEF Visible, MayBeSeen
<1>2. ToSet(ListIdentities(c, 0, Everyone, key)) = Visible(c, key)
  BY IdentitiesListed, PeopleBounds
<1>3. ToSet(SearchIdentities(c, Everyone, 0, key)) \subseteq Visible(c, key)
  BY PeopleFound, PeopleBounds
<1>4. \A id \in c.ids : \A i \in DOMAIN Cooccurring(c, id, Everyone, key) :
         Cooccurring(c, id, Everyone, key)[i].id \notin c.hidden
  BY <1>0, CompanyIsSeen
<1>5. ASSUME NEW id \in c.ids, id \in c.hidden
      PROVE  /\ IdentityFaces(c, id, 0, Everyone, key) = <<>>
             /\ Cooccurring(c, id, Everyone, key) = <<>>
             /\ Timeline(c, id, Bucket, key) = {}
             /\ \A o \in c.ids : SharedImages(c, id, o, 0, Everyone, key).total = 0
                                 /\ SharedImages(c, o, id, 0, Everyone, key).total = 0
  <2>1. ~ MayBeSeen(c, id, key)
    BY <1>0, <1>5 DEF MayBeSeen
  <2> QED
    BY <2>1, HiddenAnswersNothing
<1>6. \A id \in ToSet(ListIdentities(c, 0, Everyone, key)) : id \notin c.hidden
  BY <1>1, <1>2
<1>7. \A id \in ToSet(SearchIdentities(c, Everyone, 0, key)) : id \notin c.hidden
  BY <1>1, <1>3
<1>8. NothingHidden(c) <=>
         /\ \A id \in ToSet(ListIdentities(c, 0, Everyone, key)) : id \notin c.hidden
         /\ \A id \in ToSet(SearchIdentities(c, Everyone, 0, key)) : id \notin c.hidden
         /\ \A id \in c.ids :
               /\ \A e \in ToSet(Cooccurring(c, id, Everyone, key)) : e.id \notin c.hidden
               /\ id \in c.hidden =>
                     /\ IdentityFaces(c, id, 0, Everyone, key) = <<>>
                     /\ Cooccurring(c, id, Everyone, key) = <<>>
                     /\ Timeline(c, id, Bucket, key) = {}
                     /\ \A o \in c.ids : SharedImages(c, id, o, 0, Everyone, key).total = 0
                                         /\ SharedImages(c, o, id, 0, Everyone, key).total = 0
  BY DEF NothingHidden, ToSet, key
<1>9. \A id \in c.ids : \A e \in ToSet(Cooccurring(c, id, Everyone, key)) : e.id \notin c.hidden
  BY <1>4 DEF ToSet
<1> QED
  BY <1>5, <1>6, <1>7, <1>8, <1>9

LEMMA PeopleAnswersRight ==
    ASSUME NEW c, IsCensus(c)
    PROVE  PeopleAreRight(c)
<1>1. NothingHidden(c)
  BY HiddenAreNowhere
<1>2. ASSUME NEW key \in BOOLEAN PROVE AnswersAgree(c, key)
  BY ViewsAgree
<1>3. ASSUME NEW key \in BOOLEAN, NEW n \in Limits
      PROVE  Pages(LAMBDA o, l : ListIdentities(c, o, l, key), n)
  <2>1. n \in Nat
    BY PeopleBounds
  <2>2. ListIdentities(c, 0, n, key) \o ListIdentities(c, n, Everyone, key)
           = ListIdentities(c, 0, Everyone, key)
    BY <2>1, IdentitiesListed
  <2> QED
    BY <2>2 DEF Pages
<1>4. ASSUME NEW key \in BOOLEAN, NEW n \in Limits, NEW id \in c.ids
      PROVE  Pages(LAMBDA o, l : IdentityFaces(c, id, o, l, key), n)
  <2>1. n \in Nat
    BY PeopleBounds
  <2>2. IdentityFaces(c, id, 0, n, key) \o IdentityFaces(c, id, n, Everyone, key)
           = IdentityFaces(c, id, 0, Everyone, key)
    BY <2>1, FacesListed
  <2> QED
    BY <2>2 DEF Pages
<1>5. ASSUME NEW key \in BOOLEAN, NEW n \in Limits, NEW floor \in Limits
      PROVE  BestPeople(c, n, floor, key)
  <2>1. n \in Nat /\ floor \in Nat
    BY PeopleBounds
  <2> QED
    BY <2>1, PeopleFound
<1> QED
  BY <1>1, <1>2, <1>3, <1>4, <1>5 DEF PeopleAreRight

(* Theorem.  Whatever the census, the views of people agree with each      *)
(* other and keep the hidden hidden.                                       *)
THEOREM PeopleCorrect == QueriesSpec => []PeopleViewsAgree
<1> DEFINE Right == input.of = "people" => input.census \in Censuses
<1>1. QueriesInit => Right
  BY DEF QueriesInit, None
<1>2. Right /\ [QueriesNext]_input => Right'
  <2> SUFFICES ASSUME Right, [QueriesNext]_input PROVE Right'
    OBVIOUS
  <2>1. CASE PickSearch
    BY <2>1 DEF PickSearch
  <2>2. CASE PickPeople
    BY <2>2 DEF PickPeople
  <2>3. CASE PickGraph
    BY <2>3 DEF PickGraph
  <2>4. CASE PickUnions
    BY <2>4 DEF PickUnions
  <2>5. CASE input' = None
    BY <2>5 DEF None
  <2>6. CASE UNCHANGED input
    BY <2>6
  <2> QED
    BY <2>1, <2>2, <2>3, <2>4, <2>5, <2>6 DEF QueriesNext
<1>3. Right => PeopleViewsAgree
  BY InputsAssumption, PeopleAnswersRight DEF PeopleViewsAgree
<1> QED
  BY <1>1, <1>2, <1>3, PTL DEF QueriesSpec

(***************************************************************************)
(* Part 4.  Communities                                                    *)
(***************************************************************************)

-----------------------------------------------------------------------------
(* Sums of functions, iterates *)

SumAt(f, s, g) == IF s = {} THEN 0 ELSE f[AnyOf(s)] + g[s \ {AnyOf(s)}]

SumsOf(f) == CHOOSE g : g = [s \in SUBSET (DOMAIN f) |-> SumAt(f, s, g)]

LEMMA SumFunctionUnfolds ==
    ASSUME NEW f
    PROVE  SumFunction(f) = SumsOf(f)[DOMAIN f]
BY DEF SumFunction, SumFunctionOnSet, FoldFunctionOnSet, MapThenFoldSet, SumsOf, SumAt, AnyOf

(* A number as that many units.                                            *)
Units(f) == {p \in (DOMAIN f) \X Nat : 1 <= p[2] /\ p[2] <= f[p[1]]}

LEMMA UnitsOfOne ==
    ASSUME NEW x, NEW n \in Nat
    PROVE  IsFiniteSet({x} \X (1 .. n)) /\ Cardinality({x} \X (1 .. n)) = n
<1> DEFINE b == [i \in 1 .. n |-> <<x, i>>]
<1>1. b \in Bijection(1 .. n, {x} \X (1 .. n))
  <2>1. b \in [1 .. n -> {x} \X (1 .. n)]
    OBVIOUS
  <2>2. \A i, j \in 1 .. n : b[i] = b[j] => i = j
    OBVIOUS
  <2>3. \A p \in {x} \X (1 .. n) : p[2] \in 1 .. n /\ b[p[2]] = p
    OBVIOUS
  <2> HIDE DEF b
  <2> QED
    BY <2>1, <2>2, <2>3 DEF Bijection, Injection, Surjection, IsInjective
<1> HIDE DEF b
<1> QED
  BY <1>1, FS_CountingElements, FS_NatBijection DEF ExistsBijection

LEMMA SumIsCount ==
    ASSUME NEW D, IsFiniteSet(D), NEW f \in [D -> Nat]
    PROVE  /\ IsFiniteSet(Units(f))
           /\ SumFunction(f) = Cardinality(Units(f))
           /\ SumFunction(f) \in Nat
<1> DEFINE part == [x \in D |-> {x} \X (1 .. f[x])]
           c == [s \in SUBSET D |-> Cardinality(UnionOf(part, s))]
           g == SumsOf(f)
<1>1. \A x \in D : part[x] = {x} \X (1 .. f[x]) /\ f[x] \in Nat
  OBVIOUS
<1>2. \A x \in D : IsFiniteSet(part[x]) /\ Cardinality(part[x]) = f[x]
  BY <1>1, UnitsOfOne
<1>3. \A x, y \in D : x # y => part[x] \cap part[y] = {}
  BY <1>1
<1>4. Units(f) = UnionOf(part, D)
  <2>1. \A p \in Units(f) : p \in UnionOf(part, D)
    <3> SUFFICES ASSUME NEW p \in Units(f) PROVE p \in UnionOf(part, D)
      OBVIOUS
    <3>1. p[1] \in D /\ p[2] \in 1 .. f[p[1]] /\ p = <<p[1], p[2]>>
      BY DEF Units
    <3>2. p \in part[p[1]]
      BY <1>1, <3>1
    <3> HIDE DEF part
    <3> QED
      BY <3>1, <3>2 DEF UnionOf
  <2>2. \A p \in UnionOf(part, D) : p \in Units(f)
    <3> SUFFICES ASSUME NEW p \in UnionOf(part, D) PROVE p \in Units(f)
      OBVIOUS
    <3>1. PICK x \in D : p \in part[x]
      BY DEF UnionOf
    <3>2. p \in {x} \X (1 .. f[x])
      BY <1>1, <3>1
    <3> QED
      BY <3>2 DEF Units
  <2> QED
    BY <2>1, <2>2
<1> HIDE DEF part
<1>5. IsFiniteSet(UnionOf(part, D))
  BY <1>2, <1>3, UnionIsFinite
<1>6. ASSUME NEW s \in SUBSET D PROVE c[s] = SumAt(f, s, c)
  <2>1. CASE s = {}
    <3>1. UnionOf(part, s) = {}
      BY <2>1 DEF UnionOf
    <3> QED
      BY <2>1, <3>1, FS_EmptySet DEF SumAt
  <2>2. CASE s # {}
    <3>1. AnyOf(s) \in s
      BY <2>2 DEF AnyOf
    <3>2. s \ {AnyOf(s)} \in SUBSET D
      OBVIOUS
    <3>3. IsFiniteSet(UnionOf(part, s \ {AnyOf(s)}))
      BY <1>2, <1>3, <3>2, UnionIsFinite
    <3>4. Cardinality(UnionOf(part, s)) = Cardinality(part[AnyOf(s)]) + Cardinality(UnionOf(part, s \ {AnyOf(s)}))
      BY <1>2, <1>3, <3>1, <3>3, UnionGrows
    <3>5. f[AnyOf(s)] = Cardinality(part[AnyOf(s)])
      BY <1>2, <3>1
    <3> QED
      BY <2>2, <3>2, <3>4, <3>5 DEF SumAt
  <2> QED
    BY <2>1, <2>2
<1>7. c = [s \in SUBSET D |-> SumAt(f, s, c)]
  <2>1. c = [s \in SUBSET D |-> c[s]]
    OBVIOUS
  <2> HIDE DEF c
  <2> QED
    BY <1>6, <2>1
<1> HIDE DEF c
<1>8. g = [s \in SUBSET D |-> SumAt(f, s, g)]
  <2>1. \E h : h = [s \in SUBSET D |-> SumAt(f, s, h)]
    BY <1>7
  <2> QED
    BY <2>1 DEF SumsOf
<1> HIDE DEF g
<1> DEFINE Good == {n \in Nat : \A t \in SUBSET D : Cardinality(t) = n => g[t] = c[t]}
<1>9. 0 \in Good
  <2> SUFFICES ASSUME NEW t \in SUBSET D, Cardinality(t) = 0 PROVE g[t] = c[t]
    OBVIOUS
  <2>0. IsFiniteSet(t)
    BY FS_Subset
  <2>1. t = {}
    BY <2>0, FS_EmptySet
  <2> QED
    BY <1>6, <1>8, <2>1 DEF SumAt
<1>10. ASSUME NEW n \in Good PROVE n + 1 \in Good
  <2> SUFFICES ASSUME NEW t \in SUBSET D, Cardinality(t) = n + 1 PROVE g[t] = c[t]
    OBVIOUS
  <2>0. IsFiniteSet(t)
    BY FS_Subset
  <2>1. IsFiniteSet(t) /\ n \in Nat /\ n + 1 # 0
    BY <2>0
  <2>2. t # {}
    BY <2>1, FS_EmptySet
  <2>3. AnyOf(t) \in t
    BY <2>2 DEF AnyOf
  <2>4. Cardinality(t \ {AnyOf(t)}) = n /\ t \ {AnyOf(t)} \in SUBSET D
    BY <2>1, <2>3, OneLess
  <2>5. g[t \ {AnyOf(t)}] = c[t \ {AnyOf(t)}]
    BY <2>4
  <2>6. g[t] = SumAt(f, t, g) /\ c[t] = SumAt(f, t, c)
    BY <1>6, <1>8
  <2> QED
    BY <2>5, <2>6 DEF SumAt
<1>11. Good = Nat
  <2>1. Good \in SUBSET Nat
    OBVIOUS
  <2> HIDE DEF Good
  <2> QED
    BY <1>9, <1>10, <2>1, CountingUp
<1>12. Cardinality(D) \in Nat
  BY FS_CardinalityType
<1>13. g[D] = c[D]
  BY <1>11, <1>12
<1>14. SumFunction(f) = g[D]
  BY SumFunctionUnfolds DEF g
<1>15. SumFunction(f) = Cardinality(Units(f))
  BY <1>4, <1>13, <1>14 DEF c
<1> QED
  BY <1>4, <1>5, <1>15, FS_CardinalityType

Iterated(n, base, step, it) == it[0] = base /\ \A k \in 1 .. n : it[k] = step[it[k - 1]]

LEMMA IteratesExist ==
    ASSUME NEW n \in Nat, NEW St, NEW base \in St, NEW step \in [St -> St]
    PROVE  \E it \in [0 .. n -> St] : Iterated(n, base, step, it)
<1> DEFINE Done(m) == \E it \in [0 .. m -> St] : Iterated(m, base, step, it)
           T == {m \in Nat : Done(m)}
<1>1. 0 \in T
  <2> DEFINE it == [k \in 0 .. 0 |-> base]
  <2>1. it \in [0 .. 0 -> St] /\ it[0] = base
    OBVIOUS
  <2> HIDE DEF it
  <2>2. Iterated(0, base, step, it)
    BY <2>1 DEF Iterated
  <2> QED
    BY <2>1, <2>2
<1>2. ASSUME NEW m \in T PROVE m + 1 \in T
  <2>1. m \in Nat /\ Done(m)
    <3> HIDE DEF Done
    <3> QED
      OBVIOUS
  <2>2. PICK it \in [0 .. m -> St] : Iterated(m, base, step, it)
    BY <2>1
  <2> DEFINE new == [k \in 0 .. m + 1 |-> IF k = m + 1 THEN step[it[m]] ELSE it[k]]
  <2>3. m \in 0 .. m /\ \A k \in 0 .. m + 1 : k = m + 1 \/ (k \in 0 .. m /\ k # m + 1)
    BY <2>1
  <2>4. new \in [0 .. m + 1 -> St]
    BY <2>3
  <2>5. new[m + 1] = step[it[m]] /\ \A k \in 0 .. m : new[k] = it[k]
    BY <2>1
  <2> HIDE DEF new
  <2>6. new[0] = base
    BY <2>1, <2>2, <2>5 DEF Iterated
  <2>7. ASSUME NEW k \in 1 .. m + 1 PROVE new[k] = step[new[k - 1]]
    <3>1. CASE k = m + 1
      BY <2>1, <2>3, <2>5, <3>1
    <3>2. CASE k # m + 1
      <4>1. k \in 1 .. m /\ k - 1 \in 0 .. m /\ k \in 0 .. m
        BY <2>1, <3>2
      <4> QED
        BY <2>2, <2>5, <4>1 DEF Iterated
    <3> QED
      BY <3>1, <3>2
  <2>8. Done(m + 1)
    BY <2>4, <2>6, <2>7 DEF Iterated
  <2> HIDE DEF Done
  <2> QED
    BY <2>1, <2>8
<1> HIDE DEF Done
<1>3. T = Nat
  <2> HIDE DEF T
  <2>1. T \in SUBSET Nat
    BY DEF T
  <2> QED
    BY <1>1, <1>2, <2>1, CountingUp
<1>4. Done(n)
  BY <1>3
<1> QED
  BY <1>4 DEF Done

-----------------------------------------------------------------------------
(* The graph, the numbers of the groups *)

LEMMA GraphRight ==
    ASSUME NEW near, NEW n, NEW floor \in Nat \ {0}, NEW eligible,
           \A i, j \in Nodes(n) : near[i][j] \in Nat
    PROVE  GraphIsRight(near, n, floor, eligible)
<1> DEFINE kept(i, j) == IF i # j /\ {i, j} \subseteq eligible /\ near[i][j] >= floor THEN near[i][j] ELSE 0
           w == SymmetrizeKnn(near, n, floor, eligible)
<1>1. \A i, j \in Nodes(n) : w[i][j] = IF kept(i, j) > kept(j, i) THEN kept(i, j) ELSE kept(j, i)
  BY DEF SymmetrizeKnn
<1>2. ASSUME NEW i \in Nodes(n), NEW j \in Nodes(n)
      PROVE  /\ kept(i, j) \in Nat
             /\ kept(i, j) > 0 => i # j /\ {i, j} \subseteq eligible /\ kept(i, j) >= floor
             /\ i # j /\ {i, j} \subseteq eligible /\ near[i][j] >= floor => kept(i, j) = near[i][j]
  OBVIOUS
<1> HIDE DEF w, kept
<1>3. ASSUME NEW i \in Nodes(n), NEW j \in Nodes(n)
      PROVE  /\ w[i][j] = w[j][i]
             /\ w[i][j] > 0 => i # j /\ {i, j} \subseteq eligible /\ w[i][j] >= floor
             /\ i # j /\ {i, j} \subseteq eligible /\ near[i][j] >= floor => w[i][j] >= near[i][j]
  BY <1>1, <1>2
<1> QED
  BY <1>3 DEF GraphIsRight, w

(* What the whispers need of a graph.                                      *)
Weighted(w, D) ==
    /\ IsFiniteSet(D) /\ D \subseteq Nat /\ DOMAIN w = D
    /\ \A i, j \in D : w[i][j] \in Nat /\ w[i][j] = w[j][i]
    /\ \A i \in D : w[i][i] = 0

LEMMA GraphIsWeighted ==
    ASSUME NEW near, NEW n \in Nat, NEW floor \in Nat \ {0}, NEW eligible,
           \A i, j \in Nodes(n) : near[i][j] \in Nat
    PROVE  Weighted(SymmetrizeKnn(near, n, floor, eligible), Nodes(n))
<1> DEFINE kept(i, j) == IF i # j /\ {i, j} \subseteq eligible /\ near[i][j] >= floor THEN near[i][j] ELSE 0
           w == SymmetrizeKnn(near, n, floor, eligible)
<1>1. DOMAIN w = Nodes(n)
      /\ \A i, j \in Nodes(n) : w[i][j] = IF kept(i, j) > kept(j, i) THEN kept(i, j) ELSE kept(j, i)
  BY DEF SymmetrizeKnn
<1>2. \A i, j \in Nodes(n) : kept(i, j) \in Nat
  OBVIOUS
<1>3. \A i \in Nodes(n) : kept(i, i) = 0
  OBVIOUS
<1>4. IsFiniteSet(Nodes(n)) /\ Nodes(n) \subseteq Nat
  BY FS_Interval DEF Nodes
<1> HIDE DEF w, kept
<1> QED
  BY <1>1, <1>2, <1>3, <1>4 DEF Weighted, w

LEMMA CompactRight ==
    ASSUME NEW D, IsFiniteSet(D), NEW labels \in [D -> Nat]
    PROVE  CompactIsRight(labels)
<1> DEFINE S == ToSet(labels)
           same == [x \in S |-> 0]
           out == CompactLabels(labels)
           below(l) == {m \in S : m < l}
<1>1. S = {labels[i] : i \in D}
  BY DEF ToSet
<1>2. labels \in Surjection(D, S)
  BY <1>1 DEF Surjection
<1>3. IsFiniteSet(S) /\ S \subseteq Nat
  <2>1. IsFiniteSet(S)
    BY <1>2, FS_Surjection
  <2> QED
    BY <1>1, <2>1
<1>4. Scored(S, same)
  BY <1>3 DEF Scored
<1>5. \A l \in S : below(l) = Ahead(S, same, l)
  BY DEF Ahead, Before
<1>6. DOMAIN out = D /\ \A i \in D : out[i] = Cardinality(Ahead(S, same, labels[i]))
  <2>1. out = [i \in D |-> Cardinality(below(labels[i]))]
    BY DEF CompactLabels
  <2> HIDE DEF below, out, same
  <2> QED
    BY <1>1, <1>5, <2>1
<1>7. \A a, b \in S : a < b <=> Before(same, a, b)
  BY <1>3 DEF Before
<1> HIDE DEF same, out, S
<1>8. Cardinality(S) \in Nat
  BY <1>3, FS_CardinalityType
<1>9. ToSet(out) = 0 .. Cardinality(S) - 1
  <2>1. ToSet(out) = {out[i] : i \in D}
    BY <1>6 DEF ToSet
  <2>2. ASSUME NEW i \in D PROVE out[i] \in 0 .. Cardinality(S) - 1
    <3>1. labels[i] \in S
      BY <1>1
    <3>2. Cardinality(Ahead(S, same, labels[i])) \in Nat
          /\ Cardinality(Ahead(S, same, labels[i])) < Cardinality(S)
      BY <1>4, <3>1, AheadIsFinite
    <3> QED
      BY <1>6, <1>8, <3>2
  <2>3. ASSUME NEW k \in 0 .. Cardinality(S) - 1 PROVE \E i \in D : out[i] = k
    <3>1. k + 1 \in 1 .. Cardinality(S) /\ (k + 1) - 1 = k
      BY <1>8
    <3>2. PICK l \in S : Cardinality(Ahead(S, same, l)) = (k + 1) - 1
      BY <1>4, <3>1, RanksAreTaken
    <3>3. PICK i \in D : labels[i] = l
      BY <1>1
    <3> QED
      BY <1>6, <3>1, <3>2, <3>3
  <2> QED
    BY <2>1, <2>2, <2>3
<1>10. ASSUME NEW i \in D, NEW j \in D PROVE labels[i] = labels[j] <=> out[i] = out[j]
  <2>1. labels[i] \in S /\ labels[j] \in S /\ labels[i] \in Nat /\ labels[j] \in Nat
    BY <1>1
  <2>2. /\ labels[i] < labels[j] => out[i] < out[j]
        /\ labels[j] < labels[i] => out[j] < out[i]
    BY <1>4, <1>6, <1>7, <2>1, AheadGrows
  <2>3. out[i] \in Nat /\ out[j] \in Nat
    BY <1>4, <1>6, <2>1, AheadIsFinite
  <2>4. labels[i] = labels[j] => out[i] = out[j]
    BY <1>6
  <2> QED
    BY <2>1, <2>2, <2>3, <2>4
<1>11. DOMAIN labels = D
  OBVIOUS
<1> QED
  BY <1>9, <1>10, <1>11 DEF CompactIsRight, out, S

-----------------------------------------------------------------------------
(* Sums that change *)

LEMMA SumPlus ==
    ASSUME NEW D, IsFiniteSet(D), NEW f \in [D -> Nat], NEW g \in [D -> Nat], NEW h \in [D -> Nat],
           \A x \in D : h[x] = f[x] + g[x]
    PROVE  SumFunction(h) = SumFunction(f) + SumFunction(g)
<1> DEFINE F == Units(f)
           G == Units(g)
           H == Units(h)
           M == H \ F
           b == [p \in G |-> <<p[1], f[p[1]] + p[2]>>]
<1>1. /\ \A p \in F : p[1] \in D /\ p[2] \in Nat /\ 1 <= p[2] /\ p[2] <= f[p[1]] /\ p = <<p[1], p[2]>>
      /\ \A p \in G : p[1] \in D /\ p[2] \in Nat /\ 1 <= p[2] /\ p[2] <= g[p[1]] /\ p = <<p[1], p[2]>>
      /\ \A p \in H : p[1] \in D /\ p[2] \in Nat /\ 1 <= p[2] /\ p[2] <= h[p[1]] /\ p = <<p[1], p[2]>>
  BY DEF Units
<1>2. \A x \in D, u \in Nat :
         /\ <<x, u>> \in F <=> 1 <= u /\ u <= f[x]
         /\ <<x, u>> \in G <=> 1 <= u /\ u <= g[x]
         /\ <<x, u>> \in H <=> 1 <= u /\ u <= h[x]
  BY DEF Units
<1>3. IsFiniteSet(F) /\ IsFiniteSet(G) /\ IsFiniteSet(H)
      /\ SumFunction(f) = Cardinality(F) /\ SumFunction(g) = Cardinality(G) /\ SumFunction(h) = Cardinality(H)
  BY SumIsCount
<1>4. \A x \in D : f[x] \in Nat /\ g[x] \in Nat
  OBVIOUS
<1> HIDE DEF F, G, H
<1>5. ASSUME NEW p \in F PROVE p \in H
  <2>1. p[1] \in D /\ p[2] \in Nat /\ 1 <= p[2] /\ p[2] <= f[p[1]] /\ p = <<p[1], p[2]>>
    BY <1>1
  <2>2. p[2] <= h[p[1]]
    BY <1>4, <2>1
  <2> QED
    BY <1>2, <2>1, <2>2
<1>6. ASSUME NEW p \in G PROVE b[p] \in M
  <2>1. p[1] \in D /\ p[2] \in Nat /\ 1 <= p[2] /\ p[2] <= g[p[1]] /\ f[p[1]] \in Nat
    BY <1>1, <1>4
  <2>2. f[p[1]] + p[2] \in Nat /\ 1 <= f[p[1]] + p[2] /\ f[p[1]] + p[2] <= h[p[1]] /\ ~ f[p[1]] + p[2] <= f[p[1]]
    BY <1>4, <2>1
  <2>3. <<p[1], f[p[1]] + p[2]>> \in H /\ <<p[1], f[p[1]] + p[2]>> \notin F
    BY <1>2, <2>1, <2>2
  <2> QED
    BY <2>3
<1>7. ASSUME NEW q \in M PROVE \E p \in G : b[p] = q
  <2>1. q[1] \in D /\ q[2] \in Nat /\ 1 <= q[2] /\ q[2] <= h[q[1]] /\ q = <<q[1], q[2]>> /\ q \notin F
    BY <1>1
  <2>2. f[q[1]] \in Nat /\ g[q[1]] \in Nat /\ h[q[1]] = f[q[1]] + g[q[1]] /\ ~ q[2] <= f[q[1]]
    BY <1>2, <1>4, <2>1
  <2>3. q[2] - f[q[1]] \in Nat /\ 1 <= q[2] - f[q[1]] /\ q[2] - f[q[1]] <= g[q[1]]
        /\ f[q[1]] + (q[2] - f[q[1]]) = q[2]
    BY <2>1, <2>2
  <2>4. <<q[1], q[2] - f[q[1]]>> \in G
    BY <1>2, <2>1, <2>3
  <2>5. b[<<q[1], q[2] - f[q[1]]>>] = q
    BY <2>1, <2>3, <2>4
  <2> QED
    BY <2>4, <2>5
<1>8. ASSUME NEW p \in G, NEW q \in G, b[p] = b[q] PROVE p = q
  <2>1. p[1] = q[1] /\ f[p[1]] + p[2] = f[q[1]] + q[2]
    BY <1>8
  <2>2. p[2] \in Nat /\ q[2] \in Nat /\ f[p[1]] \in Nat
    BY <1>1, <1>4
  <2>3. p[2] = q[2]
    BY <2>1, <2>2
  <2> QED
    BY <1>1, <2>1, <2>3
<1>9. b \in [G -> M]
  BY <1>6
<1> HIDE DEF b, M
<1>10. b \in Bijection(G, M)
  BY <1>7, <1>8, <1>9 DEF Bijection, Injection, Surjection, IsInjective
<1>11. IsFiniteSet(M) /\ Cardinality(M) = Cardinality(G)
  BY <1>3, <1>10, FS_Bijection DEF ExistsBijection
<1>12. H = F \cup M /\ F \cap M = {}
  BY <1>5 DEF M
<1>13. Cardinality(F \cup M) = Cardinality(F) + Cardinality(M) - Cardinality(F \cap M)
  BY <1>3, <1>11, FS_Union
<1>14. Cardinality(F \cap M) = 0
  BY <1>12, FS_EmptySet
<1>15. Cardinality(F) \in Nat /\ Cardinality(M) \in Nat
  BY <1>3, <1>11, FS_CardinalityType
<1> QED
  BY <1>3, <1>11, <1>12, <1>13, <1>14, <1>15

LEMMA SumOfOne ==
    ASSUME NEW D, IsFiniteSet(D), NEW x \in D, NEW n \in Nat, NEW f \in [D -> Nat],
           f[x] = n, \A y \in D \ {x} : f[y] = 0
    PROVE  SumFunction(f) = n
<1>1. Units(f) = {x} \X (1 .. n)
  <2>1. ASSUME NEW p \in Units(f) PROVE p \in {x} \X (1 .. n)
    <3>1. p[1] \in D /\ p[2] \in Nat /\ 1 <= p[2] /\ p[2] <= f[p[1]] /\ p = <<p[1], p[2]>>
      BY DEF Units
    <3>2. p[1] = x
      BY <3>1
    <3>3. p[2] \in 1 .. n
      BY <3>1, <3>2
    <3> QED
      BY <3>1, <3>2, <3>3
  <2>2. ASSUME NEW p \in {x} \X (1 .. n) PROVE p \in Units(f)
    BY DEF Units
  <2> QED
    BY <2>1, <2>2
<1>2. SumFunction(f) = Cardinality(Units(f))
  BY SumIsCount
<1> QED
  BY <1>1, <1>2, UnitsOfOne

(* One entry changed.                                                      *)
LEMMA SumChange ==
    ASSUME NEW D, IsFiniteSet(D), NEW x \in D, NEW f \in [D -> Nat], NEW g \in [D -> Nat],
           \A y \in D \ {x} : f[y] = g[y]
    PROVE  SumFunction(f) + g[x] = SumFunction(g) + f[x]
<1> DEFINE a == [y \in D |-> IF y = x THEN g[x] ELSE 0]
           b == [y \in D |-> IF y = x THEN f[x] ELSE 0]
           h == [y \in D |-> f[y] + a[y]]
<1>1. f[x] \in Nat /\ g[x] \in Nat
  OBVIOUS
<1>2. a \in [D -> Nat] /\ a[x] = g[x] /\ \A y \in D \ {x} : a[y] = 0
  BY <1>1
<1>3. b \in [D -> Nat] /\ b[x] = f[x] /\ \A y \in D \ {x} : b[y] = 0
  BY <1>1
<1> HIDE DEF a, b
<1>4. h \in [D -> Nat] /\ \A y \in D : h[y] = f[y] + a[y]
  BY <1>2
<1>5. \A y \in D : h[y] = g[y] + b[y]
  <2> SUFFICES ASSUME NEW y \in D PROVE h[y] = g[y] + b[y]
    OBVIOUS
  <2>1. CASE y = x
    BY <1>1, <1>2, <1>3, <1>4, <2>1
  <2>2. CASE y # x
    BY <1>2, <1>3, <1>4, <2>2
  <2> QED
    BY <2>1, <2>2
<1> HIDE DEF h
<1>6. SumFunction(h) = SumFunction(f) + SumFunction(a)
  BY <1>2, <1>4, SumPlus
<1>7. SumFunction(h) = SumFunction(g) + SumFunction(b)
  <2>1. h \in [D -> Nat] /\ b \in [D -> Nat]
    BY <1>3, <1>4
  <2> QED
    BY <1>5, <2>1, SumPlus
<1>8. SumFunction(a) = g[x] /\ SumFunction(b) = f[x]
  BY <1>1, <1>2, <1>3, SumOfOne
<1> QED
  BY <1>6, <1>7, <1>8

-----------------------------------------------------------------------------
(* What edges connect *)

Grown(w, s) == s \cup {j \in DOMAIN w : \E k \in s : w[k][j] > 0}

Reach(w, i) ==
    CHOOSE r : r = [k \in 0 .. Cardinality(DOMAIN w) |-> IF k = 0 THEN {i} ELSE Grown(w, r[k - 1])]

LEMMA ComponentUnfolds ==
    ASSUME NEW w, NEW i
    PROVE  Component(w, i) = Reach(w, i)[Cardinality(DOMAIN w)]
BY DEF Component, Reach, Grown

LEMMA ReachSteps ==
    ASSUME NEW w, IsFiniteSet(DOMAIN w), NEW i \in DOMAIN w
    PROVE  /\ Reach(w, i)[0] = {i}
           /\ \A k \in 1 .. Cardinality(DOMAIN w) : Reach(w, i)[k] = Grown(w, Reach(w, i)[k - 1])
           /\ \A k \in 0 .. Cardinality(DOMAIN w) : Reach(w, i)[k] \in SUBSET DOMAIN w
<1> DEFINE D == DOMAIN w
           n == Cardinality(D)
           step == [s \in SUBSET D |-> Grown(w, s)]
           r == Reach(w, i)
<1>1. n \in Nat
  BY FS_CardinalityType
<1>2. step \in [SUBSET D -> SUBSET D] /\ \A s \in SUBSET D : step[s] = Grown(w, s)
  BY DEF Grown
<1>3. {i} \in SUBSET D
  OBVIOUS
<1> HIDE DEF step, D, n
<1>4. PICK it \in [0 .. n -> SUBSET D] : Iterated(n, {i}, step, it)
  BY <1>1, <1>2, <1>3, IteratesExist
<1>5. ASSUME NEW k \in 0 .. n PROVE it[k] = IF k = 0 THEN {i} ELSE Grown(w, it[k - 1])
  <2>1. CASE k = 0
    BY <1>4, <2>1 DEF Iterated
  <2>2. CASE k # 0
    <3>1. k \in 1 .. n /\ k - 1 \in 0 .. n
      BY <1>1, <2>2
    <3>2. it[k] = step[it[k - 1]] /\ it[k - 1] \in SUBSET D
      BY <1>4, <3>1 DEF Iterated
    <3> QED
      BY <1>2, <2>2, <3>2
  <2> QED
    BY <2>1, <2>2
<1>6. it = [k \in 0 .. n |-> IF k = 0 THEN {i} ELSE Grown(w, it[k - 1])]
  BY <1>5
<1>7. r = [k \in 0 .. n |-> IF k = 0 THEN {i} ELSE Grown(w, r[k - 1])]
  <2>1. \E f : f = [k \in 0 .. n |-> IF k = 0 THEN {i} ELSE Grown(w, f[k - 1])]
    BY <1>6
  <2> QED
    BY <2>1 DEF Reach, n, D
<1> HIDE DEF r
<1>8. r[0] = {i} /\ \A k \in 1 .. n : r[k] = Grown(w, r[k - 1])
  <2>1. 0 \in 0 .. n /\ \A k \in 1 .. n : k \in 0 .. n /\ k # 0
    BY <1>1
  <2> QED
    BY <1>7, <2>1
<1> DEFINE Good == {k \in Nat : k <= n => r[k] \in SUBSET D}
<1>9. 0 \in Good
  BY <1>3, <1>8
<1>10. ASSUME NEW k \in Good PROVE k + 1 \in Good
  <2> SUFFICES ASSUME k + 1 <= n PROVE r[k + 1] \in SUBSET D
    OBVIOUS
  <2>1. k \in Nat /\ k + 1 \in 1 .. n /\ k <= n /\ (k + 1) - 1 = k
    BY <1>1
  <2>2. r[k] \in SUBSET D
    BY <2>1
  <2>3. r[k + 1] = Grown(w, r[k])
    BY <1>8, <2>1
  <2> QED
    BY <2>2, <2>3 DEF Grown, D
<1>11. Good = Nat
  <2>1. Good \in SUBSET Nat
    OBVIOUS
  <2> HIDE DEF Good
  <2> QED
    BY <1>9, <1>10, <2>1, CountingUp
<1>12. \A k \in 0 .. n : r[k] \in SUBSET D
  BY <1>1, <1>11
<1> QED
  BY <1>8, <1>12 DEF r, n, D

(* A component is the smallest set around a node that no edge leaves.      *)
Closed(w, T) == \A k \in T, j \in DOMAIN w : w[k][j] > 0 => j \in T

LEMMA ComponentIs ==
    ASSUME NEW w, IsFiniteSet(DOMAIN w), NEW i \in DOMAIN w
    PROVE  /\ i \in Component(w, i) /\ Component(w, i) \subseteq DOMAIN w
           /\ Closed(w, Component(w, i))
<1> DEFINE D == DOMAIN w
           n == Cardinality(D)
           r == Reach(w, i)
<1>1. n \in Nat
  BY FS_CardinalityType
<1>2. /\ r[0] = {i}
      /\ \A k \in 1 .. n : r[k] = Grown(w, r[k - 1])
      /\ \A k \in 0 .. n : r[k] \in SUBSET D
  BY ReachSteps
<1>3. Component(w, i) = r[n]
  BY ComponentUnfolds
<1> HIDE DEF r, n, D
<1> DEFINE Good == {k \in Nat : k <= n => i \in r[k] /\ (Grown(w, r[k]) = r[k] \/ Cardinality(r[k]) >= k + 1)}
<1>4. 0 \in Good
  <2>1. Cardinality({i}) = 1
    BY FS_Singleton
  <2> QED
    BY <1>2, <2>1
<1>5. ASSUME NEW k \in Good PROVE k + 1 \in Good
  <2> SUFFICES ASSUME k + 1 <= n
               PROVE i \in r[k + 1] /\ (Grown(w, r[k + 1]) = r[k + 1] \/ Cardinality(r[k + 1]) >= (k + 1) + 1)
    OBVIOUS
  <2>1. k \in Nat /\ k + 1 \in 1 .. n /\ k <= n /\ (k + 1) - 1 = k /\ k + 1 \in 0 .. n /\ k \in 0 .. n
    BY <1>1
  <2>2. i \in r[k] /\ (Grown(w, r[k]) = r[k] \/ Cardinality(r[k]) >= k + 1)
    BY <2>1
  <2>3. r[k + 1] = Grown(w, r[k]) /\ r[k] \in SUBSET D /\ r[k + 1] \in SUBSET D
    BY <1>2, <2>1
  <2>4. r[k] \subseteq r[k + 1]
    BY <2>3 DEF Grown
  <2>5. CASE Grown(w, r[k]) = r[k]
    BY <2>2, <2>3, <2>5
  <2>6. CASE Grown(w, r[k]) # r[k]
    <3>1. IsFiniteSet(r[k + 1]) /\ IsFiniteSet(r[k])
      BY <2>3, FS_Subset DEF D
    <3>2. Cardinality(r[k]) <= Cardinality(r[k + 1]) /\ Cardinality(r[k + 1]) # Cardinality(r[k])
      BY <2>3, <2>4, <2>6, <3>1, FS_Subset
    <3>3. Cardinality(r[k]) \in Nat /\ Cardinality(r[k + 1]) \in Nat
      BY <3>1, FS_CardinalityType
    <3>4. Cardinality(r[k]) >= k + 1
      BY <2>2, <2>6
    <3>5. Cardinality(r[k + 1]) >= (k + 1) + 1
      BY <2>1, <3>2, <3>3, <3>4
    <3> QED
      BY <2>2, <2>4, <3>5
  <2> QED
    BY <2>5, <2>6
<1>6. Good = Nat
  <2>1. Good \in SUBSET Nat
    OBVIOUS
  <2> HIDE DEF Good
  <2> QED
    BY <1>4, <1>5, <2>1, CountingUp
<1>7. i \in r[n] /\ (Grown(w, r[n]) = r[n] \/ Cardinality(r[n]) >= n + 1)
  BY <1>1, <1>6
<1>8. r[n] \in SUBSET D
  BY <1>1, <1>2
<1>9. Cardinality(r[n]) <= n
  BY <1>8, FS_Subset DEF n, D
<1>10. Cardinality(r[n]) \in Nat
  BY <1>8, FS_Subset, FS_CardinalityType DEF D
<1>11. Grown(w, r[n]) = r[n]
  BY <1>1, <1>7, <1>9, <1>10
<1>12. Closed(w, r[n])
  BY <1>11 DEF Closed, Grown
<1> QED
  BY <1>3, <1>7, <1>8, <1>12 DEF D

LEMMA ComponentIsLeast ==
    ASSUME NEW w, IsFiniteSet(DOMAIN w), NEW i \in DOMAIN w, NEW T, i \in T, Closed(w, T)
    PROVE  Component(w, i) \subseteq T
<1> DEFINE D == DOMAIN w
           n == Cardinality(D)
           r == Reach(w, i)
           Good == {k \in Nat : k <= n => r[k] \subseteq T}
<1>1. n \in Nat
  BY FS_CardinalityType
<1>2. /\ r[0] = {i}
      /\ \A k \in 1 .. n : r[k] = Grown(w, r[k - 1])
  BY ReachSteps
<1>3. Component(w, i) = r[n]
  BY ComponentUnfolds
<1> HIDE DEF r, n
<1>4. 0 \in Good
  BY <1>2
<1>5. ASSUME NEW k \in Good PROVE k + 1 \in Good
  <2> SUFFICES ASSUME k + 1 <= n PROVE r[k + 1] \subseteq T
    OBVIOUS
  <2>1. k \in Nat /\ k + 1 \in 1 .. n /\ k <= n /\ (k + 1) - 1 = k
    BY <1>1
  <2>2. r[k] \subseteq T
    BY <2>1
  <2>3. r[k + 1] = Grown(w, r[k])
    BY <1>2, <2>1
  <2> QED
    BY <2>2, <2>3 DEF Grown, Closed
<1>6. Good = Nat
  <2>1. Good \in SUBSET Nat
    OBVIOUS
  <2> HIDE DEF Good
  <2> QED
    BY <1>4, <1>5, <2>1, CountingUp
<1> QED
  BY <1>1, <1>3, <1>6

LEMMA ComponentsJoin ==
    ASSUME NEW w, IsFiniteSet(DOMAIN w), NEW i \in DOMAIN w, NEW k \in Component(w, i)
    PROVE  k \in DOMAIN w /\ Component(w, k) \subseteq Component(w, i)
<1>1. Component(w, i) \subseteq DOMAIN w /\ Closed(w, Component(w, i))
  BY ComponentIs
<1>2. k \in DOMAIN w
  BY <1>1
<1> QED
  BY <1>1, <1>2, ComponentIsLeast

Mutual(w) == \A i, j \in DOMAIN w : w[i][j] > 0 => w[j][i] > 0

LEMMA ComponentsAreMutual ==
    ASSUME NEW w, IsFiniteSet(DOMAIN w), Mutual(w), NEW i \in DOMAIN w, NEW k \in Component(w, i)
    PROVE  i \in Component(w, k)
<1> DEFINE T == {x \in DOMAIN w : i \in Component(w, x)}
<1>1. i \in T
  BY ComponentIs
<1>2. ASSUME NEW x \in T, NEW y \in DOMAIN w, w[x][y] > 0 PROVE y \in T
  <2>1. w[y][x] > 0
    BY <1>2 DEF Mutual
  <2>2. y \in Component(w, y) /\ Closed(w, Component(w, y))
    BY ComponentIs
  <2>3. x \in Component(w, y)
    BY <2>1, <2>2 DEF Closed
  <2>4. Component(w, x) \subseteq Component(w, y)
    BY <2>3, ComponentsJoin
  <2> QED
    BY <2>4
<1>3. Closed(w, T)
  BY <1>2 DEF Closed
<1> HIDE DEF T
<1>4. Component(w, i) \subseteq T
  BY <1>1, <1>3, ComponentIsLeast
<1> QED
  BY <1>4 DEF T

-----------------------------------------------------------------------------
(* A node moves *)

Pull(w, l, i, x) == [j \in DOMAIN l |-> IF l[j] = x THEN w[i][j] ELSE 0]

LEMMA WeightIs ==
    ASSUME NEW D, NEW w, Weighted(w, D), NEW l \in [D -> Nat], NEW i \in D, NEW x
    PROVE  /\ Pull(w, l, i, x) \in [D -> Nat]
           /\ \A j \in D : Pull(w, l, i, x)[j] = IF l[j] = x THEN w[i][j] ELSE 0
           /\ Weight(w, l, i, x) = SumFunction(Pull(w, l, i, x))
           /\ Weight(w, l, i, x) \in Nat
<1>1. Pull(w, l, i, x) \in [D -> Nat] /\ \A j \in D : Pull(w, l, i, x)[j] = IF l[j] = x THEN w[i][j] ELSE 0
  BY DEF Pull, Weighted
<1>2. Weight(w, l, i, x) = SumFunction(Pull(w, l, i, x))
  BY DEF Weight, Pull
<1>3. IsFiniteSet(D)
  BY DEF Weighted
<1> QED
  BY <1>1, <1>2, <1>3, SumIsCount

(* A node goes where a neighbour is, for more weight, or stays.            *)
LEMMA PreferredIs ==
    ASSUME NEW D, NEW w, Weighted(w, D), NEW l \in [D -> Nat], NEW i \in D
    PROVE  \/ Preferred(w, l, i) = l[i]
           \/ /\ \E k \in D : w[i][k] > 0 /\ Preferred(w, l, i) = l[k]
              /\ Weight(w, l, i, Preferred(w, l, i)) > Weight(w, l, i, l[i])
<1> DEFINE near   == {k \in DOMAIN l : w[i][k] > 0}
           around == {l[j] : j \in near}
           heavy  == [m \in around |-> Weight(w, l, i, m)]
           best   == CHOOSE x \in around : \A m \in around :
                        \/ Weight(w, l, i, m) < Weight(w, l, i, x)
                        \/ Weight(w, l, i, m) = Weight(w, l, i, x) /\ x <= m
<1>1. Preferred(w, l, i) = IF around = {} THEN l[i]
                           ELSE IF Weight(w, l, i, best) > Weight(w, l, i, l[i]) THEN best ELSE l[i]
  BY DEF Preferred
<1>2. IsFiniteSet(D)
  BY DEF Weighted
<1>3. near \in SUBSET D
  OBVIOUS
<1>4. IsFiniteSet(near)
  BY <1>2, <1>3, FS_Subset
<1>5. IsFiniteSet(around)
  <2> DEFINE f == [j \in near |-> l[j]]
  <2>1. f \in Surjection(near, around)
    BY DEF Surjection
  <2> HIDE DEF f, near, around
  <2> QED
    BY <1>4, <2>1, FS_Surjection
<1>6. around \subseteq Nat
  OBVIOUS
<1>7. \A m \in around : heavy[m] = Weight(w, l, i, m) /\ heavy[m] \in Nat
  BY WeightIs
<1>8. \A x \in around : \E k \in D : w[i][k] > 0 /\ x = l[k]
  OBVIOUS
<1> HIDE DEF near, around, heavy
<1>9. Scored(around, heavy)
  BY <1>5, <1>6, <1>7 DEF Scored
<1>10. CASE around = {}
  BY <1>1, <1>10
<1>11. CASE around # {}
  <2>1. PICK x \in around : \A q \in around \ {x} : Before(heavy, x, q)
    BY <1>9, <1>11, SomebodyIsFirst
  <2>2. \A m \in around : \/ Weight(w, l, i, m) < Weight(w, l, i, x)
                          \/ Weight(w, l, i, m) = Weight(w, l, i, x) /\ x <= m
    <3> SUFFICES ASSUME NEW m \in around
                 PROVE  \/ Weight(w, l, i, m) < Weight(w, l, i, x)
                        \/ Weight(w, l, i, m) = Weight(w, l, i, x) /\ x <= m
      OBVIOUS
    <3>1. heavy[m] = Weight(w, l, i, m) /\ heavy[x] = Weight(w, l, i, x) /\ heavy[m] \in Nat /\ heavy[x] \in Nat
          /\ m \in Nat /\ x \in Nat
      BY <1>6, <1>7
    <3>2. CASE m = x
      BY <3>1, <3>2
    <3>3. CASE m # x
      <4>1. Before(heavy, x, m)
        BY <2>1, <3>3
      <4> QED
        BY <3>1, <4>1 DEF Before
    <3> QED
      BY <3>2, <3>3
  <2>3. best \in around
    BY <2>2
  <2> HIDE DEF best
  <2>4. CASE Weight(w, l, i, best) > Weight(w, l, i, l[i])
    BY <1>1, <1>8, <1>11, <2>3, <2>4
  <2>5. CASE ~ (Weight(w, l, i, best) > Weight(w, l, i, l[i]))
    BY <1>1, <1>11, <2>5
  <2> QED
    BY <2>4, <2>5
<1> QED
  BY <1>10, <1>11

Own(w, l) == [i \in DOMAIN l |-> Weight(w, l, i, l[i])]

LEMMA AgreementIs ==
    ASSUME NEW D, NEW w, Weighted(w, D), NEW l \in [D -> Nat]
    PROVE  /\ Own(w, l) \in [D -> Nat]
           /\ \A i \in D : Own(w, l)[i] = Weight(w, l, i, l[i])
           /\ Agreement(w, l) = SumFunction(Own(w, l))
           /\ Agreement(w, l) \in Nat
<1>1. \A i \in D : Weight(w, l, i, l[i]) \in Nat
  BY WeightIs
<1>2. Own(w, l) \in [D -> Nat] /\ \A i \in D : Own(w, l)[i] = Weight(w, l, i, l[i])
  BY <1>1 DEF Own
<1>3. Agreement(w, l) = SumFunction(Own(w, l))
  BY DEF Agreement, Own
<1>4. IsFiniteSet(D)
  BY DEF Weighted
<1> QED
  BY <1>2, <1>3, <1>4, SumIsCount

(* What moving node i from its label to p does to the agreement.           *)
LEMMA MovingCounts ==
    ASSUME NEW D, NEW w, Weighted(w, D), NEW l \in [D -> Nat], NEW i \in D, NEW p \in Nat, NEW m \in [D -> Nat],
           m[i] = p, \A a \in D \ {i} : m[a] = l[a]
    PROVE  Agreement(w, m) + 2 * Weight(w, l, i, l[i]) = Agreement(w, l) + 2 * Weight(w, l, i, p)
<1> DEFINE cur == l[i]
           wc  == Weight(w, l, i, cur)
           wp  == Weight(w, l, i, p)
           pc  == Pull(w, l, i, cur)
           pp  == Pull(w, l, i, p)
           c   == [a \in D |-> IF a = i THEN wc ELSE pc[a]]
           d   == [a \in D |-> IF a = i THEN wp ELSE pp[a]]
           om  == Own(w, m)
           ol  == Own(w, l)
           h   == [a \in D |-> om[a] + c[a]]
<1>1. IsFiniteSet(D) /\ (\A a, b \in D : w[a][b] \in Nat /\ w[a][b] = w[b][a]) /\ w[i][i] = 0
  BY DEF Weighted
<1>2. /\ pc \in [D -> Nat] /\ \A j \in D : pc[j] = IF l[j] = cur THEN w[i][j] ELSE 0
      /\ wc = SumFunction(pc) /\ wc \in Nat
  BY WeightIs
<1>3. /\ pp \in [D -> Nat] /\ \A j \in D : pp[j] = IF l[j] = p THEN w[i][j] ELSE 0
      /\ wp = SumFunction(pp) /\ wp \in Nat
  BY WeightIs
<1>4. /\ om \in [D -> Nat] /\ \A a \in D : om[a] = Weight(w, m, a, m[a])
      /\ Agreement(w, m) = SumFunction(om) /\ Agreement(w, m) \in Nat
  BY AgreementIs
<1>5. /\ ol \in [D -> Nat] /\ \A a \in D : ol[a] = Weight(w, l, a, l[a])
      /\ Agreement(w, l) = SumFunction(ol) /\ Agreement(w, l) \in Nat
  BY AgreementIs
<1> HIDE DEF wc, wp, pc, pp, om, ol
<1>6. c \in [D -> Nat] /\ c[i] = wc /\ \A a \in D \ {i} : c[a] = pc[a]
  BY <1>2
<1>7. d \in [D -> Nat] /\ d[i] = wp /\ \A a \in D \ {i} : d[a] = pp[a]
  BY <1>3
<1> HIDE DEF c, d
<1>8. SumFunction(c) = 2 * wc
  <2>1. SumFunction(c) + pc[i] = SumFunction(pc) + c[i]
    BY <1>1, <1>2, <1>6, SumChange
  <2>2. pc[i] = 0
    BY <1>1, <1>2
  <2>3. SumFunction(c) \in Nat
    BY <1>1, <1>6, SumIsCount
  <2> QED
    BY <1>2, <1>6, <2>1, <2>2, <2>3
<1>9. SumFunction(d) = 2 * wp
  <2>1. SumFunction(d) + pp[i] = SumFunction(pp) + d[i]
    BY <1>1, <1>3, <1>7, SumChange
  <2>2. pp[i] = 0
    BY <1>1, <1>3
  <2>3. SumFunction(d) \in Nat
    BY <1>1, <1>7, SumIsCount
  <2> QED
    BY <1>3, <1>7, <2>1, <2>2, <2>3
<1>10. ASSUME NEW a \in D PROVE om[a] + c[a] = ol[a] + d[a]
  <2>1. CASE a = i
    <3>1. \A j \in D : Pull(w, m, i, p)[j] = IF m[j] = p THEN w[i][j] ELSE 0
      BY WeightIs
    <3>2. \A j \in D : Pull(w, m, i, p)[j] = pp[j]
      BY <1>1, <1>3, <3>1
    <3>3. Pull(w, m, i, p) \in [D -> Nat] /\ Weight(w, m, i, p) = SumFunction(Pull(w, m, i, p))
      BY WeightIs
    <3>4. Pull(w, m, i, p) = pp
      BY <1>3, <3>2, <3>3
    <3>5. om[i] = wp
      BY <1>3, <1>4, <3>3, <3>4
    <3>6. ol[i] = wc
      BY <1>5 DEF wc
    <3> QED
      BY <1>2, <1>3, <1>6, <1>7, <2>1, <3>5, <3>6
  <2>2. CASE a # i
    <3> DEFINE x  == l[a]
               qm == Pull(w, m, a, x)
               ql == Pull(w, l, a, x)
    <3>1. /\ qm \in [D -> Nat] /\ \A j \in D : qm[j] = IF m[j] = x THEN w[a][j] ELSE 0
          /\ Weight(w, m, a, x) = SumFunction(qm) /\ Weight(w, m, a, x) \in Nat
      BY WeightIs
    <3>2. /\ ql \in [D -> Nat] /\ \A j \in D : ql[j] = IF l[j] = x THEN w[a][j] ELSE 0
          /\ Weight(w, l, a, x) = SumFunction(ql) /\ Weight(w, l, a, x) \in Nat
      BY WeightIs
    <3> HIDE DEF qm, ql
    <3>3. \A j \in D \ {i} : qm[j] = ql[j]
      BY <3>1, <3>2
    <3>4. SumFunction(qm) + ql[i] = SumFunction(ql) + qm[i]
      BY <1>1, <3>1, <3>2, <3>3, SumChange
    <3>5. ql[i] = c[a] /\ qm[i] = d[a]
      BY <1>1, <1>2, <1>3, <1>6, <1>7, <2>2, <3>1, <3>2
    <3>6. om[a] = Weight(w, m, a, x) /\ ol[a] = Weight(w, l, a, x)
      BY <1>4, <1>5, <2>2
    <3> QED
      BY <3>1, <3>2, <3>4, <3>5, <3>6
  <2> QED
    BY <2>1, <2>2
<1>11. h \in [D -> Nat] /\ \A a \in D : h[a] = om[a] + c[a]
  BY <1>4, <1>6
<1> HIDE DEF h
<1>12. \A a \in D : h[a] = ol[a] + d[a]
  BY <1>10, <1>11
<1>13. SumFunction(h) = SumFunction(om) + SumFunction(c)
  <2>1. om \in [D -> Nat] /\ c \in [D -> Nat] /\ h \in [D -> Nat]
    BY <1>4, <1>6, <1>11
  <2> QED
    BY <1>1, <1>11, <2>1, SumPlus
<1>14. SumFunction(h) = SumFunction(ol) + SumFunction(d)
  <2>1. ol \in [D -> Nat] /\ d \in [D -> Nat] /\ h \in [D -> Nat]
    BY <1>5, <1>7, <1>11
  <2> QED
    BY <1>1, <1>12, <2>1, SumPlus
<1>15. Agreement(w, m) + 2 * wc = Agreement(w, l) + 2 * wp
  BY <1>4, <1>5, <1>8, <1>9, <1>13, <1>14
<1> QED
  BY <1>15 DEF wc, wp

Moved(w, fixed, l, i) == IF i \in fixed THEN l ELSE [l EXCEPT ![i] = Preferred(w, l, i)]

Traced(w, label, l) == \A i \in DOMAIN w : \E j \in Component(w, i) : label[j] = l[i]

Settled(w, fixed, l) == \A i \in DOMAIN w \ fixed : Preferred(w, l, i) = l[i]

LEMMA MoveIs ==
    ASSUME NEW D, NEW w, Weighted(w, D), NEW l \in [D -> Nat], NEW i \in D, NEW fixed
    PROVE  /\ Moved(w, fixed, l, i) \in [D -> Nat]
           /\ \A f \in fixed \cap D : Moved(w, fixed, l, i)[f] = l[f]
           /\ \/ Moved(w, fixed, l, i) = l /\ (i \notin fixed => Preferred(w, l, i) = l[i])
              \/ Agreement(w, Moved(w, fixed, l, i)) >= Agreement(w, l) + 2
           /\ i \notin fixed /\ Preferred(w, l, i) = l[i] => Moved(w, fixed, l, i) = l
<1> DEFINE p == Preferred(w, l, i)
           m == Moved(w, fixed, l, i)
<1>1. CASE i \in fixed
  BY <1>1 DEF Moved
<1>2. CASE i \notin fixed /\ p = l[i]
  <2>1. m = l
    BY <1>2 DEF Moved
  <2> QED
    BY <1>2, <2>1
<1>3. CASE i \notin fixed /\ p # l[i]
  <2>1. PICK k \in D : p = l[k] /\ Weight(w, l, i, p) > Weight(w, l, i, l[i])
    BY <1>3, PreferredIs
  <2>2. p \in Nat
    BY <2>1
  <2>3. m = [l EXCEPT ![i] = p]
    BY <1>3 DEF Moved
  <2> HIDE DEF p, m
  <2>4. m \in [D -> Nat] /\ m[i] = p /\ \A a \in D \ {i} : m[a] = l[a]
    BY <2>2, <2>3
  <2>5. Agreement(w, m) + 2 * Weight(w, l, i, l[i]) = Agreement(w, l) + 2 * Weight(w, l, i, p)
    BY <2>2, <2>4, MovingCounts
  <2>6. Weight(w, l, i, l[i]) \in Nat /\ Weight(w, l, i, p) \in Nat
    BY WeightIs
  <2>7. Agreement(w, m) \in Nat /\ Agreement(w, l) \in Nat
    BY <2>4, AgreementIs
  <2>8. Agreement(w, m) >= Agreement(w, l) + 2
    BY <2>1, <2>5, <2>6, <2>7
  <2> QED
    BY <1>3, <2>4, <2>8 DEF m, p
<1> QED
  BY <1>1, <1>2, <1>3

LEMMA MoveIsTraced ==
    ASSUME NEW D, NEW w, Weighted(w, D), NEW l \in [D -> Nat], NEW i \in D, NEW fixed, NEW label,
           Traced(w, label, l)
    PROVE  Traced(w, label, Moved(w, fixed, l, i))
<1>1. DOMAIN w = D /\ IsFiniteSet(DOMAIN w)
  BY DEF Weighted
<1>2. ASSUME NEW x \in D PROVE \E j \in Component(w, x) : label[j] = Moved(w, fixed, l, i)[x]
  <2>1. CASE Moved(w, fixed, l, i)[x] = l[x]
    BY <1>1, <2>1 DEF Traced
  <2>2. CASE Moved(w, fixed, l, i)[x] # l[x]
    <3>1. x = i /\ Moved(w, fixed, l, i)[x] = Preferred(w, l, i) /\ Preferred(w, l, i) # l[i]
      BY <2>2 DEF Moved
    <3>2. PICK k \in D : w[i][k] > 0 /\ Preferred(w, l, i) = l[k]
      BY <3>1, PreferredIs
    <3>3. i \in Component(w, i) /\ Closed(w, Component(w, i))
      BY <1>1, ComponentIs
    <3>4. k \in Component(w, i)
      BY <1>1, <3>2, <3>3 DEF Closed
    <3>5. Component(w, k) \subseteq Component(w, i)
      BY <1>1, <3>4, ComponentsJoin
    <3>6. PICK j \in Component(w, k) : label[j] = l[k]
      BY <1>1 DEF Traced
    <3> QED
      BY <3>1, <3>2, <3>5, <3>6
  <2> QED
    BY <2>1, <2>2
<1> QED
  BY <1>1, <1>2 DEF Traced

-----------------------------------------------------------------------------
(* A pass over the nodes *)

Sweeps(w, label, fixed) ==
    CHOOSE iter : iter = [s \in SUBSET (1 .. Cardinality(DOMAIN label)) |->
        IF s = {} THEN label
        ELSE Moved(w, fixed, iter[s \ {Max(s)}], Ascending(DOMAIN label)[Max(s)])]

LEMMA SweepUnfolds ==
    ASSUME NEW w, NEW label, NEW fixed, DOMAIN label \in SUBSET Nat, IsFiniteSet(DOMAIN label)
    PROVE  Sweep(w, label, fixed) = Sweeps(w, label, fixed)[1 .. Cardinality(DOMAIN label)]
<1>1. DOMAIN Ascending(DOMAIN label) = 1 .. Cardinality(DOMAIN label)
  BY AscendingList
<1> QED
  BY <1>1 DEF Sweep, FoldLeft, MapThenFoldSet, Sweeps, Moved

LEMMA SweepsStep ==
    ASSUME NEW D, NEW w, Weighted(w, D), NEW label \in [D -> Nat], NEW fixed
    PROVE  /\ Sweeps(w, label, fixed)[1 .. 0] = label
           /\ \A i \in 1 .. Cardinality(D) :
                 Sweeps(w, label, fixed)[1 .. i]
                    = Moved(w, fixed, Sweeps(w, label, fixed)[1 .. i - 1], Ascending(D)[i])
<1> DEFINE n    == Cardinality(D)
           seq  == Ascending(D)
           St   == [D -> Nat]
           step == [p \in St \X (1 .. n) |-> Moved(w, fixed, p[1], seq[p[2]])]
           push(g, s) == IF s = {} THEN label ELSE Moved(w, fixed, g[s \ {Max(s)}], seq[Max(s)])
           h == Sweeps(w, label, fixed)
<1>0. D \in SUBSET Nat /\ IsFiniteSet(D) /\ DOMAIN label = D
  BY DEF Weighted
<1>1. n \in Nat /\ seq \in [1 .. n -> D]
  BY <1>0, AscendingList
<1> HIDE DEF n, seq
<1>2. step \in [St \X (1 .. n) -> St]
  <2>1. ASSUME NEW p \in St \X (1 .. n) PROVE Moved(w, fixed, p[1], seq[p[2]]) \in St
    <3>1. p[1] \in [D -> Nat] /\ seq[p[2]] \in D
      BY <1>1
    <3> QED
      BY <3>1, MoveIs
  <2> QED
    BY <2>1
<1>3. \A l \in St, i \in 1 .. n : step[<<l, i>>] = Moved(w, fixed, l, seq[i])
  OBVIOUS
<1>4. label \in St
  OBVIOUS
<1> HIDE DEF St, step
<1>5. PICK it \in [SUBSET (1 .. n) -> St] : Stepped(n, label, step, it)
  BY <1>1, <1>2, <1>4, StepsExist
<1>6. ASSUME NEW s \in SUBSET (1 .. n) PROVE it[s] = push(it, s)
  <2>1. it[s] = IF s = {} THEN label ELSE step[<<it[s \ {Max(s)}], Max(s)>>]
    BY <1>5 DEF Stepped
  <2>2. CASE s = {}
    BY <2>1, <2>2
  <2>3. CASE s # {}
    <3>1. Max(s) \in 1 .. n /\ s \ {Max(s)} \in SUBSET (1 .. n)
      BY <1>1, <2>3, MaxOfPlaces
    <3>2. it[s \ {Max(s)}] \in St
      BY <3>1
    <3> QED
      BY <1>3, <2>1, <2>3, <3>1, <3>2
  <2> QED
    BY <2>2, <2>3
<1>7. it = [s \in SUBSET (1 .. n) |-> push(it, s)]
  BY <1>6
<1>8. h = [s \in SUBSET (1 .. n) |-> push(h, s)]
  <2>1. \E iter : iter = [s \in SUBSET (1 .. n) |-> push(iter, s)]
    BY <1>7
  <2>2. h = CHOOSE iter : iter = [s \in SUBSET (1 .. n) |-> push(iter, s)]
    BY <1>0 DEF Sweeps, n, seq
  <2> QED
    BY <2>1, <2>2
<1> HIDE DEF h
<1>9. h[1 .. 0] = label
  BY <1>8
<1>10. ASSUME NEW i \in 1 .. n PROVE h[1 .. i] = Moved(w, fixed, h[1 .. i - 1], seq[i])
  <2>1. 1 .. i \in SUBSET (1 .. n) /\ 1 .. i # {} /\ Max(1 .. i) = i /\ (1 .. i) \ {i} = 1 .. i - 1
    BY <1>1, StepsInOrder
  <2>2. h[1 .. i] = push(h, 1 .. i)
    BY <1>8, <2>1
  <2> QED
    BY <2>1, <2>2
<1> QED
  BY <1>9, <1>10 DEF h, n, seq

(* A pass keeps fixed labels and where labels come from; it changes        *)
(* nothing, which is when all have settled, or labels agree more.          *)
LEMMA SweepIs ==
    ASSUME NEW D, NEW w, Weighted(w, D), NEW label \in [D -> Nat], NEW fixed
    PROVE  /\ Sweep(w, label, fixed) \in [D -> Nat]
           /\ \A f \in fixed \cap D : Sweep(w, label, fixed)[f] = label[f]
           /\ Settled(w, fixed, label) => Sweep(w, label, fixed) = label
           /\ \/ Settled(w, fixed, label)
              \/ Agreement(w, Sweep(w, label, fixed)) >= Agreement(w, label) + 2
<1> DEFINE n   == Cardinality(D)
           seq == Ascending(D)
           h   == Sweeps(w, label, fixed)
           l(m) == h[1 .. m]
           still(m) == l(m) = label /\ \A i \in 1 .. m : seq[i] \notin fixed => Preferred(w, label, seq[i]) = label[seq[i]]
           Good == {m \in Nat : m <= n =>
                      /\ l(m) \in [D -> Nat]
                      /\ \A f \in fixed \cap D : l(m)[f] = label[f]
                      /\ Settled(w, fixed, label) => l(m) = label
                      /\ still(m) \/ Agreement(w, l(m)) >= Agreement(w, label) + 2}
<1>0. D \in SUBSET Nat /\ IsFiniteSet(D) /\ DOMAIN label = D /\ DOMAIN w = D
  BY DEF Weighted
<1>1. n \in Nat /\ seq \in [1 .. n -> D] /\ \A x \in D : \E i \in 1 .. n : seq[i] = x
  BY <1>0, AscendingList
<1>2. /\ l(0) = label
      /\ \A i \in 1 .. n : l(i) = Moved(w, fixed, l(i - 1), seq[i])
  BY SweepsStep
<1>3. Sweep(w, label, fixed) = l(n)
  BY <1>0, SweepUnfolds
<1>4. Agreement(w, label) \in Nat
  BY AgreementIs
<1> HIDE DEF n, seq, l
<1>5. 0 \in Good
  BY <1>2
<1>6. ASSUME NEW m \in Good PROVE m + 1 \in Good
  <2> SUFFICES ASSUME m + 1 <= n
      PROVE  /\ l(m + 1) \in [D -> Nat]
             /\ \A f \in fixed \cap D : l(m + 1)[f] = label[f]
             /\ Settled(w, fixed, label) => l(m + 1) = label
             /\ still(m + 1) \/ Agreement(w, l(m + 1)) >= Agreement(w, label) + 2
    OBVIOUS
  <2>1. m \in Nat /\ m <= n /\ m + 1 \in 1 .. n /\ (m + 1) - 1 = m
    BY <1>1
  <2>2. /\ l(m) \in [D -> Nat]
        /\ \A f \in fixed \cap D : l(m)[f] = label[f]
        /\ Settled(w, fixed, label) => l(m) = label
        /\ still(m) \/ Agreement(w, l(m)) >= Agreement(w, label) + 2
    BY <2>1
  <2> DEFINE i == seq[m + 1]
  <2>3. i \in D
    BY <1>1, <2>1
  <2>4. l(m + 1) = Moved(w, fixed, l(m), i)
    BY <1>2, <2>1
  <2> HIDE DEF i, still
  <2>5. /\ Moved(w, fixed, l(m), i) \in [D -> Nat]
        /\ \A f \in fixed \cap D : Moved(w, fixed, l(m), i)[f] = l(m)[f]
        /\ \/ Moved(w, fixed, l(m), i) = l(m) /\ (i \notin fixed => Preferred(w, l(m), i) = l(m)[i])
           \/ Agreement(w, Moved(w, fixed, l(m), i)) >= Agreement(w, l(m)) + 2
        /\ i \notin fixed /\ Preferred(w, l(m), i) = l(m)[i] => Moved(w, fixed, l(m), i) = l(m)
    BY <2>2, <2>3, MoveIs
  <2>6. \A f \in fixed \cap D : l(m + 1)[f] = label[f]
    BY <2>2, <2>4, <2>5
  <2>7. ASSUME Settled(w, fixed, label) PROVE l(m + 1) = label
    <3>1. l(m) = label
      BY <2>2, <2>7
    <3>2. i \in fixed \/ Preferred(w, label, i) = label[i]
      BY <1>0, <2>3, <2>7 DEF Settled
    <3>3. CASE i \in fixed
      BY <2>4, <3>1, <3>3 DEF Moved
    <3>4. CASE i \notin fixed
      BY <2>4, <2>5, <3>1, <3>2, <3>4
    <3> QED
      BY <3>3, <3>4
  <2>8. still(m + 1) \/ Agreement(w, l(m + 1)) >= Agreement(w, label) + 2
    <3>1. Agreement(w, l(m)) \in Nat /\ Agreement(w, l(m + 1)) \in Nat
      BY <2>2, <2>4, <2>5, AgreementIs
    <3>2. CASE Agreement(w, l(m + 1)) >= Agreement(w, l(m)) + 2
      <4>1. Agreement(w, l(m)) >= Agreement(w, label)
        <5>1. CASE still(m)
          BY <1>4, <5>1 DEF still
        <5>2. CASE Agreement(w, l(m)) >= Agreement(w, label) + 2
          BY <1>4, <3>1, <5>2
        <5> QED
          BY <2>2, <5>1, <5>2
      <4> QED
        BY <1>4, <3>1, <3>2, <4>1
    <3>3. CASE l(m + 1) = l(m) /\ (i \notin fixed => Preferred(w, l(m), i) = l(m)[i])
      <4>1. CASE still(m)
        <5>1. \A j \in 1 .. m + 1 : j \in 1 .. m \/ j = m + 1
          BY <2>1
        <5> QED
          BY <3>3, <4>1, <5>1 DEF still, i
      <4>2. CASE Agreement(w, l(m)) >= Agreement(w, label) + 2
        BY <3>3, <4>2
      <4> QED
        BY <2>2, <4>1, <4>2
    <3> QED
      BY <2>4, <2>5, <3>2, <3>3
  <2> QED
    BY <2>4, <2>5, <2>6, <2>7, <2>8
<1>7. Good = Nat
  <2>1. Good \in SUBSET Nat
    OBVIOUS
  <2> HIDE DEF Good
  <2> QED
    BY <1>5, <1>6, <2>1, CountingUp
<1>8. /\ l(n) \in [D -> Nat]
      /\ \A f \in fixed \cap D : l(n)[f] = label[f]
      /\ Settled(w, fixed, label) => l(n) = label
      /\ still(n) \/ Agreement(w, l(n)) >= Agreement(w, label) + 2
  <2>1. n \in Good
    <3> HIDE DEF Good
    <3> QED
      BY <1>1, <1>7
  <2>2. n <= n
    BY <1>1
  <2> HIDE DEF still
  <2> QED
    BY <2>1, <2>2
<1>9. still(n) => Settled(w, fixed, label)
  BY <1>0, <1>1 DEF Settled
<1> QED
  BY <1>3, <1>8, <1>9

LEMMA SweepIsTraced ==
    ASSUME NEW D, NEW w, Weighted(w, D), NEW label \in [D -> Nat], NEW fixed, NEW start,
           Traced(w, start, label)
    PROVE  Traced(w, start, Sweep(w, label, fixed))
<1> DEFINE n   == Cardinality(D)
           seq == Ascending(D)
           h   == Sweeps(w, label, fixed)
           l(m) == h[1 .. m]
           Good == {m \in Nat : m <= n => l(m) \in [D -> Nat] /\ Traced(w, start, l(m))}
<1>0. D \in SUBSET Nat /\ IsFiniteSet(D) /\ DOMAIN label = D
  BY DEF Weighted
<1>1. n \in Nat /\ seq \in [1 .. n -> D]
  BY <1>0, AscendingList
<1>2. /\ l(0) = label
      /\ \A i \in 1 .. n : l(i) = Moved(w, fixed, l(i - 1), seq[i])
  BY SweepsStep
<1>3. Sweep(w, label, fixed) = l(n)
  BY <1>0, SweepUnfolds
<1> HIDE DEF n, seq, l
<1>5. 0 \in Good
  BY <1>2
<1>6. ASSUME NEW m \in Good PROVE m + 1 \in Good
  <2> SUFFICES ASSUME m + 1 <= n PROVE l(m + 1) \in [D -> Nat] /\ Traced(w, start, l(m + 1))
    OBVIOUS
  <2>1. m \in Nat /\ m <= n /\ m + 1 \in 1 .. n /\ (m + 1) - 1 = m
    BY <1>1
  <2>2. l(m) \in [D -> Nat] /\ Traced(w, start, l(m))
    BY <2>1
  <2>3. seq[m + 1] \in D
    BY <1>1, <2>1
  <2>4. l(m + 1) = Moved(w, fixed, l(m), seq[m + 1])
    BY <1>2, <2>1
  <2>5. Moved(w, fixed, l(m), seq[m + 1]) \in [D -> Nat]
    BY <2>2, <2>3, MoveIs
  <2>6. Traced(w, start, Moved(w, fixed, l(m), seq[m + 1]))
    BY <2>2, <2>3, MoveIsTraced
  <2> QED
    BY <2>4, <2>5, <2>6
<1>7. Good = Nat
  <2>1. Good \in SUBSET Nat
    OBVIOUS
  <2> HIDE DEF Good
  <2> QED
    BY <1>5, <1>6, <2>1, CountingUp
<1>8. Traced(w, start, l(n))
  BY <1>1, <1>7
<1> QED
  BY <1>3, <1>8

-----------------------------------------------------------------------------
(* All passes *)

Passes(w, label, fixed) ==
    CHOOSE pass : pass = [k \in 0 .. MaxIters |-> IF k = 0 THEN label ELSE Sweep(w, pass[k - 1], fixed)]

LEMMA WhispersUnfold ==
    ASSUME NEW w, NEW label, NEW fixed
    PROVE  ChineseWhispers(w, label, fixed) = Passes(w, label, fixed)[MaxIters]
BY DEF ChineseWhispers, Passes

LEMMA PassesStep ==
    ASSUME NEW D, NEW w, Weighted(w, D), NEW label \in [D -> Nat], NEW fixed
    PROVE  /\ Passes(w, label, fixed)[0] = label
           /\ \A k \in 1 .. MaxIters :
                 Passes(w, label, fixed)[k] = Sweep(w, Passes(w, label, fixed)[k - 1], fixed)
<1> DEFINE n == MaxIters
           St == [D -> Nat]
           step == [l \in St |-> Sweep(w, l, fixed)]
           r == Passes(w, label, fixed)
<1>1. n \in Nat
  BY IterationBound
<1>2. step \in [St -> St] /\ \A l \in St : step[l] = Sweep(w, l, fixed)
  <2>1. ASSUME NEW l \in St PROVE Sweep(w, l, fixed) \in St
    BY SweepIs
  <2> QED
    BY <2>1
<1>3. label \in St
  OBVIOUS
<1> HIDE DEF step, St, n
<1>4. PICK it \in [0 .. n -> St] : Iterated(n, label, step, it)
  BY <1>1, <1>2, <1>3, IteratesExist
<1>5. ASSUME NEW k \in 0 .. n PROVE it[k] = IF k = 0 THEN label ELSE Sweep(w, it[k - 1], fixed)
  <2>1. CASE k = 0
    BY <1>4, <2>1 DEF Iterated
  <2>2. CASE k # 0
    <3>1. k \in 1 .. n /\ k - 1 \in 0 .. n
      BY <1>1, <2>2
    <3>2. it[k] = step[it[k - 1]] /\ it[k - 1] \in St
      BY <1>4, <3>1 DEF Iterated
    <3> QED
      BY <1>2, <2>2, <3>2
  <2> QED
    BY <2>1, <2>2
<1>6. it = [k \in 0 .. n |-> IF k = 0 THEN label ELSE Sweep(w, it[k - 1], fixed)]
  BY <1>5
<1>7. r = [k \in 0 .. n |-> IF k = 0 THEN label ELSE Sweep(w, r[k - 1], fixed)]
  <2>1. \E f : f = [k \in 0 .. n |-> IF k = 0 THEN label ELSE Sweep(w, f[k - 1], fixed)]
    BY <1>6
  <2> QED
    BY <2>1 DEF Passes, n
<1> HIDE DEF r
<1>8. r[0] = label /\ \A k \in 1 .. n : r[k] = Sweep(w, r[k - 1], fixed)
  <2>1. 0 \in 0 .. n /\ \A k \in 1 .. n : k \in 0 .. n /\ k # 0
    BY <1>1
  <2> QED
    BY <1>7, <2>1
<1> QED
  BY <1>8 DEF r, n

LEMMA WhispersRight ==
    ASSUME NEW D, NEW w, Weighted(w, D), NEW label \in [D -> Nat], NEW fixed
    PROVE  /\ ChineseWhispers(w, label, fixed) \in [D -> Nat]
           /\ WhispersAreRight(w, label, fixed)
<1> DEFINE n == MaxIters
           r == Passes(w, label, fixed)
           end == ChineseWhispers(w, label, fixed)
           Good == {k \in Nat : k <= n =>
                      /\ r[k] \in [D -> Nat]
                      /\ \A f \in fixed \cap D : r[k][f] = label[f]
                      /\ Traced(w, label, r[k])
                      /\ Settled(w, fixed, r[k]) \/ Agreement(w, r[k]) >= Agreement(w, label) + 2 * k}
<1>0. n \in Nat /\ DOMAIN w = D /\ IsFiniteSet(DOMAIN w) /\ DOMAIN label = D
  BY IterationBound DEF Weighted
<1>1. r[0] = label /\ \A k \in 1 .. n : r[k] = Sweep(w, r[k - 1], fixed)
  BY PassesStep
<1>2. end = r[n]
  BY WhispersUnfold
<1>3. Agreement(w, label) \in Nat
  BY AgreementIs
<1>4. Traced(w, label, label)
  <2>1. \A i \in DOMAIN w : i \in Component(w, i)
    BY <1>0, ComponentIs
  <2> QED
    BY <2>1 DEF Traced
<1> HIDE DEF r, n, end
<1>5. 0 \in Good
  BY <1>1, <1>3, <1>4
<1>6. ASSUME NEW k \in Good PROVE k + 1 \in Good
  <2> SUFFICES ASSUME k + 1 <= n
      PROVE  /\ r[k + 1] \in [D -> Nat]
             /\ \A f \in fixed \cap D : r[k + 1][f] = label[f]
             /\ Traced(w, label, r[k + 1])
             /\ Settled(w, fixed, r[k + 1]) \/ Agreement(w, r[k + 1]) >= Agreement(w, label) + 2 * (k + 1)
    OBVIOUS
  <2>1. k \in Nat /\ k <= n /\ k + 1 \in 1 .. n /\ (k + 1) - 1 = k
    BY <1>0
  <2>2. /\ r[k] \in [D -> Nat]
        /\ \A f \in fixed \cap D : r[k][f] = label[f]
        /\ Traced(w, label, r[k])
        /\ Settled(w, fixed, r[k]) \/ Agreement(w, r[k]) >= Agreement(w, label) + 2 * k
    BY <2>1
  <2>3. r[k + 1] = Sweep(w, r[k], fixed)
    BY <1>1, <2>1
  <2>4. /\ Sweep(w, r[k], fixed) \in [D -> Nat]
        /\ \A f \in fixed \cap D : Sweep(w, r[k], fixed)[f] = r[k][f]
        /\ Settled(w, fixed, r[k]) => Sweep(w, r[k], fixed) = r[k]
        /\ \/ Settled(w, fixed, r[k])
           \/ Agreement(w, Sweep(w, r[k], fixed)) >= Agreement(w, r[k]) + 2
    BY <2>2, SweepIs
  <2>5. Traced(w, label, Sweep(w, r[k], fixed))
    BY <2>2, SweepIsTraced
  <2>6. \A f \in fixed \cap D : r[k + 1][f] = label[f]
    BY <2>2, <2>3, <2>4
  <2>7. Settled(w, fixed, r[k + 1]) \/ Agreement(w, r[k + 1]) >= Agreement(w, label) + 2 * (k + 1)
    <3>1. CASE Settled(w, fixed, r[k])
      BY <2>3, <2>4, <3>1
    <3>2. CASE ~ Settled(w, fixed, r[k])
      <4>1. Agreement(w, r[k]) >= Agreement(w, label) + 2 * k
            /\ Agreement(w, r[k + 1]) >= Agreement(w, r[k]) + 2
        BY <2>2, <2>3, <2>4, <3>2
      <4>2. Agreement(w, r[k]) \in Nat /\ Agreement(w, r[k + 1]) \in Nat
        BY <2>2, <2>3, <2>4, AgreementIs
      <4> QED
        BY <1>3, <2>1, <4>1, <4>2
    <3> QED
      BY <3>1, <3>2
  <2> QED
    BY <2>3, <2>4, <2>5, <2>6, <2>7
<1>7. Good = Nat
  <2>1. Good \in SUBSET Nat
    OBVIOUS
  <2> HIDE DEF Good
  <2> QED
    BY <1>5, <1>6, <2>1, CountingUp
<1>8. /\ r[n] \in [D -> Nat]
      /\ \A f \in fixed \cap D : r[n][f] = label[f]
      /\ Traced(w, label, r[n])
      /\ Settled(w, fixed, r[n]) \/ Agreement(w, r[n]) >= Agreement(w, label) + 2 * n
  BY <1>0, <1>7
<1>9. \/ \A i \in DOMAIN label \ fixed : Preferred(w, end, i) = end[i]
      \/ Agreement(w, end) >= Agreement(w, label) + 2 * MaxIters
  BY <1>0, <1>2, <1>8 DEF Settled, n
<1>10. \A i \in DOMAIN label :
          /\ i \in fixed => end[i] = label[i]
          /\ \E j \in Component(w, i) : label[j] = end[i]
  BY <1>0, <1>2, <1>8 DEF Traced
<1> QED
  BY <1>2, <1>8, <1>9, <1>10 DEF WhispersAreRight, end

-----------------------------------------------------------------------------
(* Roots of a forest *)

Up(parent, x) ==
    CHOOSE up : up = [k \in 0 .. Cardinality(DOMAIN parent) |-> IF k = 0 THEN x ELSE parent[up[k - 1]]]

LEMMA RootUnfolds ==
    ASSUME NEW parent, NEW x
    PROVE  RootIn(parent, x) = Up(parent, x)[Cardinality(DOMAIN parent)]
BY DEF RootIn, Up

LEMMA NodesAreFew ==
    ASSUME NEW n \in Nat
    PROVE  IsFiniteSet(Nodes(n)) /\ Cardinality(Nodes(n)) = n /\ Nodes(n) \in SUBSET Nat
           /\ \A x \in Nodes(n) : x < n
<1>1. 0 \in Int /\ n - 1 \in Int
  OBVIOUS
<1>2. IsFiniteSet(0 .. n - 1) /\ Cardinality(0 .. n - 1) = IF 0 > n - 1 THEN 0 ELSE n - 1 - 0 + 1
  BY <1>1, FS_Interval
<1>3. Cardinality(0 .. n - 1) = n
  BY <1>2
<1> QED
  BY <1>2, <1>3 DEF Nodes

LEMMA UpSteps ==
    ASSUME NEW n \in Nat, NEW p \in [Nodes(n) -> Nodes(n)], NEW x \in Nodes(n)
    PROVE  /\ Up(p, x)[0] = x
           /\ \A k \in 1 .. n : Up(p, x)[k] = p[Up(p, x)[k - 1]]
           /\ RootIn(p, x) = Up(p, x)[n]
<1> DEFINE r == Up(p, x)
           St == Nodes(n)
<1>1. DOMAIN p = Nodes(n) /\ Cardinality(DOMAIN p) = n
  BY NodesAreFew
<1>2. PICK it \in [0 .. n -> Nodes(n)] : Iterated(n, x, p, it)
  BY IteratesExist
<1>3. ASSUME NEW k \in 0 .. n PROVE it[k] = IF k = 0 THEN x ELSE p[it[k - 1]]
  <2>1. CASE k = 0
    BY <1>2, <2>1 DEF Iterated
  <2>2. CASE k # 0
    <3>1. k \in 1 .. n
      BY <2>2
    <3> QED
      BY <1>2, <2>2, <3>1 DEF Iterated
  <2> QED
    BY <2>1, <2>2
<1>4. it = [k \in 0 .. n |-> IF k = 0 THEN x ELSE p[it[k - 1]]]
  BY <1>3
<1>5. r = [k \in 0 .. n |-> IF k = 0 THEN x ELSE p[r[k - 1]]]
  <2>1. \E f : f = [k \in 0 .. n |-> IF k = 0 THEN x ELSE p[f[k - 1]]]
    BY <1>4
  <2> QED
    BY <1>1, <2>1 DEF Up
<1> HIDE DEF r
<1>6. r[0] = x /\ \A k \in 1 .. n : r[k] = p[r[k - 1]]
  <2>1. 0 \in 0 .. n /\ \A k \in 1 .. n : k \in 0 .. n /\ k # 0
    OBVIOUS
  <2> QED
    BY <1>5, <2>1
<1>7. RootIn(p, x) = r[n]
  BY <1>1, RootUnfolds DEF r
<1> QED
  BY <1>6, <1>7 DEF r

(* What no parent leads out of, holds the root.                            *)
LEMMA RootStays ==
    ASSUME NEW n \in Nat, NEW p \in [Nodes(n) -> Nodes(n)], NEW T \in SUBSET Nodes(n),
           \A y \in T : p[y] \in T, NEW x \in T
    PROVE  RootIn(p, x) \in T
<1> DEFINE r == Up(p, x)
           Good == {k \in Nat : k <= n => r[k] \in T}
<1>1. r[0] = x /\ (\A k \in 1 .. n : r[k] = p[r[k - 1]]) /\ RootIn(p, x) = r[n]
  BY UpSteps
<1> HIDE DEF r
<1>2. 0 \in Good
  BY <1>1
<1>3. ASSUME NEW k \in Good PROVE k + 1 \in Good
  <2> SUFFICES ASSUME k + 1 <= n PROVE r[k + 1] \in T
    OBVIOUS
  <2>1. k \in Nat /\ k + 1 \in 1 .. n /\ k <= n /\ (k + 1) - 1 = k
    OBVIOUS
  <2>2. r[k] \in T /\ r[k + 1] = p[r[k]]
    BY <1>1, <2>1
  <2> QED
    BY <2>2
<1>4. Good = Nat
  <2>1. Good \in SUBSET Nat
    OBVIOUS
  <2> HIDE DEF Good
  <2> QED
    BY <1>2, <1>3, <2>1, CountingUp
<1>5. r[n] \in T
  BY <1>4
<1> QED
  BY <1>1, <1>5

(* Parents are not above their children.                                   *)
Forest(n, p) == p \in [Nodes(n) -> Nodes(n)] /\ \A x \in Nodes(n) : p[x] <= x

LEMMA RootIs ==
    ASSUME NEW n \in Nat, NEW p, Forest(n, p), NEW x \in Nodes(n)
    PROVE  /\ RootIn(p, x) \in Nodes(n) /\ RootIn(p, x) <= x
           /\ p[RootIn(p, x)] = RootIn(p, x)
<1> DEFINE D == Nodes(n)
           r == Up(p, x)
           T == {y \in D : y <= x}
           Good == {k \in Nat : k <= n => r[k] \in D /\ (p[r[k]] = r[k] \/ r[k] + k <= x)}
<1>1. p \in [Nodes(n) -> Nodes(n)] /\ \A y \in Nodes(n) : p[y] <= y
  BY DEF Forest
<1>2. r[0] = x /\ (\A k \in 1 .. n : r[k] = p[r[k - 1]]) /\ RootIn(p, x) = r[n]
  BY <1>1, UpSteps
<1>3. D \in SUBSET Nat /\ \A y \in D : y < n
  BY NodesAreFew
<1>4. RootIn(p, x) \in T
  <2>1. T \in SUBSET Nodes(n) /\ x \in T
    BY <1>3
  <2>2. \A y \in T : p[y] \in T
    BY <1>1, <1>3
  <2> HIDE DEF T
  <2> QED
    BY <1>1, <2>1, <2>2, RootStays
<1> HIDE DEF r
<1>5. 0 \in Good
  BY <1>2, <1>3
<1>6. ASSUME NEW k \in Good PROVE k + 1 \in Good
  <2> SUFFICES ASSUME k + 1 <= n
               PROVE r[k + 1] \in D /\ (p[r[k + 1]] = r[k + 1] \/ r[k + 1] + (k + 1) <= x)
    OBVIOUS
  <2>1. k \in Nat /\ k + 1 \in 1 .. n /\ k <= n /\ (k + 1) - 1 = k
    OBVIOUS
  <2>2. r[k] \in D /\ (p[r[k]] = r[k] \/ r[k] + k <= x) /\ r[k + 1] = p[r[k]]
    BY <1>2, <2>1
  <2>3. r[k + 1] \in D /\ r[k + 1] <= r[k] /\ r[k] \in Nat /\ r[k + 1] \in Nat
    BY <1>1, <1>3, <2>2
  <2>4. CASE p[r[k]] = r[k]
    BY <2>2, <2>3, <2>4
  <2>5. CASE p[r[k]] # r[k]
    <3>1. r[k] + k <= x /\ r[k + 1] # r[k]
      BY <2>2, <2>5
    <3>2. r[k + 1] + (k + 1) <= x
      BY <1>3, <2>1, <2>3, <3>1
    <3> QED
      BY <2>3, <3>2
  <2> QED
    BY <2>4, <2>5
<1>7. Good = Nat
  <2>1. Good \in SUBSET Nat
    OBVIOUS
  <2> HIDE DEF Good
  <2> QED
    BY <1>5, <1>6, <2>1, CountingUp
<1>8. r[n] \in D /\ (p[r[n]] = r[n] \/ r[n] + n <= x)
  BY <1>7
<1>9. ~ r[n] + n <= x
  <2>1. r[n] \in Nat /\ x \in Nat /\ x < n
    BY <1>3, <1>8
  <2> QED
    BY <2>1
<1> QED
  BY <1>2, <1>4, <1>8, <1>9

LEMMA RootOfRoot ==
    ASSUME NEW n \in Nat, NEW p, Forest(n, p), NEW x \in Nodes(n), p[x] = x
    PROVE  RootIn(p, x) = x
<1>1. {x} \in SUBSET Nodes(n) /\ \A y \in {x} : p[y] \in {x}
  OBVIOUS
<1>2. RootIn(p, x) \in {x}
  BY <1>1, RootStays DEF Forest
<1> QED
  BY <1>2

LEMMA RootOfParent ==
    ASSUME NEW n \in Nat, NEW p, Forest(n, p), NEW x \in Nodes(n)
    PROVE  RootIn(p, p[x]) = RootIn(p, x)
<1> DEFINE r == Up(p, x)
           s == Up(p, p[x])
           Good == {k \in Nat : k <= n => s[k] = p[r[k]]}
<1>1. p \in [Nodes(n) -> Nodes(n)] /\ p[x] \in Nodes(n)
  BY DEF Forest
<1>2. r[0] = x /\ (\A k \in 1 .. n : r[k] = p[r[k - 1]]) /\ RootIn(p, x) = r[n]
  BY <1>1, UpSteps
<1>3. s[0] = p[x] /\ (\A k \in 1 .. n : s[k] = p[s[k - 1]]) /\ RootIn(p, p[x]) = s[n]
  BY <1>1, UpSteps
<1> HIDE DEF r, s
<1>4. 0 \in Good
  BY <1>2, <1>3
<1>5. ASSUME NEW k \in Good PROVE k + 1 \in Good
  <2> SUFFICES ASSUME k + 1 <= n PROVE s[k + 1] = p[r[k + 1]]
    OBVIOUS
  <2>1. k \in Nat /\ k + 1 \in 1 .. n /\ k <= n /\ (k + 1) - 1 = k
    OBVIOUS
  <2>2. s[k] = p[r[k]] /\ s[k + 1] = p[s[k]] /\ r[k + 1] = p[r[k]]
    BY <1>2, <1>3, <2>1
  <2> QED
    BY <2>2
<1>6. Good = Nat
  <2>1. Good \in SUBSET Nat
    OBVIOUS
  <2> HIDE DEF Good
  <2> QED
    BY <1>4, <1>5, <2>1, CountingUp
<1>7. s[n] = p[r[n]]
  BY <1>6
<1> QED
  BY <1>2, <1>3, <1>7, RootIs

-----------------------------------------------------------------------------
(* Uniting two trees *)

Hang(p, hi, lo) == [p EXCEPT ![hi] = lo]

LEMMA Hung ==
    ASSUME NEW n \in Nat, NEW p, Forest(n, p), NEW hi \in Nodes(n), NEW lo \in Nodes(n),
           p[hi] = hi, p[lo] = lo, lo <= hi
    PROVE  /\ Forest(n, Hang(p, hi, lo))
           /\ \A x \in Nodes(n) : RootIn(Hang(p, hi, lo), x) = IF RootIn(p, x) = hi THEN lo ELSE RootIn(p, x)
<1> DEFINE q == Hang(p, hi, lo)
           S(y) == IF RootIn(p, y) = hi THEN lo ELSE RootIn(p, y)
<1>1. p \in [Nodes(n) -> Nodes(n)] /\ \A y \in Nodes(n) : p[y] <= y
  BY DEF Forest
<1>2. q \in [Nodes(n) -> Nodes(n)] /\ q[hi] = lo /\ \A y \in Nodes(n) \ {hi} : q[y] = p[y]
  BY <1>1 DEF Hang
<1> HIDE DEF q
<1>3. Forest(n, q)
  BY <1>1, <1>2 DEF Forest
<1>4. RootIn(p, hi) = hi /\ RootIn(p, lo) = lo
  BY RootOfRoot
<1>5. ASSUME NEW x \in Nodes(n) PROVE RootIn(q, x) = S(x)
  <2> DEFINE T == {y \in Nodes(n) : S(y) = S(x)}
  <2>1. x \in T /\ T \in SUBSET Nodes(n)
    OBVIOUS
  <2>2. ASSUME NEW y \in T PROVE q[y] \in T
    <3>1. y \in Nodes(n) /\ S(y) = S(x) /\ q[y] \in Nodes(n)
      BY <1>2
    <3>2. CASE y = hi
      BY <1>2, <1>4, <3>1, <3>2
    <3>3. CASE y # hi
      <4>1. q[y] = p[y] /\ RootIn(p, p[y]) = RootIn(p, y)
        BY <1>2, <3>1, <3>3, RootOfParent
      <4> QED
        BY <3>1, <4>1
    <3> QED
      BY <3>2, <3>3
  <2> HIDE DEF T
  <2>3. RootIn(q, x) \in T
    BY <1>2, <2>1, <2>2, RootStays
  <2>4. S(RootIn(q, x)) = S(x) /\ RootIn(q, x) \in Nodes(n)
    BY <2>3 DEF T
  <2>5. q[RootIn(q, x)] = RootIn(q, x)
    BY <1>3, RootIs
  <2>6. CASE RootIn(q, x) = hi
    BY <1>2, <1>4, <2>4, <2>5, <2>6
  <2>7. CASE RootIn(q, x) # hi
    <3>1. p[RootIn(q, x)] = RootIn(q, x)
      BY <1>2, <2>4, <2>5, <2>7
    <3>2. RootIn(p, RootIn(q, x)) = RootIn(q, x)
      BY <2>4, <3>1, RootOfRoot
    <3> QED
      BY <2>4, <2>7, <3>2
  <2> QED
    BY <2>6, <2>7
<1> QED
  BY <1>3, <1>5 DEF q

LEMMA UniteIs ==
    ASSUME NEW n \in Nat, NEW p, Forest(n, p), NEW a \in Nodes(n), NEW b \in Nodes(n)
    PROVE  /\ Forest(n, Unite(p, a, b))
           /\ RootIn(Unite(p, a, b), a) = RootIn(Unite(p, a, b), b)
           /\ \A x, y \in Nodes(n) :
                 RootIn(p, x) = RootIn(p, y) => RootIn(Unite(p, a, b), x) = RootIn(Unite(p, a, b), y)
           /\ \A x \in Nodes(n) : \/ Unite(p, a, b)[x] = p[x]
                                  \/ x = RootIn(p, a) /\ Unite(p, a, b)[x] = RootIn(p, b)
                                  \/ x = RootIn(p, b) /\ Unite(p, a, b)[x] = RootIn(p, a)
<1> DEFINE ra == RootIn(p, a)
           rb == RootIn(p, b)
           q == Unite(p, a, b)
<1>1. /\ ra \in Nodes(n) /\ p[ra] = ra
      /\ rb \in Nodes(n) /\ p[rb] = rb
  BY RootIs
<1>2. q = IF ra < rb THEN Hang(p, rb, ra) ELSE Hang(p, ra, rb)
  BY DEF Unite, Hang
<1>3. ra \in Nat /\ rb \in Nat
  BY <1>1, NodesAreFew
<1>4. RootIn(p, a) = ra /\ RootIn(p, b) = rb /\ p \in [Nodes(n) -> Nodes(n)]
  BY DEF Forest
<1> HIDE DEF ra, rb, q
<1>5. CASE ra < rb
  <2>1. q = Hang(p, rb, ra) /\ ra <= rb
    BY <1>2, <1>3, <1>5
  <2>2. /\ Forest(n, q)
        /\ \A x \in Nodes(n) : RootIn(q, x) = IF RootIn(p, x) = rb THEN ra ELSE RootIn(p, x)
    BY <1>1, <2>1, Hung
  <2> QED
    BY <1>4, <2>1, <2>2 DEF Hang, Forest, q
<1>6. CASE ~ ra < rb
  <2>1. q = Hang(p, ra, rb) /\ rb <= ra
    BY <1>2, <1>3, <1>6
  <2>2. /\ Forest(n, q)
        /\ \A x \in Nodes(n) : RootIn(q, x) = IF RootIn(p, x) = ra THEN rb ELSE RootIn(p, x)
    BY <1>1, <2>1, Hung
  <2> QED
    BY <1>4, <2>1, <2>2 DEF Hang, Forest, q
<1> QED
  BY <1>5, <1>6

-----------------------------------------------------------------------------
(* All unions *)

Joined(p, u) == Unite(p, u[1], u[2])

Apart(n) == [x \in Nodes(n) |-> x]

(* The forest after the pairs whose places are in a set.                   *)
Joins(n, pairs) ==
    CHOOSE iter : iter = [s \in SUBSET (DOMAIN pairs) |->
        IF s = {} THEN Apart(n) ELSE Joined(iter[s \ {Max(s)}], pairs[Max(s)])]

Edges(n, pairs) ==
    [i \in Nodes(n) |-> [j \in Nodes(n) |-> IF \E u \in ToSet(pairs) : {i, j} = {u[1], u[2]} THEN 1 ELSE 0]]

Least(s) == CHOOSE m \in s : \A k \in s : m <= k

LEMMA UnionsUnfold ==
    ASSUME NEW n, NEW pairs
    PROVE  UnionIsRight(n, pairs) <=>
              \A i \in Nodes(n) :
                 RootIn(Joins(n, pairs)[DOMAIN pairs], i) = Least(Component(Edges(n, pairs), i))
BY DEF UnionIsRight, FoldLeft, MapThenFoldSet, Joins, Joined, Apart, Edges, Least

LEMMA JoinsStep ==
    ASSUME NEW n \in Nat, NEW pairs \in Seq(Nodes(n) \X Nodes(n))
    PROVE  /\ Joins(n, pairs)[1 .. 0] = Apart(n)
           /\ \A i \in 1 .. Len(pairs) :
                 Joins(n, pairs)[1 .. i] = Joined(Joins(n, pairs)[1 .. i - 1], pairs[i])
<1> DEFINE m    == Len(pairs)
           St   == {p \in [Nodes(n) -> Nodes(n)] : Forest(n, p)}
           step == [q \in St \X (1 .. m) |-> Joined(q[1], pairs[q[2]])]
           push(g, s) == IF s = {} THEN Apart(n) ELSE Joined(g[s \ {Max(s)}], pairs[Max(s)])
           h == Joins(n, pairs)
<1>1. m \in Nat /\ DOMAIN pairs = 1 .. m
      /\ \A i \in 1 .. m : pairs[i][1] \in Nodes(n) /\ pairs[i][2] \in Nodes(n)
  OBVIOUS
<1>2. Apart(n) \in St
  <2>1. Apart(n) \in [Nodes(n) -> Nodes(n)] /\ \A x \in Nodes(n) : Apart(n)[x] = x /\ x <= x
    BY NodesAreFew DEF Apart
  <2> QED
    BY <2>1 DEF Forest
<1> HIDE DEF m
<1>3. \A p \in St, i \in 1 .. m : step[<<p, i>>] = Joined(p, pairs[i])
  OBVIOUS
<1>4. step \in [St \X (1 .. m) -> St]
  <2>1. ASSUME NEW p \in St, NEW i \in 1 .. m PROVE Joined(p, pairs[i]) \in St
    <3>1. Forest(n, Unite(p, pairs[i][1], pairs[i][2]))
      BY <1>1, UniteIs
    <3> QED
      BY <3>1 DEF Joined, Forest
  <2>2. ASSUME NEW q \in St \X (1 .. m) PROVE Joined(q[1], pairs[q[2]]) \in St
    <3>1. q[1] \in St /\ q[2] \in 1 .. m
      OBVIOUS
    <3> HIDE DEF St
    <3> QED
      BY <2>1, <3>1
  <2> QED
    BY <2>2
<1> HIDE DEF St, step
<1>5. PICK it \in [SUBSET (1 .. m) -> St] : Stepped(m, Apart(n), step, it)
  BY <1>1, <1>2, <1>4, StepsExist
<1>6. ASSUME NEW s \in SUBSET (1 .. m) PROVE it[s] = push(it, s)
  <2>1. it[s] = IF s = {} THEN Apart(n) ELSE step[<<it[s \ {Max(s)}], Max(s)>>]
    BY <1>5 DEF Stepped
  <2>2. CASE s = {}
    BY <2>1, <2>2
  <2>3. CASE s # {}
    <3>1. Max(s) \in 1 .. m /\ s \ {Max(s)} \in SUBSET (1 .. m)
      BY <1>1, <2>3, MaxOfPlaces
    <3>2. it[s \ {Max(s)}] \in St
      BY <3>1
    <3> QED
      BY <1>3, <2>1, <2>3, <3>1, <3>2
  <2> QED
    BY <2>2, <2>3
<1>7. it = [s \in SUBSET (1 .. m) |-> push(it, s)]
  BY <1>6
<1>8. h = [s \in SUBSET (1 .. m) |-> push(h, s)]
  <2>1. \E iter : iter = [s \in SUBSET (1 .. m) |-> push(iter, s)]
    BY <1>7
  <2>2. h = CHOOSE iter : iter = [s \in SUBSET (1 .. m) |-> push(iter, s)]
    BY <1>1 DEF Joins
  <2> QED
    BY <2>1, <2>2
<1> HIDE DEF h
<1>9. h[1 .. 0] = Apart(n)
  BY <1>8
<1>10. ASSUME NEW i \in 1 .. m PROVE h[1 .. i] = Joined(h[1 .. i - 1], pairs[i])
  <2>1. 1 .. i \in SUBSET (1 .. m) /\ 1 .. i # {} /\ Max(1 .. i) = i /\ (1 .. i) \ {i} = 1 .. i - 1
    BY <1>1, StepsInOrder
  <2>2. h[1 .. i] = push(h, 1 .. i)
    BY <1>8, <2>1
  <2> QED
    BY <2>1, <2>2
<1> QED
  BY <1>9, <1>10 DEF h, m

(* Two nodes that a pair names.                                            *)
Linked(pairs, i, j) == \E u \in ToSet(pairs) : {i, j} = {u[1], u[2]}

Ends(u, i, j) == \/ i = u[1] /\ j = u[2]
                 \/ i = u[2] /\ j = u[1]

LEMMA LinksAre ==
    ASSUME NEW pairs, NEW i, NEW j
    PROVE  /\ Linked(pairs, i, j) <=> \E k \in DOMAIN pairs : Ends(pairs[k], i, j)
           /\ Linked(pairs, i, j) => Linked(pairs, j, i)
<1>1. \A u : {i, j} = {u[1], u[2]} <=> Ends(u, i, j)
  BY DEF Ends
<1>2. \A u : Ends(u, i, j) => {j, i} = {u[1], u[2]}
  BY DEF Ends
<1>3. ToSet(pairs) = {pairs[k] : k \in DOMAIN pairs}
  BY DEF ToSet
<1>4. Linked(pairs, i, j) <=> \E u \in ToSet(pairs) : Ends(u, i, j)
  BY <1>1 DEF Linked
<1>5. (\E u \in ToSet(pairs) : Ends(u, i, j)) <=> \E k \in DOMAIN pairs : Ends(pairs[k], i, j)
  BY <1>3
<1>6. (\E u \in ToSet(pairs) : Ends(u, i, j)) => Linked(pairs, j, i)
  BY <1>2 DEF Linked
<1> QED
  BY <1>4, <1>5, <1>6

LEMMA EdgesAre ==
    ASSUME NEW n \in Nat, NEW pairs \in Seq(Nodes(n) \X Nodes(n))
    PROVE  /\ DOMAIN Edges(n, pairs) = Nodes(n) /\ IsFiniteSet(DOMAIN Edges(n, pairs))
           /\ Mutual(Edges(n, pairs))
           /\ \A k \in DOMAIN pairs : Edges(n, pairs)[pairs[k][1]][pairs[k][2]] > 0
           /\ \A i, j \in Nodes(n) : Edges(n, pairs)[i][j] > 0 => \E k \in DOMAIN pairs : Ends(pairs[k], i, j)
<1> DEFINE w == Edges(n, pairs)
<1>1. DOMAIN w = Nodes(n) /\ IsFiniteSet(DOMAIN w)
  BY NodesAreFew DEF Edges
<1>2. \A i, j \in Nodes(n) : w[i][j] = IF Linked(pairs, i, j) THEN 1 ELSE 0
  BY DEF Edges, Linked
<1>3. \A k \in DOMAIN pairs : pairs[k][1] \in Nodes(n) /\ pairs[k][2] \in Nodes(n)
  OBVIOUS
<1> HIDE DEF w
<1>4. \A i, j \in Nodes(n) : w[i][j] > 0 <=> Linked(pairs, i, j)
  BY <1>2
<1>5. \A i, j \in Nodes(n) : w[i][j] > 0 => w[j][i] > 0
  BY <1>4, LinksAre
<1>6. \A i, j \in Nodes(n) : w[i][j] > 0 => \E k \in DOMAIN pairs : Ends(pairs[k], i, j)
  BY <1>4, LinksAre
<1>7. \A k \in DOMAIN pairs : w[pairs[k][1]][pairs[k][2]] > 0
  <2>1. \A k \in DOMAIN pairs : Ends(pairs[k], pairs[k][1], pairs[k][2])
    BY DEF Ends
  <2>2. \A k \in DOMAIN pairs : Linked(pairs, pairs[k][1], pairs[k][2])
    BY <2>1, LinksAre
  <2> QED
    BY <1>3, <1>4, <2>2
<1> QED
  BY <1>1, <1>5, <1>6, <1>7 DEF Mutual, w

(* Parents are connected to their children.                                *)
Grows(n, w, p) == \A x \in Nodes(n) : p[x] \in Component(w, x)

LEMMA RootsGrow ==
    ASSUME NEW n \in Nat, NEW w, DOMAIN w = Nodes(n), IsFiniteSet(DOMAIN w),
           NEW p, Forest(n, p), Grows(n, w, p), NEW x \in Nodes(n)
    PROVE  RootIn(p, x) \in Component(w, x)
<1> DEFINE T == Component(w, x)
<1>1. x \in T /\ T \in SUBSET Nodes(n)
  BY ComponentIs
<1>2. ASSUME NEW y \in T PROVE p[y] \in T
  <2>1. Component(w, y) \subseteq T
    BY ComponentsJoin
  <2>2. y \in Nodes(n)
    BY <1>1
  <2> QED
    BY <2>1, <2>2 DEF Grows
<1> HIDE DEF T
<1>3. p \in [Nodes(n) -> Nodes(n)]
  BY DEF Forest
<1>4. RootIn(p, x) \in T
  BY <1>1, <1>2, <1>3, RootStays
<1> QED
  BY <1>4 DEF T

LEMMA UniteGrows ==
    ASSUME NEW n \in Nat, NEW w, DOMAIN w = Nodes(n), IsFiniteSet(DOMAIN w), Mutual(w),
           NEW p, Forest(n, p), Grows(n, w, p), NEW a \in Nodes(n), NEW b \in Nodes(n), w[a][b] > 0
    PROVE  Grows(n, w, Unite(p, a, b))
<1> DEFINE ra == RootIn(p, a)
           rb == RootIn(p, b)
<1>1. ra \in Component(w, a) /\ rb \in Component(w, b)
  BY RootsGrow
<1>2. a \in Component(w, ra) /\ b \in Component(w, rb)
  BY <1>1, ComponentsAreMutual
<1>3. ra \in Nodes(n) /\ rb \in Nodes(n)
  BY RootIs
<1>4. b \in Component(w, a) /\ a \in Component(w, b)
  <2>1. w[b][a] > 0
    BY DEF Mutual
  <2>2. a \in Component(w, a) /\ Closed(w, Component(w, a)) /\ b \in Component(w, b) /\ Closed(w, Component(w, b))
    BY ComponentIs
  <2> QED
    BY <2>1, <2>2 DEF Closed
<1> HIDE DEF ra, rb
<1>5. rb \in Component(w, ra)
  <2>1. Component(w, a) \subseteq Component(w, ra)
    BY <1>2, <1>3, ComponentsJoin
  <2>2. Component(w, b) \subseteq Component(w, a)
    BY <1>4, ComponentsJoin
  <2> QED
    BY <1>1, <2>1, <2>2
<1>6. ra \in Component(w, rb)
  <2>1. Component(w, b) \subseteq Component(w, rb)
    BY <1>2, <1>3, ComponentsJoin
  <2>2. Component(w, a) \subseteq Component(w, b)
    BY <1>4, ComponentsJoin
  <2> QED
    BY <1>1, <2>1, <2>2
<1>7. \A x \in Nodes(n) : \/ Unite(p, a, b)[x] = p[x]
                          \/ x = ra /\ Unite(p, a, b)[x] = rb
                          \/ x = rb /\ Unite(p, a, b)[x] = ra
  BY UniteIs DEF ra, rb
<1>8. \A x \in Nodes(n) : p[x] \in Component(w, x)
  BY DEF Grows
<1>9. \A x \in Nodes(n) : Unite(p, a, b)[x] \in Component(w, x)
  BY <1>5, <1>6, <1>7, <1>8
<1> QED
  BY <1>9 DEF Grows

(* The first m pairs are each in one tree.                                 *)
Together(pairs, p, m) == \A k \in 1 .. m : RootIn(p, pairs[k][1]) = RootIn(p, pairs[k][2])

LEMMA JoinsAre ==
    ASSUME NEW n \in Nat, NEW pairs \in Seq(Nodes(n) \X Nodes(n))
    PROVE  /\ Forest(n, Joins(n, pairs)[DOMAIN pairs])
           /\ Grows(n, Edges(n, pairs), Joins(n, pairs)[DOMAIN pairs])
           /\ Together(pairs, Joins(n, pairs)[DOMAIN pairs], Len(pairs))
<1> DEFINE m == Len(pairs)
           w == Edges(n, pairs)
           h == Joins(n, pairs)
           f(k) == h[1 .. k]
           Good == {k \in Nat : k <= m => Forest(n, f(k)) /\ Grows(n, w, f(k)) /\ Together(pairs, f(k), k)}
<1>1. m \in Nat /\ DOMAIN pairs = 1 .. m
      /\ \A i \in 1 .. m : pairs[i][1] \in Nodes(n) /\ pairs[i][2] \in Nodes(n)
  OBVIOUS
<1>2. f(0) = Apart(n) /\ \A i \in 1 .. m : f(i) = Joined(f(i - 1), pairs[i])
  BY JoinsStep
<1>3. DOMAIN w = Nodes(n) /\ IsFiniteSet(DOMAIN w) /\ Mutual(w)
      /\ \A k \in 1 .. m : w[pairs[k][1]][pairs[k][2]] > 0
  BY <1>1, EdgesAre
<1> HIDE DEF m, w, f
<1>4. 0 \in Good
  <2>1. Apart(n) \in [Nodes(n) -> Nodes(n)] /\ \A x \in Nodes(n) : Apart(n)[x] = x /\ x <= x
    BY NodesAreFew DEF Apart
  <2>2. Forest(n, f(0))
    BY <1>2, <2>1 DEF Forest
  <2>3. \A x \in Nodes(n) : x \in Component(w, x)
    BY <1>3, ComponentIs
  <2>4. Grows(n, w, f(0))
    BY <1>2, <2>1, <2>3 DEF Grows
  <2>5. Together(pairs, f(0), 0)
    BY DEF Together
  <2> QED
    BY <2>2, <2>4, <2>5
<1>5. ASSUME NEW k \in Good PROVE k + 1 \in Good
  <2> SUFFICES ASSUME k + 1 <= m
               PROVE Forest(n, f(k + 1)) /\ Grows(n, w, f(k + 1)) /\ Together(pairs, f(k + 1), k + 1)
    OBVIOUS
  <2>1. k \in Nat /\ k <= m /\ k + 1 \in 1 .. m /\ (k + 1) - 1 = k
    BY <1>1
  <2>2. Forest(n, f(k)) /\ Grows(n, w, f(k)) /\ Together(pairs, f(k), k)
    BY <2>1
  <2> DEFINE a == pairs[k + 1][1]
             b == pairs[k + 1][2]
  <2>3. a \in Nodes(n) /\ b \in Nodes(n) /\ w[a][b] > 0
    BY <1>1, <1>3, <2>1
  <2>4. f(k + 1) = Unite(f(k), a, b)
    BY <1>2, <2>1 DEF Joined
  <2> HIDE DEF a, b
  <2>5. /\ Forest(n, Unite(f(k), a, b))
        /\ RootIn(Unite(f(k), a, b), a) = RootIn(Unite(f(k), a, b), b)
    BY <2>2, <2>3, UniteIs
  <2>6. \A x, y \in Nodes(n) :
           RootIn(f(k), x) = RootIn(f(k), y) => RootIn(Unite(f(k), a, b), x) = RootIn(Unite(f(k), a, b), y)
    BY <2>2, <2>3, UniteIs
  <2>7. Grows(n, w, Unite(f(k), a, b))
    BY <1>3, <2>2, <2>3, UniteGrows
  <2>8. Together(pairs, f(k + 1), k + 1)
    <3>1. ASSUME NEW i \in 1 .. k + 1 PROVE RootIn(f(k + 1), pairs[i][1]) = RootIn(f(k + 1), pairs[i][2])
      <4>1. CASE i = k + 1
        BY <2>4, <2>5, <4>1 DEF a, b
      <4>2. CASE i # k + 1
        <5>1. i \in 1 .. k /\ i \in 1 .. m
          BY <1>1, <2>1, <4>2
        <5>2. RootIn(f(k), pairs[i][1]) = RootIn(f(k), pairs[i][2])
          BY <2>2, <5>1 DEF Together
        <5>3. pairs[i][1] \in Nodes(n) /\ pairs[i][2] \in Nodes(n)
          BY <1>1, <5>1
        <5> QED
          BY <2>4, <2>6, <5>2, <5>3
      <4> QED
        BY <4>1, <4>2
    <3> QED
      BY <3>1 DEF Together
  <2> QED
    BY <2>4, <2>5, <2>7, <2>8
<1>6. Good = Nat
  <2>1. Good \in SUBSET Nat
    OBVIOUS
  <2> HIDE DEF Good
  <2> QED
    BY <1>4, <1>5, <2>1, CountingUp
<1>7. m \in Good
  <2> HIDE DEF Good
  <2> QED
    BY <1>1, <1>6
<1>8. m <= m
  BY <1>1
<1>9. Forest(n, f(m)) /\ Grows(n, w, f(m)) /\ Together(pairs, f(m), m)
  BY <1>7, <1>8
<1>10. f(m) = Joins(n, pairs)[DOMAIN pairs]
  BY <1>1 DEF f
<1> QED
  BY <1>9, <1>10 DEF m, w

(* Unions group what they connect, under the smallest node.                *)
LEMMA UnionsRight ==
    ASSUME NEW n \in Nat, NEW pairs \in Seq(Nodes(n) \X Nodes(n))
    PROVE  UnionIsRight(n, pairs)
<1> DEFINE w == Edges(n, pairs)
           p == Joins(n, pairs)[DOMAIN pairs]
<1>1. DOMAIN w = Nodes(n) /\ IsFiniteSet(DOMAIN w) /\ Mutual(w)
  BY EdgesAre
<1>2. \A i, j \in Nodes(n) : w[i][j] > 0 => \E k \in DOMAIN pairs : Ends(pairs[k], i, j)
  BY EdgesAre
<1>3. Forest(n, p) /\ Grows(n, w, p)
  BY JoinsAre
<1>4. \A k \in DOMAIN pairs : RootIn(p, pairs[k][1]) = RootIn(p, pairs[k][2])
  <2>1. Together(pairs, p, Len(pairs)) /\ DOMAIN pairs = 1 .. Len(pairs)
    BY JoinsAre
  <2> HIDE DEF p
  <2> QED
    BY <2>1 DEF Together
<1> HIDE DEF w, p
<1>5. ASSUME NEW i \in Nodes(n) PROVE RootIn(p, i) = Least(Component(w, i))
  <2> DEFINE T == {y \in Nodes(n) : RootIn(p, y) = RootIn(p, i)}
             C == Component(w, i)
  <2>1. RootIn(p, i) \in C
    BY <1>1, <1>3, RootsGrow
  <2>2. ASSUME NEW x \in T, NEW y \in Nodes(n), w[x][y] > 0 PROVE y \in T
    <3>0. x \in Nodes(n)
      OBVIOUS
    <3>1. PICK k \in DOMAIN pairs : Ends(pairs[k], x, y)
      BY <1>2, <2>2, <3>0
    <3>2. (x = pairs[k][1] /\ y = pairs[k][2]) \/ (x = pairs[k][2] /\ y = pairs[k][1])
      BY <3>1 DEF Ends
    <3>3. RootIn(p, x) = RootIn(p, y)
      BY <1>4, <3>2
    <3> QED
      BY <3>3
  <2>3. i \in T /\ Closed(w, T)
    BY <1>1, <2>2 DEF Closed
  <2> HIDE DEF T
  <2>4. C \subseteq T
    BY <1>1, <2>3, ComponentIsLeast
  <2>5. ASSUME NEW k \in C PROVE RootIn(p, i) <= k
    <3>1. k \in Nodes(n) /\ RootIn(p, k) = RootIn(p, i)
      BY <2>4 DEF T
    <3>2. RootIn(p, k) <= k
      BY <1>3, <3>1, RootIs
    <3> QED
      BY <3>1, <3>2
  <2>6. C \subseteq Nat
    <3>1. C \subseteq Nodes(n)
      BY <1>1, ComponentIs
    <3> QED
      BY <3>1, NodesAreFew
  <2> HIDE DEF C
  <2>7. Least(C) \in C /\ \A k \in C : Least(C) <= k
    BY <2>1, <2>5 DEF Least
  <2>8. Least(C) <= RootIn(p, i) /\ RootIn(p, i) <= Least(C)
    BY <2>1, <2>5, <2>7
  <2>9. Least(C) \in Nat /\ RootIn(p, i) \in Nat
    BY <2>1, <2>6, <2>7
  <2> QED
    BY <2>8, <2>9 DEF C
<1> QED
  BY <1>5, UnionsUnfold DEF w, p

-----------------------------------------------------------------------------
(* A graph under the job *)

LEMMA GraphClustered ==
    ASSUME NEW g, IsGraph(g)
    PROVE  GraphIsClustered(g)
<1> DEFINE D     == Nodes(g.n)
           w     == SymmetrizeKnn(g.near, g.n, g.floor, g.eligible)
           label == StartLabels(g.n, g.pinned)
           fixed == FixedNodes(g.n, g.eligible, g.pinned)
           end   == ChineseWhispers(w, label, fixed)
           few   == [i \in g.eligible |-> end[i]]
<1>1. /\ g.n \in Nat /\ g.floor \in Nat \ {0}
      /\ \A i, j \in Nodes(g.n) : g.near[i][j] \in Nat
      /\ g.eligible \subseteq D
      /\ \A i \in DOMAIN g.pinned : g.pinned[i] \in Nat
  BY DEF IsGraph
<1>2. IsFiniteSet(D) /\ D \in SUBSET Nat
  BY <1>1, NodesAreFew
<1>3. Weighted(w, D)
  BY <1>1, GraphIsWeighted
<1>4. label \in [D -> Nat]
  BY <1>1, <1>2 DEF StartLabels
<1>5. GraphIsRight(g.near, g.n, g.floor, g.eligible)
  BY <1>1, GraphRight
<1>6. GraphIsClustered(g) <=>
         /\ GraphIsRight(g.near, g.n, g.floor, g.eligible)
         /\ WhispersAreRight(w, label, fixed)
         /\ CompactIsRight(few)
  BY DEF GraphIsClustered
<1> HIDE DEF w, label, fixed
<1>7. end \in [D -> Nat] /\ WhispersAreRight(w, label, fixed)
  BY <1>3, <1>4, WhispersRight
<1> HIDE DEF end, D
<1>8. few \in [g.eligible -> Nat] /\ IsFiniteSet(g.eligible)
  BY <1>1, <1>2, <1>7, FS_Subset
<1> HIDE DEF few
<1>9. CompactIsRight(few)
  BY <1>8, CompactRight
<1> QED
  BY <1>5, <1>6, <1>7, <1>9

(* Theorem.  Whatever the neighbours found, the rows that take part and    *)
(* the pinned ones, and whatever is united, the labels of a clustering job *)
(* group what is connected.                                                *)
THEOREM ClusteringCorrect == QueriesSpec => []ClusteringLabels
<1> DEFINE Right == /\ input.of = "graph"  => input.graph \in Graphs
                    /\ input.of = "unions" => input.unions \in Unions
<1>1. QueriesInit => Right
  BY DEF QueriesInit, None
<1>2. Right /\ [QueriesNext]_input => Right'
  <2> SUFFICES ASSUME Right, [QueriesNext]_input PROVE Right'
    OBVIOUS
  <2>1. CASE PickSearch
    BY <2>1 DEF PickSearch
  <2>2. CASE PickPeople
    BY <2>2 DEF PickPeople
  <2>3. CASE PickGraph
    BY <2>3 DEF PickGraph
  <2>4. CASE PickUnions
    BY <2>4 DEF PickUnions
  <2>5. CASE input' = None
    BY <2>5 DEF None
  <2>6. CASE UNCHANGED input
    BY <2>6
  <2> QED
    BY <2>1, <2>2, <2>3, <2>4, <2>5, <2>6 DEF QueriesNext
<1>3. Right => ClusteringLabels
  <2> SUFFICES ASSUME Right PROVE ClusteringLabels
    OBVIOUS
  <2>1. ASSUME input.of = "graph" PROVE GraphIsClustered(input.graph)
    <3>1. IsGraph(input.graph)
      BY <2>1, InputsAssumption
    <3> QED
      BY <3>1, GraphClustered
  <2>2. ASSUME input.of = "unions" PROVE UnionIsRight(input.unions.n, input.unions.pairs)
    <3>1. input.unions.n \in Nat /\ input.unions.pairs \in Seq(Nodes(input.unions.n) \X Nodes(input.unions.n))
      BY <2>2, InputsAssumption DEF IsUnions
    <3> QED
      BY <3>1, UnionsRight
  <2> QED
    BY <2>1, <2>2 DEF ClusteringLabels
<1> QED
  BY <1>1, <1>2, <1>3, PTL DEF QueriesSpec
=============================================================================
