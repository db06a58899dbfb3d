----------------------- MODULE UnappliedRangesProofs -----------------------
(***************************************************************************)
(* Proofs about UnappliedRanges, for every number of slots, every largest  *)
(* sequence and every sets of waiting spans: the slots never overflow or   *)
(* become something the next process would refuse to read; no operation    *)
(* forgets a sequence it was not asked to drop; and the slots implement    *)
(* Coverage, so that they never cover more than the room forces on them,   *)
(* nor swallow a waiting segment that need not be.                         *)
(*                                                                         *)
(* The last rests on a pigeonhole: whatever covers more ranges than there  *)
(* are slots, and fits, closes the whole gap between two neighbours.  So   *)
(* if some choice spares the waiting segments, a gap without one exists,   *)
(* and best finds it.  While a clip is under way that is so because the    *)
(* pieces come lowest first: no piece still to come lies in a gap.         *)
(***************************************************************************)
EXTENDS UnappliedRanges, FiniteSetTheorems, WellFoundedInduction, TLAPS

Seqs == 1 .. MaxSeq

-----------------------------------------------------------------------------
(* Least and greatest sequences.                                           *)

\* A set of sequences is finite (Merged).
LEMMA SeqsFinite ==
    ASSUME NEW S, S \subseteq Seqs
    PROVE  IsFiniteSet(S)
<1>1. IsFiniteSet(Seqs)
    BY FS_Interval, RangesAssumption DEF Seqs
<1> QED
    BY <1>1, FS_Subset

\* Of a family of sets of sequences one contains no other (MinOf, MaxOf).
LEMMA SmallestSet ==
    ASSUME NEW S, S \subseteq Seqs, NEW F, \A X \in F : X \subseteq S, F # {}
    PROVE  \E X \in F : \A Y \in F : Y \subseteq X => Y = X
<1>1. IsWellFoundedOn(StrictSubsetOrdering(S), FiniteSubsetsOf(S))
    BY FS_StrictSubsetOrderingWellFounded
<1>2. FiniteSubsetsOf(S) = SUBSET S
    BY SeqsFinite, FS_FiniteSubsetsOfFinite
<1>3. PICK X \in F : \A Y \in F : ~ (<<Y, X>> \in StrictSubsetOrdering(S))
    BY <1>1, <1>2, WFMin
<1>4. \A Y \in F : Y \subseteq X => Y = X
    BY <1>3 DEF StrictSubsetOrdering
<1> QED
    BY <1>4

\* A non-empty set of sequences has a least element (Merged).
LEMMA MinOf ==
    ASSUME NEW S, S \subseteq Seqs, S # {}
    PROVE  Min(S) \in S /\ \A y \in S : Min(S) <= y
<1> DEFINE Low(x) == {y \in S : y <= x}
<1> DEFINE F == {Low(x) : x \in S}
<1>i. \A s \in S : s \in Int
    BY RangesAssumption DEF Seqs
<1>a. \A x \in S : Low(x) \subseteq S
    OBVIOUS
<1> HIDE DEF Low
<1>b. \A x \in S : Low(x) \in F
    OBVIOUS
<1>1. (\A X \in F : X \subseteq S) /\ F # {}
    BY <1>a, <1>b
<1> HIDE DEF F
<1>c. \A G : (\A X \in G : X \subseteq S) /\ G # {} => \E X \in G : \A Y \in G : Y \subseteq X => Y = X
    BY SmallestSet
<1>2. PICK X \in F : \A Y \in F : Y \subseteq X => Y = X
    BY <1>1, <1>c
<1>3. PICK x \in S : X = Low(x)
    BY <1>2 DEF F
<1>4. ASSUME NEW y \in S PROVE x <= y
    <2>1. Low(y) \in F
        BY <1>b
    <2>2. y < x => Low(y) \subseteq Low(x) /\ x \in Low(x) /\ x \notin Low(y)
        BY <1>i DEF Low
    <2>3. ~ (y < x)
        BY <1>2, <1>3, <2>1, <2>2
    <2> QED
        BY <1>i, <2>3
<1> QED
    BY <1>4 DEF Min

\* A non-empty set of sequences has a greatest element (Merged).
LEMMA MaxOf ==
    ASSUME NEW S, S \subseteq Seqs, S # {}
    PROVE  Max(S) \in S /\ \A y \in S : y <= Max(S)
<1> DEFINE High(x) == {y \in S : y >= x}
<1> DEFINE F == {High(x) : x \in S}
<1>i. \A s \in S : s \in Int
    BY RangesAssumption DEF Seqs
<1>a. \A x \in S : High(x) \subseteq S
    OBVIOUS
<1> HIDE DEF High
<1>b. \A x \in S : High(x) \in F
    OBVIOUS
<1>1. (\A X \in F : X \subseteq S) /\ F # {}
    BY <1>a, <1>b
<1> HIDE DEF F
<1>c. \A G : (\A X \in G : X \subseteq S) /\ G # {} => \E X \in G : \A Y \in G : Y \subseteq X => Y = X
    BY SmallestSet
<1>2. PICK X \in F : \A Y \in F : Y \subseteq X => Y = X
    BY <1>1, <1>c
<1>3. PICK x \in S : X = High(x)
    BY <1>2 DEF F
<1>4. ASSUME NEW y \in S PROVE x >= y
    <2>1. High(y) \in F
        BY <1>b
    <2>2. y > x => High(y) \subseteq High(x) /\ x \in High(x) /\ x \notin High(y)
        BY <1>i DEF High
    <2>3. ~ (y > x)
        BY <1>2, <1>3, <2>1, <2>2
    <2> QED
        BY <1>i, <2>3
<1>5. Max(S) \in S /\ \A y \in S : Max(S) >= y
    BY <1>4 DEF Max
<1> QED
    BY <1>5, RangesAssumption DEF Seqs

-----------------------------------------------------------------------------
(* The operations on a legal set of ranges.                                *)

\* What Legal says of one range and of two.
LEMMA LegalOne ==
    ASSUME NEW R, Legal(R), NEW r \in R
    PROVE  /\ r = [lo |-> r.lo, hi |-> r.hi]
           /\ r.lo \in Seqs /\ r.hi \in Seqs /\ r.lo <= r.hi
           /\ r.lo \in Nat /\ r.hi \in Nat /\ 1 <= r.lo /\ r.hi <= MaxSeq
           /\ \A s \in R : r # s => r.hi + 1 < s.lo \/ s.hi + 1 < r.lo
BY RangesAssumption DEF Legal, SeqRange, Seqs

\* Merging a range into legal ones leaves them legal, and covers the range
\* and what was covered before, no more (the loop of add_range_avoiding).
LEMMA MergedFacts ==
    ASSUME NEW R, Legal(R), NEW lo \in Seqs, NEW hi \in Seqs, lo <= hi
    PROVE  /\ Legal(Merged(R, lo, hi))
           /\ Covered(Merged(R, lo, hi)) = Covered(R) \cup (lo .. hi)
           /\ IsFiniteSet(R) => /\ IsFiniteSet(Merged(R, lo, hi))
                                /\ Cardinality(Merged(R, lo, hi)) <= Cardinality(R) + 1
<1> DEFINE T == Touching(R, lo, hi)
           A == {lo} \cup {t.lo : t \in T}
           B == {hi} \cup {t.hi : t \in T}
           a == Min(A)
           b == Max(B)
           new == [lo |-> a, hi |-> b]
<1>1. T \subseteq R /\ \A t \in T : t.lo <= hi + 1 /\ lo <= t.hi + 1
    BY DEF Touching
<1>2. A \subseteq Seqs /\ A # {} /\ B \subseteq Seqs /\ B # {}
    BY <1>1, LegalOne
<1>3. a \in A /\ a \in Seqs /\ a <= lo /\ \A t \in T : a <= t.lo
    <2>1. a \in A /\ \A y \in A : a <= y
        BY <1>2, MinOf
    <2> QED
        BY <1>2, <2>1
<1>4. b \in B /\ b \in Seqs /\ hi <= b /\ \A t \in T : t.hi <= b
    <2>1. b \in B /\ \A y \in B : y <= b
        BY <1>2, MaxOf
    <2> QED
        BY <1>2, <2>1
<1>5. lo \in Nat /\ hi \in Nat /\ a \in Nat /\ b \in Nat /\ a <= b
    BY <1>3, <1>4, RangesAssumption DEF Seqs
<1>6. ASSUME NEW r \in R \ T PROVE r.hi + 1 < a \/ b + 1 < r.lo
    <2>1. r.hi + 1 < lo \/ hi + 1 < r.lo
        BY <1>5, LegalOne DEF Touching
    <2>2. r.lo \in Nat /\ r.hi \in Nat /\ r.lo <= r.hi
        BY LegalOne
    <2>3. \A t \in T : t.lo \in Nat /\ t.hi \in Nat /\ t.lo <= t.hi
                       /\ (r.hi + 1 < t.lo \/ t.hi + 1 < r.lo)
        BY <1>1, LegalOne
    <2>4. CASE r.hi + 1 < lo
        <3>1. \A t \in T : r.hi + 1 < t.lo
            BY <1>1, <1>5, <2>2, <2>3, <2>4
        <3> QED
            BY <1>3, <2>4, <3>1
    <2>5. CASE hi + 1 < r.lo
        <3>1. \A t \in T : t.hi + 1 < r.lo
            BY <1>1, <1>5, <2>2, <2>3, <2>5
        <3> QED
            BY <1>4, <2>5, <3>1
    <2> QED
        BY <2>1, <2>4, <2>5
<1>7. Merged(R, lo, hi) = (R \ T) \cup {new}
    BY DEF Merged
<1> HIDE DEF T, A, B, a, b
<1>8. Legal((R \ T) \cup {new})
    <2>1. new \in SeqRange /\ new.lo = a /\ new.hi = b
        BY <1>3, <1>4 DEF SeqRange, Seqs
    <2>2. (R \ T) \cup {new} \subseteq SeqRange
        BY <2>1 DEF Legal
    <2>3. \A r \in (R \ T) \cup {new} : r.lo <= r.hi
        BY <1>5, <2>1 DEF Legal
    <2>4. \A r \in R \ T : r.hi + 1 < new.lo \/ new.hi + 1 < r.lo
        BY <1>6, <2>1
    <2>5. \A r, s \in R \ T : r # s => r.hi + 1 < s.lo \/ s.hi + 1 < r.lo
        BY DEF Legal
    <2> HIDE DEF new
    <2>6. \A r, s \in (R \ T) \cup {new} : r # s => r.hi + 1 < s.lo \/ s.hi + 1 < r.lo
        BY <2>4, <2>5
    <2> QED
        BY <2>2, <2>3, <2>6 DEF Legal
<1>9. Covered(R) \cup (lo .. hi) \subseteq Covered((R \ T) \cup {new})
    <2>3. a .. b \subseteq Covered((R \ T) \cup {new})
        BY DEF Covered
    <2>1. ASSUME NEW x \in Covered(R) PROVE x \in Covered((R \ T) \cup {new})
        <3>1. PICK r \in R : x \in r.lo .. r.hi
            BY DEF Covered
        <3>2. CASE r \in R \ T
            BY <3>1, <3>2 DEF Covered
        <3>3. CASE r \in T
            <4>1. x \in a .. b
                BY <1>3, <1>4, <1>5, <3>1, <3>3, LegalOne
            <4> QED
                BY <2>3, <4>1
        <3> QED
            BY <3>2, <3>3
    <2>2. lo .. hi \subseteq a .. b
        BY <1>3, <1>4, <1>5
    <2> QED
        BY <2>1, <2>2, <2>3
<1>11. Covered((R \ T) \cup {new}) \subseteq Covered(R) \cup (lo .. hi)
    <2>1. Covered((R \ T) \cup {new}) \subseteq Covered(R) \cup (a .. b)
        BY DEF Covered
    <2>2. \A t \in T : t \in R /\ t.lo .. t.hi \subseteq Covered(R)
        BY <1>1 DEF Covered
    <2>3. ASSUME NEW x \in a .. b PROVE x \in Covered(R) \cup (lo .. hi)
        <3>1. x \in Int /\ a <= x /\ x <= b
            BY <1>5, <2>3
        <3>2. CASE x < lo
            <4>1. a # lo
                BY <1>5, <3>1, <3>2
            <4>2. PICK t \in T : a = t.lo
                BY <1>3, <4>1 DEF A
            <4>3. lo <= t.hi + 1 /\ t.lo \in Nat /\ t.hi \in Nat
                BY <1>1, LegalOne
            <4>4. x \in t.lo .. t.hi
                BY <1>5, <3>1, <3>2, <4>2, <4>3
            <4> QED
                BY <2>2, <4>4
        <3>3. CASE hi < x
            <4>1. b # hi
                BY <1>5, <3>1, <3>3
            <4>2. PICK t \in T : b = t.hi
                BY <1>4, <4>1 DEF B
            <4>3. t.lo <= hi + 1 /\ t.lo \in Nat /\ t.hi \in Nat
                BY <1>1, LegalOne
            <4>4. x \in t.lo .. t.hi
                BY <1>5, <3>1, <3>3, <4>2, <4>3
            <4> QED
                BY <2>2, <4>4
        <3> QED
            BY <1>5, <3>1, <3>2, <3>3
    <2> QED
        BY <2>1, <2>3
<1>10. ASSUME IsFiniteSet(R)
       PROVE  IsFiniteSet((R \ T) \cup {new}) /\ Cardinality((R \ T) \cup {new}) <= Cardinality(R) + 1
    <2>1. IsFiniteSet(R \ T) /\ Cardinality(R \ T) <= Cardinality(R)
        BY <1>10, FS_Subset
    <2>2. Cardinality(R) \in Nat /\ Cardinality(R \ T) \in Nat
        BY <1>10, <2>1, FS_CardinalityType
    <2>3. IsFiniteSet((R \ T) \cup {new})
          /\ Cardinality((R \ T) \cup {new}) = IF new \in R \ T THEN Cardinality(R \ T) ELSE Cardinality(R \ T) + 1
        BY <2>1, FS_AddElement
    <2> QED
        BY <2>1, <2>2, <2>3
<1> QED
    BY <1>7, <1>8, <1>9, <1>10, <1>11

\* Some ranges have a lowest one (best).
LEMMA LowestOf ==
    ASSUME NEW C, \A t \in C : t.lo \in Seqs, C # {}
    PROVE  Lowest(C) \in C /\ \A t \in C : Lowest(C).lo <= t.lo
<1> DEFINE L == {t.lo : t \in C}
<1>1. L \subseteq Seqs /\ L # {}
    OBVIOUS
<1>2. Min(L) \in L /\ \A y \in L : Min(L) <= y
    BY <1>1, MinOf
<1>3. PICK r \in C : r.lo = Min(L)
    BY <1>2
<1>4. \A t \in C : r.lo <= t.lo
    BY <1>2, <1>3
<1> QED
    BY <1>4, Zenon DEF Lowest

\* A range that is not the highest has one after it, and no third between.
LEMMA AfterOf ==
    ASSUME NEW M, Legal(M), NEW r \in M, ~Highest(M, r)
    PROVE  /\ After(M, r) \in M /\ r.hi + 1 < After(M, r).lo /\ After(M, r) # r
           /\ \A t \in M : t # r /\ t # After(M, r) =>
                   t.hi + 1 < r.lo \/ After(M, r).hi + 1 < t.lo
<1> DEFINE C == {t \in M : r.hi < t.lo}
<1>1. C # {}
    <2>1. PICK t \in M : ~ (t.lo <= r.lo)
        BY DEF Highest
    <2>2. r.hi < t.lo
        BY <2>1, LegalOne
    <2> QED
        BY <2>2
<1>2. PICK s \in C : \A t \in C : s.lo <= t.lo
    <2>1. C \subseteq M
        OBVIOUS
    <2>2. \A t \in C : t.lo \in Seqs
        BY LegalOne
    <2> HIDE DEF C
    <2> QED
        BY <1>1, <2>2, LowestOf
<1>3. s \in M /\ r.hi < s.lo /\ \A t \in M : r.hi < t.lo => s.lo <= t.lo
    BY <1>2
<1> DEFINE n == After(M, r)
<1>4. n \in M /\ r.hi < n.lo /\ \A t \in M : r.hi < t.lo => n.lo <= t.lo
    BY <1>3, Zenon DEF After
<1> HIDE DEF n
<1>5. n # r /\ r.hi + 1 < n.lo
    BY <1>4, LegalOne
<1>6. ASSUME NEW t \in M, t # r, t # n PROVE t.hi + 1 < r.lo \/ n.hi + 1 < t.lo
    <2>1. r.hi + 1 < t.lo \/ t.hi + 1 < r.lo
        BY <1>6, LegalOne
    <2>2. n.hi + 1 < t.lo \/ t.hi + 1 < n.lo
        BY <1>4, <1>6, LegalOne
    <2>3. /\ r.lo \in Nat /\ r.hi \in Nat /\ t.lo \in Nat /\ t.hi \in Nat /\ n.lo \in Nat /\ n.hi \in Nat
          /\ r.lo <= r.hi /\ t.lo <= t.hi /\ n.lo <= n.hi
        BY <1>4, LegalOne
    <2>4. r.hi < t.lo => n.lo <= t.lo
        BY <1>4
    <2> QED
        BY <2>1, <2>2, <2>3, <2>4
<1> QED
    BY <1>4, <1>5, <1>6 DEF n

\* With more than one range, best picks one that is not the highest.
LEMMA BestOf ==
    ASSUME NEW M, Legal(M), IsFiniteSet(M), Cardinality(M) > 1, NEW spans
    PROVE  best(M, spans) \in M /\ ~Highest(M, best(M, spans))
<1> DEFINE free == {r \in M : ~Highest(M, r) /\ ~spans_intersect(spans, r.hi + 1, After(M, r).lo - 1)}
<1>1. free \subseteq M /\ \A r \in free : ~Highest(M, r)
    OBVIOUS
<1>2. M # {} /\ \A x : M # {x}
    BY FS_EmptySet, FS_Singleton
<1>3. Lowest(M) \in M /\ \A t \in M : Lowest(M).lo <= t.lo
    <2>1. \A t \in M : t.lo \in Seqs
        BY LegalOne
    <2> QED
        BY <1>2, <2>1, LowestOf
<1>4. ~Highest(M, Lowest(M))
    <2>1. PICK t \in M : t # Lowest(M)
        BY <1>2, <1>3
    <2>2. t.lo # Lowest(M).lo
        BY <1>3, <2>1, LegalOne
    <2>3. t.lo \in Nat /\ Lowest(M).lo \in Nat /\ Lowest(M).lo <= t.lo
        BY <1>3, LegalOne
    <2> QED
        BY <2>2, <2>3 DEF Highest
<1>5. best(M, spans) = Lowest(IF free = {} THEN M ELSE free)
    BY DEF best
<1> HIDE DEF free
<1>6. free # {} => Lowest(free) \in free
    <2>1. \A t \in free : t.lo \in Seqs
        BY <1>1, LegalOne
    <2> QED
        BY <2>1, LowestOf
<1> QED
    BY <1>1, <1>3, <1>4, <1>5, <1>6

\* Joining a range with the one after it takes one range away and covers no
\* less (the full case of add_range_avoiding).
LEMMA JoinedFacts ==
    ASSUME NEW M, Legal(M), IsFiniteSet(M), NEW r \in M, ~Highest(M, r)
    PROVE  /\ Legal(Joined(M, r))
           /\ Covered(M) \subseteq Covered(Joined(M, r))
           /\ IsFiniteSet(Joined(M, r)) /\ Cardinality(Joined(M, r)) <= Cardinality(M) - 1
<1> DEFINE n == After(M, r)
           new == [lo |-> r.lo, hi |-> n.hi]
           K == M \ {r, n}
<1>1. /\ n \in M /\ r.hi + 1 < n.lo /\ n # r
      /\ \A t \in M : t # r /\ t # n => t.hi + 1 < r.lo \/ n.hi + 1 < t.lo
    BY AfterOf
<1>2. Joined(M, r) = K \cup {new}
    BY DEF Joined
<1> HIDE DEF n
<1>3. /\ r.lo \in Seqs /\ n.hi \in Seqs /\ r.lo \in Nat /\ r.hi \in Nat /\ n.lo \in Nat /\ n.hi \in Nat
      /\ r.lo <= r.hi /\ n.lo <= n.hi
    BY <1>1, LegalOne
<1>4. Legal(K \cup {new})
    <2>1. new \in SeqRange /\ new.lo = r.lo /\ new.hi = n.hi /\ new.lo <= new.hi
        BY <1>1, <1>3 DEF SeqRange, Seqs
    <2>2. \A t \in K : t.hi + 1 < new.lo \/ new.hi + 1 < t.lo
        BY <1>1, <2>1
    <2>3. K \subseteq SeqRange /\ (\A t \in K : t.lo <= t.hi)
          /\ \A t, u \in K : t # u => t.hi + 1 < u.lo \/ u.hi + 1 < t.lo
        BY DEF Legal
    <2> HIDE DEF new, K
    <2> QED
        BY <2>1, <2>2, <2>3 DEF Legal
<1>5. Covered(M) \subseteq Covered(K \cup {new})
    <2>1. r.lo .. n.hi \subseteq Covered(K \cup {new})
        BY DEF Covered
    <2>2. ASSUME NEW x \in Covered(M) PROVE x \in Covered(K \cup {new})
        <3>1. PICK t \in M : x \in t.lo .. t.hi
            BY DEF Covered
        <3>2. CASE t \in K
            BY <3>1, <3>2 DEF Covered
        <3>3. CASE t = r \/ t = n
            <4>1. x \in r.lo .. n.hi
                BY <1>1, <1>3, <3>1, <3>3
            <4> QED
                BY <2>1, <4>1
        <3> QED
            BY <3>2, <3>3
    <2> QED
        BY <2>2
<1>6. IsFiniteSet(K \cup {new}) /\ Cardinality(K \cup {new}) <= Cardinality(M) - 1
    <2>1. IsFiniteSet(M \ {r}) /\ Cardinality(M \ {r}) = Cardinality(M) - 1
        BY FS_RemoveElement
    <2>2. IsFiniteSet((M \ {r}) \ {n}) /\ Cardinality((M \ {r}) \ {n}) = Cardinality(M) - 1 - 1
        BY <1>1, <2>1, FS_RemoveElement
    <2>3. K = (M \ {r}) \ {n}
        OBVIOUS
    <2>4. IsFiniteSet(K \cup {new})
          /\ Cardinality(K \cup {new}) = IF new \in K THEN Cardinality(K) ELSE Cardinality(K) + 1
        BY <2>2, <2>3, FS_AddElement
    <2>5. Cardinality(M) \in Nat
        BY FS_CardinalityType
    <2>6. Cardinality(K) = Cardinality(M) - 2
        BY <2>2, <2>3, <2>5
    <2> HIDE DEF K, new
    <2> QED
        BY <2>4, <2>5, <2>6
<1> QED
    BY <1>2, <1>4, <1>5, <1>6

\* Ranges that fit.
Fit(R) == Legal(R) /\ IsFiniteSet(R) /\ Cardinality(R) <= Slots

\* add_range_avoiding keeps the ranges legal and within the slots, and
\* covers what was asked and what was covered.
LEMMA AddFacts ==
    ASSUME NEW R, Fit(R), NEW lo \in 0 .. MaxSeq, NEW hi \in 0 .. MaxSeq, NEW spans
    PROVE  /\ Fit(add_range_avoiding(R, lo, hi, spans))
           /\ Covered(R) \cup ((lo .. hi) \ {0}) \subseteq Covered(add_range_avoiding(R, lo, hi, spans))
<1> DEFINE from == IF lo < 1 THEN 1 ELSE lo
           M == Merged(R, from, hi)
           A == add_range_avoiding(R, lo, hi, spans)
<1>1. from \in Nat /\ hi \in Nat /\ 1 <= from /\ (lo .. hi) \ {0} \subseteq from .. hi
    BY RangesAssumption
<1>2. A = IF from > hi \/ \E r \in R : r.lo <= from /\ hi <= r.hi THEN R
          ELSE IF Cardinality(M) <= Slots THEN M
          ELSE Joined(M, best(M, spans))
    BY DEF add_range_avoiding
<1> HIDE DEF A, from
<1>3. CASE from > hi
    <2>1. from .. hi = {}
        BY <1>1, <1>3
    <2> QED
        BY <1>1, <1>2, <1>3, <2>1 DEF A
<1>4. CASE from <= hi /\ \E r \in R : r.lo <= from /\ hi <= r.hi
    <2>1. PICK r \in R : r.lo <= from /\ hi <= r.hi
        BY <1>4
    <2>2. r.lo \in Nat /\ r.hi \in Nat
        BY LegalOne DEF Fit
    <2>3. from .. hi \subseteq r.lo .. r.hi
        BY <1>1, <2>1, <2>2
    <2>4. from .. hi \subseteq Covered(R)
        BY <2>3 DEF Covered
    <2> QED
        BY <1>1, <1>2, <1>4, <2>4 DEF A
<1>5. CASE from <= hi /\ ~ \E r \in R : r.lo <= from /\ hi <= r.hi
    <2>1. from \in Seqs /\ hi \in Seqs
        BY <1>1, <1>5, RangesAssumption DEF Seqs
    <2>2. /\ Legal(M) /\ IsFiniteSet(M) /\ Cardinality(M) <= Cardinality(R) + 1
          /\ Covered(R) \cup (from .. hi) \subseteq Covered(M)
        BY <1>5, <2>1, MergedFacts DEF Fit
    <2>3. Cardinality(R) \in Nat /\ Cardinality(M) \in Nat /\ Slots \in Nat /\ Slots >= 1 /\ Cardinality(R) <= Slots
        BY <2>2, FS_CardinalityType, RangesAssumption DEF Fit
    <2>4. ~ (from > hi)
        BY <1>1, <1>5
    <2>5. A = IF Cardinality(M) <= Slots THEN M ELSE Joined(M, best(M, spans))
        BY <1>2, <1>5, <2>4
    <2> HIDE DEF M
    <2>6. CASE Cardinality(M) <= Slots
        BY <1>1, <2>2, <2>5, <2>6 DEF Fit, A
    <2>7. CASE Cardinality(M) > Slots
        <3>1. best(M, spans) \in M /\ ~Highest(M, best(M, spans))
            BY <2>2, <2>3, <2>7, BestOf
        <3>2. A = Joined(M, best(M, spans))
            BY <2>3, <2>5, <2>7
        <3>3. /\ Legal(A) /\ Covered(M) \subseteq Covered(A)
              /\ IsFiniteSet(A) /\ Cardinality(A) <= Cardinality(M) - 1
            BY <2>2, <3>1, <3>2, JoinedFacts
        <3>4. Cardinality(A) \in Nat
            BY <3>3, FS_CardinalityType
        <3> QED
            BY <1>1, <2>2, <2>3, <3>3, <3>4 DEF Fit, A
    <2> QED
        BY <2>3, <2>6, <2>7
<1> QED
    <2>1. from <= hi \/ from > hi
        BY <1>1
    <2> QED
        BY <1>3, <1>4, <1>5, <2>1

\* What a function takes from a finite set is finite and no larger.
LEMMA ImageFinite ==
    ASSUME NEW K, IsFiniteSet(K), NEW f, f = [r \in K |-> f[r]]
    PROVE  IsFiniteSet({f[r] : r \in K}) /\ Cardinality({f[r] : r \in K}) <= Cardinality(K)
<1> DEFINE T == {f[r] : r \in K}
<1>1. f \in Surjection(K, T)
    BY DEF Surjection
<1> HIDE DEF T
<1>2. IsFiniteSet(T) /\ Cardinality(T) <= Cardinality(K)
    BY <1>1, FS_Surjection
<1> QED
    BY <1>2 DEF T

\* trim_below keeps the ranges legal and covers exactly what it covered from
\* the cut on.
LEMMA TrimFacts ==
    ASSUME NEW R, Fit(R), NEW seq \in Seqs
    PROVE  Fit(trim_below(R, seq)) /\ Covered(trim_below(R, seq)) = Covered(R) \ (1 .. seq - 1)
<1> DEFINE K == {r \in R : seq <= r.hi}
           f == [r \in K |-> [r EXCEPT !.lo = IF @ < seq THEN seq ELSE @]]
           W == {f[r] : r \in K}
<1>1. trim_below(R, seq) = W
    BY DEF trim_below
<1>2. K \subseteq R /\ \A r \in K : seq <= r.hi
    OBVIOUS
<1>3. seq \in Nat /\ 1 <= seq
    BY RangesAssumption DEF Seqs
<1>4. \A r \in K : f[r] = [lo |-> IF r.lo < seq THEN seq ELSE r.lo, hi |-> r.hi]
    BY LegalOne DEF Fit
<1>5. IsFiniteSet(K) /\ Cardinality(K) <= Cardinality(R) /\ Cardinality(K) \in Nat /\ Cardinality(R) \in Nat
    BY <1>2, FS_Subset, FS_CardinalityType DEF Fit
<1>f. f = [r \in K |-> f[r]]
    OBVIOUS
<1> HIDE DEF K, f
<1>g. ASSUME NEW r \in K
      PROVE  f[r].lo = (IF r.lo < seq THEN seq ELSE r.lo) /\ f[r].hi = r.hi
    <2>1. f[r] = [lo |-> IF r.lo < seq THEN seq ELSE r.lo, hi |-> r.hi]
        BY <1>4
    <2> QED
        BY <2>1
<1>6. IsFiniteSet(W) /\ Cardinality(W) <= Cardinality(K) /\ Cardinality(W) \in Nat
    BY <1>f, <1>5, ImageFinite, FS_CardinalityType
<1>7. Legal(W)
    <2>1. \A r \in K : /\ r.lo \in Nat /\ r.hi \in Nat /\ r.lo \in Seqs /\ r.hi \in Seqs /\ r.lo <= r.hi
                       /\ \A s \in K : r # s => r.hi + 1 < s.lo \/ s.hi + 1 < r.lo
        BY <1>2, LegalOne DEF Fit
    <2>a. \A r \in K : (IF r.lo < seq THEN seq ELSE r.lo) \in Seqs
        BY <2>1
    <2>b. ASSUME NEW r \in K PROVE f[r] \in SeqRange
        <3>1. f[r] = [lo |-> IF r.lo < seq THEN seq ELSE r.lo, hi |-> r.hi]
            BY <1>4
        <3>2. (IF r.lo < seq THEN seq ELSE r.lo) \in 1 .. MaxSeq /\ r.hi \in 1 .. MaxSeq
            BY <2>1, <2>a DEF Seqs
        <3> QED
            BY <3>1, <3>2 DEF SeqRange
    <2>2. \A r \in K : f[r].lo <= f[r].hi /\ r.lo <= f[r].lo /\ f[r].hi = r.hi /\ f[r].lo \in Nat
        BY <1>2, <1>3, <1>g, <2>1
    <2>3. \A r, s \in K : f[r] # f[s] => f[r].hi + 1 < f[s].lo \/ f[s].hi + 1 < f[r].lo
        BY <2>1, <2>2
    <2> QED
        BY <2>b, <2>2, <2>3 DEF Legal
<1>8. ASSUME NEW x \in Covered(R) \ (1 .. seq - 1) PROVE x \in Covered(W)
    <2>1. PICK r \in R : x \in r.lo .. r.hi
        BY DEF Covered
    <2>2. r.lo \in Nat /\ r.hi \in Nat /\ 1 <= r.lo
        BY LegalOne DEF Fit
    <2>3. r \in K
        BY <1>3, <1>8, <2>1, <2>2 DEF K
    <2>4. x \in f[r].lo .. f[r].hi
        BY <1>3, <1>g, <1>8, <2>1, <2>2, <2>3
    <2> QED
        BY <2>3, <2>4 DEF Covered
<1>9. ASSUME NEW x \in Covered(W) PROVE x \in Covered(R) \ (1 .. seq - 1)
    <2>1. PICK r \in K : x \in f[r].lo .. f[r].hi
        BY <1>9 DEF Covered
    <2>2. r \in R /\ r.lo \in Nat /\ r.hi \in Nat
        BY <1>2, LegalOne DEF Fit
    <2>3. x \in r.lo .. r.hi /\ seq <= x
        BY <1>3, <1>g, <2>1, <2>2
    <2>4. x \in Covered(R)
        BY <2>2, <2>3 DEF Covered
    <2> QED
        BY <1>3, <2>2, <2>3, <2>4
<1> HIDE DEF W
<1>10. Covered(W) = Covered(R) \ (1 .. seq - 1)
    BY <1>8, <1>9
<1> QED
    BY <1>1, <1>5, <1>6, <1>7, <1>10, RangesAssumption DEF Fit

\* What remove_span leaves of a range: the range, its part below the span,
\* or its part above.
Remains(e, r, lo, hi) ==
    \/ e = r /\ (r.hi < lo \/ hi < r.lo)
    \/ e = [lo |-> r.lo, hi |-> lo - 1] /\ r.lo < lo /\ lo <= r.hi
    \/ e = [lo |-> hi + 1, hi |-> r.hi] /\ r.lo <= hi /\ hi < r.hi

\* What is left of the ranges around a removed span (remove_span).
LEMMA WithoutRemains ==
    ASSUME NEW R, Legal(R), NEW lo, NEW hi
    PROVE  /\ \A e \in without_span(R, lo, hi) : \E r \in R : Remains(e, r, lo, hi)
           /\ \A r \in R : /\ (r.hi < lo \/ hi < r.lo) => r \in without_span(R, lo, hi)
                           /\ (r.lo < lo /\ lo <= r.hi) => [lo |-> r.lo, hi |-> lo - 1] \in without_span(R, lo, hi)
                           /\ (r.lo <= hi /\ hi < r.hi) => [lo |-> hi + 1, hi |-> r.hi] \in without_span(R, lo, hi)
<1>1. ASSUME NEW r \in R
      PROVE  /\ [r EXCEPT !.hi = lo - 1] = [lo |-> r.lo, hi |-> lo - 1]
             /\ [r EXCEPT !.lo = hi + 1] = [lo |-> hi + 1, hi |-> r.hi]
    <2>1. r = [lo |-> r.lo, hi |-> r.hi]
        BY LegalOne
    <2> QED
        BY <2>1
<1> QED
    BY <1>1 DEF without_span, Remains

\* remove_span leaves legal ranges and uncovers the span and no more.
LEMMA WithoutFacts ==
    ASSUME NEW R, Fit(R), NEW lo \in Seqs, NEW hi \in Seqs, lo <= hi
    PROVE  /\ Legal(without_span(R, lo, hi)) /\ IsFiniteSet(without_span(R, lo, hi))
           /\ Covered(without_span(R, lo, hi)) = Covered(R) \ (lo .. hi)
<1> DEFINE W == without_span(R, lo, hi)
<1>0. Legal(R) /\ IsFiniteSet(R)
    BY DEF Fit
<1>1. lo \in Nat /\ hi \in Nat /\ 1 <= lo /\ hi <= MaxSeq /\ MaxSeq \in Nat
    BY RangesAssumption DEF Seqs
<1>2. ASSUME NEW e, NEW r \in R, Remains(e, r, lo, hi)
      PROVE  e \in SeqRange /\ e.lo \in Nat /\ e.hi \in Nat /\ e.lo <= e.hi /\ r.lo <= e.lo /\ e.hi <= r.hi
    <2>1. /\ r = [lo |-> r.lo, hi |-> r.hi] /\ r.lo \in Nat /\ r.hi \in Nat
          /\ r.lo <= r.hi /\ 1 <= r.lo /\ r.hi <= MaxSeq
        BY <1>0, LegalOne
    <2>2. CASE e = r
        BY <1>0, <2>1, <2>2 DEF Legal
    <2>3. CASE e = [lo |-> r.lo, hi |-> lo - 1] /\ r.lo < lo /\ lo <= r.hi
        BY <1>1, <2>1, <2>3 DEF SeqRange
    <2>4. CASE e = [lo |-> hi + 1, hi |-> r.hi] /\ r.lo <= hi /\ hi < r.hi
        BY <1>1, <2>1, <2>4 DEF SeqRange
    <2> QED
        BY <1>2, <2>2, <2>3, <2>4 DEF Remains
<1>3. ASSUME NEW d, NEW e, NEW r \in R, NEW s \in R, d # e,
             Remains(d, r, lo, hi), Remains(e, s, lo, hi)
      PROVE  d.hi + 1 < e.lo \/ e.hi + 1 < d.lo
    <2>1. /\ d.lo \in Nat /\ d.hi \in Nat /\ r.lo <= d.lo /\ d.hi <= r.hi
          /\ e.lo \in Nat /\ e.hi \in Nat /\ s.lo <= e.lo /\ e.hi <= s.hi
        BY <1>2, <1>3
    <2>2. r.lo \in Nat /\ r.hi \in Nat /\ s.lo \in Nat /\ s.hi \in Nat
        BY <1>0, LegalOne
    <2>3. CASE r # s
        <3>1. r.hi + 1 < s.lo \/ s.hi + 1 < r.lo
            BY <1>0, <2>3, LegalOne
        <3> QED
            BY <2>1, <2>2, <3>1
    <2>4. CASE r = s
        BY <1>1, <1>3, <2>2, <2>4 DEF Remains
    <2> QED
        BY <2>3, <2>4
<1>4. Legal(W)
    <2>1. \A e \in W : e \in SeqRange /\ e.lo <= e.hi
        BY <1>0, <1>2, WithoutRemains
    <2>2. \A d, e \in W : d # e => d.hi + 1 < e.lo \/ e.hi + 1 < d.lo
        BY <1>0, <1>3, WithoutRemains
    <2> HIDE DEF W
    <2> QED
        BY <2>1, <2>2 DEF Legal
<1>5. IsFiniteSet(W)
    <2> DEFINE K1 == {r \in R : r.hi < lo \/ hi < r.lo}
               K2 == {r \in R : r.lo < lo /\ lo <= r.hi}
               K3 == {r \in R : r.lo <= hi /\ hi < r.hi}
               f2 == [r \in K2 |-> [r EXCEPT !.hi = lo - 1]]
               f3 == [r \in K3 |-> [r EXCEPT !.lo = hi + 1]]
    <2>1. K1 \subseteq R /\ K2 \subseteq R /\ K3 \subseteq R
        OBVIOUS
    <2>2. W = K1 \cup {f2[r] : r \in K2} \cup {f3[r] : r \in K3}
        BY DEF without_span
    <2>3. f2 = [r \in K2 |-> f2[r]] /\ f3 = [r \in K3 |-> f3[r]]
        OBVIOUS
    <2> HIDE DEF W, K1, K2, K3, f2, f3
    <2>4. IsFiniteSet(K1) /\ IsFiniteSet(K2) /\ IsFiniteSet(K3)
        BY <1>0, <2>1, FS_Subset
    <2>5. IsFiniteSet({f2[r] : r \in K2}) /\ IsFiniteSet({f3[r] : r \in K3})
        BY <2>3, <2>4, ImageFinite
    <2>6. IsFiniteSet(K1 \cup {f2[r] : r \in K2})
        BY <2>4, <2>5, FS_Union
    <2> QED
        BY <2>2, <2>5, <2>6, FS_Union
<1>6. ASSUME NEW x \in Covered(R) \ (lo .. hi) PROVE x \in Covered(W)
    <2>1. PICK r \in R : x \in r.lo .. r.hi
        BY DEF Covered
    <2>2. r.lo \in Nat /\ r.hi \in Nat
        BY <1>0, LegalOne
    <2>3. x \in Nat /\ r.lo <= x /\ x <= r.hi /\ (x < lo \/ hi < x)
        BY <1>1, <1>6, <2>1, <2>2
    <2>4. \E e \in W : x \in e.lo .. e.hi
        <3>1. CASE r.hi < lo \/ hi < r.lo
            <4>1. r \in W
                BY <1>0, <3>1, WithoutRemains
            <4> QED
                BY <2>1, <4>1
        <3>2. CASE x < lo /\ lo <= r.hi
            <4>0. r.lo < lo /\ lo <= r.hi
                BY <1>1, <2>2, <2>3, <3>2
            <4>1. [lo |-> r.lo, hi |-> lo - 1] \in W
                BY <1>0, <4>0, WithoutRemains, Zenon
            <4>2. x \in r.lo .. lo - 1
                BY <1>1, <2>2, <2>3, <3>2
            <4> HIDE DEF W
            <4> QED
                BY <4>1, <4>2
        <3>3. CASE hi < x /\ r.lo <= hi
            <4>0. r.lo <= hi /\ hi < r.hi
                BY <1>1, <2>2, <2>3, <3>3
            <4>1. [lo |-> hi + 1, hi |-> r.hi] \in W
                BY <1>0, <4>0, WithoutRemains, Zenon
            <4>2. x \in hi + 1 .. r.hi
                BY <1>1, <2>2, <2>3, <3>3
            <4> HIDE DEF W
            <4> QED
                BY <4>1, <4>2
        <3> QED
            BY <1>1, <2>2, <2>3, <3>1, <3>2, <3>3
    <2> HIDE DEF W
    <2> QED
        BY <2>4 DEF Covered
<1>7. ASSUME NEW x \in Covered(W) PROVE x \in Covered(R) \ (lo .. hi)
    <2>1. PICK e \in W : x \in e.lo .. e.hi
        BY <1>7 DEF Covered
    <2>2. PICK r \in R : Remains(e, r, lo, hi)
        BY <1>0, WithoutRemains
    <2>3. r.lo \in Nat /\ r.hi \in Nat /\ e.lo \in Nat /\ e.hi \in Nat /\ r.lo <= e.lo /\ e.hi <= r.hi
        BY <1>0, <1>2, <2>2, LegalOne
    <2>4. e.hi < lo \/ hi < e.lo
        BY <1>1, <2>2, <2>3 DEF Remains
    <2>5. x \in r.lo .. r.hi /\ x \notin lo .. hi
        BY <1>1, <2>1, <2>3, <2>4
    <2> QED
        BY <2>5 DEF Covered
<1> HIDE DEF W
<1>8. Covered(W) = Covered(R) \ (lo .. hi)
    BY <1>6, <1>7
<1> QED
    BY <1>4, <1>5, <1>8 DEF W

\* clip_to's pieces are legal ranges, and cover what the ranges and the spans
\* both cover.
LEMMA PiecesFacts ==
    ASSUME NEW R, Legal(R), NEW spans, Legal(spans)
    PROVE  /\ Legal(pieces(R, spans))
           /\ Covered(pieces(R, spans)) = Covered(R) \cap Covered(spans)
<1> DEFINE part(r, s) == [lo |-> IF r.lo < s.lo THEN s.lo ELSE r.lo, hi |-> IF r.hi < s.hi THEN r.hi ELSE s.hi]
<1>1. ASSUME NEW r \in R, NEW s \in spans PROVE part(r, s) \in SeqRange
    BY LegalOne DEF SeqRange, Seqs
<1>2. pieces(R, spans) \subseteq SeqRange
    BY <1>1 DEF pieces
<1>3. ASSUME NEW x \in Covered(R), x \in Covered(spans) PROVE x \in Covered(pieces(R, spans))
    <2>1. PICK r \in R : x \in r.lo .. r.hi
        BY DEF Covered
    <2>2. PICK s \in spans : x \in s.lo .. s.hi
        BY <1>3 DEF Covered
    <2>3. r.lo \in Nat /\ r.hi \in Nat /\ s.lo \in Nat /\ s.hi \in Nat
        BY LegalOne
    <2>4. x \in part(r, s).lo .. part(r, s).hi /\ part(r, s).lo <= part(r, s).hi
        BY <2>1, <2>2, <2>3
    <2>5. part(r, s) \in pieces(R, spans)
        BY <2>4 DEF pieces
    <2> HIDE DEF part
    <2> QED
        BY <2>4, <2>5 DEF Covered
<1>4. \A p \in pieces(R, spans) : \E r \in R, s \in spans : p = part(r, s) /\ p.lo <= p.hi
    BY DEF pieces
<1>5. ASSUME NEW x \in Covered(pieces(R, spans)) PROVE x \in Covered(R) \cap Covered(spans)
    <2>1. PICK p \in pieces(R, spans) : x \in p.lo .. p.hi
        BY <1>5 DEF Covered
    <2>2. PICK r \in R, s \in spans : p = part(r, s)
        BY <1>4
    <2>3. r.lo \in Nat /\ r.hi \in Nat /\ s.lo \in Nat /\ s.hi \in Nat
        BY LegalOne
    <2>4. x \in r.lo .. r.hi /\ x \in s.lo .. s.hi
        BY <2>1, <2>2, <2>3
    <2> QED
        BY <2>4 DEF Covered
<1>6. ASSUME NEW p \in pieces(R, spans), NEW q \in pieces(R, spans), p # q
      PROVE  p.hi + 1 < q.lo \/ q.hi + 1 < p.lo
    <2>1. PICK r \in R, s \in spans : p = part(r, s)
        BY <1>4
    <2>2. PICK r2 \in R, s2 \in spans : q = part(r2, s2)
        BY <1>4
    <2>3. /\ r.lo \in Nat /\ r.hi \in Nat /\ s.lo \in Nat /\ s.hi \in Nat
          /\ r2.lo \in Nat /\ r2.hi \in Nat /\ s2.lo \in Nat /\ s2.hi \in Nat
        BY LegalOne
    <2>4. r # r2 \/ s # s2
        BY <1>6, <2>1, <2>2
    <2>5. \/ r.hi + 1 < r2.lo \/ r2.hi + 1 < r.lo
          \/ s.hi + 1 < s2.lo \/ s2.hi + 1 < s.lo
        BY <2>4, LegalOne
    <2>6. /\ p.lo >= r.lo /\ p.lo >= s.lo /\ p.hi <= r.hi /\ p.hi <= s.hi /\ p.lo \in Nat /\ p.hi \in Nat
          /\ q.lo >= r2.lo /\ q.lo >= s2.lo /\ q.hi <= r2.hi /\ q.hi <= s2.hi /\ q.lo \in Nat /\ q.hi \in Nat
        BY <2>1, <2>2, <2>3
    <2> HIDE DEF part
    <2> QED
        BY <2>3, <2>5, <2>6
<1>7. \A p \in pieces(R, spans) : p.lo <= p.hi
    BY <1>4
<1> HIDE DEF part
<1>8. Legal(pieces(R, spans))
    BY <1>2, <1>6, <1>7 DEF Legal
<1>9. Covered(pieces(R, spans)) = Covered(R) \cap Covered(spans)
    BY <1>3, <1>5
<1> QED
    BY <1>8, <1>9

-----------------------------------------------------------------------------
(* The inductive invariant: the slots fit, and so does what a clip has     *)
(* built; and whatever the ranges and the spans of the clip both cover is  *)
(* covered by what is built and what is left to add.                       *)

Clip == [busy : BOOLEAN, spans : SUBSET SeqRange, left : SUBSET SeqRange, out : SUBSET SeqRange]

Inv ==
    /\ Fit(slots)
    /\ clip \in Clip
    /\ Fit(clip.out)
    /\ clip.busy => /\ request = NoRequest
                    /\ Covered(slots) \cap Covered(clip.spans) \subseteq Covered(clip.out) \cup Covered(clip.left)

\* No ranges fit.
LEMMA NoneFit ==
    Fit({}) /\ Covered({}) = {}
BY FS_EmptySet, RangesAssumption DEF Fit, Legal, Covered

\* Empty slots satisfy the invariant.
LEMMA InitInv ==
    Init => Inv
BY NoneFit DEF Init, Unlocked, Idle, Inv, Clip

\* With no clip_to under way there is nothing half built.
LEMMA IdleFacts ==
    ASSUME clip = Idle
    PROVE  clip \in Clip /\ clip.busy = FALSE /\ Fit(clip.out)
BY NoneFit DEF Idle, Clip

\* ClipPiece adds the lowest piece to the result (the loop of clip_to).
LEMMA ClipPieceStep ==
    ASSUME Inv, ClipPiece
    PROVE  Inv'
<1> DEFINE p == Lowest(clip.left)
           O == add_range_avoiding(clip.out, p.lo, p.hi, clip.spans)
<1>1. /\ clip.busy /\ clip.left # {} /\ slots' = slots /\ request' = request
      /\ clip' = [clip EXCEPT !.left = @ \ {p}, !.out = O]
    BY DEF ClipPiece
<1>2. clip \in Clip /\ Fit(slots) /\ Fit(clip.out) /\ request = NoRequest
      /\ Covered(slots) \cap Covered(clip.spans) \subseteq Covered(clip.out) \cup Covered(clip.left)
    BY <1>1 DEF Inv
<1>3. clip.left \subseteq SeqRange
    BY <1>2 DEF Clip
<1>4. p \in clip.left
    <2>1. \A t \in clip.left : t.lo \in Seqs
        BY <1>3 DEF SeqRange, Seqs
    <2> QED
        BY <1>1, <2>1, LowestOf
<1> HIDE DEF p
<1>5. p.lo \in 1 .. MaxSeq /\ p.hi \in 1 .. MaxSeq
    BY <1>3, <1>4 DEF SeqRange
<1>6. p.lo \in 0 .. MaxSeq /\ p.hi \in 0 .. MaxSeq /\ p.lo .. p.hi = (p.lo .. p.hi) \ {0}
    BY <1>5, RangesAssumption
<1>7. Fit(O) /\ Covered(clip.out) \cup (p.lo .. p.hi) \subseteq Covered(O)
    <2>1. Fit(O) /\ Covered(clip.out) \cup ((p.lo .. p.hi) \ {0}) \subseteq Covered(O)
        BY <1>2, <1>6, AddFacts
    <2> QED
        BY <1>6, <2>1
<1> HIDE DEF O
<1>8. clip' \in Clip /\ clip'.spans = clip.spans /\ clip'.left = clip.left \ {p} /\ clip'.out = O
    BY <1>1, <1>2, <1>7 DEF Clip, Fit, Legal
<1>9. Covered(clip.left) \subseteq Covered(clip.left \ {p}) \cup (p.lo .. p.hi)
    BY DEF Covered
<1> QED
    BY <1>1, <1>2, <1>7, <1>8, <1>9 DEF Inv

\* Every step keeps the invariant.
LEMMA InvStep ==
    Inv /\ [Next]_vars => Inv'
<1> SUFFICES ASSUME Inv, [Next]_vars PROVE Inv'
    OBVIOUS
<1>0. Fit(slots)
    BY DEF Inv
<1>1. ASSUME NEW lo \in 0 .. MaxSeq, NEW hi \in 0 .. MaxSeq, NEW spans \in SpanSets, AddRange(lo, hi, spans)
      PROVE  Inv'
    <2>1. clip = Idle /\ clip' = clip /\ slots' = add_range_avoiding(slots, lo, hi, spans)
        BY <1>1 DEF AddRange, Unlocked
    <2>2. Fit(slots')
        BY <1>0, <2>1, AddFacts
    <2> QED
        BY <2>1, <2>2, IdleFacts DEF Inv
<1>2. ASSUME NEW seq \in 1 .. MaxSeq, TrimBelow(seq)
      PROVE  Inv'
    <2>1. clip = Idle /\ clip' = clip /\ slots' = trim_below(slots, seq)
        BY <1>2 DEF TrimBelow, Unlocked
    <2>2. Fit(slots')
        BY <1>0, <2>1, TrimFacts DEF Seqs
    <2> QED
        BY <2>1, <2>2, IdleFacts DEF Inv
<1>3. ASSUME NEW lo \in 1 .. MaxSeq, NEW hi \in 1 .. MaxSeq, RemoveSpan(lo, hi)
      PROVE  Inv'
    <2> DEFINE W == without_span(slots, lo, hi)
    <2>1. clip = Idle /\ clip' = clip /\ lo <= hi /\ slots' = IF Cardinality(W) > Slots THEN slots ELSE W
        BY <1>3 DEF RemoveSpan, Unlocked
    <2>2. Legal(W) /\ IsFiniteSet(W)
        BY <1>0, <2>1, WithoutFacts DEF Seqs
    <2>3. Cardinality(W) \in Nat /\ Slots \in Nat
        BY <2>2, FS_CardinalityType, RangesAssumption
    <2> HIDE DEF W
    <2>4. Fit(slots')
        BY <1>0, <2>1, <2>2, <2>3 DEF Fit
    <2> QED
        BY <2>1, <2>4, IdleFacts DEF Inv
<1>4. ASSUME NEW spans \in SpanSets, ClipStart(spans)
      PROVE  Inv'
    <2>1. /\ slots' = slots /\ request' = NoRequest
          /\ clip' = [busy |-> TRUE, spans |-> spans, left |-> pieces(slots, spans), out |-> {}]
        BY <1>4 DEF ClipStart, Unlocked
    <2>2. Legal(spans)
        BY RangesAssumption
    <2>3. /\ pieces(slots, spans) \subseteq SeqRange
          /\ Covered(slots) \cap Covered(spans) \subseteq Covered(pieces(slots, spans))
        BY <1>0, <2>2, PiecesFacts DEF Fit, Legal
    <2>4. clip' \in Clip /\ clip'.spans = spans /\ clip'.left = pieces(slots, spans) /\ clip'.out = {}
        BY <2>1, <2>2, <2>3 DEF Clip, Legal
    <2> QED
        BY <1>0, <2>1, <2>3, <2>4, NoneFit DEF Inv
<1>5. CASE ClipPiece
    BY <1>5, ClipPieceStep
<1>6. CASE ClipEnd
    <2>1. slots' = clip.out /\ clip' = Idle
        BY <1>6 DEF ClipEnd
    <2>2. Fit(slots')
        BY <2>1 DEF Inv
    <2>3. clip' \in Clip /\ clip'.busy = FALSE /\ Fit(clip'.out)
        BY <2>1, NoneFit DEF Idle, Clip
    <2> QED
        BY <2>2, <2>3 DEF Inv
<1>7. CASE Return
    BY <1>7 DEF Return, Inv
<1>8. CASE UNCHANGED vars
    BY <1>8 DEF vars, Inv
<1> QED
    BY <1>1, <1>2, <1>3, <1>4, <1>5, <1>6, <1>7, <1>8 DEF Next

\* The ranges of a running process never need more slots than there are,
\* and are at all times what the next process accepts from the sidecar
\* (from_pairs), for any number of slots.
THEOREM SlotsStayLegal ==
    Spec => []SlotsLegal
<1>1. Inv => SlotsLegal
    BY DEF Inv, Fit, SlotsLegal
<1> QED
    BY InitInv, InvStep, <1>1, PTL DEF Spec

\* What one step leaves covered.
LEMMA ForgetsNothing ==
    ASSUME Inv, [Next]_vars
    PROVE  (Covered(slots) \cup request'.add) \ request'.drop \subseteq Covered(slots') \/ UNCHANGED vars
<1> DEFINE Kept == (Covered(slots) \cup request'.add) \ request'.drop \subseteq Covered(slots')
<1>0. Fit(slots)
    BY DEF Inv
<1>n. request' = NoRequest /\ slots' = slots => Kept
    BY DEF NoRequest
<1>1. ASSUME NEW lo \in 0 .. MaxSeq, NEW hi \in 0 .. MaxSeq, NEW spans \in SpanSets, AddRange(lo, hi, spans)
      PROVE  Kept
    <2>1. slots' = add_range_avoiding(slots, lo, hi, spans) /\ request'.add = (lo .. hi) \ {0}
        BY <1>1 DEF AddRange
    <2>2. Covered(slots) \cup ((lo .. hi) \ {0}) \subseteq Covered(slots')
        BY <1>0, <2>1, AddFacts
    <2> QED
        BY <2>1, <2>2
<1>2. ASSUME NEW seq \in 1 .. MaxSeq, TrimBelow(seq)
      PROVE  Kept
    <2>1. slots' = trim_below(slots, seq) /\ request'.add = {} /\ request'.drop = 1 .. seq - 1
        BY <1>2 DEF TrimBelow
    <2>2. Covered(slots) \ (1 .. seq - 1) \subseteq Covered(slots')
        BY <1>0, <2>1, TrimFacts DEF Seqs
    <2> QED
        BY <2>1, <2>2
<1>3. ASSUME NEW lo \in 1 .. MaxSeq, NEW hi \in 1 .. MaxSeq, RemoveSpan(lo, hi)
      PROVE  Kept
    <2> DEFINE W == without_span(slots, lo, hi)
    <2>1. lo <= hi /\ (slots' = slots \/ slots' = W) /\ request'.add = {} /\ request'.drop = lo .. hi
        BY <1>3 DEF RemoveSpan
    <2>2. Covered(slots) \ (lo .. hi) \subseteq Covered(W)
        BY <1>0, <2>1, WithoutFacts DEF Seqs
    <2> HIDE DEF W
    <2> QED
        BY <2>1, <2>2
<1>4. ASSUME NEW spans \in SpanSets, ClipStart(spans)
      PROVE  Kept
    BY <1>4, <1>n DEF ClipStart, Unlocked
<1>5. CASE ClipPiece
    BY <1>5, <1>n DEF ClipPiece, Inv
<1>6. CASE ClipEnd
    <2>1. /\ clip.busy /\ clip.left = {} /\ slots' = clip.out /\ request'.add = {}
          /\ request'.drop = (1 .. MaxSeq) \ Covered(clip.spans)
        BY <1>6 DEF ClipEnd
    <2>2. Covered(slots) \cap Covered(clip.spans) \subseteq Covered(clip.out)
        BY <2>1, NoneFit DEF Inv
    <2>3. Covered(slots) \subseteq 1 .. MaxSeq
        <3>1. ASSUME NEW x \in Covered(slots) PROVE x \in 1 .. MaxSeq
            <4>1. PICK r \in slots : x \in r.lo .. r.hi
                BY DEF Covered
            <4>2. r.lo \in Nat /\ r.hi \in Nat /\ 1 <= r.lo /\ r.hi <= MaxSeq
                BY <1>0, LegalOne DEF Fit
            <4> QED
                BY <4>1, <4>2, RangesAssumption
        <3> QED
            BY <3>1
    <2> QED
        BY <2>1, <2>2, <2>3
<1>7. CASE Return
    BY <1>7, <1>n DEF Return
<1> QED
    BY <1>1, <1>2, <1>3, <1>4, <1>5, <1>6, <1>7 DEF Next

\* No operation on the ranges uncovers a sequence it was not asked to drop,
\* or leaves one uncovered it was asked to add, however full the slots.
THEOREM RangesForgetNothing ==
    Spec => NothingForgotten
<1>1. Inv /\ [Next]_vars => [(Covered(slots) \cup request'.add) \ request'.drop \subseteq Covered(slots')]_vars
    BY ForgetsNothing DEF vars
<1> QED
    BY InitInv, InvStep, <1>1, PTL DEF Spec, NothingForgotten

-----------------------------------------------------------------------------
(* The promise of Coverage.                                                *)

\* Legal ranges cover sequences only.
LEMMA CoveredSeqs ==
    ASSUME NEW R, Legal(R)
    PROVE  Covered(R) \subseteq Seqs
<1>1. ASSUME NEW x \in Covered(R) PROVE x \in Seqs
    <2>1. PICK r \in R : x \in r.lo .. r.hi
        BY DEF Covered
    <2>2. r.lo \in Nat /\ r.hi \in Nat /\ 1 <= r.lo /\ r.hi <= MaxSeq
        BY LegalOne
    <2> QED
        BY <2>1, <2>2, RangesAssumption DEF Seqs
<1> QED
    BY <1>1

\* Fits, in the words of this module.
LEMMA FitsMeans ==
    ASSUME NEW S
    PROVE  Promise!Fits(S) <=> Cardinality(Promise!Runs(S)) <= Slots
<1>1. \A T : Promise!Cardinality(T) = Cardinality(T)
    BY DEF Promise!Cardinality, Cardinality
<1> QED
    BY <1>1 DEF Promise!Fits

\* Legal ranges are the runs of what they cover, one range to each: so they
\* cannot be stored in fewer slots (from_pairs).
LEMMA RunsOfLegal ==
    ASSUME NEW R, Legal(R), IsFiniteSet(R)
    PROVE  Promise!Fits(Covered(R)) <=> Cardinality(R) <= Slots
<1> DEFINE C == Covered(R)
           L == {r.lo : r \in R}
           f == [r \in R |-> r.lo]
<1>1. ASSUME NEW r \in R PROVE r.lo \in C /\ r.lo - 1 \notin C
    <2>1. r.lo \in Nat /\ r.hi \in Nat /\ r.lo <= r.hi /\ r.lo \in r.lo .. r.hi
        BY LegalOne
    <2>2. r.lo \in C
        BY <2>1 DEF Covered
    <2>3. ASSUME NEW s \in R PROVE r.lo - 1 \notin s.lo .. s.hi
        <3>1. s.lo \in Nat /\ s.hi \in Nat /\ s.lo <= s.hi
            BY LegalOne
        <3>2. s = r \/ r.hi + 1 < s.lo \/ s.hi + 1 < r.lo
            BY LegalOne
        <3> QED
            BY <2>1, <3>1, <3>2
    <2>4. r.lo - 1 \notin C
        BY <2>3 DEF Covered
    <2> QED
        BY <2>2, <2>4
<1>2. ASSUME NEW x \in C, x - 1 \notin C PROVE x \in L
    <2>1. PICK r \in R : x \in r.lo .. r.hi
        BY <1>2 DEF Covered
    <2>2. r.lo \in Nat /\ r.hi \in Nat
        BY LegalOne
    <2>3. x - 1 \notin r.lo .. r.hi
        BY <1>2 DEF Covered
    <2>4. x = r.lo
        BY <2>1, <2>2, <2>3
    <2> QED
        BY <2>4
<1>3. Promise!Runs(C) = L
    <2> HIDE DEF C
    <2> QED
        BY <1>1, <1>2 DEF Promise!Runs
<1>4. f \in Surjection(R, L)
    BY DEF Surjection
<1>5. \A r, s \in R : r.lo = s.lo => r = s
    <2>1. ASSUME NEW r \in R, NEW s \in R, r # s PROVE r.lo # s.lo
        <3>1. r.lo \in Nat /\ r.hi \in Nat /\ r.lo <= r.hi /\ s.lo \in Nat /\ s.hi \in Nat /\ s.lo <= s.hi
            BY LegalOne
        <3>2. r.hi + 1 < s.lo \/ s.hi + 1 < r.lo
            BY <2>1, LegalOne
        <3> QED
            BY <3>1, <3>2
    <2> QED
        BY <2>1
<1>6. f \in Injection(R, L)
    BY <1>5 DEF Injection, IsInjective
<1> HIDE DEF f, L
<1>7. Cardinality(L) = Cardinality(R)
    BY <1>4, <1>6, FS_Surjection
<1> QED
    BY <1>3, <1>7, FitsMeans

\* Every sequence of a set lies in a run of it.
LEMMA RunStart ==
    ASSUME NEW S, S \subseteq Seqs, NEW x \in S
    PROVE  \E s \in Promise!Runs(S) : s <= x /\ s .. x \subseteq S
<1> DEFINE B == {s \in Seqs : s <= x /\ s .. x \subseteq S}
           m == Min(B)
<1>0. x \in Seqs /\ x \in Nat /\ MaxSeq \in Nat /\ \A s \in Seqs : s \in Nat /\ 1 <= s /\ s <= MaxSeq
    BY RangesAssumption DEF Seqs
<1>1. x \in B
    BY <1>0
<1>2. B \subseteq Seqs
    OBVIOUS
<1>3. m \in B /\ \A y \in B : m <= y
    BY <1>1, <1>2, MinOf
<1> HIDE DEF m
<1>4. m \in Nat /\ m <= x /\ m .. x \subseteq S
    BY <1>0, <1>3
<1>5. m \in S
    BY <1>0, <1>4
<1>6. m - 1 \notin S
    <2> SUFFICES ASSUME m - 1 \in S PROVE FALSE
        OBVIOUS
    <2>1. m - 1 \in Seqs /\ m - 1 <= x
        BY <1>0, <1>4
    <2>2. m - 1 .. x \subseteq S
        BY <1>0, <1>4
    <2>3. m - 1 \in B
        BY <2>1, <2>2
    <2> HIDE DEF B
    <2>4. m <= m - 1
        BY <1>3, <2>3
    <2> QED
        BY <1>4, <2>4
<1> QED
    BY <1>4, <1>5, <1>6 DEF Promise!Runs

\* Two ranges of which one is lower have, after the lower, a range that is
\* no higher than the other.
LEMMA AfterBetween ==
    ASSUME NEW M, Legal(M), NEW r \in M, NEW s \in M, r.lo < s.lo
    PROVE  ~Highest(M, r) /\ After(M, r).lo <= s.lo
<1>1. /\ r.lo \in Nat /\ r.hi \in Nat /\ r.lo <= r.hi /\ s.lo \in Nat /\ s.hi \in Nat /\ s.lo <= s.hi
    BY LegalOne
<1>2. ~Highest(M, r)
    BY <1>1 DEF Highest
<1> DEFINE n == After(M, r)
<1>3. /\ n \in M /\ r.hi + 1 < n.lo
      /\ \A t \in M : t # r /\ t # n => t.hi + 1 < r.lo \/ n.hi + 1 < t.lo
    BY <1>2, AfterOf
<1> HIDE DEF n
<1>4. n.lo \in Nat /\ n.hi \in Nat /\ n.lo <= n.hi
    BY <1>3, LegalOne
<1>5. n.lo <= s.lo
    <2>1. CASE s = n
        BY <1>4, <2>1
    <2>2. CASE s # n
        <3>1. s # r
            BY <1>1
        <3> QED
            BY <1>1, <1>3, <1>4, <2>2, <3>1
    <2> QED
        BY <2>1, <2>2
<1> QED
    BY <1>2, <1>5 DEF n

\* What covers more ranges than there are slots, and fits, closes the whole
\* gap between two neighbours (the pigeonhole behind best).
LEMMA Crowded ==
    ASSUME NEW M, Legal(M), IsFiniteSet(M), Cardinality(M) > Slots,
           NEW S, S \subseteq Seqs, Covered(M) \subseteq S, Promise!Fits(S)
    PROVE  \E r \in M : ~Highest(M, r) /\ (r.hi + 1) .. (After(M, r).lo - 1) \subseteq S
<1> SUFFICES ASSUME \A r \in M : Highest(M, r) \/ ~ ((r.hi + 1) .. (After(M, r).lo - 1) \subseteq S)
             PROVE  FALSE
    OBVIOUS
<1> DEFINE Rs == Promise!Runs(S)
           f == [r \in M |-> CHOOSE s \in Rs : s <= r.lo /\ s .. r.lo \subseteq S]
<1>1. Rs \subseteq S /\ Rs \subseteq Seqs
    BY DEF Promise!Runs
<1>2. IsFiniteSet(Rs) /\ Cardinality(Rs) <= Slots
    BY <1>1, SeqsFinite, FitsMeans
<1>3. ASSUME NEW r \in M PROVE f[r] \in Rs /\ f[r] <= r.lo /\ f[r] .. r.lo \subseteq S
    <2>1. r.lo \in S
        <3>1. r.lo \in r.lo .. r.hi
            BY LegalOne
        <3> QED
            BY <3>1 DEF Covered
    <2>2. \E s \in Rs : s <= r.lo /\ s .. r.lo \subseteq S
        BY <2>1, RunStart
    <2> HIDE DEF Rs
    <2> QED
        BY <2>2
<1>4. f \in [M -> Rs]
    <2>1. f = [r \in M |-> f[r]]
        OBVIOUS
    <2> HIDE DEF f, Rs
    <2> QED
        BY <1>3, <2>1
<1> HIDE DEF f, Rs
<1>5. Cardinality(Rs) < Cardinality(M)
    BY <1>2, FS_CardinalityType, RangesAssumption
<1>6. PICK x \in M, y \in M : x # y /\ f[x] = f[y]
    BY <1>2, <1>4, <1>5, FS_PigeonHole
<1>7. ASSUME NEW r \in M, NEW s \in M, r.lo < s.lo PROVE f[r] # f[s]
    <2>1. ~Highest(M, r) /\ After(M, r).lo <= s.lo
        BY <1>7, AfterBetween
    <2>2. PICK g \in (r.hi + 1) .. (After(M, r).lo - 1) : g \notin S
        BY <2>1
    <2>3. After(M, r) \in M
        BY <2>1, AfterOf
    <2>4. /\ r.lo \in Nat /\ r.hi \in Nat /\ r.lo <= r.hi /\ s.lo \in Nat
          /\ After(M, r).lo \in Nat
        BY <2>3, LegalOne
    <2>5. g \in Nat /\ r.lo < g /\ g < s.lo
        BY <2>1, <2>2, <2>4
    <2>6. f[r] \in Nat /\ f[s] \in Nat
        <3>1. f[r] \in Seqs /\ f[s] \in Seqs
            BY <1>1, <1>3
        <3> QED
            BY <3>1, RangesAssumption DEF Seqs
    <2>7. ~ (f[s] <= g)
        BY <1>3, <2>2, <2>4, <2>5, <2>6
    <2> QED
        BY <1>3, <2>4, <2>5, <2>6, <2>7
<1>8. x.lo < y.lo \/ y.lo < x.lo
    <2>1. /\ x.lo \in Nat /\ x.hi \in Nat /\ x.lo <= x.hi /\ y.lo \in Nat /\ y.hi \in Nat /\ y.lo <= y.hi
        BY LegalOne
    <2>2. x.hi + 1 < y.lo \/ y.hi + 1 < x.lo
        BY <1>6, LegalOne
    <2> QED
        BY <2>1, <2>2
<1> QED
    BY <1>6, <1>7, <1>8

\* Joining a range with its neighbour covers the gap between them, no more;
\* nothing of the gap was covered.
LEMMA JoinedCovers ==
    ASSUME NEW M, Legal(M), NEW r \in M, ~Highest(M, r)
    PROVE  /\ Covered(Joined(M, r)) \subseteq Covered(M) \cup ((r.hi + 1) .. (After(M, r).lo - 1))
           /\ Covered(M) \cap ((r.hi + 1) .. (After(M, r).lo - 1)) = {}
           /\ r.hi + 1 <= After(M, r).lo - 1
           /\ r.hi + 1 \in Nat /\ After(M, r).lo - 1 \in Nat
<1> DEFINE n == After(M, r)
           new == [lo |-> r.lo, hi |-> n.hi]
<1>1. /\ n \in M /\ r.hi + 1 < n.lo /\ n # r
      /\ \A t \in M : t # r /\ t # n => t.hi + 1 < r.lo \/ n.hi + 1 < t.lo
    BY AfterOf
<1>2. Joined(M, r) = (M \ {r, n}) \cup {new}
    BY DEF Joined
<1> HIDE DEF n
<1>3. /\ r.lo \in Nat /\ r.hi \in Nat /\ n.lo \in Nat /\ n.hi \in Nat
      /\ r.lo <= r.hi /\ n.lo <= n.hi
    BY <1>1, LegalOne
<1>4. Covered(Joined(M, r)) \subseteq Covered(M) \cup (r.lo .. n.hi)
    BY <1>2 DEF Covered
<1>5. r.lo .. r.hi \subseteq Covered(M) /\ n.lo .. n.hi \subseteq Covered(M)
    BY <1>1 DEF Covered
<1>6. r.lo .. n.hi \subseteq (r.lo .. r.hi) \cup ((r.hi + 1) .. (n.lo - 1)) \cup (n.lo .. n.hi)
    BY <1>1, <1>3
<1>7. ASSUME NEW t \in M, NEW x \in (r.hi + 1) .. (n.lo - 1) PROVE x \notin t.lo .. t.hi
    <2>1. t.lo \in Nat /\ t.hi \in Nat /\ t.lo <= t.hi
        BY LegalOne
    <2>2. t = r \/ t = n \/ t.hi + 1 < r.lo \/ n.hi + 1 < t.lo
        BY <1>1
    <2> QED
        BY <1>3, <2>1, <2>2
<1>8. Covered(M) \cap ((r.hi + 1) .. (n.lo - 1)) = {}
    BY <1>7 DEF Covered
<1>9. r.hi + 1 <= n.lo - 1 /\ r.hi + 1 \in Nat /\ n.lo - 1 \in Nat
    BY <1>1, <1>3
<1>10. Covered(Joined(M, r)) \subseteq Covered(M) \cup ((r.hi + 1) .. (n.lo - 1))
    BY <1>4, <1>5, <1>6
<1> QED
    BY <1>8, <1>9, <1>10 DEF n

\* A stretch of sequences that meets no waiting sequence meets no waiting
\* span, and the other way round (spans_intersect).
LEMMA IntersectMeans ==
    ASSUME NEW spans, Legal(spans), NEW lo \in Nat, NEW hi \in Nat, lo <= hi
    PROVE  spans_intersect(spans, lo, hi) <=> Covered(spans) \cap (lo .. hi) # {}
<1>0. \A s \in spans : s.lo \in Nat /\ s.hi \in Nat /\ s.lo <= s.hi
    BY LegalOne
<1>1. ASSUME NEW s \in spans, s.lo <= hi, lo <= s.hi PROVE Covered(spans) \cap (lo .. hi) # {}
    <2> DEFINE x == IF s.lo < lo THEN lo ELSE s.lo
    <2>1. x \in s.lo .. s.hi /\ x \in lo .. hi
        BY <1>0, <1>1
    <2> HIDE DEF x
    <2>2. x \in Covered(spans)
        BY <2>1 DEF Covered
    <2> QED
        BY <2>1, <2>2
<1>2. ASSUME NEW x \in Covered(spans), x \in lo .. hi PROVE spans_intersect(spans, lo, hi)
    <2>1. PICK s \in spans : x \in s.lo .. s.hi
        BY DEF Covered
    <2>2. s.lo <= hi /\ lo <= s.hi
        BY <1>0, <1>2, <2>1
    <2> QED
        BY <2>2 DEF spans_intersect
<1> QED
    BY <1>1, <1>2 DEF spans_intersect

\* When some way to fit the ranges covers no waiting sequence beyond them,
\* best joins across a gap that holds none.
LEMMA BestAvoids ==
    ASSUME NEW M, Legal(M), IsFiniteSet(M), Cardinality(M) > Slots,
           NEW spans, Legal(spans),
           NEW S, S \subseteq Seqs, Covered(M) \subseteq S, Promise!Fits(S),
           (S \ Covered(M)) \cap Covered(spans) = {}
    PROVE  (Covered(Joined(M, best(M, spans))) \ Covered(M)) \cap Covered(spans) = {}
<1> DEFINE Gap(r) == (r.hi + 1) .. (After(M, r).lo - 1)
           free == {r \in M : ~Highest(M, r) /\ ~spans_intersect(spans, r.hi + 1, After(M, r).lo - 1)}
<1>1. PICK r \in M : ~Highest(M, r) /\ Gap(r) \subseteq S
    BY Crowded
<1>2. Covered(M) \cap Gap(r) = {} /\ r.hi + 1 <= After(M, r).lo - 1
      /\ r.hi + 1 \in Nat /\ After(M, r).lo - 1 \in Nat
    BY <1>1, JoinedCovers
<1>3. Covered(spans) \cap Gap(r) = {}
    BY <1>1, <1>2
<1>4. ~spans_intersect(spans, r.hi + 1, After(M, r).lo - 1)
    BY <1>2, <1>3, IntersectMeans
<1>5. free # {} /\ free \subseteq M
    BY <1>1, <1>4
<1> DEFINE b == best(M, spans)
<1>6. b = Lowest(free)
    BY <1>5 DEF best
<1>7. b \in free
    <2>1. \A t \in free : t.lo \in Seqs
        BY <1>5, LegalOne
    <2> HIDE DEF free, b
    <2> QED
        BY <1>5, <1>6, <2>1, LowestOf
<1> HIDE DEF b
<1>8. b \in M /\ ~Highest(M, b) /\ ~spans_intersect(spans, b.hi + 1, After(M, b).lo - 1)
    BY <1>7
<1>9. Covered(Joined(M, b)) \subseteq Covered(M) \cup Gap(b) /\ b.hi + 1 <= After(M, b).lo - 1
      /\ b.hi + 1 \in Nat /\ After(M, b).lo - 1 \in Nat
    BY <1>8, JoinedCovers
<1>10. Covered(spans) \cap Gap(b) = {}
    BY <1>8, <1>9, IntersectMeans
<1> HIDE DEF Gap
<1>11. (Covered(Joined(M, b)) \ Covered(M)) \cap Covered(spans) = {}
    BY <1>9, <1>10
<1> QED
    BY <1>11 DEF b

\* Merging makes up no new end: a range starts where one started, or where
\* the merged one does, and so for the end.
LEMMA MergedEnds ==
    ASSUME NEW R, Legal(R), NEW lo \in Seqs, NEW hi \in Seqs, NEW m \in Merged(R, lo, hi)
    PROVE  /\ m.lo = lo \/ \E r \in R : m.lo = r.lo
           /\ m.hi = hi \/ \E r \in R : m.hi = r.hi
<1> DEFINE T == Touching(R, lo, hi)
           A == {lo} \cup {t.lo : t \in T}
           B == {hi} \cup {t.hi : t \in T}
           new == [lo |-> Min(A), hi |-> Max(B)]
<1>1. T \subseteq R
    BY DEF Touching
<1>2. A \subseteq Seqs /\ A # {} /\ B \subseteq Seqs /\ B # {}
    BY <1>1, LegalOne
<1>3. Min(A) \in A /\ Max(B) \in B
    BY <1>2, MinOf, MaxOf
<1>4. m \in R \/ m = new
    BY DEF Merged
<1>5. new.lo \in A /\ new.hi \in B
    BY <1>3
<1> HIDE DEF T, new
<1> QED
    BY <1>1, <1>4, <1>5

\* Where a range to add starts: 0 is never covered.
First(lo) == IF lo < 1 THEN 1 ELSE lo

\* Every range of A starts where one of R or the new one does, and so for
\* its end.
EndsFrom(A, R, lo, hi) ==
    \A a \in A : /\ a.lo = lo \/ \E r \in R : a.lo = r.lo
                 /\ a.hi = hi \/ \E r \in R : a.hi = r.hi

\* What add_range_avoiding returns: the ranges themselves when they cover the
\* new one, or the ranges of exactly what was asked, joined once when they
\* are too many.
LEMMA AddCases ==
    ASSUME NEW R, Fit(R), NEW lo \in 0 .. MaxSeq, NEW hi \in 0 .. MaxSeq, NEW spans,
           NEW A, A = add_range_avoiding(R, lo, hi, spans),
           NEW X, X = Covered(R) \cup ((lo .. hi) \ {0})
    PROVE  \/ A = R /\ X = Covered(R)
           \/ \E M : /\ Legal(M) /\ IsFiniteSet(M) /\ Covered(M) = X
                     /\ A = IF Cardinality(M) <= Slots THEN M ELSE Joined(M, best(M, spans))
                     /\ EndsFrom(M, R, First(lo), hi)
<1> DEFINE from == First(lo)
           M == Merged(R, from, hi)
<1>1. from \in Nat /\ hi \in Nat /\ 1 <= from /\ (lo .. hi) \ {0} = from .. hi
    BY RangesAssumption DEF First
<1>2. A = IF from > hi \/ \E r \in R : r.lo <= from /\ hi <= r.hi THEN R
          ELSE IF Cardinality(M) <= Slots THEN M
          ELSE Joined(M, best(M, spans))
    BY DEF add_range_avoiding, First
<1> HIDE DEF from
<1>4. CASE from > hi
    <2>1. from .. hi = {}
        BY <1>1, <1>4
    <2> QED
        BY <1>1, <1>2, <1>4, <2>1
<1>5. CASE from <= hi /\ \E r \in R : r.lo <= from /\ hi <= r.hi
    <2>1. PICK r \in R : r.lo <= from /\ hi <= r.hi
        BY <1>5
    <2>2. r.lo \in Nat /\ r.hi \in Nat
        BY LegalOne DEF Fit
    <2>3. from .. hi \subseteq r.lo .. r.hi
        BY <1>1, <2>1, <2>2
    <2>4. from .. hi \subseteq Covered(R)
        BY <2>3 DEF Covered
    <2> QED
        BY <1>1, <1>2, <1>5, <2>4
<1>6. CASE from <= hi /\ ~ \E r \in R : r.lo <= from /\ hi <= r.hi
    <2>1. from \in Seqs /\ hi \in Seqs
        BY <1>1, <1>6, RangesAssumption DEF Seqs
    <2>2. Legal(M) /\ IsFiniteSet(M) /\ Covered(M) = X
        BY <1>1, <1>6, <2>1, MergedFacts DEF Fit
    <2>3. ~ (from > hi)
        BY <1>1, <1>6
    <2>4. A = IF Cardinality(M) <= Slots THEN M ELSE Joined(M, best(M, spans))
        BY <1>2, <1>6, <2>3
    <2>5. EndsFrom(M, R, from, hi)
        BY <2>1, MergedEnds DEF EndsFrom, Fit
    <2> HIDE DEF M
    <2> QED
        BY <2>2, <2>4, <2>5 DEF from
<1> QED
    BY <1>1, <1>4, <1>5, <1>6

\* add_range_avoiding covers exactly what was asked whenever that fits.
LEMMA AddExact ==
    ASSUME NEW R, Fit(R), NEW lo \in 0 .. MaxSeq, NEW hi \in 0 .. MaxSeq, NEW spans,
           Promise!Fits(Covered(R) \cup ((lo .. hi) \ {0}))
    PROVE  Covered(add_range_avoiding(R, lo, hi, spans)) = Covered(R) \cup ((lo .. hi) \ {0})
<1> DEFINE A == add_range_avoiding(R, lo, hi, spans)
           X == Covered(R) \cup ((lo .. hi) \ {0})
<1>1. \/ A = R /\ X = Covered(R)
      \/ \E M : /\ Legal(M) /\ IsFiniteSet(M) /\ Covered(M) = X
                /\ A = IF Cardinality(M) <= Slots THEN M ELSE Joined(M, best(M, spans))
                /\ EndsFrom(M, R, First(lo), hi)
    BY AddCases
<1>2. Promise!Fits(X)
    OBVIOUS
<1> HIDE DEF A, X
<1>3. Covered(A) = X
    BY <1>1, <1>2, RunsOfLegal
<1> QED
    BY <1>3 DEF A, X

\* add_range_avoiding covers no waiting sequence beyond what was asked when
\* some way to fit it covers none.
LEMMA AddAvoids ==
    ASSUME NEW R, Fit(R), NEW lo \in 0 .. MaxSeq, NEW hi \in 0 .. MaxSeq, NEW spans, Legal(spans),
           NEW X, X = Covered(R) \cup ((lo .. hi) \ {0}),
           NEW S, S \subseteq Seqs, X \subseteq S, Promise!Fits(S), (S \ X) \cap Covered(spans) = {}
    PROVE  (Covered(add_range_avoiding(R, lo, hi, spans)) \ X) \cap Covered(spans) = {}
<1> DEFINE A == add_range_avoiding(R, lo, hi, spans)
<1>1. \/ A = R /\ X = Covered(R)
      \/ \E M : /\ Legal(M) /\ IsFiniteSet(M) /\ Covered(M) = X
                /\ A = IF Cardinality(M) <= Slots THEN M ELSE Joined(M, best(M, spans))
                /\ EndsFrom(M, R, First(lo), hi)
    BY AddCases
<1> HIDE DEF A
<1>2. CASE Covered(A) = X
    BY <1>2 DEF A
<1>3. ASSUME NEW M, Legal(M), IsFiniteSet(M), Covered(M) = X, ~ (Cardinality(M) <= Slots),
             A = Joined(M, best(M, spans))
      PROVE  (Covered(A) \ X) \cap Covered(spans) = {}
    <2>1. Cardinality(M) > Slots
        BY <1>3, FS_CardinalityType, RangesAssumption
    <2> QED
        BY <1>3, <2>1, BestAvoids
<1> QED
    BY <1>1, <1>2, <1>3 DEF A

\* Nor does add_range_avoiding make up new ends.
LEMMA AddEnds ==
    ASSUME NEW R, Fit(R), NEW lo \in 0 .. MaxSeq, NEW hi \in 0 .. MaxSeq, NEW spans,
           NEW A, A = add_range_avoiding(R, lo, hi, spans)
    PROVE  EndsFrom(A, R, First(lo), hi)
<1>0. PICK X : X = Covered(R) \cup ((lo .. hi) \ {0})
    OBVIOUS
<1>1. \/ A = R /\ X = Covered(R)
      \/ \E M : /\ Legal(M) /\ IsFiniteSet(M) /\ Covered(M) = X
                /\ A = IF Cardinality(M) <= Slots THEN M ELSE Joined(M, best(M, spans))
                /\ EndsFrom(M, R, First(lo), hi)
    BY <1>0, AddCases
<1>2. CASE A = R
    BY <1>2 DEF EndsFrom
<1>3. ASSUME NEW M, Legal(M), IsFiniteSet(M), ~ (Cardinality(M) <= Slots),
             A = Joined(M, best(M, spans)), EndsFrom(M, R, First(lo), hi)
      PROVE  EndsFrom(A, R, First(lo), hi)
    <2> DEFINE b == best(M, spans)
               new == [lo |-> b.lo, hi |-> After(M, b).hi]
    <2>1. Cardinality(M) > 1
        BY <1>3, FS_CardinalityType, RangesAssumption
    <2>2. b \in M /\ ~Highest(M, b)
        BY <1>3, <2>1, BestOf
    <2> HIDE DEF b
    <2>3. After(M, b) \in M
        BY <1>3, <2>2, AfterOf
    <2>4. A = (M \ {b, After(M, b)}) \cup {new}
        BY <1>3 DEF Joined, b
    <2>5. new.lo = b.lo /\ new.hi = After(M, b).hi
        OBVIOUS
    <2> HIDE DEF new
    <2>6. ASSUME NEW a \in A PROVE \E m, n \in M : a.lo = m.lo /\ a.hi = n.hi
        BY <2>2, <2>3, <2>4, <2>5
    <2> QED
        BY <1>3, <2>6 DEF EndsFrom
<1> QED
    BY <1>1, <1>2, <1>3

\* Legal ranges are finitely many.
LEMMA LegalFinite ==
    ASSUME NEW R, Legal(R)
    PROVE  IsFiniteSet(R)
<1> DEFINE f == [r \in R |-> r.lo]
<1>1. f \in [R -> Seqs]
    BY LegalOne
<1>2. \A r, s \in R : r.lo = s.lo => r = s
    <2>1. ASSUME NEW r \in R, NEW s \in R, r # s PROVE r.lo # s.lo
        <3>1. r.lo \in Nat /\ r.hi \in Nat /\ r.lo <= r.hi /\ s.lo \in Nat /\ s.hi \in Nat /\ s.lo <= s.hi
            BY LegalOne
        <3>2. r.hi + 1 < s.lo \/ s.hi + 1 < r.lo
            BY <2>1, LegalOne
        <3> QED
            BY <3>1, <3>2
    <2> QED
        BY <2>1
<1>3. f \in Injection(R, Seqs)
    BY <1>1, <1>2 DEF Injection, IsInjective
<1> HIDE DEF f
<1> QED
    BY <1>3, SeqsFinite, FS_Injection

\* Adding one of some legal ranges to others of them puts it beside them, as
\* long as there are slots for all (clip_to, when nothing has to be joined).
LEMMA AddPiece ==
    ASSUME NEW Q, Legal(Q), Cardinality(Q) <= Slots, NEW R, R \subseteq Q, Fit(R), NEW p \in Q, NEW spans
    PROVE  add_range_avoiding(R, p.lo, p.hi, spans) = R \cup {p}
<1> DEFINE A == add_range_avoiding(R, p.lo, p.hi, spans)
           M == Merged(R, p.lo, p.hi)
<1>1. /\ p = [lo |-> p.lo, hi |-> p.hi]
      /\ p.lo \in Seqs /\ p.hi \in Seqs /\ p.lo <= p.hi
      /\ p.lo \in Nat /\ p.hi \in Nat /\ 1 <= p.lo
    BY LegalOne
<1>2. A = IF \E r \in R : r.lo <= p.lo /\ p.hi <= r.hi THEN R
          ELSE IF Cardinality(M) <= Slots THEN M
          ELSE Joined(M, best(M, spans))
    <2>1. ~ (p.lo < 1) /\ ~ (p.lo > p.hi)
        BY <1>1
    <2> QED
        BY <2>1 DEF add_range_avoiding
<1>3. \A r \in R : /\ r.lo \in Nat /\ r.hi \in Nat /\ r.lo <= r.hi
                   /\ r = p \/ r.hi + 1 < p.lo \/ p.hi + 1 < r.lo
    BY LegalOne
<1>4. CASE p \in R
    BY <1>1, <1>2, <1>4
<1>5. CASE p \notin R
    <2>1. ~ \E r \in R : r.lo <= p.lo /\ p.hi <= r.hi
        BY <1>1, <1>3, <1>5
    <2>2. Touching(R, p.lo, p.hi) = {}
        BY <1>1, <1>3, <1>5 DEF Touching
    <2> DEFINE B == {t.lo : t \in Touching(R, p.lo, p.hi)}
               C == {t.hi : t \in Touching(R, p.lo, p.hi)}
    <2>3. M = (R \ Touching(R, p.lo, p.hi)) \cup {[lo |-> Min({p.lo} \cup B), hi |-> Max({p.hi} \cup C)]}
        BY DEF Merged
    <2>4. {p.lo} \cup B = {p.lo} /\ {p.hi} \cup C = {p.hi}
        BY <2>2
    <2>5. Min({p.lo}) = p.lo /\ Max({p.hi}) = p.hi
        <3>1. {p.lo} \subseteq Seqs /\ {p.hi} \subseteq Seqs
            BY <1>1
        <3>2. Min({p.lo}) \in {p.lo} /\ Max({p.hi}) \in {p.hi}
            BY <3>1, MinOf, MaxOf
        <3> QED
            BY <3>2
    <2> HIDE DEF B, C, M
    <2>6. M = R \cup {p}
        BY <1>1, <2>2, <2>3, <2>4, <2>5
    <2>7. IsFiniteSet(Q) /\ M \subseteq Q
        BY <2>6, LegalFinite
    <2>8. Cardinality(M) <= Cardinality(Q) /\ Cardinality(M) \in Nat /\ Cardinality(Q) \in Nat
        BY <2>7, FS_Subset, FS_CardinalityType
    <2>9. Cardinality(M) <= Slots
        BY <2>8, RangesAssumption
    <2> QED
        BY <1>2, <2>1, <2>6, <2>9
<1> QED
    BY <1>4, <1>5

\* Covering ranges that start inside a set adds no run to it, nor does
\* cutting it off above.
LEMMA WidenFits ==
    ASSUME NEW S, S \subseteq Seqs, Promise!Fits(S), NEW R, Legal(R), \A r \in R : r.lo \in S,
           NEW top \in Seqs
    PROVE  Promise!Fits((S \cup Covered(R)) \cap (1 .. top))
<1> DEFINE U == (S \cup Covered(R)) \cap (1 .. top)
<1>1. ASSUME NEW x \in U, x - 1 \notin U PROVE x \in S /\ x - 1 \notin S
    <2>1. x \in Nat /\ 1 <= x /\ x <= top /\ top \in Nat /\ \A y \in S : y \in Nat /\ 1 <= y
        BY RangesAssumption DEF Seqs
    <2>2. x - 1 \notin S
        BY <1>1, <2>1
    <2>3. ASSUME x \notin S PROVE FALSE
        <3>1. PICK r \in R : x \in r.lo .. r.hi
            BY <2>3 DEF Covered
        <3>2. r.lo \in Nat /\ r.hi \in Nat /\ 1 <= r.lo
            BY LegalOne
        <3>3. x # r.lo
            BY <2>3
        <3>4. x - 1 \in r.lo .. r.hi /\ x - 1 \in 1 .. top
            BY <2>1, <3>1, <3>2, <3>3
        <3>5. x - 1 \in Covered(R)
            BY <3>4 DEF Covered
        <3> QED
            BY <1>1, <3>4, <3>5
    <2> QED
        BY <2>2, <2>3
<1> HIDE DEF U
<1>2. Promise!Runs(U) \subseteq Promise!Runs(S)
    BY <1>1 DEF Promise!Runs
<1>3. Promise!Runs(S) \subseteq Seqs
    BY DEF Promise!Runs
<1>4. IsFiniteSet(Promise!Runs(S))
    BY <1>3, SeqsFinite
<1>5. /\ Cardinality(Promise!Runs(U)) <= Cardinality(Promise!Runs(S))
      /\ Cardinality(Promise!Runs(U)) \in Nat /\ Cardinality(Promise!Runs(S)) \in Nat
    BY <1>2, <1>4, FS_Subset, FS_CardinalityType
<1>6. Cardinality(Promise!Runs(S)) <= Slots
    BY FitsMeans
<1>7. Promise!Fits(U)
    BY <1>5, <1>6, FitsMeans, RangesAssumption
<1> QED
    BY <1>7 DEF U

-----------------------------------------------------------------------------
(* What a clip under way keeps: the result is the pieces added so far      *)
(* unless all of them do not fit; it makes up no new start; the pieces     *)
(* left lie above it; and it covers no waiting sequence it need not.       *)

Clean(S, both, waiting) ==
    S \subseteq Seqs /\ both \subseteq S /\ Promise!Fits(S) /\ (S \ both) \cap waiting = {}

Kept(R, spans, left, out) ==
    LET both == Covered(R) \cap Covered(spans)
    IN  /\ Legal(spans)
        /\ left \subseteq pieces(R, spans)
        /\ out \cup left = pieces(R, spans) \/ ~Promise!Fits(both)
        /\ \A t \in out : t.lo \in both
        /\ \A t \in out, q \in left : t.hi < q.lo
        /\ (\E S : Clean(S, both, Covered(spans))) => (Covered(out) \ both) \cap Covered(spans) = {}

ClipKept == clip.busy => Kept(slots, clip.spans, clip.left, clip.out)

\* A clip starts with all its pieces left.
LEMMA KeptStart ==
    ASSUME NEW R, NEW spans, Legal(spans)
    PROVE  Kept(R, spans, pieces(R, spans), {})
BY NoneFit DEF Kept

\* Adding the lowest piece left keeps it so: a gap of the result that must be
\* closed lies below the pieces left, so it holds a waiting sequence only if
\* every way to fit the pieces covers one (the loop of clip_to).
LEMMA KeptPiece ==
    ASSUME NEW R, Legal(R), NEW spans, NEW left, left # {}, NEW out, Fit(out),
           Kept(R, spans, left, out),
           Covered(R) \cap Covered(spans) \subseteq Covered(out) \cup Covered(left),
           NEW p, p = Lowest(left),
           NEW O, O = add_range_avoiding(out, p.lo, p.hi, spans)
    PROVE  Kept(R, spans, left \ {p}, O)
<1> DEFINE Q == pieces(R, spans)
           both == Covered(R) \cap Covered(spans)
           W == Covered(spans)
<1>1. /\ Legal(spans) /\ left \subseteq Q /\ (out \cup left = Q \/ ~Promise!Fits(both))
      /\ (\A t \in out : t.lo \in both) /\ (\A t \in out, q \in left : t.hi < q.lo)
      /\ (\E S : Clean(S, both, W)) => (Covered(out) \ both) \cap W = {}
    BY DEF Kept
<1>2. Legal(Q) /\ Covered(Q) = both
    BY <1>1, PiecesFacts
<1>3. both \subseteq Covered(out) \cup Covered(left)
    OBVIOUS
<1> HIDE DEF Q, both, W
<1>4. p \in left /\ p \in Q /\ \A q \in left : p.lo <= q.lo
    <2>1. \A t \in left : t.lo \in Seqs
        BY <1>1, <1>2, LegalOne
    <2> QED
        BY <1>1, <2>1, LowestOf
<1>5. p.lo \in Seqs /\ p.hi \in Seqs /\ p.lo <= p.hi /\ p.lo \in Nat /\ p.hi \in Nat /\ 1 <= p.lo
      /\ p.hi <= MaxSeq /\ MaxSeq \in Nat
    BY <1>2, <1>4, LegalOne, RangesAssumption
<1>6. p.lo \in 0 .. MaxSeq /\ p.hi \in 0 .. MaxSeq /\ First(p.lo) = p.lo
      /\ (p.lo .. p.hi) \ {0} = p.lo .. p.hi
    BY <1>5 DEF First
<1>7. p.lo .. p.hi \subseteq both /\ p.lo \in both
    <2>1. p.lo .. p.hi \subseteq both
        BY <1>2, <1>4 DEF Covered
    <2> QED
        BY <1>5, <2>1
<1>8. ASSUME NEW q \in left, q # p PROVE p.hi < q.lo /\ q.lo \in Nat /\ q.hi \in Nat
    <2>1. q.lo \in Nat /\ q.hi \in Nat /\ q.lo <= q.hi
        BY <1>1, <1>2, LegalOne
    <2>2. p.hi + 1 < q.lo \/ q.hi + 1 < p.lo
        BY <1>1, <1>2, <1>4, <1>8, LegalOne
    <2> QED
        BY <1>4, <1>5, <2>1, <2>2
<1>9. EndsFrom(O, out, p.lo, p.hi)
    <2>1. EndsFrom(O, out, First(p.lo), p.hi)
        BY <1>6, AddEnds
    <2> QED
        BY <1>6, <2>1
<1>10. O \cup (left \ {p}) = Q \/ ~Promise!Fits(both)
    <2> SUFFICES ASSUME Promise!Fits(both) PROVE O \cup (left \ {p}) = Q
        OBVIOUS
    <2>1. Cardinality(Q) <= Slots
        BY <1>2, LegalFinite, RunsOfLegal
    <2>2. O = out \cup {p}
        BY <1>1, <1>2, <1>4, <2>1, AddPiece
    <2> QED
        BY <1>1, <1>4, <2>2
<1>11. \A t \in O : t.lo \in both
    BY <1>1, <1>7, <1>9 DEF EndsFrom
<1>12. ASSUME NEW t \in O, NEW q \in left \ {p} PROVE t.hi < q.lo
    <2>1. t.hi = p.hi \/ \E r \in out : t.hi = r.hi
        BY <1>9 DEF EndsFrom
    <2> QED
        BY <1>1, <1>8, <2>1
<1>13. ASSUME NEW S, Clean(S, both, W) PROVE (Covered(O) \ both) \cap W = {}
    <2> DEFINE X == Covered(out) \cup ((p.lo .. p.hi) \ {0})
               U == (S \cup Covered(out)) \cap (1 .. p.hi)
    <2>1. S \subseteq Seqs /\ both \subseteq S /\ Promise!Fits(S) /\ (S \ both) \cap W = {}
        BY <1>13 DEF Clean
    <2>2. Promise!Fits(U)
        <3>1. \A r \in out : r.lo \in S
            BY <1>1, <2>1
        <3> QED
            BY <1>5, <2>1, <3>1, WidenFits DEF Fit
    <2>3. Covered(out) \subseteq 1 .. p.hi
        <3>1. ASSUME NEW x \in Covered(out) PROVE x \in 1 .. p.hi
            <4>1. PICK t \in out : x \in t.lo .. t.hi
                BY <3>1 DEF Covered
            <4>2. t.lo \in Nat /\ t.hi \in Nat /\ 1 <= t.lo
                BY LegalOne DEF Fit
            <4>3. t.hi < p.lo
                BY <1>1, <1>4
            <4> QED
                BY <1>5, <4>1, <4>2, <4>3
        <3> QED
            BY <3>1
    <2>4. X \subseteq U
        <3>1. p.lo .. p.hi \subseteq 1 .. p.hi
            BY <1>5
        <3> QED
            BY <1>6, <1>7, <2>1, <2>3, <3>1
    <2>5. U \subseteq Seqs
        BY <1>5 DEF Seqs
    <2>6. ASSUME NEW x \in U, x \notin X PROVE x \notin W
        <3>1. x \in S /\ x \in 1 .. p.hi
            BY <2>6
        <3>2. ASSUME x \in both PROVE FALSE
            <4>1. x \in Covered(left)
                BY <1>3, <2>6, <3>2
            <4>2. PICK q \in left : x \in q.lo .. q.hi
                BY <4>1 DEF Covered
            <4>3. q # p
                BY <1>6, <2>6, <4>2
            <4>4. p.hi < q.lo /\ q.lo \in Nat /\ q.hi \in Nat
                BY <1>8, <4>3
            <4> QED
                BY <1>5, <3>1, <4>2, <4>4
        <3> QED
            BY <2>1, <3>1, <3>2
    <2>7. (U \ X) \cap W = {}
        BY <2>6
    <2>9. (Covered(out) \ both) \cap W = {}
        BY <1>1, <1>13
    <2>10. X \subseteq Covered(out) \cup both
        BY <1>6, <1>7
    <2>11. X = Covered(out) \cup ((p.lo .. p.hi) \ {0})
        OBVIOUS
    <2> HIDE DEF U, X
    <2>8. (Covered(O) \ X) \cap W = {}
        <3>1. (U \ X) \cap Covered(spans) = {}
            BY <2>7 DEF W
        <3>2. (Covered(add_range_avoiding(out, p.lo, p.hi, spans)) \ X) \cap Covered(spans) = {}
            BY <1>1, <1>6, <2>2, <2>4, <2>5, <2>11, <3>1, AddAvoids
        <3> QED
            BY <3>2 DEF W
    <2> QED
        BY <2>8, <2>9, <2>10
<1>14. left \ {p} \subseteq Q
    BY <1>1
<1> QED
    BY <1>1, <1>10, <1>11, <1>12, <1>13, <1>14 DEF Kept, Q, both, W

\* Every step keeps what a clip under way keeps.
LEMMA ClipKeptStep ==
    Inv /\ ClipKept /\ [Next]_vars => ClipKept'
<1> SUFFICES ASSUME Inv, ClipKept, [Next]_vars PROVE ClipKept'
    OBVIOUS
<1>0. Legal(slots) /\ Fit(clip.out) /\ clip \in Clip
    BY DEF Inv, Fit
<1>i. clip' = clip /\ clip = Idle => ClipKept'
    BY DEF ClipKept, Idle
<1>1. ASSUME NEW lo \in 0 .. MaxSeq, NEW hi \in 0 .. MaxSeq, NEW spans \in SpanSets, AddRange(lo, hi, spans)
      PROVE  ClipKept'
    BY <1>i, <1>1 DEF AddRange, Unlocked
<1>2. ASSUME NEW seq \in 1 .. MaxSeq, TrimBelow(seq)
      PROVE  ClipKept'
    BY <1>i, <1>2 DEF TrimBelow, Unlocked
<1>3. ASSUME NEW lo \in 1 .. MaxSeq, NEW hi \in 1 .. MaxSeq, RemoveSpan(lo, hi)
      PROVE  ClipKept'
    BY <1>i, <1>3 DEF RemoveSpan, Unlocked
<1>4. ASSUME NEW spans \in SpanSets, ClipStart(spans)
      PROVE  ClipKept'
    <2>1. slots' = slots /\ clip' = [busy |-> TRUE, spans |-> spans, left |-> pieces(slots, spans), out |-> {}]
        BY <1>4 DEF ClipStart
    <2>2. clip'.spans = spans /\ clip'.left = pieces(slots, spans) /\ clip'.out = {}
        BY <2>1
    <2>3. Kept(slots, spans, pieces(slots, spans), {})
        BY KeptStart, RangesAssumption
    <2> QED
        BY <2>1, <2>2, <2>3 DEF ClipKept
<1>5. CASE ClipPiece
    <2> DEFINE p == Lowest(clip.left)
               O == add_range_avoiding(clip.out, p.lo, p.hi, clip.spans)
    <2>1. /\ clip.busy /\ clip.left # {} /\ slots' = slots
          /\ clip' = [clip EXCEPT !.left = @ \ {p}, !.out = O]
        BY <1>5 DEF ClipPiece
    <2>2. clip'.spans = clip.spans /\ clip'.left = clip.left \ {p} /\ clip'.out = O
        BY <1>0, <2>1 DEF Clip
    <2>3. Covered(slots) \cap Covered(clip.spans) \subseteq Covered(clip.out) \cup Covered(clip.left)
        BY <2>1 DEF Inv
    <2>4. Kept(slots, clip.spans, clip.left, clip.out)
        BY <2>1 DEF ClipKept
    <2>5. p = Lowest(clip.left) /\ O = add_range_avoiding(clip.out, p.lo, p.hi, clip.spans)
        OBVIOUS
    <2> HIDE DEF p, O
    <2>6. Kept(slots, clip.spans, clip.left \ {p}, O)
        BY <1>0, <2>1, <2>3, <2>4, <2>5, KeptPiece
    <2> QED
        BY <2>1, <2>2, <2>6 DEF ClipKept
<1>6. CASE ClipEnd
    BY <1>6 DEF ClipEnd, Idle, ClipKept
<1>7. CASE Return
    BY <1>7 DEF Return, ClipKept
<1>8. CASE UNCHANGED vars
    BY <1>8 DEF vars, ClipKept
<1> QED
    BY <1>1, <1>2, <1>3, <1>4, <1>5, <1>6, <1>7, <1>8 DEF Next

\* What an operation that serves a request must show of the ranges before
\* (R) and after (A).
Serves(R, A, add, drop, waiting) ==
    LET exact == (Covered(R) \cup add) \ drop
    IN  /\ exact \subseteq Covered(A)
        /\ Promise!Fits(Covered(A))
        /\ Promise!Fits(exact) => Covered(A) = exact
        /\ (\E S : Clean(S, exact, waiting)) => (Covered(A) \ exact) \cap waiting = {}

\* An operation that does takes a step of Coverage.
LEMMA ServeStep ==
    ASSUME request = NoRequest, ~request'.refused,
           Serves(slots, slots', request'.add, request'.drop, request'.waiting)
    PROVE  Promise!Serve
<1> DEFINE exact == (Covered(slots) \cup request'.add) \ request'.drop
<1>1. /\ exact \subseteq Covered(slots') /\ Promise!Fits(Covered(slots'))
      /\ Promise!Fits(exact) => Covered(slots') = exact
      /\ (\E S : Clean(S, exact, request'.waiting)) => (Covered(slots') \ exact) \cap request'.waiting = {}
    BY DEF Serves
<1>2. request = Promise!NoRequest
    BY DEF NoRequest, Promise!NoRequest
<1> HIDE DEF exact
<1>3. Promise!Settled(exact, request'.waiting)
    BY <1>1 DEF Promise!Settled, Promise!Seqs, Clean, Seqs
<1> QED
    BY <1>2, <1>3 DEF Promise!Serve, exact

\* add_range_avoiding serves what it is asked.
LEMMA AddServes ==
    ASSUME NEW R, Fit(R), NEW lo \in 0 .. MaxSeq, NEW hi \in 0 .. MaxSeq, NEW spans, Legal(spans),
           NEW A, A = add_range_avoiding(R, lo, hi, spans)
    PROVE  Serves(R, A, (lo .. hi) \ {0}, {}, Covered(spans))
<1> DEFINE X == Covered(R) \cup ((lo .. hi) \ {0})
<1>1. X \subseteq Covered(A) /\ Fit(A)
    BY AddFacts
<1>2. Promise!Fits(Covered(A))
    BY <1>1, RunsOfLegal DEF Fit
<1>3. Promise!Fits(X) => Covered(A) = X
    BY AddExact
<1>4. X = Covered(R) \cup ((lo .. hi) \ {0}) /\ X \ {} = X
    OBVIOUS
<1> HIDE DEF X
<1>5. ASSUME NEW S, Clean(S, X, Covered(spans)) PROVE (Covered(A) \ X) \cap Covered(spans) = {}
    <2>1. S \subseteq Seqs /\ X \subseteq S /\ Promise!Fits(S) /\ (S \ X) \cap Covered(spans) = {}
        BY <1>5 DEF Clean
    <2> QED
        BY <1>4, <2>1, AddAvoids
<1> QED
    BY <1>1, <1>2, <1>3, <1>4, <1>5 DEF Serves

\* Ranges that fit and cover exactly what was asked serve it (trim_below,
\* remove_span).
LEMMA ExactServes ==
    ASSUME NEW R, NEW A, Fit(A), NEW drop, Covered(A) = Covered(R) \ drop, NEW waiting
    PROVE  Serves(R, A, {}, drop, waiting)
<1>1. Promise!Fits(Covered(A))
    BY RunsOfLegal DEF Fit
<1>2. (Covered(R) \cup {}) \ drop = Covered(A)
    OBVIOUS
<1> QED
    BY <1>1, <1>2 DEF Serves

\* So does what clip_to has built when no piece is left.
LEMMA ClipServes ==
    ASSUME NEW R, Fit(R), NEW spans, NEW out, Fit(out), Kept(R, spans, {}, out),
           Covered(R) \cap Covered(spans) \subseteq Covered(out)
    PROVE  Serves(R, out, {}, (1 .. MaxSeq) \ Covered(spans), Covered(spans))
<1> DEFINE both == Covered(R) \cap Covered(spans)
<1>1. Covered(R) \subseteq 1 .. MaxSeq
    BY CoveredSeqs DEF Fit, Seqs
<1>2. (Covered(R) \cup {}) \ ((1 .. MaxSeq) \ Covered(spans)) = both
    BY <1>1
<1>3. /\ Legal(spans) /\ (out = pieces(R, spans) \/ ~Promise!Fits(both))
      /\ (\E S : Clean(S, both, Covered(spans))) => (Covered(out) \ both) \cap Covered(spans) = {}
    BY DEF Kept
<1>4. Covered(pieces(R, spans)) = both
    BY <1>3, PiecesFacts DEF Fit
<1>5. Promise!Fits(Covered(out))
    BY RunsOfLegal DEF Fit
<1>6. both \subseteq Covered(out)
    OBVIOUS
<1> HIDE DEF both
<1> QED
    BY <1>2, <1>3, <1>4, <1>5, <1>6 DEF Serves

\* One step of the slots is one of Coverage, or none.
LEMMA CoverageStep ==
    Inv /\ ClipKept /\ [Next]_vars => [Promise!Next]_(Promise!vars)
<1> SUFFICES ASSUME Inv, ClipKept, [Next]_vars PROVE [Promise!Next]_(Promise!vars)
    OBVIOUS
<1>0. Fit(slots) /\ Fit(clip.out)
    BY DEF Inv
<1>s. ASSUME request = NoRequest, ~request'.refused,
             Serves(slots, slots', request'.add, request'.drop, request'.waiting)
      PROVE  [Promise!Next]_(Promise!vars)
    BY <1>s, ServeStep DEF Promise!Next
<1>u. ASSUME slots' = slots, request' = request
      PROVE  [Promise!Next]_(Promise!vars)
    BY <1>u DEF Promise!vars
<1>1. ASSUME NEW lo \in 0 .. MaxSeq, NEW hi \in 0 .. MaxSeq, NEW spans \in SpanSets, AddRange(lo, hi, spans)
      PROVE  [Promise!Next]_(Promise!vars)
    <2>1. /\ request = NoRequest /\ slots' = add_range_avoiding(slots, lo, hi, spans)
          /\ request' = [add |-> (lo .. hi) \ {0}, drop |-> {}, waiting |-> Covered(spans), refused |-> FALSE]
        BY <1>1 DEF AddRange, Unlocked
    <2>2. /\ request'.add = (lo .. hi) \ {0} /\ request'.drop = {} /\ request'.waiting = Covered(spans)
          /\ ~request'.refused
        BY <2>1
    <2>3. Legal(spans)
        BY RangesAssumption
    <2>4. Serves(slots, slots', (lo .. hi) \ {0}, {}, Covered(spans))
        BY <1>0, <2>1, <2>3, AddServes
    <2> QED
        BY <1>s, <2>1, <2>2, <2>4
<1>2. ASSUME NEW seq \in 1 .. MaxSeq, TrimBelow(seq)
      PROVE  [Promise!Next]_(Promise!vars)
    <2>1. /\ request = NoRequest /\ slots' = trim_below(slots, seq)
          /\ request' = [add |-> {}, drop |-> 1 .. seq - 1, waiting |-> {}, refused |-> FALSE]
        BY <1>2 DEF TrimBelow, Unlocked
    <2>2. request'.add = {} /\ request'.drop = 1 .. seq - 1 /\ request'.waiting = {} /\ ~request'.refused
        BY <2>1
    <2>3. Fit(slots') /\ Covered(slots') = Covered(slots) \ (1 .. seq - 1)
        BY <1>0, <2>1, TrimFacts DEF Seqs
    <2>4. Serves(slots, slots', {}, 1 .. seq - 1, {})
        BY <2>3, ExactServes
    <2> QED
        BY <1>s, <2>1, <2>2, <2>4
<1>3. ASSUME NEW lo \in 1 .. MaxSeq, NEW hi \in 1 .. MaxSeq, RemoveSpan(lo, hi)
      PROVE  [Promise!Next]_(Promise!vars)
    <2> DEFINE rest == without_span(slots, lo, hi)
               refused == Cardinality(rest) > Slots
    <2>1. /\ request = NoRequest /\ lo <= hi /\ slots' = IF refused THEN slots ELSE rest
          /\ request' = [add |-> {}, drop |-> lo .. hi, waiting |-> {}, refused |-> refused]
        BY <1>3 DEF RemoveSpan, Unlocked
    <2>2. /\ request'.add = {} /\ request'.drop = lo .. hi /\ request'.waiting = {}
          /\ request'.refused = refused
        BY <2>1
    <2>3. Legal(rest) /\ IsFiniteSet(rest) /\ Covered(rest) = Covered(slots) \ (lo .. hi)
        BY <1>0, <2>1, WithoutFacts DEF Seqs
    <2>4. Cardinality(rest) \in Nat /\ Slots \in Nat
        BY <2>3, FS_CardinalityType, RangesAssumption
    <2> HIDE DEF rest
    <2>5. CASE refused
        <3>1. ~Promise!Fits(Covered(rest))
            BY <2>3, <2>4, <2>5, RunsOfLegal
        <3>2. (Covered(slots) \cup request'.add) \ request'.drop = Covered(rest)
            BY <2>2, <2>3
        <3>3. request = Promise!NoRequest
            BY <2>1 DEF NoRequest, Promise!NoRequest
        <3>4. Covered(slots') = Covered(slots)
            BY <2>1, <2>5
        <3>5. request'.refused
            BY <2>2, <2>5
        <3> QED
            BY <3>1, <3>2, <3>3, <3>4, <3>5 DEF Promise!Next, Promise!Serve
    <2>6. CASE ~refused
        <3>1. slots' = rest /\ Fit(rest)
            BY <2>1, <2>3, <2>4, <2>6 DEF Fit
        <3>2. Serves(slots, rest, {}, lo .. hi, {})
            BY <2>3, <3>1, ExactServes
        <3>3. ~request'.refused
            BY <2>2, <2>6
        <3> QED
            BY <1>s, <2>1, <2>2, <3>1, <3>2, <3>3
    <2> QED
        BY <2>5, <2>6
<1>4. ASSUME NEW spans \in SpanSets, ClipStart(spans)
      PROVE  [Promise!Next]_(Promise!vars)
    BY <1>4, <1>u DEF ClipStart
<1>5. CASE ClipPiece
    BY <1>5, <1>u DEF ClipPiece
<1>6. CASE ClipEnd
    <2>1. /\ clip.busy /\ clip.left = {} /\ slots' = clip.out
          /\ request' = [add |-> {}, drop |-> (1 .. MaxSeq) \ Covered(clip.spans),
                         waiting |-> Covered(clip.spans), refused |-> FALSE]
        BY <1>6 DEF ClipEnd
    <2>2. /\ request'.add = {} /\ request'.drop = (1 .. MaxSeq) \ Covered(clip.spans)
          /\ request'.waiting = Covered(clip.spans) /\ ~request'.refused
        BY <2>1
    <2>3. request = NoRequest /\ Covered(slots) \cap Covered(clip.spans) \subseteq Covered(clip.out)
        BY <2>1, NoneFit DEF Inv
    <2>4. Kept(slots, clip.spans, {}, clip.out)
        BY <2>1 DEF ClipKept
    <2>5. Serves(slots, clip.out, {}, (1 .. MaxSeq) \ Covered(clip.spans), Covered(clip.spans))
        BY <1>0, <2>3, <2>4, ClipServes
    <2> QED
        BY <1>s, <2>1, <2>2, <2>3, <2>5
<1>7. CASE Return
    <2>1. request' = Promise!NoRequest /\ Covered(slots') = Covered(slots)
        BY <1>7 DEF Return, NoRequest, Promise!NoRequest
    <2> QED
        BY <2>1 DEF Promise!Next, Promise!Return
<1>8. CASE UNCHANGED vars
    BY <1>8, <1>u DEF vars
<1> QED
    BY <1>1, <1>2, <1>3, <1>4, <1>5, <1>6, <1>7, <1>8 DEF Next

\* The slots implement Coverage for any number of slots: what is asked is
\* covered exactly while it fits; when it does not, more is covered, never
\* less, and no waiting segment is swallowed that some other choice of at
\* most that many ranges would spare (add_range_avoiding, trim_below,
\* remove_span, clip_to).
THEOREM SlotsKeepCoverage ==
    Spec => KeepsCoverage
<1>1. Init => Promise!Init
    BY NoneFit DEF Init, Unlocked, NoRequest, Promise!Init, Promise!NoRequest
<1>2. Init => ClipKept
    BY DEF Init, Unlocked, Idle, ClipKept
<1> QED
    BY InitInv, InvStep, ClipKeptStep, CoverageStep, <1>1, <1>2, PTL DEF Spec, KeepsCoverage, Promise!Spec
=============================================================================
