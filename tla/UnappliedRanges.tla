-------------------------- MODULE UnappliedRanges --------------------------
(***************************************************************************)
(* The bounded set of unapplied ranges (UnappliedRanges of                 *)
(* storage/wal_unapplied_ranges.rs), the part of the watermark that keeps  *)
(* a replay from skipping frames the database may not have.                *)
(*                                                                         *)
(* The sorted slots are a set of ranges; a sequence of 0 is never covered. *)
(* Each operation runs under the lock of the ranges.  clip_to builds its   *)
(* result piece by piece, one step each, with the lock held.  Sums of      *)
(* sequences saturate in the code: no comparison here tells the difference. *)
(***************************************************************************)
EXTENDS Integers, FiniteSetsExt

CONSTANTS
    MaxSeq,    \* the largest sequence, u64::MAX
    Slots,     \* UNAPPLIED_RANGE_SLOTS
    SpanSets   \* the sets of waiting spans a scan may return

SeqRange == [lo : 1 .. MaxSeq, hi : 1 .. MaxSeq]

\* What from_pairs trusts of a sidecar: ranges in order, not empty, that
\* neither overlap nor touch.
Legal(R) ==
    /\ R \subseteq SeqRange
    /\ \A r \in R : r.lo <= r.hi
    /\ \A r, s \in R : r # s => r.hi + 1 < s.lo \/ s.hi + 1 < r.lo

ASSUME RangesAssumption ==
    /\ MaxSeq \in Nat \ {0} /\ Slots \in Nat \ {0}
    /\ \A spans \in SpanSets : Legal(spans)

VARIABLES
    slots,    \* the ranges held
    clip,     \* clip_to under way: the spans, the pieces left, the result
    request   \* what the operation just done was asked for, as sequences

vars == <<slots, clip, request>>

-----------------------------------------------------------------------------

Covered(R) == UNION {r.lo .. r.hi : r \in R}

spans_intersect(spans, lo, hi) == \E s \in spans : s.lo <= hi /\ lo <= s.hi

\* A faulty version: ranges that only touch are not merged.
FaultOverlapping(R, lo, hi) == {r \in R : r.lo <= hi /\ lo <= r.hi}

\* The ranges that overlap or touch lo .. hi.
Touching(R, lo, hi) == {r \in R : r.lo <= hi + 1 /\ lo <= r.hi + 1}

Merged(R, lo, hi) ==
    LET T == Touching(R, lo, hi)
    IN  (R \ T) \cup {[lo |-> Min({lo} \cup {t.lo : t \in T}), hi |-> Max({hi} \cup {t.hi : t \in T})]}

\* The range after r, and the lowest of some.
After(M, r) == CHOOSE s \in M : r.hi < s.lo /\ \A t \in M : r.hi < t.lo => s.lo <= t.lo
Lowest(M) == CHOOSE r \in M : \A t \in M : r.lo <= t.lo

Highest(M, r) == \A t \in M : t.lo <= r.lo

\* A faulty version: the lowest pair, whatever waits between.
FaultJoinLowest(M, spans) == Lowest(M)

\* The range to join with the one after it: across the lowest gap that no
\* span intersects, else the lowest of all.
best(M, spans) ==
    LET free == {r \in M : ~Highest(M, r) /\ ~spans_intersect(spans, r.hi + 1, After(M, r).lo - 1)}
    IN  Lowest(IF free = {} THEN M ELSE free)

Joined(M, r) == (M \ {r, After(M, r)}) \cup {[lo |-> r.lo, hi |-> After(M, r).hi]}

add_range_avoiding(R, from, hi, spans) ==
    LET lo == IF from < 1 THEN 1 ELSE from
        M == Merged(R, lo, hi)
    IN  IF lo > hi \/ \E r \in R : r.lo <= lo /\ hi <= r.hi THEN R
        ELSE IF Cardinality(M) <= Slots THEN M
        ELSE Joined(M, best(M, spans))

\* A faulty version: a range that ends at the cut goes too.
FaultTrimAtEnd(R, seq) ==
    {[r EXCEPT !.lo = IF @ < seq THEN seq ELSE @] : r \in {r \in R : seq < r.hi}}

trim_below(R, seq) ==
    {[r EXCEPT !.lo = IF @ < seq THEN seq ELSE @] : r \in {r \in R : seq <= r.hi}}

\* What is left of the ranges, a range around the span split in two.
without_span(R, lo, hi) ==
    {r \in R : r.hi < lo \/ hi < r.lo}
    \cup {[r EXCEPT !.hi = lo - 1] : r \in {r \in R : r.lo < lo /\ lo <= r.hi}}
    \cup {[r EXCEPT !.lo = hi + 1] : r \in {r \in R : r.lo <= hi /\ hi < r.hi}}

\* The parts of the ranges inside the spans.
pieces(R, spans) ==
    {p \in {[lo |-> IF r.lo < s.lo THEN s.lo ELSE r.lo,
             hi |-> IF r.hi < s.hi THEN r.hi ELSE s.hi] : r \in R, s \in spans} : p.lo <= p.hi}

-----------------------------------------------------------------------------

Idle == [busy |-> FALSE, spans |-> {}, left |-> {}, out |-> {}]
NoRequest == [add |-> {}, drop |-> {}, waiting |-> {}, refused |-> FALSE]

\* lock_ranges.
Unlocked == clip = Idle /\ request = NoRequest

Init == slots = {} /\ Unlocked

AddRange(lo, hi, spans) ==
    /\ Unlocked
    /\ slots' = add_range_avoiding(slots, lo, hi, spans)
    /\ request' = [add |-> (lo .. hi) \ {0}, drop |-> {}, waiting |-> Covered(spans), refused |-> FALSE]
    /\ UNCHANGED clip

TrimBelow(seq) ==
    /\ Unlocked
    /\ slots' = trim_below(slots, seq)
    /\ request' = [add |-> {}, drop |-> 1 .. seq - 1, waiting |-> {}, refused |-> FALSE]
    /\ UNCHANGED clip

\* A span that needs one slot too many is kept.
RemoveSpan(lo, hi) ==
    /\ Unlocked /\ lo <= hi
    /\ LET rest == without_span(slots, lo, hi)
           refused == Cardinality(rest) > Slots
       IN  /\ slots' = IF refused THEN slots ELSE rest
           /\ request' = [add |-> {}, drop |-> lo .. hi, waiting |-> {}, refused |-> refused]
    /\ UNCHANGED clip

ClipStart(spans) ==
    /\ Unlocked
    /\ clip' = [busy |-> TRUE, spans |-> spans, left |-> pieces(slots, spans), out |-> {}]
    /\ UNCHANGED <<slots, request>>

ClipPiece ==
    /\ clip.busy /\ clip.left # {}
    /\ LET p == Lowest(clip.left)
       IN  clip' = [clip EXCEPT !.left = @ \ {p},
                                !.out = add_range_avoiding(@, p.lo, p.hi, clip.spans)]
    /\ UNCHANGED <<slots, request>>

ClipEnd ==
    /\ clip.busy /\ clip.left = {}
    /\ slots' = clip.out
    /\ clip' = Idle
    /\ request' = [add |-> {}, drop |-> (1 .. MaxSeq) \ Covered(clip.spans),
                   waiting |-> Covered(clip.spans), refused |-> FALSE]

\* The operation returns and lets go of the lock.
Return ==
    /\ request' = NoRequest
    /\ UNCHANGED <<slots, clip>>

Next ==
    \/ \E lo, hi \in 0 .. MaxSeq, spans \in SpanSets : AddRange(lo, hi, spans)
    \/ \E seq \in 1 .. MaxSeq : TrimBelow(seq)
    \/ \E lo, hi \in 1 .. MaxSeq : RemoveSpan(lo, hi)
    \/ \E spans \in SpanSets : ClipStart(spans)
    \/ ClipPiece
    \/ ClipEnd
    \/ Return

Spec == Init /\ [][Next]_vars

-----------------------------------------------------------------------------

\* The slots are never more than there are, and always what from_pairs
\* trusts: a sidecar of this process is never refused by the next.
SlotsLegal ==
    /\ Legal(slots) /\ Cardinality(slots) <= Slots
    /\ Legal(clip.out) /\ Cardinality(clip.out) <= Slots

\* No operation, however full the slots, uncovers a sequence it was not
\* asked to drop, or fails to cover one it was asked to add.
NothingForgotten ==
    [][(Covered(slots) \cup request'.add) \ request'.drop \subseteq Covered(slots')]_vars

\* The slots keep the promise of a bounded coverage: exact while there is
\* room, and past it no waiting segment is covered that need not be.
Promise == INSTANCE Coverage WITH covered <- Covered(slots)
KeepsCoverage == Promise!Spec
=============================================================================
