--------------------------- MODULE FrameLogProofs ---------------------------
(***************************************************************************)
(* Proofs about FrameLog, for every slack, bucket size and scenario in     *)
(* which every segment can be read: types, the honesty of the files, that  *)
(* what leaves the log is durable, and the refinement of CapturedLog.      *)
(*                                                                         *)
(* The inductive invariant Inv accounts for every frame that a replay may  *)
(* still read and that is not durable.  While the process is down, the     *)
(* files must not vouch for it (Honest), with whichever sidecar is beside  *)
(* the file (Encodes).  While it is up, memory must keep it safe in one of *)
(* seven ways (Safe): in a bucket, in a range that no confirmation will    *)
(* remove, in the ring, in the rescue queue, too young to be vouched for,  *)
(* acknowledged by a suspended table that the next unclean answer will     *)
(* catch, or parked in an episode that will mark it.  Every step moves     *)
(* frames among these, and a file written from such a memory is honest.    *)
(***************************************************************************)
EXTENDS FrameLog, FiniteSetTheorems, SequenceTheorems, TLAPS

-----------------------------------------------------------------------------
(* The inductive invariant.                                                *)

\* What a replay or a prune may read, and the frames in a segment: all of them,
\* and those that are not durable.
Readable == In({"live", "replaying"})
FramesIn(i) == Range(segs[i].frames)
Undurable(i) == {f \in FramesIn(i) : rows[f] # "disk"}

\* The sequences between a frame and the bounds its segment goes by.
Near(i, f) == (f .. First(i)) \cup (Larger(First(i), Minus(f, Slack)) .. f)
\* A frame is marked by its bucket, or by ranges over everything near it.
MarkedIn(buckets, ranges, i, f) == Bucket(f) \in buckets \/ Near(i, f) \subseteq ranges

-----------------------------------------------------------------------------
Phases == {"boot", "replay", "fold", "drained", "stopped", "live"}
Segment == [frames : Seq(Nat), at : Folders]
Batch == [seg : Nat, age : 0..2, clean : 0..2, spoiled : BOOLEAN]
Probe == [basis : Nat, verdict : {"clean", "lag", "unsafe"}]
Confirm == [lo : Nat, hi : Nat, parked : Nat, age : 0..2, clean : 0..2, contaminated : BOOLEAN]
Memory ==
    [phase : Phases, boot_frame_high : Nat, own_floor : Nat, boot_hwm : Nat, top : Nat, opened : BOOLEAN,
     ring : SUBSET Nat, rescue : SUBSET Nat, hwm : Nat, sample : Nat, durable : Nat,
     buckets : SUBSET Nat, ranges : SUBSET Nat, suspect : BOOLEAN, lag_only : BOOLEAN, parked : Nat,
     healthy : Nat, probe : SUBSET Probe, parked_confirm : SUBSET Confirm, staged : SUBSET Nat,
     folding : SUBSET Batch, batches : SUBSET Batch]
File == [hwm : Nat, buckets : SUBSET Nat, ranges : SUBSET Nat, encoded : SUBSET Nat]

\* Types; the database has an entry for every captured frame.
Types ==
    /\ segs \in Seq(Segment)
    /\ \A i \in Segments : segs[i].frames # <<>>
    /\ DOMAIN rows = Captured
    /\ \A f \in DOMAIN rows : f > 0 /\ rows[f] \in Kinds
    /\ table \in {"ok", "lag", "suspended"} /\ unseen \in {0, 1}
    /\ file \in File /\ sidecar \in SUBSET Nat
    /\ mem = Down \/ mem \in Memory
    /\ crashes \in Nat /\ scenario \in Scenarios

\* The sets of sequences are finite; what the proofs use of it is a bound.
HasBound(S) == \E n \in Nat : \A s \in S : s <= n

\* Sequences come in order, to within a slack, in a segment and across segments.
Sorted ==
    /\ \A i \in Segments : \A f \in FramesIn(i) : First(i) < f + Slack /\ f < Last(segs[i].frames) + Slack
    /\ \A i, j \in Segments : i < j => \A f \in FramesIn(i), g \in FramesIn(j) : f < g + Slack

\* What has left the log is durable.
Retired == \A f \in FramesOf(In({"archive", "gone"})) : rows[f] = "disk"

\* A file vouches for no frame that is not durable: its watermark is less than a
\* slack above it, or it is marked.
Honest(d) ==
    \A i \in Readable : \A f \in Undurable(i) :
        d.hwm < f + Slack \/ MarkedIn(d.buckets, d.ranges, i, f)

\* The ranges of a file are also among its encoded buckets, all but one sequence
\* that no frame has: the own_floor of the process that wrote it.
Encodes(d) ==
    \E x \in Captured \cup {d.hwm} : \E e \in 0 .. x + 1 :
        /\ e \notin Captured
        /\ \A s \in d.ranges : s # e => Bucket(s) \in d.encoded

\* The watermarks in order; own_floor above every earlier frame, and never minted.
Marks ==
    /\ mem.boot_hwm <= mem.durable /\ mem.durable <= mem.hwm
    /\ mem.boot_hwm <= mem.sample /\ mem.sample <= mem.hwm /\ mem.healthy <= mem.hwm
    /\ mem.hwm <= mem.top /\ mem.parked <= mem.top
    /\ mem.own_floor = mem.boot_frame_high + 1 /\ mem.own_floor <= mem.top
    /\ mem.boot_hwm < mem.own_floor
    /\ (\E x \in Captured : mem.own_floor <= x + 1) \/ mem.own_floor = mem.boot_hwm + 1
    /\ \A f \in Captured : f <= mem.top /\ f # mem.own_floor
    /\ \A p \in mem.parked_confirm : p.parked <= mem.top
    /\ \A q \in mem.probe : q.basis <= mem.hwm
    /\ HasBound(mem.ranges)

\* A segment is wholly of this process or wholly of earlier ones, and no
\* frame is of this process before it is live.
OwnSegments ==
    /\ \A i \in Segments : \A f \in FramesIn(i) : f > mem.own_floor <=> First(i) > mem.own_floor
    /\ mem.opened => /\ mem.phase = "live" /\ Len(segs) > 0
                     /\ First(Len(segs)) > mem.own_floor /\ segs[Len(segs)].at = "live"
    /\ mem.phase # "live" => /\ mem.ring = {} /\ mem.rescue = {}
                             /\ \A f \in Captured : f < mem.own_floor

\* Every watermark is less than a slack above a frame that was not written yet.
Ahead(f) ==
    /\ mem.hwm < f + Slack /\ mem.sample < f + Slack /\ mem.durable < f + Slack
    /\ mem.healthy < f + Slack /\ mem.parked < f + Slack
    /\ \A p \in mem.parked_confirm : p.parked < f + Slack

InRing == \A f \in mem.ring : f \in Captured /\ rows[f] = "none" /\ f > mem.own_floor /\ Ahead(f)
InRescue == \A f \in mem.rescue : f \in Captured /\ f > mem.own_floor /\ f \notin mem.ring

\* A clean answer is on its way.  Until one has been counted, a confirmation that
\* lies over a suspended table cannot come due.
CleanComing == \E q \in mem.probe : q.verdict = "clean"
Stuck(p) == table = "suspended" /\ p.clean = 0 /\ ~CleanComing

\* The ways in which a frame that is not durable is safe.  Marked in the ranges,
\* by marks that no confirmation is going to remove.
Kept(i, f) ==
    /\ Near(i, f) \subseteq mem.ranges
    /\ \A p \in mem.parked_confirm :
        p.contaminated \/ Near(i, f) \cap (p.lo .. p.hi) = {} \/ Stuck(p)

\* Written less than two lags ago, and not yet vouched for.
Young(f) ==
    /\ mem.durable < f + Slack
    /\ rows[f] = "aging" \/ (rows[f] = "fresh" /\ mem.sample < f + Slack)

\* Acknowledged by a table that was suspended, which no probe has seen: the first
\* unclean answer marks everything above the healthy basis.
Unnoticed(f) ==
    /\ rows[f] = "lied" /\ table = "suspended" /\ ~mem.suspect
    /\ f <= mem.hwm /\ mem.healthy < f + Slack /\ mem.durable < f + Slack
    /\ unseen = 0 => mem.sample < f + Slack
    /\ \A q \in mem.probe : q.verdict = "clean" => q.basis < f + Slack

\* Acknowledged under suspicion, and only parked.
Suspected(f) ==
    /\ rows[f] = "lied" /\ mem.suspect /\ mem.hwm < f /\ f <= mem.parked
    /\ mem.lag_only => table = "suspended"

Safe(i, f) ==
    \/ Bucket(f) \in mem.buckets
    \/ Kept(i, f)
    \/ f \in mem.ring
    \/ f \in mem.rescue
    \/ Young(f)
    \/ Unnoticed(f)
    \/ Suspected(f)

AllSafe == \A i \in Readable : \A f \in Undurable(i) : Safe(i, f)

\* In an episode the stretch around the watermark is marked, nothing waits to be
\* confirmed, and every batch is spoiled.
Episode ==
    mem.suspect =>
        /\ mem.parked_confirm = {}
        /\ \A x \in suspension_range_lo(mem.hwm) .. mem.hwm + Slack : x > mem.own_floor => x \in mem.ranges
        /\ \A b \in mem.batches \cup mem.folding : b.spoiled

\* A batch that is not spoiled has rows as old as itself, or was lied to by a table
\* that is still suspended, with at most one clean answer since.
Settled(b) ==
    b.spoiled \/ \A f \in FramesIn(b.seg) :
        \/ rows[f] = "disk"
        \/ rows[f] = "fresh" /\ b.age = 0
        \/ rows[f] = "aging" /\ b.age < 2
        \/ rows[f] = "lied" /\ table = "suspended" /\ (b.clean = 0 \/ (b.clean = 1 /\ ~CleanComing))

Batches ==
    /\ \A b \in mem.batches : b.seg \in Segments /\ segs[b.seg].at = "settling" /\ Settled(b)
    /\ \A b, c \in mem.batches : b.seg = c.seg => b = c
    /\ \A b \in mem.folding : /\ b.seg \in Segments /\ segs[b.seg].at = "replaying" /\ Settled(b)
                              /\ b.age = 0 /\ b.clean = 0 /\ mem.phase = "fold"
    /\ mem.phase = "boot" => mem.batches = {}

\* A pass has staged every frame of what it read that is not durable; one that
\* found nothing has nothing left.
Staged ==
    mem.phase = "fold" => \A i \in In({"replaying"}) : \A f \in Undurable(i) : f \in mem.staged

Drained == mem.phase = "drained" => \A i \in Readable : Undurable(i) = {}

\* The disk, the files, the memory and what memory and files agree on.
Disk == Types /\ Sorted /\ Retired /\ HasBound(Captured)
Files == Honest(file) /\ Encodes(file) /\ HasBound(sidecar) /\ HasBound(file.ranges)
Memo ==
    /\ Marks /\ OwnSegments /\ InRing /\ InRescue /\ AllSafe
    /\ Episode /\ Batches /\ Staged /\ Drained
Synced ==
    /\ file.hwm <= mem.durable /\ sidecar = mem.ranges
    /\ \A s \in file.ranges : s # mem.own_floor => Bucket(s) \in file.encoded

Inv == Disk /\ Files /\ (Up => Memo /\ Synced)

-----------------------------------------------------------------------------
(* Least and greatest sequences.                                           *)

\* Of a family of sets of bounded sequences one contains no other.
LEMMA SmallestSet ==
    ASSUME NEW n \in Nat, NEW S, S \subseteq 0..n, NEW F, \A X \in F : X \subseteq S, F # {}
    PROVE  \E X \in F : \A Y \in F : Y \subseteq X => Y = X
<1>1. IsFiniteSet(S)
    <2>1. 0 \in Int /\ n \in Int OBVIOUS
    <2>2. IsFiniteSet(0..n) BY <2>1, FS_Interval
    <2> QED BY <2>2, FS_Subset
<1>2. IsWellFoundedOn(StrictSubsetOrdering(S), FiniteSubsetsOf(S))
    BY FS_StrictSubsetOrderingWellFounded
<1>3. FiniteSubsetsOf(S) = SUBSET S
    BY <1>1, FS_FiniteSubsetsOfFinite
<1>4. PICK X \in F : \A Y \in F : ~ (<<Y, X>> \in StrictSubsetOrdering(S))
    BY <1>2, <1>3, WFMin
<1> QED
    BY <1>4 DEF StrictSubsetOrdering

\* A non-empty set of sequences has a least element.
LEMMA MinOf ==
    ASSUME NEW S, S \subseteq Nat, S # {}
    PROVE  Min(S) \in S /\ Min(S) \in Nat /\ \A y \in S : Min(S) <= y
<1> DEFINE Low(x) == {y \in S : y <= x}
<1>0. PICK n : n \in S
    OBVIOUS
<1> DEFINE F == {Low(x) : x \in Low(n)}
<1>i. (\A s \in S : s \in Int /\ 0 <= s) /\ n \in Int /\ 0 <= n
    BY <1>0
<1>a. ASSUME NEW x \in Low(n) PROVE Low(x) \subseteq Low(n)
    <2>1. x \in S /\ x <= n OBVIOUS
    <2> SUFFICES ASSUME NEW y \in Low(x) PROVE y \in Low(n) OBVIOUS
    <2>2. y \in S /\ y <= x OBVIOUS
    <2>3. y <= n BY <1>i, <2>1, <2>2
    <2> QED BY <2>2, <2>3
<1>d. Low(n) \subseteq 0..n /\ n \in Low(n)
    <2>1. n \in Low(n) BY <1>0, <1>i
    <2> SUFFICES ASSUME NEW y \in Low(n) PROVE y \in 0..n BY <2>1
    <2>2. y \in S /\ y <= n OBVIOUS
    <2> QED BY <1>i, <2>2
<1>e. ASSUME NEW x \in S, NEW y \in S, y < x
      PROVE  Low(y) \subseteq Low(x) /\ x \in Low(x) /\ x \notin Low(y)
    <2>1. x \in Low(x) /\ x \notin Low(y) BY <1>e, <1>i
    <2> SUFFICES ASSUME NEW z \in Low(y) PROVE z \in Low(x) BY <2>1
    <2>2. z \in S /\ z <= y OBVIOUS
    <2>3. z <= x BY <1>e, <1>i, <2>2
    <2> QED BY <2>2, <2>3
<1>f. \A x \in Low(n) : x \in S /\ x <= n
    OBVIOUS
<1>g. \A x \in S : x <= n => x \in Low(n)
    OBVIOUS
<1> HIDE DEF Low
<1>b. \A x \in Low(n) : Low(x) \in F
    OBVIOUS
<1>1. (\A X \in F : X \subseteq Low(n)) /\ F # {}
    BY <1>a, <1>b, <1>d
<1> HIDE DEF F
<1>2. PICK X \in F : \A Y \in F : Y \subseteq X => Y = X
    <2>1. n \in Nat BY <1>0
    <2> QED BY <2>1, <1>1, <1>d, SmallestSet
<1>3. PICK x \in Low(n) : X = Low(x)
    BY <1>2 DEF F
<1>4. ASSUME NEW y \in S PROVE x <= y
    <2>0. x \in S /\ x <= n
        BY <1>f
    <2>1. y < x => y \in Low(n)
        BY <2>0, <1>g, <1>i
    <2>3. ~ (y < x)
        BY <1>2, <1>3, <1>b, <1>e, <2>0, <2>1
    <2> QED
        BY <1>i, <2>0, <2>3
<1>5. x \in S BY <1>3, <1>f
<1> QED
    BY <1>4, <1>5 DEF Min

\* A non-empty bounded set of sequences has a greatest element.
LEMMA MaxOf ==
    ASSUME NEW S, S \subseteq Nat, S # {}, NEW n \in Nat, \A y \in S : y <= n
    PROVE  Max(S) \in S /\ Max(S) \in Nat /\ \A y \in S : y <= Max(S)
<1> DEFINE T == {n - y : y \in S}
<1>i. \A s \in S : s \in Int /\ 0 <= s /\ s <= n
    OBVIOUS
<1>a. \A y \in S : n - y \in T
    OBVIOUS
<1>b. \A t \in T : \E y \in S : t = n - y
    OBVIOUS
<1> HIDE DEF T
<1>1. T \subseteq Nat
    BY <1>i, <1>b
<1>2. T # {}
    BY <1>a
<1>3. PICK x \in T : \A t \in T : x <= t
    BY <1>1, <1>2, MinOf
<1>4. PICK z \in S : x = n - z
    BY <1>b
<1>5. \A y \in S : z >= y
    BY <1>a, <1>i, <1>3, <1>4
<1>6. Max(S) \in S /\ \A y \in S : Max(S) >= y
    BY <1>5 DEF Max
<1> QED
    BY <1>6, <1>i

\* A bucket holds the BucketSize sequences from its number times that size on.
LEMMA BucketFacts ==
    ASSUME NEW s \in Nat
    PROVE  /\ Bucket(s) \in Nat
           /\ Bucket(s) * BucketSize <= s
           /\ s <= (Bucket(s) + 1) * BucketSize - 1
BY FrameLogAssumption, SMT DEF Bucket

\* A greater sequence is in no smaller bucket.
LEMMA BucketMonotone ==
    ASSUME NEW s \in Nat, NEW t \in Nat, s <= t
    PROVE  Bucket(s) <= Bucket(t)
BY FrameLogAssumption, SMT DEF Bucket

-----------------------------------------------------------------------------
(* Frames, segments and what lies between.                                 *)

\* A segment is not empty, and its frames are captured, positive sequences
\* that the database has an entry for.
LEMMA FrameFacts ==
    ASSUME Types, NEW i \in Segments
    PROVE  /\ i \in Nat /\ 1 <= i /\ i <= Len(segs)
           /\ segs[i].frames \in Seq(Nat) /\ segs[i].at \in Folders
           /\ First(i) \in FramesIn(i) /\ Last(segs[i].frames) \in FramesIn(i)
           /\ FramesIn(i) \subseteq Captured
           /\ \A f \in FramesIn(i) : f \in Nat /\ f > 0 /\ f \in DOMAIN rows /\ rows[f] \in Kinds
<1>0. DOMAIN segs = 1 .. Len(segs) /\ Len(segs) \in Nat /\ i \in DOMAIN segs
    BY DEF Types, Segments
<1>1. segs[i] \in Segment /\ segs[i].frames # <<>> /\ i \in Nat /\ 1 <= i /\ i <= Len(segs)
    <2>1. segs \in Seq(Segment) BY DEF Types
    <2>2. segs[i] \in Segment BY <1>0, <2>1
    <2>3. segs[i].frames # <<>> BY DEF Types
    <2> QED BY <1>0, <2>2, <2>3
<1>2. segs[i].frames \in Seq(Nat) /\ Len(segs[i].frames) \in Nat /\ Len(segs[i].frames) > 0
    BY <1>1 DEF Segment
<1>3. First(i) \in FramesIn(i) /\ Last(segs[i].frames) \in FramesIn(i)
    BY <1>2 DEF First, FramesIn, Range, Last
<1>4. FramesIn(i) \subseteq Captured
    BY DEF Captured, FramesOf, FramesIn
<1>5. FramesIn(i) \subseteq Nat
    BY <1>2 DEF FramesIn, Range
<1> QED
    BY <1>1, <1>2, <1>3, <1>4, <1>5 DEF Types, Segment

\* The sequences near a frame are less than a slack from it, and include it.
LEMMA NearFacts ==
    ASSUME Types, Sorted, NEW i \in Segments, NEW f \in FramesIn(i)
    PROVE  /\ f \in Near(i, f)
           /\ \A x \in Near(i, f) : /\ x \in Nat /\ x > 0 /\ f <= x + Slack /\ x < f + Slack
                                    /\ (f <= x \/ First(i) <= x) /\ (x <= f \/ x <= First(i))
           /\ f < First(i) => First(i) \in Near(i, f)
           /\ \A x \in Nat : First(i) <= x /\ x <= f /\ f <= x + Slack => x \in Near(i, f)
<1>1. f \in Nat /\ f > 0 /\ First(i) \in Nat /\ First(i) > 0 /\ First(i) < f + Slack /\ Slack \in Nat /\ Slack > 0
    BY FrameFacts, FrameLogAssumption DEF Sorted
<1> QED
    BY <1>1 DEF Near, Larger, Minus

\* What a boot or a prune loads from the two files, whichever was written last.
LEMMA LoadedTypes ==
    ASSUME Types
    PROVE  /\ Loaded.hwm = file.hwm /\ Loaded.hwm \in Nat
           /\ Loaded.ranges \subseteq Nat /\ Loaded.buckets \subseteq Nat
           /\ Loaded.ranges \in {{}, sidecar}
           /\ file.buckets \subseteq Loaded.buckets
BY DEF Types, File, Loaded

\* What the files say of a frame that is not durable.
LEMMA LoadedMarks ==
    ASSUME Types, Sorted, Honest(file), Encodes(file), NEW i \in Readable, NEW f \in Undurable(i)
    PROVE  \/ Loaded.hwm < f + Slack
           \/ Bucket(f) \in Loaded.buckets
           \/ Near(i, f) \subseteq Loaded.ranges
<1>1. i \in Segments /\ f \in FramesIn(i) /\ f \in Captured
    BY FrameFacts DEF Readable, In, Undurable
<1>2. f \in Near(i, f)
    BY <1>1, NearFacts
<1>3. file.hwm < f + Slack \/ Bucket(f) \in file.buckets \/ Near(i, f) \subseteq file.ranges
    BY DEF Honest, MarkedIn
<1>4. PICK e : e \notin Captured /\ \A s \in file.ranges : s # e => Bucket(s) \in file.encoded
    BY DEF Encodes
<1>5. CASE Near(i, f) \subseteq file.ranges
    <2>1. file.ranges # {} /\ f \in file.ranges BY <1>2, <1>5
    <2>2. Bucket(f) \in file.encoded BY <1>1, <1>4, <2>1
    <2>3. file.ranges = sidecar => Loaded.ranges = file.ranges BY <2>1 DEF Loaded
    <2>4. file.ranges # sidecar => file.encoded \subseteq Loaded.buckets BY <2>1 DEF Loaded
    <2> QED BY <1>5, <2>2, <2>3, <2>4
<1> QED
    BY <1>3, <1>5, LoadedTypes

\* A frame the files vouch for is durable.
LEMMA FrameSkip ==
    ASSUME Types, Sorted, Honest(file), Encodes(file), NEW i \in Readable, NEW f \in Undurable(i)
    PROVE  ~frame_is_applied(Loaded, f)
<1>1. i \in Segments /\ f \in FramesIn(i)
    BY DEF Readable, In, Undurable
<1>2. f \in Nat /\ f > 0 /\ f \in Near(i, f) /\ Slack \in Nat /\ Loaded.hwm \in Nat
    BY <1>1, FrameFacts, NearFacts, LoadedTypes, FrameLogAssumption
<1>3. Loaded.hwm < f + Slack => ~(f <= skip_below(Loaded))
    BY <1>2 DEF skip_below, Minus
<1> QED
    BY <1>2, <1>3, LoadedMarks DEF frame_is_applied

\* The segment after another bounds what the other holds.
LEMMA TopFacts ==
    ASSUME Types, Sorted, NEW listed, listed \subseteq Segments, NEW i \in listed,
           After(i, listed) # {}
    PROVE  /\ Top(i, listed) \in Nat
           /\ \A f \in FramesIn(i) : f <= Top(i, listed) + Slack
<1>1. After(i, listed) \subseteq Nat
    BY FrameFacts DEF After
<1>2. Min(After(i, listed)) \in After(i, listed)
    BY <1>1, MinOf
<1> DEFINE j == Min(After(i, listed))
<1>3. j \in Segments /\ i \in Segments /\ i < j
    BY <1>2, FrameFacts DEF After
<1>4. First(j) \in FramesIn(j) /\ First(j) \in Nat /\ First(j) > 0
    BY <1>3, FrameFacts
<1>5. \A f \in FramesIn(i) : f < First(j) + Slack /\ f \in Nat
    BY <1>3, <1>4, FrameFacts DEF Sorted
<1> QED
    BY <1>4, <1>5, FrameLogAssumption DEF Top

\* A segment the files vouch for is durable, frame by frame.
LEMMA SegmentSkip ==
    ASSUME Types, Sorted, Honest(file), Encodes(file), NEW listed, listed \subseteq Readable,
           NEW i \in AppliedSegments(Loaded, listed)
    PROVE  i \in listed /\ Undurable(i) = {}
<1> DEFINE hi == Top(i, listed)
<1>1. /\ i \in listed /\ After(i, listed) # {} /\ listed \subseteq Segments /\ i \in Segments /\ i \in Readable
      /\ segment_is_applied(Loaded, First(i), hi)
    BY DEF AppliedSegments, Bounded, Readable, In
<1>2. hi \in Nat /\ \A f \in FramesIn(i) : f <= hi + Slack
    BY <1>1, TopFacts
<1>3. SUFFICES ASSUME NEW f \in Undurable(i) PROVE FALSE
    BY <1>1
<1>4. f \in FramesIn(i) /\ f \in Nat /\ f > 0 /\ First(i) \in Nat /\ First(i) > 0 /\ First(i) < f + Slack /\ f <= hi + Slack
    BY <1>1, <1>2, FrameFacts DEF Undurable, Sorted
<1>5. Loaded.hwm \in Nat /\ Slack \in Nat /\ Slack > 0
    BY LoadedTypes, FrameLogAssumption
<1> HIDE DEF hi
<1>6. /\ First(i) <= hi /\ hi + Slack < skip_below(Loaded)
      /\ (First(i) .. hi) \cap Loaded.ranges = {}
      /\ (Bucket(Larger(Minus(First(i), Slack), 1)) .. Bucket(hi + Slack)) \cap Loaded.buckets = {}
    BY <1>1 DEF segment_is_applied, below_watermarks_by_a_slack
<1>7. ~(Loaded.hwm < f + Slack)
    BY <1>2, <1>4, <1>5, <1>6 DEF skip_below, Minus
<1>8. Bucket(f) \notin Loaded.buckets
    <2> DEFINE lo == Larger(Minus(First(i), Slack), 1)
    <2>1. lo \in Nat /\ lo <= f /\ f <= hi + Slack /\ hi + Slack \in Nat
        BY <1>2, <1>4, <1>5 DEF Larger, Minus
    <2> HIDE DEF lo
    <2>2. Bucket(lo) <= Bucket(f) /\ Bucket(f) <= Bucket(hi + Slack)
        BY <1>4, <2>1, BucketMonotone
    <2>3. Bucket(lo) \in Nat /\ Bucket(f) \in Nat /\ Bucket(hi + Slack) \in Nat
        BY <1>4, <2>1, BucketFacts
    <2>4. Bucket(f) \in Bucket(lo) .. Bucket(hi + Slack)
        BY <2>2, <2>3
    <2> QED BY <1>6, <2>4 DEF lo
<1>9. ~(Near(i, f) \subseteq Loaded.ranges)
    <2>1. CASE f < First(i)
        <3>1. First(i) \in Near(i, f) BY <1>1, <1>4, <2>1, NearFacts
        <3>2. First(i) \in First(i) .. hi BY <1>2, <1>4, <1>6
        <3> QED BY <1>6, <3>1, <3>2
    <2>2. CASE First(i) <= f /\ f <= hi
        <3>1. f \in Near(i, f) BY <1>1, <1>4, NearFacts
        <3>2. f \in First(i) .. hi BY <1>2, <1>4, <2>2
        <3> QED BY <1>6, <3>1, <3>2
    <2>3. CASE First(i) <= f /\ hi < f
        <3>1. hi \in Near(i, f) BY <1>1, <1>2, <1>4, <1>6, <2>3, NearFacts
        <3>2. hi \in First(i) .. hi BY <1>2, <1>4, <1>6
        <3> QED BY <1>6, <3>1, <3>2
    <2> QED BY <1>2, <1>4, <2>1, <2>2, <2>3
<1> QED
    BY <1>1, <1>7, <1>8, <1>9, LoadedMarks

-----------------------------------------------------------------------------
(* The file that a process writes.                                         *)

\* The memory of a process that is up has all its fields.
LEMMA MemTypes ==
    ASSUME Types, Up
    PROVE  mem \in Memory
BY DEF Types, Up, Down

\* durable_view is at most the durable watermark, below every batch that waits
\* for its rescue, and has every range but own_floor among its buckets too.
LEMMA ViewFacts ==
    ASSUME mem \in Memory, Marks, InRescue
    PROVE  /\ durable_view(mem) \in File
           /\ durable_view(mem).hwm <= mem.durable /\ mem.boot_hwm <= durable_view(mem).hwm
           /\ durable_view(mem).buckets = mem.buckets /\ durable_view(mem).ranges = mem.ranges
           /\ \A f \in mem.rescue : durable_view(mem).hwm < f
           /\ \A s \in mem.ranges : s # mem.own_floor => Bucket(s) \in durable_view(mem).encoded
<1> DEFINE w == Smaller(mem.durable, mem.hwm)
           h == cap_below_floor(w, mem.rescue)
<1>2. /\ mem.durable \in Nat /\ mem.hwm \in Nat /\ mem.boot_hwm \in Nat /\ mem.own_floor \in Nat /\ mem.boot_frame_high \in Nat
      /\ mem.rescue \subseteq Nat /\ mem.buckets \subseteq Nat /\ mem.ranges \subseteq Nat
    BY DEF Memory
<1>3. w \in Nat /\ w <= mem.durable /\ mem.boot_hwm <= w
    BY <1>2 DEF Smaller, Marks
<1>4. h \in Nat /\ h <= mem.durable /\ mem.boot_hwm <= h /\ \A f \in mem.rescue : h < f
    <2> HIDE DEF w
    <2>1. CASE mem.rescue = {}
        BY <1>2, <1>3, <2>1 DEF cap_below_floor
    <2>2. CASE mem.rescue # {}
        <3>1. Min(mem.rescue) \in mem.rescue /\ Min(mem.rescue) \in Nat /\ \A f \in mem.rescue : Min(mem.rescue) <= f
            BY <1>2, <2>2, MinOf
        <3>2. mem.own_floor < Min(mem.rescue) /\ mem.boot_hwm < mem.own_floor
            BY <3>1 DEF InRescue, Marks
        <3> QED BY <1>2, <1>3, <2>2, <3>1, <3>2 DEF cap_below_floor, Smaller
    <2> QED BY <2>1, <2>2
<1> HIDE DEF h, w
<1>5. durable_view(mem).hwm = h /\ durable_view(mem).buckets = mem.buckets /\ durable_view(mem).ranges = mem.ranges
    BY DEF durable_view, h, w
<1>6. durable_view(mem).encoded = {Bucket(s) : s \in mem.ranges \ (mem.boot_frame_high + 1 .. mem.own_floor)}
    BY DEF durable_view
<1>7. durable_view(mem).encoded \subseteq Nat
    BY <1>2, <1>6, BucketFacts
<1>8. durable_view(mem) \in File
    <2>1. durable_view(mem) = [hwm |-> durable_view(mem).hwm, buckets |-> durable_view(mem).buckets,
                               ranges |-> durable_view(mem).ranges, encoded |-> durable_view(mem).encoded]
        BY DEF durable_view
    <2> QED BY <1>2, <1>4, <1>5, <1>7, <2>1 DEF File
<1>9. \A s \in mem.ranges : s # mem.own_floor => Bucket(s) \in durable_view(mem).encoded
    BY <1>2, <1>6 DEF Marks
<1> QED
    BY <1>4, <1>5, <1>8, <1>9

\* A file written from a memory that keeps every frame safe vouches for no
\* frame that is not durable, with the sidecar beside it or with another one.
LEMMA ViewHonest ==
    Disk /\ Up /\ Memo => Honest(durable_view(mem)) /\ Encodes(durable_view(mem))
<1> SUFFICES ASSUME Disk, Up, Memo PROVE Honest(durable_view(mem)) /\ Encodes(durable_view(mem))
    OBVIOUS
<1> USE DEF Disk, Memo
<1> DEFINE d == durable_view(mem)
<1>1. /\ d \in File /\ d.hwm <= mem.durable /\ mem.boot_hwm <= d.hwm
      /\ d.buckets = mem.buckets /\ d.ranges = mem.ranges
      /\ \A f \in mem.rescue : d.hwm < f
      /\ \A s \in mem.ranges : s # mem.own_floor => Bucket(s) \in d.encoded
    BY ViewFacts, MemTypes
<1> HIDE DEF d
<1>2. d.hwm \in Nat /\ Slack \in Nat /\ Slack > 0 /\ mem \in Memory
    BY <1>1, FrameLogAssumption, MemTypes DEF File
<1>3. mem.durable \in Nat /\ mem.hwm \in Nat /\ mem.durable <= mem.hwm /\ mem.own_floor \in Nat /\ mem.boot_hwm \in Nat
    BY <1>2 DEF Memory, Marks
<1>4. ASSUME NEW i \in Readable, NEW f \in Undurable(i)
      PROVE  d.hwm < f + Slack \/ MarkedIn(d.buckets, d.ranges, i, f)
    <2>1. f \in Nat
        BY FrameFacts DEF Readable, In, Undurable
    <2>2. Safe(i, f)
        BY DEF AllSafe
    <2>3. CASE Bucket(f) \in mem.buckets \/ Kept(i, f)
        BY <1>1, <2>3 DEF Kept, MarkedIn
    <2>4. CASE f \in mem.ring
        <3>1. mem.durable < f + Slack BY <2>4 DEF InRing, Ahead
        <3> QED BY <1>1, <1>2, <1>3, <2>1, <3>1
    <2>5. CASE f \in mem.rescue
        <3>1. d.hwm < f BY <1>1, <2>5
        <3> QED BY <1>2, <2>1, <3>1
    <2>6. CASE Young(f) \/ Unnoticed(f)
        <3>1. mem.durable < f + Slack BY <2>6 DEF Young, Unnoticed
        <3> QED BY <1>1, <1>2, <1>3, <2>1, <3>1
    <2>7. CASE Suspected(f)
        <3>1. mem.hwm < f BY <2>7 DEF Suspected
        <3> QED BY <1>1, <1>2, <1>3, <2>1, <3>1
    <2> QED BY <2>2, <2>3, <2>4, <2>5, <2>6, <2>7 DEF Safe
<1>5. Honest(d)
    BY <1>4 DEF Honest
<1>6. \E x \in Captured \cup {d.hwm} : x \in Nat /\ mem.own_floor <= x + 1
    <2>1. CASE mem.own_floor = mem.boot_hwm + 1
        BY <1>1, <1>2, <1>3, <2>1
    <2>2. CASE \E x \in Captured : mem.own_floor <= x + 1
        <3>1. PICK x \in Captured : mem.own_floor <= x + 1 BY <2>2
        <3>2. PICK i \in Segments : x \in FramesIn(i) BY DEF Captured, FramesOf, FramesIn
        <3>3. x \in Nat BY <3>2, FrameFacts
        <3> QED BY <3>1, <3>3
    <2> QED BY <2>1, <2>2 DEF Marks
<1>7. mem.own_floor \notin Captured
    BY DEF Marks
<1>8. PICK x \in Captured \cup {d.hwm} : x \in Nat /\ mem.own_floor <= x + 1
    BY <1>6
<1>9. mem.own_floor \in 0 .. x + 1
    BY <1>3, <1>8
<1>10. Encodes(d)
    BY <1>1, <1>7, <1>8, <1>9 DEF Encodes
<1> QED
    BY <1>5, <1>10 DEF d

-----------------------------------------------------------------------------
(* Steps that leave the frames of every segment as they are.               *)

SameFrames == DOMAIN segs' = DOMAIN segs /\ \A i \in DOMAIN segs : segs'[i].frames = segs[i].frames
DiskStays == DOMAIN rows' = DOMAIN rows /\ \A f \in DOMAIN rows : rows[f] = "disk" => rows'[f] = "disk"

\* A step that moves segments and writes none changes nothing about their frames.
LEMMA FramesKept ==
    ASSUME SameFrames
    PROVE  /\ Segments' = Segments /\ Captured' = Captured
           /\ \A i \in Segments : /\ FramesIn(i)' = FramesIn(i) /\ First(i)' = First(i)
                                  /\ Last(segs[i].frames)' = Last(segs[i].frames)
                                  /\ \A f : Near(i, f)' = Near(i, f)
<1>1. Segments' = Segments
    BY DEF Segments, SameFrames
<1>2. ASSUME NEW i \in Segments
      PROVE  FramesIn(i)' = FramesIn(i) /\ First(i)' = First(i) /\ Last(segs[i].frames)' = Last(segs[i].frames)
    BY DEF Segments, SameFrames, FramesIn, First
<1>3. ASSUME NEW i \in Segments, NEW f PROVE Near(i, f)' = Near(i, f)
    BY <1>2 DEF Near
<1>4. Captured' = Captured
    BY <1>1, <1>2 DEF Captured, FramesOf, FramesIn
<1> QED
    BY <1>1, <1>2, <1>3, <1>4

\* What is not durable after a step that undoes nothing was not durable before.
LEMMA UndurableKept ==
    ASSUME Types, SameFrames, DiskStays
    PROVE  \A i \in Segments : Undurable(i)' \subseteq Undurable(i)
<1> SUFFICES ASSUME NEW i \in Segments, NEW f \in Undurable(i)' PROVE f \in Undurable(i)
    OBVIOUS
<1>1. f \in FramesIn(i)' /\ rows'[f] # "disk"
    BY DEF Undurable
<1>2. f \in FramesIn(i) /\ f \in DOMAIN rows
    BY <1>1, FramesKept, FrameFacts
<1> QED
    BY <1>1, <1>2 DEF Undurable, DiskStays

\* A step that only moves segments, none of them out of the log unless its frames
\* are durable, keeps the disk in order.
LEMMA DiskKept ==
    ASSUME Disk, segs' \in Seq(Segment), SameFrames, DiskStays,
           \A f \in DOMAIN rows : rows'[f] \in Kinds,
           \A i \in Segments : segs'[i].at \in {"archive", "gone"} =>
                segs[i].at \in {"archive", "gone"} \/ Undurable(i) = {},
           table' \in {"ok", "lag", "suspended"}, unseen' \in {0, 1}, file' \in File,
           sidecar' \in SUBSET Nat, mem' = Down \/ mem' \in Memory, crashes' \in Nat, scenario' \in Scenarios
    PROVE  Disk'
<1> USE DEF Disk
<1>1. Types'
    <2>1. \A i \in Segments' : segs'[i].frames # <<>>
        BY DEF Types, SameFrames, Segments
    <2>2. DOMAIN rows' = Captured'
        BY FramesKept DEF Types, DiskStays
    <2>3. \A f \in DOMAIN rows' : f > 0 /\ rows'[f] \in Kinds
        BY DEF Types, DiskStays
    <2> QED BY <2>1, <2>2, <2>3 DEF Types
<1>2. Sorted'
    BY FramesKept DEF Sorted
<1>3. HasBound(Captured)'
    BY FramesKept DEF HasBound
<1>4. Retired'
    <2> SUFFICES ASSUME NEW f \in FramesOf(In({"archive", "gone"}))' PROVE rows'[f] = "disk"
        BY DEF Retired
    <2>1. PICK i \in Segments' : segs'[i].at \in {"archive", "gone"} /\ f \in FramesIn(i)'
        BY DEF FramesOf, In, FramesIn
    <2>2. i \in Segments /\ f \in FramesIn(i)
        BY <2>1, FramesKept
    <2>3. f \in DOMAIN rows
        BY <2>2, FrameFacts
    <2>4. rows[f] = "disk"
        BY <2>1, <2>2 DEF Retired, FramesOf, In, FramesIn, Undurable
    <2> QED BY <2>3, <2>4 DEF DiskStays
<1> QED
    BY <1>1, <1>2, <1>3, <1>4

\* Files left alone stay honest while nothing durable is undone and no segment
\* comes back to be read.
LEMMA FilesKept ==
    ASSUME Types, Files, SameFrames, DiskStays, Readable' \subseteq Readable, file' = file,
           HasBound(sidecar)'
    PROVE  Files'
<1>1. Readable \subseteq Segments
    BY DEF Readable, In
<1>2. Honest(file)'
    <2> SUFFICES ASSUME NEW i \in Readable', NEW f \in Undurable(i)'
                 PROVE  file'.hwm < f + Slack \/ MarkedIn(file.buckets, file.ranges, i, f)'
        BY DEF Honest
    <2>1. i \in Readable /\ i \in Segments /\ f \in Undurable(i)
        BY <1>1, UndurableKept
    <2>2. Near(i, f)' = Near(i, f)
        BY <2>1, FramesKept
    <2>3. file.hwm < f + Slack \/ MarkedIn(file.buckets, file.ranges, i, f)
        BY <2>1 DEF Files, Honest
    <2> QED BY <2>2, <2>3 DEF MarkedIn
<1>3. Encodes(file)'
    BY FramesKept DEF Files, Encodes
<1> QED
    BY <1>2, <1>3 DEF Files, HasBound

\* A step that writes no file keeps the invariant if it keeps the memory's part
\* and does not lower the durable watermark.
LEMMA Unsaved ==
    ASSUME Inv, Disk', Up, SameFrames, DiskStays, Readable' \subseteq Readable, UNCHANGED <<file, sidecar>>,
           Memo', mem.durable <= mem'.durable, mem'.ranges = mem.ranges, mem'.own_floor = mem.own_floor,
           mem \in Memory, mem' \in Memory
    PROVE  Inv'
<1>1. Files'
    BY FilesKept DEF Inv, Disk, Files, HasBound
<1>2. Synced'
    <2>1. file.hwm \in Nat /\ mem.durable \in Nat /\ mem'.durable \in Nat
        BY DEF Inv, Disk, Types, File, Memory
    <2> QED BY <2>1 DEF Inv, Synced
<1> QED
    BY <1>1, <1>2 DEF Inv

\* ViewFacts as an implication, to be used of the next state.
LEMMA ViewBehind ==
    mem \in Memory /\ Marks /\ InRescue =>
        /\ durable_view(mem) \in File /\ durable_view(mem).hwm <= mem.durable
        /\ durable_view(mem).ranges = mem.ranges
        /\ \A s \in mem.ranges : s # mem.own_floor => Bucket(s) \in durable_view(mem).encoded
BY ViewFacts

\* After a save, memory and files agree.
LEMMA Saved ==
    ASSUME Disk', Up', Memo', file' = durable_view(mem'), sidecar' = mem'.ranges
    PROVE  Inv'
<1>1. Honest(durable_view(mem))' /\ Encodes(durable_view(mem))'
    BY ViewHonest, PTL
<1>2. mem' \in Memory /\ Marks' /\ InRescue'
    BY DEF Disk, Memo, Types, Up, Down
<1>3. /\ durable_view(mem)' \in File /\ durable_view(mem)'.hwm <= mem'.durable
      /\ durable_view(mem)'.ranges = mem'.ranges
      /\ \A s \in mem'.ranges : s # mem'.own_floor => Bucket(s) \in durable_view(mem)'.encoded
    <2>1. (/\ durable_view(mem) \in File /\ durable_view(mem).hwm <= mem.durable
           /\ durable_view(mem).ranges = mem.ranges
           /\ \A s \in mem.ranges : s # mem.own_floor => Bucket(s) \in durable_view(mem).encoded)'
        <3>1. (mem \in Memory /\ Marks /\ InRescue)' BY <1>2 DEF Memory
        <3> QED BY <3>1, ViewBehind, PTL
    <2> QED BY <2>1 DEF File
<1>4. Honest(file)' /\ Encodes(file)'
    BY <1>1 DEF Honest, Encodes
<1>5. HasBound(mem.ranges)'
    BY <1>2 DEF Marks
<1>6. Files'
    BY <1>3, <1>4, <1>5 DEF Files, HasBound
<1>7. Synced'
    BY <1>3 DEF Synced
<1> QED
    BY <1>6, <1>7 DEF Inv

\* A process that is down leaves only the disk and the files to account for.
LEMMA Lifeless ==
    ASSUME Inv, Disk', ~Up', SameFrames, DiskStays, Readable' \subseteq Readable, file' = file, HasBound(sidecar)'
    PROVE  Inv'
BY FilesKept DEF Inv, Disk

\* A step that saves: it keeps the invariant if the memory it saves does.
LEMMA SaveKeeps ==
    ASSUME Inv, NEW m \in Memory, Save(m), HasBound(m.ranges),
           segs' \in Seq(Segment), SameFrames, rows' = rows,
           \A i \in Segments : segs'[i].at \in {"archive", "gone"} =>
                segs[i].at \in {"archive", "gone"} \/ Undurable(i) = {},
           table' \in {"ok", "lag", "suspended"}, unseen' \in {0, 1}, scenario' = scenario,
           mem' = Down => segs' = segs,
           mem' = m => Memo'
    PROVE  Inv'
<1>1. DiskStays
    BY DEF DiskStays
<1>2. Types /\ Disk
    BY DEF Inv, Disk
<1>3. CASE mem' = m /\ sidecar' = m.ranges /\ file' = durable_view(m) /\ crashes' = crashes
    <2>1. mem' \in Memory /\ Up' /\ Memo'
        BY <1>3 DEF Up, Memory, Phases
    <2>2. Marks' /\ InRescue'
        BY <2>1 DEF Memo
    <2>3. (durable_view(mem) \in File)'
        <3>1. (mem \in Memory /\ Marks /\ InRescue)' BY <2>1, <2>2 DEF Memory
        <3>2. (/\ durable_view(mem) \in File /\ durable_view(mem).hwm <= mem.durable
               /\ durable_view(mem).ranges = mem.ranges
               /\ \A s \in mem.ranges : s # mem.own_floor => Bucket(s) \in durable_view(mem).encoded)'
            BY <3>1, ViewBehind, PTL
        <3> QED BY <3>2
    <2>4. file' \in File
        BY <1>3, <2>3 DEF File
    <2>5. sidecar' \in SUBSET Nat
        BY <1>3 DEF Memory
    <2>6. Disk'
        BY <1>1, <1>2, <1>3, <2>1, <2>4, <2>5, DiskKept DEF Types
    <2> QED BY <1>3, <2>1, <2>6, Saved
<1>4. CASE crashes < scenario.max_crashes /\ crashes' = crashes + 1 /\ mem' = Down /\ sidecar' = m.ranges /\ file' = file
    <2>1. sidecar' \in SUBSET Nat
        BY <1>4 DEF Memory
    <2>2. ~Up'
        BY <1>4 DEF Up, Down
    <2>3. Disk'
        BY <1>1, <1>2, <1>4, <2>1, DiskKept DEF Types
    <2>4. Readable' \subseteq Readable
        BY <1>4 DEF Readable, In, Segments
    <2> QED BY <1>1, <1>4, <2>2, <2>3, <2>4, Lifeless DEF HasBound
<1> QED
    BY <1>3, <1>4 DEF Save

-----------------------------------------------------------------------------
(* The table, the file and death.                                          *)

\* With segments and rows as they were, every notion of theirs is as it was.
LEMMA Still ==
    ASSUME UNCHANGED <<segs, rows>>
    PROVE  /\ SameFrames /\ DiskStays /\ Readable' = Readable
           /\ \A i : Undurable(i)' = Undurable(i) /\ FramesIn(i)' = FramesIn(i)
           /\ \A i, f : Near(i, f)' = Near(i, f)
BY DEF SameFrames, DiskStays, Readable, In, Segments, Undurable, FramesIn, Near, First

\* With the memory as it was too, only the safety of frames and of batches may
\* depend on what changed: the table.
LEMMA MemoStill ==
    ASSUME Memo, UNCHANGED <<segs, rows, mem>>, AllSafe', Batches'
    PROVE  Memo'
<1>1. Captured' = Captured /\ Segments' = Segments
    BY DEF Captured, FramesOf, Segments
<1>2. Marks' /\ InRing' /\ InRescue'
    BY <1>1 DEF Memo, Marks, HasBound, InRing, InRescue, Ahead
<1>3. OwnSegments'
    BY <1>1 DEF Memo, OwnSegments, FramesIn, First
<1>4. Episode' /\ Staged' /\ Drained'
    BY Still DEF Memo, Episode, Staged, Drained, In, Segments
<1> QED
    BY <1>2, <1>3, <1>4 DEF Memo

\* A table that suspends, resumes or lags.  It resumes only once a probe has seen
\* it, when nothing it acknowledged is still unnoticed.
LEMMA TableSteps ==
    ASSUME Inv, TableSuspends \/ TableResumes \/ TableLags
    PROVE  Inv'
<1>1. UNCHANGED <<segs, rows, mem, file, sidecar, crashes, scenario>>
    BY DEF TableSuspends, TableResumes, TableLags, disk
<1>2. table' \in {"ok", "lag", "suspended"} /\ unseen' \in {0, 1}
    BY DEF TableSuspends, TableResumes, TableLags, Inv, Disk, Types
<1>3. Disk'
    BY <1>1, <1>2, Still, DiskKept DEF Inv, Disk, Types
<1>4. CASE ~Up
    <2>1. ~Up' BY <1>1, <1>4 DEF Up
    <2> QED BY <1>1, <1>3, <2>1, Still, Lifeless DEF Inv, Files, HasBound
<1>5. CASE Up
    <2>1. Memo /\ mem \in Memory
        BY <1>5, MemTypes DEF Inv, Disk
    <2>2. \/ table # "suspended" /\ table' = "suspended"
          \/ table # "suspended" /\ table' # "suspended"
          \/ mem.suspect /\ ~mem.lag_only
        BY <1>5 DEF TableSuspends, TableResumes, TableLags
    <2>3. ASSUME NEW i \in Readable, NEW f \in Undurable(i) PROVE Safe(i, f)'
        <3>1. Safe(i, f) BY <2>1 DEF Memo, AllSafe
        <3>2. CASE Kept(i, f)
            <4>1. \A p \in mem.parked_confirm : p.contaminated \/ Near(i, f) \cap (p.lo .. p.hi) = {}
                BY <2>1, <2>2, <3>2 DEF Kept, Stuck, Memo, Episode
            <4> QED BY <1>1, <3>2, <4>1, Still DEF Kept, Safe
        <3>3. CASE Young(f)
            BY <1>1, <3>3 DEF Young, Safe
        <3>4. CASE Unnoticed(f)
            BY <2>2, <3>4 DEF Unnoticed
        <3>5. CASE Suspected(f)
            BY <1>1, <2>2, <3>5 DEF Suspected, Safe
        <3> QED BY <1>1, <3>1, <3>2, <3>3, <3>4, <3>5 DEF Safe
    <2>4. AllSafe'
        BY <1>1, <2>3, Still DEF AllSafe
    <2>5. ASSUME NEW b \in mem.batches \cup mem.folding, Settled(b) PROVE Settled(b)'
        BY <1>1, <2>1, <2>2, <2>5, Still DEF Settled, Memo, Episode
    <2>6. Batches'
        BY <1>1, <2>1, <2>5 DEF Batches, Memo, Segments
    <2>7. Memo'
        BY <1>1, <2>1, <2>4, <2>6, MemoStill
    <2>8. mem.durable <= mem'.durable
        BY <1>1, <2>1 DEF Memory
    <2> QED BY <1>1, <1>3, <1>5, <2>1, <2>7, <2>8, Still, Unsaved
<1> QED
    BY <1>4, <1>5

\* persist_if_due writes the durable view.
LEMMA PersistStep ==
    ASSUME Inv, Persist
    PROVE  Inv'
<1>1. UNCHANGED <<segs, rows, table, unseen, mem, sidecar, crashes, scenario>> /\ file' = durable_view(mem') /\ Up
    BY DEF Persist, world
<1>2. mem \in Memory /\ Memo /\ Synced /\ Up'
    BY <1>1, MemTypes DEF Inv, Disk, Up
<1>3. file' \in File
    BY <1>1, <1>2, ViewFacts DEF Memo
<1>4. Disk'
    BY <1>1, <1>3, Still, DiskKept DEF Inv, Disk, Types
<1>5. AllSafe' /\ Batches'
    BY <1>1, <1>2, Still DEF Memo, AllSafe, Safe, Kept, Stuck, CleanComing, Young, Unnoticed, Suspected,
                             Batches, Settled, Segments
<1>6. Memo'
    BY <1>1, <1>2, <1>5, MemoStill
<1>7. sidecar' = mem'.ranges
    BY <1>1, <1>2 DEF Synced
<1> QED
    BY <1>1, <1>2, <1>4, <1>6, <1>7, Saved

\* The process dies, and the page cache with it if the host does.
LEMMA CrashStep ==
    ASSUME Inv, Crash
    PROVE  Inv'
<1>1. UNCHANGED <<segs, file, sidecar, scenario>> /\ mem' = Down /\ crashes' = crashes + 1 /\ crashes \in Nat
    BY DEF Crash, disk, Inv, Disk, Types
<1>2. /\ DOMAIN rows' = DOMAIN rows
      /\ \A f \in DOMAIN rows : rows'[f] \in Kinds /\ (rows[f] = "disk" => rows'[f] = "disk")
      /\ table' \in {"ok", "lag", "suspended"} /\ unseen' \in {0, 1}
    BY DEF Crash, world, Inv, Disk, Types, Kinds
<1>3. SameFrames /\ DiskStays /\ Readable' = Readable
    BY <1>1, <1>2 DEF SameFrames, DiskStays, Readable, In, Segments
<1>4. Disk'
    BY <1>1, <1>2, <1>3, DiskKept DEF Inv, Disk, Types
<1>5. ~Up'
    BY <1>1 DEF Up, Down
<1> QED
    BY <1>1, <1>3, <1>4, <1>5, Lifeless DEF Inv, Files, HasBound

-----------------------------------------------------------------------------
(* A lag passes.                                                           *)

\* A lag later, rows that were aging are on disk and fresh ones are aging.
LEMMA OlderFacts ==
    ASSUME Types, rows' = Older
    PROVE  /\ DOMAIN rows' = DOMAIN rows /\ DiskStays
           /\ \A f \in DOMAIN rows : /\ rows'[f] \in Kinds
                                     /\ rows'[f] = "fresh" => FALSE
                                     /\ rows'[f] = "aging" => rows[f] = "fresh"
                                     /\ rows[f] = "fresh" => rows'[f] = "aging"
                                     /\ rows[f] = "aging" => rows'[f] = "disk"
                                     /\ rows[f] \notin {"fresh", "aging"} => rows'[f] = rows[f]
<1>1. \A f \in DOMAIN rows : rows[f] \in {"none", "fresh", "aging", "disk", "lied"}
    BY DEF Types, Kinds
<1> QED
    BY <1>1 DEF Older, DiskStays, Kinds

\* The fields a lag changes: the two samples of the watermark, and the ages.
LEMMA LagFields ==
    ASSUME mem \in Memory, LagPasses
    PROVE  /\ mem'.phase = mem.phase /\ mem'.boot_frame_high = mem.boot_frame_high
           /\ mem'.own_floor = mem.own_floor /\ mem'.boot_hwm = mem.boot_hwm
           /\ mem'.top = mem.top /\ mem'.opened = mem.opened /\ mem'.ring = mem.ring
           /\ mem'.rescue = mem.rescue /\ mem'.hwm = mem.hwm /\ mem'.sample = mem.hwm
           /\ mem'.durable = Larger(mem.durable, mem.sample)
           /\ mem'.buckets = mem.buckets /\ mem'.ranges = mem.ranges
           /\ mem'.suspect = mem.suspect /\ mem'.lag_only = mem.lag_only /\ mem'.parked = mem.parked
           /\ mem'.healthy = mem.healthy /\ mem'.probe = mem.probe
           /\ mem'.parked_confirm = {[p EXCEPT !.age = OneOlder(@)] : p \in mem.parked_confirm}
           /\ mem'.staged = mem.staged /\ mem'.folding = mem.folding
           /\ mem'.batches = {[b EXCEPT !.age = OneOlder(@)] : b \in mem.batches}
           /\ mem' \in Memory
<1>1. Up
    BY DEF Up, Memory, Phases
<1>2. {[p EXCEPT !.age = OneOlder(@)] : p \in mem.parked_confirm} \in SUBSET Confirm
    BY DEF Memory, Confirm, OneOlder, Smaller
<1>3. {[b EXCEPT !.age = OneOlder(@)] : b \in mem.batches} \in SUBSET Batch
    BY DEF Memory, Batch, OneOlder, Smaller
<1>4. Larger(mem.durable, mem.sample) \in Nat
    BY DEF Memory, Larger
<1>5. mem' \in Memory
    BY <1>1, <1>2, <1>3, <1>4 DEF LagPasses, Memory
<1> QED
    BY <1>1, <1>5 DEF LagPasses, Memory

\* An older confirmation covers what it did.
LEMMA AgedConfirms ==
    ASSUME mem \in Memory, NEW q \in {[p EXCEPT !.age = OneOlder(@)] : p \in mem.parked_confirm}
    PROVE  \E p \in mem.parked_confirm : /\ q.lo = p.lo /\ q.hi = p.hi /\ q.parked = p.parked
                                         /\ q.clean = p.clean /\ q.contaminated = p.contaminated
BY DEF Memory, Confirm

\* An older batch is the same batch, one lag older, two at most.
LEMMA AgedBatches ==
    ASSUME mem \in Memory, NEW b \in mem.batches
    PROVE  LET c == [b EXCEPT !.age = OneOlder(@)]
           IN  /\ c.seg = b.seg /\ c.clean = b.clean /\ c.spoiled = b.spoiled
               /\ c.age = OneOlder(b.age) /\ b.age \in 0..2
BY DEF Memory, Batch

\* A lag passes: what the sample vouched for has become durable when the sample
\* becomes the durable watermark, and a batch of age 2 is on disk.
LEMMA LagStep ==
    ASSUME Inv, LagPasses
    PROVE  Inv'
<1>1. UNCHANGED <<segs, file, sidecar, table, crashes, scenario>> /\ rows' = Older /\ unseen' \in {0, 1}
    BY DEF LagPasses, disk
<1>2. Types /\ Disk /\ Files
    BY DEF Inv, Disk
<1>3. SameFrames /\ Readable' = Readable /\ DiskStays /\ Segments' = Segments
    BY <1>1, <1>2, OlderFacts DEF SameFrames, Readable, In, Segments
<1>4. CASE ~Up
    <2>1. mem' = mem /\ ~Up' BY <1>4 DEF LagPasses, Up
    <2>2. Disk'
        BY <1>1, <1>2, <1>3, <2>1, OlderFacts, DiskKept DEF Types
    <2> QED BY <1>1, <1>3, <2>1, <2>2, Lifeless DEF Inv, Files, HasBound
<1>5. CASE Up
    <2>1. Memo /\ mem \in Memory
        BY <1>2, <1>5, MemTypes DEF Inv
    <2> DEFINE aged == {[p EXCEPT !.age = OneOlder(@)] : p \in mem.parked_confirm}
    <2>2. /\ mem'.phase = mem.phase /\ mem'.boot_frame_high = mem.boot_frame_high
          /\ mem'.own_floor = mem.own_floor /\ mem'.boot_hwm = mem.boot_hwm
          /\ mem'.top = mem.top /\ mem'.opened = mem.opened /\ mem'.ring = mem.ring
          /\ mem'.rescue = mem.rescue /\ mem'.hwm = mem.hwm /\ mem'.sample = mem.hwm
          /\ mem'.durable = Larger(mem.durable, mem.sample)
          /\ mem'.buckets = mem.buckets /\ mem'.ranges = mem.ranges
          /\ mem'.suspect = mem.suspect /\ mem'.lag_only = mem.lag_only /\ mem'.parked = mem.parked
          /\ mem'.healthy = mem.healthy /\ mem'.probe = mem.probe
          /\ mem'.parked_confirm = aged
          /\ mem'.staged = mem.staged /\ mem'.folding = mem.folding
          /\ mem'.batches = {[b EXCEPT !.age = OneOlder(@)] : b \in mem.batches}
          /\ mem' \in Memory
        BY <2>1, LagFields
    <2>3. \A q \in aged : \E p \in mem.parked_confirm : /\ q.lo = p.lo /\ q.hi = p.hi /\ q.parked = p.parked
                                                         /\ q.clean = p.clean /\ q.contaminated = p.contaminated
        BY <2>1, AgedConfirms
    <2>3a. mem.parked_confirm = {} => aged = {}
        OBVIOUS
    <2> HIDE DEF aged
    <2>4. Disk'
        BY <1>1, <1>2, <1>3, <2>2, OlderFacts, DiskKept DEF Types
    <2>5. /\ mem.durable \in Nat /\ mem.sample \in Nat /\ mem.hwm \in Nat
          /\ mem.durable <= mem'.durable /\ mem.sample <= mem'.durable /\ mem'.durable \in {mem.durable, mem.sample}
        <3>1. mem.durable \in Nat /\ mem.sample \in Nat /\ mem.hwm \in Nat BY <2>1 DEF Memory
        <3> QED BY <2>2, <3>1 DEF Larger
    <2>6. Captured' = Captured /\ \A i \in Segments : FramesIn(i)' = FramesIn(i) /\ First(i)' = First(i)
                                                      /\ \A f : Near(i, f)' = Near(i, f)
        BY <1>3, FramesKept
    <2>7. Marks'
        <3>1. /\ mem'.boot_hwm <= mem'.durable /\ mem'.durable <= mem'.hwm
              /\ mem'.boot_hwm <= mem'.sample /\ mem'.sample <= mem'.hwm
            BY <2>1, <2>2, <2>5 DEF Memo, Marks, Memory
        <3>2. \A p \in mem'.parked_confirm : p.parked <= mem'.top
            BY <2>1, <2>2, <2>3 DEF Memo, Marks
        <3> QED BY <2>1, <2>2, <2>6, <3>1, <3>2 DEF Memo, Marks, HasBound
    <2>8. OwnSegments'
        BY <1>1, <1>3, <2>1, <2>2, <2>6 DEF Memo, OwnSegments, FramesIn, First
    <2>9. InRing'
        <3> SUFFICES ASSUME NEW f \in mem'.ring
                     PROVE  f \in Captured' /\ rows'[f] = "none" /\ f > mem'.own_floor /\ Ahead(f)'
            BY DEF InRing
        <3>1. f \in Captured /\ rows[f] = "none" /\ f > mem.own_floor /\ Ahead(f)
            BY <2>1, <2>2 DEF Memo, InRing
        <3>2. rows'[f] = "none"
            BY <1>1, <1>2, <3>1, OlderFacts DEF Types
        <3>3. Ahead(f)'
            BY <2>2, <2>3, <2>5, <3>1 DEF Ahead
        <3> QED BY <2>2, <2>6, <3>1, <3>2, <3>3
    <2>10. InRescue'
        BY <2>1, <2>2, <2>6 DEF Memo, InRescue
    <2>11. \A i \in Segments : Undurable(i)' \subseteq Undurable(i)
        BY <1>2, <1>3, UndurableKept
    <2>12. ASSUME NEW i \in Readable, NEW f \in Undurable(i)' PROVE Safe(i, f)'
        <3>1. i \in Segments /\ f \in Undurable(i) /\ f \in DOMAIN rows /\ rows'[f] # "disk"
            BY <1>2, <2>11, FrameFacts DEF Readable, In, Undurable
        <3>2. Safe(i, f) BY <2>1, <3>1 DEF Memo, AllSafe
        <3>3. CASE Kept(i, f)
            <4>1. ASSUME NEW q \in aged
                  PROVE  q.contaminated \/ Near(i, f) \cap (q.lo .. q.hi) = {} \/ Stuck(q)'
                BY <1>1, <2>2, <2>3, <3>3 DEF Kept, Stuck, CleanComing
            <4> QED BY <2>2, <2>6, <3>1, <3>3, <4>1 DEF Kept, Safe
        <3>4. CASE Young(f)
            <4>1. rows[f] = "fresh" /\ rows'[f] = "aging"
                BY <1>1, <1>2, <3>1, <3>4, OlderFacts DEF Young
            <4> QED BY <2>5, <3>4, <4>1 DEF Young, Safe
        <3>5. CASE Unnoticed(f)
            <4>1. unseen = 0 /\ unseen' = 1
                BY <1>5, <3>5 DEF LagPasses, Unnoticed
            <4>2. rows'[f] = "lied"
                BY <1>1, <1>2, <3>1, <3>5, OlderFacts DEF Unnoticed
            <4> QED BY <1>1, <2>2, <2>5, <3>5, <4>1, <4>2 DEF Unnoticed, Safe
        <3>6. CASE Suspected(f)
            <4>1. rows'[f] = "lied"
                BY <1>1, <1>2, <3>1, <3>6, OlderFacts DEF Suspected
            <4> QED BY <1>1, <2>2, <3>6, <4>1 DEF Suspected, Safe
        <3> QED BY <2>2, <3>2, <3>3, <3>4, <3>5, <3>6 DEF Safe
    <2>13. AllSafe'
        BY <1>3, <2>12 DEF AllSafe
    <2>14. Episode'
        <3>1. mem.suspect => \A b \in mem'.batches : b.spoiled
            BY <2>1, <2>2, AgedBatches DEF Memo, Episode
        <3> QED BY <2>1, <2>2, <2>3a, <3>1 DEF Memo, Episode
    <2>15. ASSUME NEW b \in mem.batches \cup mem.folding, Settled(b), b.seg \in Segments, NEW c,
                  c.seg = b.seg, c.spoiled = b.spoiled, c.clean = b.clean,
                  b.age \in 0..2, c.age = OneOlder(b.age) \/ (b.age = 0 /\ c.age = 0)
           PROVE  Settled(c)'
        <3> SUFFICES ASSUME ~b.spoiled, NEW f \in FramesIn(b.seg)
                     PROVE  \/ rows'[f] = "disk"
                            \/ rows'[f] = "fresh" /\ c.age = 0
                            \/ rows'[f] = "aging" /\ c.age < 2
                            \/ rows'[f] = "lied" /\ table' = "suspended"
                                /\ (c.clean = 0 \/ (c.clean = 1 /\ ~CleanComing'))
            BY <2>6, <2>15 DEF Settled
        <3>1. f \in DOMAIN rows BY <1>2, <2>15, FrameFacts
        <3>2. CleanComing' <=> CleanComing BY <2>2 DEF CleanComing
        <3>3. \/ rows[f] = "disk"
              \/ rows[f] = "fresh" /\ b.age = 0
              \/ rows[f] = "aging" /\ b.age < 2
              \/ rows[f] = "lied" /\ table = "suspended" /\ (b.clean = 0 \/ (b.clean = 1 /\ ~CleanComing))
            BY <2>15 DEF Settled
        <3>4. b.age = 0 => c.age < 2 BY <2>15 DEF OneOlder, Smaller
        <3> QED BY <1>1, <1>2, <2>15, <3>1, <3>2, <3>3, <3>4, OlderFacts
    <2>16. Batches'
        <3>1. ASSUME NEW c \in mem'.batches
              PROVE  c.seg \in Segments' /\ segs'[c.seg].at = "settling" /\ Settled(c)'
            <4>1. PICK b \in mem.batches : c = [b EXCEPT !.age = OneOlder(@)] BY <2>2
            <4>2. c.seg = b.seg /\ c.clean = b.clean /\ c.spoiled = b.spoiled /\ c.age = OneOlder(b.age) /\ b.age \in 0..2
                BY <2>1, <4>1, AgedBatches
            <4>3. b.seg \in Segments /\ segs[b.seg].at = "settling" /\ Settled(b) BY <2>1 DEF Memo, Batches
            <4>4. Settled(c)' BY <2>15, <4>2, <4>3
            <4> QED BY <1>1, <1>3, <4>2, <4>3, <4>4
        <3>2. ASSUME NEW c \in mem'.batches, NEW d \in mem'.batches, c.seg = d.seg
              PROVE  c = d
            <4>1. PICK b \in mem.batches : c = [b EXCEPT !.age = OneOlder(@)] BY <2>2
            <4>2. PICK e \in mem.batches : d = [e EXCEPT !.age = OneOlder(@)] BY <2>2
            <4>3. b.seg = e.seg BY <2>1, <3>2, <4>1, <4>2, AgedBatches
            <4>4. b = e BY <2>1, <4>3 DEF Memo, Batches
            <4> QED BY <4>1, <4>2, <4>4
        <3>3. ASSUME NEW b \in mem'.folding
              PROVE  /\ b.seg \in Segments' /\ segs'[b.seg].at = "replaying" /\ Settled(b)'
                     /\ b.age = 0 /\ b.clean = 0 /\ mem'.phase = "fold"
            <4>1. b \in mem.folding /\ b.seg \in Segments /\ segs[b.seg].at = "replaying" /\ Settled(b)
                  /\ b.age = 0 /\ b.clean = 0 /\ mem.phase = "fold"
                BY <2>1, <2>2 DEF Memo, Batches
            <4>2. Settled(b)' BY <2>15, <4>1
            <4> QED BY <1>1, <1>3, <2>2, <4>1, <4>2
        <3>4. mem'.phase = "boot" => mem'.batches = {}
            BY <2>1, <2>2 DEF Memo, Batches
        <3> QED BY <3>1, <3>2, <3>3, <3>4 DEF Batches
    <2>17. Staged' /\ Drained'
        <3>1. \A i \in Readable : i \in Segments BY DEF Readable, In
        <3>2. In({"replaying"})' = In({"replaying"}) /\ In({"replaying"}) \subseteq Segments
            BY <1>1, <1>3 DEF In
        <3> QED BY <1>3, <2>1, <2>2, <2>11, <3>1, <3>2 DEF Memo, Staged, Drained
    <2>18. Memo'
        BY <2>7, <2>8, <2>9, <2>10, <2>13, <2>14, <2>16, <2>17 DEF Memo
    <2> QED BY <1>1, <1>3, <1>5, <2>1, <2>2, <2>4, <2>5, <2>18, Unsaved
<1> QED
    BY <1>4, <1>5

-----------------------------------------------------------------------------
(* Steps that leave the watermarks, the ranges and the probes alone.       *)

\* Moving segments does not change how many there are.
LEMMA LenKept ==
    ASSUME Types, SameFrames, segs' \in Seq(Segment)
    PROVE  Len(segs') = Len(segs)
<1>1. DOMAIN segs = 1 .. Len(segs) /\ Len(segs) \in Nat /\ DOMAIN segs' = 1 .. Len(segs') /\ Len(segs') \in Nat
    BY DEF Types
<1>2. 1 .. Len(segs') = 1 .. Len(segs)
    BY <1>1 DEF SameFrames
<1>3. ASSUME NEW a \in Nat, NEW b \in Nat, 1 .. a = 1 .. b PROVE a = b
    <2>1. ASSUME NEW c \in Nat, NEW d \in Nat, 1 .. c = 1 .. d, c < d PROVE FALSE
        <3>1. d \in 1 .. d BY <2>1
        <3>2. d \in 1 .. c BY <2>1, <3>1
        <3> QED BY <2>1, <3>2
    <2>2. ~(a < b) /\ ~(b < a) BY <1>3, <2>1
    <2> QED BY <2>2
<1> QED
    BY <1>1, <1>2, <1>3

\* The writer has an open segment, a ring and a rescue queue only when live.
LEMMA OwnPhase ==
    ASSUME Types, Memo
    PROVE  /\ OwnSegments /\ segs \in Seq(Segment)
           /\ mem.opened => mem.phase = "live"
           /\ mem.phase # "live" => mem.ring = {} /\ mem.rescue = {}
BY DEF Types, Memo, OwnSegments

\* The segments of this process and of the ones before it stay apart.
LEMMA OwnKept ==
    ASSUME OwnSegments, Types, SameFrames, segs' \in Seq(Segment),
           mem'.own_floor = mem.own_floor, mem'.opened = mem.opened,
           mem'.opened => mem'.phase = "live" /\ segs'[Len(segs)].at = segs[Len(segs)].at,
           mem'.phase # "live" => mem.phase # "live" /\ mem'.ring = {} /\ mem'.rescue = {}
    PROVE  OwnSegments'
<1>1. Segments' = Segments /\ Captured' = Captured
      /\ \A i \in Segments : FramesIn(i)' = FramesIn(i) /\ First(i)' = First(i)
    BY FramesKept
<1>2. Len(segs') = Len(segs) /\ Len(segs) \in Nat /\ (Len(segs) > 0 => Len(segs) \in Segments)
    BY LenKept DEF Types, Segments
<1>3. Len(segs) > 0 => First(Len(segs))' = First(Len(segs))
    <2> HAVE Len(segs) > 0
    <2>1. segs'[Len(segs)].frames = segs[Len(segs)].frames BY <1>2 DEF SameFrames, Segments
    <2> QED BY <1>2, <2>1 DEF First
<1>4. \A i \in Segments : \A f \in FramesIn(i)' : f > mem'.own_floor <=> First(i)' > mem'.own_floor
    BY <1>1 DEF OwnSegments
<1>5. mem'.opened => /\ mem'.phase = "live" /\ Len(segs') > 0
                     /\ First(Len(segs))' > mem'.own_floor /\ segs'[Len(segs')].at = "live"
    BY <1>2, <1>3 DEF OwnSegments
<1>6. mem'.phase # "live" => /\ mem'.ring = {} /\ mem'.rescue = {}
                             /\ \A f \in Captured' : f < mem'.own_floor
    BY <1>1 DEF OwnSegments
<1> QED
    BY <1>1, <1>4, <1>5, <1>6 DEF OwnSegments

\* What stays in such a step.
SameMarks ==
    /\ mem'.boot_frame_high = mem.boot_frame_high /\ mem'.own_floor = mem.own_floor /\ mem'.boot_hwm = mem.boot_hwm
    /\ mem'.top = mem.top /\ mem'.hwm = mem.hwm /\ mem'.sample = mem.sample /\ mem'.durable = mem.durable
    /\ mem'.suspect = mem.suspect /\ mem'.lag_only = mem.lag_only /\ mem'.parked = mem.parked
    /\ mem'.healthy = mem.healthy /\ mem'.parked_confirm = mem.parked_confirm /\ mem'.ranges = mem.ranges
    /\ \A q \in mem'.probe : q \in mem.probe \/ (q.basis <= mem.hwm /\ (q.verdict = "clean" => table = "ok"))

\* With the watermarks, ranges and table as they were, frames stay safe if none
\* leaves the ring or the rescue queue other than to the disk or into a bucket.
LEMMA Quiet ==
    ASSUME Types, Memo, SameFrames, DiskStays, Readable' \subseteq Readable, UNCHANGED <<table, unseen>>, SameMarks,
           \A f \in DOMAIN rows : rows'[f] \in {rows[f], "disk"},
           mem.buckets \subseteq mem'.buckets, mem'.ring \subseteq mem.ring,
           mem'.rescue \subseteq mem.rescue \cup mem.ring, mem'.ring \cap mem'.rescue = {},
           \A f \in mem'.ring : rows'[f] = rows[f],
           \A f \in mem.ring \cup mem.rescue :
                f \in mem'.ring \/ f \in mem'.rescue \/ rows'[f] = "disk" \/ Bucket(f) \in mem'.buckets
    PROVE  Marks' /\ InRing' /\ InRescue' /\ AllSafe'
<1> USE DEF SameMarks
<1>1. Captured' = Captured /\ \A i \in Segments : \A f : Near(i, f)' = Near(i, f)
    BY FramesKept
<1>2. Marks'
    BY <1>1 DEF Memo, Marks, HasBound
<1>3. InRing'
    BY <1>1 DEF Memo, InRing, Ahead
<1>4. InRescue'
    BY <1>1 DEF Memo, InRescue, InRing
<1>5. ASSUME NEW i \in Readable', NEW f \in Undurable(i)' PROVE Safe(i, f)'
    <2>1. i \in Readable /\ i \in Segments /\ f \in Undurable(i) /\ f \in DOMAIN rows /\ rows'[f] # "disk"
        BY UndurableKept, FrameFacts DEF Readable, In, Undurable
    <2>2. Safe(i, f) BY <2>1 DEF Memo, AllSafe
    <2>3. rows'[f] = rows[f] BY <2>1
    <2>4. CASE Kept(i, f)
        <3>1. \A p : Stuck(p) => Stuck(p)' BY DEF Stuck, CleanComing
        <3> QED BY <1>1, <2>1, <2>4, <3>1 DEF Kept, Safe
    <2>5. CASE Young(f)
        BY <2>3, <2>5 DEF Young, Safe
    <2>6. CASE Unnoticed(f)
        BY <2>3, <2>6 DEF Unnoticed, Safe
    <2>7. CASE Suspected(f)
        BY <2>3, <2>7 DEF Suspected, Safe
    <2> QED BY <2>1, <2>2, <2>4, <2>5, <2>6, <2>7 DEF Safe
<1>6. AllSafe'
    BY <1>5 DEF AllSafe
<1> QED
    BY <1>2, <1>3, <1>4, <1>6

\* A batch stays as settled as it was.
LEMMA SettledKept ==
    ASSUME Types, SameFrames, UNCHANGED <<table>>, SameMarks,
           NEW b, b.seg \in Segments, Settled(b),
           \A f \in FramesIn(b.seg) : rows'[f] \in {rows[f], "disk"}
    PROVE  Settled(b)'
<1>1. FramesIn(b.seg)' = FramesIn(b.seg)
    BY FramesKept
<1>2. table = "suspended" /\ ~CleanComing => ~CleanComing'
    BY DEF CleanComing, SameMarks
<1> QED
    BY <1>1, <1>2 DEF Settled

\* The drain is stopped between rounds.
LEMMA StopStep ==
    ASSUME Inv, StopDrain
    PROVE  Inv'
<1>1. UNCHANGED <<segs, rows, table, unseen, file, sidecar, crashes, scenario>> /\ Up /\ mem.phase = "replay"
      /\ mem' = [mem EXCEPT !.phase = "stopped"]
    BY DEF StopDrain, disk, world
<1>2. mem \in Memory /\ Memo /\ Types
    BY <1>1, MemTypes DEF Inv, Disk
<1>3. /\ mem' \in Memory /\ SameMarks /\ mem'.phase = "stopped" /\ mem'.ring = mem.ring /\ mem'.rescue = mem.rescue
      /\ mem'.buckets = mem.buckets /\ mem'.opened = mem.opened /\ mem'.batches = mem.batches /\ mem'.folding = mem.folding
    BY <1>1, <1>2 DEF Memory, Phases, SameMarks
<1>4. SameFrames /\ DiskStays /\ Readable' = Readable /\ Segments' = Segments
      /\ \A i : Undurable(i)' = Undurable(i) /\ FramesIn(i)' = FramesIn(i)
    BY <1>1, Still, FramesKept
<1>5. Disk'
    BY <1>1, <1>3, <1>4, DiskKept DEF Inv, Disk, Types
<1>5a. mem'.ring \cap mem'.rescue = {}
    BY <1>2, <1>3 DEF Memo, InRescue
<1>6. Marks' /\ InRing' /\ InRescue' /\ AllSafe'
    BY <1>1, <1>2, <1>3, <1>4, <1>5a, Quiet
<1>7. OwnSegments'
    BY <1>1, <1>2, <1>3, <1>4, OwnPhase, OwnKept DEF SameMarks
<1>8. Batches'
    BY <1>1, <1>2, <1>3, <1>4, SettledKept DEF Memo, Batches, SameMarks
<1>9. Episode' /\ Staged' /\ Drained'
    BY <1>2, <1>3 DEF Memo, Episode, Staged, Drained, SameMarks
<1>10. Memo'
    BY <1>6, <1>7, <1>8, <1>9 DEF Memo
<1>11. mem.durable <= mem'.durable
    BY <1>2, <1>3 DEF SameMarks, Memory
<1> QED
    BY <1>1, <1>2, <1>3, <1>4, <1>5, <1>10, <1>11, Unsaved DEF SameMarks

\* A batch goes from the ring to the rescue queue.
LEMMA WriteFailsStep ==
    ASSUME Inv, WriteFails
    PROVE  Inv'
<1>0. PICK f \in Takeable : mem' = [mem EXCEPT !.ring = @ \ {f}, !.rescue = @ \cup {f}]
    BY DEF WriteFails
<1>1. UNCHANGED <<segs, rows, table, unseen, file, sidecar, crashes, scenario>> /\ Up
    BY DEF WriteFails, disk, world
<1>2. mem \in Memory /\ Memo /\ Types
    BY <1>1, MemTypes DEF Inv, Disk
<1>2a. f \in mem.ring /\ f \in Nat
    BY <1>2 DEF Takeable, Memory
<1>3. /\ mem' \in Memory /\ SameMarks /\ mem'.phase = mem.phase /\ mem'.ring = mem.ring \ {f}
      /\ mem'.rescue = mem.rescue \cup {f} /\ mem'.staged = mem.staged
      /\ mem'.buckets = mem.buckets /\ mem'.opened = mem.opened /\ mem'.batches = mem.batches /\ mem'.folding = mem.folding
    BY <1>0, <1>2, <1>2a DEF Memory, SameMarks
<1>4. SameFrames /\ DiskStays /\ Readable' = Readable /\ Segments' = Segments
      /\ \A i : Undurable(i)' = Undurable(i) /\ FramesIn(i)' = FramesIn(i)
    BY <1>1, Still, FramesKept
<1>5. Disk'
    BY <1>1, <1>3, <1>4, DiskKept DEF Inv, Disk, Types
<1>5a. mem'.ring \cap mem'.rescue = {}
    BY <1>2, <1>3 DEF Memo, InRescue
<1>6. Marks' /\ InRing' /\ InRescue' /\ AllSafe'
    BY <1>1, <1>2, <1>2a, <1>3, <1>4, <1>5a, Quiet
<1>6a. mem.phase = "live"
    BY <1>2, <1>2a DEF Memo, OwnSegments
<1>7. OwnSegments'
    BY <1>1, <1>2, <1>3, <1>6a, <1>4, OwnPhase, OwnKept DEF SameMarks
<1>8. Batches'
    BY <1>1, <1>2, <1>3, <1>4, SettledKept DEF Memo, Batches, SameMarks
<1>9. Episode' /\ Staged' /\ Drained'
    BY <1>1, <1>2, <1>3, <1>4 DEF Memo, Episode, Staged, Drained, SameMarks, In, Segments
<1>10. Memo'
    BY <1>6, <1>7, <1>8, <1>9 DEF Memo
<1>11. mem.durable <= mem'.durable
    BY <1>2, <1>3 DEF SameMarks, Memory
<1> QED
    BY <1>1, <1>2, <1>3, <1>4, <1>5, <1>10, <1>11, Unsaved DEF SameMarks

\* A rescue ends on disk or in a bucket.
LEMMA RescueStep ==
    ASSUME Inv, RescueEnds
    PROVE  Inv'
<1>0. PICK f \in mem.rescue :
        \/ rows' = [rows EXCEPT ![f] = "disk"] /\ mem' = [mem EXCEPT !.rescue = @ \ {f}]
        \/ rows' = rows /\ mem' = [mem EXCEPT !.rescue = @ \ {f}, !.buckets = @ \cup {Bucket(f)}]
    BY DEF RescueEnds
<1>1. UNCHANGED <<segs, table, unseen, file, sidecar, crashes, scenario>> /\ Up
    BY DEF RescueEnds, disk
<1>2. mem \in Memory /\ Memo /\ Types
    BY <1>1, MemTypes DEF Inv, Disk
<1>2a. f \in Nat /\ Bucket(f) \in Nat /\ f \in DOMAIN rows
    BY <1>2, BucketFacts DEF Memory, Memo, InRescue, Types
<1>2b. DOMAIN rows' = DOMAIN rows /\ \A g \in DOMAIN rows : rows'[g] = rows[g] \/ (g = f /\ rows'[g] = "disk")
    BY <1>0, <1>2a
<1>3. /\ mem' \in Memory /\ SameMarks /\ mem'.phase = mem.phase /\ mem'.ring = mem.ring
      /\ mem'.rescue = mem.rescue \ {f} /\ mem'.staged = mem.staged
      /\ mem.buckets \subseteq mem'.buckets /\ (rows'[f] = "disk" \/ Bucket(f) \in mem'.buckets)
      /\ mem'.opened = mem.opened /\ mem'.batches = mem.batches /\ mem'.folding = mem.folding
    <2>1. CASE rows' = [rows EXCEPT ![f] = "disk"] /\ mem' = [mem EXCEPT !.rescue = @ \ {f}]
        BY <1>2, <1>2a, <2>1 DEF Memory, SameMarks
    <2>2. CASE rows' = rows /\ mem' = [mem EXCEPT !.rescue = @ \ {f}, !.buckets = @ \cup {Bucket(f)}]
        BY <1>2, <1>2a, <2>2 DEF Memory, SameMarks
    <2> QED BY <1>0, <2>1, <2>2
<1>4. SameFrames /\ DiskStays /\ Readable' = Readable /\ Segments' = Segments
    BY <1>1, <1>2b DEF SameFrames, DiskStays, Readable, In, Segments
<1>5. Disk'
    BY <1>1, <1>2b, <1>3, <1>4, DiskKept DEF Inv, Disk, Types, Kinds
<1>5a. \A g \in mem'.ring : rows'[g] = rows[g]
    <2> SUFFICES ASSUME NEW g \in mem.ring PROVE rows'[g] = rows[g] BY <1>3
    <2>1. g \in DOMAIN rows BY <1>2 DEF Memo, InRing, Types
    <2>2. g # f BY <1>2 DEF Memo, InRescue
    <2> QED BY <1>2b, <2>1, <2>2
<1>5b. mem'.ring \cap mem'.rescue = {}
    BY <1>2, <1>3 DEF Memo, InRescue
<1>5c. \A g \in mem.ring \cup mem.rescue :
            g \in mem'.ring \/ g \in mem'.rescue \/ rows'[g] = "disk" \/ Bucket(g) \in mem'.buckets
    BY <1>3
<1>6. Marks' /\ InRing' /\ InRescue' /\ AllSafe'
    BY <1>1, <1>2, <1>2b, <1>3, <1>4, <1>5a, <1>5b, <1>5c, Quiet
<1>7. OwnSegments'
    BY <1>1, <1>2, <1>3, <1>4, OwnPhase, OwnKept DEF SameMarks
<1>8. Batches'
    <2>1. ASSUME NEW b \in mem.batches \cup mem.folding PROVE b.seg \in Segments /\ Settled(b)'
        <3>1. b.seg \in Segments /\ Settled(b) BY <1>2 DEF Memo, Batches
        <3>2. \A g \in FramesIn(b.seg) : rows'[g] \in {rows[g], "disk"}
            BY <1>2, <1>2b, <3>1, FrameFacts
        <3> QED BY <1>1, <1>2, <1>3, <1>4, <3>1, <3>2, SettledKept DEF SameMarks
    <2> QED BY <1>1, <1>2, <1>3, <1>4, <2>1 DEF Memo, Batches
<1>9. Episode' /\ Staged' /\ Drained'
    <2>1. \A i \in Segments : Undurable(i)' \subseteq Undurable(i)
        BY <1>2, <1>4, UndurableKept
    <2>2. In({"replaying"})' = In({"replaying"}) /\ In({"replaying"}) \subseteq Segments /\ Readable \subseteq Segments
        BY <1>1, <1>4 DEF In, Readable
    <2> QED BY <1>2, <1>3, <1>4, <2>1, <2>2 DEF Memo, Episode, Staged, Drained, SameMarks
<1>10. Memo'
    BY <1>6, <1>7, <1>8, <1>9 DEF Memo
<1>11. mem.durable <= mem'.durable
    BY <1>2, <1>3 DEF SameMarks, Memory
<1> QED
    BY <1>1, <1>2, <1>3, <1>4, <1>5, <1>10, <1>11, Unsaved DEF SameMarks

-----------------------------------------------------------------------------
(* A query is sent; a segment moves.                                       *)

\* A query is sent: it is clean only if the table is.
LEMMA ProbeSendStep ==
    ASSUME Inv, ProbeSend
    PROVE  Inv'
<1>1. UNCHANGED <<segs, rows, table, unseen, file, sidecar, crashes, scenario>> /\ Up /\ mem.probe = {}
    BY DEF ProbeSend, disk, world
<1>2. mem \in Memory /\ Memo /\ Types
    BY <1>1, MemTypes DEF Inv, Disk
<1>0. PICK v \in {"clean", "lag", "unsafe"} :
        /\ v = "clean" => table = "ok"
        /\ mem' = [mem EXCEPT !.probe = {[basis |-> mem.hwm, verdict |-> v]}]
    <2>1. table \in {"ok", "lag", "suspended"} BY <1>2 DEF Types
    <2> QED BY <2>1 DEF ProbeSend
<1>2a. [basis |-> mem.hwm, verdict |-> v] \in Probe /\ mem.hwm \in Nat
    BY <1>2 DEF Memory, Probe
<1>3. /\ mem' \in Memory /\ SameMarks /\ mem'.phase = mem.phase /\ mem'.ring = mem.ring /\ mem'.rescue = mem.rescue
      /\ mem'.buckets = mem.buckets /\ mem'.opened = mem.opened /\ mem'.batches = mem.batches
      /\ mem'.folding = mem.folding /\ mem'.staged = mem.staged
    <2>1. mem' \in Memory BY <1>0, <1>2, <1>2a DEF Memory
    <2>2. mem'.probe = {[basis |-> mem.hwm, verdict |-> v]} BY <1>0, <1>2 DEF Memory
    <2>3. \A q \in mem'.probe : q.basis <= mem.hwm /\ (q.verdict = "clean" => table = "ok")
        BY <1>0, <1>2a, <2>2
    <2> QED BY <1>0, <1>2, <2>1, <2>3 DEF Memory, SameMarks
<1>4. SameFrames /\ DiskStays /\ Readable' = Readable /\ Segments' = Segments
      /\ \A i : Undurable(i)' = Undurable(i) /\ FramesIn(i)' = FramesIn(i)
    BY <1>1, Still, FramesKept
<1>5. Disk'
    BY <1>1, <1>3, <1>4, DiskKept DEF Inv, Disk, Types
<1>5a. mem'.ring \cap mem'.rescue = {}
    BY <1>2, <1>3 DEF Memo, InRescue
<1>6. Marks' /\ InRing' /\ InRescue' /\ AllSafe'
    BY <1>1, <1>2, <1>3, <1>4, <1>5a, Quiet
<1>7. OwnSegments'
    BY <1>1, <1>2, <1>3, <1>4, OwnPhase, OwnKept DEF SameMarks
<1>8. Batches'
    BY <1>1, <1>2, <1>3, <1>4, SettledKept DEF Memo, Batches
<1>9. Episode' /\ Staged' /\ Drained'
    BY <1>1, <1>2, <1>3, <1>4 DEF Memo, Episode, Staged, Drained, SameMarks, In, Segments
<1>10. Memo'
    BY <1>6, <1>7, <1>8, <1>9 DEF Memo
<1>11. mem.durable <= mem'.durable
    BY <1>2, <1>3 DEF SameMarks, Memory
<1> QED
    BY <1>1, <1>2, <1>3, <1>4, <1>5, <1>10, <1>11, Unsaved DEF SameMarks

\* Segments moved by MovedTo keep their frames.
LEMMA Moved ==
    ASSUME Types, NEW f, \A i \in Segments : f[i] \in Folders, segs' = MovedTo(f)
    PROVE  /\ segs' \in Seq(Segment) /\ SameFrames /\ Segments' = Segments
           /\ \A i \in Segments : segs'[i].at = f[i]
<1>1. Segments = 1 .. Len(segs) /\ Len(segs) \in Nat /\ segs \in Seq(Segment)
    BY DEF Segments, Types
<1>2. \A i \in Segments : segs[i] \in Segment
    BY <1>1
<1>3. DOMAIN segs' = Segments /\ \A i \in Segments : segs'[i] = [segs[i] EXCEPT !.at = f[i]]
    BY DEF MovedTo
<1>4. \A i \in Segments : /\ [segs[i] EXCEPT !.at = f[i]] \in Segment
                          /\ [segs[i] EXCEPT !.at = f[i]].frames = segs[i].frames
                          /\ [segs[i] EXCEPT !.at = f[i]].at = f[i]
    BY <1>2 DEF Segment
<1>5. \A i \in Segments : segs'[i] \in Segment /\ segs'[i].frames = segs[i].frames /\ segs'[i].at = f[i]
    BY <1>3, <1>4
<1>6. segs' \in [1 .. Len(segs) -> Segment]
    <2>1. segs' = [i \in Segments |-> segs'[i]] BY <1>3 DEF MovedTo
    <2> QED BY <1>1, <1>3, <1>5, <2>1
<1>7. segs' \in Seq(Segment)
    BY <1>1, <1>6
<1> QED
    BY <1>3, <1>5, <1>7 DEF SameFrames, Segments

\* So does the one segment that is moved.
LEMMA MovedOne ==
    ASSUME Types, NEW j \in Segments, NEW to \in Folders, segs' = [segs EXCEPT ![j].at = to]
    PROVE  /\ segs' \in Seq(Segment) /\ SameFrames /\ Segments' = Segments
           /\ segs'[j].at = to
           /\ \A i \in Segments : i # j => segs'[i] = segs[i]
<1>1. Segments = 1 .. Len(segs) /\ Len(segs) \in Nat /\ segs \in Seq(Segment)
    BY DEF Segments, Types
<1>2. \A i \in Segments : segs[i] \in Segment
    BY <1>1
<1>3. [segs[j] EXCEPT !.at = to] \in Segment /\ [segs[j] EXCEPT !.at = to].frames = segs[j].frames
      /\ [segs[j] EXCEPT !.at = to].at = to
    BY <1>2 DEF Segment
<1>4. segs' = [segs EXCEPT ![j] = [segs[j] EXCEPT !.at = to]]
    OBVIOUS
<1>5. segs' \in Seq(Segment) /\ DOMAIN segs' = DOMAIN segs /\ segs'[j] = [segs[j] EXCEPT !.at = to]
      /\ \A i \in Segments : i # j => segs'[i] = segs[i]
    BY <1>1, <1>3, <1>4 DEF Segments
<1> QED
    BY <1>3, <1>5 DEF SameFrames, Segments

\* prune_wal_dir_at deletes only segments without a frame still to be durable.
LEMMA PruneStep ==
    ASSUME Inv, Prune
    PROVE  Inv'
<1>1. UNCHANGED <<rows, table, unseen, file, sidecar, mem, crashes, scenario>> /\ Up
    BY DEF Prune, world
<1>2. mem \in Memory /\ Memo /\ Types /\ Sorted /\ Honest(file) /\ Encodes(file)
    BY <1>1, MemTypes DEF Inv, Disk, Files
<1>0. PICK j \in AppliedSegments(Loaded, In({"live"})) \ Open : segs' = [segs EXCEPT ![j].at = "gone"]
    BY DEF Prune
<1>2a. j \in Segments /\ segs[j].at = "live" /\ Undurable(j) = {} /\ j \notin Open
    <2>1. In({"live"}) \subseteq Readable BY DEF In, Readable
    <2>2. j \in In({"live"}) /\ Undurable(j) = {} BY <1>2, <2>1, SegmentSkip
    <2> QED BY <2>2 DEF In
<1>3. /\ mem' \in Memory /\ SameMarks /\ mem'.ring = mem.ring /\ mem'.rescue = mem.rescue
    BY <1>1, <1>2 DEF SameMarks
<1>4. /\ segs' \in Seq(Segment) /\ SameFrames /\ Segments' = Segments /\ segs'[j].at = "gone"
      /\ \A i \in Segments : i # j => segs'[i] = segs[i]
    BY <1>0, <1>2, <1>2a, MovedOne DEF Folders
<1>4a. DiskStays /\ Readable' \subseteq Readable
    <2>1. DiskStays BY <1>1 DEF DiskStays
    <2> QED BY <1>4, <2>1 DEF Readable, In
<1>5. Disk'
    <2>1. \A i \in Segments : segs'[i].at \in {"archive", "gone"} =>
            segs[i].at \in {"archive", "gone"} \/ Undurable(i) = {}
        BY <1>2a, <1>4
    <2> QED BY <1>1, <1>3, <1>4, <1>4a, <2>1, DiskKept DEF Inv, Disk, Types
<1>5a. mem'.ring \cap mem'.rescue = {}
    BY <1>2, <1>3 DEF Memo, InRescue
<1>6. Marks' /\ InRing' /\ InRescue' /\ AllSafe'
    BY <1>1, <1>2, <1>3, <1>4, <1>4a, <1>5a, Quiet
<1>7. OwnSegments'
    <2>1. mem.opened => Len(segs) \in Segments /\ j # Len(segs)
        BY <1>1, <1>2, <1>2a, OwnPhase DEF Open, OwnSegments, Segments, Types, Memo
    <2>2. mem'.opened => mem'.phase = "live" /\ segs'[Len(segs)].at = segs[Len(segs)].at
        BY <1>1, <1>2, <1>4, <2>1, OwnPhase
    <2> QED BY <1>1, <1>2, <1>3, <1>4, <2>2, OwnPhase, OwnKept
<1>8. Batches'
    <2>1. ASSUME NEW b \in mem.batches \cup mem.folding
          PROVE  b.seg \in Segments /\ segs'[b.seg] = segs[b.seg] /\ Settled(b)'
        <3>1. b.seg \in Segments /\ Settled(b) /\ segs[b.seg].at \in {"settling", "replaying"}
            BY <1>2 DEF Memo, Batches
        <3>2. Settled(b)' BY <1>1, <1>2, <1>3, <1>4, <3>1, SettledKept
        <3> QED BY <1>2a, <1>4, <3>1, <3>2
    <2> QED BY <1>1, <1>2, <1>4, <2>1 DEF Memo, Batches
<1>9. Episode' /\ Staged' /\ Drained'
    <2>1. \A i \in Segments : Undurable(i)' \subseteq Undurable(i)
        BY <1>2, <1>4, <1>4a, UndurableKept
    <2>2. In({"replaying"})' \subseteq In({"replaying"}) /\ In({"replaying"}) \subseteq Segments /\ Readable \subseteq Segments
        BY <1>4 DEF In, Readable
    <2> QED BY <1>1, <1>2, <1>4a, <2>1, <2>2 DEF Memo, Episode, Staged, Drained
<1>10. Memo'
    BY <1>6, <1>7, <1>8, <1>9 DEF Memo
<1>11. mem.durable <= mem'.durable
    BY <1>1, <1>2 DEF Memory
<1> QED
    BY <1>1, <1>2, <1>3, <1>4, <1>4a, <1>5, <1>10, <1>11, Unsaved

\* A folded segment waits among the settling ones, or the drain stops.
LEMMA SettleStep ==
    ASSUME Inv, SettleChunk
    PROVE  Inv'
<1>1. UNCHANGED <<rows, table, unseen, file, sidecar, crashes, scenario>> /\ Up /\ mem.phase = "fold"
    BY DEF SettleChunk, world
<1>2. mem \in Memory /\ Memo /\ Types
    BY <1>1, MemTypes DEF Inv, Disk
<1>3. \/ mem' = [mem EXCEPT !.phase = "stopped", !.folding = {}] /\ segs' = segs
      \/ \E chunk \in mem.folding : /\ mem' = [mem EXCEPT !.folding = {}, !.batches = @ \cup {chunk}]
                                    /\ segs' = [segs EXCEPT ![chunk.seg].at = "settling"]
                                    /\ ~mem.suspect
    BY DEF SettleChunk
<1>4. /\ mem' \in Memory /\ SameMarks /\ mem'.ring = mem.ring /\ mem'.rescue = mem.rescue
      /\ mem'.phase \in {"stopped", "fold"}
      /\ mem'.buckets = mem.buckets /\ mem'.opened = mem.opened
      /\ mem'.folding = {} /\ mem'.staged = mem.staged /\ mem'.ranges = mem.ranges
    <2>1. CASE mem' = [mem EXCEPT !.phase = "stopped", !.folding = {}] /\ segs' = segs
        BY <1>2, <2>1 DEF Memory, Phases, SameMarks
    <2>2. ASSUME NEW c \in mem.folding, mem' = [mem EXCEPT !.folding = {}, !.batches = @ \cup {c}]
          PROVE  <1>4!:
        <3>1. c \in Batch BY <1>2 DEF Memory
        <3> QED BY <1>1, <1>2, <2>2, <3>1 DEF Memory, SameMarks
    <2> QED BY <1>3, <2>1, <2>2
<1>5. /\ segs' \in Seq(Segment) /\ SameFrames /\ Segments' = Segments
      /\ \A i \in Segments : segs'[i] = segs[i] \/ (segs[i].at = "replaying" /\ segs'[i].at = "settling")
    <2>1. CASE segs' = segs
        BY <1>2, <2>1 DEF SameFrames, Types, Segments
    <2>2. ASSUME NEW c \in mem.folding, segs' = [segs EXCEPT ![c.seg].at = "settling"]
          PROVE  <1>5!:
        <3>1. c.seg \in Segments /\ segs[c.seg].at = "replaying" BY <1>2 DEF Memo, Batches
        <3> QED BY <1>2, <2>2, <3>1, MovedOne DEF Folders
    <2> QED BY <1>3, <2>1, <2>2
<1>6. DiskStays /\ Readable' \subseteq Readable
    <2>1. DiskStays BY <1>1 DEF DiskStays
    <2> QED BY <1>5, <2>1 DEF Readable, In
<1>7. Disk'
    <2>1. \A i \in Segments : segs'[i].at \in {"archive", "gone"} => segs[i].at \in {"archive", "gone"}
        BY <1>5
    <2> QED BY <1>1, <1>4, <1>5, <1>6, <2>1, DiskKept DEF Inv, Disk, Types
<1>8. mem'.ring \cap mem'.rescue = {}
    BY <1>2, <1>4 DEF Memo, InRescue
<1>9. Marks' /\ InRing' /\ InRescue' /\ AllSafe'
    BY <1>1, <1>2, <1>4, <1>5, <1>6, <1>8, Quiet
<1>10. OwnSegments'
    BY <1>1, <1>2, <1>4, <1>5, OwnPhase, OwnKept DEF SameMarks
<1>11. ASSUME NEW b \in mem.batches \cup mem.folding PROVE b.seg \in Segments /\ Settled(b)'
    <2>1. b.seg \in Segments /\ Settled(b) BY <1>2 DEF Memo, Batches
    <2> QED BY <1>1, <1>2, <1>4, <1>5, <2>1, SettledKept
<1>12. Batches' /\ Episode'
    <2>1. CASE mem' = [mem EXCEPT !.phase = "stopped", !.folding = {}] /\ segs' = segs
        <3>1. mem'.batches = mem.batches BY <1>2, <2>1 DEF Memory
        <3> QED BY <1>2, <1>4, <1>5, <1>11, <2>1, <3>1 DEF Memo, Batches, Episode, SameMarks
    <2>2. ASSUME NEW c \in mem.folding, mem' = [mem EXCEPT !.folding = {}, !.batches = @ \cup {c}],
                 segs' = [segs EXCEPT ![c.seg].at = "settling"], ~mem.suspect
          PROVE  Batches' /\ Episode'
        <3>1. mem'.batches = mem.batches \cup {c} BY <1>2, <2>2 DEF Memory
        <3>2. c.seg \in Segments /\ segs[c.seg].at = "replaying" BY <1>2 DEF Memo, Batches
        <3>3. segs'[c.seg].at = "settling" /\ \A i \in Segments : i # c.seg => segs'[i] = segs[i]
            BY <1>2, <2>2, <3>2, MovedOne DEF Folders
        <3>4. \A b \in mem.batches : b.seg \in Segments /\ segs[b.seg].at = "settling" /\ b.seg # c.seg
            BY <1>2, <3>2 DEF Memo, Batches
        <3>5. \A b, d \in mem.batches : b.seg = d.seg => b = d
            BY <1>2 DEF Memo, Batches
        <3>6. Batches' BY <1>4, <1>5, <1>11, <3>1, <3>2, <3>3, <3>4, <3>5 DEF Batches
        <3> QED BY <1>4, <2>2, <3>6 DEF Episode, SameMarks
    <2> QED BY <1>3, <2>1, <2>2
<1>13. Staged' /\ Drained'
    <2>1. \A i \in Segments : Undurable(i)' \subseteq Undurable(i)
        BY <1>2, <1>5, <1>6, UndurableKept
    <2>2. In({"replaying"})' \subseteq In({"replaying"}) /\ In({"replaying"}) \subseteq Segments
        BY <1>5 DEF In
    <2> QED BY <1>1, <1>2, <1>4, <2>1, <2>2 DEF Memo, Staged, Drained
<1>14. Memo'
    BY <1>9, <1>10, <1>12, <1>13 DEF Memo
<1>15. mem.durable <= mem'.durable
    BY <1>2, <1>4 DEF SameMarks, Memory
<1> QED
    BY <1>1, <1>2, <1>4, <1>5, <1>6, <1>7, <1>14, <1>15, Unsaved DEF SameMarks

\* A pass of the replay.  What it archives unread is durable; what it stages
\* includes every frame of what it read that is not; and when it reads everything
\* and stages nothing, nothing is left.
LEMMA ReplayStep ==
    ASSUME Inv, ReplayPass, "read" \notin scenario.faults
    PROVE  Inv'
<1>1. UNCHANGED <<rows, table, unseen, file, sidecar, crashes, scenario>> /\ Up /\ mem.phase = "replay"
    BY DEF ReplayPass, world
<1>2. mem \in Memory /\ Memo /\ Types /\ Sorted /\ Honest(file) /\ Encodes(file)
    BY <1>1, MemTypes DEF Inv, Disk, Files
<1> DEFINE listed == In({"live", "replaying"}) \ Open
           skips == AppliedSegments(Loaded, listed)
           kept == listed \ skips
           fresh(r) == {f \in FramesOf(r) : ~frame_is_applied(Loaded, f)}
           to(r, n) == [i \in Segments |->
                              CASE i \in r -> "archive"
                                [] i \in n -> "replaying"
                                [] i \in listed \ (r \cup n) -> "live"
                                [] OTHER -> segs[i].at]
<1>3. listed = Readable
    BY <1>1, <1>2, OwnPhase DEF Open, Readable
<1>4. \E read \in SUBSET kept, reached \in SUBSET skips :
        /\ read = kept => reached = skips
        /\ segs' = MovedTo(to(reached, read))
        /\ mem' = [mem EXCEPT !.staged = fresh(read), !.folding = {},
                     !.phase = IF fresh(read) # {} THEN "fold" ELSE IF read = kept THEN "drained" ELSE "stopped"]
    <2>1. \E stop \in {0} \cup kept, bad \in IF "read" \in scenario.faults THEN SUBSET kept ELSE {{}} :
            LET consumed == {i \in kept : i <= stop}
                read == consumed \ bad
                reached == {i \in skips : \A k \in kept : k < i => k \in consumed}
            IN  /\ segs' = MovedTo(to(reached, read))
                /\ mem' = [mem EXCEPT !.staged = fresh(read), !.folding = {},
                     !.phase = IF fresh(read) # {} THEN "fold" ELSE IF consumed = kept THEN "drained" ELSE "stopped"]
        BY DEF ReplayPass
    <2>2. PICK stop \in {0} \cup kept, bad \in {{}} :
            LET consumed == {i \in kept : i <= stop}
                read == consumed \ bad
                reached == {i \in skips : \A k \in kept : k < i => k \in consumed}
            IN  /\ segs' = MovedTo(to(reached, read))
                /\ mem' = [mem EXCEPT !.staged = fresh(read), !.folding = {},
                     !.phase = IF fresh(read) # {} THEN "fold" ELSE IF consumed = kept THEN "drained" ELSE "stopped"]
        <3> HIDE DEF to, fresh, skips, kept
        <3> QED BY <2>1
    <2> DEFINE consumed == {i \in kept : i <= stop}
               reached == {i \in skips : \A k \in kept : k < i => k \in consumed}
    <2>3. consumed \ bad = consumed OBVIOUS
    <2>4. /\ segs' = MovedTo(to(reached, consumed))
          /\ mem' = [mem EXCEPT !.staged = fresh(consumed), !.folding = {},
               !.phase = IF fresh(consumed) # {} THEN "fold" ELSE IF consumed = kept THEN "drained" ELSE "stopped"]
        BY <2>2, <2>3
    <2>5. consumed = kept => reached = skips OBVIOUS
    <2>6. consumed \in SUBSET kept /\ reached \in SUBSET skips OBVIOUS
    <2> HIDE DEF consumed, reached, fresh, to, kept, skips
    <2> QED BY <2>4, <2>5, <2>6
<1>5. PICK read \in SUBSET kept, reached \in SUBSET skips :
        /\ read = kept => reached = skips
        /\ segs' = MovedTo(to(reached, read))
        /\ mem' = [mem EXCEPT !.staged = fresh(read), !.folding = {},
                     !.phase = IF fresh(read) # {} THEN "fold" ELSE IF read = kept THEN "drained" ELSE "stopped"]
    BY <1>4
<1>6. \A i \in skips : i \in Readable /\ Undurable(i) = {}
    BY <1>2, <1>3, SegmentSkip
<1>7. Readable \subseteq Segments /\ kept \subseteq Readable /\ skips \subseteq Readable /\ kept \cap skips = {}
    <2>1. Readable \subseteq Segments BY DEF Readable, In
    <2> QED BY <1>3, <1>6, <2>1
<1>8. \A i \in Segments : /\ i \in reached => to(reached, read)[i] = "archive"
                          /\ i \in read => to(reached, read)[i] = "replaying"
                          /\ i \in Readable /\ i \notin reached /\ i \notin read => to(reached, read)[i] = "live"
                          /\ i \notin Readable => to(reached, read)[i] = segs[i].at
    <2>1. read \cap reached = {} /\ read \subseteq Readable /\ reached \subseteq Readable BY <1>7
    <2> HIDE DEF kept, skips
    <2> QED BY <1>3, <2>1
<1> HIDE DEF skips, kept, to, listed
<1>9. \A i \in Segments : to(reached, read)[i] \in Folders
    <2>1. \A i \in Segments : segs[i].at \in Folders BY <1>2, FrameFacts
    <2>2. \A i \in Segments : to(reached, read)[i] \in {"archive", "replaying", "live", segs[i].at} BY <1>8
    <2> QED BY <2>1, <2>2 DEF Folders
<1>10. /\ segs' \in Seq(Segment) /\ SameFrames /\ Segments' = Segments
       /\ \A i \in Segments : segs'[i].at = to(reached, read)[i]
    BY <1>2, <1>5, <1>9, Moved
<1>11. /\ DiskStays
       /\ \A i \in Segments : /\ i \in reached => segs'[i].at = "archive"
                              /\ i \in read => segs'[i].at = "replaying"
                              /\ i \in Readable /\ i \notin reached /\ i \notin read => segs'[i].at = "live"
                              /\ i \notin Readable => segs'[i].at = segs[i].at
    BY <1>1, <1>8, <1>10 DEF DiskStays
<1>12. Readable' \subseteq Readable
    <2> SUFFICES ASSUME NEW i \in Readable', i \notin Readable PROVE FALSE OBVIOUS
    <2>1. i \in Segments /\ segs'[i].at \in {"live", "replaying"} BY <1>10 DEF Readable, In
    <2>2. segs'[i].at = segs[i].at BY <1>11, <2>1
    <2> QED BY <2>1, <2>2 DEF Readable, In
<1>13. fresh(read) \subseteq Nat
    <2>1. FramesOf(read) \subseteq Nat BY <1>2, <1>7, FrameFacts DEF FramesOf, FramesIn
    <2> QED BY <2>1
<1>13a. ASSUME NEW i \in read, NEW f \in Undurable(i) PROVE f \in fresh(read)
    <2>1. ~frame_is_applied(Loaded, f) BY <1>2, <1>7, FrameSkip
    <2>2. f \in FramesOf(read) BY DEF FramesOf, Undurable, FramesIn
    <2> QED BY <2>1, <2>2
<1> DEFINE ph == IF fresh(read) # {} THEN "fold" ELSE IF read = kept THEN "drained" ELSE "stopped"
<1>13b. ph \in {"fold", "drained", "stopped"} /\ (ph = "drained" => fresh(read) = {} /\ read = kept)
    OBVIOUS
<1> HIDE DEF fresh, ph
<1>14. /\ mem' \in Memory /\ SameMarks /\ mem'.ring = mem.ring /\ mem'.rescue = mem.rescue
       /\ mem'.phase = ph /\ mem'.staged = fresh(read) /\ mem'.folding = {}
       /\ mem'.buckets = mem.buckets /\ mem'.opened = mem.opened /\ mem'.batches = mem.batches
       /\ mem'.ranges = mem.ranges
    <2>1. mem' = [mem EXCEPT !.staged = fresh(read), !.folding = {}, !.phase = ph] BY <1>5 DEF ph
    <2>2. ph \in Phases BY <1>13b DEF Phases
    <2> QED BY <1>2, <1>13, <2>1, <2>2 DEF Memory, SameMarks
<1>15. Disk'
    <2>1. \A i \in Segments : segs'[i].at \in {"archive", "gone"} =>
            segs[i].at \in {"archive", "gone"} \/ Undurable(i) = {}
        BY <1>6, <1>7, <1>11
    <2> QED BY <1>1, <1>10, <1>11, <1>14, <2>1, DiskKept DEF Inv, Disk, Types
<1>16. mem'.ring \cap mem'.rescue = {}
    BY <1>2, <1>14 DEF Memo, InRescue
<1>17. Marks' /\ InRing' /\ InRescue' /\ AllSafe'
    BY <1>1, <1>2, <1>10, <1>11, <1>12, <1>14, <1>16, Quiet
<1>18. OwnSegments'
    BY <1>1, <1>2, <1>10, <1>14, OwnPhase, OwnKept DEF SameMarks
<1>19. Batches' /\ Episode'
    <2>1. ASSUME NEW b \in mem.batches
          PROVE  b.seg \in Segments /\ segs'[b.seg].at = "settling" /\ Settled(b)'
        <3>1. b.seg \in Segments /\ segs[b.seg].at = "settling" /\ Settled(b) BY <1>2 DEF Memo, Batches
        <3>2. b.seg \notin Readable BY <3>1 DEF Readable, In
        <3>3. Settled(b)' BY <1>1, <1>2, <1>10, <1>14, <3>1, SettledKept
        <3> QED BY <1>11, <3>1, <3>2, <3>3
    <2>2. \A b, c \in mem.batches : b.seg = c.seg => b = c BY <1>2 DEF Memo, Batches
    <2>3. Batches' BY <1>10, <1>13b, <1>14, <2>1, <2>2 DEF Batches
    <2> QED BY <1>2, <1>14, <2>3 DEF Memo, Episode, SameMarks
<1>20. \A i \in Segments : Undurable(i)' \subseteq Undurable(i)
    BY <1>2, <1>10, <1>11, UndurableKept
<1>21. Staged'
    <2> SUFFICES ASSUME NEW i \in In({"replaying"})', NEW f \in Undurable(i)' PROVE f \in mem'.staged
        BY DEF Staged
    <2>1. i \in Segments /\ segs'[i].at = "replaying" BY <1>10 DEF In
    <2>2. i \in read
        <3>1. i \in Readable BY <1>12, <2>1, <1>10 DEF Readable, In
        <3> QED BY <1>11, <2>1, <3>1
    <2> QED BY <1>13a, <1>14, <1>20, <2>1, <2>2
<1>22. Drained'
    <2> SUFFICES ASSUME ph = "drained", NEW i \in Readable', NEW f \in Undurable(i)' PROVE FALSE
        BY <1>14 DEF Drained
    <2>1. i \in Readable /\ i \in Segments /\ segs'[i].at \in {"live", "replaying"} BY <1>7, <1>10, <1>12 DEF Readable, In
    <2>2. i \in read
        <3>1. i \in skips => i \in reached BY <1>5, <1>13b
        <3>2. i \notin skips => i \in kept BY <1>3, <2>1 DEF kept
        <3> QED BY <1>11, <1>13b, <2>1, <3>1, <3>2
    <2> QED BY <1>13a, <1>13b, <1>20, <2>1, <2>2
<1>23. Memo'
    BY <1>17, <1>18, <1>19, <1>21, <1>22 DEF Memo
<1>24. mem.durable <= mem'.durable
    BY <1>2, <1>14 DEF SameMarks, Memory
<1> QED
    BY <1>1, <1>2, <1>10, <1>11, <1>12, <1>14, <1>15, <1>23, <1>24, Unsaved DEF SameMarks

-----------------------------------------------------------------------------
(* Rows are written and acknowledged.                                      *)

\* A write leaves rows that are in the database alone, and is a lie only when
\* the table is suspended.
LEMMA WrittenFacts ==
    ASSUME Types, NEW frames, rows' = Written(frames)
    PROVE  /\ DOMAIN rows' = DOMAIN rows /\ DiskStays
           /\ \A f \in DOMAIN rows : /\ rows'[f] \in Kinds
                                     /\ f \notin frames => rows'[f] = rows[f]
                                     /\ rows[f] \in {"fresh", "aging", "disk"} => rows'[f] = rows[f]
                                     /\ f \in frames => rows'[f] \in {"fresh", "aging", "disk", "lied"}
                                     /\ f \in frames /\ rows'[f] = "lied" => table = "suspended"
                                     /\ rows[f] = "lied" /\ table = "suspended" => rows'[f] = "lied"
<1>1. \A f \in DOMAIN rows : rows[f] \in {"none", "fresh", "aging", "disk", "lied"}
    BY DEF Types, Kinds
<1> QED
    BY <1>1 DEF Written, DiskStays, Kinds

\* An acknowledgement up to s, of the frames given.
Acks(s) ==
    /\ mem'.boot_frame_high = mem.boot_frame_high /\ mem'.own_floor = mem.own_floor /\ mem'.boot_hwm = mem.boot_hwm
    /\ mem'.top = mem.top /\ mem'.sample = mem.sample /\ mem'.durable = mem.durable
    /\ mem'.suspect = mem.suspect /\ mem'.lag_only = mem.lag_only
    /\ mem'.healthy = mem.healthy /\ mem'.parked_confirm = mem.parked_confirm /\ mem'.ranges = mem.ranges
    /\ mem'.probe = mem.probe /\ mem'.buckets = mem.buckets /\ mem'.rescue = mem.rescue
    /\ mem'.phase = mem.phase /\ mem'.opened = mem.opened /\ mem'.staged = mem.staged /\ mem'.batches = mem.batches
    /\ mem.suspect => mem'.hwm = mem.hwm /\ mem'.parked = Larger(mem.parked, s)
    /\ ~mem.suspect => mem'.hwm = Larger(mem.hwm, s) /\ mem'.parked = mem.parked

\* What an episode's own range covers: a frame of this process at or below
\* the watermark.
LEMMA EpisodeCovers ==
    ASSUME Types, Sorted, mem \in Memory, Memo, mem.suspect, NEW i \in Segments, NEW f \in FramesIn(i),
           f > mem.own_floor, mem.hwm < f + Slack, f <= mem.hwm
    PROVE  Near(i, f) \subseteq mem.ranges
<1> SUFFICES ASSUME NEW x \in Near(i, f) PROVE x \in mem.ranges
    OBVIOUS
<1>1. /\ f \in Nat /\ f > 0 /\ First(i) \in Nat /\ mem.hwm \in Nat /\ mem.own_floor \in Nat
      /\ Slack \in Nat /\ Slack > 0
    BY FrameFacts, FrameLogAssumption DEF Memory
<1>2. /\ x \in Nat /\ x > 0 /\ f <= x + Slack /\ x < f + Slack /\ (f <= x \/ First(i) <= x)
    BY NearFacts
<1>3. First(i) > mem.own_floor
    BY DEF Memo, OwnSegments
<1>4. x > mem.own_floor
    BY <1>1, <1>2, <1>3
<1>5. x \in suspension_range_lo(mem.hwm) .. mem.hwm + Slack
    BY <1>1, <1>2 DEF suspension_range_lo, Larger, Minus
<1> QED
    BY <1>4, <1>5 DEF Memo, Episode

\* Written and acknowledged frames stay safe: durable, young, unnoticed or
\* suspected, whichever the table and the episode make them.
LEMMA AckKeeps ==
    ASSUME Types, Sorted, Memo, mem \in Memory, mem' \in Memory, UNCHANGED <<segs, table, unseen>>,
           NEW frames, NEW s \in Nat, s <= mem.top, \A f \in frames : f <= s,
           rows' = Written(frames), Acks(s),
           mem'.ring \subseteq mem.ring, mem.ring \ mem'.ring \subseteq frames, mem'.ring \cap frames = {},
           \A f \in mem'.ring : s < f + Slack
    PROVE  Marks' /\ InRing' /\ InRescue' /\ AllSafe'
<1> USE DEF Acks
<1>1. SameFrames /\ Segments' = Segments /\ Captured' = Captured /\ Readable' = Readable /\ DiskStays
      /\ \A i \in Segments : \A f : Near(i, f)' = Near(i, f)
    <2>1. SameFrames /\ Readable' = Readable BY DEF SameFrames, Readable, In, Segments
    <2> QED BY <2>1, FramesKept, WrittenFacts
<1>2. /\ mem.hwm \in Nat /\ mem.parked \in Nat /\ mem'.hwm \in Nat /\ mem'.parked \in Nat /\ mem.top \in Nat
      /\ mem.sample \in Nat /\ mem.durable \in Nat /\ mem.healthy \in Nat /\ mem.own_floor \in Nat /\ mem.boot_hwm \in Nat
      /\ Slack \in Nat /\ Slack > 0
    BY FrameLogAssumption DEF Memory
<1>3. /\ mem.hwm <= mem'.hwm /\ mem'.hwm \in {mem.hwm, s} /\ mem.parked <= mem'.parked /\ mem'.parked \in {mem.parked, s}
      /\ mem.suspect => mem'.hwm = mem.hwm /\ s <= mem'.parked
      /\ ~mem.suspect => s <= mem'.hwm
    BY <1>2 DEF Larger
<1>4. Marks'
    <2>1. mem'.hwm <= mem'.top /\ mem'.parked <= mem'.top
        BY <1>3 DEF Memo, Marks
    <2>2. mem'.durable <= mem'.hwm /\ mem'.sample <= mem'.hwm /\ mem'.healthy <= mem'.hwm
        BY <1>2, <1>3 DEF Memo, Marks
    <2>3. \A q \in mem'.probe : q.basis <= mem'.hwm
        <3>1. \A q \in mem.probe : q.basis <= mem.hwm /\ q.basis \in Nat BY DEF Memo, Marks, Memory, Probe
        <3> QED BY <1>2, <1>3, <3>1
    <2> QED BY <1>1, <2>1, <2>2, <2>3 DEF Memo, Marks, HasBound
<1>5. InRing'
    <2> SUFFICES ASSUME NEW f \in mem'.ring
                 PROVE  f \in Captured' /\ rows'[f] = "none" /\ f > mem'.own_floor /\ Ahead(f)'
        BY DEF InRing
    <2>1. f \in Captured /\ rows[f] = "none" /\ f > mem.own_floor /\ Ahead(f) /\ f \notin frames /\ f \in DOMAIN rows
        BY DEF Memo, InRing, Types
    <2>2. rows'[f] = "none" BY <2>1, WrittenFacts
    <2>3. Ahead(f)' BY <1>3, <2>1 DEF Ahead
    <2> QED BY <1>1, <2>1, <2>2, <2>3
<1>6. InRescue'
    BY <1>1 DEF Memo, InRescue
<1>7. ASSUME NEW i \in Readable, NEW f \in Undurable(i)' PROVE Safe(i, f)'
    <2>1. i \in Segments /\ f \in Undurable(i) /\ f \in DOMAIN rows /\ rows'[f] # "disk" /\ f \in FramesIn(i)
          /\ f \in Nat /\ f > 0 /\ rows[f] \in Kinds
        BY <1>1, UndurableKept, FrameFacts DEF Readable, In, Undurable
    <2>2. Safe(i, f) BY <2>1 DEF Memo, AllSafe
    <2>3. CASE Bucket(f) \in mem.buckets \/ f \in mem.rescue \/ f \in mem'.ring
        BY <2>3 DEF Safe
    <2>4. CASE Kept(i, f)
        BY <1>1, <2>1, <2>4 DEF Kept, Stuck, CleanComing, Safe
    <2>5. CASE Young(f)
        <3>1. rows'[f] = rows[f] BY <2>1, <2>5, WrittenFacts DEF Young
        <3> QED BY <2>5, <3>1 DEF Young, Safe
    <2>6. CASE Unnoticed(f)
        <3>1. rows'[f] = "lied" BY <2>1, <2>6, WrittenFacts DEF Unnoticed
        <3>2. f <= mem'.hwm BY <1>2, <1>3, <2>1, <2>6 DEF Unnoticed
        <3> QED BY <2>6, <3>1, <3>2 DEF Unnoticed, Safe
    <2>7. CASE Suspected(f)
        <3>0. mem.suspect /\ mem.hwm < f /\ f <= mem.parked /\ rows[f] = "lied" /\ mem'.hwm < f /\ f <= mem'.parked
            BY <1>2, <1>3, <2>1, <2>7 DEF Suspected
        <3>1. CASE rows'[f] = "lied"
            BY <2>7, <3>0, <3>1 DEF Suspected, Safe
        <3>2. CASE rows'[f] # "lied"
            <4>1. rows'[f] = "fresh" \/ rows'[f] = "aging"
                BY <2>1, <3>0, <3>2, WrittenFacts
            <4>2. mem.durable < f + Slack /\ mem.sample < f + Slack
                BY <1>2, <2>1, <3>0 DEF Memo, Marks
            <4> QED BY <4>1, <4>2 DEF Young, Safe
        <3> QED BY <3>1, <3>2
    <2>8. CASE f \in mem.ring /\ f \in frames
        <3>1. /\ rows[f] = "none" /\ f > mem.own_floor /\ Ahead(f) /\ f <= s
              /\ rows'[f] \in {"fresh", "aging", "lied"} /\ (rows'[f] = "lied" => table = "suspended")
            BY <2>1, <2>8, WrittenFacts DEF Memo, InRing
        <3>2. CASE rows'[f] # "lied"
            BY <3>1, <3>2 DEF Ahead, Young, Safe
        <3>3. CASE rows'[f] = "lied" /\ ~mem.suspect
            <4>1. f <= mem'.hwm BY <1>2, <1>3, <2>1, <3>1, <3>3
            <4>2. \A q \in mem.probe : q.basis < f + Slack
                <5>1. \A q \in mem.probe : q.basis <= mem.hwm /\ q.basis \in Nat BY DEF Memo, Marks, Memory, Probe
                <5> QED BY <1>2, <2>1, <3>1, <5>1 DEF Ahead
            <4> QED BY <3>1, <3>3, <4>1, <4>2 DEF Unnoticed, Ahead, Safe
        <3>4. CASE rows'[f] = "lied" /\ mem.suspect /\ mem.hwm < f
            <4>1. f <= mem'.parked /\ mem'.hwm < f BY <1>2, <1>3, <2>1, <3>1, <3>4
            <4> QED BY <3>1, <3>4, <4>1 DEF Suspected, Safe
        <3>5. CASE mem.suspect /\ f <= mem.hwm
            <4>1. Near(i, f) \subseteq mem.ranges BY <2>1, <3>1, <3>5, EpisodeCovers DEF Ahead
            <4>2. mem.parked_confirm = {} BY <3>5 DEF Memo, Episode
            <4> QED BY <1>1, <2>1, <4>1, <4>2 DEF Kept, Safe
        <3> QED BY <1>2, <2>1, <3>2, <3>3, <3>4, <3>5
    <2>9. f \in mem.ring => f \in mem'.ring \/ f \in frames OBVIOUS
    <2> QED BY <2>2, <2>3, <2>4, <2>5, <2>6, <2>7, <2>8, <2>9 DEF Safe
<1>8. AllSafe'
    BY <1>1, <1>7 DEF AllSafe
<1> QED
    BY <1>4, <1>5, <1>6, <1>8

\* A write leaves a batch as settled as it was.
LEMMA AckSettles ==
    ASSUME Types, segs' = segs, table' = table, mem'.probe = mem.probe, NEW frames, rows' = Written(frames),
           NEW b, b.seg \in Segments, Settled(b)
    PROVE  Settled(b)'
<1>1. FramesIn(b.seg)' = FramesIn(b.seg) /\ (CleanComing' <=> CleanComing)
    BY DEF FramesIn, CleanComing
<1>2. \A f \in FramesIn(b.seg) : f \in DOMAIN rows
    BY FrameFacts
<1>3. ASSUME ~b.spoiled, NEW f \in FramesIn(b.seg)
      PROVE  \/ rows'[f] = "disk"
             \/ rows'[f] = "fresh" /\ b.age = 0
             \/ rows'[f] = "aging" /\ b.age < 2
             \/ rows'[f] = "lied" /\ table' = "suspended" /\ (b.clean = 0 \/ (b.clean = 1 /\ ~CleanComing'))
    <2>1. \/ rows[f] = "disk"
          \/ rows[f] = "fresh" /\ b.age = 0
          \/ rows[f] = "aging" /\ b.age < 2
          \/ rows[f] = "lied" /\ table = "suspended" /\ (b.clean = 0 \/ (b.clean = 1 /\ ~CleanComing))
        BY <1>3 DEF Settled
    <2> QED BY <1>1, <1>2, <2>1, WrittenFacts
<1> QED
    BY <1>1, <1>3 DEF Settled

\* An acknowledgement raises the watermark, or under suspicion what is parked.
LEMMA AckFields ==
    ASSUME NEW m \in Memory, NEW s \in Nat
    PROVE  /\ Acked(m, s) \in Memory
           /\ \A k \in {"phase", "boot_frame_high", "own_floor", "boot_hwm", "top", "opened", "ring", "rescue",
                        "sample", "durable", "buckets", "ranges", "suspect", "lag_only", "healthy", "probe",
                        "parked_confirm", "staged", "folding", "batches"} : Acked(m, s)[k] = m[k]
           /\ m.suspect => Acked(m, s).hwm = m.hwm /\ Acked(m, s).parked = Larger(m.parked, s)
           /\ ~m.suspect => Acked(m, s).hwm = Larger(m.hwm, s) /\ Acked(m, s).parked = m.parked
<1>1. Larger(m.hwm, s) \in Nat /\ Larger(m.parked, s) \in Nat
    BY DEF Memory, Larger
<1> QED
    BY <1>1 DEF Acked, Memory

\* A sink takes a frame and acknowledges it.
LEMMA SinkStep ==
    ASSUME Inv, SinkAcks
    PROVE  Inv'
<1>1. UNCHANGED <<segs, table, unseen, file, sidecar, crashes, scenario>> /\ Up
    BY DEF SinkAcks, disk
<1>2. mem \in Memory /\ Memo /\ Types /\ Sorted
    BY <1>1, MemTypes DEF Inv, Disk
<1>3. PICK s \in Takeable : rows' = Written({s}) /\ mem' = Acked([mem EXCEPT !.ring = @ \ {s}], s)
    BY DEF SinkAcks
<1>4. s \in mem.ring /\ s \in Nat /\ s \in Captured /\ s <= mem.top /\ mem.phase = "live"
      /\ \A f \in mem.ring : s < f + Slack
    <2>1. s \in mem.ring /\ s < Min(mem.ring) + Slack BY DEF Takeable
    <2>2. mem.ring \subseteq Nat BY <1>2 DEF Memory
    <2>3. Min(mem.ring) \in Nat /\ \A f \in mem.ring : Min(mem.ring) <= f BY <2>1, <2>2, MinOf
    <2>4. s \in Captured /\ s <= mem.top BY <1>2, <2>1 DEF Memo, InRing, Marks
    <2>5. mem.phase = "live" BY <1>2, <2>1, OwnPhase
    <2> QED BY <2>1, <2>2, <2>3, <2>4, <2>5, FrameLogAssumption
<1> DEFINE m == [mem EXCEPT !.ring = @ \ {s}]
<1>5. m \in Memory /\ m.ring = mem.ring \ {s} /\ m.phase = mem.phase /\ m.boot_frame_high = mem.boot_frame_high
      /\ m.own_floor = mem.own_floor /\ m.boot_hwm = mem.boot_hwm /\ m.top = mem.top /\ m.opened = mem.opened
      /\ m.rescue = mem.rescue /\ m.sample = mem.sample /\ m.durable = mem.durable /\ m.buckets = mem.buckets
      /\ m.ranges = mem.ranges /\ m.suspect = mem.suspect /\ m.lag_only = mem.lag_only /\ m.healthy = mem.healthy
      /\ m.probe = mem.probe /\ m.parked_confirm = mem.parked_confirm /\ m.staged = mem.staged
      /\ m.folding = mem.folding /\ m.batches = mem.batches /\ m.hwm = mem.hwm /\ m.parked = mem.parked
    BY <1>2 DEF Memory
<1> HIDE DEF m
<1>6. mem' \in Memory /\ Acks(s) /\ mem'.ring = mem.ring \ {s} /\ mem'.folding = mem.folding
    <2>1. mem' = Acked(m, s) BY <1>3 DEF m
    <2> QED BY <1>4, <1>5, <2>1, AckFields DEF Acks
<1>7. Marks' /\ InRing' /\ InRescue' /\ AllSafe'
    <2>1. PICK frames : frames = {s} OBVIOUS
    <2>2. rows' = Written(frames) /\ \A f \in frames : f <= s BY <1>3, <1>4, <2>1
    <2>3. mem'.ring \subseteq mem.ring /\ mem.ring \ mem'.ring \subseteq frames /\ mem'.ring \cap frames = {}
          /\ \A f \in mem'.ring : s < f + Slack
        BY <1>4, <1>6, <2>1
    <2>4. s \in Nat /\ s <= mem.top /\ mem' \in Memory /\ Acks(s) BY <1>4, <1>6
    <2> QED BY <1>1, <1>2, <2>2, <2>3, <2>4, AckKeeps
<1>8. SameFrames /\ Segments' = Segments /\ Readable' = Readable /\ DiskStays
    <2>1. SameFrames /\ Readable' = Readable BY <1>1 DEF SameFrames, Readable, In, Segments
    <2> QED BY <1>2, <1>3, <2>1, FramesKept, WrittenFacts
<1>9. Disk'
    BY <1>1, <1>2, <1>3, <1>6, <1>8, WrittenFacts, DiskKept DEF Inv, Disk, Types
<1>10. OwnSegments'
    BY <1>1, <1>2, <1>4, <1>6, <1>8, OwnPhase, OwnKept DEF Acks
<1>11. Batches'
    <2>1. ASSUME NEW b \in mem.batches \cup mem.folding PROVE b.seg \in Segments /\ Settled(b)'
        <3>1. b.seg \in Segments /\ Settled(b) BY <1>2 DEF Memo, Batches
        <3> QED BY <1>1, <1>2, <1>3, <1>6, <3>1, AckSettles DEF Acks
    <2> QED BY <1>1, <1>2, <1>6, <1>8, <2>1 DEF Memo, Batches, Acks
<1>12. Episode' /\ Staged' /\ Drained'
    BY <1>2, <1>4, <1>6 DEF Memo, Episode, Staged, Drained, Acks
<1>13. Memo'
    BY <1>7, <1>10, <1>11, <1>12 DEF Memo
<1>14. mem.durable <= mem'.durable /\ mem'.ranges = mem.ranges
    BY <1>2, <1>6 DEF Acks, Memory
<1> QED
    BY <1>1, <1>2, <1>6, <1>8, <1>9, <1>13, <1>14, Unsaved DEF Acks

\* A segment is folded again and flushed, or its frames are marked.
LEMMA FoldStep ==
    ASSUME Inv, FoldChunk
    PROVE  Inv'
<1> DEFINE frames == mem.staged \cap FramesOf({NextChunk})
           chunk == [seg |-> NextChunk, age |-> 0, clean |-> 0, spoiled |-> mem.suspect]
           fails == [mem EXCEPT !.buckets = @ \cup {Bucket(f) : f \in frames}, !.phase = "stopped"]
<1>1. UNCHANGED <<segs, table, unseen, file, sidecar, crashes, scenario>> /\ Up
      /\ mem.phase = "fold" /\ mem.folding = {} /\ Unsettled # {}
    BY DEF FoldChunk
<1>2. mem \in Memory /\ Memo /\ Types /\ Sorted /\ HasBound(Captured)
    BY <1>1, MemTypes DEF Inv, Disk
<1>3. \/ /\ rows' = Written(frames)
         /\ mem' = [(IF frames = {} THEN mem ELSE Acked(mem, Max(frames))) EXCEPT !.folding = {chunk}]
      \/ rows' = rows /\ mem' = fails
    BY DEF FoldChunk
<1>4. NextChunk \in Segments /\ segs[NextChunk].at = "replaying" /\ NextChunk \in Nat
    <2>1. Unsettled \subseteq Segments BY DEF Unsettled, In
    <2>2. Unsettled \subseteq Nat BY <1>2, <2>1, FrameFacts
    <2>3. NextChunk \in Unsettled BY <1>1, <2>2, MinOf DEF NextChunk
    <2> QED BY <2>2, <2>3 DEF Unsettled, In
<1>5. frames \subseteq FramesIn(NextChunk) /\ frames \subseteq Nat /\ frames \subseteq Captured
    <2>1. frames \subseteq FramesIn(NextChunk) BY DEF FramesOf, FramesIn
    <2>2. frames \subseteq Nat /\ frames \subseteq Captured BY <1>2, <1>4, <2>1, FrameFacts
    <2> QED BY <2>1, <2>2
<1>6. \A f \in Undurable(NextChunk) : f \in frames
    <2>1. NextChunk \in In({"replaying"}) BY <1>4 DEF In
    <2>2. \A f \in Undurable(NextChunk) : f \in mem.staged /\ f \in FramesIn(NextChunk)
        BY <1>1, <1>2, <2>1 DEF Memo, Staged, Undurable
    <2> QED BY <2>2 DEF FramesOf, FramesIn
<1>7. PICK c \in Batch : /\ c = chunk /\ c.seg = NextChunk /\ c.age = 0 /\ c.clean = 0 /\ c.spoiled = mem.suspect
    <2>1. chunk \in Batch /\ chunk.seg = NextChunk /\ chunk.age = 0 /\ chunk.clean = 0 /\ chunk.spoiled = mem.suspect
        BY <1>2, <1>4 DEF Batch, Memory
    <2> HIDE DEF chunk
    <2> QED BY <2>1
<1>8. frames # {} => Max(frames) \in frames /\ Max(frames) \in Nat /\ \A f \in frames : f <= Max(frames)
    <2>1. PICK n \in Nat : \A f \in Captured : f <= n BY <1>2 DEF HasBound
    <2>2. \A f \in frames : f <= n BY <1>5, <2>1
    <2> HIDE DEF frames
    <2> QED BY <1>5, <2>2, MaxOf
<1>9. mem.ring = {} /\ mem.rescue = {} /\ ~mem.opened
    BY <1>1, <1>2, OwnPhase
<1>9a. \/ /\ rows' = Written(frames)
          /\ mem' = [(IF frames = {} THEN mem ELSE Acked(mem, Max(frames))) EXCEPT !.folding = {c}]
       \/ rows' = rows /\ mem' = fails
    BY <1>3, <1>7
<1> HIDE DEF frames, chunk
<1>10. SameFrames /\ Segments' = Segments /\ Readable' = Readable
    <2>1. SameFrames /\ Readable' = Readable BY <1>1 DEF SameFrames, Readable, In, Segments
    <2> QED BY <2>1, FramesKept
<1>10a. DiskStays /\ \A f \in DOMAIN rows : rows'[f] \in Kinds
    <2>1. CASE rows' = Written(frames) BY <1>2, <2>1, WrittenFacts
    <2>2. CASE rows' = rows BY <1>2, <2>2 DEF DiskStays, Types
    <2> QED BY <1>3, <2>1, <2>2
<1>10b. In({"replaying"})' = In({"replaying"}) /\ In({"replaying"}) \subseteq Segments
      /\ \A i \in Segments : Undurable(i)' \subseteq Undurable(i)
    BY <1>1, <1>2, <1>10, <1>10a, UndurableKept DEF In
<1>11. CASE rows' = Written(frames)
            /\ mem' = [(IF frames = {} THEN mem ELSE Acked(mem, Max(frames))) EXCEPT !.folding = {c}]
    <2>1. \A f \in FramesIn(NextChunk) : \/ rows'[f] \in {"disk", "fresh", "aging"}
                                         \/ rows'[f] = "lied" /\ table' = "suspended"
        <3> TAKE f \in FramesIn(NextChunk)
        <3>1. f \in DOMAIN rows BY <1>2, <1>4, FrameFacts
        <3>2. f \in frames \/ rows[f] = "disk" BY <1>6 DEF Undurable
        <3> QED BY <1>1, <1>2, <1>11, <3>1, <3>2, WrittenFacts
    <2>2. Settled(c)'
        <3>1. FramesIn(c.seg)' = FramesIn(NextChunk) BY <1>1, <1>7 DEF FramesIn
        <3> QED BY <1>1, <1>7, <2>1, <3>1 DEF Settled
    <2>3. /\ mem' \in Memory /\ mem'.folding = {c} /\ mem'.ring = mem.ring
          /\ mem'.rescue = mem.rescue /\ mem'.phase = mem.phase /\ mem'.opened = mem.opened /\ mem'.staged = mem.staged
          /\ mem'.probe = mem.probe /\ mem'.batches = mem.batches /\ mem'.ranges = mem.ranges
          /\ mem'.durable = mem.durable /\ mem'.own_floor = mem.own_floor /\ mem'.suspect = mem.suspect
          /\ mem'.parked_confirm = mem.parked_confirm /\ (mem.suspect => mem'.hwm = mem.hwm)
          /\ Marks' /\ InRing' /\ InRescue' /\ AllSafe'
        <3>1. CASE frames = {}
            <4>1. mem' = [mem EXCEPT !.folding = {c}] BY <1>11, <3>1
            <4>2. /\ mem' \in Memory /\ mem'.folding = {c} /\ mem'.ring = mem.ring
                  /\ mem'.rescue = mem.rescue /\ mem'.phase = mem.phase /\ mem'.opened = mem.opened
                  /\ mem'.staged = mem.staged /\ mem'.probe = mem.probe /\ mem'.batches = mem.batches
                  /\ mem'.buckets = mem.buckets /\ SameMarks
                BY <1>2, <1>7, <4>1 DEF Memory, SameMarks
            <4>3. \A f \in DOMAIN rows : rows'[f] = rows[f] BY <1>2, <1>11, <3>1, WrittenFacts
            <4>4. Marks' /\ InRing' /\ InRescue' /\ AllSafe'
                BY <1>1, <1>2, <1>9, <1>10, <1>10a, <4>2, <4>3, Quiet
            <4> QED BY <4>2, <4>4 DEF SameMarks
        <3>2. CASE frames # {}
            <4> DEFINE s == Max(frames)
            <4>1. s \in Nat /\ s <= mem.top /\ \A f \in frames : f <= s
                BY <1>2, <1>5, <1>8, <3>2 DEF Memo, Marks
            <4> HIDE DEF s
            <4>2. mem' = [Acked(mem, s) EXCEPT !.folding = {c}] BY <1>11, <3>2 DEF s
            <4>3. /\ Acked(mem, s) \in Memory
                  /\ \A k \in {"phase", "boot_frame_high", "own_floor", "boot_hwm", "top", "opened", "ring", "rescue",
                        "sample", "durable", "buckets", "ranges", "suspect", "lag_only", "healthy", "probe",
                        "parked_confirm", "staged", "folding", "batches"} : Acked(mem, s)[k] = mem[k]
                  /\ mem.suspect => Acked(mem, s).hwm = mem.hwm /\ Acked(mem, s).parked = Larger(mem.parked, s)
                  /\ ~mem.suspect => Acked(mem, s).hwm = Larger(mem.hwm, s) /\ Acked(mem, s).parked = mem.parked
                BY <1>2, <4>1, AckFields
            <4> DEFINE a == Acked(mem, s)
            <4> HIDE DEF a
            <4>4. mem' \in Memory /\ Acks(s) /\ mem'.folding = {c} /\ mem'.ring = mem.ring
                <5>1. a \in Memory /\ mem' = [a EXCEPT !.folding = {c}] BY <4>2, <4>3 DEF a
                <5>2. mem' \in Memory /\ mem'.folding = {c}
                      /\ \A k \in {"phase", "boot_frame_high", "own_floor", "boot_hwm", "top", "opened", "ring", "rescue",
                        "sample", "durable", "buckets", "ranges", "suspect", "lag_only", "healthy", "probe",
                        "parked_confirm", "staged", "batches", "hwm", "parked"} : mem'[k] = a[k]
                    BY <1>7, <5>1 DEF Memory
                <5> QED BY <4>3, <5>2 DEF Acks, a
            <4>5. Marks' /\ InRing' /\ InRescue' /\ AllSafe'
                BY <1>1, <1>2, <1>9, <1>11, <4>1, <4>4, AckKeeps
            <4> QED BY <4>4, <4>5 DEF Acks
        <3> QED BY <3>1, <3>2
    <2>4. Disk'
        BY <1>1, <1>2, <1>10, <1>10a, <2>3, DiskKept DEF Inv, Disk, Types
    <2>5. OwnSegments'
        BY <1>1, <1>2, <1>9, <1>10, <2>3, OwnPhase, OwnKept
    <2>6. Batches'
        <3>1. ASSUME NEW b \in mem.batches PROVE b.seg \in Segments /\ Settled(b)'
            <4>1. b.seg \in Segments /\ Settled(b) BY <1>2 DEF Memo, Batches
            <4> QED BY <1>1, <1>2, <1>11, <2>3, <4>1, AckSettles
        <3> QED BY <1>1, <1>2, <1>4, <1>7, <1>10, <2>2, <2>3, <3>1 DEF Memo, Batches
    <2>7. Episode'
        BY <1>2, <1>7, <2>3 DEF Memo, Episode
    <2>8. Staged' /\ Drained'
        BY <1>1, <1>2, <1>10b, <2>3 DEF Memo, Staged, Drained
    <2>9. Memo'
        BY <2>3, <2>5, <2>6, <2>7, <2>8 DEF Memo
    <2>10. mem.durable <= mem'.durable
        BY <1>2, <2>3 DEF Memory
    <2> QED BY <1>1, <1>2, <1>10, <1>10a, <2>3, <2>4, <2>9, <2>10, Unsaved
<1>12. CASE rows' = rows /\ mem' = fails
    <2>1. {Bucket(f) : f \in frames} \subseteq Nat
        BY <1>5, BucketFacts
    <2>2. /\ mem' \in Memory /\ SameMarks /\ mem'.folding = mem.folding /\ mem'.ring = mem.ring
          /\ mem'.rescue = mem.rescue /\ mem'.phase = "stopped" /\ mem'.opened = mem.opened
          /\ mem'.batches = mem.batches /\ mem.buckets \subseteq mem'.buckets
        BY <1>2, <1>12, <2>1 DEF Memory, SameMarks, Phases
    <2>3. Marks' /\ InRing' /\ InRescue' /\ AllSafe'
        BY <1>1, <1>2, <1>9, <1>10, <1>10a, <1>12, <2>2, Quiet
    <2>4. Disk'
        BY <1>1, <1>2, <1>10, <1>10a, <2>2, DiskKept DEF Inv, Disk, Types
    <2>5. OwnSegments'
        BY <1>1, <1>2, <1>9, <1>10, <2>2, OwnPhase, OwnKept DEF SameMarks
    <2>6. Batches'
        BY <1>1, <1>2, <1>10, <1>12, <2>2, SettledKept DEF Memo, Batches
    <2>7. Episode' /\ Staged' /\ Drained'
        BY <1>2, <2>2 DEF Memo, Episode, Staged, Drained, SameMarks
    <2>8. Memo'
        BY <2>3, <2>5, <2>6, <2>7 DEF Memo
    <2>9. mem.durable <= mem'.durable
        BY <1>2, <2>2 DEF Memory, SameMarks
    <2> QED BY <1>1, <1>2, <1>10, <1>10a, <2>2, <2>4, <2>8, <2>9, Unsaved DEF SameMarks
<1> QED
    BY <1>9a, <1>11, <1>12

-----------------------------------------------------------------------------
(* Ranges are added to, or cut.                                            *)

\* The confirmations a step keeps are the ones there were, no less spoiled.
ConfirmsKept ==
    \A q \in mem'.parked_confirm : \E p \in mem.parked_confirm :
        /\ q.lo = p.lo /\ q.hi = p.hi /\ q.parked = p.parked /\ q.clean = p.clean
        /\ p.contaminated => q.contaminated

\* add_unapplied_range adds to the ranges and contaminates what it touches.
LEMMA RangeAdded ==
    ASSUME NEW m \in Memory, NEW span \in SUBSET Nat, NEW a, a = add_unapplied_range(m, span)
    PROVE  /\ a \in Memory
           /\ \A k \in {"phase", "boot_frame_high", "own_floor", "boot_hwm", "top", "opened", "ring", "rescue",
                        "hwm", "sample", "durable", "buckets", "suspect", "lag_only", "parked", "healthy", "probe",
                        "staged", "folding", "batches"} : a[k] = m[k]
           /\ a.ranges = m.ranges \cup span
           /\ \A q \in a.parked_confirm : \E p \in m.parked_confirm :
                /\ q.lo = p.lo /\ q.hi = p.hi /\ q.parked = p.parked /\ q.clean = p.clean /\ q.age = p.age
                /\ q.contaminated <=> p.contaminated \/ span \cap (p.lo .. p.hi) # {}
<1> DEFINE spoilt == {[p EXCEPT !.contaminated = @ \/ span \cap (p.lo .. p.hi) # {}] : p \in m.parked_confirm}
<1>1. \A p \in m.parked_confirm : p \in Confirm
    BY DEF Memory
<1>2. \A p \in Confirm : LET q == [p EXCEPT !.contaminated = @ \/ span \cap (p.lo .. p.hi) # {}]
                         IN  /\ q \in Confirm
                             /\ q.lo = p.lo /\ q.hi = p.hi /\ q.parked = p.parked /\ q.clean = p.clean /\ q.age = p.age
                             /\ q.contaminated <=> p.contaminated \/ span \cap (p.lo .. p.hi) # {}
    BY DEF Confirm
<1>3. spoilt \subseteq Confirm
    BY <1>1, <1>2
<1>4. \A q \in spoilt : \E p \in m.parked_confirm :
                    /\ q.lo = p.lo /\ q.hi = p.hi /\ q.parked = p.parked /\ q.clean = p.clean /\ q.age = p.age
                    /\ q.contaminated <=> p.contaminated \/ span \cap (p.lo .. p.hi) # {}
    BY <1>1, <1>2, ZenonT(60)
<1>5. add_unapplied_range(m, span) = [m EXCEPT !.ranges = @ \cup span, !.parked_confirm = spoilt]
    BY DEF add_unapplied_range, Memory
<1> HIDE DEF spoilt
<1>6. [m EXCEPT !.ranges = @ \cup span, !.parked_confirm = spoilt] \in Memory
    BY <1>3 DEF Memory
<1>7. add_unapplied_range(m, span) \in Memory
    BY <1>5, <1>6
<1>8. /\ add_unapplied_range(m, span).parked_confirm = spoilt
      /\ add_unapplied_range(m, span).ranges = m.ranges \cup span
    BY <1>5 DEF Memory
<1>9. \A k \in {"phase", "boot_frame_high", "own_floor", "boot_hwm", "top", "opened", "ring", "rescue",
                            "hwm", "sample", "durable", "buckets", "suspect", "lag_only", "parked", "healthy", "probe",
                            "staged", "folding", "batches"} : add_unapplied_range(m, span)[k] = m[k]
    BY <1>5 DEF Memory
<1> QED
    BY <1>4, <1>7, <1>8, <1>9

\* Two bounded sets of sequences have a bound together.
LEMMA BoundedUnion ==
    ASSUME NEW A, NEW B, A \subseteq Nat, B \subseteq Nat, HasBound(A), HasBound(B)
    PROVE  HasBound(A \cup B)
<1>1. PICK a \in Nat : \A x \in A : x <= a BY DEF HasBound
<1>2. PICK b \in Nat : \A x \in B : x <= b BY DEF HasBound
<1>3. a + b \in Nat /\ \A x \in A \cup B : x <= a + b BY <1>1, <1>2
<1> QED BY <1>3 DEF HasBound

\* What stays when ranges and buckets change.
SameButRanges ==
    /\ mem'.boot_frame_high = mem.boot_frame_high /\ mem'.own_floor = mem.own_floor /\ mem'.boot_hwm = mem.boot_hwm
    /\ mem'.top = mem.top /\ mem'.hwm = mem.hwm /\ mem'.sample = mem.sample /\ mem'.durable = mem.durable
    /\ mem'.suspect = mem.suspect /\ mem'.lag_only = mem.lag_only /\ mem'.parked = mem.parked
    /\ mem'.healthy = mem.healthy /\ mem'.probe = mem.probe /\ mem'.ring = mem.ring /\ mem'.rescue = mem.rescue
    /\ mem'.opened = mem.opened /\ mem'.batches = mem.batches /\ mem'.folding = mem.folding

\* When only ranges and buckets change, frames stay safe if the marks near each
\* are kept or are there anew.
LEMMA RangesChange ==
    ASSUME Types, Memo, SameFrames, rows' = rows, UNCHANGED <<table, unseen>>, SameButRanges, ConfirmsKept,
           HasBound(mem'.ranges),
           \A i \in Readable' : \A f \in Undurable(i) :
              \/ /\ i \in Readable
                 /\ Bucket(f) \in mem.buckets => Bucket(f) \in mem'.buckets
                 /\ Near(i, f) \subseteq mem.ranges => Near(i, f) \subseteq mem'.ranges
              \/ Kept(i, f)'
    PROVE  Marks' /\ InRing' /\ InRescue' /\ AllSafe'
<1> USE DEF SameButRanges
<1>1. Captured' = Captured /\ Segments' = Segments /\ \A i \in Segments : \A f : Near(i, f)' = Near(i, f)
    BY FramesKept
<1>2. Marks'
    <2>1. HasBound(mem.ranges)' BY DEF HasBound
    <2>2. \A p \in mem'.parked_confirm : p.parked <= mem'.top BY DEF Memo, Marks, ConfirmsKept
    <2> QED BY <1>1, <2>1, <2>2 DEF Memo, Marks
<1>3. InRing'
    <2> SUFFICES ASSUME NEW f \in mem'.ring
                 PROVE  f \in Captured' /\ rows'[f] = "none" /\ f > mem'.own_floor /\ Ahead(f)'
        BY DEF InRing
    <2>1. f \in Captured /\ rows[f] = "none" /\ f > mem.own_floor /\ Ahead(f) BY DEF Memo, InRing
    <2>2. Ahead(f)' BY <2>1 DEF Ahead, ConfirmsKept
    <2> QED BY <1>1, <2>1, <2>2
<1>4. InRescue'
    BY <1>1 DEF Memo, InRescue
<1>5. ASSUME NEW i \in Readable', NEW f \in Undurable(i)' PROVE Safe(i, f)'
    <2>1. i \in Segments /\ f \in Undurable(i)
        <3>1. i \in Segments BY <1>1 DEF Readable, In
        <3>2. DiskStays BY DEF DiskStays
        <3> QED BY <3>1, <3>2, UndurableKept
    <2>2. CASE Kept(i, f)' BY <2>2 DEF Safe
    <2>3. CASE /\ i \in Readable
               /\ Bucket(f) \in mem.buckets => Bucket(f) \in mem'.buckets
               /\ Near(i, f) \subseteq mem.ranges => Near(i, f) \subseteq mem'.ranges
        <3>1. Safe(i, f) BY <2>1, <2>3 DEF Memo, AllSafe
        <3>2. CASE Kept(i, f)
            <4>1. ASSUME NEW q \in mem'.parked_confirm
                  PROVE  q.contaminated \/ Near(i, f)' \cap (q.lo .. q.hi) = {} \/ Stuck(q)'
                <5>1. PICK p \in mem.parked_confirm :
                        /\ q.lo = p.lo /\ q.hi = p.hi /\ q.parked = p.parked /\ q.clean = p.clean
                        /\ p.contaminated => q.contaminated
                    BY DEF ConfirmsKept
                <5>2. p.contaminated \/ Near(i, f) \cap (p.lo .. p.hi) = {} \/ Stuck(p)
                    BY <3>2 DEF Kept
                <5>3. Stuck(p) => Stuck(q)' BY <5>1 DEF Stuck, CleanComing
                <5> QED BY <1>1, <2>1, <5>1, <5>2, <5>3
            <4> QED BY <1>1, <2>1, <2>3, <3>2, <4>1 DEF Kept, Safe
        <3>3. CASE Young(f) BY <3>3 DEF Young, Safe
        <3>4. CASE Unnoticed(f) BY <3>4 DEF Unnoticed, Safe
        <3>5. CASE Suspected(f) BY <3>5 DEF Suspected, Safe
        <3> QED BY <2>3, <3>1, <3>2, <3>3, <3>4, <3>5 DEF Safe
    <2> QED BY <2>1, <2>2, <2>3
<1>6. AllSafe'
    BY <1>5 DEF AllSafe
<1> QED
    BY <1>2, <1>3, <1>4, <1>6

\* What else stays when only the ranges change.
LEMMA RangesRest ==
    ASSUME Types, Memo, SameFrames, rows' = rows, UNCHANGED <<table, unseen>>, SameButRanges, ConfirmsKept,
           \A b \in mem.batches \cup mem.folding : segs'[b.seg].at = segs[b.seg].at,
           mem.folding = {} \/ mem'.phase = "fold", mem'.phase # "boot",
           mem.suspect => \A x \in mem.ranges : x > mem.own_floor => x \in mem'.ranges
    PROVE  Batches' /\ Episode'
<1> USE DEF SameButRanges
<1>1. Segments' = Segments /\ (CleanComing' <=> CleanComing)
    BY FramesKept DEF CleanComing
<1>2. ASSUME NEW b \in mem.batches \cup mem.folding PROVE b.seg \in Segments /\ Settled(b)'
    <2>1. b.seg \in Segments /\ Settled(b) BY DEF Memo, Batches
    <2>2. FramesIn(b.seg)' = FramesIn(b.seg) BY <2>1, FramesKept
    <2> QED BY <1>1, <2>1, <2>2 DEF Settled
<1>3. Batches'
    BY <1>1, <1>2 DEF Memo, Batches
<1>4. Episode'
    <2>1. mem.suspect => mem'.parked_confirm = {} BY DEF Memo, Episode, ConfirmsKept
    <2>2. mem.suspect => \A x \in suspension_range_lo(mem.hwm) .. mem.hwm + Slack : x > mem.own_floor => x \in mem'.ranges
        BY DEF Memo, Episode
    <2> QED BY <2>1, <2>2 DEF Memo, Episode
<1> QED
    BY <1>3, <1>4

\* reset_unapplied_below after a drain: nothing it unmarks is still to be read.
LEMMA EndDrainedStep ==
    ASSUME Inv, EndDrained
    PROVE  Inv'
<1> DEFINE high == {b \in mem.buckets : b >= Bucket(Ceiling)}
           above == {s \in mem.ranges : s >= Larger(Ceiling, mem.own_floor + 1)}
           m == [mem EXCEPT !.phase = "live", !.buckets = high, !.ranges = above]
<1>1. UNCHANGED <<segs, rows, table, unseen, scenario>> /\ Up /\ mem.phase = "drained" /\ Save(m)
    BY DEF EndDrained, world
<1>2. mem \in Memory /\ Memo /\ Types
    BY <1>1, MemTypes DEF Inv, Disk
<1>3. above \subseteq mem.ranges /\ \A s \in mem.ranges : s > mem.own_floor => s \in above
    <2>1. mem.own_floor \in Nat /\ mem.ranges \subseteq Nat BY <1>2 DEF Memory
    <2> QED BY <2>1 DEF Ceiling, Larger
<1>4. high \subseteq mem.buckets
    OBVIOUS
<1> HIDE DEF above, high
<1>5. /\ m \in Memory /\ m.ranges = above /\ m.phase = "live" /\ m.parked_confirm = mem.parked_confirm
      /\ (mem' = m => SameButRanges /\ mem'.staged = mem.staged)
    BY <1>2, <1>3, <1>4, ZenonT(60) DEF Memory, Phases, SameButRanges
<1> HIDE DEF m
<1>6. HasBound(m.ranges)
    BY <1>2, <1>3, <1>5 DEF Memo, Marks, HasBound
<1>7. SameFrames /\ DiskStays /\ Readable' = Readable /\ \A i : Undurable(i)' = Undurable(i)
    BY <1>1, Still
<1>8. ASSUME mem' = m PROVE Memo'
    <2>1. SameButRanges /\ ConfirmsKept /\ HasBound(mem'.ranges)
        BY <1>5, <1>6, <1>8 DEF ConfirmsKept
    <2>2. \A i \in Readable' : \A f \in Undurable(i) : FALSE
        BY <1>1, <1>2, <1>7 DEF Memo, Drained
    <2>3. Marks' /\ InRing' /\ InRescue' /\ AllSafe'
        BY <1>1, <1>2, <1>7, <2>1, <2>2, RangesChange
    <2>4. mem.folding = {} BY <1>1, <1>2 DEF Memo, Batches
    <2>5. Batches' /\ Episode'
        BY <1>1, <1>2, <1>3, <1>5, <1>7, <1>8, <2>1, <2>4, RangesRest
    <2>6. OwnSegments'
        BY <1>1, <1>2, <1>5, <1>7, <1>8, <2>1, OwnPhase, OwnKept DEF SameButRanges
    <2> QED BY <1>5, <1>8, <2>3, <2>5, <2>6 DEF Memo, Staged, Drained
<1> QED
    BY <1>1, <1>2, <1>5, <1>6, <1>7, <1>8, SaveKeeps DEF Types

\* guard_pending_backlog after a stopped drain adds a range.
LEMMA EndStoppedStep ==
    ASSUME Inv, EndStopped
    PROVE  Inv'
<1> DEFINE left == In({"live", "replaying"})
           lo == Larger(Minus(Min({First(i) : i \in left}), Slack), boot_range_floor(mem.boot_hwm))
           hi == Smaller(Ceiling - 1, mem.boot_frame_high)
           m == [mem EXCEPT !.phase = "live"]
           a == add_unapplied_range(m, lo .. hi)
<1>1. UNCHANGED <<segs, rows, table, unseen, scenario>> /\ Up /\ mem.phase = "stopped"
      /\ \/ mem' = m /\ UNCHANGED <<file, sidecar, crashes>>
         \/ left # {} /\ Save(a)
    BY DEF EndStopped, world
<1>2. mem \in Memory /\ Memo /\ Types
    BY <1>1, MemTypes DEF Inv, Disk
<1>3. SameFrames /\ DiskStays /\ Readable' = Readable /\ \A i : Undurable(i)' = Undurable(i)
    BY <1>1, Still
<1>4. /\ m \in Memory /\ m.phase = "live" /\ m.ranges = mem.ranges /\ m.parked_confirm = mem.parked_confirm
      /\ \A k \in {"boot_frame_high", "own_floor", "boot_hwm", "top", "opened", "ring", "rescue",
                   "hwm", "sample", "durable", "buckets", "suspect", "lag_only", "parked", "healthy", "probe",
                   "staged", "folding", "batches"} : m[k] = mem[k]
    BY <1>2 DEF Memory, Phases
<1>5. left # {} => lo .. hi \in SUBSET Nat /\ HasBound(lo .. hi)
    <2> HAVE left # {}
    <2>1. {First(i) : i \in left} \subseteq Nat /\ {First(i) : i \in left} # {} BY <1>2, FrameFacts DEF In
    <2>2. Min({First(i) : i \in left}) \in Nat BY <2>1, MinOf
    <2>3. mem.boot_hwm \in Nat /\ mem.own_floor \in Nat /\ mem.boot_frame_high \in Nat /\ Slack \in Nat
        BY <1>2, FrameLogAssumption DEF Memory
    <2>4. lo \in Nat BY <2>2, <2>3 DEF Larger, Minus, boot_range_floor
    <2>5. hi \in Int /\ hi <= mem.boot_frame_high BY <2>3 DEF Smaller, Ceiling
    <2> HIDE DEF lo, hi
    <2>6. lo .. hi \in SUBSET Nat /\ \A x \in lo .. hi : x <= mem.boot_frame_high BY <2>3, <2>4, <2>5
    <2> QED BY <2>3, <2>6 DEF HasBound
<1>6. mem.folding = {} BY <1>1, <1>2 DEF Memo, Batches
<1>7. ASSUME mem' \in Memory, SameButRanges, ConfirmsKept, mem'.phase = "live", mem'.buckets = mem.buckets,
             HasBound(mem'.ranges), mem.ranges \subseteq mem'.ranges
      PROVE  Memo'
    <2>1. \A i \in Readable' : \A f \in Undurable(i) :
                 /\ i \in Readable
                 /\ Bucket(f) \in mem.buckets => Bucket(f) \in mem'.buckets
                 /\ Near(i, f) \subseteq mem.ranges => Near(i, f) \subseteq mem'.ranges
        BY <1>3, <1>7
    <2>2. Marks' /\ InRing' /\ InRescue' /\ AllSafe'
        BY <1>1, <1>2, <1>3, <1>7, <2>1, RangesChange
    <2>3. Batches' /\ Episode'
        BY <1>1, <1>2, <1>3, <1>6, <1>7, RangesRest
    <2>4. OwnSegments'
        BY <1>1, <1>2, <1>3, <1>7, OwnPhase, OwnKept DEF SameButRanges
    <2> QED BY <1>7, <2>2, <2>3, <2>4 DEF Memo, Staged, Drained
<1>8. CASE mem' = m /\ UNCHANGED <<file, sidecar, crashes>>
    <2>1. mem' \in Memory /\ SameButRanges /\ ConfirmsKept /\ mem'.phase = "live" /\ mem'.buckets = mem.buckets
          /\ mem'.ranges = mem.ranges
        BY <1>4, <1>8 DEF SameButRanges, ConfirmsKept
    <2>2. HasBound(mem'.ranges) BY <1>2, <2>1 DEF Memo, Marks, HasBound
    <2>3. Memo' BY <1>7, <2>1, <2>2
    <2>4. Disk'
        BY <1>1, <1>3, <1>8, <2>1, DiskKept DEF Inv, Disk, Types
    <2>5. mem.durable <= mem'.durable BY <1>2, <2>1 DEF SameButRanges, Memory
    <2> QED BY <1>1, <1>2, <1>3, <1>8, <2>1, <2>3, <2>4, <2>5, Unsaved
<1>9. CASE left # {} /\ Save(a)
    <2> DEFINE span == lo .. hi
    <2>1. span \in SUBSET Nat /\ HasBound(span) BY <1>5, <1>9
    <2> HIDE DEF span, m
    <2>1a. a = add_unapplied_range(m, span) BY DEF span
    <2> HIDE DEF a, lo, hi
    <2>2. /\ a \in Memory
          /\ \A k \in {"phase", "boot_frame_high", "own_floor", "boot_hwm", "top", "opened", "ring", "rescue",
                       "hwm", "sample", "durable", "buckets", "suspect", "lag_only", "parked", "healthy", "probe",
                       "staged", "folding", "batches"} : a[k] = m[k]
          /\ a.ranges = m.ranges \cup span
          /\ \A q \in a.parked_confirm : \E p \in m.parked_confirm :
                /\ q.lo = p.lo /\ q.hi = p.hi /\ q.parked = p.parked /\ q.clean = p.clean /\ q.age = p.age
                /\ q.contaminated <=> p.contaminated \/ span \cap (p.lo .. p.hi) # {}
        BY <1>4, <2>1, <2>1a, RangeAdded
    <2>3. HasBound(a.ranges)
        <3>1. mem.ranges \subseteq Nat /\ HasBound(mem.ranges) BY <1>2 DEF Memory, Memo, Marks
        <3>2. HasBound(mem.ranges \cup span) BY <2>1, <3>1, BoundedUnion
        <3>3. a.ranges = mem.ranges \cup span BY <1>4, <2>2
        <3> QED BY <3>2, <3>3 DEF HasBound
    <2>4. ASSUME mem' = a PROVE Memo'
        <3>1. SameButRanges BY <1>4, <2>2, <2>4 DEF SameButRanges
        <3>2. ConfirmsKept BY <1>4, <2>2, <2>4 DEF ConfirmsKept
        <3>3. mem'.phase = "live" /\ mem'.buckets = mem.buckets /\ mem.ranges \subseteq mem'.ranges
            BY <1>4, <2>2, <2>4
        <3>4. HasBound(mem'.ranges) BY <2>3, <2>4 DEF HasBound
        <3> QED BY <1>7, <2>2, <2>4, <3>1, <3>2, <3>3, <3>4
    <2> QED BY <1>1, <1>2, <1>3, <1>9, <2>2, <2>3, <2>4, SaveKeeps DEF Types
<1> QED
    BY <1>1, <1>8, <1>9

\* recover marks what an earlier process had settled before it is read again.
LEMMA RecoverStep ==
    ASSUME Inv, Recover
    PROVE  Inv'
<1> DEFINE left == In({"settling"})
           spans == UNION {Min(Range(segs[i].frames)) .. Max(Range(segs[i].frames)) : i \in left}
           m == [mem EXCEPT !.phase = "replay"]
           a == add_unapplied_range(m, spans)
           to == [i \in Segments |-> IF i \in left THEN "replaying" ELSE segs[i].at]
<1>1. UNCHANGED <<rows, table, unseen, scenario>> /\ Up /\ mem.phase = "boot" /\ Save(a)
      /\ segs' = IF mem'.phase = "down" THEN segs ELSE MovedTo(to)
    BY DEF Recover, world
<1>2. mem \in Memory /\ Memo /\ Types /\ Sorted
    BY <1>1, MemTypes DEF Inv, Disk
<1>3. PICK n \in Nat : \A f \in Captured : f <= n
    BY DEF Inv, Disk, HasBound
<1>4. ASSUME NEW i \in left
      PROVE  /\ i \in Segments
             /\ \A f \in FramesIn(i) : /\ Min(Range(segs[i].frames)) \in Nat /\ Min(Range(segs[i].frames)) <= f
                                       /\ Max(Range(segs[i].frames)) \in Nat /\ f <= Max(Range(segs[i].frames))
                                       /\ Max(Range(segs[i].frames)) <= n
             /\ FramesIn(i) # {}
    <2>1. i \in Segments BY DEF In
    <2>2. FramesIn(i) \subseteq Nat /\ FramesIn(i) # {} /\ FramesIn(i) \subseteq Captured BY <1>2, <2>1, FrameFacts
    <2>3. \A f \in FramesIn(i) : f <= n BY <1>3, <2>2
    <2>4. Min(FramesIn(i)) \in Nat /\ \A f \in FramesIn(i) : Min(FramesIn(i)) <= f BY <2>2, MinOf
    <2>5. Max(FramesIn(i)) \in FramesIn(i) /\ Max(FramesIn(i)) \in Nat /\ \A f \in FramesIn(i) : f <= Max(FramesIn(i))
        BY <2>2, <2>3, MaxOf
    <2>6. Max(FramesIn(i)) <= n BY <2>3, <2>5
    <2> QED BY <2>1, <2>2, <2>4, <2>5, <2>6 DEF FramesIn
<1>5. spans \in SUBSET Nat /\ HasBound(spans)
    <2> SUFFICES ASSUME NEW x \in spans PROVE x \in Nat /\ x <= n BY DEF HasBound
    <2>1. PICK i \in left : x \in Min(Range(segs[i].frames)) .. Max(Range(segs[i].frames)) OBVIOUS
    <2>2. /\ Min(Range(segs[i].frames)) \in Nat /\ Max(Range(segs[i].frames)) \in Nat /\ Max(Range(segs[i].frames)) <= n
        BY <1>4
    <2> QED BY <2>1, <2>2
<1>6. ASSUME NEW i \in left, NEW f \in FramesIn(i) PROVE Near(i, f) \subseteq spans
    <2> SUFFICES ASSUME NEW x \in Near(i, f) PROVE x \in spans OBVIOUS
    <2>1. i \in Segments BY <1>4
    <2>2. First(i) \in FramesIn(i) /\ First(i) \in Nat /\ f \in Nat BY <1>2, <2>1, FrameFacts
    <2>3. x \in Nat /\ (f <= x \/ First(i) <= x) /\ (x <= f \/ x <= First(i)) BY <1>2, <2>1, NearFacts
    <2>4. /\ Min(Range(segs[i].frames)) \in Nat /\ Max(Range(segs[i].frames)) \in Nat
          /\ Min(Range(segs[i].frames)) <= f /\ Min(Range(segs[i].frames)) <= First(i)
          /\ f <= Max(Range(segs[i].frames)) /\ First(i) <= Max(Range(segs[i].frames))
        BY <1>4, <2>2
    <2>5. x \in Min(Range(segs[i].frames)) .. Max(Range(segs[i].frames)) BY <2>2, <2>3, <2>4
    <2> QED BY <2>5
<1>7. /\ m \in Memory /\ m.phase = "replay" /\ m.ranges = mem.ranges /\ m.parked_confirm = mem.parked_confirm
      /\ \A k \in {"boot_frame_high", "own_floor", "boot_hwm", "top", "opened", "ring", "rescue",
                   "hwm", "sample", "durable", "buckets", "suspect", "lag_only", "parked", "healthy", "probe",
                   "staged", "folding", "batches"} : m[k] = mem[k]
    BY <1>2 DEF Memory, Phases
<1> HIDE DEF m, spans
<1>8. /\ a \in Memory
      /\ \A k \in {"phase", "boot_frame_high", "own_floor", "boot_hwm", "top", "opened", "ring", "rescue",
                   "hwm", "sample", "durable", "buckets", "suspect", "lag_only", "parked", "healthy", "probe",
                   "staged", "folding", "batches"} : a[k] = m[k]
      /\ a.ranges = m.ranges \cup spans
      /\ \A q \in a.parked_confirm : \E p \in m.parked_confirm :
            /\ q.lo = p.lo /\ q.hi = p.hi /\ q.parked = p.parked /\ q.clean = p.clean /\ q.age = p.age
            /\ q.contaminated <=> p.contaminated \/ spans \cap (p.lo .. p.hi) # {}
    BY <1>5, <1>7, RangeAdded
<1> HIDE DEF a
<1>9. HasBound(a.ranges)
    <2>1. mem.ranges \subseteq Nat /\ HasBound(mem.ranges) BY <1>2 DEF Memory, Memo, Marks
    <2>2. HasBound(mem.ranges \cup spans) BY <1>5, <2>1, BoundedUnion
    <2>3. a.ranges = mem.ranges \cup spans BY <1>7, <1>8
    <2> QED BY <2>2, <2>3 DEF HasBound
<1>10. /\ \A i \in Segments : to[i] \in Folders
       /\ segs' = MovedTo(to) => \A i \in Segments : to[i] = segs[i].at \/ (i \in left /\ to[i] = "replaying")
    BY <1>2, FrameFacts DEF Folders
<1> HIDE DEF to
<1>11. /\ segs' \in Seq(Segment) /\ SameFrames /\ Segments' = Segments
       /\ \A i \in Segments : segs'[i].at = segs[i].at \/ (i \in left /\ segs'[i].at = "replaying")
    <2>1. CASE segs' = segs BY <1>2, <2>1 DEF SameFrames, Segments, Types
    <2>2. CASE segs' = MovedTo(to) BY <1>2, <1>10, <2>2, Moved
    <2> QED BY <1>1, <2>1, <2>2
<1>12. ASSUME mem' = a PROVE Memo'
    <2>1. SameButRanges /\ mem'.phase = "replay" /\ mem'.buckets = mem.buckets /\ mem'.ranges = mem.ranges \cup spans
        BY <1>7, <1>8, <1>12 DEF SameButRanges
    <2>2. ConfirmsKept BY <1>7, <1>8, <1>12 DEF ConfirmsKept
    <2>3. HasBound(mem'.ranges) BY <1>9, <1>12 DEF HasBound
    <2>4. ASSUME NEW i \in Readable', NEW f \in Undurable(i), i \notin Readable PROVE Kept(i, f)'
        <3>1. i \in Segments /\ i \in left BY <1>11, <2>4 DEF Readable, In
        <3>2. Near(i, f) \subseteq spans BY <1>6, <3>1 DEF Undurable
        <3>3. Near(i, f)' = Near(i, f) BY <1>11, <3>1, FramesKept
        <3>4. \A q \in mem'.parked_confirm : q.contaminated \/ Near(i, f) \cap (q.lo .. q.hi) = {}
            BY <1>7, <1>8, <1>12, <3>2
        <3> QED BY <2>1, <3>2, <3>3, <3>4 DEF Kept
    <2>5. Marks' /\ InRing' /\ InRescue' /\ AllSafe'
        BY <1>1, <1>2, <1>11, <2>1, <2>2, <2>3, <2>4, RangesChange
    <2>6. mem.folding = {} /\ mem.batches = {} BY <1>1, <1>2 DEF Memo, Batches
    <2>7. Batches' /\ Episode'
        BY <1>1, <1>2, <1>11, <2>1, <2>2, <2>6, RangesRest
    <2>8. OwnSegments'
        BY <1>1, <1>2, <1>11, <2>1, OwnPhase, OwnKept DEF SameButRanges
    <2> QED BY <2>1, <2>5, <2>7, <2>8 DEF Memo, Staged, Drained
<1>13. mem' = Down => segs' = segs
    BY <1>1 DEF Down
<1>14. \A i \in Segments : segs'[i].at \in {"archive", "gone"} => segs[i].at \in {"archive", "gone"}
    BY <1>11
<1> QED
    BY <1>1, <1>2, <1>8, <1>9, <1>11, <1>12, <1>13, <1>14, SaveKeeps DEF Types

\* What puts a sequence into the span of a waiting segment.
LEMMA InSpan ==
    ASSUME Types, HasBound(Captured), NEW k \in Waiting, NEW x \in Nat, NEW top \in Nat, x <= top,
           \A j \in Waiting : j <= k => First(j) <= x + Slack,
           (\A j \in Waiting : j > k => x < First(j)) \/ x <= First(k),
           x <= Last(segs[k].frames) + Slack \/ x <= First(k) + Slack
    PROVE  x \in SpanOf(k, top)
<1> DEFINE F == {First(j) : j \in {j \in Waiting : j <= k}}
           next == First(Min(After(k, Waiting)))
           coarse == Larger(next - 1, First(k))
           last == Larger(Last(segs[k].frames), First(k))
           lo == Minus(Max(F), Slack)
           hi == IF ~Bounded(k, Waiting) THEN top
                 ELSE IF Minus(next, First(k)) > BucketSize THEN Smaller(coarse, last + Slack)
                 ELSE coarse
<1>1. Waiting \subseteq Segments /\ k \in Segments
    BY DEF Waiting, In
<1>2. \A j \in Segments : j \in Nat /\ First(j) \in Nat /\ First(j) \in Captured /\ Last(segs[j].frames) \in Nat
    BY FrameFacts
<1>3. Slack \in Nat /\ Slack > 0 /\ BucketSize \in Nat
    BY FrameLogAssumption
<1>4. lo \in Nat /\ lo <= x
    <2>1. F \subseteq Nat /\ F # {} BY <1>1, <1>2
    <2>2. PICK n \in Nat : \A f \in Captured : f <= n BY DEF HasBound
    <2>3. \A y \in F : y <= n BY <1>1, <1>2, <2>2
    <2>4. \A y \in F : y <= x + Slack OBVIOUS
    <2> HIDE DEF F
    <2>5. Max(F) \in F /\ Max(F) \in Nat BY <2>1, <2>3, MaxOf
    <2> QED BY <1>3, <2>4, <2>5 DEF Minus
<1>5. hi \in Int /\ x <= hi
    <2>1. CASE ~Bounded(k, Waiting) BY <2>1
    <2>2. CASE Bounded(k, Waiting)
        <3>1. After(k, Waiting) \subseteq Nat /\ After(k, Waiting) # {} BY <1>1, <1>2, <2>2 DEF After, Bounded
        <3>2. Min(After(k, Waiting)) \in After(k, Waiting) BY <3>1, MinOf
        <3>3. Min(After(k, Waiting)) \in Waiting /\ Min(After(k, Waiting)) > k BY <3>2 DEF After
        <3>4. next \in Nat /\ (x < next \/ x <= First(k)) BY <1>1, <1>2, <3>3
        <3>5. First(k) \in Nat /\ Last(segs[k].frames) \in Nat BY <1>1, <1>2
        <3> HIDE DEF next
        <3>6. coarse \in Int /\ x <= coarse BY <3>4, <3>5 DEF Larger
        <3>7. last \in Nat /\ x <= last + Slack BY <1>3, <3>5 DEF Larger
        <3> HIDE DEF coarse, last
        <3> QED BY <1>3, <2>2, <3>6, <3>7 DEF Smaller
    <2> QED BY <2>1, <2>2
<1>6. SpanOf(k, top) = lo .. hi
    BY DEF SpanOf
<1> HIDE DEF lo, hi
<1> QED
    BY <1>4, <1>5, <1>6

\* The trim keeps what marks a frame that waits.
LEMMA SpansCover ==
    ASSUME Types, Sorted, HasBound(Captured), NEW i \in Waiting, NEW f \in FramesIn(i), NEW x \in Near(i, f),
           NEW top \in Nat, x <= top
    PROVE  x \in waiting_spans(top)
<1>1. Waiting \subseteq Segments /\ i \in Segments
    BY DEF Waiting, In
<1>2. \A j \in Segments : j \in Nat /\ First(j) \in Nat /\ First(j) \in FramesIn(j) /\ Last(segs[j].frames) \in Nat
                          /\ 1 <= j /\ j <= Len(segs)
    BY FrameFacts
<1>3. Slack \in Nat /\ Slack > 0 /\ f \in Nat /\ i \in Nat /\ First(i) \in Nat /\ First(i) \in FramesIn(i)
    BY <1>1, <1>2, FrameFacts, FrameLogAssumption
<1>4. /\ x \in Nat /\ f <= x + Slack /\ x < f + Slack
      /\ (f <= x \/ First(i) <= x) /\ (x <= f \/ x <= First(i))
    BY <1>1, NearFacts
<1>5. \A j \in Segments : j <= i => First(j) < f + Slack /\ First(j) < First(i) + Slack
    <2> TAKE j \in Segments
    <2> HAVE j <= i
    <2>1. CASE j = i
        <3>1. First(i) < f + Slack BY <1>1 DEF Sorted
        <3> QED BY <1>3, <2>1, <3>1
    <2>2. CASE j # i
        <3>1. j < i BY <1>2, <1>3, <2>2
        <3> QED BY <1>1, <1>2, <1>3, <3>1 DEF Sorted
    <2> QED BY <2>1, <2>2
<1>6. \A j \in Segments : j <= i => First(j) <= x + Slack
    BY <1>2, <1>3, <1>4, <1>5
<1>7. f < Last(segs[i].frames) + Slack
    BY <1>1 DEF Sorted
<1>8. \E k \in Waiting : x \in SpanOf(k, top)
    <2> DEFINE K == {k \in Waiting : k >= i /\ First(k) <= x}
    <2>1. CASE K = {}
        <3>1. x < First(i) BY <1>3, <1>4, <2>1
        <3>2. x <= First(i) /\ x <= First(i) + Slack BY <1>3, <1>4, <3>1
        <3>3. \A j \in Waiting : j <= i => First(j) <= x + Slack BY <1>1, <1>6
        <3>4. x \in SpanOf(i, top) BY <1>4, <3>2, <3>3, InSpan
        <3> QED BY <3>4
    <2>2. CASE K # {}
        <3>1. K \subseteq Nat /\ \A k \in K : k <= Len(segs) BY <1>1, <1>2
        <3>1a. Len(segs) \in Nat BY DEF Types
        <3>1b. \A k \in K : k \in Waiting /\ k >= i /\ First(k) <= x OBVIOUS
        <3>1c. \A k \in Waiting : k >= i /\ First(k) <= x => k \in K OBVIOUS
        <3> HIDE DEF K
        <3> DEFINE k == Max(K)
        <3>2. k \in K /\ k \in Nat /\ \A j \in K : j <= k BY <2>2, <3>1, <3>1a, MaxOf
        <3> HIDE DEF k
        <3>3. k \in Waiting /\ k \in Segments /\ k >= i /\ First(k) <= x BY <1>1, <3>1b, <3>2
        <3>4. \A j \in Waiting : j <= k => First(j) <= x + Slack
            <4> TAKE j \in Waiting
            <4> HAVE j <= k
            <4>1. j \in Segments /\ j \in Nat /\ First(j) \in Nat /\ First(j) \in FramesIn(j)
                  /\ First(k) \in Nat /\ First(k) \in FramesIn(k) BY <1>1, <1>2, <3>3
            <4>2. CASE j <= i BY <1>6, <4>1, <4>2
            <4>3. CASE j = k BY <1>3, <1>4, <3>3, <4>1, <4>3
            <4>4. CASE j < k
                <5>1. First(j) < First(k) + Slack BY <3>3, <4>1, <4>4 DEF Sorted
                <5> QED BY <1>3, <1>4, <3>3, <4>1, <5>1
            <4> QED BY <3>2, <4>1, <4>3, <4>4
        <3>5. \A j \in Waiting : j > k => x < First(j)
            <4> TAKE j \in Waiting
            <4> HAVE j > k
            <4>1. j \in Nat /\ First(j) \in Nat BY <1>1, <1>2
            <4>2. j \notin K BY <3>2, <4>1
            <4>3. j >= i BY <1>3, <3>2, <3>3, <4>1
            <4> QED BY <1>4, <3>1c, <4>1, <4>2, <4>3
        <3>6. x <= Last(segs[k].frames) + Slack \/ x <= First(k) + Slack
            <4>0. First(k) \in Nat /\ First(k) \in FramesIn(k) /\ Last(segs[k].frames) \in Nat BY <1>2, <3>3
            <4>1. CASE k = i
                <5>1. x <= f \/ x <= First(i) BY <1>4
                <5>2. Last(segs[i].frames) \in Nat BY <1>1, <1>2
                <5> QED BY <1>3, <1>4, <1>7, <4>1, <5>1, <5>2
            <4>2. CASE k # i
                <5>1. i < k BY <1>3, <3>2, <3>3, <4>2
                <5>2. f < First(k) + Slack /\ First(i) < First(k) + Slack
                    BY <1>1, <1>3, <3>3, <4>0, <5>1 DEF Sorted
                <5> QED BY <1>3, <1>4, <4>0, <5>2
            <4> QED BY <4>1, <4>2
        <3>7. x \in SpanOf(k, top) BY <1>4, <3>3, <3>4, <3>5, <3>6, InSpan
        <3> QED BY <3>3, <3>7
    <2> QED BY <2>1, <2>2
<1> QED
    BY <1>8 DEF waiting_spans

\* The trim keeps what lies past everything on disk when the process began.
LEMMA SpansOpen ==
    ASSUME Types, HasBound(Captured), Waiting # {}, NEW x \in Nat, NEW top \in Nat, x <= top,
           \A f \in Captured : f < x
    PROVE  x \in waiting_spans(top)
<1>1. Waiting \subseteq Segments /\ Len(segs) \in Nat
    BY DEF Waiting, In, Types
<1>2. \A j \in Segments : j \in Nat /\ First(j) \in Nat /\ First(j) \in Captured /\ Last(segs[j].frames) \in Nat
                          /\ j <= Len(segs)
    BY FrameFacts
<1> DEFINE k == Max(Waiting)
<1>3. k \in Waiting /\ k \in Nat /\ \A j \in Waiting : j <= k
    <2>1. Waiting \subseteq Nat /\ \A j \in Waiting : j <= Len(segs) BY <1>1, <1>2
    <2> QED BY <1>1, <2>1, MaxOf
<1> HIDE DEF k
<1>4. Slack \in Nat /\ Slack > 0
    BY FrameLogAssumption
<1> DEFINE F == {First(j) : j \in {j \in Waiting : j <= k}}
<1>5. Minus(Max(F), Slack) \in Nat /\ Minus(Max(F), Slack) <= x
    <2>1. F \subseteq Nat /\ F # {} BY <1>1, <1>2, <1>3
    <2>2. \A y \in F : y <= x
        <3>1. \A j \in Waiting : First(j) <= x BY <1>1, <1>2
        <3> QED BY <3>1
    <2> HIDE DEF F
    <2>3. Max(F) \in F /\ Max(F) \in Nat BY <2>1, <2>2, MaxOf
    <2> QED BY <1>4, <2>2, <2>3 DEF Minus
<1>6. ~Bounded(k, Waiting)
    <2>1. \A j \in Waiting : j \in Nat BY <1>1, <1>2
    <2>2. \A j \in Waiting : ~(j > k) BY <1>3, <2>1
    <2> QED BY <2>2 DEF Bounded, After
<1>7. SpanOf(k, top) = Minus(Max(F), Slack) .. top
    BY <1>6 DEF SpanOf
<1> HIDE DEF F
<1>8. x \in SpanOf(k, top)
    BY <1>5, <1>7
<1> QED
    BY <1>3, <1>8 DEF waiting_spans

\* trim_after_round cuts the ranges to what waits, which keeps the marks near
\* every frame that does.
LEMMA EndRoundStep ==
    ASSUME Inv, EndRound
    PROVE  Inv'
<1> DEFINE top == Max(mem.ranges \cup {0})
           cut == IF Waiting = {} THEN mem.ranges ELSE mem.ranges \cap waiting_spans(top)
           m == [mem EXCEPT !.phase = "replay", !.ranges = cut]
<1>1. UNCHANGED <<segs, rows, table, unseen, scenario>> /\ Up /\ mem.phase = "fold" /\ mem.folding = {}
      /\ \/ mem' = m /\ m.ranges = mem.ranges /\ UNCHANGED <<file, sidecar, crashes>>
         \/ Save(m)
    BY DEF EndRound, world
<1>2. mem \in Memory /\ Memo /\ Types /\ Sorted /\ HasBound(Captured)
    BY <1>1, MemTypes DEF Inv, Disk
<1>3. SameFrames /\ DiskStays /\ Readable' = Readable /\ \A i : Undurable(i)' = Undurable(i)
    BY <1>1, Still
<1>4. top \in Nat /\ \A x \in mem.ranges : x \in Nat /\ x <= top
    <2>1. PICK n \in Nat : \A x \in mem.ranges : x <= n BY <1>2 DEF Memo, Marks, HasBound
    <2>2. mem.ranges \subseteq Nat BY <1>2 DEF Memory
    <2>3. \A x \in mem.ranges \cup {0} : x <= n BY <2>1
    <2>4. mem.ranges \cup {0} \subseteq Nat /\ mem.ranges \cup {0} # {} BY <2>2
    <2>5. top \in Nat /\ \A x \in mem.ranges \cup {0} : x <= top BY <2>3, <2>4, MaxOf
    <2> QED BY <2>2, <2>5
<1> HIDE DEF top
<1>5. cut \subseteq mem.ranges
    OBVIOUS
<1>6. ASSUME NEW i \in Readable, NEW f \in Undurable(i), Near(i, f) \subseteq mem.ranges PROVE Near(i, f) \subseteq cut
    <2>1. i \in Waiting /\ f \in FramesIn(i) BY DEF Waiting, Readable, In, Undurable
    <2>2. \A x \in Near(i, f) : x \in waiting_spans(top) BY <1>2, <1>4, <1>6, <2>1, SpansCover
    <2> QED BY <1>6, <2>1, <2>2
<1>7. \A x \in mem.ranges : x > mem.own_floor => x \in cut
    <2> SUFFICES ASSUME NEW x \in mem.ranges, x > mem.own_floor, Waiting # {} PROVE x \in waiting_spans(top)
        OBVIOUS
    <2>1. \A f \in Captured : f < mem.own_floor /\ f \in Nat
        <3>1. \A f \in Captured : f < mem.own_floor BY <1>1, <1>2 DEF Memo, OwnSegments
        <3>2. Captured \subseteq Nat BY <1>2, FrameFacts DEF Captured, FramesOf, FramesIn
        <3> QED BY <3>1, <3>2
    <2>2. mem.own_floor \in Nat BY <1>2 DEF Memory
    <2>3. x \in Nat /\ x <= top BY <1>4
    <2>4. \A f \in Captured : f < x BY <2>1, <2>2, <2>3
    <2> QED BY <1>2, <1>4, <2>3, <2>4, SpansOpen
<1> HIDE DEF cut
<1>8. /\ m \in Memory /\ m.ranges = cut /\ m.phase = "replay" /\ m.parked_confirm = mem.parked_confirm
      /\ m.buckets = mem.buckets /\ (mem' = m => SameButRanges)
    BY <1>2, <1>5, ZenonT(60) DEF Memory, Phases, SameButRanges
<1> HIDE DEF m
<1>9. HasBound(m.ranges)
    BY <1>2, <1>5, <1>8 DEF Memo, Marks, HasBound
<1>10. ASSUME mem' = m PROVE Memo'
    <2>1. SameButRanges /\ ConfirmsKept /\ HasBound(mem'.ranges)
        BY <1>8, <1>9, <1>10 DEF ConfirmsKept
    <2>2. \A i \in Readable' : \A f \in Undurable(i) :
                 /\ i \in Readable
                 /\ Bucket(f) \in mem.buckets => Bucket(f) \in mem'.buckets
                 /\ Near(i, f) \subseteq mem.ranges => Near(i, f) \subseteq mem'.ranges
        BY <1>3, <1>6, <1>8, <1>10
    <2>3. Marks' /\ InRing' /\ InRescue' /\ AllSafe'
        BY <1>1, <1>2, <1>3, <2>1, <2>2, RangesChange
    <2>4. Batches' /\ Episode'
        BY <1>1, <1>2, <1>3, <1>7, <1>8, <1>10, <2>1, RangesRest
    <2>5. OwnSegments'
        BY <1>1, <1>2, <1>3, <1>8, <1>10, <2>1, OwnPhase, OwnKept DEF SameButRanges
    <2> QED BY <1>8, <1>10, <2>3, <2>4, <2>5 DEF Memo, Staged, Drained
<1>11. CASE mem' = m /\ m.ranges = mem.ranges /\ UNCHANGED <<file, sidecar, crashes>>
    <2>1. Memo' /\ mem' \in Memory /\ mem'.ranges = mem.ranges BY <1>8, <1>10, <1>11
    <2>2. Disk'
        BY <1>1, <1>3, <1>11, <2>1, DiskKept DEF Inv, Disk, Types
    <2>3. mem.durable <= mem'.durable /\ mem'.own_floor = mem.own_floor
        BY <1>2, <1>8, <1>11 DEF SameButRanges, Memory
    <2> QED BY <1>1, <1>2, <1>3, <1>11, <2>1, <2>2, <2>3, Unsaved
<1>12. CASE Save(m)
    BY <1>1, <1>2, <1>3, <1>8, <1>9, <1>10, <1>12, SaveKeeps DEF Types
<1> QED
    BY <1>1, <1>11, <1>12

-----------------------------------------------------------------------------
(* A frame is captured.                                                    *)

\* A captured frame is at the end of the last segment, which is new or open.
LEMMA Appended ==
    ASSUME Types, OwnSegments, NEW s \in Nat, NEW rotate \in BOOLEAN, ~mem.opened => rotate,
           segs' = IF rotate THEN Append(segs, [frames |-> <<s>>, at |-> "live"])
                   ELSE [segs EXCEPT ![Len(segs)].frames = Append(@, s)]
    PROVE  \E n \in Nat :
            /\ n = Len(segs') /\ segs' \in Seq(Segment) /\ n > 0
            /\ Segments' = Segments \cup {n}
            /\ (\A i \in Segments : i <= n)
            /\ (\A i \in Segments : i # n => segs'[i] = segs[i])
            /\ segs'[n].at = "live" /\ segs'[n].frames # <<>>
            /\ (n \in Segments => mem.opened /\ n = Len(segs) /\ segs[n].at = "live")
            /\ Range(segs'[n].frames) = (IF n \notin Segments THEN {} ELSE FramesIn(n)) \cup {s}
            /\ Head(segs'[n].frames) = (IF n \notin Segments THEN s ELSE First(n))
            /\ Last(segs'[n].frames) = s
<1>1. Segments = 1 .. Len(segs) /\ Len(segs) \in Nat /\ segs \in Seq(Segment)
    BY DEF Segments, Types
<1>2. CASE rotate
    <2> DEFINE e == [frames |-> <<s>>, at |-> "live"]
    <2>1. e \in Segment /\ e.frames = <<s>> /\ e.at = "live" BY DEF Segment, Folders
    <2>2. segs' = Append(segs, e) BY <1>2
    <2> HIDE DEF e
    <2>3. segs' \in Seq(Segment) /\ Len(segs') = Len(segs) + 1 /\ segs'[Len(segs) + 1] = e
          /\ (\A i \in 1 .. Len(segs) : segs'[i] = segs[i]) /\ DOMAIN segs' = 1 .. Len(segs) + 1
        BY <1>1, <2>1, <2>2
    <2>4. Range(<<s>>) = {s} /\ Head(<<s>>) = s /\ Last(<<s>>) = s /\ <<s>> # <<>>
        BY DEF Range, Last
    <2>5. Len(segs') \notin Segments BY <1>1, <2>3
    <2>6. Segments' = Segments \cup {Len(segs')}
        <3>1. Segments' = 1 .. Len(segs) + 1 BY <2>3 DEF Segments
        <3>2. 1 .. Len(segs) + 1 = (1 .. Len(segs)) \cup {Len(segs) + 1} BY <1>1
        <3> QED BY <1>1, <2>3, <3>1, <3>2
    <2>7. PICK n \in Nat : n = Len(segs) + 1 BY <1>1
    <2>8. n = Len(segs') /\ segs'[n] = e /\ n \notin Segments BY <2>3, <2>5, <2>7
    <2>9. \A i \in Segments : i <= n /\ segs'[i] = segs[i] BY <1>1, <2>3, <2>7
    <2>10. n > 0 /\ segs' \in Seq(Segment) BY <1>1, <2>3, <2>7
    <2> QED BY <2>1, <2>4, <2>6, <2>8, <2>9, <2>10
<1>3. CASE ~rotate
    <2>0. PICK L \in Nat : L = Len(segs) BY <1>1
    <2>1. mem.opened /\ L > 0 /\ L \in Segments /\ segs[L].at = "live"
        BY <1>1, <1>3, <2>0 DEF OwnSegments
    <2>2. segs[L] \in Segment /\ segs[L].frames \in Seq(Nat) /\ segs[L].frames # <<>>
        <3>1. segs[L] \in Segment BY <1>1, <2>1
        <3> QED BY <2>1, <3>1, FrameFacts DEF Types
    <2>3. PICK q \in Seq(Nat) : q = segs[L].frames BY <2>2
    <2>4. /\ Append(q, s) \in Seq(Nat) /\ Range(Append(q, s)) = Range(q) \cup {s} /\ Head(Append(q, s)) = Head(q)
          /\ Last(Append(q, s)) = s /\ Append(q, s) # <<>>
        <3>1. q # <<>> BY <2>2, <2>3
        <3>2. Len(q) \in Nat /\ Len(q) > 0 /\ Len(Append(q, s)) = Len(q) + 1 /\ Append(q, s) \in Seq(Nat)
              /\ Append(q, s)[Len(q) + 1] = s /\ (\A i \in 1 .. Len(q) : Append(q, s)[i] = q[i])
              /\ DOMAIN q = 1 .. Len(q) /\ DOMAIN Append(q, s) = 1 .. Len(q) + 1
            BY <3>1
        <3>3. Range(Append(q, s)) = Range(q) \cup {s}
            <4>1. PICK r : r = Append(q, s) OBVIOUS
            <4>2. DOMAIN r = 1 .. Len(q) + 1 /\ r[Len(q) + 1] = s /\ \A i \in 1 .. Len(q) : r[i] = q[i] BY <3>2, <4>1
            <4>3. \A i \in 1 .. Len(q) + 1 : i \in 1 .. Len(q) \/ i = Len(q) + 1 BY <3>2
            <4>4. (\A i \in 1 .. Len(q) : i \in 1 .. Len(q) + 1) /\ Len(q) + 1 \in 1 .. Len(q) + 1 BY <3>2
            <4>5. \A y : (\E i \in DOMAIN r : y = r[i]) <=> (\E i \in DOMAIN q : y = q[i]) \/ y = s
                BY <3>2, <4>2, <4>3, <4>4
            <4>6. \A y : (y \in Range(r) <=> \E i \in DOMAIN r : y = r[i]) /\ (y \in Range(q) <=> \E i \in DOMAIN q : y = q[i])
                BY DEF Range
            <4>7. \A y : y \in Range(r) <=> y \in Range(q) \cup {s} BY <4>5, <4>6
            <4>8. Range(r) = Range(q) \cup {s} BY <4>7
            <4> QED BY <4>1, <4>8
        <3> QED BY <3>1, <3>2, <3>3 DEF Last
    <2>5. PICK e \in Segment : e = [segs[L] EXCEPT !.frames = Append(q, s)] /\ e.frames = Append(q, s) /\ e.at = "live"
        <3>1. [segs[L] EXCEPT !.frames = Append(q, s)] \in Segment
              /\ [segs[L] EXCEPT !.frames = Append(q, s)].frames = Append(q, s)
              /\ [segs[L] EXCEPT !.frames = Append(q, s)].at = "live"
            BY <2>1, <2>2, <2>4 DEF Segment
        <3> QED BY <3>1
    <2>6. segs' = [segs EXCEPT ![L] = e] BY <1>3, <2>0, <2>3, <2>5
    <2>7. segs' \in Seq(Segment) /\ Len(segs') = L /\ segs'[L] = e /\ DOMAIN segs' = DOMAIN segs
          /\ \A i \in Segments : i # L => segs'[i] = segs[i]
        <3>1. L \in 1 .. Len(segs) BY <1>1, <2>1
        <3>1a. [segs EXCEPT ![L] = e] \in Seq(Segment) BY <1>1, <3>1
        <3>1b. Len([segs EXCEPT ![L] = e]) = Len(segs) BY <1>1, <3>1
        <3>2. segs' \in Seq(Segment) /\ Len(segs') = Len(segs) BY <2>6, <3>1a, <3>1b
        <3>3. DOMAIN segs' = DOMAIN segs /\ segs'[L] = e /\ \A i \in DOMAIN segs : i # L => segs'[i] = segs[i]
            BY <2>1, <2>6 DEF Segments
        <3> QED BY <2>0, <3>2, <3>3 DEF Segments
    <2>8. Segments' = Segments \cup {L} /\ \A i \in Segments : i <= L
        <3>1. Segments' = Segments BY <2>7 DEF Segments
        <3> QED BY <1>1, <2>0, <2>1, <3>1
    <2>9. Range(segs'[L].frames) = FramesIn(L) \cup {s} /\ Head(segs'[L].frames) = First(L)
          /\ Last(segs'[L].frames) = s /\ segs'[L].frames # <<>> /\ segs'[L].at = "live"
        BY <2>3, <2>4, <2>5, <2>7 DEF FramesIn, First
    <2> QED BY <2>0, <2>1, <2>7, <2>8, <2>9
<1> QED
    BY <1>2, <1>3

\* The memory after a capture: the frame is in the ring, or in a bucket if shed.
LEMMA CaptureFields ==
    ASSUME mem \in Memory, NEW s \in Nat, NEW shed \in BOOLEAN,
           mem' = [mem EXCEPT !.top = Larger(@, s), !.opened = TRUE,
                              !.ring = IF shed THEN @ ELSE @ \cup {s},
                              !.buckets = IF shed THEN @ \cup {Bucket(s)} ELSE @]
    PROVE  /\ mem' \in Memory
           /\ \A k \in {"phase", "boot_frame_high", "own_floor", "boot_hwm", "rescue", "parked_confirm",
                        "hwm", "sample", "durable", "ranges", "suspect", "lag_only", "parked", "healthy", "probe",
                        "staged", "folding", "batches"} : mem'[k] = mem[k]
           /\ mem'.top = Larger(mem.top, s) /\ mem'.opened = TRUE
           /\ mem.buckets \subseteq mem'.buckets /\ mem.ring \subseteq mem'.ring /\ mem'.ring \subseteq mem.ring \cup {s}
           /\ s \in mem'.ring \/ Bucket(s) \in mem'.buckets
<1>1. Larger(mem.top, s) \in Nat /\ Bucket(s) \in Nat
    BY BucketFacts DEF Memory, Larger
<1>2. PICK r \in SUBSET Nat, b \in SUBSET Nat :
        /\ r = (IF shed THEN mem.ring ELSE mem.ring \cup {s}) /\ b = (IF shed THEN mem.buckets \cup {Bucket(s)} ELSE mem.buckets)
    <2>1. mem.ring \subseteq Nat /\ mem.buckets \subseteq Nat BY DEF Memory
    <2> QED BY <1>1, <2>1
<1>3. mem.buckets \subseteq b /\ mem.ring \subseteq r /\ r \subseteq mem.ring \cup {s} /\ (s \in r \/ Bucket(s) \in b)
    BY <1>2
<1>4. mem' = [mem EXCEPT !.top = Larger(mem.top, s), !.opened = TRUE, !.ring = r, !.buckets = b]
    BY <1>2
<1>5. mem' \in Memory
    BY <1>1, <1>4, ZenonT(60) DEF Memory
<1>6. mem'.top = Larger(mem.top, s) /\ mem'.opened = TRUE /\ mem'.ring = r /\ mem'.buckets = b
    BY <1>4 DEF Memory
<1>7. \A k \in {"phase", "boot_frame_high", "own_floor", "boot_hwm", "rescue", "parked_confirm",
                 "hwm", "sample", "durable", "ranges", "suspect", "lag_only", "parked", "healthy", "probe",
                 "staged", "folding", "batches"} : mem'[k] = mem[k]
    BY <1>4 DEF Memory
<1> QED
    BY <1>3, <1>5, <1>6, <1>7

\* A frame is captured, less than a slack below the highest one.
LEMMA CaptureStep ==
    ASSUME Inv, Capture
    PROVE  Inv'
<1>1. UNCHANGED <<table, unseen, file, sidecar, crashes, scenario>> /\ Up /\ mem.phase = "live"
    BY DEF Capture
<1>2. mem \in Memory /\ Memo /\ Types /\ Sorted /\ Disk /\ Files /\ Synced
    BY <1>1, MemTypes DEF Inv, Disk
<1>3. PICK s \in ({mem.top + d : d \in scenario.steps} \cup (Minus(mem.top, Slack - 1) .. mem.top - 1)) \ Captured,
           rotate \in BOOLEAN, shed \in BOOLEAN :
        /\ s > mem.own_floor
        /\ ~mem.opened => rotate
        /\ segs' = IF rotate THEN Append(segs, [frames |-> <<s>>, at |-> "live"])
                   ELSE [segs EXCEPT ![Len(segs)].frames = Append(@, s)]
        /\ rows' = [f \in DOMAIN rows \cup {s} |-> IF f = s THEN "none" ELSE rows[f]]
        /\ mem' = [mem EXCEPT !.top = Larger(@, s), !.opened = TRUE,
                              !.ring = IF shed THEN @ ELSE @ \cup {s},
                              !.buckets = IF shed THEN @ \cup {Bucket(s)} ELSE @]
    BY DEF Capture
<1>4. s \in Nat /\ s > 0 /\ mem.top < s + Slack /\ s \notin Captured /\ s \notin DOMAIN rows
    <2>1. mem.top \in Nat /\ mem.own_floor \in Nat /\ Slack \in Nat /\ Slack > 0
        BY <1>2, FrameLogAssumption DEF Memory
    <2>2. scenario.steps \subseteq Nat \ {0}
        BY <1>2, FrameLogAssumption DEF Types, Scenario
    <2>3. ASSUME s \in {mem.top + d : d \in scenario.steps} PROVE s \in Nat /\ mem.top < s + Slack
        <3>1. PICK d \in Nat : d > 0 /\ s = mem.top + d BY <2>2, <2>3
        <3> QED BY <2>1, <3>1
    <2>4. ASSUME s \in Minus(mem.top, Slack - 1) .. mem.top - 1 PROVE s \in Nat /\ mem.top < s + Slack
        <3>1. PICK lo \in Nat : lo = Minus(mem.top, Slack - 1) /\ mem.top < lo + Slack BY <2>1 DEF Minus
        <3>2. PICK up \in Int : up = mem.top - 1 BY <2>1
        <3>3. s \in lo .. up BY <2>4, <3>1, <3>2
        <3>4. s \in Int /\ lo <= s BY <3>2, <3>3
        <3> QED BY <2>1, <3>1, <3>4
    <2>5. s \in Nat /\ mem.top < s + Slack BY <1>3, <2>3, <2>4
    <2>6. s > 0 BY <1>3, <2>1, <2>5
    <2> QED BY <1>2, <2>5, <2>6 DEF Types
<1>5. /\ mem' \in Memory
      /\ \A k \in {"phase", "boot_frame_high", "own_floor", "boot_hwm", "rescue", "parked_confirm",
                   "hwm", "sample", "durable", "ranges", "suspect", "lag_only", "parked", "healthy", "probe",
                   "staged", "folding", "batches"} : mem'[k] = mem[k]
      /\ mem'.top = Larger(mem.top, s) /\ mem'.opened = TRUE
      /\ mem.buckets \subseteq mem'.buckets /\ mem.ring \subseteq mem'.ring /\ mem'.ring \subseteq mem.ring \cup {s}
      /\ s \in mem'.ring \/ Bucket(s) \in mem'.buckets
    BY <1>2, <1>3, <1>4, CaptureFields
<1>5a. /\ mem'.phase = mem.phase /\ mem'.boot_frame_high = mem.boot_frame_high /\ mem'.own_floor = mem.own_floor
       /\ mem'.boot_hwm = mem.boot_hwm /\ mem'.rescue = mem.rescue /\ mem'.parked_confirm = mem.parked_confirm
       /\ mem'.hwm = mem.hwm /\ mem'.sample = mem.sample /\ mem'.durable = mem.durable /\ mem'.ranges = mem.ranges
       /\ mem'.suspect = mem.suspect /\ mem'.lag_only = mem.lag_only /\ mem'.parked = mem.parked
       /\ mem'.healthy = mem.healthy /\ mem'.probe = mem.probe /\ mem'.staged = mem.staged
       /\ mem'.folding = mem.folding /\ mem'.batches = mem.batches
    BY <1>5
<1>6. PICK L \in Nat :
            /\ L = Len(segs') /\ segs' \in Seq(Segment) /\ L > 0
            /\ Segments' = Segments \cup {L}
            /\ (\A i \in Segments : i <= L)
            /\ (\A i \in Segments : i # L => segs'[i] = segs[i])
            /\ segs'[L].at = "live" /\ segs'[L].frames # <<>>
            /\ (L \in Segments => mem.opened /\ L = Len(segs) /\ segs[L].at = "live")
            /\ Range(segs'[L].frames) = (IF L \notin Segments THEN {} ELSE FramesIn(L)) \cup {s}
            /\ Head(segs'[L].frames) = (IF L \notin Segments THEN s ELSE First(L))
            /\ Last(segs'[L].frames) = s
    <2>1. OwnSegments BY <1>2 DEF Memo
    <2> QED BY <1>2, <1>3, <1>4, <2>1, Appended
<1>6a. FramesIn(L)' = (IF L \notin Segments THEN {} ELSE FramesIn(L)) \cup {s}
       /\ First(L)' = (IF L \notin Segments THEN s ELSE First(L)) /\ Last(segs[L].frames)' = s
    BY <1>6 DEF FramesIn, First
<1>7. /\ \A i \in Segments : First(i)' = First(i) /\ FramesIn(i) \subseteq FramesIn(i)' /\ \A f : Near(i, f)' = Near(i, f)
      /\ \A i \in Segments : i # L => FramesIn(i)' = FramesIn(i) /\ Last(segs[i].frames)' = Last(segs[i].frames)
      /\ \A i \in Segments' : \A f \in FramesIn(i)' : \/ i = L /\ f = s
                                                      \/ i \in Segments /\ f \in FramesIn(i)
      /\ Captured' = Captured \cup {s}
    <2>1. \A i \in Segments : First(i)' = First(i) BY <1>6, <1>6a DEF First
    <2>2. \A i \in Segments : i # L => FramesIn(i)' = FramesIn(i) /\ Last(segs[i].frames)' = Last(segs[i].frames)
        BY <1>6, <1>6a DEF FramesIn
    <2>3. \A i \in Segments : FramesIn(i) \subseteq FramesIn(i)' BY <1>6, <1>6a, <2>2
    <2>4. \A i \in Segments : \A f : Near(i, f)' = Near(i, f) BY <2>1 DEF Near
    <2>5. \A i \in Segments' : \A f \in FramesIn(i)' : (i = L /\ f = s) \/ (i \in Segments /\ f \in FramesIn(i))
        BY <1>6, <1>6a, <2>2
    <2>6. (\A i : FramesIn(i) = Range(segs[i].frames)) /\ (\A i : FramesIn(i)' = Range(segs'[i].frames))
        BY DEF FramesIn
    <2>7. \A f : (f \in Captured <=> \E i \in Segments : f \in FramesIn(i))
                 /\ (f \in Captured' <=> \E i \in Segments' : f \in FramesIn(i)')
        BY <2>6 DEF Captured, FramesOf
    <2>8. \A f : f \in Captured' <=> f \in Captured \/ f = s BY <1>6, <1>6a, <2>3, <2>5, <2>7
    <2>9. Captured' = Captured \cup {s} BY <2>8
    <2> QED BY <2>1, <2>2, <2>3, <2>4, <2>5, <2>9
<1>8. /\ DOMAIN rows' = DOMAIN rows \cup {s} /\ rows'[s] = "none"
      /\ \A f \in DOMAIN rows : rows'[f] = rows[f]
    BY <1>3, <1>4
<1>9. /\ \A f \in Captured : f \in Nat /\ f <= mem.top
      /\ mem.top \in Nat /\ mem.hwm \in Nat /\ mem.own_floor \in Nat /\ Slack \in Nat /\ Slack > 0
      /\ mem'.top \in Nat /\ mem.top <= mem'.top /\ s <= mem'.top
    <2>1. Captured \subseteq Nat BY <1>2, FrameFacts DEF Captured, FramesOf, FramesIn
    <2>2. mem.top \in Nat /\ mem.hwm \in Nat /\ mem.own_floor \in Nat BY <1>2 DEF Memory
    <2>3. mem'.top \in Nat /\ mem.top <= mem'.top /\ s <= mem'.top BY <1>4, <1>5, <2>2 DEF Larger
    <2> QED BY <1>2, <2>1, <2>2, <2>3, FrameLogAssumption DEF Memo, Marks
<1>10. Types'
    <2>1. \A i \in Segments' : segs'[i].frames # <<>>
        <3>1. \A i \in Segments : segs[i].frames # <<>> BY <1>2 DEF Types
        <3> QED BY <1>6, <1>6a, <3>1
    <2>2. DOMAIN rows' = Captured' BY <1>2, <1>7, <1>8 DEF Types
    <2>3. \A f \in DOMAIN rows' : f > 0 /\ rows'[f] \in Kinds
        BY <1>2, <1>4, <1>8 DEF Types, Kinds
    <2> QED BY <1>1, <1>2, <1>5, <1>6, <1>6a, <2>1, <2>2, <2>3 DEF Types
<1>11. Sorted'
    <2>1. ASSUME NEW i \in Segments', NEW f \in FramesIn(i)'
          PROVE  First(i)' < f + Slack /\ f < Last(segs[i].frames)' + Slack
        <3>1. i \in Segments => First(i) \in Captured /\ FramesIn(i) \subseteq Captured BY <1>2, FrameFacts
        <3>2. CASE i = L /\ f = s
            <4>1. First(i)' = s \/ (i \in Segments /\ First(i)' = First(i)) BY <1>6, <1>6a, <3>2
            <4>2. First(i)' < s + Slack BY <1>4, <1>9, <3>1, <4>1
            <4> QED BY <1>4, <1>6, <1>6a, <1>9, <3>2, <4>2
        <3>3. CASE i \in Segments /\ f \in FramesIn(i)
            <4>1. First(i) < f + Slack /\ f < Last(segs[i].frames) + Slack BY <1>2, <3>3 DEF Sorted
            <4>2. CASE i = L BY <1>4, <1>6, <1>6a, <1>7, <1>9, <3>1, <3>3, <4>1, <4>2
            <4>3. CASE i # L BY <1>7, <3>3, <4>1, <4>3
            <4> QED BY <4>2, <4>3
        <3> QED BY <1>7, <3>2, <3>3
    <2>2. ASSUME NEW i \in Segments', NEW j \in Segments', i < j, NEW f \in FramesIn(i)', NEW g \in FramesIn(j)'
          PROVE  f < g + Slack
        <3>0. \A k \in Segments : k \in Nat BY <1>2, FrameFacts
        <3>1. i # L BY <1>6, <1>6a, <2>2, <3>0
        <3>2. i \in Segments /\ f \in FramesIn(i) BY <1>7, <3>1
        <3>3. f \in Captured BY <1>2, <3>2, FrameFacts
        <3>4. CASE g = s BY <1>4, <1>9, <3>3, <3>4
        <3>5. CASE j \in Segments /\ g \in FramesIn(j) BY <1>2, <2>2, <3>2, <3>5 DEF Sorted
        <3> QED BY <1>7, <3>4, <3>5
    <2> QED BY <2>1, <2>2 DEF Sorted
<1>12. Retired'
    <2> SUFFICES ASSUME NEW f \in FramesOf(In({"archive", "gone"}))' PROVE rows'[f] = "disk"
        BY DEF Retired
    <2>1. PICK i \in Segments' : segs'[i].at \in {"archive", "gone"} /\ f \in FramesIn(i)'
        BY DEF FramesOf, In, FramesIn
    <2>2. i # L BY <1>6, <1>6a, <2>1
    <2>3. i \in Segments /\ f \in FramesIn(i) /\ segs[i].at \in {"archive", "gone"} BY <1>6, <1>6a, <1>7, <2>1, <2>2
    <2>4. f \in DOMAIN rows BY <1>2, <2>3, FrameFacts
    <2>5. rows[f] = "disk" BY <1>2, <2>3 DEF Disk, Retired, FramesOf, In, FramesIn
    <2> QED BY <1>8, <2>4, <2>5
<1>13. HasBound(Captured)'
    <2>1. \A f \in Captured' : f <= mem'.top BY <1>4, <1>7, <1>9
    <2> QED BY <1>9, <2>1 DEF HasBound
<1>14. ASSUME NEW i \in Readable', NEW f \in Undurable(i)'
       PROVE  \/ i = L /\ f = s
              \/ i \in Segments /\ i \in Readable /\ f \in Undurable(i) /\ f \in DOMAIN rows /\ f \in FramesIn(i)
    <2>1. i \in Segments' /\ segs'[i].at \in {"live", "replaying"} /\ f \in FramesIn(i)' /\ rows'[f] # "disk"
        BY DEF Readable, In, Undurable
    <2>2. CASE i \in Segments /\ f \in FramesIn(i)
        <3>1. f \in DOMAIN rows BY <1>2, <2>2, FrameFacts
        <3>2. segs[i].at \in {"live", "replaying"} BY <1>6, <1>6a, <2>1, <2>2
        <3> QED BY <1>8, <2>1, <2>2, <3>1, <3>2 DEF Readable, In, Undurable
    <2> QED BY <1>7, <2>1, <2>2
<1>15. Files'
    <2>1. Honest(file)'
        <3> SUFFICES ASSUME NEW i \in Readable', NEW f \in Undurable(i)'
                     PROVE  file'.hwm < f + Slack \/ MarkedIn(file.buckets, file.ranges, i, f)'
            BY DEF Honest
        <3>1. CASE i = L /\ f = s
            <4>1. file.hwm <= mem.durable /\ mem.durable <= mem.hwm /\ mem.hwm <= mem.top
                  /\ mem.durable \in Nat /\ file.hwm \in Nat
                BY <1>2 DEF Synced, Memo, Marks, Memory, Types, File
            <4> QED BY <1>1, <1>4, <1>9, <3>1, <4>1
        <3>2. CASE i \in Segments /\ i \in Readable /\ f \in Undurable(i)
            <4>1. file.hwm < f + Slack \/ MarkedIn(file.buckets, file.ranges, i, f)
                BY <1>2, <3>2 DEF Files, Honest
            <4>2. Near(i, f)' = Near(i, f) BY <1>7, <3>2
            <4> QED BY <1>1, <4>1, <4>2 DEF MarkedIn
        <3> QED BY <1>14, <3>1, <3>2
    <2>2. Encodes(file)'
        <3>1. s \in Captured' BY <1>7
        <3>2. mem.own_floor \in 0 .. s + 1 BY <1>3, <1>4, <1>9
        <3>3. mem.own_floor \notin Captured' BY <1>2, <1>3, <1>4, <1>7, <1>9 DEF Memo, Marks
        <3>4. \A x \in file'.ranges : x # mem.own_floor => Bucket(x) \in file'.encoded
            BY <1>1, <1>2 DEF Synced
        <3> QED BY <3>1, <3>2, <3>3, <3>4 DEF Encodes
    <2> QED BY <1>1, <1>2, <2>1, <2>2 DEF Files, HasBound
<1>16. Marks'
    <2>1. \A f \in Captured' : f <= mem'.top /\ f # mem'.own_floor
        BY <1>2, <1>3, <1>4, <1>5a, <1>7, <1>9 DEF Memo, Marks
    <2>2. mem'.hwm <= mem'.top /\ mem'.parked <= mem'.top /\ mem'.own_floor <= mem'.top
          /\ \A p \in mem'.parked_confirm : p.parked <= mem'.top
        <3>1. mem.parked \in Nat /\ \A p \in mem.parked_confirm : p.parked \in Nat BY <1>2 DEF Memory, Confirm
        <3> QED BY <1>2, <1>5a, <1>9, <3>1 DEF Memo, Marks
    <2>3. (\E x \in Captured' : mem'.own_floor <= x + 1) \/ mem'.own_floor = mem'.boot_hwm + 1
        BY <1>2, <1>5a, <1>7 DEF Memo, Marks
    <2>4. HasBound(mem'.ranges) BY <1>2, <1>5a DEF Memo, Marks, HasBound
    <2> QED BY <1>2, <1>5a, <2>1, <2>2, <2>3, <2>4 DEF Memo, Marks, HasBound
<1>17. OwnSegments'
    <2>1. L \in Segments => First(L) > mem.own_floor BY <1>2, <1>6, <1>6a DEF Memo, OwnSegments
    <2>2. First(L)' > mem'.own_floor BY <1>3, <1>5a, <1>6, <1>6a, <2>1
    <2>3. ASSUME NEW i \in Segments', NEW f \in FramesIn(i)' PROVE f > mem'.own_floor <=> First(i)' > mem'.own_floor
        <3>1. CASE i = L /\ f = s BY <1>3, <1>5a, <2>2, <3>1
        <3>2. CASE i \in Segments /\ f \in FramesIn(i) BY <1>2, <1>5a, <1>7, <3>2 DEF Memo, OwnSegments
        <3> QED BY <1>7, <3>1, <3>2
    <2>4. First(Len(segs))' = First(L)' BY <1>6, <1>6a DEF First
    <2> QED BY <1>1, <1>5a, <1>6, <1>6a, <2>2, <2>3, <2>4 DEF OwnSegments
<1>18. InRing'
    <2> SUFFICES ASSUME NEW f \in mem'.ring
                 PROVE  f \in Captured' /\ rows'[f] = "none" /\ f > mem'.own_floor /\ Ahead(f)'
        BY DEF InRing
    <2>1. CASE f = s
        <3>1. /\ mem.hwm < s + Slack /\ mem.parked < s + Slack /\ mem.sample < s + Slack /\ mem.durable < s + Slack
              /\ mem.healthy < s + Slack /\ \A p \in mem.parked_confirm : p.parked < s + Slack
            <4>1. /\ mem.parked \in Nat /\ mem.sample \in Nat /\ mem.durable \in Nat /\ mem.healthy \in Nat
                  /\ \A p \in mem.parked_confirm : p.parked \in Nat
                BY <1>2 DEF Memory, Confirm
            <4> QED BY <1>2, <1>4, <1>9, <4>1 DEF Memo, Marks
        <3>2. Ahead(f)' BY <1>5a, <2>1, <3>1 DEF Ahead
        <3> QED BY <1>3, <1>5a, <1>7, <1>8, <2>1, <3>2
    <2>2. CASE f \in mem.ring
        <3>1. f \in Captured /\ rows[f] = "none" /\ f > mem.own_floor /\ Ahead(f) /\ f \in DOMAIN rows
            BY <1>2, <2>2 DEF Memo, InRing, Types
        <3>2. Ahead(f)' BY <1>5a, <3>1 DEF Ahead
        <3> QED BY <1>5a, <1>7, <1>8, <3>1, <3>2
    <2> QED BY <1>5, <2>1, <2>2
<1>19. InRescue'
    BY <1>2, <1>4, <1>5, <1>5a, <1>7 DEF Memo, InRescue
<1>20. AllSafe'
    <2> SUFFICES ASSUME NEW i \in Readable', NEW f \in Undurable(i)' PROVE Safe(i, f)'
        BY DEF AllSafe
    <2>1. CASE i = L /\ f = s BY <1>5, <2>1 DEF Safe
    <2>2. CASE i \in Segments /\ i \in Readable /\ f \in Undurable(i) /\ f \in DOMAIN rows
        <3>1. Safe(i, f) BY <1>2, <2>2 DEF Memo, AllSafe
        <3>2. rows'[f] = rows[f] /\ Near(i, f)' = Near(i, f) BY <1>7, <1>8, <2>2
        <3>3. CASE Kept(i, f)
            BY <1>1, <1>5a, <3>2, <3>3 DEF Kept, Stuck, CleanComing, Safe
        <3>4. CASE Young(f) BY <1>5a, <3>2, <3>4 DEF Young, Safe
        <3>5. CASE Unnoticed(f) BY <1>1, <1>5a, <3>2, <3>5 DEF Unnoticed, Safe
        <3>6. CASE Suspected(f) BY <1>1, <1>5a, <3>2, <3>6 DEF Suspected, Safe
        <3> QED BY <1>5, <1>5a, <3>1, <3>3, <3>4, <3>5, <3>6 DEF Safe
    <2> QED BY <1>14, <2>1, <2>2
<1>21. Batches'
    <2>1. ASSUME NEW b \in mem.batches \cup mem.folding
          PROVE  b.seg \in Segments' /\ segs'[b.seg] = segs[b.seg] /\ Settled(b)'
        <3>1. b.seg \in Segments /\ Settled(b) /\ segs[b.seg].at \in {"settling", "replaying"}
            BY <1>2 DEF Memo, Batches
        <3>2. b.seg # L BY <1>6, <1>6a, <3>1
        <3>3. FramesIn(b.seg)' = FramesIn(b.seg) /\ segs'[b.seg] = segs[b.seg] BY <1>6, <1>6a, <1>7, <3>1, <3>2
        <3>4. \A f \in FramesIn(b.seg) : rows'[f] = rows[f] BY <1>2, <1>8, <3>1, FrameFacts
        <3>5. Settled(b)' BY <1>1, <1>5a, <3>1, <3>3, <3>4 DEF Settled, CleanComing
        <3> QED BY <1>6, <1>6a, <3>1, <3>3, <3>5
    <2> QED BY <1>2, <1>5a, <2>1 DEF Memo, Batches
<1>22. Episode' /\ Staged' /\ Drained'
    BY <1>1, <1>2, <1>5a DEF Memo, Episode, Staged, Drained
<1>23. Synced'
    BY <1>1, <1>2, <1>5a DEF Synced
<1> QED
    BY <1>10, <1>11, <1>12, <1>13, <1>15, <1>16, <1>17, <1>18, <1>19, <1>20, <1>21, <1>22, <1>23 DEF Inv, Disk, Memo

-----------------------------------------------------------------------------
(* The memory a process boots with.                                        *)

\* A product grows with its factor.
LEMMA TimesMonotone ==
    ASSUME NEW a \in Nat, NEW b \in Nat, NEW c \in Nat, a <= b
    PROVE  a * c <= b * c
<1>1. PICK d \in Nat : b = a + d
    <2>1. b - a \in Nat /\ b = a + (b - a) OBVIOUS
    <2> QED BY <2>1
<1>2. b * c = a * c + d * c /\ d * c \in Nat /\ a * c \in Nat BY <1>1, SMT
<1> QED BY <1>2

\* A folded bucket covers everything near each of its frames.
LEMMA FoldedFacts ==
    ASSUME NEW b \in Nat
    PROVE  /\ FoldedBucket(b) \subseteq Nat
           /\ \A n \in Nat : b < Bucket(n) => \A x \in FoldedBucket(b) : x <= n + Slack
           /\ \A f \in Nat, x \in Nat : b = Bucket(f) /\ x > 0 /\ f <= x + Slack /\ x < f + Slack => x \in FoldedBucket(b)
<1>1. Slack \in Nat /\ BucketSize \in Nat
    BY FrameLogAssumption
<1>2. PICK low \in Nat, high \in Nat : low = b * BucketSize /\ high = (b + 1) * BucketSize
    <2>1. b * BucketSize \in Nat /\ (b + 1) * BucketSize \in Nat BY <1>1, SMT
    <2> QED BY <2>1
<1>3. FoldedBucket(b) = Larger(Minus(low, Slack), 1) .. high - 1 + Slack
    BY <1>2 DEF FoldedBucket
<1>4. PICK start \in Nat, end \in Int :
        /\ start = Larger(Minus(low, Slack), 1) /\ end = high - 1 + Slack
        /\ \A x \in Nat : x > 0 /\ low <= x + Slack => start <= x
    <2>1. Larger(Minus(low, Slack), 1) \in Nat /\ high - 1 + Slack \in Int
          /\ \A x \in Nat : x > 0 /\ low <= x + Slack => Larger(Minus(low, Slack), 1) <= x
        BY <1>1, <1>2 DEF Larger, Minus
    <2> QED BY <2>1
<1>5. FoldedBucket(b) = start .. end
    BY <1>3, <1>4
<1>6. FoldedBucket(b) \subseteq Nat
    BY <1>5
<1>7. ASSUME NEW n \in Nat, b < Bucket(n), NEW x \in FoldedBucket(b) PROVE x <= n + Slack
    <2>1. Bucket(n) \in Nat /\ Bucket(n) * BucketSize <= n BY BucketFacts
    <2>2. b + 1 <= Bucket(n) /\ b + 1 \in Nat BY <1>7, <2>1
    <2>3. (b + 1) * BucketSize <= Bucket(n) * BucketSize BY <1>1, <2>1, <2>2, TimesMonotone
    <2>4. PICK k \in Nat : k = Bucket(n) * BucketSize
        <3>1. Bucket(n) * BucketSize \in Nat BY <1>1, <2>1, SMT
        <3> QED BY <3>1
    <2>5. high <= n BY <1>2, <2>1, <2>3, <2>4
    <2>6. x \in Int /\ x <= end BY <1>4, <1>5
    <2> QED BY <1>1, <1>4, <2>5, <2>6
<1>8. ASSUME NEW f \in Nat, NEW x \in Nat, b = Bucket(f), x > 0, f <= x + Slack, x < f + Slack PROVE x \in FoldedBucket(b)
    <2>1. low <= f /\ f <= high - 1 BY <1>2, <1>8, BucketFacts
    <2>2. low <= x + Slack BY <1>1, <1>8, <2>1
    <2>3. start <= x BY <1>4, <1>8, <2>2
    <2>4. x <= end BY <1>1, <1>4, <1>8, <2>1
    <2> QED BY <1>4, <1>5, <2>3, <2>4
<1> QED
    BY <1>6, <1>7, <1>8

\* What new_with_guard makes of the loaded files.
LEMMA BootFacts ==
    ASSUME Disk, Files, NEW m, m = BootMemory(Loaded)
    PROVE  \E high \in Nat, oldest \in Nat :
            /\ high \in Captured \cup {Loaded.hwm} /\ (\A f \in Captured : f <= high) /\ Loaded.hwm <= high
            /\ \A i \in Waiting : \A x \in Nat : x > 0 /\ First(i) <= x + Slack => oldest <= x
            /\ m \in Memory
            /\ m.phase = "boot" /\ m.boot_frame_high = high /\ m.own_floor = high + 1 /\ m.boot_hwm = Loaded.hwm
            /\ m.top = high + 1 /\ m.opened = FALSE /\ m.ring = {} /\ m.rescue = {}
            /\ m.hwm = Loaded.hwm /\ m.sample = Loaded.hwm /\ m.durable = Loaded.hwm
            /\ m.buckets = {b \in Loaded.buckets : ~(b < Bucket(high + 1))}
            /\ m.ranges = Loaded.ranges \cup (Larger(boot_range_floor(Loaded.hwm), oldest) .. high + 1)
                          \cup UNION {FoldedBucket(b) : b \in {b \in Loaded.buckets : b < Bucket(high + 1)}}
            /\ m.suspect = FALSE /\ m.lag_only = FALSE /\ m.parked = 0 /\ m.healthy = Loaded.hwm
            /\ m.probe = {} /\ m.parked_confirm = {} /\ m.staged = {} /\ m.folding = {} /\ m.batches = {}
<1>0. Types /\ Sorted /\ HasBound(Captured)
    BY DEF Disk
<1>1. Loaded.hwm \in Nat /\ Loaded.ranges \subseteq Nat /\ Loaded.buckets \subseteq Nat
    BY <1>0, LoadedTypes
<1>2. Captured \subseteq Nat
    BY <1>0, FrameFacts DEF Captured, FramesOf, FramesIn
<1>3. PICK high \in Nat : /\ high = Max(Captured \cup {Loaded.hwm}) /\ high \in Captured \cup {Loaded.hwm}
                          /\ (\A f \in Captured : f <= high) /\ Loaded.hwm <= high
    <2> DEFINE S == Captured \cup {Loaded.hwm}
    <2>1. S \subseteq Nat /\ S # {} BY <1>1, <1>2
    <2>2. PICK n \in Nat : \A f \in Captured : f <= n BY <1>0 DEF HasBound
    <2>3. n + Loaded.hwm \in Nat /\ \A y \in S : y <= n + Loaded.hwm BY <1>1, <1>2, <2>2
    <2>4. \A f \in Captured : f \in S OBVIOUS
    <2>5. Loaded.hwm \in S OBVIOUS
    <2> HIDE DEF S
    <2>6. Max(S) \in S /\ Max(S) \in Nat /\ \A y \in S : y <= Max(S) BY <2>1, <2>3, MaxOf
    <2> QED BY <2>4, <2>5, <2>6 DEF S
<1>4. PICK oldest \in Nat :
        /\ oldest = (IF Waiting = {} THEN 1 ELSE Larger(Minus(Min({First(i) : i \in Waiting}), Slack), 1))
        /\ \A i \in Waiting : \A x \in Nat : x > 0 /\ First(i) <= x + Slack => oldest <= x
    <2>1. CASE Waiting = {} BY <2>1
    <2>2. CASE Waiting # {}
        <3> DEFINE F == {First(i) : i \in Waiting}
        <3>1. F \subseteq Nat /\ F # {} BY <1>0, <2>2, FrameFacts DEF Waiting, In
        <3>2. \A i \in Waiting : First(i) \in F OBVIOUS
        <3> HIDE DEF F
        <3>3. PICK least \in Nat : least = Min(F) /\ \A y \in F : least <= y BY <3>1, MinOf
        <3>4. PICK o \in Nat : o = Larger(Minus(least, Slack), 1) /\ \A x \in Nat : x > 0 /\ least <= x + Slack => o <= x
            <4>1. Larger(Minus(least, Slack), 1) \in Nat
                  /\ \A x \in Nat : x > 0 /\ least <= x + Slack => Larger(Minus(least, Slack), 1) <= x
                BY FrameLogAssumption DEF Larger, Minus
            <4> QED BY <4>1
        <3>5. ASSUME NEW i \in Waiting, NEW x \in Nat, x > 0, First(i) <= x + Slack PROVE o <= x
            <4>1. First(i) \in Nat /\ least <= First(i) BY <3>1, <3>2, <3>3
            <4>2. least <= x + Slack BY <3>5, <4>1, FrameLogAssumption
            <4> QED BY <3>4, <3>5, <4>2
        <3> QED BY <2>2, <3>3, <3>4, <3>5 DEF F
    <2> QED BY <2>1, <2>2
<1>5. PICK tail \in SUBSET Nat : tail = Larger(boot_range_floor(Loaded.hwm), oldest) .. high + 1
    <2>1. Larger(boot_range_floor(Loaded.hwm), oldest) \in Nat
        BY <1>1, FrameLogAssumption DEF Larger, Minus, boot_range_floor
    <2>2. (Larger(boot_range_floor(Loaded.hwm), oldest) .. high + 1) \in SUBSET Nat BY <2>1
    <2> QED BY <2>2
<1>6. PICK folded \in SUBSET Nat : folded = {b \in Loaded.buckets : b < Bucket(high + 1)}
    BY <1>1
<1>7. PICK old \in SUBSET Nat : old = UNION {FoldedBucket(b) : b \in folded}
    <2>1. UNION {FoldedBucket(b) : b \in folded} \in SUBSET Nat BY FoldedFacts
    <2> QED BY <2>1
<1>8. PICK rest \in SUBSET Nat : rest = Loaded.buckets \ folded /\ rest = {b \in Loaded.buckets : ~(b < Bucket(high + 1))}
    BY <1>1, <1>6
<1>9. PICK ranges \in SUBSET Nat : ranges = Loaded.ranges \cup tail \cup old
    BY <1>1
<1>10. m = [phase |-> "boot",
         boot_frame_high |-> high, own_floor |-> high + 1, boot_hwm |-> Loaded.hwm,
         top |-> high + 1, opened |-> FALSE,
         ring |-> {}, rescue |-> {},
         hwm |-> Loaded.hwm, sample |-> Loaded.hwm, durable |-> Loaded.hwm,
         buckets |-> rest,
         ranges |-> ranges,
         suspect |-> FALSE, lag_only |-> FALSE, parked |-> 0,
         healthy |-> Loaded.hwm, probe |-> {}, parked_confirm |-> {},
         staged |-> {}, folding |-> {}, batches |-> {}]
    BY <1>3, <1>4, <1>5, <1>6, <1>7, <1>8, <1>9 DEF BootMemory
<1>11. m \in Memory
    BY <1>1, <1>10 DEF Memory, Phases
<1>12. /\ m.phase = "boot" /\ m.boot_frame_high = high /\ m.own_floor = high + 1 /\ m.boot_hwm = Loaded.hwm
       /\ m.top = high + 1 /\ m.opened = FALSE /\ m.ring = {} /\ m.rescue = {}
       /\ m.hwm = Loaded.hwm /\ m.sample = Loaded.hwm /\ m.durable = Loaded.hwm
       /\ m.buckets = rest /\ m.ranges = ranges
       /\ m.suspect = FALSE /\ m.lag_only = FALSE /\ m.parked = 0 /\ m.healthy = Loaded.hwm
       /\ m.probe = {} /\ m.parked_confirm = {} /\ m.staged = {} /\ m.folding = {} /\ m.batches = {}
    BY <1>10
<1>13. ranges = Loaded.ranges \cup (Larger(boot_range_floor(Loaded.hwm), oldest) .. high + 1)
                \cup UNION {FoldedBucket(b) : b \in {b \in Loaded.buckets : b < Bucket(high + 1)}}
    BY <1>5, <1>6, <1>7, <1>9
<1> QED
    BY <1>3, <1>4, <1>8, <1>11, <1>12, <1>13, ZenonT(60)

\* A boot: every frame an earlier process left is in its bucket, or the range
\* above the loaded watermark and the folded buckets keep it.
LEMMA BootStep ==
    ASSUME Inv, Boot
    PROVE  Inv'
<1>1. UNCHANGED <<segs, rows, table, scenario>> /\ unseen' = 0 /\ Save(BootMemory(Loaded))
    BY DEF Boot
<1>2. Disk /\ Files /\ Types /\ Sorted /\ Honest(file) /\ Encodes(file)
    BY DEF Inv, Disk, Files
<1>3. PICK m : m = BootMemory(Loaded) OBVIOUS
<1>4. PICK high \in Nat, oldest \in Nat :
            /\ high \in Captured \cup {Loaded.hwm} /\ (\A f \in Captured : f <= high) /\ Loaded.hwm <= high
            /\ \A i \in Waiting : \A x \in Nat : x > 0 /\ First(i) <= x + Slack => oldest <= x
            /\ m \in Memory
            /\ m.phase = "boot" /\ m.boot_frame_high = high /\ m.own_floor = high + 1 /\ m.boot_hwm = Loaded.hwm
            /\ m.top = high + 1 /\ m.opened = FALSE /\ m.ring = {} /\ m.rescue = {}
            /\ m.hwm = Loaded.hwm /\ m.sample = Loaded.hwm /\ m.durable = Loaded.hwm
            /\ m.buckets = {b \in Loaded.buckets : ~(b < Bucket(high + 1))}
            /\ m.ranges = Loaded.ranges \cup (Larger(boot_range_floor(Loaded.hwm), oldest) .. high + 1)
                          \cup UNION {FoldedBucket(b) : b \in {b \in Loaded.buckets : b < Bucket(high + 1)}}
            /\ m.suspect = FALSE /\ m.lag_only = FALSE /\ m.parked = 0 /\ m.healthy = Loaded.hwm
            /\ m.probe = {} /\ m.parked_confirm = {} /\ m.staged = {} /\ m.folding = {} /\ m.batches = {}
    BY <1>2, <1>3, BootFacts
<1>5. PICK h \in Nat : h = Loaded.hwm /\ Loaded.ranges \subseteq Nat /\ Loaded.buckets \subseteq Nat
                       /\ Loaded.ranges \in {{}, sidecar}
    BY <1>2, LoadedTypes
<1>6. PICK low \in Nat : /\ low = Larger(boot_range_floor(Loaded.hwm), oldest)
                         /\ \A x \in Nat : x > 0 /\ h < x + Slack + Slack /\ oldest <= x => low <= x
    <2>1. Larger(boot_range_floor(h), oldest) \in Nat
          /\ \A x \in Nat : x > 0 /\ h < x + Slack + Slack /\ oldest <= x => Larger(boot_range_floor(h), oldest) <= x
        BY <1>4, FrameLogAssumption DEF Larger, Minus, boot_range_floor
    <2> QED BY <1>5, <2>1
<1>7. /\ m.ranges = Loaded.ranges \cup (low .. high + 1)
                    \cup UNION {FoldedBucket(b) : b \in {b \in Loaded.buckets : b < Bucket(high + 1)}}
    BY <1>4, <1>6
<1>8. HasBound(m.ranges)
    <2>1. PICK n \in Nat : \A x \in Loaded.ranges : x <= n
        BY <1>2, <1>5 DEF Files, HasBound
    <2>2. ASSUME NEW x \in m.ranges PROVE x <= n + (high + 1) + Slack
        <3>0. x \in Nat /\ Slack \in Nat BY <1>4, FrameLogAssumption DEF Memory
        <3>1. CASE x \in Loaded.ranges BY <2>1, <3>0, <3>1
        <3>2. CASE x \in low .. high + 1 BY <3>0, <3>2
        <3>3. CASE x \in UNION {FoldedBucket(b) : b \in {b \in Loaded.buckets : b < Bucket(high + 1)}}
            <4>1. PICK b \in Loaded.buckets : b < Bucket(high + 1) /\ x \in FoldedBucket(b) BY <3>3
            <4>2. b \in Nat /\ high + 1 \in Nat BY <1>5
            <4>3. x <= (high + 1) + Slack BY <4>1, <4>2, FoldedFacts
            <4> QED BY <3>0, <4>3
        <3> QED BY <1>7, <3>1, <3>2, <3>3
    <2>3. n + (high + 1) + Slack \in Nat BY FrameLogAssumption
    <2> QED BY <2>2, <2>3 DEF HasBound
<1>9. SameFrames /\ DiskStays /\ Readable' = Readable /\ Segments' = Segments /\ Captured' = Captured
      /\ (\A i : Undurable(i)' = Undurable(i) /\ FramesIn(i)' = FramesIn(i)) /\ \A i, f : Near(i, f)' = Near(i, f)
    BY <1>1, Still, FramesKept
<1>10. ASSUME NEW i \in Readable, NEW f \in Undurable(i)
       PROVE  Bucket(f) \in m.buckets \/ Near(i, f) \subseteq m.ranges
    <2>1. i \in Segments /\ f \in FramesIn(i) /\ i \in Waiting BY DEF Readable, In, Undurable, Waiting
    <2>2. f \in Nat /\ First(i) \in Nat /\ f \in Captured /\ First(i) \in Captured /\ Slack \in Nat /\ First(i) < f + Slack
        BY <1>2, <2>1, FrameFacts, FrameLogAssumption DEF Sorted
    <2>3. \A x \in Near(i, f) : /\ x \in Nat /\ x > 0 /\ f <= x + Slack /\ x < f + Slack
                                /\ (f <= x \/ First(i) <= x) /\ (x <= f \/ x <= First(i))
        BY <1>2, <2>1, NearFacts
    <2>4. CASE Loaded.hwm < f + Slack
        <3> SUFFICES ASSUME NEW x \in Near(i, f) PROVE x \in low .. high + 1 BY <1>7
        <3>1. x \in Nat /\ x > 0 /\ f <= x + Slack /\ (f <= x \/ First(i) <= x) /\ (x <= f \/ x <= First(i)) BY <2>3
        <3>2. First(i) <= x + Slack BY <2>2, <3>1
        <3>3. oldest <= x BY <1>4, <2>1, <3>1, <3>2
        <3>4. h < x + Slack + Slack BY <1>5, <2>2, <2>4, <3>1
        <3>5. low <= x BY <1>6, <3>1, <3>3, <3>4
        <3>6. f <= high /\ First(i) <= high BY <1>4, <2>2
        <3>7. x <= high + 1 BY <2>2, <3>1, <3>6
        <3> QED BY <3>1, <3>5, <3>7
    <2>5. CASE Bucket(f) \in Loaded.buckets
        <3>1. CASE Bucket(f) < Bucket(high + 1)
            <4>1. Near(i, f) \subseteq FoldedBucket(Bucket(f))
                <5>1. Bucket(f) \in Nat BY <2>2, BucketFacts
                <5> QED BY <2>2, <2>3, <5>1, FoldedFacts
            <4>2. FoldedBucket(Bucket(f)) \subseteq m.ranges BY <1>7, <2>5, <3>1
            <4> QED BY <4>1, <4>2
        <3>2. CASE ~(Bucket(f) < Bucket(high + 1)) BY <1>4, <2>5, <3>2
        <3> QED BY <3>1, <3>2
    <2>6. CASE Near(i, f) \subseteq Loaded.ranges BY <1>7, <2>6
    <2> QED BY <1>2, <2>4, <2>5, <2>6, LoadedMarks
<1>11. ASSUME mem' = m PROVE Memo'
    <2>0. \A f \in Captured : f \in Nat /\ f <= high
        BY <1>2, <1>4, FrameFacts, ZenonT(60) DEF Captured, FramesOf, FramesIn
    <2>1. HasBound(mem.ranges)' BY <1>8, <1>11 DEF HasBound
    <2>2. Marks'
        <3>1. \A f \in Captured' : f <= mem'.top /\ f # mem'.own_floor BY <1>4, <1>9, <1>11, <2>0
        <3>2. (\E x \in Captured' : mem'.own_floor <= x + 1) \/ mem'.own_floor = mem'.boot_hwm + 1
            <4>1. CASE high \in Captured BY <1>4, <1>9, <1>11, <4>1
            <4>2. CASE high = Loaded.hwm BY <1>4, <1>11, <4>2
            <4> QED BY <1>4, <4>1, <4>2
        <3>3. /\ mem'.boot_hwm <= mem'.durable /\ mem'.durable <= mem'.hwm
              /\ mem'.boot_hwm <= mem'.sample /\ mem'.sample <= mem'.hwm /\ mem'.healthy <= mem'.hwm
              /\ mem'.hwm <= mem'.top /\ mem'.parked <= mem'.top
              /\ mem'.own_floor = mem'.boot_frame_high + 1 /\ mem'.own_floor <= mem'.top
              /\ mem'.boot_hwm < mem'.own_floor
            BY <1>4, <1>5, <1>11
        <3> QED BY <1>4, <1>11, <2>1, <3>1, <3>2, <3>3 DEF Marks
    <2>3. OwnSegments'
        <3>1. \A f \in Captured' : f < mem'.own_floor BY <1>4, <1>9, <1>11, <2>0
        <3>2. ASSUME NEW i \in Segments', NEW f \in FramesIn(i)' PROVE ~(f > mem'.own_floor) /\ ~(First(i)' > mem'.own_floor)
            <4>1. i \in Segments /\ f \in FramesIn(i) /\ First(i)' = First(i) BY <1>9, FramesKept
            <4>2. f \in Captured /\ First(i) \in Captured BY <1>2, <4>1, FrameFacts
            <4>3. f \in Nat /\ f <= high /\ First(i)' \in Nat /\ First(i)' <= high BY <2>0, <4>1, <4>2
            <4>4. mem'.own_floor = high + 1 BY <1>4, <1>11
            <4> QED BY <4>3, <4>4
        <3> QED BY <1>4, <1>11, <3>1, <3>2 DEF OwnSegments
    <2>4. InRing' /\ InRescue' BY <1>4, <1>11 DEF InRing, InRescue
    <2>5. AllSafe'
        <3> SUFFICES ASSUME NEW i \in Readable', NEW f \in Undurable(i)' PROVE Safe(i, f)' BY DEF AllSafe
        <3>1. Bucket(f) \in mem'.buckets \/ Near(i, f)' \subseteq mem'.ranges BY <1>9, <1>10, <1>11
        <3>2. mem'.parked_confirm = {} BY <1>4, <1>11
        <3> QED BY <3>1, <3>2 DEF Safe, Kept
    <2>6. Episode' /\ Batches' /\ Staged' /\ Drained'
        BY <1>4, <1>11 DEF Episode, Batches, Staged, Drained
    <2> QED BY <2>2, <2>3, <2>4, <2>5, <2>6 DEF Memo
<1>12. segs' \in Seq(Segment) /\ table' \in {"ok", "lag", "suspended"} /\ unseen' \in {0, 1}
    BY <1>1, <1>2 DEF Types
<1>13. \A i \in Segments : segs'[i].at \in {"archive", "gone"} => segs[i].at \in {"archive", "gone"}
    BY <1>1
<1> QED
    BY <1>1, <1>3, <1>4, <1>8, <1>9, <1>11, <1>12, <1>13, SaveKeeps

-----------------------------------------------------------------------------
(* What a probe does to the memory.                                        *)

\* Ages and counts of clean probes stay within 0..2.
LEMMA OneOlderFacts ==
    ASSUME NEW n \in 0..2
    PROVE  OneOlder(n) \in 0..2 /\ (n = 0 => OneOlder(n) = 1)
BY DEF OneOlder, Smaller

Counted(m) == [m EXCEPT !.batches = {[b EXCEPT !.clean = OneOlder(@)] : b \in @},
                        !.parked_confirm = {[p EXCEPT !.clean = OneOlder(@)] : p \in @}]

CountedOf(m, c) ==
    /\ c \in Memory
    /\ \A k \in {"phase", "boot_frame_high", "own_floor", "boot_hwm", "top", "opened", "ring", "rescue",
                 "hwm", "sample", "durable", "buckets", "ranges", "suspect", "lag_only", "parked", "healthy",
                 "probe", "staged", "folding"} : c[k] = m[k]
    /\ \A q \in c.parked_confirm : \E p \in m.parked_confirm :
         /\ q.lo = p.lo /\ q.hi = p.hi /\ q.parked = p.parked /\ q.age = p.age
         /\ q.contaminated = p.contaminated
    /\ \A d \in c.batches : \E b \in m.batches :
         /\ d = [b EXCEPT !.clean = OneOlder(@)] /\ d.seg = b.seg /\ d.age = b.age /\ d.spoiled = b.spoiled
         /\ d.clean = OneOlder(b.clean) /\ b.clean \in 0..2 /\ b.age \in 0..2

\* A clean probe is counted for whatever waits for one.
LEMMA CountedFacts ==
    ASSUME NEW m \in Memory, NEW c, c = Counted(m)
    PROVE  CountedOf(m, c)
<1> DEFINE B == {[b EXCEPT !.clean = OneOlder(@)] : b \in m.batches}
           P == {[p EXCEPT !.clean = OneOlder(@)] : p \in m.parked_confirm}
<1>1. \A b \in m.batches : /\ b \in Batch /\ [b EXCEPT !.clean = OneOlder(@)] \in Batch
                           /\ [b EXCEPT !.clean = OneOlder(@)].seg = b.seg /\ [b EXCEPT !.clean = OneOlder(@)].age = b.age
                           /\ [b EXCEPT !.clean = OneOlder(@)].spoiled = b.spoiled
                           /\ [b EXCEPT !.clean = OneOlder(@)].clean = OneOlder(b.clean) /\ b.clean \in 0..2 /\ b.age \in 0..2
    BY OneOlderFacts DEF Memory, Batch
<1>2. \A p \in m.parked_confirm : /\ p \in Confirm /\ [p EXCEPT !.clean = OneOlder(@)] \in Confirm
                           /\ [p EXCEPT !.clean = OneOlder(@)].lo = p.lo /\ [p EXCEPT !.clean = OneOlder(@)].hi = p.hi
                           /\ [p EXCEPT !.clean = OneOlder(@)].parked = p.parked /\ [p EXCEPT !.clean = OneOlder(@)].age = p.age
                           /\ [p EXCEPT !.clean = OneOlder(@)].contaminated = p.contaminated
    BY OneOlderFacts DEF Memory, Confirm
<1>3. B \in SUBSET Batch /\ P \in SUBSET Confirm
    BY <1>1, <1>2
<1>4. \A q \in P : \E p \in m.parked_confirm :
                /\ q.lo = p.lo /\ q.hi = p.hi /\ q.parked = p.parked /\ q.age = p.age
                /\ q.contaminated = p.contaminated
    BY <1>2
<1>5. \A d \in B : \E b \in m.batches :
                /\ d = [b EXCEPT !.clean = OneOlder(@)] /\ d.seg = b.seg /\ d.age = b.age /\ d.spoiled = b.spoiled
                /\ d.clean = OneOlder(b.clean) /\ b.clean \in 0..2 /\ b.age \in 0..2
    BY <1>1
<1>6. c = [m EXCEPT !.batches = B, !.parked_confirm = P]
    BY DEF Memory, Counted
<1> HIDE DEF B, P
<1>7. c \in Memory
    BY <1>3, <1>6 DEF Memory
<1>8. c.batches = B /\ c.parked_confirm = P
    BY <1>6 DEF Memory
<1>9. \A k \in {"phase", "boot_frame_high", "own_floor", "boot_hwm", "top", "opened", "ring", "rescue",
                 "hwm", "sample", "durable", "buckets", "ranges", "suspect", "lag_only", "parked", "healthy",
                 "probe", "staged", "folding"} : c[k] = m[k]
    BY <1>6 DEF Memory
<1> QED
    BY <1>4, <1>5, <1>7, <1>8, <1>9 DEF CountedOf

ExitOf(m, c) ==
    /\ c \in Memory
    /\ \A k \in {"phase", "boot_frame_high", "own_floor", "boot_hwm", "top", "opened", "ring", "rescue",
                 "hwm", "sample", "durable", "buckets", "healthy",
                 "probe", "staged", "folding", "batches"} : c[k] = m[k]
    /\ c.suspect = FALSE /\ c.lag_only = FALSE /\ c.parked = 0
    /\ m.ranges \subseteq c.ranges
    /\ m.hwm < m.parked => (suspension_range_lo(m.hwm) .. m.parked + Slack) \subseteq c.ranges
    /\ \A x \in c.ranges : x \in m.ranges \/ x <= m.parked + Slack
    /\ \A q \in c.parked_confirm :
         \/ q \in m.parked_confirm
         \/ /\ m.lag_only /\ q.parked = m.parked /\ q.age = 0 /\ q.clean = 0
            /\ q.contaminated <=> m.ranges \cap (q.lo .. q.hi) # {}

\* An episode ends.
LEMMA ExitFacts ==
    ASSUME NEW m \in Memory, NEW c, c = ExitSuspicion(m)
    PROVE  ExitOf(m, c)
<1> DEFINE confirm == [lo |-> m.hwm + Slack + 1, hi |-> m.parked + Slack, parked |-> m.parked,
                       age |-> 0, clean |-> 0,
                       contaminated |-> m.ranges \cap (m.hwm + Slack + 1 .. m.parked + Slack) # {}]
           span == suspension_range_lo(m.hwm) .. m.parked + Slack
           closed == [m EXCEPT !.suspect = FALSE, !.lag_only = FALSE, !.parked = 0]
           confirms == IF m.lag_only THEN {confirm} ELSE {}
<1>0. m.hwm \in Nat /\ m.parked \in Nat /\ Slack \in Nat
    BY FrameLogAssumption DEF Memory
<1>1. confirm \in Confirm
    BY <1>0 DEF Confirm
<1>2. /\ confirm.parked = m.parked /\ confirm.age = 0 /\ confirm.clean = 0
      /\ confirm.contaminated <=> m.ranges \cap (confirm.lo .. confirm.hi) # {}
    OBVIOUS
<1>3. confirms \in SUBSET Confirm /\ \A q \in confirms :
            /\ m.lag_only /\ q.parked = m.parked /\ q.age = 0 /\ q.clean = 0
            /\ q.contaminated <=> m.ranges \cap (q.lo .. q.hi) # {}
    <2> HIDE DEF confirm
    <2> QED BY <1>1, <1>2
<1>4. span \in SUBSET Nat /\ \A x \in span : x <= m.parked + Slack
    <2>1. suspension_range_lo(m.hwm) \in Nat BY <1>0 DEF suspension_range_lo, Larger, Minus
    <2> QED BY <1>0, <2>1
<1>5. /\ closed \in Memory /\ closed.ranges = m.ranges /\ closed.parked_confirm = m.parked_confirm
      /\ closed.suspect = FALSE /\ closed.lag_only = FALSE /\ closed.parked = 0
    BY DEF Memory
<1>6. \A k \in {"phase", "boot_frame_high", "own_floor", "boot_hwm", "top", "opened", "ring", "rescue",
                 "hwm", "sample", "durable", "buckets", "healthy",
                 "probe", "staged", "folding", "batches"} : closed[k] = m[k]
    BY DEF Memory
<1>7. c = IF m.parked <= m.hwm THEN closed
          ELSE [closed EXCEPT !.ranges = @ \cup span, !.parked_confirm = confirms]
    BY DEF ExitSuspicion
<1> HIDE DEF closed, span, confirms
<1>8. CASE m.parked <= m.hwm
    BY <1>0, <1>5, <1>6, <1>7, <1>8 DEF ExitOf
<1>9. CASE ~(m.parked <= m.hwm)
    <2>1. c = [closed EXCEPT !.ranges = m.ranges \cup span, !.parked_confirm = confirms]
        BY <1>5, <1>7, <1>9
    <2>2. m.ranges \in SUBSET Nat BY DEF Memory
    <2>3. c \in Memory BY <1>3, <1>4, <1>5, <2>1, <2>2, ZenonT(60) DEF Memory
    <2>4. c.ranges = m.ranges \cup span /\ c.parked_confirm = confirms BY <1>5, <2>1 DEF Memory
    <2>5. c.suspect = FALSE /\ c.lag_only = FALSE /\ c.parked = 0
        <3>1. c.suspect = closed.suspect /\ c.lag_only = closed.lag_only /\ c.parked = closed.parked
            BY <1>5, <2>1 DEF Memory
        <3> QED BY <1>5, <3>1
    <2>6. \A k \in {"phase", "boot_frame_high", "own_floor", "boot_hwm", "top", "opened", "ring", "rescue",
                     "hwm", "sample", "durable", "buckets", "healthy",
                     "probe", "staged", "folding", "batches"} : c[k] = closed[k]
        BY <1>5, <2>1 DEF Memory
    <2>7. \A k \in {"phase", "boot_frame_high", "own_floor", "boot_hwm", "top", "opened", "ring", "rescue",
                     "hwm", "sample", "durable", "buckets", "healthy",
                     "probe", "staged", "folding", "batches"} : c[k] = m[k]
        BY <1>6, <2>6
    <2>8. \A x \in c.ranges : x \in m.ranges \/ x <= m.parked + Slack BY <1>4, <2>4
    <2>9. m.ranges \subseteq c.ranges /\ span \subseteq c.ranges BY <2>4
    <2>10. \A q \in c.parked_confirm :
                   /\ m.lag_only /\ q.parked = m.parked /\ q.age = 0 /\ q.clean = 0
                   /\ q.contaminated <=> m.ranges \cap (q.lo .. q.hi) # {}
        BY <1>3, <2>4
    <2> QED BY <2>3, <2>5, <2>7, <2>8, <2>9, <2>10 DEF span, ExitOf
<1> QED
    BY <1>8, <1>9

ConfirmOf(m, c, n) ==
    /\ c \in Memory
    /\ \A k \in {"phase", "boot_frame_high", "own_floor", "boot_hwm", "top", "opened", "ring", "rescue",
                 "sample", "durable", "buckets", "suspect", "lag_only", "parked", "healthy",
                 "probe", "staged", "folding", "batches"} : c[k] = m[k]
    /\ \A q \in c.parked_confirm : q \in m.parked_confirm /\ ~q.contaminated
    /\ c.hwm = m.hwm \/ \E p \in m.parked_confirm : p.age = 2 /\ c.hwm = p.parked
    /\ m.hwm <= c.hwm /\ c.hwm <= n
    /\ c.ranges \subseteq m.ranges
    /\ \A x \in m.ranges : x \in c.ranges \/ \E p \in m.parked_confirm :
                             ~p.contaminated /\ p.age = 2 /\ x \in p.lo .. p.hi

\* Confirmations that are due raise the watermark and lift their ranges.
LEMMA ConfirmFacts ==
    ASSUME NEW m \in Memory, NEW c, c = ConfirmParked(m), NEW n \in Nat, m.hwm <= n,
           \A p \in m.parked_confirm : p.parked <= n
    PROVE  ConfirmOf(m, c, n)
<1> DEFINE spoiled == {p \in m.parked_confirm : p.contaminated}
           due == {p \in m.parked_confirm \ spoiled : p.age = 2 /\ p.clean = 2}
           kept == m.parked_confirm \ (spoiled \cup due)
           lifted == UNION {p.lo .. p.hi : p \in due}
           marks == {m.hwm} \cup {p.parked : p \in due}
<1>1. /\ due \subseteq m.parked_confirm /\ \A p \in due : ~p.contaminated /\ p.age = 2
      /\ kept \subseteq m.parked_confirm /\ \A p \in kept : ~p.contaminated
    OBVIOUS
<1>2. m.hwm \in Nat /\ m.ranges \in SUBSET Nat /\ m.parked_confirm \in SUBSET Confirm /\ \A p \in m.parked_confirm : p.parked \in Nat
    BY DEF Memory, Confirm
<1>3. c = [m EXCEPT !.parked_confirm = kept, !.ranges = @ \ lifted, !.hwm = Max(marks)]
    BY DEF ConfirmParked, Memory
<1>4. \A x \in lifted : \E p \in m.parked_confirm : ~p.contaminated /\ p.age = 2 /\ x \in p.lo .. p.hi
    BY <1>1
<1> HIDE DEF due, kept, spoiled
<1>5. marks \subseteq Nat /\ marks # {} /\ (\A y \in marks : y <= n) /\ m.hwm \in marks
      /\ \A y \in marks : y = m.hwm \/ \E p \in m.parked_confirm : p.age = 2 /\ y = p.parked
    BY <1>1, <1>2
<1> HIDE DEF marks, lifted
<1>6. PICK top \in Nat : top = Max(marks) /\ top \in marks /\ \A y \in marks : y <= top
    BY <1>5, MaxOf
<1>7. PICK cut \in SUBSET Nat : cut = m.ranges \ lifted
    BY <1>2
<1>8. c = [m EXCEPT !.parked_confirm = kept, !.ranges = cut, !.hwm = top]
    BY <1>3, <1>6, <1>7
<1>9. kept \in SUBSET Confirm
    BY <1>1, <1>2
<1>10. c \in Memory
    BY <1>8, <1>9, ZenonT(60) DEF Memory
<1>11. c.parked_confirm = kept /\ c.ranges = cut /\ c.hwm = top
    BY <1>8 DEF Memory
<1>12. \A k \in {"phase", "boot_frame_high", "own_floor", "boot_hwm", "top", "opened", "ring", "rescue",
                  "sample", "durable", "buckets", "suspect", "lag_only", "parked", "healthy",
                  "probe", "staged", "folding", "batches"} : c[k] = m[k]
    BY <1>8 DEF Memory
<1> QED
    BY <1>1, <1>4, <1>5, <1>6, <1>7, <1>10, <1>11, <1>12 DEF ConfirmOf

\* The answer to a probe that was sent is gone from the memory it changes.
LEMMA AnsweredFacts ==
    ASSUME NEW m \in Memory, NEW c, c = [m EXCEPT !.probe = {}]
    PROVE  /\ c \in Memory /\ c.probe = {}
           /\ \A k \in {"phase", "boot_frame_high", "own_floor", "boot_hwm", "top", "opened", "ring", "rescue",
                        "hwm", "sample", "durable", "buckets", "ranges", "suspect", "lag_only", "parked", "healthy",
                        "parked_confirm", "staged", "folding", "batches"} : c[k] = m[k]
BY DEF Memory

\* Setting the healthy basis changes nothing else.
LEMMA HealthyFacts ==
    ASSUME NEW m \in Memory, NEW h \in Nat, NEW c, c = [m EXCEPT !.healthy = h]
    PROVE  /\ c \in Memory /\ c.healthy = h
           /\ \A k \in {"phase", "boot_frame_high", "own_floor", "boot_hwm", "top", "opened", "ring", "rescue",
                        "hwm", "sample", "durable", "buckets", "ranges", "suspect", "lag_only", "parked", "probe",
                        "parked_confirm", "staged", "folding", "batches"} : c[k] = m[k]
BY DEF Memory

\* Setting the batches changes nothing else.
LEMMA BatchesFacts ==
    ASSUME NEW m \in Memory, NEW B \in SUBSET Batch, NEW c, c = [m EXCEPT !.batches = B]
    PROVE  /\ c \in Memory /\ c.batches = B
           /\ \A k \in {"phase", "boot_frame_high", "own_floor", "boot_hwm", "top", "opened", "ring", "rescue",
                        "hwm", "sample", "durable", "buckets", "ranges", "suspect", "lag_only", "parked", "probe",
                        "healthy", "parked_confirm", "staged", "folding"} : c[k] = m[k]
BY DEF Memory

\* What no answer changes.
Steady == {"phase", "boot_frame_high", "own_floor", "boot_hwm", "top", "opened", "ring", "rescue",
           "sample", "durable", "buckets", "staged"}

\* An episode goes on.
LEMMA EpisodeGoesOn ==
    ASSUME mem \in Memory, mem.suspect, NEW v, NEW w, w = [mem EXCEPT !.probe = {}], NEW m, m = UncleanProbe(w, v)
    PROVE  /\ m \in Memory /\ m.probe = {} /\ \A k \in Steady : m[k] = mem[k]
           /\ \A k \in {"hwm", "ranges", "suspect", "parked", "healthy", "parked_confirm", "folding", "batches"} : m[k] = mem[k]
           /\ m.lag_only => mem.lag_only
<1>1. /\ w \in Memory /\ w.probe = {}
      /\ \A k \in {"phase", "boot_frame_high", "own_floor", "boot_hwm", "top", "opened", "ring", "rescue",
                   "hwm", "sample", "durable", "buckets", "ranges", "suspect", "lag_only", "parked",
                   "healthy", "parked_confirm", "staged", "folding", "batches"} : w[k] = mem[k]
    BY AnsweredFacts
<1>2. w.suspect /\ w.lag_only = mem.lag_only /\ mem.lag_only \in BOOLEAN
    BY <1>1 DEF Memory
<1>3. PICK l \in BOOLEAN : l = (w.lag_only /\ v = "lag")
    OBVIOUS
<1>4. m = [w EXCEPT !.lag_only = l]
    BY <1>1, <1>2, <1>3 DEF UncleanProbe
<1>5. m \in Memory
    BY <1>4, ZenonT(60) DEF Memory
<1>6. m.lag_only = l
    BY <1>4 DEF Memory
<1>7. \A k \in {"phase", "boot_frame_high", "own_floor", "boot_hwm", "top", "opened", "ring", "rescue",
                 "hwm", "sample", "durable", "buckets", "ranges", "suspect", "parked", "probe",
                 "healthy", "parked_confirm", "staged", "folding", "batches"} : m[k] = w[k]
    BY <1>4 DEF Memory
<1> QED
    BY <1>1, <1>2, <1>3, <1>5, <1>6, <1>7, SMTT(30) DEF Steady

\* A range added when nothing waits to be confirmed.
LEMMA UnconfirmedRange ==
    ASSUME NEW m \in Memory, NEW span \in SUBSET Nat, NEW a, a = add_unapplied_range(m, span), m.parked_confirm = {}
    PROVE  /\ a \in Memory
           /\ \A k \in {"phase", "boot_frame_high", "own_floor", "boot_hwm", "top", "opened", "ring", "rescue",
                        "hwm", "sample", "durable", "buckets", "suspect", "lag_only", "parked", "healthy", "probe",
                        "staged", "folding", "batches"} : a[k] = m[k]
           /\ a.ranges = m.ranges \cup span
           /\ a.parked_confirm = {}
BY RangeAdded

\* The memory an episode begins with.
BeginsOf(m) ==
    /\ m \in Memory /\ m.probe = {} /\ \A k \in Steady : m[k] = mem[k]
    /\ m.suspect = TRUE /\ m.parked_confirm = {}
    /\ \A k \in {"hwm", "parked", "healthy"} : m[k] = mem[k]
    /\ m.ranges = mem.ranges \cup (suspension_range_lo(mem.healthy) .. mem.hwm + Slack)
    /\ \A b \in m.batches : b.spoiled
    /\ \A c \in m.folding : \E b \in mem.folding : c.seg = b.seg /\ c.age = b.age /\ c.clean = b.clean /\ c.spoiled

\* An episode begins.
LEMMA EpisodeBegins ==
    ASSUME mem \in Memory, ~mem.suspect, NEW v, NEW w, w = [mem EXCEPT !.probe = {}], NEW m, m = UncleanProbe(w, v)
    PROVE  BeginsOf(m)
<1>1. /\ w \in Memory /\ w.probe = {}
      /\ \A k \in {"phase", "boot_frame_high", "own_floor", "boot_hwm", "top", "opened", "ring", "rescue",
                   "hwm", "sample", "durable", "buckets", "ranges", "suspect", "lag_only", "parked",
                   "healthy", "parked_confirm", "staged", "folding", "batches"} : w[k] = mem[k]
    BY AnsweredFacts
<1>2. ~w.suspect /\ w.healthy = mem.healthy /\ w.hwm = mem.hwm /\ w.folding = mem.folding /\ w.ranges = mem.ranges
    BY <1>1
<1>3. PICK l \in BOOLEAN : l = (v = "lag")
    OBVIOUS
<1>4. \A b \in Batch : [b EXCEPT !.spoiled = TRUE] \in Batch
         /\ [b EXCEPT !.spoiled = TRUE].seg = b.seg /\ [b EXCEPT !.spoiled = TRUE].age = b.age
         /\ [b EXCEPT !.spoiled = TRUE].clean = b.clean /\ [b EXCEPT !.spoiled = TRUE].spoiled = TRUE
    BY DEF Batch
<1>5. w.batches \subseteq Batch /\ w.folding \subseteq Batch
    BY DEF Memory
<1>6. PICK B \in SUBSET Batch : B = {[b EXCEPT !.spoiled = TRUE] : b \in w.batches} /\ \A b \in B : b.spoiled
    <2>1. {[b EXCEPT !.spoiled = TRUE] : b \in w.batches} \in SUBSET Batch
          /\ \A c \in {[b EXCEPT !.spoiled = TRUE] : b \in w.batches} : c.spoiled
        BY <1>4, <1>5
    <2> QED BY <2>1
<1>7. PICK F \in SUBSET Batch : /\ F = {[b EXCEPT !.spoiled = TRUE] : b \in w.folding}
                                /\ \A c \in F : \E b \in w.folding : c.seg = b.seg /\ c.age = b.age /\ c.clean = b.clean /\ c.spoiled
    <2>1. /\ {[b EXCEPT !.spoiled = TRUE] : b \in w.folding} \in SUBSET Batch
          /\ \A c \in {[b EXCEPT !.spoiled = TRUE] : b \in w.folding} :
                \E b \in w.folding : c.seg = b.seg /\ c.age = b.age /\ c.clean = b.clean /\ c.spoiled
        <3>1. {[b EXCEPT !.spoiled = TRUE] : b \in w.folding} \in SUBSET Batch BY <1>4, <1>5
        <3>2. ASSUME NEW c \in {[b EXCEPT !.spoiled = TRUE] : b \in w.folding}
              PROVE  \E b \in w.folding : c.seg = b.seg /\ c.age = b.age /\ c.clean = b.clean /\ c.spoiled
            <4>1. PICK b \in w.folding : c = [b EXCEPT !.spoiled = TRUE] OBVIOUS
            <4>2. b \in Batch BY <1>5
            <4> QED BY <1>4, <4>1, <4>2
        <3> QED BY <3>1, <3>2
    <2> QED BY <2>1
<1>8. PICK r : r = [w EXCEPT !.suspect = TRUE, !.lag_only = l, !.parked_confirm = {}, !.batches = B, !.folding = F]
    OBVIOUS
<1>9. r \in Memory
    BY <1>8 DEF Memory
<1>10. r.suspect = TRUE /\ r.parked_confirm = {} /\ r.batches = B /\ r.folding = F
    BY <1>8 DEF Memory
<1>11. \A k \in {"phase", "boot_frame_high", "own_floor", "boot_hwm", "top", "opened", "ring", "rescue",
                  "hwm", "sample", "durable", "buckets", "ranges", "parked", "probe",
                  "healthy", "staged"} : r[k] = w[k]
    BY <1>8 DEF Memory
<1>12. PICK span \in SUBSET Nat : span = suspension_range_lo(mem.healthy) .. mem.hwm + Slack
    <2>1. mem.healthy \in Nat /\ mem.hwm \in Nat /\ Slack \in Nat BY FrameLogAssumption DEF Memory
    <2>2. suspension_range_lo(mem.healthy) \in Nat BY <2>1 DEF suspension_range_lo, Larger, Minus
    <2>3. (suspension_range_lo(mem.healthy) .. mem.hwm + Slack) \in SUBSET Nat BY <2>1, <2>2
    <2> QED BY <2>3
<1>13. m = add_unapplied_range(r, span)
    BY <1>1, <1>2, <1>3, <1>6, <1>7, <1>8, <1>12 DEF UncleanProbe
<1>14. /\ m \in Memory
       /\ \A k \in {"phase", "boot_frame_high", "own_floor", "boot_hwm", "top", "opened", "ring", "rescue",
                    "hwm", "sample", "durable", "buckets", "suspect", "lag_only", "parked", "healthy", "probe",
                    "staged", "folding", "batches"} : m[k] = r[k]
       /\ m.ranges = r.ranges \cup span
       /\ m.parked_confirm = {}
    <2>1. r \in Memory /\ r.parked_confirm = {} BY <1>9, <1>10
    <2> QED BY <2>1, <1>13, UnconfirmedRange
<1>15. m.ranges = mem.ranges \cup span
    BY <1>1, <1>11, <1>14
<1>16. m.parked_confirm = {}
    BY <1>14
<1>17. m.suspect = TRUE /\ m.batches = B /\ m.folding = F
    BY <1>10, <1>14
<1>18. \A k \in Steady : m[k] = mem[k]
    BY <1>1, <1>11, <1>14 DEF Steady
<1>19. m.probe = {} /\ \A k \in {"hwm", "parked", "healthy"} : m[k] = mem[k]
    BY <1>1, <1>11, <1>14
<1> QED
    BY <1>2, <1>6, <1>7, <1>12, <1>14, <1>15, <1>16, <1>17, <1>18, <1>19, ZenonT(60) DEF BeginsOf

CleanOf(m, basis) ==
    /\ m \in Memory /\ m.probe = {} /\ \A k \in Steady : m[k] = mem[k]
    /\ \A k \in {"suspect", "lag_only", "parked", "folding"} : m[k] = mem[k]
    /\ m.healthy = basis
    /\ m.hwm = mem.hwm \/ \E p \in mem.parked_confirm : m.hwm = p.parked
    /\ mem.hwm <= m.hwm /\ m.hwm <= mem.top
    /\ \A q \in m.parked_confirm : \E p \in mem.parked_confirm :
         q.lo = p.lo /\ q.hi = p.hi /\ q.parked = p.parked /\ ~p.contaminated
    /\ m.ranges \subseteq mem.ranges
    /\ \A x \in mem.ranges : x \in m.ranges \/ \E p \in mem.parked_confirm : ~p.contaminated /\ x \in p.lo .. p.hi
    /\ \A d \in m.batches : \E b \in mem.batches :
         /\ d = [b EXCEPT !.clean = OneOlder(@)] /\ d.seg = b.seg /\ d.age = b.age /\ d.spoiled = b.spoiled
         /\ d.clean = OneOlder(b.clean) /\ b.clean \in 0..2 /\ b.age \in 0..2

\* A clean answer outside an episode.
LEMMA CleanAnswer ==
    ASSUME mem \in Memory, Marks, ~mem.suspect, NEW basis \in Nat, basis <= mem.hwm,
           NEW w, w = [mem EXCEPT !.probe = {}], NEW m, m = CleanProbe(w, basis)
    PROVE  CleanOf(m, basis)
<1>1. /\ w \in Memory /\ w.probe = {}
      /\ \A k \in {"phase", "boot_frame_high", "own_floor", "boot_hwm", "top", "opened", "ring", "rescue",
                   "hwm", "sample", "durable", "buckets", "ranges", "suspect", "lag_only", "parked",
                   "healthy", "parked_confirm", "staged", "folding", "batches"} : w[k] = mem[k]
    BY AnsweredFacts
<1>2. ~w.suspect /\ w.hwm = mem.hwm /\ w.folding = mem.folding /\ w.ranges = mem.ranges
      /\ w.parked_confirm = mem.parked_confirm /\ w.batches = mem.batches
    BY <1>1
<1>3. PICK c : c = Counted(w)
    OBVIOUS
<1>3a. CountedOf(w, c)
    BY <1>1, <1>3, CountedFacts
<1>4. /\ c \in Memory
      /\ \A k \in {"phase", "boot_frame_high", "own_floor", "boot_hwm", "top", "opened", "ring", "rescue",
                   "hwm", "sample", "durable", "buckets", "ranges", "suspect", "lag_only", "parked", "healthy",
                   "probe", "staged", "folding"} : c[k] = w[k]
      /\ \A q \in c.parked_confirm : \E p \in w.parked_confirm :
           /\ q.lo = p.lo /\ q.hi = p.hi /\ q.parked = p.parked /\ q.age = p.age
           /\ q.contaminated = p.contaminated
      /\ \A d \in c.batches : \E b \in w.batches :
           /\ d = [b EXCEPT !.clean = OneOlder(@)] /\ d.seg = b.seg /\ d.age = b.age /\ d.spoiled = b.spoiled
           /\ d.clean = OneOlder(b.clean) /\ b.clean \in 0..2 /\ b.age \in 0..2
    BY <1>3a DEF CountedOf
<1>5. Smaller(basis, c.hwm) = basis
    <2>1. c.hwm = mem.hwm /\ mem.hwm \in Nat BY <1>1, <1>4 DEF Memory
    <2> QED BY <2>1 DEF Smaller
<1>6. PICK h : h = [c EXCEPT !.healthy = basis]
    OBVIOUS
<1>7. /\ h \in Memory /\ h.healthy = basis
      /\ \A k \in {"phase", "boot_frame_high", "own_floor", "boot_hwm", "top", "opened", "ring", "rescue",
                   "hwm", "sample", "durable", "buckets", "ranges", "suspect", "lag_only", "parked", "probe",
                   "parked_confirm", "staged", "folding", "batches"} : h[k] = c[k]
    BY <1>4, <1>6, HealthyFacts
<1>8. m = ConfirmParked(h)
    BY <1>1, <1>2, <1>3, <1>5, <1>6 DEF CleanProbe, Counted
<1>9. mem.top \in Nat /\ h.hwm <= mem.top /\ \A p \in h.parked_confirm : p.parked <= mem.top
    BY <1>1, <1>2, <1>4, <1>7 DEF Marks, Memory
<1>9a. ConfirmOf(h, m, mem.top)
    BY <1>7, <1>8, <1>9, ConfirmFacts
<1>10. /\ m \in Memory
       /\ \A k \in {"phase", "boot_frame_high", "own_floor", "boot_hwm", "top", "opened", "ring", "rescue",
                    "sample", "durable", "buckets", "suspect", "lag_only", "parked", "healthy",
                    "probe", "staged", "folding", "batches"} : m[k] = h[k]
       /\ \A q \in m.parked_confirm : q \in h.parked_confirm /\ ~q.contaminated
       /\ m.hwm = h.hwm \/ \E p \in h.parked_confirm : p.age = 2 /\ m.hwm = p.parked
       /\ h.hwm <= m.hwm /\ m.hwm <= mem.top
       /\ m.ranges \subseteq h.ranges
       /\ \A x \in h.ranges : x \in m.ranges \/ \E p \in h.parked_confirm :
                                ~p.contaminated /\ p.age = 2 /\ x \in p.lo .. p.hi
    BY <1>9a DEF ConfirmOf
<1>11. h.hwm = mem.hwm /\ h.ranges = mem.ranges /\ h.parked_confirm = c.parked_confirm /\ m.batches = c.batches
    BY <1>2, <1>4, <1>7, <1>10
<1>12. \A k \in Steady : m[k] = mem[k]
    BY <1>1, <1>4, <1>7, <1>10 DEF Steady
<1>13. m.probe = {} /\ \A k \in {"suspect", "lag_only", "parked", "folding"} : m[k] = mem[k]
    BY <1>1, <1>4, <1>7, <1>10
<1>14. m.healthy = basis
    BY <1>7, <1>10
<1>14a. \A q \in h.parked_confirm : \E p \in mem.parked_confirm :
                /\ q.lo = p.lo /\ q.hi = p.hi /\ q.parked = p.parked /\ q.age = p.age
                /\ q.contaminated = p.contaminated
    BY <1>2, <1>4, <1>11
<1>15. \A q \in m.parked_confirm : \E p \in mem.parked_confirm :
                q.lo = p.lo /\ q.hi = p.hi /\ q.parked = p.parked /\ ~p.contaminated
    <2> SUFFICES ASSUME NEW q \in m.parked_confirm
                 PROVE  \E p \in mem.parked_confirm : q.lo = p.lo /\ q.hi = p.hi /\ q.parked = p.parked /\ ~p.contaminated
        OBVIOUS
    <2>1. q \in h.parked_confirm /\ ~q.contaminated BY <1>10
    <2>2. PICK p \in mem.parked_confirm : q.lo = p.lo /\ q.hi = p.hi /\ q.parked = p.parked /\ q.contaminated = p.contaminated
        BY <1>14a, <2>1
    <2>3. ~p.contaminated BY <2>1, <2>2
    <2> QED BY <2>2, <2>3
<1>16. m.hwm = mem.hwm \/ \E p \in mem.parked_confirm : m.hwm = p.parked
    BY <1>10, <1>11, <1>14a
<1>17. \A x \in mem.ranges : x \in m.ranges \/ \E p \in mem.parked_confirm : ~p.contaminated /\ x \in p.lo .. p.hi
    <2> SUFFICES ASSUME NEW x \in mem.ranges, x \notin m.ranges
                 PROVE  \E p \in mem.parked_confirm : ~p.contaminated /\ x \in p.lo .. p.hi
        OBVIOUS
    <2>1. PICK q \in h.parked_confirm : ~q.contaminated /\ x \in q.lo .. q.hi BY <1>10, <1>11
    <2>2. PICK p \in mem.parked_confirm : q.lo = p.lo /\ q.hi = p.hi /\ q.parked = p.parked /\ q.contaminated = p.contaminated
        BY <1>14a, <2>1
    <2>3. ~p.contaminated /\ x \in p.lo .. p.hi BY <2>1, <2>2
    <2> QED BY <2>3
<1>18. mem.hwm <= m.hwm /\ m.hwm <= mem.top /\ m.ranges \subseteq mem.ranges
    BY <1>10, <1>11
<1>19. \A d \in m.batches : \E b \in mem.batches :
                /\ d = [b EXCEPT !.clean = OneOlder(@)] /\ d.seg = b.seg /\ d.age = b.age /\ d.spoiled = b.spoiled
                /\ d.clean = OneOlder(b.clean) /\ b.clean \in 0..2 /\ b.age \in 0..2
    BY <1>2, <1>4, <1>11
<1> QED
    BY <1>10, <1>12, <1>13, <1>14, <1>15, <1>16, <1>17, <1>18, <1>19 DEF CleanOf

EndsOf(m, basis) ==
    /\ m \in Memory /\ m.probe = {} /\ \A k \in Steady : m[k] = mem[k]
    /\ m.hwm = mem.hwm /\ m.folding = mem.folding
    /\ m.suspect = FALSE /\ m.parked = 0 /\ m.healthy = basis
    /\ mem.ranges \subseteq m.ranges
    /\ mem.hwm < mem.parked => (suspension_range_lo(mem.hwm) .. mem.parked + Slack) \subseteq m.ranges
    /\ \A x \in m.ranges : x \in mem.ranges \/ x <= mem.parked + Slack
    /\ \A q \in m.parked_confirm :
         /\ mem.lag_only /\ q.parked = mem.parked /\ q.clean = 0
         /\ mem.ranges \cap (q.lo .. q.hi) = {}
    /\ \A d \in m.batches : \E b \in mem.batches : d.spoiled = b.spoiled

\* A clean answer ends an episode.
LEMMA EpisodeEnds ==
    ASSUME mem \in Memory, Marks, mem.suspect, mem.parked_confirm = {}, NEW basis \in Nat, basis <= mem.hwm,
           NEW w, w = [mem EXCEPT !.probe = {}], NEW m, m = CleanProbe(w, basis)
    PROVE  EndsOf(m, basis)
<1>1. /\ w \in Memory /\ w.probe = {}
      /\ \A k \in {"phase", "boot_frame_high", "own_floor", "boot_hwm", "top", "opened", "ring", "rescue",
                   "hwm", "sample", "durable", "buckets", "ranges", "suspect", "lag_only", "parked",
                   "healthy", "parked_confirm", "staged", "folding", "batches"} : w[k] = mem[k]
    BY AnsweredFacts
<1>2. w.suspect /\ w.hwm = mem.hwm /\ w.folding = mem.folding /\ w.ranges = mem.ranges /\ w.lag_only = mem.lag_only
      /\ w.parked = mem.parked /\ w.parked_confirm = {} /\ w.batches = mem.batches
    BY <1>1
<1>3. PICK c : c = Counted(w)
    OBVIOUS
<1>3a. CountedOf(w, c)
    BY <1>1, <1>3, CountedFacts
<1>4. /\ c \in Memory
      /\ \A k \in {"phase", "boot_frame_high", "own_floor", "boot_hwm", "top", "opened", "ring", "rescue",
                   "hwm", "sample", "durable", "buckets", "ranges", "suspect", "lag_only", "parked", "healthy",
                   "probe", "staged", "folding"} : c[k] = w[k]
      /\ \A q \in c.parked_confirm : \E p \in w.parked_confirm :
           /\ q.lo = p.lo /\ q.hi = p.hi /\ q.parked = p.parked /\ q.age = p.age
           /\ q.contaminated = p.contaminated
      /\ \A d \in c.batches : \E b \in w.batches :
           /\ d = [b EXCEPT !.clean = OneOlder(@)] /\ d.seg = b.seg /\ d.age = b.age /\ d.spoiled = b.spoiled
           /\ d.clean = OneOlder(b.clean) /\ b.clean \in 0..2 /\ b.age \in 0..2
    BY <1>3a DEF CountedOf
<1>4a. c.parked_confirm = {} /\ c.hwm = mem.hwm /\ c.ranges = mem.ranges /\ c.lag_only = mem.lag_only /\ c.parked = mem.parked
    BY <1>2, <1>4
<1>4b. c \in Memory BY <1>4
<1>5. PICK e : e = ExitSuspicion(c)
    OBVIOUS
<1>5a. ExitOf(c, e)
    BY <1>4b, <1>5, ExitFacts
<1>6. /\ e \in Memory
      /\ \A k \in {"phase", "boot_frame_high", "own_floor", "boot_hwm", "top", "opened", "ring", "rescue",
                   "hwm", "sample", "durable", "buckets", "healthy",
                   "probe", "staged", "folding", "batches"} : e[k] = c[k]
      /\ e.suspect = FALSE /\ e.lag_only = FALSE /\ e.parked = 0
      /\ c.ranges \subseteq e.ranges
      /\ c.hwm < c.parked => (suspension_range_lo(c.hwm) .. c.parked + Slack) \subseteq e.ranges
      /\ \A x \in e.ranges : x \in c.ranges \/ x <= c.parked + Slack
      /\ \A q \in e.parked_confirm :
           \/ q \in c.parked_confirm
           \/ /\ c.lag_only /\ q.parked = c.parked /\ q.age = 0 /\ q.clean = 0
              /\ q.contaminated <=> c.ranges \cap (q.lo .. q.hi) # {}
    BY <1>5a DEF ExitOf
<1>6a. \A q \in e.parked_confirm :
              /\ mem.lag_only /\ q.parked = mem.parked /\ q.age = 0 /\ q.clean = 0
              /\ q.contaminated <=> mem.ranges \cap (q.lo .. q.hi) # {}
    BY <1>4a, <1>6
<1>7. e.hwm = mem.hwm /\ Smaller(basis, e.hwm) = basis
    <2>1. e.hwm = mem.hwm /\ mem.hwm \in Nat BY <1>4a, <1>6 DEF Memory
    <2> QED BY <2>1 DEF Smaller
<1>8. PICK h : h = [e EXCEPT !.healthy = basis]
    OBVIOUS
<1>9. /\ h \in Memory /\ h.healthy = basis
      /\ \A k \in {"phase", "boot_frame_high", "own_floor", "boot_hwm", "top", "opened", "ring", "rescue",
                   "hwm", "sample", "durable", "buckets", "ranges", "suspect", "lag_only", "parked", "probe",
                   "parked_confirm", "staged", "folding", "batches"} : h[k] = e[k]
    BY <1>6, <1>8, HealthyFacts
<1>10. m = ConfirmParked(h)
    BY <1>1, <1>2, <1>3, <1>5, <1>7, <1>8 DEF CleanProbe, Counted
<1>10a. h \in Memory BY <1>9
<1>11. mem.top \in Nat /\ h.hwm <= mem.top /\ \A p \in h.parked_confirm : p.parked <= mem.top
    BY <1>6a, <1>7, <1>9 DEF Marks, Memory
<1>11a. ConfirmOf(h, m, mem.top)
    BY <1>10, <1>10a, <1>11, ConfirmFacts
<1>12. /\ m \in Memory
       /\ \A k \in {"phase", "boot_frame_high", "own_floor", "boot_hwm", "top", "opened", "ring", "rescue",
                    "sample", "durable", "buckets", "suspect", "lag_only", "parked", "healthy",
                    "probe", "staged", "folding", "batches"} : m[k] = h[k]
       /\ \A q \in m.parked_confirm : q \in h.parked_confirm /\ ~q.contaminated
       /\ m.hwm = h.hwm \/ \E p \in h.parked_confirm : p.age = 2 /\ m.hwm = p.parked
       /\ h.hwm <= m.hwm /\ m.hwm <= mem.top
       /\ m.ranges \subseteq h.ranges
       /\ \A x \in h.ranges : x \in m.ranges \/ \E p \in h.parked_confirm :
                                ~p.contaminated /\ p.age = 2 /\ x \in p.lo .. p.hi
    BY <1>11a DEF ConfirmOf
<1>13. h.hwm = mem.hwm /\ h.ranges = e.ranges /\ h.parked_confirm = e.parked_confirm /\ \A p \in h.parked_confirm : p.age = 0
    BY <1>6a, <1>7, <1>9
<1>14. m.hwm = mem.hwm /\ m.ranges = e.ranges
    <2>1. \A p \in h.parked_confirm : p.age # 2 BY <1>13
    <2>2. m.hwm = mem.hwm BY <1>12, <1>13, <2>1
    <2>3. \A x \in h.ranges : x \in m.ranges BY <1>12, <2>1
    <2> QED BY <1>12, <1>13, <2>2, <2>3
<1>15. \A q \in m.parked_confirm :
                /\ mem.lag_only /\ q.parked = mem.parked /\ q.clean = 0
                /\ mem.ranges \cap (q.lo .. q.hi) = {}
    BY <1>6a, <1>12, <1>13
<1>16. \A k \in Steady : m[k] = mem[k]
    BY <1>1, <1>4, <1>6, <1>9, <1>12 DEF Steady
<1>17. m.probe = {} /\ m.folding = mem.folding
    BY <1>1, <1>4, <1>6, <1>9, <1>12
<1>18. m.suspect = FALSE /\ m.parked = 0 /\ m.healthy = basis
    BY <1>6, <1>9, <1>12
<1>19. \A d \in m.batches : \E b \in mem.batches : d.spoiled = b.spoiled
    <2>1. m.batches = c.batches /\ w.batches = mem.batches BY <1>2, <1>6, <1>9, <1>12
    <2> QED BY <1>4, <2>1
<1>20. /\ mem.ranges \subseteq m.ranges
       /\ mem.hwm < mem.parked => (suspension_range_lo(mem.hwm) .. mem.parked + Slack) \subseteq m.ranges
       /\ \A x \in m.ranges : x \in mem.ranges \/ x <= mem.parked + Slack
    BY <1>4a, <1>6, <1>14
<1> QED
    BY <1>12, <1>14, <1>15, <1>16, <1>17, <1>18, <1>19, <1>20 DEF EndsOf

-----------------------------------------------------------------------------
(* An answer is applied, and what has settled is archived.                 *)

\* The step a memory m makes once the answer is in it.
Answered(m) ==
    /\ mem' = [m EXCEPT !.batches = {b \in m.batches \ Promotable(m) : ~b.spoiled}]
    /\ \A i \in Segments : segs'[i].at = IF \E b \in Promotable(m) : b.seg = i THEN "archive" ELSE segs[i].at
    /\ segs' \in Seq(Segment) /\ SameFrames /\ UNCHANGED <<rows, table, unseen>>

\* The memory an answer leaves, batch by batch and field by field.
LEMMA AnsweredMemory ==
    ASSUME NEW m \in Memory, Answered(m)
    PROVE  /\ mem' \in Memory /\ mem'.batches = {b \in m.batches \ Promotable(m) : ~b.spoiled}
           /\ \A k \in {"phase", "boot_frame_high", "own_floor", "boot_hwm", "top", "opened", "ring", "rescue",
                        "hwm", "sample", "durable", "buckets", "ranges", "suspect", "lag_only", "parked", "probe",
                        "healthy", "parked_confirm", "staged", "folding"} : mem'[k] = m[k]
<1>1. PICK B \in SUBSET Batch : B = {b \in m.batches \ Promotable(m) : ~b.spoiled}
    BY DEF Memory
<1>2. mem' = [m EXCEPT !.batches = B]
    BY <1>1 DEF Answered
<1> QED
    BY <1>1, <1>2, BatchesFacts

\* An answer keeps the memory's part of the invariant if it keeps marked, unnoticed
\* and suspected frames among those three, and the watermark only takes in what
\* was confirmed.
LEMMA ReplyMemo ==
    ASSUME Types, Memo, mem \in Memory, mem' \in Memory, SameFrames, segs' \in Seq(Segment),
           UNCHANGED <<rows, table, unseen>>, mem'.probe = {}, \A k \in Steady : mem'[k] = mem[k],
           \A i \in Segments : segs'[i].at = segs[i].at \/ (segs[i].at = "settling" /\ segs'[i].at = "archive"),
           mem.hwm <= mem'.hwm, mem'.hwm = mem.hwm \/ \E p \in mem.parked_confirm : mem'.hwm = p.parked,
           mem'.healthy <= mem.hwm, mem'.parked \in {0, mem.parked},
           \A q \in mem'.parked_confirm : q.parked = mem.parked \/ \E p \in mem.parked_confirm : q.parked = p.parked,
           HasBound(mem'.ranges),
           \A i \in Readable : \A f \in Undurable(i) :
                Kept(i, f) \/ Unnoticed(f) \/ Suspected(f) => Kept(i, f)' \/ Unnoticed(f)' \/ Suspected(f)',
           Episode', Batches'
    PROVE  Memo'
<1>1. /\ mem'.phase = mem.phase /\ mem'.boot_frame_high = mem.boot_frame_high /\ mem'.own_floor = mem.own_floor
      /\ mem'.boot_hwm = mem.boot_hwm /\ mem'.top = mem.top /\ mem'.opened = mem.opened /\ mem'.ring = mem.ring
      /\ mem'.rescue = mem.rescue /\ mem'.sample = mem.sample /\ mem'.durable = mem.durable
      /\ mem'.buckets = mem.buckets /\ mem'.staged = mem.staged
    BY DEF Steady
<1>2. Segments' = Segments /\ Captured' = Captured
      /\ \A i \in Segments : FramesIn(i)' = FramesIn(i) /\ First(i)' = First(i)
    BY FramesKept
<1>3. Readable' \subseteq Readable /\ In({"replaying"})' \subseteq In({"replaying"}) /\ Readable \subseteq Segments
    BY <1>2 DEF Readable, In
<1>4. \A i \in Segments : Undurable(i)' = Undurable(i)
    BY <1>2 DEF Undurable
<1>5. /\ mem.hwm \in Nat /\ mem.top \in Nat /\ mem.parked \in Nat /\ mem.durable \in Nat /\ mem.sample \in Nat /\ Slack \in Nat
      /\ mem'.hwm \in Nat /\ mem'.healthy \in Nat /\ Slack > 0 /\ mem.healthy \in Nat
    BY FrameLogAssumption DEF Memory
<1>6. Marks'
    <2>1. mem'.hwm <= mem'.top /\ mem'.parked <= mem'.top /\ mem'.healthy <= mem'.hwm
        BY <1>1, <1>5 DEF Memo, Marks
    <2>2. \A q \in mem'.parked_confirm : q.parked <= mem'.top
        BY <1>1 DEF Memo, Marks
    <2>3. mem'.boot_hwm <= mem'.durable /\ mem'.durable <= mem'.hwm /\ mem'.boot_hwm <= mem'.sample /\ mem'.sample <= mem'.hwm
        BY <1>1, <1>5 DEF Memo, Marks
    <2>4. HasBound(mem.ranges)' BY DEF HasBound
    <2> QED BY <1>1, <1>2, <2>1, <2>2, <2>3, <2>4 DEF Memo, Marks
<1>7. OwnSegments'
    <2>1. mem.opened => segs[Len(segs)].at = "live" /\ Len(segs) \in Segments
        <3>1. mem.opened => segs[Len(segs)].at = "live" /\ Len(segs) > 0 BY DEF Memo, OwnSegments
        <3>2. Len(segs) > 0 => Len(segs) \in Segments BY DEF Types, Segments
        <3> QED BY <3>1, <3>2
    <2>2. mem.opened => segs'[Len(segs)].at = segs[Len(segs)].at BY <2>1
    <2> QED BY <1>1, <2>2, OwnPhase, OwnKept
<1>8. InRing'
    <2> SUFFICES ASSUME NEW f \in mem'.ring
                 PROVE  f \in Captured' /\ rows'[f] = "none" /\ f > mem'.own_floor /\ Ahead(f)'
        BY DEF InRing
    <2>1. f \in Captured /\ rows[f] = "none" /\ f > mem.own_floor /\ Ahead(f) /\ f \in Nat
        BY <1>1 DEF Memo, InRing, Memory
    <2>2. mem'.hwm < f + Slack BY <2>1 DEF Ahead
    <2>3. mem'.healthy < f + Slack BY <1>5, <2>1 DEF Ahead
    <2>4. mem'.parked < f + Slack BY <1>5, <2>1 DEF Ahead
    <2>5. \A q \in mem'.parked_confirm : q.parked < f + Slack BY <2>1 DEF Ahead
    <2>6. Ahead(f)' BY <1>1, <2>1, <2>2, <2>3, <2>4, <2>5 DEF Ahead
    <2> QED BY <1>1, <1>2, <2>1, <2>6
<1>9. InRescue'
    BY <1>1, <1>2 DEF Memo, InRescue
<1>10. AllSafe'
    <2> SUFFICES ASSUME NEW i \in Readable', NEW f \in Undurable(i)' PROVE Safe(i, f)' BY DEF AllSafe
    <2>1. i \in Readable /\ f \in Undurable(i) BY <1>3, <1>4
    <2>2. Safe(i, f) BY <2>1 DEF Memo, AllSafe
    <2>3. CASE Kept(i, f) \/ Unnoticed(f) \/ Suspected(f) BY <2>1, <2>3 DEF Safe
    <2>4. CASE Young(f) BY <1>1, <2>4 DEF Young, Safe
    <2> QED BY <1>1, <2>2, <2>3, <2>4 DEF Safe
<1>11. Staged' /\ Drained'
    BY <1>1, <1>3, <1>4 DEF Memo, Staged, Drained, In
<1> QED
    BY <1>6, <1>7, <1>8, <1>9, <1>10, <1>11 DEF Memo

\* Under suspicion nothing is promoted.
LEMMA NonePromoted ==
    ASSUME NEW m, m.suspect \/ \A b \in m.batches : b.spoiled
    PROVE  Promotable(m) = {}
BY DEF Promotable

\* An unclean answer in an episode archives nothing and keeps frames safe.
LEMMA AnswerGoesOn ==
    ASSUME Types, Sorted, Memo, mem \in Memory, mem.suspect, NEW v, NEW w, w = [mem EXCEPT !.probe = {}],
           NEW m, m = UncleanProbe(w, v)
    PROVE  m \in Memory /\ Promotable(m) = {} /\ HasBound(m.ranges) /\ (Answered(m) => Memo')
<1>1. /\ m \in Memory /\ m.probe = {} /\ (\A k \in Steady : m[k] = mem[k])
      /\ \A k \in {"hwm", "ranges", "suspect", "parked", "healthy", "parked_confirm", "folding", "batches"} : m[k] = mem[k]
      /\ m.lag_only => mem.lag_only
    BY EpisodeGoesOn
<1>2. Promotable(m) = {}
    <2>1. m.suspect BY <1>1
    <2> QED BY <2>1, NonePromoted
<1>3. HasBound(m.ranges)
    BY <1>1 DEF Memo, Marks, HasBound
<1>4. ASSUME Answered(m) PROVE Memo'
    <2>1. /\ mem' \in Memory /\ mem'.batches = {b \in m.batches \ Promotable(m) : ~b.spoiled}
          /\ \A k \in {"phase", "boot_frame_high", "own_floor", "boot_hwm", "top", "opened", "ring", "rescue",
                       "hwm", "sample", "durable", "buckets", "ranges", "suspect", "lag_only", "parked", "probe",
                       "healthy", "parked_confirm", "staged", "folding"} : mem'[k] = m[k]
        BY <1>1, <1>4, AnsweredMemory
    <2>2. /\ mem'.hwm = mem.hwm /\ mem'.ranges = mem.ranges /\ mem'.suspect = mem.suspect /\ mem'.parked = mem.parked
          /\ mem'.healthy = mem.healthy /\ mem'.parked_confirm = mem.parked_confirm /\ mem'.folding = mem.folding
          /\ mem'.probe = {} /\ (mem'.lag_only => mem.lag_only)
        BY <1>1, <2>1
    <2>3. \A k \in Steady : mem'[k] = mem[k]
        BY <1>1, <2>1 DEF Steady
    <2>4. mem.parked_confirm = {} /\ \A b \in mem.batches \cup mem.folding : b.spoiled
        BY DEF Memo, Episode
    <2>5. mem'.batches = {}
        <3>1. m.batches = mem.batches BY <1>1
        <3> QED BY <2>1, <2>4, <3>1
    <2>6. /\ SameFrames /\ segs' \in Seq(Segment) /\ UNCHANGED <<rows, table, unseen>>
          /\ \A i \in Segments : segs'[i].at = segs[i].at
        BY <1>2, <1>4 DEF Answered
    <2>7. mem'.own_floor = mem.own_floor /\ mem'.phase = mem.phase
        BY <2>3 DEF Steady
    <2>8. Segments' = Segments /\ \A i \in Segments : \A f : Near(i, f)' = Near(i, f)
        BY <2>6, FramesKept
    <2>9. Episode'
        BY <2>2, <2>4, <2>5, <2>7 DEF Memo, Episode
    <2>10. Batches'
        <3>1. \A b \in mem.folding : /\ b.seg \in Segments /\ segs[b.seg].at = "replaying"
                                     /\ b.age = 0 /\ b.clean = 0 /\ mem.phase = "fold"
            BY DEF Memo, Batches
        <3>2. \A b \in mem'.folding : Settled(b)' BY <2>2, <2>4 DEF Settled
        <3> QED BY <2>2, <2>5, <2>6, <2>7, <2>8, <3>1, <3>2 DEF Batches
    <2>11. ASSUME NEW i \in Readable, NEW f \in Undurable(i), Kept(i, f) \/ Unnoticed(f) \/ Suspected(f)
           PROVE  Kept(i, f)' \/ Unnoticed(f)' \/ Suspected(f)'
        <3>1. i \in Segments BY DEF Readable, In
        <3>2. CASE Kept(i, f) BY <2>2, <2>4, <2>8, <3>1, <3>2 DEF Kept
        <3>3. CASE Unnoticed(f) BY <3>3 DEF Unnoticed
        <3>4. CASE Suspected(f) BY <2>2, <2>6, <3>4 DEF Suspected
        <3> QED BY <2>11, <3>2, <3>3, <3>4
    <2>12. mem.hwm <= mem'.hwm /\ mem'.healthy <= mem.hwm
        BY <2>2 DEF Memo, Marks, Memory
    <2>13. HasBound(mem'.ranges) BY <2>2 DEF Memo, Marks, HasBound
    <2> QED BY <2>1, <2>2, <2>3, <2>4, <2>6, <2>9, <2>10, <2>11, <2>12, <2>13, ReplyMemo
<1> QED
    BY <1>1, <1>2, <1>3, <1>4

\* The first unclean answer: what was unnoticed is in the range it adds, since a
\* clean probe vouched only for what was acknowledged before it was sent.
LEMMA AnswerBegins ==
    ASSUME Types, Sorted, Memo, mem \in Memory, ~mem.suspect, NEW v, NEW w, w = [mem EXCEPT !.probe = {}],
           NEW m, m = UncleanProbe(w, v)
    PROVE  m \in Memory /\ Promotable(m) = {} /\ HasBound(m.ranges) /\ (Answered(m) => Memo')
<1>1. /\ m \in Memory /\ m.probe = {} /\ (\A k \in Steady : m[k] = mem[k])
      /\ m.suspect = TRUE /\ m.parked_confirm = {}
      /\ \A k \in {"hwm", "parked", "healthy"} : m[k] = mem[k]
      /\ m.ranges = mem.ranges \cup (suspension_range_lo(mem.healthy) .. mem.hwm + Slack)
      /\ \A b \in m.batches : b.spoiled
      /\ \A c \in m.folding : \E b \in mem.folding : c.seg = b.seg /\ c.age = b.age /\ c.clean = b.clean /\ c.spoiled
    <2>1. BeginsOf(m) BY EpisodeBegins
    <2> QED BY <2>1 DEF BeginsOf
<1>2. Promotable(m) = {}
    <2>1. m.suspect BY <1>1
    <2> QED BY <2>1, NonePromoted
<1>2a. mem.hwm \in Nat /\ mem.healthy \in Nat /\ Slack \in Nat /\ Slack > 0 /\ mem.healthy <= mem.hwm
    BY FrameLogAssumption DEF Memory, Memo, Marks
<1>2b. PICK lo \in Nat : /\ lo = suspension_range_lo(mem.healthy)
                         /\ lo <= suspension_range_lo(mem.hwm) /\ suspension_range_lo(mem.hwm) \in Nat
                         /\ \A x \in Nat : x > 0 /\ mem.healthy < x + Slack + Slack => lo <= x
    <2>1. /\ suspension_range_lo(mem.healthy) \in Nat
          /\ suspension_range_lo(mem.healthy) <= suspension_range_lo(mem.hwm) /\ suspension_range_lo(mem.hwm) \in Nat
          /\ \A x \in Nat : x > 0 /\ mem.healthy < x + Slack + Slack => suspension_range_lo(mem.healthy) <= x
        BY <1>2a DEF suspension_range_lo, Larger, Minus
    <2> QED BY <2>1
<1>3. HasBound(m.ranges)
    <2>1. PICK n \in Nat : \A x \in mem.ranges : x <= n BY DEF Memo, Marks, HasBound
    <2>2. \A x \in m.ranges : x \in Nat BY <1>1 DEF Memory
    <2>3. ASSUME NEW x \in m.ranges PROVE x <= n + (mem.hwm + Slack)
        <3>1. x \in Nat BY <2>2
        <3>2. CASE x \in mem.ranges BY <1>2a, <2>1, <3>1, <3>2
        <3>3. CASE x \in lo .. mem.hwm + Slack BY <1>2a, <3>1, <3>3
        <3> QED BY <1>1, <1>2b, <3>2, <3>3
    <2>4. n + (mem.hwm + Slack) \in Nat BY <1>2a
    <2> QED BY <2>3, <2>4 DEF HasBound
<1>4. ASSUME Answered(m) PROVE Memo'
    <2>1. /\ mem' \in Memory /\ mem'.batches = {b \in m.batches \ Promotable(m) : ~b.spoiled}
          /\ \A k \in {"phase", "boot_frame_high", "own_floor", "boot_hwm", "top", "opened", "ring", "rescue",
                       "hwm", "sample", "durable", "buckets", "ranges", "suspect", "lag_only", "parked", "probe",
                       "healthy", "parked_confirm", "staged", "folding"} : mem'[k] = m[k]
        BY <1>1, <1>4, AnsweredMemory
    <2>2. /\ mem'.hwm = mem.hwm /\ mem'.ranges = m.ranges /\ mem'.suspect = TRUE /\ mem'.parked = mem.parked
          /\ mem'.healthy = mem.healthy /\ mem'.parked_confirm = {} /\ mem'.folding = m.folding
          /\ mem'.probe = {}
        BY <1>1, <2>1
    <2>3. \A k \in Steady : mem'[k] = mem[k]
        <3>1. \A k \in Steady : m[k] = mem[k] BY <1>1
        <3>2. \A k \in Steady : mem'[k] = m[k] BY <2>1 DEF Steady
        <3> QED BY <3>1, <3>2
    <2>5. mem'.batches = {}
        BY <1>1, <2>1
    <2>6. /\ SameFrames /\ segs' \in Seq(Segment) /\ UNCHANGED <<rows, table, unseen>>
          /\ \A i \in Segments : segs'[i].at = segs[i].at
        BY <1>2, <1>4 DEF Answered
    <2>7. mem'.own_floor = mem.own_floor /\ mem'.phase = mem.phase
        BY <2>3 DEF Steady
    <2>8. Segments' = Segments /\ \A i \in Segments : \A f : Near(i, f)' = Near(i, f)
        BY <2>6, FramesKept
    <2>9. Episode'
        <3>1. \A x \in suspension_range_lo(mem'.hwm) .. mem'.hwm + Slack : x \in mem'.ranges
            <4> SUFFICES ASSUME NEW x \in suspension_range_lo(mem.hwm) .. mem.hwm + Slack PROVE x \in lo .. mem.hwm + Slack
                BY <1>1, <1>2b, <2>2
            <4> QED BY <1>2a, <1>2b
        <3>2. \A b \in mem'.batches \cup mem'.folding : b.spoiled BY <1>1, <2>2, <2>5
        <3> QED BY <2>2, <3>1, <3>2 DEF Episode
    <2>10. Batches'
        <3>1. \A c \in mem'.folding : /\ c.seg \in Segments /\ segs[c.seg].at = "replaying" /\ c.spoiled
                                     /\ c.age = 0 /\ c.clean = 0 /\ mem.phase = "fold"
            <4> SUFFICES ASSUME NEW c \in mem'.folding
                         PROVE  /\ c.seg \in Segments /\ segs[c.seg].at = "replaying" /\ c.spoiled
                                /\ c.age = 0 /\ c.clean = 0 /\ mem.phase = "fold"
                OBVIOUS
            <4>1. PICK b \in mem.folding : c.seg = b.seg /\ c.age = b.age /\ c.clean = b.clean /\ c.spoiled BY <1>1, <2>2
            <4> QED BY <4>1 DEF Memo, Batches
        <3>2. \A b \in mem'.folding : Settled(b)' BY <3>1 DEF Settled
        <3> QED BY <2>5, <2>6, <2>7, <2>8, <3>1, <3>2 DEF Batches
    <2>11. ASSUME NEW i \in Readable, NEW f \in Undurable(i), Kept(i, f) \/ Unnoticed(f) \/ Suspected(f)
           PROVE  Kept(i, f)' \/ Unnoticed(f)' \/ Suspected(f)'
        <3>1. i \in Segments /\ f \in FramesIn(i) BY DEF Readable, In, Undurable
        <3>2. CASE Kept(i, f) BY <1>1, <2>2, <2>8, <3>1, <3>2 DEF Kept
        <3>3. CASE Unnoticed(f)
            <4>1. Near(i, f) \subseteq lo .. mem.hwm + Slack
                <5> SUFFICES ASSUME NEW x \in Near(i, f) PROVE x \in lo .. mem.hwm + Slack OBVIOUS
                <5>1. x \in Nat /\ x > 0 /\ f <= x + Slack /\ x < f + Slack BY <3>1, NearFacts
                <5>2. f \in Nat /\ f <= mem.hwm /\ mem.healthy < f + Slack BY <3>1, <3>3, FrameFacts DEF Unnoticed
                <5>3. lo <= x BY <1>2a, <1>2b, <5>1, <5>2
                <5> QED BY <1>2a, <5>1, <5>2, <5>3
            <4>2. Near(i, f)' \subseteq mem'.ranges BY <1>1, <1>2b, <2>2, <2>8, <3>1, <4>1
            <4> QED BY <2>2, <4>2 DEF Kept
        <3>4. CASE Suspected(f) BY <3>4 DEF Suspected
        <3> QED BY <2>11, <3>2, <3>3, <3>4
    <2>12. mem.hwm <= mem'.hwm /\ mem'.healthy <= mem.hwm
        BY <1>2a, <2>2
    <2>13. HasBound(mem'.ranges) BY <1>3, <2>2 DEF HasBound
    <2> QED BY <2>1, <2>2, <2>3, <2>6, <2>9, <2>10, <2>11, <2>12, <2>13, ReplyMemo
<1> QED
    BY <1>1, <1>2, <1>3, <1>4

\* A clean answer ends an episode: what was suspected is in the range it adds,
\* and no batch is archived, as the episode spoiled all of them.
LEMMA AnswerEnds ==
    ASSUME Types, Sorted, Memo, mem \in Memory, mem.suspect, NEW p \in mem.probe, NEW w, w = [mem EXCEPT !.probe = {}],
           NEW m, m = CleanProbe(w, p.basis)
    PROVE  m \in Memory /\ Promotable(m) = {} /\ HasBound(m.ranges) /\ (Answered(m) => Memo')
<1>0. /\ Marks /\ mem.parked_confirm = {} /\ (\A b \in mem.batches \cup mem.folding : b.spoiled)
      /\ p.basis \in Nat /\ p.basis <= mem.hwm
    BY DEF Memo, Marks, Episode, Memory, Probe
<1>1. PICK basis \in Nat : basis = p.basis /\ basis <= mem.hwm
    BY <1>0
<1>2. /\ m \in Memory /\ m.probe = {} /\ (\A k \in Steady : m[k] = mem[k])
      /\ m.hwm = mem.hwm /\ m.folding = mem.folding
      /\ m.suspect = FALSE /\ m.parked = 0 /\ m.healthy = basis
      /\ mem.ranges \subseteq m.ranges
      /\ mem.hwm < mem.parked => (suspension_range_lo(mem.hwm) .. mem.parked + Slack) \subseteq m.ranges
      /\ \A x \in m.ranges : x \in mem.ranges \/ x <= mem.parked + Slack
      /\ \A q \in m.parked_confirm :
           /\ mem.lag_only /\ q.parked = mem.parked /\ q.clean = 0
           /\ mem.ranges \cap (q.lo .. q.hi) = {}
      /\ \A d \in m.batches : \E b \in mem.batches : d.spoiled = b.spoiled
    <2>1. m = CleanProbe(w, basis) BY <1>1
    <2>2. EndsOf(m, basis) BY <1>0, <1>1, <2>1, EpisodeEnds
    <2> QED BY <2>2 DEF EndsOf
<1>3. \A d \in m.batches : d.spoiled
    <2> SUFFICES ASSUME NEW d \in m.batches PROVE d.spoiled OBVIOUS
    <2>1. PICK b \in mem.batches : d.spoiled = b.spoiled BY <1>2
    <2> QED BY <1>0, <2>1
<1>4. Promotable(m) = {}
    BY <1>3, NonePromoted
<1>5. mem.hwm \in Nat /\ mem.parked \in Nat /\ Slack \in Nat /\ Slack > 0
    BY FrameLogAssumption DEF Memory
<1>6. HasBound(m.ranges)
    <2>1. PICK n \in Nat : \A x \in mem.ranges : x <= n BY <1>0 DEF Marks, HasBound
    <2>2. \A x \in m.ranges : x \in Nat BY <1>2 DEF Memory
    <2>3. ASSUME NEW x \in m.ranges PROVE x <= n + (mem.parked + Slack)
        <3>1. x \in Nat BY <2>2
        <3>2. CASE x \in mem.ranges BY <1>5, <2>1, <3>1, <3>2
        <3>3. CASE x <= mem.parked + Slack BY <1>5, <3>1, <3>3
        <3> QED BY <1>2, <3>2, <3>3
    <2>4. n + (mem.parked + Slack) \in Nat BY <1>5
    <2> QED BY <2>3, <2>4 DEF HasBound
<1>7. ASSUME Answered(m) PROVE Memo'
    <2>1. /\ mem' \in Memory /\ mem'.batches = {b \in m.batches \ Promotable(m) : ~b.spoiled}
          /\ \A k \in {"phase", "boot_frame_high", "own_floor", "boot_hwm", "top", "opened", "ring", "rescue",
                       "hwm", "sample", "durable", "buckets", "ranges", "suspect", "lag_only", "parked", "probe",
                       "healthy", "parked_confirm", "staged", "folding"} : mem'[k] = m[k]
        <3>1. m \in Memory BY <1>2
        <3> QED BY <3>1, <1>7, AnsweredMemory
    <2>2. /\ mem'.hwm = mem.hwm /\ mem'.ranges = m.ranges /\ mem'.suspect = FALSE /\ mem'.parked = 0
          /\ mem'.healthy = basis /\ mem'.parked_confirm = m.parked_confirm /\ mem'.folding = mem.folding
          /\ mem'.probe = {}
        BY <1>2, <2>1
    <2>3. \A k \in Steady : mem'[k] = mem[k]
        <3>1. \A k \in Steady : m[k] = mem[k] BY <1>2
        <3>2. \A k \in Steady : mem'[k] = m[k] BY <2>1 DEF Steady
        <3> QED BY <3>1, <3>2
    <2>5. mem'.batches = {}
        BY <1>3, <2>1
    <2>6. /\ SameFrames /\ segs' \in Seq(Segment) /\ UNCHANGED <<rows, table, unseen>>
          /\ \A i \in Segments : segs'[i].at = segs[i].at
        BY <1>4, <1>7 DEF Answered
    <2>7. mem'.own_floor = mem.own_floor /\ mem'.phase = mem.phase
        BY <2>3 DEF Steady
    <2>8. Segments' = Segments /\ \A i \in Segments : \A f : Near(i, f)' = Near(i, f)
        BY <2>6, FramesKept
    <2>9. Episode'
        BY <2>2 DEF Episode
    <2>10. Batches'
        <3>1. \A b \in mem.folding : /\ b.seg \in Segments /\ segs[b.seg].at = "replaying"
                                     /\ b.age = 0 /\ b.clean = 0 /\ mem.phase = "fold"
            BY DEF Memo, Batches
        <3>2. \A b \in mem'.folding : Settled(b)' BY <1>0, <2>2 DEF Settled
        <3> QED BY <2>2, <2>5, <2>6, <2>7, <2>8, <3>1, <3>2 DEF Batches
    <2>10a. \A q \in m.parked_confirm :
                mem.lag_only /\ q.parked = mem.parked /\ q.clean = 0 /\ mem.ranges \cap (q.lo .. q.hi) = {}
        BY <1>2
    <2>11. ASSUME NEW i \in Readable, NEW f \in Undurable(i), Kept(i, f) \/ Unnoticed(f) \/ Suspected(f)
           PROVE  Kept(i, f)' \/ Unnoticed(f)' \/ Suspected(f)'
        <3>1. i \in Segments /\ f \in FramesIn(i) BY DEF Readable, In, Undurable
        <3>2. CASE Kept(i, f)
            <4>1. Near(i, f) \subseteq mem.ranges BY <3>2 DEF Kept
            <4>2. \A q \in m.parked_confirm : Near(i, f) \cap (q.lo .. q.hi) = {} BY <2>10a, <4>1
            <4>3. Near(i, f)' = Near(i, f) BY <2>8, <3>1
            <4>4. Near(i, f) \subseteq m.ranges BY <1>2, <4>1
            <4> QED BY <2>2, <4>2, <4>3, <4>4 DEF Kept
        <3>3. CASE Unnoticed(f) BY <3>3 DEF Unnoticed
        <3>4. CASE Suspected(f)
            <4>0. f \in Nat /\ f <= mem.parked /\ mem.hwm < f /\ (mem.lag_only => table = "suspended")
                BY <3>1, <3>4, FrameFacts DEF Suspected
            <4>1. Near(i, f) \subseteq suspension_range_lo(mem.hwm) .. mem.parked + Slack
                <5> SUFFICES ASSUME NEW x \in Near(i, f) PROVE x \in suspension_range_lo(mem.hwm) .. mem.parked + Slack OBVIOUS
                <5>1. x \in Nat /\ x > 0 /\ f <= x + Slack /\ x < f + Slack BY <3>1, NearFacts
                <5>2. suspension_range_lo(mem.hwm) \in Nat /\ suspension_range_lo(mem.hwm) <= x
                    BY <1>5, <4>0, <5>1 DEF suspension_range_lo, Larger, Minus
                <5> QED BY <1>5, <4>0, <5>1, <5>2
            <4>2. mem.hwm < mem.parked BY <1>5, <4>0
            <4>3. Near(i, f)' \subseteq mem'.ranges
                <5>1. (suspension_range_lo(mem.hwm) .. mem.parked + Slack) \subseteq m.ranges BY <1>2, <4>2
                <5>2. Near(i, f)' = Near(i, f) BY <2>8, <3>1
                <5> QED BY <2>2, <4>1, <5>1, <5>2
            <4>4. ~CleanComing' BY <2>2 DEF CleanComing
            <4>5. \A q \in mem'.parked_confirm : Stuck(q)' BY <2>2, <2>6, <2>10a, <4>0, <4>4 DEF Stuck
            <4> QED BY <4>3, <4>5 DEF Kept
        <3> QED BY <2>11, <3>2, <3>3, <3>4
    <2>12. mem.hwm <= mem'.hwm /\ mem'.healthy <= mem.hwm
        BY <1>1, <1>5, <2>2
    <2>13. HasBound(mem'.ranges) BY <1>6, <2>2 DEF HasBound
    <2>14. \A q \in mem'.parked_confirm : q.parked = mem.parked BY <2>2, <2>10a
    <2> QED BY <2>1, <2>2, <2>3, <2>6, <2>9, <2>10, <2>11, <2>12, <2>13, <2>14, ReplyMemo
<1> QED
    BY <1>2, <1>4, <1>6, <1>7

\* A clean answer outside an episode: what waits for a second clean probe,
\* and has had its lags, is durable.
LEMMA AnswerClean ==
    ASSUME Types, Sorted, Memo, mem \in Memory, ~mem.suspect, NEW pr \in mem.probe, pr.verdict = "clean",
           NEW w, w = [mem EXCEPT !.probe = {}], NEW m, m = CleanProbe(w, pr.basis)
    PROVE  /\ m \in Memory /\ HasBound(m.ranges) /\ (Answered(m) => Memo')
           /\ \A b \in Promotable(m) : Undurable(b.seg) = {}
<1>0. Marks /\ pr.basis \in Nat /\ pr.basis <= mem.hwm /\ CleanComing
    BY DEF Memo, Marks, Memory, Probe, CleanComing
<1>1. PICK basis \in Nat : basis = pr.basis /\ basis <= mem.hwm
    BY <1>0
<1>2. /\ m \in Memory /\ m.probe = {} /\ (\A k \in Steady : m[k] = mem[k])
      /\ \A k \in {"suspect", "lag_only", "parked", "folding"} : m[k] = mem[k]
      /\ m.healthy = basis
      /\ m.hwm = mem.hwm \/ \E p \in mem.parked_confirm : m.hwm = p.parked
      /\ mem.hwm <= m.hwm /\ m.hwm <= mem.top
      /\ \A q \in m.parked_confirm : \E p \in mem.parked_confirm :
           q.lo = p.lo /\ q.hi = p.hi /\ q.parked = p.parked /\ ~p.contaminated
      /\ m.ranges \subseteq mem.ranges
      /\ \A x \in mem.ranges : x \in m.ranges \/ \E p \in mem.parked_confirm : ~p.contaminated /\ x \in p.lo .. p.hi
      /\ \A d \in m.batches : \E b \in mem.batches :
           /\ d = [b EXCEPT !.clean = OneOlder(@)] /\ d.seg = b.seg /\ d.age = b.age /\ d.spoiled = b.spoiled
           /\ d.clean = OneOlder(b.clean) /\ b.clean \in 0..2 /\ b.age \in 0..2
    <2>1. m = CleanProbe(w, basis) BY <1>1
    <2>2. CleanOf(m, basis) BY <1>0, <1>1, <2>1, CleanAnswer
    <2> QED BY <2>2 DEF CleanOf
<1>3. ASSUME NEW d \in m.batches
      PROVE  /\ d.seg \in Segments /\ segs[d.seg].at = "settling"
             /\ d.spoiled \/ \A f \in FramesIn(d.seg) :
                    \/ rows[f] = "disk"
                    \/ rows[f] = "fresh" /\ d.age = 0
                    \/ rows[f] = "aging" /\ d.age < 2
                    \/ rows[f] = "lied" /\ table = "suspended" /\ d.clean = 1
    <2>1. PICK b \in mem.batches : /\ d.seg = b.seg /\ d.age = b.age /\ d.spoiled = b.spoiled
                                   /\ d.clean = OneOlder(b.clean) /\ b.clean \in 0..2 /\ b.age \in 0..2
        BY <1>2
    <2>2. b.seg \in Segments /\ segs[b.seg].at = "settling" /\ Settled(b) BY DEF Memo, Batches
    <2>3. b.clean = 0 => d.clean = 1 BY <2>1, OneOlderFacts
    <2> QED BY <1>0, <2>1, <2>2, <2>3 DEF Settled
<1>4. ASSUME NEW d \in m.batches, NEW e \in m.batches, d.seg = e.seg PROVE d = e
    <2>1. PICK b \in mem.batches : d = [b EXCEPT !.clean = OneOlder(@)] /\ d.seg = b.seg BY <1>2
    <2>2. PICK c \in mem.batches : e = [c EXCEPT !.clean = OneOlder(@)] /\ e.seg = c.seg BY <1>2
    <2>3. b = c BY <1>4, <2>1, <2>2 DEF Memo, Batches
    <2> QED BY <2>1, <2>2, <2>3
<1>5. ASSUME NEW d \in Promotable(m) PROVE d \in m.batches /\ Undurable(d.seg) = {}
    <2>1. d \in m.batches /\ ~d.spoiled /\ d.age = 2 /\ d.clean = 2 BY DEF Promotable
    <2>1a. \A f \in FramesIn(d.seg) :
                \/ rows[f] = "disk"
                \/ rows[f] = "fresh" /\ d.age = 0
                \/ rows[f] = "aging" /\ d.age < 2
                \/ rows[f] = "lied" /\ table = "suspended" /\ d.clean = 1
        BY <1>3, <2>1
    <2>1b. d.age # 0 /\ ~(d.age < 2) /\ d.clean # 1 BY <2>1
    <2>2. \A f \in FramesIn(d.seg) : rows[f] = "disk" BY <2>1a, <2>1b
    <2> QED BY <2>1, <2>2 DEF Undurable
<1>6. HasBound(m.ranges)
    BY <1>0, <1>2 DEF Marks, HasBound
<1>7. ASSUME Answered(m) PROVE Memo'
    <2>1. /\ mem' \in Memory /\ mem'.batches = {b \in m.batches \ Promotable(m) : ~b.spoiled}
          /\ \A k \in {"phase", "boot_frame_high", "own_floor", "boot_hwm", "top", "opened", "ring", "rescue",
                       "hwm", "sample", "durable", "buckets", "ranges", "suspect", "lag_only", "parked", "probe",
                       "healthy", "parked_confirm", "staged", "folding"} : mem'[k] = m[k]
        <3>1. m \in Memory BY <1>2
        <3> QED BY <3>1, <1>7, AnsweredMemory
    <2>2. /\ mem'.hwm = m.hwm /\ mem'.ranges = m.ranges /\ mem'.suspect = mem.suspect /\ mem'.parked = mem.parked
          /\ mem'.healthy = basis /\ mem'.parked_confirm = m.parked_confirm /\ mem'.folding = mem.folding
          /\ mem'.probe = {}
        BY <1>2, <2>1
    <2>3. \A k \in Steady : mem'[k] = mem[k]
        <3>1. \A k \in Steady : m[k] = mem[k] BY <1>2
        <3>2. \A k \in Steady : mem'[k] = m[k] BY <2>1 DEF Steady
        <3> QED BY <3>1, <3>2
    <2>4. /\ SameFrames /\ segs' \in Seq(Segment) /\ UNCHANGED <<rows, table, unseen>>
          /\ \A i \in Segments : segs'[i].at = IF \E b \in Promotable(m) : b.seg = i THEN "archive" ELSE segs[i].at
        BY <1>7 DEF Answered
    <2>5. \A i \in Segments : segs'[i].at = segs[i].at \/ (segs[i].at = "settling" /\ segs'[i].at = "archive")
        <3> SUFFICES ASSUME NEW i \in Segments, segs'[i].at # segs[i].at
                     PROVE  segs[i].at = "settling" /\ segs'[i].at = "archive"
            OBVIOUS
        <3>1. PICK b \in Promotable(m) : b.seg = i BY <2>4
        <3>2. segs[i].at = "settling" BY <1>3, <1>5, <3>1
        <3> QED BY <2>4, <3>1, <3>2
    <2>6. mem'.own_floor = mem.own_floor /\ mem'.phase = mem.phase /\ mem'.durable = mem.durable /\ mem'.sample = mem.sample
        BY <2>3 DEF Steady
    <2>7. Segments' = Segments /\ (\A i \in Segments : FramesIn(i)' = FramesIn(i))
          /\ \A i \in Segments : \A f : Near(i, f)' = Near(i, f)
        BY <2>4, FramesKept
    <2>8. ~CleanComing' BY <2>2 DEF CleanComing
    <2>9. Episode'
        BY <2>2 DEF Episode
    <2>10. Batches'
        <3>1. ASSUME NEW d \in mem'.batches
              PROVE  d \in m.batches /\ d.seg \in Segments' /\ segs'[d.seg].at = "settling" /\ Settled(d)'
            <4>1. d \in m.batches /\ d \notin Promotable(m) BY <2>1
            <4>2. d.seg \in Segments /\ segs[d.seg].at = "settling" BY <1>3, <4>1
            <4>3. ~ \E b \in Promotable(m) : b.seg = d.seg BY <1>4, <1>5, <4>1
            <4>4. segs'[d.seg].at = "settling" BY <2>4, <4>2, <4>3
            <4>5. d.spoiled \/ \A f \in FramesIn(d.seg) :
                    \/ rows[f] = "disk"
                    \/ rows[f] = "fresh" /\ d.age = 0
                    \/ rows[f] = "aging" /\ d.age < 2
                    \/ rows[f] = "lied" /\ table = "suspended" /\ d.clean = 1
                BY <1>3, <4>1
            <4>6. FramesIn(d.seg)' = FramesIn(d.seg) BY <2>7, <4>2
            <4>7. Settled(d)' BY <2>4, <2>8, <4>5, <4>6 DEF Settled
            <4> QED BY <2>7, <4>1, <4>2, <4>4, <4>7
        <3>2. ASSUME NEW b \in mem'.folding
              PROVE  /\ b.seg \in Segments' /\ segs'[b.seg].at = "replaying" /\ Settled(b)'
                     /\ b.age = 0 /\ b.clean = 0 /\ mem'.phase = "fold"
            <4>1. /\ b.seg \in Segments /\ segs[b.seg].at = "replaying" /\ Settled(b)
                  /\ b.age = 0 /\ b.clean = 0 /\ mem.phase = "fold"
                BY <2>2 DEF Memo, Batches
            <4>2. segs'[b.seg].at = "replaying" BY <2>5, <4>1
            <4>3. Settled(b)' BY <2>4, <2>7, <4>1 DEF Settled
            <4> QED BY <2>6, <2>7, <4>1, <4>2, <4>3
        <3>3. mem'.phase = "boot" => mem'.batches = {}
            <4> SUFFICES ASSUME mem.phase = "boot", NEW d \in mem'.batches PROVE FALSE BY <2>6
            <4>1. mem.batches = {} BY DEF Memo, Batches
            <4>2. d \in m.batches BY <3>1
            <4> QED BY <1>2, <4>1, <4>2
        <3> QED BY <1>4, <3>1, <3>2, <3>3 DEF Batches
    <2>11. ASSUME NEW i \in Readable, NEW f \in Undurable(i), Kept(i, f) \/ Unnoticed(f) \/ Suspected(f)
           PROVE  Kept(i, f)' \/ Unnoticed(f)' \/ Suspected(f)'
        <3>1. i \in Segments /\ f \in FramesIn(i) BY DEF Readable, In, Undurable
        <3>2. CASE Kept(i, f)
            <4>1. Near(i, f) \subseteq mem.ranges BY <3>2 DEF Kept
            <4>2. \A p \in mem.parked_confirm : p.contaminated \/ Near(i, f) \cap (p.lo .. p.hi) = {}
                BY <1>0, <3>2 DEF Kept, Stuck
            <4>3. Near(i, f)' = Near(i, f) BY <2>7, <3>1
            <4>4. ASSUME NEW x \in Near(i, f) PROVE x \in m.ranges
                <5>1. x \in m.ranges \/ \E p \in mem.parked_confirm : ~p.contaminated /\ x \in p.lo .. p.hi
                    BY <1>2, <4>1
                <5> QED BY <4>2, <5>1
            <4>5. ASSUME NEW q \in m.parked_confirm PROVE Near(i, f) \cap (q.lo .. q.hi) = {}
                <5>1. PICK p \in mem.parked_confirm : q.lo = p.lo /\ q.hi = p.hi /\ ~p.contaminated BY <1>2
                <5>2. Near(i, f) \cap (p.lo .. p.hi) = {} BY <4>2, <5>1
                <5> QED BY <5>1, <5>2
            <4> QED BY <2>2, <4>3, <4>4, <4>5 DEF Kept
        <3>3. CASE Unnoticed(f)
            <4>1. basis < f + Slack BY <1>1, <3>3 DEF Unnoticed
            <4>2. f \in Nat /\ f <= m.hwm
                <5>1. f \in Nat /\ f <= mem.hwm BY <3>1, <3>3, FrameFacts DEF Unnoticed
                <5>2. mem.hwm \in Nat /\ m.hwm \in Nat /\ mem.hwm <= m.hwm BY <1>2 DEF Memory
                <5> QED BY <5>1, <5>2
            <4> QED BY <2>2, <2>4, <2>6, <3>3, <4>1, <4>2 DEF Unnoticed
        <3>4. CASE Suspected(f) BY <3>4 DEF Suspected
        <3> QED BY <2>11, <3>2, <3>3, <3>4
    <2>12. mem.hwm <= mem'.hwm /\ mem'.healthy <= mem.hwm
        BY <1>1, <1>2, <2>2
    <2>13. HasBound(mem'.ranges) BY <1>6, <2>2 DEF HasBound
    <2>14. \A q \in mem'.parked_confirm : \E p \in mem.parked_confirm : q.parked = p.parked
        <3> SUFFICES ASSUME NEW q \in m.parked_confirm PROVE \E p \in mem.parked_confirm : q.parked = p.parked BY <2>2
        <3>1. PICK p \in mem.parked_confirm : q.lo = p.lo /\ q.hi = p.hi /\ q.parked = p.parked BY <1>2
        <3> QED BY <3>1
    <2>15. mem'.hwm = mem.hwm \/ \E p \in mem.parked_confirm : mem'.hwm = p.parked
        <3>1. m.hwm = mem.hwm \/ \E p \in mem.parked_confirm : m.hwm = p.parked BY <1>2
        <3> QED BY <2>2, <3>1
    <2> QED BY <2>1, <2>2, <2>3, <2>4, <2>5, <2>9, <2>10, <2>11, <2>12, <2>13, <2>14, <2>15, ReplyMemo
<1> QED
    BY <1>2, <1>5, <1>6, <1>7

\* Every answer, in one of its four cases.
LEMMA Answer ==
    ASSUME Inv, Up, NEW pr \in mem.probe, NEW w, w = [mem EXCEPT !.probe = {}],
           NEW m, m = IF pr.verdict = "clean" THEN CleanProbe(w, pr.basis) ELSE UncleanProbe(w, pr.verdict)
    PROVE  /\ m \in Memory /\ HasBound(m.ranges) /\ (Answered(m) => Memo')
           /\ \A b \in Promotable(m) : Undurable(b.seg) = {}
<1>1. Types /\ Sorted /\ Memo /\ mem \in Memory
    BY MemTypes DEF Inv, Disk
<1>2. CASE pr.verdict = "clean" /\ mem.suspect
    <2>1. m = CleanProbe(w, pr.basis) BY <1>2
    <2> QED BY <1>1, <1>2, <2>1, AnswerEnds
<1>3. CASE pr.verdict = "clean" /\ ~mem.suspect
    <2>1. m = CleanProbe(w, pr.basis) BY <1>3
    <2> QED BY <1>1, <1>3, <2>1, AnswerClean
<1>4. CASE pr.verdict # "clean" /\ mem.suspect
    <2>1. PICK v : v = pr.verdict OBVIOUS
    <2>2. m = UncleanProbe(w, v) BY <1>4, <2>1
    <2> QED BY <1>1, <1>4, <2>2, AnswerGoesOn
<1>5. CASE pr.verdict # "clean" /\ ~mem.suspect
    <2>1. PICK v : v = pr.verdict OBVIOUS
    <2>2. m = UncleanProbe(w, v) BY <1>5, <2>1
    <2> QED BY <1>1, <1>5, <2>2, AnswerBegins
<1> QED
    BY <1>2, <1>3, <1>4, <1>5

\* An answer keeps what no answer changes.
LEMMA AnswerSteady ==
    ASSUME Inv, Up, NEW pr \in mem.probe, NEW w, w = [mem EXCEPT !.probe = {}],
           NEW m, m = IF pr.verdict = "clean" THEN CleanProbe(w, pr.basis) ELSE UncleanProbe(w, pr.verdict)
    PROVE  m.durable = mem.durable /\ m.own_floor = mem.own_floor /\ m.phase = mem.phase
<1>1. Types /\ Marks /\ Memo /\ mem \in Memory
    BY MemTypes DEF Inv, Disk, Memo
<1>2. PICK basis \in Nat : basis = pr.basis /\ basis <= mem.hwm
    BY <1>1 DEF Marks, Memory, Probe
<1>3. \A k \in Steady : m[k] = mem[k]
    <2>1. CASE pr.verdict = "clean" /\ mem.suspect
        <3>1. m = CleanProbe(w, basis) BY <1>2, <2>1
        <3>2. mem.parked_confirm = {} BY <1>1, <2>1 DEF Memo, Episode
        <3>3. EndsOf(m, basis) BY <1>1, <1>2, <2>1, <3>1, <3>2, EpisodeEnds
        <3> QED BY <3>3 DEF EndsOf
    <2>2. CASE pr.verdict = "clean" /\ ~mem.suspect
        <3>1. m = CleanProbe(w, basis) BY <1>2, <2>2
        <3>2. CleanOf(m, basis) BY <1>1, <1>2, <2>2, <3>1, CleanAnswer
        <3> QED BY <3>2 DEF CleanOf
    <2>3. CASE pr.verdict # "clean" /\ mem.suspect
        <3>1. PICK v : v = pr.verdict OBVIOUS
        <3>2. m = UncleanProbe(w, v) BY <2>3, <3>1
        <3> QED BY <1>1, <2>3, <3>2, EpisodeGoesOn
    <2>4. CASE pr.verdict # "clean" /\ ~mem.suspect
        <3>1. PICK v : v = pr.verdict OBVIOUS
        <3>2. m = UncleanProbe(w, v) BY <2>4, <3>1
        <3>3. BeginsOf(m) BY <1>1, <2>4, <3>2, EpisodeBegins
        <3> QED BY <3>3 DEF BeginsOf
    <2> QED BY <2>1, <2>2, <2>3, <2>4
<1> QED
    BY <1>3 DEF Steady

\* note_questdb_probe_full and promote_settled_now.
LEMMA ProbeReplyStep ==
    ASSUME Inv, ProbeReply
    PROVE  Inv'
<1>1. Up /\ UNCHANGED <<rows, table, unseen, scenario>>
    BY DEF ProbeReply, world
<1>2. PICK pr \in mem.probe :
        LET m == IF pr.verdict = "clean" THEN CleanProbe([mem EXCEPT !.probe = {}], pr.basis)
                 ELSE UncleanProbe([mem EXCEPT !.probe = {}], pr.verdict)
            done == Promotable(m)
            after == [m EXCEPT !.batches = {b \in @ \ done : ~b.spoiled}]
        IN  /\ IF m.ranges = mem.ranges
               THEN mem' = after /\ UNCHANGED <<file, sidecar, crashes>>
               ELSE Save(after)
            /\ segs' = IF mem'.phase = "down" THEN segs
                       ELSE MovedTo([i \in Segments |->
                                IF \E b \in done : b.seg = i THEN "archive" ELSE segs[i].at])
    BY DEF ProbeReply
<1>3. PICK w : w = [mem EXCEPT !.probe = {}]
    OBVIOUS
<1>4. PICK m : m = IF pr.verdict = "clean" THEN CleanProbe(w, pr.basis) ELSE UncleanProbe(w, pr.verdict)
    OBVIOUS
<1>5. /\ m \in Memory /\ HasBound(m.ranges) /\ (Answered(m) => Memo')
      /\ \A b \in Promotable(m) : Undurable(b.seg) = {}
    BY <1>1, <1>3, <1>4, Answer
<1>6. m.durable = mem.durable /\ m.own_floor = mem.own_floor /\ m.phase = mem.phase
    BY <1>1, <1>3, <1>4, AnswerSteady
<1>7. PICK B \in SUBSET Batch : B = {b \in m.batches \ Promotable(m) : ~b.spoiled}
    BY <1>5 DEF Memory
<1>8. PICK after : after = [m EXCEPT !.batches = B]
    OBVIOUS
<1>9. after \in Memory /\ after.ranges = m.ranges /\ after.durable = mem.durable /\ after.own_floor = mem.own_floor
      /\ after.phase = mem.phase /\ after.phase # "down"
    <2>1. m \in Memory BY <1>5
    <2>2. after \in Memory /\ after.ranges = m.ranges /\ after.durable = m.durable /\ after.own_floor = m.own_floor
          /\ after.phase = m.phase
        BY <2>1, <1>8, BatchesFacts
    <2> QED BY <1>1, <1>6, <2>2 DEF Up
<1>10. PICK to : to = [i \in Segments |-> IF \E b \in Promotable(m) : b.seg = i THEN "archive" ELSE segs[i].at]
    OBVIOUS
<1>11. /\ IF m.ranges = mem.ranges THEN mem' = after /\ UNCHANGED <<file, sidecar, crashes>> ELSE Save(after)
       /\ segs' = IF mem'.phase = "down" THEN segs ELSE MovedTo(to)
    BY <1>2, <1>3, <1>4, <1>7, <1>8, <1>10
<1>12. Types /\ Disk /\ mem \in Memory
    BY <1>1, MemTypes DEF Inv, Disk
<1>13. \A i \in Segments : to[i] \in Folders
    <2>1. \A i \in Segments : segs[i] \in Segment BY <1>12 DEF Types, Segments
    <2>2. \A i \in Segments : segs[i].at \in Folders BY <2>1 DEF Segment
    <2> QED BY <1>10, <2>2 DEF Folders
<1>14. Down.phase = "down"
    BY DEF Down
<1>15. CASE mem' = after
    <2>1. segs' = MovedTo(to) BY <1>9, <1>11, <1>15
    <2>2. segs' \in Seq(Segment) /\ SameFrames /\ Segments' = Segments /\ \A i \in Segments : segs'[i].at = to[i]
        BY <1>12, <1>13, <2>1, Moved
    <2>3. \A i \in Segments : segs'[i].at = IF \E b \in Promotable(m) : b.seg = i THEN "archive" ELSE segs[i].at
        BY <1>10, <2>2
    <2>4. Answered(m) BY <1>1, <1>7, <1>8, <1>15, <2>2, <2>3 DEF Answered
    <2>5. Memo' BY <1>5, <2>4
    <2>6. \A i \in Segments : segs'[i].at \in {"archive", "gone"} =>
                segs[i].at \in {"archive", "gone"} \/ Undurable(i) = {}
        <3> SUFFICES ASSUME NEW i \in Segments, segs'[i].at # segs[i].at PROVE Undurable(i) = {}
            OBVIOUS
        <3>1. PICK b \in Promotable(m) : b.seg = i BY <2>3
        <3> QED BY <1>5, <3>1
    <2>7. CASE m.ranges = mem.ranges
        <3>1. UNCHANGED <<file, sidecar, crashes>> BY <1>11, <2>7
        <3>2. DiskStays BY <1>1 DEF DiskStays
        <3>3. Disk'
            BY <1>1, <1>9, <1>12, <1>15, <2>2, <2>6, <3>1, <3>2, DiskKept DEF Types
        <3>4. Readable' \subseteq Readable
            BY <2>2, <2>3 DEF Readable, In
        <3>5. mem.durable <= mem'.durable BY <1>9, <1>12, <1>15 DEF Memory
        <3>6. mem'.ranges = mem.ranges /\ mem'.own_floor = mem.own_floor /\ mem' \in Memory
            BY <1>9, <1>15, <2>7
        <3> QED BY <1>1, <1>12, <2>2, <2>5, <3>1, <3>2, <3>3, <3>4, <3>5, <3>6, Unsaved
    <2>8. CASE m.ranges # mem.ranges
        <3>1. Save(after) BY <1>11, <2>8
        <3>2. HasBound(after.ranges) BY <1>5, <1>9
        <3>3. table' \in {"ok", "lag", "suspended"} /\ unseen' \in {0, 1} BY <1>1, <1>12 DEF Types
        <3>4. ~(mem' = Down) BY <1>9, <1>14, <1>15
        <3> QED BY <1>1, <1>9, <2>2, <2>5, <2>6, <3>1, <3>2, <3>3, <3>4, SaveKeeps
    <2> QED BY <2>7, <2>8
<1>16. CASE mem' # after
    <2>1. Save(after) BY <1>11, <1>16
    <2>2. mem' = Down BY <1>16, <2>1 DEF Save
    <2>3. segs' = segs BY <1>11, <1>14, <2>2
    <2>4. segs' \in Seq(Segment) /\ SameFrames BY <1>12, <2>3 DEF Types, SameFrames
    <2>5. \A i \in Segments : segs'[i].at = segs[i].at BY <2>3
    <2>6. HasBound(after.ranges) BY <1>5, <1>9
    <2>7. table' \in {"ok", "lag", "suspended"} /\ unseen' \in {0, 1} BY <1>1, <1>12 DEF Types
    <2> QED BY <1>1, <1>9, <1>16, <2>1, <2>3, <2>4, <2>5, <2>6, <2>7, SaveKeeps
<1> QED
    BY <1>15, <1>16

-----------------------------------------------------------------------------
(* The theorems.                                                           *)

\* The empty log satisfies the invariant.
LEMMA InvInit ==
    ASSUME Init
    PROVE  Inv
<1>1. Segments = {} /\ (\A folders : In(folders) = {}) /\ Captured = {} /\ DOMAIN rows = {} /\ segs \in Seq(Segment)
    <2>1. Segments = {} BY DEF Init, Segments
    <2>2. \A folders : In(folders) = {} BY <2>1 DEF In
    <2>3. Captured = {} BY <2>1 DEF Captured, FramesOf
    <2> QED BY <2>1, <2>2, <2>3 DEF Init
<1>2. BucketSize \in Nat /\ file = [hwm |-> BucketSize, buckets |-> {}, ranges |-> {}, encoded |-> {}]
    BY FrameLogAssumption DEF Init
<1>3. file \in File /\ file.hwm = BucketSize /\ file.ranges = {}
    BY <1>2 DEF File
<1>4. Types
    BY <1>1, <1>3 DEF Types, Init
<1>5. Sorted /\ Retired
    BY <1>1 DEF Sorted, Retired, FramesOf
<1>6. HasBound({})
    BY DEF HasBound
<1>7. Honest(file)
    BY <1>1 DEF Honest, Readable
<1>8. Encodes(file)
    <2>1. 0 \in 0 .. file.hwm + 1 BY <1>2, <1>3
    <2>2. 0 \notin Captured BY <1>1
    <2> QED BY <1>3, <2>1, <2>2 DEF Encodes
<1>9. ~Up
    BY DEF Init, Up, Down
<1> QED
    BY <1>1, <1>3, <1>4, <1>5, <1>6, <1>7, <1>8, <1>9 DEF Inv, Disk, Files, Init

\* So does a state that is left as it is.
LEMMA StutterStep ==
    ASSUME Inv, UNCHANGED vars
    PROVE  Inv'
<1>1. UNCHANGED <<segs, rows, table, unseen, mem, file, sidecar, crashes, scenario>>
    BY DEF vars
<1>2. Disk'
    BY <1>1, Still, DiskKept DEF Inv, Disk, Types
<1>3. CASE ~Up
    <2>1. ~Up' BY <1>1, <1>3 DEF Up
    <2> QED BY <1>1, <1>2, <2>1, Still, Lifeless DEF Inv, Files, HasBound
<1>4. CASE Up
    <2>1. Memo /\ mem \in Memory
        BY <1>4, MemTypes DEF Inv, Disk
    <2>2. AllSafe'
        BY <1>1, <2>1, Still DEF Memo, AllSafe, Safe, Kept, Stuck, CleanComing, Young, Unnoticed, Suspected
    <2>3. Batches'
        BY <1>1, <2>1, Still DEF Memo, Batches, Settled, CleanComing, Segments
    <2>4. Memo'
        BY <1>1, <2>1, <2>2, <2>3, MemoStill
    <2>5. mem.durable <= mem'.durable
        BY <1>1, <2>1 DEF Memory
    <2> QED BY <1>1, <1>2, <1>4, <2>1, <2>4, <2>5, Still, Unsaved
<1> QED
    BY <1>3, <1>4

\* The scenarios without the fault "read".  With it ArchivedIsDurable is false,
\* as run frame_log_drain shows: the drain takes a segment it could not read
\* for one with nothing left.
EveryRead == \A c \in Scenarios : "read" \notin c.faults

\* Every step preserves the invariant, when no segment is unreadable.
LEMMA InvStep ==
    ASSUME EveryRead, Inv, [Next]_vars
    PROVE  Inv'
<1>1. "read" \notin scenario.faults
    BY DEF EveryRead, Inv, Disk, Types
<1>2. CASE TableSuspends \/ TableResumes \/ TableLags BY <1>2, TableSteps
<1>3. CASE LagPasses BY <1>3, LagStep
<1>4. CASE Crash BY <1>4, CrashStep
<1>5. CASE Boot BY <1>5, BootStep
<1>6. CASE Recover BY <1>6, RecoverStep
<1>7. CASE ReplayPass BY <1>1, <1>7, ReplayStep
<1>8. CASE FoldChunk BY <1>8, FoldStep
<1>9. CASE SettleChunk BY <1>9, SettleStep
<1>10. CASE EndRound BY <1>10, EndRoundStep
<1>11. CASE StopDrain BY <1>11, StopStep
<1>12. CASE EndDrained BY <1>12, EndDrainedStep
<1>13. CASE EndStopped BY <1>13, EndStoppedStep
<1>14. CASE Capture BY <1>14, CaptureStep
<1>15. CASE SinkAcks BY <1>15, SinkStep
<1>16. CASE WriteFails BY <1>16, WriteFailsStep
<1>17. CASE RescueEnds BY <1>17, RescueStep
<1>18. CASE Persist BY <1>18, PersistStep
<1>19. CASE Prune BY <1>19, PruneStep
<1>20. CASE ProbeSend BY <1>20, ProbeSendStep
<1>21. CASE ProbeReply BY <1>21, ProbeReplyStep
<1>22. CASE UNCHANGED vars BY <1>22, StutterStep
<1> QED
    BY <1>2, <1>3, <1>4, <1>5, <1>6, <1>7, <1>8, <1>9, <1>10, <1>11, <1>12, <1>13, <1>14, <1>15, <1>16,
       <1>17, <1>18, <1>19, <1>20, <1>21, <1>22 DEF Next

\* The invariant holds throughout.
LEMMA Invariant ==
    ASSUME EveryRead
    PROVE  Spec => []Inv
<1>1. Init => Inv
    BY InvInit
<1>2. Inv /\ [Next]_vars => Inv'
    BY InvStep
<1> QED
    BY <1>1, <1>2, PTL DEF Spec

\* What the invariant says of the properties.
LEMMA InvGives ==
    ASSUME Inv
    PROVE  TypeOK /\ ArchivedIsDurable /\ FileIsHonest
<1>1. Types /\ Sorted /\ Retired /\ Honest(file) /\ Encodes(file)
    BY DEF Inv, Disk, Files
<1>2. TypeOK
    <2>1. \A i \in Segments : segs[i] \in Segment BY <1>1 DEF Types, Segments
    <2>2. \A i \in Segments : segs[i].at \in Folders /\ segs[i].frames # <<>> BY <1>1, <2>1 DEF Types, Segment
    <2>3. Up => mem.durable <= mem.hwm /\ mem.sample <= mem.hwm /\ \A b \in mem.batches : segs[b.seg].at = "settling"
        BY DEF Inv, Memo, Marks, Batches
    <2> QED BY <1>1, <2>2, <2>3 DEF TypeOK, Types
<1>3. ArchivedIsDurable
    BY <1>1 DEF Retired, ArchivedIsDurable
<1>4. FileIsHonest
    <2> SUFFICES ASSUME NEW f \in FramesOf(In({"live", "replaying"})), rows[f] # "disk"
                 PROVE  ~frame_is_applied(Loaded, f)
        BY DEF FileIsHonest
    <2>1. PICK i \in Readable : f \in FramesIn(i) BY DEF FramesOf, Readable, FramesIn
    <2>2. f \in Undurable(i) BY <2>1 DEF Undurable
    <2> QED BY <1>1, <2>2, FrameSkip
<1> QED
    BY <1>2, <1>3, <1>4

\* Segments, rows and folders are what they should be, the samples of the
\* watermark never pass it, and a batch that waits has its segment in settling/,
\* for any slack, bucket size and number of frames, segments and crashes.
THEOREM TypeCorrect ==
    ASSUME EveryRead
    PROVE  Spec => []TypeOK
BY Invariant, InvGives, PTL

\* The replay, the promotion of settled batches and the prune archive or
\* delete a segment only when all its frames are durable.
THEOREM SegmentsOutliveTheirFrames ==
    ASSUME EveryRead
    PROVE  Spec => []ArchivedIsDurable
BY Invariant, InvGives, PTL

\* Whatever the files on disk vouch for, frame by frame, at any moment a
\* crash could strike, is durable.
THEOREM SkippedIsDurable ==
    ASSUME EveryRead
    PROVE  Spec => []FileIsHonest
BY Invariant, InvGives, PTL

-----------------------------------------------------------------------------
(* The log keeps the promise of CapturedLog.                               *)

\* The refinement mapping, by name.
Leaving == FramesOf(In({"archive", "gone"}))
Durable == {f \in DOMAIN rows : rows[f] = "disk"}

PromiseKept == Promise!Next \/ UNCHANGED Promise!vars

\* A step that leaves the segments and undoes nothing durable lands frames.
LEMMA Landing ==
    ASSUME segs' = segs, DiskStays
    PROVE  PromiseKept
<1>1. Leaving' = Leaving
    BY DEF Leaving, FramesOf, In, Segments
<1>2. DOMAIN rows' = DOMAIN rows /\ Durable \subseteq Durable' /\ Durable' \subseteq DOMAIN rows
    BY DEF Durable, DiskStays
<1> QED
    BY <1>1, <1>2 DEF PromiseKept, Promise!Next, Promise!Land, Leaving, Durable

\* A step that only moves segments, none back from the archive, retires frames.
LEMMA Leaves ==
    ASSUME Inv, Inv', rows' = rows, SameFrames,
           \A i \in Segments : segs[i].at \in {"archive", "gone"} => segs'[i].at \in {"archive", "gone"}
    PROVE  PromiseKept
<1>1. Segments' = Segments /\ \A i \in Segments : FramesIn(i)' = FramesIn(i)
    BY FramesKept
<1>2. Leaving \subseteq Leaving'
    <2> SUFFICES ASSUME NEW f \in Leaving PROVE f \in Leaving' OBVIOUS
    <2>1. PICK i \in Segments : segs[i].at \in {"archive", "gone"} /\ f \in FramesIn(i)
        BY DEF Leaving, FramesOf, In, FramesIn
    <2>2. i \in Segments' /\ segs'[i].at \in {"archive", "gone"} /\ f \in FramesIn(i)' BY <1>1, <2>1
    <2> QED BY <2>2 DEF Leaving, FramesOf, In, FramesIn
<1>3. Leaving' \subseteq Durable
    <2> SUFFICES ASSUME NEW f \in Leaving' PROVE f \in Durable OBVIOUS
    <2>1. rows'[f] = "disk" BY DEF Inv, Disk, Retired, Leaving
    <2>2. f \in Captured' BY DEF Leaving, Captured, FramesOf, In
    <2>3. Captured' = DOMAIN rows' BY DEF Inv, Disk, Types
    <2> QED BY <2>1, <2>2, <2>3 DEF Durable
<1>4. DOMAIN rows' = DOMAIN rows /\ Durable' = Durable
    BY DEF Durable
<1> QED
    BY <1>2, <1>3, <1>4 DEF PromiseKept, Promise!Next, Promise!Retire, Leaving, Durable

\* A capture adds a frame that is neither durable nor retired.
LEMMA Captures ==
    ASSUME Inv, Capture
    PROVE  PromiseKept
<1>1. Up /\ Types /\ OwnSegments /\ mem \in Memory
    BY MemTypes DEF Capture, Inv, Disk, Memo
<1>2. PICK s \in ({mem.top + d : d \in scenario.steps} \cup (Minus(mem.top, Slack - 1) .. mem.top - 1)) \ Captured,
           rotate \in BOOLEAN :
        /\ ~mem.opened => rotate
        /\ segs' = IF rotate THEN Append(segs, [frames |-> <<s>>, at |-> "live"])
                   ELSE [segs EXCEPT ![Len(segs)].frames = Append(@, s)]
        /\ rows' = [f \in DOMAIN rows \cup {s} |-> IF f = s THEN "none" ELSE rows[f]]
    BY DEF Capture
<1>3. DOMAIN rows = Captured /\ s \notin DOMAIN rows
    BY <1>1, <1>2 DEF Types
<1>4. DOMAIN rows \subseteq DOMAIN rows'
    BY <1>2
<1>5. Durable' = Durable
    BY <1>2, <1>3 DEF Durable
<1>6. s \in Nat
    <2>1. Inv' BY CaptureStep
    <2>2. s \in DOMAIN rows' /\ DOMAIN rows' = Captured' BY <1>2, <2>1 DEF Inv, Disk, Types
    <2>3. PICK i \in Segments' : s \in Range(segs'[i].frames) BY <2>2 DEF Captured, FramesOf
    <2>4. segs' \in Seq(Segment) BY <2>1 DEF Inv, Disk, Types
    <2>5. segs'[i] \in Segment BY <2>3, <2>4 DEF Segments
    <2>6. segs'[i].frames \in Seq(Nat) BY <2>5 DEF Segment
    <2> QED BY <2>3, <2>6 DEF Range
<1>7. PICK n \in Nat :
            /\ Segments' = Segments \cup {n}
            /\ (\A i \in Segments : i # n => segs'[i] = segs[i])
            /\ segs'[n].at = "live"
            /\ (n \in Segments => segs[n].at = "live")
    BY <1>1, <1>2, <1>6, Appended
<1>8. In({"archive", "gone"})' = In({"archive", "gone"})
      /\ \A i \in In({"archive", "gone"}) : segs'[i] = segs[i]
    BY <1>7 DEF In
<1>9. Leaving' = Leaving
    BY <1>8 DEF Leaving, FramesOf
<1> QED
    BY <1>4, <1>5, <1>9 DEF PromiseKept, Promise!Next, Promise!Capture, Leaving, Durable

\* Every step is one of the promise, or a stutter.
LEMMA KeepStep ==
    ASSUME EveryRead, Inv, [Next]_vars
    PROVE  PromiseKept
<1>0. Inv' /\ Types /\ "read" \notin scenario.faults
    BY InvStep DEF EveryRead, Inv, Disk, Types
<1>1. CASE UNCHANGED <<segs, rows>>
    BY <1>1, Still, Landing
<1>2. CASE \/ TableSuspends \/ TableResumes \/ TableLags \/ Boot \/ EndRound \/ StopDrain
           \/ EndDrained \/ EndStopped \/ WriteFails \/ Persist \/ ProbeSend \/ UNCHANGED vars
    BY <1>1, <1>2 DEF TableSuspends, TableResumes, TableLags, Boot, EndRound, StopDrain, EndDrained, EndStopped,
                      WriteFails, Persist, ProbeSend, vars, disk, world
<1>3. CASE LagPasses \/ Crash
    <2>1. segs' = segs BY <1>3 DEF LagPasses, Crash, disk
    <2>2. DiskStays BY <1>3 DEF LagPasses, Crash, Older, world, DiskStays
    <2> QED BY <2>1, <2>2, Landing
<1>4. CASE FoldChunk \/ SinkAcks
    <2>1. segs' = segs BY <1>4 DEF FoldChunk, SinkAcks, disk
    <2>2. rows' = rows \/ \E frames : rows' = Written(frames) BY <1>4 DEF FoldChunk, SinkAcks
    <2>3. DiskStays BY <1>0, <2>2, WrittenFacts DEF DiskStays
    <2> QED BY <2>1, <2>3, Landing
<1>5. CASE RescueEnds
    <2>1. segs' = segs BY <1>5 DEF RescueEnds, disk
    <2>2. rows' = rows \/ \E f : rows' = [rows EXCEPT ![f] = "disk"] BY <1>5 DEF RescueEnds
    <2>3. DiskStays BY <2>2 DEF DiskStays
    <2> QED BY <2>1, <2>3, Landing
<1>6. CASE Capture
    BY <1>6, Captures
<1>7. CASE Recover
    <2>1. rows' = rows BY <1>7 DEF Recover, world
    <2>2. PICK to : to = [i \in Segments |-> IF i \in In({"settling"}) THEN "replaying" ELSE segs[i].at] OBVIOUS
    <2>3. segs' = segs \/ segs' = MovedTo(to) BY <1>7, <2>2 DEF Recover
    <2>4. CASE segs' = segs BY <1>1, <2>1, <2>4
    <2>5. CASE segs' = MovedTo(to)
        <3>1. \A i \in Segments : segs[i] \in Segment BY <1>0 DEF Types, Segments
        <3>2. \A i \in Segments : to[i] \in Folders BY <2>2, <3>1 DEF Segment, Folders
        <3>3. SameFrames /\ \A i \in Segments : segs'[i].at = to[i] BY <1>0, <2>5, <3>2, Moved
        <3>4. \A i \in Segments : segs[i].at \in {"archive", "gone"} => segs'[i].at \in {"archive", "gone"}
            BY <2>2, <3>3 DEF In
        <3> QED BY <1>0, <2>1, <3>3, <3>4, Leaves
    <2> QED BY <2>3, <2>4, <2>5
<1>8. CASE ReplayPass
    <2> DEFINE listed == In({"live", "replaying"}) \ Open
               skips == AppliedSegments(Loaded, listed)
               kept == listed \ skips
               To(r, n) == [i \in Segments |->
                              CASE i \in r -> "archive"
                                [] i \in n -> "replaying"
                                [] i \in listed \ (r \cup n) -> "live"
                                [] OTHER -> segs[i].at]
    <2>1. rows' = rows BY <1>8 DEF ReplayPass, world
    <2>2. PICK r \in SUBSET listed, n \in SUBSET listed : segs' = MovedTo(To(r, n))
        <3>1. \E stop \in {0} \cup kept, bad \in IF "read" \in scenario.faults THEN SUBSET kept ELSE {{}} :
                LET consumed == {i \in kept : i <= stop}
                    reached == {i \in skips : \A k \in kept : k < i => k \in consumed}
                IN  segs' = MovedTo(To(reached, consumed \ bad))
            BY <1>8 DEF ReplayPass
        <3>2. skips \subseteq listed /\ kept \subseteq listed BY DEF AppliedSegments
        <3> HIDE DEF To, skips, kept, listed
        <3>3. PICK stop, bad :
                LET consumed == {i \in kept : i <= stop}
                    reached == {i \in skips : \A k \in kept : k < i => k \in consumed}
                IN  segs' = MovedTo(To(reached, consumed \ bad))
            BY <3>1
        <3> DEFINE read == {i \in kept : i <= stop} \ bad
                   reached == {i \in skips : \A k \in kept : k < i => k \in {j \in kept : j <= stop}}
        <3>4. read \in SUBSET listed /\ reached \in SUBSET listed BY <3>2
        <3>5. segs' = MovedTo(To(reached, read)) BY <3>3
        <3> HIDE DEF read, reached
        <3> QED BY <3>4, <3>5
    <2>3. PICK to : to = To(r, n) /\ segs' = MovedTo(to)
        BY <2>2
    <2>4. \A i \in Segments : segs[i] \in Segment BY <1>0 DEF Types, Segments
    <2>5. \A i \in Segments : to[i] \in Folders /\ (i \notin listed => to[i] = segs[i].at)
        BY <2>3, <2>4 DEF Segment, Folders
    <2>6. SameFrames /\ \A i \in Segments : segs'[i].at = to[i] BY <1>0, <2>3, <2>5, Moved
    <2>7. \A i \in Segments : segs[i].at \in {"archive", "gone"} => segs'[i].at \in {"archive", "gone"}
        BY <2>5, <2>6 DEF In
    <2> QED BY <1>0, <2>1, <2>6, <2>7, Leaves
<1>9. CASE SettleChunk
    <2>1. rows' = rows /\ Up BY <1>9 DEF SettleChunk, world
    <2>2. segs' = segs \/ \E chunk \in mem.folding : segs' = [segs EXCEPT ![chunk.seg].at = "settling"]
        BY <1>9 DEF SettleChunk
    <2>3. CASE segs' = segs BY <1>1, <2>1, <2>3
    <2>4. ASSUME NEW chunk \in mem.folding, segs' = [segs EXCEPT ![chunk.seg].at = "settling"] PROVE PromiseKept
        <3>1. PICK j \in Segments : j = chunk.seg /\ segs[j].at = "replaying" BY <2>1 DEF Inv, Memo, Batches
        <3>2. segs' = [segs EXCEPT ![j].at = "settling"] BY <2>4, <3>1
        <3>3. SameFrames /\ \A i \in Segments : i # j => segs'[i] = segs[i] BY <1>0, <3>2, MovedOne DEF Folders
        <3>4. \A i \in Segments : segs[i].at \in {"archive", "gone"} => segs'[i].at \in {"archive", "gone"}
            BY <3>1, <3>3
        <3> QED BY <1>0, <2>1, <3>3, <3>4, Leaves
    <2> QED BY <2>2, <2>3, <2>4
<1>10. CASE Prune
    <2>1. rows' = rows BY <1>10 DEF Prune, world
    <2>2. PICK j \in Segments : segs' = [segs EXCEPT ![j].at = "gone"] BY <1>10 DEF Prune, AppliedSegments, In
    <2>3. SameFrames /\ segs'[j].at = "gone" /\ \A i \in Segments : i # j => segs'[i] = segs[i]
        BY <1>0, <2>2, MovedOne DEF Folders
    <2>4. \A i \in Segments : segs[i].at \in {"archive", "gone"} => segs'[i].at \in {"archive", "gone"}
        BY <2>3
    <2> QED BY <1>0, <2>1, <2>3, <2>4, Leaves
<1>11. CASE ProbeReply
    <2>1. rows' = rows BY <1>11 DEF ProbeReply, world
    <2>2. segs' = segs \/ \E done : segs' = MovedTo([i \in Segments |->
                                IF \E b \in done : b.seg = i THEN "archive" ELSE segs[i].at])
        BY <1>11 DEF ProbeReply
    <2>3. CASE segs' = segs BY <1>1, <2>1, <2>3
    <2>4. ASSUME NEW done, NEW to, to = [i \in Segments |-> IF \E b \in done : b.seg = i THEN "archive" ELSE segs[i].at],
                 segs' = MovedTo(to)
          PROVE  PromiseKept
        <3>1. \A i \in Segments : segs[i] \in Segment BY <1>0 DEF Types, Segments
        <3>2. \A i \in Segments : to[i] \in Folders /\ (to[i] = "archive" \/ to[i] = segs[i].at)
            BY <2>4, <3>1 DEF Segment, Folders
        <3>3. SameFrames /\ \A i \in Segments : segs'[i].at = to[i] BY <1>0, <2>4, <3>2, Moved
        <3>4. \A i \in Segments : segs[i].at \in {"archive", "gone"} => segs'[i].at \in {"archive", "gone"}
            BY <3>2, <3>3
        <3> QED BY <1>0, <2>1, <3>3, <3>4, Leaves
    <2> QED BY <2>2, <2>3, <2>4
<1> QED
    BY <1>2, <1>3, <1>4, <1>5, <1>6, <1>7, <1>8, <1>9, <1>10, <1>11 DEF Next

\* The write-ahead log implements CapturedLog: over every history of crashes,
\* replays and probes a frame is retired only once it is durable, and neither is
\* ever undone.
THEOREM TheLogKeepsItsPromise ==
    ASSUME EveryRead
    PROVE  Spec => KeepsThePromise
<1>1. Init => Promise!Init
    <2> SUFFICES ASSUME Init PROVE Promise!Init OBVIOUS
    <2>1. DOMAIN rows = {} /\ FramesOf(In({"archive", "gone"})) = {}
        BY DEF Init, FramesOf, In, Segments
    <2> QED BY <2>1 DEF Promise!Init
<1>2. Inv /\ [Next]_vars => [Promise!Next]_Promise!vars
    BY KeepStep DEF PromiseKept
<1> QED
    BY <1>1, <1>2, Invariant, PTL DEF Spec, KeepsThePromise, Promise!Spec
=============================================================================
