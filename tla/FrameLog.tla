------------------------------ MODULE FrameLog ------------------------------
(***************************************************************************)
(* The write-ahead log of captured frames: what the boot replay may skip,  *)
(* what it must read again, and when a segment may leave the disk          *)
(* (storage/ws_frame_spill.rs, wal_applied_watermark.rs,                   *)
(* wal_unapplied_ranges.rs, wal_replay_settle.rs, and the drain of         *)
(* app/dhan_feed_stack.rs).                                                *)
(*                                                                         *)
(* A frame gets a sequence, goes into the open segment and into the ring;  *)
(* the sink writes its rows to the database and raises the applied         *)
(* watermark.  A frame that will not reach the database in this session is *)
(* marked: in a bucket (one frame) or in a range (a stretch of them).  A   *)
(* boot archives unread the segments the file vouches for, reads the rest  *)
(* again and keeps them until their rows are durable.                      *)
(*                                                                         *)
(* Abstractions.  One sink, with one watermark.  A sequence is a frame     *)
(* (packets within a frame have none of their own), a batch is one frame.  *)
(* Segments are named by their place in segs.  The unapplied ranges are    *)
(* the set of sequences they cover, and never run out of slots; the bucket *)
(* table never overflows.  Time is counted in durability lags.  A table    *)
(* that suspends stays so until a probe has seen it or the process is      *)
(* gone, and is seen before a second lag has passed.  Shed depth rows, and *)
(* the disk below its hard floor, are left out.                            *)
(*                                                                         *)
(* What may go wrong is chosen once, as a set of                           *)
(*   "shed"     the ring refuses frames;                                   *)
(*   "rescue"   writes fail, and the spill that catches them may fail;     *)
(*   "suspend"  a table acknowledges rows it will never apply;             *)
(*   "lag"      a table falls behind, and a probe may go unanswered;       *)
(*   "host"     the host dies with the process, and its page cache;        *)
(*   "read"     a segment cannot be read and is kept for a later pass.     *)
(***************************************************************************)
EXTENDS Integers, SequencesExt, FiniteSetsExt

CONSTANTS
    Slack,        \* REPLAY_REORDER_SLACK_SEQ
    BucketSize,   \* sequences in a bucket, 2^UNAPPLIED_BUCKET_SHIFT
    Scenarios     \* what a run explores: the faults and the bounds of each scenario

\* The faults, by how much a sequence may exceed the highest before it, and
\* the bounds on the frames captured, the segments written and the crashes.
Scenario ==
    [faults : SUBSET {"shed", "rescue", "suspend", "lag", "host", "read"},
     steps : SUBSET (Nat \ {0}), max_frames : Nat, max_segments : Nat, max_crashes : Nat]

ASSUME FrameLogAssumption ==
    /\ Slack \in Nat \ {0} /\ BucketSize \in Nat /\ BucketSize > Slack
    /\ \A c \in Scenarios : c \in Scenario

VARIABLES
    segs,     \* the segments in the order they were written: frames and folder
    rows,     \* what the database holds of every captured frame
    table,    \* the state of the sink's table
    unseen,   \* lags the table has been suspended unnoticed
    file,     \* applied.tvaw
    sidecar,  \* unapplied_ranges.tvur
    mem,      \* the memory of the process
    crashes,
    scenario  \* chosen once

disk == <<segs, file, sidecar>>
world == <<rows, table, unseen>>
vars == <<segs, rows, table, unseen, file, sidecar, mem, crashes, scenario>>

-----------------------------------------------------------------------------
(* Sequences, buckets and what a snapshot vouches for. *)

Minus(a, b) == IF a > b THEN a - b ELSE 0
Larger(a, b) == IF a > b THEN a ELSE b
Smaller(a, b) == IF a < b THEN a ELSE b

Bucket(s) == s \div BucketSize
\* The sequences of a bucket and one slack on each side.
FoldedBucket(b) == Larger(Minus(b * BucketSize, Slack), 1) .. (b + 1) * BucketSize - 1 + Slack

skip_below(snap) == Minus(snap.hwm, Slack)

frame_is_applied(snap, s) ==
    /\ s <= skip_below(snap)
    /\ s \notin snap.ranges
    /\ Bucket(s) \notin snap.buckets

\* A faulty version: the segment is skipped one slack below the watermark,
\* like a frame, although it can hold frames past its bound.
FaultOneSlack(snap, hi) == TRUE

below_watermarks_by_a_slack(snap, hi) == hi + Slack < skip_below(snap)

\* Marks in buckets carry no slack of their own and are looked up one slack
\* beyond both ends; ranges carry it and are looked up as they are.
segment_is_applied(snap, first, hi) ==
    /\ first <= hi
    /\ hi <= skip_below(snap)
    /\ below_watermarks_by_a_slack(snap, hi)
    /\ (first .. hi) \cap snap.ranges = {}
    /\ (Bucket(Larger(Minus(first, Slack), 1)) .. Bucket(hi + Slack)) \cap snap.buckets = {}

suspension_range_lo(watermark) == Larger(Minus(watermark, 2 * Slack), 1)

-----------------------------------------------------------------------------
(* The two files. *)

\* The file names the sidecar that belongs to it.  With another one beside
\* it, the ranges are read from that sidecar and from the buckets they were
\* encoded in; a file that had no ranges names no sidecar.
Loaded ==
    [hwm |-> file.hwm,
     ranges |-> IF file.ranges = {} THEN {} ELSE sidecar,
     buckets |-> IF file.ranges \in {{}, sidecar} THEN file.buckets
                 ELSE file.buckets \cup file.encoded]

cap_below_floor(hwm, floors) == IF floors = {} THEN hwm ELSE Smaller(hwm, Min(floors) - 1)

\* durable_view: the watermark of at least one lag ago, held below every
\* batch that waits for its rescue.
durable_view(m) ==
    [hwm |-> cap_below_floor(Smaller(m.durable, m.hwm), m.rescue),
     buckets |-> m.buckets,
     ranges |-> m.ranges,
     encoded |-> {Bucket(s) : s \in m.ranges \ (m.boot_frame_high + 1 .. m.own_floor)}]

Down == [phase |-> "down"]
Up == mem.phase # "down"

\* The process writes the ranges, then the file.  It may die in between.
Save(m) ==
    \/ /\ mem' = m /\ sidecar' = m.ranges /\ file' = durable_view(m)
       /\ UNCHANGED crashes
    \/ /\ crashes < scenario.max_crashes /\ crashes' = crashes + 1
       /\ mem' = Down /\ sidecar' = m.ranges /\ file' = file

-----------------------------------------------------------------------------
(* Segments and the folders they are in. *)

Segments == DOMAIN segs
In(folders) == {i \in Segments : segs[i].at \in folders}
First(i) == Head(segs[i].frames)
FramesOf(I) == UNION {Range(segs[i].frames) : i \in I}
Captured == FramesOf(Segments)
MovedTo(f) == [i \in Segments |-> [segs[i] EXCEPT !.at = f[i]]]

\* The segment the writer appends to.
Open == IF Up /\ mem.opened THEN {Len(segs)} ELSE {}

\* What a replay may still read.
Waiting == In({"live", "replaying", "settling"})

\* The segment listed after i, if any, bounds what i can hold.
After(i, listed) == {j \in listed : j > i}
Bounded(i, listed) == After(i, listed) # {}
Top(i, listed) == First(Min(After(i, listed))) - 1
AppliedSegments(snap, listed) ==
    {i \in listed : Bounded(i, listed) /\ segment_is_applied(snap, First(i), Top(i, listed))}

\* scan_spans: the sequences a waiting segment can hold.  The last one is
\* open-ended: m is above everything in use.
SpanOf(i, m) ==
    LET lo == Minus(Max({First(j) : j \in {j \in Waiting : j <= i}}), Slack)
        next == First(Min(After(i, Waiting)))
        coarse == Larger(next - 1, First(i))
        last == Larger(Last(segs[i].frames), First(i))
    IN  lo .. (IF ~Bounded(i, Waiting) THEN m
               ELSE IF Minus(next, First(i)) > BucketSize THEN Smaller(coarse, last + Slack)
               ELSE coarse)
waiting_spans(m) == UNION {SpanOf(i, m) : i \in Waiting}

-----------------------------------------------------------------------------
(* The world outside the process. *)

\* Rows are "fresh" or "aging" while they are only in the page cache, for
\* one lag each, then on "disk"; if the host stays up the cache is as good.
\* A suspended table will never have them.
Written(frames) ==
    [f \in DOMAIN rows |->
        IF f \notin frames \/ rows[f] \in {"fresh", "aging", "disk"} THEN rows[f]
        ELSE IF table = "suspended" THEN "lied"
        ELSE IF "host" \in scenario.faults THEN "fresh" ELSE "disk"]

Older == [f \in DOMAIN rows |->
            CASE rows[f] = "fresh" -> "aging"
              [] rows[f] = "aging" -> "disk"
              [] OTHER -> rows[f]]

OneOlder(n) == Smaller(n + 1, 2)

TableSuspends ==
    /\ "suspend" \in scenario.faults /\ table # "suspended"
    /\ table' = "suspended" /\ unseen' = 0
    /\ UNCHANGED <<disk, rows, mem, crashes, scenario>>

\* A repaired table, which may have skipped what it had acknowledged.
TableResumes ==
    /\ table = "suspended"
    /\ Up => mem.suspect /\ ~mem.lag_only
    /\ table' = "ok" /\ unseen' = 0
    /\ UNCHANGED <<disk, rows, mem, crashes, scenario>>

TableLags ==
    /\ "lag" \in scenario.faults
    /\ \/ table = "ok" /\ table' = "lag"
       \/ table = "lag" /\ table' = "ok"
    /\ UNCHANGED <<disk, rows, unseen, mem, crashes, scenario>>

\* WATERMARK_DURABILITY_LAG_SECS pass: older rows are on disk, the sample
\* of the watermark taken a lag ago is durable.
LagPasses ==
    /\ table = "suspended" /\ Up /\ ~mem.suspect => unseen = 0
    /\ rows' = Older
    /\ unseen' = IF table = "suspended" /\ Up /\ ~mem.suspect THEN 1 ELSE 0
    /\ mem' = IF ~Up THEN mem ELSE
                [mem EXCEPT !.durable = Larger(@, mem.sample), !.sample = mem.hwm,
                            !.batches = {[b EXCEPT !.age = OneOlder(@)] : b \in @},
                            !.parked_confirm = {[p EXCEPT !.age = OneOlder(@)] : p \in @}]
    /\ UNCHANGED <<disk, table, crashes, scenario>>

\* The process dies.  If the host dies with it, so does the page cache.
Crash ==
    /\ Up /\ crashes < scenario.max_crashes
    /\ crashes' = crashes + 1
    /\ mem' = Down
    /\ \/ UNCHANGED world
       \/ /\ "host" \in scenario.faults
          /\ rows' = [f \in DOMAIN rows |-> IF rows[f] \in {"fresh", "aging"} THEN "none" ELSE rows[f]]
          /\ table' = "ok" /\ unseen' = 0
    /\ UNCHANGED <<disk, scenario>>


-----------------------------------------------------------------------------
(* The unapplied ranges. *)

\* A range added over acknowledgements that wait to be confirmed keeps them
\* unapplied for good.
add_unapplied_range(m, span) ==
    [m EXCEPT !.ranges = @ \cup span,
              !.parked_confirm = {[p EXCEPT !.contaminated = @ \/ span \cap (p.lo .. p.hi) # {}] : p \in @}]

-----------------------------------------------------------------------------
(* Boot: seed the memory from the files and fold what earlier processes    *)
(* left into ranges.                                                       *)

\* Where a range over frames the file never vouched for starts.
boot_range_floor(hwm) == Larger(Minus(Minus(hwm, Slack), Slack), 1)

\* boot_frame_high is the highest sequence on disk, own_floor the first one
\* past it and the wall clock: it is never minted.
BootMemory(snap) ==
    LET high == Max(Captured \cup {snap.hwm})
        own == high + 1
        oldest == IF Waiting = {} THEN 1
                  ELSE Larger(Minus(Min({First(i) : i \in Waiting}), Slack), 1)
        folded == {b \in snap.buckets : b < Bucket(own)}
        tail == Larger(boot_range_floor(snap.hwm), oldest) .. own
    IN  [phase |-> "boot",
         boot_frame_high |-> high, own_floor |-> own, boot_hwm |-> snap.hwm,
         top |-> own, opened |-> FALSE,
         ring |-> {}, rescue |-> {},
         hwm |-> snap.hwm, sample |-> snap.hwm, durable |-> snap.hwm,
         buckets |-> snap.buckets \ folded,
         ranges |-> snap.ranges \cup tail \cup UNION {FoldedBucket(b) : b \in folded},
         suspect |-> FALSE, lag_only |-> FALSE, parked |-> 0,
         healthy |-> snap.hwm, probe |-> {}, parked_confirm |-> {},
         staged |-> {}, folding |-> {}, batches |-> {}]

\* new_with_guard: bind, seed, fold_at_boot.
Boot ==
    /\ ~Up
    /\ Save(BootMemory(Loaded))
    /\ unseen' = 0
    /\ UNCHANGED <<segs, rows, table, scenario>>

\* recover: what an earlier process settled and did not archive is marked,
\* the marks are saved, and only then is it put back among the replayed.
Recover ==
    /\ Up /\ mem.phase = "boot"
    /\ LET left == In({"settling"})
           spans == UNION {Min(Range(segs[i].frames)) .. Max(Range(segs[i].frames)) : i \in left}
       IN  /\ Save(add_unapplied_range([mem EXCEPT !.phase = "replay"], spans))
           /\ segs' = IF mem'.phase = "down" THEN segs
                      ELSE MovedTo([i \in Segments |-> IF i \in left THEN "replaying" ELSE segs[i].at])
    /\ UNCHANGED <<world, scenario>>

-----------------------------------------------------------------------------
(* The replay: passes over the backlog, each folded segment by segment.    *)

\* replay_all_with_report_guarded.  Segments the file vouches for are
\* archived unread, unless the read stopped before them; a memory or byte
\* budget may stop it after any segment; a segment that cannot be read is
\* left for a later pass.  The rest is staged.
ReplayPass ==
    /\ Up /\ mem.phase = "replay"
    /\ LET listed == In({"live", "replaying"}) \ Open
           skips == AppliedSegments(Loaded, listed)
           kept == listed \ skips
       IN  \E stop \in {0} \cup kept, bad \in IF "read" \in scenario.faults THEN SUBSET kept ELSE {{}} :
           LET consumed == {i \in kept : i <= stop}
               read == consumed \ bad
               reached == {i \in skips : \A k \in kept : k < i => k \in consumed}
               fresh == {f \in FramesOf(read) : ~frame_is_applied(Loaded, f)}
           IN  /\ kept # {} => stop # 0
               /\ bad \subseteq consumed
               /\ segs' = MovedTo([i \in Segments |->
                              CASE i \in reached -> "archive"
                                [] i \in read -> "replaying"
                                [] i \in listed \ (reached \cup read) -> "live"
                                [] OTHER -> segs[i].at])
               /\ mem' = [mem EXCEPT !.staged = fresh, !.folding = {},
                            !.phase = IF fresh # {} THEN "fold"
                                      ELSE IF consumed = kept THEN "drained" ELSE "stopped"]
    /\ UNCHANGED <<world, file, sidecar, crashes, scenario>>

\* The next segment of the pass that has frames to fold, or the next that
\* has none and is settled with them.
Unsettled == In({"replaying"})
NextChunk == Min(Unsettled)

\* note_ticks_acked: under suspicion an acknowledgement is only parked.
Acked(m, s) == IF m.suspect THEN [m EXCEPT !.parked = Larger(@, s)]
               ELSE [m EXCEPT !.hwm = Larger(@, s)]

\* refold_wal_frames and the flush of one segment.  The episode count is
\* read first: an episode open now spoils the batch.
FoldChunk ==
    /\ Up /\ mem.phase = "fold" /\ mem.folding = {} /\ Unsettled # {}
    /\ LET frames == mem.staged \cap FramesOf({NextChunk})
           chunk == [seg |-> NextChunk, age |-> 0, clean |-> 0, spoiled |-> mem.suspect]
       IN  \/ /\ rows' = Written(frames)
              /\ mem' = [(IF frames = {} THEN mem ELSE Acked(mem, Max(frames)))
                            EXCEPT !.folding = {chunk}]
           \* The rows land nowhere: marked, and the drain stops.
           \/ /\ "rescue" \in scenario.faults /\ frames # {}
              /\ rows' = rows
              /\ mem' = [mem EXCEPT !.buckets = @ \cup {Bucket(f) : f \in frames},
                                    !.phase = "stopped"]
    /\ UNCHANGED <<segs, table, unseen, file, sidecar, crashes, scenario>>

\* A faulty version: the batch waits, its segment is left where it is.
FaultSettleInPlace ==
    /\ Up /\ mem.phase = "fold" /\ mem.folding # {}
    /\ mem' = [mem EXCEPT !.folding = {}, !.batches = IF mem.suspect THEN @ ELSE @ \cup mem.folding,
                          !.phase = IF mem.suspect THEN "stopped" ELSE @]
    /\ UNCHANGED <<world, disk, crashes, scenario>>

\* wal_replay_acked, settle_confirm_segments.
SettleChunk ==
    /\ Up /\ mem.phase = "fold" /\ mem.folding # {}
    /\ IF mem.suspect
       THEN /\ mem' = [mem EXCEPT !.phase = "stopped", !.folding = {}]
            /\ segs' = segs
       ELSE \E chunk \in mem.folding :
            /\ mem' = [mem EXCEPT !.folding = {}, !.batches = @ \cup {chunk}]
            /\ segs' = [segs EXCEPT ![chunk.seg].at = "settling"]
    /\ UNCHANGED <<world, file, sidecar, crashes, scenario>>

\* trim_after_round: the ranges are cut to what waits.
EndRound ==
    /\ Up /\ mem.phase = "fold" /\ mem.folding = {} /\ Unsettled = {}
    /\ LET top == Max(mem.ranges \cup {0})
           m == [mem EXCEPT !.phase = "replay",
                            !.ranges = IF Waiting = {} THEN @ ELSE @ \cap waiting_spans(top)]
       IN  IF m.ranges = mem.ranges
           THEN mem' = m /\ UNCHANGED <<file, sidecar, crashes>>
           ELSE Save(m)
    /\ UNCHANGED <<segs, world, scenario>>

\* The clock, the round cap or a shutdown ends the drain between rounds.
StopDrain ==
    /\ Up /\ mem.phase = "replay"
    /\ mem' = [mem EXCEPT !.phase = "stopped"]
    /\ UNCHANGED <<disk, world, crashes, scenario>>

\* catchup_ceiling_seq: no frame is captured before the drain has ended.
Ceiling == mem.own_floor

\* A pass found nothing left: reset_unapplied_below.
EndDrained ==
    /\ Up /\ mem.phase = "drained"
    /\ Save([mem EXCEPT !.phase = "live",
                !.buckets = {b \in @ : b >= Bucket(Ceiling)},
                !.ranges = {s \in @ : s >= Larger(Ceiling, mem.own_floor + 1)}])
    /\ UNCHANGED <<segs, world, scenario>>

\* The drain stopped early: guard_pending_backlog.
EndStopped ==
    /\ Up /\ mem.phase = "stopped"
    /\ LET left == In({"live", "replaying"})
           lo == Larger(Minus(Min({First(i) : i \in left}), Slack), boot_range_floor(mem.boot_hwm))
           hi == Smaller(Ceiling - 1, mem.boot_frame_high)
       IN  IF left = {} \/ lo > hi
           THEN /\ mem' = [mem EXCEPT !.phase = "live"]
                /\ UNCHANGED <<file, sidecar, crashes>>
           ELSE Save(add_unapplied_range([mem EXCEPT !.phase = "live"], lo .. hi))
    /\ UNCHANGED <<segs, world, scenario>>


-----------------------------------------------------------------------------
(* The live session. *)

\* A frame is captured: into the open segment (or the next one) and into
\* the ring, or past a full ring.  Sockets race, so a sequence may be written
\* after one less than a slack above it.
Capture ==
    /\ Up /\ mem.phase = "live" /\ Cardinality(DOMAIN rows) < scenario.max_frames
    /\ \E s \in ({mem.top + d : d \in scenario.steps} \cup (Minus(mem.top, Slack - 1) .. mem.top - 1)) \ Captured,
          rotate \in BOOLEAN, shed \in IF "shed" \in scenario.faults THEN BOOLEAN ELSE {FALSE} :
        /\ s > mem.own_floor
        /\ ~mem.opened => rotate
        /\ rotate => Len(segs) < scenario.max_segments
        /\ segs' = IF rotate THEN Append(segs, [frames |-> <<s>>, at |-> "live"])
                   ELSE [segs EXCEPT ![Len(segs)].frames = Append(@, s)]
        /\ rows' = [f \in DOMAIN rows \cup {s} |-> IF f = s THEN "none" ELSE rows[f]]
        /\ mem' = [mem EXCEPT !.top = Larger(@, s), !.opened = TRUE,
                              !.ring = IF shed THEN @ ELSE @ \cup {s},
                              !.buckets = IF shed THEN @ \cup {Bucket(s)} ELSE @]
    /\ UNCHANGED <<table, unseen, file, sidecar, crashes, scenario>>

\* The sinks take frames in the order of their sequences, to within a slack.
Takeable == {f \in mem.ring : f < Min(mem.ring) + Slack}

SinkAcks ==
    /\ Up
    /\ \E f \in Takeable :
        /\ rows' = Written({f})
        /\ mem' = Acked([mem EXCEPT !.ring = @ \ {f}], f)
    /\ UNCHANGED <<disk, table, unseen, crashes, scenario>>

\* The write fails and the batch is queued for the spill: hold_rescue_floor.
WriteFails ==
    /\ Up /\ "rescue" \in scenario.faults
    /\ \E f \in Takeable : mem' = [mem EXCEPT !.ring = @ \ {f}, !.rescue = @ \cup {f}]
    /\ UNCHANGED <<disk, world, crashes, scenario>>

\* The spill has it and syncs it, out of order, so nothing is acknowledged;
\* or it fails and the range is marked.  Only then is the floor released.
RescueEnds ==
    /\ Up
    /\ \E f \in mem.rescue :
        \/ /\ rows' = [rows EXCEPT ![f] = "disk"]
           /\ mem' = [mem EXCEPT !.rescue = @ \ {f}]
        \/ /\ rows' = rows
           /\ mem' = [mem EXCEPT !.rescue = @ \ {f}, !.buckets = @ \cup {Bucket(f)}]
    /\ UNCHANGED <<disk, table, unseen, crashes, scenario>>

\* persist_if_due.
Persist ==
    /\ Up
    /\ file' = durable_view(mem)
    /\ UNCHANGED <<segs, sidecar, world, mem, crashes, scenario>>

\* prune_wal_dir_at: a live segment the file vouches for is deleted.
Prune ==
    /\ Up /\ mem.phase = "live"
    /\ \E i \in AppliedSegments(Loaded, In({"live"})) \ Open :
        segs' = [segs EXCEPT ![i].at = "gone"]
    /\ UNCHANGED <<world, file, sidecar, mem, crashes, scenario>>

-----------------------------------------------------------------------------
(* The watcher: probes of the table, suspicion, and what they release.     *)

\* probe_basis is read before the query is sent.  A probe matters to a table
\* that may misbehave and to a batch that waits for clean ones.
ProbeSend ==
    /\ Up /\ mem.probe = {}
    /\ scenario.faults \cap {"suspend", "lag"} # {} \/ mem.batches # {}
    /\ \E verdict \in {CASE table = "ok" -> "clean" [] table = "lag" -> "lag" [] OTHER -> "unsafe"}
                      \cup (IF "lag" \in scenario.faults THEN {"unsafe"} ELSE {}) :
        mem' = [mem EXCEPT !.probe = {[basis |-> mem.hwm, verdict |-> verdict]}]
    /\ UNCHANGED <<disk, world, crashes, scenario>>

\* An episode ends: what was acknowledged under suspicion is marked, and if
\* the table only ever lagged, waits to be confirmed.
ExitSuspicion(m) ==
    LET confirm == [lo |-> m.hwm + Slack + 1, hi |-> m.parked + Slack, parked |-> m.parked,
                    age |-> 0, clean |-> 0,
                    contaminated |-> m.ranges \cap (m.hwm + Slack + 1 .. m.parked + Slack) # {}]
        closed == [m EXCEPT !.suspect = FALSE, !.lag_only = FALSE, !.parked = 0]
    IN  IF m.parked <= m.hwm THEN closed
        ELSE [closed EXCEPT !.ranges = @ \cup (suspension_range_lo(m.hwm) .. m.parked + Slack),
                            !.parked_confirm = IF m.lag_only THEN {confirm} ELSE {}]

\* confirm_parked_if_due.
ConfirmParked(m) ==
    LET spoiled == {p \in m.parked_confirm : p.contaminated}
        due == {p \in m.parked_confirm \ spoiled : p.age = 2 /\ p.clean = 2}
    IN  [m EXCEPT !.parked_confirm = @ \ (spoiled \cup due),
                  !.ranges = @ \ UNION {p.lo .. p.hi : p \in due},
                  !.hwm = Max({@} \cup {p.parked : p \in due})]

\* A faulty version: the answer vouches for what was acknowledged when it
\* came in, not when the query was sent.
FaultBasisAtReply(m, basis) ==
    LET counted == [m EXCEPT !.batches = {[b EXCEPT !.clean = OneOlder(@)] : b \in @},
                             !.parked_confirm = {[p EXCEPT !.clean = OneOlder(@)] : p \in @}]
        closed == IF m.suspect THEN ExitSuspicion(counted) ELSE counted
    IN  ConfirmParked([closed EXCEPT !.healthy = closed.hwm])

CleanProbe(m, basis) ==
    LET counted == [m EXCEPT !.batches = {[b EXCEPT !.clean = OneOlder(@)] : b \in @},
                             !.parked_confirm = {[p EXCEPT !.clean = OneOlder(@)] : p \in @}]
        closed == IF m.suspect THEN ExitSuspicion(counted) ELSE counted
    IN  ConfirmParked([closed EXCEPT !.healthy = Smaller(basis, closed.hwm)])

\* An episode begins, or goes on.
UncleanProbe(m, verdict) ==
    IF m.suspect THEN [m EXCEPT !.lag_only = @ /\ verdict = "lag"]
    ELSE add_unapplied_range(
            [m EXCEPT !.suspect = TRUE, !.lag_only = (verdict = "lag"), !.parked_confirm = {},
                      !.batches = {[b EXCEPT !.spoiled = TRUE] : b \in @},
                      !.folding = {[b EXCEPT !.spoiled = TRUE] : b \in @}],
            suspension_range_lo(m.healthy) .. m.hwm + Slack)

\* A faulty version: a clean probe archives every batch at once.
FaultPromoteAtOnce(m) == {b \in m.batches : ~b.spoiled /\ ~m.suspect}

\* promote: a batch whose lag and clean probes have passed is archived, one
\* that saw an episode stays for the next boot.
Promotable(m) == {b \in m.batches : ~b.spoiled /\ ~m.suspect /\ b.age = 2 /\ b.clean = 2}

\* note_questdb_probe_full and promote_settled_now.
ProbeReply ==
    /\ Up
    /\ \E p \in mem.probe :
        LET m == IF p.verdict = "clean" THEN CleanProbe([mem EXCEPT !.probe = {}], p.basis)
                 ELSE UncleanProbe([mem EXCEPT !.probe = {}], p.verdict)
            done == Promotable(m)
            after == [m EXCEPT !.batches = {b \in @ \ done : ~b.spoiled}]
        IN  /\ IF m.ranges = mem.ranges
               THEN mem' = after /\ UNCHANGED <<file, sidecar, crashes>>
               ELSE Save(after)
            /\ segs' = IF mem'.phase = "down" THEN segs
                       ELSE MovedTo([i \in Segments |->
                                IF \E b \in done : b.seg = i THEN "archive" ELSE segs[i].at])
    /\ UNCHANGED <<world, scenario>>

-----------------------------------------------------------------------------

Init ==
    /\ segs = <<>> /\ rows = <<>> /\ table = "ok" /\ unseen = 0
    /\ file = [hwm |-> BucketSize, buckets |-> {}, ranges |-> {}, encoded |-> {}]
    /\ sidecar = {}
    /\ mem = Down /\ crashes = 0
    /\ scenario \in Scenarios

Next ==
    \/ TableSuspends \/ TableResumes \/ TableLags \/ LagPasses \/ Crash
    \/ Boot \/ Recover \/ ReplayPass \/ FoldChunk \/ SettleChunk \/ EndRound \/ StopDrain
    \/ EndDrained \/ EndStopped
    \/ Capture \/ SinkAcks \/ WriteFails \/ RescueEnds \/ Persist \/ Prune
    \/ ProbeSend \/ ProbeReply

Spec == Init /\ [][Next]_vars

-----------------------------------------------------------------------------
(* Properties. *)

Kinds == {"none", "fresh", "aging", "disk", "lied"}
Folders == {"live", "replaying", "settling", "archive", "gone"}

\* Types, and what the folders and the process agree on: a segment in
\* settling/ was put there by this process or awaits recovery, and only
\* what a pass staged is in replaying/ while it is folded.
TypeOK ==
    /\ \A i \in Segments : segs[i].at \in Folders /\ segs[i].frames # <<>>
    /\ DOMAIN rows = Captured
    /\ \A f \in DOMAIN rows : rows[f] \in Kinds
    /\ Up => /\ mem.durable <= mem.hwm
             /\ mem.sample <= mem.hwm
             /\ \A b \in mem.batches : segs[b.seg].at = "settling"

\* A segment leaves the disk (archived or deleted) only when every frame it
\* holds is durable, in the database or in a spill file.
ArchivedIsDurable ==
    \A f \in FramesOf(In({"archive", "gone"})) : rows[f] = "disk"

\* The files on disk never vouch for a frame that a crash could lose: what
\* the next replay would skip, frame by frame, is durable.
FileIsHonest ==
    \A f \in FramesOf(In({"live", "replaying"})) :
        frame_is_applied(Loaded, f) => rows[f] = "disk"

\* The whole of it keeps the promise of a captured log: over every history
\* of crashes, replays and probes, a frame is retired only once durable, and
\* neither comes undone.
Promise == INSTANCE CapturedLog WITH
    captured <- DOMAIN rows,
    durable <- {f \in DOMAIN rows : rows[f] = "disk"},
    retired <- FramesOf(In({"archive", "gone"}))
KeepsThePromise == Promise!Spec

=============================================================================
