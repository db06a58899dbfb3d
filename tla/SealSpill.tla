------------------------------ MODULE SealSpill ------------------------------
(***************************************************************************)
(* The path of a sealed candle to the database and the spill that catches  *)
(* what the database does not take (crates/storage/src/seal_spill.rs,      *)
(* seal_spill_ledger.rs, seal_writer_runner.rs, seal_writer_task.rs,       *)
(* seal_absorption.rs).                                                    *)
(*                                                                         *)
(* A bar is written more than once: late ticks amend it, and every later   *)
(* copy is fuller.  The database keeps the copy written last, so a copy    *)
(* that waited on disk must not be replayed over a fuller one.  Three      *)
(* threads move copies (the producer, the seal writer and the escalation   *)
(* thread), the process can crash between any two of their steps, and the  *)
(* ledger that remembers which copies are where is in memory only.         *)
(*                                                                         *)
(* Every section under the mutex of SealSpillWriter is one action; what a  *)
(* thread reads before it takes the lock is a step of its own.             *)
(*                                                                         *)
(* Abstractions.  That the channel, the ring or the queue is full is a     *)
(* choice, and so is how many seals a step takes.  Live spill files of     *)
(* several days are one file.  A flush the database acknowledges is        *)
(* applied.  What may go wrong beyond crashes is chosen once:              *)
(*   "disk"  an append to the spill or to the dead-letter file fails, or   *)
(*           the disk floor refuses it; a rename or a read fails;          *)
(*   "boot"  the boot drain leaves files to the mid-session replay: a file *)
(*           cannot be read, records are refused, a flush fails, or the    *)
(*           watcher turns suspicious before it has confirmed them;        *)
(*   "park"  a staged file makes no progress: it is parked, and later ones *)
(*           are read, finished and archived before it.                    *)
(***************************************************************************)
EXTENDS Integers, SequencesExt, FiniteSetsExt

CONSTANTS
    Bars,        \* the bars, numbered by their buckets
    MaxCopies,   \* copies of one bar
    Capacity,    \* bars the ledger can hold
    QueueLimit,  \* items the escalation queue can hold
    MaxEpoch,    \* bound of the epoch in which a rename fails
    Scenarios    \* what a run explores: copies of each bar, crashes, what may go wrong

ASSUME SealSpillAssumption ==
    /\ Bars \subseteq Nat \ {0}
    /\ MaxCopies \in Nat /\ Capacity \in Nat /\ QueueLimit \in Nat
    /\ MaxEpoch \in Nat
    /\ \A sc \in Scenarios : sc \in [copies : [Bars -> 0..MaxCopies], crashes : Nat,
                                    faults : SUBSET {"disk", "boot", "park"}]

VARIABLES
    db,              \* the copy of each bar the candle table holds (0: none)
    sealed,          \* copies of each bar the aggregator has sealed
    retired,         \* bars sealed by an earlier process: their lineage has ended
    channel, ring,   \* seals sent to the writer, and taken by it
    queue,           \* the escalation queue
    todo, dead,      \* per thread: seals to spill, and seals the spill refused
    unnoted,         \* threads whose first dead seal is in the DLQ, not in the ledger
    escalation_pending, escalation_finished,
    run_len,         \* seals of the run the escalation thread is writing
    writer,          \* where the seal writer is
    suspect,         \* the watcher's last word on the database
    ledger,          \* SpillLedger
    epoch, staged_through,
    live,            \* records of the live spill file
    dlq,             \* records of the dead-letter file
    staged,          \* files in replaying/, oldest first
    summary,         \* the boot summary on disk
    boot,            \* the boot drain
    taken,           \* the writer has taken the channel since its last replay step
    awaiting,        \* awaiting_archive: the staged files read to their end
    crashes, scenario,
    best,            \* the fullest copy of each bar that was ever in db or on disk
    lost,            \* seals dropped and counted
    untracked,       \* bars the ledger had no room for at some time
    exposed          \* bars the code says it does not cover

lineage == <<sealed, retired>>
memory == <<channel, ring, queue, todo, dead, unnoted, escalation_pending, escalation_finished, run_len>>
index == <<ledger, epoch, staged_through>>
disk == <<live, dlq, staged, summary>>
course == <<taken, awaiting, crashes, scenario>>
ghosts == <<lost, untracked, exposed>>
vars == <<db, lineage, memory, writer, index, disk, suspect, boot, course, best, ghosts>>

Threads == {"producer", "writer", "escalation"}

Copy == 0..MaxCopies   \* 0: no copy
Seal == [bar : Bars, copy : 1..MaxCopies]

larger(a, b) == IF a >= b THEN a ELSE b

Empty(seq) == seq = <<>>
BarsOf(seals) == {s.bar : s \in ToSet(seals)}
CopiesOf(seals, b) == {s.copy : s \in {x \in ToSet(seals) : x.bar = b}}

\* The elements of a sequence that are wanted, in their order.
Among(seq, wanted) ==
    LET upto[n \in 0..Len(seq)] ==
            IF n = 0 THEN <<>>
            ELSE IF seq[n] \in wanted THEN Append(upto[n - 1], seq[n]) ELSE upto[n - 1]
    IN  upto[Len(seq)]

-----------------------------------------------------------------------------
(* SpillLedger: one entry per bar, up to its capacity, and what is known   *)
(* of the bars that found no room.                                         *)

NoEntry == [disk |-> 0, committed |-> 0, trusted |-> FALSE, disk_epoch |-> 0,
            dead_lettered |-> FALSE, queue_mark |-> 0]

EmptyLedger == [bars |-> [b \in {} |-> NoEntry], active |-> FALSE, disk_epoch |-> 0,
                queue_mark |-> 0, dead_letter_max_bucket |-> 0]

is_active(l) == DOMAIN l.bars # {} \/ l.active \/ l.dead_letter_max_bucket # 0

Tracked(l, b) == b \in DOMAIN l.bars
HasRoom(l, b) == Tracked(l, b) \/ Cardinality(DOMAIN l.bars) < Capacity
NoRoom(l, b) == IF HasRoom(l, b) THEN {} ELSE {b}
Entry(l, b) == IF Tracked(l, b) THEN l.bars[b] ELSE NoEntry

Put(l, b, entry) ==
    [l EXCEPT !.bars = [x \in DOMAIN l.bars \cup {b} |-> IF x = b THEN entry ELSE l.bars[x]]]

note_untracked(l, b, ep, deadLettered, mark) ==
    [l EXCEPT !.active = TRUE,
              !.disk_epoch = larger(@, ep),
              !.queue_mark = larger(@, mark),
              !.dead_letter_max_bucket = IF deadLettered THEN larger(@, b) ELSE @]

\* A copy less full than the committed one changes nothing.
note_committed(entry, copy) ==
    IF copy < entry.committed THEN entry
    ELSE [entry EXCEPT !.committed = copy, !.trusted = TRUE]

fullest(entry) == larger(entry.disk, entry.committed)

\* Fault: only the copies on disk are looked at.
FaultForgetCommitted(l, s) == Tracked(l, s.bar) /\ s.copy < l.bars[s.bar].disk

\* verdict: a copy is not written while a fuller one is on disk or committed.
OlderNotWritten(l, s) == Tracked(l, s.bar) /\ s.copy < fullest(l.bars[s.bar])

record_on_disk(l, s, ep, deadLettered, alsoCommitted, mark) ==
    IF ~HasRoom(l, s.bar) THEN note_untracked(l, s.bar, ep, deadLettered, mark)
    ELSE LET e == Entry(l, s.bar)
             noted == IF alsoCommitted THEN note_committed(e, s.copy) ELSE e
         IN  Put(l, s.bar, [noted EXCEPT !.disk = larger(@, s.copy),
                                         !.disk_epoch = larger(@, ep),
                                         !.dead_lettered = @ \/ deadLettered,
                                         !.queue_mark = larger(@, mark)])

\* on_live_commit: what it records ...
Committed(l, s, mark) ==
    LET e == note_committed(Entry(l, s.bar), s.copy)
    IN  Put(l, s.bar, [e EXCEPT !.queue_mark = larger(@, mark)])

dead_letter_covers(l, s) == s.bar <= l.dead_letter_max_bucket

on_live_commit(l, s, busy, ep, mark) ==
    IF Tracked(l, s.bar) THEN Committed(l, s, mark)
    ELSE IF ~l.active /\ ~busy /\ ~dead_letter_covers(l, s) THEN l
    ELSE IF HasRoom(l, s.bar) THEN Committed(l, s, mark)
    ELSE note_untracked(l, s.bar, ep, FALSE, mark)

\* ... and whether the copy is to be appended to the spill.
Mirrors(l, s, busy, ep, mark) ==
    IF Tracked(l, s.bar) THEN l.bars[s.bar].disk # 0 /\ s.copy > l.bars[s.bar].disk
    ELSE on_live_commit(l, s, busy, ep, mark).active \/ dead_letter_covers(l, s)

\* A batch replayed: of a bar the fullest copy counts, in whatever order.
on_replay_commit(l, seals) ==
    [l EXCEPT !.bars = [b \in DOMAIN l.bars |->
        IF b \in BarsOf(seals) THEN note_committed(l.bars[b], Max(CopiesOf(seals, b))) ELSE l.bars[b]]]

\* Fault: only the very copy that was committed is skipped.
FaultSkipOnlyEqual(l, s) ==
    /\ Tracked(l, s.bar)
    /\ LET e == l.bars[s.bar] IN s.copy = e.committed /\ e.trusted

\* An equal copy is written again once the commit is no longer trusted.
replay_is_older(l, s) ==
    /\ Tracked(l, s.bar)
    /\ LET e == l.bars[s.bar] IN s.copy < e.committed \/ (s.copy = e.committed /\ e.trusted)

distrust_commits(l) ==
    [l EXCEPT !.bars = [b \in DOMAIN l.bars |-> [l.bars[b] EXCEPT !.trusted = FALSE]]]

has_passed(mark) == escalation_pending = 0 \/ escalation_finished >= mark

forget_replayed(l, through) ==
    LET Forgettable(e) == /\ ~e.dead_lettered
                          /\ e.disk = 0 \/ e.disk_epoch <= through
                          /\ has_passed(e.queue_mark)
        kept == {b \in DOMAIN l.bars : ~Forgettable(l.bars[b])}
        rest == [l EXCEPT !.bars = [b \in kept |-> l.bars[b]]]
    IN  IF l.active /\ l.disk_epoch <= through /\ has_passed(l.queue_mark)
        THEN [rest EXCEPT !.active = FALSE, !.disk_epoch = 0, !.queue_mark = 0]
        ELSE rest

-----------------------------------------------------------------------------
(* Sealing and escalating.                                                 *)

WithTodo(t, seals) == todo' = [todo EXCEPT ![t] = seals]
WithDead(t, seals) == dead' = [dead EXCEPT ![t] = seals]

\* The next copy of a bar; the producer is done with the copy before it.
NextSeal(b) == [bar |-> b, copy |-> sealed[b] + 1]

Produce(b) ==
    /\ writer.at # "boot"
    /\ b \notin retired /\ sealed[b] < scenario.copies[b]
    /\ Empty(todo["producer"]) /\ Empty(dead["producer"])
    /\ sealed' = [sealed EXCEPT ![b] = @ + 1]

\* try_send to the channel of the writer succeeds.
SendToWriter(b) ==
    /\ Produce(b)
    /\ channel' = Append(channel, NextSeal(b))
    /\ UNCHANGED <<db, retired, ring, queue, todo, dead, unnoted, escalation_pending,
                   escalation_finished, run_len, writer, index, disk, suspect, boot, course, ghosts>>

\* The channel is full: the seal is queued for the escalation thread.
EscalateQueued(b) ==
    /\ Produce(b)
    /\ Len(queue) < QueueLimit
    /\ queue' = Append(queue, NextSeal(b))
    /\ escalation_pending' = escalation_pending + 1
    /\ UNCHANGED <<db, retired, channel, ring, todo, dead, unnoted, escalation_finished, run_len,
                   writer, index, disk, suspect, boot, course, ghosts>>

\* The queue is full too, or its thread is gone: the producer writes to disk itself.
EscalateInline(b) ==
    /\ Produce(b)
    /\ WithTodo("producer", <<NextSeal(b)>>)
    /\ UNCHANGED <<db, retired, channel, ring, queue, dead, unnoted, escalation_pending,
                   escalation_finished, run_len, writer, index, disk, suspect, boot, course, ghosts>>

\* The escalation thread takes a run of items (of one day) off its queue.
TakeRun(n) ==
    /\ run_len = 0
    /\ n \in 1..Len(queue)
    /\ WithTodo("escalation", SubSeq(queue, 1, n))
    /\ queue' = SubSeq(queue, n + 1, Len(queue))
    /\ run_len' = n
    /\ UNCHANGED <<db, lineage, channel, ring, dead, unnoted, escalation_pending, escalation_finished,
                   writer, index, disk, suspect, boot, course, ghosts>>

\* Fault: a run counts as one item.
FaultFinishOne ==
    /\ run_len # 0
    /\ Empty(todo["escalation"]) /\ Empty(dead["escalation"])
    /\ escalation_finished' = escalation_finished + 1
    /\ escalation_pending' = escalation_pending - 1
    /\ run_len' = 0
    /\ UNCHANGED <<db, lineage, channel, ring, queue, todo, dead, unnoted, writer, index, disk,
                   suspect, boot, course, ghosts>>

\* note_escalation_finished, once the whole run is on disk or dead-lettered.
FinishRun ==
    /\ run_len # 0
    /\ Empty(todo["escalation"]) /\ Empty(dead["escalation"])
    /\ escalation_finished' = escalation_finished + run_len
    /\ escalation_pending' = escalation_pending - run_len
    /\ run_len' = 0
    /\ UNCHANGED <<db, lineage, channel, ring, queue, todo, dead, unnoted, writer, index, disk, suspect, boot,
                   course, ghosts>>

-----------------------------------------------------------------------------
(* The spill: append_seal and append_seals.                                *)

\* The mark behind everything now queued.
QueueMark == escalation_finished + escalation_pending

\* The ledger, and the bars it had no room for, after one more seal.
note_spilled(acc, s) ==
    IF OlderNotWritten(acc.l, s) THEN acc
    ELSE [l |-> record_on_disk(acc.l, s, epoch, FALSE, FALSE, QueueMark),
          untracked |-> acc.untracked \cup NoRoom(acc.l, s.bar)]

Spilled(seals) ==
    LET after[n \in 0..Len(seals)] ==
            IF n = 0 THEN [l |-> ledger, untracked |-> {}] ELSE note_spilled(after[n - 1], seals[n])
    IN  after[Len(seals)]

\* The writer rescues its seals one by one, the others append what they have.
Run(t) == IF t = "writer" THEN <<Head(todo[t])>> ELSE todo[t]
AfterRun(t) == SubSeq(todo[t], Len(Run(t)) + 1, Len(todo[t]))

\* Bars the ledger has no room for are counted.  Of those the code does not
\* notice that it writes a copy behind a fuller one.
Behind(seals) == {b \in untracked' : \E s \in ToSet(seals) : s.bar = b /\ s.copy < best[b]}

Expose(seals, untrackable) ==
    /\ untracked' = untracked \cup untrackable
    /\ exposed' = exposed \cup Behind(seals)

Included(seals) == Among(seals, {s \in ToSet(seals) : ~OlderNotWritten(ledger, s)})

AppendSeals(t) ==
    /\ ~Empty(todo[t]) /\ Empty(dead[t])
    /\ live' = live \o Included(Run(t))
    /\ ledger' = Spilled(Run(t)).l
    /\ Expose(Included(Run(t)), Spilled(Run(t)).untracked)
    /\ WithTodo(t, AfterRun(t))
    /\ UNCHANGED <<db, lineage, channel, ring, queue, dead, unnoted, escalation_pending,
                   escalation_finished, run_len, writer, epoch, staged_through, dlq, staged,
                   summary, suspect, boot, course, lost>>

\* Fault: the first seal that did not land counts as kept.
FaultKeepOneMore(seals, n) == SubSeq(seals, 1, n + 1)

\* Kept are the seals up to the first that did not land.
Kept(seals, n) == SubSeq(seals, 1, n)

\* The write stops after the whole records of the first n seals; when the file
\* could not even be opened no seal is kept.
AppendFails(t, n, opened) ==
    /\ "disk" \in scenario.faults
    /\ ~Empty(todo[t]) /\ Empty(dead[t])
    /\ n < Len(Run(t))
    /\ IF opened THEN ~OlderNotWritten(ledger, Run(t)[n + 1]) ELSE n = 0 /\ ~Empty(Included(Run(t)))
    /\ live' = live \o Included(SubSeq(Run(t), 1, n))
    /\ LET stays == Kept(Run(t), n)
       IN  /\ ledger' = Spilled(stays).l
           /\ Expose(Included(stays), Spilled(stays).untracked)
           /\ WithDead(t, SubSeq(Run(t), Len(stays) + 1, Len(Run(t))))
    /\ WithTodo(t, AfterRun(t))
    /\ UNCHANGED <<db, lineage, channel, ring, queue, unnoted, escalation_pending, escalation_finished,
                   run_len, writer, epoch, staged_through, dlq, staged, summary, suspect, boot, course, lost>>

\* SealDiskFloor.has_room says no: the run is dropped and counted.
BelowFloor(t) ==
    /\ "disk" \in scenario.faults
    /\ ~Empty(todo[t]) /\ Empty(dead[t])
    /\ lost' = lost \cup ToSet(Run(t))
    /\ WithTodo(t, AfterRun(t))
    /\ UNCHANGED <<db, lineage, channel, ring, queue, dead, unnoted, escalation_pending,
                   escalation_finished, run_len, writer, index, disk, suspect, boot, course,
                   untracked, exposed>>

DeadLetter(t) ==
    /\ ~Empty(dead[t]) /\ t \notin unnoted
    /\ dlq' = Append(dlq, Head(dead[t]))
    /\ unnoted' = unnoted \cup {t}
    /\ UNCHANGED <<db, lineage, channel, ring, queue, todo, dead, escalation_pending,
                   escalation_finished, run_len, writer, index, live, staged, summary, suspect, boot,
                   course, ghosts>>

NoteDeadLettered(t) ==
    /\ t \in unnoted
    /\ ledger' = record_on_disk(ledger, Head(dead[t]), epoch, TRUE, FALSE, QueueMark)
    /\ Expose(<<Head(dead[t])>>, NoRoom(ledger, Head(dead[t]).bar))
    /\ unnoted' = unnoted \ {t}
    /\ WithDead(t, Tail(dead[t]))
    /\ UNCHANGED <<db, lineage, channel, ring, queue, todo, escalation_pending, escalation_finished,
                   run_len, writer, epoch, staged_through, disk, suspect, boot, course, lost>>

\* The dead-letter file refuses the seal too: it is dropped and counted.
DeadLetterFails(t) ==
    /\ ~Empty(dead[t]) /\ t \notin unnoted
    /\ lost' = lost \cup {Head(dead[t])}
    /\ WithDead(t, Tail(dead[t]))
    /\ UNCHANGED <<db, lineage, channel, ring, queue, todo, unnoted, escalation_pending,
                   escalation_finished, run_len, writer, index, disk, suspect, boot, course,
                   untracked, exposed>>

-----------------------------------------------------------------------------
(* The seal writer: the live path.                                         *)

Idle == [at |-> "idle"]

\* The last copy in a batch wins.
Upsert(table, seals) ==
    [b \in Bars |-> IF b \in BarsOf(seals)
                    THEN seals[Max({i \in DOMAIN seals : seals[i].bar = b})].copy ELSE table[b]]

\* A cycle of the writer begins: it takes what the channel holds.
TakeChannel ==
    /\ writer = Idle
    /\ ~taken \/ ~Empty(channel)
    /\ ring' = ring \o channel
    /\ channel' = <<>>
    /\ taken' = TRUE
    /\ UNCHANGED <<db, lineage, queue, todo, dead, unnoted, escalation_pending,
                   escalation_finished, run_len, writer, index, disk, suspect, boot, awaiting,
                   crashes, scenario, ghosts>>

\* drain_once: the flush is acknowledged.
FlushOk(n) ==
    /\ writer = Idle
    /\ db' = Upsert(db, SubSeq(ring, 1, n))
    /\ writer' = [at |-> "committed", batch |-> SubSeq(ring, 1, n)]
    /\ ring' = SubSeq(ring, n + 1, Len(ring))
    /\ UNCHANGED <<lineage, channel, queue, todo, dead, unnoted, escalation_pending,
                   escalation_finished, run_len, index, disk, suspect, boot, course, ghosts>>

\* The flush fails, or the ring evicts its oldest: to the spill, one by one.
Rescue(n) ==
    /\ writer = Idle
    /\ WithTodo("writer", SubSeq(ring, 1, n))
    /\ ring' = SubSeq(ring, n + 1, Len(ring))
    /\ writer' = [at |-> "rescuing"]
    /\ UNCHANGED <<db, lineage, channel, queue, dead, unnoted, escalation_pending, escalation_finished,
                   run_len, index, disk, suspect, boot, course, ghosts>>

Rescued ==
    /\ writer.at = "rescuing"
    /\ Empty(todo["writer"]) /\ Empty(dead["writer"])
    /\ writer' = Idle
    /\ UNCHANGED <<db, lineage, memory, index, disk, suspect, boot, course, ghosts>>

\* note_live_commits looks at the queue and at ledger_active before it locks.
ReadQueue ==
    /\ writer.at = "committed"
    /\ writer' = IF escalation_pending = 0 /\ ~is_active(ledger) THEN Idle
                 ELSE [at |-> "noting", batch |-> writer.batch,
                       queue_busy |-> escalation_pending > 0, mark |-> QueueMark]
    /\ UNCHANGED <<db, lineage, memory, index, disk, suspect, boot, course, ghosts>>

\* The ledger, the copies to append to the spill and the bars it had no room
\* for, after one more seal of the batch.
note_live_commit(acc, s) ==
    [l |-> on_live_commit(acc.l, s, writer.queue_busy, epoch, writer.mark),
     mirror |-> IF Mirrors(acc.l, s, writer.queue_busy, epoch, writer.mark)
                THEN Append(acc.mirror, s) ELSE acc.mirror,
     untracked |-> acc.untracked \cup NoRoom(acc.l, s.bar)]

NotedBatch ==
    LET after[n \in 0..Len(writer.batch)] ==
            IF n = 0 THEN [l |-> ledger, mirror |-> <<>>, untracked |-> {}]
            ELSE note_live_commit(after[n - 1], writer.batch[n])
    IN  after[Len(writer.batch)]

note_mirrored(l, s) == record_on_disk(l, s, epoch, FALSE, TRUE, writer.mark)

Mirrored(l, seals) ==
    LET after[n \in 0..Len(seals)] ==
            IF n = 0 THEN l ELSE note_mirrored(after[n - 1], seals[n])
    IN  after[Len(seals)]

\* A batch with two copies of a bar the overflowed ledger has room for again:
\* the first is mirrored, and the second finds an entry with nothing on disk.
HalfMirrored(mirror) ==
    {s.bar : s \in {x \in ToSet(writer.batch) \ ToSet(mirror) :
                        \E m \in ToSet(mirror) : m.bar = x.bar /\ m.copy < x.copy}}

NoteLiveCommits ==
    /\ writer.at = "noting"
    /\ LET noted == NotedBatch
       IN  /\ live' = live \o noted.mirror
           /\ ledger' = Mirrored(noted.l, noted.mirror)
           /\ untracked' = untracked \cup noted.untracked
           /\ exposed' = exposed \cup HalfMirrored(noted.mirror) \cup Behind(noted.mirror)
    /\ writer' = Idle
    /\ UNCHANGED <<db, lineage, memory, epoch, staged_through, dlq, staged, summary, suspect, boot,
                   course, lost>>

\* The append of the mirrored copies fails; some may have landed.
MirrorFails(landed) ==
    /\ "disk" \in scenario.faults
    /\ writer.at = "noting"
    /\ LET noted == NotedBatch
       IN  /\ landed < Len(noted.mirror)
           /\ live' = live \o SubSeq(noted.mirror, 1, landed)
           /\ ledger' = noted.l
           /\ untracked' = untracked \cup noted.untracked
           /\ exposed' = exposed \cup BarsOf(noted.mirror)
    /\ writer' = Idle
    /\ UNCHANGED <<db, lineage, memory, epoch, staged_through, dlq, staged, summary, suspect, boot,
                   course, lost>>

-----------------------------------------------------------------------------
(* The seal writer: the mid-session replay.                                *)

\* A cycle ends with at most one replay step, and only when the live drain has
\* emptied the ring.  Seals that arrived meanwhile are still in the channel.
MayReplay == writer = Idle /\ taken /\ Empty(ring) /\ ~suspect

File(kind, records, own) ==
    [kind |-> kind, records |-> records, own |-> own, offset |-> 0, state |-> "ready"]

\* Appends are paused while the live file is moved to replaying/.
StageLive(moved) ==
    /\ MayReplay /\ ~Empty(live)
    /\ moved \/ ("disk" \in scenario.faults /\ epoch <= MaxEpoch)
    /\ epoch' = epoch + 1
    /\ IF moved
       THEN /\ staged' = Append(staged, File("spill", live, TRUE))
            /\ live' = <<>>
            /\ staged_through' = epoch
       ELSE UNCHANGED <<staged, live, staged_through>>
    /\ UNCHANGED <<db, lineage, memory, writer, ledger, dlq, summary, suspect, boot, course, ghosts>>

Readable(i) == staged[i].kind = "spill" /\ staged[i].state = "ready"

\* Bars of which a seal arrived in the channel since the writer took it, no
\* fuller than the copy replayed now: the next cycle flushes it over that copy.
Overtaken(batch) ==
    {s.bar : s \in {x \in ToSet(channel) : \E r \in ToSet(batch) : r.bar = x.bar /\ x.copy <= r.copy}}

\* advance: the next records of a staged file that are not superseded.
Replay(i, n) ==
    /\ MayReplay
    /\ Readable(i)
    /\ "park" \in scenario.faults \/ \A j \in 1..(i - 1) : ~Readable(j)
    /\ n \in 1..(Len(staged[i].records) - staged[i].offset)
    /\ LET read == SubSeq(staged[i].records, staged[i].offset + 1, staged[i].offset + n)
           batch == Among(read, {s \in ToSet(read) : ~replay_is_older(ledger, s)})
       IN  /\ db' = Upsert(db, batch)
           /\ writer' = [at |-> "replayed", batch |-> batch, file |-> i, read |-> n]
           /\ exposed' = exposed \cup Overtaken(batch)
    /\ UNCHANGED <<lineage, memory, index, disk, suspect, boot, course, lost, untracked>>

\* note_replay_commits; a file read to its end waits for the watcher.
NoteReplayCommits ==
    /\ writer.at = "replayed"
    /\ ledger' = on_replay_commit(ledger, writer.batch)
    /\ LET offset == staged[writer.file].offset + writer.read
       IN  staged' = [staged EXCEPT ![writer.file].offset = offset,
                                    ![writer.file].state = IF offset = Len(staged[writer.file].records)
                                                           THEN "awaiting" ELSE "ready"]
    /\ awaiting' = IF staged'[writer.file].state = "awaiting"
                   THEN Append(awaiting, writer.file) ELSE awaiting
    /\ writer' = Idle
    /\ taken' = FALSE
    /\ UNCHANGED <<db, lineage, memory, epoch, staged_through, live, dlq, summary, suspect, boot,
                   crashes, scenario, ghosts>>

\* Vec::swap_remove: the last entry takes the place of the removed one.
SwapRemove(seq, p) == [q \in 1..(Len(seq) - 1) |-> IF q = p THEN seq[Len(seq)] ELSE seq[q]]

\* Bars of which an archived file had a copy fuller than one an older file has,
\* which stays: until that is archived too, a boot drain would read it alone.
Outlived(i) ==
    {s.bar : s \in {x \in ToSet(staged[i].records) :
                        \E j \in 1..(i - 1) : \E y \in ToSet(staged[j].records) :
                            y.bar = x.bar /\ y.copy < x.copy}}

\* archive_confirmed: the watcher has confirmed what the file wrote.  Files are
\* confirmed in the order they were finished, so an entry is passed over only
\* for one finished later; but swap_remove brings the last entry to the front.
Archive(i) ==
    /\ writer = Idle /\ ~suspect
    /\ staged[i].state = "awaiting"
    /\ \E p \in DOMAIN awaiting :
        /\ awaiting[p] = i
        /\ "park" \in scenario.faults \/ \A q \in 1..(p - 1) : awaiting[q] > i
        /\ awaiting' = [q \in 1..(Len(awaiting) - 1) |->
                            LET j == SwapRemove(awaiting, p)[q] IN IF j > i THEN j - 1 ELSE j]
    /\ staged' = RemoveAt(staged, i)
    /\ exposed' = exposed \cup Outlived(i)
    /\ UNCHANGED <<db, lineage, memory, writer, index, live, dlq, summary, suspect, boot, taken,
                   crashes, scenario, lost, untracked>>

\* The file cannot be read or archived: this process gives up on it.
Skip(i) ==
    /\ "disk" \in scenario.faults
    /\ MayReplay
    /\ \/ Readable(i) /\ UNCHANGED awaiting
       \/ \E p \in DOMAIN awaiting : awaiting[p] = i /\ awaiting' = SwapRemove(awaiting, p)
    /\ staged' = [staged EXCEPT ![i].state = "skipped"]
    /\ UNCHANGED <<db, lineage, memory, writer, index, live, dlq, summary, suspect, boot, taken,
                   crashes, scenario, ghosts>>

\* The watcher turns suspicious: files not yet confirmed are read again.
Suspect ==
    /\ writer = Idle /\ ~suspect
    /\ "boot" \in scenario.faults \/ \A i \in DOMAIN staged : staged[i].own
    /\ suspect' = TRUE
    /\ staged' = [i \in DOMAIN staged |->
                    IF staged[i].state = "skipped" THEN staged[i]
                    ELSE [staged[i] EXCEPT !.offset = 0, !.state = "ready"]]
    /\ awaiting' = <<>>
    /\ ledger' = distrust_commits(ledger)
    /\ UNCHANGED <<db, lineage, memory, writer, epoch, staged_through, live, dlq, summary, boot,
                   taken, crashes, scenario, ghosts>>

Trust ==
    /\ writer = Idle /\ suspect
    /\ suspect' = FALSE
    /\ ledger' = distrust_commits(ledger)
    /\ UNCHANGED <<db, lineage, memory, writer, epoch, staged_through, disk, boot, course, ghosts>>

\* Every staged spill file is archived: forget what they had.
Forget ==
    /\ MayReplay
    /\ \A i \in DOMAIN staged : staged[i].kind = "dlq" /\ staged[i].state = "ready"
    /\ staged_through # 0
    /\ ledger' = forget_replayed(ledger, staged_through)
    /\ taken' = FALSE
    /\ UNCHANGED <<db, lineage, memory, writer, epoch, staged_through, disk, suspect, boot, awaiting,
                   crashes, scenario, ghosts>>

-----------------------------------------------------------------------------
(* Crash, and the boot drain of the next process.                          *)

NothingWritten == [b \in Bars |-> 0]

\* What was in memory is gone.  Boot stages the live files; the spill files
\* are read before the dead-letter files.
Crash ==
    /\ crashes < scenario.crashes
    /\ crashes' = crashes + 1
    /\ retired' = {b \in Bars : sealed[b] > 0}
    /\ channel' = <<>> /\ ring' = <<>> /\ queue' = <<>>
    /\ todo' = [t \in Threads |-> <<>>] /\ dead' = [t \in Threads |-> <<>>]
    /\ unnoted' = {}
    /\ escalation_pending' = 0 /\ escalation_finished' = 0 /\ run_len' = 0
    /\ ledger' = EmptyLedger
    /\ epoch' = 1 /\ staged_through' = 0
    /\ LET Kind(k) == Among(staged, {f \in ToSet(staged) : f.kind = k})
           New(k, records) == IF Empty(records) THEN <<>> ELSE <<File(k, records, FALSE)>>
           files == Kind("spill") \o New("spill", live) \o Kind("dlq") \o New("dlq", dlq)
       IN  staged' = [i \in DOMAIN files |-> File(files[i].kind, files[i].records, FALSE)]
    /\ live' = <<>> /\ dlq' = <<>>
    /\ boot' = [written |-> summary, committed |-> summary, next |-> 1, left |-> FALSE]
    /\ writer' = [at |-> "boot"]
    /\ exposed' = exposed \cup IF writer.at \in {"committed", "noting"} THEN BarsOf(writer.batch) ELSE {}
    /\ suspect' = FALSE
    /\ taken' = FALSE /\ awaiting' = <<>>
    /\ UNCHANGED <<db, sealed, summary, lost, untracked, scenario>>

\* The drain writes a record unless it has written a fuller one: of a bar whose
\* fullest copy in the records is that full, the fullest.
Drains(records, b) == \E c \in CopiesOf(records, b) : c >= boot.written[b]
DrainInto(table, records) ==
    [b \in Bars |-> IF Drains(records, b) THEN Max(CopiesOf(records, b)) ELSE table[b]]

BootFile == staged[boot.next]

\* The file is flushed; one with records the writer refused stays staged.
BootFlushed(refused) ==
    /\ writer.at = "boot" /\ boot.next \in DOMAIN staged
    /\ refused = {} \/ "boot" \in scenario.faults
    /\ LET accepted == Among(BootFile.records, {s \in ToSet(BootFile.records) : s.bar \notin refused})
           written == DrainInto(boot.written, accepted)
       IN  /\ db' = DrainInto(db, accepted)
           /\ boot' = [written |-> written, committed |-> written, next |-> boot.next + 1, left |-> TRUE]
    /\ staged' = [staged EXCEPT ![boot.next].state = IF refused = {} THEN "awaiting" ELSE "ready"]
    /\ awaiting' = IF refused = {} THEN Append(awaiting, boot.next) ELSE awaiting
    /\ UNCHANGED <<lineage, memory, writer, index, live, dlq, summary, suspect, taken, crashes,
                   scenario, ghosts>>

\* The file cannot be read: it stays staged and the drain goes on.
BootUnreadable ==
    /\ "boot" \in scenario.faults
    /\ writer.at = "boot" /\ boot.next \in DOMAIN staged
    /\ boot' = [boot EXCEPT !.next = @ + 1, !.left = TRUE]
    /\ UNCHANGED <<db, lineage, memory, writer, index, disk, suspect, course, ghosts>>

\* After some records a flush fails or the watcher is suspicious: the file and
\* the ones behind it stay.
BootHalts(n) ==
    /\ "boot" \in scenario.faults
    /\ writer.at = "boot" /\ boot.next \in DOMAIN staged
    /\ n \in 0..Len(BootFile.records)
    /\ LET read == SubSeq(BootFile.records, 1, n)
           written == DrainInto(boot.written, read)
       IN  /\ db' = DrainInto(db, read)
           /\ boot' = [written |-> written, committed |-> written, next |-> Len(staged) + 1, left |-> TRUE]
    /\ UNCHANGED <<lineage, memory, writer, index, disk, suspect, course, ghosts>>

\* The summary of committed copies is kept while a file is left, then removed.
BootEnds ==
    /\ writer.at = "boot" /\ boot.next \notin DOMAIN staged
    /\ summary' = IF boot.left THEN boot.committed ELSE NothingWritten
    /\ boot' = [written |-> NothingWritten, committed |-> NothingWritten, next |-> 1, left |-> FALSE]
    /\ writer' = Idle
    /\ UNCHANGED <<db, lineage, memory, index, live, dlq, staged, suspect, course, ghosts>>

-----------------------------------------------------------------------------

Init ==
    /\ db = NothingWritten /\ best = NothingWritten /\ summary = NothingWritten
    /\ sealed = NothingWritten
    /\ retired = {} /\ untracked = {} /\ exposed = {} /\ unnoted = {}
    /\ channel = <<>> /\ ring = <<>> /\ queue = <<>> /\ live = <<>> /\ dlq = <<>> /\ staged = <<>>
    /\ todo = [t \in Threads |-> <<>>] /\ dead = [t \in Threads |-> <<>>]
    /\ escalation_pending = 0 /\ escalation_finished = 0 /\ run_len = 0
    /\ writer = Idle
    /\ ledger = EmptyLedger
    /\ epoch = 1 /\ staged_through = 0
    /\ boot = [written |-> NothingWritten, committed |-> NothingWritten, next |-> 1, left |-> FALSE]
    /\ taken = FALSE /\ awaiting = <<>>
    /\ crashes = 0 /\ suspect = FALSE /\ lost = {}
    /\ scenario \in Scenarios

Steps ==
    \/ \E b \in Bars : SendToWriter(b) \/ EscalateQueued(b) \/ EscalateInline(b)
    \/ \E n \in 1..Len(queue) : TakeRun(n)
    \/ FinishRun
    \/ \E t \in Threads : \/ AppendSeals(t) \/ BelowFloor(t)
                          \/ \E n \in 0..Len(todo[t]), opened \in BOOLEAN : AppendFails(t, n, opened)
                          \/ DeadLetter(t) \/ NoteDeadLettered(t) \/ DeadLetterFails(t)
    \/ \E n \in 1..Len(ring) : FlushOk(n) \/ Rescue(n)
    \/ TakeChannel
    \/ Rescued
    \/ ReadQueue
    \/ NoteLiveCommits
    \/ \E landed \in (IF writer.at = "noting" THEN 0..Len(writer.batch) ELSE {}) : MirrorFails(landed)
    \/ \E moved \in BOOLEAN : StageLive(moved)
    \/ \E i \in DOMAIN staged : \/ \E n \in 1..Len(staged[i].records) : Replay(i, n)
                                \/ Archive(i) \/ Skip(i)
    \/ NoteReplayCommits
    \/ Suspect \/ Trust
    \/ Forget
    \/ Crash
    \/ \E refused \in SUBSET Bars : BootFlushed(refused)
    \/ BootUnreadable \/ BootEnds
    \/ \E n \in 0..(IF boot.next \in DOMAIN staged THEN Len(BootFile.records) ELSE 0) : BootHalts(n)

\* The records that a drain or a replay can still read.
OnDisk == ToSet(live) \cup ToSet(dlq) \cup UNION {ToSet(staged[i].records) : i \in DOMAIN staged}

Next ==
    /\ Steps
    /\ best' = [b \in Bars |-> Max({best[b], db'[b]} \cup {s.copy : s \in {x \in OnDisk' : x.bar = b}})]

Spec == Init /\ [][Next]_vars

-----------------------------------------------------------------------------
(* Properties.                                                             *)

Held == ToSet(channel) \cup ToSet(ring) \cup ToSet(queue)
            \cup UNION {ToSet(todo[t]) \cup ToSet(dead[t]) : t \in Threads}

\* The state has its shape: the queue's counters add up, every seal that is
\* somewhere was sealed, the ledger stays within its capacity and never claims
\* a copy nobody sealed.
TypeOK ==
    /\ \A b \in Bars : db[b] \in 0..sealed[b] /\ best[b] \in db[b]..sealed[b]
    /\ \A s \in Held \cup OnDisk \cup lost : s \in Seal /\ s.copy <= sealed[s.bar]
    /\ escalation_pending = Len(queue) + run_len
    /\ Cardinality(DOMAIN ledger.bars) <= Capacity
    /\ \A b \in DOMAIN ledger.bars : fullest(ledger.bars[b]) <= sealed[b]
    /\ staged_through < epoch
    /\ \A i \in DOMAIN staged : /\ staged[i].state \in {"ready", "awaiting", "skipped"}
                                /\ staged[i].offset <= Len(staged[i].records)

\* The fullest copy of a bar that ever reached the database or the disk is in the
\* database, or still on disk for the next drain to put there, however often the
\* process crashes.  It does not hold for every bar, and exposed collects, step
\* by step, those for which it may fail although no fault is on:
\*   - a crash falls between a live commit and its mirror, which the code accepts;
\*   - the full ledger could not track a copy written behind a fuller one (Behind);
\*   - of two copies in one batch only the first is mirrored (HalfMirrored; what
\*     CommitsMirrored is about);
\*   - a live seal is flushed over a fuller copy replayed before it (Overtaken);
\*   - a file is archived before an older one (Outlived).
\* Every other bar keeps its fullest copy; under the faults of a scenario none
\* is promised to.
FullestKept ==
    scenario.faults = {} =>
        \A b \in Bars \ exposed : db[b] = best[b] \/ [bar |-> b, copy |-> best[b]] \in OnDisk

\* A step of the mid-session replay never puts an older copy of a bar over the
\* one the database holds, whatever fails and in whatever order parked files are
\* read (replay_is_superseded): in the files this process staged, and for every
\* bar but those in exposed and those the ledger once had no room for.
ReplayOnlyAdvances ==
    [][writer.at = "idle" /\ writer'.at = "replayed" /\ staged[writer'.file].own
          => \A b \in Bars \ (untracked \cup exposed) : db'[b] >= db[b]]_vars

\* When note_live_commits is done with a batch and its append did not fail, the
\* disk has no copy of a committed bar without one at least as full as the copy
\* committed.  It says that it appends "every committed copy that is fuller than
\* a copy of the same bar already on disk", and "every committed copy of an
\* untracked bar" while the ledger is overflowed: the boot drain, which ends on
\* the fullest copy it finds on disk, needs that.
CommitsMirrored ==
    [][scenario.faults = {} /\ writer.at = "noting" /\ writer'.at = "idle"
          => \A c \in ToSet(writer.batch), s \in OnDisk' :
                s.bar = c.bar => \E f \in OnDisk' : f.bar = c.bar /\ f.copy >= c.copy]_vars

\* Whatever fails, no copy vanishes: while its process lives it is on its way,
\* or it (or a fuller one) has reached the database or the disk, or it was
\* counted as lost.
NothingVanishes ==
    \A b \in Bars \ retired : \A c \in 1..sealed[b] :
        c <= best[b] \/ [bar |-> b, copy |-> c] \in Held \cup lost

=============================================================================
