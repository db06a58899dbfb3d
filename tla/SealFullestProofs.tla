-------------------------- MODULE SealFullestProofs --------------------------
(***************************************************************************)
(* SealSpill keeps the fullest copy of every bar that no step exposes,     *)
(* when nothing but crashes goes wrong: whatever the channel holds while   *)
(* files are replayed, and in whatever order they are archived.            *)
(*                                                                         *)
(* FullestKept needs more than SpillInv, since it is about records that a  *)
(* later replay may still read: KeptInv says of every bar where its copies *)
(* stand in the files, what the ledger knows of them and what the          *)
(* escalation queue may still write; Drained and Batched complete it.  One *)
(* Kept lemma per action.                                                  *)
(***************************************************************************)
EXTENDS SealSpillProofs

-----------------------------------------------------------------------------
(* The fullest copy is kept: the invariant, for scenarios without faults.  *)

\* Nothing is dead-lettered, and the files are replayed from the first on:
\* those read to their end, the one being read, those not begun.
Unfaulted ==
  /\ \A t \in Threads : dead[t] = <<>>
  /\ unnoted = {} /\ dlq = <<>> /\ ledger.dead_letter_max_bucket = 0
  /\ \A i \in DOMAIN staged : staged[i].kind = "spill" /\ staged[i].state \in {"ready", "awaiting"}
  /\ \A i, j \in DOMAIN staged : i < j /\ staged[j].state = "awaiting" => staged[i].state = "awaiting"
  /\ \A i, j \in DOMAIN staged : i < j /\ staged[i].state = "ready" => staged[j].offset = 0

Booting ==
  writer.at = "boot" =>
    /\ channel = <<>> /\ ring = <<>> /\ queue = <<>> /\ live = <<>> /\ \A t \in Threads : todo[t] = <<>>
    /\ DOMAIN ledger.bars = {} /\ boot.next # 0
    /\ \A i \in DOMAIN staged : staged[i].state = "awaiting" <=> i < boot.next

\* What this process has in memory, it has sealed.
Current ==
  /\ \A s \in Held : s.bar \notin retired
  /\ writer.at \in {"committed", "noting"} => \A s \in ToSet(writer.batch) : s.bar \notin retired

\* The live path is ahead of the database, but for bars a replay overtook; the two
\* ways to the spill keep their order.
Onward ==
  /\ \A s \in ToSet(channel) \cup ToSet(ring) \cup ToSet(todo["writer"]) :
        s.bar \notin exposed => s.copy > db[s.bar]
  /\ \A s \in ToSet(todo["producer"]) : s.copy = sealed[s.bar]
  /\ Ascending(queue) /\ Ascending(todo["escalation"]) /\ Precede(todo["escalation"], queue)

BestOf(b) == [bar |-> b, copy |-> best[b]]
OnFile(b) == \E s \in OnDisk : s.bar = b

Unread(s) ==
  \/ s \in ToSet(live)
  \/ \E i \in DOMAIN staged : /\ staged[i].state = "ready"
                              /\ \E n \in DOMAIN staged[i].records : n > staged[i].offset /\ staged[i].records[n] = s

\* The copies of a bar in one file, and in two.
Rising(seq, b) ==
  \A m, n \in DOMAIN seq : m <= n /\ seq[m].bar = b /\ seq[n].bar = b => seq[m].copy <= seq[n].copy

Below(seq, other, b) ==
  \A x \in ToSet(seq), y \in ToSet(other) : x.bar = b /\ y.bar = b => x.copy <= y.copy

Arranged(b) ==
  /\ \A i \in DOMAIN staged : Rising(staged[i].records, b) /\ Below(staged[i].records, live, b)
  /\ \A i, j \in DOMAIN staged : i < j => Below(staged[i].records, staged[j].records, b)
  /\ Rising(live, b)

\* The fullest copy is in the database or will be read.
Reachable(b) == db[b] = best[b] \/ Unread(BestOf(b))

\* The writer has committed the fullest copy and not noted it yet.
Pending(b) ==
  /\ writer.at \in {"committed", "noting"} /\ BestOf(b) \in ToSet(writer.batch) /\ db[b] = best[b]
  /\ Tracked(ledger, b) => ledger.bars[b].disk < best[b]

\* A bar with a copy on disk has its fullest copy there, or is about to.
Backed(b) == OnFile(b) => BestOf(b) \in OnDisk \/ Pending(b)

\* The ledger knows of a bar that is on disk, for as long as it is.
Known(b) ==
  b \notin retired =>
    /\ b \in BarsOf(live) => \/ Tracked(ledger, b) /\ ledger.bars[b].disk_epoch >= epoch
                             \/ b \in untracked /\ ledger.active /\ ledger.disk_epoch >= epoch
    /\ OnFile(b) => Tracked(ledger, b) \/ ledger.active
    /\ OnFile(b) /\ ~Tracked(ledger, b) => b \in untracked

Bounded(b) == Tracked(ledger, b) => \A s \in OnDisk : s.bar = b => s.copy <= ledger.bars[b].disk

\* What counts as committed is in the database.
Stored(b) ==
  /\ Tracked(ledger, b) => ledger.bars[b].committed <= db[b]
  /\ writer.at \in Busy => \A s \in ToSet(writer.batch) : s.bar = b => s.copy <= db[b]

Reading(b) ==
  writer.at = "replayed" =>
    \A n \in DOMAIN staged[writer.file].records :
       /\ n > staged[writer.file].offset /\ n <= staged[writer.file].offset + writer.read
       /\ staged[writer.file].records[n] = BestOf(b)
       => db[b] = best[b]

BarInv(b) ==
  Arranged(b) /\ Reachable(b) /\ Backed(b) /\ Known(b) /\ Bounded(b) /\ Stored(b) /\ Reading(b)

\* A copy in the escalation queue with a fuller one in the database or on disk
\* will not be written, or its bar is one the ledger had no room for.
Refused(s, mark) ==
  s.bar \notin exposed /\ s.copy < best[s.bar] =>
    \/ s.bar \in untracked
    \/ /\ Tracked(ledger, s.bar) /\ s.copy < fullest(ledger.bars[s.bar])
       /\ ledger.bars[s.bar].queue_mark >= mark
    \/ /\ Pending(s.bar)
       /\ writer.at = "noting" => writer.queue_busy /\ writer.mark >= mark

Escalated ==
  /\ \A i \in DOMAIN queue : Refused(queue[i], escalation_finished + run_len + i)
  /\ \A s \in ToSet(todo["escalation"]) : Refused(s, escalation_finished + 1)

InRead ==
  writer.at = "replayed" => /\ staged[writer.file].state = "ready"
                            /\ \A j \in DOMAIN staged : j < writer.file => staged[j].state = "awaiting"

KeptInv ==
  /\ Unfaulted /\ Booting /\ Current /\ Onward /\ Escalated /\ InRead
  /\ \A b \in Bars \ exposed : BarInv(b)

-----------------------------------------------------------------------------
(* What a step leaves alone.                                               *)

\* Nothing new in the database or on disk: the fullest copies are the same.
LEMMA BestSource ==
  ASSUME SpillInv, SpillInv', BestUpdated
  PROVE  /\ best \in [Bars -> Copy] /\ best' \in [Bars -> Copy]
         /\ \A b \in Bars : /\ best[b] \in Nat /\ best'[b] \in Nat /\ db[b] \in Nat /\ db'[b] \in Nat
                            /\ db[b] <= best[b] /\ db'[b] <= best'[b] /\ best[b] <= best'[b]
         /\ \A b \in Bars : \/ best'[b] = best[b] \/ best'[b] = db'[b]
                            \/ \E s \in OnDisk' : s.bar = b /\ s.copy = best'[b]
         /\ OnDisk \subseteq Seal /\ OnDisk' \subseteq Seal
         /\ \A s \in OnDisk : s.copy <= best[s.bar]
         /\ \A s \in OnDisk' : s.copy <= best'[s.bar]
<1>1. /\ best \in [Bars -> Copy] /\ best' \in [Bars -> Copy] /\ db \in [Bars -> Copy] /\ db' \in [Bars -> Copy]
      /\ \A b \in Bars : db[b] <= best[b] /\ db'[b] <= best'[b]
      /\ \A s \in OnDisk : s.copy <= best[s.bar]
      /\ \A s \in OnDisk' : s.copy <= best'[s.bar]
      /\ sealed \in [Bars -> Copy] /\ sealed' \in [Bars -> Copy]
  BY DEF SpillInv, Base, Tables, Reached
<1>2. \A b \in Bars : best[b] \in Nat /\ best'[b] \in Nat /\ db[b] \in Nat /\ db'[b] \in Nat BY <1>1, SealFacts
<1>3. OnDisk \subseteq Seal
  <2>1. OnDisk \subseteq SealsUpTo(sealed) BY OnDiskFacts DEF SpillInv, Base, Records
  <2> QED BY <2>1 DEF SealsUpTo
<1>4. OnDisk' \subseteq Seal
  <2>1. PICK H : H = SealsUpTo(sealed') OBVIOUS
  <2>2. live' \in Seq(H) /\ dlq' \in Seq(H) /\ staged' \in Seq(StagedFile(H)) BY <2>1 DEF SpillInv, Base, Records
  <2>3. H \subseteq Seal BY <2>1 DEF SealsUpTo
  <2>4. \A i \in DOMAIN staged' : staged'[i].records \in Seq(H) BY <2>2 DEF StagedFile
  <2>5. /\ ToSet(live') \subseteq H /\ ToSet(dlq') \subseteq H
        /\ \A i \in DOMAIN staged' : ToSet(staged'[i].records) \subseteq H
    BY <2>2, <2>4, SetOfSeq
  <2> QED BY <2>3, <2>5 DEF OnDisk
<1>5. ASSUME NEW b \in Bars
      PROVE  /\ best[b] <= best'[b]
             /\ best'[b] = best[b] \/ best'[b] = db'[b] \/ \E s \in OnDisk' : s.bar = b /\ s.copy = best'[b]
  <2>1. PICK S : S = {best[b], db'[b]} \cup {s.copy : s \in {x \in OnDisk' : x.bar = b}} OBVIOUS
  <2>2. best'[b] = Max(S) BY <2>1 DEF BestUpdated
  <2>3. S \subseteq 0..MaxCopies /\ S # {} /\ MaxCopies \in Nat BY <1>1, <1>4, <2>1, LargerFacts, SealFacts DEF Copy
  <2>4. Max(S) \in S /\ best[b] <= Max(S) BY <2>1, <2>3, MaxOf
  <2> QED BY <2>1, <2>2, <2>4
<1> QED BY <1>1, <1>2, <1>3, <1>4, <1>5

LEMMA BestSame ==
  ASSUME SpillInv, SpillInv', BestUpdated, db' = db, OnDisk' \subseteq OnDisk
  PROVE  best' = best
<1>1. ASSUME NEW b \in Bars PROVE best'[b] = best[b]
  <2>1. /\ best[b] \in Nat /\ best'[b] \in Nat /\ best[b] <= best'[b] /\ db[b] <= best[b]
        /\ best'[b] = best[b] \/ best'[b] = db'[b] \/ \E s \in OnDisk' : s.bar = b /\ s.copy = best'[b]
        /\ \A s \in OnDisk : s.copy <= best[s.bar]
    BY BestSource
  <2>2. best'[b] <= best[b] BY <2>1
  <2> QED BY <2>1, <2>2
<1>2. best \in [Bars -> Copy] /\ best' \in [Bars -> Copy] BY BestSource
<1> QED BY <1>1, <1>2

LikeLedger(l, m) ==
  /\ DOMAIN m.bars = DOMAIN l.bars /\ m.active = l.active /\ m.disk_epoch = l.disk_epoch
  /\ m.dead_letter_max_bucket = l.dead_letter_max_bucket
  /\ \A b \in DOMAIN l.bars : /\ m.bars[b].disk = l.bars[b].disk /\ m.bars[b].disk_epoch = l.bars[b].disk_epoch
                              /\ m.bars[b].queue_mark = l.bars[b].queue_mark
                              /\ m.bars[b].committed = l.bars[b].committed

SameDisk ==
  /\ UNCHANGED <<db, best, live, dlq, epoch, untracked, retired, exposed>>
  /\ LikeLedger(ledger, ledger') /\ SameRecords(staged, staged')

SameWriter == \/ writer' = writer /\ (writer.at = "replayed" => staged' = staged)
              \/ writer.at \notin Busy /\ writer'.at \notin Busy

LEMMA SameOnDisk ==
  ASSUME SameRecords(staged, staged'), live' = live, dlq' = dlq
  PROVE  OnDisk' = OnDisk
BY DEF SameRecords, OnDisk

LEMMA PendingFrame ==
  ASSUME SameDisk, SameWriter, NEW b, Pending(b)
  PROVE  Pending(b)' /\ writer' = writer
<1>1. writer.at \in Busy BY DEF Pending, Busy
<1>2. writer' = writer BY <1>1 DEF SameWriter
<1>3. BestOf(b)' = BestOf(b) BY DEF BestOf, SameDisk
<1>4. Tracked(ledger', b) => ledger'.bars[b].disk < best'[b] BY DEF Pending, SameDisk, LikeLedger, Tracked
<1> QED BY <1>2, <1>3, <1>4 DEF Pending, SameDisk

LEMMA RefusedFrame ==
  ASSUME SameDisk, SameWriter, NEW s, NEW mark, Refused(s, mark)
  PROVE  Refused(s, mark)'
<1> SUFFICES ASSUME s.bar \notin exposed, s.copy < best[s.bar]
             PROVE  \/ s.bar \in untracked
                    \/ /\ Tracked(ledger', s.bar) /\ s.copy < fullest(ledger'.bars[s.bar])
                       /\ ledger'.bars[s.bar].queue_mark >= mark
                    \/ /\ Pending(s.bar)'
                       /\ writer'.at = "noting" => writer'.queue_busy /\ writer'.mark >= mark
  BY DEF Refused, SameDisk
<1>1. CASE s.bar \in untracked BY <1>1
<1>2. CASE /\ Tracked(ledger, s.bar) /\ s.copy < fullest(ledger.bars[s.bar])
           /\ ledger.bars[s.bar].queue_mark >= mark
  BY <1>2 DEF SameDisk, LikeLedger, Tracked, fullest
<1>3. CASE Pending(s.bar) /\ (writer.at = "noting" => writer.queue_busy /\ writer.mark >= mark)
  BY <1>3, PendingFrame
<1> QED BY <1>1, <1>2, <1>3 DEF Refused

LEMMA BarsFrame ==
  ASSUME KeptInv, SameDisk, SameWriter, \A s : Unread(s) => Unread(s)', NEW b \in Bars \ exposed
  PROVE  BarInv(b)'
<1>1. BarInv(b) /\ OnDisk' = OnDisk BY SameOnDisk DEF KeptInv, SameDisk
<1>2. Arranged(b)' BY <1>1 DEF BarInv, Arranged, SameDisk, SameRecords
<1>3. BestOf(b)' = BestOf(b) BY DEF BestOf, SameDisk
<1>4. Reachable(b)' BY <1>1, <1>3 DEF BarInv, Reachable, SameDisk
<1>5. Backed(b)' BY <1>1, <1>3, PendingFrame DEF BarInv, Backed, OnFile
<1>6. Known(b)' BY <1>1 DEF BarInv, Known, OnFile, SameDisk, LikeLedger, Tracked, BarsOf
<1>7. Bounded(b)' BY <1>1 DEF BarInv, Bounded, SameDisk, LikeLedger, Tracked
<1>8. Stored(b)' BY <1>1 DEF BarInv, Stored, SameDisk, LikeLedger, Tracked, SameWriter
<1>9. Reading(b)'
  <2>1. CASE writer' = writer /\ (writer.at = "replayed" => staged' = staged)
    BY <1>1, <1>3, <2>1 DEF BarInv, Reading, SameDisk
  <2>2. CASE writer'.at \notin Busy BY <2>2 DEF Reading, Busy
  <2> QED BY <2>1, <2>2 DEF SameWriter
<1> QED BY <1>2, <1>4, <1>5, <1>6, <1>7, <1>8, <1>9 DEF BarInv

LEMMA MemoryStep ==
  ASSUME SpillInv, SpillInv', BestUpdated, KeptInv,
         UNCHANGED <<db, live, dlq, staged, ledger, epoch, untracked, retired, exposed, dead, unnoted>>,
         writer' = writer \/ (writer.at \notin Busy /\ writer'.at \notin Busy)
  PROVE  SameDisk /\ SameWriter /\ Unfaulted' /\ InRead' /\ \A b \in Bars \ exposed' : BarInv(b)'
<1>1. SameRecords(staged, staged') BY DEF SameRecords
<1>2. best' = best BY <1>1, SameOnDisk, BestSame
<1>3. LikeLedger(ledger, ledger') BY DEF LikeLedger
<1>4. SameDisk BY <1>1, <1>2, <1>3 DEF SameDisk
<1>5. SameWriter BY DEF SameWriter
<1>6. Unfaulted' BY DEF KeptInv, Unfaulted
<1>7. InRead' BY DEF KeptInv, InRead, Busy
<1>8. \A s : Unread(s) => Unread(s)' BY DEF Unread
<1>9. exposed' = exposed OBVIOUS
<1> QED BY <1>4, <1>5, <1>6, <1>7, <1>8, <1>9, BarsFrame

LEMMA HeldSeals ==
  ASSUME SpillInv
  PROVE  /\ channel \in Seq(Seal) /\ ring \in Seq(Seal) /\ queue \in Seq(Seal)
         /\ todo \in [Threads -> Seq(Seal)]
         /\ Held \subseteq Seal /\ \A s \in Held : s.copy <= sealed[s.bar] /\ s.copy \in Nat
         /\ ToSet(channel) \subseteq Held /\ ToSet(ring) \subseteq Held /\ ToSet(queue) \subseteq Held
         /\ \A t \in Threads : ToSet(todo[t]) \subseteq Held
         /\ sealed \in [Bars -> Copy] /\ \A b \in Bars : sealed[b] \in Nat /\ best[b] <= sealed[b] /\ best[b] \in Nat
<1>1. PICK G : G = SealsUpTo(sealed) OBVIOUS
<1>2. sealed \in [Bars -> Copy] /\ best \in [Bars -> Copy] /\ \A b \in Bars : best[b] <= sealed[b]
  BY DEF SpillInv, Base, Tables, Reached
<1>3. G \subseteq Seal /\ \A s \in G : s.copy <= sealed[s.bar] BY <1>1, <1>2, SealsUpToFacts
<1>4. channel \in Seq(G) /\ ring \in Seq(G) /\ queue \in Seq(G) /\ todo \in [Threads -> Seq(G)]
  BY <1>1 DEF SpillInv, Base, InMemory
<1>5. Seq(G) \subseteq Seq(Seal) BY <1>3, SeqMonotone
<1>6. Held \subseteq G BY <1>1, HeldFacts DEF SpillInv
<1>7. \A s \in Held : s.copy \in Nat BY <1>3, <1>6, SealFacts
<1>8. \A b \in Bars : sealed[b] \in Nat /\ best[b] \in Nat BY <1>2, SealFacts
<1>9. channel \in Seq(Seal) /\ ring \in Seq(Seal) /\ queue \in Seq(Seal) /\ todo \in [Threads -> Seq(Seal)]
  BY <1>4, <1>5
<1>10. /\ ToSet(channel) \subseteq Held /\ ToSet(ring) \subseteq Held /\ ToSet(queue) \subseteq Held
       /\ \A t \in Threads : ToSet(todo[t]) \subseteq Held
  BY DEF Held
<1> QED BY <1>2, <1>3, <1>6, <1>7, <1>8, <1>9, <1>10

\* What Produce says of the bar and its next copy.
LEMMA NewSeal ==
  ASSUME SpillInv, KeptInv, NEW b \in Bars, Produce(b)
  PROVE  /\ NextSeal(b) \in [bar : Bars, copy : Nat] /\ NextSeal(b).bar = b /\ NextSeal(b).copy = sealed[b] + 1
         /\ NextSeal(b).copy > db[b] /\ NextSeal(b).copy > best[b] /\ b \notin retired
         /\ writer.at # "boot" /\ todo["producer"] = <<>>
         /\ \A s \in Held : s.bar = b => s.copy < NextSeal(b).copy
<1>1. sealed[b] \in Nat /\ best[b] \in Nat /\ best[b] <= sealed[b] BY HeldSeals
<1>2. db[b] <= best[b] /\ db[b] \in Nat BY SealFacts DEF SpillInv, Base, Tables, Reached
<1>3. NextSeal(b) \in [bar : Bars, copy : Nat] /\ NextSeal(b).bar = b /\ NextSeal(b).copy = sealed[b] + 1
  BY <1>1 DEF NextSeal
<1>4. b \notin retired /\ writer.at # "boot" /\ todo["producer"] = <<>> BY DEF Produce, Empty
<1>5. \A s \in Held : s.copy <= sealed[s.bar] /\ s.copy \in Nat BY HeldSeals
<1> QED BY <1>1, <1>2, <1>3, <1>4, <1>5

LEMMA KeptSendToWriter ==
  ASSUME SpillInv, SpillInv', BestUpdated, KeptInv, NEW b \in Bars, SendToWriter(b)
  PROVE  KeptInv'
<1>1. /\ UNCHANGED <<db, live, dlq, staged, ledger, epoch, untracked, retired, exposed, dead, unnoted>> /\ writer' = writer
      /\ Produce(b) /\ channel' = Append(channel, NextSeal(b))
      /\ UNCHANGED <<ring, queue, todo, escalation_finished, run_len>>
  BY DEF SendToWriter, index, disk, ghosts
<1>2. SameDisk /\ SameWriter /\ Unfaulted' /\ InRead' /\ \A x \in Bars \ exposed' : BarInv(x)' BY <1>1, MemoryStep
<1>3. PICK s : s = NextSeal(b) OBVIOUS
<1>4. s.bar = b /\ s.copy > db[b] /\ b \notin retired /\ writer.at # "boot" /\ todo["producer"] = <<>> BY <1>1, <1>3, NewSeal
<1>5. ToSet(channel') = ToSet(channel) \cup {s} BY <1>1, <1>3, HeldSeals, SetOfAppend
<1>6. Booting' BY <1>1, <1>4 DEF Booting
<1>7. Current'
  <2>1. Held' = Held \cup {s} BY <1>1, <1>5 DEF Held
  <2> QED BY <1>1, <1>4, <2>1 DEF KeptInv, Current
<1>8. Onward'
  <2>1. ToSet(todo'["producer"]) = {} BY <1>1, <1>4, SetOfSeq
  <2> QED BY <1>1, <1>4, <1>5, <2>1 DEF KeptInv, Onward
<1>9. Escalated' BY <1>1, <1>2, RefusedFrame DEF KeptInv, Escalated
<1> QED BY <1>2, <1>6, <1>7, <1>8, <1>9 DEF KeptInv

LEMMA KeptEscalateQueued ==
  ASSUME SpillInv, SpillInv', BestUpdated, KeptInv, NEW b \in Bars, EscalateQueued(b)
  PROVE  KeptInv'
<1>1. /\ UNCHANGED <<db, live, dlq, staged, ledger, epoch, untracked, retired, exposed, dead, unnoted>> /\ writer' = writer
      /\ Produce(b) /\ queue' = Append(queue, NextSeal(b))
      /\ UNCHANGED <<channel, ring, todo, escalation_finished, run_len>>
  BY DEF EscalateQueued, index, disk, ghosts
<1>2. SameDisk /\ SameWriter /\ Unfaulted' /\ InRead' /\ \A x \in Bars \ exposed' : BarInv(x)' BY <1>1, MemoryStep
<1>3. PICK s : s = NextSeal(b) OBVIOUS
<1>4. /\ s.bar = b /\ s.copy \in Nat /\ s.copy > best[b] /\ b \notin retired /\ writer.at # "boot" /\ todo["producer"] = <<>>
      /\ \A x \in Held : x.bar = b => x.copy < s.copy
  BY <1>1, <1>3, NewSeal
<1>5. ToSet(queue') = ToSet(queue) \cup {s} /\ queue \in Seq(Seal) BY <1>1, <1>3, HeldSeals, SetOfAppend
<1>6. Booting' BY <1>1, <1>4 DEF Booting
<1>7. Current'
  <2>1. Held' = Held \cup {s} BY <1>1, <1>5 DEF Held
  <2> QED BY <1>1, <1>4, <2>1 DEF KeptInv, Current
<1>8. Onward'
  <2>1. ToSet(todo'["producer"]) = {} BY <1>1, <1>4, SetOfSeq
  <2>2. ToSet(queue) \subseteq Held /\ ToSet(todo["escalation"]) \subseteq Held BY HeldSeals DEF Threads
  <2>3. Ascending(queue) /\ Precede(todo["escalation"], queue) BY DEF KeptInv, Onward
  <2>4. Ascending(queue') BY <1>1, <1>3, <1>4, <1>5, <2>2, <2>3, AscendingAppend
  <2>5. Precede(todo["escalation"], queue') BY <1>4, <1>5, <2>2, <2>3 DEF Precede
  <2> QED BY <1>1, <2>1, <2>4, <2>5 DEF KeptInv, Onward
<1>9. Escalated'
  <2>1. DOMAIN queue' = DOMAIN queue \cup {Len(queue) + 1} /\ queue'[Len(queue) + 1] = s
        /\ \A i \in DOMAIN queue : queue'[i] = queue[i]
    BY <1>1, <1>3, <1>5
  <2>2. best' = best /\ best[b] \in Nat BY <1>2, HeldSeals DEF SameDisk
  <2>3. \A mark : Refused(s, mark)' BY <1>4, <2>2 DEF Refused
  <2>4. \A i \in DOMAIN queue : Refused(queue[i], escalation_finished + run_len + i)' BY <1>1, <1>2, RefusedFrame DEF KeptInv, Escalated
  <2>5. \A x \in ToSet(todo["escalation"]) : Refused(x, escalation_finished + 1)' BY <1>1, <1>2, RefusedFrame DEF KeptInv, Escalated
  <2> QED BY <1>1, <2>1, <2>3, <2>4, <2>5 DEF Escalated
<1> QED BY <1>2, <1>6, <1>7, <1>8, <1>9 DEF KeptInv

LEMMA KeptEscalateInline ==
  ASSUME SpillInv, SpillInv', BestUpdated, KeptInv, NEW b \in Bars, EscalateInline(b)
  PROVE  KeptInv'
<1>1. /\ UNCHANGED <<db, live, dlq, staged, ledger, epoch, untracked, retired, exposed, dead, unnoted>> /\ writer' = writer
      /\ Produce(b) /\ todo' = [todo EXCEPT !["producer"] = <<NextSeal(b)>>]
      /\ UNCHANGED <<channel, ring, queue, escalation_finished, run_len>>
  BY DEF EscalateInline, index, disk, ghosts, WithTodo
<1>2. SameDisk /\ SameWriter /\ Unfaulted' /\ InRead' /\ \A x \in Bars \ exposed' : BarInv(x)' BY <1>1, MemoryStep
<1>3. PICK s : s = NextSeal(b) OBVIOUS
<1>4. s.bar = b /\ s.copy = sealed[b] + 1 /\ b \notin retired /\ writer.at # "boot" BY <1>1, <1>3, NewSeal
<1>5. PICK one : one = <<s>> OBVIOUS
<1>6. ToSet(one) = {s} BY <1>5, SetOfSeq
<1>7. /\ todo'["producer"] = one /\ todo'["writer"] = todo["writer"] /\ todo'["escalation"] = todo["escalation"]
      /\ \A t \in Threads : t # "producer" => todo'[t] = todo[t]
  BY <1>1, <1>3, <1>5, HeldSeals DEF Threads
<1>8. Booting' BY <1>1, <1>4 DEF Booting
<1>9. Current'
  <2>1. \A x \in Held' : x \in Held \/ x = s BY <1>1, <1>6, <1>7 DEF Held
  <2> QED BY <1>1, <1>4, <2>1 DEF KeptInv, Current
<1>10. Onward'
  <2>1. sealed'[b] = sealed[b] + 1 BY <1>1, HeldSeals DEF Produce
  <2>2. \A x \in ToSet(todo'["producer"]) : x.copy = sealed'[x.bar] BY <1>4, <1>6, <1>7, <2>1
  <2> QED BY <1>1, <1>7, <2>2 DEF KeptInv, Onward
<1>11. Escalated' BY <1>1, <1>2, <1>7, RefusedFrame DEF KeptInv, Escalated
<1> QED BY <1>2, <1>8, <1>9, <1>10, <1>11 DEF KeptInv

\* What a later mark promises, an earlier one does.
LEMMA RefusedLower ==
  ASSUME SpillInv', NEW s, NEW m \in Nat, NEW k \in Nat, m >= k, Refused(s, m)'
  PROVE  Refused(s, k)'
<1>1. \A b \in DOMAIN ledger'.bars : ledger'.bars[b].queue_mark \in Nat BY DEF SpillInv, Claims, IsLedger, SealEntry
<1>2. Tracked(ledger', s.bar) /\ ledger'.bars[s.bar].queue_mark >= m => ledger'.bars[s.bar].queue_mark >= k
  BY <1>1 DEF Tracked
<1>3. writer'.at = "noting" => writer'.mark \in Nat BY DEF SpillInv, Base, InWriter
<1>4. writer'.at = "noting" /\ writer'.mark >= m => writer'.mark >= k BY <1>3
<1> QED BY <1>2, <1>4 DEF Refused

LEMMA KeptTakeRun ==
  ASSUME SpillInv, SpillInv', BestUpdated, KeptInv, NEW n \in 1..Len(queue), TakeRun(n)
  PROVE  KeptInv'
<1>1. /\ UNCHANGED <<db, live, dlq, staged, ledger, epoch, untracked, retired, exposed, dead, unnoted>> /\ writer' = writer
      /\ UNCHANGED <<channel, ring, escalation_finished, sealed>> /\ run_len = 0 /\ run_len' = n
      /\ todo' = [todo EXCEPT !["escalation"] = SubSeq(queue, 1, n)] /\ queue' = SubSeq(queue, n + 1, Len(queue))
  BY DEF TakeRun, index, disk, ghosts, WithTodo, lineage
<1>2. SameDisk /\ SameWriter /\ Unfaulted' /\ InRead' /\ \A x \in Bars \ exposed' : BarInv(x)' BY <1>1, MemoryStep
<1>3. PICK a, z : a = SubSeq(queue, 1, n) /\ z = SubSeq(queue, n + 1, Len(queue)) OBVIOUS
<1>4. queue \in Seq(Seal) /\ todo \in [Threads -> Seq(Seal)] BY HeldSeals
<1>5. n \in 0..Len(queue) /\ n \in Nat /\ Len(queue) \in Nat BY <1>4
<1>6. SplitAt(Seal, queue, n, a, z) BY <1>3, <1>4, <1>5, SetOfParts
<1>7. ToSet(queue) = ToSet(a) \cup ToSet(z) /\ a \in Seq(Seal) /\ z \in Seq(Seal) BY <1>6 DEF SplitAt
<1>8. /\ todo'["escalation"] = a /\ todo'["producer"] = todo["producer"] /\ todo'["writer"] = todo["writer"] /\ queue' = z
      /\ \A t \in Threads : t # "escalation" => todo'[t] = todo[t]
  BY <1>1, <1>3, <1>4 DEF Threads
<1>9. queue # <<>> BY <1>4
<1>10. writer.at # "boot" BY <1>9 DEF KeptInv, Booting
<1>11. Booting' BY <1>1, <1>10 DEF Booting
<1>12. Current'
  <2>1. \A t \in Threads : ToSet(todo'[t]) \subseteq Held
    <3>1. ToSet(a) \subseteq Held BY <1>7 DEF Held
    <3>2. \A t \in Threads : ToSet(todo[t]) \subseteq Held BY DEF Held
    <3> QED BY <1>8, <3>1, <3>2
  <2>2. ToSet(queue') \subseteq Held BY <1>7, <1>8 DEF Held
  <2>3. Held' \subseteq Held BY <1>1, <2>1, <2>2 DEF Held
  <2> QED BY <1>1, <2>3 DEF KeptInv, Current
<1>13. Onward'
  <2>1. Ascending(queue) BY DEF KeptInv, Onward
  <2>2. Ascending(a) /\ Ascending(z) /\ Precede(a, z) BY <1>4, <1>5, <1>6, <2>1, AscendingParts
  <2> QED BY <1>1, <1>8, <2>2 DEF KeptInv, Onward
<1>14. Escalated'
  <2>1. PICK q, base : q = queue /\ base = escalation_finished OBVIOUS
  <2>2. base \in Nat /\ DOMAIN q = 1..Len(q) /\ Len(q) \in Nat BY <1>4, <2>1 DEF SpillInv, Base, Counters
  <2>3. ASSUME NEW i \in DOMAIN q PROVE Refused(q[i], base + i)'
    <3>1. escalation_finished + run_len + i = base + i BY <1>1, <2>1, <2>2
    <3>2. Refused(q[i], base + i) BY <2>1, <3>1 DEF KeptInv, Escalated
    <3> QED BY <1>2, <3>2, RefusedFrame
  <2>4. ASSUME NEW i \in DOMAIN z PROVE Refused(z[i], base + n + i)'
    <3>1. i \in 1..(Len(q) - n) /\ z[i] = q[n + i] BY <1>6, <1>7, <2>1 DEF SplitAt
    <3>2. n + i \in DOMAIN q /\ base + (n + i) = base + n + i BY <1>5, <2>1, <2>2, <3>1
    <3>3. PICK k \in DOMAIN q : k = n + i BY <3>2
    <3>4. Refused(q[k], base + k)' BY <2>3
    <3> QED BY <3>1, <3>2, <3>3, <3>4
  <2>5. ASSUME NEW s \in ToSet(a) PROVE Refused(s, base + 1)'
    <3>1. PICK i \in DOMAIN a : a[i] = s BY DEF ToSet
    <3>2. i \in 1..n /\ a[i] = q[i] /\ i \in DOMAIN q BY <1>4, <1>5, <1>6, <1>7, <2>1, <3>1 DEF SplitAt
    <3>3. Refused(s, base + i)' BY <2>3, <3>1, <3>2
    <3>4. base + i \in Nat /\ base + 1 \in Nat /\ base + i >= base + 1 BY <2>2, <3>2
    <3> QED BY <3>3, <3>4, RefusedLower
  <2> QED BY <1>1, <1>8, <2>1, <2>4, <2>5 DEF Escalated
<1> QED BY <1>2, <1>11, <1>12, <1>13, <1>14 DEF KeptInv

LEMMA KeptFinishRun ==
  ASSUME SpillInv, SpillInv', BestUpdated, KeptInv, FinishRun
  PROVE  KeptInv'
<1>1. /\ UNCHANGED <<db, live, dlq, staged, ledger, epoch, untracked, retired, exposed, dead, unnoted>> /\ writer' = writer
      /\ UNCHANGED <<channel, ring, queue, todo, sealed, boot>> /\ escalation_finished' = escalation_finished + run_len /\ run_len' = 0
      /\ todo["escalation"] = <<>>
  BY DEF FinishRun, index, disk, ghosts, lineage, Empty
<1>2. SameDisk /\ SameWriter /\ Unfaulted' /\ InRead' /\ \A x \in Bars \ exposed' : BarInv(x)' BY <1>1, MemoryStep
<1>3. Booting' BY <1>1 DEF KeptInv, Booting
<1>4. Current' BY <1>1 DEF KeptInv, Current, Held
<1>5. Onward' BY <1>1 DEF KeptInv, Onward
<1>6. Escalated'
  <2>1. PICK q, base : q = queue /\ base = escalation_finished + run_len OBVIOUS
  <2>2. base \in Nat /\ DOMAIN q \subseteq Nat BY <2>1, HeldSeals DEF SpillInv, Base, Counters
  <2>3. ASSUME NEW i \in DOMAIN q PROVE Refused(q[i], base + 0 + i)'
    <3>1. base + 0 + i = base + i BY <2>2
    <3>2. Refused(q[i], base + 0 + i) BY <2>1, <3>1 DEF KeptInv, Escalated
    <3> QED BY <1>2, <3>2, RefusedFrame
  <2>4. ToSet(todo'["escalation"]) = {} BY <1>1, SetOfSeq
  <2> QED BY <1>1, <2>1, <2>3, <2>4 DEF Escalated
<1> QED BY <1>2, <1>3, <1>4, <1>5, <1>6 DEF KeptInv

\* The counters and the queue stay: so does what is said of the copies queued.
LEMMA EscalatedFrame ==
  ASSUME KeptInv, SameDisk, SameWriter, UNCHANGED <<queue, escalation_finished, run_len>>, todo'["escalation"] = todo["escalation"]
  PROVE  Escalated'
<1>1. PICK q, base, run, r : q = queue /\ base = escalation_finished /\ run = run_len /\ r = todo["escalation"] OBVIOUS
<1>2. ASSUME NEW i \in DOMAIN q PROVE Refused(q[i], base + run + i)'
  <2>1. Refused(q[i], base + run + i) BY <1>1 DEF KeptInv, Escalated
  <2> QED BY <2>1, RefusedFrame
<1>3. ASSUME NEW s \in ToSet(r) PROVE Refused(s, base + 1)'
  <2>1. Refused(s, base + 1) BY <1>1 DEF KeptInv, Escalated
  <2> QED BY <2>1, RefusedFrame
<1> QED BY <1>1, <1>2, <1>3 DEF Escalated

LEMMA KeptTakeChannel ==
  ASSUME SpillInv, SpillInv', BestUpdated, KeptInv, TakeChannel
  PROVE  KeptInv'
<1>1. /\ UNCHANGED <<db, live, dlq, staged, ledger, epoch, untracked, retired, exposed, dead, unnoted>> /\ writer' = writer
      /\ UNCHANGED <<queue, todo, sealed, escalation_finished, run_len>> /\ ring' = ring \o channel /\ channel' = <<>>
      /\ writer.at = "idle"
  BY DEF TakeChannel, index, disk, ghosts, lineage, Idle
<1>2. SameDisk /\ SameWriter /\ Unfaulted' /\ InRead' /\ \A x \in Bars \ exposed' : BarInv(x)' BY <1>1, MemoryStep
<1>3. Booting' BY <1>1 DEF Booting
<1>4. ring \in Seq(Seal) /\ channel \in Seq(Seal) BY HeldSeals
<1>5. ToSet(ring') = ToSet(ring) \cup ToSet(channel) /\ ToSet(channel') = {} BY <1>1, <1>4, SetOfConcat, SetOfSeq
<1>6. Current'
  <2>1. Held' = Held BY <1>1, <1>5 DEF Held
  <2> QED BY <1>1, <2>1 DEF KeptInv, Current
<1>7. Onward' BY <1>1, <1>5 DEF KeptInv, Onward
<1>8. Escalated' BY <1>1, <1>2, EscalatedFrame
<1> QED BY <1>2, <1>3, <1>6, <1>7, <1>8 DEF KeptInv

LEMMA KeptRescue ==
  ASSUME SpillInv, SpillInv', BestUpdated, KeptInv, NEW n \in 1..Len(ring), Rescue(n)
  PROVE  KeptInv'
<1>1. PICK a, z : a = SubSeq(ring, 1, n) /\ z = SubSeq(ring, n + 1, Len(ring)) OBVIOUS
<1>2. /\ UNCHANGED <<db, live, dlq, staged, ledger, epoch, untracked, retired, exposed, dead, unnoted>>
      /\ UNCHANGED <<channel, queue, sealed, escalation_finished, run_len>>
      /\ ring' = z /\ todo' = [todo EXCEPT !["writer"] = a] /\ writer' = [at |-> "rescuing"] /\ writer.at = "idle"
  BY <1>1 DEF Rescue, index, disk, ghosts, lineage, Idle, WithTodo
<1>3. writer'.at = "rescuing" BY <1>2
<1>4. writer.at \notin Busy /\ writer'.at \notin Busy BY <1>2, <1>3 DEF Busy
<1>5. SameDisk /\ SameWriter /\ Unfaulted' /\ InRead' /\ \A x \in Bars \ exposed' : BarInv(x)' BY <1>2, <1>4, MemoryStep
<1>6. Booting' BY <1>3 DEF Booting
<1>7. ring \in Seq(Seal) /\ todo \in [Threads -> Seq(Seal)] BY HeldSeals
<1>8. n \in 0..Len(ring) BY <1>7
<1>9. ToSet(ring) = ToSet(a) \cup ToSet(z)
  <2>1. SplitAt(Seal, ring, n, a, z) BY <1>1, <1>7, <1>8, SetOfParts
  <2> QED BY <2>1 DEF SplitAt
<1>10. /\ todo'["writer"] = a /\ todo'["producer"] = todo["producer"] /\ todo'["escalation"] = todo["escalation"]
       /\ \A t \in Threads : t # "writer" => todo'[t] = todo[t]
  BY <1>2, <1>7 DEF Threads
<1>11. Current'
  <2>1. \A t \in Threads : ToSet(todo'[t]) \subseteq Held
    <3>1. ToSet(a) \subseteq Held BY <1>9 DEF Held
    <3>2. \A t \in Threads : ToSet(todo[t]) \subseteq Held BY DEF Held
    <3> QED BY <1>10, <3>1, <3>2
  <2>2. ToSet(ring') \subseteq Held BY <1>2, <1>9 DEF Held
  <2>3. Held' \subseteq Held BY <1>2, <2>1, <2>2 DEF Held
  <2> QED BY <1>2, <1>3, <2>3 DEF KeptInv, Current
<1>12. Onward' BY <1>2, <1>9, <1>10 DEF KeptInv, Onward
<1>13. Escalated' BY <1>2, <1>5, <1>10, EscalatedFrame
<1> QED BY <1>5, <1>6, <1>11, <1>12, <1>13 DEF KeptInv

LEMMA KeptRescued ==
  ASSUME SpillInv, SpillInv', BestUpdated, KeptInv, Rescued
  PROVE  KeptInv'
<1>1. /\ UNCHANGED <<db, live, dlq, staged, ledger, epoch, untracked, retired, exposed, dead, unnoted>>
      /\ UNCHANGED <<channel, ring, queue, todo, sealed, escalation_finished, run_len>>
      /\ writer.at = "rescuing" /\ writer'.at = "idle"
  BY DEF Rescued, memory, index, disk, ghosts, lineage, Idle
<1>2. writer.at \notin Busy /\ writer'.at \notin Busy BY <1>1 DEF Busy
<1>3. SameDisk /\ SameWriter /\ Unfaulted' /\ InRead' /\ \A x \in Bars \ exposed' : BarInv(x)' BY <1>1, <1>2, MemoryStep
<1>4. Booting' BY <1>1 DEF Booting
<1>5. Current' BY <1>1 DEF KeptInv, Current, Held
<1>6. Onward' BY <1>1 DEF KeptInv, Onward
<1>7. Escalated' BY <1>1, <1>3, EscalatedFrame
<1> QED BY <1>3, <1>4, <1>5, <1>6, <1>7 DEF KeptInv

\* The watcher's word: commits are trusted no more, and files may be read again.
LEMMA WatcherStep ==
  ASSUME SpillInv, SpillInv', BestUpdated, KeptInv, writer.at = "idle", writer' = writer, ledger' = distrust_commits(ledger),
         UNCHANGED <<db, lineage, memory, epoch, live, dlq, ghosts>>, SameRecords(staged, staged'), Unfaulted',
         \A s : Unread(s) => Unread(s)'
  PROVE  KeptInv'
<1>1. /\ UNCHANGED <<channel, ring, queue, todo, sealed, retired, escalation_finished, run_len, dead, unnoted>>
      /\ UNCHANGED <<untracked, exposed>>
  BY DEF lineage, memory, ghosts
<1>2. LikeLedger(ledger, ledger')
  <2>1. PICK m : m = ledger' OBVIOUS
  <2>2. IsLedger(ledger) BY DEF SpillInv, Claims
  <2>3. /\ DOMAIN m.bars = DOMAIN ledger.bars /\ m.active = ledger.active /\ m.disk_epoch = ledger.disk_epoch
        /\ m.dead_letter_max_bucket = ledger.dead_letter_max_bucket
        /\ \A b \in DOMAIN ledger.bars :
               /\ m.bars[b].disk = ledger.bars[b].disk /\ m.bars[b].disk_epoch = ledger.bars[b].disk_epoch
               /\ m.bars[b].queue_mark = ledger.bars[b].queue_mark /\ m.bars[b].committed = ledger.bars[b].committed
    BY <2>1, <2>2, DistrustFacts
  <2> QED BY <2>1, <2>3 DEF LikeLedger
<1>3. best' = best BY SameOnDisk, BestSame
<1>4. SameDisk BY <1>1, <1>2, <1>3 DEF SameDisk
<1>5. SameWriter BY DEF SameWriter
<1>6. Booting' BY DEF Booting
<1>7. Current' BY <1>1 DEF KeptInv, Current, Held
<1>8. Onward' BY <1>1 DEF KeptInv, Onward
<1>9. Escalated' BY <1>1, <1>4, <1>5, EscalatedFrame
<1>10. InRead' BY DEF InRead
<1>11. \A b \in Bars \ exposed' : BarInv(b)' BY <1>1, <1>4, <1>5, BarsFrame
<1> QED BY <1>6, <1>7, <1>8, <1>9, <1>10, <1>11 DEF KeptInv

LEMMA KeptTrust ==
  ASSUME SpillInv, SpillInv', BestUpdated, KeptInv, Trust
  PROVE  KeptInv'
<1>1. /\ writer.at = "idle" /\ writer' = writer /\ ledger' = distrust_commits(ledger)
      /\ UNCHANGED <<db, lineage, memory, epoch, live, dlq, staged, ghosts>>
  BY DEF Trust, Idle, disk
<1>2. SameRecords(staged, staged') BY <1>1 DEF SameRecords
<1>3. \A s : Unread(s) => Unread(s)' BY <1>1 DEF Unread
<1>4. dead' = dead /\ unnoted' = unnoted BY <1>1 DEF memory
<1>5. ledger'.dead_letter_max_bucket = 0
  <2>1. PICK m : m = ledger' OBVIOUS
  <2>2. m.dead_letter_max_bucket = ledger.dead_letter_max_bucket BY <1>1, <2>1, DistrustFacts DEF SpillInv, Claims
  <2> QED BY <2>1, <2>2 DEF KeptInv, Unfaulted
<1>6. Unfaulted' BY <1>1, <1>4, <1>5 DEF KeptInv, Unfaulted
<1> QED BY <1>1, <1>2, <1>3, <1>6, WatcherStep

LEMMA KeptSuspect ==
  ASSUME SpillInv, SpillInv', BestUpdated, KeptInv, Suspect
  PROVE  KeptInv'
<1>1. /\ writer.at = "idle" /\ writer' = writer /\ ledger' = distrust_commits(ledger)
      /\ UNCHANGED <<db, lineage, memory, epoch, live, dlq, ghosts>>
      /\ staged' = [i \in DOMAIN staged |-> IF staged[i].state = "skipped" THEN staged[i]
                                            ELSE [staged[i] EXCEPT !.offset = 0, !.state = "ready"]]
  BY DEF Suspect, Idle
<1>2. PICK G : G = SealsUpTo(sealed) OBVIOUS
<1>3. staged \in Seq(StagedFile(G)) BY <1>2 DEF SpillInv, Base, Records
<1>4. \A i \in DOMAIN staged : staged[i].state # "skipped" /\ staged[i].kind = "spill" BY DEF KeptInv, Unfaulted
<1>5. DOMAIN staged' = DOMAIN staged BY <1>1
<1>6. \A i \in DOMAIN staged : staged'[i] = [staged[i] EXCEPT !.offset = 0, !.state = "ready"] BY <1>1, <1>4
<1>7. ASSUME NEW i \in DOMAIN staged
      PROVE  /\ staged'[i].records = staged[i].records /\ staged'[i].kind = "spill" /\ staged'[i].state = "ready" /\ staged'[i].offset = 0
             /\ staged[i].offset \in Nat /\ staged[i].records \in Seq(G)
  <2>1. staged[i] \in StagedFile(G) BY <1>3
  <2> QED BY <1>4, <1>6, <2>1 DEF StagedFile
<1>8. SameRecords(staged, staged') BY <1>5, <1>7 DEF SameRecords
<1>9. ASSUME NEW s, Unread(s) PROVE Unread(s)'
  <2>1. CASE s \in ToSet(live) BY <1>1, <2>1 DEF Unread
  <2>2. CASE \E i \in DOMAIN staged : \E n \in DOMAIN staged[i].records : staged[i].records[n] = s
    <3>1. PICK i \in DOMAIN staged : \E n \in DOMAIN staged[i].records : staged[i].records[n] = s BY <2>2
    <3>2. PICK n \in DOMAIN staged[i].records : staged[i].records[n] = s BY <3>1
    <3>3. n > 0 BY <1>7
    <3>4. staged'[i].state = "ready" /\ n \in DOMAIN staged'[i].records /\ n > staged'[i].offset /\ staged'[i].records[n] = s
      BY <1>7, <3>2, <3>3
    <3> QED BY <1>5, <3>4 DEF Unread
  <2> QED BY <1>9, <2>1, <2>2 DEF Unread
<1>10. dead' = dead /\ unnoted' = unnoted BY <1>1 DEF memory
<1>11. ledger'.dead_letter_max_bucket = 0
  <2>1. PICK m : m = ledger' OBVIOUS
  <2>2. m.dead_letter_max_bucket = ledger.dead_letter_max_bucket BY <1>1, <2>1, DistrustFacts DEF SpillInv, Claims
  <2> QED BY <2>1, <2>2 DEF KeptInv, Unfaulted
<1>12. Unfaulted' BY <1>1, <1>5, <1>7, <1>10, <1>11 DEF KeptInv, Unfaulted
<1> QED BY <1>1, <1>8, <1>9, <1>12, WatcherStep

\* What is said of the copies queued does not change while the writer is idle and the ledger rests.
LEMMA EscalatedIdle ==
  ASSUME KeptInv, writer.at \notin {"committed", "noting"}, UNCHANGED <<best, untracked>>,
         exposed \subseteq exposed', LikeLedger(ledger, ledger'),
         UNCHANGED <<queue, escalation_finished, run_len>>, todo'["escalation"] = todo["escalation"]
  PROVE  Escalated'
<1>1. ASSUME NEW s, NEW mark, Refused(s, mark) PROVE Refused(s, mark)'
  <2> SUFFICES ASSUME s.bar \notin exposed, s.copy < best[s.bar]
               PROVE  \/ s.bar \in untracked
                      \/ /\ Tracked(ledger', s.bar) /\ s.copy < fullest(ledger'.bars[s.bar])
                         /\ ledger'.bars[s.bar].queue_mark >= mark
    BY DEF Refused
  <2>1. ~Pending(s.bar) BY DEF Pending
  <2>2. CASE s.bar \in untracked BY <2>2
  <2>3. CASE /\ Tracked(ledger, s.bar) /\ s.copy < fullest(ledger.bars[s.bar])
             /\ ledger.bars[s.bar].queue_mark >= mark
    BY <2>3 DEF LikeLedger, Tracked, fullest
  <2> QED BY <1>1, <2>1, <2>2, <2>3 DEF Refused
<1>2. PICK q, base, run, r : q = queue /\ base = escalation_finished /\ run = run_len /\ r = todo["escalation"] OBVIOUS
<1>3. ASSUME NEW i \in DOMAIN q PROVE Refused(q[i], base + run + i)'
  <2>1. Refused(q[i], base + run + i) BY <1>2 DEF KeptInv, Escalated
  <2> QED BY <1>1, <2>1
<1>4. ASSUME NEW s \in ToSet(r) PROVE Refused(s, base + 1)'
  <2>1. Refused(s, base + 1) BY <1>2 DEF KeptInv, Escalated
  <2> QED BY <1>1, <2>1
<1> QED BY <1>2, <1>3, <1>4 DEF Escalated

\* Where a record on disk is.
LEMMA WhereOnDisk ==
  /\ \A s : s \in OnDisk <=> \/ s \in ToSet(live) \/ s \in ToSet(dlq)
                             \/ \E i \in DOMAIN staged : s \in ToSet(staged[i].records)
  /\ \A s : s \in OnDisk' <=> \/ s \in ToSet(live') \/ s \in ToSet(dlq')
                              \/ \E i \in DOMAIN staged' : s \in ToSet(staged'[i].records)
BY DEF OnDisk

LEMMA KeptStageLive ==
  ASSUME SpillInv, SpillInv', BestUpdated, KeptInv, scenario.faults = {}, NEW moved \in BOOLEAN, StageLive(moved)
  PROVE  KeptInv'
<1>1. PICK f : f = File("spill", live, TRUE) OBVIOUS
<1>2. /\ UNCHANGED <<db, lineage, memory, writer, ledger, dlq, ghosts>> /\ writer.at = "idle"
      /\ staged' = Append(staged, f) /\ live' = <<>>
  BY <1>1 DEF StageLive, MayReplay, Idle
<1>3. /\ UNCHANGED <<channel, ring, queue, todo, sealed, retired, escalation_finished, run_len, dead, unnoted>>
      /\ UNCHANGED <<untracked, exposed>>
  BY <1>2 DEF lineage, memory, ghosts
<1>4. f.kind = "spill" /\ f.records = live /\ f.offset = 0 /\ f.state = "ready" BY <1>1 DEF File
<1>5. PICK k : k = Len(staged) + 1 OBVIOUS
<1>6. PICK G : G = SealsUpTo(sealed) OBVIOUS
<1>7. live \in Seq(G) /\ staged \in Seq(StagedFile(G)) BY <1>6 DEF SpillInv, Base, Records
<1>8. /\ DOMAIN staged' = DOMAIN staged \cup {k} /\ staged'[k] = f
      /\ \A i \in DOMAIN staged : staged'[i] = staged[i] /\ i < k /\ i \in Nat /\ k \in Nat /\ ~ (k < i)
      /\ ~ (k < k)
  BY <1>2, <1>5, <1>7
<1>9. ToSet(live') = {} /\ BarsOf(live') = {} BY <1>2, SetOfSeq DEF BarsOf
<1>10. OnDisk' = OnDisk
  <2>1. \A s : s \in OnDisk' <=> s \in OnDisk BY <1>2, <1>4, <1>8, <1>9, WhereOnDisk
  <2> QED BY <2>1
<1>11. best' = best BY <1>2, <1>10, BestSame
<1>12. Unfaulted' BY <1>2, <1>3, <1>4, <1>8 DEF KeptInv, Unfaulted
<1>13. Booting' /\ InRead' BY <1>2 DEF Booting, InRead
<1>14. Current' BY <1>2, <1>3 DEF KeptInv, Current, Held
<1>15. Onward' BY <1>2, <1>3 DEF KeptInv, Onward
<1>16. Escalated'
  <2>1. LikeLedger(ledger, ledger') BY <1>2 DEF LikeLedger
  <2> QED BY <1>2, <1>3, <1>11, <2>1, EscalatedIdle
<1>17. ASSUME NEW b \in Bars \ exposed PROVE BarInv(b)'
  <2>1. BarInv(b) BY DEF KeptInv
  <2>2. ~Pending(b) BY <1>2 DEF Pending
  <2>3. BestOf(b)' = BestOf(b) BY <1>11 DEF BestOf
  <2>4. Arranged(b)'
    <3>1. Arranged(b) BY <2>1 DEF BarInv
    <3>2. \A i \in DOMAIN staged' : Rising(staged'[i].records, b) BY <1>4, <1>8, <3>1 DEF Arranged
    <3>3. \A i \in DOMAIN staged' : Below(staged'[i].records, live', b) BY <1>9 DEF Below
    <3>4. \A i, j \in DOMAIN staged' : i < j => Below(staged'[i].records, staged'[j].records, b)
      BY <1>4, <1>8, <3>1 DEF Arranged
    <3>5. Rising(live', b) BY <1>2 DEF Rising
    <3> QED BY <3>2, <3>3, <3>4, <3>5 DEF Arranged
  <2>5. Reachable(b)'
    <3>1. CASE db[b] = best[b] BY <1>2, <1>11, <3>1 DEF Reachable
    <3>2. CASE Unread(BestOf(b))
      <4>1. PICK s : s = BestOf(b) OBVIOUS
      <4>2. CASE s \in ToSet(live)
        <5>1. PICK n \in DOMAIN live : live[n] = s BY <4>2 DEF ToSet
        <5>2. n > 0 BY <1>7
        <5>3. staged'[k].state = "ready" /\ n \in DOMAIN staged'[k].records /\ n > staged'[k].offset /\ staged'[k].records[n] = s
          BY <1>4, <1>8, <5>1, <5>2
        <5>4. Unread(s)' BY <1>8, <5>3 DEF Unread
        <5> QED BY <2>3, <4>1, <5>4 DEF Reachable
      <4>3. CASE \E i \in DOMAIN staged : staged[i].state = "ready"
                      /\ \E n \in DOMAIN staged[i].records : n > staged[i].offset /\ staged[i].records[n] = s
        <5>1. Unread(s)' BY <1>8, <4>3 DEF Unread
        <5> QED BY <2>3, <4>1, <5>1 DEF Reachable
      <4> QED BY <3>2, <4>1, <4>2, <4>3 DEF Unread
    <3> QED BY <2>1, <3>1, <3>2 DEF BarInv, Reachable
  <2>6. Backed(b)' BY <1>10, <2>1, <2>2, <2>3 DEF BarInv, Backed, OnFile
  <2>7. Known(b)' BY <1>2, <1>3, <1>9, <1>10, <2>1 DEF BarInv, Known, OnFile
  <2>8. Bounded(b)' /\ Stored(b)' BY <1>2, <1>10, <2>1 DEF BarInv, Bounded, Stored
  <2>9. Reading(b)' BY <1>2 DEF Reading
  <2> QED BY <2>4, <2>5, <2>6, <2>7, <2>8, <2>9 DEF BarInv
<1> QED BY <1>3, <1>12, <1>13, <1>14, <1>15, <1>16, <1>17 DEF KeptInv

\* The last copy of a bar in a batch is the one in the table.
UpsertedBy(table, seals, new) ==
  /\ \A x \in Bars \ BarsOf(seals) : new[x] = table[x]
  /\ \A x \in BarsOf(seals) : \E i \in DOMAIN seals : /\ seals[i].bar = x /\ new[x] = seals[i].copy
                                                      /\ \A j \in DOMAIN seals : seals[j].bar = x => j <= i

LEMMA Upserts ==
  \A table \in [Bars -> Copy], seals \in Seq(Seal) : UpsertedBy(table, seals, Upsert(table, seals))
<1> SUFFICES ASSUME NEW table \in [Bars -> Copy], NEW seals \in Seq(Seal)
             PROVE  UpsertedBy(table, seals, Upsert(table, seals))
  OBVIOUS
<1>1. PICK new : new = Upsert(table, seals) OBVIOUS
<1>2. /\ \A x \in Bars \ BarsOf(seals) : new[x] = table[x]
      /\ \A x \in BarsOf(seals) : \E i \in DOMAIN seals : /\ seals[i].bar = x /\ new[x] = seals[i].copy
                                                          /\ \A j \in DOMAIN seals : seals[j].bar = x => j <= i
  BY <1>1, UpsertFacts
<1> QED BY <1>1, <1>2 DEF UpsertedBy

\* What a flush makes of the tables, bar by bar.
Flushed(a, b) ==
  /\ b \notin BarsOf(a) => db'[b] = db[b] /\ best'[b] = best[b]
  /\ b \in BarsOf(a) => /\ db'[b] > db[b] /\ [bar |-> b, copy |-> db'[b]] \in ToSet(a)
                        /\ \A s \in ToSet(a) : s.bar = b => s.copy <= db'[b]
                        /\ best'[b] = best[b] \/ (best'[b] = db'[b] /\ best'[b] > best[b])

LEMMA FlushTables ==
  ASSUME SpillInv, SpillInv', BestUpdated, KeptInv, NEW n \in 1..Len(ring), FlushOk(n), NEW a, a = SubSeq(ring, 1, n),
         NEW b \in Bars \ exposed
  PROVE  Flushed(a, b) /\ OnDisk' = OnDisk
<1>1. PICK G, z : G = SealsUpTo(sealed) /\ z = SubSeq(ring, n + 1, Len(ring)) OBVIOUS
<1>2. a \in Seq(G) /\ Ascending(a) /\ ToSet(a) \cup ToSet(z) = ToSet(ring) BY <1>1, RingFacts DEF SpillInv
<1>3. G \subseteq Seal /\ db \in [Bars -> Copy] BY <1>1, SealsUpToFacts DEF SpillInv, Base, Tables
<1>4. a \in Seq(Seal) BY <1>2, <1>3, SeqMonotone
<1>5. PICK new : new = db' OBVIOUS
<1>6. new = Upsert(db, a) BY <1>5 DEF FlushOk
<1>7. /\ \A x \in Bars \ BarsOf(a) : new[x] = db[x]
      /\ \A x \in BarsOf(a) : \E i \in DOMAIN a : /\ a[i].bar = x /\ new[x] = a[i].copy
                                                  /\ \A j \in DOMAIN a : a[j].bar = x => j <= i
  <2>1. UpsertedBy(db, a, new) BY <1>3, <1>4, <1>6, Upserts
  <2> QED BY <2>1 DEF UpsertedBy
<1>8. OnDisk' = OnDisk BY DEF FlushOk, disk, OnDisk
<1>9. /\ best[b] \in Nat /\ best'[b] \in Nat /\ best[b] <= best'[b] /\ db[b] <= best[b] /\ db[b] \in Nat /\ db'[b] \in Nat
      /\ best'[b] = best[b] \/ best'[b] = db'[b] \/ \E s \in OnDisk' : s.bar = b /\ s.copy = best'[b]
      /\ \A s \in OnDisk : s.copy <= best[s.bar]
  BY BestSource
<1>10. best'[b] = best[b] \/ (best'[b] = db'[b] /\ best'[b] > best[b]) BY <1>8, <1>9
<1>11. CASE b \notin BarsOf(a)
  <2>1. db'[b] = db[b] BY <1>5, <1>7, <1>11
  <2>2. best'[b] = best[b] BY <1>9, <1>10, <2>1
  <2> QED BY <1>8, <1>11, <2>1, <2>2 DEF Flushed
<1>12. CASE b \in BarsOf(a)
  <2>1. PICK i \in DOMAIN a : a[i].bar = b /\ db'[b] = a[i].copy /\ \A j \in DOMAIN a : a[j].bar = b => j <= i
    BY <1>5, <1>7, <1>12
  <2>2. a[i] \in Seal /\ a[i] \in ToSet(a) BY <1>4, BarsAndCopies
  <2>3. a[i] = [bar |-> b, copy |-> db'[b]] BY <2>1, <2>2, SealFacts
  <2>4. \A s \in ToSet(ring) : s.bar = b => s.copy > db[b] BY DEF KeptInv, Onward
  <2>5. db'[b] > db[b] BY <1>2, <2>1, <2>2, <2>4
  <2>6. ASSUME NEW s \in ToSet(a), s.bar = b PROVE s.copy <= db'[b]
    <3>1. PICK j \in DOMAIN a : a[j] = s BY DEF ToSet
    <3>2. j <= i /\ i \in Nat /\ j \in Nat BY <1>4, <2>1, <2>6, <3>1
    <3>3. a[j] \in Seal BY <1>4, BarsAndCopies
    <3>4. s.copy \in Nat BY <3>1, <3>3, SealFacts
    <3>5. CASE j = i BY <1>9, <2>1, <3>1, <3>5
    <3>6. CASE j < i
      <4>1. a[j].copy < a[i].copy BY <1>2, <2>1, <2>6, <3>1, <3>6 DEF Ascending
      <4> QED BY <1>9, <2>1, <3>1, <3>4, <4>1
    <3> QED BY <3>2, <3>5, <3>6
  <2> QED BY <1>8, <1>10, <1>12, <2>2, <2>3, <2>5, <2>6 DEF Flushed
<1> QED BY <1>11, <1>12

LEMMA KeptFlushOk ==
  ASSUME SpillInv, SpillInv', BestUpdated, KeptInv, NEW n \in 1..Len(ring), FlushOk(n)
  PROVE  KeptInv'
<1>1. PICK a, z, G : a = SubSeq(ring, 1, n) /\ z = SubSeq(ring, n + 1, Len(ring)) /\ G = SealsUpTo(sealed) OBVIOUS
<1>2. /\ UNCHANGED <<lineage, channel, queue, todo, dead, unnoted, escalation_finished, run_len, ledger, epoch>>
      /\ UNCHANGED <<live, dlq, staged, untracked, exposed, sealed, retired>>
      /\ ring' = z /\ writer' = [at |-> "committed", batch |-> a] /\ writer.at = "idle"
  BY <1>1 DEF FlushOk, index, disk, ghosts, lineage, Idle
<1>3. writer'.at = "committed" /\ writer'.batch = a BY <1>2
<1>4. \A b \in Bars \ exposed : Flushed(a, b) BY <1>1, FlushTables
<1>5. OnDisk' = OnDisk BY <1>2 DEF OnDisk
<1>6. /\ a \in Seq(G) /\ z \in Seq(G) /\ Precede(a, channel) /\ Precede(a, z) /\ ToSet(a) \cup ToSet(z) = ToSet(ring)
      /\ Precede(z, channel)
  BY <1>1, RingFacts DEF SpillInv
<1>7. G \subseteq Seal BY <1>1, SealsUpToFacts DEF SpillInv, Base, Tables
<1>8. ToSet(a) \subseteq Seal /\ ToSet(z) \subseteq Seal BY <1>6, <1>7, SetOfSeq
<1>9. \A b \in Bars : db[b] \in Nat /\ best[b] \in Nat /\ db[b] <= best[b] /\ db'[b] \in Nat /\ best'[b] \in Nat
  BY BestSource
<1>10. ASSUME NEW b \in Bars \ exposed, best'[b] # best[b] PROVE Pending(b)'
  <2>1. b \in BarsOf(a) /\ best'[b] = db'[b] /\ best'[b] > best[b] /\ [bar |-> b, copy |-> db'[b]] \in ToSet(a)
    BY <1>4, <1>10 DEF Flushed
  <2>2. ASSUME Tracked(ledger, b) PROVE ledger.bars[b].disk < best'[b]
    <3>1. IsLedger(ledger) /\ fullest(ledger.bars[b]) <= best[b] BY <2>2 DEF SpillInv, Claims, AtMost, Tracked
    <3>2. ledger.bars[b] \in SealEntry BY <2>2, <3>1 DEF IsLedger, Tracked
    <3>3. ledger.bars[b].disk \in Nat /\ ledger.bars[b].committed \in Nat BY <3>2, SealFacts DEF SealEntry
    <3> QED BY <1>9, <2>1, <3>1, <3>3 DEF fullest, larger
  <2> QED BY <1>2, <1>3, <2>1, <2>2 DEF Pending, BestOf
<1>11. Unfaulted' BY <1>2 DEF KeptInv, Unfaulted
<1>12. Booting' /\ InRead' BY <1>3 DEF Booting, InRead
<1>13. Current'
  <2>1. Held' \subseteq Held
    <3>1. ToSet(ring') \subseteq ToSet(ring) BY <1>2, <1>6
    <3> QED BY <1>2, <3>1 DEF Held
  <2>2. ToSet(a) \subseteq Held BY <1>6 DEF Held
  <2> QED BY <1>2, <1>3, <2>1, <2>2 DEF KeptInv, Current
<1>14. Onward'
  <2>1. todo["writer"] = <<>> BY <1>2 DEF SpillInv, Base, Threaded
  <2>2. ToSet(todo'["writer"]) = {} BY <1>2, <2>1, SetOfSeq
  <2>3. ASSUME NEW s \in ToSet(channel) \cup ToSet(z), s.bar \notin exposed PROVE s.copy > db'[s.bar]
    <3>1. s \in Seal
      <4>1. ToSet(channel) \subseteq Seal BY HeldSeals
      <4> QED BY <1>8, <4>1
    <3>2. s.bar \in Bars /\ s.copy \in Nat BY <3>1, SealFacts
    <3>3. s.copy > db[s.bar] BY <1>6, <2>3 DEF KeptInv, Onward
    <3>4. CASE s.bar \notin BarsOf(a) BY <1>4, <2>3, <3>2, <3>3, <3>4 DEF Flushed
    <3>5. CASE s.bar \in BarsOf(a)
      <4>1. PICK x : x = [bar |-> s.bar, copy |-> db'[s.bar]] OBVIOUS
      <4>2. x \in ToSet(a) /\ x.bar = s.bar /\ x.copy = db'[s.bar] BY <1>4, <2>3, <3>2, <3>5, <4>1 DEF Flushed
      <4>3. x.copy < s.copy BY <1>6, <4>2 DEF Precede
      <4> QED BY <1>9, <3>2, <4>2, <4>3
    <3> QED BY <3>4, <3>5
  <2> QED BY <1>2, <2>2, <2>3 DEF KeptInv, Onward
<1>15. Escalated'
  <2>1. ASSUME NEW s \in Seal, NEW mark, Refused(s, mark) PROVE Refused(s, mark)'
    <3>1. s.bar \in Bars BY SealFacts
    <3>2. CASE s.bar \in exposed BY <1>2, <3>2 DEF Refused
    <3>3. CASE s.bar \notin exposed /\ best'[s.bar] # best[s.bar]
      <4>1. Pending(s.bar)' BY <1>10, <3>1, <3>3
      <4> QED BY <1>3, <4>1 DEF Refused
    <3>4. CASE best'[s.bar] = best[s.bar]
      <4>1. ~Pending(s.bar) BY <1>2 DEF Pending
      <4> QED BY <1>2, <2>1, <3>4, <4>1 DEF Refused
    <3> QED BY <3>2, <3>3, <3>4
  <2>2. PICK q, base, run, r : q = queue /\ base = escalation_finished /\ run = run_len /\ r = todo["escalation"] OBVIOUS
  <2>3. ToSet(r) \subseteq Seal /\ \A i \in DOMAIN q : q[i] \in Seal BY <2>2, HeldSeals DEF Threads
  <2>4. ASSUME NEW i \in DOMAIN q PROVE Refused(q[i], base + run + i)'
    <3>1. Refused(q[i], base + run + i) BY <2>2 DEF KeptInv, Escalated
    <3> QED BY <2>1, <2>3, <3>1
  <2>5. ASSUME NEW s \in ToSet(r) PROVE Refused(s, base + 1)'
    <3>1. Refused(s, base + 1) BY <2>2 DEF KeptInv, Escalated
    <3> QED BY <2>1, <2>3, <3>1
  <2> QED BY <1>2, <2>2, <2>4, <2>5 DEF Escalated
<1>16. ASSUME NEW b \in Bars \ exposed PROVE BarInv(b)'
  <2>1. BarInv(b) /\ ~Pending(b) BY <1>2 DEF KeptInv, Pending
  <2>2. Arranged(b)' BY <1>2, <2>1 DEF BarInv, Arranged
  <2>3. Known(b)' BY <1>2, <1>5, <2>1 DEF BarInv, Known, OnFile
  <2>4. Bounded(b)' BY <1>2, <1>5, <2>1 DEF BarInv, Bounded
  <2>5. Reading(b)' BY <1>3 DEF Reading
  <2>6. db[b] <= db'[b]
    <3>1. Flushed(a, b) /\ db[b] \in Nat /\ db'[b] \in Nat BY <1>4, <1>9
    <3>2. db'[b] = db[b] \/ db'[b] > db[b] BY <3>1 DEF Flushed
    <3> QED BY <3>1, <3>2
  <2>7. Stored(b)'
    <3>1. ASSUME Tracked(ledger, b) PROVE ledger.bars[b].committed <= db'[b]
      <4>1. ledger.bars[b].committed <= db[b] BY <2>1, <3>1 DEF BarInv, Stored
      <4>2. ledger.bars[b] \in SealEntry BY <3>1 DEF SpillInv, Claims, IsLedger, Tracked
      <4>3. ledger.bars[b].committed \in Nat BY <4>2, SealFacts DEF SealEntry
      <4> QED BY <1>9, <2>6, <4>1, <4>3
    <3>2. ASSUME NEW s \in ToSet(a), s.bar = b PROVE s.copy <= db'[b]
      <4>1. b \in BarsOf(a) BY <3>2 DEF BarsOf
      <4> QED BY <1>4, <3>2, <4>1 DEF Flushed
    <3> QED BY <1>2, <1>3, <3>1, <3>2 DEF Stored
  <2>8. CASE best'[b] # best[b]
    <3>1. Pending(b)' BY <1>10, <2>8
    <3>2. db'[b] = best'[b] BY <3>1 DEF Pending
    <3>3. Reachable(b)' BY <3>2 DEF Reachable
    <3>4. Backed(b)' BY <3>1 DEF Backed
    <3> QED BY <2>2, <2>3, <2>4, <2>5, <2>7, <3>3, <3>4 DEF BarInv
  <2>9. CASE best'[b] = best[b]
    <3>1. BestOf(b)' = BestOf(b) BY <2>9 DEF BestOf
    <3>2. Backed(b)' BY <1>5, <2>1, <3>1 DEF BarInv, Backed, OnFile
    <3>3. db'[b] <= best'[b] BY BestSource
    <3>4. CASE db[b] = best[b]
      <4>1. db'[b] = best'[b] BY <1>9, <2>6, <2>9, <3>3, <3>4
      <4> QED BY <2>2, <2>3, <2>4, <2>5, <2>7, <3>2, <4>1 DEF BarInv, Reachable
    <3>5. CASE Unread(BestOf(b))
      <4>1. PICK s : s = BestOf(b) OBVIOUS
      <4>2. Unread(s)' BY <1>2, <3>5, <4>1 DEF Unread
      <4>3. Reachable(b)' BY <3>1, <4>1, <4>2 DEF Reachable
      <4> QED BY <2>2, <2>3, <2>4, <2>5, <2>7, <3>2, <4>3 DEF BarInv
    <3> QED BY <2>1, <3>4, <3>5 DEF BarInv, Reachable
  <2> QED BY <2>8, <2>9
<1> QED BY <1>2, <1>11, <1>12, <1>13, <1>14, <1>15, <1>16 DEF KeptInv

\* The batch of a live commit is of bars this process seals: one with a copy on
\* disk is in the ledger, and the ledger is active.
LEMMA PendingIsActive ==
  ASSUME SpillInv, KeptInv, NEW b \in Bars \ exposed, Pending(b), OnFile(b)
  PROVE  is_active(ledger)
<1>1. writer.at \in {"committed", "noting"} /\ BestOf(b) \in ToSet(writer.batch) BY DEF Pending
<1>2. BestOf(b).bar = b BY DEF BestOf
<1>3. b \notin retired BY <1>1, <1>2 DEF KeptInv, Current
<1>4. Tracked(ledger, b) \/ ledger.active BY <1>3 DEF KeptInv, BarInv, Known
<1> QED BY <1>4 DEF is_active, Tracked

LEMMA KeptReadQueue ==
  ASSUME SpillInv, SpillInv', BestUpdated, KeptInv, ReadQueue
  PROVE  KeptInv'
<1>1. /\ UNCHANGED <<db, live, dlq, staged, ledger, epoch, untracked, retired, exposed, dead, unnoted, sealed>>
      /\ UNCHANGED <<channel, ring, queue, todo, escalation_finished, run_len>>
      /\ writer.at = "committed"
  BY DEF ReadQueue, memory, index, disk, ghosts, lineage
<1>2. OnDisk' = OnDisk BY <1>1 DEF OnDisk
<1>3. best' = best BY <1>1, <1>2, BestSame
<1>4. \/ writer'.at = "idle" /\ escalation_pending = 0 /\ ~is_active(ledger)
      \/ /\ writer'.at = "noting" /\ writer'.batch = writer.batch /\ writer'.queue_busy = (escalation_pending > 0)
         /\ writer'.mark = QueueMark
  BY DEF ReadQueue, Idle
<1>5. /\ queue \in Seq(Seal) /\ Len(queue) \in Nat /\ run_len \in Nat /\ escalation_finished \in Nat
      /\ escalation_pending = Len(queue) + run_len /\ escalation_pending \in Nat
      /\ run_len = 0 => todo["escalation"] = <<>>
  <2>1. queue \in Seq(Seal) BY HeldSeals
  <2>2. Len(queue) \in Nat BY <2>1
  <2> QED BY <2>1, <2>2 DEF SpillInv, Base, Counters
<1>6. Unfaulted' BY <1>1 DEF KeptInv, Unfaulted
<1>7. Booting' /\ InRead' BY <1>4 DEF Booting, InRead
<1>8. Current' BY <1>1, <1>4 DEF KeptInv, Current, Held
<1>9. Onward' BY <1>1 DEF KeptInv, Onward
<1>10. ASSUME NEW b, Pending(b) PROVE Pending(b)' \/ writer'.at = "idle"
  <2>1. BestOf(b)' = BestOf(b) BY <1>3 DEF BestOf
  <2> QED BY <1>1, <1>3, <1>4, <1>10, <2>1 DEF Pending
<1>11. ASSUME NEW s, NEW mark \in Nat, Refused(s, mark), mark <= escalation_finished + escalation_pending,
              escalation_pending > 0
       PROVE  Refused(s, mark)'
  <2>1. writer'.at # "idle" BY <1>4, <1>5, <1>11
  <2>2. writer'.at = "noting" => writer'.queue_busy /\ writer'.mark >= mark BY <1>4, <1>5, <1>11, <2>1 DEF QueueMark
  <2> QED BY <1>1, <1>3, <1>10, <1>11, <2>1, <2>2 DEF Refused
<1>12. Escalated'
  <2>1. PICK q, base, run, r : q = queue /\ base = escalation_finished /\ run = run_len /\ r = todo["escalation"] OBVIOUS
  <2>2. ASSUME NEW i \in DOMAIN q PROVE Refused(q[i], base + run + i)'
    <3>1. i \in 1..Len(queue) BY <1>5, <2>1
    <3>2. base + run + i \in Nat /\ base + run + i <= escalation_finished + escalation_pending /\ escalation_pending > 0
      BY <1>5, <2>1, <3>1
    <3>3. Refused(q[i], base + run + i) BY <2>1 DEF KeptInv, Escalated
    <3> QED BY <1>11, <3>2, <3>3
  <2>3. ASSUME NEW s \in ToSet(r) PROVE Refused(s, base + 1)'
    <3>1. r # <<>> BY SetOfSeq
    <3>2. base + 1 \in Nat /\ base + 1 <= escalation_finished + escalation_pending /\ escalation_pending > 0
      BY <1>5, <2>1, <3>1
    <3>3. Refused(s, base + 1) BY <2>1 DEF KeptInv, Escalated
    <3> QED BY <1>11, <3>2, <3>3
  <2> QED BY <1>1, <2>1, <2>2, <2>3 DEF Escalated
<1>13. ASSUME NEW b \in Bars \ exposed PROVE BarInv(b)'
  <2>1. BarInv(b) BY DEF KeptInv
  <2>2. BestOf(b)' = BestOf(b) BY <1>3 DEF BestOf
  <2>3. Arranged(b)' BY <1>1, <2>1 DEF BarInv, Arranged
  <2>4. Known(b)' BY <1>1, <1>2, <2>1 DEF BarInv, Known, OnFile
  <2>5. Bounded(b)' BY <1>1, <1>2, <2>1 DEF BarInv, Bounded
  <2>6. Reading(b)' BY <1>4 DEF Reading
  <2>7. Stored(b)' BY <1>1, <1>4, <2>1 DEF BarInv, Stored, Busy
  <2>8. Reachable(b)'
    <3>1. PICK s : s = BestOf(b) OBVIOUS
    <3>2. Unread(s) => Unread(s)' BY <1>1 DEF Unread
    <3> QED BY <1>1, <1>3, <2>1, <2>2, <3>1, <3>2 DEF BarInv, Reachable
  <2>9. Backed(b)'
    <3> SUFFICES ASSUME OnFile(b)' PROVE BestOf(b) \in OnDisk \/ Pending(b)' BY <1>2, <2>2 DEF Backed
    <3>1. OnFile(b) BY <1>2 DEF OnFile
    <3>2. CASE BestOf(b) \in OnDisk BY <3>2
    <3>3. CASE Pending(b)
      <4>1. is_active(ledger) BY <3>1, <3>3, PendingIsActive
      <4> QED BY <1>4, <1>10, <3>3, <4>1
    <3> QED BY <2>1, <3>1, <3>2, <3>3 DEF BarInv, Backed
  <2> QED BY <2>3, <2>4, <2>5, <2>6, <2>7, <2>8, <2>9 DEF BarInv
<1> QED BY <1>1, <1>6, <1>7, <1>8, <1>9, <1>12, <1>13 DEF KeptInv

-----------------------------------------------------------------------------
(* What append_seals makes of the ledger.                                  *)

\* Nothing is taken back from an entry, and what is added carries its marks.
EntryKept(e0, e, ep, mk) ==
  /\ e0 \in SealEntry /\ e \in SealEntry /\ e.committed = e0.committed
  /\ e.disk >= e0.disk /\ e.disk_epoch >= e0.disk_epoch /\ e.queue_mark >= e0.queue_mark
  /\ e.disk = e0.disk \/ (e.disk_epoch >= ep /\ e.queue_mark >= mk)

\* A copy is noted: the ledger m has it, with its marks, or had no room for its bar.
CopyNoted(ep, mk, s, m, u) ==
  \/ s.bar \in u
  \/ /\ Tracked(m, s.bar) /\ m.bars[s.bar].disk >= s.copy
     /\ m.bars[s.bar].disk_epoch >= ep /\ m.bars[s.bar].queue_mark >= mk

\* The ledger m and the bars u without room, after the first n seals.
SpillNoted(l, ep, mk, seals, n, m, u) ==
  /\ IsLedger(m) /\ DOMAIN l.bars \subseteq DOMAIN m.bars
  /\ \A b \in DOMAIN m.bars : EntryKept(Entry(l, b), m.bars[b], ep, mk)
  /\ \A b \in DOMAIN m.bars :
        \/ Tracked(l, b) /\ m.bars[b].disk = l.bars[b].disk
        \/ \E i \in 1..n : ~OlderNotWritten(l, seals[i]) /\ seals[i].bar = b /\ seals[i].copy = m.bars[b].disk
  /\ (l.active => m.active) /\ m.disk_epoch >= l.disk_epoch /\ m.dead_letter_max_bucket = l.dead_letter_max_bucket
  /\ \A b \in u : ~HasRoom(m, b) /\ m.active /\ m.disk_epoch >= ep
  /\ \A i \in 1..n : ~OlderNotWritten(l, seals[i]) => CopyNoted(ep, mk, seals[i], m, u)

\* Entries by their numbers.
LEMMA EntryNumbers ==
  \A e \in SealEntry : /\ e.disk \in Nat /\ e.committed \in Nat /\ e.disk_epoch \in Nat /\ e.queue_mark \in Nat
                       /\ e.disk \in Copy /\ e.committed \in Copy
                       /\ fullest(e) \in Nat /\ fullest(e) >= e.disk /\ fullest(e) >= e.committed
                       /\ fullest(e) = e.disk \/ fullest(e) = e.committed
<1> SUFFICES ASSUME NEW e \in SealEntry
             PROVE  /\ e.disk \in Nat /\ e.committed \in Nat /\ e.disk_epoch \in Nat /\ e.queue_mark \in Nat
                    /\ e.disk \in Copy /\ e.committed \in Copy
                    /\ fullest(e) \in Nat /\ fullest(e) >= e.disk /\ fullest(e) >= e.committed
                    /\ fullest(e) = e.disk \/ fullest(e) = e.committed
  OBVIOUS
<1>1. e.disk \in Copy /\ e.committed \in Copy /\ e.disk_epoch \in Nat /\ e.queue_mark \in Nat BY DEF SealEntry
<1>2. e.disk \in Nat /\ e.committed \in Nat BY <1>1, SealFacts
<1> QED BY <1>1, <1>2 DEF fullest, larger

LEMMA EntryGrows ==
  ASSUME NEW e0, NEW e, NEW ep, NEW mk, EntryKept(e0, e, ep, mk)
  PROVE  fullest(e) >= fullest(e0) /\ (e.disk = e0.disk => fullest(e) = fullest(e0))
<1>1. e0 \in SealEntry /\ e \in SealEntry /\ e.committed = e0.committed /\ e.disk >= e0.disk BY DEF EntryKept
<1>2. e.disk \in Nat /\ e.committed \in Nat /\ e0.disk \in Nat /\ e0.committed \in Nat BY <1>1, EntryNumbers
<1> QED BY <1>1, <1>2 DEF fullest, larger

LEMMA StillOlder ==
  ASSUME NEW l, NEW ep, NEW mk, NEW seals, NEW n, NEW m, NEW u, SpillNoted(l, ep, mk, seals, n, m, u),
         NEW s \in Seal, OlderNotWritten(l, s)
  PROVE  OlderNotWritten(m, s)
<1>1. Tracked(l, s.bar) /\ s.copy < fullest(l.bars[s.bar]) BY DEF OlderNotWritten
<1>2. Tracked(m, s.bar) /\ Entry(l, s.bar) = l.bars[s.bar] BY <1>1 DEF SpillNoted, Tracked, Entry
<1>3. EntryKept(l.bars[s.bar], m.bars[s.bar], ep, mk) BY <1>2 DEF SpillNoted, Tracked
<1>4. fullest(m.bars[s.bar]) >= fullest(l.bars[s.bar]) BY <1>3, EntryGrows
<1>5. l.bars[s.bar] \in SealEntry /\ m.bars[s.bar] \in SealEntry BY <1>3 DEF EntryKept
<1>6. fullest(l.bars[s.bar]) \in Nat /\ fullest(m.bars[s.bar]) \in Nat BY <1>5, EntryNumbers
<1>7. s.copy \in Nat BY SealFacts
<1>8. s.copy < fullest(m.bars[s.bar]) BY <1>1, <1>4, <1>6, <1>7
<1> QED BY <1>2, <1>8 DEF OlderNotWritten

LEMMA SpillOlder ==
  ASSUME NEW l, IsLedger(l), NEW ep \in Nat, NEW mk \in Nat, NEW seals, NEW n \in Nat, NEW m, NEW u,
         SpillNoted(l, ep, mk, seals, n, m, u), NEW s \in Seal, s = seals[n + 1], OlderNotWritten(m, s)
  PROVE  SpillNoted(l, ep, mk, seals, n + 1, m, u)
<1>1. \A i \in 1..(n + 1) : i \in 1..n \/ i = n + 1 OBVIOUS
<1>2. 1..n \subseteq 1..(n + 1) OBVIOUS
<1>3. ASSUME ~OlderNotWritten(l, s) PROVE CopyNoted(ep, mk, s, m, u)
  <2>1. PICK b, e0, e : b = s.bar /\ e0 = Entry(l, b) /\ e = m.bars[b] OBVIOUS
  <2>2. Tracked(m, b) /\ s.copy < fullest(e) BY <2>1 DEF OlderNotWritten
  <2>3. EntryKept(e0, e, ep, mk) BY <2>1, <2>2 DEF SpillNoted, Tracked
  <2>4. e0 \in SealEntry /\ e \in SealEntry BY <2>3 DEF EntryKept
  <2>5. /\ e.disk \in Nat /\ e.committed \in Nat /\ e0.disk \in Nat /\ e0.committed \in Nat /\ fullest(e) \in Nat
        /\ fullest(e0) \in Nat /\ fullest(e0) >= e0.disk /\ fullest(e0) >= e0.committed
        /\ fullest(e) = e.disk \/ fullest(e) = e.committed
    BY <2>4, EntryNumbers
  <2>6. s.copy \in Nat /\ s.copy > 0 BY SealFacts
  <2>7. s.copy >= e0.disk /\ s.copy >= e0.committed
    <3>1. CASE Tracked(l, b)
      <4>1. e0 = l.bars[b] BY <2>1, <3>1 DEF Entry
      <4>2. ~ (s.copy < fullest(e0)) BY <1>3, <2>1, <3>1, <4>1 DEF OlderNotWritten
      <4> QED BY <2>5, <2>6, <4>2
    <3>2. CASE ~Tracked(l, b)
      <4>1. e0 = NoEntry BY <2>1, <3>2 DEF Entry
      <4> QED BY <2>6, <4>1 DEF NoEntry
    <3> QED BY <3>1, <3>2
  <2>8. e.committed = e0.committed /\ (e.disk = e0.disk \/ (e.disk_epoch >= ep /\ e.queue_mark >= mk))
    BY <2>3 DEF EntryKept
  <2>9. e.disk >= s.copy /\ e.disk # e0.disk BY <2>2, <2>5, <2>6, <2>7, <2>8
  <2> QED BY <2>1, <2>2, <2>8, <2>9 DEF CopyNoted
<1>4. /\ IsLedger(m) /\ DOMAIN l.bars \subseteq DOMAIN m.bars
      /\ \A b \in DOMAIN m.bars : EntryKept(Entry(l, b), m.bars[b], ep, mk)
      /\ (l.active => m.active) /\ m.disk_epoch >= l.disk_epoch /\ m.dead_letter_max_bucket = l.dead_letter_max_bucket
      /\ \A b \in u : ~HasRoom(m, b) /\ m.active /\ m.disk_epoch >= ep
  BY DEF SpillNoted
<1>5. \A b \in DOMAIN m.bars :
        \/ Tracked(l, b) /\ m.bars[b].disk = l.bars[b].disk
        \/ \E i \in 1..(n + 1) : ~OlderNotWritten(l, seals[i]) /\ seals[i].bar = b /\ seals[i].copy = m.bars[b].disk
  BY <1>2 DEF SpillNoted
<1>6. \A i \in 1..(n + 1) : ~OlderNotWritten(l, seals[i]) => CopyNoted(ep, mk, seals[i], m, u)
  BY <1>1, <1>3 DEF SpillNoted
<1> QED BY <1>4, <1>5, <1>6 DEF SpillNoted

LEMMA SpillOverflow ==
  ASSUME NEW l, IsLedger(l), NEW ep \in Nat, NEW mk \in Nat, NEW seals, NEW n \in Nat, NEW m, NEW u,
         SpillNoted(l, ep, mk, seals, n, m, u), NEW s \in Seal, s = seals[n + 1], ~HasRoom(m, s.bar),
         NEW k, IsLedger(k), Overflowed(m, k, ep, mk), k.dead_letter_max_bucket = m.dead_letter_max_bucket
  PROVE  SpillNoted(l, ep, mk, seals, n + 1, k, u \cup {s.bar})
<1>1. \A i \in 1..(n + 1) : i \in 1..n \/ i = n + 1 OBVIOUS
<1>2. 1..n \subseteq 1..(n + 1) OBVIOUS
<1>3. k.bars = m.bars /\ k.active = TRUE /\ k.disk_epoch = larger(m.disk_epoch, ep) BY DEF Overflowed
<1>4. m.disk_epoch \in Nat /\ l.disk_epoch \in Nat BY DEF SpillNoted, IsLedger
<1>5. k.disk_epoch >= m.disk_epoch /\ k.disk_epoch >= ep /\ k.disk_epoch \in Nat BY <1>3, <1>4, LargerFacts
<1>6. \A b : HasRoom(k, b) <=> HasRoom(m, b) BY <1>3 DEF HasRoom, Tracked
<1>7. /\ DOMAIN l.bars \subseteq DOMAIN k.bars
      /\ \A b \in DOMAIN k.bars : EntryKept(Entry(l, b), k.bars[b], ep, mk)
  BY <1>3 DEF SpillNoted
<1>8. (l.active => k.active) /\ k.disk_epoch >= l.disk_epoch /\ k.dead_letter_max_bucket = l.dead_letter_max_bucket
  BY <1>3, <1>4, <1>5 DEF SpillNoted
<1>9. \A b \in DOMAIN k.bars :
        \/ Tracked(l, b) /\ k.bars[b].disk = l.bars[b].disk
        \/ \E i \in 1..(n + 1) : ~OlderNotWritten(l, seals[i]) /\ seals[i].bar = b /\ seals[i].copy = k.bars[b].disk
  BY <1>2, <1>3 DEF SpillNoted
<1>10. \A b \in u \cup {s.bar} : ~HasRoom(k, b) /\ k.active /\ k.disk_epoch >= ep
  BY <1>3, <1>5, <1>6 DEF SpillNoted
<1>11. \A i \in 1..(n + 1) : ~OlderNotWritten(l, seals[i]) => CopyNoted(ep, mk, seals[i], k, u \cup {s.bar})
  BY <1>1, <1>3 DEF SpillNoted, CopyNoted, Tracked
<1> QED BY <1>7, <1>8, <1>9, <1>10, <1>11 DEF SpillNoted

LEMMA SpillRecorded ==
  ASSUME NEW l, IsLedger(l), NEW ep \in Nat, NEW mk \in Nat, NEW seals, NEW n \in Nat, NEW m, NEW u,
         \A i \in 1..n : seals[i] \in Seal,
         SpillNoted(l, ep, mk, seals, n, m, u), NEW s \in Seal, s = seals[n + 1], HasRoom(m, s.bar), ~OlderNotWritten(m, s),
         NEW k, IsLedger(k), NEW d, Recorded(Entry(m, s.bar), d, s, ep, FALSE, mk), OnlyBar(m, k, s.bar, d)
  PROVE  SpillNoted(l, ep, mk, seals, n + 1, k, u)
<1>1. \A i \in 1..(n + 1) : i \in 1..n \/ i = n + 1 OBVIOUS
<1>2. 1..n \subseteq 1..(n + 1) /\ n + 1 \in 1..(n + 1) OBVIOUS
<1>3. PICK b, e0, e : b = s.bar /\ e0 = Entry(l, b) /\ e = Entry(m, b) OBVIOUS
<1>4. s.bar \in Bars /\ s.copy \in Nat /\ s.copy > 0 /\ s.copy \in Copy BY SealFacts
<1>5. IsLedger(m) BY DEF SpillNoted
<1>6. e0 \in SealEntry /\ e \in SealEntry BY <1>3, <1>4, <1>5, EntryFacts
<1>7. /\ d \in SealEntry /\ d.disk = larger(e.disk, s.copy) /\ d.disk_epoch = larger(e.disk_epoch, ep)
      /\ d.queue_mark = larger(e.queue_mark, mk) /\ d.committed = e.committed
  BY <1>3 DEF Recorded
<1>8. /\ e.disk \in Nat /\ e.disk_epoch \in Nat /\ e.queue_mark \in Nat
      /\ e0.disk \in Nat /\ e0.disk_epoch \in Nat /\ e0.queue_mark \in Nat
      /\ d.disk \in Nat /\ d.disk_epoch \in Nat /\ d.queue_mark \in Nat
  BY <1>6, <1>7, EntryNumbers
<1>9. /\ d.disk >= e.disk /\ d.disk >= s.copy /\ d.disk_epoch >= e.disk_epoch /\ d.disk_epoch >= ep
      /\ d.queue_mark >= e.queue_mark /\ d.queue_mark >= mk
      /\ d.disk = e.disk \/ d.disk = s.copy
  <2>1. d.disk >= e.disk /\ d.disk >= s.copy /\ (d.disk = e.disk \/ d.disk = s.copy) BY <1>4, <1>7, <1>8 DEF larger
  <2>2. d.disk_epoch >= e.disk_epoch /\ d.disk_epoch >= ep BY <1>7, <1>8 DEF larger
  <2>3. d.queue_mark >= e.queue_mark /\ d.queue_mark >= mk BY <1>7, <1>8 DEF larger
  <2> QED BY <2>1, <2>2, <2>3
<1>10. /\ DOMAIN k.bars = DOMAIN m.bars \cup {b} /\ k.bars[b] = d
       /\ \A x \in DOMAIN m.bars : x # b => k.bars[x] = m.bars[x]
       /\ k.active = m.active /\ k.disk_epoch = m.disk_epoch
       /\ k.dead_letter_max_bucket = m.dead_letter_max_bucket
  BY <1>3 DEF OnlyBar
<1>11. DOMAIN l.bars \subseteq DOMAIN m.bars BY DEF SpillNoted
<1>12. e.committed = e0.committed /\ e.disk >= e0.disk /\ e.disk_epoch >= e0.disk_epoch /\ e.queue_mark >= e0.queue_mark
  <2>1. CASE Tracked(m, b)
    <3>1. e = m.bars[b] BY <1>3, <2>1 DEF Entry
    <3>2. EntryKept(e0, e, ep, mk) BY <1>3, <2>1, <3>1 DEF SpillNoted, Tracked
    <3> QED BY <3>2 DEF EntryKept
  <2>2. CASE ~Tracked(m, b)
    <3>1. e0 = e BY <1>3, <1>11, <2>2 DEF Entry, Tracked
    <3> QED BY <1>8, <3>1
  <2> QED BY <2>1, <2>2
<1>13. EntryKept(e0, d, ep, mk) BY <1>6, <1>7, <1>8, <1>9, <1>12 DEF EntryKept
<1>14. \A x \in DOMAIN k.bars : EntryKept(Entry(l, x), k.bars[x], ep, mk) BY <1>3, <1>10, <1>13 DEF SpillNoted
<1>15. ~OlderNotWritten(l, s) BY StillOlder
<1>16. ASSUME NEW x \in DOMAIN k.bars
       PROVE  \/ Tracked(l, x) /\ k.bars[x].disk = l.bars[x].disk
              \/ \E i \in 1..(n + 1) : ~OlderNotWritten(l, seals[i]) /\ seals[i].bar = x /\ seals[i].copy = k.bars[x].disk
  <2>1. CASE x # b BY <1>2, <1>10, <2>1 DEF SpillNoted
  <2>2. CASE x = b /\ d.disk = s.copy BY <1>2, <1>3, <1>10, <1>15, <2>2
  <2>3. CASE x = b /\ d.disk # s.copy
    <3>1. d.disk = e.disk /\ e.disk # 0 BY <1>4, <1>8, <1>9, <2>3
    <3>2. Tracked(m, b) /\ e = m.bars[b] BY <1>3, <3>1 DEF Entry, NoEntry
    <3>3. k.bars[x].disk = m.bars[b].disk BY <1>10, <2>3, <3>1, <3>2
    <3>4. \/ Tracked(l, b) /\ m.bars[b].disk = l.bars[b].disk
          \/ \E i \in 1..n : ~OlderNotWritten(l, seals[i]) /\ seals[i].bar = b /\ seals[i].copy = m.bars[b].disk
      BY <3>2 DEF SpillNoted, Tracked
    <3> QED BY <1>2, <2>3, <3>3, <3>4
  <2> QED BY <2>1, <2>2, <2>3
<1>17. ASSUME NEW x \in u PROVE ~HasRoom(k, x) /\ k.active /\ k.disk_epoch >= ep
  <2>1. ~HasRoom(m, x) /\ m.active /\ m.disk_epoch >= ep BY DEF SpillNoted
  <2>2. b \in DOMAIN m.bars BY <1>3, <2>1 DEF HasRoom, Tracked
  <2>3. DOMAIN k.bars = DOMAIN m.bars BY <1>10, <2>2
  <2> QED BY <1>10, <2>1, <2>3 DEF HasRoom, Tracked
<1>18. ASSUME NEW i \in 1..(n + 1), ~OlderNotWritten(l, seals[i]) PROVE CopyNoted(ep, mk, seals[i], k, u)
  <2>1. CASE i = n + 1 BY <1>3, <1>9, <1>10, <2>1 DEF CopyNoted, Tracked
  <2>2. CASE i \in 1..n
    <3>1. PICK x : x = seals[i] OBVIOUS
    <3>2. CopyNoted(ep, mk, x, m, u) BY <1>18, <2>2, <3>1 DEF SpillNoted
    <3>3. CASE x.bar \in u BY <3>1, <3>3 DEF CopyNoted
    <3>4. CASE x.bar # b BY <1>10, <3>1, <3>2, <3>4 DEF CopyNoted, Tracked
    <3>5. CASE x.bar = b /\ x.bar \notin u
      <4>1. Tracked(m, b) /\ m.bars[b].disk >= x.copy BY <3>2, <3>5 DEF CopyNoted
      <4>2. m.bars[b] = e BY <1>3, <4>1 DEF Entry
      <4>3. d.disk >= x.copy
        <5>1. x.copy \in Nat BY <2>2, <3>1, SealFacts
        <5> QED BY <1>8, <1>9, <4>1, <4>2, <5>1
      <4> QED BY <1>9, <1>10, <3>1, <3>5, <4>3 DEF CopyNoted, Tracked
    <3> QED BY <3>3, <3>4, <3>5
  <2> QED BY <1>1, <2>1, <2>2
<1>19. /\ DOMAIN l.bars \subseteq DOMAIN k.bars
       /\ (l.active => k.active) /\ k.disk_epoch >= l.disk_epoch /\ k.dead_letter_max_bucket = l.dead_letter_max_bucket
  BY <1>10, <1>11 DEF SpillNoted
<1> QED BY <1>14, <1>16, <1>17, <1>18, <1>19 DEF SpillNoted

LEMMA SpillStart ==
  ASSUME NEW l, IsLedger(l), NEW ep, NEW mk, NEW seals
  PROVE  SpillNoted(l, ep, mk, seals, 0, l, {})
<1>1. ASSUME NEW b \in DOMAIN l.bars PROVE EntryKept(Entry(l, b), l.bars[b], ep, mk)
  <2>1. PICK e : e = l.bars[b] OBVIOUS
  <2>2. e \in SealEntry /\ Entry(l, b) = e BY <2>1 DEF IsLedger, Entry, Tracked
  <2>3. e.disk \in Nat /\ e.disk_epoch \in Nat /\ e.queue_mark \in Nat BY <2>2, EntryNumbers
  <2>4. EntryKept(e, e, ep, mk) BY <2>2, <2>3 DEF EntryKept
  <2> QED BY <2>1, <2>2, <2>4
<1>2. l.disk_epoch \in Nat BY DEF IsLedger
<1>3. \A b \in DOMAIN l.bars : Tracked(l, b) BY DEF Tracked
<1>4. \A i \in 1..0 : FALSE OBVIOUS
<1>5. l.disk_epoch >= l.disk_epoch BY <1>2
<1> QED BY <1>1, <1>3, <1>4, <1>5 DEF SpillNoted

\* One more seal.
LEMMA SpillOne ==
  ASSUME NEW l, IsLedger(l), NEW ep \in Nat, NEW mk \in Nat, NEW seals, NEW n \in Nat, NEW m, NEW u,
         \A i \in 1..n : seals[i] \in Seal,
         SpillNoted(l, ep, mk, seals, n, m, u), NEW s \in Seal, s = seals[n + 1], NEW k, NEW v,
         \/ OlderNotWritten(m, s) /\ k = m /\ v = u
         \/ ~OlderNotWritten(m, s) /\ k = record_on_disk(m, s, ep, FALSE, FALSE, mk) /\ v = u \cup NoRoom(m, s.bar)
  PROVE  SpillNoted(l, ep, mk, seals, n + 1, k, v)
<1>1. CASE OlderNotWritten(m, s) /\ k = m /\ v = u BY <1>1, SpillOlder
<1>2. CASE ~OlderNotWritten(m, s) /\ k = record_on_disk(m, s, ep, FALSE, FALSE, mk) /\ v = u \cup NoRoom(m, s.bar)
  <2>1. PICK no \in BOOLEAN : no = FALSE OBVIOUS
  <2>2. k = record_on_disk(m, s, ep, no, no, mk) BY <1>2, <2>1
  <2>3. IsLedger(m) BY DEF SpillNoted
  <2>4. CASE HasRoom(m, s.bar)
    <3>1. IsLedger(k) /\ \E d : Recorded(Entry(m, s.bar), d, s, ep, no, mk) /\ OnlyBar(m, k, s.bar, d)
      BY <2>2, <2>3, <2>4, RecordFacts
    <3>2. PICK d : Recorded(Entry(m, s.bar), d, s, ep, FALSE, mk) /\ OnlyBar(m, k, s.bar, d) BY <2>1, <3>1
    <3>3. v = u BY <1>2, <2>4 DEF NoRoom
    <3> QED BY <1>2, <2>4, <3>1, <3>2, <3>3, SpillRecorded
  <2>5. CASE ~HasRoom(m, s.bar)
    <3>1. /\ IsLedger(k) /\ Overflowed(m, k, ep, mk)
          /\ ~no => k.dead_letter_max_bucket = m.dead_letter_max_bucket
      BY <2>2, <2>3, <2>5, RecordNoRoom
    <3>2. v = u \cup {s.bar} BY <1>2, <2>5 DEF NoRoom
    <3>3. SpillNoted(l, ep, mk, seals, n + 1, k, u \cup {s.bar}) BY <2>1, <2>5, <3>1, SpillOverflow
    <3> QED BY <3>2, <3>3
  <2> QED BY <2>4, <2>5
<1> QED BY <1>1, <1>2

LEMMA SpilledNotes ==
  ASSUME IsLedger(ledger), NEW ep \in Nat, ep = epoch, NEW mk \in Nat, mk = QueueMark, NEW seals \in Seq(Seal)
  PROVE  SpillNoted(ledger, ep, mk, seals, Len(seals), Spilled(seals).l, Spilled(seals).untracked)
<1>1. PICK N : N = Len(seals) OBVIOUS
<1>2. N \in Nat /\ \A n \in 1..N : seals[n] \in Seal BY <1>1
<1>3. PICK f : SpilledBy(f, seals) /\ Spilled(seals) = f[N] BY <1>1, SpilledSteps
<1>4. f[0] = [l |-> ledger, untracked |-> {}] /\ \A n \in 1..N : f[n] = note_spilled(f[n - 1], seals[n])
  BY <1>1, <1>3 DEF SpilledBy
<1> DEFINE S == {n \in 0..N : SpillNoted(ledger, ep, mk, seals, n, f[n].l, f[n].untracked)}
<1>5. 0 \in S
  <2>1. f[0].l = ledger /\ f[0].untracked = {} BY <1>4
  <2>2. SpillNoted(ledger, ep, mk, seals, 0, ledger, {}) BY SpillStart
  <2>3. SpillNoted(ledger, ep, mk, seals, 0, f[0].l, f[0].untracked) BY <2>1, <2>2, Zenon
  <2>4. 0 \in 0..N BY <1>2
  <2> QED BY <2>3, <2>4
<1>6. ASSUME NEW n \in 0..(N - 1), n \in S PROVE n + 1 \in S
  <2>1. n + 1 \in 1..N /\ (n + 1) - 1 = n /\ n + 1 \in 0..N /\ n \in Nat /\ 1..n \subseteq 1..N BY <1>2
  <2>2. PICK m, u, s : m = f[n].l /\ u = f[n].untracked /\ s = seals[n + 1] OBVIOUS
  <2>3. SpillNoted(ledger, ep, mk, seals, n, m, u) BY <1>6, <2>2
  <2>4. s \in Seal /\ \A i \in 1..n : seals[i] \in Seal BY <1>2, <2>1, <2>2
  <2>5. f[n + 1] = note_spilled(f[n], s) BY <1>4, <2>1, <2>2
  <2>6. PICK k, v : k = f[n + 1].l /\ v = f[n + 1].untracked OBVIOUS
  <2>7. \/ OlderNotWritten(m, s) /\ k = m /\ v = u
        \/ ~OlderNotWritten(m, s) /\ k = record_on_disk(m, s, ep, FALSE, FALSE, mk) /\ v = u \cup NoRoom(m, s.bar)
    <3>1. CASE OlderNotWritten(m, s)
      <4>1. f[n + 1] = f[n] BY <2>2, <2>5, <3>1, Zenon DEF note_spilled
      <4> QED BY <2>2, <2>6, <3>1, <4>1
    <3>2. CASE ~OlderNotWritten(m, s)
      <4>1. PICK w, x : w = record_on_disk(m, s, ep, FALSE, FALSE, mk) /\ x = u \cup NoRoom(m, s.bar) OBVIOUS
      <4>2. f[n + 1] = [l |-> w, untracked |-> x] BY <2>2, <2>5, <3>2, <4>1, Zenon DEF note_spilled
      <4>3. k = w /\ v = x BY <2>6, <4>2
      <4> QED BY <3>2, <4>1, <4>3
    <3> QED BY <3>1, <3>2
  <2>8. SpillNoted(ledger, ep, mk, seals, n + 1, k, v)
    <3>1. PICK q : q = seals OBVIOUS
    <3>2. SpillNoted(ledger, ep, mk, q, n, m, u) /\ s = q[n + 1] /\ \A i \in 1..n : q[i] \in Seal BY <2>2, <2>3, <2>4, <3>1
    <3>3. SpillNoted(ledger, ep, mk, q, n + 1, k, v) BY <2>1, <2>4, <2>7, <3>2, SpillOne
    <3> QED BY <3>1, <3>3
  <2> QED BY <2>1, <2>6, <2>8
<1>7. \A n \in 0..N : n \in S
  <2> HIDE DEF S
  <2> QED BY <1>2, <1>5, <1>6, Induction
<1>8. N \in S BY <1>2, <1>7
<1> QED BY <1>1, <1>3, <1>8

-----------------------------------------------------------------------------
(* Copies appended to the live file.                                       *)

\* The ledger m after the copies In have been noted in l; u had no room.
Took(In, l, m, u, ep, mk) ==
  /\ IsLedger(l) /\ IsLedger(m) /\ \A b : Tracked(l, b) => Tracked(m, b)
  /\ \A b : Tracked(m, b) => EntryKept(Entry(l, b), m.bars[b], ep, mk)
  /\ \A b : Tracked(m, b) => \/ Tracked(l, b) /\ m.bars[b].disk = l.bars[b].disk
                             \/ \E s \in In : s.bar = b /\ s.copy = m.bars[b].disk
  /\ (l.active => m.active) /\ m.disk_epoch >= l.disk_epoch /\ m.dead_letter_max_bucket = l.dead_letter_max_bucket
  /\ \A b \in u : ~Tracked(m, b) /\ m.active /\ m.disk_epoch >= ep
  /\ \A s \in In : CopyNoted(ep, mk, s, m, u)

LEMMA SpillTook ==
  ASSUME NEW l, IsLedger(l), NEW ep, NEW mk, NEW r \in Seq(Seal), NEW m, NEW u,
         SpillNoted(l, ep, mk, r, Len(r), m, u), NEW In, In = {s \in ToSet(r) : ~OlderNotWritten(l, s)}
  PROVE  Took(In, l, m, u, ep, mk)
<1>1. PICK N : N = Len(r) OBVIOUS
<1>2. \A i \in 1..N : r[i] \in ToSet(r) BY <1>1 DEF ToSet
<1>3. \A s \in ToSet(r) : \E i \in 1..N : r[i] = s BY <1>1 DEF ToSet
<1>4. SpillNoted(l, ep, mk, r, N, m, u) BY <1>1
<1>5. /\ IsLedger(m) /\ \A b : Tracked(l, b) => Tracked(m, b)
      /\ \A b : Tracked(m, b) => EntryKept(Entry(l, b), m.bars[b], ep, mk)
      /\ (l.active => m.active) /\ m.disk_epoch >= l.disk_epoch /\ m.dead_letter_max_bucket = l.dead_letter_max_bucket
  BY <1>4 DEF SpillNoted, Tracked
<1>6. ASSUME NEW b, Tracked(m, b)
      PROVE  \/ Tracked(l, b) /\ m.bars[b].disk = l.bars[b].disk
             \/ \E s \in In : s.bar = b /\ s.copy = m.bars[b].disk
  <2>1. \/ Tracked(l, b) /\ m.bars[b].disk = l.bars[b].disk
        \/ \E i \in 1..N : ~OlderNotWritten(l, r[i]) /\ r[i].bar = b /\ r[i].copy = m.bars[b].disk
    BY <1>4, <1>6 DEF SpillNoted, Tracked
  <2> QED BY <1>2, <2>1
<1>7. \A b \in u : ~Tracked(m, b) /\ m.active /\ m.disk_epoch >= ep BY <1>4 DEF SpillNoted, HasRoom
<1>8. ASSUME NEW s \in In PROVE CopyNoted(ep, mk, s, m, u)
  <2>1. PICK i \in 1..N : r[i] = s BY <1>3
  <2> QED BY <1>4, <2>1 DEF SpillNoted
<1> QED BY <1>5, <1>6, <1>7, <1>8 DEF Took

\* The copies In are appended to the live file and noted.
AppendStep(In, u, mk) ==
  /\ In \subseteq Seal /\ OnDisk' = OnDisk \cup In /\ ToSet(live') = ToSet(live) \cup In
  /\ Took(In, ledger, ledger', u, epoch, mk)
  /\ UNCHANGED <<db, dlq, staged, epoch, retired, writer>>
  /\ untracked' = untracked \cup u
  /\ exposed' = exposed \cup {b \in untracked' : \E s \in In : s.bar = b /\ s.copy < best[b]}
  /\ \A s \in In : s.bar \notin retired /\ ~OlderNotWritten(ledger, s)

\* A copy that is written is at least as full as what is on disk of its bar.
LEMMA NewAbove ==
  ASSUME SpillInv, KeptInv, NEW In, NEW u, NEW mk, AppendStep(In, u, mk),
         NEW s \in In, NEW x \in OnDisk, x.bar = s.bar, s.bar \notin exposed'
  PROVE  x.copy <= s.copy
<1>1. PICK b : b = s.bar OBVIOUS
<1>2. s \in Seal /\ b \notin exposed /\ b \notin retired BY <1>1 DEF AppendStep
<1>3. b \in Bars /\ s.copy \in Nat BY <1>1, <1>2, SealFacts
<1>4. x \in Seal
  <2>1. OnDisk \subseteq SealsUpTo(sealed) BY OnDiskFacts DEF SpillInv, Base, Records
  <2> QED BY <2>1 DEF SealsUpTo
<1>5. x.copy \in Nat BY <1>4, SealFacts
<1>6. BarInv(b) BY <1>2, <1>3 DEF KeptInv
<1>7. CASE Tracked(ledger, b)
  <2>1. PICK e : e = ledger.bars[b] OBVIOUS
  <2>2. x.copy <= e.disk BY <1>1, <1>6, <1>7, <2>1 DEF BarInv, Bounded
  <2>3. e \in SealEntry BY <1>7, <2>1 DEF SpillInv, Claims, IsLedger, Tracked
  <2>4. e.disk \in Nat /\ fullest(e) \in Nat /\ fullest(e) >= e.disk BY <2>3, EntryNumbers
  <2>5. ~ (s.copy < fullest(e)) BY <1>1, <1>7, <2>1 DEF AppendStep, OlderNotWritten
  <2> QED BY <1>3, <1>5, <2>2, <2>4, <2>5
<1>8. CASE ~Tracked(ledger, b)
  <2>1. OnFile(b) BY <1>1 DEF OnFile
  <2>2. b \in untracked BY <1>2, <1>6, <1>8, <2>1 DEF BarInv, Known
  <2>3. b \in untracked' BY <2>2 DEF AppendStep
  <2>4. ~ (s.copy < best[b]) BY <1>1, <2>3 DEF AppendStep
  <2>5. x.copy <= best[b] /\ best[b] \in Nat BY <1>1, <1>3, HeldSeals DEF SpillInv, Reached
  <2> QED BY <1>3, <1>5, <2>4, <2>5
<1> QED BY <1>7, <1>8

LEMMA AppendBest ==
  ASSUME SpillInv, SpillInv', BestUpdated, NEW In, NEW u, NEW mk, AppendStep(In, u, mk), NEW b \in Bars
  PROVE  /\ best'[b] = best[b] \/ \E s \in In : s.bar = b /\ s.copy = best'[b] /\ s.copy > best[b] /\ s = BestOf(b)'
         /\ \A s \in In : s.bar = b => s.copy <= best'[b] /\ s.copy \in Nat
<1>1. /\ best[b] \in Nat /\ best'[b] \in Nat /\ best[b] <= best'[b] /\ db[b] <= best[b] /\ db[b] \in Nat
      /\ best'[b] = best[b] \/ best'[b] = db'[b] \/ \E s \in OnDisk' : s.bar = b /\ s.copy = best'[b]
      /\ \A s \in OnDisk : s.copy <= best[s.bar]
      /\ \A s \in OnDisk' : s.copy <= best'[s.bar]
  BY BestSource
<1>2. In \subseteq Seal /\ OnDisk' = OnDisk \cup In /\ db' = db BY DEF AppendStep
<1>3. \A s \in In : s.bar = b => s.copy <= best'[b] /\ s.copy \in Nat BY <1>1, <1>2, SealFacts
<1>4. ASSUME best'[b] # best[b]
      PROVE  \E s \in In : s.bar = b /\ s.copy = best'[b] /\ s.copy > best[b] /\ s = BestOf(b)'
  <2>1. best'[b] > best[b] BY <1>1, <1>4
  <2>2. PICK s \in OnDisk' : s.bar = b /\ s.copy = best'[b] BY <1>1, <1>2, <2>1
  <2>3. s \notin OnDisk BY <1>1, <2>1, <2>2
  <2>4. s \in In /\ s \in Seal BY <1>2, <2>2, <2>3
  <2>5. s = BestOf(b)' BY <2>2, <2>4, SealFacts DEF BestOf
  <2> QED BY <2>1, <2>2, <2>4, <2>5
<1> QED BY <1>3, <1>4

\* What the writer has committed and not noted is still so, or it is on disk now.
LEMMA AppendPending ==
  ASSUME SpillInv, SpillInv', BestUpdated, NEW In, NEW u, NEW mk, AppendStep(In, u, mk), NEW b \in Bars, Pending(b)
  PROVE  Pending(b)' \/ \E s \in In : s.bar = b /\ s.copy = best'[b] /\ s = BestOf(b)'
<1>1. CASE best'[b] # best[b] BY <1>1, AppendBest
<1>2. CASE best'[b] = best[b]
  <2>1. BestOf(b)' = BestOf(b) BY <1>2 DEF BestOf
  <2>2. writer' = writer /\ db' = db BY DEF AppendStep
  <2>3. CASE ~Tracked(ledger', b) BY <1>2, <2>1, <2>2, <2>3 DEF Pending
  <2>4. CASE Tracked(ledger', b) /\ ledger'.bars[b].disk < best'[b] BY <1>2, <2>1, <2>2, <2>4 DEF Pending
  <2>5. CASE Tracked(ledger', b) /\ ~ (ledger'.bars[b].disk < best'[b])
    <3>1. ~ (Tracked(ledger, b) /\ ledger'.bars[b].disk = ledger.bars[b].disk) BY <1>2, <2>5 DEF Pending
    <3>2. PICK s \in In : s.bar = b /\ s.copy = ledger'.bars[b].disk BY <2>5, <3>1 DEF AppendStep, Took
    <3>3. s.copy <= best'[b] /\ s.copy \in Nat BY <3>2, AppendBest
    <3>4. best'[b] \in Nat BY BestSource
    <3>5. s.copy = best'[b] BY <2>5, <3>2, <3>3, <3>4
    <3>6. s \in Seal BY DEF AppendStep
    <3>7. s = BestOf(b)' BY <3>2, <3>5, <3>6, SealFacts DEF BestOf
    <3> QED BY <3>2, <3>5, <3>7
  <2> QED BY <2>3, <2>4, <2>5
<1> QED BY <1>1, <1>2

\* AppendSeals is such a step.
LEMMA AppendFacts ==
  ASSUME SpillInv, KeptInv, NEW t \in Threads, AppendSeals(t),
         NEW r, r = Run(t), NEW inc, inc = Included(r), NEW u, u = Spilled(r).untracked, NEW mk, mk = QueueMark,
         NEW In, In = ToSet(inc)
  PROVE  /\ AppendStep(In, u, mk) /\ mk \in Nat /\ inc \in Seq(Seal) /\ r \in Seq(Seal) /\ In \subseteq ToSet(r)
         /\ ToSet(r) \subseteq ToSet(todo[t])
         /\ \A b \in u : ~Tracked(ledger', b)
<1>1. /\ todo[t] # <<>> /\ live' = live \o Included(Run(t)) /\ ledger' = Spilled(Run(t)).l
      /\ Expose(Included(Run(t)), Spilled(Run(t)).untracked)
      /\ UNCHANGED <<db, dlq, staged, epoch, retired, writer>>
  BY DEF AppendSeals, Empty, lineage
<1>2. PICK G : G = SealsUpTo(sealed) OBVIOUS
<1>3. G \subseteq Seal BY <1>2 DEF SealsUpTo
<1>4. Seq(G) \subseteq Seq(Seal) BY <1>3, SeqMonotone
<1>5. r \in Seq(G) /\ ToSet(r) \subseteq ToSet(todo[t])
  <2>1. Base BY DEF SpillInv
  <2>2. r \in Seq(G) /\ ToSet(todo[t]) = ToSet(r) \cup ToSet(AfterRun(t)) BY <1>1, <1>2, <2>1, RunFacts
  <2> QED BY <2>2
<1>6. inc \in Seq(G) /\ In = {s \in ToSet(r) : ~OlderNotWritten(ledger, s)} BY <1>5, IncludedFacts
<1>7. r \in Seq(Seal) /\ inc \in Seq(Seal) BY <1>4, <1>5, <1>6
<1>8. In \subseteq Seal BY <1>7, SetOfSeq
<1>9. mk \in Nat /\ epoch \in Nat /\ IsLedger(ledger) BY MarkIsNat DEF SpillInv, Base, Indexed, Claims
<1>10. PICK ep, m : ep = epoch /\ m = Spilled(r).l OBVIOUS
<1>11. SpillNoted(ledger, ep, mk, r, Len(r), m, u)
  <2>1. SpillNoted(ledger, ep, mk, r, Len(r), Spilled(r).l, Spilled(r).untracked) BY <1>7, <1>9, <1>10, SpilledNotes
  <2> QED BY <1>10, <2>1
<1>12. Took(In, ledger, m, u, ep, mk) BY <1>6, <1>7, <1>9, <1>11, SpillTook
<1>13. Took(In, ledger, ledger', u, epoch, mk) BY <1>1, <1>10, <1>12
<1>14. live \in Seq(G) BY <1>2 DEF SpillInv, Base, Records
<1>15. ToSet(live') = ToSet(live) \cup In
  <2>1. live' = live \o inc BY <1>1
  <2>2. PICK a : a = live OBVIOUS
  <2>3. a \in Seq(G) /\ inc \in Seq(G) BY <1>6, <1>14, <2>2
  <2>4. ToSet(a \o inc) = ToSet(a) \cup ToSet(inc) BY <2>3, SetOfConcat
  <2> QED BY <2>1, <2>2, <2>4
<1>16. OnDisk' = OnDisk \cup In
  <2>1. \A s : s \in OnDisk' <=> s \in OnDisk \cup In BY <1>1, <1>15, WhereOnDisk
  <2> QED BY <2>1
<1>17. /\ untracked' = untracked \cup u
       /\ exposed' = exposed \cup {b \in untracked' : \E s \in In : s.bar = b /\ s.copy < best[b]}
  BY <1>1 DEF Expose, Behind
<1>18. \A s \in In : s.bar \notin retired /\ ~OlderNotWritten(ledger, s)
  <2>1. ToSet(todo[t]) \subseteq Held BY HeldSeals
  <2> QED BY <1>5, <1>6, <2>1 DEF KeptInv, Current
<1>19. AppendStep(In, u, mk) BY <1>1, <1>8, <1>13, <1>15, <1>16, <1>17, <1>18 DEF AppendStep
<1>20. \A b \in u : ~Tracked(ledger', b) BY <1>13 DEF Took
<1> QED BY <1>5, <1>6, <1>7, <1>9, <1>19, <1>20

LEMMA RisingConcat ==
  ASSUME NEW a \in Seq(Seal), NEW z \in Seq(Seal), NEW b, Rising(a, b), Rising(z, b), Below(a, z, b)
  PROVE  Rising(a \o z, b)
<1>1. PICK c : c = a \o z OBVIOUS
<1>2. PICK k, n : k = Len(a) /\ n = Len(z) OBVIOUS
<1>3. /\ k \in Nat /\ n \in Nat /\ DOMAIN c = 1..(k + n) /\ DOMAIN a = 1..k /\ DOMAIN z = 1..n
      /\ \A i \in 1..k : c[i] = a[i]
      /\ \A i \in 1..(k + n) : i > k => c[i] = z[i - k]
  BY <1>1, <1>2
<1>4. ASSUME NEW i \in DOMAIN c, NEW j \in DOMAIN c, i <= j, c[i].bar = b, c[j].bar = b
      PROVE  c[i].copy <= c[j].copy
  <2>1. CASE j <= k
    <3>1. i \in 1..k /\ j \in 1..k BY <1>3, <1>4, <2>1
    <3> QED BY <1>3, <1>4, <3>1 DEF Rising
  <2>2. CASE i > k
    <3>1. PICK p, q : p = i - k /\ q = j - k OBVIOUS
    <3>2. p \in 1..n /\ q \in 1..n /\ p <= q BY <1>3, <1>4, <2>2, <3>1
    <3>3. c[i] = z[p] /\ c[j] = z[q] BY <1>3, <1>4, <2>2, <3>1
    <3> QED BY <1>3, <1>4, <3>2, <3>3 DEF Rising
  <2>3. CASE i <= k /\ j > k
    <3>1. PICK q : q = j - k OBVIOUS
    <3>2. i \in 1..k /\ q \in 1..n BY <1>3, <1>4, <2>3, <3>1
    <3>3. c[i] = a[i] /\ c[j] = z[q] BY <1>3, <1>4, <2>3, <3>1, <3>2
    <3>4. a[i] \in ToSet(a) /\ z[q] \in ToSet(z) BY <1>3, <3>2 DEF ToSet
    <3> QED BY <1>4, <3>3, <3>4 DEF Below
  <2> QED BY <1>3, <2>1, <2>2, <2>3
<1>5. Rising(c, b) BY <1>4 DEF Rising
<1> QED BY <1>1, <1>5

\* The copies of a run that are written are in order.
LEMMA IncludedRising ==
  ASSUME SpillInv, KeptInv, NEW t \in Threads, AppendSeals(t), NEW r, r = Run(t), NEW inc, inc = Included(r),
         r \in Seq(Seal), NEW b
  PROVE  Rising(inc, b)
<1>1. \A i, j \in DOMAIN inc : i < j => \E p, q \in DOMAIN r : p < q /\ inc[i] = r[p] /\ inc[j] = r[q]
  <2>1. PICK w : w = {s \in ToSet(r) : ~OlderNotWritten(ledger, s)} OBVIOUS
  <2>2. inc = Among(r, w) BY <2>1 DEF Included
  <2> QED BY <2>2, AmongFacts
<1>2. inc \in Seq(Seal) BY IncludedFacts
<1>3. DOMAIN inc \subseteq Nat /\ \A i \in DOMAIN inc : inc[i] \in Seal BY <1>2
<1>4. \A i \in DOMAIN inc : inc[i].copy \in Nat BY <1>3, SealFacts
<1>5. DOMAIN r \subseteq Nat /\ \A p \in DOMAIN r : r[p] \in Seal
  <2>1. PICK k : k = Len(r) OBVIOUS
  <2>2. DOMAIN r = 1..k /\ \A p \in 1..k : r[p] \in Seal BY <2>1
  <2> QED BY <2>2
<1>6. \A p \in DOMAIN r : r[p].copy \in Nat BY <1>5, SealFacts
<1>7. ASSUME NEW p \in DOMAIN r, NEW q \in DOMAIN r, p < q, r[p].bar = b, r[q].bar = b
      PROVE  r[p].copy <= r[q].copy
  <2>1. CASE t = "writer"
    <3>1. r = <<Head(todo[t])>> BY <2>1 DEF Run
    <3>2. DOMAIN r = {1} BY <3>1
    <3> QED BY <1>5, <1>7, <3>2
  <2>2. CASE t = "producer"
    <3>1. r = todo["producer"] BY <2>2 DEF Run
    <3>2. r[p] \in ToSet(r) /\ r[q] \in ToSet(r) BY DEF ToSet
    <3>3. r[p].copy = sealed[b] /\ r[q].copy = sealed[b] BY <1>7, <3>1, <3>2 DEF KeptInv, Onward
    <3> QED BY <1>6, <3>3
  <2>3. CASE t = "escalation"
    <3>1. r = todo["escalation"] BY <2>3 DEF Run
    <3>2. Ascending(r) BY <3>1 DEF KeptInv, Onward
    <3>3. r[p].copy < r[q].copy BY <1>7, <3>2 DEF Ascending
    <3> QED BY <1>6, <3>3
  <2> QED BY <2>1, <2>2, <2>3 DEF Threads
<1>8. ASSUME NEW i \in DOMAIN inc, NEW j \in DOMAIN inc, i <= j, inc[i].bar = b, inc[j].bar = b
      PROVE  inc[i].copy <= inc[j].copy
  <2>1. CASE i = j BY <1>4, <2>1
  <2>2. CASE i < j
    <3>1. PICK p \in DOMAIN r, q \in DOMAIN r : p < q /\ inc[i] = r[p] /\ inc[j] = r[q] BY <1>1, <2>2
    <3> QED BY <1>7, <1>8, <3>1
  <2> QED BY <1>3, <1>8, <2>1, <2>2
<1> QED BY <1>8 DEF Rising

\* What is appended leaves a bar as the invariant wants it.
LEMMA AppendBar ==
  ASSUME SpillInv, SpillInv', BestUpdated, KeptInv, NEW In, NEW u, NEW mk, AppendStep(In, u, mk),
         NEW inc \in Seq(Seal), In = ToSet(inc), live' = live \o inc, NEW b \in Bars \ exposed', Rising(inc, b),
         \A s \in In : s.bar = b /\ s.copy < best[b] => OnFile(b) \/ Pending(b)
  PROVE  BarInv(b)'
<1>1. /\ In \subseteq Seal /\ OnDisk' = OnDisk \cup In /\ ToSet(live') = ToSet(live) \cup In
      /\ UNCHANGED <<db, dlq, staged, epoch, retired, writer>> /\ untracked' = untracked \cup u
      /\ exposed \subseteq exposed'
  BY DEF AppendStep
<1>2. BarInv(b) BY <1>1 DEF KeptInv
<1>3. /\ \A x : Tracked(ledger, x) => Tracked(ledger', x)
      /\ \A x : Tracked(ledger', x) => EntryKept(Entry(ledger, x), ledger'.bars[x], epoch, mk)
      /\ \A x : Tracked(ledger', x) => \/ Tracked(ledger, x) /\ ledger'.bars[x].disk = ledger.bars[x].disk
                                       \/ \E s \in In : s.bar = x /\ s.copy = ledger'.bars[x].disk
      /\ (ledger.active => ledger'.active) /\ ledger'.disk_epoch >= ledger.disk_epoch
      /\ \A x \in u : ~Tracked(ledger', x) /\ ledger'.active /\ ledger'.disk_epoch >= epoch
      /\ \A s \in In : CopyNoted(epoch, mk, s, ledger', u)
      /\ IsLedger(ledger) /\ IsLedger(ledger')
  BY DEF AppendStep, Took
<1>4. ASSUME NEW s \in In, NEW x \in OnDisk, x.bar = s.bar, s.bar = b PROVE x.copy <= s.copy
  BY <1>4, NewAbove
<1>5. /\ best[b] \in Nat /\ best'[b] \in Nat /\ best[b] <= best'[b] /\ db[b] <= best[b] /\ db[b] \in Nat
      /\ \A s \in OnDisk : s.copy <= best[s.bar]
      /\ OnDisk \subseteq Seal
  BY BestSource
<1>6. /\ best'[b] = best[b] \/ \E s \in In : s.bar = b /\ s.copy = best'[b] /\ s.copy > best[b] /\ s = BestOf(b)'
      /\ \A s \in In : s.bar = b => s.copy <= best'[b] /\ s.copy \in Nat
  BY AppendBest
<1>7. \A i \in DOMAIN staged : ToSet(staged[i].records) \subseteq OnDisk BY DEF OnDisk
<1>8. ToSet(live) \subseteq OnDisk BY DEF OnDisk
<1>9. epoch \in Nat /\ ledger.disk_epoch \in Nat /\ ledger'.disk_epoch \in Nat BY <1>3 DEF IsLedger, SpillInv, Base, Indexed
<1>10. Arranged(b)'
  <2>1. /\ \A i \in DOMAIN staged : Rising(staged[i].records, b) /\ Below(staged[i].records, live, b)
        /\ \A i, j \in DOMAIN staged : i < j => Below(staged[i].records, staged[j].records, b)
        /\ Rising(live, b)
    BY <1>2 DEF BarInv, Arranged
  <2>2. ASSUME NEW i \in DOMAIN staged PROVE Below(staged[i].records, live', b)
    BY <1>1, <1>4, <1>7, <2>1 DEF Below
  <2>3. Rising(live', b)
    <3>1. PICK a : a = live OBVIOUS
    <3>2. a \in Seq(Seal)
      <4>1. PICK G : G = SealsUpTo(sealed) OBVIOUS
      <4>2. G \subseteq Seal BY <4>1 DEF SealsUpTo
      <4>3. live \in Seq(G) BY <4>1 DEF SpillInv, Base, Records
      <4> QED BY <3>1, <4>2, <4>3, SeqMonotone
    <3>3. Below(a, inc, b) BY <1>4, <1>8, <3>1 DEF Below
    <3>4. Rising(a, b) BY <2>1, <3>1
    <3>5. Rising(a \o inc, b) BY <3>2, <3>3, <3>4, RisingConcat
    <3> QED BY <3>1, <3>5
  <2> QED BY <1>1, <2>1, <2>2, <2>3 DEF Arranged
<1>11. Reachable(b)'
  <2>1. CASE best'[b] = best[b]
    <3>1. BestOf(b)' = BestOf(b) BY <2>1 DEF BestOf
    <3>2. PICK s : s = BestOf(b) OBVIOUS
    <3>3. Unread(s) => Unread(s)' BY <1>1 DEF Unread
    <3> QED BY <1>1, <1>2, <2>1, <3>1, <3>2, <3>3 DEF BarInv, Reachable
  <2>2. CASE best'[b] # best[b]
    <3>1. PICK s \in In : s = BestOf(b)' BY <1>6, <2>2
    <3>2. Unread(s)' BY <1>1 DEF Unread
    <3> QED BY <3>1, <3>2 DEF Reachable
  <2> QED BY <2>1, <2>2
<1>12. Backed(b)'
  <2> SUFFICES ASSUME OnFile(b)' PROVE BestOf(b)' \in OnDisk' \/ Pending(b)' BY DEF Backed
  <2>1. CASE best'[b] # best[b] BY <1>1, <1>6, <2>1
  <2>2. CASE Pending(b)
    <3>1. Pending(b)' \/ \E s \in In : s.bar = b /\ s.copy = best'[b] /\ s = BestOf(b)' BY <2>2, AppendPending
    <3> QED BY <1>1, <3>1
  <2>3. CASE best'[b] = best[b] /\ ~Pending(b)
    <3>1. BestOf(b)' = BestOf(b) BY <2>3 DEF BestOf
    <3>2. CASE OnFile(b) BY <1>1, <1>2, <2>3, <3>1, <3>2 DEF BarInv, Backed
    <3>3. CASE ~OnFile(b)
      <4>1. PICK s \in In : s.bar = b BY <1>1, <3>3 DEF OnFile
      <4>2. s.copy = best[b] BY <1>5, <1>6, <2>3, <3>3, <4>1
      <4>3. s = BestOf(b) BY <1>1, <4>1, <4>2, SealFacts DEF BestOf
      <4> QED BY <1>1, <3>1, <4>3
    <3> QED BY <3>2, <3>3
  <2> QED BY <2>1, <2>2, <2>3
<1>13. ASSUME Tracked(ledger, b), NEW e, e = ledger.bars[b], NEW d, d = ledger'.bars[b]
       PROVE  /\ d.disk >= e.disk /\ d.disk_epoch >= e.disk_epoch /\ d.committed = e.committed
              /\ d.disk \in Nat /\ e.disk \in Nat /\ d.disk_epoch \in Nat /\ e.disk_epoch \in Nat
  <2>1. Tracked(ledger', b) BY <1>3, <1>13
  <2>2. EntryKept(Entry(ledger, b), d, epoch, mk) BY <1>3, <1>13, <2>1
  <2>3. Entry(ledger, b) = e BY <1>13 DEF Entry
  <2>4. EntryKept(e, d, epoch, mk) BY <2>2, <2>3
  <2>5. e \in SealEntry /\ d \in SealEntry /\ d.disk >= e.disk /\ d.disk_epoch >= e.disk_epoch /\ d.committed = e.committed
    BY <2>4 DEF EntryKept
  <2> QED BY <2>5, EntryNumbers
<1>14. Known(b)'
  <2> SUFFICES ASSUME b \notin retired
               PROVE  /\ b \in BarsOf(live') => \/ Tracked(ledger', b) /\ ledger'.bars[b].disk_epoch >= epoch
                                                \/ b \in untracked' /\ ledger'.active /\ ledger'.disk_epoch >= epoch
                      /\ OnFile(b)' => Tracked(ledger', b) \/ ledger'.active
                      /\ OnFile(b)' /\ ~Tracked(ledger', b) => b \in untracked'
    BY <1>1 DEF Known
  <2>1. /\ b \in BarsOf(live) => \/ Tracked(ledger, b) /\ ledger.bars[b].disk_epoch >= epoch
                                 \/ b \in untracked /\ ledger.active /\ ledger.disk_epoch >= epoch
        /\ OnFile(b) => Tracked(ledger, b) \/ ledger.active
        /\ OnFile(b) /\ ~Tracked(ledger, b) => b \in untracked
    BY <1>2 DEF BarInv, Known
  <2>2. ASSUME NEW s \in In, s.bar = b
        PROVE  \/ b \in u /\ ledger'.active /\ ledger'.disk_epoch >= epoch
               \/ Tracked(ledger', b) /\ ledger'.bars[b].disk_epoch >= epoch
    BY <1>3, <2>2 DEF CopyNoted
  <2>3. b \in BarsOf(live') => b \in BarsOf(live) \/ \E s \in In : s.bar = b BY <1>1 DEF BarsOf
  <2>4. OnFile(b)' => OnFile(b) \/ \E s \in In : s.bar = b BY <1>1 DEF OnFile
  <2>5. ASSUME b \in BarsOf(live)
        PROVE  \/ Tracked(ledger', b) /\ ledger'.bars[b].disk_epoch >= epoch
               \/ b \in untracked' /\ ledger'.active /\ ledger'.disk_epoch >= epoch
    <3>1. CASE Tracked(ledger, b) /\ ledger.bars[b].disk_epoch >= epoch
      <4>1. PICK e, d : e = ledger.bars[b] /\ d = ledger'.bars[b] OBVIOUS
      <4>2. d.disk_epoch >= e.disk_epoch /\ d.disk_epoch \in Nat /\ e.disk_epoch \in Nat BY <1>13, <3>1, <4>1
      <4> QED BY <1>3, <1>9, <3>1, <4>1, <4>2
    <3>2. CASE b \in untracked /\ ledger.active /\ ledger.disk_epoch >= epoch BY <1>1, <1>3, <1>9, <3>2
    <3> QED BY <2>1, <2>5, <3>1, <3>2
  <2>6. OnFile(b)' => Tracked(ledger', b) \/ ledger'.active BY <1>3, <2>1, <2>2, <2>4
  <2>7. OnFile(b)' /\ ~Tracked(ledger', b) => b \in untracked' BY <1>1, <1>3, <2>1, <2>2, <2>4
  <2> QED BY <1>1, <2>2, <2>3, <2>5, <2>6, <2>7
<1>15. Bounded(b)'
  <2> SUFFICES ASSUME Tracked(ledger', b), NEW x \in OnDisk', x.bar = b PROVE x.copy <= ledger'.bars[b].disk
    BY DEF Bounded
  <2>1. CASE x \in In
    <3>1. b \notin u BY <1>3
    <3> QED BY <1>3, <2>1, <3>1 DEF CopyNoted
  <2>2. CASE x \in OnDisk /\ Tracked(ledger, b)
    <3>1. PICK e, d : e = ledger.bars[b] /\ d = ledger'.bars[b] OBVIOUS
    <3>2. x.copy <= e.disk BY <1>2, <2>2, <3>1 DEF BarInv, Bounded
    <3>3. d.disk >= e.disk /\ d.disk \in Nat /\ e.disk \in Nat BY <1>13, <2>2, <3>1
    <3>4. x.copy \in Nat BY <1>5, <2>2, SealFacts
    <3> QED BY <3>1, <3>2, <3>3, <3>4
  <2>3. CASE x \in OnDisk /\ ~Tracked(ledger, b)
    <3>1. PICK s \in In : s.bar = b /\ s.copy = ledger'.bars[b].disk BY <1>3, <2>3
    <3> QED BY <1>4, <2>3, <3>1
  <2> QED BY <1>1, <2>1, <2>2, <2>3
<1>16. Stored(b)'
  <2>1. ASSUME Tracked(ledger', b) PROVE ledger'.bars[b].committed <= db[b]
    <3>1. CASE Tracked(ledger, b)
      <4>1. PICK e, d : e = ledger.bars[b] /\ d = ledger'.bars[b] OBVIOUS
      <4>2. d.committed = e.committed BY <1>13, <3>1, <4>1
      <4> QED BY <1>2, <3>1, <4>1, <4>2 DEF BarInv, Stored
    <3>2. CASE ~Tracked(ledger, b)
      <4>1. EntryKept(NoEntry, ledger'.bars[b], epoch, mk) BY <1>3, <2>1, <3>2 DEF Entry
      <4>2. ledger'.bars[b].committed = 0 BY <4>1 DEF EntryKept, NoEntry
      <4> QED BY <1>5, <4>2
    <3> QED BY <3>1, <3>2
  <2> QED BY <1>1, <1>2, <2>1 DEF BarInv, Stored
<1>17. Reading(b)'
  <2>1. CASE best'[b] = best[b]
    <3>1. BestOf(b)' = BestOf(b) BY <2>1 DEF BestOf
    <3> QED BY <1>1, <1>2, <2>1, <3>1 DEF BarInv, Reading
  <2>2. CASE best'[b] # best[b]
    <3> SUFFICES ASSUME writer.at = "replayed", NEW n \in DOMAIN staged[writer.file].records,
                        staged[writer.file].records[n] = BestOf(b)'
                 PROVE  FALSE
      BY <1>1 DEF Reading
    <3>1. writer.file \in DOMAIN staged BY DEF SpillInv, Base, InWriter
    <3>2. staged[writer.file].records[n] \in ToSet(staged[writer.file].records) BY DEF ToSet
    <3>3. BestOf(b)' \in OnDisk BY <1>7, <3>1, <3>2
    <3>4. BestOf(b)'.copy <= best[b] BY <1>5, <3>3 DEF BestOf
    <3> QED BY <1>5, <2>2, <3>4 DEF BestOf
  <2> QED BY <2>1, <2>2
<1> QED BY <1>10, <1>11, <1>12, <1>14, <1>15, <1>16, <1>17 DEF BarInv

\* What is queued stays refused.
LEMMA AppendRefused ==
  ASSUME SpillInv, SpillInv', BestUpdated, NEW In, NEW u, NEW mk \in Nat, AppendStep(In, u, mk),
         NEW s \in Seal, NEW mark \in Nat, mark <= mk, Refused(s, mark)
  PROVE  Refused(s, mark)'
<1>1. PICK b : b = s.bar OBVIOUS
<1>2. b \in Bars /\ s.copy \in Nat BY <1>1, SealFacts
<1> SUFFICES ASSUME b \notin exposed', s.copy < best'[b]
             PROVE  \/ b \in untracked'
                    \/ /\ Tracked(ledger', b) /\ s.copy < fullest(ledger'.bars[b])
                       /\ ledger'.bars[b].queue_mark >= mark
                    \/ /\ Pending(b)'
                       /\ writer'.at = "noting" => writer'.queue_busy /\ writer'.mark >= mark
  BY <1>1 DEF Refused
<1>3. /\ untracked' = untracked \cup u /\ writer' = writer /\ exposed \subseteq exposed' BY DEF AppendStep
<1>4. /\ \A x : Tracked(ledger, x) => Tracked(ledger', x)
      /\ \A x : Tracked(ledger', x) => EntryKept(Entry(ledger, x), ledger'.bars[x], epoch, mk)
      /\ \A x \in In : CopyNoted(epoch, mk, x, ledger', u)
  BY DEF AppendStep, Took
<1>5. best[b] \in Nat /\ best'[b] \in Nat /\ best[b] <= best'[b] BY <1>2, BestSource
<1>6. ASSUME NEW x \in In, x.bar = b, x.copy = best'[b]
      PROVE  \/ b \in untracked'
             \/ /\ Tracked(ledger', b) /\ s.copy < fullest(ledger'.bars[b])
                /\ ledger'.bars[b].queue_mark >= mark
  <2>1. CASE b \in u BY <1>3, <2>1
  <2>2. CASE b \notin u
    <3>1. PICK d : d = ledger'.bars[b] OBVIOUS
    <3>2. Tracked(ledger', b) /\ d.disk >= best'[b] /\ d.queue_mark >= mk BY <1>4, <1>6, <2>2, <3>1 DEF CopyNoted
    <3>3. EntryKept(Entry(ledger, b), d, epoch, mk) BY <1>4, <3>1, <3>2
    <3>4. d \in SealEntry BY <3>3 DEF EntryKept
    <3>5. d.disk \in Nat /\ d.queue_mark \in Nat /\ fullest(d) \in Nat /\ fullest(d) >= d.disk BY <3>4, EntryNumbers
    <3>6. s.copy < fullest(d) /\ d.queue_mark >= mark BY <1>2, <1>5, <3>2, <3>5
    <3> QED BY <3>1, <3>2, <3>6
  <2> QED BY <2>1, <2>2
<1>7. CASE ~ (s.copy < best[b])
  <2>1. best'[b] # best[b] BY <1>7
  <2>2. \E x \in In : x.bar = b /\ x.copy = best'[b] BY <1>2, <2>1, AppendBest
  <2> QED BY <1>6, <2>2
<1>8. CASE s.copy < best[b] /\ b \in untracked BY <1>3, <1>8
<1>9. CASE Tracked(ledger, b) /\ s.copy < fullest(ledger.bars[b]) /\ ledger.bars[b].queue_mark >= mark
  <2>1. PICK e, d : e = ledger.bars[b] /\ d = ledger'.bars[b] OBVIOUS
  <2>2. Tracked(ledger', b) /\ Entry(ledger, b) = e BY <1>4, <1>9, <2>1 DEF Entry
  <2>3. EntryKept(e, d, epoch, mk) BY <1>4, <2>1, <2>2
  <2>4. fullest(d) >= fullest(e) BY <2>3, EntryGrows
  <2>5. e \in SealEntry /\ d \in SealEntry /\ d.queue_mark >= e.queue_mark BY <2>3 DEF EntryKept
  <2>6. fullest(e) \in Nat /\ fullest(d) \in Nat /\ e.queue_mark \in Nat /\ d.queue_mark \in Nat BY <2>5, EntryNumbers
  <2>7. s.copy < fullest(d) /\ d.queue_mark >= mark BY <1>2, <1>9, <2>1, <2>4, <2>5, <2>6
  <2> QED BY <2>1, <2>2, <2>7
<1>10. CASE Pending(b) /\ (writer.at = "noting" => writer.queue_busy /\ writer.mark >= mark)
  <2>1. Pending(b)' \/ \E x \in In : x.bar = b /\ x.copy = best'[b] /\ x = BestOf(b)' BY <1>2, <1>10, AppendPending
  <2> QED BY <1>3, <1>6, <1>10, <2>1
<1> QED BY <1>1, <1>3, <1>7, <1>8, <1>9, <1>10 DEF Refused

\* A copy is behind the fullest one only if that is on disk, or about to be.
LEMMA AppendBehind ==
  ASSUME SpillInv, SpillInv', BestUpdated, KeptInv, NEW t \in Threads, NEW In, NEW u, NEW mk, AppendStep(In, u, mk),
         In \subseteq ToSet(todo[t]), NEW s \in In, s.bar \notin exposed', s.copy < best[s.bar]
  PROVE  OnFile(s.bar) \/ Pending(s.bar)
<1>1. PICK b : b = s.bar OBVIOUS
<1>2. s \in Seal /\ s \in ToSet(todo[t]) /\ b \notin exposed BY <1>1 DEF AppendStep
<1>3. b \in Bars /\ s.copy \in Nat BY <1>1, <1>2, SealFacts
<1>4. /\ best[b] \in Nat /\ db[b] \in Nat /\ best[b] <= sealed[b] /\ sealed[b] \in Nat BY <1>3, HeldSeals, BestSource
<1>5. CASE t = "producer"
  <2>1. s.copy = sealed[b] BY <1>1, <1>2, <1>5 DEF KeptInv, Onward
  <2> QED BY <1>1, <1>3, <1>4, <2>1
<1>6. CASE t = "writer"
  <2>1. s.copy > db[b] BY <1>1, <1>2, <1>6 DEF KeptInv, Onward
  <2>2. db[b] # best[b] BY <1>1, <1>3, <1>4, <2>1
  <2>3. Unread(BestOf(b)) BY <1>2, <1>3, <2>2 DEF KeptInv, BarInv, Reachable
  <2>4. BestOf(b) \in OnDisk BY <2>3 DEF Unread, OnDisk, ToSet
  <2>5. BestOf(b).bar = b BY DEF BestOf
  <2> QED BY <1>1, <2>4, <2>5 DEF OnFile
<1>7. CASE t = "escalation"
  <2>1. Refused(s, escalation_finished + 1) BY <1>2, <1>7 DEF KeptInv, Escalated
  <2>2. b \notin untracked BY <1>1 DEF AppendStep
  <2>3. ~ (Tracked(ledger, b) /\ s.copy < fullest(ledger.bars[b])) BY <1>1 DEF AppendStep, OlderNotWritten
  <2> QED BY <1>1, <1>2, <2>1, <2>2, <2>3 DEF Refused
<1> QED BY <1>5, <1>6, <1>7 DEF Threads

LEMMA KeptAppendSeals ==
  ASSUME SpillInv, SpillInv', BestUpdated, KeptInv, NEW t \in Threads, AppendSeals(t)
  PROVE  KeptInv'
<1>1. /\ todo[t] # <<>> /\ live' = live \o Included(Run(t)) /\ todo' = [todo EXCEPT ![t] = AfterRun(t)]
      /\ UNCHANGED <<db, dlq, staged, epoch, retired, writer, boot, sealed, channel, ring, queue, dead, unnoted>>
      /\ UNCHANGED <<escalation_pending, escalation_finished, run_len>>
  BY DEF AppendSeals, Empty, lineage, WithTodo
<1>2. PICK r : r = Run(t) OBVIOUS
<1>3. PICK inc, u, mk : inc = Included(r) /\ u = Spilled(r).untracked /\ mk = QueueMark OBVIOUS
<1>4. PICK In : In = ToSet(inc) OBVIOUS
<1>5. /\ AppendStep(In, u, mk) /\ mk \in Nat /\ inc \in Seq(Seal) /\ r \in Seq(Seal) /\ In \subseteq ToSet(r)
      /\ ToSet(r) \subseteq ToSet(todo[t])
  BY <1>2, <1>3, <1>4, AppendFacts
<1>6. /\ todo \in [Threads -> Seq(Seal)] /\ queue \in Seq(Seal) BY HeldSeals
<1>7. \A x \in Threads : x # t => todo'[x] = todo[x] BY <1>1, <1>6
<1>8. ToSet(todo'[t]) \subseteq ToSet(todo[t]) /\ (t # "writer" => todo'[t] = <<>>)
  <2>1. PICK G : G = SealsUpTo(sealed) OBVIOUS
  <2>2. Base BY DEF SpillInv
  <2>3. ToSet(todo[t]) = ToSet(Run(t)) \cup ToSet(AfterRun(t)) /\ (t # "writer" => AfterRun(t) = <<>>)
    BY <1>1, <2>1, <2>2, RunFacts
  <2>4. todo'[t] = AfterRun(t) BY <1>1, <1>6
  <2> QED BY <2>3, <2>4
<1>9. \A x \in Threads : ToSet(todo'[x]) \subseteq ToSet(todo[x]) BY <1>7, <1>8
<1>10. Held' \subseteq Held
  <2>1. ToSet(channel') = ToSet(channel) /\ ToSet(ring') = ToSet(ring) /\ ToSet(queue') = ToSet(queue) /\ dead' = dead BY <1>1
  <2>2. UNION {ToSet(todo'[x]) \cup ToSet(dead'[x]) : x \in Threads} \subseteq UNION {ToSet(todo[x]) \cup ToSet(dead[x]) : x \in Threads}
    BY <1>9, <2>1
  <2> QED BY <2>1, <2>2 DEF Held
<1>11. writer.at # "boot" BY <1>1 DEF KeptInv, Booting
<1>12. Unfaulted'
  <2>1. ledger'.dead_letter_max_bucket = ledger.dead_letter_max_bucket BY <1>5 DEF AppendStep, Took
  <2> QED BY <1>1, <2>1 DEF KeptInv, Unfaulted
<1>13. Booting' /\ InRead' BY <1>1, <1>11 DEF KeptInv, Booting, InRead
<1>14. Current' BY <1>1, <1>10 DEF KeptInv, Current
<1>15. Onward'
  <2>1. ToSet(todo'["writer"]) \subseteq ToSet(todo["writer"]) /\ ToSet(todo'["producer"]) \subseteq ToSet(todo["producer"])
    BY <1>9 DEF Threads
  <2>2. Ascending(todo'["escalation"]) /\ Precede(todo'["escalation"], queue)
    <3>1. CASE t = "escalation"
      <4>1. PICK e : e = <<>> OBVIOUS
      <4>2. DOMAIN e = {} /\ ToSet(e) = {} BY <4>1, SetOfSeq
      <4>3. todo'["escalation"] = e BY <1>8, <3>1, <4>1
      <4>4. Ascending(e) /\ Precede(e, queue) BY <4>2 DEF Ascending, Precede
      <4> QED BY <4>3, <4>4
    <3>2. CASE t # "escalation"
      <4>1. todo'["escalation"] = todo["escalation"] BY <1>7, <3>2 DEF Threads
      <4> QED BY <4>1 DEF KeptInv, Onward
    <3> QED BY <3>1, <3>2
  <2>3. exposed \subseteq exposed' BY <1>5 DEF AppendStep
  <2> QED BY <1>1, <2>1, <2>2, <2>3 DEF KeptInv, Onward
<1>16. Escalated'
  <2>1. PICK q, base, run, rest : q = queue /\ base = escalation_finished /\ run = run_len /\ rest = todo'["escalation"] OBVIOUS
  <2>2. /\ Len(q) \in Nat /\ run \in Nat /\ base \in Nat /\ mk = base + Len(q) + run
        /\ run = 0 => todo["escalation"] = <<>>
    <3>1. Len(q) \in Nat BY <1>6, <2>1
    <3>2. run \in Nat /\ base \in Nat /\ escalation_pending = Len(queue) + run_len /\ (run = 0 => todo["escalation"] = <<>>)
      BY <2>1 DEF SpillInv, Base, Counters
    <3> QED BY <1>3, <2>1, <3>1, <3>2 DEF QueueMark
  <2>3. ASSUME NEW i \in DOMAIN q PROVE Refused(q[i], base + run + i)'
    <3>1. q[i] \in Seal /\ i \in 1..Len(q) BY <1>6, <2>1
    <3>2. base + run + i \in Nat /\ base + run + i <= mk BY <2>2, <3>1
    <3>3. Refused(q[i], base + run + i) BY <2>1 DEF KeptInv, Escalated
    <3> QED BY <1>5, <3>1, <3>2, <3>3, AppendRefused
  <2>4. ASSUME NEW s \in ToSet(rest) PROVE Refused(s, base + 1)'
    <3>1. s \in ToSet(todo["escalation"]) BY <1>9, <2>1 DEF Threads
    <3>2. s \in Seal BY <1>6, <3>1, SetOfSeq DEF Threads
    <3>3. todo["escalation"] # <<>> BY <3>1, SetOfSeq
    <3>4. base + 1 \in Nat /\ base + 1 <= mk BY <2>2, <3>3
    <3>5. Refused(s, base + 1) BY <2>1, <3>1 DEF KeptInv, Escalated
    <3> QED BY <1>5, <3>2, <3>4, <3>5, AppendRefused
  <2> QED BY <1>1, <2>1, <2>3, <2>4 DEF Escalated
<1>17. ASSUME NEW b \in Bars \ exposed' PROVE BarInv(b)'
  <2>1. live' = live \o inc BY <1>1, <1>2, <1>3
  <2>2. Rising(inc, b) BY <1>2, <1>3, <1>5, IncludedRising
  <2>3. ASSUME NEW s \in In, s.bar = b, s.copy < best[b] PROVE OnFile(b) \/ Pending(b)
    <3>1. In \subseteq ToSet(todo[t]) BY <1>5
    <3>2. OnFile(s.bar) \/ Pending(s.bar) BY <1>5, <2>3, <3>1, AppendBehind
    <3> QED BY <2>3, <3>2
  <2> QED BY <1>4, <1>5, <2>1, <2>2, <2>3, AppendBar
<1> QED BY <1>12, <1>13, <1>14, <1>15, <1>16, <1>17 DEF KeptInv

-----------------------------------------------------------------------------
(* The mid-session replay.                                                 *)

LEMMA UnreadOnDisk ==
  ASSUME NEW s, Unread(s)
  PROVE  s \in OnDisk
BY DEF Unread, OnDisk, ToSet

\* The files by their records and offsets.
LEMMA StagedFacts ==
  ASSUME SpillInv
  PROVE  /\ DOMAIN staged \subseteq Nat
         /\ \A i \in DOMAIN staged : /\ staged[i].records \in Seq(Seal) /\ staged[i].offset \in Nat
                                     /\ staged[i].offset <= Len(staged[i].records)
                                     /\ ToSet(staged[i].records) \subseteq OnDisk
                                     /\ DOMAIN staged[i].records = 1..Len(staged[i].records) /\ Len(staged[i].records) \in Nat
<1>1. PICK G : G = SealsUpTo(sealed) OBVIOUS
<1>2. G \subseteq Seal BY <1>1 DEF SealsUpTo
<1>3. Seq(G) \subseteq Seq(Seal) BY <1>2, SeqMonotone
<1>4. staged \in Seq(StagedFile(G)) /\ live \in Seq(G) /\ dlq \in Seq(G) BY <1>1 DEF SpillInv, Base, Records
<1>5. DOMAIN staged \subseteq Nat /\ \A i \in DOMAIN staged : staged[i] \in StagedFile(G)
  <2>1. PICK F : F = StagedFile(G) OBVIOUS
  <2>2. staged \in Seq(F) BY <1>4, <2>1
  <2>3. DOMAIN staged = 1..Len(staged) /\ \A i \in 1..Len(staged) : staged[i] \in F BY <2>2
  <2> QED BY <2>1, <2>3
<1>6. \A f \in StagedFile(G) : f.records \in Seq(G) /\ f.offset \in Nat /\ f.offset <= Len(f.records) BY DEF StagedFile
<1>7. \A a \in Seq(Seal) : DOMAIN a = 1..Len(a) /\ Len(a) \in Nat OBVIOUS
<1>8. \A i \in DOMAIN staged : ToSet(staged[i].records) \subseteq OnDisk BY DEF OnDisk
<1> QED BY <1>3, <1>5, <1>6, <1>7, <1>8

\* While a record of a bar is to be read, so is its fullest copy.
LEMMA UnreadBest ==
  ASSUME SpillInv, Unfaulted, NEW b \in Bars, Arranged(b), BestOf(b) \in OnDisk, NEW x, x.bar = b, Unread(x)
  PROVE  Unread(BestOf(b))
<1>1. PICK y : y = BestOf(b) OBVIOUS
<1>2. y.bar = b /\ y.copy = best[b] /\ best[b] \in Nat BY <1>1, HeldSeals DEF BestOf
<1>3. x \in Seal /\ x.copy <= best[b]
  <2>1. OnDisk \subseteq SealsUpTo(sealed) BY OnDiskFacts DEF SpillInv, Base, Records
  <2>2. x \in OnDisk BY UnreadOnDisk
  <2> QED BY <2>1, <2>2 DEF SealsUpTo, SpillInv, Reached
<1>4. x.copy \in Nat /\ x = [bar |-> x.bar, copy |-> x.copy] BY <1>3, SealFacts
<1>5. ASSUME y.copy <= x.copy PROVE Unread(y)
  <2>1. x.copy = best[b] BY <1>2, <1>3, <1>4, <1>5
  <2>2. x = y BY <1>1, <1>4, <2>1 DEF BestOf
  <2> QED BY <2>2
<1>6. CASE y \in ToSet(live) BY <1>1, <1>6 DEF Unread
<1>7. CASE \E j \in DOMAIN staged : y \in ToSet(staged[j].records)
  <2>1. PICK j \in DOMAIN staged : y \in ToSet(staged[j].records) BY <1>7
  <2>2. PICK m \in DOMAIN staged[j].records : staged[j].records[m] = y BY <2>1 DEF ToSet
  <2>3. /\ j \in Nat /\ staged[j].offset \in Nat /\ m \in Nat /\ m > 0
        /\ Rising(staged[j].records, b) /\ Below(staged[j].records, live, b)
    BY <2>2, StagedFacts DEF Arranged
  <2>4. CASE x \in ToSet(live)
    <3>1. y.copy <= x.copy BY <1>2, <2>1, <2>3, <2>4 DEF Below
    <3> QED BY <1>1, <1>5, <3>1
  <2>5. CASE x \notin ToSet(live)
    <3>1. PICK i \in DOMAIN staged : /\ staged[i].state = "ready"
                                     /\ \E n \in DOMAIN staged[i].records : n > staged[i].offset /\ staged[i].records[n] = x
      BY <2>5 DEF Unread
    <3>2. PICK p \in DOMAIN staged[i].records : p > staged[i].offset /\ staged[i].records[p] = x BY <3>1
    <3>3. i \in Nat /\ staged[i].offset \in Nat /\ p \in Nat BY <3>2, StagedFacts
    <3>4. x \in ToSet(staged[i].records) BY <3>2 DEF ToSet
    <3>5. CASE j < i
      <4>1. y.copy <= x.copy BY <1>2, <2>1, <3>4, <3>5 DEF Arranged, Below
      <4> QED BY <1>1, <1>5, <4>1
    <3>6. CASE j = i /\ m > staged[i].offset BY <1>1, <2>2, <3>1, <3>6 DEF Unread
    <3>7. CASE j = i /\ ~ (m > staged[i].offset)
      <4>1. m <= p BY <2>3, <3>2, <3>3, <3>7
      <4>2. y.copy <= x.copy BY <1>2, <2>2, <2>3, <3>2, <3>7, <4>1 DEF Rising
      <4> QED BY <1>1, <1>5, <4>2
    <3>8. CASE i < j
      <4>1. staged[j].offset = 0 /\ staged[j].state # "awaiting" /\ staged[j].state \in {"ready", "awaiting"}
        BY <3>1, <3>8 DEF Unfaulted
      <4>2. m > staged[j].offset BY <2>3, <4>1
      <4> QED BY <1>1, <2>2, <4>1, <4>2 DEF Unread
    <3> QED BY <2>3, <3>3, <3>5, <3>6, <3>7, <3>8
  <2> QED BY <2>4, <2>5
<1>8. y \notin ToSet(dlq) BY SetOfSeq DEF Unfaulted
<1> QED BY <1>1, <1>6, <1>7, <1>8, WhereOnDisk

\* What a batch of the replay makes of a bar.
Replayed(a, b) ==
  /\ b \notin BarsOf(a) => db'[b] = db[b]
  /\ b \in BarsOf(a) => /\ \E s \in ToSet(a) : s.bar = b /\ db'[b] = s.copy
                        /\ b \notin exposed => \A s \in ToSet(a) : s.bar = b => s.copy <= db'[b]

LEMMA ReplayTables ==
  ASSUME SpillInv, SpillInv', BestUpdated, KeptInv, NEW i \in DOMAIN staged, NEW n \in Nat, Replay(i, n),
         NEW a, a = BatchOf(i, n), NEW r, r = ReadOf(i, n)
  PROVE  /\ best' = best /\ OnDisk' = OnDisk /\ \A b \in Bars : Replayed(a, b)
         /\ a \in Seq(Seal) /\ ToSet(a) = {s \in ToSet(r) : ~replay_is_older(ledger, s)}
         /\ \A s \in ToSet(r) : Unread(s)
         /\ \A p \in DOMAIN staged[i].records : p > staged[i].offset /\ p <= staged[i].offset + n => staged[i].records[p] \in ToSet(r)
<1>1. /\ staged[i].kind = "spill" /\ staged[i].state = "ready" /\ n \in 1..(Len(staged[i].records) - staged[i].offset)
      /\ db' = Upsert(db, a)
  BY ReplayStep DEF Readable
<1>2. PICK G : G = SealsUpTo(sealed) OBVIOUS
<1>3. G \subseteq Seal BY <1>2 DEF SealsUpTo
<1>4. Seq(G) \subseteq Seq(Seal) BY <1>3, SeqMonotone
<1>5. /\ r \in Seq(G) /\ ToSet(r) \subseteq ToSet(staged[i].records)
      /\ a \in Seq(G) /\ ToSet(a) = {s \in ToSet(r) : ~replay_is_older(ledger, s)}
      /\ \A p \in 1..n : staged[i].offset + p \in DOMAIN staged[i].records
      /\ Len(r) = n /\ \A p \in 1..n : r[p] = staged[i].records[staged[i].offset + p]
  BY <1>1, <1>2, ReplayFacts DEF SpillInv
<1>6. a \in Seq(Seal) BY <1>4, <1>5
<1>7. DOMAIN r = 1..n BY <1>5
<1>8. staged[i].offset \in Nat BY StagedFacts
<1>9. OnDisk' = OnDisk
  <2>1. UNCHANGED <<live, dlq, staged>> BY DEF Replay, disk
  <2> QED BY <2>1 DEF OnDisk
<1>10. UpsertedBy(db, a, db')
  <2>1. db \in [Bars -> Copy] BY DEF SpillInv, Base, Tables
  <2> QED BY <1>1, <1>6, <2>1, Upserts
<1>11. ASSUME NEW b \in BarsOf(a) PROVE \E k \in DOMAIN a : /\ a[k].bar = b /\ db'[b] = a[k].copy
                                                          /\ \A j \in DOMAIN a : a[j].bar = b => j <= k
  BY <1>10 DEF UpsertedBy
<1>12. \A j \in DOMAIN a : a[j] \in ToSet(a) /\ a[j] \in Seal
  <2>1. \A j \in DOMAIN a : a[j] \in ToSet(a) BY DEF ToSet
  <2> QED BY <1>6, <2>1, SetOfSeq
<1>13. \A s \in ToSet(a) : s \in OnDisk /\ s.copy <= best[s.bar]
  <2>1. ToSet(staged[i].records) \subseteq OnDisk BY StagedFacts
  <2> QED BY <1>5, <2>1 DEF SpillInv, Reached
<1>14. best' = best
  <2>1. /\ best \in [Bars -> Copy] /\ best' \in [Bars -> Copy]
        /\ \A b \in Bars : /\ best[b] \in Nat /\ best'[b] \in Nat /\ best[b] <= best'[b] /\ db[b] <= best[b]
                           /\ best'[b] = best[b] \/ best'[b] = db'[b] \/ \E s \in OnDisk' : s.bar = b /\ s.copy = best'[b]
        /\ \A s \in OnDisk : s.copy <= best[s.bar]
    BY BestSource
  <2>2. ASSUME NEW b \in Bars PROVE best'[b] = best[b]
    <3>1. db'[b] <= best[b]
      <4>1. CASE b \in BarsOf(a) BY <1>11, <1>12, <1>13, <4>1
      <4>2. CASE b \notin BarsOf(a) BY <1>10, <2>1, <4>2 DEF UpsertedBy
      <4> QED BY <4>1, <4>2
    <3> QED BY <1>9, <2>1, <3>1
  <2> QED BY <2>1, <2>2
<1>15. \A s \in ToSet(r) : \E p \in 1..n : s = staged[i].records[staged[i].offset + p] BY <1>5, <1>7 DEF ToSet
<1>16. ASSUME NEW s \in ToSet(r) PROVE Unread(s)
  <2>1. PICK p \in 1..n : s = staged[i].records[staged[i].offset + p] BY <1>15
  <2>2. PICK q : q = staged[i].offset + p OBVIOUS
  <2>3. q \in DOMAIN staged[i].records /\ q > staged[i].offset /\ staged[i].records[q] = s BY <1>5, <1>8, <2>1, <2>2
  <2> QED BY <1>1, <2>3 DEF Unread
<1>17. ASSUME NEW p \in DOMAIN staged[i].records, p > staged[i].offset, p <= staged[i].offset + n
       PROVE  staged[i].records[p] \in ToSet(r)
  <2>1. PICK q : q = p - staged[i].offset OBVIOUS
  <2>2. p \in Nat BY StagedFacts
  <2>3. q \in 1..n /\ staged[i].offset + q = p BY <1>8, <1>17, <2>1, <2>2
  <2>4. r[q] = staged[i].records[p] BY <1>5, <2>3
  <2> QED BY <1>7, <2>3, <2>4 DEF ToSet
<1>18. ASSUME NEW b \in Bars, b \notin exposed, NEW j \in DOMAIN a, NEW k \in DOMAIN a, a[j].bar = b, a[k].bar = b, j <= k
       PROVE  a[j].copy <= a[k].copy
  <2>1. a[j].copy \in Nat BY <1>12, SealFacts
  <2>2. CASE j = k BY <2>1, <2>2
  <2>3. CASE j < k
    <3>1. \A x, y \in DOMAIN a : x < y => \E p, q \in DOMAIN r : p < q /\ a[x] = r[p] /\ a[y] = r[q]
      <4>1. PICK w : w = {s \in ToSet(r) : ~replay_is_older(ledger, s)} OBVIOUS
      <4>2. a = Among(r, w) BY <4>1 DEF BatchOf
      <4>3. r \in Seq(G) BY <1>5
      <4> QED BY <4>2, <4>3, AmongFacts
    <3>2. PICK p \in 1..n, q \in 1..n : p < q /\ a[j] = r[p] /\ a[k] = r[q] BY <1>7, <2>3, <3>1
    <3>3. PICK x, y : x = staged[i].offset + p /\ y = staged[i].offset + q OBVIOUS
    <3>4. x \in DOMAIN staged[i].records /\ y \in DOMAIN staged[i].records /\ x <= y BY <1>5, <1>8, <3>2, <3>3
    <3>5. a[j] = staged[i].records[x] /\ a[k] = staged[i].records[y] BY <1>5, <3>2, <3>3
    <3>6. Rising(staged[i].records, b) BY <1>18 DEF KeptInv, BarInv, Arranged
    <3> QED BY <1>18, <3>4, <3>5, <3>6 DEF Rising
  <2>4. DOMAIN a \subseteq Nat BY <1>6
  <2> QED BY <1>18, <2>2, <2>3, <2>4
<1>19. ASSUME NEW b \in Bars PROVE Replayed(a, b)
  <2>1. CASE b \notin BarsOf(a) BY <1>10, <2>1 DEF UpsertedBy, Replayed
  <2>2. CASE b \in BarsOf(a)
    <3>1. PICK k \in DOMAIN a : a[k].bar = b /\ db'[b] = a[k].copy /\ \A j \in DOMAIN a : a[j].bar = b => j <= k
      BY <1>11, <2>2
    <3>2. \E s \in ToSet(a) : s.bar = b /\ db'[b] = s.copy BY <1>12, <3>1
    <3>3. ASSUME b \notin exposed, NEW s \in ToSet(a), s.bar = b PROVE s.copy <= db'[b]
      <4>1. PICK j \in DOMAIN a : a[j] = s BY DEF ToSet
      <4> QED BY <1>18, <3>1, <3>3, <4>1
    <3> QED BY <2>2, <3>2, <3>3 DEF Replayed
  <2> QED BY <2>1, <2>2
<1> QED BY <1>5, <1>6, <1>9, <1>14, <1>16, <1>17, <1>19

LEMMA KeptReplay ==
  ASSUME SpillInv, SpillInv', BestUpdated, KeptInv, scenario.faults = {},
         NEW i \in DOMAIN staged, NEW n \in Nat, Replay(i, n)
  PROVE  KeptInv'
<1>1. /\ UNCHANGED <<live, dlq, staged, ledger, epoch, untracked, retired, dead, unnoted, sealed, boot>>
      /\ UNCHANGED <<channel, ring, queue, todo, escalation_finished, run_len>>
      /\ writer = Idle /\ ring = <<>>
      /\ \A j \in 1..(i - 1) : ~Readable(j)
  BY DEF Replay, MayReplay, memory, index, disk, lineage, Empty
<1>2. PICK a, r : a = BatchOf(i, n) /\ r = ReadOf(i, n) OBVIOUS
<1>3. exposed' = exposed \cup Overtaken(a)
  <2>1. exposed' = exposed \cup Overtaken(BatchOf(i, n)) BY DEF Replay, BatchOf, ReadOf
  <2> QED BY <1>2, <2>1
<1>4. \A s \in ToSet(channel), x \in ToSet(a) : x.bar = s.bar /\ s.copy <= x.copy => s.bar \in exposed'
  BY <1>3 DEF Overtaken
<1>5. /\ writer'.at = "replayed" /\ writer'.batch = a /\ writer'.file = i /\ writer'.read = n
      /\ staged[i].state = "ready" /\ writer.at = "idle"
  BY <1>2, ReplayStep DEF Readable
<1>6. /\ best' = best /\ OnDisk' = OnDisk /\ \A b \in Bars : Replayed(a, b)
      /\ a \in Seq(Seal) /\ ToSet(a) = {s \in ToSet(r) : ~replay_is_older(ledger, s)}
      /\ \A s \in ToSet(r) : Unread(s)
      /\ \A p \in DOMAIN staged[i].records : p > staged[i].offset /\ p <= staged[i].offset + n => staged[i].records[p] \in ToSet(r)
  BY <1>2, ReplayTables
<1>7. Unfaulted' BY <1>1 DEF KeptInv, Unfaulted
<1>8. Booting' BY <1>5 DEF Booting
<1>9. Current' BY <1>1, <1>5 DEF KeptInv, Current, Held
<1>10. Onward'
  <2>1. todo["writer"] = <<>> BY <1>5 DEF SpillInv, Base, Threaded
  <2>2. ToSet(ring') = {} /\ ToSet(todo'["writer"]) = {} BY <1>1, <2>1, SetOfSeq
  <2>3. ASSUME NEW s \in ToSet(channel), s.bar \notin exposed' PROVE s.copy > db'[s.bar]
    <3>1. s \in Seal BY HeldSeals
    <3>2. s.bar \in Bars /\ s.copy \in Nat BY <3>1, SealFacts
    <3>3. CASE s.bar \notin BarsOf(a)
      <4>1. db'[s.bar] = db[s.bar] BY <1>6, <3>2, <3>3 DEF Replayed
      <4>2. s.copy > db[s.bar] BY <1>3, <2>3 DEF KeptInv, Onward
      <4> QED BY <4>1, <4>2
    <3>4. CASE s.bar \in BarsOf(a)
      <4>1. PICK x \in ToSet(a) : x.bar = s.bar /\ db'[s.bar] = x.copy BY <1>6, <3>2, <3>4 DEF Replayed
      <4>2. x \in Seal BY <1>6, SetOfSeq
      <4>3. x.copy \in Nat /\ ~ (s.copy <= x.copy) BY <1>4, <2>3, <4>1, <4>2, SealFacts
      <4> QED BY <3>2, <4>1, <4>3
    <3> QED BY <3>3, <3>4
  <2> QED BY <1>1, <2>2, <2>3 DEF KeptInv, Onward
<1>11. Escalated'
  <2>1. LikeLedger(ledger, ledger') BY <1>1 DEF LikeLedger
  <2> QED BY <1>1, <1>5, <1>6, <1>3, <2>1, EscalatedIdle
<1>12. InRead'
  <2>1. ASSUME NEW j \in DOMAIN staged, j < i PROVE staged[j].state = "awaiting"
    <3>1. j \in 1..(i - 1)
      <4>1. DOMAIN staged = 1..Len(staged) /\ Len(staged) \in Nat BY DEF SpillInv, Base, Records
      <4> QED BY <2>1, <4>1
    <3>2. ~Readable(j) BY <1>1, <3>1
    <3> QED BY <3>2 DEF KeptInv, Unfaulted, Readable
  <2> QED BY <1>1, <1>5, <2>1 DEF InRead
<1>13. ASSUME NEW b \in Bars \ exposed' PROVE BarInv(b)'
  <2>0. b \in Bars \ exposed BY <1>3
  <2>1. BarInv(b) BY <2>0 DEF KeptInv
  <2>2. BestOf(b)' = BestOf(b) BY <1>6 DEF BestOf
  <2>3. Arranged(b)' BY <1>1, <2>1 DEF BarInv, Arranged
  <2>4. Known(b)' BY <1>1, <1>6, <2>1 DEF BarInv, Known, OnFile
  <2>5. Bounded(b)' BY <1>1, <1>6, <2>1 DEF BarInv, Bounded
  <2>6. ~Pending(b) BY <1>5 DEF Pending
  <2>7. Backed(b)' BY <1>6, <2>1, <2>2, <2>6 DEF BarInv, Backed, OnFile
  <2>8. \A s \in ToSet(a) : s.bar = b => b \in BarsOf(a) BY DEF BarsOf
  <2>9. \A s \in ToSet(a) : s \in Seal /\ Unread(s) BY <1>6, SetOfSeq
  <2>10. best[b] \in Nat /\ db[b] \in Nat /\ db[b] <= best[b] /\ db'[b] \in Nat /\ db'[b] <= best[b] BY <1>6, BestSource
  <2>11. ASSUME Tracked(ledger, b)
         PROVE  /\ ledger.bars[b].committed \in Nat /\ ledger.bars[b].committed <= db[b]
                /\ \A s \in ToSet(a) : s.bar = b => s.copy >= ledger.bars[b].committed
    <3>1. ledger.bars[b] \in SealEntry BY <2>11 DEF SpillInv, Claims, IsLedger, Tracked
    <3>2. ledger.bars[b].committed \in Nat BY <3>1, EntryNumbers
    <3>3. ledger.bars[b].committed <= db[b] BY <2>1, <2>11 DEF BarInv, Stored
    <3>4. ASSUME NEW s \in ToSet(a), s.bar = b PROVE s.copy >= ledger.bars[b].committed
      <4>1. ~ (s.copy < ledger.bars[b].committed) BY <1>6, <2>11, <3>4 DEF replay_is_older
      <4>2. s.copy \in Nat BY <2>9, SealFacts
      <4> QED BY <3>2, <4>1, <4>2
    <3> QED BY <3>2, <3>3, <3>4
  <2>12. Reachable(b)'
    <3>1. PICK y : y = BestOf(b) OBVIOUS
    <3>2. Unread(y) => Unread(y)' BY <1>1 DEF Unread
    <3>3. CASE b \notin BarsOf(a)
      <4>1. db'[b] = db[b] BY <1>6, <3>3 DEF Replayed
      <4> QED BY <1>6, <2>1, <2>2, <3>1, <3>2, <4>1 DEF BarInv, Reachable
    <3>4. CASE b \in BarsOf(a)
      <4>1. PICK s \in ToSet(a) : s.bar = b BY <1>6, <3>4 DEF Replayed
      <4>2. Unread(s) BY <2>9
      <4>3. s \in OnDisk BY <4>2, UnreadOnDisk
      <4>4. BestOf(b) \in OnDisk BY <2>1, <2>6, <4>1, <4>3 DEF BarInv, Backed, OnFile
      <4>5. Unread(BestOf(b)) BY <2>1, <4>1, <4>2, <4>4, UnreadBest DEF KeptInv, BarInv
      <4> QED BY <2>2, <3>1, <3>2, <4>5 DEF Reachable
    <3> QED BY <3>3, <3>4
  <2>13. Stored(b)'
    <3>1. ASSUME Tracked(ledger, b) PROVE ledger.bars[b].committed <= db'[b]
      <4>1. CASE b \notin BarsOf(a) BY <1>6, <2>11, <3>1, <4>1 DEF Replayed
      <4>2. CASE b \in BarsOf(a)
        <5>1. PICK s \in ToSet(a) : s.bar = b /\ db'[b] = s.copy BY <1>6, <4>2 DEF Replayed
        <5> QED BY <2>10, <2>11, <3>1, <5>1
      <4> QED BY <4>1, <4>2
    <3>2. \A s \in ToSet(a) : s.bar = b => s.copy <= db'[b] BY <1>6, <2>0, <2>8 DEF Replayed
    <3> QED BY <1>1, <1>5, <3>1, <3>2 DEF Stored
  <2>14. Reading(b)'
    <3> SUFFICES ASSUME NEW p \in DOMAIN staged[i].records, p > staged[i].offset, p <= staged[i].offset + n,
                        staged[i].records[p] = BestOf(b)
                 PROVE  db'[b] = best[b]
      BY <1>1, <1>5, <1>6, <2>2 DEF Reading
    <3>1. PICK y : y = BestOf(b) OBVIOUS
    <3>2. y \in ToSet(r) /\ y.bar = b /\ y.copy = best[b] BY <1>6, <3>1 DEF BestOf
    <3>3. CASE y \in ToSet(a)
      <4>1. best[b] <= db'[b] BY <1>6, <2>0, <2>8, <3>2, <3>3 DEF Replayed
      <4> QED BY <2>10, <4>1
    <3>4. CASE y \notin ToSet(a)
      <4>1. Tracked(ledger, b) /\ (best[b] < ledger.bars[b].committed \/ best[b] = ledger.bars[b].committed)
        BY <1>6, <3>2, <3>4 DEF replay_is_older
      <4>2. ledger.bars[b].committed = best[b] /\ db[b] = best[b] BY <2>10, <2>11, <4>1
      <4>3. CASE b \notin BarsOf(a) BY <1>6, <4>2, <4>3 DEF Replayed
      <4>4. CASE b \in BarsOf(a)
        <5>1. PICK s \in ToSet(a) : s.bar = b /\ db'[b] = s.copy BY <1>6, <4>4 DEF Replayed
        <5> QED BY <2>10, <2>11, <4>1, <4>2, <5>1
      <4> QED BY <4>3, <4>4
    <3> QED BY <3>3, <3>4
  <2> QED BY <2>3, <2>4, <2>5, <2>7, <2>12, <2>13, <2>14 DEF BarInv
<1> QED BY <1>7, <1>8, <1>9, <1>10, <1>11, <1>12, <1>13 DEF KeptInv

LEMMA FileAt ==
  ASSUME SpillInv, NEW f \in DOMAIN staged, NEW o, NEW st, NEW z, z = AtOffset(staged, f, o, st)
  PROVE  /\ DOMAIN z = DOMAIN staged /\ \A j \in DOMAIN staged : j # f => z[j] = staged[j]
         /\ z[f].records = staged[f].records /\ z[f].offset = o /\ z[f].state = st /\ z[f].kind = staged[f].kind
         /\ SameRecords(staged, z)
<1>1. staged[f].records \in Seq(Seal) BY StagedFacts
<1>2. PICK g : g = staged[f] OBVIOUS
<1>3. g = [kind |-> g.kind, records |-> g.records, own |-> g.own, offset |-> g.offset, state |-> g.state]
  <2>1. PICK G : G = SealsUpTo(sealed) OBVIOUS
  <2>2. staged \in Seq(StagedFile(G)) BY <2>1 DEF SpillInv, Base, Records
  <2>3. g \in StagedFile(G) BY <1>2, <2>2
  <2> QED BY <2>3 DEF StagedFile
<1>4. PICK h : h = [[g EXCEPT !.offset = o] EXCEPT !.state = st] OBVIOUS
<1>5. z = [staged EXCEPT ![f] = h] BY <1>2, <1>4 DEF AtOffset
<1>6. h.records = g.records /\ h.offset = o /\ h.state = st /\ h.kind = g.kind BY <1>3, <1>4
<1>7. DOMAIN z = DOMAIN staged /\ z[f] = h /\ \A j \in DOMAIN staged : j # f => z[j] = staged[j] BY <1>5
<1>8. SameRecords(staged, z) BY <1>2, <1>6, <1>7 DEF SameRecords
<1> QED BY <1>2, <1>6, <1>7, <1>8

LEMMA KeptNoteReplayCommits ==
  ASSUME SpillInv, SpillInv', BestUpdated, KeptInv, NoteReplayCommits
  PROVE  KeptInv'
<1>1. /\ UNCHANGED <<db, live, dlq, epoch, untracked, retired, exposed, dead, unnoted, sealed, boot>>
      /\ UNCHANGED <<channel, ring, queue, todo, escalation_finished, run_len>>
      /\ writer.at = "replayed" /\ writer' = Idle /\ ledger' = on_replay_commit(ledger, writer.batch)
  BY DEF NoteReplayCommits, memory, ghosts, lineage
<1>2. writer'.at = "idle" BY <1>1 DEF Idle
<1>3. PICK f, o : f = writer.file /\ o = staged[writer.file].offset + writer.read OBVIOUS
<1>4. PICK st : st = IF o = Len(staged[f].records) THEN "awaiting" ELSE "ready" OBVIOUS
<1>5. f \in DOMAIN staged /\ staged' = AtOffset(staged, f, o, st)
  BY <1>1, <1>3, <1>4 DEF NoteReplayCommits, AtOffset, SpillInv, Base, InWriter
<1>6. PICK z : z = staged' OBVIOUS
<1>7. /\ DOMAIN z = DOMAIN staged /\ \A j \in DOMAIN staged : j # f => z[j] = staged[j]
      /\ z[f].records = staged[f].records /\ z[f].offset = o /\ z[f].state = st /\ z[f].kind = staged[f].kind
      /\ SameRecords(staged, z)
  BY <1>5, <1>6, FileAt
<1>8. st \in {"ready", "awaiting"} /\ (st = "awaiting" => o = Len(staged[f].records)) BY <1>4
<1>9. staged[f].state = "ready" /\ \A j \in DOMAIN staged : j < f => staged[j].state = "awaiting"
  BY <1>1, <1>3 DEF KeptInv, InRead
<1>10. OnDisk' = OnDisk BY <1>1, <1>6, <1>7, SameOnDisk
<1>11. best' = best BY <1>1, <1>10, BestSame
<1>12. PICK a : a = writer.batch OBVIOUS
<1>13. a \in Seq(Seal)
  <2>1. PICK G : G = SealsUpTo(sealed) OBVIOUS
  <2>2. G \subseteq Seal BY <2>1 DEF SealsUpTo
  <2>3. a \in Seq(G) BY <1>1, <1>12, <2>1 DEF SpillInv, Base, InWriter
  <2> QED BY <2>2, <2>3, SeqMonotone
<1>14. IsLedger(ledger) BY DEF SpillInv, Claims
<1>15. /\ IsLedger(ledger') /\ DOMAIN ledger'.bars = DOMAIN ledger.bars
       /\ ledger'.active = ledger.active /\ ledger'.disk_epoch = ledger.disk_epoch
       /\ ledger'.dead_letter_max_bucket = ledger.dead_letter_max_bucket
       /\ \A b \in DOMAIN ledger.bars :
             /\ ledger'.bars[b].disk = ledger.bars[b].disk /\ ledger'.bars[b].disk_epoch = ledger.bars[b].disk_epoch
             /\ ledger'.bars[b].queue_mark = ledger.bars[b].queue_mark
             /\ b \notin BarsOf(a) => ledger'.bars[b] = ledger.bars[b]
             /\ b \in BarsOf(a) => ledger'.bars[b].committed = larger(ledger.bars[b].committed, Max(CopiesOf(a, b)))
  <2>1. PICK m : m = ledger' OBVIOUS
  <2>2. m = on_replay_commit(ledger, a) BY <1>1, <1>12, <2>1
  <2> QED BY <1>13, <1>14, <2>1, <2>2, ReplayCommitFacts
<1>16. Unfaulted'
  <2>1. /\ \A i \in DOMAIN z : z[i].kind = "spill" /\ z[i].state \in {"ready", "awaiting"}
    BY <1>7, <1>8 DEF KeptInv, Unfaulted
  <2>2. DOMAIN staged \subseteq Nat BY StagedFacts
  <2>3. ASSUME NEW i \in DOMAIN z, NEW j \in DOMAIN z, i < j, z[j].state = "awaiting" PROVE z[i].state = "awaiting"
    <3>1. CASE j = f
      <4>1. i # f /\ staged[i].state = "awaiting" BY <1>7, <1>9, <2>2, <2>3, <3>1
      <4> QED BY <1>7, <4>1
    <3>2. CASE j # f
      <4>1. staged[j].state = "awaiting" BY <1>7, <2>3, <3>2
      <4>2. staged[i].state = "awaiting" BY <1>7, <2>3, <4>1 DEF KeptInv, Unfaulted
      <4> QED BY <1>7, <1>9, <4>2
    <3> QED BY <3>1, <3>2
  <2>4. ASSUME NEW i \in DOMAIN z, NEW j \in DOMAIN z, i < j, z[i].state = "ready" PROVE z[j].offset = 0
    <3>1. staged[i].state = "ready" BY <1>7, <1>9, <2>4
    <3>2. j # f BY <1>7, <1>9, <2>4, <3>1
    <3>3. staged[j].offset = 0 BY <1>7, <2>4, <3>1 DEF KeptInv, Unfaulted
    <3> QED BY <1>7, <3>2, <3>3
  <2> QED BY <1>1, <1>6, <1>15, <2>1, <2>3, <2>4 DEF KeptInv, Unfaulted
<1>17. Booting' /\ InRead' BY <1>2 DEF Booting, InRead
<1>18. Current' BY <1>1, <1>2 DEF KeptInv, Current, Held
<1>19. Onward' BY <1>1 DEF KeptInv, Onward
<1>20. ASSUME NEW b \in DOMAIN ledger.bars
       PROVE  /\ fullest(ledger'.bars[b]) >= fullest(ledger.bars[b]) /\ fullest(ledger'.bars[b]) \in Nat
              /\ fullest(ledger.bars[b]) \in Nat
  <2>1. PICK e, d : e = ledger.bars[b] /\ d = ledger'.bars[b] OBVIOUS
  <2>2. e \in SealEntry /\ d \in SealEntry BY <1>14, <1>15, <2>1 DEF IsLedger
  <2>3. /\ e.disk \in Nat /\ e.committed \in Nat /\ d.disk \in Nat /\ d.committed \in Nat
        /\ fullest(e) \in Nat /\ fullest(d) \in Nat
    BY <2>2, EntryNumbers
  <2>4. d.disk = e.disk BY <1>15, <2>1
  <2>5. d.committed >= e.committed
    <3>1. CASE b \notin BarsOf(a) BY <1>15, <2>1, <2>3, <3>1
    <3>2. CASE b \in BarsOf(a)
      <4>1. PICK c : c = Max(CopiesOf(a, b)) OBVIOUS
      <4>2. c \in Copy BY <1>13, <3>2, <4>1, MaxCopyOf
      <4>3. c \in Nat BY <4>2, SealFacts
      <4>4. d.committed = larger(e.committed, c) BY <1>15, <2>1, <3>2, <4>1
      <4> QED BY <2>3, <4>3, <4>4 DEF larger
    <3> QED BY <3>1, <3>2
  <2>6. fullest(d) >= fullest(e) BY <2>3, <2>4, <2>5 DEF fullest, larger
  <2> QED BY <2>1, <2>3, <2>6
<1>21. Escalated'
  <2>1. ASSUME NEW s \in Seal, NEW mark, Refused(s, mark) PROVE Refused(s, mark)'
    <3> SUFFICES ASSUME s.bar \notin exposed, s.copy < best[s.bar]
                 PROVE  \/ s.bar \in untracked
                        \/ /\ Tracked(ledger', s.bar) /\ s.copy < fullest(ledger'.bars[s.bar])
                           /\ ledger'.bars[s.bar].queue_mark >= mark
      BY <1>1, <1>11 DEF Refused
    <3>1. ~Pending(s.bar) BY <1>1 DEF Pending
    <3>2. CASE s.bar \in untracked BY <3>2
    <3>3. CASE /\ Tracked(ledger, s.bar) /\ s.copy < fullest(ledger.bars[s.bar])
               /\ ledger.bars[s.bar].queue_mark >= mark
      <4>1. s.bar \in DOMAIN ledger.bars /\ s.copy \in Nat BY <3>3, SealFacts DEF Tracked
      <4>2. s.copy < fullest(ledger'.bars[s.bar]) BY <1>20, <3>3, <4>1
      <4> QED BY <1>15, <3>3, <4>1, <4>2 DEF Tracked
    <3> QED BY <2>1, <3>1, <3>2, <3>3 DEF Refused
  <2>2. PICK q, base, run, r : q = queue /\ base = escalation_finished /\ run = run_len /\ r = todo["escalation"] OBVIOUS
  <2>3. q \in Seq(Seal) /\ r \in Seq(Seal) BY <2>2, HeldSeals DEF Threads
  <2>4. ASSUME NEW i \in DOMAIN q PROVE Refused(q[i], base + run + i)'
    <3>1. Refused(q[i], base + run + i) BY <2>2 DEF KeptInv, Escalated
    <3>2. q[i] \in Seal BY <2>3
    <3> QED BY <2>1, <3>1, <3>2
  <2>5. ASSUME NEW s \in ToSet(r) PROVE Refused(s, base + 1)'
    <3>1. Refused(s, base + 1) BY <2>2 DEF KeptInv, Escalated
    <3>2. s \in Seal BY <2>3, SetOfSeq
    <3> QED BY <2>1, <3>1, <3>2
  <2> QED BY <1>1, <2>2, <2>4, <2>5 DEF Escalated
<1>22. ASSUME NEW b \in Bars \ exposed PROVE BarInv(b)'
  <2>1. BarInv(b) BY DEF KeptInv
  <2>2. BestOf(b)' = BestOf(b) BY <1>11 DEF BestOf
  <2>3. Arranged(b)' BY <1>1, <1>6, <1>7, <2>1 DEF BarInv, Arranged, SameRecords
  <2>4. Known(b)' BY <1>1, <1>10, <1>15, <2>1 DEF BarInv, Known, OnFile, Tracked
  <2>5. Bounded(b)' BY <1>10, <1>15, <2>1 DEF BarInv, Bounded, Tracked
  <2>6. ~Pending(b) BY <1>1 DEF Pending
  <2>7. Backed(b)' BY <1>10, <2>1, <2>2, <2>6 DEF BarInv, Backed, OnFile
  <2>8. Reading(b)' BY <1>2 DEF Reading
  <2>9. Stored(b)'
    <3>1. ASSUME b \in DOMAIN ledger.bars PROVE ledger'.bars[b].committed <= db[b]
      <4>1. ledger.bars[b].committed <= db[b] BY <2>1, <3>1 DEF BarInv, Stored, Tracked
      <4>2. CASE b \notin BarsOf(a) BY <1>15, <3>1, <4>1, <4>2
      <4>3. CASE b \in BarsOf(a)
        <5>1. PICK c : c = Max(CopiesOf(a, b)) OBVIOUS
        <5>2. \E s \in ToSet(a) : s.bar = b /\ s.copy = c BY <1>13, <4>3, <5>1, MaxCopyOf
        <5>3. c <= db[b] BY <1>1, <1>12, <2>1, <5>2 DEF BarInv, Stored, Busy
        <5>4. ledger'.bars[b].committed = larger(ledger.bars[b].committed, c) BY <1>15, <3>1, <4>3, <5>1
        <5> QED BY <4>1, <5>3, <5>4 DEF larger
      <4> QED BY <4>2, <4>3
    <3> QED BY <1>1, <1>2, <1>15, <3>1 DEF Stored, Tracked, Busy
  <2>10. Reachable(b)'
    <3>1. PICK y : y = BestOf(b) OBVIOUS
    <3>2. CASE db[b] = best[b] BY <1>1, <1>11, <3>2 DEF Reachable
    <3>3. CASE db[b] # best[b]
      <4>1. Unread(y) BY <2>1, <3>1, <3>3 DEF BarInv, Reachable
      <4>2. CASE y \in ToSet(live)
        <5>1. Unread(y)' BY <1>1, <4>2 DEF Unread
        <5> QED BY <2>2, <3>1, <5>1 DEF Reachable
      <4>3. CASE y \notin ToSet(live)
        <5>1. PICK i \in DOMAIN staged : /\ staged[i].state = "ready"
                                         /\ \E n \in DOMAIN staged[i].records : n > staged[i].offset /\ staged[i].records[n] = y
          BY <4>1, <4>3 DEF Unread
        <5>2. PICK n \in DOMAIN staged[i].records : n > staged[i].offset /\ staged[i].records[n] = y BY <5>1
        <5>3. CASE i # f
          <6>1. Unread(y)' BY <1>6, <1>7, <5>1, <5>2, <5>3 DEF Unread
          <6> QED BY <2>2, <3>1, <6>1 DEF Reachable
        <5>4. CASE i = f
          <6>1. ~ (n <= o) BY <1>1, <1>3, <2>1, <3>1, <3>3, <5>2, <5>4 DEF BarInv, Reading
          <6>2. n \in Nat /\ o \in Nat /\ n <= Len(staged[f].records)
            <7>1. writer.read \in Nat BY <1>1 DEF SpillInv, Base, InWriter
            <7> QED BY <1>3, <1>5, <5>2, <5>4, <7>1, StagedFacts
          <6>3. n > o /\ st = "ready" BY <1>8, <6>1, <6>2
          <6>4. Unread(y)' BY <1>6, <1>7, <5>2, <5>4, <6>3 DEF Unread
          <6> QED BY <2>2, <3>1, <6>4 DEF Reachable
        <5> QED BY <5>3, <5>4
      <4> QED BY <4>2, <4>3
    <3> QED BY <3>2, <3>3
  <2> QED BY <2>3, <2>4, <2>5, <2>7, <2>8, <2>9, <2>10 DEF BarInv
<1> QED BY <1>1, <1>16, <1>17, <1>18, <1>19, <1>21, <1>22 DEF KeptInv

\* Where an element stood before the i-th was removed.
Stood(k, i) == IF k < i THEN k ELSE k + 1

LEMMA OneRemoved ==
  ASSUME NEW V, NEW s \in Seq(V), NEW i \in DOMAIN s, NEW z, z = RemoveAt(s, i)
  PROVE  /\ \A k \in DOMAIN z : Stood(k, i) \in DOMAIN s /\ Stood(k, i) # i /\ z[k] = s[Stood(k, i)]
         /\ \A j \in DOMAIN s : j # i => \E k \in DOMAIN z : Stood(k, i) = j
         /\ \A k, j \in DOMAIN z : k < j => Stood(k, i) < Stood(j, i)
<1>1. PICK n : n = Len(s) OBVIOUS
<1>2. n \in Nat /\ i \in 1..n /\ DOMAIN s = 1..n BY <1>1
<1>3. PICK h, a, c, d, e : /\ h = i - 1 /\ a = SubSeq(s, 1, h) /\ c = SubSeq(s, i + 1, n)
                           /\ d = SubSeq(s, h + 1, n) /\ e = SubSeq(s, 1, i)
  OBVIOUS
<1>4. z = a \o c BY <1>1, <1>3 DEF RemoveAt
<1>5. SplitAt(V, s, h, a, d) /\ SplitAt(V, s, i, e, c)
  <2>1. h \in 0..Len(s) /\ i \in 0..Len(s) BY <1>1, <1>2, <1>3
  <2>2. SplitAt(V, s, h, a, d) BY <1>1, <1>3, <2>1, SetOfParts
  <2>3. SplitAt(V, s, i, e, c) BY <1>1, <1>3, <2>1, SetOfParts
  <2> QED BY <2>2, <2>3
<1>6. a \in Seq(V) /\ Len(a) = i - 1 /\ \A k \in 1..(i - 1) : a[k] = s[k] BY <1>2, <1>3, <1>5 DEF SplitAt
<1>7. c \in Seq(V) /\ Len(c) = n - i /\ \A k \in 1..(n - i) : c[k] = s[i + k] BY <1>1, <1>2, <1>5 DEF SplitAt
<1>8. /\ Len(z) = Len(a) + Len(c) /\ DOMAIN z = 1..(Len(a) + Len(c))
      /\ \A k \in 1..Len(a) : z[k] = a[k]
      /\ \A m \in 1..Len(c) : z[Len(a) + m] = c[m]
  <2>1. a \in Seq(V) /\ c \in Seq(V) BY <1>6, <1>7
  <2> QED BY <1>4, <2>1
<1>9. Len(z) = n - 1 /\ DOMAIN z = 1..(n - 1) BY <1>2, <1>6, <1>7, <1>8
<1>10. ASSUME NEW k \in 1..(n - 1)
      PROVE  Stood(k, i) \in 1..n /\ Stood(k, i) # i /\ z[k] = s[Stood(k, i)]
  <2>1. CASE k < i
    <3>1. k \in 1..(i - 1) BY <1>2, <2>1
    <3>2. z[k] = a[k] BY <1>6, <1>8, <3>1
    <3> QED BY <1>2, <1>6, <2>1, <3>1, <3>2 DEF Stood
  <2>2. CASE ~ (k < i)
    <3>1. PICK m : m = k - (i - 1) OBVIOUS
    <3>2. m \in 1..(n - i) /\ k = (i - 1) + m /\ i + m = k + 1 BY <1>2, <2>2, <3>1
    <3>3. z[k] = c[m]
      <4>1. m \in 1..Len(c) /\ Len(a) + m = k BY <1>6, <1>7, <3>2
      <4>2. z[Len(a) + m] = c[m] BY <1>8, <4>1
      <4> QED BY <4>1, <4>2
    <3>4. z[k] = s[k + 1] BY <1>7, <3>2, <3>3
    <3> QED BY <1>2, <2>2, <3>2, <3>4 DEF Stood
  <2> QED BY <2>1, <2>2
<1>11. ASSUME NEW j \in 1..n, j # i PROVE \E k \in 1..(n - 1) : Stood(k, i) = j
  <2>1. CASE j < i
    <3>1. j \in 1..(n - 1) /\ Stood(j, i) = j BY <1>2, <2>1 DEF Stood
    <3> QED BY <3>1
  <2>2. CASE j > i
    <3>1. PICK k : k = j - 1 OBVIOUS
    <3>2. k \in 1..(n - 1) /\ Stood(k, i) = j BY <1>2, <2>2, <3>1 DEF Stood
    <3> QED BY <3>2
  <2> QED BY <1>2, <1>11, <2>1, <2>2
<1>12. \A k, j \in 1..(n - 1) : k < j => Stood(k, i) < Stood(j, i) BY <1>2 DEF Stood
<1> QED BY <1>2, <1>9, <1>10, <1>11, <1>12

LEMMA KeptArchive ==
  ASSUME SpillInv, SpillInv', BestUpdated, KeptInv, scenario.faults = {}, NEW i \in DOMAIN staged, Archive(i)
  PROVE  KeptInv'
<1>1. /\ UNCHANGED <<db, live, dlq, ledger, epoch, untracked, retired, dead, unnoted, sealed, boot, writer>>
      /\ UNCHANGED <<channel, ring, queue, todo, escalation_finished, run_len>>
      /\ writer.at = "idle" /\ staged[i].state = "awaiting" /\ staged' = RemoveAt(staged, i)
      /\ exposed' = exposed \cup Outlived(i)
  BY DEF Archive, Idle, memory, index, lineage
<1>2. PICK z : z = staged' OBVIOUS
<1>3. DOMAIN staged \subseteq Nat
  <2>1. \A j \in DOMAIN staged : j \in Nat BY StagedFacts
  <2> QED BY <2>1
<1>4. /\ \A k \in DOMAIN z : Stood(k, i) \in DOMAIN staged /\ Stood(k, i) # i /\ z[k] = staged[Stood(k, i)]
      /\ \A j \in DOMAIN staged : j # i => \E k \in DOMAIN z : Stood(k, i) = j
      /\ \A k, j \in DOMAIN z : k < j => Stood(k, i) < Stood(j, i)
  <2>1. PICK G, s : G = StagedFile(SealsUpTo(sealed)) /\ s = staged OBVIOUS
  <2>2. s \in Seq(G) /\ i \in DOMAIN s /\ z = RemoveAt(s, i) BY <1>1, <1>2, <2>1 DEF SpillInv, Base, Records
  <2>3. /\ \A k \in DOMAIN z : Stood(k, i) \in DOMAIN s /\ Stood(k, i) # i /\ z[k] = s[Stood(k, i)]
        /\ \A j \in DOMAIN s : j # i => \E k \in DOMAIN z : Stood(k, i) = j
        /\ \A k, j \in DOMAIN z : k < j => Stood(k, i) < Stood(j, i)
    BY <2>2, OneRemoved
  <2> QED BY <2>1, <2>3
<1>5. \A j \in DOMAIN staged : j # i => \E k \in DOMAIN z : z[k] = staged[j] BY <1>4
<1>6. OnDisk' \subseteq OnDisk
  <2>1. ASSUME NEW s \in OnDisk' PROVE s \in OnDisk BY <1>1, <1>2, <1>4, WhereOnDisk
  <2> QED BY <2>1
<1>7. best' = best BY <1>1, <1>6, BestSame
<1>8. Unfaulted'
  <2>1. \A k \in DOMAIN z : z[k].kind = "spill" /\ z[k].state \in {"ready", "awaiting"}
    BY <1>4 DEF KeptInv, Unfaulted
  <2>2. ASSUME NEW k \in DOMAIN z, NEW j \in DOMAIN z, k < j
        PROVE  (z[j].state = "awaiting" => z[k].state = "awaiting") /\ (z[k].state = "ready" => z[j].offset = 0)
    <3>1. PICK x, y : x = Stood(k, i) /\ y = Stood(j, i) OBVIOUS
    <3>2. x \in DOMAIN staged /\ y \in DOMAIN staged /\ x < y /\ z[k] = staged[x] /\ z[j] = staged[y]
      BY <1>4, <2>2, <3>1
    <3> QED BY <3>2 DEF KeptInv, Unfaulted
  <2> QED BY <1>1, <1>2, <2>1, <2>2 DEF KeptInv, Unfaulted
<1>9. Booting' /\ InRead' BY <1>1 DEF Booting, InRead
<1>10. Current' BY <1>1 DEF KeptInv, Current, Held
<1>11. Onward' BY <1>1 DEF KeptInv, Onward
<1>12. Escalated'
  <2>1. LikeLedger(ledger, ledger') BY <1>1 DEF LikeLedger
  <2> QED BY <1>1, <1>7, <2>1, EscalatedIdle
<1>13. ASSUME NEW b \in Bars \ exposed' PROVE BarInv(b)'
  <2>1. BarInv(b) BY <1>1 DEF KeptInv
  <2>2. BestOf(b)' = BestOf(b) BY <1>7 DEF BestOf
  <2>3. Arranged(b)'
    <3>1. \A k \in DOMAIN z : Rising(z[k].records, b) /\ Below(z[k].records, live, b)
      BY <1>4, <2>1 DEF BarInv, Arranged
    <3>2. ASSUME NEW k \in DOMAIN z, NEW j \in DOMAIN z, k < j PROVE Below(z[k].records, z[j].records, b)
      <4>1. PICK x, y : x = Stood(k, i) /\ y = Stood(j, i) OBVIOUS
      <4>2. x \in DOMAIN staged /\ y \in DOMAIN staged /\ x < y /\ z[k] = staged[x] /\ z[j] = staged[y]
        BY <1>4, <3>2, <4>1
      <4> QED BY <2>1, <4>2 DEF BarInv, Arranged
    <3> QED BY <1>1, <1>2, <2>1, <3>1, <3>2 DEF BarInv, Arranged
  <2>4. OnFile(b)' => OnFile(b) BY <1>6 DEF OnFile
  <2>5. Known(b)' BY <1>1, <2>1, <2>4 DEF BarInv, Known
  <2>6. Bounded(b)' BY <1>1, <1>6, <2>1 DEF BarInv, Bounded
  <2>7. Reading(b)' BY <1>1 DEF Reading
  <2>8. Stored(b)' BY <1>1, <2>1 DEF BarInv, Stored, Busy
  <2>9. Reachable(b)'
    <3>1. PICK y : y = BestOf(b) OBVIOUS
    <3>2. ASSUME Unread(y) PROVE Unread(y)'
      <4>1. CASE y \in ToSet(live) BY <1>1, <4>1 DEF Unread
      <4>2. CASE y \notin ToSet(live)
        <5>1. PICK j \in DOMAIN staged : /\ staged[j].state = "ready"
                                         /\ \E p \in DOMAIN staged[j].records : p > staged[j].offset /\ staged[j].records[p] = y
          BY <3>2, <4>2 DEF Unread
        <5>2. j # i BY <1>1, <5>1
        <5>3. PICK k \in DOMAIN z : z[k] = staged[j] BY <1>5, <5>2
        <5> QED BY <1>2, <5>1, <5>3 DEF Unread
      <4> QED BY <4>1, <4>2
    <3> QED BY <1>1, <1>7, <2>1, <2>2, <3>1, <3>2 DEF BarInv, Reachable
  <2>10. Backed(b)'
    <3> SUFFICES ASSUME OnFile(b)' PROVE BestOf(b) \in OnDisk' BY <2>2 DEF Backed
    <3>1. PICK y : y = BestOf(b) OBVIOUS
    <3>2. y \in OnDisk /\ y.bar = b /\ y.copy = best[b] /\ best[b] \in Nat
      <4>1. ~Pending(b) BY <1>1 DEF Pending
      <4> QED BY <2>1, <2>4, <3>1, <4>1, HeldSeals DEF BarInv, Backed, BestOf
    <3>3. CASE \E j \in DOMAIN staged : j # i /\ y \in ToSet(staged[j].records)
      <4>1. PICK j \in DOMAIN staged : j # i /\ y \in ToSet(staged[j].records) BY <3>3
      <4>2. PICK k \in DOMAIN z : z[k] = staged[j] BY <1>5, <4>1
      <4> QED BY <1>2, <3>1, <4>1, <4>2, WhereOnDisk
    <3>4. CASE y \in ToSet(live) \cup ToSet(dlq) BY <1>1, <3>1, <3>4, WhereOnDisk
    <3>5. CASE y \in ToSet(staged[i].records)
      <4>1. PICK x \in OnDisk' : x.bar = b BY DEF OnFile
      <4>2. x \in OnDisk /\ x \in Seal BY <1>6, BestSource
      <4>3. x.copy \in Nat /\ x.copy <= best[b] BY <4>1, <4>2, SealFacts DEF SpillInv, Reached
      <4>4. y.copy <= x.copy
        <5>1. CASE x \in ToSet(live) BY <1>1, <2>1, <3>2, <3>5, <4>1, <5>1 DEF BarInv, Arranged, Below
        <5>2. CASE \E k \in DOMAIN z : x \in ToSet(z[k].records)
          <6>1. PICK k \in DOMAIN z : x \in ToSet(z[k].records) BY <5>2
          <6>2. PICK j : j = Stood(k, i) OBVIOUS
          <6>3. j \in DOMAIN staged /\ j # i /\ x \in ToSet(staged[j].records) BY <1>4, <6>1, <6>2
          <6>4. CASE i < j BY <2>1, <3>2, <3>5, <4>1, <6>3, <6>4 DEF BarInv, Arranged, Below
          <6>5. CASE j < i
            <7>1. j \in 1..(i - 1)
              <8>1. DOMAIN staged = 1..Len(staged) /\ Len(staged) \in Nat BY DEF SpillInv, Base, Records
              <8> QED BY <6>3, <6>5, <8>1
            <7>2. x.copy < y.copy => y.bar \in Outlived(i) BY <3>2, <3>5, <4>1, <6>3, <7>1 DEF Outlived
            <7> QED BY <1>1, <3>2, <4>3, <7>2
          <6> QED BY <1>3, <6>3, <6>4, <6>5
        <5>3. x \notin ToSet(dlq) BY SetOfSeq DEF KeptInv, Unfaulted
        <5> QED BY <1>1, <1>2, <4>1, <5>1, <5>2, <5>3, WhereOnDisk
      <4>5. x.copy = best[b] BY <3>2, <4>3, <4>4
      <4>6. x = BestOf(b) BY <4>1, <4>2, <4>5, SealFacts DEF BestOf
      <4> QED BY <4>1, <4>6
    <3> QED BY <3>2, <3>3, <3>4, <3>5, WhereOnDisk
  <2> QED BY <2>3, <2>5, <2>6, <2>7, <2>8, <2>9, <2>10 DEF BarInv
<1> QED BY <1>8, <1>9, <1>10, <1>11, <1>12, <1>13 DEF KeptInv

LEMMA KeptForget ==
  ASSUME SpillInv, SpillInv', BestUpdated, KeptInv, Forget
  PROVE  KeptInv'
<1>1. /\ UNCHANGED <<db, live, dlq, staged, epoch, untracked, retired, exposed, dead, unnoted, sealed, boot, writer>>
      /\ UNCHANGED <<channel, ring, queue, todo, escalation_finished, run_len>>
      /\ writer.at = "idle" /\ ledger' = forget_replayed(ledger, staged_through)
      /\ \A i \in DOMAIN staged : staged[i].kind = "dlq"
  BY DEF Forget, MayReplay, Idle, memory, disk, ghosts, lineage
<1>2. OnDisk' = OnDisk BY <1>1 DEF OnDisk
<1>3. best' = best BY <1>1, <1>2, BestSame
<1>4. OnDisk = ToSet(live)
  <2>1. DOMAIN staged = {} BY <1>1 DEF KeptInv, Unfaulted
  <2>2. ToSet(dlq) = {} BY SetOfSeq DEF KeptInv, Unfaulted
  <2>3. \A s : s \in OnDisk <=> s \in ToSet(live) BY <2>1, <2>2, WhereOnDisk
  <2> QED BY <2>3
<1>5. IsLedger(ledger) BY DEF SpillInv, Claims
<1>6. epoch \in Nat /\ staged_through \in Nat /\ staged_through < epoch BY DEF SpillInv, Base, Indexed
<1>7. /\ ledger'.dead_letter_max_bucket = ledger.dead_letter_max_bucket
      /\ DOMAIN ledger'.bars \subseteq DOMAIN ledger.bars
      /\ \A b \in DOMAIN ledger'.bars : ledger'.bars[b] = ledger.bars[b]
      /\ \A b \in DOMAIN ledger.bars \ DOMAIN ledger'.bars :
            /\ ledger.bars[b].disk = 0 \/ ledger.bars[b].disk_epoch <= staged_through
            /\ has_passed(ledger.bars[b].queue_mark)
      /\ \/ ledger'.active = ledger.active /\ ledger'.disk_epoch = ledger.disk_epoch
         \/ ledger.disk_epoch <= staged_through
  <2>1. PICK m : m = ledger' OBVIOUS
  <2>2. m = forget_replayed(ledger, staged_through) BY <1>1, <2>1
  <2> QED BY <1>5, <2>1, <2>2, ForgetFacts
<1>8. \A b \in DOMAIN ledger.bars : /\ ledger.bars[b].disk \in Nat /\ ledger.bars[b].disk_epoch \in Nat
                                    /\ ledger.bars[b].queue_mark \in Nat
  <2>1. \A b \in DOMAIN ledger.bars : ledger.bars[b] \in SealEntry BY <1>5 DEF IsLedger
  <2> QED BY <2>1, EntryNumbers
<1>9. Unfaulted' BY <1>1, <1>7 DEF KeptInv, Unfaulted
<1>10. Booting' /\ InRead' BY <1>1 DEF Booting, InRead
<1>11. Current' BY <1>1 DEF KeptInv, Current, Held
<1>12. Onward' BY <1>1 DEF KeptInv, Onward
<1>13. Escalated'
  <2>1. PICK q, base, run, r : q = queue /\ base = escalation_finished /\ run = run_len /\ r = todo["escalation"] OBVIOUS
  <2>2. /\ Len(q) \in Nat /\ run \in Nat /\ base \in Nat /\ escalation_pending = Len(q) + run
        /\ run = 0 => r = <<>>
    <3>1. queue \in Seq(Seal) BY HeldSeals
    <3>2. Len(q) \in Nat BY <2>1, <3>1
    <3> QED BY <2>1, <3>2 DEF SpillInv, Base, Counters
  <2>3. ASSUME NEW s, NEW mark \in Nat, Refused(s, mark), mark > base, escalation_pending # 0 PROVE Refused(s, mark)'
    <3> SUFFICES ASSUME s.bar \notin exposed, s.copy < best[s.bar]
                 PROVE  \/ s.bar \in untracked
                        \/ /\ Tracked(ledger', s.bar) /\ s.copy < fullest(ledger'.bars[s.bar])
                           /\ ledger'.bars[s.bar].queue_mark >= mark
      BY <1>1, <1>3 DEF Refused
    <3>1. ~Pending(s.bar) BY <1>1 DEF Pending
    <3>2. CASE s.bar \in untracked BY <3>2
    <3>3. CASE /\ Tracked(ledger, s.bar) /\ s.copy < fullest(ledger.bars[s.bar])
               /\ ledger.bars[s.bar].queue_mark >= mark
      <4>1. s.bar \in DOMAIN ledger.bars BY <3>3 DEF Tracked
      <4>2. ~has_passed(ledger.bars[s.bar].queue_mark) BY <1>8, <2>1, <2>2, <2>3, <3>3, <4>1 DEF has_passed
      <4>3. s.bar \in DOMAIN ledger'.bars BY <1>7, <4>1, <4>2
      <4> QED BY <1>7, <3>3, <4>3 DEF Tracked
    <3> QED BY <2>3, <3>1, <3>2, <3>3 DEF Refused
  <2>4. ASSUME NEW i \in DOMAIN q PROVE Refused(q[i], base + run + i)'
    <3>1. Refused(q[i], base + run + i) BY <2>1 DEF KeptInv, Escalated
    <3>2. i \in 1..Len(q) BY <2>1, HeldSeals
    <3>3. base + run + i \in Nat /\ base + run + i > base /\ escalation_pending # 0 BY <2>2, <3>2
    <3> QED BY <2>3, <3>1, <3>3
  <2>5. ASSUME NEW s \in ToSet(r) PROVE Refused(s, base + 1)'
    <3>1. Refused(s, base + 1) BY <2>1 DEF KeptInv, Escalated
    <3>2. r # <<>> BY SetOfSeq
    <3>3. base + 1 \in Nat /\ base + 1 > base /\ escalation_pending # 0 BY <2>2, <3>2
    <3> QED BY <2>3, <3>1, <3>3
  <2> QED BY <1>1, <2>1, <2>4, <2>5 DEF Escalated
<1>14. ASSUME NEW b \in Bars \ exposed PROVE BarInv(b)'
  <2>1. BarInv(b) BY DEF KeptInv
  <2>2. BestOf(b)' = BestOf(b) BY <1>3 DEF BestOf
  <2>3. Arranged(b)' BY <1>1, <2>1 DEF BarInv, Arranged
  <2>4. Bounded(b)' BY <1>2, <1>7, <2>1 DEF BarInv, Bounded, Tracked
  <2>5. ~Pending(b) BY <1>1 DEF Pending
  <2>6. Backed(b)' BY <1>2, <2>1, <2>2, <2>5 DEF BarInv, Backed, OnFile
  <2>7. Reading(b)' BY <1>1 DEF Reading
  <2>8. Stored(b)' BY <1>1, <1>7, <2>1 DEF BarInv, Stored, Busy, Tracked
  <2>9. Reachable(b)'
    <3>1. PICK y : y = BestOf(b) OBVIOUS
    <3>2. Unread(y) => Unread(y)' BY <1>1 DEF Unread
    <3> QED BY <1>1, <1>3, <2>1, <2>2, <3>1, <3>2 DEF BarInv, Reachable
  <2>10. Known(b)'
    <3> SUFFICES ASSUME b \notin retired, OnFile(b)
                 PROVE  /\ \/ Tracked(ledger', b) /\ ledger'.bars[b].disk_epoch >= epoch
                           \/ b \in untracked /\ ledger'.active /\ ledger'.disk_epoch >= epoch
      <4>1. OnFile(b)' <=> OnFile(b) BY <1>2 DEF OnFile
      <4>2. b \in BarsOf(live) <=> OnFile(b) BY <1>4 DEF OnFile, BarsOf
      <4> QED BY <1>1, <4>1, <4>2 DEF Known
    <3>1. b \in BarsOf(live) BY <1>4 DEF OnFile, BarsOf
    <3>2. PICK x \in OnDisk : x.bar = b BY DEF OnFile
    <3>3. x.copy \in Nat /\ x.copy > 0
      <4>1. x \in Seal BY BestSource
      <4> QED BY <4>1, SealFacts
    <3>4. CASE Tracked(ledger, b) /\ ledger.bars[b].disk_epoch >= epoch
      <4>1. b \in DOMAIN ledger.bars /\ x.copy <= ledger.bars[b].disk BY <2>1, <3>2, <3>4 DEF BarInv, Bounded, Tracked
      <4>2. ~ (ledger.bars[b].disk = 0 \/ ledger.bars[b].disk_epoch <= staged_through) BY <1>6, <1>8, <3>3, <3>4, <4>1
      <4>3. b \in DOMAIN ledger'.bars BY <1>7, <4>1, <4>2
      <4> QED BY <1>7, <3>4, <4>3 DEF Tracked
    <3>5. CASE b \in untracked /\ ledger.active /\ ledger.disk_epoch >= epoch
      <4>1. ledger.disk_epoch \in Nat BY <1>5 DEF IsLedger
      <4>2. ~ (ledger.disk_epoch <= staged_through) BY <1>6, <3>5, <4>1
      <4>3. ledger'.active = ledger.active /\ ledger'.disk_epoch = ledger.disk_epoch BY <1>7, <4>2
      <4> QED BY <3>5, <4>3, Zenon
    <3> QED BY <2>1, <3>1, <3>4, <3>5 DEF BarInv, Known
  <2> QED BY <2>3, <2>4, <2>6, <2>7, <2>8, <2>9, <2>10 DEF BarInv
<1> QED BY <1>1, <1>9, <1>10, <1>11, <1>12, <1>13, <1>14 DEF KeptInv

-----------------------------------------------------------------------------
(* Crash, and the boot drain.                                              *)

LEMMA EmptyOfSet ==
  ASSUME NEW V, NEW s \in Seq(V), ToSet(s) = {}
  PROVE  s = <<>>
<1>1. PICK n : n = Len(s) OBVIOUS
<1>2. n \in Nat /\ DOMAIN s = 1..n BY <1>1
<1>3. 1 \notin DOMAIN s BY DEF ToSet
<1>4. n = 0 BY <1>2, <1>3
<1>5. Len(s) = 0 BY <1>1, <1>4
<1> QED BY <1>5, EmptySeq

\* The files of the next process are those of this one, with the live file last.
InLine(F, b) ==
  /\ \A i \in DOMAIN F : Rising(F[i].records, b)
  /\ \A i, j \in DOMAIN F : i < j => Below(F[i].records, F[j].records, b)

LEMMA BootFilesInLine ==
  ASSUME SpillInv, Unfaulted
  PROVE  /\ \A i \in DOMAIN BootFiles : BootFiles[i].kind = "spill"
         /\ \A b : Arranged(b) => InLine(BootFiles, b)
<1>1. PICK G, V : G = SealsUpTo(sealed) /\ V = StagedFile(SealsUpTo(sealed)) OBVIOUS
<1>2. staged \in Seq(V) /\ live \in Seq(G) /\ dlq = <<>> BY <1>1 DEF SpillInv, Base, Records, Unfaulted
<1>3. PICK A, B, C, D, x : A = OfKind("spill") /\ B = NewFile("spill", live) /\ C = OfKind("dlq") /\ D = NewFile("dlq", dlq) /\ x = File("spill", live, FALSE) OBVIOUS
<1>4. \A f \in ToSet(staged) : f.kind = "spill" BY DEF Unfaulted, ToSet
<1>5. /\ A \in Seq(V) /\ ToSet(A) \subseteq ToSet(staged)
      /\ \A i, j \in DOMAIN A : i < j => \E p, q \in DOMAIN staged : p < q /\ A[i] = staged[p] /\ A[j] = staged[q]
  <2>1. PICK k : k = "spill" OBVIOUS
  <2>2. A = OfKind(k) BY <1>3, <2>1
  <2>3. /\ A \in Seq(V) /\ ToSet(A) = {f \in ToSet(staged) : f.kind = k}
        /\ \A i, j \in DOMAIN A : i < j => \E p, q \in DOMAIN staged : p < q /\ A[i] = staged[p] /\ A[j] = staged[q]
    BY <1>2, <2>2, OfKindFacts
  <2> QED BY <2>3
<1>6. C = <<>>
  <2>1. PICK k : k = "dlq" OBVIOUS
  <2>2. C = OfKind(k) BY <1>3, <2>1
  <2>3. C \in Seq(V) /\ ToSet(C) = {f \in ToSet(staged) : f.kind = k} BY <1>2, <2>2, OfKindFacts
  <2>4. ToSet(C) = {} BY <1>4, <2>1, <2>3
  <2> QED BY <2>3, <2>4, EmptyOfSet
<1>7. D = <<>> BY <1>2, <1>3 DEF NewFile, Empty
<1>8. B = <<>> \/ B = <<x>> BY <1>3 DEF NewFile
<1>9. x.kind = "spill" /\ x.records = live BY <1>3 DEF File
<1>10. B \in Seq(V)
  <2>1. x \in V
    <3>1. PICK k, no : k = "spill" /\ no = FALSE OBVIOUS
    <3>2. File(k, live, no) \in StagedFile(G) BY <1>2, <3>1, FileFacts
    <3> QED BY <1>1, <1>3, <3>1, <3>2
  <2> QED BY <1>8, <2>1, SetOfSeq
<1>11. PICK F : F = BootFiles OBVIOUS
<1>12. F = A \o B
  <2>1. F = ((A \o B) \o C) \o D BY <1>3, <1>11 DEF BootFiles
  <2>2. A \o B \in Seq(V) BY <1>5, <1>10
  <2>3. (A \o B) \o <<>> = A \o B BY <2>2
  <2> QED BY <1>6, <1>7, <2>1, <2>3
<1>13. PICK k : k = Len(A) OBVIOUS
<1>14. /\ k \in Nat /\ DOMAIN A = 1..k /\ DOMAIN A \subseteq DOMAIN F /\ DOMAIN F \subseteq 1..(k + 1)
       /\ \A i \in DOMAIN A : F[i] = A[i]
       /\ k + 1 \in DOMAIN F => F[k + 1] = x
  <2>1. k \in Nat /\ DOMAIN A = 1..k BY <1>5, <1>13
  <2>2. CASE B = <<>>
    <3>1. F = A BY <1>5, <1>12, <2>2
    <3> QED BY <2>1, <3>1
  <2>3. CASE B = <<x>>
    <3>1. DOMAIN F = 1..(k + 1) /\ (\A i \in 1..k : F[i] = A[i]) /\ F[k + 1] = x BY <1>5, <1>12, <1>13, <2>1, <2>3
    <3> QED BY <2>1, <3>1
  <2> QED BY <1>8, <2>2, <2>3
<1>15. \A i \in DOMAIN F : i \in DOMAIN A \/ i = k + 1 BY <1>14
<1>16. \A i \in DOMAIN A : A[i] \in ToSet(staged) BY <1>5 DEF ToSet
<1>17. \A i \in DOMAIN F : F[i].kind = "spill" BY <1>4, <1>9, <1>14, <1>15, <1>16
<1>18. ASSUME NEW b, Arranged(b) PROVE InLine(F, b)
  <2>1. \A f \in ToSet(staged) : Rising(f.records, b) /\ Below(f.records, live, b) BY <1>18 DEF Arranged, ToSet
  <2>2. Rising(live, b) BY <1>18 DEF Arranged
  <2>3. \A i \in DOMAIN F : Rising(F[i].records, b) BY <1>9, <1>14, <1>15, <1>16, <2>1, <2>2
  <2>4. ASSUME NEW i \in DOMAIN F, NEW j \in DOMAIN F, i < j PROVE Below(F[i].records, F[j].records, b)
    <3>1. i \in DOMAIN A BY <1>14, <1>15, <2>4
    <3>2. CASE j \in DOMAIN A
      <4>1. PICK p \in DOMAIN staged, q \in DOMAIN staged : p < q /\ A[i] = staged[p] /\ A[j] = staged[q]
        BY <1>5, <2>4, <3>1, <3>2
      <4>2. Below(staged[p].records, staged[q].records, b) BY <1>18, <4>1 DEF Arranged
      <4> QED BY <1>14, <3>1, <3>2, <4>1, <4>2
    <3>3. CASE j = k + 1
      <4>1. F[j] = x BY <1>14, <3>3
      <4>2. F[i] = A[i] /\ A[i] \in ToSet(staged) BY <1>14, <1>16, <3>1
      <4> QED BY <1>9, <2>1, <4>1, <4>2
    <3> QED BY <1>15, <3>2, <3>3
  <2> QED BY <2>3, <2>4 DEF InLine
<1> QED BY <1>11, <1>17, <1>18

\* A crash: the next process finds every record on disk, and reads them all.
LEMMA CrashDisk ==
  ASSUME SpillInv, Unfaulted, Crash
  PROVE  /\ OnDisk' = OnDisk /\ DOMAIN staged' = DOMAIN BootFiles
         /\ \A i \in DOMAIN staged' : /\ staged'[i].records = BootFiles[i].records /\ staged'[i].kind = "spill"
                                      /\ staged'[i].offset = 0 /\ staged'[i].state = "ready"
         /\ live' = <<>> /\ ToSet(live') = {} /\ dlq' = <<>>
         /\ \A s \in OnDisk : Unread(s)'
<1>1. PICK G : G = SealsUpTo(sealed) OBVIOUS
<1>2. live \in Seq(G) /\ dlq \in Seq(G) /\ staged \in Seq(StagedFile(G)) BY <1>1 DEF SpillInv, Base, Records
<1>3. /\ staged' \in Seq(StagedFile(G)) /\ DOMAIN staged' = DOMAIN BootFiles
      /\ \A i \in DOMAIN staged' : staged'[i] = File(BootFiles[i].kind, BootFiles[i].records, FALSE)
      /\ UNION {ToSet(staged'[i].records) : i \in DOMAIN staged'} = OnDisk
  BY <1>2, CrashFiles
<1>4. \A i \in DOMAIN BootFiles : BootFiles[i].kind = "spill" BY BootFilesInLine
<1>5. \A i \in DOMAIN staged' : /\ staged'[i].records = BootFiles[i].records /\ staged'[i].kind = "spill"
                                /\ staged'[i].offset = 0 /\ staged'[i].state = "ready"
  BY <1>3, <1>4 DEF File
<1>6. live' = <<>> /\ dlq' = <<>> BY DEF Crash
<1>7. ToSet(live') = {} /\ ToSet(dlq') = {} BY <1>6, SetOfSeq
<1>8. OnDisk' = OnDisk BY <1>3, <1>7 DEF OnDisk
<1>9. ASSUME NEW s \in OnDisk PROVE Unread(s)'
  <2>1. PICK i \in DOMAIN staged' : s \in ToSet(staged'[i].records) BY <1>3
  <2>2. PICK n \in DOMAIN staged'[i].records : staged'[i].records[n] = s BY <2>1 DEF ToSet
  <2>3. staged'[i].records \in Seq(G) BY <1>3, <2>1 DEF StagedFile
  <2>4. n > 0 BY <2>2, <2>3
  <2>5. n > staged'[i].offset /\ staged'[i].state = "ready" BY <1>5, <2>4
  <2> QED BY <2>2, <2>5 DEF Unread
<1> QED BY <1>3, <1>5, <1>6, <1>7, <1>8, <1>9

LEMMA KeptCrash ==
  ASSUME SpillInv, SpillInv', BestUpdated, KeptInv, Crash
  PROVE  KeptInv'
<1>1. Unfaulted BY DEF KeptInv
<1>2. /\ OnDisk' = OnDisk /\ DOMAIN staged' = DOMAIN BootFiles
      /\ \A i \in DOMAIN staged' : /\ staged'[i].records = BootFiles[i].records /\ staged'[i].kind = "spill"
                                   /\ staged'[i].offset = 0 /\ staged'[i].state = "ready"
      /\ live' = <<>> /\ ToSet(live') = {} /\ dlq' = <<>>
      /\ \A s \in OnDisk : Unread(s)'
  BY <1>1, CrashDisk
<1>3. /\ db' = db /\ retired' = {b \in Bars : sealed[b] > 0} /\ channel' = <<>> /\ ring' = <<>> /\ queue' = <<>>
      /\ \A t \in Threads : todo'[t] = <<>> /\ dead'[t] = <<>>
      /\ unnoted' = {} /\ ledger' = EmptyLedger /\ boot'.next = 1 /\ writer'.at = "boot"
      /\ exposed \subseteq exposed'
  BY DEF Crash
<1>4. writer.at \in {"committed", "noting"} => BarsOf(writer.batch) \subseteq exposed' BY DEF Crash
<1>5. DOMAIN ledger'.bars = {} /\ ledger'.dead_letter_max_bucket = 0 BY <1>3 DEF EmptyLedger
<1>6. ToSet(channel') = {} /\ ToSet(ring') = {} /\ ToSet(queue') = {}
      /\ \A t \in Threads : ToSet(todo'[t]) = {} /\ ToSet(dead'[t]) = {}
  BY <1>3, SetOfSeq
<1>7. best' = best BY <1>2, <1>3, BestSame
<1>8. Unfaulted'
  <2>1. \A t \in Threads : dead'[t] = <<>> BY <1>3
  <2>2. \A i \in DOMAIN staged' : staged'[i].kind = "spill" /\ staged'[i].state \in {"ready", "awaiting"} BY <1>2
  <2>3. \A i, j \in DOMAIN staged' : i < j /\ staged'[j].state = "awaiting" => staged'[i].state = "awaiting" BY <1>2
  <2>4. \A i, j \in DOMAIN staged' : i < j /\ staged'[i].state = "ready" => staged'[j].offset = 0 BY <1>2
  <2> QED BY <1>2, <1>3, <1>5, <2>1, <2>2, <2>3, <2>4 DEF Unfaulted
<1>9. Booting'
  <2>1. staged' \in Seq(StagedFile(SealsUpTo(sealed'))) BY DEF SpillInv, Base, Records
  <2>2. \A i \in DOMAIN staged' : i \in Nat /\ ~ (i < 1) BY <2>1
  <2>3. \A i \in DOMAIN staged' : staged'[i].state = "awaiting" <=> i < boot'.next BY <1>2, <1>3, <2>2
  <2>4. \A t \in Threads : todo'[t] = <<>> BY <1>3
  <2> QED BY <1>2, <1>3, <1>5, <2>3, <2>4 DEF Booting
<1>10. Current'
  <2>1. Held' = {} BY <1>6 DEF Held
  <2> QED BY <1>3, <2>1 DEF Current
<1>11. Onward'
  <2>1. "writer" \in Threads /\ "producer" \in Threads /\ "escalation" \in Threads BY DEF Threads
  <2>2. Ascending(queue') /\ Ascending(todo'["escalation"]) BY <1>3, <2>1 DEF Ascending
  <2>3. Precede(todo'["escalation"], queue') BY <1>6 DEF Precede
  <2> QED BY <1>6, <2>1, <2>2, <2>3 DEF Onward
<1>12. Escalated'
  <2>1. "escalation" \in Threads BY DEF Threads
  <2>2. DOMAIN queue' = {} BY <1>3
  <2> QED BY <1>6, <2>1, <2>2 DEF Escalated
<1>13. InRead' BY <1>3 DEF InRead
<1>14. ASSUME NEW b \in Bars \ exposed' PROVE BarInv(b)'
  <2>1. BarInv(b) BY <1>3 DEF KeptInv
  <2>2. BestOf(b)' = BestOf(b) BY <1>7 DEF BestOf
  <2>3. ~Pending(b)
    <3>1. BestOf(b).bar = b BY DEF BestOf
    <3> QED BY <1>4, <3>1 DEF Pending, BarsOf
  <2>4. Arranged(b)'
    <3>1. Arranged(b) BY <2>1 DEF BarInv
    <3>2. InLine(BootFiles, b) BY <1>1, <3>1, BootFilesInLine
    <3>3. \A i \in DOMAIN staged' : Rising(staged'[i].records, b) BY <1>2, <3>2 DEF InLine
    <3>4. \A i \in DOMAIN staged' : Below(staged'[i].records, live', b) BY <1>2 DEF Below
    <3>5. \A i, j \in DOMAIN staged' : i < j => Below(staged'[i].records, staged'[j].records, b)
      BY <1>2, <3>2 DEF InLine
    <3>6. Rising(live', b) BY <1>2 DEF Rising
    <3> QED BY <3>3, <3>4, <3>5, <3>6 DEF Arranged
  <2>5. Reachable(b)'
    <3>1. PICK s : s = BestOf(b) OBVIOUS
    <3>2. CASE db[b] = best[b] BY <1>3, <1>7, <3>2 DEF Reachable
    <3>3. CASE Unread(s)
      <4>1. s \in OnDisk BY <3>3, UnreadOnDisk
      <4>2. Unread(s)' BY <1>2, <4>1
      <4> QED BY <2>2, <3>1, <4>2 DEF Reachable
    <3> QED BY <2>1, <3>1, <3>2, <3>3 DEF BarInv, Reachable
  <2>6. Backed(b)' BY <1>2, <2>1, <2>2, <2>3 DEF BarInv, Backed, OnFile
  <2>7. Known(b)'
    <3> SUFFICES ASSUME b \notin retired' PROVE ~OnFile(b)' /\ b \notin BarsOf(live')
      BY DEF Known
    <3>1. ~ (sealed[b] > 0) BY <1>3
    <3>2. sealed \in [Bars -> Copy] BY DEF SpillInv, Base, Tables
    <3>3. OnDisk \subseteq SealsUpTo(sealed) BY OnDiskFacts DEF SpillInv, Base, Records
    <3>4. ASSUME NEW s \in OnDisk, s.bar = b PROVE FALSE
      <4>1. s.copy <= sealed[s.bar] /\ s \in Seal BY <3>2, <3>3, <3>4, SealsUpToFacts
      <4>2. s.copy \in 1..MaxCopies /\ sealed[b] \in 0..MaxCopies /\ MaxCopies \in Nat
        BY <3>2, <4>1, SealSpillAssumption DEF Seal, Copy
      <4> QED BY <3>1, <3>4, <4>1, <4>2
    <3> QED BY <1>2, <3>4 DEF OnFile, BarsOf
  <2>8. Bounded(b)' /\ Stored(b)' BY <1>3, <1>5 DEF Bounded, Stored, Tracked, Busy
  <2>9. Reading(b)' BY <1>3 DEF Reading
  <2> QED BY <2>4, <2>5, <2>6, <2>7, <2>8, <2>9 DEF BarInv
<1> QED BY <1>8, <1>9, <1>10, <1>11, <1>12, <1>13, <1>14 DEF KeptInv

\* What the boot drain knows to be written did reach the database or the disk,
\* and it reads every file from its first record.
Drained ==
  /\ \A b \in Bars : summary[b] <= best[b] /\ boot.written[b] <= best[b] /\ boot.committed[b] <= best[b]
  /\ writer.at = "boot" => \A i \in DOMAIN staged : staged[i].offset = 0

LEMMA TableNumbers ==
  ASSUME SpillInv
  PROVE  \A b \in Bars : /\ summary[b] \in Nat /\ boot.written[b] \in Nat /\ boot.committed[b] \in Nat
                         /\ db[b] \in Nat /\ best[b] \in Nat /\ sealed[b] \in Nat
<1>1. summary \in [Bars -> Copy] /\ db \in [Bars -> Copy] /\ sealed \in [Bars -> Copy] /\ best \in [Bars -> Copy]
  BY DEF SpillInv, Base, Tables, Reached
<1>2. boot.written \in [Bars -> Copy] /\ boot.committed \in [Bars -> Copy] BY DEF SpillInv, Base, Tables
<1> QED BY <1>1, <1>2, SealFacts

LEMMA DrainedFrame ==
  ASSUME SpillInv, SpillInv', BestUpdated, Drained, UNCHANGED <<summary, boot>>,
         writer'.at # "boot" \/ (writer' = writer /\ staged' = staged)
  PROVE  Drained'
<1>1. \A b \in Bars : best[b] <= best'[b] /\ best[b] \in Nat /\ best'[b] \in Nat BY BestSource
<1>2. \A b \in Bars : summary[b] \in Nat /\ boot.written[b] \in Nat /\ boot.committed[b] \in Nat BY TableNumbers
<1>3. \A b \in Bars : summary[b] <= best'[b] /\ boot.written[b] <= best'[b] /\ boot.committed[b] <= best'[b]
  BY <1>1, <1>2 DEF Drained
<1>4. writer'.at = "boot" => \A i \in DOMAIN staged' : staged'[i].offset = 0 BY DEF Drained
<1> QED BY <1>3, <1>4 DEF Drained

LEMMA DrainedCrash ==
  ASSUME SpillInv, SpillInv', BestUpdated, Unfaulted, Drained, Crash
  PROVE  Drained'
<1>1. summary' = summary /\ boot'.written = summary /\ boot'.committed = summary BY DEF Crash
<1>2. \A b \in Bars : best[b] <= best'[b] /\ best[b] \in Nat /\ best'[b] \in Nat BY BestSource
<1>3. \A b \in Bars : summary[b] \in Nat BY TableNumbers
<1>4. \A b \in Bars : summary[b] <= best'[b] BY <1>2, <1>3 DEF Drained
<1>5. \A i \in DOMAIN staged' : staged'[i].offset = 0 BY CrashDisk
<1> QED BY <1>1, <1>4, <1>5 DEF Drained

\* A step that writes to the database only what was on disk.
LEMMA BestKept ==
  ASSUME SpillInv, SpillInv', BestUpdated, \A b \in Bars : db'[b] <= best[b], OnDisk' \subseteq OnDisk
  PROVE  best' = best
<1>1. ASSUME NEW b \in Bars PROVE best'[b] = best[b]
  <2>1. /\ best[b] \in Nat /\ best'[b] \in Nat /\ best[b] <= best'[b] /\ db'[b] <= best[b]
        /\ best'[b] = best[b] \/ best'[b] = db'[b] \/ \E s \in OnDisk' : s.bar = b /\ s.copy = best'[b]
        /\ \A s \in OnDisk : s.copy <= best[s.bar]
    BY BestSource
  <2>2. best'[b] <= best[b] BY <2>1
  <2> QED BY <2>1, <2>2
<1>2. best \in [Bars -> Copy] /\ best' \in [Bars -> Copy] BY BestSource
<1> QED BY <1>1, <1>2

InState(files, f, st) == [files EXCEPT ![f].state = st]

LEMMA StateAt ==
  ASSUME SpillInv, NEW f \in DOMAIN staged, NEW st, NEW z, z = InState(staged, f, st)
  PROVE  /\ DOMAIN z = DOMAIN staged /\ \A j \in DOMAIN staged : j # f => z[j] = staged[j]
         /\ z[f].records = staged[f].records /\ z[f].offset = staged[f].offset /\ z[f].state = st /\ z[f].kind = staged[f].kind
         /\ SameRecords(staged, z)
<1>2. PICK g : g = staged[f] OBVIOUS
<1>3. g = [kind |-> g.kind, records |-> g.records, own |-> g.own, offset |-> g.offset, state |-> g.state]
  <2>1. PICK G : G = SealsUpTo(sealed) OBVIOUS
  <2>2. staged \in Seq(StagedFile(G)) BY <2>1 DEF SpillInv, Base, Records
  <2>3. g \in StagedFile(G) BY <1>2, <2>2
  <2> QED BY <2>3 DEF StagedFile
<1>4. PICK h : h = [g EXCEPT !.state = st] OBVIOUS
<1>5. z = [staged EXCEPT ![f] = h] BY <1>2, <1>4 DEF InState
<1>6. h.records = g.records /\ h.offset = g.offset /\ h.state = st /\ h.kind = g.kind BY <1>3, <1>4
<1>7. DOMAIN z = DOMAIN staged /\ z[f] = h /\ \A j \in DOMAIN staged : j # f => z[j] = staged[j] BY <1>5
<1>8. SameRecords(staged, z) BY <1>2, <1>6, <1>7 DEF SameRecords
<1> QED BY <1>2, <1>6, <1>7, <1>8

LEMMA KeptBootEnds ==
  ASSUME SpillInv, SpillInv', BestUpdated, KeptInv, Drained, BootEnds
  PROVE  KeptInv' /\ Drained'
<1>1. /\ UNCHANGED <<db, live, dlq, staged, ledger, epoch, untracked, retired, exposed, dead, unnoted>>
      /\ UNCHANGED <<channel, ring, queue, todo, sealed, escalation_finished, run_len>>
      /\ writer.at = "boot" /\ writer'.at = "idle"
  BY DEF BootEnds, memory, index, ghosts, lineage, Idle
<1>2. writer.at \notin Busy /\ writer'.at \notin Busy BY <1>1 DEF Busy
<1>3. SameDisk /\ SameWriter /\ Unfaulted' /\ InRead' /\ \A x \in Bars \ exposed' : BarInv(x)' BY <1>1, <1>2, MemoryStep
<1>4. Booting' BY <1>1 DEF Booting
<1>5. Current' BY <1>1 DEF KeptInv, Current, Held
<1>6. Onward' BY <1>1 DEF KeptInv, Onward
<1>7. Escalated' BY <1>1, <1>3, EscalatedFrame
<1>8. KeptInv' BY <1>3, <1>4, <1>5, <1>6, <1>7 DEF KeptInv
<1>9. Drained'
  <2>1. \A b \in Bars : best[b] <= best'[b] /\ best[b] \in Nat /\ best'[b] \in Nat BY BestSource
  <2>2. \A b \in Bars : boot.committed[b] \in Nat BY TableNumbers
  <2>3. \A b \in Bars : boot.committed[b] <= best'[b] BY <2>1, <2>2 DEF Drained
  <2>4. PICK none : none = NothingWritten OBVIOUS
  <2>5. \A b \in Bars : none[b] <= best'[b] BY <2>1, <2>4 DEF NothingWritten
  <2>6. summary' = boot.committed \/ summary' = none BY <2>4 DEF BootEnds
  <2>7. boot'.written = none /\ boot'.committed = none BY <2>4 DEF BootEnds
  <2> QED BY <1>1, <2>3, <2>5, <2>6, <2>7 DEF Drained
<1> QED BY <1>8, <1>9

\* What a file of the boot drain makes of the tables.
LEMMA BootTables ==
  ASSUME SpillInv, SpillInv', BestUpdated, KeptInv, Drained, scenario.faults = {}, NEW refused, BootFlushed(refused),
         NEW f, f = boot.next
  PROVE  /\ f \in DOMAIN staged /\ staged' = InState(staged, f, "awaiting")
         /\ f \in Nat /\ boot'.next = f + 1
         /\ \A b \in Bars : /\ db'[b] <= best[b] /\ boot'.written[b] <= best[b] /\ boot'.committed[b] <= best[b]
                            /\ db'[b] = db[b] \/ \E x \in ToSet(staged[f].records) : x.bar = b
                            /\ BestOf(b) \in ToSet(staged[f].records) => db'[b] = best[b]
<1>1. PICK G, a : G = SealsUpTo(sealed) /\ a = Accepted(refused) OBVIOUS
<1>2. PICK w, new : w = DrainInto(boot.written, a) /\ new = DrainInto(db, a) OBVIOUS
<1>3. refused = {} /\ f \in DOMAIN staged BY DEF BootFlushed
<1>4. staged' = InState(staged, f, "awaiting")
  <2>1. PICK st : st = IF refused = {} THEN "awaiting" ELSE "ready" OBVIOUS
  <2>2. staged' = [staged EXCEPT ![f].state = st] BY <2>1, Zenon DEF BootFlushed
  <2>3. staged' = InState(staged, f, st) BY <2>2 DEF InState
  <2> QED BY <1>3, <2>1, <2>3
<1>5. db' = new /\ boot' = [written |-> w, committed |-> w, next |-> boot.next + 1, left |-> TRUE]
  BY <1>1, <1>2, BootFlushedStep
<1>6. f \in Nat BY DEF SpillInv, Base, Tables
<1>7. boot'.next = f + 1 /\ boot'.written = w /\ boot'.committed = w BY <1>5
<1>8. a \in Seq(G) /\ ToSet(a) = ToSet(staged[f].records)
  <2>1. staged \in Seq(StagedFile(G)) BY <1>1 DEF SpillInv, Base, Records
  <2>2. a \in Seq(G) /\ ToSet(a) = {s \in ToSet(BootFile.records) : s.bar \notin refused} BY <1>1, <1>3, <2>1, AcceptedFacts
  <2>3. ToSet(a) = ToSet(BootFile.records) BY <1>3, <2>2
  <2> QED BY <2>2, <2>3 DEF BootFile
<1>9. a \in Seq(Seal)
  <2>1. G \subseteq Seal BY <1>1 DEF SealsUpTo
  <2> QED BY <1>8, <2>1, SeqMonotone
<1>10. db \in [Bars -> Copy] /\ boot.written \in [Bars -> Copy] BY DEF SpillInv, Base, Tables
<1>11. /\ new \in [Bars -> Copy]
       /\ \A b \in Bars : new[b] = db[b] \/ \E s \in ToSet(a) : s.bar = b /\ s.copy = new[b]
       /\ \A b \in Bars : \A s \in ToSet(a) : s.bar = b /\ s.copy >= boot.written[b] => new[b] >= s.copy
  BY <1>2, <1>9, <1>10, DrainFacts
<1>12. /\ w \in [Bars -> Copy]
       /\ \A b \in Bars : w[b] = boot.written[b] \/ \E s \in ToSet(a) : s.bar = b /\ s.copy = w[b]
  BY <1>2, <1>9, <1>10, DrainFacts
<1>13. \A s \in ToSet(a) : s.copy <= best[s.bar]
  <2>1. ToSet(a) \subseteq OnDisk BY <1>3, <1>8, StagedFacts
  <2> QED BY <2>1 DEF SpillInv, Reached
<1>14. ASSUME NEW b \in Bars
       PROVE  /\ db'[b] <= best[b] /\ w[b] <= best[b]
              /\ db'[b] = db[b] \/ \E x \in ToSet(staged[f].records) : x.bar = b
              /\ BestOf(b) \in ToSet(staged[f].records) => db'[b] = best[b]
  <2>1. db[b] <= best[b] /\ boot.written[b] <= best[b] BY DEF Drained, SpillInv, Reached
  <2>2. db'[b] <= best[b] BY <1>5, <1>11, <1>13, <2>1
  <2>3. w[b] <= best[b] BY <1>12, <1>13, <2>1
  <2>4. db'[b] = db[b] \/ \E x \in ToSet(staged[f].records) : x.bar = b BY <1>5, <1>8, <1>11
  <2>5. ASSUME BestOf(b) \in ToSet(staged[f].records) PROVE db'[b] = best[b]
    <3>1. PICK y : y = BestOf(b) OBVIOUS
    <3>2. y.bar = b /\ y.copy = best[b] /\ y \in ToSet(a) BY <1>8, <2>5, <3>1 DEF BestOf
    <3>3. boot.written[b] \in Nat /\ best[b] \in Nat BY TableNumbers
    <3>4. y.copy >= boot.written[b] BY <2>1, <3>2, <3>3
    <3>5. new[b] >= best[b] BY <1>11, <3>2, <3>4
    <3>6. new[b] \in Nat BY <1>11, SealFacts
    <3> QED BY <1>5, <2>2, <3>3, <3>5, <3>6
  <2> QED BY <2>2, <2>3, <2>4, <2>5
<1> QED BY <1>3, <1>4, <1>6, <1>7, <1>14

LEMMA KeptBootFlushed ==
  ASSUME SpillInv, SpillInv', BestUpdated, KeptInv, Drained, scenario.faults = {}, NEW refused, BootFlushed(refused)
  PROVE  KeptInv' /\ Drained'
<1>1. PICK f : f = boot.next OBVIOUS
<1>2. /\ f \in DOMAIN staged /\ staged' = InState(staged, f, "awaiting")
      /\ f \in Nat /\ boot'.next = f + 1
      /\ \A b \in Bars : /\ db'[b] <= best[b] /\ boot'.written[b] <= best[b] /\ boot'.committed[b] <= best[b]
                         /\ db'[b] = db[b] \/ \E x \in ToSet(staged[f].records) : x.bar = b
                         /\ BestOf(b) \in ToSet(staged[f].records) => db'[b] = best[b]
  BY <1>1, BootTables
<1>3. PICK z : z = staged' OBVIOUS
<1>4. /\ DOMAIN z = DOMAIN staged /\ \A j \in DOMAIN staged : j # f => z[j] = staged[j]
      /\ z[f].records = staged[f].records /\ z[f].offset = staged[f].offset /\ z[f].state = "awaiting" /\ z[f].kind = staged[f].kind
      /\ SameRecords(staged, z)
  <2>1. PICK st : st = "awaiting" OBVIOUS
  <2>2. z = InState(staged, f, st) BY <1>2, <1>3, <2>1
  <2>3. f \in DOMAIN staged BY <1>2
  <2>4. /\ DOMAIN z = DOMAIN staged /\ \A j \in DOMAIN staged : j # f => z[j] = staged[j]
        /\ z[f].records = staged[f].records /\ z[f].offset = staged[f].offset /\ z[f].state = st /\ z[f].kind = staged[f].kind
        /\ SameRecords(staged, z)
    BY <2>2, <2>3, StateAt
  <2> QED BY <2>1, <2>4
<1>5. /\ UNCHANGED <<live, dlq, ledger, epoch, untracked, retired, exposed, dead, unnoted, writer, summary>>
      /\ UNCHANGED <<channel, ring, queue, todo, sealed, escalation_finished, run_len>>
      /\ writer.at = "boot"
  BY DEF BootFlushed, memory, index, ghosts, lineage
<1>6. OnDisk' = OnDisk BY <1>3, <1>4, <1>5, SameOnDisk
<1>7. best' = best BY <1>2, <1>6, BestKept
<1>8. /\ channel = <<>> /\ ring = <<>> /\ queue = <<>> /\ live = <<>> /\ \A t \in Threads : todo[t] = <<>>
      /\ DOMAIN ledger.bars = {}
      /\ \A i \in DOMAIN staged : staged[i].state = "awaiting" <=> i < f
  BY <1>1, <1>5 DEF KeptInv, Booting
<1>9. DOMAIN staged \subseteq Nat BY StagedFacts
<1>10. \A i \in DOMAIN z : z[i].state = "awaiting" <=> i < f + 1
  <2>1. \A i \in DOMAIN z : i \in Nat /\ (i < f + 1 <=> (i < f \/ i = f)) BY <1>2, <1>4, <1>9
  <2> QED BY <1>4, <1>8, <2>1
<1>11. \A i \in DOMAIN z : z[i].offset = 0 BY <1>4, <1>5 DEF Drained
<1>12. staged[f].state = "ready" BY <1>2, <1>8 DEF KeptInv, Unfaulted
<1>13. Unfaulted'
  <2>1. \A i \in DOMAIN z : z[i].kind = "spill" /\ z[i].state \in {"ready", "awaiting"}
    BY <1>4 DEF KeptInv, Unfaulted
  <2>2. \A i, j \in DOMAIN z : i < j /\ j < f + 1 => i < f + 1 BY <1>2, <1>4, <1>9
  <2>3. \A i, j \in DOMAIN z : i < j /\ z[j].state = "awaiting" => z[i].state = "awaiting" BY <1>10, <2>2
  <2> QED BY <1>3, <1>5, <1>11, <2>1, <2>3 DEF KeptInv, Unfaulted
<1>14. Booting'
  <2>1. f + 1 # 0 BY <1>2
  <2> QED BY <1>2, <1>3, <1>5, <1>8, <1>10, <2>1 DEF Booting
<1>15. InRead' BY <1>5 DEF InRead
<1>16. Current' BY <1>5 DEF KeptInv, Current, Held
<1>17. Onward'
  <2>1. ToSet(channel) = {} /\ ToSet(ring) = {} /\ ToSet(todo["writer"]) = {} BY <1>8, SetOfSeq DEF Threads
  <2> QED BY <1>5, <2>1 DEF KeptInv, Onward
<1>18. Escalated'
  <2>1. LikeLedger(ledger, ledger') BY <1>5 DEF LikeLedger
  <2> QED BY <1>5, <1>7, <2>1, EscalatedIdle
<1>19. Drained' BY <1>2, <1>3, <1>5, <1>7, <1>11 DEF Drained
<1>20. ASSUME NEW b \in Bars \ exposed PROVE BarInv(b)'
  <2>1. BarInv(b) BY DEF KeptInv
  <2>2. BestOf(b)' = BestOf(b) BY <1>7 DEF BestOf
  <2>3. Arranged(b)' BY <1>3, <1>4, <1>5, <2>1 DEF BarInv, Arranged, SameRecords
  <2>4. Known(b)' BY <1>5, <1>6, <2>1 DEF BarInv, Known, OnFile
  <2>5. Bounded(b)' /\ Stored(b)' BY <1>5, <1>8 DEF Bounded, Stored, Tracked, Busy
  <2>6. ~Pending(b) BY <1>5 DEF Pending
  <2>7. Backed(b)' BY <1>6, <2>1, <2>2, <2>6 DEF BarInv, Backed, OnFile
  <2>8. Reading(b)' BY <1>5 DEF Reading
  <2>9. PICK y : y = BestOf(b) OBVIOUS
  <2>10. ASSUME y \notin ToSet(staged[f].records), Unread(y) PROVE Unread(y)'
    <3>1. y \notin ToSet(live) BY <1>8, SetOfSeq
    <3>2. PICK i \in DOMAIN staged : /\ staged[i].state = "ready"
                                     /\ \E n \in DOMAIN staged[i].records : n > staged[i].offset /\ staged[i].records[n] = y
      BY <2>10, <3>1 DEF Unread
    <3>3. i # f BY <2>10, <3>2 DEF ToSet
    <3> QED BY <1>3, <1>4, <3>2, <3>3 DEF Unread
  <2>11. Reachable(b)'
    <3>1. CASE y \in ToSet(staged[f].records)
      <4>1. db'[b] = best[b] BY <1>2, <2>9, <3>1
      <4> QED BY <1>7, <4>1 DEF Reachable
    <3>2. CASE y \notin ToSet(staged[f].records) /\ db'[b] = db[b]
      <4>1. CASE db[b] = best[b] BY <1>7, <3>2, <4>1 DEF Reachable
      <4>2. CASE Unread(y)
        <5>1. Unread(y)' BY <2>10, <3>2, <4>2
        <5> QED BY <2>2, <2>9, <5>1 DEF Reachable
      <4> QED BY <2>1, <2>9, <4>1, <4>2 DEF BarInv, Reachable
    <3>3. CASE y \notin ToSet(staged[f].records) /\ db'[b] # db[b]
      <4>1. PICK x \in ToSet(staged[f].records) : x.bar = b BY <1>2, <3>3
      <4>2. PICK n \in DOMAIN staged[f].records : staged[f].records[n] = x BY <4>1 DEF ToSet
      <4>3. n > staged[f].offset
        <5>1. n \in Nat /\ n > 0 BY <1>2, <4>2, StagedFacts
        <5>2. staged[f].offset = 0 BY <1>2, <1>4, <1>11
        <5> QED BY <5>1, <5>2
      <4>4. Unread(x) BY <1>2, <1>12, <4>2, <4>3 DEF Unread
      <4>5. x \in OnDisk BY <4>4, UnreadOnDisk
      <4>6. y \in OnDisk BY <2>1, <2>6, <2>9, <4>1, <4>5 DEF BarInv, Backed, OnFile
      <4>7. Unread(y) BY <2>1, <2>9, <4>1, <4>4, <4>6, UnreadBest DEF BarInv, KeptInv
      <4>8. Unread(y)' BY <2>10, <3>3, <4>7
      <4> QED BY <2>2, <2>9, <4>8 DEF Reachable
    <3> QED BY <3>1, <3>2, <3>3
  <2> QED BY <2>3, <2>4, <2>5, <2>7, <2>8, <2>11 DEF BarInv
<1>21. KeptInv' BY <1>5, <1>13, <1>14, <1>15, <1>16, <1>17, <1>18, <1>20 DEF KeptInv
<1> QED BY <1>19, <1>21

-----------------------------------------------------------------------------
(* What the ledger makes of a batch committed live.                        *)

LiveKept(e0, e) ==
  /\ e0 \in SealEntry /\ e \in SealEntry /\ e.disk = e0.disk /\ e.disk_epoch = e0.disk_epoch
  /\ e.queue_mark >= e0.queue_mark /\ e.committed >= e0.committed

\* A copy to be mirrored is ahead of what is on disk; its bar is tracked or had no room.
MirrorDue(l, ep, x, m, u) ==
  /\ Tracked(l, x.bar) => x.copy > l.bars[x.bar].disk
  /\ Tracked(m, x.bar) \/ (x.bar \in u /\ m.active /\ m.disk_epoch >= ep)

\* A copy of the batch: noted as committed while the queue is busy, and mirrored
\* when its bar is on disk.
SealNoted(l, mk, busy, s, m, A, u) ==
  /\ busy => \/ s.bar \in u
             \/ Tracked(m, s.bar) /\ m.bars[s.bar].committed >= s.copy /\ m.bars[s.bar].queue_mark >= mk
  /\ Tracked(l, s.bar) /\ l.bars[s.bar].disk # 0 /\ s.copy > l.bars[s.bar].disk => s \in A
  /\ ~Tracked(l, s.bar) /\ l.active => \E x \in A : x.bar = s.bar

\* The ledger m, the copies A to mirror and the bars u without room, after n seals.
LiveNoted(l, ep, mk, busy, seals, n, m, A, u) ==
  /\ IsLedger(m) /\ DOMAIN l.bars \subseteq DOMAIN m.bars
  /\ \A b \in DOMAIN m.bars : LiveKept(Entry(l, b), m.bars[b])
  /\ \A b \in DOMAIN m.bars :
        \/ m.bars[b].committed = Entry(l, b).committed
        \/ \E i \in 1..n : seals[i].bar = b /\ seals[i].copy = m.bars[b].committed
  /\ \A b \in DOMAIN m.bars : Tracked(l, b) \/ \E i \in 1..n : seals[i].bar = b
  /\ (l.active => m.active) /\ m.disk_epoch >= l.disk_epoch /\ m.dead_letter_max_bucket = l.dead_letter_max_bucket
  /\ \A b \in u : ~HasRoom(m, b)
  /\ \A x \in A : MirrorDue(l, ep, x, m, u)
  /\ \A i \in 1..n : SealNoted(l, mk, busy, seals[i], m, A, u)

LEMMA LiveKeptSame ==
  \A e \in SealEntry : LiveKept(e, e)
BY EntryNumbers DEF LiveKept

LEMMA LiveStart ==
  ASSUME NEW l, IsLedger(l), NEW ep, NEW mk, NEW busy, NEW seals
  PROVE  LiveNoted(l, ep, mk, busy, seals, 0, l, {}, {})
<1>1. ASSUME NEW b \in DOMAIN l.bars PROVE LiveKept(Entry(l, b), l.bars[b]) /\ l.bars[b].committed = Entry(l, b).committed
  <2>1. PICK e : e = l.bars[b] OBVIOUS
  <2>2. e \in SealEntry /\ Entry(l, b) = e BY <2>1 DEF IsLedger, Entry, Tracked
  <2> QED BY <2>1, <2>2, LiveKeptSame
<1>2. l.disk_epoch \in Nat BY DEF IsLedger
<1>3. \A b \in DOMAIN l.bars : Tracked(l, b) BY DEF Tracked
<1>4. \A i \in 1..0 : FALSE OBVIOUS
<1>5. l.disk_epoch >= l.disk_epoch BY <1>2
<1> QED BY <1>1, <1>3, <1>4, <1>5 DEF LiveNoted

LEMMA LiveKeptOn ==
  ASSUME NEW e0, NEW e, NEW d, LiveKept(e0, e), LiveKept(e, d)
  PROVE  LiveKept(e0, d)
<1>1. e0 \in SealEntry /\ e \in SealEntry /\ d \in SealEntry BY DEF LiveKept
<1>2. /\ e0.queue_mark \in Nat /\ e.queue_mark \in Nat /\ d.queue_mark \in Nat
      /\ e0.committed \in Nat /\ e.committed \in Nat /\ d.committed \in Nat
  BY <1>1, EntryNumbers
<1> QED BY <1>1, <1>2 DEF LiveKept

\* One more seal, whatever becomes of it.
LEMMA LiveExtend ==
  ASSUME NEW l, IsLedger(l), NEW ep \in Nat, NEW mk \in Nat, NEW busy, NEW seals, NEW n \in Nat, NEW m, NEW A, NEW u,
         \A i \in 1..n : seals[i] \in Seal,
         LiveNoted(l, ep, mk, busy, seals, n, m, A, u), NEW s \in Seal, s = seals[n + 1],
         NEW k, IsLedger(k), NEW C, NEW v, A \subseteq C, C \subseteq A \cup {s}, u \subseteq v,
         DOMAIN m.bars \subseteq DOMAIN k.bars, DOMAIN k.bars \subseteq DOMAIN m.bars \cup {s.bar},
         \A b \in DOMAIN k.bars : LiveKept(Entry(m, b), k.bars[b]),
         \A b \in DOMAIN k.bars : \/ k.bars[b].committed = Entry(m, b).committed
                                  \/ b = s.bar /\ k.bars[b].committed = s.copy,
         m.active => k.active, k.disk_epoch >= m.disk_epoch, k.dead_letter_max_bucket = m.dead_letter_max_bucket,
         \A b \in v : ~HasRoom(k, b),
         s \in C /\ s \notin A => MirrorDue(l, ep, s, k, v), SealNoted(l, mk, busy, s, k, C, v)
  PROVE  LiveNoted(l, ep, mk, busy, seals, n + 1, k, C, v)
<1>1. \A i \in 1..(n + 1) : i \in 1..n \/ i = n + 1 OBVIOUS
<1>2. 1..n \subseteq 1..(n + 1) /\ n + 1 \in 1..(n + 1) OBVIOUS
<1>3. IsLedger(m) /\ DOMAIN l.bars \subseteq DOMAIN m.bars BY DEF LiveNoted
<1>4. l.disk_epoch \in Nat /\ m.disk_epoch \in Nat /\ k.disk_epoch \in Nat BY <1>3 DEF IsLedger
<1>5. \A b : b \notin DOMAIN m.bars => Entry(m, b) = Entry(l, b) BY <1>3 DEF Entry, Tracked
<1>6. \A b : b \in DOMAIN m.bars => Entry(m, b) = m.bars[b] /\ LiveKept(Entry(l, b), m.bars[b]) BY DEF Entry, Tracked, LiveNoted
<1>7. ASSUME NEW b \in DOMAIN k.bars PROVE LiveKept(Entry(l, b), k.bars[b])
  <2>1. PICK e0, e, d : e0 = Entry(l, b) /\ e = Entry(m, b) /\ d = k.bars[b] OBVIOUS
  <2>2. LiveKept(e, d) BY <2>1
  <2>3. CASE b \in DOMAIN m.bars
    <3>1. LiveKept(e0, e) BY <1>6, <2>1, <2>3
    <3>2. LiveKept(e0, d) BY <2>2, <3>1, LiveKeptOn
    <3> QED BY <2>1, <3>2
  <2>4. CASE b \notin DOMAIN m.bars BY <1>5, <2>1, <2>2, <2>4
  <2> QED BY <2>3, <2>4
<1>8. ASSUME NEW b \in DOMAIN k.bars
      PROVE  \/ k.bars[b].committed = Entry(l, b).committed
             \/ \E i \in 1..(n + 1) : seals[i].bar = b /\ seals[i].copy = k.bars[b].committed
  <2>1. CASE b = s.bar /\ k.bars[b].committed = s.copy BY <1>2, <2>1
  <2>2. CASE k.bars[b].committed = Entry(m, b).committed /\ b \notin DOMAIN m.bars BY <1>5, <2>2
  <2>3. CASE k.bars[b].committed = Entry(m, b).committed /\ b \in DOMAIN m.bars
    <3>1. k.bars[b].committed = m.bars[b].committed BY <1>6, <2>3
    <3>2. \/ m.bars[b].committed = Entry(l, b).committed
          \/ \E i \in 1..n : seals[i].bar = b /\ seals[i].copy = m.bars[b].committed
      BY <2>3 DEF LiveNoted
    <3> QED BY <1>2, <3>1, <3>2
  <2> QED BY <2>1, <2>2, <2>3
<1>9. ASSUME NEW b \in DOMAIN k.bars PROVE Tracked(l, b) \/ \E i \in 1..(n + 1) : seals[i].bar = b
  <2>1. CASE b = s.bar BY <1>2, <2>1
  <2>2. CASE b \in DOMAIN m.bars BY <1>2, <2>2 DEF LiveNoted
  <2> QED BY <2>1, <2>2
<1>10. (l.active => k.active) /\ k.disk_epoch >= l.disk_epoch /\ k.dead_letter_max_bucket = l.dead_letter_max_bucket
  <2>1. (l.active => m.active) /\ m.disk_epoch >= l.disk_epoch /\ m.dead_letter_max_bucket = l.dead_letter_max_bucket
    BY DEF LiveNoted
  <2> QED BY <1>4, <2>1
<1>11. ASSUME NEW x \in C PROVE MirrorDue(l, ep, x, k, v)
  <2>1. CASE x \notin A BY <2>1
  <2>2. CASE x \in A
    <3>1. MirrorDue(l, ep, x, m, u) BY <2>2 DEF LiveNoted
    <3>2. Tracked(m, x.bar) => Tracked(k, x.bar) BY DEF Tracked
    <3>3. m.disk_epoch >= ep => k.disk_epoch >= ep BY <1>4
    <3> QED BY <3>1, <3>2, <3>3 DEF MirrorDue
  <2> QED BY <2>1, <2>2
<1>12. ASSUME NEW i \in 1..(n + 1) PROVE SealNoted(l, mk, busy, seals[i], k, C, v)
  <2>1. CASE i = n + 1 BY <2>1
  <2>2. CASE i \in 1..n
    <3>1. PICK x, b : x = seals[i] /\ b = x.bar OBVIOUS
    <3>2. SealNoted(l, mk, busy, x, m, A, u) /\ x \in Seal BY <2>2, <3>1 DEF LiveNoted
    <3>3. ASSUME Tracked(m, b), m.bars[b].committed >= x.copy, m.bars[b].queue_mark >= mk
          PROVE  Tracked(k, b) /\ k.bars[b].committed >= x.copy /\ k.bars[b].queue_mark >= mk
      <4>1. b \in DOMAIN k.bars /\ Tracked(k, b) BY <3>3 DEF Tracked
      <4>2. PICK e, d : e = m.bars[b] /\ d = k.bars[b] OBVIOUS
      <4>3. LiveKept(e, d)
        <5>1. Entry(m, b) = e BY <3>3, <4>2 DEF Entry
        <5> QED BY <4>1, <4>2, <5>1
      <4>4. e \in SealEntry /\ d \in SealEntry /\ d.queue_mark >= e.queue_mark /\ d.committed >= e.committed BY <4>3 DEF LiveKept
      <4>5. e.queue_mark \in Nat /\ d.queue_mark \in Nat /\ e.committed \in Nat /\ d.committed \in Nat BY <4>4, EntryNumbers
      <4>6. x.copy \in Nat BY <3>2, SealFacts
      <4> QED BY <3>3, <4>1, <4>2, <4>4, <4>5, <4>6
    <3>4. SealNoted(l, mk, busy, x, k, C, v) BY <3>1, <3>2, <3>3 DEF SealNoted
    <3> QED BY <3>1, <3>4
  <2> QED BY <1>1, <2>1, <2>2
<1>13. DOMAIN l.bars \subseteq DOMAIN k.bars BY <1>3
<1> QED BY <1>7, <1>8, <1>9, <1>10, <1>11, <1>12, <1>13 DEF LiveNoted

\* A seal whose bar the ledger tracks or has room for.
LEMMA LiveWithRoom ==
  ASSUME NEW l, IsLedger(l), NEW ep \in Nat, NEW mk \in Nat, NEW busy, NEW seals, NEW n \in Nat, NEW m, NEW A, NEW u,
         \A i \in 1..n : seals[i] \in Seal,
         LiveNoted(l, ep, mk, busy, seals, n, m, A, u), NEW s \in Seal, s = seals[n + 1], NEW b, b = s.bar, NEW e, e = Entry(m, b),
         NEW k, IsLedger(k), HasRoom(m, b), NEW d \in SealEntry, OnlyBar(m, k, b, d),
         d.committed = larger(e.committed, s.copy), d.disk = e.disk, d.disk_epoch = e.disk_epoch,
         d.queue_mark = larger(e.queue_mark, mk), NEW C,
         \/ C = A \cup {s} /\ (Tracked(m, b) => s.copy > m.bars[b].disk)
         \/ /\ C = A /\ (Tracked(m, b) => ~ (m.bars[b].disk # 0 /\ s.copy > m.bars[b].disk))
            /\ Tracked(m, b) \/ ~m.active
  PROVE  LiveNoted(l, ep, mk, busy, seals, n + 1, k, C, u)
<1>1. IsLedger(m) /\ DOMAIN l.bars \subseteq DOMAIN m.bars BY DEF LiveNoted
<1>2. b \in Bars /\ s.copy \in Nat /\ s.copy \in Copy BY SealFacts
<1>3. e \in SealEntry BY <1>1, <1>2, EntryFacts
<1>4. /\ e.committed \in Nat /\ e.queue_mark \in Nat /\ d.committed \in Nat /\ d.queue_mark \in Nat BY <1>3, EntryNumbers
<1>5. d.committed >= e.committed /\ d.committed >= s.copy /\ (d.committed = e.committed \/ d.committed = s.copy)
  BY <1>2, <1>4 DEF larger
<1>6. d.queue_mark >= e.queue_mark /\ d.queue_mark >= mk BY <1>4 DEF larger
<1>7. LiveKept(e, d) BY <1>3, <1>5, <1>6 DEF LiveKept
<1>8. /\ DOMAIN k.bars = DOMAIN m.bars \cup {b} /\ k.bars[b] = d
      /\ \A x \in DOMAIN m.bars : x # b => k.bars[x] = m.bars[x]
      /\ k.active = m.active /\ k.disk_epoch = m.disk_epoch
      /\ k.dead_letter_max_bucket = m.dead_letter_max_bucket
  BY DEF OnlyBar
<1>9. ASSUME NEW x \in DOMAIN k.bars
      PROVE  /\ LiveKept(Entry(m, x), k.bars[x])
             /\ k.bars[x].committed = Entry(m, x).committed \/ (x = b /\ k.bars[x].committed = s.copy)
  <2>1. CASE x = b BY <1>5, <1>7, <1>8, <2>1
  <2>2. CASE x # b
    <3>1. PICK g : g = m.bars[x] OBVIOUS
    <3>2. x \in DOMAIN m.bars /\ k.bars[x] = g BY <1>8, <2>2, <3>1
    <3>3. g \in SealEntry /\ Entry(m, x) = g BY <1>1, <3>1, <3>2 DEF Entry, Tracked, IsLedger
    <3> QED BY <3>2, <3>3, LiveKeptSame
  <2> QED BY <2>1, <2>2
<1>10. ASSUME NEW x \in u PROVE ~HasRoom(k, x)
  <2>1. ~HasRoom(m, x) BY DEF LiveNoted
  <2>2. b \in DOMAIN m.bars BY <2>1 DEF HasRoom, Tracked
  <2>3. DOMAIN k.bars = DOMAIN m.bars BY <1>8, <2>2
  <2> QED BY <2>1, <2>3 DEF HasRoom, Tracked
<1>11. Tracked(k, b) BY <1>8 DEF Tracked
<1>12. Tracked(l, b) => Tracked(m, b) /\ m.bars[b].disk = l.bars[b].disk
  <2> SUFFICES ASSUME Tracked(l, b) PROVE Tracked(m, b) /\ m.bars[b].disk = l.bars[b].disk OBVIOUS
  <2>1. b \in DOMAIN m.bars /\ Entry(l, b) = l.bars[b] BY <1>1 DEF Tracked, Entry
  <2>2. LiveKept(l.bars[b], m.bars[b]) BY <2>1 DEF LiveNoted
  <2> QED BY <2>1, <2>2 DEF LiveKept, Tracked
<1>13. ASSUME s \in C, s \notin A PROVE MirrorDue(l, ep, s, k, u)
  BY <1>11, <1>12, <1>13 DEF MirrorDue
<1>14. SealNoted(l, mk, busy, s, k, C, u)
  <2>1. k.bars[b].committed >= s.copy /\ k.bars[b].queue_mark >= mk BY <1>5, <1>6, <1>8
  <2>2. Tracked(l, b) /\ l.bars[b].disk # 0 /\ s.copy > l.bars[b].disk => s \in C BY <1>12
  <2>3. ASSUME ~Tracked(l, b), l.active PROVE \E x \in C : x.bar = b
    <3>1. m.active BY <2>3 DEF LiveNoted
    <3>2. CASE ~Tracked(m, b) BY <3>1, <3>2
    <3>3. CASE Tracked(m, b)
      <4>1. PICK i \in 1..n : seals[i].bar = b BY <2>3, <3>3 DEF LiveNoted, Tracked
      <4>2. SealNoted(l, mk, busy, seals[i], m, A, u) BY DEF LiveNoted
      <4>3. \E x \in A : x.bar = b BY <2>3, <4>1, <4>2 DEF SealNoted
      <4> QED BY <4>3
    <3> QED BY <3>2, <3>3
  <2> QED BY <1>11, <2>1, <2>2, <2>3 DEF SealNoted
<1>15. k.disk_epoch >= m.disk_epoch BY <1>1, <1>8 DEF IsLedger
<1>16. (m.active => k.active) BY <1>8
<1>17. A \subseteq C /\ C \subseteq A \cup {s} OBVIOUS
<1>18. DOMAIN m.bars \subseteq DOMAIN k.bars /\ DOMAIN k.bars \subseteq DOMAIN m.bars \cup {s.bar} BY <1>8
<1> QED BY <1>8, <1>9, <1>10, <1>13, <1>14, <1>15, <1>16, <1>17, <1>18, LiveExtend

\* A seal whose bar the ledger has no room for, noted as such.
LEMMA LiveOverflow ==
  ASSUME NEW l, IsLedger(l), NEW ep \in Nat, NEW mk \in Nat, NEW busy, NEW seals, NEW n \in Nat, NEW m, NEW A, NEW u,
         \A i \in 1..n : seals[i] \in Seal,
         LiveNoted(l, ep, mk, busy, seals, n, m, A, u), NEW s \in Seal, s = seals[n + 1], NEW b, b = s.bar,
         NEW k, IsLedger(k), ~HasRoom(m, b), Overflowed(m, k, ep, mk), k.dead_letter_max_bucket = m.dead_letter_max_bucket,
         NEW C, C = A \cup {s}, NEW v, v = u \cup {b}
  PROVE  LiveNoted(l, ep, mk, busy, seals, n + 1, k, C, v)
<1>1. IsLedger(m) /\ DOMAIN l.bars \subseteq DOMAIN m.bars BY DEF LiveNoted
<1>2. k.bars = m.bars /\ k.active = TRUE /\ k.disk_epoch = larger(m.disk_epoch, ep) BY DEF Overflowed
<1>3. m.disk_epoch \in Nat BY <1>1 DEF IsLedger
<1>4. k.disk_epoch >= m.disk_epoch /\ k.disk_epoch >= ep BY <1>2, <1>3 DEF larger
<1>5. \A x : HasRoom(k, x) <=> HasRoom(m, x) BY <1>2 DEF HasRoom, Tracked
<1>6. ~Tracked(m, b) /\ ~Tracked(l, b) BY <1>1 DEF HasRoom, Tracked
<1>7. ASSUME NEW x \in DOMAIN k.bars PROVE LiveKept(Entry(m, x), k.bars[x]) /\ k.bars[x].committed = Entry(m, x).committed
  <2>1. PICK g : g = m.bars[x] OBVIOUS
  <2>2. g \in SealEntry /\ Entry(m, x) = g BY <1>1, <1>2, <2>1 DEF Entry, Tracked, IsLedger
  <2> QED BY <1>2, <2>1, <2>2, LiveKeptSame
<1>8. \A x \in v : ~HasRoom(k, x) BY <1>5 DEF LiveNoted
<1>9. MirrorDue(l, ep, s, k, v) BY <1>2, <1>4, <1>6 DEF MirrorDue
<1>10. SealNoted(l, mk, busy, s, k, C, v) BY <1>6 DEF SealNoted
<1>11. A \subseteq C /\ C \subseteq A \cup {s} /\ u \subseteq v OBVIOUS
<1>12. DOMAIN m.bars \subseteq DOMAIN k.bars /\ DOMAIN k.bars \subseteq DOMAIN m.bars \cup {s.bar} BY <1>2
<1>13. m.active => k.active BY <1>2
<1> QED BY <1>4, <1>7, <1>8, <1>9, <1>10, <1>11, <1>12, <1>13, LiveExtend

\* A seal the ledger need not know.
LEMMA LiveIgnored ==
  ASSUME NEW l, IsLedger(l), NEW ep \in Nat, NEW mk \in Nat, NEW busy, NEW seals, NEW n \in Nat, NEW m, NEW A, NEW u,
         \A i \in 1..n : seals[i] \in Seal,
         LiveNoted(l, ep, mk, busy, seals, n, m, A, u), NEW s \in Seal, s = seals[n + 1], NEW b, b = s.bar,
         ~Tracked(m, b), ~m.active, ~busy, NEW v, v = u \cup NoRoom(m, b)
  PROVE  LiveNoted(l, ep, mk, busy, seals, n + 1, m, A, v)
<1>1. IsLedger(m) /\ DOMAIN l.bars \subseteq DOMAIN m.bars BY DEF LiveNoted
<1>2. m.disk_epoch >= m.disk_epoch BY <1>1 DEF IsLedger
<1>3. ~Tracked(l, b) BY <1>1 DEF Tracked
<1>4. ~l.active BY DEF LiveNoted
<1>5. ASSUME NEW x \in DOMAIN m.bars PROVE LiveKept(Entry(m, x), m.bars[x]) /\ m.bars[x].committed = Entry(m, x).committed
  <2>1. PICK g : g = m.bars[x] OBVIOUS
  <2>2. g \in SealEntry /\ Entry(m, x) = g BY <1>1, <2>1 DEF Entry, Tracked, IsLedger
  <2> QED BY <2>1, <2>2, LiveKeptSame
<1>6. \A x \in v : ~HasRoom(m, x) BY DEF LiveNoted, NoRoom
<1>7. SealNoted(l, mk, busy, s, m, A, v) BY <1>3, <1>4 DEF SealNoted
<1>8. u \subseteq v OBVIOUS
<1> QED BY <1>1, <1>2, <1>5, <1>6, <1>7, <1>8, LiveExtend

LEMMA LiveOne ==
  ASSUME NEW l, IsLedger(l), NEW ep \in Nat, NEW mk \in Nat, NEW busy, NEW seals, NEW n \in Nat, NEW m, NEW A, NEW u,
         \A i \in 1..n : seals[i] \in Seal, l.dead_letter_max_bucket = 0,
         LiveNoted(l, ep, mk, busy, seals, n, m, A, u), NEW s \in Seal, s = seals[n + 1],
         NEW k, k = on_live_commit(m, s, busy, ep, mk), NEW C,
         \/ Mirrors(m, s, busy, ep, mk) /\ C = A \cup {s}
         \/ ~Mirrors(m, s, busy, ep, mk) /\ C = A,
         NEW v, v = u \cup NoRoom(m, s.bar)
  PROVE  LiveNoted(l, ep, mk, busy, seals, n + 1, k, C, v)
<1>1. IsLedger(m) BY DEF LiveNoted
<1>2. PICK b : b = s.bar OBVIOUS
<1>3. IsLedger(k) /\ (CommitNoted(m, k, s, ep, mk) \/ (k = m /\ ~Tracked(m, b) /\ ~m.active /\ ~busy))
  BY <1>1, <1>2, LiveCommitFacts
<1>4. ~dead_letter_covers(m, s)
  <2>1. m.dead_letter_max_bucket = 0 BY DEF LiveNoted
  <2>2. b \in Nat /\ b # 0 BY <1>2, SealFacts, SealSpillAssumption
  <2> QED BY <1>2, <2>1, <2>2 DEF dead_letter_covers
<1>5. Tracked(m, b) => (Mirrors(m, s, busy, ep, mk) <=> m.bars[b].disk # 0 /\ s.copy > m.bars[b].disk)
  BY <1>2, Zenon DEF Mirrors
<1>6. ~Tracked(m, b) => (Mirrors(m, s, busy, ep, mk) <=> k.active) BY <1>2, <1>4, Zenon DEF Mirrors
<1>7. CASE k = m /\ ~Tracked(m, b) /\ ~m.active /\ ~busy
  <2>1. C = A BY <1>6, <1>7
  <2>2. LiveNoted(l, ep, mk, busy, seals, n + 1, m, A, v) BY <1>2, <1>7, LiveIgnored
  <2> QED BY <1>7, <2>1, <2>2
<1>8. CASE ~HasRoom(m, b) /\ Overflowed(m, k, ep, mk) /\ k.dead_letter_max_bucket = m.dead_letter_max_bucket
  <2>1. ~Tracked(m, b) BY <1>8 DEF HasRoom
  <2>2. k.active = TRUE BY <1>8 DEF Overflowed
  <2>3. C = A \cup {s} BY <1>6, <2>1, <2>2
  <2>4. v = u \cup {b} BY <1>2, <1>8 DEF NoRoom
  <2> QED BY <1>2, <1>3, <1>8, <2>3, <2>4, LiveOverflow
<1>9. CASE HasRoom(m, b) /\ \E d \in SealEntry :
           /\ OnlyBar(m, k, b, d)
           /\ d.committed = larger(Entry(m, b).committed, s.copy) /\ d.disk = Entry(m, b).disk
           /\ d.disk_epoch = Entry(m, b).disk_epoch
           /\ d.queue_mark = larger(Entry(m, b).queue_mark, mk)
  <2>1. PICK e : e = Entry(m, b) OBVIOUS
  <2>2. PICK d \in SealEntry : /\ OnlyBar(m, k, b, d)
                               /\ d.committed = larger(e.committed, s.copy) /\ d.disk = e.disk
                               /\ d.disk_epoch = e.disk_epoch /\ d.queue_mark = larger(e.queue_mark, mk)
    BY <1>9, <2>1
  <2>3. v = u BY <1>2, <1>9 DEF NoRoom
  <2>4. k.active = m.active BY <2>2 DEF OnlyBar
  <2>5. \/ C = A \cup {s} /\ (Tracked(m, b) => s.copy > m.bars[b].disk)
        \/ /\ C = A /\ (Tracked(m, b) => ~ (m.bars[b].disk # 0 /\ s.copy > m.bars[b].disk))
           /\ Tracked(m, b) \/ ~m.active
    BY <1>5, <1>6, <2>4, Zenon
  <2>6. LiveNoted(l, ep, mk, busy, seals, n + 1, k, C, u) BY <1>2, <1>3, <1>9, <2>1, <2>2, <2>5, LiveWithRoom
  <2> QED BY <2>3, <2>6
<1> QED BY <1>2, <1>3, <1>7, <1>8, <1>9, Zenon DEF CommitNoted

LEMMA BatchNotes ==
  ASSUME IsLedger(ledger), ledger.dead_letter_max_bucket = 0, NEW ep \in Nat, ep = epoch, NEW mk \in Nat, mk = writer.mark,
         NEW busy, busy = writer.queue_busy, NEW seals \in Seq(Seal), seals = writer.batch
  PROVE  /\ LiveNoted(ledger, ep, mk, busy, seals, Len(seals), NotedBatch.l, ToSet(NotedBatch.mirror), NotedBatch.untracked)
         /\ NotedBatch.mirror \in Seq(Seal)
<1>1. PICK N : N = Len(seals) OBVIOUS
<1>2. N \in Nat /\ \A n \in 1..N : seals[n] \in Seal BY <1>1
<1>3. PICK f : NotedBy(f, seals) /\ NotedBatch = f[N] BY <1>1, NotedSteps
<1>4. /\ f[0] = [l |-> ledger, mirror |-> <<>>, untracked |-> {}]
      /\ \A n \in 1..N : f[n] = note_live_commit(f[n - 1], seals[n])
  BY <1>1, <1>3 DEF NotedBy
<1> DEFINE S == {n \in 0..N : /\ LiveNoted(ledger, ep, mk, busy, seals, n, f[n].l, ToSet(f[n].mirror), f[n].untracked)
                              /\ f[n].mirror \in Seq(Seal)}
<1>5. 0 \in S
  <2>1. f[0].l = ledger /\ f[0].untracked = {} /\ f[0].mirror = <<>> BY <1>4
  <2>2. ToSet(f[0].mirror) = {} /\ f[0].mirror \in Seq(Seal) BY <2>1, SetOfSeq
  <2>3. LiveNoted(ledger, ep, mk, busy, seals, 0, ledger, {}, {}) BY LiveStart
  <2>4. LiveNoted(ledger, ep, mk, busy, seals, 0, f[0].l, ToSet(f[0].mirror), f[0].untracked) BY <2>1, <2>2, <2>3, Zenon
  <2>5. 0 \in 0..N BY <1>2
  <2> QED BY <2>2, <2>4, <2>5
<1>6. ASSUME NEW n \in 0..(N - 1), n \in S PROVE n + 1 \in S
  <2>1. n + 1 \in 1..N /\ (n + 1) - 1 = n /\ n + 1 \in 0..N /\ n \in Nat /\ 1..n \subseteq 1..N BY <1>2
  <2>2. PICK m, u, a, s : m = f[n].l /\ u = f[n].untracked /\ a = f[n].mirror /\ s = seals[n + 1] OBVIOUS
  <2>3. PICK A : A = ToSet(a) OBVIOUS
  <2>4. LiveNoted(ledger, ep, mk, busy, seals, n, m, A, u) /\ a \in Seq(Seal) BY <1>6, <2>2, <2>3
  <2>5. s \in Seal /\ \A i \in 1..n : seals[i] \in Seal BY <1>2, <2>1, <2>2
  <2>6. f[n + 1] = note_live_commit(f[n], s) BY <1>4, <2>1, <2>2
  <2>7. PICK k, v, c : /\ k = on_live_commit(m, s, busy, ep, mk) /\ v = u \cup NoRoom(m, s.bar)
                       /\ c = IF Mirrors(m, s, busy, ep, mk) THEN Append(a, s) ELSE a
    OBVIOUS
  <2>8. f[n + 1] = [l |-> k, mirror |-> c, untracked |-> v] BY <2>2, <2>6, <2>7, Zenon DEF note_live_commit
  <2>9. f[n + 1].l = k /\ f[n + 1].mirror = c /\ f[n + 1].untracked = v BY <2>8
  <2>10. PICK C : C = ToSet(c) OBVIOUS
  <2>11. /\ \/ Mirrors(m, s, busy, ep, mk) /\ C = A \cup {s}
            \/ ~Mirrors(m, s, busy, ep, mk) /\ C = A
         /\ c \in Seq(Seal)
    <3>1. CASE Mirrors(m, s, busy, ep, mk)
      <4>1. c = Append(a, s) BY <2>7, <3>1, Zenon
      <4>2. c \in Seq(Seal) BY <2>4, <2>5, <4>1
      <4>3. ToSet(c) = ToSet(a) \cup {s} BY <2>4, <4>1, SetOfAppend
      <4> QED BY <2>3, <2>10, <3>1, <4>2, <4>3
    <3>2. CASE ~Mirrors(m, s, busy, ep, mk)
      <4>1. c = a BY <2>7, <3>2, Zenon
      <4> QED BY <2>3, <2>4, <2>10, <3>2, <4>1
    <3> QED BY <3>1, <3>2
  <2>12. LiveNoted(ledger, ep, mk, busy, seals, n + 1, k, C, v)
    <3>1. PICK q, l : q = seals /\ l = ledger OBVIOUS
    <3>2. /\ LiveNoted(l, ep, mk, busy, q, n, m, A, u) /\ s = q[n + 1] /\ (\A i \in 1..n : q[i] \in Seal)
          /\ IsLedger(l) /\ l.dead_letter_max_bucket = 0
      BY <2>2, <2>4, <2>5, <3>1
    <3>3. LiveNoted(l, ep, mk, busy, q, n + 1, k, C, v) BY <2>1, <2>5, <2>7, <2>11, <3>2, LiveOne
    <3> QED BY <3>1, <3>3
  <2> QED BY <2>1, <2>9, <2>10, <2>11, <2>12
<1>7. \A n \in 0..N : n \in S
  <2> HIDE DEF S
  <2> QED BY <1>2, <1>5, <1>6, Induction
<1>8. N \in S BY <1>2, <1>7
<1> QED BY <1>1, <1>3, <1>8

\* The copies mirrored are then recorded as on disk.
MirrorKept(e0, e) ==
  /\ e0 \in SealEntry /\ e \in SealEntry /\ e.disk >= e0.disk /\ e.disk_epoch >= e0.disk_epoch
  /\ e.queue_mark >= e0.queue_mark /\ e.committed >= e0.committed

MirrorNoted(l, ep, seals, n, m) ==
  /\ IsLedger(m) /\ DOMAIN m.bars = DOMAIN l.bars
  /\ \A b \in DOMAIN m.bars : MirrorKept(l.bars[b], m.bars[b])
  /\ \A b \in DOMAIN m.bars :
        \/ m.bars[b].committed = l.bars[b].committed
        \/ \E i \in 1..n : seals[i].bar = b /\ seals[i].copy = m.bars[b].committed
  /\ (l.active => m.active) /\ m.disk_epoch >= l.disk_epoch /\ m.dead_letter_max_bucket = l.dead_letter_max_bucket
  /\ \A i \in 1..n : Tracked(m, seals[i].bar) => /\ m.bars[seals[i].bar].disk >= seals[i].copy
                                                 /\ m.bars[seals[i].bar].disk_epoch >= ep

MirrorOutcome(m, k, s, ep, yes, mk) ==
  /\ IsLedger(k)
  /\ Tracked(m, s.bar) => \E d : Recorded(m.bars[s.bar], d, s, ep, yes, mk) /\ OnlyBar(m, k, s.bar, d)
  /\ ~HasRoom(m, s.bar) => Overflowed(m, k, ep, mk) /\ k.dead_letter_max_bucket = m.dead_letter_max_bucket

LEMMA MirrorRecord ==
  ASSUME NEW m, IsLedger(m), NEW s \in Seal, NEW ep \in Nat, NEW mk \in Nat, NEW k,
         NEW no \in BOOLEAN, NEW yes \in BOOLEAN, no = FALSE,
         k = record_on_disk(m, s, ep, no, yes, mk)
  PROVE  MirrorOutcome(m, k, s, ep, yes, mk)
<1>3. CASE HasRoom(m, s.bar)
  <2>1. IsLedger(k) /\ \E d : Recorded(Entry(m, s.bar), d, s, ep, yes, mk) /\ OnlyBar(m, k, s.bar, d)
    BY <1>3, RecordFacts
  <2>2. PICK d : Recorded(Entry(m, s.bar), d, s, ep, yes, mk) /\ OnlyBar(m, k, s.bar, d) BY <2>1
  <2>3. Tracked(m, s.bar) => Entry(m, s.bar) = m.bars[s.bar] BY DEF Entry
  <2> QED BY <1>3, <2>1, <2>2, <2>3 DEF MirrorOutcome
<1>4. CASE ~HasRoom(m, s.bar)
  <2>1. /\ IsLedger(k) /\ Overflowed(m, k, ep, mk)
        /\ ~no => k.dead_letter_max_bucket = m.dead_letter_max_bucket
    BY <1>4, RecordNoRoom
  <2>2. ~Tracked(m, s.bar) BY <1>4 DEF HasRoom
  <2> QED BY <2>1, <2>2 DEF MirrorOutcome
<1> QED BY <1>3, <1>4

LEMMA MirrorOne ==
  ASSUME NEW l, IsLedger(l), NEW ep \in Nat, NEW mk \in Nat, NEW seals, NEW n \in Nat, NEW m,
         \A i \in 1..n : seals[i] \in Seal,
         MirrorNoted(l, ep, seals, n, m), NEW s \in Seal, s = seals[n + 1], Tracked(l, s.bar) \/ ~HasRoom(l, s.bar),
         NEW k, IsLedger(k), NEW yes, yes = TRUE,
         Tracked(m, s.bar) => \E d : Recorded(m.bars[s.bar], d, s, ep, yes, mk) /\ OnlyBar(m, k, s.bar, d),
         ~HasRoom(m, s.bar) => Overflowed(m, k, ep, mk) /\ k.dead_letter_max_bucket = m.dead_letter_max_bucket
  PROVE  MirrorNoted(l, ep, seals, n + 1, k)
<1>3. IsLedger(m) /\ DOMAIN m.bars = DOMAIN l.bars BY DEF MirrorNoted
<1>4. PICK b : b = s.bar OBVIOUS
<1>2. /\ Tracked(m, b) => \E d : Recorded(m.bars[b], d, s, ep, yes, mk) /\ OnlyBar(m, k, b, d)
      /\ ~HasRoom(m, b) => Overflowed(m, k, ep, mk) /\ k.dead_letter_max_bucket = m.dead_letter_max_bucket
  BY <1>4
<1>5. b \in Bars /\ s.copy \in Nat /\ s.copy \in Copy BY <1>4, SealFacts
<1>6. \A i \in 1..(n + 1) : i \in 1..n \/ i = n + 1 OBVIOUS
<1>7. 1..n \subseteq 1..(n + 1) /\ n + 1 \in 1..(n + 1) OBVIOUS
<1>8. (l.active => m.active) /\ m.disk_epoch >= l.disk_epoch /\ m.dead_letter_max_bucket = l.dead_letter_max_bucket
  BY DEF MirrorNoted
<1>9. m.disk_epoch \in Nat /\ l.disk_epoch \in Nat BY <1>3 DEF IsLedger
<1>10. CASE Tracked(m, b)
  <2>1. PICK e : e = m.bars[b] OBVIOUS
  <2>4. PICK d : Recorded(e, d, s, ep, yes, mk) /\ OnlyBar(m, k, b, d) BY <1>2, <1>10, <2>1
  <2>5. /\ d \in SealEntry /\ d.disk = larger(e.disk, s.copy) /\ d.disk_epoch = larger(e.disk_epoch, ep)
        /\ d.queue_mark = larger(e.queue_mark, mk) /\ d.committed = larger(e.committed, s.copy)
    BY <2>4 DEF Recorded
  <2>6. e \in SealEntry BY <1>3, <1>10, <2>1 DEF IsLedger, Tracked
  <2>7. /\ e.disk \in Nat /\ e.disk_epoch \in Nat /\ e.queue_mark \in Nat /\ e.committed \in Nat
        /\ d.disk \in Nat /\ d.disk_epoch \in Nat /\ d.queue_mark \in Nat /\ d.committed \in Nat
    BY <2>5, <2>6, EntryNumbers
  <2>8. d.disk >= e.disk /\ d.disk >= s.copy BY <1>5, <2>5, <2>7 DEF larger
  <2>9. d.disk_epoch >= e.disk_epoch /\ d.disk_epoch >= ep BY <2>5, <2>7 DEF larger
  <2>10. d.queue_mark >= e.queue_mark BY <2>5, <2>7 DEF larger
  <2>11. d.committed >= e.committed /\ (d.committed = e.committed \/ d.committed = s.copy) BY <1>5, <2>5, <2>7 DEF larger
  <2>12. /\ DOMAIN k.bars = DOMAIN m.bars \cup {b} /\ k.bars[b] = d
         /\ \A x \in DOMAIN m.bars : x # b => k.bars[x] = m.bars[x]
         /\ k.active = m.active /\ k.disk_epoch = m.disk_epoch
         /\ k.dead_letter_max_bucket = m.dead_letter_max_bucket
    BY <2>4 DEF OnlyBar
  <2>13. DOMAIN k.bars = DOMAIN l.bars BY <1>3, <1>10, <2>12 DEF Tracked
  <2>14. MirrorKept(l.bars[b], d)
    <3>1. PICK g : g = l.bars[b] OBVIOUS
    <3>2. MirrorKept(g, e) BY <1>10, <2>1, <3>1 DEF MirrorNoted, Tracked
    <3>3. g \in SealEntry /\ e.disk >= g.disk /\ e.disk_epoch >= g.disk_epoch
          /\ e.queue_mark >= g.queue_mark /\ e.committed >= g.committed
      BY <3>2 DEF MirrorKept
    <3>4. g.disk \in Nat /\ g.disk_epoch \in Nat /\ g.queue_mark \in Nat /\ g.committed \in Nat BY <3>3, EntryNumbers
    <3>5. d.disk >= g.disk /\ d.disk_epoch >= g.disk_epoch BY <2>7, <2>8, <2>9, <3>3, <3>4
    <3>6. d.queue_mark >= g.queue_mark /\ d.committed >= g.committed BY <2>7, <2>10, <2>11, <3>3, <3>4
    <3> QED BY <2>5, <3>1, <3>3, <3>5, <3>6 DEF MirrorKept
  <2>15. \A x \in DOMAIN k.bars : MirrorKept(l.bars[x], k.bars[x])
    <3>1. \A x \in DOMAIN k.bars : x # b => MirrorKept(l.bars[x], m.bars[x]) /\ k.bars[x] = m.bars[x]
      BY <1>3, <2>12, <2>13 DEF MirrorNoted
    <3> QED BY <2>12, <2>14, <3>1
  <2>16. ASSUME NEW x \in DOMAIN k.bars
         PROVE  \/ k.bars[x].committed = l.bars[x].committed
                \/ \E i \in 1..(n + 1) : seals[i].bar = x /\ seals[i].copy = k.bars[x].committed
    <3>1. \/ m.bars[x].committed = l.bars[x].committed
          \/ \E i \in 1..n : seals[i].bar = x /\ seals[i].copy = m.bars[x].committed
      BY <1>3, <2>13 DEF MirrorNoted
    <3>2. CASE k.bars[x].committed = m.bars[x].committed BY <1>7, <3>1, <3>2
    <3>3. CASE x = b /\ k.bars[x].committed = s.copy BY <1>4, <1>7, <3>3
    <3> QED BY <1>3, <2>1, <2>11, <2>12, <2>13, <3>2, <3>3
  <2>17. ASSUME NEW i \in 1..(n + 1), Tracked(k, seals[i].bar)
         PROVE  k.bars[seals[i].bar].disk >= seals[i].copy /\ k.bars[seals[i].bar].disk_epoch >= ep
    <3>1. CASE i = n + 1 BY <1>4, <2>8, <2>9, <2>12, <3>1
    <3>2. CASE i \in 1..n
      <4>1. PICK x : x = seals[i] OBVIOUS
      <4>2. x \in Seal /\ Tracked(m, x.bar) BY <1>3, <2>13, <2>17, <3>2, <4>1 DEF Tracked
      <4>3. m.bars[x.bar].disk >= x.copy /\ m.bars[x.bar].disk_epoch >= ep BY <3>2, <4>1, <4>2 DEF MirrorNoted
      <4>4. CASE x.bar # b BY <2>12, <4>1, <4>2, <4>3, <4>4 DEF Tracked
      <4>5. CASE x.bar = b
        <5>1. x.copy \in Nat BY <4>2, SealFacts
        <5>2. d.disk >= x.copy /\ d.disk_epoch >= ep BY <2>1, <2>7, <2>8, <2>9, <4>3, <4>5, <5>1
        <5> QED BY <2>12, <4>1, <4>5, <5>2
      <4> QED BY <4>4, <4>5
    <3> QED BY <1>6, <3>1, <3>2
  <2>18. (l.active => k.active) /\ k.disk_epoch >= l.disk_epoch /\ k.dead_letter_max_bucket = l.dead_letter_max_bucket
    BY <1>8, <2>12
  <2> QED BY <1>2, <2>13, <2>15, <2>16, <2>17, <2>18 DEF MirrorNoted
<1>11. CASE ~Tracked(m, b)
  <2>1. ~HasRoom(m, b) BY <1>3, <1>4, <1>11 DEF HasRoom, Tracked
  <2>2. IsLedger(k) /\ Overflowed(m, k, ep, mk) /\ k.dead_letter_max_bucket = m.dead_letter_max_bucket
    BY <1>2, <2>1
  <2>3. k.bars = m.bars /\ k.disk_epoch = larger(m.disk_epoch, ep) BY <2>2 DEF Overflowed
  <2>9. k.active BY <2>2 DEF Overflowed
  <2>4. k.disk_epoch >= m.disk_epoch /\ k.disk_epoch \in Nat
    <3>1. PICK x, y : x = m.disk_epoch /\ y = k.disk_epoch OBVIOUS
    <3>2. x \in Nat /\ y = larger(x, ep) BY <1>9, <2>3, <3>1
    <3>3. y >= x /\ y \in Nat BY <3>2 DEF larger
    <3> QED BY <3>1, <3>3
  <2>5. k.disk_epoch >= l.disk_epoch
    <3>1. PICK x, y, z : x = m.disk_epoch /\ y = k.disk_epoch /\ z = l.disk_epoch OBVIOUS
    <3>2. x \in Nat /\ y \in Nat /\ z \in Nat /\ x >= z /\ y >= x BY <1>8, <1>9, <2>4, <3>1
    <3>3. y >= z BY <3>2
    <3> QED BY <3>1, <3>3
  <2>6. k.dead_letter_max_bucket = l.dead_letter_max_bucket BY <1>8, <2>2
  <2>7. \A x \in DOMAIN k.bars : /\ MirrorKept(l.bars[x], k.bars[x])
                                 /\ \/ k.bars[x].committed = l.bars[x].committed
                                    \/ \E i \in 1..(n + 1) : seals[i].bar = x /\ seals[i].copy = k.bars[x].committed
    <3>1. \A x \in DOMAIN m.bars : /\ MirrorKept(l.bars[x], m.bars[x])
                                   /\ \/ m.bars[x].committed = l.bars[x].committed
                                      \/ \E i \in 1..n : seals[i].bar = x /\ seals[i].copy = m.bars[x].committed
      BY DEF MirrorNoted
    <3>2. PICK f : f = k.bars OBVIOUS
    <3>3. \A x \in DOMAIN f : /\ MirrorKept(l.bars[x], f[x])
                              /\ \/ f[x].committed = l.bars[x].committed
                                 \/ \E i \in 1..n : seals[i].bar = x /\ seals[i].copy = f[x].committed
      BY <2>3, <3>1, <3>2
    <3>4. \A x \in DOMAIN f : /\ MirrorKept(l.bars[x], f[x])
                              /\ \/ f[x].committed = l.bars[x].committed
                                 \/ \E i \in 1..(n + 1) : seals[i].bar = x /\ seals[i].copy = f[x].committed
      BY <1>7, <3>3, Zenon
    <3> QED BY <3>2, <3>4, Zenon
  <2>8. \A i \in 1..(n + 1) : Tracked(k, seals[i].bar) => k.bars[seals[i].bar].disk >= seals[i].copy /\ k.bars[seals[i].bar].disk_epoch >= ep
    BY <1>4, <1>6, <1>11, <2>3 DEF MirrorNoted, Tracked
  <2> QED BY <1>3, <2>2, <2>3, <2>5, <2>6, <2>7, <2>8, <2>9 DEF MirrorNoted
<1> QED BY <1>10, <1>11

LEMMA MirrorNotes ==
  ASSUME NEW l, IsLedger(l), NEW ep \in Nat, ep = epoch, NEW mk \in Nat, mk = writer.mark, NEW seals \in Seq(Seal),
         \A s \in ToSet(seals) : Tracked(l, s.bar) \/ ~HasRoom(l, s.bar)
  PROVE  MirrorNoted(l, ep, seals, Len(seals), Mirrored(l, seals))
<1>1. PICK N : N = Len(seals) OBVIOUS
<1>2. N \in Nat /\ \A n \in 1..N : seals[n] \in Seal /\ (Tracked(l, seals[n].bar) \/ ~HasRoom(l, seals[n].bar))
  BY <1>1 DEF ToSet
<1>3. PICK f : MirroredBy(f, l, seals) /\ Mirrored(l, seals) = f[N] BY <1>1, MirroredSteps
<1>4. f[0] = l /\ \A n \in 1..N : f[n] = note_mirrored(f[n - 1], seals[n]) BY <1>1, <1>3 DEF MirroredBy
<1> DEFINE S == {n \in 0..N : MirrorNoted(l, ep, seals, n, f[n])}
<1>5. 0 \in S
  <2>1. ASSUME NEW b \in DOMAIN l.bars PROVE MirrorKept(l.bars[b], l.bars[b])
    <3>1. PICK e : e = l.bars[b] OBVIOUS
    <3>2. e \in SealEntry BY <3>1 DEF IsLedger
    <3>3. MirrorKept(e, e) BY <3>2, EntryNumbers DEF MirrorKept
    <3> QED BY <3>1, <3>3
  <2>2. l.disk_epoch >= l.disk_epoch BY DEF IsLedger
  <2>3. \A i \in 1..0 : FALSE OBVIOUS
  <2>4. MirrorNoted(l, ep, seals, 0, l) BY <2>1, <2>2, <2>3 DEF MirrorNoted
  <2>5. 0 \in 0..N BY <1>2
  <2> QED BY <1>4, <2>4, <2>5
<1>6. ASSUME NEW n \in 0..(N - 1), n \in S PROVE n + 1 \in S
  <2>1. n + 1 \in 1..N /\ (n + 1) - 1 = n /\ n + 1 \in 0..N /\ n \in Nat /\ 1..n \subseteq 1..N BY <1>2
  <2>2. PICK m, s, k, q : m = f[n] /\ s = seals[n + 1] /\ k = f[n + 1] /\ q = seals OBVIOUS
  <2>3. MirrorNoted(l, ep, q, n, m) BY <1>6, <2>2
  <2>4. s \in Seal /\ (\A i \in 1..n : q[i] \in Seal) /\ s = q[n + 1] /\ (Tracked(l, s.bar) \/ ~HasRoom(l, s.bar)) BY <1>2, <2>1, <2>2
  <2>5. k = note_mirrored(m, s) BY <1>4, <2>1, <2>2
  <2>6. PICK no \in BOOLEAN, yes \in BOOLEAN : no = FALSE /\ yes = TRUE OBVIOUS
  <2>8. k = record_on_disk(m, s, ep, no, yes, mk) BY <2>5, <2>6 DEF note_mirrored
  <2>9. IsLedger(m) BY <2>3 DEF MirrorNoted
  <2>11. MirrorOutcome(m, k, s, ep, yes, mk)
    <3>1. ep \in Nat /\ mk \in Nat /\ s \in Seal /\ no \in BOOLEAN /\ yes \in BOOLEAN /\ no = FALSE BY <2>4, <2>6
    <3> QED BY <2>8, <2>9, <3>1, MirrorRecord
  <2>12. /\ IsLedger(k)
         /\ Tracked(m, s.bar) => \E d : Recorded(m.bars[s.bar], d, s, ep, yes, mk) /\ OnlyBar(m, k, s.bar, d)
         /\ ~HasRoom(m, s.bar) => Overflowed(m, k, ep, mk) /\ k.dead_letter_max_bucket = m.dead_letter_max_bucket
    BY <2>11 DEF MirrorOutcome
  <2>13. yes = TRUE BY <2>6
  <2>7. MirrorNoted(l, ep, q, n + 1, k) BY <2>1, <2>3, <2>4, <2>12, <2>13, MirrorOne
  <2> QED BY <2>1, <2>2, <2>7
<1>7. \A n \in 0..N : n \in S
  <2> HIDE DEF S
  <2> QED BY <1>2, <1>5, <1>6, Induction
<1>8. N \in S BY <1>2, <1>7
<1> QED BY <1>1, <1>3, <1>8

\* The ledger m after a batch B of which the copies M are mirrored; u had no room.
Outcome(B, M, l, m, u, ep, mk, busy) ==
  /\ IsLedger(l) /\ IsLedger(m)
  /\ \A b : Tracked(l, b) => Tracked(m, b) /\ MirrorKept(l.bars[b], m.bars[b])
  /\ \A b : Tracked(m, b) => Tracked(l, b) \/ \E s \in B : s.bar = b
  /\ \A b : Tracked(m, b) => \/ m.bars[b].committed = Entry(l, b).committed
                             \/ \E s \in B : s.bar = b /\ s.copy = m.bars[b].committed
  /\ (l.active => m.active) /\ m.disk_epoch >= l.disk_epoch /\ m.dead_letter_max_bucket = l.dead_letter_max_bucket
  /\ \A x \in M : Tracked(l, x.bar) => x.copy > l.bars[x.bar].disk
  /\ \A x \in M : Tracked(m, x.bar) => m.bars[x.bar].disk >= x.copy /\ m.bars[x.bar].disk_epoch >= ep
  /\ \A x \in M : ~Tracked(m, x.bar) => x.bar \in u /\ m.active /\ m.disk_epoch >= ep
  /\ \A s \in B : busy => \/ s.bar \in u
                          \/ Tracked(m, s.bar) /\ m.bars[s.bar].committed >= s.copy /\ m.bars[s.bar].queue_mark >= mk
  /\ \A s \in B : Tracked(l, s.bar) /\ l.bars[s.bar].disk # 0 /\ s.copy > l.bars[s.bar].disk => s \in M
  /\ \A s \in B : ~Tracked(l, s.bar) /\ l.active => \E x \in M : x.bar = s.bar

LEMMA MirrorKeptOn ==
  ASSUME NEW e, NEW d, NEW g, LiveKept(e, d), MirrorKept(d, g)
  PROVE  MirrorKept(e, g)
<1>1. /\ e \in SealEntry /\ d \in SealEntry /\ d.disk = e.disk /\ d.disk_epoch = e.disk_epoch
      /\ d.queue_mark >= e.queue_mark /\ d.committed >= e.committed
  BY DEF LiveKept
<1>2. /\ g \in SealEntry /\ g.disk >= d.disk /\ g.disk_epoch >= d.disk_epoch
      /\ g.queue_mark >= d.queue_mark /\ g.committed >= d.committed
  BY DEF MirrorKept
<1>3. /\ e.disk \in Nat /\ e.disk_epoch \in Nat /\ e.queue_mark \in Nat /\ e.committed \in Nat
      /\ d.disk \in Nat /\ d.disk_epoch \in Nat /\ d.queue_mark \in Nat /\ d.committed \in Nat
      /\ g.disk \in Nat /\ g.disk_epoch \in Nat /\ g.queue_mark \in Nat /\ g.committed \in Nat
  BY <1>1, <1>2, EntryNumbers
<1>4. g.disk >= e.disk /\ g.disk_epoch >= e.disk_epoch BY <1>1, <1>2
<1>5. g.queue_mark >= e.queue_mark BY <1>1, <1>2, <1>3
<1>6. g.committed >= e.committed BY <1>1, <1>2, <1>3
<1> QED BY <1>1, <1>2, <1>4, <1>5, <1>6 DEF MirrorKept

LEMMA NotedOutcome ==
  ASSUME NEW l, IsLedger(l), NEW ep \in Nat, NEW mk \in Nat, NEW busy, NEW seals \in Seq(Seal), NEW k, NEW q \in Seq(Seal),
         NEW u, NEW m, NEW B, B = ToSet(seals), NEW M, M = ToSet(q), M \subseteq B, NEW N, N = Len(seals), NEW n, n = Len(q),
         LiveNoted(l, ep, mk, busy, seals, N, k, M, u), MirrorNoted(k, ep, q, n, m)
  PROVE  Outcome(B, M, l, m, u, ep, mk, busy)
<1>1. \A i \in 1..N : seals[i] \in B BY DEF ToSet
<1>2. \A s \in B : \E i \in 1..N : seals[i] = s BY DEF ToSet
<1>3. \A i \in 1..n : q[i] \in M BY DEF ToSet
<1>4. \A s \in M : \E i \in 1..n : q[i] = s BY DEF ToSet
<1>5. B \subseteq Seal BY SetOfSeq
<1>6. IsLedger(k) /\ IsLedger(m) /\ DOMAIN m.bars = DOMAIN k.bars /\ DOMAIN l.bars \subseteq DOMAIN k.bars
  BY DEF LiveNoted, MirrorNoted
<1>7. \A b : Tracked(m, b) <=> Tracked(k, b) BY <1>6 DEF Tracked
<1>8. ASSUME NEW b, Tracked(l, b) PROVE Tracked(m, b) /\ MirrorKept(l.bars[b], m.bars[b])
  <2>1. Tracked(k, b) BY <1>6, <1>8 DEF Tracked
  <2>2. LiveKept(Entry(l, b), k.bars[b]) BY <2>1 DEF LiveNoted, Tracked
  <2>3. MirrorKept(k.bars[b], m.bars[b]) BY <1>6, <2>1 DEF MirrorNoted, Tracked
  <2>4. Entry(l, b) = l.bars[b] BY <1>8 DEF Entry
  <2>5. PICK e, d, g : e = l.bars[b] /\ d = k.bars[b] /\ g = m.bars[b] OBVIOUS
  <2>6. LiveKept(e, d) /\ MirrorKept(d, g) BY <2>2, <2>3, <2>4, <2>5
  <2>7. MirrorKept(e, g) BY <2>6, MirrorKeptOn
  <2> QED BY <1>7, <2>1, <2>5, <2>7
<1>9. \A b : Tracked(m, b) => Tracked(l, b) \/ \E s \in B : s.bar = b
  <2>1. \A b : Tracked(k, b) => Tracked(l, b) \/ \E i \in 1..N : seals[i].bar = b BY DEF LiveNoted, Tracked
  <2> QED BY <1>1, <1>7, <2>1
<1>10. ASSUME NEW b, Tracked(m, b)
       PROVE  \/ m.bars[b].committed = Entry(l, b).committed
              \/ \E s \in B : s.bar = b /\ s.copy = m.bars[b].committed
  <2>1. b \in DOMAIN k.bars /\ b \in DOMAIN m.bars BY <1>6, <1>10 DEF Tracked
  <2>2. \/ k.bars[b].committed = Entry(l, b).committed
        \/ \E i \in 1..N : seals[i].bar = b /\ seals[i].copy = k.bars[b].committed
    BY <2>1 DEF LiveNoted
  <2>3. \/ m.bars[b].committed = k.bars[b].committed
        \/ \E i \in 1..n : q[i].bar = b /\ q[i].copy = m.bars[b].committed
    BY <2>1 DEF MirrorNoted
  <2> QED BY <1>1, <1>3, <2>2, <2>3
<1>11. /\ l.active => m.active
       /\ m.disk_epoch >= l.disk_epoch /\ m.dead_letter_max_bucket = l.dead_letter_max_bucket
  <2>1. (l.active => k.active) /\ k.dead_letter_max_bucket = l.dead_letter_max_bucket BY DEF LiveNoted
  <2>2. (k.active => m.active) /\ m.dead_letter_max_bucket = k.dead_letter_max_bucket BY DEF MirrorNoted
  <2>3. PICK x, y, z : x = l.disk_epoch /\ y = k.disk_epoch /\ z = m.disk_epoch OBVIOUS
  <2>4. x \in Nat /\ y \in Nat /\ z \in Nat BY <1>6, <2>3 DEF IsLedger
  <2>5. y >= x BY <2>3 DEF LiveNoted
  <2>6. z >= y BY <2>3 DEF MirrorNoted
  <2>7. z >= x BY <2>4, <2>5, <2>6
  <2> QED BY <2>1, <2>2, <2>3, <2>7
<1>12. \A x \in M : Tracked(l, x.bar) => x.copy > l.bars[x.bar].disk BY DEF LiveNoted, MirrorDue
<1>13. \A x \in M : Tracked(m, x.bar) => m.bars[x.bar].disk >= x.copy /\ m.bars[x.bar].disk_epoch >= ep
  BY <1>4 DEF MirrorNoted
<1>14. ASSUME NEW x \in M, ~Tracked(m, x.bar) PROVE x.bar \in u /\ m.active /\ m.disk_epoch >= ep
  <2>1. x.bar \in u /\ k.active /\ k.disk_epoch >= ep BY <1>7, <1>14 DEF LiveNoted, MirrorDue
  <2>2. m.active BY <2>1 DEF MirrorNoted
  <2>3. PICK y, z : y = k.disk_epoch /\ z = m.disk_epoch OBVIOUS
  <2>4. y \in Nat /\ z \in Nat BY <1>6, <2>3 DEF IsLedger
  <2>5. z >= y /\ y >= ep BY <2>1, <2>3 DEF MirrorNoted
  <2>6. z >= ep BY <2>4, <2>5
  <2> QED BY <2>1, <2>2, <2>3, <2>6
<1>15. ASSUME NEW s \in B PROVE SealNoted(l, mk, busy, s, k, M, u)
  <2>1. PICK i \in 1..N : seals[i] = s BY <1>2
  <2>2. SealNoted(l, mk, busy, seals[i], k, M, u) BY DEF LiveNoted
  <2> QED BY <2>1, <2>2
<1>16. ASSUME NEW s \in B, busy
       PROVE  \/ s.bar \in u
              \/ Tracked(m, s.bar) /\ m.bars[s.bar].committed >= s.copy /\ m.bars[s.bar].queue_mark >= mk
  <2>1. SealNoted(l, mk, busy, s, k, M, u) BY <1>15
  <2>2. CASE s.bar \in u BY <2>2
  <2>3. CASE Tracked(k, s.bar) /\ k.bars[s.bar].committed >= s.copy /\ k.bars[s.bar].queue_mark >= mk
    <3>1. PICK d, g : d = k.bars[s.bar] /\ g = m.bars[s.bar] OBVIOUS
    <3>2. MirrorKept(d, g) BY <1>6, <2>3, <3>1 DEF MirrorNoted, Tracked
    <3>3. d \in SealEntry /\ g \in SealEntry /\ g.queue_mark >= d.queue_mark /\ g.committed >= d.committed
      BY <3>2 DEF MirrorKept
    <3>4. d.queue_mark \in Nat /\ d.committed \in Nat /\ g.queue_mark \in Nat /\ g.committed \in Nat BY <3>3, EntryNumbers
    <3>5. s.copy \in Nat BY <1>5, SealFacts
    <3>6. g.committed >= s.copy /\ g.queue_mark >= mk BY <2>3, <3>1, <3>3, <3>4, <3>5
    <3> QED BY <1>7, <2>3, <3>1, <3>6
  <2> QED BY <1>16, <2>1, <2>2, <2>3 DEF SealNoted
<1>17. \A s \in B : Tracked(l, s.bar) /\ l.bars[s.bar].disk # 0 /\ s.copy > l.bars[s.bar].disk => s \in M
  BY <1>15 DEF SealNoted
<1>18. \A s \in B : ~Tracked(l, s.bar) /\ l.active => \E x \in M : x.bar = s.bar BY <1>15 DEF SealNoted
<1> QED BY <1>6, <1>8, <1>9, <1>10, <1>11, <1>12, <1>13, <1>14, <1>16, <1>17, <1>18 DEF Outcome

-----------------------------------------------------------------------------
(* The writer notes what it has committed.                                 *)

\* A batch holds the copies of a bar in their order, and the one now in the database.
Batched ==
  writer.at \in {"committed", "noting"} =>
    /\ Ascending(writer.batch)
    /\ \A s \in ToSet(writer.batch) : \E x \in ToSet(writer.batch) : x.bar = s.bar /\ x.copy = db[s.bar]

\* Of the batch the copies M are mirrored; the ledger had no room for u.
NotedStep(M, u) ==
  /\ writer.at = "noting" /\ writer' = Idle /\ writer.mark \in Nat
  /\ M \subseteq ToSet(writer.batch) /\ ToSet(writer.batch) \subseteq Seal
  /\ OnDisk' = OnDisk \cup M /\ ToSet(live') = ToSet(live) \cup M
  /\ Outcome(ToSet(writer.batch), M, ledger, ledger', u, epoch, writer.mark, writer.queue_busy)
  /\ UNCHANGED <<db, dlq, staged, epoch, retired, best>>
  /\ untracked' = untracked \cup u /\ exposed \subseteq exposed'
  /\ \A m \in M : m.bar \in untracked' /\ m.bar \notin exposed' => ~ (m.copy < best[m.bar])
  /\ \A x \in ToSet(writer.batch), m \in M : x \notin M /\ m.bar = x.bar /\ m.copy < x.copy => x.bar \in exposed'

LEMMA NotedOut ==
  ASSUME SpillInv, KeptInv, writer.at = "noting", NEW q, q = NotedBatch.mirror, NEW u, u = NotedBatch.untracked,
         NEW M, M = ToSet(q), NEW m, m = Mirrored(NotedBatch.l, q)
  PROVE  /\ Outcome(ToSet(writer.batch), M, ledger, m, u, epoch, writer.mark, writer.queue_busy)
         /\ q \in Seq(Seal) /\ M \subseteq ToSet(writer.batch) /\ writer.batch \in Seq(Seal) /\ writer.mark \in Nat
         /\ Follows(q, writer.batch, Len(writer.batch)) /\ q \in Seq(SealsUpTo(sealed))
<1>1. PICK G : G = SealsUpTo(sealed) OBVIOUS
<1>2. Base /\ Reached /\ Claims BY DEF SpillInv
<1>3. q \in Seq(G) /\ M \subseteq ToSet(writer.batch) BY <1>1, <1>2, MirrorFacts
<1>4. G \subseteq Seal BY <1>1 DEF SealsUpTo
<1>5. Seq(G) \subseteq Seq(Seal) BY <1>4, SeqMonotone
<1>6. writer.batch \in Seq(G) /\ writer.mark \in Nat /\ epoch \in Nat BY <1>1, <1>2 DEF Base, InWriter, Indexed
<1>7. /\ IsLedger(ledger) /\ AtMost(ledger, best) /\ best \in [Bars -> Copy]
      /\ \A s \in ToSet(writer.batch) : s.copy <= best[s.bar]
  BY <1>2 DEF Reached, Claims
<1>8. PICK seals, mk, ep, busy, l, B : /\ seals = writer.batch /\ mk = writer.mark /\ ep = epoch /\ busy = writer.queue_busy
                                       /\ l = ledger /\ B = ToSet(writer.batch)
  OBVIOUS
<1>9. seals \in Seq(Seal) /\ q \in Seq(Seal) BY <1>3, <1>5, <1>6, <1>8
<1>10. Follows(q, writer.batch, Len(writer.batch))
  <2>1. writer.batch \in Seq(Seal) BY <1>8, <1>9
  <2>2. Follows(NotedBatch.mirror, writer.batch, Len(writer.batch)) BY <1>6, <1>7, <2>1, NotedAtMost
  <2> QED BY <2>2
<1>11. PICK k : k = NotedBatch.l OBVIOUS
<1>12. LiveNoted(l, ep, mk, busy, seals, Len(seals), k, M, u)
  <2>1. IsLedger(ledger) /\ ledger.dead_letter_max_bucket = 0 BY <1>7 DEF KeptInv, Unfaulted
  <2>2. ep \in Nat /\ mk \in Nat /\ ep = epoch /\ mk = writer.mark /\ busy = writer.queue_busy /\ seals = writer.batch
    BY <1>6, <1>8
  <2>3. LiveNoted(ledger, ep, mk, busy, seals, Len(seals), NotedBatch.l, ToSet(NotedBatch.mirror), NotedBatch.untracked)
    BY <1>9, <2>1, <2>2, BatchNotes
  <2> QED BY <1>8, <1>11, <2>3
<1>13. IsLedger(k) /\ \A s \in M : Tracked(k, s.bar) \/ ~HasRoom(k, s.bar) BY <1>12 DEF LiveNoted, MirrorDue
<1>14. MirrorNoted(k, ep, q, Len(q), m)
  <2>1. ep \in Nat /\ mk \in Nat /\ ep = epoch /\ mk = writer.mark BY <1>6, <1>8
  <2>2. \A s \in ToSet(q) : Tracked(k, s.bar) \/ ~HasRoom(k, s.bar) BY <1>13
  <2>3. MirrorNoted(k, ep, q, Len(q), Mirrored(k, q)) BY <1>9, <1>13, <2>1, <2>2, MirrorNotes
  <2> QED BY <1>11, <2>3
<1>15. PICK N, n : N = Len(seals) /\ n = Len(q) OBVIOUS
<1>16. Outcome(B, M, l, m, u, ep, mk, busy)
  <2>1. ep \in Nat /\ mk \in Nat /\ IsLedger(l) BY <1>6, <1>7, <1>8
  <2>2. B = ToSet(seals) /\ M \subseteq B BY <1>3, <1>8
  <2>3. LiveNoted(l, ep, mk, busy, seals, N, k, M, u) /\ MirrorNoted(k, ep, q, n, m) BY <1>12, <1>14, <1>15
  <2> QED BY <1>9, <1>15, <2>1, <2>2, <2>3, NotedOutcome
<1> QED BY <1>1, <1>3, <1>6, <1>8, <1>9, <1>10, <1>16

LEMMA NotedFacts ==
  ASSUME SpillInv, SpillInv', BestUpdated, KeptInv, NoteLiveCommits, NEW q, q = NotedBatch.mirror,
         NEW u, u = NotedBatch.untracked, NEW M, M = ToSet(q)
  PROVE  /\ NotedStep(M, u) /\ q \in Seq(Seal) /\ live' = live \o q
         /\ Follows(q, writer.batch, Len(writer.batch)) /\ writer.batch \in Seq(Seal)
<1>1. /\ writer.at = "noting" /\ writer' = Idle
      /\ UNCHANGED <<db, dlq, staged, epoch, retired>>
  BY DEF NoteLiveCommits, lineage
<1>2. PICK m : m = Mirrored(NotedBatch.l, q) OBVIOUS
<1>3. /\ live' = live \o q /\ ledger' = m /\ untracked' = untracked \cup u
      /\ exposed' = exposed \cup HalfMirrored(q) \cup Behind(q)
  BY <1>2, Zenon DEF NoteLiveCommits
<1>4. /\ Outcome(ToSet(writer.batch), M, ledger, m, u, epoch, writer.mark, writer.queue_busy)
      /\ q \in Seq(Seal) /\ M \subseteq ToSet(writer.batch) /\ writer.batch \in Seq(Seal) /\ writer.mark \in Nat
      /\ Follows(q, writer.batch, Len(writer.batch)) /\ q \in Seq(SealsUpTo(sealed))
  BY <1>1, <1>2, NotedOut
<1>5. ToSet(live') = ToSet(live) \cup M
  <2>1. PICK a, G : a = live /\ G = SealsUpTo(sealed) OBVIOUS
  <2>2. a \in Seq(G) /\ q \in Seq(G) BY <1>4, <2>1 DEF SpillInv, Base, Records
  <2>3. ToSet(a \o q) = ToSet(a) \cup ToSet(q) BY <2>2, SetOfConcat
  <2> QED BY <1>3, <2>1, <2>3
<1>6. OnDisk' = OnDisk \cup M
  <2>1. \A s : s \in OnDisk' <=> s \in OnDisk \cup M BY <1>1, <1>5, WhereOnDisk
  <2> QED BY <2>1
<1>7. ToSet(writer.batch) \subseteq Seal BY <1>4, SetOfSeq
<1>8. best' = best
  <2>1. \A s \in M : s.copy <= best[s.bar] BY <1>1, <1>4 DEF SpillInv, Claims
  <2>2. ASSUME NEW b \in Bars PROVE best'[b] = best[b]
    <3>1. /\ best[b] \in Nat /\ best'[b] \in Nat /\ best[b] <= best'[b] /\ db[b] <= best[b]
          /\ best'[b] = best[b] \/ best'[b] = db'[b] \/ \E s \in OnDisk' : s.bar = b /\ s.copy = best'[b]
          /\ \A s \in OnDisk : s.copy <= best[s.bar]
      BY BestSource
    <3>2. best'[b] <= best[b] BY <1>1, <1>6, <2>1, <3>1
    <3> QED BY <3>1, <3>2
  <2>3. best \in [Bars -> Copy] /\ best' \in [Bars -> Copy] BY BestSource
  <2> QED BY <2>2, <2>3
<1>9. \A x \in M : x.bar \in untracked' /\ x.bar \notin exposed' => ~ (x.copy < best[x.bar])
  BY <1>3 DEF Behind
<1>10. \A x \in ToSet(writer.batch), y \in M : x \notin M /\ y.bar = x.bar /\ y.copy < x.copy => x.bar \in exposed'
  <2>1. \A x \in ToSet(writer.batch), y \in M : x \notin M /\ y.bar = x.bar /\ y.copy < x.copy => x.bar \in HalfMirrored(q)
    BY DEF HalfMirrored
  <2> QED BY <1>3, <2>1
<1>11. NotedStep(M, u) BY <1>1, <1>3, <1>4, <1>5, <1>6, <1>7, <1>8, <1>9, <1>10 DEF NotedStep
<1> QED BY <1>3, <1>4, <1>11

LEMMA BatchSeals ==
  ASSUME SpillInv, KeptInv, NEW M, NEW u, NotedStep(M, u), NEW s \in ToSet(writer.batch)
  PROVE  s \in Seal /\ s.bar \in Bars /\ s.copy \in Nat /\ s.copy <= best[s.bar] /\ s.bar \notin retired
<1>1. s \in Seal /\ writer.at = "noting" BY DEF NotedStep
<1>2. s.copy <= best[s.bar] BY <1>1 DEF SpillInv, Claims
<1>3. s.bar \notin retired BY <1>1 DEF KeptInv, Current
<1> QED BY <1>1, <1>2, <1>3, SealFacts

\* Mirrored are all copies of a bar or none, unless the bar counts as exposed.
LEMMA MirrorBest ==
  ASSUME SpillInv, KeptInv, NEW M, NEW u, NotedStep(M, u), NEW b \in Bars \ exposed',
         NEW x \in M, x.bar = b, BestOf(b) \in ToSet(writer.batch)
  PROVE  BestOf(b) \in M
<1>1. x \in ToSet(writer.batch) BY DEF NotedStep
<1>2. x \in Seal /\ x.copy \in Nat /\ x.copy <= best[b] BY <1>1, BatchSeals
<1>3. BestOf(b).bar = b /\ BestOf(b).copy = best[b] BY DEF BestOf
<1>4. best[b] \in Nat BY HeldSeals
<1>5. CASE x.copy = best[b]
  <2>1. x = BestOf(b) BY <1>2, <1>5, SealFacts DEF BestOf
  <2> QED BY <2>1
<1>6. CASE x.copy < best[b] BY <1>3, <1>6 DEF NotedStep
<1> QED BY <1>2, <1>4, <1>5, <1>6

\* A copy that is mirrored is at least as full as what is on disk of its bar.
LEMMA MirrorAbove ==
  ASSUME SpillInv, KeptInv, NEW M, NEW u, NotedStep(M, u), NEW b \in Bars \ exposed',
         NEW x \in M, x.bar = b, NEW y \in OnDisk, y.bar = b
  PROVE  y.copy <= x.copy
<1>1. x \in ToSet(writer.batch) /\ b \notin exposed BY DEF NotedStep
<1>2. x \in Seal /\ x.copy \in Nat /\ x.copy <= best[b] /\ b \notin retired BY <1>1, BatchSeals
<1>3. y \in Seal
  <2>1. OnDisk \subseteq SealsUpTo(sealed) BY OnDiskFacts DEF SpillInv, Base, Records
  <2> QED BY <2>1 DEF SealsUpTo
<1>4. y.copy \in Nat BY <1>3, SealFacts
<1>5. BarInv(b) BY <1>1 DEF KeptInv
<1>6. CASE Tracked(ledger, b)
  <2>1. PICK e : e = ledger.bars[b] OBVIOUS
  <2>2. y.copy <= e.disk BY <1>5, <1>6, <2>1 DEF BarInv, Bounded
  <2>3. e \in SealEntry BY <1>6, <2>1 DEF SpillInv, Claims, IsLedger, Tracked
  <2>4. e.disk \in Nat BY <2>3, EntryNumbers
  <2>5. x.copy > e.disk BY <1>6, <2>1 DEF NotedStep, Outcome
  <2> QED BY <1>2, <1>4, <2>2, <2>4, <2>5
<1>7. CASE ~Tracked(ledger, b)
  <2>1. OnFile(b) BY DEF OnFile
  <2>2. b \in untracked BY <1>2, <1>5, <1>7, <2>1 DEF BarInv, Known
  <2>3. b \in untracked' BY <2>2 DEF NotedStep
  <2>4. ~ (x.copy < best[b]) BY <2>3 DEF NotedStep
  <2>5. y.copy <= best[b] /\ best[b] \in Nat BY HeldSeals DEF SpillInv, Reached
  <2> QED BY <1>2, <1>4, <2>4, <2>5
<1> QED BY <1>6, <1>7

LEMMA FollowsRising ==
  ASSUME NEW q \in Seq(Seal), NEW seals \in Seq(Seal), Ascending(seals), NEW n, n = Len(seals), Follows(q, seals, n), NEW b
  PROVE  Rising(q, b)
<1>1. DOMAIN seals = 1..n /\ \A p \in 1..n : seals[p] \in Seal OBVIOUS
<1>2. \A p \in 1..n : seals[p].copy \in Nat BY <1>1, SealFacts
<1>3. DOMAIN q \subseteq Nat /\ \A i \in DOMAIN q : q[i] \in Seal
  <2>1. PICK k : k = Len(q) OBVIOUS
  <2>2. DOMAIN q = 1..k /\ \A p \in 1..k : q[p] \in Seal BY <2>1
  <2> QED BY <2>2
<1>4. \A i \in DOMAIN q : q[i].copy \in Nat BY <1>3, SealFacts
<1>5. ASSUME NEW i \in DOMAIN q, NEW j \in DOMAIN q, i <= j, q[i].bar = b, q[j].bar = b
      PROVE  q[i].copy <= q[j].copy
  <2>1. CASE i = j BY <1>4, <2>1
  <2>2. CASE i < j
    <3>1. PICK p \in 1..n, r \in 1..n : p < r /\ q[i] = seals[p] /\ q[j] = seals[r] BY <2>2 DEF Follows
    <3>2. seals[p].copy < seals[r].copy BY <1>1, <1>5, <3>1 DEF Ascending
    <3> QED BY <1>2, <3>1, <3>2
  <2> QED BY <1>3, <1>5, <2>1, <2>2
<1> QED BY <1>5 DEF Rising

LEMMA NotedEntry ==
  ASSUME NEW M, NEW u, NotedStep(M, u), NEW b, Tracked(ledger, b), NEW e, e = ledger.bars[b], NEW d, d = ledger'.bars[b]
  PROVE  /\ Tracked(ledger', b) /\ e \in SealEntry /\ d \in SealEntry
         /\ d.disk >= e.disk /\ d.disk_epoch >= e.disk_epoch /\ d.queue_mark >= e.queue_mark /\ d.committed >= e.committed
         /\ d.disk \in Nat /\ e.disk \in Nat /\ d.disk_epoch \in Nat /\ e.disk_epoch \in Nat
         /\ d.queue_mark \in Nat /\ e.queue_mark \in Nat /\ d.committed \in Nat /\ e.committed \in Nat
<1>1. Tracked(ledger', b) /\ MirrorKept(e, d) BY DEF NotedStep, Outcome
<1>2. /\ e \in SealEntry /\ d \in SealEntry
      /\ d.disk >= e.disk /\ d.disk_epoch >= e.disk_epoch /\ d.queue_mark >= e.queue_mark /\ d.committed >= e.committed
  BY <1>1 DEF MirrorKept
<1> QED BY <1>1, <1>2, EntryNumbers

\* What is noted leaves a bar as the invariant wants it.
LEMMA NotedBar ==
  ASSUME SpillInv, SpillInv', KeptInv, Batched, NEW M, NEW u, NotedStep(M, u), NEW q \in Seq(Seal), M = ToSet(q),
         live' = live \o q, NEW b \in Bars \ exposed', Rising(q, b)
  PROVE  BarInv(b)'
<1>1. /\ writer.at = "noting" /\ writer' = Idle /\ M \subseteq ToSet(writer.batch)
      /\ OnDisk' = OnDisk \cup M /\ ToSet(live') = ToSet(live) \cup M
      /\ UNCHANGED <<db, dlq, staged, epoch, retired, best>> /\ untracked' = untracked \cup u
      /\ exposed \subseteq exposed'
  BY DEF NotedStep
<1>2. BarInv(b) BY <1>1 DEF KeptInv
<1>3. /\ \A x : Tracked(ledger, x) => Tracked(ledger', x)
      /\ \A x : Tracked(ledger', x) => Tracked(ledger, x) \/ \E s \in ToSet(writer.batch) : s.bar = x
      /\ \A x : Tracked(ledger', x) => \/ ledger'.bars[x].committed = Entry(ledger, x).committed
                                       \/ \E s \in ToSet(writer.batch) : s.bar = x /\ s.copy = ledger'.bars[x].committed
      /\ (ledger.active => ledger'.active) /\ ledger'.disk_epoch >= ledger.disk_epoch
  BY DEF NotedStep, Outcome
<1>4. /\ \A x \in M : Tracked(ledger', x.bar) => ledger'.bars[x.bar].disk >= x.copy /\ ledger'.bars[x.bar].disk_epoch >= epoch
      /\ \A x \in M : ~Tracked(ledger', x.bar) => x.bar \in u /\ ledger'.active /\ ledger'.disk_epoch >= epoch
  BY DEF NotedStep, Outcome
<1>5. /\ \A s \in ToSet(writer.batch) :
            Tracked(ledger, s.bar) /\ ledger.bars[s.bar].disk # 0 /\ s.copy > ledger.bars[s.bar].disk => s \in M
      /\ \A s \in ToSet(writer.batch) : ~Tracked(ledger, s.bar) /\ ledger.active => \E x \in M : x.bar = s.bar
      /\ IsLedger(ledger) /\ IsLedger(ledger')
  BY DEF NotedStep, Outcome
<1>6. ASSUME NEW x \in M, x.bar = b, NEW y \in OnDisk, y.bar = b PROVE y.copy <= x.copy
  BY <1>6, MirrorAbove
<1>7. \A x \in M : x \in Seal /\ x.copy \in Nat /\ x.bar \notin retired BY <1>1, BatchSeals
<1>8. /\ best[b] \in Nat /\ db[b] \in Nat /\ OnDisk \subseteq Seal
  <2>1. OnDisk \subseteq SealsUpTo(sealed) BY OnDiskFacts DEF SpillInv, Base, Records
  <2>2. OnDisk \subseteq Seal BY <2>1 DEF SealsUpTo
  <2>3. db[b] \in Nat BY SealFacts DEF SpillInv, Base, Tables
  <2> QED BY <2>2, <2>3, HeldSeals
<1>9. epoch \in Nat /\ ledger.disk_epoch \in Nat /\ ledger'.disk_epoch \in Nat
  BY <1>5 DEF IsLedger, SpillInv, Base, Indexed
<1>10. \A i \in DOMAIN staged : ToSet(staged[i].records) \subseteq OnDisk BY DEF OnDisk
<1>11. ToSet(live) \subseteq OnDisk BY DEF OnDisk
<1>12. BestOf(b)' = BestOf(b) /\ BestOf(b).bar = b /\ BestOf(b).copy = best[b] BY <1>1 DEF BestOf
<1>13. Arranged(b)'
  <2>1. /\ \A i \in DOMAIN staged : Rising(staged[i].records, b) /\ Below(staged[i].records, live, b)
        /\ \A i, j \in DOMAIN staged : i < j => Below(staged[i].records, staged[j].records, b)
        /\ Rising(live, b)
    BY <1>2 DEF BarInv, Arranged
  <2>2. ASSUME NEW i \in DOMAIN staged PROVE Below(staged[i].records, live', b)
    BY <1>1, <1>6, <1>10, <2>1 DEF Below
  <2>3. Rising(live', b)
    <3>1. PICK a : a = live OBVIOUS
    <3>2. a \in Seq(Seal)
      <4>1. PICK G : G = SealsUpTo(sealed) OBVIOUS
      <4>2. G \subseteq Seal BY <4>1 DEF SealsUpTo
      <4>3. live \in Seq(G) BY <4>1 DEF SpillInv, Base, Records
      <4> QED BY <3>1, <4>2, <4>3, SeqMonotone
    <3>3. Below(a, q, b) BY <1>6, <1>11, <3>1 DEF Below
    <3>4. Rising(a, b) BY <2>1, <3>1
    <3>5. Rising(a \o q, b) BY <3>2, <3>3, <3>4, RisingConcat
    <3> QED BY <3>1, <3>5
  <2> QED BY <1>1, <2>1, <2>2, <2>3 DEF Arranged
<1>14. Reachable(b)'
  <2>1. PICK s : s = BestOf(b) OBVIOUS
  <2>2. Unread(s) => Unread(s)' BY <1>1 DEF Unread
  <2> QED BY <1>1, <1>2, <1>12, <2>1, <2>2 DEF BarInv, Reachable
<1>15. Backed(b)'
  <2> SUFFICES ASSUME OnFile(b)' PROVE BestOf(b) \in OnDisk \cup M BY <1>1, <1>12 DEF Backed
  <2>1. CASE OnFile(b) /\ Pending(b)
    <3>1. BestOf(b) \in ToSet(writer.batch) /\ (Tracked(ledger, b) => ledger.bars[b].disk < best[b]) BY <2>1 DEF Pending
    <3>2. PICK y \in OnDisk : y.bar = b BY <2>1 DEF OnFile
    <3>3. CASE Tracked(ledger, b)
      <4>1. PICK e : e = ledger.bars[b] OBVIOUS
      <4>2. y.copy <= e.disk BY <1>2, <3>2, <3>3, <4>1 DEF BarInv, Bounded
      <4>3. e.disk \in Nat
        <5>1. e \in SealEntry BY <1>5, <3>3, <4>1 DEF IsLedger, Tracked
        <5> QED BY <5>1, EntryNumbers
      <4>4. y.copy \in Nat /\ y.copy # 0
        <5>1. y \in Seal BY <1>8
        <5>2. y.copy \in 1..MaxCopies BY <5>1 DEF Seal
        <5> QED BY <5>2
      <4>5. e.disk # 0 /\ best[b] > e.disk BY <1>8, <3>1, <3>3, <4>1, <4>2, <4>3, <4>4
      <4> QED BY <1>5, <1>12, <3>1, <3>3, <4>1, <4>5
    <3>4. CASE ~Tracked(ledger, b)
      <4>1. b \notin retired BY <1>12, <3>1, BatchSeals
      <4>2. ledger.active BY <1>2, <2>1, <3>4, <4>1 DEF BarInv, Known
      <4>3. PICK x \in M : x.bar = b BY <1>5, <1>12, <3>1, <3>4, <4>2
      <4>4. BestOf(b) \in M BY <3>1, <4>3, MirrorBest
      <4> QED BY <4>4
    <3> QED BY <3>3, <3>4
  <2>2. CASE OnFile(b) /\ ~Pending(b) BY <1>2, <2>2 DEF BarInv, Backed
  <2>3. CASE ~OnFile(b)
    <3>1. PICK x \in M : x.bar = b BY <1>1, <2>3 DEF OnFile
    <3>2. BestOf(b) \notin OnDisk BY <1>12, <2>3 DEF OnFile
    <3>3. ~Unread(BestOf(b)) BY <3>2, UnreadOnDisk
    <3>4. db[b] = best[b] BY <1>2, <3>3 DEF BarInv, Reachable
    <3>5. PICK y \in ToSet(writer.batch) : y.bar = b /\ y.copy = db[b] BY <1>1, <3>1 DEF Batched
    <3>6. y \in Seal BY <3>5, BatchSeals
    <3>7. y = BestOf(b) BY <3>4, <3>5, <3>6, SealFacts DEF BestOf
    <3>8. BestOf(b) \in M BY <3>1, <3>5, <3>7, MirrorBest
    <3> QED BY <3>8
  <2> QED BY <2>1, <2>2, <2>3
<1>16. Known(b)'
  <2> SUFFICES ASSUME b \notin retired
               PROVE  /\ b \in BarsOf(live') => \/ Tracked(ledger', b) /\ ledger'.bars[b].disk_epoch >= epoch
                                                \/ b \in untracked' /\ ledger'.active /\ ledger'.disk_epoch >= epoch
                      /\ OnFile(b)' => Tracked(ledger', b) \/ ledger'.active
                      /\ OnFile(b)' /\ ~Tracked(ledger', b) => b \in untracked'
    BY <1>1 DEF Known
  <2>1. /\ b \in BarsOf(live) => \/ Tracked(ledger, b) /\ ledger.bars[b].disk_epoch >= epoch
                                 \/ b \in untracked /\ ledger.active /\ ledger.disk_epoch >= epoch
        /\ OnFile(b) => Tracked(ledger, b) \/ ledger.active
        /\ OnFile(b) /\ ~Tracked(ledger, b) => b \in untracked
    BY <1>2 DEF BarInv, Known
  <2>2. ASSUME NEW x \in M, x.bar = b
        PROVE  \/ b \in u /\ ledger'.active /\ ledger'.disk_epoch >= epoch
               \/ Tracked(ledger', b) /\ ledger'.bars[b].disk_epoch >= epoch
    BY <1>4, <2>2
  <2>3. b \in BarsOf(live') => b \in BarsOf(live) \/ \E s \in M : s.bar = b BY <1>1 DEF BarsOf
  <2>4. OnFile(b)' => OnFile(b) \/ \E s \in M : s.bar = b BY <1>1 DEF OnFile
  <2>5. ASSUME b \in BarsOf(live)
        PROVE  \/ Tracked(ledger', b) /\ ledger'.bars[b].disk_epoch >= epoch
               \/ b \in untracked' /\ ledger'.active /\ ledger'.disk_epoch >= epoch
    <3>1. CASE Tracked(ledger, b) /\ ledger.bars[b].disk_epoch >= epoch
      <4>1. PICK e, d : e = ledger.bars[b] /\ d = ledger'.bars[b] OBVIOUS
      <4>2. d.disk_epoch >= e.disk_epoch /\ d.disk_epoch \in Nat /\ e.disk_epoch \in Nat BY <3>1, <4>1, NotedEntry
      <4> QED BY <1>3, <1>9, <3>1, <4>1, <4>2
    <3>2. CASE b \in untracked /\ ledger.active /\ ledger.disk_epoch >= epoch BY <1>1, <1>3, <1>9, <3>2
    <3> QED BY <2>1, <2>5, <3>1, <3>2
  <2>6. OnFile(b)' => Tracked(ledger', b) \/ ledger'.active BY <1>3, <2>1, <2>2, <2>4
  <2>7. OnFile(b)' /\ ~Tracked(ledger', b) => b \in untracked' BY <1>1, <1>3, <2>1, <2>2, <2>4
  <2> QED BY <1>1, <2>2, <2>3, <2>5, <2>6, <2>7
<1>17. Bounded(b)'
  <2> SUFFICES ASSUME Tracked(ledger', b), NEW y \in OnDisk', y.bar = b PROVE y.copy <= ledger'.bars[b].disk
    BY DEF Bounded
  <2>1. CASE y \in M
    <3>1. PICK d : d = ledger'.bars[b].disk OBVIOUS
    <3>2. d >= y.copy BY <1>4, <2>1, <3>1
    <3>3. d \in Nat
      <4>1. ledger'.bars[b] \in SealEntry BY <1>5 DEF IsLedger, Tracked
      <4> QED BY <3>1, <4>1, EntryNumbers
    <3> QED BY <1>7, <2>1, <3>1, <3>2, <3>3
  <2>2. CASE y \in OnDisk /\ Tracked(ledger, b)
    <3>1. PICK e, d : e = ledger.bars[b] /\ d = ledger'.bars[b] OBVIOUS
    <3>2. y.copy <= e.disk BY <1>2, <2>2, <3>1 DEF BarInv, Bounded
    <3>3. d.disk >= e.disk /\ d.disk \in Nat /\ e.disk \in Nat BY <2>2, <3>1, NotedEntry
    <3>4. y.copy \in Nat BY <1>8, <2>2, SealFacts
    <3> QED BY <3>1, <3>2, <3>3, <3>4
  <2>3. CASE y \in OnDisk /\ ~Tracked(ledger, b)
    <3>1. PICK s \in ToSet(writer.batch) : s.bar = b BY <1>3, <2>3
    <3>2. b \notin retired BY <3>1, BatchSeals
    <3>3. OnFile(b) BY <2>3 DEF OnFile
    <3>4. ledger.active BY <1>2, <2>3, <3>2, <3>3 DEF BarInv, Known
    <3>5. PICK x \in M : x.bar = b BY <1>5, <2>3, <3>1, <3>4
    <3>6. y.copy <= x.copy BY <1>6, <2>3, <3>5
    <3>7. PICK d : d = ledger'.bars[b].disk OBVIOUS
    <3>8. d >= x.copy BY <1>4, <3>5, <3>7
    <3>9. d \in Nat
      <4>1. ledger'.bars[b] \in SealEntry BY <1>5 DEF IsLedger, Tracked
      <4> QED BY <3>7, <4>1, EntryNumbers
    <3>10. y.copy \in Nat /\ x.copy \in Nat BY <1>7, <1>8, <2>3, SealFacts
    <3> QED BY <3>6, <3>7, <3>8, <3>9, <3>10
  <2> QED BY <1>1, <2>1, <2>2, <2>3
<1>18. Stored(b)'
  <2>1. ASSUME Tracked(ledger', b) PROVE ledger'.bars[b].committed <= db[b]
    <3>1. CASE \E s \in ToSet(writer.batch) : s.bar = b /\ s.copy = ledger'.bars[b].committed
      BY <1>1, <1>2, <3>1 DEF BarInv, Stored, Busy
    <3>2. CASE ledger'.bars[b].committed = Entry(ledger, b).committed /\ Tracked(ledger, b)
      <4>1. Entry(ledger, b) = ledger.bars[b] BY <3>2 DEF Entry
      <4> QED BY <1>2, <3>2, <4>1 DEF BarInv, Stored
    <3>3. CASE ledger'.bars[b].committed = Entry(ledger, b).committed /\ ~Tracked(ledger, b)
      <4>1. Entry(ledger, b).committed = 0 BY <3>3 DEF Entry, NoEntry
      <4> QED BY <1>8, <3>3, <4>1
    <3> QED BY <1>3, <2>1, <3>1, <3>2, <3>3
  <2>2. writer'.at \notin Busy BY <1>1 DEF Idle, Busy
  <2> QED BY <1>1, <2>1, <2>2 DEF Stored
<1>19. Reading(b)'
  <2>1. writer'.at # "replayed" BY <1>1 DEF Idle
  <2> QED BY <2>1 DEF Reading
<1> QED BY <1>13, <1>14, <1>15, <1>16, <1>17, <1>18, <1>19 DEF BarInv

LEMMA NotedRefused ==
  ASSUME SpillInv, KeptInv, NEW M, NEW u, NotedStep(M, u), NEW s \in Seal, NEW mark \in Nat, Refused(s, mark)
  PROVE  Refused(s, mark)'
<1>1. PICK b : b = s.bar OBVIOUS
<1>2. b \in Bars /\ s.copy \in Nat BY <1>1, SealFacts
<1>3. /\ writer.at = "noting" /\ writer.mark \in Nat /\ best' = best /\ untracked' = untracked \cup u /\ exposed \subseteq exposed'
  BY DEF NotedStep
<1> SUFFICES ASSUME b \notin exposed', s.copy < best[b]
             PROVE  \/ b \in untracked'
                    \/ /\ Tracked(ledger', b) /\ s.copy < fullest(ledger'.bars[b])
                       /\ ledger'.bars[b].queue_mark >= mark
  BY <1>1, <1>3 DEF Refused
<1>4. CASE b \in untracked BY <1>3, <1>4
<1>5. CASE Tracked(ledger, b) /\ s.copy < fullest(ledger.bars[b]) /\ ledger.bars[b].queue_mark >= mark
  <2>1. PICK e, d : e = ledger.bars[b] /\ d = ledger'.bars[b] OBVIOUS
  <2>2. /\ Tracked(ledger', b) /\ e \in SealEntry /\ d \in SealEntry
        /\ d.disk >= e.disk /\ d.queue_mark >= e.queue_mark /\ d.committed >= e.committed
        /\ d.disk \in Nat /\ e.disk \in Nat /\ d.queue_mark \in Nat /\ e.queue_mark \in Nat /\ d.committed \in Nat /\ e.committed \in Nat
    BY <1>5, <2>1, NotedEntry
  <2>3. fullest(d) >= fullest(e) BY <2>2 DEF fullest, larger
  <2>4. fullest(d) \in Nat /\ fullest(e) \in Nat BY <2>2, EntryNumbers
  <2>5. s.copy < fullest(d) BY <1>2, <1>5, <2>1, <2>3, <2>4
  <2>6. d.queue_mark >= mark BY <1>5, <2>1, <2>2
  <2> QED BY <2>1, <2>2, <2>5, <2>6
<1>6. CASE Pending(b) /\ writer.queue_busy /\ writer.mark >= mark
  <2>1. PICK x : x = BestOf(b) OBVIOUS
  <2>2. x \in ToSet(writer.batch) /\ x.bar = b /\ x.copy = best[b] BY <1>6, <2>1 DEF Pending, BestOf
  <2>3. \/ x.bar \in u
        \/ Tracked(ledger', x.bar) /\ ledger'.bars[x.bar].committed >= x.copy /\ ledger'.bars[x.bar].queue_mark >= writer.mark
    BY <1>6, <2>2 DEF NotedStep, Outcome
  <2>4. CASE b \in u BY <1>3, <2>4
  <2>5. CASE Tracked(ledger', b) /\ ledger'.bars[b].committed >= best[b] /\ ledger'.bars[b].queue_mark >= writer.mark
    <3>1. PICK d : d = ledger'.bars[b] OBVIOUS
    <3>2. IsLedger(ledger') BY DEF NotedStep, Outcome
    <3>3. d \in SealEntry BY <2>5, <3>1, <3>2 DEF IsLedger, Tracked
    <3>4. d.committed \in Nat /\ d.disk \in Nat /\ d.queue_mark \in Nat BY <3>3, EntryNumbers
    <3>5. fullest(d) >= d.committed /\ fullest(d) \in Nat BY <3>4 DEF fullest, larger
    <3>6. best[b] \in Nat BY <1>2, HeldSeals
    <3>7. s.copy < fullest(d) BY <1>2, <2>5, <3>1, <3>4, <3>5, <3>6
    <3>8. d.queue_mark >= mark BY <1>3, <1>6, <2>5, <3>1, <3>4
    <3> QED BY <2>5, <3>1, <3>7, <3>8
  <2> QED BY <2>2, <2>3, <2>4, <2>5
<1> QED BY <1>1, <1>3, <1>4, <1>5, <1>6 DEF Refused

LEMMA KeptNoteLiveCommits ==
  ASSUME SpillInv, SpillInv', BestUpdated, KeptInv, Batched, NoteLiveCommits
  PROVE  KeptInv'
<1>1. /\ UNCHANGED <<db, dlq, staged, epoch, retired, boot, sealed, channel, ring, queue, todo, dead, unnoted>>
      /\ UNCHANGED <<escalation_pending, escalation_finished, run_len>> /\ writer' = Idle /\ writer.at = "noting"
  BY DEF NoteLiveCommits, lineage, memory
<1>2. PICK q, u : q = NotedBatch.mirror /\ u = NotedBatch.untracked OBVIOUS
<1>3. PICK M : M = ToSet(q) OBVIOUS
<1>4. /\ NotedStep(M, u) /\ q \in Seq(Seal) /\ live' = live \o q
      /\ Follows(q, writer.batch, Len(writer.batch)) /\ writer.batch \in Seq(Seal)
  BY <1>2, <1>3, NotedFacts
<1>5. todo \in [Threads -> Seq(Seal)] /\ queue \in Seq(Seal) BY HeldSeals
<1>6. Held' = Held BY <1>1 DEF Held
<1>7. Unfaulted'
  <2>1. ledger'.dead_letter_max_bucket = ledger.dead_letter_max_bucket BY <1>4 DEF NotedStep, Outcome
  <2> QED BY <1>1, <2>1 DEF KeptInv, Unfaulted
<1>8. Booting' /\ InRead'
  <2>1. writer'.at = "idle" BY <1>1 DEF Idle
  <2> QED BY <2>1 DEF Booting, InRead
<1>9. Current'
  <2>1. writer'.at = "idle" BY <1>1 DEF Idle
  <2> QED BY <1>1, <1>6, <2>1 DEF KeptInv, Current
<1>10. Onward'
  <2>1. exposed \subseteq exposed' BY <1>4 DEF NotedStep
  <2> QED BY <1>1, <2>1 DEF KeptInv, Onward
<1>11. Escalated'
  <2>1. PICK r, base, run, rest : r = queue /\ base = escalation_finished /\ run = run_len /\ rest = todo["escalation"] OBVIOUS
  <2>2. run \in Nat /\ base \in Nat BY <2>1 DEF SpillInv, Base, Counters
  <2>3. ASSUME NEW i \in DOMAIN r PROVE Refused(r[i], base + run + i)'
    <3>1. r[i] \in Seal /\ i \in Nat BY <1>5, <2>1
    <3>2. base + run + i \in Nat BY <2>2, <3>1
    <3>3. Refused(r[i], base + run + i) BY <2>1 DEF KeptInv, Escalated
    <3> QED BY <1>4, <3>1, <3>2, <3>3, NotedRefused
  <2>4. ASSUME NEW s \in ToSet(rest) PROVE Refused(s, base + 1)'
    <3>1. s \in Seal BY <1>5, <2>1, SetOfSeq DEF Threads
    <3>2. base + 1 \in Nat BY <2>2
    <3>3. Refused(s, base + 1) BY <2>1 DEF KeptInv, Escalated
    <3> QED BY <1>4, <3>1, <3>2, <3>3, NotedRefused
  <2> QED BY <1>1, <2>1, <2>3, <2>4 DEF Escalated
<1>12. ASSUME NEW b \in Bars \ exposed' PROVE BarInv(b)'
  <2>1. PICK seals : seals = writer.batch OBVIOUS
  <2>2. PICK n : n = Len(seals) OBVIOUS
  <2>3. Ascending(seals) BY <1>1, <2>1 DEF Batched
  <2>4. seals \in Seq(Seal) /\ Follows(q, seals, n) BY <1>4, <2>1, <2>2
  <2>5. Rising(q, b) BY <1>4, <2>2, <2>3, <2>4, FollowsRising
  <2> QED BY <1>3, <1>4, <2>5, NotedBar
<1> QED BY <1>7, <1>8, <1>9, <1>10, <1>11, <1>12 DEF KeptInv

-----------------------------------------------------------------------------
(* Every step of a run without faults keeps the invariant.                 *)

FullInv == KeptInv /\ Drained /\ Batched

LEMMA SideFrame ==
  ASSUME SpillInv, SpillInv', BestUpdated, Drained, Batched, UNCHANGED <<summary, boot>>,
         \/ writer' = writer /\ db' = db /\ (writer.at = "boot" => staged' = staged)
         \/ writer'.at \notin {"boot", "committed", "noting"}
  PROVE  Drained' /\ Batched'
<1>1. writer'.at # "boot" \/ (writer' = writer /\ staged' = staged) OBVIOUS
<1>2. Drained' BY <1>1, DrainedFrame
<1>3. CASE writer' = writer /\ db' = db BY <1>2, <1>3 DEF Batched
<1>4. CASE writer'.at \notin {"committed", "noting"} BY <1>2, <1>4 DEF Batched
<1> QED BY <1>2, <1>3, <1>4

LEMMA SidesProduce ==
  ASSUME SpillInv, SpillInv', BestUpdated, Drained, Batched, NEW b, SendToWriter(b) \/ EscalateQueued(b) \/ EscalateInline(b)
  PROVE  Drained' /\ Batched'
<1>1. UNCHANGED <<summary, boot>> /\ writer' = writer /\ db' = db /\ staged' = staged
  BY DEF SendToWriter, EscalateQueued, EscalateInline, disk
<1> QED BY <1>1, SideFrame

LEMMA SidesEscalate ==
  ASSUME SpillInv, SpillInv', BestUpdated, Drained, Batched, NEW n, NEW t, TakeRun(n) \/ FinishRun \/ AppendSeals(t)
  PROVE  Drained' /\ Batched'
<1>1. UNCHANGED <<summary, boot>> /\ writer' = writer /\ db' = db /\ staged' = staged
  BY DEF TakeRun, FinishRun, AppendSeals, disk
<1> QED BY <1>1, SideFrame

LEMMA SidesWriter ==
  ASSUME SpillInv, SpillInv', BestUpdated, Drained, Batched, NEW n, TakeChannel \/ Rescue(n) \/ Rescued \/ NoteLiveCommits
  PROVE  Drained' /\ Batched'
<1>1. CASE TakeChannel
  <2>1. UNCHANGED <<summary, boot>> /\ writer' = writer /\ db' = db /\ staged' = staged BY <1>1 DEF TakeChannel, disk
  <2> QED BY <2>1, SideFrame
<1>2. CASE Rescue(n)
  <2>1. UNCHANGED <<summary, boot>> /\ writer'.at = "rescuing" BY <1>2 DEF Rescue, disk
  <2> QED BY <2>1, SideFrame
<1>3. CASE Rescued
  <2>1. UNCHANGED <<summary, boot>> /\ writer'.at = "idle" BY <1>3 DEF Rescued, disk, Idle
  <2> QED BY <2>1, SideFrame
<1>4. CASE NoteLiveCommits
  <2>1. UNCHANGED <<summary, boot>> /\ writer'.at = "idle" BY <1>4 DEF NoteLiveCommits, Idle
  <2> QED BY <2>1, SideFrame
<1> QED BY <1>1, <1>2, <1>3, <1>4

LEMMA SidesReplay ==
  ASSUME SpillInv, SpillInv', BestUpdated, Drained, Batched, NEW i, NEW n, NEW moved,
         \/ StageLive(moved) \/ Replay(i, n) \/ NoteReplayCommits \/ Archive(i) \/ Suspect \/ Trust \/ Forget
  PROVE  Drained' /\ Batched'
<1>1. CASE StageLive(moved) \/ Archive(i) \/ Suspect \/ Trust \/ Forget
  <2>1. UNCHANGED <<summary, boot>> /\ writer' = writer /\ db' = db /\ writer = Idle
    BY <1>1 DEF StageLive, Archive, Suspect, Trust, Forget, MayReplay, disk
  <2>2. writer.at # "boot" BY <2>1 DEF Idle
  <2> QED BY <2>1, <2>2, SideFrame
<1>2. CASE Replay(i, n)
  <2>1. UNCHANGED <<summary, boot>> /\ writer'.at = "replayed" BY <1>2 DEF Replay, disk
  <2> QED BY <2>1, SideFrame
<1>3. CASE NoteReplayCommits
  <2>1. UNCHANGED <<summary, boot>> /\ writer'.at = "idle" BY <1>3 DEF NoteReplayCommits, Idle
  <2> QED BY <2>1, SideFrame
<1> QED BY <1>1, <1>2, <1>3

\* A batch that is flushed: the ring holds the copies of a bar in their order.
LEMMA SidesFlushOk ==
  ASSUME SpillInv, SpillInv', BestUpdated, Drained, NEW n \in 1..Len(ring), FlushOk(n)
  PROVE  Drained' /\ Batched'
<1>1. PICK a, z, G : a = SubSeq(ring, 1, n) /\ z = SubSeq(ring, n + 1, Len(ring)) /\ G = SealsUpTo(sealed) OBVIOUS
<1>2. UNCHANGED <<summary, boot>> /\ writer' = [at |-> "committed", batch |-> a] /\ db' = Upsert(db, a)
  BY <1>1 DEF FlushOk, disk
<1>3. writer'.at = "committed" /\ writer'.batch = a BY <1>2
<1>4. Base BY DEF SpillInv
<1>5. a \in Seq(G) /\ Ascending(a) BY <1>1, <1>4, RingFacts
<1>6. G \subseteq Seal BY <1>1 DEF SealsUpTo
<1>7. a \in Seq(Seal) /\ db \in [Bars -> Copy] BY <1>4, <1>5, <1>6, SeqMonotone DEF Base, Tables
<1>8. PICK t, new : t = db /\ new = db' OBVIOUS
<1>9. UpsertedBy(t, a, new)
  <2>1. UpsertedBy(t, a, Upsert(t, a)) BY <1>7, <1>8, Upserts
  <2> QED BY <1>2, <1>8, <2>1
<1>10. ASSUME NEW s \in ToSet(a) PROVE \E x \in ToSet(a) : x.bar = s.bar /\ x.copy = new[s.bar]
  <2>1. s.bar \in BarsOf(a) BY DEF BarsOf
  <2>2. PICK i \in DOMAIN a : a[i].bar = s.bar /\ new[s.bar] = a[i].copy BY <1>9, <2>1 DEF UpsertedBy
  <2>3. a[i] \in ToSet(a) BY DEF ToSet
  <2> QED BY <2>2, <2>3
<1>11. Batched' BY <1>3, <1>5, <1>8, <1>10 DEF Batched
<1>12. Drained' BY <1>2, <1>3, DrainedFrame
<1> QED BY <1>11, <1>12

LEMMA SidesReadQueue ==
  ASSUME SpillInv, SpillInv', BestUpdated, Drained, Batched, ReadQueue
  PROVE  Drained' /\ Batched'
<1>1. UNCHANGED <<summary, boot>> /\ db' = db /\ writer.at = "committed" BY DEF ReadQueue, disk
<1>2. PICK w, busy, mk : w = writer.batch /\ busy = (escalation_pending > 0) /\ mk = QueueMark OBVIOUS
<1>3. writer' = Idle \/ writer' = [at |-> "noting", batch |-> w, queue_busy |-> busy, mark |-> mk]
  BY <1>2 DEF ReadQueue
<1>4. writer'.at = "idle" \/ (writer'.at = "noting" /\ writer'.batch = w) BY <1>3 DEF Idle
<1>5. Drained' BY <1>1, <1>4, DrainedFrame
<1>6. Batched' BY <1>1, <1>2, <1>4 DEF Batched
<1> QED BY <1>5, <1>6

LEMMA SidesBoot ==
  ASSUME NEW refused, Crash \/ BootFlushed(refused) \/ BootEnds
  PROVE  Batched'
<1>1. CASE Crash
  <2>1. writer'.at = "boot" BY <1>1 DEF Crash
  <2> QED BY <2>1 DEF Batched
<1>2. CASE BootFlushed(refused)
  <2>1. writer'.at = "boot" BY <1>2 DEF BootFlushed
  <2> QED BY <2>1 DEF Batched
<1>3. CASE BootEnds
  <2>1. writer'.at = "idle" BY <1>3 DEF BootEnds, Idle
  <2> QED BY <2>1 DEF Batched
<1> QED BY <1>1, <1>2, <1>3

\* With nothing dead-lettered and no fault these steps are not taken.
LEMMA NoFaults ==
  ASSUME KeptInv, scenario.faults = {}
  PROVE  /\ \A t \in Threads : ~BelowFloor(t) /\ ~DeadLetter(t) /\ ~NoteDeadLettered(t) /\ ~DeadLetterFails(t)
         /\ \A t, n, opened : ~AppendFails(t, n, opened)
         /\ \A landed : ~MirrorFails(landed)
         /\ \A i : ~Skip(i)
         /\ ~BootUnreadable /\ \A n : ~BootHalts(n)
<1>1. \A x : x \notin scenario.faults OBVIOUS
<1>2. \A t \in Threads : ~BelowFloor(t) BY <1>1 DEF BelowFloor
<1>3. \A t \in Threads : ~DeadLetter(t) /\ ~NoteDeadLettered(t) /\ ~DeadLetterFails(t)
  BY DEF KeptInv, Unfaulted, DeadLetter, NoteDeadLettered, DeadLetterFails, Empty
<1>4. \A t, n, opened : ~AppendFails(t, n, opened) BY <1>1 DEF AppendFails
<1>5. \A landed : ~MirrorFails(landed) BY <1>1 DEF MirrorFails
<1>6. \A i : ~Skip(i) BY <1>1 DEF Skip
<1>7. ~BootUnreadable /\ \A n : ~BootHalts(n) BY <1>1 DEF BootUnreadable, BootHalts
<1> QED BY <1>2, <1>3, <1>4, <1>5, <1>6, <1>7

LEMMA FullSteps ==
  ASSUME SpillInv, SpillInv', BestUpdated, Steps, scenario.faults = {}, FullInv
  PROVE  FullInv'
<1>1. KeptInv /\ Drained /\ Batched BY DEF FullInv
<1> SUFFICES KeptInv' /\ Drained' /\ Batched' BY DEF FullInv
<1>2. CASE \E b \in Bars : SendToWriter(b) \/ EscalateQueued(b) \/ EscalateInline(b)
  <2>1. PICK b \in Bars : SendToWriter(b) \/ EscalateQueued(b) \/ EscalateInline(b) BY <1>2
  <2>2. KeptInv' BY <1>1, <2>1, KeptSendToWriter, KeptEscalateQueued, KeptEscalateInline
  <2>3. Drained' /\ Batched' BY <1>1, <2>1, SidesProduce
  <2> QED BY <2>2, <2>3
<1>3. CASE \E n \in 1..Len(queue) : TakeRun(n)
  <2>1. PICK n \in 1..Len(queue) : TakeRun(n) BY <1>3
  <2>2. KeptInv' BY <1>1, <2>1, KeptTakeRun
  <2>3. Drained' /\ Batched' BY <1>1, <2>1, SidesEscalate
  <2> QED BY <2>2, <2>3
<1>4. CASE FinishRun
  <2>1. KeptInv' BY <1>1, <1>4, KeptFinishRun
  <2>2. Drained' /\ Batched' BY <1>1, <1>4, SidesEscalate
  <2> QED BY <2>1, <2>2
<1>5. CASE \E t \in Threads : AppendSeals(t)
  <2>1. PICK t \in Threads : AppendSeals(t) BY <1>5
  <2>2. KeptInv' BY <1>1, <2>1, KeptAppendSeals
  <2>3. Drained' /\ Batched' BY <1>1, <2>1, SidesEscalate
  <2> QED BY <2>2, <2>3
<1>6. CASE \E n \in 1..Len(ring) : FlushOk(n) \/ Rescue(n)
  <2>1. PICK n \in 1..Len(ring) : FlushOk(n) \/ Rescue(n) BY <1>6
  <2>2. KeptInv' BY <1>1, <2>1, KeptFlushOk, KeptRescue
  <2>3. Drained' /\ Batched' BY <1>1, <2>1, SidesFlushOk, SidesWriter
  <2> QED BY <2>2, <2>3
<1>7. CASE TakeChannel \/ Rescued \/ NoteLiveCommits
  <2>1. KeptInv' BY <1>1, <1>7, KeptTakeChannel, KeptRescued, KeptNoteLiveCommits
  <2>2. Drained' /\ Batched' BY <1>1, <1>7, SidesWriter
  <2> QED BY <2>1, <2>2
<1>8. CASE ReadQueue BY <1>1, <1>8, KeptReadQueue, SidesReadQueue
<1>9. CASE \E moved \in BOOLEAN : StageLive(moved)
  <2>1. PICK moved \in BOOLEAN : StageLive(moved) BY <1>9
  <2>2. KeptInv' BY <1>1, <2>1, KeptStageLive
  <2>3. Drained' /\ Batched' BY <1>1, <2>1, SidesReplay
  <2> QED BY <2>2, <2>3
<1>10. CASE \E i \in DOMAIN staged : \E n \in 1..Len(staged[i].records) : Replay(i, n)
  <2>1. PICK i \in DOMAIN staged : \E n \in 1..Len(staged[i].records) : Replay(i, n) BY <1>10
  <2>2. PICK n \in 1..Len(staged[i].records) : Replay(i, n) BY <2>1
  <2>3. n \in Nat OBVIOUS
  <2>4. KeptInv' BY <1>1, <2>2, <2>3, KeptReplay
  <2>5. Drained' /\ Batched' BY <1>1, <2>2, SidesReplay
  <2> QED BY <2>4, <2>5
<1>11. CASE \E i \in DOMAIN staged : Archive(i)
  <2>1. PICK i \in DOMAIN staged : Archive(i) BY <1>11
  <2>2. KeptInv' BY <1>1, <2>1, KeptArchive
  <2>3. Drained' /\ Batched' BY <1>1, <2>1, SidesReplay
  <2> QED BY <2>2, <2>3
<1>12. CASE NoteReplayCommits \/ Suspect \/ Trust \/ Forget
  <2>1. KeptInv' BY <1>1, <1>12, KeptNoteReplayCommits, KeptSuspect, KeptTrust, KeptForget
  <2>2. Drained' /\ Batched' BY <1>1, <1>12, SidesReplay
  <2> QED BY <2>1, <2>2
<1>13. CASE Crash
  <2>1. KeptInv' BY <1>1, <1>13, KeptCrash
  <2>2. Unfaulted BY <1>1 DEF KeptInv
  <2>3. Drained' BY <1>1, <1>13, <2>2, DrainedCrash
  <2>4. Batched' BY <1>13, SidesBoot
  <2> QED BY <2>1, <2>3, <2>4
<1>14. CASE \E refused \in SUBSET Bars : BootFlushed(refused)
  <2>1. PICK refused \in SUBSET Bars : BootFlushed(refused) BY <1>14
  <2>2. KeptInv' /\ Drained' BY <1>1, <2>1, KeptBootFlushed
  <2>3. Batched' BY <2>1, SidesBoot
  <2> QED BY <2>2, <2>3
<1>15. CASE BootEnds
  <2>1. KeptInv' /\ Drained' BY <1>1, <1>15, KeptBootEnds
  <2>2. Batched' BY <1>15, SidesBoot
  <2> QED BY <2>1, <2>2
<1>16. /\ \A t \in Threads : ~BelowFloor(t) /\ ~DeadLetter(t) /\ ~NoteDeadLettered(t) /\ ~DeadLetterFails(t)
       /\ \A t, n, opened : ~AppendFails(t, n, opened)
       /\ \A landed : ~MirrorFails(landed)
       /\ \A i : ~Skip(i)
       /\ ~BootUnreadable /\ \A n : ~BootHalts(n)
  BY <1>1, NoFaults
<1> QED BY <1>2, <1>3, <1>4, <1>5, <1>6, <1>7, <1>8, <1>9, <1>10, <1>11, <1>12, <1>13, <1>14, <1>15, <1>16, Zenon
   DEF Steps

LEMMA FullInit ==
  ASSUME Init
  PROVE  FullInv
<1>1. PICK none : none = <<>> OBVIOUS
<1>2. ToSet(none) = {} /\ DOMAIN none = {} BY <1>1, SetOfSeq
<1>3. /\ channel = none /\ ring = none /\ queue = none /\ live = none /\ dlq = none /\ staged = none
      /\ unnoted = {} /\ writer.at = "idle" /\ ledger = EmptyLedger
  BY <1>1 DEF Init, Idle
<1>4. \A t \in Threads : todo[t] = none /\ dead[t] = none BY <1>1 DEF Init
<1>5. DOMAIN ledger.bars = {} /\ ledger.dead_letter_max_bucket = 0 BY <1>3 DEF EmptyLedger
<1>6. \A b \in Bars : sealed[b] = 0 /\ db[b] = 0 /\ best[b] = 0 /\ summary[b] = 0 BY NothingIsTable DEF Init
<1>7. OnDisk = {} BY <1>2, <1>3 DEF OnDisk
<1>8. Held = {}
  <2>1. UNION {ToSet(todo[t]) \cup ToSet(dead[t]) : t \in Threads} = {} BY <1>2, <1>4
  <2> QED BY <1>2, <1>3, <2>1 DEF Held
<1>9. Unfaulted BY <1>1, <1>2, <1>3, <1>4, <1>5 DEF Unfaulted
<1>10. Booting /\ InRead BY <1>3 DEF Booting, InRead
<1>11. Current BY <1>3, <1>8 DEF Current
<1>12. Onward
  <2>1. todo["writer"] = none /\ todo["producer"] = none /\ todo["escalation"] = none BY <1>4 DEF Threads
  <2> QED BY <1>2, <1>3, <2>1 DEF Onward, Ascending, Precede
<1>13. Escalated
  <2>1. todo["escalation"] = none BY <1>4 DEF Threads
  <2> QED BY <1>2, <1>3, <2>1 DEF Escalated
<1>14. ASSUME NEW b \in Bars PROVE BarInv(b)
  <2>1. Arranged(b) BY <1>2, <1>3 DEF Arranged, Rising
  <2>2. Reachable(b) BY <1>6 DEF Reachable
  <2>3. ~OnFile(b) BY <1>7 DEF OnFile
  <2>4. ~Tracked(ledger, b) BY <1>5 DEF Tracked
  <2>5. b \notin BarsOf(live) BY <1>2, <1>3 DEF BarsOf
  <2>6. Backed(b) /\ Known(b) BY <2>3, <2>5 DEF Backed, Known
  <2>7. Bounded(b) /\ Stored(b) /\ Reading(b) BY <1>3, <2>4 DEF Bounded, Stored, Reading, Busy
  <2> QED BY <2>1, <2>2, <2>6, <2>7 DEF BarInv
<1>15. KeptInv BY <1>9, <1>10, <1>11, <1>12, <1>13, <1>14 DEF KeptInv
<1>16. Drained
  <2>1. boot = [written |-> NothingWritten, committed |-> NothingWritten, next |-> 1, left |-> FALSE] BY DEF Init
  <2>2. boot.written = NothingWritten /\ boot.committed = NothingWritten BY <2>1
  <2>3. \A b \in Bars : NothingWritten[b] = 0 BY DEF NothingWritten
  <2> QED BY <1>3, <1>6, <2>2, <2>3 DEF Drained
<1>17. Batched BY <1>3 DEF Batched
<1> QED BY <1>15, <1>16, <1>17 DEF FullInv

LEMMA ScenarioFixed ==
  ASSUME Steps
  PROVE  scenario' = scenario
<1>1. \A b : SendToWriter(b) \/ EscalateQueued(b) \/ EscalateInline(b) => scenario' = scenario
  BY DEF SendToWriter, EscalateQueued, EscalateInline, course
<1>2. \A n, t : TakeRun(n) \/ FinishRun \/ AppendSeals(t) \/ BelowFloor(t) => scenario' = scenario
  BY DEF TakeRun, FinishRun, AppendSeals, BelowFloor, course
<1>3. \A t, n, opened : AppendFails(t, n, opened) => scenario' = scenario BY DEF AppendFails, course
<1>4. \A t : DeadLetter(t) \/ NoteDeadLettered(t) \/ DeadLetterFails(t) => scenario' = scenario
  BY DEF DeadLetter, NoteDeadLettered, DeadLetterFails, course
<1>5. \A n : FlushOk(n) \/ Rescue(n) \/ TakeChannel \/ Rescued \/ ReadQueue => scenario' = scenario
  BY DEF FlushOk, Rescue, TakeChannel, Rescued, ReadQueue, course
<1>6. \A n : NoteLiveCommits \/ MirrorFails(n) => scenario' = scenario BY DEF NoteLiveCommits, MirrorFails, course
<1>7. \A i, n, moved : StageLive(moved) \/ Replay(i, n) \/ NoteReplayCommits => scenario' = scenario
  BY DEF StageLive, Replay, NoteReplayCommits, course
<1>8. \A i : Archive(i) \/ Skip(i) \/ Suspect \/ Trust \/ Forget => scenario' = scenario
  BY DEF Archive, Skip, Suspect, Trust, Forget, course
<1>9. \A n : Crash \/ BootFlushed(n) \/ BootUnreadable \/ BootEnds \/ BootHalts(n) => scenario' = scenario
  BY DEF Crash, BootFlushed, BootUnreadable, BootEnds, BootHalts, course
<1> QED BY <1>1, <1>2, <1>3, <1>4, <1>5, <1>6, <1>7, <1>8, <1>9, Zenon DEF Steps

LEMMA FullStep ==
  ASSUME SpillInv, SpillInv', scenario.faults = {} => FullInv, [Next]_vars
  PROVE  (scenario.faults = {} => FullInv)'
<1>1. scenario' = scenario
  <2>1. CASE UNCHANGED vars BY <2>1 DEF vars, course
  <2>2. CASE Next
    <3>1. Steps BY <2>2 DEF Next
    <3> QED BY <3>1, ScenarioFixed
  <2> QED BY <2>1, <2>2
<1> SUFFICES ASSUME scenario.faults = {} PROVE FullInv' BY <1>1
<1>2. FullInv OBVIOUS
<1>3. CASE UNCHANGED vars
  BY <1>2, <1>3 DEF vars, lineage, memory, index, disk, course, ghosts, FullInv, KeptInv, Unfaulted, Booting, Current, Onward,
     Escalated, InRead, Drained, Batched, BarInv, Arranged, Reachable, Backed, Known, Bounded, Stored, Reading, Refused,
     Pending, BestOf, OnFile, Unread, Held, OnDisk
<1>4. CASE Next
  <2>1. BestUpdated /\ Steps BY <1>4 DEF Next, BestUpdated
  <2> QED BY <1>2, <2>1, FullSteps
<1> QED BY <1>3, <1>4

\* The fullest copy of a bar that ever reached the database or the disk is in the
\* database or still on disk, however often the process crashes, whatever arrives
\* in the channel while it replays and in whatever order it archives: when nothing
\* but crashes goes wrong, for every bar that none of the five steps listed at
\* FullestKept has exposed.
THEOREM FullestCopyKept == Spec => []FullestKept
<1>1. Init => SpillInv /\ FullInv BY SpillInit, FullInit
<1>2. SpillInv /\ [Next]_vars => SpillInv' BY SpillStep
<1>3. SpillInv /\ SpillInv' /\ (scenario.faults = {} => FullInv) /\ [Next]_vars => (scenario.faults = {} => FullInv)'
  BY FullStep
<1>4. SpillInv /\ (scenario.faults = {} => FullInv) => FullestKept
  <2> SUFFICES ASSUME FullInv, NEW b \in Bars \ exposed PROVE db[b] = best[b] \/ [bar |-> b, copy |-> best[b]] \in OnDisk
    BY DEF FullestKept
  <2>1. Reachable(b) BY DEF FullInv, KeptInv, BarInv
  <2>2. Unread(BestOf(b)) => BestOf(b) \in OnDisk BY UnreadOnDisk
  <2> QED BY <2>1, <2>2 DEF Reachable, BestOf
<1> QED BY <1>1, <1>2, <1>3, <1>4, PTL DEF Spec
=============================================================================
