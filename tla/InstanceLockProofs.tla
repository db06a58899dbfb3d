------------------------- MODULE InstanceLockProofs -------------------------
(***************************************************************************)
(* The lock excludes: for any number of processes, any delays and clocks   *)
(* within the environment's bounds, no two processes have their flag set,  *)
(* and what a holder stored is never overwritten or deleted by another.    *)
(*                                                                         *)
(* Neither is inductive.  A takeover is believed after a settle and a      *)
(* read-back, so what matters is the write of a rival that decided on the  *)
(* same stale value and is still on its way: Rival bounds the time it has  *)
(* left by the time left until the read-back.  And no new rival may decide *)
(* against a holder: Own bounds, for every step of a process that has the  *)
(* lock, the age of its stored heartbeat, through a takeover, the beats it *)
(* missed, a renewal in flight and a release.  The bounds add up to        *)
(* OldestHeartbeat, which EnvironmentAssumption sets against the TTL.      *)
(***************************************************************************)
EXTENDS InstanceLock, TLAPS

\* Where a process has its flag set, and where the stored value is its own.
Holding == {"beat"} \cup Renewing
Owning == Holding \cup Releasing

\* The time of n beats.
Beats(n) == n * HeartbeatInterval

\* The age of the heartbeat that a takeover is believed with, by the clock that
\* stamped it, and the age it has when its holder has missed all it may.
TakenAge == PutDelay + MaxWindow + Settle + GetDelay
MissedAge == TakenAge + Beats(MaxFailures + 1)

\* The ranges of a process's clocks and of its failed renewals.
Spans == 0..2 * PutDelay + GetDelay
BeatTimes == 0..HeartbeatInterval
Failures == 0..MaxFailures

\* The records of a process, and the stored values.
ProcType ==
    [step : Steps, left : Int, lag : Spans, window : Spans, beat : BeatTimes,
     read_v : Nat, put_v : Nat, held : BOOLEAN, held_attempt : Nat, held_wait : Nat,
     ssm_attempt : Nat, consecutive : Failures]

LockType == [host_id : Hosts \cup {Previous}, version : Nat, age : -Spread..OldAge]

\* What holds of a process by itself: its flag, and the clocks of an attempt and
\* of a renewal against the time left.
BootTimes(p) ==
    /\ p.step = "claim" => p.lag + p.left <= PutDelay
    /\ p.step = "read" => /\ p.lag + p.left <= PutDelay + GetDelay
                          /\ p.window + p.left <= GetDelay
                          /\ p.lag <= PutDelay + p.window
    /\ p.step = "put" => /\ p.left <= PutDelay
                         /\ p.lag + p.left <= 2 * PutDelay + GetDelay
                         /\ p.window + p.left <= PutDelay + GetDelay
                         /\ p.lag <= PutDelay + p.window
    /\ p.step = "answer" => p.window + p.left <= 2 * PutDelay + GetDelay

RenewTimes(p) ==
    /\ p.step \in Renewing =>
          /\ p.beat <= RenewTimeout
          /\ p.consecutive >= MaxFailures => p.left >= 0
    /\ p.step = "renew_read" => (p.left >= 0 => p.beat + p.left <= GetDelay)
    /\ p.step = "renew_put" => /\ p.lag <= p.beat
                               /\ p.left >= 0 => /\ p.lag + p.left <= PutDelay
                                                 /\ p.beat + p.left <= GetDelay + PutDelay

Local(p) ==
    /\ p.held <=> p.step \in Holding
    /\ p.step \notin Renewing => p.left >= 0
    /\ p.step = "renew_put" => p.read_v > 0
    /\ p.step = "renew_back" => p.read_v > 0 /\ p.put_v = p.read_v + 1
    /\ BootTimes(p)
    /\ RenewTimes(p)

\* What holds of a process g that has the lock, or whose takeover may yet be
\* believed: the value is its own, and its heartbeat no older than its step allows.
Standing(g, p, l) == l.host_id = g /\ p.window <= MaxWindow

Own(g, p, l, a) ==
    /\ p.step \in Owning => l.version # 0 /\ l.host_id = g
    /\ p.step = "renew_put" => p.read_v = l.version
    /\ p.step = "renew_back" => p.put_v = l.version /\ l.age + a <= p.beat
    /\ p.step = "beat" => l.age + a <= TakenAge + Beats(p.consecutive) + p.beat
    /\ p.step \in Renewing =>
          l.age + a <= TakenAge + HeartbeatInterval + Beats(p.consecutive) + p.beat
    /\ p.step = "release_read" => l.age + a <= MissedAge + GetDelay - p.left
    /\ p.step = "release_delete" => l.age + a <= MissedAge + GetDelay + PutDelay - p.left
    /\ Standing(g, p, l) =>
          /\ p.step = "answer" => l.age + a <= PutDelay + p.window
          /\ p.step = "settle" => l.age + a <= PutDelay + p.window + Settle - p.left
          /\ p.step = "readback" =>
                l.age + a <= PutDelay + p.window + Settle + GetDelay - p.left

\* A write of another process h that is still to come finds g without the lock, and
\* lands before g's read-back.
Rival(g, p, q, l) ==
    q.step = "put" =>
        /\ p.step \notin Owning
        /\ Standing(g, p, l) =>
              /\ p.step = "answer" => q.left <= p.left
              /\ p.step = "settle" => q.left + Settle <= PutDelay + p.left
              /\ p.step # "readback"

\* The inductive invariant.
Inv ==
    /\ lock \in LockType /\ ahead \in [Hosts -> 0..Spread] /\ proc \in [Hosts -> ProcType]
    /\ \A g \in Hosts : Local(proc[g]) /\ Own(g, proc[g], lock, ahead[g])
    /\ \A g, h \in Hosts : g # h => Rival(g, proc[g], proc[h], lock)
    /\ lock.version = 0 => \A h \in Hosts : proc[h].step # "put"

-----------------------------------------------------------------------------
(* The constants, and the time of n beats.                                 *)

\* The constants are natural numbers, and a renewal ends before the next beat.
LEMMA ConstantTypes ==
    /\ Ttl \in Nat /\ HeartbeatInterval \in Nat /\ RenewTimeout \in Nat /\ Settle \in Nat
    /\ MaxWindow \in Nat /\ MaxClockSkew \in Nat /\ BackoffBase \in Nat /\ BackoffCap \in Nat
    /\ Patience \in Nat /\ Spread \in Nat /\ PutDelay \in Nat /\ GetDelay \in Nat
    /\ MaxFailures \in Nat /\ MaxErrors \in Nat
    /\ RenewTimeout < HeartbeatInterval
  BY InstanceLockAssumption

\* The time of n beats is a natural number,
LEMMA BeatsType == ASSUME NEW n \in Nat PROVE Beats(n) \in Nat
  BY ConstantTypes DEF Beats

\* one more takes one more interval,
LEMMA BeatsNext == ASSUME NEW n \in Nat PROVE Beats(n + 1) = Beats(n) + HeartbeatInterval
  BY ConstantTypes DEF Beats

\* and a missed beat more is still within the beats a holder may miss.
LEMMA BeatsBound ==
    ASSUME NEW n \in 0..MaxFailures
    PROVE  Beats(n) + HeartbeatInterval <= Beats(MaxFailures + 1)
  <1>1. PICK k \in Nat : MaxFailures = n + k
    <2>1. MaxFailures - n \in Nat /\ MaxFailures = n + (MaxFailures - n)
      BY ConstantTypes
    <2> QED BY <2>1
  <1>2. k * HeartbeatInterval >= 0
    BY ConstantTypes
  <1>3. Beats(MaxFailures + 1) = n * HeartbeatInterval + k * HeartbeatInterval + HeartbeatInterval
    BY <1>1, ConstantTypes DEF Beats
  <1> QED BY <1>2, <1>3, ConstantTypes DEF Beats

\* No clock sees the heartbeat of an owner older than the TTL.
LEMMA AgeBound ==
    /\ TakenAge \in Nat /\ MissedAge \in Nat
    /\ TakenAge <= MissedAge
    /\ MissedAge + GetDelay + PutDelay + Spread <= Ttl
    /\ 2 * PutDelay + GetDelay <= OldAge
    /\ OldAge \in Nat
    /\ PutDelay < Settle
  <1>1. Beats(MaxFailures + 1) \in Nat
    BY ConstantTypes, BeatsType
  <1>2. OldestHeartbeat = MissedAge + GetDelay + PutDelay + Spread
    BY <1>1, ConstantTypes DEF OldestHeartbeat, MissedAge, TakenAge, Beats
  <1>3. TakenAge \in Nat /\ MissedAge = TakenAge + Beats(MaxFailures + 1)
    BY <1>1, ConstantTypes DEF MissedAge, TakenAge
  <1>4. 2 * PutDelay + GetDelay <= MissedAge + GetDelay + PutDelay
    BY <1>1, ConstantTypes DEF MissedAge, TakenAge
  <1> QED BY <1>1, <1>2, <1>3, <1>4, ConstantTypes, EnvironmentAssumption DEF OldAge

\* A back-off is a number of seconds (dhan_rest_stack_backoff_secs).
LEMMA BackoffType ==
    ASSUME NEW n \in Nat, n > 0 PROVE dhan_rest_stack_backoff_secs(n) \in Nat
  <1> DEFINE k == IF n > 7 THEN 7 ELSE n
             power == <<1, 2, 4, 8, 16, 32, 64>>[k]
  <1>1. k \in 1..7
    OBVIOUS
  <1>2. power \in Nat
    <2>1. CASE k = 1 BY <2>1
    <2>2. CASE k = 2 BY <2>2
    <2>3. CASE k = 3 BY <2>3
    <2>4. CASE k = 4 BY <2>4
    <2>5. CASE k = 5 BY <2>5
    <2>6. CASE k = 6 BY <2>6
    <2>7. CASE k = 7 BY <2>7
    <2> QED BY <1>1, <2>1, <2>2, <2>3, <2>4, <2>5, <2>6, <2>7
  <1> HIDE DEF k
  <1>3. BackoffBase * power \in Nat
    <2> HIDE DEF power
    <2> QED BY <1>2, ConstantTypes
  <1> QED BY <1>3, ConstantTypes DEF dhan_rest_stack_backoff_secs, k

-----------------------------------------------------------------------------
(* What a step of one process leaves to be shown.                          *)

Quiet == {"off", "parked", "lost", "gone", "claim", "read", "wait"}

\* A process that has nothing and awaits nothing claims nothing of the value,
LEMMA QuietOwns ==
    ASSUME NEW g, NEW p, NEW l, NEW a, p.step \in Quiet
    PROVE  Own(g, p, l, a)
  BY DEF Own, Quiet, Owning, Holding, Renewing, Releasing

\* and is no rival and has none.
LEMMA QuietRival ==
    ASSUME NEW g, NEW p, NEW q, NEW l, p.step \in Quiet
    PROVE  Rival(g, p, q, l) /\ Rival(g, q, p, l)
  BY DEF Rival, Quiet, Owning, Holding, Renewing, Releasing

\* A step that leaves the parameter alone.
LEMMA BecomesKeeps ==
    ASSUME Inv, NEW h \in Hosts, NEW p \in ProcType, Becomes(h, p),
           Local(p), Own(h, p, lock, ahead[h]),
           \A g \in Hosts : g # h => Rival(g, proc[g], p, lock) /\ Rival(h, p, proc[g], lock),
           p.step = "put" => lock.version # 0
    PROVE  Inv'
  <1>1. /\ lock' = lock /\ ahead' = ahead
        /\ proc' \in [Hosts -> ProcType]
        /\ proc'[h] = p
        /\ \A g \in Hosts : g # h => proc'[g] = proc[g]
    BY DEF Becomes, Inv
  <1>2. (lock \in LockType /\ ahead \in [Hosts -> 0..Spread] /\ proc \in [Hosts -> ProcType])'
    BY <1>1 DEF Inv, LockType, OldAge
  <1>3. ASSUME NEW g \in Hosts
        PROVE  Local(proc'[g]) /\ Own(g, proc'[g], lock', ahead'[g])
    <2>1. CASE g = h
      BY <1>1, <2>1
    <2>2. CASE g # h
      BY <1>1, <2>2 DEF Inv
    <2> QED BY <2>1, <2>2
  <1>4. ASSUME NEW g \in Hosts, NEW k \in Hosts, g # k
        PROVE  Rival(g, proc'[g], proc'[k], lock')
    <2>1. CASE g = h
      BY <1>1, <1>4, <2>1
    <2>2. CASE k = h
      BY <1>1, <1>4, <2>2
    <2>3. CASE g # h /\ k # h
      BY <1>1, <1>4, <2>3 DEF Inv
    <2> QED BY <2>1, <2>2, <2>3
  <1>5. ASSUME NEW k \in Hosts, lock'.version = 0 PROVE proc'[k].step # "put"
    <2>1. CASE k = h
      BY <1>1, <1>5, <2>1
    <2>2. CASE k # h
      BY <1>1, <1>5, <2>2 DEF Inv
    <2> QED BY <2>1, <2>2
  <1>6. (\A g \in Hosts : Local(proc[g]) /\ Own(g, proc[g], lock, ahead[g]))'
    BY <1>3
  <1>7. (\A g, k \in Hosts : g # k => Rival(g, proc[g], proc[k], lock))'
    BY <1>4
  <1>8. (lock.version = 0 => \A k \in Hosts : proc[k].step # "put")'
    BY <1>5
  <1> QED BY <1>2, <1>6, <1>7, <1>8 DEF Inv

\* A write of a process when no other one has the lock.
LEMMA WriteKeeps ==
    ASSUME Inv, NEW h \in Hosts, NEW p \in ProcType, Write(h, p), Local(p), p.step # "put",
           proc[h].lag <= OldAge,
           \A g \in Hosts : g # h => proc[g].step \notin Owning,
           Own(h, p, Stored(h, proc[h].lag, lock.version + 1), ahead[h]),
           \A g \in Hosts : g # h =>
               Rival(h, p, proc[g], Stored(h, proc[h].lag, lock.version + 1))
    PROVE  Inv'
  <1> DEFINE l == Stored(h, proc[h].lag, lock.version + 1)
  <1>1. /\ lock' = l /\ ahead' = ahead
        /\ proc' \in [Hosts -> ProcType]
        /\ proc'[h] = p
        /\ \A g \in Hosts : g # h => proc'[g] = proc[g]
    BY DEF Write, Inv
  <1>2. l.host_id = h /\ l.version = lock.version + 1
    BY DEF Stored
  <1>3. l \in LockType /\ l.version # 0
    <2>1. proc[h].lag \in Nat /\ ahead[h] \in 0..Spread /\ lock.version \in Nat
      BY ConstantTypes DEF Inv, ProcType, LockType, Spans
    <2>2. proc[h].lag - ahead[h] \in -Spread..OldAge
      BY <2>1, AgeBound, ConstantTypes
    <2> QED BY <2>1, <2>2 DEF LockType, Stored
  <1> HIDE DEF l
  <1>4. (lock \in LockType /\ ahead \in [Hosts -> 0..Spread] /\ proc \in [Hosts -> ProcType])'
    BY <1>1, <1>3 DEF Inv, LockType, OldAge
  <1>5. ASSUME NEW g \in Hosts
        PROVE  Local(proc'[g]) /\ Own(g, proc'[g], lock', ahead'[g])
    <2>1. CASE g = h
      BY <1>1, <2>1 DEF l
    <2>2. CASE g # h
      BY <1>1, <1>2, <2>2 DEF Inv, Own, Standing, Owning, Holding, Renewing, Releasing
    <2> QED BY <2>1, <2>2
  <1>6. ASSUME NEW g \in Hosts, NEW k \in Hosts, g # k
        PROVE  Rival(g, proc'[g], proc'[k], lock')
    <2>1. CASE g = h
      BY <1>1, <1>6, <2>1 DEF l
    <2>2. CASE g # h
      BY <1>1, <1>2, <1>6, <2>2 DEF Rival, Standing
    <2> QED BY <2>1, <2>2
  <1>7. (\A g \in Hosts : Local(proc[g]) /\ Own(g, proc[g], lock, ahead[g]))'
    BY <1>5
  <1>8. (\A g, k \in Hosts : g # k => Rival(g, proc[g], proc[k], lock))'
    BY <1>6
  <1> QED BY <1>1, <1>3, <1>4, <1>7, <1>8 DEF Inv

\* A step to where a process neither has the lock nor waits for it.
LEMMA QuietKeeps ==
    ASSUME Inv, NEW h \in Hosts, NEW p \in ProcType, Becomes(h, p), Local(p), p.step \in Quiet
    PROVE  Inv'
  <1>1. Own(h, p, lock, ahead[h])
    BY QuietOwns
  <1>2. \A g \in Hosts : g # h => Rival(g, proc[g], p, lock) /\ Rival(h, p, proc[g], lock)
    BY QuietRival
  <1>3. p.step # "put"
    BY DEF Quiet
  <1> QED BY <1>1, <1>2, <1>3, BecomesKeeps

\* The same after a write whose answer was lost.
LEMMA QuietWriteKeeps ==
    ASSUME Inv, NEW h \in Hosts, NEW p \in ProcType, Write(h, p), Local(p), p.step \in Quiet,
           proc[h].lag <= OldAge,
           \A g \in Hosts : g # h => proc[g].step \notin Owning
    PROVE  Inv'
  <1> DEFINE l == Stored(h, proc[h].lag, lock.version + 1)
  <1>1. Own(h, p, l, ahead[h])
    BY QuietOwns
  <1>2. \A g \in Hosts : g # h => Rival(h, p, proc[g], l)
    BY QuietRival
  <1>3. p.step # "put"
    BY DEF Quiet
  <1> QED BY <1>1, <1>2, <1>3, WriteKeeps

-----------------------------------------------------------------------------
(* How a process goes on.                                                  *)

\* The values the successors below are built from.
LEMMA ZeroTypes ==
    /\ 0 \in Spans /\ 0 \in BeatTimes /\ 0 \in Failures
    /\ 0 \in Int /\ 0 \in Nat /\ GetDelay \in Int /\ PutDelay \in Int /\ Settle \in Int
    /\ \A n \in Nat : n \in Int /\ n + 1 \in Nat
  BY ConstantTypes DEF Spans, BeatTimes, Failures

\* The names of the steps.
LEMMA StepNames ==
    {"off", "parked", "beat", "lost", "gone", "claim", "read", "put", "answer", "settle",
     "readback", "wait", "renew_read", "renew_put", "renew_back", "release_read",
     "release_delete"} \subseteq Steps
  BY DEF Steps, Booting, Renewing, Releasing

\* A new attempt starts its clocks.
LEMMA AttemptLocal ==
    ASSUME NEW p \in ProcType, ~p.held
    PROVE  /\ Attempt(p) \in ProcType /\ Local(Attempt(p))
           /\ Attempt(p).step \in Quiet
  <1>1. Attempt(p) \in ProcType
    BY ZeroTypes, StepNames, Zenon DEF Attempt, ProcType
  <1> QED BY <1>1, ConstantTypes
          DEF Attempt, ProcType, Local, BootTimes, RenewTimes, Holding, Renewing, Quiet

\* A process that backs off has no clock running.
LEMMA WaitLocal ==
    ASSUME NEW q \in ProcType, ~q.held, q.step = "wait", q.left \in Nat
    PROVE  Local(q) /\ q.step \in Quiet
  BY DEF Local, BootTimes, RenewTimes, Holding, Renewing, Quiet

\* An attempt that found the lock held backs off.
LEMMA AlreadyHeldLocal ==
    ASSUME NEW p \in ProcType, ~p.held
    PROVE  /\ AlreadyHeld(p) \in ProcType /\ Local(AlreadyHeld(p))
           /\ AlreadyHeld(p).step \in Quiet
  <1> DEFINE wait == dhan_rest_stack_backoff_secs(p.held_attempt + 1)
  <1>1. wait \in Nat /\ p.held_attempt + 1 \in Nat /\ p.held_wait + wait \in Nat
    <2>1. p.held_attempt \in Nat /\ p.held_wait \in Nat
      BY DEF ProcType
    <2>2. wait \in Nat
      BY <2>1, BackoffType
    <2> QED BY <2>1, <2>2
  <1>2. AlreadyHeld(p) = [Forget(p) EXCEPT !.step = "wait", !.left = wait,
                             !.held_attempt = p.held_attempt + 1, !.held_wait = p.held_wait + wait]
    BY DEF AlreadyHeld
  <1> HIDE DEF wait
  <1>3. AlreadyHeld(p) \in ProcType
    BY <1>1, <1>2, ZeroTypes, StepNames, Zenon DEF Forget, ProcType
  <1>4. /\ ~AlreadyHeld(p).held /\ AlreadyHeld(p).step = "wait" /\ AlreadyHeld(p).left = wait
    BY <1>2, Zenon DEF Forget, ProcType
  <1> QED BY <1>1, <1>3, <1>4, WaitLocal

\* An attempt that failed backs off.
LEMMA AcquireErrLocal ==
    ASSUME NEW p \in ProcType, ~p.held
    PROVE  /\ AcquireErr(p) \in ProcType /\ Local(AcquireErr(p))
           /\ AcquireErr(p).step \in Quiet
  <1> DEFINE wait == dhan_rest_stack_backoff_secs(p.ssm_attempt + 1)
  <1>1. wait \in Nat /\ p.ssm_attempt + 1 \in Nat
    BY BackoffType DEF ProcType
  <1>2. AcquireErr(p) = [Forget(p) EXCEPT !.step = "wait", !.ssm_attempt = p.ssm_attempt + 1,
                                          !.left = wait]
    BY DEF AcquireErr
  <1> HIDE DEF wait
  <1>3. AcquireErr(p) \in ProcType
    BY <1>1, <1>2, ZeroTypes, StepNames, Zenon DEF Forget, ProcType
  <1>4. ~AcquireErr(p).held /\ AcquireErr(p).step = "wait" /\ AcquireErr(p).left = wait
    BY <1>2, Zenon DEF Forget, ProcType
  <1> QED BY <1>1, <1>3, <1>4, WaitLocal

\* Between renewals only the ticker runs.
LEMMA BeatLocal ==
    ASSUME NEW q \in ProcType, q.held, q.step = "beat", q.left = 0
    PROVE  Local(q)
  BY DEF Local, BootTimes, RenewTimes, Holding, Renewing

\* A process that acquired sets its flag and starts the ticker.
LEMMA AcquiredLocal ==
    ASSUME NEW p \in ProcType
    PROVE  /\ Acquired(p) \in ProcType /\ Local(Acquired(p))
           /\ Acquired(p).step = "beat" /\ Acquired(p).beat = 0
           /\ Acquired(p).consecutive = p.consecutive
  <1>1. Acquired(p) \in ProcType
    BY ZeroTypes, StepNames, Zenon DEF Acquired, Forget, ProcType
  <1>2. Acquired(p).held /\ Acquired(p).step = "beat" /\ Acquired(p).left = 0
    BY Zenon DEF Acquired, Forget, ProcType
  <1>3. Acquired(p).beat = 0 /\ Acquired(p).consecutive = p.consecutive
    BY Zenon DEF Acquired, Forget, ProcType
  <1> QED BY <1>1, <1>2, <1>3, BeatLocal

\* A renewal that succeeded clears the failures.
LEMMA RenewedLocal ==
    ASSUME NEW p \in ProcType, p.held
    PROVE  /\ Renewed(p) \in ProcType /\ Local(Renewed(p))
           /\ Renewed(p).step = "beat" /\ Renewed(p).beat = p.beat
           /\ Renewed(p).consecutive = 0
  <1>1. Renewed(p) \in ProcType
    BY ZeroTypes, StepNames, Zenon DEF Renewed, Forget, ProcType
  <1>2. Renewed(p).held /\ Renewed(p).step = "beat" /\ Renewed(p).left = 0
    BY Zenon DEF Renewed, Forget, ProcType
  <1>3. Renewed(p).beat = p.beat /\ Renewed(p).consecutive = 0
    BY Zenon DEF Renewed, Forget, ProcType
  <1> QED BY <1>1, <1>2, <1>3, BeatLocal

\* One that failed counts.
LEMMA RenewFailedLocal ==
    ASSUME NEW p \in ProcType, p.held, p.consecutive < MaxFailures
    PROVE  /\ RenewFailed(p) \in ProcType /\ Local(RenewFailed(p))
           /\ RenewFailed(p).step = "beat" /\ RenewFailed(p).beat = p.beat
           /\ RenewFailed(p).consecutive = p.consecutive + 1
  <1>1. p.consecutive + 1 \in Failures
    BY ConstantTypes DEF ProcType, Failures
  <1>2. RenewFailed(p) \in ProcType
    BY <1>1, ZeroTypes, StepNames, Zenon DEF RenewFailed, Forget, ProcType
  <1>3. RenewFailed(p).held /\ RenewFailed(p).step = "beat" /\ RenewFailed(p).left = 0
    BY Zenon DEF RenewFailed, Forget, ProcType
  <1>4. RenewFailed(p).beat = p.beat /\ RenewFailed(p).consecutive = p.consecutive + 1
    BY Zenon DEF RenewFailed, Forget, ProcType
  <1> QED BY <1>2, <1>3, <1>4, BeatLocal

\* A heartbeat that saw another holder drops the flag.
LEMMA LostOwnershipLocal ==
    ASSUME NEW p \in ProcType
    PROVE  /\ LostOwnership(p) \in ProcType /\ Local(LostOwnership(p))
           /\ LostOwnership(p).step \in Quiet
  <1>1. LostOwnership(p) \in ProcType
    BY ZeroTypes, StepNames, Zenon DEF LostOwnership, Forget, ProcType
  <1>2. /\ ~LostOwnership(p).held /\ LostOwnership(p).step = "lost"
        /\ LostOwnership(p).left = 0
    BY Zenon DEF LostOwnership, Forget, ProcType
  <1> QED BY <1>1, <1>2 DEF Local, BootTimes, RenewTimes, Holding, Renewing, Quiet

\* A process before its boot and after its end.
LEMMA FreshLocal ==
    /\ Fresh \in ProcType /\ Local(Fresh) /\ Fresh.step \in Quiet
    /\ \A p : Gone(p) \in ProcType /\ Local(Gone(p)) /\ Gone(p).step \in Quiet
  <1>1. Fresh \in ProcType /\ ~Fresh.held /\ Fresh.step = "off" /\ Fresh.left = 0
    BY ZeroTypes, StepNames, Zenon DEF Fresh, ProcType
  <1>2. ASSUME NEW p
        PROVE  /\ Gone(p) \in ProcType /\ ~Gone(p).held /\ Gone(p).step = "gone"
               /\ Gone(p).left = 0
    BY <1>1, ZeroTypes, StepNames, Zenon DEF Gone, ProcType
  <1> QED BY <1>1, <1>2 DEF Local, BootTimes, RenewTimes, Holding, Renewing, Quiet

-----------------------------------------------------------------------------
(* The lock is not taken from a process that has it, or whose takeover may *)
(* yet be believed.                                                        *)

\* The heartbeat of a process that has the lock, at its oldest.
LEMMA OwnerAge ==
    ASSUME NEW g \in Hosts, NEW p \in ProcType, NEW l \in LockType, NEW a \in 0..Spread,
           Local(p), Own(g, p, l, a), p.step \in Owning
    PROVE  l.age + a <= MissedAge + GetDelay + PutDelay
  <1> DEFINE age == l.age + a
  <1>1. age \in Int /\ p.consecutive \in 0..MaxFailures /\ p.beat \in Nat /\ p.left \in Int
    BY AgeBound, ConstantTypes DEF LockType, ProcType, Failures, BeatTimes
  <1>2. /\ Beats(p.consecutive) \in Nat
        /\ TakenAge + Beats(p.consecutive) + HeartbeatInterval <= MissedAge
    <2>1. p.consecutive \in Nat /\ Beats(p.consecutive) \in Nat
      BY <1>1, BeatsType, ConstantTypes
    <2>2. Beats(p.consecutive) + HeartbeatInterval <= Beats(MaxFailures + 1)
      BY <1>1, BeatsBound
    <2>3. Beats(MaxFailures + 1) \in Nat
      BY BeatsType, ConstantTypes
    <2> QED BY <2>1, <2>2, <2>3, AgeBound, ConstantTypes DEF MissedAge
  <1>3. CASE p.step = "beat"
    <2>1. age <= TakenAge + Beats(p.consecutive) + p.beat
      BY <1>3 DEF Own
    <2>2. p.beat <= HeartbeatInterval
      BY ConstantTypes DEF ProcType, BeatTimes
    <2> QED BY <1>1, <1>2, <2>1, <2>2, AgeBound, ConstantTypes
  <1>4. CASE p.step \in {"renew_read", "renew_put"}
    <2>1. age <= TakenAge + HeartbeatInterval + Beats(p.consecutive) + p.beat
      BY <1>4 DEF Own, Renewing
    <2>2. CASE p.consecutive >= MaxFailures
      <3>1. p.left >= 0 /\ p.beat + p.left <= GetDelay + PutDelay
        BY <1>1, <1>4, <2>2, ConstantTypes DEF Local, RenewTimes, Renewing
      <3> QED BY <1>1, <1>2, <2>1, <3>1, AgeBound, ConstantTypes
    <2>3. CASE p.consecutive < MaxFailures
      <3>1. p.beat <= HeartbeatInterval
        BY ConstantTypes DEF ProcType, BeatTimes
      <3>2. Beats(p.consecutive) + HeartbeatInterval + HeartbeatInterval <= Beats(MaxFailures + 1)
        <4>1. p.consecutive + 1 \in 0..MaxFailures /\ p.consecutive \in Nat
          BY <1>1, <2>3, ConstantTypes
        <4>2. Beats(p.consecutive + 1) + HeartbeatInterval <= Beats(MaxFailures + 1)
          BY <4>1, BeatsBound
        <4> QED BY <4>1, <4>2, BeatsNext, ConstantTypes
      <3>3. Beats(MaxFailures + 1) \in Nat
        BY BeatsType, ConstantTypes
      <3> QED BY <1>1, <1>2, <2>1, <3>1, <3>2, <3>3, AgeBound, ConstantTypes DEF MissedAge
    <2> QED BY <1>1, <2>2, <2>3, ConstantTypes
  <1>5. CASE p.step = "renew_back"
    <2>1. age <= p.beat /\ p.beat <= HeartbeatInterval
      BY <1>5, ConstantTypes DEF Own, ProcType, BeatTimes
    <2> QED BY <1>1, <1>2, <2>1, AgeBound, ConstantTypes
  <1>6. CASE p.step = "release_read"
    <2>1. age <= MissedAge + GetDelay - p.left /\ p.left >= 0
      BY <1>6 DEF Own, Local, Renewing
    <2> QED BY <1>1, <2>1, AgeBound, ConstantTypes
  <1>7. CASE p.step = "release_delete"
    <2>1. age <= MissedAge + GetDelay + PutDelay - p.left /\ p.left >= 0
      BY <1>7 DEF Own, Local, Renewing
    <2> QED BY <1>1, <2>1, AgeBound, ConstantTypes
  <1> QED BY <1>3, <1>4, <1>5, <1>6, <1>7 DEF Owning, Holding, Renewing, Releasing

\* The heartbeat of a takeover that may yet be believed.
LEMMA StandingAge ==
    ASSUME NEW g \in Hosts, NEW p \in ProcType, NEW l \in LockType, NEW a \in 0..Spread,
           Local(p), Own(g, p, l, a), Standing(g, p, l),
           p.step \in {"answer", "settle", "readback"}
    PROVE  l.age + a <= TakenAge
  <1>1. l.age + a \in Int /\ p.window \in Nat /\ p.left \in Int
    BY AgeBound, ConstantTypes DEF LockType, ProcType, Spans
  <1>2. p.window <= MaxWindow /\ p.left >= 0
    BY DEF Standing, Local, Renewing
  <1>3. \/ l.age + a <= PutDelay + p.window
        \/ l.age + a <= PutDelay + p.window + Settle - p.left
        \/ l.age + a <= PutDelay + p.window + Settle + GetDelay - p.left
    BY DEF Own
  <1> QED BY <1>1, <1>2, <1>3, ConstantTypes DEF TakenAge

\* A process that may take the value over takes it from nobody who has it.
LEMMA TakeableFrees ==
    ASSUME Inv, NEW h \in Hosts, Takeable(h), NEW g \in Hosts, g # h
    PROVE  /\ proc[g].step \notin Owning
           /\ ~ (/\ Standing(g, proc[g], lock)
                 /\ proc[g].step \in {"answer", "settle", "readback"})
  <1> DEFINE p == proc[g]
             mine == \/ p.step \in Owning
                     \/ /\ Standing(g, p, lock)
                        /\ p.step \in {"answer", "settle", "readback"}
  <1>1. /\ p \in ProcType /\ lock \in LockType /\ ahead[g] \in 0..Spread /\ ahead[h] \in 0..Spread
        /\ Local(p) /\ Own(g, p, lock, ahead[g])
    BY DEF Inv
  <1>2. ASSUME mine PROVE FALSE
    <2>1. lock.host_id = g
      BY <1>1, <1>2 DEF Own, Standing
    <2>2. lock.age + ahead[g] <= MissedAge + GetDelay + PutDelay
      <3>1. CASE p.step \in Owning
        BY <1>1, <3>1, OwnerAge
      <3>2. CASE p.step \notin Owning
        <4>1. lock.age + ahead[g] <= TakenAge
          BY <1>1, <1>2, <3>2, StandingAge
        <4> QED BY <1>1, <4>1, AgeBound, ConstantTypes DEF LockType
      <3> QED BY <3>1, <3>2
    <2>3. freshness(h) = "stale"
      BY <2>1 DEF Takeable
    <2>4. lock.age + ahead[h] - proc[h].lag > Ttl
      BY <2>3 DEF freshness
    <2>5. proc[h].lag \in Nat
      BY ConstantTypes DEF Inv, ProcType, Spans
    <2> QED BY <1>1, <2>2, <2>4, <2>5, AgeBound, ConstantTypes DEF LockType
  <1> QED BY <1>2

-----------------------------------------------------------------------------
(* The boot loop.                                                          *)

\* What the invariant says of one process, and that one which holds nothing has
\* its flag down.
LEMMA InvAt ==
    ASSUME Inv, NEW h \in Hosts
    PROVE  /\ proc[h] \in ProcType /\ lock \in LockType /\ ahead[h] \in 0..Spread
           /\ Local(proc[h]) /\ Own(h, proc[h], lock, ahead[h])
           /\ proc[h].step \notin Holding => ~proc[h].held
           /\ proc[h].step \in Holding => proc[h].held
           /\ proc[h].lag <= OldAge
  <1>1. /\ proc[h] \in ProcType /\ lock \in LockType /\ ahead[h] \in 0..Spread
        /\ Local(proc[h]) /\ Own(h, proc[h], lock, ahead[h])
    BY DEF Inv
  <1>2. /\ proc[h].step \notin Holding => ~proc[h].held
        /\ proc[h].step \in Holding => proc[h].held
    BY <1>1, Zenon DEF Local
  <1>3. proc[h].lag <= OldAge
    BY <1>1, AgeBound, ConstantTypes DEF ProcType, Spans
  <1> QED BY <1>1, <1>2, <1>3

\* The first attempt of a process.
LEMMA BootKeeps ==
    ASSUME Inv, NEW h \in Hosts, Boot(h) PROVE Inv'
  <1>1. ~proc[h].held
    BY InvAt DEF Boot, Holding, Renewing
  <1> QED BY <1>1, InvAt, AttemptLocal, QuietKeeps DEF Boot

\* The next attempt, or the park.
LEMMA RetryKeeps ==
    ASSUME Inv, NEW h \in Hosts, Retry(h) PROVE Inv'
  <1>1. ~proc[h].held /\ proc[h].step = "wait" /\ proc[h].left = 0
    BY InvAt DEF Retry, Holding, Renewing
  <1>2. CASE Becomes(h, Attempt(proc[h]))
    BY <1>1, <1>2, InvAt, AttemptLocal, QuietKeeps
  <1>3. CASE Becomes(h, [proc[h] EXCEPT !.step = "parked"])
    <2> DEFINE p == [proc[h] EXCEPT !.step = "parked"]
    <2>1. proc[h] \in ProcType
      BY InvAt
    <2>2. p \in ProcType
      BY <2>1, StepNames, Zenon DEF ProcType
    <2>3. ~p.held /\ p.step = "parked" /\ p.left = 0
      BY <1>1, <2>1, Zenon DEF ProcType
    <2>4. Local(p) /\ p.step \in Quiet
      <3> HIDE DEF p
      <3> QED BY <2>2, <2>3 DEF Local, BootTimes, RenewTimes, Holding, Renewing, Quiet
    <2> HIDE DEF p
    <2> QED BY <1>3, <2>2, <2>4, QuietKeeps DEF p
  <1> QED BY <1>2, <1>3 DEF Retry

\* No other process has the lock when the parameter is absent.
LEMMA AbsentFrees ==
    ASSUME Inv, lock.version = 0, NEW g \in Hosts
    PROVE  proc[g].step \notin Owning /\ proc[g].step # "put"
  BY InvAt DEF Inv, Own

\* The claim that must not overwrite: acquired, refused, failed, or its answer lost.
LEMMA ClaimKeeps ==
    ASSUME Inv, NEW h \in Hosts, Claim(h) PROVE Inv'
  <1> DEFINE p == proc[h]
  <1>1. ~p.held /\ p.step = "claim" /\ p \in ProcType
    BY InvAt DEF Claim, Holding, Renewing
  <1>2. CASE lock.version = 0 /\ Write(h, Acquired(p))
    <2> DEFINE q == Acquired(p)
               l == Stored(h, p.lag, lock.version + 1)
    <2>1. q \in ProcType /\ Local(q) /\ q.step = "beat" /\ q.beat = 0 /\ q.consecutive = p.consecutive
      BY <1>1, AcquiredLocal
    <2>2. Own(h, q, l, ahead[h])
      <3>1. l.version # 0 /\ l.host_id = h /\ l.age + ahead[h] = p.lag
        BY <1>2, InvAt, ConstantTypes DEF Stored, LockType, ProcType, Spans
      <3>2. p.lag <= PutDelay /\ p.lag \in Nat
        BY <1>1, InvAt, ConstantTypes DEF Local, BootTimes, ProcType, Spans, Renewing
      <3>3. Beats(q.consecutive) \in Nat
        BY <2>1, BeatsType, ConstantTypes DEF ProcType, Failures
      <3>4. p.lag <= TakenAge + Beats(q.consecutive) + q.beat
        <4> HIDE DEF q
        <4> QED BY <2>1, <3>2, <3>3, ConstantTypes DEF TakenAge
      <3> HIDE DEF q, l
      <3> QED BY <2>1, <3>1, <3>4 DEF Own, Renewing
    <2>3. \A g \in Hosts : proc[g].step \notin Owning /\ proc[g].step # "put"
      BY <1>2, AbsentFrees
    <2>4. \A g \in Hosts : g # h => Rival(h, q, proc[g], l)
      BY <2>3 DEF Rival
    <2> HIDE DEF q
    <2>5. Write(h, q)
      BY <1>2 DEF q
    <2> QED BY <2>1, <2>2, <2>3, <2>4, <2>5, InvAt, WriteKeeps
  <1>3. CASE lock.version # 0
             /\ Becomes(h, [p EXCEPT !.step = "read", !.left = GetDelay, !.window = 0])
    <2> DEFINE q == [p EXCEPT !.step = "read", !.left = GetDelay, !.window = 0]
    <2>1. q \in ProcType
      BY <1>1, ZeroTypes, StepNames, Zenon DEF ProcType
    <2>2. ~q.held
      BY <1>1, Zenon DEF ProcType
    <2>3. q.step = "read" /\ q.left = GetDelay /\ q.window = 0 /\ q.lag = p.lag
      BY <1>1, Zenon DEF ProcType
    <2>4. p.lag <= PutDelay /\ p.lag \in Nat
      BY <1>1, InvAt, ConstantTypes DEF Local, BootTimes, ProcType, Spans, Renewing
    <2> HIDE DEF q
    <2>5. Local(q) /\ q.step \in Quiet
      BY <2>1, <2>2, <2>3, <2>4, ConstantTypes
         DEF Local, BootTimes, RenewTimes, Holding, Renewing, Quiet
    <2> QED BY <1>3, <2>1, <2>5, QuietKeeps DEF q
  <1>4. CASE Becomes(h, AcquireErr(p))
    BY <1>1, <1>4, AcquireErrLocal, QuietKeeps
  <1>5. CASE lock.version = 0 /\ Write(h, AcquireErr(p))
    BY <1>1, <1>5, AcquireErrLocal, QuietWriteKeeps, AbsentFrees, InvAt
  <1> QED BY <1>2, <1>3, <1>4, <1>5 DEF Claim

\* The read of the holder: the only step that makes a rival.
LEMMA ReadKeeps ==
    ASSUME Inv, NEW h \in Hosts, Read(h) \/ ReadFails(h) PROVE Inv'
  <1> DEFINE p == proc[h]
  <1>1. ~p.held /\ p.step = "read" /\ p \in ProcType
    BY InvAt DEF Read, ReadFails, Holding, Renewing
  <1>2. CASE Becomes(h, AlreadyHeld(p))
    BY <1>1, <1>2, AlreadyHeldLocal, QuietKeeps
  <1>3. CASE Takeable(h) /\ Becomes(h, [p EXCEPT !.step = "put", !.left = PutDelay,
                                                 !.read_v = lock.version])
    <2> DEFINE q == [p EXCEPT !.step = "put", !.left = PutDelay, !.read_v = lock.version]
    <2>1. lock.version \in Nat /\ lock.version # 0
      BY <1>3, InvAt DEF LockType, Takeable
    <2>2. q \in ProcType
      BY <1>1, <2>1, ZeroTypes, StepNames, Zenon DEF ProcType
    <2>3. ~q.held
      BY <1>1, Zenon DEF ProcType
    <2>4. q.step = "put" /\ q.left = PutDelay /\ q.window = p.window /\ q.lag = p.lag
      BY <1>1, Zenon DEF ProcType
    <2>5. /\ p.lag \in Nat /\ p.window \in Nat /\ p.left \in Nat
          /\ p.lag + p.left <= PutDelay + GetDelay /\ p.window + p.left <= GetDelay
          /\ p.lag <= PutDelay + p.window
      BY <1>1, InvAt, ConstantTypes DEF Local, BootTimes, ProcType, Spans, Renewing
    <2> HIDE DEF q
    <2>6. Local(q)
      BY <2>2, <2>3, <2>4, <2>5, ConstantTypes
         DEF Local, BootTimes, RenewTimes, Holding, Renewing
    <2>7. Own(h, q, lock, ahead[h])
      BY <2>4 DEF Own, Owning, Holding, Renewing, Releasing
    <2>8. ASSUME NEW g \in Hosts, g # h
          PROVE  Rival(g, proc[g], q, lock) /\ Rival(h, q, proc[g], lock)
      <3>1. Rival(g, proc[g], q, lock)
        BY <1>3, <2>8, TakeableFrees DEF Rival
      <3>2. Rival(h, q, proc[g], lock)
        BY <2>4 DEF Rival, Owning, Holding, Renewing, Releasing
      <3> QED BY <3>1, <3>2
    <2>9. Becomes(h, q)
      BY <1>3 DEF q
    <2> QED BY <2>1, <2>2, <2>6, <2>7, <2>8, <2>9, BecomesKeeps
  <1> QED BY <1>2, <1>3 DEF Read, ReadFails

\* The takeover write: it lands while no process has the lock.
LEMMA PutKeeps ==
    ASSUME Inv, NEW h \in Hosts, Put(h) PROVE Inv'
  <1> DEFINE p == proc[h]
  <1>1. ~p.held /\ p.step = "put" /\ p \in ProcType
    BY InvAt DEF Put, Holding, Renewing
  <1>2. \A g \in Hosts : g # h => proc[g].step \notin Owning
    BY <1>1 DEF Inv, Rival
  <1>3. CASE Write(h, AcquireErr(p))
    BY <1>1, <1>2, <1>3, AcquireErrLocal, QuietWriteKeeps, InvAt
  <1>4. CASE Becomes(h, AcquireErr(p))
    BY <1>1, <1>4, AcquireErrLocal, QuietKeeps
  <1>5. CASE Write(h, [p EXCEPT !.step = "answer", !.left = PutDelay, !.lag = 0,
                                !.put_v = lock.version + 1])
    <2> DEFINE q == [p EXCEPT !.step = "answer", !.left = PutDelay, !.lag = 0,
                              !.put_v = lock.version + 1]
               l == Stored(h, p.lag, lock.version + 1)
    <2>1. lock.version + 1 \in Nat
      BY InvAt DEF LockType
    <2>2. q \in ProcType
      BY <1>1, <2>1, ZeroTypes, StepNames, Zenon DEF ProcType
    <2>3. ~q.held
      BY <1>1, Zenon DEF ProcType
    <2>4. q.step = "answer" /\ q.left = PutDelay /\ q.window = p.window
      BY <1>1, Zenon DEF ProcType
    <2>5. /\ p.lag \in Nat /\ p.window \in Nat /\ p.left \in Nat
          /\ p.window + p.left <= PutDelay + GetDelay /\ p.lag <= PutDelay + p.window
      BY <1>1, InvAt, ConstantTypes DEF Local, BootTimes, ProcType, Spans, Renewing
    <2> HIDE DEF q
    <2>6. Local(q)
      BY <2>2, <2>3, <2>4, <2>5, ConstantTypes
         DEF Local, BootTimes, RenewTimes, Holding, Renewing
    <2>7. l.age + ahead[h] = p.lag
      BY <2>5, InvAt, ConstantTypes DEF Stored
    <2> HIDE DEF l
    <2>8. Own(h, q, l, ahead[h])
      BY <2>4, <2>5, <2>7 DEF Own, Owning, Holding, Renewing, Releasing
    <2>9. ASSUME NEW g \in Hosts, g # h PROVE Rival(h, q, proc[g], l)
      <3>1. proc[g].step = "put" => proc[g].left <= PutDelay
        BY InvAt DEF Local, BootTimes
      <3> QED BY <2>4, <3>1 DEF Rival, Owning, Holding, Renewing, Releasing
    <2>10. Write(h, q) /\ q.step # "put"
      BY <1>5, <2>4 DEF q
    <2> QED BY <1>2, <2>2, <2>6, <2>8, <2>9, <2>10, InvAt, WriteKeeps DEF l
  <1> QED BY <1>3, <1>4, <1>5 DEF Put

\* The settle starts: every rival write has at most PutDelay left.
LEMMA AnswerKeeps ==
    ASSUME Inv, NEW h \in Hosts, Answer(h) PROVE Inv'
  <1> DEFINE p == proc[h]
             q == [p EXCEPT !.step = "settle", !.left = Settle]
  <1>1. ~p.held /\ p.step = "answer" /\ p \in ProcType
    BY InvAt DEF Answer, Holding, Renewing
  <1>2. q \in ProcType
    BY <1>1, ZeroTypes, StepNames, Zenon DEF ProcType
  <1>3. ~q.held
    BY <1>1, Zenon DEF ProcType
  <1>4. q.step = "settle" /\ q.left = Settle /\ q.window = p.window
    BY <1>1, Zenon DEF ProcType
  <1>5. Becomes(h, q)
    BY DEF Answer
  <1> HIDE DEF q
  <1>6. Local(q)
    BY <1>2, <1>3, <1>4, ConstantTypes DEF Local, BootTimes, RenewTimes, Holding, Renewing
  <1>7. Own(h, q, lock, ahead[h])
    <2>1. Standing(h, p, lock) => lock.age + ahead[h] <= PutDelay + p.window
      BY <1>1, InvAt DEF Own
    <2>2. PutDelay + p.window + Settle - Settle = PutDelay + p.window
      BY <1>1, ConstantTypes DEF ProcType, Spans
    <2> QED BY <1>4, <2>1, <2>2 DEF Own, Standing, Owning, Holding, Renewing, Releasing
  <1>8. ASSUME NEW g \in Hosts, g # h
        PROVE  Rival(g, proc[g], q, lock) /\ Rival(h, q, proc[g], lock)
    <2>1. proc[g].step = "put" => proc[g].left <= PutDelay /\ proc[g].left \in Int
      BY InvAt DEF Local, BootTimes, ProcType
    <2> QED BY <1>4, <2>1, ConstantTypes DEF Rival, Owning, Holding, Renewing, Releasing
  <1> QED BY <1>2, <1>4, <1>5, <1>6, <1>7, <1>8, BecomesKeeps

\* The settle is over: no rival write is left.
LEMMA SettledKeeps ==
    ASSUME Inv, NEW h \in Hosts, Settled(h) PROVE Inv'
  <1> DEFINE p == proc[h]
             q == [p EXCEPT !.step = "readback", !.left = GetDelay]
  <1>1. ~p.held /\ p.step = "settle" /\ p.left = 0 /\ p \in ProcType
    BY InvAt DEF Settled, Holding, Renewing
  <1>2. q \in ProcType
    BY <1>1, ZeroTypes, StepNames, Zenon DEF ProcType
  <1>3. ~q.held
    BY <1>1, Zenon DEF ProcType
  <1>4. q.step = "readback" /\ q.left = GetDelay /\ q.window = p.window
    BY <1>1, Zenon DEF ProcType
  <1>5. Becomes(h, q)
    BY DEF Settled
  <1> HIDE DEF q
  <1>6. Local(q)
    BY <1>2, <1>3, <1>4, ConstantTypes DEF Local, BootTimes, RenewTimes, Holding, Renewing
  <1>7. Own(h, q, lock, ahead[h])
    <2>1. Standing(h, p, lock) => lock.age + ahead[h] <= PutDelay + p.window + Settle - 0
      BY <1>1, InvAt DEF Own
    <2>2. PutDelay + p.window + Settle + GetDelay - GetDelay = PutDelay + p.window + Settle - 0
      BY <1>1, ConstantTypes DEF ProcType, Spans
    <2> QED BY <1>4, <2>1, <2>2 DEF Own, Standing, Owning, Holding, Renewing, Releasing
  <1>8. ASSUME NEW g \in Hosts, g # h
        PROVE  Rival(g, proc[g], q, lock) /\ Rival(h, q, proc[g], lock)
    <2>1. ASSUME proc[g].step = "put", Standing(h, p, lock) PROVE FALSE
      <3>1. proc[g].left + Settle <= PutDelay + 0
        BY <1>1, <1>8, <2>1 DEF Inv, Rival
      <3>2. proc[g].left \in Int /\ proc[g].left >= 0
        BY <2>1, InvAt DEF Local, ProcType, Renewing
      <3> QED BY <3>1, <3>2, AgeBound, ConstantTypes
    <2> QED BY <1>4, <2>1 DEF Rival, Standing, Owning, Holding, Renewing, Releasing
  <1> QED BY <1>2, <1>4, <1>5, <1>6, <1>7, <1>8, BecomesKeeps

\* The read-back: believed only if the value is still the own one.
LEMMA ReadBackKeeps ==
    ASSUME Inv, NEW h \in Hosts, ReadBack(h) PROVE Inv'
  <1> DEFINE p == proc[h]
  <1>1. ~p.held /\ p.step = "readback" /\ p \in ProcType
    BY InvAt DEF ReadBack, Holding, Renewing
  <1>2. CASE Becomes(h, AlreadyHeld(p))
    BY <1>1, <1>2, AlreadyHeldLocal, QuietKeeps
  <1>3. CASE Becomes(h, AcquireErr(p))
    BY <1>1, <1>3, AcquireErrLocal, QuietKeeps
  <1>4. CASE Verdict(h) \in {"held", "held_after_contention"} /\ Becomes(h, Acquired(p))
    <2> DEFINE q == Acquired(p)
    <2>1. q \in ProcType /\ Local(q) /\ q.step = "beat" /\ q.beat = 0 /\ q.consecutive = p.consecutive
      BY <1>1, AcquiredLocal
    <2>2. Standing(h, p, lock) /\ lock.version # 0
      <3>1. p.window <= MaxWindow
        BY <1>1, <1>4, ConstantTypes DEF Verdict, ProcType, Spans
      <3>2. classify_write(p.read_v, p.put_v, h) \in {"held", "held_after_contention"}
        BY <1>4 DEF Verdict
      <3>3. lock.host_id = h /\ lock.version # 0
        <4>1. lock.version # 0
          BY <3>2 DEF classify_write
        <4>2. lock.host_id = h
          BY <3>2, <4>1 DEF classify_write
        <4> QED BY <4>1, <4>2
      <3> QED BY <3>1, <3>3 DEF Standing
    <2>3. lock.age + ahead[h] <= TakenAge
      BY <1>1, <2>2, InvAt, StandingAge
    <2>4. Beats(q.consecutive) \in Nat
      BY <1>1, <2>1, BeatsType, ConstantTypes DEF ProcType, Failures
    <2> HIDE DEF q
    <2>5. lock.age + ahead[h] <= TakenAge + Beats(q.consecutive) + q.beat
      BY <2>1, <2>3, <2>4, InvAt, AgeBound, ConstantTypes DEF LockType
    <2>6. Own(h, q, lock, ahead[h])
      BY <2>1, <2>2, <2>5 DEF Own, Standing, Renewing
    <2>7. ASSUME NEW g \in Hosts, g # h
          PROVE  Rival(g, proc[g], q, lock) /\ Rival(h, q, proc[g], lock)
      <3>1. proc[g].step # "put"
        BY <1>1, <2>2, <2>7 DEF Inv, Rival
      <3> QED BY <2>1, <3>1 DEF Rival
    <2>8. Becomes(h, q)
      BY <1>4 DEF q
    <2> QED BY <2>1, <2>6, <2>7, <2>8, BecomesKeeps
  <1> QED BY <1>2, <1>3, <1>4 DEF ReadBack

-----------------------------------------------------------------------------
(* The heartbeat and the release.                                          *)

\* A step of a process that has the lock, and keeps it or lets it go.
LEMMA OwnerKeeps ==
    ASSUME Inv, NEW h \in Hosts, proc[h].step \in Owning, NEW q \in ProcType, Becomes(h, q),
           Local(q), q.step \in Owning, Own(h, q, lock, ahead[h])
    PROVE  Inv'
  <1>1. q.step # "put" /\ q.step \notin {"answer", "settle", "readback"}
    BY DEF Owning, Holding, Renewing, Releasing
  <1>2. \A g \in Hosts : g # h => proc[g].step # "put"
    BY DEF Inv, Rival
  <1>3. \A g \in Hosts : g # h => Rival(g, proc[g], q, lock) /\ Rival(h, q, proc[g], lock)
    BY <1>1, <1>2 DEF Rival
  <1> QED BY <1>1, <1>3, BecomesKeeps

\* The counters of a process, for the arithmetic of its ages.
LEMMA Counters ==
    ASSUME Inv, NEW h \in Hosts
    PROVE  /\ proc[h].lag \in Nat /\ proc[h].window \in Nat /\ proc[h].left \in Int
           /\ proc[h].beat \in 0..HeartbeatInterval /\ proc[h].consecutive \in 0..MaxFailures
           /\ Beats(proc[h].consecutive) \in Nat
           /\ TakenAge + Beats(proc[h].consecutive) + HeartbeatInterval <= MissedAge
           /\ lock.age \in Int /\ lock.version \in Nat /\ ahead[h] \in Nat
           /\ lock.age + ahead[h] \in Int
  <1>1. /\ proc[h].lag \in Nat /\ proc[h].window \in Nat /\ proc[h].left \in Int
        /\ proc[h].beat \in 0..HeartbeatInterval /\ proc[h].consecutive \in 0..MaxFailures
        /\ lock.age \in Int /\ lock.version \in Nat /\ ahead[h] \in Nat
    BY InvAt, AgeBound, ConstantTypes DEF ProcType, LockType, Spans, BeatTimes, Failures
  <1>2. Beats(proc[h].consecutive) \in Nat
    BY <1>1, BeatsType, ConstantTypes
  <1>3. Beats(proc[h].consecutive) + HeartbeatInterval <= Beats(MaxFailures + 1)
    BY <1>1, BeatsBound
  <1>4. Beats(MaxFailures + 1) \in Nat
    BY BeatsType, ConstantTypes
  <1> QED BY <1>1, <1>2, <1>3, <1>4, AgeBound, ConstantTypes DEF MissedAge

\* The ticker fires and the renewal reads.
LEMMA HeartbeatTickKeeps ==
    ASSUME Inv, NEW h \in Hosts, HeartbeatTick(h) PROVE Inv'
  <1> DEFINE p == proc[h]
             q == [p EXCEPT !.step = "renew_read", !.left = GetDelay, !.beat = 0]
  <1>1. p.held /\ p.step = "beat" /\ p.beat = HeartbeatInterval /\ p \in ProcType
    BY InvAt DEF HeartbeatTick, Holding
  <1>2. q \in ProcType
    BY <1>1, ZeroTypes, StepNames, Zenon DEF ProcType
  <1>3. q.held
    BY <1>1, Zenon DEF ProcType
  <1>4. /\ q.step = "renew_read" /\ q.left = GetDelay /\ q.beat = 0
        /\ q.consecutive = p.consecutive
    BY <1>1, Zenon DEF ProcType
  <1>5. Becomes(h, q)
    BY DEF HeartbeatTick
  <1> HIDE DEF q
  <1>6. Local(q)
    BY <1>2, <1>3, <1>4, ConstantTypes DEF Local, BootTimes, RenewTimes, Holding, Renewing
  <1>7. /\ lock.version # 0 /\ lock.host_id = h
        /\ lock.age + ahead[h] <= TakenAge + Beats(p.consecutive) + HeartbeatInterval
    BY <1>1, InvAt DEF Own, Owning, Holding
  <1>8. lock.age + ahead[h] <= TakenAge + HeartbeatInterval + Beats(q.consecutive) + q.beat
    BY <1>4, <1>7, Counters, AgeBound, ConstantTypes
  <1>9. Own(h, q, lock, ahead[h])
    BY <1>4, <1>7, <1>8 DEF Own, Renewing
  <1> QED BY <1>1, <1>2, <1>4, <1>5, <1>6, <1>9, OwnerKeeps DEF Owning, Holding, Renewing

\* The renewal finds its own value and writes.
LEMMA RenewReadKeeps ==
    ASSUME Inv, NEW h \in Hosts, RenewRead(h) PROVE Inv'
  <1> DEFINE p == proc[h]
             q == [p EXCEPT !.step = "renew_put", !.left = PutDelay, !.lag = 0,
                            !.read_v = lock.version]
  <1>1. p.held /\ p.step = "renew_read" /\ p.left >= 0 /\ p \in ProcType
    BY InvAt DEF RenewRead, InTime, Holding, Renewing
  <1>2. /\ lock.version # 0 /\ lock.host_id = h /\ lock.version \in Nat
        /\ lock.age + ahead[h] <= TakenAge + HeartbeatInterval + Beats(p.consecutive) + p.beat
    BY <1>1, InvAt DEF Own, Owning, Holding, Renewing, LockType
  <1>3. q \in ProcType
    BY <1>1, <1>2, ZeroTypes, StepNames, Zenon DEF ProcType
  <1>4. q.held
    BY <1>1, Zenon DEF ProcType
  <1>5. /\ q.step = "renew_put" /\ q.left = PutDelay /\ q.lag = 0 /\ q.beat = p.beat
        /\ q.consecutive = p.consecutive /\ q.read_v = lock.version
    BY <1>1, Zenon DEF ProcType
  <1>6. Becomes(h, q)
    BY <1>2 DEF RenewRead
  <1> HIDE DEF q
  <1>7. p.beat <= RenewTimeout /\ p.beat + p.left <= GetDelay
    BY <1>1, InvAt DEF Local, RenewTimes, Renewing
  <1>8. Local(q)
    BY <1>2, <1>3, <1>4, <1>5, <1>7, <1>1, Counters, ConstantTypes
       DEF Local, BootTimes, RenewTimes, Holding, Renewing
  <1>9. Own(h, q, lock, ahead[h])
    BY <1>2, <1>5 DEF Own, Renewing
  <1> QED BY <1>1, <1>3, <1>5, <1>6, <1>8, <1>9, OwnerKeeps DEF Owning, Holding, Renewing

\* The write of a renewal makes the heartbeat as young as the renewal.
LEMMA RenewPutKeeps ==
    ASSUME Inv, NEW h \in Hosts, RenewPut(h) PROVE Inv'
  <1> DEFINE p == proc[h]
             q == [p EXCEPT !.step = "renew_back", !.left = GetDelay, !.lag = 0,
                            !.put_v = lock.version + 1]
             l == Stored(h, p.lag, lock.version + 1)
  <1>1. p.held /\ p.step = "renew_put" /\ p.left >= 0 /\ p \in ProcType
    BY InvAt DEF RenewPut, InTime, Holding, Renewing
  <1>2. lock.version + 1 \in Nat
    BY Counters
  <1>3. q \in ProcType
    BY <1>1, <1>2, ZeroTypes, StepNames, Zenon DEF ProcType
  <1>4. q.held
    BY <1>1, Zenon DEF ProcType
  <1>5. /\ q.step = "renew_back" /\ q.left = GetDelay /\ q.lag = 0 /\ q.beat = p.beat
        /\ q.consecutive = p.consecutive /\ q.read_v = p.read_v /\ q.put_v = lock.version + 1
    BY <1>1, Zenon DEF ProcType
  <1>6. Write(h, q) /\ q.step # "put"
    BY <1>5 DEF RenewPut
  <1>7. /\ l.version = lock.version + 1 /\ l.version # 0 /\ l.host_id = h
        /\ l.age + ahead[h] = p.lag
    BY Counters DEF Stored
  <1> HIDE DEF q, l
  <1>8. /\ p.beat <= RenewTimeout /\ p.lag <= p.beat
        /\ p.read_v = lock.version /\ p.read_v > 0
    BY <1>1, InvAt DEF Local, RenewTimes, Renewing, Own
  <1>9. Local(q)
    BY <1>3, <1>4, <1>5, <1>8, ConstantTypes
       DEF Local, BootTimes, RenewTimes, Holding, Renewing
  <1>10. l.age + ahead[h] <= TakenAge + HeartbeatInterval + Beats(q.consecutive) + q.beat
    BY <1>5, <1>7, <1>8, Counters, AgeBound, ConstantTypes
  <1>11. Own(h, q, l, ahead[h])
    BY <1>5, <1>7, <1>8, <1>10 DEF Own, Renewing
  <1>12. lock.host_id = h
    BY <1>1, InvAt DEF Own, Owning, Holding, Renewing
  <1>13. ASSUME NEW g \in Hosts, g # h
         PROVE  proc[g].step \notin Owning /\ Rival(h, q, proc[g], l)
    <2>1. proc[g].step \notin Owning
      BY <1>12, <1>13, InvAt DEF Own
    <2>2. proc[g].step # "put"
      BY <1>1, <1>13 DEF Inv, Rival, Owning, Holding, Renewing
    <2> QED BY <2>1, <2>2 DEF Rival
  <1> QED BY <1>3, <1>6, <1>9, <1>11, <1>13, InvAt, WriteKeeps DEF l

\* Its read-back finds what was written: a renewal that gets there is confirmed.
LEMMA RenewBackKeeps ==
    ASSUME Inv, NEW h \in Hosts, RenewBack(h) PROVE Inv'
  <1> DEFINE p == proc[h]
             q == Renewed(p)
  <1>1. p.held /\ p.step = "renew_back" /\ p \in ProcType
    BY InvAt DEF RenewBack, Holding, Renewing
  <1>2. /\ lock.version # 0 /\ lock.host_id = h
        /\ p.read_v > 0 /\ p.put_v = p.read_v + 1 /\ p.put_v = lock.version
        /\ lock.age + ahead[h] <= p.beat /\ p.read_v \in Nat
    BY <1>1, InvAt DEF Own, Local, Owning, Holding, Renewing, ProcType
  <1>3. classify_write(p.read_v, p.put_v, h) = "held"
    BY <1>2 DEF classify_write
  <1>4. Becomes(h, q)
    BY <1>3 DEF RenewBack
  <1>5. q \in ProcType /\ Local(q) /\ q.step = "beat" /\ q.beat = p.beat /\ q.consecutive = 0
    BY <1>1, RenewedLocal
  <1> HIDE DEF q
  <1>6. lock.age + ahead[h] <= TakenAge + Beats(q.consecutive) + q.beat
    <2>1. Beats(q.consecutive) \in Nat
      BY <1>5, BeatsType
    <2> QED BY <1>2, <1>5, <2>1, Counters, AgeBound, ConstantTypes
  <1>7. Own(h, q, lock, ahead[h])
    BY <1>2, <1>5, <1>6 DEF Own, Renewing
  <1> QED BY <1>1, <1>4, <1>5, <1>7, OwnerKeeps DEF Owning, Holding, Renewing

\* A failed renewal adds one missed beat.
LEMMA RenewErrorKeeps ==
    ASSUME Inv, NEW h \in Hosts, RenewError(h) PROVE Inv'
  <1> DEFINE p == proc[h]
             q == RenewFailed(p)
  <1>1. p.held /\ p.step \in Renewing /\ p.consecutive < MaxFailures /\ p \in ProcType
    BY InvAt DEF RenewError, MayFail, Holding
  <1>2. /\ lock.version # 0 /\ lock.host_id = h
        /\ lock.age + ahead[h] <= TakenAge + HeartbeatInterval + Beats(p.consecutive) + p.beat
    BY <1>1, InvAt DEF Own, Owning, Holding
  <1>3. /\ q \in ProcType /\ Local(q) /\ q.step = "beat" /\ q.beat = p.beat
        /\ q.consecutive = p.consecutive + 1
    BY <1>1, RenewFailedLocal
  <1>4. Becomes(h, q)
    BY DEF RenewError
  <1> HIDE DEF q
  <1>5. lock.age + ahead[h] <= TakenAge + Beats(q.consecutive) + q.beat
    <2>1. p.consecutive \in Nat
      BY Counters, ConstantTypes
    <2>2. Beats(q.consecutive) = Beats(p.consecutive) + HeartbeatInterval
      BY <1>3, <2>1, BeatsNext
    <2> QED BY <1>2, <1>3, <2>2, Counters, AgeBound, ConstantTypes
  <1>6. Own(h, q, lock, ahead[h])
    BY <1>2, <1>3, <1>5 DEF Own, Renewing
  <1> QED BY <1>1, <1>3, <1>4, <1>6, OwnerKeeps DEF Owning, Holding

\* The stop signal between renewals.
LEMMA ShutdownKeeps ==
    ASSUME Inv, NEW h \in Hosts, Shutdown(h) PROVE Inv'
  <1> DEFINE p == proc[h]
             q == [p EXCEPT !.step = "release_read", !.left = GetDelay, !.held = FALSE,
                            !.beat = 0, !.consecutive = 0]
  <1>1. p.step = "beat" /\ p \in ProcType
    BY InvAt DEF Shutdown
  <1>2. q \in ProcType
    BY <1>1, ZeroTypes, StepNames, Zenon DEF ProcType
  <1>3. ~q.held
    BY <1>1, Zenon DEF ProcType
  <1>4. q.step = "release_read" /\ q.left = GetDelay
    BY <1>1, Zenon DEF ProcType
  <1>5. Becomes(h, q)
    BY DEF Shutdown
  <1> HIDE DEF q
  <1>6. Local(q)
    BY <1>2, <1>3, <1>4, ConstantTypes DEF Local, BootTimes, RenewTimes, Holding, Renewing
  <1>7. /\ lock.version # 0 /\ lock.host_id = h
        /\ lock.age + ahead[h] <= TakenAge + Beats(p.consecutive) + p.beat
    BY <1>1, InvAt DEF Own, Owning, Holding
  <1>8. lock.age + ahead[h] <= MissedAge + GetDelay - q.left
    BY <1>4, <1>7, Counters, AgeBound, ConstantTypes
  <1>9. Own(h, q, lock, ahead[h])
    BY <1>4, <1>7, <1>8 DEF Own, Renewing
  <1> QED BY <1>1, <1>2, <1>4, <1>5, <1>6, <1>9, OwnerKeeps DEF Owning, Holding, Releasing

\* A crash, or an exit without a release.
LEMMA GoneKeeps ==
    ASSUME Inv, NEW h \in Hosts, Becomes(h, Gone(proc[h])) PROVE Inv'
  BY FreshLocal, QuietKeeps

\* The release finds its own value.
LEMMA ReleaseReadKeeps ==
    ASSUME Inv, NEW h \in Hosts, ReleaseRead(h) PROVE Inv'
  <1> DEFINE p == proc[h]
             q == [p EXCEPT !.step = "release_delete", !.left = PutDelay]
  <1>1. ~p.held /\ p.step = "release_read" /\ p \in ProcType
    BY InvAt DEF ReleaseRead, Holding, Renewing
  <1>2. q \in ProcType
    BY <1>1, ZeroTypes, StepNames, Zenon DEF ProcType
  <1>3. ~q.held
    BY <1>1, Zenon DEF ProcType
  <1>4. q.step = "release_delete" /\ q.left = PutDelay
    BY <1>1, Zenon DEF ProcType
  <1>5. /\ lock.version # 0 /\ lock.host_id = h
        /\ lock.age + ahead[h] <= MissedAge + GetDelay - p.left /\ p.left >= 0
    BY <1>1, InvAt DEF Own, Local, Owning, Releasing, Renewing
  <1>6. Becomes(h, q)
    BY <1>5 DEF ReleaseRead
  <1> HIDE DEF q
  <1>7. Local(q)
    BY <1>2, <1>3, <1>4, ConstantTypes DEF Local, BootTimes, RenewTimes, Holding, Renewing
  <1>8. lock.age + ahead[h] <= MissedAge + GetDelay + PutDelay - q.left
    BY <1>4, <1>5, Counters, AgeBound, ConstantTypes
  <1>9. Own(h, q, lock, ahead[h])
    BY <1>4, <1>5, <1>8 DEF Own, Renewing
  <1> QED BY <1>1, <1>2, <1>4, <1>6, <1>7, <1>9, OwnerKeeps DEF Owning, Releasing

\* The delete of a release leaves no rival and no holder behind.
LEMMA ReleaseDeleteKeeps ==
    ASSUME Inv, NEW h \in Hosts, ReleaseDelete(h) PROVE Inv'
  <1>1. /\ lock' = Absent /\ ahead' = ahead
        /\ proc' = [proc EXCEPT ![h] = Gone(proc[h])]
        /\ proc[h].step = "release_delete"
    BY DEF ReleaseDelete
  <1>2. /\ proc' \in [Hosts -> ProcType]
        /\ Local(proc'[h]) /\ proc'[h].step \in Quiet
        /\ \A g \in Hosts : g # h => proc'[g] = proc[g]
    BY <1>1, FreshLocal DEF Inv
  <1>3. Absent \in LockType /\ Absent.version = 0 /\ Absent.host_id = Previous
    <2>1. 0 \in -Spread..OldAge
      BY ConstantTypes, AgeBound
    <2> QED BY <2>1 DEF Absent, LockType
  <1>4. lock.host_id = h
    BY <1>1, InvAt DEF Own, Owning, Releasing
  <1>5. ASSUME NEW g \in Hosts
        PROVE  /\ proc'[g].step \notin Owning /\ proc'[g].step # "put" /\ Local(proc'[g])
    <2>1. CASE g = h
      BY <1>2, <2>1 DEF Quiet, Owning, Holding, Renewing, Releasing
    <2>2. CASE g # h
      <3>1. proc[g].step \notin Owning /\ Local(proc[g])
        BY <1>4, <2>2, InvAt DEF Own
      <3>2. proc[g].step # "put"
        BY <1>1, <2>2 DEF Inv, Rival, Owning, Releasing
      <3> QED BY <1>2, <2>2, <3>1, <3>2
    <2> QED BY <2>1, <2>2
  <1>6. ASSUME NEW g \in Hosts PROVE Own(g, proc'[g], lock', ahead'[g])
    <2>1. g # Previous
      BY InstanceLockAssumption
    <2> QED BY <1>1, <1>3, <1>5, <2>1
            DEF Own, Standing, Owning, Holding, Renewing, Releasing
  <1>7. ASSUME NEW g \in Hosts, NEW k \in Hosts PROVE Rival(g, proc'[g], proc'[k], lock')
    BY <1>5 DEF Rival
  <1>8. (lock \in LockType /\ ahead \in [Hosts -> 0..Spread] /\ proc \in [Hosts -> ProcType])'
    BY <1>1, <1>2, <1>3 DEF Inv, LockType, OldAge
  <1>9. (\A g \in Hosts : Local(proc[g]) /\ Own(g, proc[g], lock, ahead[g]))'
    BY <1>5, <1>6
  <1>10. (\A g, k \in Hosts : g # k => Rival(g, proc[g], proc[k], lock))'
    BY <1>7
  <1>11. (lock.version = 0 => \A k \in Hosts : proc[k].step # "put")'
    BY <1>5
  <1> QED BY <1>8, <1>9, <1>10, <1>11 DEF Inv

-----------------------------------------------------------------------------
(* Time.                                                                   *)

\* What a process whose time is not up looks like a tick later.
LEMMA AgedFields ==
    ASSUME NEW p \in ProcType
    PROVE  /\ Aged(p).step = p.step
           /\ Aged(p).held = p.held
           /\ Aged(p).left = IF p.left > 0 \/ (p.left = 0 /\ p.step \in Renewing)
                             THEN p.left - 1 ELSE p.left
           /\ Aged(p).lag = IF p.left > 0 /\ p.step \in {"claim", "read", "put", "renew_put"}
                            THEN p.lag + 1 ELSE p.lag
           /\ Aged(p).window = IF p.step \in {"read", "put", "answer"} THEN p.window + 1
                               ELSE p.window
           /\ Aged(p).beat = IF p.step \in Renewing \cup {"beat"} THEN p.beat + 1 ELSE p.beat
           /\ Aged(p).read_v = p.read_v /\ Aged(p).put_v = p.put_v
           /\ Aged(p).consecutive = p.consecutive
  <1>1. Aged(p).step = p.step /\ Aged(p).held = p.held
    BY Zenon DEF Aged, ProcType
  <1>2. Aged(p).left = IF p.left > 0 \/ (p.left = 0 /\ p.step \in Renewing)
                       THEN p.left - 1 ELSE p.left
    BY Zenon DEF Aged, ProcType
  <1>3. Aged(p).lag = IF p.left > 0 /\ p.step \in {"claim", "read", "put", "renew_put"}
                      THEN p.lag + 1 ELSE p.lag
    BY Zenon DEF Aged, ProcType
  <1>4. Aged(p).window = IF p.step \in {"read", "put", "answer"} THEN p.window + 1 ELSE p.window
    BY Zenon DEF Aged, ProcType
  <1>5. Aged(p).beat = IF p.step \in Renewing \cup {"beat"} THEN p.beat + 1 ELSE p.beat
    BY Zenon DEF Aged, ProcType
  <1>6. /\ Aged(p).read_v = p.read_v /\ Aged(p).put_v = p.put_v
        /\ Aged(p).consecutive = p.consecutive
    BY Zenon DEF Aged, ProcType
  <1> QED BY <1>1, <1>2, <1>3, <1>4, <1>5, <1>6

\* Time goes on only while every bounded step has some left.
LEMMA NotDue ==
    ASSUME Inv, NEW h \in Hosts, ~Due(h)
    PROVE  /\ proc[h].step = "beat" => proc[h].beat < HeartbeatInterval
           /\ proc[h].step \in Renewing =>
                 /\ proc[h].beat < RenewTimeout
                 /\ proc[h].consecutive >= MaxFailures => proc[h].left > 0
           /\ proc[h].step \in Booting \cup Releasing => proc[h].left > 0
  <1> DEFINE p == proc[h]
  <1>1. /\ p.beat \in 0..HeartbeatInterval /\ p.left \in Int /\ p.consecutive \in 0..MaxFailures
        /\ p.step \notin Renewing => p.left >= 0
        /\ p.step \in Renewing => p.beat <= RenewTimeout
        /\ p.step \in Renewing /\ p.consecutive >= MaxFailures => p.left >= 0
    BY InvAt, Counters DEF Local, RenewTimes
  <1> HIDE DEF p
  <1>2. CASE p.step = "beat"
    BY <1>1, <1>2, ConstantTypes DEF Due, p, Renewing, Booting, Releasing
  <1>3. CASE p.step \in Renewing
    <2>1. ~(p.beat = RenewTimeout \/ (p.left = 0 /\ ~MayFail(h)))
      BY <1>3 DEF Due, p, Renewing, Releasing
    <2> QED BY <1>1, <1>3, <2>1, ConstantTypes DEF MayFail, p, Renewing, Booting, Releasing
  <1>4. CASE p.step \in Booting \cup Releasing
    <2>1. p.left # 0
      BY <1>4 DEF Due, p, Renewing, Booting, Releasing
    <2> QED BY <1>1, <1>4, <2>1 DEF p, Renewing, Booting, Releasing
  <1>5. CASE p.step \notin {"beat"} \cup Renewing \cup Booting \cup Releasing
    BY <1>5 DEF p
  <1> QED BY <1>2, <1>3, <1>4, <1>5

\* The clocks of a process a tick later.
LEMMA AgedLocal ==
    ASSUME Inv, NEW h \in Hosts, ~Due(h)
    PROVE  Aged(proc[h]) \in ProcType /\ Local(Aged(proc[h]))
  <1> DEFINE p == proc[h]
             q == Aged(p)
  <1>1. p \in ProcType /\ Local(p)
    BY InvAt
  <1>2. /\ q.step = p.step /\ q.held = p.held
        /\ q.left = IF p.left > 0 \/ (p.left = 0 /\ p.step \in Renewing) THEN p.left - 1 ELSE p.left
        /\ q.lag = IF p.left > 0 /\ p.step \in {"claim", "read", "put", "renew_put"}
                   THEN p.lag + 1 ELSE p.lag
        /\ q.window = IF p.step \in {"read", "put", "answer"} THEN p.window + 1 ELSE p.window
        /\ q.beat = IF p.step \in Renewing \cup {"beat"} THEN p.beat + 1 ELSE p.beat
        /\ q.read_v = p.read_v /\ q.put_v = p.put_v /\ q.consecutive = p.consecutive
    BY <1>1, AgedFields
  <1>3. /\ p.step = "beat" => p.beat < HeartbeatInterval
        /\ p.step \in Renewing => /\ p.beat < RenewTimeout
                                  /\ p.consecutive >= MaxFailures => p.left > 0
        /\ p.step \in Booting \cup Releasing => p.left > 0
    BY NotDue
  <1>4. /\ p.lag \in Spans /\ p.window \in Spans /\ p.left \in Int /\ p.beat \in BeatTimes
        /\ p.consecutive \in 0..MaxFailures
    BY <1>1 DEF ProcType, Failures
  <1> HIDE DEF q
  <1>5. q.left \in Int
    BY <1>2, <1>4
  <1>6. q.lag \in Spans
    <2>1. CASE p.left > 0 /\ p.step \in {"claim", "read", "put", "renew_put"}
      <3>1. p.lag + p.left <= 2 * PutDelay + GetDelay
        BY <1>1, <1>4, <2>1, ConstantTypes DEF Local, BootTimes, RenewTimes, Renewing, Spans
      <3> QED BY <1>2, <1>4, <2>1, <3>1, ConstantTypes DEF Spans
    <2>2. CASE ~(p.left > 0 /\ p.step \in {"claim", "read", "put", "renew_put"})
      BY <1>2, <1>4, <2>2
    <2> QED BY <2>1, <2>2
  <1>7. q.window \in Spans
    <2>1. CASE p.step \in {"read", "put", "answer"}
      <3>1. p.left > 0 /\ p.window + p.left <= 2 * PutDelay + GetDelay
        BY <1>1, <1>3, <1>4, <2>1, ConstantTypes DEF Local, BootTimes, Booting, Spans
      <3> QED BY <1>2, <1>4, <2>1, <3>1, ConstantTypes DEF Spans
    <2>2. CASE p.step \notin {"read", "put", "answer"}
      BY <1>2, <1>4, <2>2
    <2> QED BY <2>1, <2>2
  <1>8. q.beat \in BeatTimes
    <2>1. CASE p.step \in Renewing \cup {"beat"}
      BY <1>2, <1>3, <1>4, <2>1, ConstantTypes DEF BeatTimes
    <2>2. CASE p.step \notin Renewing \cup {"beat"}
      BY <1>2, <1>4, <2>2
    <2> QED BY <2>1, <2>2
  <1>9. q \in ProcType
    BY <1>1, <1>5, <1>6, <1>7, <1>8, Zenon DEF q, Aged, ProcType
  <1>10. q.step \notin Renewing => q.left >= 0
    BY <1>1, <1>2, <1>4 DEF Local
  <1>11. (q.held <=> q.step \in Holding)
    BY <1>1, <1>2, Zenon DEF Local
  <1>12. /\ q.step = "renew_put" => q.read_v > 0
         /\ q.step = "renew_back" => q.read_v > 0 /\ q.put_v = q.read_v + 1
    BY <1>1, <1>2 DEF Local
  <1>13. BootTimes(q)
    <2>1. CASE q.step = "claim"
      BY <1>1, <1>2, <1>3, <1>4, <2>1, ConstantTypes DEF Local, BootTimes, Booting, Renewing, Spans
    <2>2. CASE q.step = "read"
      BY <1>1, <1>2, <1>3, <1>4, <2>2, ConstantTypes DEF Local, BootTimes, Booting, Renewing, Spans
    <2>3. CASE q.step = "put"
      BY <1>1, <1>2, <1>3, <1>4, <2>3, ConstantTypes DEF Local, BootTimes, Booting, Renewing, Spans
    <2>4. CASE q.step = "answer"
      BY <1>1, <1>2, <1>3, <1>4, <2>4, ConstantTypes DEF Local, BootTimes, Booting, Renewing, Spans
    <2> QED BY <2>1, <2>2, <2>3, <2>4 DEF BootTimes
  <1>14. RenewTimes(q)
    <2>1. CASE q.step = "renew_read"
      BY <1>1, <1>2, <1>3, <1>4, <2>1, ConstantTypes
         DEF Local, RenewTimes, Renewing, Spans, BeatTimes
    <2>2. CASE q.step = "renew_put"
      BY <1>1, <1>2, <1>3, <1>4, <2>2, ConstantTypes
         DEF Local, RenewTimes, Renewing, Spans, BeatTimes
    <2>3. CASE q.step = "renew_back"
      BY <1>1, <1>2, <1>3, <1>4, <2>3, ConstantTypes
         DEF Local, RenewTimes, Renewing, Spans, BeatTimes
    <2> QED BY <2>1, <2>2, <2>3 DEF RenewTimes, Renewing
  <1> QED BY <1>9, <1>10, <1>11, <1>12, <1>13, <1>14, Zenon DEF Local, q

\* The stored value a tick later: no more than a tick older, and with the same
\* version while a process remembers one.
LEMMA TickLock ==
    ASSUME Inv, Tick
    PROVE  /\ lock' \in LockType /\ ahead' = ahead /\ lock'.host_id = lock.host_id
           /\ lock'.age <= lock.age + 1
           /\ lock'.version = 0 <=> lock.version = 0
           /\ \A g \in Hosts : proc[g].read_v # 0 => lock'.version = lock.version
  <1> DEFINE settled == /\ lock.version > SettledVersion
                        /\ \A h \in Hosts : proc[h].read_v = 0 /\ proc[h].put_v = 0
             age == IF lock.age < OldAge THEN lock.age + 1 ELSE lock.age
             version == IF settled THEN SettledVersion ELSE lock.version
  <1>1. lock \in LockType
    BY DEF Inv
  <1>2. /\ lock' = IF lock.version = 0 THEN lock
                   ELSE [lock EXCEPT !.age = age, !.version = version]
        /\ ahead' = ahead
    BY <1>1 DEF Tick, LockType
  <1>3. age \in -Spread..OldAge /\ age <= lock.age + 1
    BY <1>1, ConstantTypes, AgeBound DEF LockType
  <1>4. version \in Nat /\ (version = 0 <=> lock.version = 0)
    BY <1>1 DEF LockType, SettledVersion
  <1>5. \A g \in Hosts : proc[g].read_v # 0 => version = lock.version
    BY Zenon
  <1> HIDE DEF age, version
  <1>6. CASE lock.version = 0
    BY <1>1, <1>2, <1>6, ConstantTypes, AgeBound DEF LockType
  <1>7. CASE lock.version # 0
    <2>1. /\ lock'.host_id = lock.host_id /\ lock'.age = age /\ lock'.version = version
          /\ lock' \in LockType
      BY <1>1, <1>2, <1>3, <1>4, <1>7 DEF LockType
    <2> QED BY <1>2, <1>3, <1>4, <1>5, <1>7, <2>1
  <1> QED BY <1>6, <1>7

\* The heartbeat of a process that has the lock ages with its step.
LEMMA AgedOwn ==
    ASSUME Inv, Tick, NEW g \in Hosts
    PROVE  Own(g, Aged(proc[g]), lock', ahead[g])
  <1> DEFINE p == proc[g]
             q == Aged(p)
             A == lock.age + ahead[g]
             B == lock'.age + ahead[g]
  <1>1. p \in ProcType /\ Local(p) /\ Own(g, p, lock, ahead[g])
    BY InvAt
  <1>2. /\ q.step = p.step
        /\ q.left = IF p.left > 0 \/ (p.left = 0 /\ p.step \in Renewing) THEN p.left - 1 ELSE p.left
        /\ q.window = IF p.step \in {"read", "put", "answer"} THEN p.window + 1 ELSE p.window
        /\ q.beat = IF p.step \in Renewing \cup {"beat"} THEN p.beat + 1 ELSE p.beat
        /\ q.read_v = p.read_v /\ q.put_v = p.put_v /\ q.consecutive = p.consecutive
    BY <1>1, AgedFields
  <1>3. p.step \in Booting \cup Releasing => p.left > 0
    BY NotDue DEF Tick
  <1>4. /\ p.window \in Nat /\ p.left \in Int /\ p.beat \in Nat
        /\ Beats(p.consecutive) \in Nat /\ A \in Int
    BY Counters, ConstantTypes
  <1>5. B \in Int /\ B <= A + 1
    BY TickLock, Counters, AgeBound, ConstantTypes DEF LockType
  <1>6. /\ lock'.host_id = lock.host_id /\ (lock'.version = 0 <=> lock.version = 0)
        /\ p.read_v # 0 => lock'.version = lock.version
    BY TickLock
  <1> HIDE DEF q, A, B
  <1>7. q.step \in Owning => lock'.version # 0 /\ lock'.host_id = g
    BY <1>1, <1>2, <1>6 DEF Own
  <1>8. q.step = "renew_put" => q.read_v = lock'.version
    BY <1>1, <1>2, <1>6 DEF Own, Local
  <1>9. q.step = "renew_back" => q.put_v = lock'.version /\ B <= q.beat
    <2>1. p.step = "renew_back" => p.put_v = lock.version /\ A <= p.beat /\ p.read_v > 0
      BY <1>1 DEF Own, Local, A
    <2>2. p.step = "renew_back" => q.beat = p.beat + 1
      BY <1>2 DEF Renewing
    <2> QED BY <1>2, <1>4, <1>5, <1>6, <2>1, <2>2
  <1>10. q.step = "beat" => B <= TakenAge + Beats(q.consecutive) + q.beat
    <2>1. p.step = "beat" => A <= TakenAge + Beats(p.consecutive) + p.beat /\ q.beat = p.beat + 1
      BY <1>1, <1>2 DEF Own, A
    <2> QED BY <1>2, <1>4, <1>5, <2>1, AgeBound
  <1>11. q.step \in Renewing => B <= TakenAge + HeartbeatInterval + Beats(q.consecutive) + q.beat
    <2>1. p.step \in Renewing =>
            /\ A <= TakenAge + HeartbeatInterval + Beats(p.consecutive) + p.beat
            /\ q.beat = p.beat + 1
      BY <1>1, <1>2 DEF Own, A
    <2> QED BY <1>2, <1>4, <1>5, <2>1, AgeBound, ConstantTypes
  <1>12. p.step \in Booting \cup Releasing => q.left = p.left - 1
    BY <1>2, <1>3
  <1>13. q.step = "release_read" => B <= MissedAge + GetDelay - q.left
    <2>1. p.step = "release_read" => A <= MissedAge + GetDelay - p.left
      BY <1>1 DEF Own, A
    <2> QED BY <1>2, <1>4, <1>5, <1>12, <2>1, AgeBound, ConstantTypes DEF Releasing
  <1>14. q.step = "release_delete" => B <= MissedAge + GetDelay + PutDelay - q.left
    <2>1. p.step = "release_delete" => A <= MissedAge + GetDelay + PutDelay - p.left
      BY <1>1 DEF Own, A
    <2> QED BY <1>2, <1>4, <1>5, <1>12, <2>1, AgeBound, ConstantTypes DEF Releasing
  <1>15. Standing(g, q, lock') => Standing(g, p, lock)
    BY <1>2, <1>4, <1>6, ConstantTypes DEF Standing
  <1>16. Standing(g, p, lock) =>
            /\ p.step = "answer" => A <= PutDelay + p.window
            /\ p.step = "settle" => A <= PutDelay + p.window + Settle - p.left
            /\ p.step = "readback" => A <= PutDelay + p.window + Settle + GetDelay - p.left
    BY <1>1 DEF Own, A
  <1>17. Standing(g, q, lock') /\ q.step = "answer" => B <= PutDelay + q.window
    BY <1>2, <1>4, <1>5, <1>15, <1>16, ConstantTypes
  <1>18. Standing(g, q, lock') /\ q.step = "settle" => B <= PutDelay + q.window + Settle - q.left
    BY <1>2, <1>4, <1>5, <1>12, <1>15, <1>16, ConstantTypes DEF Booting
  <1>19. Standing(g, q, lock') /\ q.step = "readback" =>
            B <= PutDelay + q.window + Settle + GetDelay - q.left
    BY <1>2, <1>4, <1>5, <1>12, <1>15, <1>16, ConstantTypes DEF Booting
  <1>20. Own(g, q, lock', ahead[g])
    BY <1>7, <1>8, <1>9, <1>10, <1>11, <1>13, <1>14, <1>17, <1>18, <1>19, Zenon DEF Own, B
  <1> QED BY <1>20 DEF q

\* A rival write and the read-back it must not outlive come closer together.
LEMMA AgedRival ==
    ASSUME Inv, Tick, NEW g \in Hosts, NEW h \in Hosts, g # h
    PROVE  Rival(g, Aged(proc[g]), Aged(proc[h]), lock')
  <1> DEFINE p == proc[g]
             q == proc[h]
             u == Aged(p)
             v == Aged(q)
  <1>1. /\ p \in ProcType /\ q \in ProcType /\ Rival(g, p, q, lock)
        /\ p.left \in Int /\ q.left \in Int /\ p.window \in Nat
    BY InvAt, Counters DEF Inv
  <1>2. /\ u.step = p.step /\ v.step = q.step
        /\ u.left = IF p.left > 0 \/ (p.left = 0 /\ p.step \in Renewing) THEN p.left - 1 ELSE p.left
        /\ v.left = IF q.left > 0 \/ (q.left = 0 /\ q.step \in Renewing) THEN q.left - 1 ELSE q.left
        /\ u.window = IF p.step \in {"read", "put", "answer"} THEN p.window + 1 ELSE p.window
    BY <1>1, AgedFields
  <1>3. /\ p.step \in Booting => p.left > 0
        /\ q.step \in Booting => q.left > 0
    BY NotDue DEF Tick
  <1>4. Standing(g, u, lock') => Standing(g, p, lock)
    BY <1>1, <1>2, TickLock, ConstantTypes DEF Standing
  <1> HIDE DEF p, q, u, v
  <1>5. /\ p.step \in {"answer", "settle"} => u.left = p.left - 1
        /\ q.step = "put" => v.left = q.left - 1
    BY <1>2, <1>3 DEF Booting
  <1>6. Rival(g, u, v, lock')
    BY <1>1, <1>2, <1>4, <1>5, ConstantTypes DEF Rival
  <1> QED BY <1>6 DEF u, v, p, q

\* A tick preserves the invariant.
LEMMA TickKeeps ==
    ASSUME Inv, Tick PROVE Inv'
  <1>1. /\ lock' \in LockType /\ ahead' = ahead /\ ahead \in [Hosts -> 0..Spread]
        /\ lock'.version = 0 <=> lock.version = 0
    BY TickLock DEF Inv
  <1>2. /\ proc' = [h \in Hosts |-> Aged(proc[h])]
        /\ \A h \in Hosts : ~Due(h)
    BY DEF Tick
  <1>3. \A h \in Hosts : proc'[h] = Aged(proc[h]) /\ Aged(proc[h]) \in ProcType
    BY <1>2, AgedLocal
  <1>4. (lock \in LockType /\ ahead \in [Hosts -> 0..Spread] /\ proc \in [Hosts -> ProcType])'
    <2>1. proc' \in [Hosts -> ProcType]
      BY <1>2, <1>3
    <2>2. LockType' = LockType /\ ProcType' = ProcType
      BY DEF LockType, OldAge, ProcType, Steps, Booting, Renewing, Releasing, Spans, BeatTimes, Failures
    <2> QED BY <1>1, <2>1, <2>2
  <1>5. (\A g \in Hosts : Local(proc[g]) /\ Own(g, proc[g], lock, ahead[g]))'
    BY <1>1, <1>2, <1>3, AgedLocal, AgedOwn
  <1>6. (\A g, k \in Hosts : g # k => Rival(g, proc[g], proc[k], lock))'
    BY <1>3, AgedRival
  <1>7. (lock.version = 0 => \A k \in Hosts : proc[k].step # "put")'
    <2>1. \A k \in Hosts : proc'[k].step = proc[k].step
      BY <1>3, AgedFields, InvAt
    <2> QED BY <1>1, <2>1 DEF Inv
  <1> QED BY <1>4, <1>5, <1>6, <1>7 DEF Inv

-----------------------------------------------------------------------------
(* The theorems.                                                           *)

\* The invariant holds at first,
LEMMA InitInv == Init => Inv
  <1> SUFFICES ASSUME Init PROVE Inv
    OBVIOUS
  <1>1. /\ proc = [h \in Hosts |-> Fresh] /\ ahead \in [Hosts -> 0..Spread]
        /\ lock \in {Absent, [host_id |-> Previous, version |-> 1, age |-> 0]}
    BY DEF Init
  <1>2. lock \in LockType
    <2>1. 0 \in -Spread..OldAge
      BY ConstantTypes, AgeBound
    <2> QED BY <1>1, <2>1 DEF Absent, LockType
  <1>3. \A h \in Hosts : /\ proc[h] \in ProcType /\ Local(proc[h]) /\ proc[h].step \in Quiet
    BY <1>1, FreshLocal
  <1>4. proc \in [Hosts -> ProcType]
    BY <1>1, FreshLocal
  <1>5. \A g, h \in Hosts : Rival(g, proc[g], proc[h], lock) /\ proc[h].step # "put"
    BY <1>3, QuietRival DEF Quiet
  <1>6. \A h \in Hosts : Own(h, proc[h], lock, ahead[h])
    BY <1>3, QuietOwns
  <1> QED BY <1>1, <1>2, <1>3, <1>4, <1>5, <1>6 DEF Inv

\* and every step preserves it.
LEMMA NextInv == Inv /\ [Next]_vars => Inv'
  <1> SUFFICES ASSUME Inv, [Next]_vars PROVE Inv'
    OBVIOUS
  <1>1. CASE Tick
    BY <1>1, TickKeeps
  <1>2. ASSUME NEW h \in Hosts, HostStep(h) PROVE Inv'
    <2>1. CASE Boot(h)          BY <2>1, BootKeeps
    <2>2. CASE Claim(h)         BY <2>2, ClaimKeeps
    <2>3. CASE Read(h) \/ ReadFails(h)  BY <2>3, ReadKeeps
    <2>4. CASE Put(h)           BY <2>4, PutKeeps
    <2>5. CASE Answer(h)        BY <2>5, AnswerKeeps
    <2>6. CASE Settled(h)       BY <2>6, SettledKeeps
    <2>7. CASE ReadBack(h)      BY <2>7, ReadBackKeeps
    <2>8. CASE Retry(h)         BY <2>8, RetryKeeps
    <2>9. CASE HeartbeatTick(h) BY <2>9, HeartbeatTickKeeps
    <2>10. CASE RenewRead(h)    BY <2>10, RenewReadKeeps
    <2>11. CASE RenewPut(h)     BY <2>11, RenewPutKeeps
    <2>12. CASE RenewBack(h)    BY <2>12, RenewBackKeeps
    <2>13. CASE RenewError(h)   BY <2>13, RenewErrorKeeps
    <2>14. CASE Shutdown(h)     BY <2>14, ShutdownKeeps
    <2>15. CASE ReleaseRead(h)  BY <2>15, ReleaseReadKeeps
    <2>16. CASE ReleaseDelete(h) BY <2>16, ReleaseDeleteKeeps
    <2>17. CASE Exit(h)         BY <2>17, GoneKeeps DEF Exit
    <2> QED BY <1>2, <2>1, <2>2, <2>3, <2>4, <2>5, <2>6, <2>7, <2>8, <2>9, <2>10, <2>11, <2>12,
               <2>13, <2>14, <2>15, <2>16, <2>17 DEF HostStep
  <1>3. CASE UNCHANGED vars
    BY <1>3 DEF vars, Inv, LockType, ProcType, Local, BootTimes, RenewTimes, Own, Standing, Rival,
                OldAge, Steps, Booting, Renewing, Releasing, Holding, Owning, Spans, BeatTimes, Failures
  <1> QED BY <1>1, <1>2, <1>3 DEF Next

\* The invariant types the state,
LEMMA InvTypeOK == Inv => TypeOK
  BY DEF Inv, TypeOK, LockType, ProcType, Spans, BeatTimes, Failures

\* a holder is an owner,
LEMMA InvHolderOwnsLock == Inv => HolderOwnsLock
  <1> SUFFICES ASSUME Inv, NEW h \in Hosts, proc[h].held
               PROVE  lock.version # 0 /\ lock.host_id = h
    BY DEF HolderOwnsLock
  <1>1. proc[h].step \in Owning
    BY InvAt, Zenon DEF Owning
  <1> QED BY <1>1, InvAt DEF Own

\* and the stored value has one host id.
LEMMA InvOneHolder == Inv => OneHolder
  <1>1. HolderOwnsLock => OneHolder
    BY DEF HolderOwnsLock, OneHolder
  <1> QED BY <1>1, InvHolderOwnsLock

\* The counters of every process stay in their ranges, whatever the constants.
THEOREM TypeCorrect == Spec => []TypeOK
  BY InitInv, NextInv, InvTypeOK, PTL DEF Spec

\* However many processes compete, however long their calls take within the
\* environment's bounds, and whichever of them fail: the value of a process whose flag
\* is set is the stored one, so no takeover, renewal or release of another one
\* overwrites or deletes it.
THEOREM HolderKeepsItsLock == Spec => []HolderOwnsLock
  BY InitInv, NextInv, InvHolderOwnsLock, PTL DEF Spec

\* No two processes have instance_lock_held set at once.
THEOREM MutualExclusion == Spec => []OneHolder
  BY InitInv, NextInv, InvOneHolder, PTL DEF Spec
=============================================================================
