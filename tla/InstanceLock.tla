---------------------------- MODULE InstanceLock ----------------------------
(***************************************************************************)
(* The dual-instance lock (core/instance_lock.rs) and the boot loop that   *)
(* takes it (app/dhan_rest_stack.rs).  Processes compete for one parameter *)
(* of the parameter store, which has no compare-and-swap: a claim that     *)
(* must not overwrite, a takeover of a stale value that is believed only   *)
(* after a settle and a read-back, a heartbeat that renews, and a release. *)
(*                                                                         *)
(* A process is one incarnation: a restart draws a new host id.  Time is   *)
(* discrete and relative: every process knows how much of its present step *)
(* is left, and the stored value how long ago its heartbeat was stamped,   *)
(* so nothing grows with time.  Each call to the store takes effect at one *)
(* instant within its bound, fails with or without its effect, or (in a    *)
(* renewal) hangs until the timeout.                                       *)
(***************************************************************************)
EXTENDS Integers, FiniteSets

CONSTANTS
    Hosts,              \* host ids of the processes that may boot
    Previous,           \* host id of a process that is already dead
    Ttl,                \* INSTANCE_LOCK_TTL_SECS
    HeartbeatInterval,  \* INSTANCE_LOCK_HEARTBEAT_INTERVAL_SECS
    RenewTimeout,       \* INSTANCE_LOCK_RENEW_TIMEOUT_SECS
    Settle,             \* INSTANCE_LOCK_TAKEOVER_SETTLE_SECS
    MaxWindow,          \* INSTANCE_LOCK_TAKEOVER_MAX_WINDOW_SECS
    MaxClockSkew,       \* INSTANCE_LOCK_MAX_CLOCK_SKEW_SECS
    BackoffBase,        \* DHAN_REST_STACK_BACKOFF_BASE_SECS
    BackoffCap,         \* DHAN_REST_STACK_BACKOFF_CAP_SECS
    Patience,           \* DHAN_REST_STACK_ALREADYHELD_PATIENCE_SECS
    \* The environment.
    Spread,             \* by how much a clock may be ahead of another
    PutDelay,           \* longest time from issuing a write to its effect, and from there to its answer
    GetDelay,           \* longest time from issuing a read to its effect
    MaxFailures,        \* bound on consecutive failed renewals
    MaxErrors           \* bound on the failed or unverified acquire attempts of a process

\* The const asserts of instance_lock.rs, and that a failed call is over
\* before its process issues the next one.
ASSUME InstanceLockAssumption ==
    /\ Previous \notin Hosts
    /\ {Ttl, HeartbeatInterval, RenewTimeout, Settle, MaxWindow, MaxClockSkew, BackoffBase,
        BackoffCap, Patience, Spread, PutDelay, GetDelay, MaxFailures, MaxErrors} \subseteq Nat
    /\ RenewTimeout < HeartbeatInterval
    /\ 2 * HeartbeatInterval + RenewTimeout < Ttl
    /\ MaxWindow < Settle
    /\ PutDelay < BackoffBase

\* How old the heartbeat of a process that has the lock may look to another one: the
\* takeover it was stamped for, the beats missed since, the renewal or release in
\* flight, and by how much the other clock may be ahead.
OldestHeartbeat ==
    PutDelay + MaxWindow + Settle + GetDelay
        + (MaxFailures + 1) * HeartbeatInterval + GetDelay + PutDelay + Spread

\* What the lock needs of its environment: a write takes effect before the settle
\* that follows another one is over, and a heartbeat is renewed before any clock
\* sees it older than the TTL.
ASSUME EnvironmentAssumption ==
    /\ PutDelay < Settle
    /\ OldestHeartbeat <= Ttl

VARIABLES
    lock,   \* the parameter: Absent, or its host_id, version and the age of last_heartbeat_unix
    proc,   \* every process: where it is and what it remembers
    ahead   \* by how much its clock is ahead of the slowest one

vars == <<lock, proc, ahead>>

\* A deleted parameter starts again at version 1.
Absent == [host_id |-> Previous, version |-> 0, age |-> 0]

\* Ages beyond OldAge and versions beyond SettledVersion (once no process
\* remembers an older one) make no further difference.
OldAge == Ttl + PutDelay + 1
SettledVersion == 3

Renewing == {"renew_read", "renew_put", "renew_back"}
Booting == {"claim", "read", "put", "answer", "settle", "readback", "wait"}
Releasing == {"release_read", "release_delete"}
Steps == {"off", "parked", "beat", "lost", "gone"} \cup Booting \cup Renewing \cup Releasing

\* step, the time left for it, and: lag, the time since the clock was read for
\* the payload; window, the time since read_at; beat, since the ticker fired;
\* consecutive, the renewals failed in a row.
Fresh == [step |-> "off", left |-> 0, lag |-> 0, window |-> 0, beat |-> 0,
          read_v |-> 0, put_v |-> 0, held |-> FALSE, held_attempt |-> 0,
          held_wait |-> 0, ssm_attempt |-> 0, consecutive |-> 0]

Init ==
    /\ lock \in {Absent, [host_id |-> Previous, version |-> 1, age |-> 0]}
    /\ proc = [h \in Hosts |-> Fresh]
    /\ ahead \in [Hosts -> 0..Spread]

-----------------------------------------------------------------------------
(* The parameter store.                                                    *)

\* What put_parameter writes for h.
Stored(h, lag, version) ==
    [host_id |-> h, version |-> version, age |-> lag - ahead[h]]

\* h's write takes effect and h goes on as p.
Write(h, p) ==
    /\ lock' = Stored(h, proc[h].lag, lock.version + 1)
    /\ proc' = [proc EXCEPT ![h] = p]
    /\ UNCHANGED ahead

\* h goes on as p, the parameter as it is.
Becomes(h, p) ==
    /\ proc' = [proc EXCEPT ![h] = p]
    /\ UNCHANGED <<lock, ahead>>

-----------------------------------------------------------------------------
(* Verdicts.                                                               *)

\* A heartbeat exactly as old as the TTL taken for stale.
FaultStaleAtTtl(h) ==
    LET age == lock.age + ahead[h] - proc[h].lag
    IN  CASE age < -MaxClockSkew -> "clock_skew_future"
          [] age >= Ttl          -> "stale"
          [] OTHER               -> "fresh"

freshness(h) ==
    LET age == lock.age + ahead[h] - proc[h].lag
    IN  CASE age < -MaxClockSkew -> "clock_skew_future"
          [] age > Ttl           -> "stale"
          [] OTHER               -> "fresh"

classify_write(read_v, put_v, h) ==
    IF read_v <= 0 \/ put_v <= read_v THEN "inconclusive"
    ELSE IF lock.version = 0 THEN "lost"
    ELSE IF lock.version < put_v THEN "inconclusive"
    ELSE IF lock.host_id # h \/ lock.version # put_v THEN "lost"
    ELSE IF put_v # read_v + 1 THEN "held_after_contention"
    ELSE "held"

\* A takeover whose own window was too long is not believed.
Verdict(h) ==
    IF proc[h].window > MaxWindow THEN "inconclusive"
    ELSE classify_write(proc[h].read_v, proc[h].put_v, h)

dhan_rest_stack_backoff_secs(attempt) ==
    LET secs == BackoffBase * <<1, 2, 4, 8, 16, 32, 64>>[IF attempt > 7 THEN 7 ELSE attempt]
    IN  IF secs > BackoffCap THEN BackoffCap ELSE secs

dhan_rest_lock_park_due(held_wait) == held_wait >= Patience

-----------------------------------------------------------------------------
(* How a process goes on.                                                  *)

\* A new attempt reads the clock and claims.
Attempt(p) == [p EXCEPT !.step = "claim", !.left = PutDelay, !.lag = 0]

\* Nothing of an attempt is remembered after it.
Forget(p) == [p EXCEPT !.lag = 0, !.window = 0, !.read_v = 0, !.put_v = 0]

Acquired(p) ==
    [Forget(p) EXCEPT !.step = "beat", !.held = TRUE, !.beat = 0, !.left = 0,
                      !.held_attempt = 0, !.held_wait = 0, !.ssm_attempt = 0]

AlreadyHeld(p) ==
    LET attempt == p.held_attempt + 1
        wait == dhan_rest_stack_backoff_secs(attempt)
    IN  [Forget(p) EXCEPT !.step = "wait", !.left = wait, !.held_attempt = attempt,
                          !.held_wait = p.held_wait + wait]

AcquireErr(p) ==
    [Forget(p) EXCEPT !.step = "wait", !.ssm_attempt = p.ssm_attempt + 1,
                      !.left = dhan_rest_stack_backoff_secs(p.ssm_attempt + 1)]

\* A renewal that failed leaves the held flag alone.
RenewFailed(p) ==
    [Forget(p) EXCEPT !.step = "beat", !.left = 0, !.consecutive = p.consecutive + 1]

Renewed(p) == [Forget(p) EXCEPT !.step = "beat", !.left = 0, !.consecutive = 0]

\* The heartbeat saw another holder: the flag falls and the task ends.
LostOwnership(p) ==
    [Forget(p) EXCEPT !.step = "lost", !.held = FALSE, !.left = 0, !.beat = 0, !.consecutive = 0]

Gone(p) == [Fresh EXCEPT !.step = "gone"]
-----------------------------------------------------------------------------
(* try_acquire_lock_at_path and the boot loop around it.                   *)

Boot(h) ==
    /\ proc[h].step = "off"
    /\ Becomes(h, Attempt(proc[h]))

\* PutParameter(overwrite = false): created, refused, failed, or created
\* with the answer lost.
Claim(h) ==
    /\ proc[h].step = "claim"
    /\ \/ /\ lock.version = 0
          /\ Write(h, Acquired(proc[h]))
       \/ /\ lock.version # 0
          /\ Becomes(h, [proc[h] EXCEPT !.step = "read", !.left = GetDelay, !.window = 0])
       \/ /\ proc[h].ssm_attempt < MaxErrors
          /\ Becomes(h, AcquireErr(proc[h]))
       \/ /\ lock.version = 0
          /\ proc[h].ssm_attempt < MaxErrors
          /\ Write(h, AcquireErr(proc[h]))

\* The value may be overwritten: it is stale, or an earlier attempt's own.
Takeable(h) ==
    /\ lock.version # 0
    /\ freshness(h) = "stale" \/ (freshness(h) = "fresh" /\ lock.host_id = h)

\* The read of the holder.  A parameter that is gone counts as held by
\* someone else, and so does a read that failed.
Read(h) ==
    /\ proc[h].step = "read"
    /\ IF Takeable(h)
       THEN Becomes(h, [proc[h] EXCEPT !.step = "put", !.left = PutDelay, !.read_v = lock.version])
       ELSE Becomes(h, AlreadyHeld(proc[h]))

ReadFails(h) ==
    /\ proc[h].step = "read"
    /\ Becomes(h, AlreadyHeld(proc[h]))

\* write_and_verify.
Put(h) ==
    /\ proc[h].step = "put"
    /\ \/ Write(h, [proc[h] EXCEPT !.step = "answer", !.left = PutDelay, !.lag = 0,
                                   !.put_v = lock.version + 1])
       \/ /\ proc[h].ssm_attempt < MaxErrors
          /\ Write(h, AcquireErr(proc[h])) \/ Becomes(h, AcquireErr(proc[h]))

\* The read-back follows the put at once.
FaultNoSettle(h) ==
    /\ proc[h].step = "answer"
    /\ Becomes(h, [proc[h] EXCEPT !.step = "settle", !.left = 0])

Answer(h) ==
    /\ proc[h].step = "answer"
    /\ Becomes(h, [proc[h] EXCEPT !.step = "settle", !.left = Settle])

Settled(h) ==
    /\ proc[h].step = "settle"
    /\ proc[h].left = 0
    /\ Becomes(h, [proc[h] EXCEPT !.step = "readback", !.left = GetDelay])

ReadBack(h) ==
    /\ proc[h].step = "readback"
    /\ \/ /\ Verdict(h) \in {"held", "held_after_contention"}
          /\ Becomes(h, Acquired(proc[h]))
       \/ /\ Verdict(h) = "lost"
          /\ Becomes(h, AlreadyHeld(proc[h]))
       \/ /\ Verdict(h) = "inconclusive" \/ proc[h].ssm_attempt < MaxErrors
          /\ Becomes(h, AcquireErr(proc[h]))

\* After the back-off: park for good, or try again.
Retry(h) ==
    /\ proc[h].step = "wait"
    /\ proc[h].left = 0
    /\ Becomes(h, IF dhan_rest_lock_park_due(proc[h].held_wait)
                  THEN [proc[h] EXCEPT !.step = "parked"]
                  ELSE Attempt(proc[h]))

-----------------------------------------------------------------------------
(* The heartbeat.                                                          *)

\* The ticker is not restarted.
FaultKeepBeat(h) ==
    /\ proc[h].step = "beat"
    /\ proc[h].beat = HeartbeatInterval
    /\ Becomes(h, [proc[h] EXCEPT !.step = "renew_read", !.left = GetDelay])

HeartbeatTick(h) ==
    /\ proc[h].step = "beat"
    /\ proc[h].beat = HeartbeatInterval
    /\ Becomes(h, [proc[h] EXCEPT !.step = "renew_read", !.left = GetDelay, !.beat = 0])

MayFail(h) == proc[h].consecutive < MaxFailures

\* A call of a renewal that outlived its bound hangs: it only ends in an error
\* or in the timeout.
InTime(h) == proc[h].left >= 0

RenewRead(h) ==
    /\ proc[h].step = "renew_read" /\ InTime(h)
    /\ IF lock.version # 0 /\ lock.host_id = h
       THEN Becomes(h, [proc[h] EXCEPT !.step = "renew_put", !.left = PutDelay, !.lag = 0,
                                       !.read_v = lock.version])
       ELSE Becomes(h, LostOwnership(proc[h]))

RenewPut(h) ==
    /\ proc[h].step = "renew_put" /\ InTime(h)
    /\ Write(h, [proc[h] EXCEPT !.step = "renew_back", !.left = GetDelay, !.lag = 0,
                                !.put_v = lock.version + 1])

RenewBack(h) ==
    /\ proc[h].step = "renew_back" /\ InTime(h)
    /\ LET verdict == classify_write(proc[h].read_v, proc[h].put_v, h)
       IN  Becomes(h, CASE verdict = "lost"         -> LostOwnership(proc[h])
                        [] verdict = "inconclusive" -> RenewFailed(proc[h])
                        [] OTHER                    -> Renewed(proc[h]))

\* Any call of a renewal fails, a write perhaps after its effect, or the
\* whole renewal runs into the timeout.
RenewError(h) ==
    /\ proc[h].step \in Renewing
    /\ MayFail(h)
    /\ Becomes(h, RenewFailed(proc[h]))

\* The stop signal is only seen between renewals.
Shutdown(h) ==
    /\ proc[h].step = "beat"
    /\ Becomes(h, [proc[h] EXCEPT !.step = "release_read", !.left = GetDelay, !.held = FALSE,
                                  !.beat = 0, !.consecutive = 0])

ReleaseRead(h) ==
    /\ proc[h].step = "release_read"
    /\ Becomes(h, IF lock.version # 0 /\ lock.host_id = h
                  THEN [proc[h] EXCEPT !.step = "release_delete", !.left = PutDelay]
                  ELSE Gone(proc[h]))

ReleaseDelete(h) ==
    /\ proc[h].step = "release_delete"
    /\ lock' = Absent
    /\ proc' = [proc EXCEPT ![h] = Gone(proc[h])]
    /\ UNCHANGED ahead

\* The process dies, or exits without releasing: a stop that finds a socket
\* open, a release that fails or overruns its budget.
Exit(h) ==
    /\ proc[h].step \notin {"off", "gone"}
    /\ Becomes(h, Gone(proc[h]))

-----------------------------------------------------------------------------
(* Time.                                                                   *)

\* A step whose time is up is taken before time goes on; a call of a renewal
\* may hang instead, until the timeout.
Due(h) ==
    LET p == proc[h]
    IN  CASE p.step = "beat" -> p.beat = HeartbeatInterval
          [] p.step \in Renewing -> p.beat = RenewTimeout \/ (p.left = 0 /\ ~MayFail(h))
          [] p.step \in {"read", "put", "answer"} ->
                 p.left = 0 \/ (p.window >= MaxWindow /\ p.ssm_attempt >= MaxErrors)
          [] p.step \in {"claim", "settle", "readback", "wait"} \cup Releasing -> p.left = 0
          [] OTHER -> FALSE

Aged(p) ==
    [p EXCEPT !.left   = IF @ > 0 \/ (@ = 0 /\ p.step \in Renewing) THEN @ - 1 ELSE @,
              !.lag    = IF p.left > 0 /\ p.step \in {"claim", "read", "put", "renew_put"} THEN @ + 1 ELSE @,
              !.window = IF p.step \in {"read", "put", "answer"} THEN @ + 1 ELSE @,
              !.beat   = IF p.step \in Renewing \cup {"beat"} THEN @ + 1 ELSE @]

Tick ==
    /\ \A h \in Hosts : ~Due(h)
    /\ proc' = [h \in Hosts |-> Aged(proc[h])]
    /\ lock' = IF lock.version = 0 THEN lock
               ELSE [lock EXCEPT
                        !.age = IF @ < OldAge THEN @ + 1 ELSE @,
                        !.version = IF /\ @ > SettledVersion
                                       /\ \A h \in Hosts : proc[h].read_v = 0 /\ proc[h].put_v = 0
                                    THEN SettledVersion ELSE @]
    /\ UNCHANGED ahead

HostStep(h) ==
    \/ Boot(h) \/ Claim(h) \/ Read(h) \/ ReadFails(h) \/ Put(h) \/ Answer(h) \/ Settled(h) \/ ReadBack(h) \/ Retry(h)
    \/ HeartbeatTick(h) \/ RenewRead(h) \/ RenewPut(h) \/ RenewBack(h) \/ RenewError(h)
    \/ Shutdown(h) \/ ReleaseRead(h) \/ ReleaseDelete(h) \/ Exit(h)

Next ==
    \/ Tick
    \/ \E h \in Hosts : HostStep(h)

Spec == Init /\ [][Next]_vars

-----------------------------------------------------------------------------
(* Properties.                                                             *)

\* Every counter stays in its range: the ticker never passes its interval and
\* the lag and window of an attempt stay within the bounds of its calls.
TypeOK ==
    /\ lock \in [host_id : Hosts \cup {Previous}, version : Nat, age : -Spread..OldAge]
    /\ ahead \in [Hosts -> 0..Spread]
    /\ proc \in [Hosts ->
          [step : Steps, left : Int, lag : 0..2 * PutDelay + GetDelay,
           window : 0..2 * PutDelay + GetDelay, beat : 0..HeartbeatInterval,
           read_v : Nat, put_v : Nat, held : BOOLEAN, held_attempt : Nat, held_wait : Nat,
           ssm_attempt : Nat, consecutive : 0..MaxFailures]]

\* No two processes have instance_lock_held set at once, so no two mint a token
\* or dial the broker: through claims, contended takeovers, re-verified own writes,
\* lost answers, failed and hung renewals, releases and crashes.
OneHolder == \A g, h \in Hosts : proc[g].held /\ proc[h].held => g = h

\* The value of a process whose flag is set is the stored one: no takeover, renewal
\* or release of another process overwrites or deletes it ("never that a different
\* instance's lock gets stomped", renew_instance_lock; "a foreign instance's lock will
\* never be stomped", release_instance_lock).
HolderOwnsLock == \A h \in Hosts : proc[h].held => lock.version # 0 /\ lock.host_id = h
=============================================================================
