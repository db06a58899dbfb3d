--------------------------- MODULE CircuitBreaker ---------------------------
(***************************************************************************)
(* The order-API circuit breaker (crates/trading/src/oms/                  *)
(* circuit_breaker.rs): three atomics shared by the threads that ask       *)
(* check() for leave to call the broker and then record how the call went. *)
(*                                                                         *)
(* One action per atomic access or clock reading, so every interleaving of *)
(* the threads is explored.  The accesses are sequentially consistent      *)
(* here; the code uses Relaxed for most of them.  The clock counts seconds *)
(* from 1 (the code uses 0 in opened_at_secs for "not open").  The failure  *)
(* counter stops at the threshold: its value beyond is never told apart.   *)
(*                                                                         *)
(* A method is a handful of atomics: Tick assumes that no call is stalled  *)
(* for half a reset timeout (15 seconds).  Two calls that stall in turn    *)
(* for longer do get two probes through in one window.                     *)
(***************************************************************************)
EXTENDS Integers

CONSTANTS
    Threads,
    Threshold,     \* OMS_CIRCUIT_BREAKER_FAILURE_THRESHOLD
    ResetTimeout,  \* OMS_CIRCUIT_BREAKER_RESET_SECS
    MaxStall,      \* seconds one call of the breaker can take
    MaxTime        \* bound of the clock

ASSUME BreakerAssumption ==
    /\ Threshold \in Nat \ {0}
    /\ ResetTimeout \in Nat \ {0}
    /\ MaxStall \in Nat /\ 2 * MaxStall < ResetTimeout
    /\ MaxTime \in Nat \ {0}

VARIABLES
    consecutive_failures,
    opened_at,             \* 0: the circuit is not open
    half_open_probe_sent,
    now,                   \* the wall clock
    pc,                    \* where each thread is
    local,                 \* the value each thread has read last
    since,                 \* when the call a thread is executing began
    probing,               \* threads whose request was let through as a probe
    probed                 \* windows (values of opened_at) in which one was

shared == <<consecutive_failures, opened_at, half_open_probe_sent>>
vars == <<shared, now, pc, local, since, probing, probed>>

\* Outside the breaker: not in a request, or with a request at the broker.
Outside == {"idle", "in_flight"}

CheckSteps   == {"check_failures", "check_opened", "check_clock", "check_cas",
                 "recheck_failures", "recheck_opened", "recheck_clock", "give_back"}
SuccessSteps == {"success_failures", "success_opened", "success_probe"}
FailureSteps == {"failure_count", "failure_clock", "failure_cas", "failure_free",
                 "failure_probe", "failure_rearm", "failure_release"}
ResetSteps   == {"reset_failures", "reset_opened", "reset_probe"}

-----------------------------------------------------------------------------

\* Thread t moves on within its call, having read a value it still needs.
GotoWith(t, step, value) ==
    /\ pc' = [pc EXCEPT ![t] = step]
    /\ local' = [local EXCEPT ![t] = value]
    /\ UNCHANGED <<now, since>>

Goto(t, step) == GotoWith(t, step, local[t])

\* The call of thread t returns.
Return(t, where) ==
    /\ pc' = [pc EXCEPT ![t] = where]
    /\ local' = [local EXCEPT ![t] = 0]
    /\ since' = [since EXCEPT ![t] = 0]
    /\ UNCHANGED now

\* check() lets the request of thread t through, or not.
Admit(t)  == Return(t, "in_flight")
Refuse(t) == Return(t, "idle")

Begin(t, from, step) ==
    /\ pc[t] = from
    /\ pc' = [pc EXCEPT ![t] = step]
    /\ since' = [since EXCEPT ![t] = now]
    /\ UNCHANGED <<shared, now, local, probing, probed>>

Elapsed(opened) == IF now > opened THEN now - opened ELSE 0

-----------------------------------------------------------------------------
(* check(): state(), then in HalfOpen the race for the one probe.          *)

CheckLoadFailures(t) ==
    /\ pc[t] = "check_failures"
    /\ IF consecutive_failures < Threshold THEN Admit(t) ELSE Goto(t, "check_opened")
    /\ UNCHANGED <<shared, probing, probed>>

CheckLoadOpened(t) ==
    /\ pc[t] = "check_opened"
    /\ IF opened_at = 0 THEN Admit(t) ELSE GotoWith(t, "check_clock", opened_at)
    /\ UNCHANGED <<shared, probing, probed>>

CheckClock(t) ==
    /\ pc[t] = "check_clock"
    /\ IF Elapsed(local[t]) >= ResetTimeout THEN GotoWith(t, "check_cas", 0) ELSE Refuse(t)
    /\ UNCHANGED <<shared, probing, probed>>

CheckCompareExchange(t) ==
    /\ pc[t] = "check_cas"
    /\ IF half_open_probe_sent THEN Refuse(t) ELSE Goto(t, "recheck_failures")
    /\ half_open_probe_sent' = TRUE
    /\ UNCHANGED <<consecutive_failures, opened_at, probing, probed>>

\* The second state(): anything but HalfOpen gives the probe back.
RecheckLoadFailures(t) ==
    /\ pc[t] = "recheck_failures"
    /\ Goto(t, IF consecutive_failures < Threshold THEN "give_back" ELSE "recheck_opened")
    /\ UNCHANGED <<shared, probing, probed>>

RecheckLoadOpened(t) ==
    /\ pc[t] = "recheck_opened"
    /\ GotoWith(t, IF opened_at = 0 THEN "give_back" ELSE "recheck_clock", opened_at)
    /\ UNCHANGED <<shared, probing, probed>>

RecheckClock(t) ==
    /\ pc[t] = "recheck_clock"
    /\ IF Elapsed(local[t]) >= ResetTimeout
       THEN /\ Admit(t)
            /\ probing' = probing \cup {t}
            /\ probed' = probed \cup {local[t]}
       ELSE /\ Goto(t, "give_back")
            /\ UNCHANGED <<probing, probed>>
    /\ UNCHANGED shared

GiveProbeBack(t) ==
    /\ pc[t] = "give_back"
    /\ half_open_probe_sent' = FALSE
    /\ Refuse(t)
    /\ UNCHANGED <<consecutive_failures, opened_at, probing, probed>>

Check(t) ==
    \/ Begin(t, "idle", "check_failures")
    \/ CheckLoadFailures(t)
    \/ CheckLoadOpened(t)
    \/ CheckClock(t)
    \/ CheckCompareExchange(t)
    \/ RecheckLoadFailures(t)
    \/ RecheckLoadOpened(t)
    \/ RecheckClock(t)
    \/ GiveProbeBack(t)

-----------------------------------------------------------------------------
(* record_success() and reset(): the same three stores.                    *)

ClearFailures(t, from, to) ==
    /\ pc[t] = from
    /\ consecutive_failures' = 0
    /\ Goto(t, to)
    /\ UNCHANGED <<opened_at, half_open_probe_sent, probing, probed>>

ClearOpened(t, from, to) ==
    /\ pc[t] = from
    /\ opened_at' = 0
    /\ Goto(t, to)
    /\ UNCHANGED <<consecutive_failures, half_open_probe_sent, probing, probed>>

ClearProbe(t, from) ==
    /\ pc[t] = from
    /\ half_open_probe_sent' = FALSE
    /\ Return(t, "idle")
    /\ probing' = probing \ {t}
    /\ UNCHANGED <<consecutive_failures, opened_at, probed>>

RecordSuccess(t) ==
    \/ Begin(t, "in_flight", "success_failures")
    \/ ClearFailures(t, "success_failures", "success_opened")
    \/ ClearOpened(t, "success_opened", "success_probe")
    \/ ClearProbe(t, "success_probe")

\* The operator override, and the daily reset.
Reset(t) ==
    \/ Begin(t, "idle", "reset_failures")
    \/ ClearFailures(t, "reset_failures", "reset_opened")
    \/ ClearOpened(t, "reset_opened", "reset_probe")
    \/ ClearProbe(t, "reset_probe")

-----------------------------------------------------------------------------
(* record_failure().                                                       *)

FailureDone(t) == /\ Return(t, "idle")
                  /\ probing' = probing \ {t}

FailureCount(t) ==
    /\ pc[t] = "failure_count"
    /\ consecutive_failures' = IF consecutive_failures < Threshold
                               THEN consecutive_failures + 1 ELSE Threshold
    /\ IF consecutive_failures' >= Threshold
       THEN Goto(t, "failure_clock") /\ UNCHANGED probing
       ELSE FailureDone(t)
    /\ UNCHANGED <<opened_at, half_open_probe_sent, probed>>

\* Fault: the end of the window is kept instead of its start.
FaultStoreDeadline(t) ==
    /\ pc[t] = "failure_clock"
    /\ GotoWith(t, "failure_cas", now + ResetTimeout)
    /\ UNCHANGED <<shared, probing, probed>>

FailureClock(t) ==
    /\ pc[t] = "failure_clock"
    /\ GotoWith(t, "failure_cas", now)
    /\ UNCHANGED <<shared, probing, probed>>

FailureCompareExchange(t) ==
    /\ pc[t] = "failure_cas"
    /\ IF opened_at = 0
       THEN opened_at' = local[t] /\ Goto(t, "failure_free")
       ELSE UNCHANGED opened_at /\ Goto(t, "failure_probe")
    /\ UNCHANGED <<consecutive_failures, half_open_probe_sent, probing, probed>>

\* Fault: a circuit that is already open is left as it is (the code before
\* audit H3).
FaultIgnoreSpentProbe(t) ==
    /\ pc[t] = "failure_probe"
    /\ FailureDone(t)
    /\ UNCHANGED <<shared, probed>>

FailureLoadProbe(t) ==
    /\ pc[t] = "failure_probe"
    /\ IF half_open_probe_sent THEN Goto(t, "failure_rearm") /\ UNCHANGED probing
                               ELSE FailureDone(t)
    /\ UNCHANGED <<shared, probed>>

\* Fault: the probe is freed but the window is not moved.
FaultNoRearm(t) ==
    /\ pc[t] = "failure_rearm"
    /\ Goto(t, "failure_release")
    /\ UNCHANGED <<shared, probing, probed>>

\* The spent probe failed: a new window from now ...
FailureRearm(t) ==
    /\ pc[t] = "failure_rearm"
    /\ opened_at' = local[t]
    /\ Goto(t, "failure_release")
    /\ UNCHANGED <<consecutive_failures, half_open_probe_sent, probing, probed>>

\* ... and then the probe of that window; also after opening the circuit.
FailureFreeProbe(t) ==
    /\ pc[t] \in {"failure_free", "failure_release"}
    /\ half_open_probe_sent' = FALSE
    /\ FailureDone(t)
    /\ UNCHANGED <<consecutive_failures, opened_at, probed>>

RecordFailure(t) ==
    \/ Begin(t, "in_flight", "failure_count")
    \/ FailureCount(t)
    \/ FailureClock(t)
    \/ FailureCompareExchange(t)
    \/ FailureLoadProbe(t)
    \/ FailureRearm(t)
    \/ FailureFreeProbe(t)

-----------------------------------------------------------------------------

\* Time passes, but no call takes more than MaxStall.
Tick ==
    /\ now < MaxTime
    /\ \A t \in Threads : pc[t] \notin Outside => now + 1 - since[t] <= MaxStall
    /\ now' = now + 1
    /\ UNCHANGED <<shared, pc, local, since, probing, probed>>

Init ==
    /\ consecutive_failures = 0
    /\ opened_at = 0
    /\ half_open_probe_sent = FALSE
    /\ now = 1
    /\ pc = [t \in Threads |-> "idle"]
    /\ local = [t \in Threads |-> 0]
    /\ since = [t \in Threads |-> 0]
    /\ probing = {}
    /\ probed = {}

Next ==
    \/ \E t \in Threads : Check(t) \/ RecordSuccess(t) \/ RecordFailure(t) \/ Reset(t)
    \/ Tick

Spec == Init /\ [][Next]_vars

-----------------------------------------------------------------------------
(* Properties.                                                             *)

\* The type invariant.
TypeOK ==
    /\ consecutive_failures \in 0..Threshold
    /\ opened_at \in 0..MaxTime
    /\ half_open_probe_sent \in BOOLEAN
    /\ now \in 1..MaxTime
    /\ pc \in [Threads -> Outside \cup CheckSteps \cup SuccessSteps \cup FailureSteps \cup ResetSteps]
    /\ local \in [Threads -> 0..MaxTime]
    /\ since \in [Threads -> 0..MaxTime]
    /\ probing \subseteq Threads
    /\ probed \subseteq 1..MaxTime

\* A spent probe is never abandoned: while the flag is set, the request that was
\* let through is still at the broker, or a call that frees the flag is under
\* way; so the breaker never ends stuck half-open, refusing every request.
ProbeHasOwner ==
    half_open_probe_sent =>
        \E t \in Threads :
            \/ t \in probing
            \/ pc[t] \in {"recheck_failures", "recheck_opened", "recheck_clock", "give_back",
                         "success_opened", "success_probe", "reset_opened", "reset_probe",
                         "failure_rearm", "failure_release", "failure_free"}

\* check() lets at most one probe through per open window: no window is served
\* twice, whatever stragglers record meanwhile ("so a failed probe is never
\* followed at once by another").
OneProbePerWindow ==
    [][\A t \in Threads :
          (pc[t] = "recheck_clock" /\ pc'[t] = "in_flight") => local[t] \notin probed]_vars
=============================================================================
