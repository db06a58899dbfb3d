------------------------------ MODULE OrderPath ------------------------------
(***************************************************************************)
(* The path of a live order call through the OMS engine: the gates in      *)
(* front of the broker, the retry ladder of the API client and the error   *)
(* policy of the engine (crates/trading/src/oms/engine.rs, api_client.rs,  *)
(* error_taxonomy.rs), with the circuit breaker as the engine uses it.     *)
(*                                                                         *)
(* place_order, modify_order and cancel_order take &mut self: one call at  *)
(* a time.  But a call spans several awaits (requests, back-off sleeps,    *)
(* the wait for a token rotation) and meanwhile the readiness probe,       *)
(* the STOP-ALL cooldown and the reset window of the breaker move on.      *)
(*                                                                         *)
(* The book-capacity, budget and per-second gates stand before the breaker *)
(* and change nothing here when they refuse: a call that never begins.     *)
(* Time is abstract: a window or a cooldown that runs may end.             *)
(***************************************************************************)
EXTENDS Integers

CONSTANTS
    Threshold,       \* OMS_CIRCUIT_BREAKER_FAILURE_THRESHOLD
    MaxBackoffs      \* length of DH904_BACKOFF_SECS

ASSUME OrderPathAssumption ==
    /\ Threshold \in Nat \ {0}
    /\ MaxBackoffs \in Nat

VARIABLES
    failures,     \* the breaker: consecutive_failures, up to the threshold,
    window,       \*   opened_at: "none", "running" or "elapsed",
    probe,        \*   half_open_probe_sent
    halted,       \* the engine's halt latch
    ready,        \* what evaluate_order_readiness says
    cooldown,     \* the STOP-ALL latch of the API client
    call,         \* the call in progress
    accepted      \* times the broker has acted on the last placement or modification

breaker == <<failures, window, probe>>
vars == <<breaker, halted, ready, cooldown, call, accepted>>

Endpoint == {"Place", "Modify", "Cancel"}

-----------------------------------------------------------------------------
(* Error classes and their policies (error_taxonomy.rs).  "Unclassified"   *)
(* is an error classify_oms_error has no class for, such as a response     *)
(* that does not parse.                                                    *)

Ambiguous == {"Dh908", "Dh909", "Data800", "ServerErrorNoCode", "Transport"}

DhanErrorClass ==
    {"Dh901", "Dh902", "Dh903", "Dh904", "Dh905", "Dh906", "Dh907", "Dh910", "UnknownCode",
     "Data804", "Data805", "Data806", "Data807", "Data808", "Data809", "Data810", "Data811",
     "Data812", "Data813", "Data814", "Http429NoCode", "AuthNoCode", "ClientErrorNoCode"}
    \cup Ambiguous

\* Fault: a placement whose fate is unknown is tried again.
FaultRetryAmbiguous(endpoint) == "CancelSingleRetry"

ambiguous_policy(endpoint) ==
    IF endpoint = "Cancel" THEN "CancelSingleRetry" ELSE "NeverRetry"

policy_for(class, endpoint) ==
    CASE class = "Dh901"                             -> "RotateRetryOnceThenHalt"
      [] class \in {"Dh902", "Dh903", "Data810"}     -> "HaltAndAlert"
      [] class \in {"Dh904", "Http429NoCode"}        -> "BackoffLadder"
      [] class = "Data805"                           -> "StopAllCooldown"
      [] class = "Data806"                           -> "AlertOnlyPoisonReadiness"
      [] class \in {"Data807", "Data808", "Data809"} -> "TokenRefreshRetryOnce"
      [] class \in {"Dh907", "Data804"}              -> "CheckParamsNoRetry"
      [] class \in {"Dh910", "UnknownCode"}          -> "LogAndAlert"
      [] class \in Ambiguous                         -> ambiguous_policy(endpoint)
      [] OTHER                                       -> "NeverRetry"

trips_circuit_breaker(class) ==
    class \notin {"Dh901", "Dh902", "Dh903", "Data810", "Dh904", "Http429NoCode",
                  "Data805", "Data806", "Data807", "Data808", "Data809"}

\* External: the errors by which the broker says that it did not process the
\* request.  After any other error it may have.
Refusals == {"Dh901", "Dh902", "Dh903", "Dh904", "Http429NoCode", "Data805", "Data806",
             "Data807", "Data808", "Data809", "Data810"}

\* Fault: one rung too many.
FaultExtraRung(attempts) == attempts <= MaxBackoffs

\* There is another rung on the ladder.
compute_dh904_backoff(attempts) == attempts < MaxBackoffs

-----------------------------------------------------------------------------
(* The breaker, used by one call at a time.                                *)

state == IF failures < Threshold \/ window = "none" THEN "Closed"
         ELSE IF window = "elapsed" THEN "HalfOpen" ELSE "Open"

\* check() lets a request through; in HalfOpen it spends the probe.
Admits == state = "Closed" \/ (state = "HalfOpen" /\ ~probe)

check ==
    /\ Admits
    /\ probe' = (probe \/ state = "HalfOpen")
    /\ UNCHANGED <<failures, window>>

record_success ==
    /\ failures' = 0
    /\ window' = "none"
    /\ probe' = FALSE

record_failure ==
    /\ failures' = IF failures < Threshold THEN failures + 1 ELSE Threshold
    /\ IF failures' >= Threshold /\ (window = "none" \/ probe)
       THEN window' = "running" /\ probe' = FALSE
       ELSE UNCHANGED <<window, probe>>

\* reset() has the same effect as record_success().
reset == record_success

-----------------------------------------------------------------------------
(* A call.                                                                 *)

Idle == [at |-> "Idle"]

\* Where a call is, the error it carries, and the retries it has used.
At(where) == call.at = where
Move(where) == call' = [call EXCEPT !.at = where]
Fail(class) == call' = [call EXCEPT !.at = "Engine", !.class = class]
Return == call' = Idle

\* The call passes the breaker.
Begin(endpoint) ==
    /\ At("Idle")
    /\ check
    /\ call' = [at |-> "Gates", endpoint |-> endpoint, class |-> "None",
                attempts |-> 0, cancel_retry_used |-> FALSE, auth_retry_used |-> FALSE]
    /\ accepted' = 0
    /\ UNCHANGED <<halted, ready, cooldown>>

\* Fault: the halt latch is not looked at.
FaultNoHaltGate ==
    /\ At("Gates")
    /\ IF call.endpoint = "Cancel" \/ ready THEN Move("Token") ELSE Return
    /\ UNCHANGED <<breaker, halted, ready, cooldown, accepted>>

\* check_live_order_gates: a cancel has neither a halt nor a readiness gate.
Gates ==
    /\ At("Gates")
    /\ IF call.endpoint = "Cancel" \/ (~halted /\ ready) THEN Move("Token") ELSE Return
    /\ UNCHANGED <<breaker, halted, ready, cooldown, accepted>>

\* get_access_token; without a token the call returns.
Token ==
    /\ At("Token")
    /\ \/ call' = [call EXCEPT !.at = "Ladder", !.attempts = 0, !.cancel_retry_used = FALSE]
       \/ Return
    /\ UNCHANGED <<breaker, halted, ready, cooldown, accepted>>

\* check_stop_all_latch, at the top of every iteration of run_order_ladder.
StopAllLatched ==
    /\ At("Ladder")
    /\ cooldown
    /\ Fail("Data805")
    /\ UNCHANGED <<breaker, halted, ready, cooldown, accepted>>

\* The broker acts on the request; a repeated cancel is harmless and not counted.
Acts == accepted + IF call.endpoint = "Cancel" THEN 0 ELSE 1

\* The request succeeds.
RequestOk ==
    /\ At("Ladder")
    /\ ~cooldown
    /\ record_success
    /\ Return
    /\ accepted' = Acts
    /\ UNCHANGED <<halted, ready, cooldown>>

\* The request fails, after the broker has processed it or not; the ladder
\* tries again or hands the error to the engine.
RequestError(class) ==
    /\ At("Ladder")
    /\ ~cooldown
    /\ accepted' \in {accepted} \cup (IF class \in Refusals THEN {} ELSE {Acts})
    /\ LET policy == IF class = "Unclassified" THEN "None" ELSE policy_for(class, call.endpoint)
       IN  /\ cooldown' = (policy = "StopAllCooldown")
           /\ IF policy = "BackoffLadder" /\ compute_dh904_backoff(call.attempts)
              THEN call' = [call EXCEPT !.attempts = @ + 1]
              ELSE IF policy = "CancelSingleRetry" /\ ~call.cancel_retry_used
              THEN call' = [call EXCEPT !.cancel_retry_used = TRUE]
              ELSE Fail(class)
    /\ UNCHANGED <<breaker, halted, ready>>

-----------------------------------------------------------------------------
(* apply_engine_error_policy.                                              *)

\* Fault: the engine does not remember that it has retried.
FaultForgetRetry(policy) ==
    /\ policy \in {"RotateRetryOnceThenHalt", "TokenRefreshRetryOnce"}
    /\ Move("Token")
    /\ UNCHANGED <<halted, ready>>

RetryOnce(policy) ==
    /\ policy \in {"RotateRetryOnceThenHalt", "TokenRefreshRetryOnce"}
    /\ ~call.auth_retry_used
    /\ call' = [call EXCEPT !.at = "Token", !.auth_retry_used = TRUE]
    /\ UNCHANGED <<halted, ready>>

Halt(policy) ==
    /\ \/ policy = "HaltAndAlert"
       \/ policy = "RotateRetryOnceThenHalt" /\ call.auth_retry_used
    /\ halted' = TRUE
    /\ Return
    /\ UNCHANGED ready

PoisonReadiness(policy) ==
    /\ policy = "AlertOnlyPoisonReadiness"
    /\ ready' = FALSE
    /\ Return
    /\ UNCHANGED halted

PassThrough(policy) ==
    /\ \/ policy \notin {"RotateRetryOnceThenHalt", "HaltAndAlert", "TokenRefreshRetryOnce",
                         "AlertOnlyPoisonReadiness"}
       \/ policy = "TokenRefreshRetryOnce" /\ call.auth_retry_used
    /\ Return
    /\ UNCHANGED <<halted, ready>>

ApplyErrorPolicy ==
    /\ At("Engine")
    /\ IF call.class = "Unclassified" \/ trips_circuit_breaker(call.class)
       THEN record_failure ELSE UNCHANGED breaker
    /\ LET policy == IF call.class = "Unclassified" THEN "None"
                     ELSE policy_for(call.class, call.endpoint)
       IN  RetryOnce(policy) \/ Halt(policy) \/ PoisonReadiness(policy) \/ PassThrough(policy)
    /\ UNCHANGED <<cooldown, accepted>>

-----------------------------------------------------------------------------
(* Around the calls.                                                       *)

\* The operator clears the halt: the breaker is reset with it.
ClearOrderHalt ==
    /\ At("Idle")
    /\ halted
    /\ halted' = FALSE
    /\ reset
    /\ UNCHANGED <<ready, cooldown, call, accepted>>

\* The daily reset resets the breaker and leaves the halt.
ResetDaily ==
    /\ At("Idle")
    /\ reset
    /\ UNCHANGED <<halted, ready, cooldown, call, accepted>>

\* The readiness probe runs in a task of its own.
ReadinessProbe ==
    /\ ready' \in BOOLEAN
    /\ UNCHANGED <<breaker, halted, cooldown, call, accepted>>

WindowElapses ==
    /\ window = "running"
    /\ window' = "elapsed"
    /\ UNCHANGED <<failures, probe, halted, ready, cooldown, call, accepted>>

CooldownExpires ==
    /\ cooldown
    /\ cooldown' = FALSE
    /\ UNCHANGED <<breaker, halted, ready, call, accepted>>

Init ==
    /\ failures = 0 /\ window = "none" /\ probe = FALSE
    /\ halted = FALSE
    /\ ready = FALSE
    /\ cooldown = FALSE
    /\ call = Idle
    /\ accepted = 0

Steps ==
    \/ Gates
    \/ Token
    \/ StopAllLatched
    \/ RequestOk
    \/ \E class \in DhanErrorClass \cup {"Unclassified"} : RequestError(class)
    \/ ApplyErrorPolicy

Next ==
    \/ \E endpoint \in Endpoint : Begin(endpoint)
    \/ Steps
    \/ ClearOrderHalt
    \/ ResetDaily
    \/ ReadinessProbe
    \/ WindowElapses
    \/ CooldownExpires

Spec == Init /\ [][Next]_vars

\* A call that has begun goes on (every await of it has a timeout) and time
\* passes.  Nothing is assumed of the operator or of the daily reset.
FairSpec ==
    /\ Spec
    /\ WF_vars(Steps)
    /\ WF_vars(WindowElapses)
    /\ WF_vars(CooldownExpires)

-----------------------------------------------------------------------------
(* Properties.                                                             *)

Calls == {Idle} \cup [at : {"Gates", "Token", "Ladder", "Engine"},
                      endpoint : Endpoint,
                      class : DhanErrorClass \cup {"None", "Unclassified"},
                      attempts : 0..MaxBackoffs,
                      cancel_retry_used : BOOLEAN,
                      auth_retry_used : BOOLEAN]

\* The type invariant.
TypeOK ==
    /\ failures \in 0..Threshold
    /\ window \in {"none", "running", "elapsed"}
    /\ probe \in BOOLEAN
    /\ halted \in BOOLEAN
    /\ ready \in BOOLEAN
    /\ cooldown \in BOOLEAN
    /\ call \in Calls
    /\ accepted \in Nat

\* One place_order or modify_order call never makes the broker act twice,
\* whatever errors it meets on the ladder and in the engine's retries: only
\* errors that say the request was not processed are ever retried (F-F).
NoDuplicateOrder ==
    accepted <= 1

\* While the order path is halted no placement and no modification reaches the
\* broker: the call that engages the halt sends nothing more, and later ones
\* stop at the gate (check_live_order_gates), until the operator clears it.
HaltBlocksNewExposure ==
    halted => At("Idle") \/ call.endpoint = "Cancel" \/ At("Gates")

\* The nested retries end: every call that has begun returns.
CallsReturn ==
    []<>At("Idle")

\* What the comment of record_failure promises of the breaker in use: a circuit
\* that is open is at some time ready to let a request through again.
BreakerRecovers ==
    (state # "Closed" /\ At("Idle")) ~> Admits
=============================================================================
