----------------------------- MODULE OrderProofs -----------------------------
(***************************************************************************)
(* Safety of the order path for every failure threshold and every length   *)
(* of the back-off ladder.  NoDuplicateOrder is not inductive: whether a   *)
(* retry is harmless depends on what the error that led to it says about   *)
(* the request.  Unprocessed adds it: a call that may still send a request *)
(* has not been acted on.  Then the order budget (BudgetSpec), and the     *)
(* order book (BookSpec): for every set of orders, order quantity, lot     *)
(* size and table ceiling, the OMS never books a fill twice and never      *)
(* loses one without saying so.                                            *)
(***************************************************************************)
EXTENDS OrderGate, OrderBook, FiniteSetTheorems, TLAPS

RetriedByEngine == {"Dh901", "Data807", "Data808", "Data809"}

Unprocessed ==
    /\ call.at \in {"Gates", "Token", "Ladder"} => accepted = 0
    /\ (call.at = "Engine" /\ call.class \in RetriedByEngine) => accepted = 0

IInv ==
    /\ TypeOK
    /\ NoDuplicateOrder
    /\ HaltBlocksNewExposure
    /\ Unprocessed

-----------------------------------------------------------------------------

\* What the ladder retries: errors that refuse the request, and cancels.
LEMMA LadderRetries ==
    ASSUME NEW class \in DhanErrorClass, NEW endpoint \in Endpoint
    PROVE  /\ policy_for(class, endpoint) = "BackoffLadder" => class \in Refusals
           /\ policy_for(class, endpoint) = "CancelSingleRetry" => endpoint = "Cancel"
BY SMT DEF policy_for, DhanErrorClass, Ambiguous, Refusals, ambiguous_policy, Endpoint

\* What the engine retries: errors that refuse the request.
LEMMA EngineRetries ==
    ASSUME NEW class \in DhanErrorClass, NEW endpoint \in Endpoint,
           policy_for(class, endpoint) \in {"RotateRetryOnceThenHalt", "TokenRefreshRetryOnce"}
    PROVE  class \in RetriedByEngine
BY SMT DEF policy_for, DhanErrorClass, Ambiguous, ambiguous_policy, RetriedByEngine

\* What the engine retries, the broker refused before acting.
LEMMA RetriedWereRefused == RetriedByEngine \subseteq Refusals
BY DEF RetriedByEngine, Refusals

\* A call that is not idle is a record with its fields.
LEMMA CallFields ==
    ASSUME call \in Calls, call.at # "Idle"
    PROVE  call \in [at : {"Gates", "Token", "Ladder", "Engine"},
                     endpoint : Endpoint,
                     class : DhanErrorClass \cup {"None", "Unclassified"},
                     attempts : 0..MaxBackoffs,
                     cancel_retry_used : BOOLEAN,
                     auth_retry_used : BOOLEAN]
BY DEF Calls, Idle

\* The breaker keeps its type.
LEMMA BreakerTyped ==
    ASSUME failures \in 0..Threshold, window \in {"none", "running", "elapsed"}, probe \in BOOLEAN,
           check \/ record_success \/ record_failure \/ reset \/ UNCHANGED breaker
    PROVE  failures' \in 0..Threshold /\ window' \in {"none", "running", "elapsed"} /\ probe' \in BOOLEAN
<1>1. CASE check
  BY <1>1 DEF check
<1>2. CASE record_success \/ reset
  <2>1. failures' = 0 /\ window' = "none" /\ probe' = FALSE
    BY <1>2 DEF record_success, reset
  <2>2. 0 \in 0..Threshold
    BY OrderPathAssumption
  <2> QED
    BY <2>1, <2>2, Zenon
<1>3. CASE record_failure
  <2>1. failures' \in 0..Threshold
    BY <1>3, OrderPathAssumption DEF record_failure
  <2>2. window' \in {"none", "running", "elapsed"} /\ probe' \in BOOLEAN
    BY <1>3 DEF record_failure
  <2> QED
    BY <2>1, <2>2
<1>4. CASE UNCHANGED breaker
  BY <1>4 DEF breaker
<1> QED
  BY <1>1, <1>2, <1>3, <1>4

-----------------------------------------------------------------------------

\* An idle path satisfies the invariant.
LEMMA InitIInv == Init => IInv
<1> SUFFICES ASSUME Init PROVE IInv
  OBVIOUS
<1>1. TypeOK
  <2>1. call \in Calls
    BY DEF Init, Calls
  <2>2. failures \in 0..Threshold /\ accepted \in Nat
    BY OrderPathAssumption DEF Init
  <2> QED
    BY <2>1, <2>2 DEF Init, TypeOK
<1>2. NoDuplicateOrder /\ HaltBlocksNewExposure /\ Unprocessed
  BY DEF Init, Idle, NoDuplicateOrder, HaltBlocksNewExposure, Unprocessed, At
<1> QED
  BY <1>1, <1>2 DEF IInv

\* Every step keeps the invariant.
LEMMA NextIInv == IInv /\ [Next]_vars => IInv'
<1> SUFFICES ASSUME IInv, [Next]_vars PROVE IInv'
  OBVIOUS
<1> USE OrderPathAssumption DEF IInv
<1>t. /\ failures \in 0..Threshold /\ window \in {"none", "running", "elapsed"} /\ probe \in BOOLEAN
      /\ halted \in BOOLEAN /\ ready \in BOOLEAN /\ cooldown \in BOOLEAN
      /\ call \in Calls /\ accepted \in Nat
  BY DEF TypeOK
<1>1. CASE \E endpoint \in Endpoint : Begin(endpoint)
  <2>1. PICK endpoint \in Endpoint : Begin(endpoint)
    BY <1>1
  <2>2. call' \in Calls /\ call'.at = "Gates" /\ accepted' = 0
    BY <2>1 DEF Begin, Calls
  <2>3. TypeOK'
    BY <1>t, <2>1, <2>2, BreakerTyped DEF TypeOK, Begin
  <2> QED
    BY <2>1, <2>2, <2>3
       DEF Begin, NoDuplicateOrder, HaltBlocksNewExposure, Unprocessed, At
<1>2. CASE Gates
  <2>1. call \in [at : {"Gates", "Token", "Ladder", "Engine"}, endpoint : Endpoint,
                  class : DhanErrorClass \cup {"None", "Unclassified"},
                  attempts : 0..MaxBackoffs, cancel_retry_used : BOOLEAN,
                  auth_retry_used : BOOLEAN]
    BY <1>t, <1>2, CallFields DEF Gates, At
  <2>2. CASE call.endpoint = "Cancel" \/ (~halted /\ ready)
    <3>1. call' = [call EXCEPT !.at = "Token"]
      BY <1>2, <2>2 DEF Gates, Move
    <3>2. call' \in Calls /\ call'.at = "Token" /\ call'.endpoint = call.endpoint
      BY <2>1, <3>1 DEF Calls
    <3>3. TypeOK'
      BY <1>t, <1>2, <3>2, BreakerTyped DEF TypeOK, Gates
    <3> QED
      BY <1>2, <2>2, <3>2, <3>3
         DEF Gates, NoDuplicateOrder, HaltBlocksNewExposure, Unprocessed, At
  <2>3. CASE ~(call.endpoint = "Cancel" \/ (~halted /\ ready))
    <3>1. call' = Idle
      BY <1>2, <2>3 DEF Gates, Return
    <3>2. TypeOK'
      BY <1>t, <1>2, <3>1, BreakerTyped DEF TypeOK, Gates, Calls
    <3> QED
      BY <1>2, <3>1, <3>2
         DEF Gates, NoDuplicateOrder, HaltBlocksNewExposure, Unprocessed, At, Idle
  <2> QED
    BY <2>2, <2>3
<1>3. CASE Token
  <2>1. call \in [at : {"Gates", "Token", "Ladder", "Engine"}, endpoint : Endpoint,
                  class : DhanErrorClass \cup {"None", "Unclassified"},
                  attempts : 0..MaxBackoffs, cancel_retry_used : BOOLEAN,
                  auth_retry_used : BOOLEAN]
    BY <1>t, <1>3, CallFields DEF Token, At
  <2>2. CASE call' = [call EXCEPT !.at = "Ladder", !.attempts = 0, !.cancel_retry_used = FALSE]
    <3>1. call' \in Calls /\ call'.at = "Ladder" /\ call'.endpoint = call.endpoint
      <4>1. 0 \in 0..MaxBackoffs
        OBVIOUS
      <4> QED
        BY <2>1, <2>2, <4>1 DEF Calls
    <3>2. TypeOK'
      BY <1>t, <1>3, <3>1, BreakerTyped DEF TypeOK, Token
    <3> QED
      BY <1>3, <3>1, <3>2
         DEF Token, NoDuplicateOrder, HaltBlocksNewExposure, Unprocessed, At
  <2>3. CASE call' = Idle
    <3>1. TypeOK'
      BY <1>t, <1>3, <2>3, BreakerTyped DEF TypeOK, Token, Calls
    <3> QED
      BY <1>3, <2>3, <3>1
         DEF Token, NoDuplicateOrder, HaltBlocksNewExposure, Unprocessed, At, Idle
  <2> QED
    BY <1>3, <2>2, <2>3 DEF Token, Return
<1>4. CASE StopAllLatched
  <2>1. call \in [at : {"Gates", "Token", "Ladder", "Engine"}, endpoint : Endpoint,
                  class : DhanErrorClass \cup {"None", "Unclassified"},
                  attempts : 0..MaxBackoffs, cancel_retry_used : BOOLEAN,
                  auth_retry_used : BOOLEAN]
    BY <1>t, <1>4, CallFields DEF StopAllLatched, At
  <2>2. call' = [call EXCEPT !.at = "Engine", !.class = "Data805"]
    BY <1>4 DEF StopAllLatched, Fail
  <2>3. call' \in Calls /\ call'.at = "Engine" /\ call'.endpoint = call.endpoint /\ call'.class = "Data805"
    BY <2>1, <2>2 DEF Calls, DhanErrorClass
  <2>4. TypeOK'
    BY <1>t, <1>4, <2>3, BreakerTyped DEF TypeOK, StopAllLatched
  <2> QED
    BY <1>4, <2>3, <2>4
       DEF StopAllLatched, NoDuplicateOrder, HaltBlocksNewExposure, Unprocessed, At, RetriedByEngine
<1>5. CASE RequestOk
  <2>1. call' = Idle /\ accepted = 0 /\ accepted' \in 0..1
    BY <1>t, <1>5 DEF RequestOk, Return, Acts, Unprocessed, At
  <2>2. TypeOK'
    BY <1>t, <1>5, <2>1, BreakerTyped DEF TypeOK, RequestOk, Calls
  <2> QED
    BY <1>5, <2>1, <2>2
       DEF RequestOk, NoDuplicateOrder, HaltBlocksNewExposure, Unprocessed, At, Idle
<1>6. CASE \E class \in DhanErrorClass \cup {"Unclassified"} : RequestError(class)
  <2>1. PICK class \in DhanErrorClass \cup {"Unclassified"} : RequestError(class)
    BY <1>6
  <2>2. call \in [at : {"Gates", "Token", "Ladder", "Engine"}, endpoint : Endpoint,
                  class : DhanErrorClass \cup {"None", "Unclassified"},
                  attempts : 0..MaxBackoffs, cancel_retry_used : BOOLEAN,
                  auth_retry_used : BOOLEAN]
    BY <1>t, <2>1, CallFields DEF RequestError, At
  <2> DEFINE policy == IF class = "Unclassified" THEN "None" ELSE policy_for(class, call.endpoint)
  <2>3. /\ accepted = 0 /\ call.at = "Ladder"
        /\ accepted' \in 0..1
        /\ class \in Refusals \/ call.endpoint = "Cancel" => accepted' = 0
        /\ cooldown' \in BOOLEAN
        /\ UNCHANGED <<breaker, halted, ready>>
    BY <1>t, <2>1 DEF RequestError, Acts, Unprocessed, At
  <2>4. CASE policy = "BackoffLadder" /\ compute_dh904_backoff(call.attempts)
    <3>1. call' = [call EXCEPT !.attempts = @ + 1]
      BY <2>1, <2>4 DEF RequestError
    <3>2. call.attempts + 1 \in 0..MaxBackoffs
      BY <2>2, <2>4 DEF compute_dh904_backoff
    <3>3. call' \in Calls /\ call'.at = "Ladder" /\ call'.endpoint = call.endpoint
      BY <2>2, <2>3, <3>1, <3>2 DEF Calls
    <3>4. class \in Refusals
      BY <2>2, <2>4, LadderRetries
    <3>5. TypeOK'
      BY <1>t, <2>3, <3>3, BreakerTyped DEF TypeOK
    <3> QED
      BY <2>3, <3>3, <3>4, <3>5
         DEF NoDuplicateOrder, HaltBlocksNewExposure, Unprocessed, At
  <2>5. CASE /\ ~(policy = "BackoffLadder" /\ compute_dh904_backoff(call.attempts))
             /\ policy = "CancelSingleRetry" /\ ~call.cancel_retry_used
    <3>1. call' = [call EXCEPT !.cancel_retry_used = TRUE]
      BY <2>1, <2>5 DEF RequestError
    <3>2. call' \in Calls /\ call'.at = "Ladder" /\ call'.endpoint = call.endpoint
      BY <2>2, <2>3, <3>1 DEF Calls
    <3>3. call.endpoint = "Cancel"
      BY <2>2, <2>5, LadderRetries
    <3>4. TypeOK'
      BY <1>t, <2>3, <3>2, BreakerTyped DEF TypeOK
    <3> QED
      BY <2>3, <3>2, <3>3, <3>4
         DEF NoDuplicateOrder, HaltBlocksNewExposure, Unprocessed, At
  <2>6. CASE /\ ~(policy = "BackoffLadder" /\ compute_dh904_backoff(call.attempts))
             /\ ~(policy = "CancelSingleRetry" /\ ~call.cancel_retry_used)
    <3>1. call' = [call EXCEPT !.at = "Engine", !.class = class]
      BY <2>1, <2>6 DEF RequestError, Fail
    <3>2. /\ call' \in Calls /\ call'.at = "Engine"
          /\ call'.endpoint = call.endpoint /\ call'.class = class
      BY <2>2, <3>1 DEF Calls
    <3>3. TypeOK'
      BY <1>t, <2>3, <3>2, BreakerTyped DEF TypeOK
    <3> QED
      BY <2>3, <3>2, <3>3, RetriedWereRefused
         DEF NoDuplicateOrder, HaltBlocksNewExposure, Unprocessed, At
  <2> QED
    BY <2>4, <2>5, <2>6
<1>7. CASE ApplyErrorPolicy
  <2>1. call \in [at : {"Gates", "Token", "Ladder", "Engine"}, endpoint : Endpoint,
                  class : DhanErrorClass \cup {"None", "Unclassified"},
                  attempts : 0..MaxBackoffs, cancel_retry_used : BOOLEAN,
                  auth_retry_used : BOOLEAN]
    BY <1>t, <1>7, CallFields DEF ApplyErrorPolicy, At
  <2> DEFINE policy == IF call.class = "Unclassified" THEN "None"
                       ELSE policy_for(call.class, call.endpoint)
  <2>2. /\ call.at = "Engine"
        /\ record_failure \/ UNCHANGED breaker
        /\ cooldown' = cooldown /\ accepted' = accepted
        /\ RetryOnce(policy) \/ Halt(policy) \/ PoisonReadiness(policy) \/ PassThrough(policy)
    BY <1>7 DEF ApplyErrorPolicy, At
  <2>3. CASE RetryOnce(policy)
    <3>1. /\ call' \in Calls /\ call'.at = "Token" /\ call'.endpoint = call.endpoint
          /\ UNCHANGED <<halted, ready>>
      BY <2>1, <2>3 DEF RetryOnce, Calls
    <3>2. accepted = 0
      <4>1. CASE call.class = "None"
        BY <2>3, <4>1 DEF RetryOnce, policy_for, Ambiguous
      <4>2. CASE call.class # "None"
        <5>1. call.class \in DhanErrorClass
          BY <2>1, <2>3, <4>2 DEF RetryOnce
        <5>2. policy_for(call.class, call.endpoint)
                  \in {"RotateRetryOnceThenHalt", "TokenRefreshRetryOnce"}
          BY <2>3 DEF RetryOnce
        <5>3. call.class \in RetriedByEngine
          BY <2>1, <5>1, <5>2, EngineRetries
        <5> QED
          BY <2>2, <5>3 DEF Unprocessed
      <4> QED
        BY <4>1, <4>2
    <3>3. TypeOK'
      BY <1>t, <2>2, <3>1, BreakerTyped DEF TypeOK
    <3> QED
      BY <2>2, <3>1, <3>2, <3>3
         DEF NoDuplicateOrder, HaltBlocksNewExposure, Unprocessed, At
  <2>4. CASE Halt(policy) \/ PoisonReadiness(policy) \/ PassThrough(policy)
    <3>1. call' = Idle /\ halted' \in BOOLEAN /\ ready' \in BOOLEAN
      BY <1>t, <2>4 DEF Halt, PoisonReadiness, PassThrough, Return
    <3>2. TypeOK'
      BY <1>t, <2>2, <3>1, BreakerTyped DEF TypeOK, Calls
    <3> QED
      BY <2>2, <3>1, <3>2
         DEF NoDuplicateOrder, HaltBlocksNewExposure, Unprocessed, At, Idle
  <2> QED
    BY <2>2, <2>3, <2>4
<1>8. CASE ClearOrderHalt \/ ResetDaily
  <2>1. TypeOK'
    BY <1>t, <1>8, BreakerTyped DEF TypeOK, ClearOrderHalt, ResetDaily
  <2> QED
    BY <1>8, <2>1
       DEF ClearOrderHalt, ResetDaily, NoDuplicateOrder, HaltBlocksNewExposure, Unprocessed, At
<1>9. CASE ReadinessProbe \/ WindowElapses \/ CooldownExpires \/ UNCHANGED vars
  <2>1. TypeOK'
    BY <1>t, <1>9 DEF TypeOK, ReadinessProbe, WindowElapses, CooldownExpires, vars, breaker
  <2> QED
    BY <1>9, <2>1
       DEF ReadinessProbe, WindowElapses, CooldownExpires, vars, breaker, NoDuplicateOrder,
           HaltBlocksNewExposure, Unprocessed, At
<1> QED
  BY <1>1, <1>2, <1>3, <1>4, <1>5, <1>6, <1>7, <1>8, <1>9 DEF Next, Steps

\* So it holds throughout.
LEMMA Invariance == Spec => []IInv
BY InitIInv, NextIInv, PTL DEF Spec

\* The types of the order path hold for every ladder and every threshold; in
\* particular the ladder never climbs past its last rung.
THEOREM TypeCorrect == Spec => []TypeOK
BY Invariance, PTL DEF IInv

\* A placement or a modification is acted on at most once, whatever errors the
\* ladder of the API client and the retries of the engine meet.
THEOREM NeverDuplicated == Spec => []NoDuplicateOrder
BY Invariance, PTL DEF IInv

\* A halted order path sends no placement and no modification.
THEOREM HaltAlwaysBlocks == Spec => []HaltBlocksNewExposure
BY Invariance, PTL DEF IInv

-----------------------------------------------------------------------------
(* The order budget that every call is charged to before it takes the path *)
(* (OrderBudget), for any number of tiers, limits and windows: no tier is  *)
(* charged past its limit, a refused call is charged to no tier, and no    *)
(* interval as long as a window holds more than twice the tier's limit.    *)

\* The constants, tier by tier.
LEMMA TierConstants ==
  /\ \A i \in Tiers : Limit[i] \in Nat /\ Limit[i] > 0 /\ Window[i] \in Nat
  /\ Start \in Nat /\ MaxTime \in Nat /\ Start <= MaxTime
<1>1. Len(Window) \in Nat /\ Len(Window) \in Tiers
  BY BudgetAssumption DEF Tiers
<1>2. \A i \in Tiers : Limit[i] \in Nat \ {0} /\ Window[i] \in Nat \ {0}
  BY BudgetAssumption DEF Tiers
<1> QED BY <1>1, <1>2, BudgetAssumption DEF Start

\* A window that is asked keeps its shape and is charged no more than before.
LEMMA RolledShape ==
  ASSUME BudgetTypeOK, NEW i \in Tiers
  PROVE  /\ Rolled(tier[i], i) \in [used : Nat, window_start : 0..MaxTime]
         /\ Rolled(tier[i], i).used <= tier[i].used
         /\ Rolled(tier[i], i).used <= Limit[i]
<1>1. /\ tier[i] \in [used : Nat, window_start : 0..MaxTime] /\ tier[i].used <= Limit[i]
      /\ now \in 0..MaxTime
  BY TierConstants DEF BudgetTypeOK
<1>2. Limit[i] \in Nat BY TierConstants
<1> QED BY <1>1, <1>2 DEF Rolled

\* Every step keeps the type invariant.
LEMMA BudgetTypeStep == BudgetTypeOK /\ [BudgetNext]_budget_vars => BudgetTypeOK'
<1> SUFFICES ASSUME BudgetTypeOK, [BudgetNext]_budget_vars PROVE BudgetTypeOK' OBVIOUS
<1>1. CASE Admit
  <2>1. \A i \in Tiers :
           /\ Consumed(Rolled(tier[i], i)) \in [used : Nat, window_start : 0..MaxTime]
           /\ Consumed(Rolled(tier[i], i)).used <= Limit[i]
    <3> SUFFICES ASSUME NEW i \in Tiers
                 PROVE  /\ Consumed(Rolled(tier[i], i)) \in [used : Nat, window_start : 0..MaxTime]
                        /\ Consumed(Rolled(tier[i], i)).used <= Limit[i]
      OBVIOUS
    <3>1. Rolled(tier[i], i).used < Limit[i] BY <1>1 DEF Admit, HasRoom
    <3>2. Rolled(tier[i], i) \in [used : Nat, window_start : 0..MaxTime] BY RolledShape
    <3>3. Limit[i] \in Nat BY TierConstants
    <3> QED BY <3>1, <3>2, <3>3 DEF Consumed
  <2>2. /\ tier' \in [Tiers -> [used : Nat, window_start : 0..MaxTime]]
        /\ \A i \in Tiers : tier'[i].used <= Limit[i]
    BY <1>1, <2>1 DEF Admit
  <2>3. admitted' \in Seq(Start..MaxTime) BY <1>1 DEF Admit, BudgetTypeOK
  <2> QED BY <1>1, <2>2, <2>3 DEF Admit, BudgetTypeOK
<1>2. CASE Refuse
  <2>1. /\ tier' \in [Tiers -> [used : Nat, window_start : 0..MaxTime]]
        /\ \A i \in Tiers : tier'[i].used <= Limit[i]
    BY <1>2, RolledShape DEF Refuse, BudgetTypeOK
  <2> QED BY <1>2, <2>1 DEF Refuse, BudgetTypeOK
<1>3. CASE reset_daily
  BY <1>3, TierConstants DEF reset_daily, BudgetTypeOK
<1>4. CASE Tick
  BY <1>4, TierConstants DEF Tick, BudgetTypeOK
<1>5. CASE UNCHANGED budget_vars
  BY <1>5 DEF budget_vars, BudgetTypeOK
<1> QED BY <1>1, <1>2, <1>3, <1>4, <1>5 DEF BudgetNext

\* The counters keep their types and no tier exceeds its ceiling, whatever the
\* limits and the windows (OrderBudget::try_consume).
THEOREM WithinLimits == BudgetSpec => []BudgetTypeOK
<1>1. BudgetInit => BudgetTypeOK BY TierConstants DEF BudgetInit, BudgetTypeOK
<1> QED BY <1>1, BudgetTypeStep, PTL DEF BudgetSpec

\* A refusal by any tier consumes from none of them (the "ALL-OR-NOTHING" of
\* try_consume).
THEOREM RefusalsCostNothing == BudgetSpec => RefusalsAreFree
<1>1. BudgetTypeOK /\ [BudgetNext]_budget_vars => [verdict' = "refused" => \A i \in Tiers : tier'[i].used <= tier[i].used]_budget_vars
  <2> SUFFICES ASSUME BudgetTypeOK, BudgetNext, verdict' = "refused", NEW i \in Tiers
               PROVE  tier'[i].used <= tier[i].used
    OBVIOUS
  <2>1. Refuse BY DEF BudgetNext, Admit, reset_daily, Tick
  <2>2. tier[i].used \in Nat BY DEF BudgetTypeOK
  <2> QED BY <2>1, <2>2, RolledShape DEF Refuse
<1> QED BY <1>1, WithinLimits, PTL DEF BudgetSpec, RefusalsAreFree

-----------------------------------------------------------------------------
(* Twice the limit.  The calls admitted since a window began are all       *)
(* charged to it; those of one window's length before it were charged to   *)
(* the window before.  Both are at most the limit, and an interval as long *)
(* as the window reaches no further back.                                  *)

Since(log, t) == {k \in DOMAIN log : log[k] >= t}
Before(log, t, seconds) == {k \in DOMAIN log : log[k] > t - seconds /\ log[k] < t}

Counted(i, t, log, time) ==
  /\ t.window_start <= time
  /\ \A k \in DOMAIN log : log[k] < t.window_start + Window[i]
  /\ Cardinality(Since(log, t.window_start)) <= t.used
  /\ Cardinality(Before(log, t.window_start, Window[i])) <= Limit[i]

CountInv ==
  /\ \A k \in DOMAIN admitted : admitted[k] <= now
  /\ \A i \in Tiers : Counted(i, tier[i], admitted, now)

\* The calls of a log are finitely many.
LEMMA CallsFinite ==
  ASSUME NEW S, NEW log \in Seq(Start..MaxTime), NEW T, T \subseteq DOMAIN log, S \subseteq T
  PROVE  IsFiniteSet(S) /\ IsFiniteSet(T) /\ Cardinality(S) \in Nat /\ Cardinality(T) \in Nat /\ Cardinality(S) <= Cardinality(T)
<1>1. DOMAIN log = 1..Len(log) /\ Len(log) \in Nat OBVIOUS
<1>2. IsFiniteSet(DOMAIN log) BY <1>1, FS_Interval
<1>3. IsFiniteSet(T) BY <1>2, FS_Subset
<1>4. IsFiniteSet(S) /\ Cardinality(S) <= Cardinality(T) BY <1>3, FS_Subset
<1> QED BY <1>3, <1>4, FS_CardinalityType

\* A tier that has never been charged (OrderBudget::new, reset_daily).
LEMMA NoneCounted ==
  ASSUME NEW i \in Tiers, NEW t, t.used = 0, t.window_start = 0, NEW time \in Nat
  PROVE  Counted(i, t, <<>>, time)
<1>1. DOMAIN <<>> = {} OBVIOUS
<1>2. Since(<<>>, 0) = {} /\ Before(<<>>, 0, Window[i]) = {} BY <1>1 DEF Since, Before
<1>3. Cardinality(Since(<<>>, 0)) = 0 /\ Cardinality(Before(<<>>, 0, Window[i])) = 0
  BY <1>2, FS_EmptySet
<1>4. Limit[i] \in Nat BY TierConstants
<1>5. t.window_start <= time OBVIOUS
<1> QED BY <1>1, <1>3, <1>4, <1>5 DEF Counted

\* Rolling a window forward keeps the counts (would_admit).
LEMMA RolledCounted ==
  ASSUME BudgetTypeOK, CountInv, NEW i \in Tiers
  PROVE  Counted(i, Rolled(tier[i], i), admitted, now) /\ now < Rolled(tier[i], i).window_start + Window[i]
<1> DEFINE t == tier[i]
           W == Window[i]
<1>1. /\ now \in Nat /\ t.used \in Nat /\ t.window_start \in Nat /\ t.used <= Limit[i]
      /\ admitted \in Seq(Start..MaxTime) /\ \A k \in DOMAIN admitted : admitted[k] \in Nat
  BY TierConstants DEF BudgetTypeOK
<1>2. W \in Nat /\ W > 0 /\ Limit[i] \in Nat BY TierConstants, BudgetAssumption DEF Tiers
<1>3. Counted(i, t, admitted, now) /\ \A k \in DOMAIN admitted : admitted[k] <= now BY DEF CountInv
<1>4. CASE now - t.window_start >= W
  <2>1. Rolled(t, i) = [used |-> 0, window_start |-> now] BY <1>4 DEF Rolled
  <2>2. Rolled(t, i).used = 0 /\ Rolled(t, i).window_start = now BY <2>1
  <2>3. \A k \in DOMAIN admitted : admitted[k] < now BY <1>1, <1>2, <1>3, <1>4 DEF Counted
  <2>4. Since(admitted, now) = {} BY <1>1, <2>3 DEF Since
  <2>5. Cardinality(Since(admitted, now)) = 0 BY <2>4, FS_EmptySet
  <2>6. /\ Before(admitted, now, W) \subseteq Since(admitted, t.window_start)
        /\ Since(admitted, t.window_start) \subseteq DOMAIN admitted
    BY <1>1, <1>2, <1>4 DEF Before, Since
  <2>7. /\ Cardinality(Before(admitted, now, W)) <= Cardinality(Since(admitted, t.window_start))
        /\ Cardinality(Before(admitted, now, W)) \in Nat /\ Cardinality(Since(admitted, t.window_start)) \in Nat
    BY <1>1, <2>6, CallsFinite
  <2>8. Cardinality(Before(admitted, now, W)) <= Limit[i] BY <1>1, <1>2, <1>3, <2>7 DEF Counted
  <2>9. \A k \in DOMAIN admitted : admitted[k] < now + W BY <1>1, <1>2, <2>3
  <2> QED BY <1>1, <1>2, <2>2, <2>5, <2>8, <2>9 DEF Counted
<1>5. CASE ~ (now - t.window_start >= W)
  <2>1. Rolled(t, i) = t BY <1>5 DEF Rolled
  <2>2. now < t.window_start + W BY <1>1, <1>2, <1>5
  <2> QED BY <1>3, <2>1, <2>2
<1> QED BY <1>4, <1>5

\* One more call, charged to the window it falls in (try_consume).
LEMMA AdmitCounted ==
  ASSUME BudgetTypeOK, NEW i \in Tiers, NEW t \in [used : Nat, window_start : 0..MaxTime],
         Counted(i, t, admitted, now), now < t.window_start + Window[i]
  PROVE  Counted(i, Consumed(t), Append(admitted, now), now)
<1> DEFINE W == Window[i]
           log == Append(admitted, now)
           n == Len(admitted) + 1
<1>1. /\ now \in Start..MaxTime /\ now \in Nat /\ t.used \in Nat /\ t.window_start \in Nat
      /\ admitted \in Seq(Start..MaxTime) /\ \A k \in DOMAIN admitted : admitted[k] \in Nat
  BY TierConstants DEF BudgetTypeOK
<1>2. W \in Nat /\ Limit[i] \in Nat BY TierConstants
<1>3. Consumed(t).used = t.used + 1 /\ Consumed(t).window_start = t.window_start BY DEF Consumed
<1>4. /\ DOMAIN log = DOMAIN admitted \cup {n} /\ log[n] = now /\ n \notin DOMAIN admitted
      /\ \A k \in DOMAIN admitted : log[k] = admitted[k]
  BY <1>1
<1> HIDE DEF log, n
<1>5. Since(log, t.window_start) = Since(admitted, t.window_start) \cup {n}
  BY <1>1, <1>4 DEF Since, Counted
<1>6. Before(log, t.window_start, W) = Before(admitted, t.window_start, W)
  BY <1>1, <1>4 DEF Before, Counted
<1>7. IsFiniteSet(Since(admitted, t.window_start)) /\ Cardinality(Since(admitted, t.window_start)) \in Nat
  BY <1>1, CallsFinite DEF Since
<1>8. Cardinality(Since(log, t.window_start)) <= Cardinality(Since(admitted, t.window_start)) + 1
  <2>1. PICK S : S = Since(admitted, t.window_start) OBVIOUS
  <2>2. Cardinality(S \cup {n}) = IF n \in S THEN Cardinality(S) ELSE Cardinality(S) + 1
    BY <1>7, <2>1, FS_AddElement
  <2>3. Cardinality(S \cup {n}) <= Cardinality(S) + 1 BY <1>7, <2>1, <2>2
  <2> QED BY <1>5, <2>1, <2>3
<1>9. Cardinality(Since(log, t.window_start)) <= t.used + 1
  <2>1. Cardinality(Since(log, t.window_start)) \in Nat
    BY <1>5, <1>7, FS_AddElement, FS_CardinalityType
  <2> QED BY <1>1, <1>7, <1>8, <2>1 DEF Counted
<1>10. \A k \in DOMAIN log : log[k] < t.window_start + W BY <1>4 DEF Counted
<1> QED BY <1>3, <1>6, <1>9, <1>10 DEF Counted, log

\* Every step keeps the counts.
LEMMA CountStep == BudgetTypeOK /\ CountInv /\ [BudgetNext]_budget_vars => CountInv'
<1> SUFFICES ASSUME BudgetTypeOK, CountInv, [BudgetNext]_budget_vars PROVE CountInv' OBVIOUS
<1>0. now \in Nat /\ admitted \in Seq(Start..MaxTime) /\ \A k \in DOMAIN admitted : admitted[k] <= now /\ admitted[k] \in Nat
  BY TierConstants DEF BudgetTypeOK, CountInv
<1>1. CASE Admit
  <2>1. now' = now /\ admitted' = Append(admitted, now) BY <1>1 DEF Admit
  <2>2. ASSUME NEW i \in Tiers PROVE Counted(i, tier'[i], admitted', now')
    <3>1. tier'[i] = Consumed(Rolled(tier[i], i)) BY <1>1 DEF Admit
    <3>2. Counted(i, Rolled(tier[i], i), admitted, now) /\ now < Rolled(tier[i], i).window_start + Window[i]
      BY RolledCounted
    <3>3. Rolled(tier[i], i) \in [used : Nat, window_start : 0..MaxTime] BY RolledShape
    <3>4. Counted(i, Consumed(Rolled(tier[i], i)), Append(admitted, now), now)
      BY <3>2, <3>3, AdmitCounted
    <3> QED BY <2>1, <3>1, <3>4
  <2>3. \A k \in DOMAIN admitted' : admitted'[k] <= now' BY <1>0, <2>1
  <2> QED BY <2>2, <2>3 DEF CountInv
<1>2. CASE Refuse
  <2>1. now' = now /\ admitted' = admitted BY <1>2 DEF Refuse
  <2>2. ASSUME NEW i \in Tiers PROVE Counted(i, tier'[i], admitted', now')
    <3>1. tier'[i] = Rolled(tier[i], i) \/ tier'[i] = tier[i] BY <1>2 DEF Refuse
    <3>2. Counted(i, Rolled(tier[i], i), admitted, now) BY RolledCounted
    <3>3. Counted(i, tier[i], admitted, now) BY DEF CountInv
    <3> QED BY <2>1, <3>1, <3>2, <3>3
  <2> QED BY <2>1, <2>2 DEF CountInv
<1>3. CASE reset_daily
  <2>1. now' = now /\ admitted' = <<>> BY <1>3 DEF reset_daily
  <2>2. ASSUME NEW i \in Tiers PROVE Counted(i, tier'[i], admitted', now')
    <3>1. tier'[i].used = 0 /\ tier'[i].window_start = 0 BY <1>3 DEF reset_daily
    <3> QED BY <1>0, <2>1, <3>1, NoneCounted
  <2> QED BY <2>1, <2>2 DEF CountInv
<1>4. CASE Tick
  <2>1. now' = now + 1 /\ tier' = tier /\ admitted' = admitted BY <1>4 DEF Tick
  <2>2. ASSUME NEW i \in Tiers PROVE Counted(i, tier'[i], admitted', now')
    <3>1. Counted(i, tier[i], admitted, now) BY DEF CountInv
    <3>2. tier[i].window_start \in Nat BY TierConstants DEF BudgetTypeOK
    <3> QED BY <1>0, <2>1, <3>1, <3>2 DEF Counted
  <2>3. \A k \in DOMAIN admitted' : admitted'[k] <= now' BY <1>0, <2>1
  <2> QED BY <2>2, <2>3 DEF CountInv
<1>5. CASE UNCHANGED budget_vars
  BY <1>5 DEF budget_vars, CountInv
<1> QED BY <1>1, <1>2, <1>3, <1>4, <1>5 DEF BudgetNext

\* The counts give the bound.
LEMMA CountsBound == BudgetTypeOK /\ CountInv => AtMostTwiceTheLimit
<1> SUFFICES ASSUME BudgetTypeOK, CountInv, NEW i \in Tiers PROVE AdmittedWithin(Window[i]) <= 2 * Limit[i]
  BY DEF AtMostTwiceTheLimit
<1> DEFINE t == tier[i]
           W == Window[i]
           A == Since(admitted, t.window_start)
           B == Before(admitted, t.window_start, W)
           C == {k \in DOMAIN admitted : admitted[k] > now - W}
<1>1. /\ now \in Nat /\ t.used \in Nat /\ t.window_start \in Nat /\ t.used <= Limit[i]
      /\ admitted \in Seq(Start..MaxTime) /\ \A k \in DOMAIN admitted : admitted[k] \in Nat
  BY TierConstants DEF BudgetTypeOK
<1>2. W \in Nat /\ Limit[i] \in Nat BY TierConstants
<1>3. t.window_start <= now /\ Cardinality(A) <= t.used /\ Cardinality(B) <= Limit[i]
  BY DEF CountInv, Counted
<1>4. C \subseteq A \cup B /\ A \cup B \subseteq DOMAIN admitted /\ A \subseteq DOMAIN admitted /\ B \subseteq DOMAIN admitted
  BY <1>1, <1>2, <1>3 DEF Since, Before
<1>5. AdmittedWithin(W) = Cardinality(C) BY DEF AdmittedWithin
<1> HIDE DEF A, B, C, t, W
<1>6. /\ IsFiniteSet(A) /\ IsFiniteSet(B) /\ Cardinality(A) \in Nat /\ Cardinality(B) \in Nat
      /\ Cardinality(C) <= Cardinality(A \cup B) /\ Cardinality(C) \in Nat /\ Cardinality(A \cup B) \in Nat
  BY <1>1, <1>4, CallsFinite
<1>7. Cardinality(A \cup B) <= Cardinality(A) + Cardinality(B)
  <2>1. Cardinality(A \cup B) = Cardinality(A) + Cardinality(B) - Cardinality(A \cap B)
    BY <1>6, FS_Union
  <2>2. Cardinality(A \cap B) \in Nat BY <1>6, FS_Intersection, FS_CardinalityType
  <2> QED BY <1>6, <2>1, <2>2
<1>8. Cardinality(C) <= 2 * Limit[i] BY <1>1, <1>2, <1>3, <1>6, <1>7
<1> QED BY <1>5, <1>8 DEF W

\* In no interval as long as a tier's window are more than twice its limit
\* admitted, wherever the interval lies and whichever tiers refused meanwhile
\* (the fixed windows of OrderBudget::try_consume).
THEOREM TwiceTheLimit == BudgetSpec => []AtMostTwiceTheLimit
<1>1. BudgetInit => CountInv
  <2> SUFFICES ASSUME BudgetInit, NEW i \in Tiers PROVE Counted(i, tier[i], admitted, now)
    BY DEF BudgetInit, CountInv
  <2>1. tier[i].used = 0 /\ tier[i].window_start = 0 /\ admitted = <<>> /\ now = Start BY DEF BudgetInit
  <2>2. Start \in Nat BY TierConstants
  <2> QED BY <2>1, <2>2, NoneCounted
<1> QED BY <1>1, CountStep, CountsBound, WithinLimits, PTL DEF BudgetSpec

-----------------------------------------------------------------------------
(* The composition: each part behaves as it does alone.                    *)

LEMMA GateStep ==
    [GateNext]_gate_vars => [Next]_vars /\ [BudgetNext]_budget_vars
<1> SUFFICES ASSUME [GateNext]_gate_vars PROVE [Next]_vars /\ [BudgetNext]_budget_vars
  OBVIOUS
<1>1. CASE BeginCall BY <1>1 DEF BeginCall, Next, BudgetNext
<1>2. CASE RefuseCall BY <1>2 DEF RefuseCall, BudgetNext
<1>3. CASE clear_order_halt BY <1>3 DEF clear_order_halt, Next, BudgetNext
<1>4. CASE OnPath(Steps) BY <1>4 DEF OnPath, Next
<1>5. CASE OnPath(ResetDaily) BY <1>5 DEF OnPath, Next
<1>6. CASE OnPath(ReadinessProbe) BY <1>6 DEF OnPath, Next
<1>7. CASE OnPath(WindowElapses) BY <1>7 DEF OnPath, Next
<1>8. CASE OnPath(CooldownExpires) BY <1>8 DEF OnPath, Next
<1>9. CASE Clock BY <1>9 DEF Clock, BudgetNext
<1>10. CASE UNCHANGED gate_vars BY <1>10 DEF gate_vars
<1> QED
  BY <1>1, <1>2, <1>3, <1>4, <1>5, <1>6, <1>7, <1>8, <1>9, <1>10 DEF GateNext

\* The order path behind its budget, as place_order, modify_order, cancel_order
\* and clear_order_halt put the two together, behaves as either does alone: it
\* implements both, so a call acts at most once, a halted path sends no new
\* exposure and no interval holds more than twice a tier's limit of calls.
THEOREM GateKeepsBoth ==
    GateSpec => /\ Spec /\ BudgetSpec
                /\ [](NoDuplicateOrder /\ HaltBlocksNewExposure /\ AtMostTwiceTheLimit)
<1>1. GateInit => Init /\ BudgetInit BY DEF GateInit
<1>2. GateSpec => Spec /\ BudgetSpec
  BY <1>1, GateStep, PTL DEF GateSpec, Spec, BudgetSpec
<1> QED BY <1>2, NeverDuplicated, HaltAlwaysBlocks, TwiceTheLimit, PTL

-----------------------------------------------------------------------------
(* The order book: no fill is booked twice, none is lost without a word.   *)

ManagedOrder == [status : OrderStatus, qty : 0..Quantity, needs_reconciliation : BOOLEAN]

-----------------------------------------------------------------------------
(* Lots: flooring to lots keeps order, and zero.                           *)

\* A quantity floors to a natural number of lots (extract_fill_delta).
LEMMA LotsType ==
    ASSUME NEW q \in Nat
    PROVE  Lots(q) \in Nat
BY ConstantsAssumption, SMT DEF Lots

\* More units never floor to fewer lots (extract_fill_delta).
LEMMA LotsMonotone ==
    ASSUME NEW p \in Nat, NEW q \in Nat, p <= q
    PROVE  Lots(p) <= Lots(q)
BY ConstantsAssumption, SMT DEF Lots

\* An unfilled order has no lots.
LEMMA LotsZero ==
    Lots(0) = 0
BY ConstantsAssumption, SMT DEF Lots

-----------------------------------------------------------------------------
(* The initial state and the actions.                                      *)

\* The empty book satisfies the invariant.
LEMMA BookInitInv ==
    BookInit => BookInv
BY LotsZero, ConstantsAssumption
DEF BookInit, BookInv, BookTypeOK, ReportsBehindBroker, RecordsBehindBroker, OnlyTrackedBooked,
    FinalReportsCurrent, FinalRecordsCurrent, NoDoubleBooking, FillsAccounted, NotPlaced, Report

\* The broker accepting an order changes only that order, which held nothing.
LEMMA BrokerAcceptsStep ==
    ASSUME BookInv, NEW o \in Orders, NEW r \in Report, BrokerAccepts(o, r)
    PROVE  /\ broker' \in [Orders -> Report \cup {NotPlaced}]
           /\ reported' \in [Orders -> SUBSET Report]
           /\ o \notin DOMAIN orders
           /\ booked[o] = 0
           /\ broker'[o] # NotPlaced
           /\ broker'[o] = r
           /\ r.qty \in Nat
           /\ 0 <= Lots(r.qty)
           /\ \A x \in Orders : x # o => broker'[x] = broker[x]
           /\ ReportsBehindBroker'
           /\ FinalReportsCurrent'
<1>1. r # NotPlaced
  BY DEF NotPlaced, Report, OrderStatus, Terminal
<1>2. r.qty \in Nat /\ Lots(r.qty) \in Nat
  BY ConstantsAssumption, LotsType DEF Report
<1>3. ReportsBehindBroker' /\ FinalReportsCurrent'
  BY <1>2 DEF BrokerAccepts, BookInv, BookTypeOK, ReportsBehindBroker, FinalReportsCurrent
<1> QED
  BY <1>1, <1>2, <1>3 DEF BrokerAccepts, BookInv, BookTypeOK, RecordsBehindBroker, OnlyTrackedBooked

\* place_order with an answer tracks an order of which nothing is booked.
LEMMA PlaceStep ==
    ASSUME BookInv, Place
    PROVE  BookInv'
<1>1. PICK o \in Orders, r \in Report, parsed \in BOOLEAN :
          PlaceOrder(o, r, parsed)
  BY DEF Place
<1>2. BrokerAccepts(o, r)
  BY <1>1 DEF PlaceOrder
<1>3. NewOrder(resolve_initial_status(r.status, parsed)) \in ManagedOrder
  BY ConstantsAssumption
  DEF NewOrder, resolve_initial_status, ManagedOrder, Report, OrderStatus, Terminal
<1>4. /\ DOMAIN orders' = DOMAIN orders \cup {o}
      /\ orders'[o] = NewOrder(resolve_initial_status(r.status, parsed))
      /\ \A x \in DOMAIN orders : x # o => orders'[x] = orders[x]
  BY <1>1 DEF PlaceOrder, Track
<1>5. BookTypeOK'
  <2>1. orders' \in [DOMAIN orders' -> ManagedOrder]
    BY <1>1, <1>3, <1>4 DEF PlaceOrder, Track, BookInv, BookTypeOK, ManagedOrder
  <2> QED
    BY <1>1, <1>2, <1>4, <2>1, BrokerAcceptsStep
    DEF PlaceOrder, BookInv, BookTypeOK, ManagedOrder
<1>6. ReportsBehindBroker' /\ FinalReportsCurrent'
  BY <1>2, BrokerAcceptsStep
<1>11. FinalRecordsCurrent'
  <2>1. is_terminal(orders'[o]) => orders'[o].status = r.status
    BY <1>4 DEF NewOrder, resolve_initial_status, is_terminal, Terminal
  <2> QED
    BY <1>2, <1>4, <2>1, BrokerAcceptsStep
    DEF BookInv, BookTypeOK, FinalRecordsCurrent, is_terminal
<1>7. RecordsBehindBroker'
  <2>1. orders'[o].qty = 0
    BY <1>4 DEF NewOrder
  <2> QED
    BY <1>2, <1>4, <1>5, <2>1, BrokerAcceptsStep DEF BookInv, BookTypeOK, RecordsBehindBroker
<1>8. OnlyTrackedBooked'
  BY <1>1, <1>4 DEF PlaceOrder, BookInv, OnlyTrackedBooked
<1>9. NoDoubleBooking'
  BY <1>1, <1>2, BrokerAcceptsStep, LotsZero DEF PlaceOrder, BookInv, NoDoubleBooking
<1>10. FillsAccounted'
  <2>1. orders'[o].qty = 0 /\ booked'[o] = 0
    BY <1>1, <1>2, <1>4, BrokerAcceptsStep DEF NewOrder, PlaceOrder
  <2>2. o \notin told'
    BY <1>1, <1>2, BrokerAcceptsStep DEF PlaceOrder, BookInv, BookTypeOK
  <2>3. \A x \in DOMAIN orders : x # o => broker'[x] = broker[x]
    BY <1>2, BrokerAcceptsStep DEF BookInv, BookTypeOK
  <2> QED
    BY <1>1, <1>4, <2>1, <2>2, <2>3, LotsZero DEF PlaceOrder, BookInv, FillsAccounted, is_terminal
<1> QED
  BY <1>5, <1>6, <1>7, <1>8, <1>9, <1>10, <1>11 DEF BookInv

\* A placement whose answer is lost changes only the broker.
LEMMA PlaceUnansweredStep ==
    ASSUME BookInv, PlaceUnanswered
    PROVE  BookInv'
<1>1. PICK o \in Orders, r \in Report : PlaceOrderUnanswered(o, r)
  BY DEF PlaceUnanswered
<1>2. BrokerAccepts(o, r)
  BY <1>1 DEF PlaceOrderUnanswered
<1>3. \A x \in DOMAIN orders : x \in Orders /\ x # o /\ broker'[x] = broker[x]
  BY <1>2, BrokerAcceptsStep DEF BookInv, BookTypeOK
<1>4. NoDoubleBooking'
  BY <1>1, <1>2, BrokerAcceptsStep DEF PlaceOrderUnanswered, BookInv, NoDoubleBooking
<1> QED
  BY <1>1, <1>2, <1>3, <1>4, BrokerAcceptsStep
  DEF PlaceOrderUnanswered, BookInv, BookTypeOK, RecordsBehindBroker, FinalRecordsCurrent,
      OnlyTrackedBooked, FillsAccounted, is_terminal

\* A cancel request only flags the record.
LEMMA CancelStep ==
    ASSUME BookInv, NEW o \in Orders, CancelOrder(o)
    PROVE  BookInv'
BY DEF CancelOrder, BookInv, BookTypeOK, ReportsBehindBroker, RecordsBehindBroker,
       FinalReportsCurrent, FinalRecordsCurrent, OnlyTrackedBooked, NoDoubleBooking,
       FillsAccounted, is_terminal

\* The broker only ever fills more, and never moves an order it has finished with.
LEMMA BrokerStepStep ==
    ASSUME BookInv, NEW o \in Orders, BrokerStep(o)
    PROVE  BookInv'
<1>1. PICK r \in Report :
          /\ broker[o] # NotPlaced
          /\ r.qty >= broker[o].qty
          /\ broker[o].status \notin Terminal
          /\ broker'   = [broker EXCEPT ![o] = r]
          /\ reported' = [reported EXCEPT ![o] = @ \cup {r}]
          /\ UNCHANGED <<orders, aliases, correlations, booked, swallowed, told>>
  BY DEF BrokerStep, is_valid_transition, Terminal
<1>2. r.qty \in Nat /\ broker[o].qty \in Nat /\ r # NotPlaced
  BY <1>1, ConstantsAssumption DEF Report, BookInv, BookTypeOK, NotPlaced, OrderStatus, Terminal
<1>3. Lots(broker[o].qty) <= Lots(r.qty)
  BY <1>1, <1>2, LotsMonotone
<1>4. BookTypeOK'
  BY <1>1 DEF BookInv, BookTypeOK
<1>5. ReportsBehindBroker' /\ RecordsBehindBroker'
  <2>1. \A x \in Orders : \A h \in reported[x] : h.qty \in Nat
    BY ConstantsAssumption DEF BookInv, BookTypeOK, Report
  <2>2. \A x \in DOMAIN orders : orders[x].qty \in Nat
    BY ConstantsAssumption DEF BookInv, BookTypeOK
  <2> QED
    BY <1>1, <1>2, <2>1, <2>2 DEF BookInv, BookTypeOK, ReportsBehindBroker, RecordsBehindBroker
<1>6. NoDoubleBooking'
  <2>1. Lots(broker[o].qty) \in Nat /\ Lots(r.qty) \in Nat /\ booked[o] \in Nat
    BY <1>2, LotsType DEF BookInv, BookTypeOK
  <2> QED
    BY <1>1, <1>3, <2>1 DEF BookInv, BookTypeOK, NoDoubleBooking
<1>7. \A x \in DOMAIN orders : is_terminal(orders[x]) => broker'[x] = broker[x]
  BY <1>1 DEF BookInv, BookTypeOK, FinalRecordsCurrent, is_terminal
<1>8. OnlyTrackedBooked' /\ FinalRecordsCurrent' /\ FillsAccounted'
  BY <1>1, <1>7 DEF BookInv, OnlyTrackedBooked, FinalRecordsCurrent, FillsAccounted, is_terminal
<1>9. FinalReportsCurrent'
  BY <1>1 DEF BookInv, BookTypeOK, FinalReportsCurrent
<1> QED
  BY <1>4, <1>5, <1>6, <1>8, <1>9 DEF BookInv

-----------------------------------------------------------------------------
(* Order updates.                                                          *)

\* What every arm of handle_order_update comes down to: one record is replaced
\* and the lots booked for it change, and the new pair satisfies for this one
\* order what the invariant says of all.
LEMMA RecordStep ==
    ASSUME BookInv, NEW o \in DOMAIN orders, NEW rec \in ManagedOrder, NEW lots \in Nat,
           orders' = [orders EXCEPT ![o] = rec],
           booked' = [booked EXCEPT ![o] = lots],
           swallowed' \in {swallowed, swallowed \cup {o}},
           told' \in {told, told \cup {o}},
           NEW number, RecordAlias(o, number),
           UNCHANGED <<broker, reported, correlations>>,
           rec.qty <= broker[o].qty,
           lots <= Lots(broker[o].qty),
           o \notin swallowed' => Lots(rec.qty) <= lots,
           ~is_terminal(rec) => lots <= Lots(rec.qty),
           is_terminal(rec) => rec.status = broker[o].status,
           is_terminal(rec) /\ o \in told' => \/ Lots(broker[o].qty) <= lots
                                              \/ o \in swallowed'
                                              \/ rec.needs_reconciliation
    PROVE  BookInv'
<1>1. o \in Orders /\ DOMAIN orders' = DOMAIN orders /\ orders'[o] = rec
  BY DEF BookInv, BookTypeOK
<1>2. BookTypeOK'
  <2>1. orders' \in [DOMAIN orders' -> ManagedOrder]
    BY <1>1 DEF BookInv, BookTypeOK, ManagedOrder
  <2>2. aliases' \subseteq (DOMAIN orders') \X Numbers /\ correlations' \subseteq DOMAIN orders'
    BY <1>1 DEF BookInv, BookTypeOK, RecordAlias
  <2> QED
    BY <1>1, <2>1, <2>2 DEF BookInv, BookTypeOK, ManagedOrder
<1>3. ReportsBehindBroker' /\ FinalReportsCurrent'
  BY DEF BookInv, ReportsBehindBroker, FinalReportsCurrent
<1>4. RecordsBehindBroker' /\ FinalRecordsCurrent'
  BY <1>1 DEF BookInv, BookTypeOK, RecordsBehindBroker, FinalRecordsCurrent, is_terminal
<1>5. OnlyTrackedBooked'
  BY <1>1 DEF BookInv, OnlyTrackedBooked
<1>6. NoDoubleBooking'
  BY <1>1 DEF BookInv, BookTypeOK, NoDoubleBooking
<1>7. FillsAccounted'
  BY <1>1 DEF BookInv, BookTypeOK, FillsAccounted, is_terminal
<1> QED
  BY <1>2, <1>3, <1>4, <1>5, <1>6, <1>7 DEF BookInv

\* The arms that only flag the record, or leave it alone because the update
\* brings nothing it does not hold.
LEMMA FlagStep ==
    ASSUME BookInv, NEW o \in DOMAIN orders, NEW number, NoFill, RecordAlias(o, number),
           \/ orders' = [orders EXCEPT ![o] = Flag(@)]
           \/ orders' = orders /\ orders[o].qty = broker[o].qty,
           told' \in {told, told \cup {o}},
           UNCHANGED <<broker, reported, correlations>>
    PROVE  BookInv'
<1> DEFINE rec == orders'[o]
<1>1. o \in Orders /\ orders[o] \in ManagedOrder
  BY DEF BookInv, BookTypeOK, ManagedOrder
<1>2. Flag(orders[o]) \in ManagedOrder /\ Flag(orders[o]).status = orders[o].status
      /\ Flag(orders[o]).qty = orders[o].qty /\ Flag(orders[o]).needs_reconciliation
  BY <1>1 DEF Flag, ManagedOrder
<1>3. /\ rec \in ManagedOrder
      /\ rec.status = orders[o].status
      /\ rec.qty = orders[o].qty
      /\ orders' = [orders EXCEPT ![o] = rec]
      /\ rec.needs_reconciliation \/ rec.qty = broker[o].qty
  BY <1>1, <1>2 DEF BookInv, BookTypeOK
<1>4. booked' = [booked EXCEPT ![o] = booked[o]] /\ booked[o] \in Nat /\ swallowed' = swallowed
  BY <1>1 DEF NoFill, BookInv, BookTypeOK
<1>5. /\ rec.qty <= broker[o].qty
      /\ booked[o] <= Lots(broker[o].qty)
      /\ o \notin swallowed' => Lots(rec.qty) <= booked[o]
      /\ ~is_terminal(rec) => booked[o] <= Lots(rec.qty)
      /\ is_terminal(rec) => rec.status = broker[o].status
  BY <1>1, <1>3, <1>4
  DEF BookInv, RecordsBehindBroker, FinalRecordsCurrent, NoDoubleBooking, FillsAccounted, is_terminal
<1>6. \/ Lots(broker[o].qty) <= booked[o]
      \/ o \in swallowed'
      \/ rec.needs_reconciliation
  BY <1>3, <1>5
<1> HIDE DEF rec
<1> QED
  BY <1>3, <1>4, <1>5, <1>6, RecordStep

\* The arms that book a fill: the lots booked for the order follow the floored
\* quantity of its record, and the record never passes the broker.
LEMMA FillStep ==
    ASSUME BookInv, NEW o \in DOMAIN orders, NEW update \in reported[o], NEW bookable \in BOOLEAN,
           NEW status \in OrderStatus,
           ~is_terminal(orders[o]),
           status \in Terminal => status = update.status,
           told' \in {told, told \cup {o}},
           BookFill(o, extract_fill_delta(orders[o], update.qty), bookable),
           orders' = [orders EXCEPT ![o] = apply_fill_fields([@ EXCEPT !.status = status], update.qty)],
           NEW number, RecordAlias(o, number),
           UNCHANGED <<broker, reported, correlations>>
    PROVE  BookInv'
<1> DEFINE old == orders[o].qty
           new == update.qty
           rec == apply_fill_fields([orders[o] EXCEPT !.status = status], new)
           lots == booked[o] + IF bookable THEN extract_fill_delta(orders[o], new) ELSE 0
<1>1. o \in Orders /\ orders[o] \in ManagedOrder /\ update \in Report /\ booked[o] \in Nat
  BY DEF BookInv, BookTypeOK, ManagedOrder
<1>2. old \in Nat /\ new \in Nat /\ new \in 0..Quantity /\ broker[o].qty \in Nat
  BY <1>1, ConstantsAssumption DEF ManagedOrder, Report, BookInv, BookTypeOK, NotPlaced
<1>3. rec \in ManagedOrder /\ rec.qty = (IF new >= old THEN new ELSE old)
  BY <1>1, <1>2 DEF apply_fill_fields, ManagedOrder
<1>4. Lots(old) \in Nat /\ Lots(new) \in Nat /\ Lots(broker[o].qty) \in Nat
  BY <1>2, LotsType
<1>5. new >= old => Lots(old) <= Lots(new)
  BY <1>2, LotsMonotone
<1>6. new <= broker[o].qty /\ old <= broker[o].qty
  BY <1>1 DEF BookInv, ReportsBehindBroker, RecordsBehindBroker
<1>7. Lots(new) <= Lots(broker[o].qty)
  BY <1>2, <1>6, LotsMonotone
<1>8. booked[o] <= Lots(broker[o].qty) /\ booked[o] <= Lots(old)
      /\ (o \notin swallowed => Lots(old) <= booked[o])
  BY <1>1 DEF BookInv, NoDoubleBooking, FillsAccounted
<1>9. extract_fill_delta(orders[o], new) = (IF new > old THEN Lots(new) - Lots(old) ELSE 0)
  BY DEF extract_fill_delta
<1>10. /\ lots \in Nat
       /\ lots <= Lots(broker[o].qty)
       /\ lots <= Lots(rec.qty)
       /\ rec.qty <= broker[o].qty
  BY <1>1, <1>2, <1>3, <1>4, <1>5, <1>6, <1>7, <1>8, <1>9
<1>11. /\ booked' = [booked EXCEPT ![o] = lots]
       /\ swallowed' \in {swallowed, swallowed \cup {o}}
       /\ orders' = [orders EXCEPT ![o] = rec]
  BY DEF BookFill
<1>12. o \notin swallowed' => Lots(rec.qty) <= lots
  <2> SUFFICES ASSUME o \notin swallowed' PROVE Lots(rec.qty) <= lots
    OBVIOUS
  <2>1. o \notin swallowed /\ (extract_fill_delta(orders[o], new) > 0 => bookable)
    BY DEF BookFill
  <2>2. old <= new \/ new < old
    BY <1>2
  <2> QED
    BY <1>1, <1>2, <1>3, <1>4, <1>5, <1>8, <1>9, <2>1
<1>13. is_terminal(rec) => /\ rec.status = broker[o].status
                           /\ Lots(broker[o].qty) <= lots \/ o \in swallowed'
  <2> SUFFICES ASSUME is_terminal(rec)
               PROVE  /\ rec.status = broker[o].status
                      /\ Lots(broker[o].qty) <= lots \/ o \in swallowed'
    OBVIOUS
  <2>1. rec.status = status
    BY <1>1 DEF apply_fill_fields, ManagedOrder
  <2>2. update = broker[o] /\ status = update.status
    BY <1>1, <2>1 DEF is_terminal, BookInv, FinalReportsCurrent
  <2>3. rec.qty = broker[o].qty
    BY <1>2, <1>3, <1>6, <2>2
  <2> QED
    BY <1>12, <2>1, <2>2, <2>3
<1> HIDE DEF rec, lots
<1> QED
  BY <1>3, <1>10, <1>11, <1>12, <1>13, RecordStep

\* handle_order_update preserves the invariant whatever update it is given.
LEMMA HandleOrderUpdateStep ==
    ASSUME BookInv, NEW o \in Orders, HandleOrderUpdate(o)
    PROVE  BookInv'
<1>1. PICK update \in reported[o], number \in Numbers \cup {"own", "none"},
           correlated \in BOOLEAN, bookable \in BOOLEAN :
          /\ Resolves(o, number, correlated)
          /\ RecordAlias(o, number)
          /\ \/ UpdateUnknownStatus(o)
             \/ UpdateTerminalRefresh(o, update)
             \/ UpdateRefresh(o, update, bookable)
             \/ UpdateInvalidTransition(o, update)
             \/ UpdateTransition(o, update, bookable)
          /\ told' = IF update.status \in Terminal THEN told \cup {o} ELSE told
          /\ UNCHANGED <<broker, reported, correlations>>
  BY DEF HandleOrderUpdate
<1>8. told' \in {told, told \cup {o}}
  BY <1>1
<1>2. o \in DOMAIN orders /\ orders[o] \in ManagedOrder /\ update \in Report
  BY <1>1 DEF Resolves, BookInv, BookTypeOK, ManagedOrder
<1>3. CASE UpdateUnknownStatus(o)
  BY <1>1, <1>2, <1>3, <1>8, FlagStep DEF UpdateUnknownStatus
<1>4. CASE UpdateTerminalRefresh(o, update)
  <2>1. update = broker[o]
    BY <1>1, <1>4 DEF UpdateTerminalRefresh, is_terminal, BookInv, FinalReportsCurrent
  <2>2. orders[o].qty \in Nat /\ update.qty \in Nat /\ orders[o].qty <= broker[o].qty
    BY <1>2, ConstantsAssumption DEF ManagedOrder, Report, BookInv, RecordsBehindBroker
  <2>3. update.qty > orders[o].qty \/ orders[o].qty = broker[o].qty
    BY <2>1, <2>2
  <2> QED
    BY <1>1, <1>2, <1>4, <1>8, <2>3, FlagStep DEF UpdateTerminalRefresh
<1>5. CASE UpdateInvalidTransition(o, update)
  BY <1>1, <1>2, <1>5, <1>8, FlagStep DEF UpdateInvalidTransition
<1>6. CASE UpdateRefresh(o, update, bookable)
  <2>1. [orders[o] EXCEPT !.status = orders[o].status] = orders[o]
    BY <1>2 DEF ManagedOrder
  <2>2. orders[o].status \in OrderStatus
    BY <1>2 DEF ManagedOrder
  <2>3. orders[o].status \notin Terminal
    BY <1>6 DEF UpdateRefresh, is_terminal
  <2> QED
    BY <1>1, <1>2, <1>6, <1>8, <2>1, <2>2, <2>3, FillStep DEF UpdateRefresh
<1>7. CASE UpdateTransition(o, update, bookable)
  <2>1. ~is_terminal(orders[o]) /\ update.status \in OrderStatus
    BY <1>2, <1>7 DEF UpdateTransition, is_valid_transition, is_terminal, Terminal, Report
  <2> QED
    BY <1>1, <1>2, <1>7, <1>8, <2>1, FillStep DEF UpdateTransition
<1> QED
  BY <1>1, <1>3, <1>4, <1>5, <1>6, <1>7

-----------------------------------------------------------------------------
(* Reconciliation and the daily reset.                                     *)

\* A correction keeps the type of the record, and a record that stays open is
\* either raised to the row or left at the larger quantity it had.
LEMMA CorrectedRecord ==
    ASSUME NEW order \in ManagedOrder, NEW row \in Report
    PROVE  /\ Corrected(order, row) \in ManagedOrder
           /\ Corrected(order, row).qty \in {order.qty, row.qty}
           /\ ~is_terminal(order) /\ row.qty < order.qty => Corrected(order, row).qty = order.qty
           /\ is_terminal(order) => Corrected(order, row).status = order.status
           /\ ~is_terminal(order) => Corrected(order, row).status = row.status
           /\ is_terminal(order) /\ order.status # row.status =>
                 Corrected(order, row).needs_reconciliation = order.needs_reconciliation
BY DEF Corrected, ManagedOrder, Report, is_terminal

\* reconcile() books nothing and never lowers the quantity of an open order,
\* so the next update cannot book again what is already booked.
LEMMA ReconcileStep ==
    ASSUME BookInv, Reconcile
    PROVE  BookInv'
<1>1. PICK seen \in SUBSET DOMAIN orders :
        \E rows \in [seen -> Report], priceDiffers \in SUBSET seen :
          /\ \A o \in seen : rows[o] \in reported[o]
          /\ ReconcileWith(rows, priceDiffers)
  BY DEF Reconcile
<1>2. PICK rows \in [seen -> Report], priceDiffers \in SUBSET seen :
          /\ \A o \in seen : rows[o] \in reported[o]
          /\ ReconcileWith(rows, priceDiffers)
  BY <1>1
<1> DEFINE Updated == {o \in DOMAIN rows : Differs(orders[o], rows[o], o \in priceDiffers)}
<1>3. /\ orders' = [o \in DOMAIN orders |->
                      IF o \in Updated THEN Corrected(orders[o], rows[o]) ELSE orders[o]]
      /\ swallowed' = swallowed \cup {o \in Updated : rows[o].qty > orders[o].qty}
      /\ UNCHANGED <<broker, reported, aliases, correlations, booked, told>>
  BY <1>2 DEF ReconcileWith
<1>4. Updated \subseteq DOMAIN orders
  BY <1>1
<1>5. ASSUME NEW o \in DOMAIN orders
      PROVE  /\ orders'[o] \in ManagedOrder
             /\ orders'[o].qty <= broker[o].qty
             /\ o \notin swallowed' => Lots(orders'[o].qty) <= booked[o]
             /\ ~is_terminal(orders'[o]) => booked[o] <= Lots(orders'[o].qty)
             /\ is_terminal(orders'[o]) =>
                   /\ orders'[o].status = broker[o].status
                   /\ o \in told => \/ Lots(broker[o].qty) <= booked[o]
                                    \/ o \in swallowed'
                                    \/ orders'[o].needs_reconciliation
  <2>1. o \in Orders /\ orders[o] \in ManagedOrder /\ booked[o] \in Nat
    BY <1>5 DEF BookInv, BookTypeOK, ManagedOrder
  <2>2. orders[o].qty \in Nat /\ broker[o].qty \in Nat /\ orders[o].qty <= broker[o].qty
    BY <2>1, ConstantsAssumption
    DEF ManagedOrder, BookInv, BookTypeOK, RecordsBehindBroker, Report, NotPlaced
  <2>3. /\ o \notin swallowed => Lots(orders[o].qty) <= booked[o]
        /\ ~is_terminal(orders[o]) => booked[o] <= Lots(orders[o].qty)
        /\ is_terminal(orders[o]) =>
              /\ orders[o].status = broker[o].status
              /\ o \in told => \/ Lots(broker[o].qty) <= booked[o]
                               \/ o \in swallowed
                               \/ orders[o].needs_reconciliation
    BY DEF BookInv, FillsAccounted, FinalRecordsCurrent
  <2>4. CASE o \notin Updated
    <3>1. orders'[o] = orders[o] /\ (o \in swallowed' <=> o \in swallowed)
      BY <1>3, <2>4
    <3> QED
      BY <2>1, <2>2, <2>3, <3>1
  <2>5. CASE o \in Updated
    <3> DEFINE row == rows[o]
               new == Corrected(orders[o], row)
    <3>1. row \in Report /\ row \in reported[o] /\ orders'[o] = new
      BY <1>2, <1>3, <2>5
    <3>2. row.qty \in Nat /\ row.qty <= broker[o].qty
      BY <2>1, <3>1, ConstantsAssumption DEF Report, BookInv, ReportsBehindBroker
    <3>3. /\ new \in ManagedOrder
          /\ new.qty \in {orders[o].qty, row.qty}
          /\ ~is_terminal(orders[o]) /\ row.qty < orders[o].qty => new.qty = orders[o].qty
          /\ is_terminal(orders[o]) => new.status = orders[o].status
          /\ ~is_terminal(orders[o]) => new.status = row.status
          /\ is_terminal(orders[o]) /\ orders[o].status # row.status =>
                new.needs_reconciliation = orders[o].needs_reconciliation
      BY <2>1, <3>1, CorrectedRecord
    <3>11. row.status \in Terminal => row = broker[o]
      BY <2>1, <3>1 DEF BookInv, FinalReportsCurrent
    <3>12. o \in swallowed => o \in swallowed'
      BY <1>3
    <3>4. Lots(row.qty) \in Nat /\ Lots(orders[o].qty) \in Nat
      BY <2>2, <3>2, LotsType
    <3>5. row.qty <= orders[o].qty => Lots(row.qty) <= Lots(orders[o].qty)
      BY <2>2, <3>2, LotsMonotone
    <3>6. orders[o].qty <= row.qty => Lots(orders[o].qty) <= Lots(row.qty)
      BY <2>2, <3>2, LotsMonotone
    <3>7. o \notin swallowed' => o \notin swallowed /\ row.qty <= orders[o].qty
      BY <1>3, <2>2, <2>5, <3>2
    <3>8. ~is_terminal(new) => ~is_terminal(orders[o])
      BY <3>3 DEF is_terminal
    <3> HIDE DEF new, row
    <3>9. o \notin swallowed' => Lots(new.qty) <= booked[o]
      BY <2>1, <2>3, <3>3, <3>4, <3>5, <3>7
    <3>10. ~is_terminal(new) => booked[o] <= Lots(new.qty)
      BY <2>1, <2>2, <2>3, <3>2, <3>3, <3>4, <3>6, <3>8
    <3>13. is_terminal(new) => /\ new.status = broker[o].status
                               /\ o \in told => \/ Lots(broker[o].qty) <= booked[o]
                                                \/ o \in swallowed'
                                                \/ new.needs_reconciliation
      <4>1. CASE is_terminal(orders[o]) /\ orders[o].status # row.status
        BY <2>3, <3>3, <3>12, <4>1
      <4>2. CASE is_terminal(orders[o]) /\ orders[o].status = row.status
        <5>1. row = broker[o]
          BY <3>11, <4>2 DEF is_terminal
        <5>2. o \notin swallowed' => row.qty = orders[o].qty
          BY <2>2, <3>2, <3>7, <5>1
        <5> QED
          BY <2>3, <3>3, <3>7, <4>2, <5>1, <5>2
      <4>3. CASE ~is_terminal(orders[o]) /\ is_terminal(new)
        <5>1. row = broker[o]
          BY <3>3, <3>11, <4>3 DEF is_terminal
        <5>2. o \notin swallowed' => row.qty = orders[o].qty
          BY <2>2, <3>2, <3>7, <5>1
        <5> QED
          BY <2>3, <3>3, <3>7, <4>3, <5>1, <5>2
      <4> QED
        BY <4>1, <4>2, <4>3
    <3> QED
      BY <2>2, <3>1, <3>2, <3>3, <3>9, <3>10, <3>13
  <2> QED
    BY <2>4, <2>5
<1>6. DOMAIN orders' = DOMAIN orders
  BY <1>3
<1>7. BookTypeOK'
  <2>1. orders' \in [DOMAIN orders' -> ManagedOrder]
    BY <1>3, <1>5, <1>6
  <2>2. swallowed' \subseteq DOMAIN orders'
    BY <1>3, <1>4, <1>6 DEF BookInv, BookTypeOK
  <2> QED
    BY <1>3, <1>6, <2>1, <2>2 DEF BookInv, BookTypeOK, ManagedOrder
<1>8. RecordsBehindBroker' /\ FinalRecordsCurrent' /\ FillsAccounted'
  BY <1>3, <1>5, <1>6 DEF BookInv, RecordsBehindBroker, FinalRecordsCurrent, FillsAccounted
<1>9. ReportsBehindBroker' /\ FinalReportsCurrent' /\ OnlyTrackedBooked' /\ NoDoubleBooking'
  BY <1>3, <1>6
  DEF BookInv, ReportsBehindBroker, FinalReportsCurrent, OnlyTrackedBooked, NoDoubleBooking
<1> QED
  BY <1>7, <1>8, <1>9 DEF BookInv

\* The daily reset leaves an empty book and an empty risk book.
LEMMA ResetDailyStep ==
    ASSUME BookInv, BookResetDaily
    PROVE  BookInv'
<1>1. DOMAIN orders' = {} /\ orders' \in [{} -> ManagedOrder]
  BY DEF BookResetDaily
<1>2. \A o \in Orders : broker[o].qty \in Nat
  BY ConstantsAssumption DEF BookInv, BookTypeOK, Report, NotPlaced
<1>3. \A o \in Orders : Lots(broker[o].qty) \in Nat
  BY <1>2, LotsType
<1> QED
  BY <1>1, <1>3
  DEF BookResetDaily, BookInv, BookTypeOK, ReportsBehindBroker, RecordsBehindBroker, OnlyTrackedBooked,
      FinalReportsCurrent, FinalRecordsCurrent, NoDoubleBooking, FillsAccounted, ManagedOrder

-----------------------------------------------------------------------------
(* The theorems.                                                           *)

\* The invariant is inductive: every call of the engine, and every step of the
\* broker, preserves it.
LEMMA BookStepInv ==
    BookInv /\ [BookNext]_book_vars => BookInv'
<1> SUFFICES ASSUME BookInv, [BookNext]_book_vars PROVE BookInv'
  OBVIOUS
<1>1. CASE Place
  BY <1>1, PlaceStep
<1>2. CASE PlaceUnanswered
  BY <1>2, PlaceUnansweredStep
<1>3. CASE \E o \in Orders : CancelOrder(o)
  BY <1>3, CancelStep
<1>4. CASE \E o \in Orders : HandleOrderUpdate(o)
  BY <1>4, HandleOrderUpdateStep
<1>5. CASE \E o \in Orders : BrokerStep(o)
  BY <1>5, BrokerStepStep
<1>6. CASE Reconcile
  BY <1>6, ReconcileStep
<1>7. CASE BookResetDaily
  BY <1>7, ResetDailyStep
<1>8. CASE UNCHANGED book_vars
  BY <1>8 DEF book_vars, BookInv, BookTypeOK, ReportsBehindBroker, RecordsBehindBroker,
              FinalReportsCurrent, FinalRecordsCurrent, OnlyTrackedBooked, NoDoubleBooking,
              FillsAccounted, is_terminal
<1> QED
  BY <1>1, <1>2, <1>3, <1>4, <1>5, <1>6, <1>7, <1>8 DEF BookNext

\* The order book, its maps and the risk lots keep their types (every method
\* of OrderManagementSystem modelled here).
THEOREM BookTypeCorrect ==
    BookSpec => []BookTypeOK
<1>1. BookInv => BookTypeOK
  BY DEF BookInv
<1> QED
  BY BookInitInv, BookStepInv, <1>1, PTL DEF BookSpec

\* For every order quantity and lot size, no sequence of lost, repeated or
\* reordered updates and stale snapshots makes handle_order_update book more
\* lots of an order than the broker filled.
THEOREM NeverDoubleBooked ==
    BookSpec => []NoDoubleBooking
<1>1. BookInv => NoDoubleBooking
  BY DEF BookInv
<1> QED
  BY BookInitInv, BookStepInv, <1>1, PTL DEF BookSpec

\* The order-fold leg of local_reconcile, with its exceptions: a traded lot of
\* a record is booked unless an error line said otherwise; and whatever status
\* the placement was answered with, TRADED included, once the final update was
\* handled no lot the broker filled is missing without an error line or a flag.
THEOREM FillsAlwaysAccounted ==
    BookSpec => []FillsAccounted
<1>1. BookInv => FillsAccounted
  BY DEF BookInv
<1> QED
  BY BookInitInv, BookStepInv, <1>1, PTL DEF BookSpec

\* No call of the engine changes the status of a record that is terminal.
LEMMA TerminalStep ==
    ASSUME BookInv, BookNext,
           NEW o \in DOMAIN orders, o \in DOMAIN orders', is_terminal(orders[o])
    PROVE  orders'[o].status = orders[o].status
<1>1. o \in Orders /\ orders[o] \in ManagedOrder
  BY DEF BookInv, BookTypeOK, ManagedOrder
<1>2. CASE Place
  BY <1>1, <1>2 DEF Place, PlaceOrder, BrokerAccepts, Track, BookInv, RecordsBehindBroker
<1>3. CASE PlaceUnanswered \/ \E x \in Orders : BrokerStep(x)
  BY <1>3 DEF PlaceUnanswered, PlaceOrderUnanswered, BrokerStep
<1>4. CASE \E x \in Orders : CancelOrder(x)
  BY <1>1, <1>4 DEF CancelOrder
<1>5. CASE \E x \in Orders : HandleOrderUpdate(x)
  <2>1. PICK x \in Orders : HandleOrderUpdate(x)
    BY <1>5
  <2>2. PICK update \in reported[x], number \in Numbers \cup {"own", "none"},
             correlated \in BOOLEAN, bookable \in BOOLEAN :
            /\ Resolves(x, number, correlated)
            /\ \/ UpdateUnknownStatus(x)
               \/ UpdateTerminalRefresh(x, update)
               \/ UpdateRefresh(x, update, bookable)
               \/ UpdateInvalidTransition(x, update)
               \/ UpdateTransition(x, update, bookable)
    BY <2>1 DEF HandleOrderUpdate
  <2>3. x \in DOMAIN orders
    BY <2>2 DEF Resolves
  <2>4. Flag(orders[o]).status = orders[o].status
    BY <1>1 DEF Flag, ManagedOrder
  <2>5. CASE UpdateUnknownStatus(x)
    BY <2>3, <2>4, <2>5 DEF UpdateUnknownStatus
  <2>6. CASE UpdateTerminalRefresh(x, update)
    BY <2>3, <2>4, <2>6 DEF UpdateTerminalRefresh
  <2>7. CASE UpdateRefresh(x, update, bookable)
    BY <2>3, <2>7 DEF UpdateRefresh
  <2>8. CASE UpdateInvalidTransition(x, update)
    BY <2>3, <2>4, <2>8 DEF UpdateInvalidTransition
  <2>9. CASE UpdateTransition(x, update, bookable)
    <3>1. o # x
      BY <2>9 DEF UpdateTransition, is_valid_transition, is_terminal, Terminal
    <3> QED
      BY <2>3, <2>9, <3>1 DEF UpdateTransition
  <2> QED
    BY <2>2, <2>5, <2>6, <2>7, <2>8, <2>9
<1>6. CASE Reconcile
  <2>1. PICK seen \in SUBSET DOMAIN orders :
          \E rows \in [seen -> Report], priceDiffers \in SUBSET seen :
            ReconcileWith(rows, priceDiffers)
    BY <1>6 DEF Reconcile
  <2>2. PICK rows \in [seen -> Report], priceDiffers \in SUBSET seen :
            ReconcileWith(rows, priceDiffers)
    BY <2>1
  <2>3. \/ orders'[o] = orders[o]
        \/ o \in seen /\ orders'[o] = Corrected(orders[o], rows[o])
    BY <2>2 DEF ReconcileWith
  <2> QED
    BY <1>1, <2>2, <2>3, CorrectedRecord
<1>7. CASE BookResetDaily
  BY <1>7 DEF BookResetDaily
<1> QED
  BY <1>2, <1>3, <1>4, <1>5, <1>6, <1>7 DEF BookNext

\* A terminal order stays terminal for the rest of the day, under any
\* interleaving of updates and reconciliations (the M2 guard of reconcile()).
THEOREM TerminalStaysFinal ==
    BookSpec => TerminalIsFinal
<1> DEFINE Final == \A o \in DOMAIN orders \cap DOMAIN orders' :
                       is_terminal(orders[o]) => orders'[o].status = orders[o].status
<1>1. BookInv /\ [BookNext]_book_vars => [Final]_book_vars
  BY TerminalStep
<1> QED
  BY BookInitInv, BookStepInv, <1>1, PTL DEF BookSpec, TerminalIsFinal
=============================================================================
