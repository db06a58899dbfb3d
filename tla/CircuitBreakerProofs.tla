------------------------ MODULE CircuitBreakerProofs ------------------------
(***************************************************************************)
(* The half-open probe of the circuit breaker is never abandoned, and at   *)
(* most one is let through per open window, for any number of threads and  *)
(* whatever the threshold and the timeout are.                             *)
(*                                                                         *)
(* ProbeHasOwner is not inductive: a thread that was let through as the    *)
(* probe may find the failures below the threshold when it records its own *)
(* and then leaves with the flag still set.  ClearingFrees says why it may:*)
(* failures below the threshold with the flag set mean that another thread *)
(* is on its way to clear the flag.                                        *)
(***************************************************************************)
EXTENDS CircuitBreaker, TLAPS

Clearing == {"recheck_failures", "give_back", "success_opened", "success_probe",
             "reset_opened", "reset_probe"}

ClearingFrees ==
    (half_open_probe_sent /\ consecutive_failures < Threshold)
        => \E t \in Threads : pc[t] \in Clearing

\* A second state() that found the circuit open holds the time it opened.
OpenedWasRead ==
    \A t \in Threads : pc[t] = "recheck_clock" => local[t] # 0

IInv == TypeOK /\ OpenedWasRead /\ ClearingFrees /\ ProbeHasOwner

Owning == Clearing \cup {"recheck_opened", "recheck_clock",
                         "failure_rearm", "failure_release", "failure_free"}

Steps == CheckSteps \cup SuccessSteps \cup FailureSteps \cup ResetSteps

-----------------------------------------------------------------------------

\* A breaker just built satisfies the invariant.
LEMMA InitInv == Init => IInv
<1> SUFFICES ASSUME Init PROVE IInv
  OBVIOUS
<1>1. half_open_probe_sent \in BOOLEAN
  BY Zenon DEF Init
<1>2. TypeOK
  BY <1>1, BreakerAssumption DEF Init, TypeOK, Outside
<1>3. OpenedWasRead /\ ClearingFrees /\ ProbeHasOwner
  BY DEF Init, OpenedWasRead, ClearingFrees, ProbeHasOwner
<1> QED
  BY <1>2, <1>3 DEF IInv

-----------------------------------------------------------------------------
(* How a step of thread t disturbs the three parts.                        *)

\* Thread t alone moves, and what it remembers has its type.
Moves(t) ==
    /\ pc' = [pc EXCEPT ![t] = pc'[t]]
    /\ pc'[t] \in Outside \cup Steps
    /\ local' = [local EXCEPT ![t] = local'[t]]
    /\ local'[t] \in 0..MaxTime
    /\ since' = [since EXCEPT ![t] = since'[t]]
    /\ since'[t] \in 0..MaxTime
    /\ pc'[t] = "recheck_clock" => local'[t] # 0

\* A thread that moves keeps the types of what the threads hold.
LEMMA MovesTypes ==
    ASSUME IInv, NEW t \in Threads, Moves(t)
    PROVE  /\ pc' \in [Threads -> Outside \cup CheckSteps \cup SuccessSteps \cup FailureSteps \cup ResetSteps]
           /\ local' \in [Threads -> 0..MaxTime]
           /\ since' \in [Threads -> 0..MaxTime]
           /\ OpenedWasRead'
  BY DEF IInv, TypeOK, OpenedWasRead, Steps, Moves

\* Goto, GotoWith and Return move their thread.
LEMMA GotoMoves ==
    ASSUME IInv, NEW t \in Threads, NEW step \in Steps, NEW value \in 0..MaxTime,
           GotoWith(t, step, value), step = "recheck_clock" => value # 0
    PROVE  Moves(t) /\ pc'[t] = step /\ now' = now
  BY DEF IInv, TypeOK, GotoWith, Moves

\* Returning is a move of that thread, and takes no time.
LEMMA ReturnMoves ==
    ASSUME IInv, NEW t \in Threads, NEW where \in Outside, Return(t, where)
    PROVE  Moves(t) /\ pc'[t] = where /\ now' = now
  BY BreakerAssumption DEF IInv, TypeOK, Return, Moves, Outside

\* The other threads stay where they are.
LEMMA OwnerStays ==
    ASSUME IInv, NEW t \in Threads, Moves(t),
           half_open_probe_sent' = half_open_probe_sent,
           probing' = probing,
           pc[t] \in Owning => pc'[t] \in Owning
    PROVE  ProbeHasOwner'
  BY DEF IInv, TypeOK, ProbeHasOwner, Owning, Clearing, Moves

\* A probe that stays spent while the failures are few is still being
\* cleared by somebody, if the thread that moved was not the last to do so.
LEMMA ClearerStays ==
    ASSUME IInv, NEW t \in Threads, Moves(t),
           half_open_probe_sent' = half_open_probe_sent,
           consecutive_failures' < Threshold => consecutive_failures < Threshold,
           pc[t] \in Clearing => (pc'[t] \in Clearing \/ ~(consecutive_failures' < Threshold))
    PROVE  ClearingFrees'
<1> SUFFICES ASSUME half_open_probe_sent', consecutive_failures' < Threshold
             PROVE  \E u \in Threads : pc'[u] \in Clearing
  BY DEF ClearingFrees
<1>1. PICK u \in Threads : pc[u] \in Clearing
  BY DEF IInv, ClearingFrees
<1> QED
  BY <1>1 DEF IInv, TypeOK, Moves

\* A probe that has been freed needs no owner.
LEMMA Freed ==
    ASSUME half_open_probe_sent' = FALSE
    PROVE  ClearingFrees' /\ ProbeHasOwner'
  BY DEF ClearingFrees, ProbeHasOwner

\* A step that reads, and leaves the failures and the probe alone.
LEMMA ReadStep ==
    ASSUME IInv, NEW t \in Threads, Moves(t),
           opened_at' \in 0..MaxTime,
           UNCHANGED <<consecutive_failures, half_open_probe_sent, now, probing, probed>>,
           pc[t] \in Owning => pc'[t] \in Owning,
           pc[t] \in Clearing => (pc'[t] \in Clearing \/ ~(consecutive_failures < Threshold))
    PROVE  IInv'
<1>1. TypeOK' /\ OpenedWasRead'
  BY MovesTypes DEF IInv, TypeOK
<1>2. ProbeHasOwner'
  BY OwnerStays
<1>3. ClearingFrees'
  BY ClearerStays
<1> QED
  BY <1>1, <1>2, <1>3 DEF IInv

\* A step that frees the probe.
LEMMA FreeStep ==
    ASSUME IInv, NEW t \in Threads, Moves(t),
           half_open_probe_sent' = FALSE,
           UNCHANGED <<consecutive_failures, opened_at, now, probed>>,
           probing' \subseteq Threads
    PROVE  IInv'
<1>1. half_open_probe_sent' \in BOOLEAN
  BY Zenon
<1>2. TypeOK' /\ OpenedWasRead'
  BY <1>1, MovesTypes DEF IInv, TypeOK
<1> QED
  BY <1>2, Freed DEF IInv

-----------------------------------------------------------------------------
(* One lemma per method.                                                   *)

\* A thread that starts an operation keeps the invariant.
LEMMA BeginStep ==
    ASSUME IInv, NEW t \in Threads, NEW from \in Outside, NEW step \in Steps,
           step # "recheck_clock", Begin(t, from, step)
    PROVE  IInv'
<1>1. Moves(t) /\ pc'[t] = step
  BY DEF IInv, TypeOK, Begin, Moves
<1>2. pc[t] \notin Owning /\ pc[t] \notin Clearing
  BY DEF Owning, Clearing, Outside, Begin
<1> QED
  BY <1>1, <1>2, ReadStep DEF Begin, shared, IInv, TypeOK

\* The steps of check keep the invariant.
LEMMA CheckStep ==
    ASSUME IInv, NEW t \in Threads, Check(t)
    PROVE  IInv'
<1> USE DEF shared
<1>t. /\ local[t] \in 0..MaxTime /\ opened_at \in 0..MaxTime /\ 0 \in 0..MaxTime
      /\ probing \subseteq Threads
  BY BreakerAssumption DEF IInv, TypeOK
<1>1. CASE Begin(t, "idle", "check_failures")
  BY <1>1, BeginStep DEF Outside, Steps, CheckSteps
<1>2. CASE CheckLoadFailures(t)
  <2>1. Moves(t) /\ now' = now
    BY <1>2, <1>t, GotoMoves, ReturnMoves
       DEF CheckLoadFailures, Admit, Goto, Outside, Steps, CheckSteps
  <2> QED
    BY <1>2, <1>t, <2>1, ReadStep DEF CheckLoadFailures, Owning, Clearing
<1>3. CASE CheckLoadOpened(t)
  <2>1. Moves(t) /\ now' = now
    BY <1>3, <1>t, GotoMoves, ReturnMoves
       DEF CheckLoadOpened, Admit, Outside, Steps, CheckSteps
  <2> QED
    BY <1>3, <1>t, <2>1, ReadStep DEF CheckLoadOpened, Owning, Clearing
<1>4. CASE CheckClock(t)
  <2>1. Moves(t) /\ now' = now
    BY <1>4, <1>t, GotoMoves, ReturnMoves
       DEF CheckClock, Refuse, Outside, Steps, CheckSteps
  <2> QED
    BY <1>4, <1>t, <2>1, ReadStep DEF CheckClock, Owning, Clearing
<1>5. CASE CheckCompareExchange(t)
  <2>1. CASE half_open_probe_sent
    <3>1. Moves(t) /\ now' = now /\ pc'[t] = "idle"
      BY <1>5, <2>1, ReturnMoves DEF CheckCompareExchange, Refuse, Outside
    <3>2. half_open_probe_sent' = half_open_probe_sent
      BY <1>5, <2>1, Zenon DEF CheckCompareExchange, IInv, TypeOK
    <3> QED
      BY <1>5, <1>t, <3>1, <3>2, ReadStep DEF CheckCompareExchange, Owning, Clearing
  <2>2. CASE ~half_open_probe_sent
    <3>1. Moves(t) /\ now' = now /\ pc'[t] = "recheck_failures"
      BY <1>5, <2>2, <1>t, GotoMoves DEF CheckCompareExchange, Goto, Steps, CheckSteps
    <3>2. half_open_probe_sent' \in BOOLEAN
      BY <1>5, Zenon DEF CheckCompareExchange
    <3>3. TypeOK' /\ OpenedWasRead'
      BY <1>5, <3>1, <3>2, MovesTypes DEF CheckCompareExchange, IInv, TypeOK
    <3>4. ClearingFrees' /\ ProbeHasOwner'
      BY <3>1 DEF ClearingFrees, ProbeHasOwner, Clearing
    <3> QED
      BY <3>3, <3>4 DEF IInv
  <2> QED
    BY <2>1, <2>2
<1>6. CASE RecheckLoadFailures(t)
  <2>1. Moves(t) /\ now' = now
        /\ pc'[t] = IF consecutive_failures < Threshold THEN "give_back" ELSE "recheck_opened"
    BY <1>6, <1>t, GotoMoves DEF RecheckLoadFailures, Goto, Steps, CheckSteps
  <2> QED
    BY <1>6, <1>t, <2>1, ReadStep DEF RecheckLoadFailures, Owning, Clearing
<1>7. CASE RecheckLoadOpened(t)
  <2>1. Moves(t) /\ now' = now
        /\ pc'[t] = IF opened_at = 0 THEN "give_back" ELSE "recheck_clock"
    BY <1>7, <1>t, GotoMoves DEF RecheckLoadOpened, Steps, CheckSteps
  <2> QED
    BY <1>7, <1>t, <2>1, ReadStep DEF RecheckLoadOpened, Owning, Clearing
<1>8. CASE RecheckClock(t)
  <2>1. CASE Elapsed(local[t]) >= ResetTimeout
    <3>1. Moves(t) /\ now' = now /\ pc'[t] = "in_flight"
      BY <1>8, <2>1, ReturnMoves DEF RecheckClock, Admit, Outside
    <3>2. local[t] \in 1..MaxTime
      BY <1>8, <1>t DEF RecheckClock, IInv, OpenedWasRead
    <3>3. TypeOK' /\ OpenedWasRead'
      BY <1>8, <2>1, <3>1, <3>2, MovesTypes DEF RecheckClock, IInv, TypeOK
    <3>4. ProbeHasOwner'
      BY <1>8, <2>1 DEF RecheckClock, ProbeHasOwner
    <3>5. ClearingFrees'
      BY <1>8, <3>1, ClearerStays DEF RecheckClock, Clearing
    <3> QED
      BY <3>3, <3>4, <3>5 DEF IInv
  <2>2. CASE ~(Elapsed(local[t]) >= ResetTimeout)
    <3>1. Moves(t) /\ now' = now /\ pc'[t] = "give_back"
      BY <1>8, <2>2, <1>t, GotoMoves DEF RecheckClock, Goto, Steps, CheckSteps
    <3> QED
      BY <1>8, <1>t, <2>2, <3>1, ReadStep DEF RecheckClock, Owning, Clearing
  <2> QED
    BY <2>1, <2>2
<1>9. CASE GiveProbeBack(t)
  <2>1. Moves(t) /\ now' = now
    BY <1>9, ReturnMoves DEF GiveProbeBack, Refuse, Outside
  <2> QED
    BY <1>9, <1>t, <2>1, FreeStep DEF GiveProbeBack
<1> QED
  BY <1>1, <1>2, <1>3, <1>4, <1>5, <1>6, <1>7, <1>8, <1>9 DEF Check

\* record_success and reset clear the three atomics in the same order.
LEMMA ClearStep ==
    ASSUME IInv, NEW t \in Threads, NEW from, NEW to \in Clearing, to # "recheck_failures",
           \/ ClearFailures(t, from, to)
           \/ ClearOpened(t, from, to) /\ from \in Clearing
           \/ ClearProbe(t, from)
    PROVE  IInv'
<1>t. /\ local[t] \in 0..MaxTime /\ 0 \in 0..MaxTime /\ 0 \in 0..Threshold
      /\ probing \subseteq Threads
  BY BreakerAssumption DEF IInv, TypeOK
<1>s. to \in Steps /\ to # "recheck_clock" /\ to \in Owning
  BY DEF Clearing, Owning, Steps, CheckSteps, SuccessSteps, ResetSteps
<1>1. CASE ClearFailures(t, from, to)
  <2>1. Moves(t) /\ now' = now /\ pc'[t] = to
    BY <1>1, <1>t, <1>s, GotoMoves DEF ClearFailures, Goto
  <2>2. TypeOK' /\ OpenedWasRead'
    BY <1>1, <1>t, <2>1, MovesTypes DEF ClearFailures, IInv, TypeOK
  <2>3. ClearingFrees'
    BY <2>1 DEF ClearingFrees
  <2>4. ProbeHasOwner'
    BY <2>1 DEF ProbeHasOwner, Clearing
  <2> QED
    BY <2>2, <2>3, <2>4 DEF IInv
<1>2. CASE ClearOpened(t, from, to) /\ from \in Clearing
  <2>1. Moves(t) /\ now' = now /\ pc'[t] = to
    BY <1>2, <1>t, <1>s, GotoMoves DEF ClearOpened, Goto
  <2> QED
    BY <1>2, <1>t, <1>s, <2>1, ReadStep DEF ClearOpened
<1>3. CASE ClearProbe(t, from)
  <2>1. Moves(t) /\ now' = now
    BY <1>3, ReturnMoves DEF ClearProbe, Outside
  <2> QED
    BY <1>3, <1>t, <2>1, FreeStep DEF ClearProbe
<1> QED
  BY <1>1, <1>2, <1>3

\* The steps of record_success keep the invariant.
LEMMA SuccessStep ==
    ASSUME IInv, NEW t \in Threads, RecordSuccess(t)
    PROVE  IInv'
<1>1. CASE Begin(t, "in_flight", "success_failures")
  BY <1>1, BeginStep DEF Outside, Steps, SuccessSteps
<1>2. CASE ClearFailures(t, "success_failures", "success_opened")
  BY <1>2, ClearStep DEF Clearing
<1>3. CASE ClearOpened(t, "success_opened", "success_probe")
  BY <1>3, ClearStep DEF Clearing
<1>4. CASE ClearProbe(t, "success_probe")
  BY <1>4, ClearStep DEF Clearing
<1> QED
  BY <1>1, <1>2, <1>3, <1>4 DEF RecordSuccess

\* The steps of reset keep the invariant.
LEMMA ResetStep ==
    ASSUME IInv, NEW t \in Threads, Reset(t)
    PROVE  IInv'
<1>1. CASE Begin(t, "idle", "reset_failures")
  BY <1>1, BeginStep DEF Outside, Steps, ResetSteps
<1>2. CASE ClearFailures(t, "reset_failures", "reset_opened")
  BY <1>2, ClearStep DEF Clearing
<1>3. CASE ClearOpened(t, "reset_opened", "reset_probe")
  BY <1>3, ClearStep DEF Clearing
<1>4. CASE ClearProbe(t, "reset_probe")
  BY <1>4, ClearStep DEF Clearing
<1> QED
  BY <1>1, <1>2, <1>3, <1>4 DEF Reset

\* The steps of record_failure keep the invariant.
LEMMA FailureStep ==
    ASSUME IInv, NEW t \in Threads, RecordFailure(t)
    PROVE  IInv'
<1> USE DEF shared
<1>t. /\ local[t] \in 0..MaxTime /\ opened_at \in 0..MaxTime /\ now \in 0..MaxTime
      /\ probing \subseteq Threads /\ consecutive_failures \in 0..Threshold
      /\ Threshold \in Nat
  BY BreakerAssumption DEF IInv, TypeOK
<1>1. CASE Begin(t, "in_flight", "failure_count")
  BY <1>1, BeginStep DEF Outside, Steps, FailureSteps
<1>2. CASE FailureCount(t)
  <2>1. CASE consecutive_failures' >= Threshold
    <3>1. Moves(t) /\ now' = now /\ probing' = probing
      BY <1>2, <1>t, <2>1, GotoMoves DEF FailureCount, Goto, Steps, FailureSteps
    <3>2. TypeOK' /\ OpenedWasRead'
      BY <1>2, <1>t, <3>1, MovesTypes DEF FailureCount, IInv, TypeOK
    <3>3. ProbeHasOwner'
      BY <1>2, <3>1, OwnerStays DEF FailureCount, Owning, Clearing
    <3>4. ClearingFrees'
      BY <1>2, <1>t, <2>1 DEF FailureCount, ClearingFrees
    <3> QED
      BY <3>2, <3>3, <3>4 DEF IInv
  <2>2. CASE ~(consecutive_failures' >= Threshold)
    <3>1. Moves(t) /\ now' = now /\ probing' = probing \ {t}
      BY <1>2, <2>2, ReturnMoves DEF FailureCount, FailureDone, Outside
    <3>2. TypeOK' /\ OpenedWasRead'
      BY <1>2, <1>t, <3>1, MovesTypes DEF FailureCount, IInv, TypeOK
    <3>3. consecutive_failures < Threshold
      BY <1>2, <1>t, <2>2 DEF FailureCount
    <3>4. ClearingFrees'
      BY <1>2, <3>1, <3>3, ClearerStays DEF FailureCount, Clearing
    <3>5. ProbeHasOwner'
      <4> SUFFICES ASSUME half_open_probe_sent' PROVE ProbeHasOwner'
        BY DEF ProbeHasOwner
      <4>1. consecutive_failures' < Threshold
        BY <1>2, <1>t, <2>2 DEF FailureCount
      <4>2. PICK u \in Threads : pc'[u] \in Clearing
        BY <3>4, <4>1 DEF ClearingFrees
      <4> QED
        BY <4>2 DEF ProbeHasOwner, Clearing
    <3> QED
      BY <3>2, <3>4, <3>5 DEF IInv
  <2> QED
    BY <2>1, <2>2
<1>3. CASE FailureClock(t)
  <2>1. Moves(t) /\ now' = now
    BY <1>3, <1>t, GotoMoves DEF FailureClock, Steps, FailureSteps
  <2> QED
    BY <1>3, <1>t, <2>1, ReadStep DEF FailureClock, Owning, Clearing
<1>4. CASE FailureCompareExchange(t)
  <2>1. Moves(t) /\ now' = now /\ opened_at' \in 0..MaxTime
    BY <1>4, <1>t, GotoMoves DEF FailureCompareExchange, Goto, Steps, FailureSteps
  <2> QED
    BY <1>4, <1>t, <2>1, ReadStep DEF FailureCompareExchange, Owning, Clearing
<1>5. CASE FailureLoadProbe(t)
  <2>1. CASE half_open_probe_sent
    <3>1. Moves(t) /\ now' = now /\ probing' = probing /\ pc'[t] = "failure_rearm"
      BY <1>5, <1>t, <2>1, GotoMoves DEF FailureLoadProbe, Goto, Steps, FailureSteps
    <3> QED
      BY <1>5, <1>t, <3>1, ReadStep DEF FailureLoadProbe, Owning, Clearing
  <2>2. CASE ~half_open_probe_sent
    <3>1. Moves(t) /\ now' = now /\ probing' = probing \ {t}
      BY <1>5, <2>2, ReturnMoves DEF FailureLoadProbe, FailureDone, Outside
    <3>2. half_open_probe_sent' = FALSE
      BY <1>5, <2>2, Zenon DEF FailureLoadProbe, IInv, TypeOK
    <3> QED
      BY <1>5, <1>t, <3>1, <3>2, FreeStep DEF FailureLoadProbe
  <2> QED
    BY <2>1, <2>2
<1>6. CASE FailureRearm(t)
  <2>1. Moves(t) /\ now' = now /\ pc'[t] = "failure_release"
    BY <1>6, <1>t, GotoMoves DEF FailureRearm, Goto, Steps, FailureSteps
  <2> QED
    BY <1>6, <1>t, <2>1, ReadStep DEF FailureRearm, Owning, Clearing
<1>7. CASE FailureFreeProbe(t)
  <2>1. Moves(t) /\ now' = now
    BY <1>7, ReturnMoves DEF FailureFreeProbe, FailureDone, Outside
  <2> QED
    BY <1>7, <1>t, <2>1, FreeStep DEF FailureFreeProbe, FailureDone
<1> QED
  BY <1>1, <1>2, <1>3, <1>4, <1>5, <1>6, <1>7 DEF RecordFailure

\* So does the passing of time.
LEMMA TickStep ==
    ASSUME IInv, Tick
    PROVE  IInv'
<1>1. now' \in 1..MaxTime
  BY BreakerAssumption DEF IInv, TypeOK, Tick
<1>2. TypeOK' /\ OpenedWasRead'
  BY <1>1 DEF IInv, TypeOK, OpenedWasRead, Tick, shared
<1>3. ClearingFrees' /\ ProbeHasOwner'
  BY DEF IInv, ClearingFrees, ProbeHasOwner, Tick, shared
<1> QED
  BY <1>2, <1>3 DEF IInv

\* Every step keeps the invariant.
LEMMA NextInv == IInv /\ [Next]_vars => IInv'
<1> SUFFICES ASSUME IInv, [Next]_vars PROVE IInv'
  OBVIOUS
<1>1. CASE Next
  BY <1>1, CheckStep, SuccessStep, FailureStep, ResetStep, TickStep DEF Next
<1>2. CASE UNCHANGED vars
  BY <1>2 DEF IInv, TypeOK, OpenedWasRead, ClearingFrees, ProbeHasOwner, vars, shared
<1> QED
  BY <1>1, <1>2

-----------------------------------------------------------------------------

\* The strengthened invariant holds of every behaviour of the breaker.
THEOREM InductiveInvariant == Spec => []IInv
  BY InitInv, NextInv, PTL DEF Spec

\* The atomics of the breaker and the threads' own state keep their types,
\* whatever the threads interleave.
THEOREM TypeCorrect == Spec => []TypeOK
<1>1. IInv => TypeOK
  BY DEF IInv
<1> QED
  BY <1>1, InductiveInvariant, PTL

\* check(), record_success(), record_failure() and reset(), interleaved access
\* by access by any number of threads, never leave the half-open probe spent
\* with nobody to free it.
THEOREM ProbeNeverAbandoned == Spec => []ProbeHasOwner
<1>1. IInv => ProbeHasOwner
  BY DEF IInv
<1> QED
  BY <1>1, InductiveInvariant, PTL

-----------------------------------------------------------------------------
(* One probe per window.                                                   *)
(*                                                                         *)
(* While a window is expired and has not been probed, at most one call of  *)
(* check() holds the flag; once it was, none does and the flag stays set.  *)
(* Nothing else clears it: the stores that do follow a change of the       *)
(* window, and no call is so long that the window it saw, or wrote, could  *)
(* have expired meanwhile (2 * MaxStall < ResetTimeout).                   *)

\* Where a call of check() has set the flag; where another is about to clear it; and
\* where record_failure() has read the clock.
Holders == {"recheck_failures", "recheck_opened", "recheck_clock", "give_back"}
Freeing == {"success_probe", "reset_probe", "failure_free", "failure_release"}
Timed == {"failure_cas", "failure_probe", "failure_rearm"}

\* The window is younger than the call of t, give or take a stall.
Young(t, opened) == opened = 0 \/ opened + MaxStall >= since[t]

Expired(opened) == opened # 0 /\ opened + ResetTimeout <= now

\* No call takes more than MaxStall, and a failure's clock reading is of its call.
Short(t) ==
    /\ pc[t] \notin Outside => since[t] <= now /\ now <= since[t] + MaxStall
    /\ pc[t] \in Timed => since[t] <= local[t] /\ local[t] <= now

\* What a call knows of the window: one that is about to clear the flag has seen it
\* change, and one that found it expired still does unless it changed since.
Known(t) ==
    /\ pc[t] \in Freeing => Young(t, opened_at)
    /\ pc[t] = "check_clock" => local[t] = opened_at \/ Young(t, opened_at)
    /\ pc[t] \in {"check_cas"} \cup Holders => Young(t, opened_at) \/ Expired(opened_at)
    /\ pc[t] = "recheck_clock" => Young(t, local[t]) \/ Expired(local[t])

\* One call at a time holds the probe of an expired window, and none once a request
\* was let through.
OneHolds ==
    /\ \A t, u \in Threads :
          Expired(opened_at) /\ pc[t] \in Holders =>
              half_open_probe_sent /\ (pc[u] \in Holders => t = u)
    /\ opened_at \in probed =>
          half_open_probe_sent /\ \A t \in Threads : pc[t] \notin Holders
    /\ \A w \in probed : w + ResetTimeout <= now

\* A window about to be probed was not probed before, and is by one call only.
Unprobed ==
    \A t \in Threads :
        pc[t] = "recheck_clock" /\ Expired(local[t]) =>
            /\ local[t] \notin probed
            /\ \A u \in Threads : pc[u] = "recheck_clock" /\ local[u] = local[t] => t = u

PInv == IInv /\ (\A t \in Threads : Short(t) /\ Known(t)) /\ OneHolds /\ Unprobed

\* The types the arithmetic below needs.
LEMMA Times ==
    ASSUME IInv
    PROVE  /\ MaxStall \in Nat /\ ResetTimeout \in Nat /\ 2 * MaxStall < ResetTimeout
           /\ now \in Nat /\ opened_at \in Nat /\ 0 \notin probed
           /\ \A w \in probed : w \in Nat
           /\ \A t \in Threads : local[t] \in Nat /\ since[t] \in Nat
  BY BreakerAssumption DEF IInv, TypeOK

\* A thread moves while the three atomics and the probed windows stay.
LEMMA ReadKeepsProbe ==
    ASSUME PInv, NEW t \in Threads, Moves(t), Short(t)', Known(t)',
           UNCHANGED <<opened_at, half_open_probe_sent, now, probed>>,
           pc'[t] \in Holders => pc[t] \in Holders,
           pc'[t] # "recheck_clock"
    PROVE  (\A u \in Threads : Short(u) /\ Known(u))' /\ OneHolds' /\ Unprobed'
  <1>1. \A u \in Threads : u # t => pc'[u] = pc[u] /\ local'[u] = local[u] /\ since'[u] = since[u]
    BY DEF Moves, PInv, IInv, TypeOK
  <1>2. ASSUME NEW u \in Threads PROVE Short(u)' /\ Known(u)'
    <2>1. CASE u = t
      BY <2>1
    <2>2. CASE u # t
      BY <1>1, <2>2 DEF PInv, Short, Known, Young, Expired
    <2> QED BY <2>1, <2>2
  <1>3. OneHolds'
    <2>1. \A u \in Threads : pc'[u] \in Holders => pc[u] \in Holders
      BY <1>1
    <2> QED BY <2>1 DEF PInv, OneHolds, Expired
  <1>4. Unprobed'
    BY <1>1 DEF PInv, Unprobed, Expired
  <1> QED BY <1>2, <1>3, <1>4

\* A store to opened_at makes the window young for every call.
LEMMA StoreKeepsProbe ==
    ASSUME PInv, NEW t \in Threads, Moves(t), Short(t)', since'[t] = since[t],
           opened_at' = 0 \/ (pc[t] \in Timed /\ opened_at' = local[t]),
           UNCHANGED <<half_open_probe_sent, now, probed>>,
           pc[t] \notin Outside, pc'[t] \notin Outside,
           pc'[t] \notin Holders
    PROVE  (\A u \in Threads : Short(u) /\ Known(u))' /\ OneHolds' /\ Unprobed'
  <1>1. \A u \in Threads : u # t => pc'[u] = pc[u] /\ local'[u] = local[u] /\ since'[u] = since[u]
    BY DEF Moves, PInv, IInv, TypeOK
  <1>2. \A u \in Threads : since[u] \in Nat /\ (pc[u] \notin Outside => since[u] <= now)
    BY Times DEF PInv, Short
  <1>3. opened_at' \in Nat /\ (opened_at' # 0 => opened_at' + MaxStall >= now)
    BY Times DEF PInv, Short
  <1>4. \A u \in Threads : pc'[u] \notin Outside => Young(u, opened_at)'
    BY <1>1, <1>2, <1>3, Times DEF Young, PInv
  <1>5. ~Expired(opened_at)' /\ opened_at' \notin probed
    BY <1>3, Times DEF Expired, PInv, OneHolds
  <1>6. ASSUME NEW u \in Threads PROVE Short(u)' /\ Known(u)'
    <2>1. CASE u = t
      BY <1>4, <2>1 DEF Known, Holders
    <2>2. CASE u # t
      <3>1. Short(u)'
        BY <1>1, <2>2 DEF PInv, Short
      <3>2. Known(u)'
        BY <1>1, <1>4, <2>2 DEF PInv, Known, Outside, Freeing, Holders, Young, Expired
      <3> QED BY <3>1, <3>2
    <2> QED BY <2>1, <2>2
  <1>7. OneHolds'
    BY <1>5 DEF PInv, OneHolds, Expired
  <1>8. Unprobed'
    BY <1>1 DEF PInv, Unprobed, Expired, Holders
  <1> QED BY <1>6, <1>7, <1>8

\* A store that clears the flag: by a call that saw the window change, or by the one
\* that holds the probe.
LEMMA FreeKeepsProbe ==
    ASSUME PInv, NEW t \in Threads, Moves(t), pc[t] \in Freeing \cup {"give_back"},
           pc'[t] \in Outside, half_open_probe_sent' = FALSE,
           UNCHANGED <<opened_at, now, probed>>
    PROVE  (\A u \in Threads : Short(u) /\ Known(u))' /\ OneHolds' /\ Unprobed'
  <1>1. \A u \in Threads : u # t => pc'[u] = pc[u] /\ local'[u] = local[u] /\ since'[u] = since[u]
    BY DEF Moves, PInv, IInv, TypeOK
  <1>2. pc[t] \notin Outside
    BY DEF Outside, Freeing
  <1>3. ASSUME NEW u \in Threads PROVE Short(u)' /\ Known(u)'
    <2>1. CASE u = t
      BY <2>1 DEF Short, Known, Outside, Timed, Freeing, Holders
    <2>2. CASE u # t
      BY <1>1, <2>2 DEF PInv, Short, Known, Young, Expired
    <2> QED BY <2>1, <2>2
  <1>4. \A u \in Threads : pc'[u] \in Holders => pc[u] \in Holders /\ u # t
    BY <1>1 DEF Outside, Holders
  <1>5. opened_at \notin probed /\ (Expired(opened_at) => \A u \in Threads : pc'[u] \notin Holders)
    <2>1. CASE pc[t] \in Freeing
      <3>1. ~Expired(opened_at)
        BY <1>2, <2>1, Times DEF PInv, Short, Known, Young, Expired
      <3>2. opened_at \notin probed
        BY <3>1, Times DEF PInv, OneHolds, Expired
      <3> QED BY <3>1, <3>2
    <2>2. CASE pc[t] = "give_back"
      BY <1>4, <2>2 DEF PInv, OneHolds, Holders
    <2> QED BY <2>1, <2>2
  <1>6. OneHolds'
    BY <1>5 DEF PInv, OneHolds, Expired
  <1>7. Unprobed'
    BY <1>1 DEF PInv, Unprobed, Expired, Outside
  <1> QED BY <1>3, <1>6, <1>7

\* The parts of the invariant that the theorem adds.
ProbeInv == (\A u \in Threads : Short(u) /\ Known(u)) /\ OneHolds /\ Unprobed

\* A call starts its own time.
LEMMA BeginProbe ==
    ASSUME PInv, NEW t \in Threads, NEW from \in Outside,
           NEW step \in {"check_failures", "success_failures", "reset_failures", "failure_count"},
           Begin(t, from, step)
    PROVE  ProbeInv'
  <1>1. Moves(t) /\ pc'[t] = step /\ since'[t] = now
    BY DEF PInv, IInv, TypeOK, Begin, Moves, Steps, CheckSteps, SuccessSteps, FailureSteps, ResetSteps
  <1>2. Short(t)' /\ Known(t)'
    BY <1>1, Times DEF PInv, Begin, Short, Known, Timed, Freeing, Holders
  <1> QED BY <1>1, <1>2, ReadKeepsProbe DEF Begin, shared, Holders, ProbeInv

\* A call that returns, with nothing changed, knows nothing.
LEMMA ReturnProbe ==
    ASSUME PInv, NEW t \in Threads, NEW where \in Outside, Return(t, where),
           UNCHANGED <<opened_at, half_open_probe_sent, probed>>
    PROVE  ProbeInv'
  <1>1. Moves(t) /\ pc'[t] = where /\ now' = now
    BY ReturnMoves DEF PInv
  <1>2. Short(t)' /\ Known(t)'
    BY <1>1 DEF Short, Known, Outside, Timed, Freeing, Holders
  <1> QED BY <1>1, <1>2, ReadKeepsProbe DEF Outside, Holders, ProbeInv

\* The next step of the same call.
LEMMA GotoProbe ==
    ASSUME PInv, NEW t \in Threads, NEW step \in Steps, NEW value \in 0..MaxTime,
           GotoWith(t, step, value), step # "recheck_clock"
    PROVE  /\ Moves(t) /\ pc'[t] = step /\ local'[t] = value /\ since'[t] = since[t] /\ now' = now
           /\ step \notin Outside
  <1>1. Moves(t) /\ pc'[t] = step /\ now' = now
    BY GotoMoves DEF PInv
  <1>2. local'[t] = value /\ since'[t] = since[t]
    BY DEF GotoWith, PInv, IInv, TypeOK
  <1> QED BY <1>1, <1>2
          DEF Steps, CheckSteps, SuccessSteps, FailureSteps, ResetSteps, Outside

\* check() lets one request through per window.
LEMMA CheckProbe ==
    ASSUME PInv, NEW t \in Threads, Check(t)
    PROVE  ProbeInv'
  <1> USE DEF shared
  <1>t. /\ local[t] \in 0..MaxTime /\ opened_at \in 0..MaxTime /\ 0 \in 0..MaxTime
        /\ IInv /\ Short(t) /\ Known(t)
    BY BreakerAssumption DEF PInv, IInv, TypeOK
  <1>s. {"check_opened", "check_clock", "check_cas", "recheck_failures", "recheck_opened",
         "give_back"} \subseteq Steps
    BY DEF Steps, CheckSteps
  <1>1. CASE Begin(t, "idle", "check_failures")
    BY <1>1, BeginProbe DEF Outside
  <1>2. CASE CheckLoadFailures(t)
    <2>1. CASE consecutive_failures < Threshold
      BY <1>2, <2>1, ReturnProbe DEF CheckLoadFailures, Admit, Outside
    <2>2. CASE ~(consecutive_failures < Threshold)
      <3>1. /\ Moves(t) /\ pc'[t] = "check_opened" /\ since'[t] = since[t] /\ now' = now
        BY <1>2, <2>2, <1>t, <1>s, GotoProbe DEF CheckLoadFailures, Goto
      <3>2. Short(t)' /\ Known(t)'
        BY <1>2, <1>t, <3>1 DEF CheckLoadFailures, Short, Known, Timed, Freeing, Holders, Outside
      <3> QED BY <1>2, <3>1, <3>2, ReadKeepsProbe DEF CheckLoadFailures, Holders, ProbeInv
    <2> QED BY <2>1, <2>2
  <1>3. CASE CheckLoadOpened(t)
    <2>1. CASE opened_at = 0
      BY <1>3, <2>1, ReturnProbe DEF CheckLoadOpened, Admit, Outside
    <2>2. CASE opened_at # 0
      <3>1. /\ Moves(t) /\ pc'[t] = "check_clock" /\ since'[t] = since[t] /\ now' = now
            /\ local'[t] = opened_at
        BY <1>3, <2>2, <1>t, <1>s, GotoProbe DEF CheckLoadOpened
      <3>2. Short(t)' /\ Known(t)'
        BY <1>3, <1>t, <3>1 DEF CheckLoadOpened, Short, Known, Timed, Freeing, Holders, Outside
      <3> QED BY <1>3, <3>1, <3>2, ReadKeepsProbe DEF CheckLoadOpened, Holders, ProbeInv
    <2> QED BY <2>1, <2>2
  <1>4. CASE CheckClock(t)
    <2>1. CASE Elapsed(local[t]) >= ResetTimeout
      <3>1. /\ Moves(t) /\ pc'[t] = "check_cas" /\ since'[t] = since[t] /\ now' = now
        BY <1>4, <2>1, <1>t, <1>s, GotoProbe DEF CheckClock
      <3>2. local[t] + ResetTimeout <= now
        BY <2>1, <1>t, Times, BreakerAssumption DEF Elapsed
      <3>3. Young(t, opened_at) \/ Expired(opened_at)
        BY <1>4, <1>t, <3>2 DEF CheckClock, Known, Young, Expired
      <3>4. Short(t)' /\ Known(t)'
        BY <1>4, <1>t, <3>1, <3>3
           DEF CheckClock, Short, Known, Timed, Freeing, Holders, Outside, Young, Expired
      <3> QED BY <1>4, <3>1, <3>4, ReadKeepsProbe DEF CheckClock, Holders, ProbeInv
    <2>2. CASE ~(Elapsed(local[t]) >= ResetTimeout)
      BY <1>4, <2>2, ReturnProbe DEF CheckClock, Refuse, Outside
    <2> QED BY <2>1, <2>2
  <1>5. CASE CheckCompareExchange(t)
    <2>1. CASE half_open_probe_sent
      <3>1. half_open_probe_sent' = half_open_probe_sent
        BY <1>5, <2>1, <1>t, Zenon DEF CheckCompareExchange, IInv, TypeOK
      <3> QED BY <1>5, <2>1, <3>1, ReturnProbe DEF CheckCompareExchange, Refuse, Outside
    <2>2. CASE ~half_open_probe_sent
      <3>1. /\ Moves(t) /\ pc'[t] = "recheck_failures" /\ since'[t] = since[t] /\ now' = now
        BY <1>5, <2>2, <1>t, <1>s, GotoProbe DEF CheckCompareExchange, Goto
      <3>2. /\ half_open_probe_sent'
            /\ UNCHANGED <<opened_at, probed>>
        BY <1>5, Zenon DEF CheckCompareExchange
      <3>3. \A u \in Threads : u # t =>
               pc'[u] = pc[u] /\ local'[u] = local[u] /\ since'[u] = since[u]
        BY <3>1, <1>t DEF Moves, IInv, TypeOK
      <3>4. ASSUME NEW u \in Threads PROVE Short(u)' /\ Known(u)'
        <4>1. CASE u = t
          BY <1>5, <1>t, <3>1, <3>2, <4>1
             DEF CheckCompareExchange, Short, Known, Timed, Freeing, Holders, Outside, Young, Expired
        <4>2. CASE u # t
          BY <3>1, <3>2, <3>3, <4>2 DEF PInv, Short, Known, Young, Expired
        <4> QED BY <4>1, <4>2
      <3>5. opened_at \notin probed
        BY <2>2 DEF PInv, OneHolds
      <3>6. Expired(opened_at) => \A u \in Threads : pc[u] \notin Holders
        BY <2>2 DEF PInv, OneHolds
      <3>7. OneHolds'
        BY <3>1, <3>2, <3>3, <3>5, <3>6 DEF PInv, OneHolds, Expired
      <3>8. Unprobed'
        BY <3>1, <3>2, <3>3 DEF PInv, Unprobed, Expired
      <3> QED BY <3>4, <3>7, <3>8 DEF ProbeInv
    <2> QED BY <2>1, <2>2
  <1>6. CASE RecheckLoadFailures(t)
    <2> DEFINE to == IF consecutive_failures < Threshold THEN "give_back" ELSE "recheck_opened"
    <2>1. to \in Steps /\ to # "recheck_clock" /\ to \in Holders
      BY <1>s DEF Holders
    <2>2. /\ Moves(t) /\ pc'[t] = to /\ since'[t] = since[t] /\ now' = now
      BY <1>6, <2>1, <1>t, GotoProbe DEF RecheckLoadFailures, Goto
    <2>3. Short(t)' /\ Known(t)'
      BY <1>6, <1>t, <2>2
         DEF RecheckLoadFailures, Short, Known, Timed, Freeing, Holders, Outside, Young, Expired
    <2> QED BY <1>6, <2>1, <2>2, <2>3, ReadKeepsProbe DEF RecheckLoadFailures, Holders, ProbeInv
  <1>7. CASE RecheckLoadOpened(t)
    <2>1. CASE opened_at = 0
      <3>1. /\ Moves(t) /\ pc'[t] = "give_back" /\ since'[t] = since[t] /\ now' = now
        BY <1>7, <2>1, <1>t, <1>s, GotoProbe DEF RecheckLoadOpened
      <3>2. Short(t)' /\ Known(t)'
        BY <1>7, <1>t, <3>1
           DEF RecheckLoadOpened, Short, Known, Timed, Freeing, Holders, Outside, Young, Expired
      <3> QED BY <1>7, <3>1, <3>2, ReadKeepsProbe DEF RecheckLoadOpened, Holders, ProbeInv
    <2>2. CASE opened_at # 0
      <3>1. /\ Moves(t) /\ pc'[t] = "recheck_clock" /\ now' = now
        BY <1>7, <2>2, <1>t, GotoMoves DEF RecheckLoadOpened, Steps, CheckSteps
      <3>2. local'[t] = opened_at /\ since'[t] = since[t]
        BY <1>7, <1>t DEF RecheckLoadOpened, GotoWith, IInv, TypeOK
      <3>3. \A u \in Threads : u # t =>
               pc'[u] = pc[u] /\ local'[u] = local[u] /\ since'[u] = since[u]
        BY <3>1, <1>t DEF Moves, IInv, TypeOK
      <3>4. UNCHANGED <<opened_at, half_open_probe_sent, probed, now>> /\ pc[t] \in Holders
        BY <1>7, <3>1 DEF RecheckLoadOpened, Holders
      <3>5. ASSUME NEW u \in Threads PROVE Short(u)' /\ Known(u)'
        <4>1. CASE u = t
          BY <1>t, <3>1, <3>2, <3>4, <4>1
             DEF Short, Known, Timed, Freeing, Holders, Outside, Young, Expired
        <4>2. CASE u # t
          BY <3>3, <3>4, <4>2 DEF PInv, Short, Known, Young, Expired
        <4> QED BY <4>1, <4>2
      <3>6. OneHolds'
        <4>1. \A u \in Threads : pc'[u] \in Holders => pc[u] \in Holders
          BY <3>3, <3>4
        <4> QED BY <3>4, <4>1 DEF PInv, OneHolds, Expired
      <3>7. opened_at \notin probed
        BY <3>4 DEF PInv, OneHolds
      <3>8. Expired(opened_at) => \A u \in Threads : pc[u] = "recheck_clock" => u = t
        BY <3>4 DEF PInv, OneHolds, Holders
      <3>9. Unprobed'
        <4> SUFFICES ASSUME NEW u \in Threads, pc'[u] = "recheck_clock", Expired(local[u])'
                     PROVE  /\ local'[u] \notin probed
                            /\ \A v \in Threads :
                                  pc'[v] = "recheck_clock" /\ local'[v] = local'[u] => u = v
          BY <3>4 DEF Unprobed
        <4>1. CASE u = t
          BY <3>2, <3>3, <3>4, <3>7, <3>8, <4>1 DEF Expired
        <4>2. CASE u # t
          <5>1. Expired(local[u]) /\ pc[u] = "recheck_clock" /\ local'[u] = local[u]
            BY <3>3, <3>4, <4>2 DEF Expired
          <5>2. local[u] # opened_at
            BY <3>8, <4>2, <5>1
          <5> QED BY <3>2, <3>3, <5>1, <5>2 DEF PInv, Unprobed
        <4> QED BY <4>1, <4>2
      <3> QED BY <3>5, <3>6, <3>9 DEF ProbeInv
    <2> QED BY <2>1, <2>2
  <1>8. CASE RecheckClock(t)
    <2>1. CASE Elapsed(local[t]) >= ResetTimeout
      <3>1. /\ Moves(t) /\ pc'[t] = "in_flight" /\ now' = now
        BY <1>8, <2>1, <1>t, ReturnMoves DEF RecheckClock, Admit, Outside
      <3>2. /\ UNCHANGED <<opened_at, half_open_probe_sent>> /\ pc[t] = "recheck_clock"
            /\ probed' = probed \cup {local[t]}
        BY <1>8, <2>1 DEF RecheckClock
      <3>3. local[t] # 0 /\ local[t] + ResetTimeout <= now /\ Expired(local[t])
        BY <3>2, <2>1, <1>t, Times, BreakerAssumption DEF Elapsed, Expired, IInv, OpenedWasRead
      <3>4. \A u \in Threads : u # t =>
               pc'[u] = pc[u] /\ local'[u] = local[u] /\ since'[u] = since[u]
        BY <3>1, <1>t DEF Moves, IInv, TypeOK
      <3>5. ASSUME NEW u \in Threads PROVE Short(u)' /\ Known(u)'
        <4>1. CASE u = t
          BY <3>1, <4>1 DEF Short, Known, Timed, Freeing, Holders, Outside
        <4>2. CASE u # t
          BY <3>1, <3>2, <3>4, <4>2 DEF PInv, Short, Known, Young, Expired
        <4> QED BY <4>1, <4>2
      <3>6. \A u \in Threads : pc'[u] \in Holders => pc[u] \in Holders /\ u # t
        BY <3>1, <3>4 DEF Holders
      <3>7. opened_at \notin probed /\ pc[t] \in Holders
        BY <3>2 DEF PInv, OneHolds, Holders
      <3>8. OneHolds'
        BY <3>1, <3>2, <3>3, <3>6, <3>7 DEF PInv, OneHolds, Expired
      <3>9. Unprobed'
        BY <3>1, <3>2, <3>3, <3>4 DEF PInv, Unprobed, Expired
      <3> QED BY <3>5, <3>8, <3>9 DEF ProbeInv
    <2>2. CASE ~(Elapsed(local[t]) >= ResetTimeout)
      <3>1. /\ Moves(t) /\ pc'[t] = "give_back" /\ since'[t] = since[t] /\ now' = now
        BY <1>8, <2>2, <1>t, <1>s, GotoProbe DEF RecheckClock, Goto
      <3>2. Short(t)' /\ Known(t)'
        BY <1>8, <2>2, <1>t, <3>1
           DEF RecheckClock, Short, Known, Timed, Freeing, Holders, Outside, Young, Expired
      <3> QED BY <1>8, <2>2, <3>1, <3>2, ReadKeepsProbe DEF RecheckClock, Holders, ProbeInv
    <2> QED BY <2>1, <2>2
  <1>9. CASE GiveProbeBack(t)
    <2>1. Moves(t) /\ now' = now /\ pc'[t] = "idle"
      BY <1>9, <1>t, ReturnMoves DEF GiveProbeBack, Refuse, Outside
    <2> QED BY <1>9, <2>1, FreeKeepsProbe DEF GiveProbeBack, Outside, ProbeInv
  <1> QED BY <1>1, <1>2, <1>3, <1>4, <1>5, <1>6, <1>7, <1>8, <1>9 DEF Check

\* record_success() and reset() clear the window before they clear the flag.
LEMMA ClearProbeInv ==
    ASSUME PInv, NEW t \in Threads,
           NEW from \in {"success_failures", "success_opened", "success_probe",
                         "reset_failures", "reset_opened", "reset_probe"},
           NEW to \in {"success_opened", "success_probe", "reset_opened", "reset_probe"},
           \/ ClearFailures(t, from, to) /\ to \in {"success_opened", "reset_opened"}
           \/ ClearOpened(t, from, to)
           \/ ClearProbe(t, from) /\ from \in {"success_probe", "reset_probe"}
    PROVE  ProbeInv'
  <1>t. /\ local[t] \in 0..MaxTime /\ IInv /\ Short(t) /\ Known(t)
    BY DEF PInv, IInv, TypeOK
  <1>s. to \in Steps /\ to # "recheck_clock" /\ to \notin Holders /\ to \notin Timed
        /\ from \notin Outside
    BY DEF Steps, SuccessSteps, ResetSteps, Holders, Timed, Outside
  <1>1. CASE ClearFailures(t, from, to) /\ to \in {"success_opened", "reset_opened"}
    <2>1. Moves(t) /\ pc'[t] = to /\ since'[t] = since[t] /\ now' = now /\ to \notin Outside
      BY <1>1, <1>t, <1>s, GotoProbe DEF ClearFailures, Goto
    <2>2. Short(t)' /\ Known(t)'
      BY <1>1, <1>t, <1>s, <2>1 DEF ClearFailures, Short, Known, Freeing, Holders
    <2> QED BY <1>1, <1>s, <2>1, <2>2, ReadKeepsProbe DEF ClearFailures, ProbeInv
  <1>2. CASE ClearOpened(t, from, to)
    <2>1. Moves(t) /\ pc'[t] = to /\ since'[t] = since[t] /\ now' = now /\ to \notin Outside
      BY <1>2, <1>t, <1>s, GotoProbe DEF ClearOpened, Goto
    <2>2. Short(t)'
      BY <1>2, <1>t, <1>s, <2>1 DEF ClearOpened, Short
    <2> QED BY <1>2, <1>s, <2>1, <2>2, StoreKeepsProbe DEF ClearOpened, ProbeInv
  <1>3. CASE ClearProbe(t, from) /\ from \in {"success_probe", "reset_probe"}
    <2>1. Moves(t) /\ now' = now /\ pc'[t] = "idle"
      BY <1>3, <1>t, ReturnMoves DEF ClearProbe, Outside
    <2> QED BY <1>3, <2>1, FreeKeepsProbe DEF ClearProbe, Outside, Freeing, ProbeInv
  <1> QED BY <1>1, <1>2, <1>3

\* Every step of the two.
LEMMA SuccessProbe ==
    ASSUME PInv, NEW t \in Threads, RecordSuccess(t) \/ Reset(t)
    PROVE  ProbeInv'
  <1>1. CASE Begin(t, "in_flight", "success_failures") \/ Begin(t, "idle", "reset_failures")
    BY <1>1, BeginProbe DEF Outside
  <1>2. CASE \/ ClearFailures(t, "success_failures", "success_opened")
             \/ ClearFailures(t, "reset_failures", "reset_opened")
    BY <1>2, ClearProbeInv
  <1>3. CASE \/ ClearOpened(t, "success_opened", "success_probe")
             \/ ClearOpened(t, "reset_opened", "reset_probe")
    BY <1>3, ClearProbeInv
  <1>4. CASE ClearProbe(t, "success_probe") \/ ClearProbe(t, "reset_probe")
    BY <1>4, ClearProbeInv
  <1> QED BY <1>1, <1>2, <1>3, <1>4 DEF RecordSuccess, Reset

\* record_failure() stores a window that starts in its own call.
LEMMA FailureProbe ==
    ASSUME PInv, NEW t \in Threads, RecordFailure(t)
    PROVE  ProbeInv'
  <1> USE DEF shared
  <1>t. /\ local[t] \in 0..MaxTime /\ now \in 0..MaxTime /\ IInv /\ Short(t) /\ Known(t)
    BY BreakerAssumption DEF PInv, IInv, TypeOK
  <1>s. {"failure_clock", "failure_cas", "failure_free", "failure_probe", "failure_rearm",
         "failure_release"} \subseteq Steps
    BY DEF Steps, FailureSteps
  <1>1. CASE Begin(t, "in_flight", "failure_count")
    BY <1>1, BeginProbe DEF Outside
  <1>2. CASE FailureCount(t)
    <2>1. CASE consecutive_failures' >= Threshold
      <3>1. Moves(t) /\ pc'[t] = "failure_clock" /\ since'[t] = since[t] /\ now' = now
        BY <1>2, <2>1, <1>t, <1>s, GotoProbe DEF FailureCount, Goto
      <3>2. Short(t)' /\ Known(t)'
        BY <1>2, <1>t, <3>1 DEF FailureCount, Short, Known, Timed, Freeing, Holders, Outside
      <3> QED BY <1>2, <3>1, <3>2, ReadKeepsProbe DEF FailureCount, Holders, ProbeInv
    <2>2. CASE ~(consecutive_failures' >= Threshold)
      BY <1>2, <2>2, ReturnProbe DEF FailureCount, FailureDone, Outside
    <2> QED BY <2>1, <2>2
  <1>3. CASE FailureClock(t)
    <2>1. Moves(t) /\ pc'[t] = "failure_cas" /\ since'[t] = since[t] /\ now' = now /\ local'[t] = now
      BY <1>3, <1>t, <1>s, GotoProbe DEF FailureClock
    <2>2. Short(t)' /\ Known(t)'
      BY <1>3, <1>t, <2>1, Times DEF FailureClock, Short, Known, Timed, Freeing, Holders, Outside
    <2> QED BY <1>3, <2>1, <2>2, ReadKeepsProbe DEF FailureClock, Holders, ProbeInv
  <1>4. CASE FailureCompareExchange(t)
    <2>1. CASE opened_at = 0
      <3>1. /\ Moves(t) /\ pc'[t] = "failure_free" /\ since'[t] = since[t] /\ now' = now
            /\ local'[t] = local[t] /\ opened_at' = local[t]
        BY <1>4, <2>1, <1>t, <1>s, GotoProbe DEF FailureCompareExchange, Goto
      <3>2. Short(t)'
        BY <1>4, <1>t, <3>1 DEF FailureCompareExchange, Short, Timed, Outside
      <3> QED BY <1>4, <3>1, <3>2, StoreKeepsProbe
              DEF FailureCompareExchange, Timed, Outside, Holders, ProbeInv
    <2>2. CASE opened_at # 0
      <3>1. /\ Moves(t) /\ pc'[t] = "failure_probe" /\ since'[t] = since[t] /\ now' = now
            /\ local'[t] = local[t] /\ opened_at' = opened_at
        BY <1>4, <2>2, <1>t, <1>s, GotoProbe DEF FailureCompareExchange, Goto
      <3>2. Short(t)' /\ Known(t)'
        BY <1>4, <1>t, <3>1 DEF FailureCompareExchange, Short, Known, Timed, Freeing, Holders, Outside
      <3> QED BY <1>4, <3>1, <3>2, ReadKeepsProbe DEF FailureCompareExchange, Holders, ProbeInv
    <2> QED BY <2>1, <2>2
  <1>5. CASE FailureLoadProbe(t)
    <2>1. CASE half_open_probe_sent
      <3>1. /\ Moves(t) /\ pc'[t] = "failure_rearm" /\ since'[t] = since[t] /\ now' = now
            /\ local'[t] = local[t]
        BY <1>5, <2>1, <1>t, <1>s, GotoProbe DEF FailureLoadProbe, Goto
      <3>2. Short(t)' /\ Known(t)'
        BY <1>5, <1>t, <3>1 DEF FailureLoadProbe, Short, Known, Timed, Freeing, Holders, Outside
      <3> QED BY <1>5, <3>1, <3>2, ReadKeepsProbe DEF FailureLoadProbe, Holders, ProbeInv
    <2>2. CASE ~half_open_probe_sent
      BY <1>5, <2>2, ReturnProbe DEF FailureLoadProbe, FailureDone, Outside
    <2> QED BY <2>1, <2>2
  <1>6. CASE FailureRearm(t)
    <2>1. /\ Moves(t) /\ pc'[t] = "failure_release" /\ since'[t] = since[t] /\ now' = now
          /\ local'[t] = local[t] /\ opened_at' = local[t]
      BY <1>6, <1>t, <1>s, GotoProbe DEF FailureRearm, Goto
    <2>2. Short(t)'
      BY <1>6, <1>t, <2>1 DEF FailureRearm, Short, Timed, Outside
    <2> QED BY <1>6, <2>1, <2>2, StoreKeepsProbe DEF FailureRearm, Timed, Outside, Holders, ProbeInv
  <1>7. CASE FailureFreeProbe(t)
    <2>1. Moves(t) /\ now' = now /\ pc'[t] = "idle"
      BY <1>7, <1>t, ReturnMoves DEF FailureFreeProbe, FailureDone, Outside
    <2> QED BY <1>7, <2>1, FreeKeepsProbe DEF FailureFreeProbe, Outside, Freeing, ProbeInv
  <1> QED BY <1>1, <1>2, <1>3, <1>4, <1>5, <1>6, <1>7 DEF RecordFailure

\* A window that expires has neither a holder nor a probe.
LEMMA TickProbe ==
    ASSUME PInv, Tick
    PROVE  ProbeInv'
  <1>1. /\ now' = now + 1
        /\ UNCHANGED <<opened_at, half_open_probe_sent, pc, local, since, probed>>
        /\ \A t \in Threads : pc[t] \notin Outside => now + 1 - since[t] <= MaxStall
    BY DEF Tick, shared
  <1>2. ASSUME NEW w \in Nat, Expired(w) PROVE Expired(w)'
    BY <1>1, <1>2, Times DEF PInv, Expired
  <1>3. ASSUME NEW t \in Threads, NEW w \in Nat, pc[t] \notin Outside, Young(t, w)
        PROVE  ~Expired(w)' /\ Young(t, w)'
    BY <1>1, <1>3, Times DEF PInv, Expired, Young
  <1>4. ASSUME NEW t \in Threads PROVE Short(t)' /\ Known(t)'
    <2>1. Short(t)'
      BY <1>1, Times DEF PInv, Short
    <2>2. Known(t)'
      BY <1>1, <1>2, Times DEF PInv, Known, Young
    <2> QED BY <2>1, <2>2
  <1>5. ASSUME NEW t \in Threads, pc[t] \in Holders, Expired(opened_at)' PROVE Expired(opened_at)
    <2>1. Young(t, opened_at) \/ Expired(opened_at)
      BY <1>5 DEF PInv, Known
    <2>2. pc[t] \notin Outside /\ opened_at \in Nat /\ opened_at' = opened_at
      BY <1>1, <1>5, Times DEF PInv, Holders, Outside
    <2> QED BY <1>3, <1>5, <2>1, <2>2, Times DEF PInv, Expired, Young
  <1>6. OneHolds'
    <2>1. \A w \in probed : w + ResetTimeout <= now'
      BY <1>1, Times DEF PInv, OneHolds
    <2> QED BY <1>1, <1>5, <2>1 DEF PInv, OneHolds
  <1>7. ASSUME NEW t \in Threads, pc[t] = "recheck_clock", Expired(local[t])'
        PROVE  Expired(local[t])
    <2>1. Young(t, local[t]) \/ Expired(local[t])
      BY <1>7 DEF PInv, Known
    <2>2. pc[t] \notin Outside /\ local[t] \in Nat /\ local'[t] = local[t]
      BY <1>1, <1>7, Times DEF PInv, Outside
    <2> QED BY <1>3, <1>7, <2>1, <2>2, Times DEF PInv, Expired, Young
  <1>8. Unprobed'
    BY <1>1, <1>7 DEF PInv, Unprobed
  <1> QED BY <1>4, <1>6, <1>8 DEF ProbeInv

\* The invariant holds at first,
LEMMA InitProbe == Init => PInv
  <1> SUFFICES ASSUME Init PROVE PInv
    OBVIOUS
  <1>1. \A t \in Threads : pc[t] = "idle"
    BY DEF Init
  <1>2. \A t \in Threads : Short(t) /\ Known(t)
    BY <1>1 DEF Short, Known, Outside, Timed, Freeing, Holders
  <1>3. OneHolds /\ Unprobed
    BY <1>1 DEF Init, OneHolds, Unprobed, Holders
  <1> QED BY <1>2, <1>3, InitInv DEF PInv

\* and every step keeps it.
LEMMA NextProbe == PInv /\ [Next]_vars => PInv'
  <1> SUFFICES ASSUME PInv, [Next]_vars PROVE PInv'
    OBVIOUS
  <1>1. IInv'
    BY NextInv DEF PInv
  <1>2. CASE Next
    <2>1. ProbeInv'
      BY <1>2, CheckProbe, SuccessProbe, FailureProbe, TickProbe DEF Next
    <2> QED BY <1>1, <2>1 DEF PInv, ProbeInv
  <1>3. CASE UNCHANGED vars
    <2>1. \A t \in Threads : Short(t)' /\ Known(t)'
      BY <1>3 DEF PInv, vars, shared, Short, Known, Young, Expired
    <2>2. OneHolds' /\ Unprobed'
      BY <1>3 DEF PInv, vars, shared, OneHolds, Unprobed, Expired
    <2> QED BY <1>1, <2>1, <2>2 DEF PInv
  <1> QED BY <1>2, <1>3

\* Only its own call moves a thread, and out of the second clock reading only there.
LEMMA OnlyItself ==
    ASSUME PInv, Next, NEW t \in Threads, pc[t] = "recheck_clock", pc'[t] # pc[t]
    PROVE  RecheckClock(t)
  <1>t. pc \in [Threads -> Outside \cup CheckSteps \cup SuccessSteps \cup FailureSteps \cup ResetSteps]
    BY DEF PInv, IInv, TypeOK
  <1>1. ~Tick
    BY DEF Tick
  <1>2. PICK u \in Threads : Check(u) \/ RecordSuccess(u) \/ RecordFailure(u) \/ Reset(u)
    BY <1>1 DEF Next
  <1>3. CASE u = t
    BY <1>2, <1>3 DEF Check, RecordSuccess, RecordFailure, Reset, Begin, ClearFailures, ClearOpened,
          ClearProbe, CheckLoadFailures, CheckLoadOpened, CheckClock, CheckCompareExchange,
          RecheckLoadFailures, RecheckLoadOpened, GiveProbeBack, FailureCount, FailureClock,
          FailureCompareExchange, FailureLoadProbe, FailureRearm, FailureFreeProbe
  <1>4. CASE u # t
    <2> USE DEF Goto, GotoWith, Return, Admit, Refuse
    <2>1. CASE Check(u)
      BY <1>t, <1>4, <2>1 DEF Check, Begin, CheckLoadFailures, CheckLoadOpened, CheckClock,
            CheckCompareExchange, RecheckLoadFailures, RecheckLoadOpened, RecheckClock, GiveProbeBack
    <2>2. CASE RecordSuccess(u) \/ Reset(u)
      BY <1>t, <1>4, <2>2 DEF RecordSuccess, Reset, Begin, ClearFailures, ClearOpened, ClearProbe
    <2>3. CASE RecordFailure(u)
      BY <1>t, <1>4, <2>3 DEF RecordFailure, Begin, FailureCount, FailureClock, FailureDone,
            FailureCompareExchange, FailureLoadProbe, FailureRearm, FailureFreeProbe
    <2> QED BY <1>2, <2>1, <2>2, <2>3
  <1> QED BY <1>3, <1>4

\* A probe let through finds its window unprobed.
LEMMA ProbeIsFirst ==
    ASSUME PInv, [Next]_vars, NEW t \in Threads, pc[t] = "recheck_clock", pc'[t] = "in_flight"
    PROVE  local[t] \notin probed
  <1>1. Next
    BY DEF vars
  <1>2. RecheckClock(t)
    BY <1>1, OnlyItself
  <1>3. Elapsed(local[t]) >= ResetTimeout
    <2> SUFFICES ASSUME ~(Elapsed(local[t]) >= ResetTimeout) PROVE FALSE
      OBVIOUS
    <2>1. pc'[t] = "give_back"
      BY <1>2 DEF RecheckClock, Goto, GotoWith, PInv, IInv, TypeOK
    <2> QED BY <2>1
  <1>4. Expired(local[t])
    BY <1>3, Times, BreakerAssumption DEF PInv, IInv, OpenedWasRead, Elapsed, Expired
  <1> QED BY <1>4 DEF PInv, Unprobed

\* For any number of threads, as long as no call of the breaker takes half a reset
\* timeout: check() lets at most one probe through per open window, whatever the other
\* threads record or reset meanwhile.
THEOREM OneProbe == Spec => OneProbePerWindow
  <1>1. PInv /\ [Next]_vars =>
          [\A t \in Threads :
              (pc[t] = "recheck_clock" /\ pc'[t] = "in_flight") => local[t] \notin probed]_vars
    BY ProbeIsFirst
  <1>2. Spec => []PInv
    BY InitProbe, NextProbe, PTL DEF Spec
  <1> QED BY <1>1, <1>2, PTL DEF Spec, OneProbePerWindow
=============================================================================
