----------------------------- MODULE OrderBudget -----------------------------
(***************************************************************************)
(* The broker's order ceilings (crates/trading/src/oms/rate_limiter.rs):   *)
(* one fixed-window counter per tier (minute, hour, day), asked in that    *)
(* order, before every order call.                                         *)
(*                                                                         *)
(* Times are epoch seconds: they are large, so a window that starts at 0   *)
(* (a new or a reset tier) has always expired.                             *)
(***************************************************************************)
EXTENDS Integers, Sequences, FiniteSets

CONSTANTS
    Limit,      \* the ceiling of each tier, shortest window first
    Window,     \* the seconds of each tier's window
    MaxTime     \* bound of the clock

Tiers == 1..Len(Window)

Start == Window[Len(Window)]  \* a time at which every window from 0 has expired

ASSUME BudgetAssumption ==
    /\ Limit \in Seq(Nat \ {0}) /\ Window \in Seq(Nat \ {0})
    /\ Len(Limit) = Len(Window) /\ Len(Window) > 0
    /\ \A i, j \in Tiers : i < j => Window[i] < Window[j]
    /\ MaxTime \in Nat /\ MaxTime >= Start

VARIABLES
    now,
    tier,      \* [used, window_start] of each tier
    admitted,  \* the times of the calls admitted since the last reset
    verdict    \* what the last try_consume said

budget_vars == <<now, tier, admitted, verdict>>

-----------------------------------------------------------------------------

\* Fault: an expired window is emptied but keeps its start.
FaultKeepStart(t, i) ==
    IF now - t.window_start >= Window[i] THEN [t EXCEPT !.used = 0] ELSE t

\* would_admit: a window that has expired starts anew.
Rolled(t, i) ==
    IF now - t.window_start >= Window[i] THEN [used |-> 0, window_start |-> now] ELSE t

\* Fault: one call over the limit.
FaultOneOver(i) == Rolled(tier[i], i).used <= Limit[i]

HasRoom(i) == Rolled(tier[i], i).used < Limit[i]

\* try_consume asks the tiers in order and stops at the first that is full;
\* the tiers it asked are rolled forward either way.
Asked == {i \in Tiers : \A j \in Tiers : j < i => HasRoom(j)}

Consumed(t) == [t EXCEPT !.used = @ + 1]

Admit ==
    /\ \A i \in Tiers : HasRoom(i)
    /\ tier' = [i \in Tiers |-> Consumed(Rolled(tier[i], i))]
    /\ admitted' = Append(admitted, now)
    /\ verdict' = "admitted"
    /\ UNCHANGED now

\* Fault: the tiers with room are charged for a call that is then refused.
FaultChargeRefused ==
    /\ \E i \in Tiers : ~HasRoom(i)
    /\ tier' = [i \in Tiers |-> IF i \in Asked /\ HasRoom(i) THEN Consumed(Rolled(tier[i], i))
                                ELSE Rolled(tier[i], i)]
    /\ verdict' = "refused"
    /\ UNCHANGED <<now, admitted>>

Refuse ==
    /\ \E i \in Tiers : ~HasRoom(i)
    /\ tier' = [i \in Tiers |-> IF i \in Asked THEN Rolled(tier[i], i) ELSE tier[i]]
    /\ verdict' = "refused"
    /\ UNCHANGED <<now, admitted>>

\* clear_order_halt empties the budget too (not the engine's daily reset).
reset_daily ==
    /\ tier' = [i \in Tiers |-> [used |-> 0, window_start |-> 0]]
    /\ admitted' = <<>>
    /\ verdict' = "none"
    /\ UNCHANGED now

Tick ==
    /\ now < MaxTime
    /\ now' = now + 1
    /\ verdict' = "none"
    /\ UNCHANGED <<tier, admitted>>

BudgetInit ==
    /\ now = Start
    /\ tier = [i \in Tiers |-> [used |-> 0, window_start |-> 0]]
    /\ admitted = <<>>
    /\ verdict = "none"

BudgetNext == Admit \/ Refuse \/ reset_daily \/ Tick

BudgetSpec == BudgetInit /\ [][BudgetNext]_budget_vars

-----------------------------------------------------------------------------
(* Properties.                                                             *)

\* Calls admitted in the last so many seconds, since the last reset.
AdmittedWithin(seconds) == Cardinality({k \in DOMAIN admitted : admitted[k] > now - seconds})

\* The type invariant.
BudgetTypeOK ==
    /\ now \in Start..MaxTime
    /\ tier \in [Tiers -> [used : Nat, window_start : 0..MaxTime]]
    /\ \A i \in Tiers : tier[i].used <= Limit[i]
    /\ admitted \in Seq(Start..MaxTime)
    /\ verdict \in {"none", "admitted", "refused"}

\* The documented cost of a fixed window, for every tier at once and with the
\* tiers refusing at different times: no interval as long as a window holds
\* more than twice the tier's limit.
AtMostTwiceTheLimit ==
    \A i \in Tiers : AdmittedWithin(Window[i]) <= 2 * Limit[i]

\* A refused call costs nothing: a client that retries into a full minute does
\* not exhaust its hour ("Consumption is ALL-OR-NOTHING").
RefusalsAreFree ==
    [][verdict' = "refused" =>
          \A i \in Tiers : tier'[i].used <= tier[i].used]_budget_vars
=============================================================================
