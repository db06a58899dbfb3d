------------------------------ MODULE OrderGate ------------------------------
(***************************************************************************)
(* The order path behind its budget (crates/trading/src/oms/engine.rs):    *)
(* place_order, modify_order and cancel_order ask OrderBudget before they  *)
(* ask the breaker, and clear_order_halt resets both.                      *)
(***************************************************************************)
EXTENDS OrderPath, OrderBudget

gate_vars == <<vars, budget_vars>>

\* The budget is charged first: a call that the per-second limiter or the
\* breaker then refuses has been paid for all the same.
BeginCall ==
    /\ At("Idle")
    /\ Admit
    /\ UNCHANGED vars \/ \E endpoint \in Endpoint : Begin(endpoint)

\* A full tier: the call returns before it reaches the breaker.
RefuseCall ==
    /\ At("Idle")
    /\ Refuse
    /\ UNCHANGED vars

clear_order_halt == ClearOrderHalt /\ reset_daily

\* What a call does behind the gates, and what goes on around it.
OnPath(step) == step /\ UNCHANGED budget_vars

Clock == Tick /\ UNCHANGED vars

GateInit == Init /\ BudgetInit

GateNext ==
    \/ BeginCall
    \/ RefuseCall
    \/ clear_order_halt
    \/ OnPath(Steps)
    \/ OnPath(ResetDaily)
    \/ OnPath(ReadinessProbe)
    \/ OnPath(WindowElapses)
    \/ OnPath(CooldownExpires)
    \/ Clock

GateSpec == GateInit /\ [][GateNext]_gate_vars

\* As FairSpec: a call that has begun goes on, windows and cooldowns end.
FairGateSpec ==
    /\ GateSpec
    /\ WF_gate_vars(OnPath(Steps))
    /\ WF_gate_vars(OnPath(WindowElapses))
    /\ WF_gate_vars(OnPath(CooldownExpires))
=============================================================================
