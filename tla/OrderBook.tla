------------------------------ MODULE OrderBook ------------------------------
(***************************************************************************)
(* The order book of the OMS in live mode, and the lots of the risk book   *)
(* it feeds (crates/trading/src/oms/engine.rs, reconciliation.rs and       *)
(* state_machine.rs, crates/app/src/order_runtime.rs).                     *)
(*                                                                         *)
(* The engine learns what the broker did with an order in three ways: the  *)
(* REST response to place_order, order updates pushed over a WebSocket and *)
(* the REST snapshot that reconcile() fetches.  Updates can be lost (a     *)
(* disconnect, a lagging broadcast receiver), repeated and delivered out   *)
(* of order, and a snapshot can be older than what the engine already      *)
(* knows.  Both are modelled alike: the broker keeps the set of states it  *)
(* has ever reported of an order, and a message carries ANY member of it,  *)
(* at any time, any number of times or never.                              *)
(*                                                                         *)
(* Every method takes &mut self, so one call of the engine is one action.  *)
(*                                                                         *)
(* Abstractions.  A quantity is a number of units; a price is only what    *)
(* the code decides from it: whether a fill slice is bookable (its delta   *)
(* price is finite and positive, its segment is known) and whether REST    *)
(* and local average prices agree.  An order is named by the id of its     *)
(* placement response, and a broker number or a correlation id belongs to  *)
(* one order: order_no_aliases is a set of pairs, the CorrelationTracker   *)
(* the set of orders it leads to.                                          *)
(* The risk book is kept per order (the code sums it per security).        *)
(***************************************************************************)
EXTENDS Integers, FiniteSets

CONSTANTS
    Orders,          \* the placements of the model
    Numbers,         \* other order numbers the broker may report an order under
    Quantity,        \* units of each order
    LotSize,         \* units of a lot
    MaxOrders,       \* MAX_TRACKED_ORDERS
    MaxAliases,      \* MAX_TRACKED_ORDER_ALIASES
    MaxCorrelations  \* MAX_TRACKED_CORRELATIONS

ASSUME ConstantsAssumption ==
    /\ Numbers \cap {"own", "none"} = {}
    /\ Quantity \in Nat \ {0}
    /\ LotSize \in Nat \ {0}
    /\ MaxOrders \in Nat
    /\ MaxAliases \in Nat
    /\ MaxCorrelations \in Nat

VARIABLES
    broker,        \* what the broker holds of each order (external)
    reported,      \* the states the broker has reported of each order (external)
    orders,        \* OrderManagementSystem.orders
    aliases,       \* the entries <<order, number>> of order_no_aliases
    correlations,  \* orders with an entry in the CorrelationTracker
    booked,        \* lots each order has put into the risk book
    swallowed,     \* orders of which some lots were reported as not booked
    told           \* tracked orders of which an update with a terminal status was
                   \* handled (history only, no guard reads it)

book_vars == <<broker, reported, orders, aliases, correlations, booked, swallowed, told>>

-----------------------------------------------------------------------------
(* Order statuses (types.rs, state_machine.rs).                            *)

Terminal == {"Traded", "Cancelled", "Rejected", "Expired", "Closed"}

OrderStatus == {"Transit", "Pending", "Confirmed", "PartTraded", "Triggered"} \cup Terminal

is_terminal(order) == order.status \in Terminal

is_valid_transition(from, to) ==
    \/ from = "Transit"    /\ to \in {"Pending", "Rejected"}
    \/ from = "Pending"    /\ to \in Terminal \cup {"Confirmed", "PartTraded"}
    \/ from = "Confirmed"  /\ to \in {"PartTraded", "Traded", "Cancelled", "Expired", "Closed"}
    \/ from = "PartTraded" /\ to \in {"Traded", "Cancelled", "Expired", "Closed"}
    \/ from = "Triggered"  /\ to \in {"Pending", "Traded", "Cancelled", "Rejected", "Closed"}

-----------------------------------------------------------------------------
(* The broker.  External: it moves an order along the lifecycle the state  *)
(* machine describes, its filled quantity only grows, and a terminal order *)
(* stays as it is.                                                         *)

Report == [status : OrderStatus, qty : 0..Quantity]

NotPlaced == [status |-> "NotPlaced", qty |-> 0]

\* A quantity the broker may report together with a status.
Consistent(r) ==
    CASE r.status = "Traded"     -> r.qty = Quantity
      [] r.status = "PartTraded" -> 0 < r.qty /\ r.qty < Quantity
      [] r.status \in {"Cancelled", "Expired", "Closed"} -> TRUE
      [] OTHER                   -> r.qty = 0

\* The broker may answer a placement with any status: TRADED and REJECTED can
\* come at once, and the quantity is then already filled.
BrokerAccepts(o, r) ==
    /\ broker[o] = NotPlaced
    /\ Consistent(r)
    /\ broker'   = [broker EXCEPT ![o] = r]
    /\ reported' = [reported EXCEPT ![o] = {r}]

BrokerStep(o) ==
    \E r \in Report :
        /\ broker[o] # NotPlaced
        /\ Consistent(r)
        /\ r.qty >= broker[o].qty
        /\ \/ is_valid_transition(broker[o].status, r.status)
           \/ r.status = "PartTraded" /\ broker[o].status = "PartTraded" /\ r.qty > broker[o].qty
        /\ r.status \in {"Cancelled", "Expired", "Closed"} => r.qty = broker[o].qty
        /\ broker'   = [broker EXCEPT ![o] = r]
        /\ reported' = [reported EXCEPT ![o] = @ \cup {r}]
        /\ UNCHANGED <<orders, aliases, correlations, booked, swallowed, told>>

-----------------------------------------------------------------------------
(* Fills.                                                                  *)

Lots(qty) == qty \div LotSize

\* Fault: each slice is floored by itself, so off-lot remainders are dropped.
FaultFloorPerSlice(order, qty) ==
    IF qty > order.qty THEN Lots(qty - order.qty) ELSE 0

\* extract_fill_delta: lots are the difference of the floored cumulatives.
extract_fill_delta(order, qty) ==
    IF qty > order.qty THEN Lots(qty) - Lots(order.qty) ELSE 0

\* Fault: the quantity is copied even when it regresses.
FaultCopyRegressing(order, qty) ==
    [order EXCEPT !.qty = qty]

\* apply_fill_fields: a regressing quantity is not copied.
apply_fill_fields(order, qty) ==
    [order EXCEPT !.qty = IF qty >= @ THEN qty ELSE @]

\* A FillEvent reaches the risk book (apply_fill) unless its delta price or
\* its segment is refused, which is logged; the quantity copy advances anyway.
BookFill(o, lots, bookable) ==
    /\ booked'    = [booked EXCEPT ![o] = @ + IF bookable THEN lots ELSE 0]
    /\ swallowed' = IF lots > 0 /\ ~bookable THEN swallowed \cup {o} ELSE swallowed

NoFill == UNCHANGED <<booked, swallowed>>

-----------------------------------------------------------------------------
(* Operations of the engine.                                               *)

HasCapacity == Cardinality(DOMAIN orders) < MaxOrders

NewOrder(status) == [status |-> status, qty |-> 0, needs_reconciliation |-> FALSE]

Track(o, order) == [x \in DOMAIN orders \cup {o} |-> IF x = o THEN order ELSE orders[x]]

\* The status of the placement response; one the engine cannot parse is Transit.
resolve_initial_status(status, parsed) == IF parsed THEN status ELSE "Transit"

\* The response carries a status and no quantity: a record starts at quantity 0
\* even when it starts as traded.
PlaceOrder(o, r, parsed) ==
    /\ HasCapacity
    /\ BrokerAccepts(o, r)
    /\ orders' = Track(o, NewOrder(resolve_initial_status(r.status, parsed)))
    /\ correlations' = IF Cardinality(correlations) < MaxCorrelations
                       THEN correlations \cup {o} ELSE correlations
    /\ UNCHANGED <<aliases, booked, swallowed, told>>

\* The broker accepted the order but the response was lost: the call returns
\* the error and the engine tracks nothing.
PlaceOrderUnanswered(o, r) ==
    /\ HasCapacity
    /\ BrokerAccepts(o, r)
    /\ UNCHANGED <<orders, aliases, correlations, booked, swallowed, told>>

\* A cancel only asks: the status follows from an update or a reconcile.
CancelOrder(o) ==
    /\ o \in DOMAIN orders
    /\ ~is_terminal(orders[o])
    /\ HasCapacity
    /\ orders' = [orders EXCEPT ![o].needs_reconciliation = TRUE]
    /\ UNCHANGED <<broker, reported, aliases, correlations, booked, swallowed, told>>

\* The update carries an order number (the order's own id, another one, or
\* none) and may carry the correlation id; the order is looked up by each.
Resolves(o, number, correlated) ==
    /\ o \in DOMAIN orders
    /\ \/ number = "own"
       \/ <<o, number>> \in aliases
       \/ correlated /\ o \in correlations

\* A refused alias (the table is full) does not abort the update.
RecordAlias(o, number) ==
    aliases' = IF number \in Numbers /\ Cardinality(aliases) < MaxAliases
               THEN aliases \cup {<<o, number>>} ELSE aliases

Flag(order) == [order EXCEPT !.needs_reconciliation = TRUE]

UpdateUnknownStatus(o) ==
    /\ orders' = [orders EXCEPT ![o] = Flag(@)]
    /\ NoFill

\* Fault: the fill that is refused on a terminal record leaves no flag.
FaultRefuseSilently(o, update) ==
    /\ update.status = orders[o].status
    /\ is_terminal(orders[o])
    /\ UNCHANGED orders
    /\ NoFill

\* A terminal record never fills again: a higher quantity is refused and flagged.
UpdateTerminalRefresh(o, update) ==
    /\ update.status = orders[o].status
    /\ is_terminal(orders[o])
    /\ orders' = IF update.qty > orders[o].qty THEN [orders EXCEPT ![o] = Flag(@)] ELSE orders
    /\ NoFill

UpdateRefresh(o, update, bookable) ==
    /\ update.status = orders[o].status
    /\ ~is_terminal(orders[o])
    /\ BookFill(o, extract_fill_delta(orders[o], update.qty), bookable)
    /\ orders' = [orders EXCEPT ![o] = apply_fill_fields(@, update.qty)]

UpdateInvalidTransition(o, update) ==
    /\ update.status # orders[o].status
    /\ ~is_valid_transition(orders[o].status, update.status)
    /\ orders' = [orders EXCEPT ![o] = Flag(@)]
    /\ NoFill

UpdateTransition(o, update, bookable) ==
    /\ update.status # orders[o].status
    /\ is_valid_transition(orders[o].status, update.status)
    /\ BookFill(o, extract_fill_delta(orders[o], update.qty), bookable)
    /\ orders' = [orders EXCEPT
                    ![o] = apply_fill_fields([@ EXCEPT !.status = update.status], update.qty)]

HandleOrderUpdate(o) ==
    \E update \in reported[o], number \in Numbers \cup {"own", "none"},
       correlated \in BOOLEAN, bookable \in BOOLEAN :
        /\ Resolves(o, number, correlated)
        /\ RecordAlias(o, number)
        /\ \/ UpdateUnknownStatus(o)
           \/ UpdateTerminalRefresh(o, update)
           \/ UpdateRefresh(o, update, bookable)
           \/ UpdateInvalidTransition(o, update)
           \/ UpdateTransition(o, update, bookable)
        /\ told' = IF update.status \in Terminal THEN told \cup {o} ELSE told
        /\ UNCHANGED <<broker, reported, correlations>>

-----------------------------------------------------------------------------
(* Reconciliation.                                                         *)

\* Fault: the broker's status is assigned to terminal records too.
FaultRawAssign(order, row) ==
    [order EXCEPT !.status = row.status, !.qty = row.qty, !.needs_reconciliation = FALSE]

\* reconcile(): the correction of one tracked order by the row of the REST
\* snapshot that reconcile_orders found to differ.
Corrected(order, row) ==
    IF is_terminal(order)
    THEN [order EXCEPT !.qty = row.qty,
                       !.needs_reconciliation = @ /\ order.status # row.status]
    ELSE IF row.qty < order.qty
    THEN [order EXCEPT !.status = row.status, !.needs_reconciliation = TRUE]
    ELSE [order EXCEPT !.status = row.status, !.qty = row.qty,
                       !.needs_reconciliation = FALSE]

\* Fault: only fills are compared.
FaultIgnoreStatus(order, row, priceDiffers) ==
    order.qty # row.qty \/ priceDiffers

\* reconcile_orders: a row gives an update when status, quantity or price differ.
Differs(order, row, priceDiffers) ==
    order.status # row.status \/ order.qty # row.qty \/ priceDiffers

\* The snapshot has a row for some of the tracked orders: the broker may not
\* list one, and a row whose status cannot be parsed is skipped.  A quantity
\* that is corrected upward is logged as swallowed: no FillEvent is made of it.
ReconcileWith(rows, priceDiffers) ==
    LET Updated == {o \in DOMAIN rows : Differs(orders[o], rows[o], o \in priceDiffers)}
    IN  /\ orders' = [o \in DOMAIN orders |->
                        IF o \in Updated THEN Corrected(orders[o], rows[o]) ELSE orders[o]]
        /\ swallowed' = swallowed \cup {o \in Updated : rows[o].qty > orders[o].qty}
        /\ UNCHANGED <<broker, reported, aliases, correlations, booked, told>>

Reconcile ==
    \E seen \in SUBSET DOMAIN orders :
    \E rows \in [seen -> Report], priceDiffers \in SUBSET seen :
        /\ \A o \in seen : rows[o] \in reported[o]
        /\ ReconcileWith(rows, priceDiffers)

\* A reconcile whose snapshot is complete and current.
ReconcileFresh ==
    ReconcileWith([o \in DOMAIN orders |-> broker[o]], {})

\* Fault: the aliases outlive the orders they lead to.
FaultKeepAliases ==
    /\ orders'       = [o \in {} |-> NewOrder("Transit")]
    /\ correlations' = {}
    /\ booked'       = [o \in Orders |-> 0]
    /\ swallowed'    = {}
    /\ told'         = {}
    /\ UNCHANGED <<broker, reported, aliases>>

\* perform_daily_reset: the book, its maps and the risk book are emptied.  A
\* restart of the process has the same effect: the book lives in memory only.
BookResetDaily ==
    /\ orders'       = [o \in {} |-> NewOrder("Transit")]
    /\ aliases'      = {}
    /\ correlations' = {}
    /\ booked'       = [o \in Orders |-> 0]
    /\ swallowed'    = {}
    /\ told'         = {}
    /\ UNCHANGED <<broker, reported>>

-----------------------------------------------------------------------------

BookInit ==
    /\ broker       = [o \in Orders |-> NotPlaced]
    /\ reported     = [o \in Orders |-> {}]
    /\ orders       = [o \in {} |-> NewOrder("Transit")]
    /\ aliases      = {}
    /\ correlations = {}
    /\ booked       = [o \in Orders |-> 0]
    /\ swallowed    = {}
    /\ told         = {}

Place == \E o \in Orders, r \in Report, parsed \in BOOLEAN : PlaceOrder(o, r, parsed)

PlaceUnanswered == \E o \in Orders, r \in Report : PlaceOrderUnanswered(o, r)

BookNext ==
    \/ Place
    \/ PlaceUnanswered
    \/ \E o \in Orders : CancelOrder(o)
    \/ \E o \in Orders : HandleOrderUpdate(o)
    \/ \E o \in Orders : BrokerStep(o)
    \/ Reconcile
    \/ BookResetDaily

BookSpec == BookInit /\ [][BookNext]_book_vars

\* reconcile() runs on a timer, after every authentication of the WebSocket
\* and after every broadcast lag; liveness assumes some of these runs complete
\* with a current snapshot.  Nothing is assumed of updates or of the broker.
BookFairSpec == BookSpec /\ WF_book_vars(ReconcileFresh)

-----------------------------------------------------------------------------
(* Properties.                                                             *)

\* The type invariant of the order book, its lookup maps and the risk lots.
BookTypeOK ==
    /\ broker \in [Orders -> Report \cup {NotPlaced}]
    /\ reported \in [Orders -> SUBSET Report]
    /\ DOMAIN orders \subseteq Orders
    /\ orders \in [DOMAIN orders ->
                     [status : OrderStatus, qty : 0..Quantity, needs_reconciliation : BOOLEAN]]
    /\ aliases \subseteq (DOMAIN orders) \X Numbers
    /\ correlations \subseteq DOMAIN orders
    /\ booked \in [Orders -> Nat]
    /\ swallowed \subseteq DOMAIN orders
    /\ told \subseteq DOMAIN orders

\* However updates are lost, repeated and reordered, and however stale the
\* snapshots reconcile() applies are, handle_order_update never books more lots
\* of an order into the risk book than the broker has filled: no fill is counted
\* twice (extract_fill_delta, apply_fill_fields and the two reconcile guards).
NoDoubleBooking ==
    \A o \in Orders : booked[o] <= Lots(broker[o].qty)

\* Every lot an order record shows as traded is in the risk book, unless an
\* error line said that lots of this order were not booked; and while the order
\* is open the risk book holds no lot the record does not show.  This is the
\* order-fold leg of local_reconcile, with the exceptions the code admits.  And
\* no fill ends without a word: once an update with the final status of an order
\* was handled and its record is terminal, every lot the broker filled is booked,
\* or was reported as not booked, or the record is flagged for reconciliation.
\* An order answered TRADED at once is the hard case: its record is terminal at
\* quantity 0, and the fill update is refused by the terminal arm.
FillsAccounted ==
    \A o \in DOMAIN orders :
        /\ o \notin swallowed => Lots(orders[o].qty) <= booked[o]
        /\ ~is_terminal(orders[o]) => booked[o] <= Lots(orders[o].qty)
        /\ is_terminal(orders[o]) /\ o \in told =>
              \/ Lots(broker[o].qty) <= booked[o]
              \/ o \in swallowed
              \/ orders[o].needs_reconciliation

\* The rest of the inductive invariant behind the two: nothing the engine can
\* still be told, and nothing it has recorded, exceeds what the broker filled; a
\* final status reported or recorded is the one the broker holds, with its
\* quantity; and the risk book holds lots only for tracked orders.
ReportsBehindBroker ==
    \A o \in Orders : \A r \in reported[o] : r.qty <= broker[o].qty

RecordsBehindBroker ==
    \A o \in DOMAIN orders : broker[o] # NotPlaced /\ orders[o].qty <= broker[o].qty

FinalReportsCurrent ==
    \A o \in Orders : \A r \in reported[o] : r.status \in Terminal => r = broker[o]

FinalRecordsCurrent ==
    \A o \in DOMAIN orders : is_terminal(orders[o]) => orders[o].status = broker[o].status

OnlyTrackedBooked ==
    \A o \in Orders : o \notin DOMAIN orders => booked[o] = 0

BookInv ==
    /\ BookTypeOK
    /\ ReportsBehindBroker
    /\ RecordsBehindBroker
    /\ FinalReportsCurrent
    /\ FinalRecordsCurrent
    /\ OnlyTrackedBooked
    /\ NoDoubleBooking
    /\ FillsAccounted

\* No update and no correction moves an order out of a terminal status, even
\* when reconcile() applies a snapshot that is older than the local state.
TerminalIsFinal ==
    [][\A o \in DOMAIN orders \cap DOMAIN orders' :
          is_terminal(orders[o]) => orders'[o].status = orders[o].status]_book_vars

\* An open order whose fill was refused by the state machine (an update that
\* skipped a status) is not lost for good: once the broker has finished with a
\* tracked order, the record reaches the broker's status and quantity.
ConvergesToBroker ==
    \A o \in Orders :
        (o \in DOMAIN orders /\ broker[o].status \in Terminal)
            ~> (o \notin DOMAIN orders \/ (orders[o].status = broker[o].status
                                            /\ orders[o].qty = broker[o].qty))

=============================================================================
