---------------------------- MODULE Marketplace ----------------------------
(***************************************************************************)
(* The life of an order from placeOrders to COMPLETED: transition(),       *)
(* settlement, disputes, the reservation sweeper and customs interleaved   *)
(* on one database, in an API process that may crash.  A pool of handlers  *)
(* given as {} leaves its component out of an instance.                    *)
(***************************************************************************)
EXTENDS Disputes, Sweeper, Customs

CONSTANT MaxCrashes   \* bound: crashes of the API process

ASSUME MarketplaceAssumption == MaxCrashes \in Nat

VARIABLE crashes

vars == <<tradingVars, settlementVars, disputeVars, sweep, customsVars, crashes>>

TypeOK ==
  /\ TradingTypeOK /\ SettlementTypeOK /\ DisputesTypeOK
  /\ SweeperTypeOK /\ CustomsTypeOK /\ crashes \in Nat

Init ==
  /\ TradingInit /\ SettlementInit /\ DisputesInit /\ SweeperInit /\ CustomsInit
  /\ crashes = 0

(* Every handler is lost, and with it the transactions that were open; the *)
(* tables and the outbox stay.                                             *)
Crash ==
  /\ crashes < MaxCrashes
  /\ crashes' = crashes + 1
  /\ call' = [w \in Callers |-> NoCall]
  /\ checkout' = [b \in Buyers |-> Idle]
  /\ hook' = [h \in Hooks |-> Idle]
  /\ release' = [d \in Dispatcher |-> Idle]
  /\ opening' = [p \in Parties |-> Idle]
  /\ evidence' = [e \in Witnesses |-> Idle]
  /\ ruling' = [s \in Staff |-> Idle]
  /\ sweep' = [s \in Sweepers |-> Idle]
  /\ customs' = [f \in Officers |-> NoCall]
  /\ UNCHANGED <<order, reservation, paid, paperwork, outbox, moneyVars, dispute, declaration>>

OrderSteps == TradingNext /\ UNCHANGED <<settlementVars, disputeVars, sweep, customsVars, crashes>>
MoneySteps == SettlementNext(InDispute) /\ UNCHANGED <<disputeVars, sweep, customsVars, crashes>>
DisputeSteps == DisputesNext /\ UNCHANGED <<sweep, customsVars, crashes>>
SweepSteps ==
  (\E s \in Sweepers : SweepStep(s)) /\ UNCHANGED <<disputeVars, customsVars, crashes>>
CustomsSteps == CustomsNext /\ UNCHANGED <<settlementVars, disputeVars, sweep, crashes>>

Next == OrderSteps \/ MoneySteps \/ DisputeSteps \/ SweepSteps \/ CustomsSteps \/ Crash

Spec == Init /\ [][Next]_vars

(* What the runtime guarantees: a started handler keeps running, Stripe    *)
(* announces a payment (and again, up to the bound), the interval of the   *)
(* dispatcher and the cron of the sweeper fire.  Users promise nothing.    *)
CallFairness ==
  \A w \in Callers :
    WF_vars(CallStep(w) /\ UNCHANGED <<settlementVars, disputeVars, sweep, customsVars, crashes>>)

HookFairness ==
  \A h \in Hooks :
    /\ WF_vars((HookSettle(h) \/ HookBook(h) \/ HookAdvance(h))
                 /\ UNCHANGED <<disputeVars, sweep, customsVars, crashes>>)
    /\ \A p \in PayId :
         WF_vars(HookStart(h, p) /\ UNCHANGED <<disputeVars, sweep, customsVars, crashes>>)

DispatcherFairness ==
  \A d \in Dispatcher :
    WF_vars((\/ Dispatch(d) \/ ReleaseStatus(d) \/ ReleaseTransfer(d, InDispute)
             \/ ReleaseBook(d) \/ ReleaseComplete(d) \/ Publish(d))
              /\ UNCHANGED <<disputeVars, sweep, customsVars, crashes>>)

StaffFairness ==
  \A s \in Staff :
    WF_vars((RuleBook(s) \/ RuleAdvance(s)) /\ UNCHANGED <<sweep, customsVars, crashes>>)

SweeperFairness ==
  \A s \in Sweepers :
    WF_vars(SweepStep(s) /\ UNCHANGED <<disputeVars, customsVars, crashes>>)

FairSpec ==
  /\ Spec
  /\ CallFairness /\ HookFairness /\ DispatcherFairness /\ StaffFairness /\ SweeperFairness

----------------------------------------------------------------------------
(* Safety                                                                  *)

UnpaidStates == {"DRAFT", "PLACED", "CANCELLED"}
ShippedStates == {"SHIPPED", "IN_CUSTOMS", "CUSTOMS_CLEARED", "DELIVERED",
                  "COMPLETED", "DISPUTED", "RESOLVED"}

PaidOut(o) == ledger[o].supplier + ledger[o].commission + ledger[o].refund

(* No order is past PLACED before a payment of it is booked into escrow,   *)
(* although the booking and the transition are two transactions of the     *)
(* webhook and other handlers write the status in between.                 *)
EscrowBeforeProgress ==
  \A o \in Orders : order[o].status \notin UnpaidStates => ledger[o].transit > 0

(* An order that has left the warehouse had its shipment registered, its   *)
(* documents complete and every blocking instalment paid, although the     *)
(* guards run before the transaction.                                      *)
PaidUpBeforeShipping ==
  \A o \in Orders : order[o].status \in ShippedStates => ReadyToShip(o) /\ PaidUp(o)

(* The goods of an order leave the stock exactly once, when it ships: two  *)
(* shipping requests, a customs overwrite or a crash do not repeat it.     *)
OutboundOnce ==
  \A o \in Orders :
    reservation[o].shipped = IF order[o].status \in ShippedStates THEN 1 ELSE 0

(* Every journal of the ledger balances: what came in for an order is      *)
(* still in escrow or was paid out to someone.                             *)
Conservation ==
  \A o \in Orders : ledger[o].transit = ledger[o].escrow + PaidOut(o)

(* An order is RESOLVED or COMPLETED only after the price was distributed: *)
(* releaseEscrow and resolve write the journal first.                      *)
PaidOutBeforeClosing ==
  \A o \in Orders : order[o].status \in {"RESOLVED", "COMPLETED"} => PaidOut(o) >= Total

(* A cancelled order keeps no stock, whoever cancelled it.                 *)
CancelledHoldsNothing ==
  \A o \in Orders : order[o].status = "CANCELLED" => reservation[o].state # "HELD"

HasRow(o) == \E d \in DisputeId : dispute[d] # NoDispute /\ dispute[d].order = o

(* An order in DISPUTED has the row of a dispute (open writes it first).   *)
DisputedHasRow == \A o \in Orders : order[o].status = "DISPUTED" => HasRow(o)

(* checkEscrowNotOverdrawn: the escrow of no order is negative.            *)
EscrowNotOverdrawn == \A o \in Orders : ledger[o].escrow >= 0

(* What Stripe has collected for an order: the amounts of its payments     *)
(* that succeeded.                                                         *)
Collected(o) ==
  [p \in PayId |->
     IF payment[p].status \in {"SUCCEEDED", "REFUNDED", "PARTIAL_REFUND"} /\ payment[p].order = o
     THEN payment[p].amount ELSE 0]

(* Stripe announces no payment of the order again, or announcements are    *)
(* handled one at a time and no ruling has refunded one of the order.      *)
AnnouncedOnce(o) ==
  \A p \in PayId : payment[p] # NoPayment /\ payment[p].order = o => deliveries[p] <= 1
OneWebhook == \A g, h \in Hooks : g = h
AnnouncedInTurn(o) == AnnouncedOnce(o) \/ (OneWebhook /\ ~HasRow(o))

(* "Stripe is the source of truth, the ledger its shadow": the incoming    *)
(* funds of such an order are what Stripe has collected.                   *)
LedgerMatchesStripe ==
  \A o \in Orders :
    AnnouncedInTurn(o) => ledger[o].transit = SumFunctionOnSet(Collected(o), PayId)

(* No crash repeats the event of the order, and no customs write repeats   *)
(* its delivery.                                                           *)
DeliveredOnce(o) == crashes = 0 /\ declaration[o] = "NONE"

(* Stripe transfers the share of the supplier of such an order once.       *)
TransferOnce == \A o \in Orders : DeliveredOnce(o) => transfers[o] <= 1

(* The escrow of such an order covers what leaves it, if it is paid in one *)
(* piece and nobody disputes it.                                           *)
EscrowCovers ==
  \A o \in Orders :
    DeliveredOnce(o) /\ ~HasRow(o) /\ Terms[o] = << >> => ledger[o].escrow >= 0

(* Checkout is idempotent up to the requests that run at once: no more     *)
(* intents wait to be paid than there are such requests.                   *)
IntentsReused == \A o \in Orders : Cardinality(Pending(o)) <= Cardinality(Buyers)

----------------------------------------------------------------------------
(* Action properties                                                       *)

(* Every change of a status by anyone but customs is an edge of the table, *)
(* taken from the status the order has at that moment.                     *)
TransitionFollowsTable ==
  [][\A o \in Orders :
       order'[o].status # order[o].status /\ customs' = customs =>
         IsEdge(OrderTable, order[o].status, order'[o].status)]_vars

----------------------------------------------------------------------------
(* Liveness, under FairSpec                                                *)

Abandoned(o) ==
  order[o].status = "PLACED" /\ reservation[o].expired /\ ~Protected(o)

(* An unpaid order whose TTL has passed does not keep its stock for good:  *)
(* it leaves PLACED or a payment for it is begun.                          *)
AbandonedIsSwept ==
  \A o \in Orders : Abandoned(o) ~> ~Abandoned(o)

(* A payment that Stripe has collected moves its order out of PLACED.      *)
PaymentAdvancesOrder ==
  \A p \in PayId :
    p \in charged ~> p \in charged /\ order[payment[p].order].status # "PLACED"

(* Money moves once: an intent is handed out again instead of a second     *)
(* one, the ledger has what Stripe collected, the supplier gets one        *)
(* transfer and the escrow covers what leaves it, each under the condition *)
(* that its definition names.                                              *)
MoneyOnce == IntentsReused /\ LedgerMatchesStripe /\ TransferOnce /\ EscrowCovers

----------------------------------------------------------------------------
(* Refinement: the statuses of an order are stages of a sale, its          *)
(* reservation the whereabouts of the goods, its ledger and its guards the *)
(* conditions under which the stages follow each other.                    *)

StageOf(status) ==
  CASE status = "DRAFT" -> "none"
    [] status = "PLACED" -> "open"
    [] status = "CANCELLED" -> "cancelled"
    [] status \in {"PAID_ESCROW", "CONFIRMED", "PREPARING"} -> "funded"
    [] status \in {"RESOLVED", "COMPLETED"} -> "closed"
    [] OTHER -> "shipped"

GoodsOf(r) ==
  IF r.shipped > 0 THEN "gone"
  ELSE IF r.state = "NONE" THEN "none"
  ELSE IF r.state = "HELD" THEN "held" ELSE "back"

SaleStage == [o \in Orders |-> StageOf(order[o].status)]
SaleGoods == [o \in Orders |-> GoodsOf(reservation[o])]
SaleReceived == [o \in Orders |-> ledger[o].transit > 0]
SaleCleared == [o \in Orders |-> ReadyToShip(o) /\ PaidUp(o)]
SaleShared == [o \in Orders |-> PaidOut(o) >= Total]

Sale == INSTANCE EscrowSale WITH
  stage <- SaleStage, goods <- SaleGoods, received <- SaleReceived,
  cleared <- SaleCleared, shared <- SaleShared

(* The handlers of an order, interleaved and with their stale reads, do    *)
(* what EscrowSale promises: nothing is shipped before it is paid and      *)
(* documented, nothing closed before its price is shared out, and goods    *)
(* leave the stock in one step, with the stage.                            *)
ImplementsSale == Sale!Spec
=============================================================================
