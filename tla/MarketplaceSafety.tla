------------------------- MODULE MarketplaceSafety -------------------------
(***************************************************************************)
(* Proofs about Marketplace, for any numbers of orders, handlers, payments *)
(* and disputes, in five parts:                                            *)
(*                                                                         *)
(* 1. Type correctness, which rests on one fact about the system: the      *)
(*    dispatcher holds the head of the outbox while it works.              *)
(*                                                                         *)
(* 2. The life of an order: transition() follows its table although its    *)
(*    check and its write are separate transactions, the goods leave once, *)
(*    nothing unpaid ships and a cancelled order holds no stock.  The      *)
(*    version column carries the proof: a frame whose version is still the *)
(*    one of the row has seen the status the row has.                      *)
(*                                                                         *)
(* 3. The money of an order: every journal balances, no order goes on      *)
(*    before its payment is in escrow, none is closed before the escrow    *)
(*    was paid out, and none is in dispute without a dispute.  Each of     *)
(*    these relates rows that are written by different transactions; what  *)
(*    holds them together is that a handler keeps in its frame what it     *)
(*    wrote before, and that ledger and disputes only ever grow.           *)
(*                                                                         *)
(* 4. The handlers implement the abstract sale.                            *)
(*                                                                         *)
(* 5. Money moves once: checkouts do not pile up intents, the ledger has   *)
(*    what Stripe collected, one transfer is made and the escrow covers    *)
(*    what leaves it.  Each is a count of things that are not yet there:   *)
(*    checkouts that may still create an intent, webhooks that may still   *)
(*    book a payment, an event whose release has not got to the transfer.  *)
(***************************************************************************)
EXTENDS Marketplace, Sums

(* While the dispatcher handles an event, the event is the oldest one of   *)
(* the outbox.                                                             *)
HoldsHead ==
  \A d \in Dispatcher :
    release[d] # Idle => outbox # << >> /\ release[d].order = Head(outbox)

(* The rows that Stripe and the handlers in progress refer to exist, and   *)
(* belong to the order that the handler works on.                          *)
RowsExist ==
  /\ \A p \in charged : payment[p] # NoPayment
  /\ \A h \in Hooks : hook[h] # Idle =>
       payment[hook[h].pay] # NoPayment /\ payment[hook[h].pay].order = hook[h].order
  /\ \A e \in Witnesses : evidence[e] # Idle => dispute[evidence[e].dispute] # NoDispute
  /\ \A s \in Staff : ruling[s] # Idle =>
       dispute[ruling[s].dispute] # NoDispute /\ dispute[ruling[s].dispute].order = ruling[s].order

(* What is proved inductive.                                               *)
TypeInv == TypeOK /\ HoldsHead /\ RowsExist

----------------------------------------------------------------------------
(* Helpers                                                                 *)

(* The amounts of instalments, of commissions and of the amounts due are   *)
(* numbers.                                                                *)
LEMMA TermsType ==
  ASSUME NEW o \in Orders
  PROVE  /\ Instalments(o) \subseteq Nat
         /\ \A k \in Instalments(o) : Terms[o][k].amount \in Nat \ {0}
<1>1. Terms[o] \in Seq(InstalmentType) BY TradingAssumption DEF TradingAssumption
<1>2. DOMAIN Terms[o] = 1..Len(Terms[o]) /\ Len(Terms[o]) \in Nat BY <1>1
<1>3. \A k \in 1..Len(Terms[o]) : Terms[o][k] \in InstalmentType BY <1>1
<1>4. \A k \in 1..Len(Terms[o]) : Terms[o][k].amount \in Nat \ {0}
  BY <1>3 DEF InstalmentType
<1> QED BY <1>2, <1>4 DEF Instalments

(* CommissionOn is a whole number of minor units.                          *)
LEMMA CommissionType ==
  ASSUME NEW x \in Int
  PROVE  CommissionOn(x) \in Int
BY SettlementAssumption DEF SettlementAssumption, CommissionOn

(* What checkout asks for is a positive amount.                            *)
LEMMA AmountsDueType ==
  ASSUME NEW o \in Orders, NEW a \in AmountsDue(o)
  PROVE  a \in Nat \ {0}
BY TermsType, SettlementAssumption DEF AmountsDue, Due, SettlementAssumption

(* Every target that a handler asks transition() for is a status.          *)
LEMMA BeginType ==
  ASSUME TradingTypeOK, NEW w \in Callers, NEW o \in Orders, NEW to \in OrderStatus,
         NEW roles \in SUBSET RoleCode, NEW next \in {"none", "COMPLETED"},
         Begin(w, o, to, roles, next)
  PROVE  call' \in [Callers -> CallType \cup {NoCall}]
BY DEF TradingTypeOK, Begin, CallType, OrderType, NoCall

(* Written and Published keep the types of what they write.                *)
LEMMA WrittenType ==
  ASSUME TradingTypeOK, NEW o \in Orders, NEW to \in OrderStatus
  PROVE  Written(o, to) \in [Orders -> OrderType]
BY DEF TradingTypeOK, Written, OrderType

LEMMA PublishedType ==
  ASSUME TradingTypeOK, NEW o \in Orders, NEW from, NEW to
  PROVE  Published(o, from, to) \in Seq(Orders)
BY DEF TradingTypeOK, Published

LEMMA BumpReleased ==
  ASSUME NEW r \in ReservationType
  PROVE  [r EXCEPT !.released = @ + 1] \in ReservationType
BY DEF ReservationType

LEMMA BumpShipped ==
  ASSUME NEW r \in ReservationType
  PROVE  [r EXCEPT !.shipped = @ + 1] \in ReservationType
BY DEF ReservationType

LEMMA GivenBackType ==
  ASSUME NEW r \in ReservationType
  PROVE  /\ GivenBack(r) \in ReservationType
         /\ GivenBack(r).state = "RELEASED"
         /\ GivenBack(r).shipped = r.shipped
<1> DEFINE marked == [r EXCEPT !.state = "RELEASED"]
<1>1. marked \in ReservationType BY DEF ReservationType
<1>2. [marked EXCEPT !.released = @ + 1] \in ReservationType BY <1>1, BumpReleased
<1> QED BY <1>2 DEF GivenBack, ReservationType

LEMMA ShippedOutType ==
  ASSUME NEW r \in ReservationType
  PROVE  /\ ShippedOut(r) \in ReservationType
         /\ ShippedOut(r).state = "CONSUMED"
         /\ ShippedOut(r).shipped = r.shipped + 1
<1> DEFINE marked == [r EXCEPT !.state = "CONSUMED"]
<1>1. marked \in ReservationType BY DEF ReservationType
<1>2. [marked EXCEPT !.shipped = @ + 1] \in ReservationType BY <1>1, BumpShipped
<1> QED BY <1>2 DEF ShippedOut, ReservationType

LEMMA ReleasedType ==
  ASSUME TradingTypeOK, NEW o \in Orders
  PROVE  Released(o) \in [Orders -> ReservationType]
BY GivenBackType DEF TradingTypeOK, Released

(* A caller that is inside transition() has a frame.                       *)
LEMMA CallFrame ==
  ASSUME TradingTypeOK, NEW w \in Callers, call[w].at # "idle"
  PROVE  call[w] \in CallType
BY DEF TradingTypeOK, NoCall

----------------------------------------------------------------------------
(* Trading                                                                 *)

LEMMA ReturnType ==
  ASSUME TradingTypeOK, NEW w \in Callers, call[w] \in CallType, Return(w)
  PROVE  call' \in [Callers -> CallType \cup {NoCall}]
BY DEF TradingTypeOK, Return, CallType

(* Every step of a transition() keeps the types.                           *)
LEMMA CallStepType ==
  ASSUME TradingTypeOK, NEW w \in Callers, CallStep(w)
  PROVE  TradingTypeOK'
<1>1. CASE ShipGuards(w)
  <2>1. call[w] \in CallType BY <1>1, CallFrame DEF ShipGuards
  <2> QED BY <1>1, <2>1 DEF ShipGuards, TradingTypeOK, CallType
<1>2. CASE VersionConflict(w)
  BY <1>2 DEF VersionConflict, TradingTypeOK
<1>3. CASE CommitTransition(w)
  <2>1. call[w] \in CallType BY <1>3, CallFrame DEF CommitTransition
  <2>2. call[w].order \in Orders /\ call[w].to \in OrderStatus BY <2>1 DEF CallType
  <2>3. order' \in [Orders -> OrderType] BY <1>3, <2>2, WrittenType DEF CommitTransition
  <2>4. outbox' \in Seq(Orders) BY <1>3, <2>2, PublishedType DEF CommitTransition
  <2>5. call' \in [Callers -> CallType \cup {NoCall}]
    BY <1>3, <2>1, ReturnType DEF CommitTransition
  <2> QED BY <1>3, <2>3, <2>4, <2>5 DEF CommitTransition, TradingTypeOK
<1>4. CASE CommitCancel(w)
  <2>1. call[w] \in CallType BY <1>4, CallFrame DEF CommitCancel
  <2>2. call[w].order \in Orders BY <2>1 DEF CallType
  <2>3. order' \in [Orders -> OrderType]
    BY <1>4, <2>2, WrittenType DEF CommitCancel, OrderStatus
  <2>4. reservation' \in [Orders -> ReservationType]
    BY <1>4, <2>2, ReleasedType DEF CommitCancel, TradingTypeOK
  <2>5. call' \in [Callers -> CallType \cup {NoCall}]
    BY <1>4, <2>1, ReturnType DEF CommitCancel
  <2> QED BY <1>4, <2>3, <2>4, <2>5 DEF CommitCancel, TradingTypeOK
<1>5. CASE LockShip(w)
  <2>1. call[w] \in CallType BY <1>5, CallFrame DEF LockShip
  <2> QED BY <1>5, <2>1 DEF LockShip, TradingTypeOK, CallType
<1>6. CASE CommitShip(w)
  <2>1. call[w] \in CallType BY <1>6, CallFrame DEF CommitShip
  <2>2. call[w].order \in Orders BY <2>1 DEF CallType
  <2>3. order' \in [Orders -> OrderType]
    BY <1>6, <2>2, WrittenType DEF CommitShip, OrderStatus
  <2>4. reservation' \in [Orders -> ReservationType]
    BY <1>6, <2>2, ShippedOutType DEF CommitShip, TradingTypeOK
  <2>5. call' \in [Callers -> CallType \cup {NoCall}]
    BY <1>6, <2>1, ReturnType DEF CommitShip
  <2> QED BY <1>6, <2>3, <2>4, <2>5 DEF CommitShip, TradingTypeOK
<1>7. CASE AbortShip(w)
  BY <1>7 DEF AbortShip, TradingTypeOK
<1>8. CASE Continue(w)
  <2>1. call[w] \in CallType BY <1>8, CallFrame DEF Continue
  <2>2. call[w].order \in Orders /\ call[w].next \in {"none", "COMPLETED"} BY <2>1 DEF CallType
  <2>3. call[w].next \in OrderStatus \cup {"none"} BY <2>2 DEF OrderStatus
  <2>4. Allowed(OrderTable, order[call[w].order].status, call[w].next, {"SYSTEM"})
          => call[w].next # "none"
    BY DEF Allowed, OrderTable, Edge
  <2>5. order[call[w].order] \in OrderType BY <2>2 DEF TradingTypeOK
  <2> DEFINE frame ==
        [at |-> "commit", order |-> call[w].order, to |-> call[w].next, roles |-> {"SYSTEM"},
         seen |-> order[call[w].order].status, version |-> order[call[w].order].version,
         next |-> "none"]
  <2>6. call[w].next # "none" => frame \in CallType
    <3>1. order[call[w].order].status \in OrderStatus /\ order[call[w].order].version \in Nat
      BY <2>5 DEF OrderType
    <3>2. {"SYSTEM"} \in SUBSET RoleCode BY DEF RoleCode
    <3> QED BY <2>2, <2>3, <3>1, <3>2 DEF CallType
  <2>7. call' \in [Callers -> CallType \cup {NoCall}]
    BY <1>8, <2>4, <2>6 DEF Continue, TradingTypeOK
  <2> QED BY <1>8, <2>7 DEF Continue, TradingTypeOK
<1> QED BY <1>1, <1>2, <1>3, <1>4, <1>5, <1>6, <1>7, <1>8 DEF CallStep

(* Every request and every passage of time keeps the types.                *)
LEMMA OrderStepType ==
  ASSUME TradingTypeOK, NEW o \in Orders, OrderStep(o)
  PROVE  TradingTypeOK'
<1>1. CASE Place(o)
  <2>1. [order[o] EXCEPT !.status = "PLACED"] \in OrderType
    BY DEF TradingTypeOK, OrderType, OrderStatus
  <2>2. [reservation[o] EXCEPT !.state = "HELD"] \in ReservationType
    BY DEF TradingTypeOK, ReservationType
  <2> QED BY <1>1, <2>1, <2>2 DEF Place, TradingTypeOK
<1>2. CASE RegisterShipment(o)
  BY <1>2 DEF RegisterShipment, TradingTypeOK
<1>3. CASE RegisterDocuments(o)
  BY <1>3 DEF RegisterDocuments, TradingTypeOK
<1>4. ASSUME NEW k \in Instalments(o), MarkPaid(o, k) PROVE TradingTypeOK'
  <2>1. k \in Nat BY TermsType
  <2> QED BY <1>4, <2>1 DEF MarkPaid, TradingTypeOK
<1>5. CASE TtlExpires(o)
  BY <1>5 DEF TtlExpires, TradingTypeOK, ReservationType
<1>6. CASE DisputeWindowCloses(o)
  BY <1>6 DEF DisputeWindowCloses, TradingTypeOK, OrderType
<1>7. ASSUME NEW c \in Clients, NEW r \in OrderRequests, Request(c, o, r) PROVE TradingTypeOK'
  <2>1. c \in Callers BY TradingAssumption DEF TradingAssumption
  <2>2. r[1] \in OrderStatus /\ {r[2]} \in SUBSET RoleCode
    <3>1. PICK to \in OrderStatus, role \in RoleCode : r = <<to, role>>
      BY DEF OrderRequests, OrderStatus, RoleCode
    <3> QED BY <3>1
  <2>3. Begin(c, o, r[1], {r[2]}, "none") BY <1>7 DEF Request
  <2>4. call' \in [Callers -> CallType \cup {NoCall}] BY <2>1, <2>2, <2>3, BeginType
  <2> QED BY <1>7, <2>4 DEF Request, TradingTypeOK
<1> QED BY <1>1, <1>2, <1>3, <1>4, <1>5, <1>6, <1>7 DEF OrderStep

----------------------------------------------------------------------------
(* Settlement                                                              *)

LEMMA TradingFrame ==
  ASSUME TradingTypeOK, UNCHANGED tradingVars
  PROVE  TradingTypeOK'
BY DEF TradingTypeOK, tradingVars

(* A handler that only asks for a transition leaves the types of Trading.  *)
LEMMA BeginOnlyType ==
  ASSUME TradingTypeOK, NEW w \in Callers, NEW o \in Orders, NEW to \in OrderStatus,
         NEW roles \in SUBSET RoleCode, NEW next \in {"none", "COMPLETED"},
         Begin(w, o, to, roles, next),
         UNCHANGED <<order, reservation, paid, paperwork, outbox>>
  PROVE  TradingTypeOK'
<1>1. call' \in [Callers -> CallType \cup {NoCall}] BY BeginType
<1> QED BY <1>1 DEF TradingTypeOK

(* Every step of a checkout keeps the types.                               *)
LEMMA CheckoutTypes ==
  ASSUME TradingTypeOK, SettlementTypeOK, NEW b \in Buyers,
         \/ \E o \in Orders : CheckoutStart(b, o)
         \/ CheckoutPrice(b) \/ CheckoutReuse(b) \/ CheckoutCreate(b)
  PROVE  TradingTypeOK' /\ SettlementTypeOK'
<1>0. checkout[b] \in CheckoutType \cup {Idle} BY DEF SettlementTypeOK
<1>1. ASSUME NEW o \in Orders, CheckoutStart(b, o) PROVE TradingTypeOK' /\ SettlementTypeOK'
  <2>1. order[o].status \in OrderStatus BY DEF TradingTypeOK, OrderType
  <2>2. [at |-> "price", order |-> o, seen |-> order[o].status, amount |-> 0] \in CheckoutType
    BY <2>1 DEF CheckoutType
  <2> QED BY <1>1, <2>2, TradingFrame DEF CheckoutStart, SettlementTypeOK, moneyVars
<1>2. CASE CheckoutPrice(b)
  <2>1. checkout[b] \in CheckoutType 
    <3>1. checkout[b].at = "price" BY <1>2 DEF CheckoutPrice
    <3> QED BY <1>0, <3>1 DEF Idle
  <2>2. ASSUME NEW a \in AmountsDue(checkout[b].order)
        PROVE  [checkout[b] EXCEPT !.at = "reuse", !.amount = a] \in CheckoutType
    <3>1. a \in Nat BY <2>1, AmountsDueType DEF CheckoutType
    <3>2. [checkout[b] EXCEPT !.at = "reuse"] \in CheckoutType BY <2>1 DEF CheckoutType
    <3> QED BY <3>1, <3>2 DEF CheckoutType
  <2>3. checkout' \in [Buyers -> CheckoutType \cup {Idle}]
    BY <1>2, <2>2 DEF CheckoutPrice, SettlementTypeOK
  <2> QED BY <1>2, <2>3, TradingFrame DEF CheckoutPrice, SettlementTypeOK, moneyVars
<1>3. CASE CheckoutReuse(b)
  <2>1. checkout[b] \in CheckoutType BY <1>0, <1>3 DEF CheckoutReuse, Idle
  <2>2. [checkout[b] EXCEPT !.at = "create"] \in CheckoutType BY <2>1 DEF CheckoutType
  <2> QED BY <1>3, <2>2, TradingFrame DEF CheckoutReuse, SettlementTypeOK, moneyVars
<1>4. CASE CheckoutCreate(b)
  <2>1. checkout[b] \in CheckoutType BY <1>0, <1>4 DEF CheckoutCreate, Idle
  <2>2. [status |-> "PENDING", order |-> checkout[b].order,
         amount |-> checkout[b].amount, recent |-> TRUE] \in PaymentType
    BY <2>1 DEF CheckoutType, PaymentType
  <2> QED BY <1>4, <2>2, TradingFrame DEF CheckoutCreate, SettlementTypeOK
<1> QED BY <1>1, <1>2, <1>3, <1>4

(* Every step of a webhook keeps the types.                                *)
LEMMA HookTypes ==
  ASSUME TradingTypeOK, SettlementTypeOK, RowsExist, NEW h \in Hooks, NEW p \in PayId,
         HookStart(h, p) \/ HookSettle(h) \/ HookBook(h) \/ HookAdvance(h)
  PROVE  TradingTypeOK' /\ SettlementTypeOK'
<1>0. hook[h] \in HookType \cup {Idle} BY DEF SettlementTypeOK
<1>1. CASE HookStart(h, p)
  <2>0. payment[p] \in PaymentType
    BY <1>1 DEF HookStart, RowsExist, SettlementTypeOK, NoPayment
  <2>1. HookFrame(p) \in HookType \cup {Idle}
    BY <2>0 DEF HookFrame, HookType, PaymentType, TradingTypeOK, OrderType
  <2>2. deliveries' \in [PayId -> Nat] BY <1>1 DEF HookStart, SettlementTypeOK
  <2> QED BY <1>1, <2>1, <2>2, TradingFrame DEF HookStart, SettlementTypeOK
<1>2. CASE HookSettle(h)
  <2>1. hook[h] \in HookType BY <1>0, <1>2 DEF HookSettle, Idle
  <2>2. Covered(hook[h].order, payment[hook[h].pay].amount) \in SUBSET Nat
    BY <2>1, TermsType DEF Covered, Due, HookType
  <2>3. [hook[h] EXCEPT !.at = "settle"] \in HookType BY <2>1 DEF HookType
  <2>4. [hook[h] EXCEPT !.at = "settle",
                        !.settles = Covered(hook[h].order, payment[hook[h].pay].amount)] \in HookType
    BY <2>2, <2>3 DEF HookType
  <2> QED BY <1>2, <2>4, TradingFrame DEF HookSettle, SettlementTypeOK, moneyVars
<1>3. CASE HookBook(h)
  <2>1. hook[h] \in HookType BY <1>0, <1>3 DEF HookBook, Idle
  <2> DEFINE f == hook[h]
             a == payment[f.pay].amount
  <2>2. f.order \in Orders /\ f.pay \in PayId /\ f.settles \in SUBSET Nat BY <2>1 DEF HookType
  <2>3. payment[f.pay] \in PaymentType
    BY <1>3, <2>1, <2>2 DEF HookBook, RowsExist, SettlementTypeOK, NoPayment, Idle
  <2>4. [payment[f.pay] EXCEPT !.status = "SUCCEEDED"] \in PaymentType BY <2>3 DEF PaymentType
  <2>5. a \in Int BY <2>3 DEF PaymentType
  <2>7. Received(ledger[f.order], a) \in AccountsType
    BY <2>2, <2>5 DEF SettlementTypeOK, AccountsType, Received
  <2>8. [f EXCEPT !.at = "advance"] \in HookType BY <2>1 DEF HookType
  <2>9. ledger' \in [Orders -> AccountsType] BY <1>3, <2>2, <2>7 DEF HookBook, SettlementTypeOK
  <2>10. payment' \in [PayId -> PaymentType \cup {NoPayment}]
    BY <1>3, <2>2, <2>4 DEF HookBook, SettlementTypeOK
  <2>11. hook' \in [Hooks -> HookType \cup {Idle}] BY <1>3, <2>8 DEF HookBook, SettlementTypeOK
  <2>12. paid' \in [Orders -> SUBSET Nat] BY <1>3, <2>2 DEF HookBook, TradingTypeOK
  <2> QED BY <1>3, <2>9, <2>10, <2>11, <2>12 DEF HookBook, TradingTypeOK, SettlementTypeOK
<1>4. CASE HookAdvance(h)
  <2>1. hook[h] \in HookType BY <1>0, <1>4 DEF HookAdvance, Idle
  <2>2. h \in Callers BY SettlementAssumption DEF SettlementAssumption
  <2>3. hook[h].order \in Orders BY <2>1 DEF HookType
  <2>4. "PAID_ESCROW" \in OrderStatus /\ {"SYSTEM"} \in SUBSET RoleCode
    BY DEF OrderStatus, RoleCode
  <2>5. TradingTypeOK' BY <1>4, <2>2, <2>3, <2>4, BeginOnlyType DEF HookAdvance
  <2> QED BY <1>4, <2>5 DEF HookAdvance, SettlementTypeOK, moneyVars
<1> QED BY <1>1, <1>2, <1>3, <1>4

(* Every step of a release keeps the types.                                *)
LEMMA ReleaseTypes ==
  ASSUME TradingTypeOK, SettlementTypeOK, HoldsHead, NEW d \in Dispatcher, NEW inDispute,
         \/ Dispatch(d) \/ ReleaseStatus(d) \/ ReleaseTransfer(d, inDispute)
         \/ ReleaseBook(d) \/ ReleaseComplete(d) \/ Publish(d)
  PROVE  TradingTypeOK' /\ SettlementTypeOK'
<1>0. release[d] \in ReleaseType \cup {Idle} BY DEF SettlementTypeOK
<1> DEFINE o == release[d].order
<1>1. CASE Dispatch(d)
  <2>1. Head(outbox) \in Orders BY <1>1 DEF Dispatch, TradingTypeOK
  <2>2. [at |-> "status", order |-> Head(outbox)] \in ReleaseType BY <2>1 DEF ReleaseType
  <2> QED BY <1>1, <2>2, TradingFrame DEF Dispatch, SettlementTypeOK, moneyVars
<1>a. ASSUME release[d] \in ReleaseType,
             NEW at \in {"status", "dispute", "book", "complete", "publish"}, To(d, at)
      PROVE  release' \in [Dispatcher -> ReleaseType \cup {Idle}]
  <2>1. [release[d] EXCEPT !.at = at] \in ReleaseType BY <1>a DEF ReleaseType
  <2> QED BY <1>a, <2>1 DEF To, SettlementTypeOK
<1>2. CASE ReleaseStatus(d)
  <2>1. release[d] \in ReleaseType BY <1>0, <1>2 DEF ReleaseStatus, Idle
  <2>2. release' \in [Dispatcher -> ReleaseType \cup {Idle}]
    BY <1>2, <1>a, <2>1 DEF ReleaseStatus
  <2> QED BY <1>2, <2>2, TradingFrame DEF ReleaseStatus, SettlementTypeOK, moneyVars
<1>3. CASE ReleaseTransfer(d, inDispute)
  <2>1. release[d] \in ReleaseType BY <1>0, <1>3 DEF ReleaseTransfer, Idle
  <2>2. release' \in [Dispatcher -> ReleaseType \cup {Idle}]
    BY <1>3, <1>a, <2>1 DEF ReleaseTransfer
  <2>3. transfers' \in [Orders -> Nat]
    BY <1>3, <2>1 DEF ReleaseTransfer, SettlementTypeOK, ReleaseType
  <2> QED BY <1>3, <2>2, <2>3, TradingFrame DEF ReleaseTransfer, SettlementTypeOK
<1>4. CASE ReleaseBook(d)
  <2>1. release[d] \in ReleaseType BY <1>0, <1>4 DEF ReleaseBook, Idle
  <2>2. release' \in [Dispatcher -> ReleaseType \cup {Idle}]
    BY <1>4, <1>a, <2>1 DEF ReleaseBook
  <2>3. o \in Orders BY <2>1 DEF ReleaseType
  <2>4. CommissionOn(Total) \in Int
    BY CommissionType, SettlementAssumption DEF SettlementAssumption
  <2>5. DistributedTo(ledger[o], 0, CommissionOn(Total)) \in AccountsType
    BY <2>3, <2>4, SettlementAssumption DEF DistributedTo, AccountsType, SettlementTypeOK,
         SettlementAssumption
  <2>6. ledger' \in [Orders -> AccountsType] BY <1>4, <2>3, <2>5 DEF ReleaseBook, SettlementTypeOK
  <2> QED BY <1>4, <2>2, <2>6, TradingFrame DEF ReleaseBook, SettlementTypeOK
<1>5. CASE ReleaseComplete(d)
  <2>1. release[d] \in ReleaseType BY <1>0, <1>5 DEF ReleaseComplete, Idle
  <2>2. release' \in [Dispatcher -> ReleaseType \cup {Idle}]
    BY <1>5, <1>a, <2>1 DEF ReleaseComplete
  <2>3. d \in Callers BY SettlementAssumption DEF SettlementAssumption
  <2>4. o \in Orders BY <2>1 DEF ReleaseType
  <2>5. "COMPLETED" \in OrderStatus /\ {"SYSTEM"} \in SUBSET RoleCode
    BY DEF OrderStatus, RoleCode
  <2>6. TradingTypeOK' BY <1>5, <2>3, <2>4, <2>5, BeginOnlyType DEF ReleaseComplete
  <2> QED BY <1>5, <2>2, <2>6 DEF ReleaseComplete, SettlementTypeOK, moneyVars
<1>6. CASE Publish(d)
  <2>1. outbox # << >> BY <1>6 DEF Publish, HoldsHead, Idle
  <2>2. outbox' \in Seq(Orders) BY <1>6, <2>1 DEF Publish, TradingTypeOK
  <2> QED BY <1>6, <2>2 DEF Publish, TradingTypeOK, SettlementTypeOK, moneyVars
<1> QED BY <1>1, <1>2, <1>3, <1>4, <1>5, <1>6

(* Every step of Settlement keeps the types.                               *)
LEMMA SettlementTypes ==
  ASSUME TradingTypeOK, SettlementTypeOK, HoldsHead, RowsExist, NEW inDispute,
         SettlementNext(inDispute)
  PROVE  TradingTypeOK' /\ SettlementTypeOK'
<1>1. ASSUME NEW o \in Orders, Onboard(o) PROVE TradingTypeOK' /\ SettlementTypeOK'
  BY <1>1, TradingFrame DEF Onboard, SettlementTypeOK
<1>2. ASSUME NEW h \in Hooks, HookSettle(h) \/ HookBook(h) \/ HookAdvance(h)
      PROVE  TradingTypeOK' /\ SettlementTypeOK'
  <2>1. hook[h] \in HookType
    BY <1>2 DEF HookSettle, HookBook, HookAdvance, SettlementTypeOK, Idle
  <2>2. hook[h].pay \in PayId BY <2>1 DEF HookType
  <2> QED BY <1>2, <2>2, HookTypes
<1>3. ASSUME NEW p \in PayId, Charge(p) \/ PaymentAges(p)
      PROVE  TradingTypeOK' /\ SettlementTypeOK'
  <2>1. CASE Charge(p) BY <2>1, TradingFrame DEF Charge, SettlementTypeOK
  <2>2. CASE PaymentAges(p)
    <3>1. payment[p] \in PaymentType BY <2>2 DEF PaymentAges, SettlementTypeOK, NoPayment
    <3>2. [payment[p] EXCEPT !.recent = FALSE] \in PaymentType BY <3>1 DEF PaymentType
    <3> QED BY <2>2, <3>2, TradingFrame DEF PaymentAges, SettlementTypeOK
  <2> QED BY <1>3, <2>1, <2>2
<1> QED BY <1>1, <1>2, <1>3, CheckoutTypes, HookTypes, ReleaseTypes DEF SettlementNext

----------------------------------------------------------------------------
(* Disputes, Sweeper, Customs                                              *)

LEMMA SettlementFrame ==
  ASSUME SettlementTypeOK, UNCHANGED settlementVars
  PROVE  SettlementTypeOK'
BY DEF SettlementTypeOK, settlementVars

LEMMA EditedType ==
  ASSUME DisputesTypeOK, NEW d \in DisputeId, dispute[d] \in DisputeType,
         NEW status \in InProgress \cup {"RESOLVED"}
  PROVE  Edited(d, status) \in [DisputeId -> DisputeType \cup {NoDispute}]
BY DEF DisputesTypeOK, Edited, DisputeType

(* Every step of open() and of addEvidence() keeps the types.              *)
LEMMA PartyTypes ==
  ASSUME TypeOK, RowsExist,
         \/ \E p \in Parties :
              \/ \E o \in Orders, role \in {"BUYER", "SUPPLIER"} : OpenStart(p, o, role)
              \/ OpenCreate(p) \/ OpenAdvance(p)
         \/ \E e \in Witnesses : EvidenceWrite(e) \/ \E d \in DisputeId : EvidenceStart(e, d)
  PROVE  TradingTypeOK' /\ SettlementTypeOK' /\ DisputesTypeOK'
<1> USE DEF TypeOK
<1>1. ASSUME NEW p \in Parties, NEW o \in Orders, NEW role \in {"BUYER", "SUPPLIER"},
             OpenStart(p, o, role)
      PROVE  TradingTypeOK' /\ SettlementTypeOK' /\ DisputesTypeOK'
  <2>1. OpeningFrame(o, role) \in OpeningType BY DEF OpeningFrame, OpeningType
  <2> QED BY <1>1, <2>1, TradingFrame, SettlementFrame DEF OpenStart, DisputesTypeOK
<1>2. ASSUME NEW p \in Parties, OpenCreate(p)
      PROVE  TradingTypeOK' /\ SettlementTypeOK' /\ DisputesTypeOK'
  <2>1. opening[p] \in OpeningType BY <1>2 DEF OpenCreate, DisputesTypeOK, Idle
  <2>2. [opening[p] EXCEPT !.at = "advance"] \in OpeningType BY <2>1 DEF OpeningType
  <2>3. [status |-> "OPEN", order |-> opening[p].order, version |-> 0] \in DisputeType
    BY <2>1 DEF OpeningType, DisputeType, InProgress
  <2>4. dispute' \in [DisputeId -> DisputeType \cup {NoDispute}]
    BY <1>2, <2>3 DEF OpenCreate, DisputesTypeOK
  <2> QED BY <1>2, <2>2, <2>4, TradingFrame, SettlementFrame DEF OpenCreate, DisputesTypeOK
<1>3. ASSUME NEW p \in Parties, OpenAdvance(p)
      PROVE  TradingTypeOK' /\ SettlementTypeOK' /\ DisputesTypeOK'
  <2>1. opening[p] \in OpeningType BY <1>3 DEF OpenAdvance, DisputesTypeOK, Idle
  <2>2. p \in Callers /\ opening[p].order \in Orders
    BY <2>1, DisputesAssumption DEF DisputesAssumption, OpeningType
  <2>3. "DISPUTED" \in OrderStatus /\ {opening[p].role} \in SUBSET RoleCode
    BY <2>1 DEF OpeningType, OrderStatus, RoleCode
  <2>4. TradingTypeOK' BY <1>3, <2>2, <2>3, BeginOnlyType DEF OpenAdvance
  <2> QED BY <1>3, <2>4, SettlementFrame DEF OpenAdvance, DisputesTypeOK
<1>4. ASSUME NEW e \in Witnesses, NEW d \in DisputeId, EvidenceStart(e, d)
      PROVE  TradingTypeOK' /\ SettlementTypeOK' /\ DisputesTypeOK'
  <2>1. [at |-> "write", dispute |-> d] \in EvidenceType BY DEF EvidenceType
  <2> QED BY <1>4, <2>1, TradingFrame, SettlementFrame DEF EvidenceStart, DisputesTypeOK
<1>5. ASSUME NEW e \in Witnesses, EvidenceWrite(e)
      PROVE  TradingTypeOK' /\ SettlementTypeOK' /\ DisputesTypeOK'
  <2>1. evidence[e] \in EvidenceType /\ evidence[e] # Idle
    BY <1>5 DEF EvidenceWrite, DisputesTypeOK, Idle
  <2>2. evidence[e].dispute \in DisputeId /\ dispute[evidence[e].dispute] \in DisputeType
    BY <2>1 DEF RowsExist, DisputesTypeOK, EvidenceType
  <2>3. dispute' \in [DisputeId -> DisputeType \cup {NoDispute}]
    BY <1>5, <2>2, EditedType DEF EvidenceWrite, InProgress
  <2> QED BY <1>5, <2>3, TradingFrame, SettlementFrame DEF EvidenceWrite, DisputesTypeOK
<1> QED BY <1>1, <1>2, <1>3, <1>4, <1>5

LEMMA RefundedType ==
  ASSUME SettlementTypeOK, NEW o \in Orders, NEW refund \in Nat
  PROVE  Refunded(o, refund) \in [PayId -> PaymentType \cup {NoPayment}]
<1>1. ASSUME NEW p \in Succeeded(o), NEW status \in {"REFUNDED", "PARTIAL_REFUND"}
      PROVE  [payment[p] EXCEPT !.status = status] \in PaymentType
  <2>1. payment[p] \in PaymentType BY DEF Succeeded, SettlementTypeOK, NoPayment
  <2> QED BY <2>1 DEF PaymentType
<1> QED BY <1>1 DEF Refunded, Succeeded, SettlementTypeOK

(* Every step of resolve() keeps the types.                                *)
LEMMA StaffTypes ==
  ASSUME TypeOK, RowsExist, NEW s \in Staff,
         \/ \E d \in DisputeId, refund \in Decisions, role \in StaffRoles :
              RuleStart(s, d, refund, role)
         \/ RuleBook(s) \/ RuleAdvance(s)
  PROVE  TradingTypeOK' /\ SettlementTypeOK' /\ DisputesTypeOK'
<1> USE DEF TypeOK
<1> DEFINE f == ruling[s]
<1>1. ASSUME NEW d \in DisputeId, NEW refund \in Decisions, NEW role \in StaffRoles,
             RuleStart(s, d, refund, role)
      PROVE  TradingTypeOK' /\ SettlementTypeOK' /\ DisputesTypeOK'
  <2>1. dispute[d] \in DisputeType
    BY <1>1 DEF RuleStart, DisputesTypeOK, NoDispute, InProgress
  <2>2. refund \in Nat
    BY SettlementAssumption, DisputesAssumption DEF Decisions, SettlementAssumption,
         DisputesAssumption
  <2>3. [at |-> "book", dispute |-> d, order |-> dispute[d].order,
         refund |-> refund, role |-> role] \in RulingType
    BY <2>1, <2>2 DEF RulingType, DisputeType
  <2> QED BY <1>1, <2>3, TradingFrame, SettlementFrame DEF RuleStart, DisputesTypeOK
<1>2. CASE RuleBook(s)
  <2>1. f \in RulingType /\ f # Idle BY <1>2 DEF RuleBook, DisputesTypeOK, Idle
  <2>2. f.dispute \in DisputeId /\ f.order \in Orders /\ f.refund \in Nat BY <2>1 DEF RulingType
  <2>3. dispute[f.dispute] \in DisputeType BY <2>1, <2>2 DEF RowsExist, DisputesTypeOK
  <2>4. dispute' \in [DisputeId -> DisputeType \cup {NoDispute}]
    BY <1>2, <2>2, <2>3, EditedType DEF RuleBook
  <2>5. CommissionOn(Total - f.refund) \in Int
    BY <2>2, CommissionType, SettlementAssumption DEF SettlementAssumption
  <2>6. ledger[f.order] \in AccountsType BY <2>2 DEF SettlementTypeOK
  <2>7. Distributed(f.order, f.refund) \in AccountsType
    BY <2>2, <2>5, <2>6, SettlementAssumption DEF Distributed, DistributedTo, AccountsType,
         SettlementAssumption
  <2>8. ledger' \in [Orders -> AccountsType] BY <1>2, <2>2, <2>7 DEF RuleBook, SettlementTypeOK
  <2>9. payment' \in [PayId -> PaymentType \cup {NoPayment}]
    BY <1>2, <2>2, RefundedType DEF RuleBook
  <2>10. [f EXCEPT !.at = "advance"] \in RulingType BY <2>1 DEF RulingType
  <2> QED BY <1>2, <2>4, <2>8, <2>9, <2>10, TradingFrame
        DEF RuleBook, SettlementTypeOK, DisputesTypeOK
<1>3. CASE RuleAdvance(s)
  <2>1. f \in RulingType BY <1>3 DEF RuleAdvance, DisputesTypeOK, Idle
  <2>2. s \in Callers /\ f.order \in Orders
    BY <2>1, DisputesAssumption DEF DisputesAssumption, RulingType
  <2>3. "RESOLVED" \in OrderStatus /\ {f.role} \in SUBSET RoleCode
    BY <2>1 DEF RulingType, StaffRoles, OrderStatus, RoleCode
  <2>4. TradingTypeOK' BY <1>3, <2>2, <2>3, BeginOnlyType DEF RuleAdvance
  <2> QED BY <1>3, <2>4, SettlementFrame DEF RuleAdvance, DisputesTypeOK
<1> QED BY <1>1, <1>2, <1>3

LEMMA DisputesFrame ==
  ASSUME DisputesTypeOK, UNCHANGED disputeVars
  PROVE  DisputesTypeOK'
BY DEF DisputesTypeOK, disputeVars

(* Every step of a sweep keeps the types.                                  *)
LEMMA SweepTypes ==
  ASSUME TypeOK, NEW s \in Sweepers, SweepStep(s)
  PROVE  TradingTypeOK' /\ SettlementTypeOK' /\ SweeperTypeOK'
<1> USE DEF TypeOK
<1>1. ASSUME NEW o \in Orders, SweepStart(s, o)
      PROVE  TradingTypeOK' /\ SettlementTypeOK' /\ SweeperTypeOK'
  BY <1>1, TradingFrame, SettlementFrame DEF SweepStart, SweeperTypeOK, SweepType
<1>2. CASE SweepCancel(s)
  <2>1. sweep[s].order \in Orders BY <1>2 DEF SweepCancel, SweeperTypeOK, SweepType, Idle
  <2>2. s \in Callers BY SweeperAssumption DEF SweeperAssumption
  <2>3. "CANCELLED" \in OrderStatus /\ {"SYSTEM"} \in SUBSET RoleCode
    BY DEF OrderStatus, RoleCode
  <2>4. TradingTypeOK' BY <1>2, <2>1, <2>2, <2>3, BeginOnlyType DEF SweepCancel
  <2> QED BY <1>2, <2>4, SettlementFrame DEF SweepCancel, SweeperTypeOK
<1>3. CASE OrphanRead(s)
  <2>1. sweep[s] \in SweepType BY <1>3 DEF OrphanRead, SweeperTypeOK, Idle
  <2>2. [sweep[s] EXCEPT !.at = "release"] \in SweepType BY <2>1 DEF SweepType
  <2> QED BY <1>3, <2>2, TradingFrame, SettlementFrame DEF OrphanRead, SweeperTypeOK
<1>4. CASE OrphanRelease(s)
  <2>1. sweep[s].order \in Orders BY <1>4 DEF OrphanRelease, SweeperTypeOK, SweepType, Idle
  <2>2. reservation' \in [Orders -> ReservationType]
    BY <1>4, <2>1, ReleasedType DEF OrphanRelease
  <2> QED BY <1>4, <2>2, SettlementFrame DEF OrphanRelease, TradingTypeOK, SweeperTypeOK
<1>5. CASE OrphanAbort(s)
  BY <1>5, TradingFrame, SettlementFrame DEF OrphanAbort, SweeperTypeOK
<1> QED BY <1>1, <1>2, <1>3, <1>4, <1>5 DEF SweepStep

(* Every step of a customs officer keeps the types.                        *)
LEMMA CustomsTypes ==
  ASSUME TypeOK, CustomsNext
  PROVE  TradingTypeOK' /\ CustomsTypeOK'
<1> USE DEF TypeOK
<1>1. ASSUME NEW o \in Orders, Declare(o) PROVE TradingTypeOK' /\ CustomsTypeOK'
  BY <1>1, TradingFrame DEF Declare, CustomsTypeOK, CustomsStatus
<1>2. ASSUME NEW f \in Officers, NEW o \in Orders, NEW to \in CustomsStatus, CustomsStart(f, o, to)
      PROVE  TradingTypeOK' /\ CustomsTypeOK'
  BY <1>2, TradingFrame DEF CustomsStart, CustomsTypeOK, CustomsType
<1>3. ASSUME NEW f \in Officers, CustomsUpdate(f) PROVE TradingTypeOK' /\ CustomsTypeOK'
  <2>1. customs[f] \in CustomsType BY <1>3 DEF CustomsUpdate, CustomsTypeOK, NoCall
  <2>2. TargetOf(customs[f].to) \in OrderStatus \cup {"none"} BY DEF TargetOf, OrderStatus
  <2>3. \A m \in OrderStatus \cup {"none"} :
          [customs[f] EXCEPT !.at = "commit", !.moves = m] \in CustomsType
    BY <2>1 DEF CustomsType
  <2>4. customs' \in [Officers -> CustomsType \cup {NoCall}]
    BY <1>3, <2>2, <2>3 DEF CustomsUpdate, CustomsTypeOK
  <2> QED BY <1>3, <2>4, TradingFrame DEF CustomsUpdate, CustomsTypeOK
<1>4. ASSUME NEW f \in Officers, CustomsCommit(f) PROVE TradingTypeOK' /\ CustomsTypeOK'
  <2>1. customs[f] \in CustomsType BY <1>4 DEF CustomsCommit, CustomsTypeOK, NoCall
  <2>2. customs[f].order \in Orders /\ customs[f].to \in CustomsStatus
        /\ customs[f].moves \in OrderStatus \cup {"none"}
    BY <2>1 DEF CustomsType
  <2>3. order' \in [Orders -> OrderType]
    BY <1>4, <2>2, WrittenType DEF CustomsCommit, TradingTypeOK
  <2> QED BY <1>4, <2>2, <2>3 DEF CustomsCommit, CustomsTypeOK, TradingTypeOK
<1> QED BY <1>1, <1>2, <1>3, <1>4 DEF CustomsNext

----------------------------------------------------------------------------
(* Type correctness                                                        *)

LEMMA InitTypes == Init => TypeInv
<1> SUFFICES ASSUME Init PROVE TypeInv OBVIOUS
<1>1. TradingTypeOK
  BY DEF Init, TradingInit, TradingTypeOK, OrderType, OrderStatus, ReservationType
<1>2. SettlementTypeOK
  BY DEF Init, SettlementInit, SettlementTypeOK, AccountsType
<1>3. DisputesTypeOK /\ SweeperTypeOK /\ CustomsTypeOK /\ crashes \in Nat
  BY DEF Init, DisputesInit, SweeperInit, CustomsInit, DisputesTypeOK, SweeperTypeOK, CustomsTypeOK
<1>4. HoldsHead /\ RowsExist
  BY DEF Init, SettlementInit, DisputesInit, HoldsHead, RowsExist
<1> QED BY <1>1, <1>2, <1>3, <1>4 DEF TypeInv, TypeOK

LEMMA CrashTypes ==
  ASSUME TypeOK, Crash
  PROVE  TypeOK'
<1>1. TradingTypeOK' BY DEF Crash, TypeOK, TradingTypeOK
<1>2. SettlementTypeOK' BY DEF Crash, TypeOK, SettlementTypeOK, moneyVars
<1>3. DisputesTypeOK' /\ SweeperTypeOK' /\ CustomsTypeOK' /\ crashes' \in Nat
  BY DEF Crash, TypeOK, DisputesTypeOK, SweeperTypeOK, CustomsTypeOK
<1> QED BY <1>1, <1>2, <1>3 DEF TypeOK

LEMMA NextTypes ==
  ASSUME TypeInv, [Next]_vars
  PROVE  TypeOK'
<1> USE DEF TypeInv, TypeOK
<1>1. CASE OrderSteps
  <2>1. TradingTypeOK'
    BY <1>1, OrderStepType, CallStepType DEF OrderSteps, TradingNext
  <2> QED BY <1>1, <2>1, SettlementFrame, DisputesFrame
        DEF OrderSteps, SweeperTypeOK, CustomsTypeOK, customsVars
<1>2. CASE MoneySteps
  <2>1. TradingTypeOK' /\ SettlementTypeOK' BY <1>2, SettlementTypes DEF MoneySteps
  <2> QED BY <1>2, <2>1, DisputesFrame DEF MoneySteps, SweeperTypeOK, CustomsTypeOK, customsVars
<1>3. CASE DisputeSteps
  <2>1. TradingTypeOK' /\ SettlementTypeOK' /\ DisputesTypeOK'
    BY <1>3, PartyTypes, StaffTypes DEF DisputeSteps, DisputesNext
  <2> QED BY <1>3, <2>1 DEF DisputeSteps, SweeperTypeOK, CustomsTypeOK, customsVars
<1>4. CASE SweepSteps
  <2>1. TradingTypeOK' /\ SettlementTypeOK' /\ SweeperTypeOK' BY <1>4, SweepTypes DEF SweepSteps
  <2> QED BY <1>4, <2>1, DisputesFrame DEF SweepSteps, CustomsTypeOK, customsVars
<1>5. CASE CustomsSteps
  <2>1. TradingTypeOK' /\ CustomsTypeOK' BY <1>5, CustomsTypes DEF CustomsSteps
  <2> QED BY <1>5, <2>1, SettlementFrame, DisputesFrame DEF CustomsSteps, SweeperTypeOK
<1>6. CASE Crash BY <1>6, CrashTypes
<1>7. CASE UNCHANGED vars
  BY <1>7, TradingFrame, SettlementFrame, DisputesFrame
    DEF vars, SweeperTypeOK, CustomsTypeOK, customsVars
<1> QED BY <1>1, <1>2, <1>3, <1>4, <1>5, <1>6, <1>7 DEF Next

(* Only the dispatcher takes an event out of the outbox.                   *)
LEMMA OutboxGrows ==
  ASSUME TypeInv, [Next]_vars, outbox' # outbox, \A d \in Dispatcher : ~Publish(d)
  PROVE  \E w \in Callers :
           /\ CommitTransition(w) /\ call[w].order \in Orders
           /\ outbox' = Append(outbox, call[w].order)
<1>1. CASE OrderSteps
  <2>1. ASSUME NEW w \in Callers, CommitTransition(w)
        PROVE  call[w].order \in Orders /\ outbox' = Append(outbox, call[w].order)
    <3>1. call[w].order \in Orders
      BY <2>1, CallFrame DEF CommitTransition, TypeInv, TypeOK, CallType
    <3> QED BY <2>1, <3>1 DEF CommitTransition, Published
  <2>2. ASSUME NEW w \in Callers, CallStep(w), ~CommitTransition(w) PROVE outbox' = outbox
    BY <2>2 DEF CallStep, ShipGuards, VersionConflict, CommitCancel, LockShip, CommitShip,
         AbortShip, Continue
  <2>3. ASSUME NEW o \in Orders, OrderStep(o) PROVE outbox' = outbox
    BY <2>3 DEF OrderStep, Place, RegisterShipment, RegisterDocuments, MarkPaid, TtlExpires,
         DisputeWindowCloses, Request
  <2> QED BY <1>1, <2>1, <2>2, <2>3 DEF OrderSteps, TradingNext
<1>2. CASE MoneySteps
  BY <1>2 DEF MoneySteps, SettlementNext, tradingVars, CheckoutStart, CheckoutPrice,
    CheckoutReuse, CheckoutCreate, Charge, PaymentAges, HookStart, HookSettle, HookBook,
    HookAdvance, Dispatch, ReleaseStatus, ReleaseTransfer, ReleaseBook, ReleaseComplete, Onboard
<1>3. CASE DisputeSteps
  BY <1>3 DEF DisputeSteps, DisputesNext, tradingVars, OpenStart, OpenCreate, OpenAdvance,
    EvidenceStart, EvidenceWrite, RuleStart, RuleBook, RuleAdvance
<1>4. CASE SweepSteps
  BY <1>4 DEF SweepSteps, SweepStep, tradingVars, SweepStart, SweepCancel, OrphanRead,
    OrphanRelease, OrphanAbort
<1>5. CASE CustomsSteps
  BY <1>5 DEF CustomsSteps, CustomsNext, tradingVars, Declare, CustomsStart, CustomsUpdate,
    CustomsCommit
<1>6. CASE Crash BY <1>6 DEF Crash
<1>7. CASE UNCHANGED vars BY <1>7 DEF vars, tradingVars
<1> QED BY <1>1, <1>2, <1>3, <1>4, <1>5, <1>6, <1>7 DEF Next

(* No step but those of the dispatcher, and a crash, changes its frame,    *)
(* and a frame keeps its order until it ends.                              *)
LEMMA FrameKept ==
  ASSUME TypeInv, [Next]_vars, NEW d \in Dispatcher, ~Dispatch(d)
  PROVE  release'[d] = Idle \/ (release[d] # Idle /\ release'[d].order = release[d].order)
<1>0. release' = release =>
        release'[d] = Idle \/ (release[d] # Idle /\ release'[d].order = release[d].order)
  OBVIOUS
<1>1. CASE OrderSteps BY <1>1, <1>0 DEF OrderSteps, settlementVars
<1>2. CASE MoneySteps
  <2>1. ASSUME NEW e \in Dispatcher, NEW at, To(e, at), release[e] # Idle
        PROVE  release'[d] = Idle \/ (release[d] # Idle /\ release'[d].order = release[d].order)
    <3>1. e = d BY SettlementAssumption DEF SettlementAssumption
    <3>2. release[d] \in ReleaseType /\ release \in [Dispatcher -> ReleaseType \cup {Idle}]
      BY <2>1, <3>1 DEF TypeInv, TypeOK, SettlementTypeOK
    <3> QED BY <2>1, <3>1, <3>2 DEF To, ReleaseType
  <2>2. ASSUME NEW e \in Dispatcher,
               \/ ReleaseStatus(e) \/ ReleaseTransfer(e, InDispute) \/ ReleaseBook(e)
               \/ ReleaseComplete(e)
        PROVE  release[e] # Idle /\ \E at : To(e, at)
    BY <2>2 DEF ReleaseStatus, ReleaseTransfer, ReleaseBook, ReleaseComplete, Idle
  <2>3. ASSUME NEW e \in Dispatcher, Publish(e) PROVE release'[d] = Idle
    <3>1. e = d BY SettlementAssumption DEF SettlementAssumption
    <3> QED BY <2>3, <3>1 DEF Publish, TypeInv, TypeOK, SettlementTypeOK
  <2>4. ASSUME NEW e \in Dispatcher, Dispatch(e) PROVE FALSE
    BY <2>4, SettlementAssumption DEF SettlementAssumption
  <2>5. \/ release' = release
        \/ \E e \in Dispatcher :
             \/ Dispatch(e) \/ ReleaseStatus(e) \/ ReleaseTransfer(e, InDispute) \/ ReleaseBook(e)
             \/ ReleaseComplete(e) \/ Publish(e)
    BY <1>2 DEF MoneySteps, SettlementNext, CheckoutStart, CheckoutPrice,
      CheckoutReuse, CheckoutCreate, Charge, PaymentAges, HookStart, HookSettle, HookBook,
      HookAdvance, Onboard
  <2>6. CASE release' = release BY <2>6, <1>0
  <2>7. CASE \E e \in Dispatcher :
               \/ ReleaseStatus(e) \/ ReleaseTransfer(e, InDispute) \/ ReleaseBook(e)
               \/ ReleaseComplete(e)
    <3>1. PICK e \in Dispatcher :
            \/ ReleaseStatus(e) \/ ReleaseTransfer(e, InDispute) \/ ReleaseBook(e)
            \/ ReleaseComplete(e)
      BY <2>7
    <3>2. release[e] # Idle /\ \E at : To(e, at) BY <3>1, <2>2
    <3> QED BY <3>2, <2>1
  <2>8. CASE \E e \in Dispatcher : Publish(e) BY <2>8, <2>3
  <2>9. ~ \E e \in Dispatcher : Dispatch(e) BY <2>4
  <2> QED BY <2>5, <2>6, <2>7, <2>8, <2>9
<1>3. CASE DisputeSteps
  BY <1>3, <1>0 DEF DisputeSteps, DisputesNext, settlementVars, OpenStart, OpenCreate, OpenAdvance,
    EvidenceStart, EvidenceWrite, RuleStart, RuleBook, RuleAdvance
<1>4. CASE SweepSteps
  BY <1>4, <1>0 DEF SweepSteps, SweepStep, settlementVars, SweepStart, SweepCancel, OrphanRead,
    OrphanRelease, OrphanAbort
<1>5. CASE CustomsSteps BY <1>5, <1>0 DEF CustomsSteps, settlementVars
<1>6. CASE Crash
  <2>1. release' = [e \in Dispatcher |-> Idle] BY <1>6 DEF Crash
  <2>2. release'[d] = Idle BY <2>1
  <2> QED BY <2>2
<1>7. CASE UNCHANGED vars BY <1>7, <1>0 DEF vars, settlementVars
<1> QED BY <1>1, <1>2, <1>3, <1>4, <1>5, <1>6, <1>7 DEF Next

LEMMA HoldsHeadStep ==
  ASSUME TypeInv, [Next]_vars
  PROVE  HoldsHead'
<1> SUFFICES ASSUME NEW d \in Dispatcher, release'[d] # Idle
             PROVE  outbox' # << >> /\ release'[d].order = Head(outbox')
  BY DEF HoldsHead
<1>1. CASE Dispatch(d)
  <2>1. release'[d] = [at |-> "status", order |-> Head(outbox)] /\ outbox # << >>
        /\ outbox' = outbox
    BY <1>1 DEF Dispatch, TypeInv, TypeOK, SettlementTypeOK, tradingVars
  <2> QED BY <2>1
<1>2. CASE ~Dispatch(d)
  <2>1. release[d] # Idle /\ release'[d].order = release[d].order BY <1>2, FrameKept
  <2>2. outbox # << >> /\ release[d].order = Head(outbox) BY <2>1 DEF TypeInv, HoldsHead
  <2>3. ASSUME NEW e \in Dispatcher, Publish(e) PROVE FALSE
    <3>1. e = d BY SettlementAssumption DEF SettlementAssumption
    <3>2. release'[d] = Idle
      BY <2>3, <3>1 DEF Publish, TypeInv, TypeOK, SettlementTypeOK
    <3> QED BY <3>2
  <2>4. outbox' = outbox \/ \E o \in Orders : outbox' = Append(outbox, o)
    BY <2>3, OutboxGrows
  <2>5. outbox \in Seq(Orders) BY DEF TypeInv, TypeOK, TradingTypeOK
  <2>6. ASSUME NEW o \in Orders PROVE Append(outbox, o) # << >> /\ Head(Append(outbox, o)) = Head(outbox)
    BY <2>2, <2>5
  <2> QED BY <2>1, <2>2, <2>4, <2>6
<1> QED BY <1>1, <1>2

(* A row of payments or disputes stays, and keeps its order and amount.    *)
LEMMA PaymentsStay ==
  ASSUME TypeInv, [Next]_vars, NEW p \in PayId, payment[p] # NoPayment
  PROVE  /\ payment'[p] # NoPayment
         /\ payment'[p].order = payment[p].order
         /\ payment'[p].amount = payment[p].amount
<1> DEFINE Stays == /\ payment'[p] # NoPayment
                    /\ payment'[p].order = payment[p].order
                    /\ payment'[p].amount = payment[p].amount
<1>0. payment[p] \in PaymentType /\ payment \in [PayId -> PaymentType \cup {NoPayment}]
  BY DEF TypeInv, TypeOK, SettlementTypeOK
<1>a. payment' = payment => Stays OBVIOUS
<1>b. payment'[p] \in PaymentType => payment'[p] # NoPayment BY DEF PaymentType, NoPayment
<1>1. CASE OrderSteps BY <1>1, <1>a DEF OrderSteps, settlementVars
<1>2. CASE MoneySteps
  <2>1. ASSUME NEW b \in Buyers, CheckoutCreate(b) PROVE payment'[p] = payment[p]
    BY <2>1, <1>0 DEF CheckoutCreate
  <2>2. ASSUME NEW q \in PayId, PaymentAges(q) PROVE Stays
    <3>1. payment' = [payment EXCEPT ![q].recent = FALSE] BY <2>2 DEF PaymentAges
    <3>2. payment'[p] \in PaymentType /\ payment'[p].order = payment[p].order
          /\ payment'[p].amount = payment[p].amount
      BY <3>1, <1>0 DEF PaymentType
    <3> QED BY <3>2, <1>b
  <2>3. ASSUME NEW h \in Hooks, HookBook(h) PROVE Stays
    <3>1. payment' = [payment EXCEPT ![hook[h].pay].status = "SUCCEEDED"] BY <2>3 DEF HookBook
    <3>2. payment'[p] \in PaymentType /\ payment'[p].order = payment[p].order
          /\ payment'[p].amount = payment[p].amount
      BY <3>1, <1>0 DEF PaymentType
    <3> QED BY <3>2, <1>b
  <2>4. \/ payment' = payment
        \/ \E b \in Buyers : CheckoutCreate(b)
        \/ \E q \in PayId : PaymentAges(q)
        \/ \E h \in Hooks : HookBook(h)
    BY <1>2 DEF MoneySteps, SettlementNext, moneyVars, CheckoutStart, CheckoutPrice,
      CheckoutReuse, Charge, HookStart, HookSettle, HookAdvance, Dispatch, ReleaseStatus,
      ReleaseTransfer, ReleaseBook, ReleaseComplete, Publish, Onboard
  <2> QED BY <2>1, <2>2, <2>3, <2>4, <1>a
<1>3. CASE DisputeSteps
  <2>1. ASSUME NEW s \in Staff, RuleBook(s) PROVE Stays
    <3>1. payment' = Refunded(ruling[s].order, ruling[s].refund) BY <2>1 DEF RuleBook
    <3>2. payment'[p] = payment[p]
          \/ \E st \in {"REFUNDED", "PARTIAL_REFUND"} : payment'[p] = [payment[p] EXCEPT !.status = st]
      BY <3>1 DEF Refunded
    <3>3. ASSUME NEW st \in {"REFUNDED", "PARTIAL_REFUND"}
          PROVE  [payment[p] EXCEPT !.status = st] \in PaymentType
                 /\ [payment[p] EXCEPT !.status = st].order = payment[p].order
                 /\ [payment[p] EXCEPT !.status = st].amount = payment[p].amount
      BY <1>0 DEF PaymentType
    <3> QED BY <3>2, <3>3, <1>0, <1>b
  <2>2. payment' = payment \/ \E s \in Staff : RuleBook(s)
    BY <1>3 DEF DisputeSteps, DisputesNext, settlementVars, OpenStart, OpenCreate, OpenAdvance,
      EvidenceStart, EvidenceWrite, RuleStart, RuleAdvance
  <2> QED BY <2>1, <2>2, <1>a
<1>4. CASE SweepSteps
  BY <1>4, <1>a DEF SweepSteps, SweepStep, settlementVars, SweepStart, SweepCancel, OrphanRead,
    OrphanRelease, OrphanAbort
<1>5. CASE CustomsSteps BY <1>5, <1>a DEF CustomsSteps, settlementVars
<1>6. CASE Crash BY <1>6, <1>a DEF Crash, moneyVars
<1>7. CASE UNCHANGED vars BY <1>7, <1>a DEF vars, settlementVars
<1> QED BY <1>1, <1>2, <1>3, <1>4, <1>5, <1>6, <1>7 DEF Next

LEMMA DisputesStay ==
  ASSUME TypeInv, [Next]_vars, NEW d \in DisputeId, dispute[d] # NoDispute
  PROVE  dispute'[d] # NoDispute /\ dispute'[d].order = dispute[d].order
<1> DEFINE Stays == dispute'[d] # NoDispute /\ dispute'[d].order = dispute[d].order
<1>0. dispute[d] \in DisputeType /\ dispute \in [DisputeId -> DisputeType \cup {NoDispute}]
  BY DEF TypeInv, TypeOK, DisputesTypeOK
<1>a. dispute' = dispute => Stays OBVIOUS
<1>1. CASE OrderSteps BY <1>1, <1>a DEF OrderSteps, disputeVars
<1>2. CASE MoneySteps BY <1>2, <1>a DEF MoneySteps, disputeVars
<1>3. CASE DisputeSteps
  <2>1. ASSUME NEW c \in DisputeId, NEW status \in {"INVESTIGATING", "RESOLVED"}, dispute' = Edited(c, status)
        PROVE  Stays
    BY <2>1, <1>0 DEF Edited, DisputeType, NoDispute
  <2>2. ASSUME NEW e \in Witnesses, EvidenceWrite(e) PROVE Stays
    <3>1. evidence[e].dispute \in DisputeId
      BY <2>2 DEF EvidenceWrite, TypeInv, TypeOK, DisputesTypeOK, EvidenceType, Idle
    <3> QED BY <2>2, <2>1, <3>1 DEF EvidenceWrite
  <2>3. ASSUME NEW s \in Staff, RuleBook(s) PROVE Stays
    <3>1. ruling[s].dispute \in DisputeId
      BY <2>3 DEF RuleBook, TypeInv, TypeOK, DisputesTypeOK, RulingType, Idle
    <3> QED BY <2>3, <2>1, <3>1 DEF RuleBook
  <2>4. ASSUME NEW p \in Parties, OpenCreate(p) PROVE dispute'[d] = dispute[d]
    BY <2>4, <1>0 DEF OpenCreate
  <2>5. \/ dispute' = dispute
        \/ \E e \in Witnesses : EvidenceWrite(e)
        \/ \E s \in Staff : RuleBook(s)
        \/ \E p \in Parties : OpenCreate(p)
    BY <1>3 DEF DisputeSteps, DisputesNext, OpenStart, OpenAdvance, EvidenceStart, RuleStart, RuleAdvance
  <2> QED BY <2>2, <2>3, <2>4, <2>5, <1>a
<1>4. CASE SweepSteps BY <1>4, <1>a DEF SweepSteps, disputeVars
<1>5. CASE CustomsSteps BY <1>5, <1>a DEF CustomsSteps, disputeVars
<1>6. CASE Crash BY <1>6, <1>a DEF Crash
<1>7. CASE UNCHANGED vars BY <1>7, <1>a DEF vars, disputeVars
<1> QED BY <1>1, <1>2, <1>3, <1>4, <1>5, <1>6, <1>7 DEF Next

(* A handler in progress keeps to the row and the order it started with.   *)
LEMMA HookKept ==
  ASSUME TypeInv, [Next]_vars, NEW h \in Hooks, ~ \E p \in PayId : HookStart(h, p), hook'[h] # Idle
  PROVE  hook[h] # Idle /\ hook'[h].pay = hook[h].pay /\ hook'[h].order = hook[h].order
<1> DEFINE Kept == hook[h] # Idle /\ hook'[h].pay = hook[h].pay /\ hook'[h].order = hook[h].order
<1>0. hook \in [Hooks -> HookType \cup {Idle}] BY DEF TypeInv, TypeOK, SettlementTypeOK
<1>a. hook' = hook => Kept OBVIOUS
<1>1. CASE OrderSteps BY <1>1, <1>a DEF OrderSteps, settlementVars
<1>2. CASE MoneySteps
  <2>1. ASSUME NEW g \in Hooks, NEW p \in PayId, HookStart(g, p) PROVE Kept
    <3>1. g # h BY <2>1
    <3>2. hook' = [hook EXCEPT ![g] = HookFrame(p)] BY <2>1 DEF HookStart
    <3>3. hook'[h] = hook[h] BY <3>1, <3>2, <1>0
    <3> QED BY <3>3
  <2>2. ASSUME NEW g \in Hooks, HookSettle(g) PROVE Kept
    <3>1. hook[g] # Idle BY <2>2 DEF HookSettle, Idle
    <3>2. CASE g # h
      <4>1. hook'[h] = hook[h] BY <2>2, <3>2, <1>0 DEF HookSettle
      <4> QED BY <4>1
    <3>3. CASE g = h
      <4>1. hook[h] \in HookType BY <3>1, <3>3, <1>0
      <4>2. hook'[h] = [hook[h] EXCEPT !.at = "settle",
                          !.settles = Covered(hook[h].order, payment[hook[h].pay].amount)]
        BY <2>2, <3>3, <1>0 DEF HookSettle
      <4>3. hook'[h].pay = hook[h].pay /\ hook'[h].order = hook[h].order
        BY <4>1, <4>2 DEF HookType
      <4> QED BY <4>3, <3>1, <3>3
    <3> QED BY <3>2, <3>3
  <2>3. ASSUME NEW g \in Hooks, HookBook(g) PROVE Kept
    <3>1. hook[g] # Idle BY <2>3 DEF HookBook, Idle
    <3>2. CASE g # h
      <4>1. hook'[h] = hook[h] BY <2>3, <3>2, <1>0 DEF HookBook
      <4> QED BY <4>1
    <3>3. CASE g = h
      <4>1. hook[h] \in HookType BY <3>1, <3>3, <1>0
      <4>2. hook'[h] = [hook[h] EXCEPT !.at = "advance"] BY <2>3, <3>3, <1>0 DEF HookBook
      <4>3. hook'[h].pay = hook[h].pay /\ hook'[h].order = hook[h].order
        BY <4>1, <4>2 DEF HookType
      <4> QED BY <4>3, <3>1, <3>3
    <3> QED BY <3>2, <3>3
  <2>4. ASSUME NEW g \in Hooks, HookAdvance(g) PROVE Kept
    <3>1. hook' = [hook EXCEPT ![g] = Idle] BY <2>4 DEF HookAdvance
    <3>2. hook'[h] = hook[h] BY <3>1, <1>0
    <3> QED BY <3>2
  <2>5. \/ hook' = hook
        \/ \E g \in Hooks :
             \/ \E p \in PayId : HookStart(g, p)
             \/ HookSettle(g) \/ HookBook(g) \/ HookAdvance(g)
    BY <1>2 DEF MoneySteps, SettlementNext, moneyVars, CheckoutStart, CheckoutPrice,
      CheckoutReuse, CheckoutCreate, Charge, PaymentAges, Dispatch, ReleaseStatus,
      ReleaseTransfer, ReleaseBook, ReleaseComplete, Publish, Onboard
  <2>6. CASE hook' = hook BY <2>6
  <2>7. CASE \E g \in Hooks : \E p \in PayId : HookStart(g, p) BY <2>7, <2>1
  <2>8. CASE \E g \in Hooks : HookSettle(g) \/ HookBook(g) \/ HookAdvance(g)
    BY <2>8, <2>2, <2>3, <2>4
  <2> QED BY <2>5, <2>6, <2>7, <2>8
<1>3. CASE DisputeSteps
  BY <1>3, <1>a DEF DisputeSteps, DisputesNext, settlementVars, OpenStart, OpenCreate, OpenAdvance,
    EvidenceStart, EvidenceWrite, RuleStart, RuleBook, RuleAdvance
<1>4. CASE SweepSteps
  BY <1>4, <1>a DEF SweepSteps, SweepStep, settlementVars, SweepStart, SweepCancel, OrphanRead,
    OrphanRelease, OrphanAbort
<1>5. CASE CustomsSteps BY <1>5, <1>a DEF CustomsSteps, settlementVars
<1>6. CASE Crash
  <2>1. hook' = [g \in Hooks |-> Idle] BY <1>6 DEF Crash
  <2>2. hook'[h] = Idle BY <2>1
  <2> QED BY <2>2
<1>7. CASE UNCHANGED vars BY <1>7, <1>a DEF vars, settlementVars
<1> QED BY <1>1, <1>2, <1>3, <1>4, <1>5, <1>6, <1>7 DEF Next

LEMMA EvidenceKept ==
  ASSUME TypeInv, [Next]_vars, NEW e \in Witnesses, evidence'[e] # Idle,
         ~ \E d \in DisputeId : EvidenceStart(e, d)
  PROVE  evidence[e] # Idle /\ evidence'[e].dispute = evidence[e].dispute
<1> DEFINE Kept == evidence'[e] = evidence[e]
<1>0. evidence \in [Witnesses -> EvidenceType \cup {Idle}] BY DEF TypeInv, TypeOK, DisputesTypeOK
<1>a. evidence' = evidence => Kept OBVIOUS
<1>1. CASE DisputeSteps
  <2>1. ASSUME NEW g \in Witnesses, NEW d \in DisputeId, EvidenceStart(g, d) PROVE Kept
    <3>1. g # e BY <2>1
    <3>2. evidence' = [evidence EXCEPT ![g] = [at |-> "write", dispute |-> d]]
      BY <2>1 DEF EvidenceStart
    <3> QED BY <3>1, <3>2, <1>0
  <2>2. ASSUME NEW g \in Witnesses, EvidenceWrite(g) PROVE Kept
    <3>1. evidence' = [evidence EXCEPT ![g] = Idle] BY <2>2 DEF EvidenceWrite
    <3> QED BY <3>1, <1>0
  <2>3. \/ evidence' = evidence
        \/ \E g \in Witnesses : EvidenceWrite(g) \/ \E d \in DisputeId : EvidenceStart(g, d)
    BY <1>1 DEF DisputeSteps, DisputesNext, OpenStart, OpenCreate, OpenAdvance, RuleStart,
      RuleBook, RuleAdvance
  <2> QED BY <2>1, <2>2, <2>3, <1>a
<1>2. CASE Crash
  <2>1. evidence' = [g \in Witnesses |-> Idle] BY <1>2 DEF Crash
  <2>2. evidence'[e] = Idle BY <2>1
  <2> QED BY <2>2
<1>3. CASE ~DisputeSteps /\ ~Crash
  BY <1>3, <1>a DEF Next, OrderSteps, MoneySteps, SweepSteps, CustomsSteps, disputeVars, vars
<1> QED BY <1>1, <1>2, <1>3

LEMMA RulingKept ==
  ASSUME TypeInv, [Next]_vars, NEW s \in Staff, ruling'[s] # Idle,
         ~ \E d \in DisputeId, refund \in Decisions, role \in StaffRoles :
             RuleStart(s, d, refund, role)
  PROVE  /\ ruling[s] # Idle
         /\ ruling'[s].dispute = ruling[s].dispute /\ ruling'[s].order = ruling[s].order
<1> DEFINE Kept == /\ ruling[s] # Idle
                   /\ ruling'[s].dispute = ruling[s].dispute /\ ruling'[s].order = ruling[s].order
<1>0. ruling \in [Staff -> RulingType \cup {Idle}] BY DEF TypeInv, TypeOK, DisputesTypeOK
<1>a. ruling' = ruling => Kept OBVIOUS
<1>1. CASE DisputeSteps
  <2>1. ASSUME NEW g \in Staff, NEW d \in DisputeId, NEW refund \in Decisions,
               NEW role \in StaffRoles, RuleStart(g, d, refund, role)
        PROVE  Kept
    <3>1. g # s BY <2>1
    <3>2. ruling'[s] = ruling[s] BY <2>1, <3>1, <1>0 DEF RuleStart
    <3> QED BY <3>2
  <2>2. ASSUME NEW g \in Staff, RuleBook(g) PROVE Kept
    <3>1. ruling[g] # Idle BY <2>2 DEF RuleBook, Idle
    <3>2. ruling' = [ruling EXCEPT ![g].at = "advance"] BY <2>2 DEF RuleBook
    <3>3. CASE g # s
      <4>1. ruling'[s] = ruling[s] BY <3>2, <3>3, <1>0
      <4> QED BY <4>1
    <3>4. CASE g = s
      <4>1. ruling[s] \in RulingType BY <3>1, <3>4, <1>0
      <4>2. ruling'[s] = [ruling[s] EXCEPT !.at = "advance"] BY <3>2, <3>4, <1>0
      <4>3. ruling'[s].dispute = ruling[s].dispute /\ ruling'[s].order = ruling[s].order
        BY <4>1, <4>2 DEF RulingType
      <4> QED BY <4>3, <3>1, <3>4
    <3> QED BY <3>3, <3>4
  <2>3. ASSUME NEW g \in Staff, RuleAdvance(g) PROVE Kept
    <3>1. ruling' = [ruling EXCEPT ![g] = Idle] BY <2>3 DEF RuleAdvance
    <3>2. ruling'[s] = ruling[s] BY <3>1, <1>0
    <3> QED BY <3>2
  <2>4. \/ ruling' = ruling
        \/ \E g \in Staff :
             \/ RuleBook(g) \/ RuleAdvance(g)
             \/ \E d \in DisputeId, refund \in Decisions, role \in StaffRoles :
                  RuleStart(g, d, refund, role)
    BY <1>1 DEF DisputeSteps, DisputesNext, OpenStart, OpenCreate, OpenAdvance, EvidenceStart,
      EvidenceWrite
  <2> QED BY <2>1, <2>2, <2>3, <2>4, <1>a
<1>2. CASE Crash
  <2>1. ruling' = [g \in Staff |-> Idle] BY <1>2 DEF Crash
  <2>2. ruling'[s] = Idle BY <2>1
  <2> QED BY <2>2
<1>3. CASE ~DisputeSteps /\ ~Crash
  BY <1>3, <1>a DEF Next, OrderSteps, MoneySteps, SweepSteps, CustomsSteps, disputeVars, vars
<1> QED BY <1>1, <1>2, <1>3

LEMMA RowsExistStep ==
  ASSUME TypeInv, [Next]_vars
  PROVE  RowsExist'
<1>1. ASSUME NEW p \in charged' PROVE payment'[p] # NoPayment
  <2>1. CASE p \in charged
    <3>1. p \in PayId /\ payment[p] # NoPayment
      BY <2>1 DEF TypeInv, TypeOK, SettlementTypeOK, RowsExist
    <3> QED BY <3>1, PaymentsStay
  <2>2. CASE p \notin charged
    <3>1. \E q \in PayId : Charge(q) /\ p = q
      BY <1>1, <2>2 DEF Next, vars, settlementVars, moneyVars, OrderSteps, MoneySteps,
        DisputeSteps, SweepSteps, CustomsSteps, Crash, SettlementNext, CheckoutStart,
        CheckoutPrice, CheckoutReuse, CheckoutCreate, Charge, PaymentAges, HookStart, HookSettle,
        HookBook, HookAdvance, Dispatch, ReleaseStatus, ReleaseTransfer, ReleaseBook,
        ReleaseComplete, Publish, Onboard, DisputesNext, OpenStart, OpenCreate, OpenAdvance,
        EvidenceStart, EvidenceWrite, RuleStart, RuleBook, RuleAdvance, SweepStep, SweepStart,
        SweepCancel, OrphanRead, OrphanRelease, OrphanAbort
    <3>2. payment'[p] = payment[p] /\ payment[p].status = "PENDING" BY <3>1 DEF Charge
    <3> QED BY <3>2 DEF NoPayment
  <2> QED BY <2>1, <2>2
<1>2. ASSUME NEW h \in Hooks, hook'[h] # Idle
      PROVE  payment'[hook'[h].pay] # NoPayment /\ payment'[hook'[h].pay].order = hook'[h].order
  <2>1. CASE \E p \in PayId : HookStart(h, p)
    <3>1. PICK p \in PayId : HookStart(h, p) BY <2>1
    <3>2. hook'[h] = HookFrame(p) /\ p \in charged /\ payment' = payment
      BY <3>1 DEF HookStart, TypeInv, TypeOK, SettlementTypeOK
    <3>3. hook'[h].pay = p /\ hook'[h].order = payment[p].order
      BY <3>2, <1>2 DEF HookFrame
    <3> QED BY <3>2, <3>3 DEF TypeInv, RowsExist
  <2>2. CASE ~ \E p \in PayId : HookStart(h, p)
    <3>1. hook[h] # Idle /\ hook'[h].pay = hook[h].pay /\ hook'[h].order = hook[h].order
      BY <1>2, <2>2, HookKept
    <3>2. payment[hook[h].pay] # NoPayment /\ payment[hook[h].pay].order = hook[h].order
      BY <3>1 DEF TypeInv, RowsExist
    <3>3. hook[h].pay \in PayId BY <3>1 DEF TypeInv, TypeOK, SettlementTypeOK, HookType
    <3> QED BY <3>1, <3>2, <3>3, PaymentsStay
  <2> QED BY <2>1, <2>2
<1>3. ASSUME NEW e \in Witnesses, evidence'[e] # Idle PROVE dispute'[evidence'[e].dispute] # NoDispute
  <2>1. CASE \E d \in DisputeId : EvidenceStart(e, d)
    <3>1. PICK d \in DisputeId : EvidenceStart(e, d) BY <2>1
    <3>2. evidence'[e].dispute = d /\ dispute' = dispute /\ dispute[d].status \in InProgress
      BY <3>1 DEF EvidenceStart, TypeInv, TypeOK, DisputesTypeOK
    <3> QED BY <3>2 DEF NoDispute, InProgress
  <2>2. CASE ~ \E d \in DisputeId : EvidenceStart(e, d)
    <3>1. evidence[e] # Idle /\ evidence'[e].dispute = evidence[e].dispute
      BY <1>3, <2>2, EvidenceKept
    <3>2. dispute[evidence[e].dispute] # NoDispute BY <3>1 DEF TypeInv, RowsExist
    <3>3. evidence[e].dispute \in DisputeId
      BY <3>1 DEF TypeInv, TypeOK, DisputesTypeOK, EvidenceType
    <3> QED BY <3>1, <3>2, <3>3, DisputesStay
  <2> QED BY <2>1, <2>2
<1>4. ASSUME NEW s \in Staff, ruling'[s] # Idle
      PROVE  dispute'[ruling'[s].dispute] # NoDispute
             /\ dispute'[ruling'[s].dispute].order = ruling'[s].order
  <2>1. CASE \E d \in DisputeId, refund \in Decisions, role \in StaffRoles : RuleStart(s, d, refund, role)
    <3>1. PICK d \in DisputeId, refund \in Decisions, role \in StaffRoles :
            RuleStart(s, d, refund, role)
      BY <2>1
    <3>2. ruling'[s].dispute = d /\ ruling'[s].order = dispute[d].order
          /\ dispute' = dispute /\ dispute[d].status \in InProgress
      BY <3>1 DEF RuleStart, TypeInv, TypeOK, DisputesTypeOK
    <3> QED BY <3>2 DEF NoDispute, InProgress
  <2>2. CASE ~ \E d \in DisputeId, refund \in Decisions, role \in StaffRoles :
                 RuleStart(s, d, refund, role)
    <3>1. ruling[s] # Idle /\ ruling'[s].dispute = ruling[s].dispute
          /\ ruling'[s].order = ruling[s].order
      BY <1>4, <2>2, RulingKept
    <3>2. dispute[ruling[s].dispute] # NoDispute /\ dispute[ruling[s].dispute].order = ruling[s].order
      BY <3>1 DEF TypeInv, RowsExist
    <3>3. ruling[s].dispute \in DisputeId
      BY <3>1 DEF TypeInv, TypeOK, DisputesTypeOK, RulingType
    <3> QED BY <3>1, <3>2, <3>3, DisputesStay
  <2> QED BY <2>1, <2>2
<1> QED BY <1>1, <1>2, <1>3, <1>4 DEF RowsExist

LEMMA TypeStep ==
  ASSUME TypeInv, [Next]_vars
  PROVE  TypeInv'
BY NextTypes, HoldsHeadStep, RowsExistStep DEF TypeInv

(* Every variable keeps its type, the dispatcher holds the head of the     *)
(* outbox and no handler refers to a row that does not exist.              *)
THEOREM TypeInvariance == Spec => []TypeInv
<1>1. TypeInv /\ [Next]_vars => TypeInv' BY TypeStep
<1> QED BY InitTypes, <1>1, PTL DEF Spec

(* Every variable of the marketplace keeps its type: rows, ledgers and the *)
(* frames of the handlers in progress.                                     *)
THEOREM TypeCorrect == Spec => []TypeOK
<1>1. TypeInv => TypeOK BY DEF TypeInv
<1> QED BY TypeInvariance, <1>1, PTL

----------------------------------------------------------------------------
(* The life of an order                                                    *)

InTransition(w) == call[w].at \in {"guards", "commit", "ship"}

(* What a caller inside transition() has checked, and what of it is still  *)
(* true of the row.                                                        *)
FrameOK(w) ==
  LET c == call[w]
  IN /\ Allowed(OrderTable, c.seen, c.to, c.roles)
     /\ c.seen # "DRAFT"
     /\ c.version <= order[c.order].version
     /\ c.version = order[c.order].version => c.seen = order[c.order].status
     /\ c.at = "ship" => c.to = "SHIPPED" /\ c.version = order[c.order].version
     /\ c.at = "guards" => c.to = "SHIPPED"
     /\ c.at \in {"commit", "ship"} /\ c.to = "SHIPPED" => MayShip(c.order)

CallsOK == \A w \in Callers : InTransition(w) => FrameOK(w)

(* The row lock: at most one caller ships an order.                        *)
OneShipper ==
  \A v, w \in Callers :
    call[v].at = "ship" /\ call[w].at = "ship" /\ call[v].order = call[w].order => v = w

(* A customs transaction about to move an order has found it shipped.      *)
CustomsOK ==
  \A f \in Officers :
    customs[f].at = "commit" /\ customs[f].moves # "none" =>
      /\ customs[f].moves \in {"IN_CUSTOMS", "CUSTOMS_CLEARED"}
      /\ order[customs[f].order].status \in ShippedStates

OrderInv ==
  /\ TypeInv /\ CallsOK /\ OneShipper /\ CustomsOK
  /\ OutboundOnce /\ PaidUpBeforeShipping /\ CancelledHoldsNothing

----------------------------------------------------------------------------
(* The table                                                               *)

(* Once shipped, always shipped; the only way into the shipped states is   *)
(* the edge to SHIPPED; nothing leads back to DRAFT, and nothing that was  *)
(* cancelled goes on.                                                      *)
LEMMA TableFacts ==
  ASSUME NEW from, NEW to, NEW roles, Allowed(OrderTable, from, to, roles)
  PROVE  /\ IsEdge(OrderTable, from, to)
         /\ from \in OrderStatus /\ to \in OrderStatus
         /\ from \in ShippedStates => to \in ShippedStates /\ to # "SHIPPED"
         /\ to \in ShippedStates => from \in ShippedStates \/ to = "SHIPPED"
         /\ to # "DRAFT" /\ from # "CANCELLED"
         /\ to = "PLACED" => from = "DRAFT"
BY DEF Allowed, IsEdge, OrderTable, Edge, ShippedStates, OrderStatus

(* A customs officer can only be granted a move between shipped states.    *)
LEMMA OfficerFacts ==
  ASSUME NEW from, NEW to, Allowed(OrderTable, from, to, OfficerRoles)
  PROVE  from \in ShippedStates
BY DEF Allowed, OrderTable, Edge, ShippedStates, OfficerRoles

----------------------------------------------------------------------------
(* What a step may change                                                  *)

(* The writers of an order row.                                            *)
LEMMA OrderWriters ==
  ASSUME TypeInv, [Next]_vars, NEW o \in Orders, order'[o] # order[o]
  PROVE  \/ Place(o) \/ DisputeWindowCloses(o)
         \/ \E w \in Callers :
              /\ call[w].order = o
              /\ CommitTransition(w) \/ CommitCancel(w) \/ CommitShip(w)
         \/ \E f \in Officers :
              customs[f].order = o /\ customs[f].moves # "none" /\ CustomsCommit(f)
<1>0. order \in [Orders -> OrderType] BY DEF TypeInv, TypeOK, TradingTypeOK
<1>1. CASE OrderSteps
  <2>1. ASSUME NEW q \in Orders, Place(q) \/ DisputeWindowCloses(q) PROVE q = o
    BY <2>1, <1>0 DEF Place, DisputeWindowCloses
  <2>2. ASSUME NEW w \in Callers, CommitTransition(w) \/ CommitCancel(w) \/ CommitShip(w)
        PROVE  call[w].order = o
    BY <2>2, <1>0 DEF CommitTransition, CommitCancel, CommitShip, Written
  <2>3. \/ \E q \in Orders : Place(q) \/ DisputeWindowCloses(q)
        \/ \E w \in Callers : CommitTransition(w) \/ CommitCancel(w) \/ CommitShip(w)
    BY <1>1 DEF OrderSteps, TradingNext, OrderStep, RegisterShipment, RegisterDocuments, MarkPaid,
      TtlExpires, Request, CallStep, ShipGuards, VersionConflict, LockShip, AbortShip, Continue
  <2> QED BY <2>1, <2>2, <2>3
<1>2. CASE CustomsSteps
  <2>1. ASSUME NEW f \in Officers, CustomsCommit(f)
        PROVE  customs[f].order = o /\ customs[f].moves # "none"
    BY <2>1, <1>0 DEF CustomsCommit, Written
  <2>2. \E f \in Officers : CustomsCommit(f)
    BY <1>2 DEF CustomsSteps, CustomsNext, tradingVars, Declare, CustomsStart, CustomsUpdate
  <2> QED BY <2>1, <2>2
<1>3. CASE MoneySteps
  BY <1>3 DEF MoneySteps, SettlementNext, tradingVars, CheckoutStart, CheckoutPrice,
    CheckoutReuse, CheckoutCreate, Charge, PaymentAges, HookStart, HookSettle, HookBook,
    HookAdvance, Dispatch, ReleaseStatus, ReleaseTransfer, ReleaseBook, ReleaseComplete, Publish,
    Onboard
<1>4. CASE DisputeSteps
  BY <1>4 DEF DisputeSteps, DisputesNext, tradingVars, OpenStart, OpenCreate, OpenAdvance,
    EvidenceStart, EvidenceWrite, RuleStart, RuleBook, RuleAdvance
<1>5. CASE SweepSteps
  BY <1>5 DEF SweepSteps, SweepStep, tradingVars, SweepStart, SweepCancel, OrphanRead,
    OrphanRelease, OrphanAbort
<1>6. CASE Crash BY <1>6 DEF Crash
<1>7. CASE UNCHANGED vars BY <1>7 DEF vars, tradingVars
<1> QED BY <1>1, <1>2, <1>3, <1>4, <1>5, <1>6, <1>7 DEF Next

(* Registered paperwork and paid instalments stay.                         *)
LEMMA GuardsStay ==
  ASSUME TypeInv, [Next]_vars, NEW o \in Orders, MayShip(o)
  PROVE  MayShip(o)'
<1>0. paperwork \in [Orders -> SUBSET {"shipment", "documents"}] /\ paid \in [Orders -> SUBSET Nat]
  BY DEF TypeInv, TypeOK, TradingTypeOK
<1>1. paid[o] \subseteq paid'[o] /\ paperwork[o] \subseteq paperwork'[o]
  <2>1. CASE OrderSteps
    <3>1. ASSUME NEW w \in Callers, CallStep(w) PROVE UNCHANGED <<paid, paperwork>>
      BY <3>1 DEF CallStep, ShipGuards, VersionConflict, CommitTransition, CommitCancel, LockShip,
        CommitShip, AbortShip, Continue
    <3>2. ASSUME NEW q \in Orders, OrderStep(q)
          PROVE  paid[o] \subseteq paid'[o] /\ paperwork[o] \subseteq paperwork'[o]
      BY <3>2, <1>0 DEF OrderStep, Place, RegisterShipment, RegisterDocuments, MarkPaid, TtlExpires,
        DisputeWindowCloses, Request
    <3> QED BY <2>1, <3>1, <3>2 DEF OrderSteps, TradingNext
  <2>2. CASE MoneySteps
    <3>1. ASSUME NEW h \in Hooks, HookBook(h) PROVE paid[o] \subseteq paid'[o] /\ paperwork' = paperwork
      BY <3>1, <1>0 DEF HookBook
    <3>2. UNCHANGED <<paid, paperwork>> \/ \E h \in Hooks : HookBook(h)
      BY <2>2 DEF MoneySteps, SettlementNext, tradingVars, CheckoutStart, CheckoutPrice,
        CheckoutReuse, CheckoutCreate, Charge, PaymentAges, HookStart, HookSettle,
        HookAdvance, Dispatch, ReleaseStatus, ReleaseTransfer, ReleaseBook, ReleaseComplete,
        Publish, Onboard
    <3> QED BY <3>1, <3>2
  <2>3. CASE DisputeSteps
    BY <2>3 DEF DisputeSteps, DisputesNext, tradingVars, OpenStart, OpenCreate, OpenAdvance,
      EvidenceStart, EvidenceWrite, RuleStart, RuleBook, RuleAdvance
  <2>4. CASE SweepSteps
    BY <2>4 DEF SweepSteps, SweepStep, tradingVars, SweepStart, SweepCancel, OrphanRead,
      OrphanRelease, OrphanAbort
  <2>5. CASE CustomsSteps
    BY <2>5 DEF CustomsSteps, CustomsNext, tradingVars, Declare, CustomsStart, CustomsUpdate,
      CustomsCommit
  <2>6. CASE Crash BY <2>6 DEF Crash
  <2>7. CASE UNCHANGED vars BY <2>7 DEF vars, tradingVars
  <2> QED BY <2>1, <2>2, <2>3, <2>4, <2>5, <2>6, <2>7 DEF Next
<1>2. paperwork'[o] \subseteq {"shipment", "documents"}
  BY NextTypes DEF TypeOK, TradingTypeOK
<1> QED BY <1>1, <1>2 DEF MayShip, ReadyToShip, PaidUp, Instalments

(* A caller gets a frame from itself, from a request or from the handler   *)
(* that runs on it.                                                        *)
LEMMA CallWriters ==
  ASSUME TypeInv, [Next]_vars, NEW w \in Callers, call'[w] # call[w], call'[w] # NoCall
  PROVE  \/ CallStep(w)
         \/ \E o \in Orders, r \in OrderRequests : Request(w, o, r)
         \/ w \in Hooks /\ HookAdvance(w)
         \/ w \in Dispatcher /\ ReleaseComplete(w)
         \/ w \in Parties /\ OpenAdvance(w)
         \/ w \in Staff /\ RuleAdvance(w)
         \/ w \in Sweepers /\ SweepCancel(w)
<1>0. call \in [Callers -> CallType \cup {NoCall}] BY DEF TypeInv, TypeOK, TradingTypeOK
<1>a. ASSUME NEW v \in Callers, NEW f, call' = [call EXCEPT ![v] = f] PROVE v = w
  BY <1>a, <1>0
<1>b. ASSUME NEW v \in Callers, NEW o, NEW to, NEW roles, NEW next, Begin(v, o, to, roles, next)
      PROVE  v = w
  BY <1>b, <1>0 DEF Begin
<1>1. CASE OrderSteps
  <2>1. ASSUME NEW v \in Callers, CallStep(v) PROVE v = w
    BY <2>1, <1>0 DEF CallStep, ShipGuards, VersionConflict, CommitTransition, CommitCancel,
      LockShip, CommitShip, AbortShip, Continue, Return
  <2>2. ASSUME NEW c \in Clients, NEW o \in Orders, NEW r \in OrderRequests, Request(c, o, r)
        PROVE  c = w
    BY <2>2, <1>b, TradingAssumption DEF Request, TradingAssumption
  <2>3. \/ \E v \in Callers : CallStep(v)
        \/ \E c \in Clients, o \in Orders, r \in OrderRequests : Request(c, o, r)
    BY <1>1 DEF OrderSteps, TradingNext, OrderStep, Place, RegisterShipment, RegisterDocuments,
      MarkPaid, TtlExpires, DisputeWindowCloses
  <2> QED BY <2>1, <2>2, <2>3
<1>2. CASE MoneySteps
  <2>1. ASSUME NEW h \in Hooks, HookAdvance(h) PROVE h = w
    BY <2>1, <1>b, SettlementAssumption DEF HookAdvance, SettlementAssumption
  <2>2. ASSUME NEW d \in Dispatcher, ReleaseComplete(d) PROVE d = w
    BY <2>2, <1>b, SettlementAssumption DEF ReleaseComplete, SettlementAssumption
  <2>3. \/ \E h \in Hooks : HookAdvance(h)
        \/ \E d \in Dispatcher : ReleaseComplete(d)
    BY <1>2 DEF MoneySteps, SettlementNext, tradingVars, CheckoutStart, CheckoutPrice,
      CheckoutReuse, CheckoutCreate, Charge, PaymentAges, HookStart, HookSettle, HookBook,
      Dispatch, ReleaseStatus, ReleaseTransfer, ReleaseBook, Publish, Onboard
  <2> QED BY <2>1, <2>2, <2>3
<1>3. CASE DisputeSteps
  <2>1. ASSUME NEW p \in Parties, OpenAdvance(p) PROVE p = w
    BY <2>1, <1>b, DisputesAssumption DEF OpenAdvance, DisputesAssumption
  <2>2. ASSUME NEW s \in Staff, RuleAdvance(s) PROVE s = w
    BY <2>2, <1>b, DisputesAssumption DEF RuleAdvance, DisputesAssumption
  <2>3. \/ \E p \in Parties : OpenAdvance(p)
        \/ \E s \in Staff : RuleAdvance(s)
    BY <1>3 DEF DisputeSteps, DisputesNext, tradingVars, OpenStart, OpenCreate, EvidenceStart,
      EvidenceWrite, RuleStart, RuleBook
  <2> QED BY <2>1, <2>2, <2>3
<1>4. CASE SweepSteps
  <2>1. ASSUME NEW s \in Sweepers, SweepCancel(s) PROVE s = w
    BY <2>1, <1>b, SweeperAssumption DEF SweepCancel, SweeperAssumption
  <2>2. \E s \in Sweepers : SweepCancel(s)
    BY <1>4 DEF SweepSteps, SweepStep, tradingVars, SweepStart, OrphanRead, OrphanRelease,
      OrphanAbort
  <2> QED BY <2>1, <2>2
<1>5. CASE CustomsSteps
  BY <1>5 DEF CustomsSteps, CustomsNext, tradingVars, Declare, CustomsStart, CustomsUpdate,
    CustomsCommit
<1>6. CASE Crash
  <2>1. call' = [v \in Callers |-> NoCall] BY <1>6 DEF Crash
  <2> QED BY <2>1
<1>7. CASE UNCHANGED vars BY <1>7 DEF vars, tradingVars
<1> QED BY <1>1, <1>2, <1>3, <1>4, <1>5, <1>6, <1>7 DEF Next

(* The frame that Begin makes.                                             *)
LEMMA BegunFrame ==
  ASSUME TypeInv, NEW w \in Callers, NEW o, NEW to, NEW roles, NEW next,
         Begin(w, o, to, roles, next), call'[w] # NoCall
  PROVE  /\ Allowed(OrderTable, order[o].status, to, roles)
         /\ call'[w] = [at |-> IF to = "SHIPPED" THEN "guards" ELSE "commit",
                        order |-> o, to |-> to, roles |-> roles,
                        seen |-> order[o].status, version |-> order[o].version, next |-> next]
BY DEF Begin, TypeInv, TypeOK, TradingTypeOK

(* This step made the frame of the caller, for an edge it found allowed.   *)
Begun(w) ==
  \E o \in Orders, to \in OrderStatus \ {"PLACED"}, roles \in SUBSET RoleCode,
     next \in {"none", "COMPLETED"} :
    /\ order' = order
    /\ Allowed(OrderTable, order[o].status, to, roles)
    /\ call'[w] = [at |-> IF to = "SHIPPED" THEN "guards" ELSE "commit",
                   order |-> o, to |-> to, roles |-> roles,
                   seen |-> order[o].status, version |-> order[o].version, next |-> next]

(* Where the frame of a caller in transition() comes from: it is the       *)
(* frame of before, at a later step, or it was made by this step.          *)
LEMMA FrameOrigin ==
  ASSUME TypeInv, [Next]_vars, NEW w \in Callers, InTransition(w)'
  PROVE  \/ call'[w] = call[w]
         \/ /\ ShipGuards(w) /\ MayShip(call[w].order)
            /\ call'[w] = [call[w] EXCEPT !.at = "commit"]
         \/ LockShip(w) /\ call'[w] = [call[w] EXCEPT !.at = "ship"]
         \/ Begun(w)
<1>0. call \in [Callers -> CallType \cup {NoCall}] BY DEF TypeInv, TypeOK, TradingTypeOK
<1>a. call'[w] # NoCall BY DEF InTransition, NoCall
<1>b. ASSUME NEW o \in Orders, NEW to \in OrderStatus \ {"PLACED"}, NEW roles \in SUBSET RoleCode,
             NEW next \in {"none", "COMPLETED"}, Begin(w, o, to, roles, next), order' = order
      PROVE  Begun(w)
  <2>1. /\ Allowed(OrderTable, order[o].status, to, roles)
        /\ call'[w] = [at |-> IF to = "SHIPPED" THEN "guards" ELSE "commit",
                       order |-> o, to |-> to, roles |-> roles,
                       seen |-> order[o].status, version |-> order[o].version, next |-> next]
    BY <1>a, <1>b, BegunFrame
  <2> QED BY <1>b, <2>1 DEF Begun
<1>1. CASE call'[w] = call[w] BY <1>1
<1>2. CASE CallStep(w)
  <2>1. CASE ShipGuards(w) BY <2>1, <1>a, <1>0 DEF ShipGuards
  <2>2. CASE LockShip(w) BY <2>2, <1>a, <1>0 DEF LockShip
  <2>3. CASE VersionConflict(w) \/ AbortShip(w)
    BY <2>3, <1>a, <1>0 DEF VersionConflict, AbortShip
  <2>4. CASE CommitTransition(w) \/ CommitCancel(w) \/ CommitShip(w)
    <3>1. Return(w) BY <2>4 DEF CommitTransition, CommitCancel, CommitShip
    <3>2. call[w] \in CallType
      BY <2>4, <1>0 DEF CommitTransition, CommitCancel, CommitShip, NoCall
    <3>3. call'[w] = [call[w] EXCEPT !.at = "next"] BY <3>1, <1>a, <1>0 DEF Return
    <3>4. call'[w].at = "next" BY <3>2, <3>3 DEF CallType
    <3> QED BY <3>4 DEF InTransition
  <2>5. CASE Continue(w)
    <3>1. call[w] \in CallType BY <2>5, <1>0 DEF Continue, NoCall
    <3>2. call[w].order \in Orders /\ call[w].next \in {"none", "COMPLETED"}
      BY <3>1 DEF CallType
    <3>3. /\ Allowed(OrderTable, order[call[w].order].status, call[w].next, {"SYSTEM"})
          /\ order' = order
          /\ call'[w] = [at |-> "commit", order |-> call[w].order, to |-> call[w].next,
                         roles |-> {"SYSTEM"}, seen |-> order[call[w].order].status,
                         version |-> order[call[w].order].version, next |-> "none"]
      BY <2>5, <1>a, <1>0 DEF Continue
    <3>4. call[w].next = "COMPLETED" BY <3>2, <3>3, TableFacts DEF OrderStatus
    <3>5. "COMPLETED" \in OrderStatus \ {"PLACED"} /\ {"SYSTEM"} \in SUBSET RoleCode
      BY DEF OrderStatus, RoleCode
    <3>6. Begun(w)
      <4> DEFINE o == call[w].order
                 roles == {"SYSTEM"}
      <4>1. /\ order' = order
            /\ Allowed(OrderTable, order[o].status, "COMPLETED", roles)
            /\ call'[w] = [at |-> IF "COMPLETED" = "SHIPPED" THEN "guards" ELSE "commit",
                           order |-> o, to |-> "COMPLETED", roles |-> roles,
                           seen |-> order[o].status, version |-> order[o].version,
                           next |-> "none"]
        BY <3>3, <3>4
      <4>2. o \in Orders /\ roles \in SUBSET RoleCode BY <3>2, <3>5
      <4> HIDE DEF o, roles
      <4> QED BY <4>1, <4>2, <3>5 DEF Begun
    <3> QED BY <3>6
  <2> QED BY <1>2, <2>1, <2>2, <2>3, <2>4, <2>5 DEF CallStep
<1>3. CASE \E o \in Orders, r \in OrderRequests : Request(w, o, r)
  <2>1. PICK o \in Orders, r \in OrderRequests : Request(w, o, r) BY <1>3
  <2>2. r[1] \in OrderStatus \ {"PLACED"} /\ {r[2]} \in SUBSET RoleCode
    <3>1. PICK to \in OrderStatus \ {"PLACED"}, role \in RoleCode : r = <<to, role>>
      BY DEF OrderRequests, OrderStatus, RoleCode
    <3> QED BY <3>1
  <2> QED BY <2>1, <2>2, <1>b DEF Request
<1>4. CASE w \in Hooks /\ HookAdvance(w)
  <2>1. hook[w].order \in Orders
    BY <1>4 DEF HookAdvance, TypeInv, TypeOK, SettlementTypeOK, HookType, Idle
  <2>2. "PAID_ESCROW" \in OrderStatus \ {"PLACED"} /\ {"SYSTEM"} \in SUBSET RoleCode
    BY DEF OrderStatus, RoleCode
  <2> QED BY <1>4, <2>1, <2>2, <1>b DEF HookAdvance
<1>5. CASE w \in Dispatcher /\ ReleaseComplete(w)
  <2>1. release[w].order \in Orders
    BY <1>5 DEF ReleaseComplete, TypeInv, TypeOK, SettlementTypeOK, ReleaseType, Idle
  <2>2. "COMPLETED" \in OrderStatus \ {"PLACED"} /\ {"SYSTEM"} \in SUBSET RoleCode
    BY DEF OrderStatus, RoleCode
  <2> QED BY <1>5, <2>1, <2>2, <1>b DEF ReleaseComplete
<1>6. CASE w \in Parties /\ OpenAdvance(w)
  <2>1. opening[w] \in OpeningType
    BY <1>6 DEF OpenAdvance, TypeInv, TypeOK, DisputesTypeOK, Idle
  <2>2. opening[w].order \in Orders /\ {opening[w].role} \in SUBSET RoleCode
    BY <2>1 DEF OpeningType, RoleCode
  <2>3. "DISPUTED" \in OrderStatus \ {"PLACED"} BY DEF OrderStatus
  <2> QED BY <1>6, <2>2, <2>3, <1>b DEF OpenAdvance
<1>7. CASE w \in Staff /\ RuleAdvance(w)
  <2>1. ruling[w] \in RulingType
    BY <1>7 DEF RuleAdvance, TypeInv, TypeOK, DisputesTypeOK, Idle
  <2>2. ruling[w].order \in Orders /\ {ruling[w].role} \in SUBSET RoleCode
    BY <2>1 DEF RulingType, RoleCode, StaffRoles
  <2>3. "RESOLVED" \in OrderStatus \ {"PLACED"} BY DEF OrderStatus
  <2> QED BY <1>7, <2>2, <2>3, <1>b DEF RuleAdvance
<1>8. CASE w \in Sweepers /\ SweepCancel(w)
  <2>1. sweep[w].order \in Orders
    BY <1>8 DEF SweepCancel, TypeInv, TypeOK, SweeperTypeOK, SweepType, Idle
  <2>2. "CANCELLED" \in OrderStatus \ {"PLACED"} /\ {"SYSTEM"} \in SUBSET RoleCode
    BY DEF OrderStatus, RoleCode
  <2> QED BY <1>8, <2>1, <2>2, <1>b DEF SweepCancel
<1> QED BY <1>1, <1>2, <1>3, <1>4, <1>5, <1>6, <1>7, <1>8, <1>a, CallWriters

(* How the row of an order moves: the version counts the writes.           *)
LEMMA RowMoves ==
  ASSUME TypeInv, [Next]_vars, NEW o \in Orders
  PROVE  /\ order[o].version \in Nat /\ order'[o].version \in Nat
         /\ \/ order'[o].status = order[o].status /\ order'[o].version = order[o].version
            \/ order[o].status = "DRAFT" /\ order'[o].version = order[o].version
            \/ order'[o].version = order[o].version + 1
<1>0. order \in [Orders -> OrderType] /\ order' \in [Orders -> OrderType]
  BY NextTypes DEF TypeInv, TypeOK, TradingTypeOK
<1>1. order[o].version \in Nat /\ order'[o].version \in Nat BY <1>0 DEF OrderType
<1>2. CASE order'[o] = order[o] BY <1>1, <1>2
<1>3. CASE Place(o) BY <1>0, <1>1, <1>3 DEF Place, OrderType
<1>4. CASE DisputeWindowCloses(o) BY <1>0, <1>1, <1>4 DEF DisputeWindowCloses, OrderType
<1>5. ASSUME NEW to, order' = Written(o, to) PROVE order'[o].version = order[o].version + 1
  BY <1>0, <1>5 DEF Written
<1>6. ASSUME NEW w \in Callers, call[w].order = o,
             CommitTransition(w) \/ CommitCancel(w) \/ CommitShip(w)
      PROVE  order'[o].version = order[o].version + 1
  BY <1>5, <1>6 DEF CommitTransition, CommitCancel, CommitShip
<1>7. ASSUME NEW f \in Officers, customs[f].order = o, customs[f].moves # "none", CustomsCommit(f)
      PROVE  order'[o].version = order[o].version + 1
  BY <1>5, <1>7 DEF CustomsCommit
<1> QED BY <1>1, <1>2, <1>3, <1>4, <1>6, <1>7, OrderWriters

(* While an order is locked nobody else writes it.                         *)
LEMMA LockHolds ==
  ASSUME OrderInv, [Next]_vars, NEW w \in Callers, call[w].at = "ship", call'[w] = call[w]
  PROVE  /\ order'[call[w].order].version = order[call[w].order].version
         /\ order'[call[w].order].status = order[call[w].order].status
<1> DEFINE o == call[w].order
<1>0. call \in [Callers -> CallType \cup {NoCall}] /\ order \in [Orders -> OrderType]
  BY DEF OrderInv, TypeInv, TypeOK, TradingTypeOK
<1>1. call[w] \in CallType BY <1>0 DEF NoCall
<1>2. o \in Orders BY <1>1 DEF CallType
<1>3. order[o].status # "DRAFT" BY DEF OrderInv, CallsOK, InTransition, FrameOK
<1>4. Locked(o) BY DEF Locked
<1>5. CASE order'[o] = order[o] BY <1>5
<1>6. ~Place(o) BY <1>3 DEF Place
<1>7. CASE DisputeWindowCloses(o) BY <1>0, <1>2, <1>7 DEF DisputeWindowCloses, OrderType
<1>8. ASSUME NEW v \in Callers, call[v].order = o,
             CommitTransition(v) \/ CommitCancel(v) \/ CommitShip(v)
      PROVE  FALSE
  <2>1. CommitShip(v) BY <1>4, <1>8 DEF CommitTransition, CommitCancel
  <2>2. v = w BY <2>1, <1>8 DEF CommitShip, OrderInv, OneShipper
  <2>3. call'[w] = NoCall \/ call'[w] = [call[w] EXCEPT !.at = "next"]
    BY <2>1, <2>2, <1>0 DEF CommitShip, Return
  <2> QED BY <2>3, <1>1 DEF NoCall, CallType
<1>9. ASSUME NEW f \in Officers, customs[f].order = o, customs[f].moves # "none", CustomsCommit(f)
      PROVE  FALSE
  BY <1>4, <1>9 DEF CustomsCommit
<1> HIDE DEF o
<1>10. TypeInv BY DEF OrderInv
<1>11. ASSUME order'[o] # order[o] PROVE DisputeWindowCloses(o)
  <2>1. \/ Place(o) \/ DisputeWindowCloses(o)
        \/ \E v \in Callers :
             /\ call[v].order = o
             /\ CommitTransition(v) \/ CommitCancel(v) \/ CommitShip(v)
        \/ \E f \in Officers :
             customs[f].order = o /\ customs[f].moves # "none" /\ CustomsCommit(f)
    BY <1>2, <1>10, <1>11, OrderWriters
  <2> QED BY <2>1, <1>6, <1>8, <1>9
<1> QED BY <1>5, <1>7, <1>11

(* How the status of an order changes.                                     *)
LEMMA StatusMoves ==
  ASSUME OrderInv, [Next]_vars, NEW o \in Orders, order'[o].status # order[o].status
  PROVE  \/ Place(o) /\ order[o].status = "DRAFT" /\ order'[o].status = "PLACED"
         \/ \E w \in Callers :
              /\ call[w].order = o
              /\ CommitTransition(w) \/ CommitCancel(w) \/ CommitShip(w)
              /\ InTransition(w) /\ FrameOK(w)
              /\ Allowed(OrderTable, order[o].status, call[w].to, call[w].roles)
              /\ order'[o].status = call[w].to
         \/ /\ order[o].status \in ShippedStates
            /\ order'[o].status \in {"IN_CUSTOMS", "CUSTOMS_CLEARED"}
            /\ customs' # customs /\ reservation' = reservation
            /\ \E f \in Officers : customs[f].order = o /\ CustomsCommit(f)
<1>0. order \in [Orders -> OrderType] /\ customs \in [Officers -> CustomsType \cup {NoCall}]
  BY DEF OrderInv, TypeInv, TypeOK, TradingTypeOK, CustomsTypeOK
<1>a. ASSUME NEW to, order' = Written(o, to) PROVE order'[o].status = to
  BY <1>0, <1>a DEF Written
<1>1. CASE Place(o) BY <1>0, <1>1 DEF Place, OrderType
<1>2. CASE DisputeWindowCloses(o) BY <1>0, <1>2 DEF DisputeWindowCloses, OrderType
<1>3. ASSUME NEW w \in Callers, call[w].order = o,
             CommitTransition(w) \/ CommitCancel(w) \/ CommitShip(w)
      PROVE  /\ InTransition(w) /\ FrameOK(w)
             /\ Allowed(OrderTable, order[o].status, call[w].to, call[w].roles)
             /\ order'[o].status = call[w].to
  <2>1. InTransition(w) BY <1>3 DEF CommitTransition, CommitCancel, CommitShip, InTransition
  <2>2. FrameOK(w) BY <2>1 DEF OrderInv, CallsOK
  <2>3. call[w].version = order[o].version
    BY <1>3, <2>2 DEF CommitTransition, CommitCancel, CommitShip, Fresh, FrameOK
  <2>4. Allowed(OrderTable, order[o].status, call[w].to, call[w].roles)
    BY <2>2, <2>3, <1>3 DEF FrameOK
  <2>5. order' = Written(o, call[w].to)
    <3>1. CASE CommitTransition(w) BY <3>1, <1>3 DEF CommitTransition
    <3>2. CASE CommitCancel(w) BY <3>2, <1>3 DEF CommitCancel
    <3>3. CASE CommitShip(w)
      <4>1. call[w].to = "SHIPPED" BY <3>3, <2>2 DEF CommitShip, FrameOK
      <4> QED BY <4>1, <3>3, <1>3 DEF CommitShip
    <3> QED BY <3>1, <3>2, <3>3, <1>3
  <2> QED BY <2>1, <2>2, <2>4, <2>5, <1>a
<1>4. ASSUME NEW f \in Officers, customs[f].order = o, customs[f].moves # "none", CustomsCommit(f)
      PROVE  /\ order[o].status \in ShippedStates
             /\ order'[o].status \in {"IN_CUSTOMS", "CUSTOMS_CLEARED"}
             /\ customs' # customs /\ reservation' = reservation
  <2>1. /\ customs[f].moves \in {"IN_CUSTOMS", "CUSTOMS_CLEARED"}
        /\ order[o].status \in ShippedStates
    BY <1>4 DEF OrderInv, CustomsOK, CustomsCommit
  <2>2. order' = Written(o, customs[f].moves) BY <1>4 DEF CustomsCommit
  <2>3. customs[f] # NoCall /\ customs'[f] = NoCall
    BY <1>4, <1>0 DEF CustomsCommit, NoCall
  <2> QED BY <2>1, <2>2, <2>3, <1>4, <1>a DEF CustomsCommit
<1>5. TypeInv BY DEF OrderInv
<1> QED BY <1>1, <1>2, <1>3, <1>4, <1>5, OrderWriters

(* The shipped states are never left, and entered by CommitShip only.      *)
LEMMA Shipping ==
  ASSUME OrderInv, [Next]_vars, NEW o \in Orders
  PROVE  /\ order[o].status \in ShippedStates => order'[o].status \in ShippedStates
         /\ order[o].status \notin ShippedStates /\ order'[o].status \in ShippedStates =>
              \E w \in Callers : call[w].order = o /\ CommitShip(w) /\ MayShip(o)
<1>1. CASE order'[o].status = order[o].status BY <1>1
<1>2. CASE Place(o) /\ order[o].status = "DRAFT" /\ order'[o].status = "PLACED"
  BY <1>2 DEF ShippedStates
<1>3. ASSUME NEW w \in Callers, call[w].order = o,
             CommitTransition(w) \/ CommitCancel(w) \/ CommitShip(w),
             InTransition(w), FrameOK(w),
             Allowed(OrderTable, order[o].status, call[w].to, call[w].roles),
             order'[o].status = call[w].to
      PROVE  /\ order[o].status \in ShippedStates => order'[o].status \in ShippedStates
             /\ order[o].status \notin ShippedStates /\ order'[o].status \in ShippedStates =>
                  call[w].order = o /\ CommitShip(w) /\ MayShip(o)
  <2>1. /\ order[o].status \in ShippedStates => call[w].to \in ShippedStates
        /\ call[w].to \in ShippedStates => order[o].status \in ShippedStates \/ call[w].to = "SHIPPED"
    BY <1>3, TableFacts
  <2>2. ASSUME call[w].to = "SHIPPED" PROVE CommitShip(w) /\ MayShip(o)
    <3>1. CommitShip(w) BY <1>3, <2>2 DEF CommitTransition, CommitCancel
    <3> QED BY <3>1, <1>3, <2>2 DEF CommitShip, FrameOK
  <2> QED BY <2>1, <2>2, <1>3
<1>4. CASE /\ order[o].status \in ShippedStates
           /\ order'[o].status \in {"IN_CUSTOMS", "CUSTOMS_CLEARED"}
  BY <1>4 DEF ShippedStates
<1> QED BY <1>1, <1>2, <1>3, <1>4, StatusMoves

(* How the hold of an order changes.                                       *)
LEMMA HoldMoves ==
  ASSUME TypeInv, [Next]_vars, NEW o \in Orders
  PROVE  /\ \/ reservation'[o].shipped = reservation[o].shipped
            \/ \E w \in Callers : call[w].order = o /\ CommitShip(w)
         /\ reservation'[o].state = "HELD" => reservation[o].state = "HELD" \/ Place(o)
<1> DEFINE P == /\ \/ reservation'[o].shipped = reservation[o].shipped
                   \/ \E w \in Callers : call[w].order = o /\ CommitShip(w)
                /\ reservation'[o].state = "HELD" => reservation[o].state = "HELD" \/ Place(o)
<1>0. reservation \in [Orders -> ReservationType] BY DEF TypeInv, TypeOK, TradingTypeOK
<1>1. CASE reservation' = reservation BY <1>1
<1>2. ASSUME NEW q \in Orders, reservation' = Released(q) PROVE P
  BY <1>0, <1>2 DEF Released, GivenBack, ReservationType
<1>3. ASSUME NEW q \in Orders, Place(q) PROVE P
  BY <1>0, <1>3 DEF Place, ReservationType
<1>4. ASSUME NEW q \in Orders, TtlExpires(q) PROVE P
  BY <1>0, <1>4 DEF TtlExpires, ReservationType
<1>5. ASSUME NEW w \in Callers, CommitShip(w) PROVE P
  <2>1. reservation' = [reservation EXCEPT ![call[w].order] = ShippedOut(@)]
    BY <1>5 DEF CommitShip
  <2>2. CASE call[w].order = o
    BY <2>1, <2>2, <1>5, <1>0 DEF ShippedOut, ReservationType
  <2>3. CASE call[w].order # o BY <2>1, <2>3, <1>0
  <2> QED BY <2>2, <2>3
<1>6. ASSUME NEW w \in Callers, CommitCancel(w) PROVE P
  <2>1. call[w] \in CallType
    BY <1>6 DEF CommitCancel, NoCall, TypeInv, TypeOK, TradingTypeOK
  <2>2. call[w].order \in Orders BY <2>1 DEF CallType
  <2>3. reservation' = reservation \/ reservation' = Released(call[w].order)
    BY <1>6 DEF CommitCancel
  <2> QED BY <2>2, <2>3, <1>1, <1>2
<1>7. ASSUME NEW s \in Sweepers, OrphanRelease(s) PROVE P
  <2>1. sweep[s].order \in Orders
    BY <1>7 DEF OrphanRelease, TypeInv, TypeOK, SweeperTypeOK, SweepType, Idle
  <2> QED BY <2>1, <1>7, <1>2 DEF OrphanRelease
<1>8. \/ reservation' = reservation
      \/ \E q \in Orders : Place(q) \/ TtlExpires(q)
      \/ \E w \in Callers : CommitShip(w) \/ CommitCancel(w)
      \/ \E s \in Sweepers : OrphanRelease(s)
  <2>1. CASE OrderSteps
    BY <2>1 DEF OrderSteps, TradingNext, OrderStep, RegisterShipment, RegisterDocuments, MarkPaid,
      DisputeWindowCloses, Request, CallStep, ShipGuards, VersionConflict, CommitTransition,
      LockShip, AbortShip, Continue
  <2>2. CASE MoneySteps
    BY <2>2 DEF MoneySteps, SettlementNext, tradingVars, CheckoutStart, CheckoutPrice,
      CheckoutReuse, CheckoutCreate, Charge, PaymentAges, HookStart, HookSettle, HookBook,
      HookAdvance, Dispatch, ReleaseStatus, ReleaseTransfer, ReleaseBook, ReleaseComplete,
      Publish, Onboard
  <2>3. CASE DisputeSteps
    BY <2>3 DEF DisputeSteps, DisputesNext, tradingVars, OpenStart, OpenCreate, OpenAdvance,
      EvidenceStart, EvidenceWrite, RuleStart, RuleBook, RuleAdvance
  <2>4. CASE SweepSteps
    BY <2>4 DEF SweepSteps, SweepStep, tradingVars, SweepStart, SweepCancel, OrphanRead,
      OrphanAbort
  <2>5. CASE CustomsSteps
    BY <2>5 DEF CustomsSteps, CustomsNext, tradingVars, Declare, CustomsStart, CustomsUpdate,
      CustomsCommit
  <2>6. CASE Crash BY <2>6 DEF Crash
  <2>7. CASE UNCHANGED vars BY <2>7 DEF vars, tradingVars
  <2> QED BY <2>1, <2>2, <2>3, <2>4, <2>5, <2>6, <2>7 DEF Next
<1> QED BY <1>1, <1>3, <1>4, <1>5, <1>6, <1>7, <1>8

----------------------------------------------------------------------------
(* The invariant                                                           *)

LEMMA OrderInvInit == ASSUME Init PROVE OrderInv
<1>1. TypeInv BY InitTypes
<1>2. CallsOK /\ OneShipper
  BY DEF Init, TradingInit, CallsOK, OneShipper, InTransition, NoCall
<1>3. CustomsOK BY DEF Init, CustomsInit, CustomsOK, NoCall
<1>4. OutboundOnce /\ PaidUpBeforeShipping /\ CancelledHoldsNothing
  BY DEF Init, TradingInit, OutboundOnce, PaidUpBeforeShipping, CancelledHoldsNothing, ShippedStates
<1> QED BY <1>1, <1>2, <1>3, <1>4 DEF OrderInv

LEMMA CallsKept == ASSUME OrderInv, [Next]_vars PROVE CallsOK'
<1> SUFFICES ASSUME NEW w \in Callers, InTransition(w)' PROVE FrameOK(w)'
  BY DEF CallsOK
<1>0. /\ TypeInv /\ TypeInv'
      /\ call \in [Callers -> CallType \cup {NoCall}]
      /\ call' \in [Callers -> CallType \cup {NoCall}]
  BY TypeStep DEF OrderInv, TypeInv, TypeOK, TradingTypeOK
<1>1. call'[w] \in CallType BY <1>0 DEF InTransition, NoCall
<1>2. PICK o \in Orders : o = call'[w].order BY <1>1 DEF CallType
<1>3. MayShip(o) => MayShip(call[w].order)'
  <2>1. MayShip(o) => MayShip(o)' BY <1>0, GuardsStay
  <2> QED BY <2>1, <1>2 DEF MayShip, ReadyToShip, PaidUp, Instalments
<1>b. call'[w].version \in Nat BY <1>1 DEF CallType
<1>4. CASE call'[w] = call[w]
  <2>1. InTransition(w) BY <1>4 DEF InTransition
  <2>2. FrameOK(w) BY <2>1 DEF OrderInv, CallsOK
  <2>3. /\ order[o].version \in Nat /\ order'[o].version \in Nat
        /\ \/ order'[o].status = order[o].status /\ order'[o].version = order[o].version
           \/ order[o].status = "DRAFT" /\ order'[o].version = order[o].version
           \/ order'[o].version = order[o].version + 1
    BY <1>0, <1>2, RowMoves
  <2>4. call'[w].version <= order'[o].version BY <2>2, <2>3, <1>2, <1>b, <1>4 DEF FrameOK
  <2>5. ASSUME call'[w].version = order'[o].version PROVE call'[w].seen = order'[o].status
    <3>1. order'[o].version = order[o].version BY <2>2, <2>3, <2>5, <1>2, <1>b, <1>4 DEF FrameOK
    <3>2. call[w].seen = order[o].status BY <2>2, <2>5, <3>1, <1>2, <1>4 DEF FrameOK
    <3> QED BY <3>1, <3>2, <2>2, <2>3, <1>4 DEF FrameOK
  <2>6. ASSUME call'[w].at = "ship"
        PROVE  call'[w].to = "SHIPPED" /\ call'[w].version = order'[o].version
    BY <2>2, <2>6, <1>2, <1>4, LockHolds DEF FrameOK
  <2> QED BY <2>2, <2>4, <2>5, <2>6, <1>2, <1>3, <1>4 DEF FrameOK
<1>5. CASE /\ ShipGuards(w) /\ MayShip(call[w].order)
           /\ call'[w] = [call[w] EXCEPT !.at = "commit"]
  <2>1. InTransition(w) /\ FrameOK(w)
    BY <1>5 DEF ShipGuards, InTransition, OrderInv, CallsOK
  <2>2. order' = order BY <1>5 DEF ShipGuards
  <2>3. call[w] \in CallType BY <1>0, <2>1 DEF InTransition, NoCall
  <2>4. /\ call'[w].at = "commit" /\ call'[w].order = call[w].order /\ call'[w].to = call[w].to
        /\ call'[w].roles = call[w].roles /\ call'[w].seen = call[w].seen
        /\ call'[w].version = call[w].version
    BY <1>5, <2>3 DEF CallType
  <2> QED BY <2>1, <2>2, <2>4, <1>2, <1>3, <1>5 DEF FrameOK
<1>6. CASE LockShip(w) /\ call'[w] = [call[w] EXCEPT !.at = "ship"]
  <2>1. InTransition(w) /\ FrameOK(w)
    BY <1>6 DEF LockShip, InTransition, OrderInv, CallsOK
  <2>2. order' = order /\ call[w].to = "SHIPPED" /\ call[w].at = "commit"
        /\ call[w].version = order[call[w].order].version
    BY <1>6 DEF LockShip, Fresh
  <2>3. call[w] \in CallType BY <1>0, <2>1 DEF InTransition, NoCall
  <2>4. /\ call'[w].at = "ship" /\ call'[w].order = call[w].order /\ call'[w].to = call[w].to
        /\ call'[w].roles = call[w].roles /\ call'[w].seen = call[w].seen
        /\ call'[w].version = call[w].version
    BY <1>6, <2>3 DEF CallType
  <2> QED BY <2>1, <2>2, <2>4, <1>2, <1>3 DEF FrameOK
<1>7. ASSUME NEW q \in Orders, NEW to \in OrderStatus \ {"PLACED"}, NEW roles \in SUBSET RoleCode,
             NEW next, order' = order, Allowed(OrderTable, order[q].status, to, roles),
             call'[w] = [at |-> IF to = "SHIPPED" THEN "guards" ELSE "commit",
                         order |-> q, to |-> to, roles |-> roles,
                         seen |-> order[q].status, version |-> order[q].version, next |-> next]
      PROVE  FrameOK(w)'
  <2>1. order[q].status # "DRAFT"
    BY <1>7 DEF Allowed, OrderTable, Edge
  <2>2. order[q].version \in Nat BY <1>7, <1>b
  <2>3. order[q].version <= order'[q].version BY <2>2, <1>7
  <2> QED BY <2>1, <2>3, <1>7 DEF FrameOK
<1> QED BY <1>0, <1>4, <1>5, <1>6, <1>7, FrameOrigin DEF Begun

LEMMA OneShipperKept == ASSUME OrderInv, [Next]_vars PROVE OneShipper'
<1> SUFFICES ASSUME NEW v \in Callers, NEW w \in Callers, v # w,
                    call'[v].at = "ship", call'[w].at = "ship", call'[v].order = call'[w].order
             PROVE  FALSE
  BY DEF OneShipper
<1>0. TypeInv /\ call \in [Callers -> CallType \cup {NoCall}]
  BY DEF OrderInv, TypeInv, TypeOK, TradingTypeOK
<1>1. ASSUME NEW u \in Callers, call'[u].at = "ship"
      PROVE  \/ call'[u] = call[u]
             \/ LockShip(u) /\ call'[u] = [call[u] EXCEPT !.at = "ship"]
  <2>1. InTransition(u)' BY <1>1 DEF InTransition
  <2>2. ~ShipGuards(u) \/ call'[u] # [call[u] EXCEPT !.at = "commit"]
    <3>1. ASSUME ShipGuards(u) PROVE call[u] \in CallType
      BY <3>1, <1>0 DEF ShipGuards, NoCall
    <3>2. ASSUME call[u] \in CallType PROVE [call[u] EXCEPT !.at = "commit"].at = "commit"
      BY <3>2 DEF CallType
    <3> QED BY <3>1, <3>2, <1>1
  <2>3. ASSUME Begun(u) PROVE FALSE
    <3>1. PICK q \in Orders, to \in OrderStatus \ {"PLACED"}, roles \in SUBSET RoleCode,
               next \in {"none", "COMPLETED"} :
            call'[u] = [at |-> IF to = "SHIPPED" THEN "guards" ELSE "commit",
                        order |-> q, to |-> to, roles |-> roles, seen |-> order[q].status,
                        version |-> order[q].version, next |-> next]
      BY <2>3, Zenon DEF Begun
    <3>2. call'[u].at = IF to = "SHIPPED" THEN "guards" ELSE "commit" BY <3>1
    <3>3. call'[u].at \in {"guards", "commit"} BY <3>2
    <3> QED BY <3>3, <1>1
  <2>4. \/ call'[u] = call[u]
        \/ /\ ShipGuards(u) /\ MayShip(call[u].order)
           /\ call'[u] = [call[u] EXCEPT !.at = "commit"]
        \/ LockShip(u) /\ call'[u] = [call[u] EXCEPT !.at = "ship"]
        \/ Begun(u)
    BY <2>1, <1>0, FrameOrigin
  <2> QED BY <2>2, <2>3, <2>4
<1>2. ASSUME NEW u \in Callers, NEW x \in Callers, u # x, LockShip(u),
             call'[u] = [call[u] EXCEPT !.at = "ship"], call'[x].at = "ship",
             call'[x].order = call'[u].order
      PROVE  FALSE
  <2>1. call'[x] = call[x] BY <1>2, <1>0 DEF LockShip
  <2>2. call[u] \in CallType BY <1>2, <1>0 DEF LockShip, NoCall
  <2>3. call'[u].order = call[u].order BY <1>2, <2>2 DEF CallType
  <2>4. Locked(call[u].order) BY <1>2, <2>1, <2>3 DEF Locked
  <2> QED BY <1>2, <2>4 DEF LockShip
<1>3. CASE call'[v] = call[v] /\ call'[w] = call[w]
  BY <1>3 DEF OrderInv, OneShipper
<1> QED BY <1>1, <1>2, <1>3

LEMMA CustomsKept == ASSUME OrderInv, [Next]_vars PROVE CustomsOK'
<1> SUFFICES ASSUME NEW f \in Officers, customs'[f].at = "commit", customs'[f].moves # "none"
             PROVE  /\ customs'[f].moves \in {"IN_CUSTOMS", "CUSTOMS_CLEARED"}
                    /\ order'[customs'[f].order].status \in ShippedStates
  BY DEF CustomsOK
<1>0. /\ TypeInv' /\ customs \in [Officers -> CustomsType \cup {NoCall}]
      /\ customs' \in [Officers -> CustomsType \cup {NoCall}]
  BY TypeStep DEF OrderInv, TypeInv, TypeOK, CustomsTypeOK
<1>1. customs'[f].order \in Orders BY <1>0 DEF NoCall, CustomsType
<1>2. CASE customs'[f] = customs[f]
  BY <1>1, <1>2, Shipping DEF OrderInv, CustomsOK
<1>3. CASE CustomsUpdate(f) /\ customs'[f] # customs[f]
  <2>1. customs[f] \in CustomsType BY <1>0, <1>3 DEF CustomsUpdate, NoCall
  <2> DEFINE o == customs[f].order
             target == TargetOf(customs[f].to)
             moves == target # "none" /\ order[o].status # target
  <2>2. order' = order BY <1>3 DEF CustomsUpdate, tradingVars
  <2>3. /\ moves => MayMove(o, target)
        /\ customs'[f] = [customs[f] EXCEPT !.at = "commit",
                                            !.moves = IF moves THEN target ELSE "none"]
    BY <1>0, <1>3 DEF CustomsUpdate, NoCall
  <2>4. customs'[f].moves = IF moves THEN target ELSE "none" BY <2>1, <2>3 DEF CustomsType
  <2>5. customs'[f].order = o BY <2>1, <2>3 DEF CustomsType
  <2>6. moves /\ MayMove(o, target) /\ customs'[f].moves = target BY <2>3, <2>4
  <2>7. target \in {"IN_CUSTOMS", "CUSTOMS_CLEARED"} BY <2>6 DEF TargetOf
  <2>8. order[o].status \in ShippedStates BY <2>6, OfficerFacts DEF MayMove
  <2> QED BY <2>2, <2>5, <2>6, <2>7, <2>8
<1>4. customs'[f] = customs[f] \/ CustomsUpdate(f)
  <2>1. CASE CustomsSteps
    <3>1. ASSUME NEW g \in Officers, CustomsUpdate(g) PROVE g = f \/ customs'[f] = customs[f]
      BY <3>1, <1>0 DEF CustomsUpdate
    <3>2. ASSUME NEW g \in Officers, NEW q \in Orders, NEW to \in CustomsStatus,
                 CustomsStart(g, q, to)
          PROVE  customs'[f] = customs[f]
      <4>1. customs' = [customs EXCEPT ![g] =
                          [at |-> "update", order |-> q, to |-> to, moves |-> "none"]]
        BY <3>2 DEF CustomsStart
      <4> QED BY <4>1, <1>0
    <3>3. ASSUME NEW g \in Officers, CustomsCommit(g) PROVE customs'[f] = customs[f]
      BY <3>3, <1>0 DEF CustomsCommit, NoCall
    <3>4. ASSUME NEW q \in Orders, Declare(q) PROVE customs'[f] = customs[f]
      BY <3>4 DEF Declare
    <3> QED BY <2>1, <3>1, <3>2, <3>3, <3>4 DEF CustomsSteps, CustomsNext
  <2>2. CASE OrderSteps \/ MoneySteps \/ DisputeSteps \/ SweepSteps
    BY <2>2 DEF OrderSteps, MoneySteps, DisputeSteps, SweepSteps, customsVars
  <2>3. CASE Crash BY <2>3 DEF Crash, NoCall
  <2>4. CASE UNCHANGED vars BY <2>4 DEF vars, customsVars
  <2> QED BY <2>1, <2>2, <2>3, <2>4 DEF Next
<1> QED BY <1>2, <1>3, <1>4

LEMMA OutboundKept == ASSUME OrderInv, [Next]_vars PROVE OutboundOnce'
<1> SUFFICES ASSUME NEW o \in Orders
             PROVE  reservation'[o].shipped = IF order'[o].status \in ShippedStates THEN 1 ELSE 0
  BY DEF OutboundOnce
<1>0. /\ TypeInv /\ order \in [Orders -> OrderType]
      /\ reservation \in [Orders -> ReservationType]
      /\ reservation[o].shipped = IF order[o].status \in ShippedStates THEN 1 ELSE 0
  BY DEF OrderInv, TypeInv, TypeOK, TradingTypeOK, OutboundOnce
<1>1. ASSUME NEW w \in Callers, call[w].order = o, CommitShip(w)
      PROVE  /\ order[o].status \notin ShippedStates /\ order'[o].status = "SHIPPED"
             /\ reservation'[o].shipped = reservation[o].shipped + 1
  <2>1. FrameOK(w) BY <1>1 DEF CommitShip, InTransition, OrderInv, CallsOK
  <2>2. Allowed(OrderTable, order[o].status, "SHIPPED", call[w].roles)
    BY <1>1, <2>1 DEF CommitShip, FrameOK
  <2>3. order'[o].status = "SHIPPED" BY <1>0, <1>1 DEF CommitShip, Written
  <2>4. reservation'[o].shipped = reservation[o].shipped + 1
    BY <1>0, <1>1 DEF CommitShip, ShippedOut, ReservationType
  <2> QED BY <2>2, <2>3, <2>4, TableFacts
<1>2. CASE \E w \in Callers : call[w].order = o /\ CommitShip(w)
  BY <1>0, <1>1, <1>2 DEF ShippedStates
<1>3. CASE ~\E w \in Callers : call[w].order = o /\ CommitShip(w)
  <2>1. reservation'[o].shipped = reservation[o].shipped BY <1>0, <1>3, HoldMoves
  <2>2. order'[o].status \in ShippedStates <=> order[o].status \in ShippedStates
    BY <1>3, Shipping
  <2> QED BY <1>0, <2>1, <2>2
<1> QED BY <1>2, <1>3

LEMMA PaidUpKept == ASSUME OrderInv, [Next]_vars PROVE PaidUpBeforeShipping'
<1> SUFFICES ASSUME NEW o \in Orders, order'[o].status \in ShippedStates PROVE MayShip(o)'
  BY DEF PaidUpBeforeShipping, MayShip
<1>1. MayShip(o)
  <2>1. CASE order[o].status \in ShippedStates
    BY <2>1 DEF OrderInv, PaidUpBeforeShipping, MayShip
  <2>2. CASE order[o].status \notin ShippedStates BY <2>2, Shipping
  <2> QED BY <2>1, <2>2
<1> QED BY <1>1, GuardsStay DEF OrderInv

LEMMA CancelledKept == ASSUME OrderInv, [Next]_vars PROVE CancelledHoldsNothing'
<1> SUFFICES ASSUME NEW o \in Orders, order'[o].status = "CANCELLED"
             PROVE  reservation'[o].state # "HELD"
  BY DEF CancelledHoldsNothing
<1>0. /\ TypeInv /\ order \in [Orders -> OrderType]
      /\ reservation \in [Orders -> ReservationType]
  BY DEF OrderInv, TypeInv, TypeOK, TradingTypeOK
<1>1. ASSUME Place(o) PROVE FALSE BY <1>0, <1>1 DEF Place, OrderType
<1>2. CASE order[o].status = "CANCELLED"
  BY <1>0, <1>1, <1>2, HoldMoves DEF OrderInv, CancelledHoldsNothing
<1>3. CASE order[o].status # "CANCELLED"
  <2>1. PICK w \in Callers :
          /\ call[w].order = o
          /\ CommitTransition(w) \/ CommitCancel(w) \/ CommitShip(w)
          /\ FrameOK(w) /\ call[w].to = "CANCELLED"
    BY <1>1, <1>3, StatusMoves
  <2>2. CommitCancel(w) BY <2>1 DEF CommitTransition, CommitShip, FrameOK
  <2>3. CASE reservation[o].state = "HELD"
    <3>1. reservation' = Released(o) BY <2>1, <2>2, <2>3 DEF CommitCancel
    <3> QED BY <1>0, <3>1 DEF Released, GivenBack, ReservationType
  <2>4. CASE reservation[o].state # "HELD"
    BY <2>1, <2>2, <2>4 DEF CommitCancel
  <2> QED BY <2>3, <2>4
<1> QED BY <1>2, <1>3

LEMMA OrderInvNext == ASSUME OrderInv, [Next]_vars PROVE OrderInv'
<1>1. TypeInv' BY TypeStep DEF OrderInv
<1> QED BY <1>1, CallsKept, OneShipperKept, CustomsKept, OutboundKept, PaidUpKept, CancelledKept
        DEF OrderInv

(* The inductive invariant holds in every reachable state.                 *)
THEOREM OrderInvariance == Spec => []OrderInv
<1>1. Init => OrderInv BY OrderInvInit
<1>2. OrderInv /\ [Next]_vars => OrderInv' BY OrderInvNext
<1> QED BY <1>1, <1>2, PTL DEF Spec

----------------------------------------------------------------------------
(* What it is for                                                          *)

(* The goods of an order leave the stock once, when it ships, for any      *)
(* number of concurrent requests, sweeps, customs writes and crashes.      *)
THEOREM GoodsLeaveOnce == Spec => []OutboundOnce
<1>1. OrderInv => OutboundOnce BY DEF OrderInv
<1> QED BY <1>1, OrderInvariance, PTL

(* assertReadyToShip and assertShippable, checked before the transaction,  *)
(* still hold when it commits and ever after.                              *)
THEOREM NothingUnpaidShips == Spec => []PaidUpBeforeShipping
<1>1. OrderInv => PaidUpBeforeShipping BY DEF OrderInv
<1> QED BY <1>1, OrderInvariance, PTL

(* A cancellation, by its buyer or by the sweeper, leaves no stock held.   *)
THEOREM CancelledOrdersHoldNothing == Spec => []CancelledHoldsNothing
<1>1. OrderInv => CancelledHoldsNothing BY DEF OrderInv
<1> QED BY <1>1, OrderInvariance, PTL

(* transition() takes edges of the table only, from the status the order   *)
(* has when it writes and not only from the one it read.                   *)
THEOREM TransitionsAreEdges == Spec => TransitionFollowsTable
<1> DEFINE Step ==
      \A o \in Orders :
        order'[o].status # order[o].status /\ customs' = customs =>
          IsEdge(OrderTable, order[o].status, order'[o].status)
<1>1. ASSUME OrderInv, [Next]_vars PROVE Step
  <2> SUFFICES ASSUME NEW o \in Orders, order'[o].status # order[o].status, customs' = customs
               PROVE  IsEdge(OrderTable, order[o].status, order'[o].status)
    OBVIOUS
  <2>1. IsEdge(OrderTable, "DRAFT", "PLACED") BY DEF IsEdge, OrderTable, Edge
  <2> QED BY <1>1, <2>1, StatusMoves, TableFacts
<1>2. OrderInv /\ [Next]_vars => [Step]_vars BY <1>1
<1> QED BY <1>2, OrderInvariance, PTL DEF Spec, TransitionFollowsTable

----------------------------------------------------------------------------
(* The money of an order                                                   *)

NeverNegative == \A o \in Orders : ledger[o].transit >= 0 /\ PaidOut(o) >= 0

(* Nobody is asked to pay nothing.                                         *)
PositiveAmounts ==
  /\ \A p \in PayId : payment[p] # NoPayment => payment[p].amount > 0
  /\ \A b \in Buyers : checkout[b].at \in {"reuse", "create"} => checkout[b].amount > 0

(* What a handler has written before it asks for a transition.             *)
HandlersPrepared ==
  /\ \A h \in Hooks : hook[h].at = "advance" => ledger[hook[h].order].transit > 0
  /\ \A d \in Dispatcher : release[d].at = "complete" => PaidOut(release[d].order) >= Total
  /\ \A p \in Parties : opening[p].at = "advance" => HasRow(opening[p].order)
  /\ \A s \in Staff : ruling[s].at = "advance" => PaidOut(ruling[s].order) >= Total

(* What a transition relies on, from its request to its write.             *)
Prepared(o, to, next) ==
  /\ to = "PAID_ESCROW" => ledger[o].transit > 0
  /\ to \in {"RESOLVED", "COMPLETED"} \/ next = "COMPLETED" => PaidOut(o) >= Total
  /\ to = "DISPUTED" => HasRow(o)

CallsPrepared ==
  \A w \in Callers : call[w] # NoCall => Prepared(call[w].order, call[w].to, call[w].next)

MoneyInv ==
  /\ OrderInv /\ Conservation /\ NeverNegative /\ PositiveAmounts
  /\ HandlersPrepared /\ CallsPrepared
  /\ EscrowBeforeProgress /\ PaidOutBeforeClosing /\ DisputedHasRow

----------------------------------------------------------------------------
(* The journals                                                            *)

(* A payment adds the same amount to what came in and to the escrow.       *)
LEMMA ReceivedFacts ==
  ASSUME NEW l \in AccountsType, NEW a \in Nat
  PROVE  /\ Received(l, a).transit = l.transit + a /\ Received(l, a).escrow = l.escrow + a
         /\ Received(l, a).supplier = l.supplier /\ Received(l, a).commission = l.commission
         /\ Received(l, a).refund = l.refund
BY DEF Received, AccountsType

(* A distribution takes Total out of escrow and pays Total out, however it *)
(* is divided.                                                             *)
LEMMA DistributedFacts ==
  ASSUME NEW l \in AccountsType, NEW r \in Int, NEW c \in Int
  PROVE  LET m == DistributedTo(l, r, c)
         IN /\ m.transit = l.transit /\ m.escrow = l.escrow - Total
            /\ m.supplier + m.commission + m.refund = l.supplier + l.commission + l.refund + Total
<1>1. Total \in Int BY SettlementAssumption DEF SettlementAssumption
<1>2. /\ l.transit \in Int /\ l.escrow \in Int /\ l.supplier \in Int /\ l.commission \in Int
      /\ l.refund \in Int
  BY DEF AccountsType
<1>3. /\ DistributedTo(l, r, c).transit = l.transit
      /\ DistributedTo(l, r, c).escrow = l.escrow - Total
      /\ DistributedTo(l, r, c).supplier = l.supplier + (Total - r - c)
      /\ DistributedTo(l, r, c).commission = l.commission + c
      /\ DistributedTo(l, r, c).refund = l.refund + r
  BY DEF DistributedTo
<1> QED BY <1>1, <1>2, <1>3

(* The three journals that may be written for an order.                    *)
LEMMA LedgerMoves ==
  ASSUME TypeInv, [Next]_vars, NEW o \in Orders
  PROVE  \/ ledger'[o] = ledger[o]
         \/ \E h \in Hooks :
              /\ HookBook(h) /\ hook[h].order = o
              /\ ledger'[o] = Received(ledger[o], payment[hook[h].pay].amount)
         \/ \E d \in Dispatcher :
              /\ ReleaseBook(d) /\ release[d].order = o
              /\ ledger'[o] = DistributedTo(ledger[o], 0, CommissionOn(Total))
         \/ \E s \in Staff :
              /\ RuleBook(s) /\ ruling[s].order = o
              /\ ledger'[o] = DistributedTo(ledger[o], ruling[s].refund,
                                            CommissionOn(Total - ruling[s].refund))
<1>0. ledger \in [Orders -> AccountsType] BY DEF TypeInv, TypeOK, SettlementTypeOK
<1>1. ASSUME NEW h \in Hooks, HookBook(h)
      PROVE  \/ ledger'[o] = ledger[o]
             \/ /\ hook[h].order = o
                /\ ledger'[o] = Received(ledger[o], payment[hook[h].pay].amount)
  BY <1>0, <1>1 DEF HookBook
<1>2. ASSUME NEW d \in Dispatcher, ReleaseBook(d)
      PROVE  \/ ledger'[o] = ledger[o]
             \/ /\ release[d].order = o
                /\ ledger'[o] = DistributedTo(ledger[o], 0, CommissionOn(Total))
  BY <1>0, <1>2 DEF ReleaseBook
<1>3. ASSUME NEW s \in Staff, RuleBook(s)
      PROVE  \/ ledger'[o] = ledger[o]
             \/ /\ ruling[s].order = o
                /\ ledger'[o] = DistributedTo(ledger[o], ruling[s].refund,
                                              CommissionOn(Total - ruling[s].refund))
  BY <1>0, <1>3 DEF RuleBook, Distributed
<1>4. \/ ledger' = ledger
      \/ \E h \in Hooks : HookBook(h)
      \/ \E d \in Dispatcher : ReleaseBook(d)
      \/ \E s \in Staff : RuleBook(s)
  <2>1. CASE OrderSteps BY <2>1 DEF OrderSteps, settlementVars
  <2>2. CASE MoneySteps
    BY <2>2 DEF MoneySteps, SettlementNext, moneyVars, CheckoutStart, CheckoutPrice,
      CheckoutReuse, CheckoutCreate, Charge, PaymentAges, HookStart, HookSettle, HookAdvance,
      Dispatch, ReleaseStatus, ReleaseTransfer, ReleaseComplete, Publish, Onboard
  <2>3. CASE DisputeSteps
    BY <2>3 DEF DisputeSteps, DisputesNext, settlementVars, OpenStart, OpenCreate, OpenAdvance,
      EvidenceStart, EvidenceWrite, RuleStart, RuleAdvance
  <2>4. CASE SweepSteps
    BY <2>4 DEF SweepSteps, SweepStep, settlementVars, SweepStart, SweepCancel, OrphanRead,
      OrphanRelease, OrphanAbort
  <2>5. CASE CustomsSteps BY <2>5 DEF CustomsSteps, settlementVars
  <2>6. CASE Crash BY <2>6 DEF Crash, moneyVars
  <2>7. CASE UNCHANGED vars BY <2>7 DEF vars, settlementVars
  <2> QED BY <2>1, <2>2, <2>3, <2>4, <2>5, <2>6, <2>7 DEF Next
<1> QED BY <1>1, <1>2, <1>3, <1>4

(* What one step does to the ledger of an order, in numbers.               *)
LEMMA LedgerFacts ==
  ASSUME TypeInv, PositiveAmounts, [Next]_vars, NEW o \in Orders
  PROVE  /\ ledger[o] \in AccountsType /\ ledger'[o] \in AccountsType
         /\ ledger'[o].transit >= ledger[o].transit
         /\ PaidOut(o)' >= PaidOut(o)
         /\ ledger'[o].transit - ledger'[o].escrow - PaidOut(o)' =
              ledger[o].transit - ledger[o].escrow - PaidOut(o)
         /\ \A h \in Hooks : HookBook(h) /\ hook[h].order = o =>
              ledger'[o].transit > ledger[o].transit
         /\ \A d \in Dispatcher : ReleaseBook(d) /\ release[d].order = o =>
              PaidOut(o)' = PaidOut(o) + Total
         /\ \A s \in Staff : RuleBook(s) /\ ruling[s].order = o =>
              PaidOut(o)' = PaidOut(o) + Total
<1>0. /\ ledger \in [Orders -> AccountsType] /\ ledger' \in [Orders -> AccountsType]
      /\ Total \in Nat \ {0}
  BY NextTypes, SettlementAssumption DEF TypeInv, TypeOK, SettlementTypeOK, SettlementAssumption
<1>1. /\ ledger[o] \in AccountsType /\ ledger'[o] \in AccountsType BY <1>0
<1> DEFINE l == ledger[o]
           m == ledger'[o]
<1>2. /\ l.transit \in Int /\ l.escrow \in Int /\ l.supplier \in Int /\ l.commission \in Int
      /\ l.refund \in Int /\ m.transit \in Int /\ m.escrow \in Int /\ m.supplier \in Int
      /\ m.commission \in Int /\ m.refund \in Int
  BY <1>1 DEF AccountsType
<1>3. PaidOut(o) = l.supplier + l.commission + l.refund
      /\ PaidOut(o)' = m.supplier + m.commission + m.refund
  BY DEF PaidOut
<1>a. ASSUME NEW h \in Hooks, HookBook(h), hook[h].order = o
      PROVE  /\ m.transit > l.transit /\ m.supplier = l.supplier
             /\ m.commission = l.commission /\ m.refund = l.refund
             /\ m.escrow - l.escrow = m.transit - l.transit
  <2>1. hook[h] # Idle /\ hook[h] \in HookType
    BY <1>a DEF HookBook, Idle, TypeInv, TypeOK, SettlementTypeOK
  <2>2. hook[h].pay \in PayId /\ payment[hook[h].pay] # NoPayment
    BY <2>1 DEF HookType, TypeInv, RowsExist
  <2>3. payment[hook[h].pay] \in PaymentType BY <2>2 DEF TypeInv, TypeOK, SettlementTypeOK
  <2> DEFINE a == payment[hook[h].pay].amount
  <2>4. a \in Nat /\ a > 0 BY <2>2, <2>3 DEF PaymentType, PositiveAmounts
  <2>5. m = Received(l, a) BY <1>0, <1>a DEF HookBook
  <2> HIDE DEF a
  <2>6. /\ m.transit = l.transit + a /\ m.escrow = l.escrow + a
        /\ m.supplier = l.supplier /\ m.commission = l.commission /\ m.refund = l.refund
    BY <1>1, <2>4, <2>5, ReceivedFacts
  <2> QED BY <1>2, <2>4, <2>6
<1>b. ASSUME NEW r \in Int, m = DistributedTo(l, r, CommissionOn(Total - r))
      PROVE  /\ m.transit = l.transit /\ m.escrow = l.escrow - Total
             /\ PaidOut(o)' = PaidOut(o) + Total
  <2>1. CommissionOn(Total - r) \in Int BY <1>0, CommissionType
  <2> QED BY <1>1, <1>2, <1>3, <1>b, <2>1, DistributedFacts
<1>c. ASSUME NEW d \in Dispatcher, ReleaseBook(d), release[d].order = o
      PROVE  /\ m.transit = l.transit /\ m.escrow = l.escrow - Total
             /\ PaidOut(o)' = PaidOut(o) + Total
  <2>1. m = DistributedTo(l, 0, CommissionOn(Total)) BY <1>0, <1>c DEF ReleaseBook
  <2>2. Total - 0 = Total BY <1>0
  <2> QED BY <2>1, <2>2, <1>b
<1>d. ASSUME NEW s \in Staff, RuleBook(s), ruling[s].order = o
      PROVE  /\ m.transit = l.transit /\ m.escrow = l.escrow - Total
             /\ PaidOut(o)' = PaidOut(o) + Total
  <2>1. ruling[s] \in RulingType
    BY <1>d DEF RuleBook, Idle, TypeInv, TypeOK, DisputesTypeOK
  <2>2. ruling[s].refund \in Int BY <2>1 DEF RulingType
  <2>3. m = DistributedTo(l, ruling[s].refund, CommissionOn(Total - ruling[s].refund))
    BY <1>0, <1>d DEF RuleBook, Distributed
  <2> QED BY <2>2, <2>3, <1>b
<1>4. \/ m = l
      \/ \E h \in Hooks : HookBook(h) /\ hook[h].order = o
      \/ \E d \in Dispatcher : ReleaseBook(d) /\ release[d].order = o
      \/ \E s \in Staff : RuleBook(s) /\ ruling[s].order = o
  BY LedgerMoves
<1>5. /\ m.transit >= l.transit /\ PaidOut(o)' >= PaidOut(o)
      /\ m.transit - m.escrow - PaidOut(o)' = l.transit - l.escrow - PaidOut(o)
  <2>1. CASE m = l BY <2>1, <1>2, <1>3
  <2>2. CASE \E h \in Hooks : HookBook(h) /\ hook[h].order = o BY <2>2, <1>a, <1>2, <1>3
  <2>3. CASE \/ \E d \in Dispatcher : ReleaseBook(d) /\ release[d].order = o
             \/ \E s \in Staff : RuleBook(s) /\ ruling[s].order = o
    BY <2>3, <1>c, <1>d, <1>0, <1>2, <1>3
  <2> QED BY <2>1, <2>2, <2>3, <1>4
<1> QED BY <1>1, <1>5, <1>a, <1>c, <1>d

(* Nothing a transition relies on is ever taken back.                      *)
LEMMA StaysPrepared ==
  ASSUME MoneyInv, [Next]_vars, NEW o \in Orders, NEW to, NEW next, Prepared(o, to, next)
  PROVE  Prepared(o, to, next)'
<1>1. TypeInv /\ PositiveAmounts BY DEF MoneyInv, OrderInv
<1>2. /\ ledger[o] \in AccountsType /\ ledger'[o] \in AccountsType
      /\ ledger'[o].transit >= ledger[o].transit /\ PaidOut(o)' >= PaidOut(o)
  BY <1>1, LedgerFacts
<1>3. /\ ledger[o].transit \in Int /\ ledger'[o].transit \in Int
      /\ PaidOut(o) \in Int /\ PaidOut(o)' \in Int /\ Total \in Int
  BY <1>2, SettlementAssumption DEF AccountsType, PaidOut, SettlementAssumption
<1>4. HasRow(o) => HasRow(o)' BY <1>1, DisputesStay DEF HasRow
<1> QED BY <1>2, <1>3, <1>4 DEF Prepared

----------------------------------------------------------------------------
(* The invariant, part by part                                             *)

LEMMA MoneyInvInit == ASSUME Init PROVE MoneyInv
<1>1. OrderInv BY OrderInvInit
<1>2. Conservation /\ NeverNegative
  BY DEF Init, SettlementInit, Conservation, NeverNegative, PaidOut
<1>3. PositiveAmounts
  BY DEF Init, SettlementInit, PositiveAmounts, Idle
<1>4. HandlersPrepared
  BY DEF Init, SettlementInit, DisputesInit, HandlersPrepared, Idle
<1>5. CallsPrepared BY DEF Init, TradingInit, CallsPrepared
<1>6. EscrowBeforeProgress /\ PaidOutBeforeClosing /\ DisputedHasRow
  BY DEF Init, TradingInit, EscrowBeforeProgress, PaidOutBeforeClosing, DisputedHasRow, UnpaidStates
<1> QED BY <1>1, <1>2, <1>3, <1>4, <1>5, <1>6 DEF MoneyInv

LEMMA BalanceKept == ASSUME MoneyInv, [Next]_vars PROVE Conservation' /\ NeverNegative'
<1> SUFFICES ASSUME NEW o \in Orders
             PROVE  /\ ledger'[o].transit = ledger'[o].escrow + PaidOut(o)'
                    /\ ledger'[o].transit >= 0 /\ PaidOut(o)' >= 0
  BY DEF Conservation, NeverNegative
<1>1. /\ ledger[o] \in AccountsType /\ ledger'[o] \in AccountsType
      /\ ledger'[o].transit >= ledger[o].transit /\ PaidOut(o)' >= PaidOut(o)
      /\ ledger'[o].transit - ledger'[o].escrow - PaidOut(o)' =
           ledger[o].transit - ledger[o].escrow - PaidOut(o)
  BY LedgerFacts DEF MoneyInv, OrderInv
<1>2. /\ ledger[o].transit \in Int /\ ledger'[o].transit \in Int
      /\ ledger[o].escrow \in Int /\ ledger'[o].escrow \in Int
      /\ PaidOut(o) \in Int /\ PaidOut(o)' \in Int
  BY <1>1 DEF AccountsType, PaidOut
<1>3. /\ ledger[o].transit = ledger[o].escrow + PaidOut(o)
      /\ ledger[o].transit >= 0 /\ PaidOut(o) >= 0
  BY DEF MoneyInv, Conservation, NeverNegative
<1> QED BY <1>1, <1>2, <1>3

(* The steps that change anything of Settlement.                           *)
LEMMA MoneyWriters ==
  ASSUME [Next]_vars
  PROVE  \/ UNCHANGED settlementVars
         \/ MoneySteps \/ Crash
         \/ \E s \in Staff : RuleBook(s)
<1>1. CASE OrderSteps BY <1>1 DEF OrderSteps
<1>2. CASE DisputeSteps
  BY <1>2 DEF DisputeSteps, DisputesNext, OpenStart, OpenCreate, OpenAdvance, EvidenceStart,
    EvidenceWrite, RuleStart, RuleAdvance
<1>3. CASE SweepSteps
  BY <1>3 DEF SweepSteps, SweepStep, SweepStart, SweepCancel, OrphanRead, OrphanRelease,
    OrphanAbort
<1>4. CASE CustomsSteps BY <1>4 DEF CustomsSteps
<1>5. CASE UNCHANGED vars BY <1>5 DEF vars
<1> QED BY <1>1, <1>2, <1>3, <1>4, <1>5 DEF Next

(* A checkout that knows its amount has just got it, or has found no       *)
(* intent to hand out again.                                               *)
LEMMA CheckoutMoves ==
  ASSUME TypeInv, [Next]_vars, NEW b \in Buyers, checkout'[b].at \in {"reuse", "create"},
         checkout'[b] # checkout[b]
  PROVE  /\ checkout[b] \in CheckoutType /\ checkout'[b].order = checkout[b].order
         /\ \/ /\ checkout'[b].at = "reuse"
               /\ checkout'[b].amount \in AmountsDue(checkout[b].order)
            \/ /\ CheckoutReuse(b) /\ Pending(checkout[b].order) = {}
               /\ checkout'[b].at = "create" /\ checkout'[b].amount = checkout[b].amount
<1> DEFINE P == /\ checkout[b] \in CheckoutType /\ checkout'[b].order = checkout[b].order
                /\ \/ /\ checkout'[b].at = "reuse"
                      /\ checkout'[b].amount \in AmountsDue(checkout[b].order)
                   \/ /\ CheckoutReuse(b) /\ Pending(checkout[b].order) = {}
                      /\ checkout'[b].at = "create" /\ checkout'[b].amount = checkout[b].amount
<1>0. checkout \in [Buyers -> CheckoutType \cup {Idle}]
  BY DEF TypeInv, TypeOK, SettlementTypeOK
<1>a. checkout'[b] # Idle BY DEF Idle
<1>1. CASE CheckoutPrice(b)
  <2>1. checkout[b].at = "price" BY <1>1 DEF CheckoutPrice
  <2>2. checkout[b] \in CheckoutType BY <2>1, <1>0 DEF Idle
  <2>3. \/ checkout' = [checkout EXCEPT ![b] = Idle]
        \/ \E a \in AmountsDue(checkout[b].order) :
             checkout' = [checkout EXCEPT ![b] =
                            [checkout[b] EXCEPT !.at = "reuse", !.amount = a]]
    BY <1>1 DEF CheckoutPrice
  <2>4. PICK a \in AmountsDue(checkout[b].order) :
          checkout'[b] = [checkout[b] EXCEPT !.at = "reuse", !.amount = a]
    BY <2>3, <1>a, <1>0
  <2>5. /\ checkout'[b].at = "reuse" /\ checkout'[b].amount = a
        /\ checkout'[b].order = checkout[b].order
    BY <2>2, <2>4 DEF CheckoutType
  <2> QED BY <2>2, <2>5
<1>2. CASE CheckoutReuse(b)
  <2>1. checkout[b] \in CheckoutType BY <1>2, <1>0 DEF CheckoutReuse, Idle
  <2>2. /\ Pending(checkout[b].order) = {}
        /\ checkout'[b] = [checkout[b] EXCEPT !.at = "create"]
    BY <1>2, <1>0, <1>a DEF CheckoutReuse
  <2>3. /\ checkout'[b].at = "create" /\ checkout'[b].amount = checkout[b].amount
        /\ checkout'[b].order = checkout[b].order
    BY <2>1, <2>2 DEF CheckoutType
  <2> QED BY <2>1, <2>2, <2>3, <1>2
<1>3. CASE MoneySteps
  <2>1. ASSUME NEW c \in Buyers, CheckoutPrice(c) \/ CheckoutReuse(c), c # b PROVE FALSE
    BY <2>1, <1>0 DEF CheckoutPrice, CheckoutReuse
  <2>2. ASSUME NEW c \in Buyers, NEW o \in Orders, CheckoutStart(c, o) PROVE FALSE
    <3>1. checkout' = [checkout EXCEPT ![c] =
            [at |-> "price", order |-> o, seen |-> order[o].status, amount |-> 0]]
      BY <2>2 DEF CheckoutStart
    <3> QED BY <3>1, <1>0
  <2>3. ASSUME NEW c \in Buyers, CheckoutCreate(c) PROVE FALSE
    <3>1. checkout' = [checkout EXCEPT ![c] = Idle] BY <2>3 DEF CheckoutCreate
    <3> QED BY <3>1, <1>0, <1>a
  <2>4. \/ checkout' = checkout
        \/ \E c \in Buyers :
             CheckoutPrice(c) \/ CheckoutReuse(c) \/ CheckoutCreate(c)
             \/ \E o \in Orders : CheckoutStart(c, o)
    BY <1>3 DEF MoneySteps, SettlementNext, Charge, PaymentAges, HookStart, HookSettle,
      HookBook, HookAdvance, Dispatch, ReleaseStatus, ReleaseTransfer, ReleaseBook,
      ReleaseComplete, Publish, Onboard
  <2> QED BY <2>1, <2>2, <2>3, <2>4, <1>1, <1>2
<1>4. CASE Crash
  <2>1. checkout' = [c \in Buyers |-> Idle] BY <1>4 DEF Crash
  <2> QED BY <2>1, <1>a
<1>5. CASE UNCHANGED settlementVars \/ \E s \in Staff : RuleBook(s)
  BY <1>5 DEF settlementVars, RuleBook
<1> QED BY <1>3, <1>4, <1>5, MoneyWriters

LEMMA AmountsKept == ASSUME MoneyInv, [Next]_vars PROVE PositiveAmounts'
<1>0. /\ TypeInv /\ PositiveAmounts
      /\ payment \in [PayId -> PaymentType \cup {NoPayment}]
      /\ checkout \in [Buyers -> CheckoutType \cup {Idle}]
  BY DEF MoneyInv, OrderInv, TypeInv, TypeOK, SettlementTypeOK
<1>1. ASSUME NEW p \in PayId, payment'[p] # NoPayment PROVE payment'[p].amount > 0
  <2>1. CASE payment[p] # NoPayment
    BY <2>1, <1>0, PaymentsStay DEF PositiveAmounts
  <2>2. CASE payment[p] = NoPayment
    <3>1. ASSUME NEW b \in Buyers, CheckoutCreate(b) PROVE payment'[p].amount > 0
      <4>1. checkout[b].amount > 0 BY <3>1, <1>0 DEF CheckoutCreate, PositiveAmounts
      <4>2. PICK q \in PayId :
              payment' = [payment EXCEPT ![q] =
                [status |-> "PENDING", order |-> checkout[b].order,
                 amount |-> checkout[b].amount, recent |-> TRUE]]
        BY <3>1 DEF CheckoutCreate
      <4>3. p = q BY <4>2, <2>2, <1>1, <1>0
      <4>4. payment'[p].amount = checkout[b].amount BY <4>2, <4>3, <1>0
      <4> QED BY <4>1, <4>4
    <3>2. ASSUME NEW q \in PayId, PaymentAges(q) PROVE FALSE
      <4>1. p # q BY <3>2, <2>2 DEF PaymentAges, NoPayment
      <4>2. payment'[p] = payment[p] BY <3>2, <4>1, <1>0 DEF PaymentAges
      <4> QED BY <4>2, <1>1, <2>2
    <3>3. ASSUME NEW h \in Hooks, HookBook(h) PROVE FALSE
      <4>1. p # hook[h].pay
        BY <3>3, <2>2, <1>0 DEF HookBook, Idle, TypeInv, RowsExist
      <4>2. payment'[p] = payment[p] BY <3>3, <4>1, <1>0 DEF HookBook
      <4> QED BY <4>2, <1>1, <2>2
    <3>4. ASSUME NEW s \in Staff, RuleBook(s) PROVE FALSE
      <4>1. p \notin Succeeded(ruling[s].order) BY <2>2 DEF Succeeded, NoPayment
      <4>2. payment'[p] = payment[p] BY <3>4, <4>1 DEF RuleBook, Refunded
      <4> QED BY <4>2, <1>1, <2>2
    <3>5. \/ payment' = payment
          \/ \E b \in Buyers : CheckoutCreate(b)
          \/ \E q \in PayId : PaymentAges(q)
          \/ \E h \in Hooks : HookBook(h)
          \/ \E s \in Staff : RuleBook(s)
      <4>1. CASE MoneySteps
        BY <4>1 DEF MoneySteps, SettlementNext, moneyVars, CheckoutStart, CheckoutPrice,
          CheckoutReuse, Charge, HookStart, HookSettle, HookAdvance, Dispatch, ReleaseStatus,
          ReleaseTransfer, ReleaseBook, ReleaseComplete, Publish, Onboard
      <4>2. CASE DisputeSteps
        BY <4>2 DEF DisputeSteps, DisputesNext, settlementVars, OpenStart, OpenCreate, OpenAdvance,
          EvidenceStart, EvidenceWrite, RuleStart, RuleAdvance
      <4>3. CASE SweepSteps
        BY <4>3 DEF SweepSteps, SweepStep, settlementVars, SweepStart, SweepCancel, OrphanRead,
          OrphanRelease, OrphanAbort
      <4>4. CASE OrderSteps \/ CustomsSteps \/ Crash \/ UNCHANGED vars
        BY <4>4 DEF OrderSteps, CustomsSteps, Crash, vars, settlementVars, moneyVars
      <4> QED BY <4>1, <4>2, <4>3, <4>4 DEF Next
    <3> QED BY <3>1, <3>2, <3>3, <3>4, <3>5, <2>2, <1>1
  <2> QED BY <2>1, <2>2
<1>2. ASSUME NEW b \in Buyers, checkout'[b].at \in {"reuse", "create"}
      PROVE  checkout'[b].amount > 0
  <2>1. CASE checkout'[b] = checkout[b] BY <2>1, <1>2, <1>0 DEF PositiveAmounts
  <2>2. CASE checkout'[b] # checkout[b]
    <3>1. checkout[b].order \in Orders BY <1>0, <1>2, <2>2, CheckoutMoves DEF CheckoutType
    <3>2. CheckoutReuse(b) => checkout[b].amount > 0
      BY <1>0 DEF CheckoutReuse, PositiveAmounts
    <3> QED BY <3>1, <3>2, <1>0, <1>2, <2>2, CheckoutMoves, AmountsDueType
  <2> QED BY <2>1, <2>2
<1> QED BY <1>1, <1>2 DEF PositiveAmounts

(* A webhook, a release, an opening or a ruling that asks for its          *)
(* transition next has done its writing, in this step or before.           *)
LEMMA HookReady ==
  ASSUME TypeInv, [Next]_vars, NEW h \in Hooks, hook'[h].at = "advance"
  PROVE  \/ hook'[h] = hook[h]
         \/ HookBook(h) /\ hook'[h].order = hook[h].order
<1>0. hook \in [Hooks -> HookType \cup {Idle}] BY DEF TypeInv, TypeOK, SettlementTypeOK
<1>1. CASE MoneySteps
  <2>1. ASSUME NEW g \in Hooks, NEW p \in PayId, HookStart(g, p) PROVE hook'[h] = hook[h]
    <3>1. hook' = [hook EXCEPT ![g] = HookFrame(p)] BY <2>1 DEF HookStart
    <3>2. HookFrame(p).at # "advance" BY DEF HookFrame, Idle
    <3> QED BY <3>1, <3>2, <1>0
  <2>2. ASSUME NEW g \in Hooks, HookSettle(g) PROVE hook'[h] = hook[h]
    <3>1. PICK ks : hook' = [hook EXCEPT ![g].at = "settle", ![g].settles = ks]
      BY <2>2 DEF HookSettle
    <3>2. CASE g = h
      <4>1. hook[g] \in HookType BY <2>2, <1>0 DEF HookSettle, Idle
      <4>2. hook'[h] = [hook[h] EXCEPT !.at = "settle", !.settles = ks] BY <3>1, <3>2, <1>0
      <4>3. hook'[h].at = "settle" BY <4>1, <4>2, <3>2 DEF HookType
      <4> QED BY <4>3
    <3>3. CASE g # h
      <4>1. hook'[h] = hook[h] BY <3>1, <3>3, <1>0
      <4> QED BY <4>1
    <3> QED BY <3>2, <3>3
  <2>3. ASSUME NEW g \in Hooks, HookBook(g), g # h PROVE hook'[h] = hook[h]
    BY <2>3, <1>0 DEF HookBook
  <2>4. ASSUME HookBook(h) PROVE hook'[h].order = hook[h].order
    <3>1. hook[h].at = "settle" BY <2>4 DEF HookBook
    <3>2. hook[h] \in HookType BY <3>1, <1>0 DEF Idle
    <3>3. hook'[h] = [hook[h] EXCEPT !.at = "advance"] \/ hook'[h] = Idle
      BY <2>4, <1>0 DEF HookBook
    <3> QED BY <3>2, <3>3 DEF HookType, Idle
  <2>5. ASSUME NEW g \in Hooks, HookAdvance(g) PROVE hook'[h] = hook[h]
    BY <2>5, <1>0 DEF HookAdvance, Idle
  <2>6. \/ hook' = hook
        \/ \E g \in Hooks : \/ HookSettle(g) \/ HookBook(g) \/ HookAdvance(g)
                            \/ \E p \in PayId : HookStart(g, p)
    BY <1>1 DEF MoneySteps, SettlementNext, CheckoutStart, CheckoutPrice, CheckoutReuse,
      CheckoutCreate, Charge, PaymentAges, Dispatch, ReleaseStatus, ReleaseTransfer, ReleaseBook,
      ReleaseComplete, Publish, Onboard
  <2> QED BY <2>1, <2>2, <2>3, <2>4, <2>5, <2>6
<1>2. CASE DisputeSteps
  BY <1>2 DEF DisputeSteps, DisputesNext, settlementVars, OpenStart, OpenCreate, OpenAdvance,
    EvidenceStart, EvidenceWrite, RuleStart, RuleBook, RuleAdvance
<1>3. CASE SweepSteps
  BY <1>3 DEF SweepSteps, SweepStep, settlementVars, SweepStart, SweepCancel, OrphanRead,
    OrphanRelease, OrphanAbort
<1>4. CASE Crash
  <2>1. hook' = [g \in Hooks |-> Idle] BY <1>4 DEF Crash
  <2>2. hook'[h] = Idle BY <2>1
  <2> QED BY <2>2 DEF Idle
<1>5. CASE OrderSteps \/ CustomsSteps \/ UNCHANGED vars
  BY <1>5 DEF OrderSteps, CustomsSteps, vars, settlementVars
<1> QED BY <1>1, <1>2, <1>3, <1>4, <1>5 DEF Next

LEMMA ReleaseReady ==
  ASSUME TypeInv, [Next]_vars, NEW d \in Dispatcher, release'[d].at = "complete"
  PROVE  \/ release'[d] = release[d]
         \/ ReleaseBook(d) /\ release'[d].order = release[d].order
<1>0. release \in [Dispatcher -> ReleaseType \cup {Idle}] BY DEF TypeInv, TypeOK, SettlementTypeOK
<1>a. ASSUME NEW at, NEW e \in Dispatcher, To(e, at), release[e] # Idle, at # "complete" \/ e # d
      PROVE  release'[d] = release[d]
  <2>1. release' = [release EXCEPT ![e].at = at] BY <1>a DEF To
  <2>2. CASE e # d
    <3>1. release'[d] = release[d] BY <2>1, <2>2, <1>0
    <3> QED BY <3>1
  <2>3. CASE e = d
    <3>1. release[d] \in ReleaseType BY <2>3, <1>a, <1>0
    <3>2. release'[d] = [release[d] EXCEPT !.at = at] BY <2>1, <2>3, <1>0
    <3>3. release'[d].at = at BY <3>1, <3>2 DEF ReleaseType
    <3> QED BY <3>3, <2>3, <1>a
  <2> QED BY <2>2, <2>3
<1>1. CASE MoneySteps
  <2>1. ASSUME NEW e \in Dispatcher, Dispatch(e) PROVE release'[d] = release[d]
    <3>1. PICK r : release' = [release EXCEPT ![e] = [at |-> "status", order |-> r]]
      BY <2>1 DEF Dispatch
    <3> QED BY <3>1, <1>0
  <2>2. ASSUME NEW e \in Dispatcher, ReleaseStatus(e) \/ ReleaseComplete(e)
        PROVE  release'[d] = release[d]
    <3>1. release[e] # Idle BY <2>2 DEF ReleaseStatus, ReleaseComplete, Idle
    <3>2. To(e, "dispute") \/ To(e, "publish") BY <2>2 DEF ReleaseStatus, ReleaseComplete
    <3> QED BY <3>1, <3>2, <1>a
  <2>3. ASSUME NEW e \in Dispatcher, ReleaseTransfer(e, InDispute)
        PROVE  release'[d] = release[d]
    <3>1. release[e] # Idle BY <2>3 DEF ReleaseTransfer, Idle
    <3>2. To(e, "book") \/ To(e, "publish") BY <2>3 DEF ReleaseTransfer
    <3> QED BY <3>1, <3>2, <1>a
  <2>4. ASSUME NEW e \in Dispatcher, ReleaseBook(e), e # d PROVE release'[d] = release[d]
    <3>1. release[e] # Idle /\ To(e, "complete") BY <2>4 DEF ReleaseBook, Idle
    <3> QED BY <3>1, <2>4, <1>a
  <2>5. ASSUME ReleaseBook(d) PROVE release'[d].order = release[d].order
    <3>1. release[d].at = "book" BY <2>5 DEF ReleaseBook
    <3>2. release[d] \in ReleaseType BY <3>1, <1>0 DEF Idle
    <3>3. release'[d] = [release[d] EXCEPT !.at = "complete"] BY <2>5, <1>0 DEF ReleaseBook, To
    <3> QED BY <3>2, <3>3 DEF ReleaseType
  <2>6. ASSUME NEW e \in Dispatcher, Publish(e) PROVE release'[d] = release[d]
    <3>1. release' = [release EXCEPT ![e] = Idle] BY <2>6 DEF Publish
    <3> QED BY <3>1, <1>0 DEF Idle
  <2>7. \/ release' = release
        \/ \E e \in Dispatcher :
             \/ Dispatch(e) \/ ReleaseStatus(e) \/ ReleaseComplete(e)
             \/ ReleaseTransfer(e, InDispute) \/ ReleaseBook(e) \/ Publish(e)
    BY <1>1 DEF MoneySteps, SettlementNext, CheckoutStart, CheckoutPrice, CheckoutReuse,
      CheckoutCreate, Charge, PaymentAges, HookStart, HookSettle, HookBook, HookAdvance, Onboard
  <2> QED BY <2>1, <2>2, <2>3, <2>4, <2>5, <2>6, <2>7
<1>2. CASE DisputeSteps
  BY <1>2 DEF DisputeSteps, DisputesNext, settlementVars, OpenStart, OpenCreate, OpenAdvance,
    EvidenceStart, EvidenceWrite, RuleStart, RuleBook, RuleAdvance
<1>3. CASE SweepSteps
  BY <1>3 DEF SweepSteps, SweepStep, settlementVars, SweepStart, SweepCancel, OrphanRead,
    OrphanRelease, OrphanAbort
<1>4. CASE Crash
  <2>1. release' = [e \in Dispatcher |-> Idle] BY <1>4 DEF Crash
  <2>2. release'[d] = Idle BY <2>1
  <2> QED BY <2>2 DEF Idle
<1>5. CASE OrderSteps \/ CustomsSteps \/ UNCHANGED vars
  BY <1>5 DEF OrderSteps, CustomsSteps, vars, settlementVars
<1> QED BY <1>1, <1>2, <1>3, <1>4, <1>5 DEF Next

LEMMA PartyReady ==
  ASSUME TypeInv, [Next]_vars, NEW p \in Parties, opening'[p].at = "advance"
  PROVE  \/ opening'[p] = opening[p]
         \/ OpenCreate(p) /\ opening'[p].order = opening[p].order
<1>0. opening \in [Parties -> OpeningType \cup {Idle}] BY DEF TypeInv, TypeOK, DisputesTypeOK
<1>1. CASE DisputeSteps
  <2>1. ASSUME NEW q \in Parties, NEW o \in Orders, NEW role, OpenStart(q, o, role)
        PROVE  opening'[p] = opening[p]
    <3>1. opening' = [opening EXCEPT ![q] = OpeningFrame(o, role)] BY <2>1 DEF OpenStart
    <3>2. OpeningFrame(o, role).at = "create" BY DEF OpeningFrame
    <3> QED BY <3>1, <3>2, <1>0
  <2>2. ASSUME NEW q \in Parties, OpenCreate(q)
        PROVE  \/ opening'[p] = opening[p]
               \/ OpenCreate(p) /\ opening'[p].order = opening[p].order
    <3>1. opening' = [opening EXCEPT ![q].at = "advance"] /\ opening[q].at = "create"
      BY <2>2 DEF OpenCreate
    <3>2. CASE q # p
      <4>1. opening'[p] = opening[p] BY <3>1, <3>2, <1>0
      <4> QED BY <4>1
    <3>3. CASE q = p
      <4>1. opening[p] \in OpeningType BY <3>1, <3>3, <1>0 DEF Idle
      <4>2. opening'[p] = [opening[p] EXCEPT !.at = "advance"] BY <3>1, <3>3, <1>0
      <4>3. opening'[p].order = opening[p].order BY <4>1, <4>2 DEF OpeningType
      <4> QED BY <4>3, <3>3, <2>2
    <3> QED BY <3>2, <3>3
  <2>3. ASSUME NEW q \in Parties, OpenAdvance(q) PROVE opening'[p] = opening[p]
    <3>1. opening' = [opening EXCEPT ![q] = Idle] BY <2>3 DEF OpenAdvance
    <3> QED BY <3>1, <1>0 DEF Idle
  <2>4. \/ opening' = opening
        \/ \E q \in Parties : \/ OpenCreate(q) \/ OpenAdvance(q)
                              \/ \E o \in Orders, role \in {"BUYER", "SUPPLIER"} :
                                   OpenStart(q, o, role)
    BY <1>1 DEF DisputeSteps, DisputesNext, EvidenceStart, EvidenceWrite, RuleStart, RuleBook,
      RuleAdvance
  <2> QED BY <2>1, <2>2, <2>3, <2>4
<1>2. CASE Crash
  <2>1. opening' = [q \in Parties |-> Idle] BY <1>2 DEF Crash
  <2>2. opening'[p] = Idle BY <2>1
  <2> QED BY <2>2 DEF Idle
<1>3. CASE ~DisputeSteps /\ ~Crash
  BY <1>3 DEF Next, OrderSteps, MoneySteps, SweepSteps, CustomsSteps, disputeVars, vars
<1> QED BY <1>1, <1>2, <1>3

LEMMA StaffReady ==
  ASSUME TypeInv, [Next]_vars, NEW s \in Staff, ruling'[s].at = "advance"
  PROVE  \/ ruling'[s] = ruling[s]
         \/ RuleBook(s) /\ ruling'[s].order = ruling[s].order
<1>0. ruling \in [Staff -> RulingType \cup {Idle}] BY DEF TypeInv, TypeOK, DisputesTypeOK
<1>1. CASE DisputeSteps
  <2>1. ASSUME NEW g \in Staff, NEW d \in DisputeId, NEW refund, NEW role, RuleStart(g, d, refund, role)
        PROVE  ruling'[s] = ruling[s]
    <3>1. ruling' = [ruling EXCEPT ![g] =
            [at |-> "book", dispute |-> d, order |-> dispute[d].order,
             refund |-> refund, role |-> role]]
      BY <2>1 DEF RuleStart
    <3> QED BY <3>1, <1>0
  <2>2. ASSUME NEW g \in Staff, RuleBook(g)
        PROVE  \/ ruling'[s] = ruling[s]
               \/ RuleBook(s) /\ ruling'[s].order = ruling[s].order
    <3>1. ruling' = [ruling EXCEPT ![g].at = "advance"] /\ ruling[g].at = "book"
      BY <2>2 DEF RuleBook
    <3>2. CASE g # s
      <4>1. ruling'[s] = ruling[s] BY <3>1, <3>2, <1>0
      <4> QED BY <4>1
    <3>3. CASE g = s
      <4>1. ruling[s] \in RulingType BY <3>1, <3>3, <1>0 DEF Idle
      <4>2. ruling'[s] = [ruling[s] EXCEPT !.at = "advance"] BY <3>1, <3>3, <1>0
      <4>3. ruling'[s].order = ruling[s].order BY <4>1, <4>2 DEF RulingType
      <4> QED BY <4>3, <3>3, <2>2
    <3> QED BY <3>2, <3>3
  <2>3. ASSUME NEW g \in Staff, RuleAdvance(g) PROVE ruling'[s] = ruling[s]
    <3>1. ruling' = [ruling EXCEPT ![g] = Idle] BY <2>3 DEF RuleAdvance
    <3> QED BY <3>1, <1>0 DEF Idle
  <2>4. \/ ruling' = ruling
        \/ \E g \in Staff : \/ RuleBook(g) \/ RuleAdvance(g)
                            \/ \E d \in DisputeId, refund \in Decisions, role \in StaffRoles :
                                 RuleStart(g, d, refund, role)
    BY <1>1 DEF DisputeSteps, DisputesNext, OpenStart, OpenCreate, OpenAdvance, EvidenceStart,
      EvidenceWrite
  <2> QED BY <2>1, <2>2, <2>3, <2>4
<1>2. CASE Crash
  <2>1. ruling' = [g \in Staff |-> Idle] BY <1>2 DEF Crash
  <2>2. ruling'[s] = Idle BY <2>1
  <2> QED BY <2>2 DEF Idle
<1>3. CASE ~DisputeSteps /\ ~Crash
  BY <1>3 DEF Next, OrderSteps, MoneySteps, SweepSteps, CustomsSteps, disputeVars, vars
<1> QED BY <1>1, <1>2, <1>3

LEMMA HandlersKept == ASSUME MoneyInv, [Next]_vars PROVE HandlersPrepared'
<1>0. /\ TypeInv /\ TypeInv' /\ PositiveAmounts /\ NeverNegative /\ Total \in Nat \ {0}
      /\ \A q \in Orders : ledger[q] \in AccountsType /\ ledger'[q] \in AccountsType
  BY TypeStep, SettlementAssumption
    DEF MoneyInv, OrderInv, TypeInv, TypeOK, SettlementTypeOK, SettlementAssumption
<1>1. ASSUME NEW h \in Hooks, hook'[h].at = "advance" PROVE ledger'[hook'[h].order].transit > 0
  <2>1. hook'[h] \in HookType BY <1>0, <1>1 DEF TypeInv, TypeOK, SettlementTypeOK, Idle
  <2>2. PICK o \in Orders : o = hook'[h].order BY <2>1 DEF HookType
  <2>3. /\ ledger[o].transit \in Int /\ ledger'[o].transit \in Int
        /\ ledger[o].transit >= 0 /\ ledger'[o].transit >= ledger[o].transit
    BY <1>0, LedgerFacts DEF AccountsType, NeverNegative
  <2>4. CASE hook'[h] = hook[h]
    BY <1>1, <2>2, <2>3, <2>4 DEF MoneyInv, HandlersPrepared
  <2>5. CASE HookBook(h) /\ hook'[h].order = hook[h].order
    <3>1. ledger'[o].transit > ledger[o].transit BY <2>2, <2>5, <1>0, LedgerFacts
    <3> QED BY <3>1, <2>2, <2>3
  <2> QED BY <2>4, <2>5, <1>0, <1>1, HookReady
<1>2. ASSUME NEW d \in Dispatcher, release'[d].at = "complete"
      PROVE  PaidOut(release[d].order)' >= Total
  <2>1. release'[d] \in ReleaseType BY <1>0, <1>2 DEF TypeInv, TypeOK, SettlementTypeOK, Idle
  <2>2. PICK o \in Orders : o = release'[d].order BY <2>1 DEF ReleaseType
  <2>3. /\ PaidOut(o) \in Int /\ PaidOut(o)' \in Int
        /\ PaidOut(o) >= 0 /\ PaidOut(o)' >= PaidOut(o)
    BY <1>0, LedgerFacts DEF AccountsType, NeverNegative, PaidOut
  <2>4. PaidOut(o)' >= Total
    <3>1. CASE release'[d] = release[d]
      BY <1>0, <1>2, <2>2, <2>3, <3>1 DEF MoneyInv, HandlersPrepared
    <3>2. CASE ReleaseBook(d) /\ release'[d].order = release[d].order
      <4>1. PaidOut(o)' = PaidOut(o) + Total BY <2>2, <3>2, <1>0, LedgerFacts
      <4> QED BY <4>1, <2>3, <1>0
    <3> QED BY <3>1, <3>2, <1>0, <1>2, ReleaseReady
  <2> QED BY <2>2, <2>4 DEF PaidOut
<1>3. ASSUME NEW p \in Parties, opening'[p].at = "advance" PROVE HasRow(opening[p].order)'
  <2>1. opening'[p] \in OpeningType BY <1>0, <1>3 DEF TypeInv, TypeOK, DisputesTypeOK, Idle
  <2>2. PICK o \in Orders : o = opening'[p].order BY <2>1 DEF OpeningType
  <2>3. HasRow(o)'
    <3>1. CASE opening'[p] = opening[p]
      <4>1. HasRow(o) BY <3>1, <2>2, <1>3 DEF MoneyInv, HandlersPrepared
      <4> QED BY <4>1, <1>0, DisputesStay DEF HasRow
    <3>2. CASE OpenCreate(p) /\ opening'[p].order = opening[p].order
      <4>1. PICK d \in DisputeId :
              dispute' = [dispute EXCEPT ![d] =
                [status |-> "OPEN", order |-> opening[p].order, version |-> 0]]
        BY <3>2 DEF OpenCreate
      <4>2. dispute'[d] = [status |-> "OPEN", order |-> o, version |-> 0]
        BY <4>1, <3>2, <2>2, <1>0 DEF TypeInv, TypeOK, DisputesTypeOK
      <4>3. dispute'[d] # NoDispute /\ dispute'[d].order = o BY <4>2 DEF NoDispute
      <4> QED BY <4>3 DEF HasRow
    <3> QED BY <3>1, <3>2, <1>0, <1>3, PartyReady
  <2> QED BY <2>2, <2>3 DEF HasRow
<1>4. ASSUME NEW s \in Staff, ruling'[s].at = "advance" PROVE PaidOut(ruling[s].order)' >= Total
  <2>1. ruling'[s] \in RulingType BY <1>0, <1>4 DEF TypeInv, TypeOK, DisputesTypeOK, Idle
  <2>2. PICK o \in Orders : o = ruling'[s].order BY <2>1 DEF RulingType
  <2>3. /\ PaidOut(o) \in Int /\ PaidOut(o)' \in Int
        /\ PaidOut(o) >= 0 /\ PaidOut(o)' >= PaidOut(o)
    BY <1>0, LedgerFacts DEF AccountsType, NeverNegative, PaidOut
  <2>4. PaidOut(o)' >= Total
    <3>1. CASE ruling'[s] = ruling[s]
      BY <1>0, <1>4, <2>2, <2>3, <3>1 DEF MoneyInv, HandlersPrepared
    <3>2. CASE RuleBook(s) /\ ruling'[s].order = ruling[s].order
      <4>1. PaidOut(o)' = PaidOut(o) + Total BY <2>2, <3>2, <1>0, LedgerFacts
      <4> QED BY <4>1, <2>3, <1>0
    <3> QED BY <3>1, <3>2, <1>0, <1>4, StaffReady
  <2> QED BY <2>2, <2>4 DEF PaidOut
<1> QED BY <1>1, <1>2, <1>3, <1>4 DEF HandlersPrepared

LEMMA CallsPreparedKept == ASSUME MoneyInv, [Next]_vars PROVE CallsPrepared'
<1> SUFFICES ASSUME NEW w \in Callers, call'[w] # NoCall
             PROVE  Prepared(call[w].order, call[w].to, call[w].next)'
  BY DEF CallsPrepared
<1>0. /\ TypeInv /\ call \in [Callers -> CallType \cup {NoCall}]
      /\ call' \in [Callers -> CallType \cup {NoCall}]
  BY TypeStep DEF MoneyInv, OrderInv, TypeInv, TypeOK, TradingTypeOK
<1>1. call'[w] \in CallType BY <1>0
<1>2. PICK o \in Orders, to \in OrderStatus, next \in {"none", "COMPLETED"} :
        o = call'[w].order /\ to = call'[w].to /\ next = call'[w].next
  BY <1>1 DEF CallType
<1>3. ASSUME Prepared(o, to, next) PROVE Prepared(call[w].order, call[w].to, call[w].next)'
  <2>1. Prepared(o, to, next)' BY <1>3, StaysPrepared
  <2> QED BY <2>1, <1>2 DEF Prepared, PaidOut, HasRow
<1>a. ASSUME NEW q, NEW t, NEW roles, NEW n, Begin(w, q, t, roles, n)
      PROVE  /\ o = q /\ to = t /\ next = n
             /\ Allowed(OrderTable, order[q].status, t, roles)
  BY <1>0, <1>2, <1>a, BegunFrame
<1>4. CASE call'[w] = call[w]
  BY <1>2, <1>3, <1>4 DEF MoneyInv, CallsPrepared
<1>5. CASE CallStep(w)
  <2>1. CASE /\ call[w] \in CallType /\ call'[w].order = call[w].order
             /\ call'[w].to = call[w].to /\ call'[w].next = call[w].next
    <3>1. call[w] # NoCall BY <2>1 DEF CallType, NoCall
    <3> QED BY <3>1, <2>1, <1>2, <1>3 DEF MoneyInv, CallsPrepared
  <2>2. CASE Continue(w)
    <3>1. call[w] \in CallType /\ call[w] # NoCall BY <2>2, <1>0 DEF Continue, NoCall
    <3>2. /\ Allowed(OrderTable, order[call[w].order].status, call[w].next, {"SYSTEM"})
          /\ call'[w] = [at |-> "commit", order |-> call[w].order, to |-> call[w].next,
                         roles |-> {"SYSTEM"}, seen |-> order[call[w].order].status,
                         version |-> order[call[w].order].version, next |-> "none"]
      BY <2>2, <1>0 DEF Continue
    <3>3. call[w].next = "COMPLETED"
      BY <3>1, <3>2, TableFacts DEF OrderStatus, CallType
    <3>4. o = call[w].order /\ to = "COMPLETED" /\ next = "none" BY <3>2, <3>3, <1>2
    <3>5. PaidOut(o) >= Total
      BY <3>1, <3>3, <3>4 DEF MoneyInv, CallsPrepared, Prepared
    <3> QED BY <3>4, <3>5, <1>3 DEF Prepared
  <2>3. CASE ShipGuards(w) \/ LockShip(w)
    <3>1. call[w] \in CallType BY <2>3, <1>0 DEF ShipGuards, LockShip, NoCall
    <3>2. \E at : call'[w] = [call[w] EXCEPT !.at = at]
      BY <2>3, <1>0 DEF ShipGuards, LockShip
    <3> QED BY <3>1, <3>2, <2>1 DEF CallType
  <2>4. CASE CommitTransition(w) \/ CommitCancel(w) \/ CommitShip(w)
    <3>1. call[w] \in CallType
      BY <2>4, <1>0 DEF CommitTransition, CommitCancel, CommitShip, NoCall
    <3>2. Return(w) BY <2>4 DEF CommitTransition, CommitCancel, CommitShip
    <3>3. call'[w] = [call[w] EXCEPT !.at = "next"] BY <3>2, <1>0 DEF Return
    <3> QED BY <3>1, <3>3, <2>1 DEF CallType
  <2>5. CASE VersionConflict(w) \/ AbortShip(w)
    BY <2>5, <1>0 DEF VersionConflict, AbortShip
  <2> QED BY <1>5, <2>2, <2>3, <2>4, <2>5 DEF CallStep
<1>6. CASE \E q \in Orders, r \in OrderRequests : Request(w, q, r)
  <2>1. to \in {"CANCELLED", "CONFIRMED", "PREPARING", "SHIPPED", "DELIVERED"} /\ next = "none"
    BY <1>6, <1>a DEF Request, OrderRequests
  <2> QED BY <2>1, <1>3 DEF Prepared
<1>7. CASE w \in Hooks /\ HookAdvance(w)
  <2>1. o = hook[w].order /\ to = "PAID_ESCROW" /\ next = "none" BY <1>7, <1>a DEF HookAdvance
  <2>2. ledger[o].transit > 0 BY <1>7, <2>1 DEF HookAdvance, MoneyInv, HandlersPrepared
  <2> QED BY <2>1, <2>2, <1>3 DEF Prepared
<1>8. CASE w \in Dispatcher /\ ReleaseComplete(w)
  <2>1. o = release[w].order /\ to = "COMPLETED" /\ next = "none"
    BY <1>8, <1>a DEF ReleaseComplete
  <2>2. PaidOut(o) >= Total BY <1>8, <2>1 DEF ReleaseComplete, MoneyInv, HandlersPrepared
  <2> QED BY <2>1, <2>2, <1>3 DEF Prepared
<1>9. CASE w \in Parties /\ OpenAdvance(w)
  <2>1. o = opening[w].order /\ to = "DISPUTED" /\ next = "none" BY <1>9, <1>a DEF OpenAdvance
  <2>2. HasRow(o) BY <1>9, <2>1 DEF OpenAdvance, MoneyInv, HandlersPrepared
  <2> QED BY <2>1, <2>2, <1>3 DEF Prepared
<1>10. CASE w \in Staff /\ RuleAdvance(w)
  <2>1. o = ruling[w].order /\ to = "RESOLVED" BY <1>10, <1>a DEF RuleAdvance
  <2>2. PaidOut(o) >= Total BY <1>10, <2>1 DEF RuleAdvance, MoneyInv, HandlersPrepared
  <2> QED BY <2>1, <2>2, <1>3 DEF Prepared
<1>11. CASE w \in Sweepers /\ SweepCancel(w)
  <2>1. to = "CANCELLED" /\ next = "none" BY <1>11, <1>a DEF SweepCancel
  <2> QED BY <2>1, <1>3 DEF Prepared
<1> QED BY <1>0, <1>4, <1>5, <1>6, <1>7, <1>8, <1>9, <1>10, <1>11, CallWriters

(* The status that a transition reaches is prepared for.                   *)
LEMMA StatusPrepared ==
  ASSUME MoneyInv, [Next]_vars, NEW o \in Orders, order'[o].status # order[o].status
  PROVE  /\ order'[o].status \notin UnpaidStates =>
              order[o].status \notin UnpaidStates \/ ledger[o].transit > 0
         /\ order'[o].status \in {"RESOLVED", "COMPLETED"} => PaidOut(o) >= Total
         /\ order'[o].status = "DISPUTED" => HasRow(o)
<1>0. OrderInv BY DEF MoneyInv
<1>1. CASE order'[o].status = "PLACED" BY <1>1 DEF UnpaidStates
<1>2. ASSUME NEW w \in Callers, call[w].order = o, InTransition(w),
             Allowed(OrderTable, order[o].status, call[w].to, call[w].roles),
             order'[o].status = call[w].to
      PROVE  /\ order'[o].status \notin UnpaidStates =>
                  order[o].status \notin UnpaidStates \/ ledger[o].transit > 0
             /\ order'[o].status \in {"RESOLVED", "COMPLETED"} => PaidOut(o) >= Total
             /\ order'[o].status = "DISPUTED" => HasRow(o)
  <2>1. call[w] # NoCall BY <1>2 DEF InTransition, NoCall
  <2>2. Prepared(o, call[w].to, call[w].next) BY <2>1, <1>2 DEF MoneyInv, CallsPrepared
  <2>3. order[o].status \in UnpaidStates /\ call[w].to \notin UnpaidStates =>
          call[w].to = "PAID_ESCROW"
    BY <1>2 DEF Allowed, OrderTable, Edge, UnpaidStates
  <2> QED BY <2>2, <2>3, <1>2 DEF Prepared
<1>3. CASE /\ order[o].status \in ShippedStates
           /\ order'[o].status \in {"IN_CUSTOMS", "CUSTOMS_CLEARED"}
  BY <1>3 DEF ShippedStates, UnpaidStates
<1> QED BY <1>0, <1>1, <1>2, <1>3, StatusMoves

LEMMA MilestonesKept ==
  ASSUME MoneyInv, [Next]_vars
  PROVE  EscrowBeforeProgress' /\ PaidOutBeforeClosing' /\ DisputedHasRow'
<1> SUFFICES ASSUME NEW o \in Orders
             PROVE  /\ order'[o].status \notin UnpaidStates => ledger'[o].transit > 0
                    /\ order'[o].status \in {"RESOLVED", "COMPLETED"} => PaidOut(o)' >= Total
                    /\ order'[o].status = "DISPUTED" => HasRow(o)'
  BY DEF EscrowBeforeProgress, PaidOutBeforeClosing, DisputedHasRow, HasRow
<1>0. /\ TypeInv /\ PositiveAmounts /\ EscrowBeforeProgress /\ PaidOutBeforeClosing
      /\ DisputedHasRow
  BY DEF MoneyInv, OrderInv
<1>1. /\ ledger[o] \in AccountsType /\ ledger'[o] \in AccountsType
      /\ ledger'[o].transit >= ledger[o].transit /\ PaidOut(o)' >= PaidOut(o)
  BY <1>0, LedgerFacts
<1>2. /\ ledger[o].transit \in Int /\ ledger'[o].transit \in Int
      /\ PaidOut(o) \in Int /\ PaidOut(o)' \in Int /\ Total \in Int
  BY <1>1, SettlementAssumption DEF AccountsType, PaidOut, SettlementAssumption
<1>3. HasRow(o) => HasRow(o)' BY <1>0, DisputesStay DEF HasRow
<1>4. CASE order'[o].status = order[o].status
  BY <1>0, <1>1, <1>2, <1>3, <1>4
    DEF EscrowBeforeProgress, PaidOutBeforeClosing, DisputedHasRow, HasRow
<1>5. CASE order'[o].status # order[o].status
  BY <1>0, <1>1, <1>2, <1>3, <1>5, StatusPrepared DEF EscrowBeforeProgress
<1> QED BY <1>4, <1>5

LEMMA MoneyInvNext == ASSUME MoneyInv, [Next]_vars PROVE MoneyInv'
<1>1. OrderInv' BY OrderInvNext DEF MoneyInv
<1> QED BY <1>1, BalanceKept, AmountsKept, HandlersKept, CallsPreparedKept, MilestonesKept
        DEF MoneyInv

(* The inductive invariant holds in every reachable state.                 *)
THEOREM MoneyInvariance == Spec => []MoneyInv
<1>1. Init => MoneyInv BY MoneyInvInit
<1>2. MoneyInv /\ [Next]_vars => MoneyInv' BY MoneyInvNext
<1> QED BY <1>1, <1>2, PTL DEF Spec

----------------------------------------------------------------------------
(* What it is for                                                          *)

(* The journals balance: what came in for an order is in escrow or was     *)
(* paid out, for any prices, rates, refunds and interleavings.             *)
THEOREM LedgerBalances == Spec => []Conservation
<1>1. MoneyInv => Conservation BY DEF MoneyInv
<1> QED BY <1>1, MoneyInvariance, PTL

(* The webhook books a payment in one transaction and advances the order   *)
(* in another; no order is ever past PLACED without the first.             *)
THEOREM NoProgressUnpaid == Spec => []EscrowBeforeProgress
<1>1. MoneyInv => EscrowBeforeProgress BY DEF MoneyInv
<1> QED BY <1>1, MoneyInvariance, PTL

(* releaseEscrow and resolve write the journal before they ask for the     *)
(* transition: an order that is closed has been paid out.                  *)
THEOREM ClosedIsPaidOut == Spec => []PaidOutBeforeClosing
<1>1. MoneyInv => PaidOutBeforeClosing BY DEF MoneyInv
<1> QED BY <1>1, MoneyInvariance, PTL

(* open() writes the dispute before it asks for the transition: an order   *)
(* in DISPUTED has one.                                                    *)
THEOREM DisputedOrdersHaveRows == Spec => []DisputedHasRow
<1>1. MoneyInv => DisputedHasRow BY DEF MoneyInv
<1> QED BY <1>1, MoneyInvariance, PTL

----------------------------------------------------------------------------
(* Marketplace implements EscrowSale, for any numbers of orders, handlers, *)
(* payments, disputes and crashes.  A step of a handler is a step of the   *)
(* sale of one order or none; that it is an allowed one rests on MoneyInv  *)
(* and on what a frame or a row still says of an order that others write:  *)
(* the order exists, is past PLACED, or has been shipped.                  *)

Exists(o) == order[o].status # "DRAFT"
PastPlaced(o) == order[o].status \notin {"DRAFT", "PLACED"}
HasShipped(o) == order[o].status \in ShippedStates

(* placeOrders writes the hold with the order, and nothing unmakes either. *)
HoldFollowsOrder == \A o \in Orders : Exists(o) <=> reservation[o].state # "NONE"

(* Whom money may come in for.                                             *)
PaymentsOfOrders ==
  /\ \A b \in Buyers : checkout[b] # Idle => Exists(checkout[b].order)
  /\ \A p \in PayId : payment[p] # NoPayment => Exists(payment[p].order)

(* Whose hold the sweeper takes for an orphan.                             *)
OrphansArePast ==
  \A s \in Sweepers : sweep[s].at \in {"orphan", "release"} => PastPlaced(sweep[s].order)

(* Whose escrow may be paid out.                                           *)
PayoutsOfShipped ==
  /\ \A d \in Dispatcher : release[d].at \in {"dispute", "book"} => HasShipped(release[d].order)
  /\ \A p \in Parties : opening[p].at = "create" => HasShipped(opening[p].order)
  /\ \A d \in DisputeId : dispute[d] # NoDispute => HasShipped(dispute[d].order)

SaleInv ==
  /\ MoneyInv /\ HoldFollowsOrder /\ PaymentsOfOrders /\ OrphansArePast /\ PayoutsOfShipped
----------------------------------------------------------------------------
(* What a row or a frame says of an order stays true                       *)

LEMMA StatusStays ==
  ASSUME OrderInv, [Next]_vars, NEW o \in Orders
  PROVE  /\ Exists(o) => Exists(o)'
         /\ PastPlaced(o) => PastPlaced(o)'
         /\ HasShipped(o) => HasShipped(o)'
<1>1. CASE order'[o].status = order[o].status
  BY <1>1 DEF Exists, PastPlaced, HasShipped
<1>2. CASE order[o].status = "DRAFT"
  BY <1>2 DEF Exists, PastPlaced, HasShipped, ShippedStates
<1>3. ASSUME NEW w \in Callers,
             Allowed(OrderTable, order[o].status, call[w].to, call[w].roles),
             order'[o].status = call[w].to
      PROVE  /\ Exists(o) => Exists(o)'
             /\ PastPlaced(o) => PastPlaced(o)'
             /\ HasShipped(o) => HasShipped(o)'
  BY <1>3, TableFacts DEF Exists, PastPlaced, HasShipped
<1>4. CASE /\ order[o].status \in ShippedStates
           /\ order'[o].status \in {"IN_CUSTOMS", "CUSTOMS_CLEARED"}
  BY <1>4 DEF Exists, PastPlaced, HasShipped, ShippedStates
<1> QED BY <1>1, <1>2, <1>3, <1>4, StatusMoves

(* A shipped order is past PLACED, and such an order exists.               *)
LEMMA StatusOrder ==
  ASSUME NEW o
  PROVE  /\ HasShipped(o) => PastPlaced(o)
         /\ PastPlaced(o) => Exists(o)
         /\ order[o].status \in PayableStates => Exists(o)
         /\ order[o].status = "DELIVERED" => HasShipped(o)
BY DEF HasShipped, PastPlaced, Exists, ShippedStates, PayableStates

(* The writers of the hold of an order, and what they write.               *)
LEMMA HoldWriters ==
  ASSUME TypeInv, [Next]_vars, NEW o \in Orders, reservation'[o] # reservation[o]
  PROVE  \/ Place(o) /\ reservation'[o] = [reservation[o] EXCEPT !.state = "HELD"]
         \/ TtlExpires(o) /\ reservation'[o] = [reservation[o] EXCEPT !.expired = TRUE]
         \/ \E w \in Callers :
              /\ CommitShip(w) /\ call[w].order = o
              /\ reservation'[o] = ShippedOut(reservation[o])
         \/ \E w \in Callers :
              /\ CommitCancel(w) /\ call[w].order = o
              /\ reservation'[o] = GivenBack(reservation[o])
         \/ \E s \in Sweepers :
              /\ OrphanRelease(s) /\ sweep[s].order = o
              /\ reservation'[o] = GivenBack(reservation[o])
<1>0. reservation \in [Orders -> ReservationType] BY DEF TypeInv, TypeOK, TradingTypeOK
<1>1. ASSUME NEW q \in Orders, Place(q)
      PROVE  q = o /\ reservation'[o] = [reservation[o] EXCEPT !.state = "HELD"]
  BY <1>0, <1>1 DEF Place
<1>2. ASSUME NEW q \in Orders, TtlExpires(q)
      PROVE  q = o /\ reservation'[o] = [reservation[o] EXCEPT !.expired = TRUE]
  BY <1>0, <1>2 DEF TtlExpires
<1>3. ASSUME NEW w \in Callers, CommitShip(w)
      PROVE  call[w].order = o /\ reservation'[o] = ShippedOut(reservation[o])
  BY <1>0, <1>3 DEF CommitShip
<1>4. ASSUME NEW w \in Callers, CommitCancel(w)
      PROVE  call[w].order = o /\ reservation'[o] = GivenBack(reservation[o])
  BY <1>0, <1>4 DEF CommitCancel, Released
<1>5. ASSUME NEW s \in Sweepers, OrphanRelease(s)
      PROVE  sweep[s].order = o /\ reservation'[o] = GivenBack(reservation[o])
  BY <1>0, <1>5 DEF OrphanRelease, Released
<1>6. \/ \E q \in Orders : Place(q) \/ TtlExpires(q)
      \/ \E w \in Callers : CommitShip(w) \/ CommitCancel(w)
      \/ \E s \in Sweepers : OrphanRelease(s)
  <2>1. CASE OrderSteps
    BY <2>1 DEF OrderSteps, TradingNext, OrderStep, RegisterShipment, RegisterDocuments, MarkPaid,
      DisputeWindowCloses, Request, CallStep, ShipGuards, VersionConflict, CommitTransition,
      LockShip, AbortShip, Continue
  <2>2. CASE MoneySteps
    BY <2>2 DEF MoneySteps, SettlementNext, tradingVars, CheckoutStart, CheckoutPrice,
      CheckoutReuse, CheckoutCreate, Charge, PaymentAges, HookStart, HookSettle, HookBook,
      HookAdvance, Dispatch, ReleaseStatus, ReleaseTransfer, ReleaseBook, ReleaseComplete,
      Publish, Onboard
  <2>3. CASE DisputeSteps
    BY <2>3 DEF DisputeSteps, DisputesNext, tradingVars, OpenStart, OpenCreate, OpenAdvance,
      EvidenceStart, EvidenceWrite, RuleStart, RuleBook, RuleAdvance
  <2>4. CASE SweepSteps
    BY <2>4 DEF SweepSteps, SweepStep, tradingVars, SweepStart, SweepCancel, OrphanRead,
      OrphanAbort
  <2>5. CASE CustomsSteps
    BY <2>5 DEF CustomsSteps, CustomsNext, tradingVars, Declare, CustomsStart, CustomsUpdate,
      CustomsCommit
  <2>6. CASE Crash BY <2>6 DEF Crash
  <2>7. CASE UNCHANGED vars BY <2>7 DEF vars, tradingVars
  <2> QED BY <2>1, <2>2, <2>3, <2>4, <2>5, <2>6, <2>7 DEF Next
<1> QED BY <1>1, <1>2, <1>3, <1>4, <1>5, <1>6

----------------------------------------------------------------------------
(* The invariant, part by part                                             *)

LEMMA SaleInvInit == ASSUME Init PROVE SaleInv
<1>1. HoldFollowsOrder BY DEF Init, TradingInit, HoldFollowsOrder, Exists
<1>2. PaymentsOfOrders BY DEF Init, SettlementInit, PaymentsOfOrders
<1>3. OrphansArePast BY DEF Init, SweeperInit, OrphansArePast, Idle
<1>4. PayoutsOfShipped BY DEF Init, SettlementInit, DisputesInit, PayoutsOfShipped, Idle
<1> QED BY <1>1, <1>2, <1>3, <1>4, MoneyInvInit DEF SaleInv

LEMMA HoldKept == ASSUME SaleInv, [Next]_vars PROVE HoldFollowsOrder'
<1> SUFFICES ASSUME NEW o \in Orders
             PROVE  order'[o].status # "DRAFT" <=> reservation'[o].state # "NONE"
  BY DEF HoldFollowsOrder, Exists
<1>0. /\ OrderInv /\ TypeInv
      /\ order \in [Orders -> OrderType] /\ reservation \in [Orders -> ReservationType]
      /\ order[o].status # "DRAFT" <=> reservation[o].state # "NONE"
  BY DEF SaleInv, MoneyInv, OrderInv, TypeInv, TypeOK, TradingTypeOK, HoldFollowsOrder, Exists
<1>1. CASE Place(o) BY <1>0, <1>1 DEF Place, OrderType, ReservationType
<1>2. CASE ~Place(o)
  <2>1. order[o].status # "DRAFT" <=> order'[o].status # "DRAFT"
    <3>1. order[o].status # "DRAFT" => order'[o].status # "DRAFT"
      BY <1>0, StatusStays DEF Exists
    <3>2. order[o].status = "DRAFT" => order'[o].status = order[o].status
      <4> SUFFICES ASSUME order[o].status = "DRAFT", order'[o].status # order[o].status PROVE FALSE
        OBVIOUS
      <4>1. ASSUME NEW w \in Callers, FrameOK(w), call[w].order = o, InTransition(w),
                   CommitTransition(w) \/ CommitCancel(w) \/ CommitShip(w)
            PROVE  FALSE
        BY <4>1, <1>0 DEF FrameOK, CommitTransition, CommitCancel, CommitShip, Fresh, InTransition
      <4>2. order[o].status \notin ShippedStates BY DEF ShippedStates
      <4> QED BY <4>1, <4>2, <1>0, <1>2, StatusMoves
    <3> QED BY <3>1, <3>2
  <2>2. reservation[o].state # "NONE" => reservation'[o].state # "NONE"
    <3>1. /\ GivenBack(reservation[o]).state # "NONE" /\ ShippedOut(reservation[o]).state # "NONE"
          /\ [reservation[o] EXCEPT !.state = "HELD"].state = "HELD"
          /\ [reservation[o] EXCEPT !.expired = TRUE].state = reservation[o].state
      BY <1>0, GivenBackType, ShippedOutType DEF ReservationType
    <3> QED BY <1>0, <3>1, HoldWriters
  <2>3. ASSUME reservation[o].state = "NONE", reservation'[o].state # "NONE" PROVE FALSE
    <3>1. order[o].status = "DRAFT" BY <1>0, <2>3
    <3>2. ~TtlExpires(o) BY <2>3 DEF TtlExpires
    <3>3. ASSUME NEW w \in Callers, CommitShip(w) \/ CommitCancel(w), call[w].order = o
          PROVE  FALSE
      <4>1. InTransition(w) BY <3>3 DEF InTransition, CommitShip, CommitCancel
      <4>2. FrameOK(w) BY <4>1, <1>0 DEF OrderInv, CallsOK
      <4> QED BY <4>1, <4>2, <3>1, <3>3 DEF FrameOK, CommitShip, CommitCancel, Fresh
    <3>4. ASSUME NEW t \in Sweepers, OrphanRelease(t), sweep[t].order = o PROVE FALSE
      BY <3>1, <3>4 DEF OrphanRelease, SaleInv, OrphansArePast, PastPlaced
    <3> QED BY <3>2, <3>3, <3>4, <1>0, <1>2, <2>3, HoldWriters
  <2> QED BY <2>1, <2>2, <2>3, <1>0
<1> QED BY <1>1, <1>2

(* A checkout in progress read its order, at one time or another, in a     *)
(* payable state; a payment was made for a checkout.                       *)
LEMMA CheckoutOrigin ==
  ASSUME TypeInv, [Next]_vars, NEW b \in Buyers, checkout'[b] # Idle
  PROVE  \/ checkout[b] # Idle /\ checkout'[b].order = checkout[b].order
         \/ \E o \in Orders : checkout'[b].order = o /\ order[o].status \in PayableStates
<1>0. checkout \in [Buyers -> CheckoutType \cup {Idle}]
  BY DEF TypeInv, TypeOK, SettlementTypeOK
<1>1. CASE checkout'[b] = checkout[b] BY <1>1
<1>2. ASSUME NEW o \in Orders, CheckoutStart(b, o)
      PROVE  checkout'[b].order = o /\ order[o].status \in PayableStates
  BY <1>0, <1>2 DEF CheckoutStart
<1>3. CASE CheckoutPrice(b)
  <2>1. checkout[b].at = "price" BY <1>3 DEF CheckoutPrice
  <2>2. checkout[b] \in CheckoutType /\ checkout[b] # Idle BY <1>0, <2>1 DEF Idle
  <2>3. \/ checkout' = [checkout EXCEPT ![b] = Idle]
        \/ \E a \in AmountsDue(checkout[b].order) :
             checkout' = [checkout EXCEPT ![b] =
                            [checkout[b] EXCEPT !.at = "reuse", !.amount = a]]
    BY <1>3 DEF CheckoutPrice
  <2>4. PICK a \in AmountsDue(checkout[b].order) :
          checkout'[b] = [checkout[b] EXCEPT !.at = "reuse", !.amount = a]
    BY <1>0, <2>3
  <2> QED BY <2>2, <2>4 DEF CheckoutType
<1>4. CASE CheckoutReuse(b)
  <2>1. checkout[b] \in CheckoutType BY <1>0, <1>4 DEF CheckoutReuse, Idle
  <2>2. checkout'[b] = [checkout[b] EXCEPT !.at = "create"]
    BY <1>0, <1>4 DEF CheckoutReuse
  <2>3. checkout[b] # Idle BY <1>4 DEF CheckoutReuse, Idle
  <2> QED BY <2>1, <2>2, <2>3 DEF CheckoutType
<1>5. CASE CheckoutCreate(b) BY <1>0, <1>5 DEF CheckoutCreate
<1>6. \/ checkout'[b] = checkout[b]
      \/ \E o \in Orders : CheckoutStart(b, o)
      \/ CheckoutPrice(b) \/ CheckoutReuse(b) \/ CheckoutCreate(b)
  <2>1. CASE MoneySteps
    <3>1. ASSUME NEW c \in Buyers, c # b,
                 \/ CheckoutPrice(c) \/ CheckoutReuse(c) \/ CheckoutCreate(c)
                 \/ \E o \in Orders : CheckoutStart(c, o)
          PROVE  checkout'[b] = checkout[b]
      BY <3>1, <1>0 DEF CheckoutStart, CheckoutPrice, CheckoutReuse, CheckoutCreate
    <3>2. \/ checkout' = checkout
          \/ \E c \in Buyers :
               \/ CheckoutPrice(c) \/ CheckoutReuse(c) \/ CheckoutCreate(c)
               \/ \E o \in Orders : CheckoutStart(c, o)
      BY <2>1 DEF MoneySteps, SettlementNext, moneyVars, Charge, PaymentAges, HookStart,
        HookSettle, HookBook, HookAdvance, Dispatch, ReleaseStatus, ReleaseTransfer, ReleaseBook,
        ReleaseComplete, Publish, Onboard
    <3> QED BY <3>1, <3>2
  <2>2. CASE OrderSteps BY <2>2 DEF OrderSteps, settlementVars
  <2>3. CASE DisputeSteps
    BY <2>3 DEF DisputeSteps, DisputesNext, settlementVars, OpenStart, OpenCreate, OpenAdvance,
      EvidenceStart, EvidenceWrite, RuleStart, RuleBook, RuleAdvance
  <2>4. CASE SweepSteps
    BY <2>4 DEF SweepSteps, SweepStep, settlementVars, SweepStart, SweepCancel, OrphanRead,
      OrphanRelease, OrphanAbort
  <2>5. CASE CustomsSteps BY <2>5 DEF CustomsSteps, settlementVars
  <2>6. CASE Crash BY <2>6 DEF Crash
  <2>7. CASE UNCHANGED vars BY <2>7 DEF vars, settlementVars
  <2> QED BY <2>1, <2>2, <2>3, <2>4, <2>5, <2>6, <2>7 DEF Next
<1> QED BY <1>1, <1>2, <1>3, <1>4, <1>5, <1>6

LEMMA PaymentOrigin ==
  ASSUME TypeInv, [Next]_vars, NEW p \in PayId, payment'[p] # NoPayment
  PROVE  \/ payment[p] # NoPayment /\ payment'[p].order = payment[p].order
         \/ \E b \in Buyers : checkout[b] # Idle /\ payment'[p].order = checkout[b].order
<1>0. /\ payment \in [PayId -> PaymentType \cup {NoPayment}]
      /\ hook \in [Hooks -> HookType \cup {Idle}]
  BY DEF TypeInv, TypeOK, SettlementTypeOK
<1>1. CASE payment'[p] = payment[p] BY <1>1
<1>2. ASSUME NEW b \in Buyers, CheckoutCreate(b), payment'[p] # payment[p]
      PROVE  checkout[b] # Idle /\ payment'[p].order = checkout[b].order
  <2>1. checkout[b] # Idle BY <1>2 DEF CheckoutCreate, Idle
  <2>2. PICK q \in PayId : payment' = [payment EXCEPT ![q] =
            [status |-> "PENDING", order |-> checkout[b].order,
             amount |-> checkout[b].amount, recent |-> TRUE]]
    BY <1>2 DEF CheckoutCreate
  <2>3. q = p BY <2>2, <1>0, <1>2
  <2> QED BY <2>1, <2>2, <2>3, <1>0
<1>3. ASSUME NEW q \in PayId, PaymentAges(q), payment'[p] # payment[p]
      PROVE  payment[p] # NoPayment /\ payment'[p].order = payment[p].order
  <2>1. q = p BY <1>0, <1>3 DEF PaymentAges
  <2>2. payment[p] # NoPayment BY <1>3, <2>1 DEF PaymentAges, NoPayment
  <2>3. payment[p] \in PaymentType BY <2>2, <1>0
  <2>4. payment'[p] = [payment[p] EXCEPT !.recent = FALSE] BY <2>1, <1>0, <1>3 DEF PaymentAges
  <2> QED BY <2>2, <2>3, <2>4 DEF PaymentType
<1>4. ASSUME NEW h \in Hooks, HookBook(h), payment'[p] # payment[p]
      PROVE  payment[p] # NoPayment /\ payment'[p].order = payment[p].order
  <2>1. hook[h].pay = p BY <1>0, <1>4 DEF HookBook
  <2>2. payment[p] # NoPayment
    BY <2>1, <1>4 DEF HookBook, Idle, TypeInv, RowsExist
  <2>3. payment[p] \in PaymentType BY <2>2, <1>0
  <2>4. payment'[p] = [payment[p] EXCEPT !.status = "SUCCEEDED"]
    BY <2>1, <1>0, <1>4 DEF HookBook
  <2> QED BY <2>2, <2>3, <2>4 DEF PaymentType
<1>5. ASSUME NEW s \in Staff, RuleBook(s), payment'[p] # payment[p]
      PROVE  payment[p] # NoPayment /\ payment'[p].order = payment[p].order
  <2>1. payment'[p] = Refunded(ruling[s].order, ruling[s].refund)[p] BY <1>5 DEF RuleBook
  <2>2. /\ p \in Succeeded(ruling[s].order)
        /\ \E st : payment'[p] = [payment[p] EXCEPT !.status = st]
    BY <2>1, <1>5 DEF Refunded
  <2>3. payment[p] # NoPayment BY <2>2 DEF Succeeded, NoPayment
  <2>4. payment[p] \in PaymentType BY <2>3, <1>0
  <2> QED BY <2>2, <2>3, <2>4 DEF PaymentType
<1>6. \/ payment' = payment
      \/ \E b \in Buyers : CheckoutCreate(b)
      \/ \E q \in PayId : PaymentAges(q)
      \/ \E h \in Hooks : HookBook(h)
      \/ \E s \in Staff : RuleBook(s)
  <2>1. CASE MoneySteps
    BY <2>1 DEF MoneySteps, SettlementNext, moneyVars, CheckoutStart, CheckoutPrice,
      CheckoutReuse, Charge, HookStart, HookSettle, HookAdvance, Dispatch, ReleaseStatus,
      ReleaseTransfer, ReleaseBook, ReleaseComplete, Publish, Onboard
  <2>2. CASE OrderSteps BY <2>2 DEF OrderSteps, settlementVars
  <2>3. CASE DisputeSteps
    BY <2>3 DEF DisputeSteps, DisputesNext, settlementVars, OpenStart, OpenCreate, OpenAdvance,
      EvidenceStart, EvidenceWrite, RuleStart, RuleAdvance
  <2>4. CASE SweepSteps
    BY <2>4 DEF SweepSteps, SweepStep, settlementVars, SweepStart, SweepCancel, OrphanRead,
      OrphanRelease, OrphanAbort
  <2>5. CASE CustomsSteps BY <2>5 DEF CustomsSteps, settlementVars
  <2>6. CASE Crash BY <2>6 DEF Crash, moneyVars
  <2>7. CASE UNCHANGED vars BY <2>7 DEF vars, settlementVars
  <2> QED BY <2>1, <2>2, <2>3, <2>4, <2>5, <2>6, <2>7 DEF Next
<1> QED BY <1>1, <1>2, <1>3, <1>4, <1>5, <1>6

(* What the sweeper takes for an orphan had a hold and was not PLACED.     *)
LEMMA SweepOrigin ==
  ASSUME TypeInv, [Next]_vars, NEW s \in Sweepers, sweep'[s].at \in {"orphan", "release"}
  PROVE  \/ /\ sweep[s].at \in {"orphan", "release"} /\ sweep'[s].order = sweep[s].order
         \/ \E o \in Orders :
              /\ sweep'[s].order = o
              /\ order[o].status # "PLACED" /\ reservation[o].state = "HELD"
<1>0. sweep \in [Sweepers -> SweepType \cup {Idle}] BY DEF TypeInv, TypeOK, SweeperTypeOK
<1>1. CASE SweepSteps
  <2>1. ASSUME NEW t \in Sweepers, NEW o \in Orders, SweepStart(t, o), sweep'[s] # sweep[s]
        PROVE  /\ sweep'[s].order = o
               /\ order[o].status # "PLACED" /\ reservation[o].state = "HELD"
    <3>1. sweep' = [sweep EXCEPT ![t] =
            [at |-> IF order[o].status = "PLACED" THEN "cancel" ELSE "orphan", order |-> o]]
      BY <2>1 DEF SweepStart
    <3>2. sweep'[s] = [at |-> IF order[o].status = "PLACED" THEN "cancel" ELSE "orphan", order |-> o]
      BY <3>1, <2>1, <1>0
    <3>3. order[o].status # "PLACED" BY <3>2
    <3>4. reservation[o].state = "HELD" BY <2>1 DEF SweepStart, Sweepable
    <3> QED BY <3>2, <3>3, <3>4
  <2>2. ASSUME NEW t \in Sweepers, OrphanRead(t), sweep'[s] # sweep[s]
        PROVE  sweep[s].at \in {"orphan", "release"} /\ sweep'[s].order = sweep[s].order
    <3>1. t = s /\ sweep[s].at = "orphan" BY <2>2, <1>0 DEF OrphanRead
    <3>2. sweep[s] \in SweepType BY <3>1, <1>0 DEF Idle
    <3>3. sweep'[s] = [sweep[s] EXCEPT !.at = "release"] BY <2>2, <3>1, <1>0 DEF OrphanRead, Idle
    <3> QED BY <3>1, <3>2, <3>3 DEF SweepType
  <2>3. ASSUME NEW t \in Sweepers, SweepCancel(t) \/ OrphanRelease(t) \/ OrphanAbort(t)
        PROVE  sweep'[s] = sweep[s]
    <3>1. sweep' = [sweep EXCEPT ![t] = Idle] BY <2>3 DEF SweepCancel, OrphanRelease, OrphanAbort
    <3> QED BY <3>1, <1>0 DEF Idle
  <2> QED BY <1>1, <2>1, <2>2, <2>3 DEF SweepSteps, SweepStep
<1>2. CASE Crash
  <2>1. sweep' = [t \in Sweepers |-> Idle] BY <1>2 DEF Crash
  <2>2. sweep'[s] = Idle BY <2>1
  <2> QED BY <2>2 DEF Idle
<1>3. CASE ~SweepSteps /\ ~Crash
  BY <1>3 DEF Next, OrderSteps, MoneySteps, DisputeSteps, CustomsSteps, vars
<1> QED BY <1>1, <1>2, <1>3

(* A release that goes on after its look at the status found DELIVERED.    *)
LEMMA ReleaseOrigin ==
  ASSUME TypeInv, [Next]_vars, NEW d \in Dispatcher, release'[d].at \in {"dispute", "book"}
  PROVE  /\ release[d] \in ReleaseType /\ release'[d].order = release[d].order
         /\ \/ release[d].at \in {"dispute", "book"}
            \/ order[release[d].order].status = "DELIVERED"
<1> DEFINE P == /\ release[d] \in ReleaseType /\ release'[d].order = release[d].order
                /\ \/ release[d].at \in {"dispute", "book"}
                   \/ order[release[d].order].status = "DELIVERED"
<1>0. release \in [Dispatcher -> ReleaseType \cup {Idle}] BY DEF TypeInv, TypeOK, SettlementTypeOK
<1>1. CASE release'[d] = release[d] BY <1>0, <1>1 DEF Idle
<1>a. ASSUME NEW e \in Dispatcher, NEW at, To(e, at), release[e] # Idle, release'[d] # release[d]
      PROVE  /\ e = d /\ release[d] \in ReleaseType
             /\ release'[d].order = release[d].order /\ release'[d].at = at
  <2>1. e = d BY <1>a, <1>0 DEF To
  <2>2. release[d] \in ReleaseType BY <2>1, <1>a, <1>0
  <2>3. release'[d] = [release[d] EXCEPT !.at = at] BY <2>1, <1>a, <1>0 DEF To
  <2> QED BY <2>1, <2>2, <2>3 DEF ReleaseType
<1>2. CASE MoneySteps /\ release'[d] # release[d]
  <2>1. ASSUME NEW e \in Dispatcher, Dispatch(e) PROVE FALSE
    <3>1. PICK r : release' = [release EXCEPT ![e] = [at |-> "status", order |-> r]]
      BY <2>1 DEF Dispatch
    <3> QED BY <3>1, <1>0, <1>2
  <2>2. ASSUME NEW e \in Dispatcher, ReleaseStatus(e) PROVE P
    <3>1. release[e] # Idle BY <2>2 DEF ReleaseStatus, Idle
    <3>2. To(e, IF order[release[e].order].status = "DELIVERED" THEN "dispute" ELSE "publish")
      BY <2>2 DEF ReleaseStatus
    <3>3. /\ e = d /\ release[d] \in ReleaseType /\ release'[d].order = release[d].order
          /\ release'[d].at =
               IF order[release[d].order].status = "DELIVERED" THEN "dispute" ELSE "publish"
      BY <3>1, <3>2, <1>a, <1>2
    <3> QED BY <3>3
  <2>3. ASSUME NEW e \in Dispatcher, ReleaseTransfer(e, InDispute) PROVE P
    <3>1. release[e] # Idle /\ release[e].at = "dispute" BY <2>3 DEF ReleaseTransfer, Idle
    <3>2. To(e, "book") \/ To(e, "publish") BY <2>3 DEF ReleaseTransfer
    <3> QED BY <3>1, <3>2, <1>a, <1>2
  <2>4. ASSUME NEW e \in Dispatcher, ReleaseBook(e) \/ ReleaseComplete(e) PROVE FALSE
    <3>1. release[e] # Idle BY <2>4 DEF ReleaseBook, ReleaseComplete, Idle
    <3>2. To(e, "complete") \/ To(e, "publish") BY <2>4 DEF ReleaseBook, ReleaseComplete
    <3> QED BY <3>1, <3>2, <1>a, <1>2
  <2>5. ASSUME NEW e \in Dispatcher, Publish(e) PROVE FALSE
    <3>1. release' = [release EXCEPT ![e] = Idle] BY <2>5 DEF Publish
    <3> QED BY <3>1, <1>0, <1>2 DEF Idle
  <2>6. \/ release' = release
        \/ \E e \in Dispatcher :
             \/ Dispatch(e) \/ ReleaseStatus(e) \/ ReleaseComplete(e)
             \/ ReleaseTransfer(e, InDispute) \/ ReleaseBook(e) \/ Publish(e)
    BY <1>2 DEF MoneySteps, SettlementNext, CheckoutStart, CheckoutPrice, CheckoutReuse,
      CheckoutCreate, Charge, PaymentAges, HookStart, HookSettle, HookBook, HookAdvance, Onboard
  <2> QED BY <2>1, <2>2, <2>3, <2>4, <2>5, <2>6, <1>2
<1>3. CASE DisputeSteps
  BY <1>1, <1>3 DEF DisputeSteps, DisputesNext, settlementVars, OpenStart, OpenCreate, OpenAdvance,
    EvidenceStart, EvidenceWrite, RuleStart, RuleBook, RuleAdvance
<1>4. CASE SweepSteps
  BY <1>1, <1>4 DEF SweepSteps, SweepStep, settlementVars, SweepStart, SweepCancel, OrphanRead,
    OrphanRelease, OrphanAbort
<1>5. CASE Crash
  <2>1. release' = [e \in Dispatcher |-> Idle] BY <1>5 DEF Crash
  <2>2. release'[d] = Idle BY <2>1
  <2> QED BY <2>2 DEF Idle
<1>6. CASE OrderSteps \/ CustomsSteps \/ UNCHANGED vars
  BY <1>1, <1>6 DEF OrderSteps, CustomsSteps, vars, settlementVars
<1> QED BY <1>1, <1>2, <1>3, <1>4, <1>5, <1>6 DEF Next

(* An opening that has not written its row yet found the order DELIVERED.  *)
LEMMA OpeningOrigin ==
  ASSUME TypeInv, [Next]_vars, NEW p \in Parties, opening'[p].at = "create"
  PROVE  \/ opening'[p] = opening[p]
         \/ \E o \in Orders : opening'[p].order = o /\ order[o].status = "DELIVERED"
<1>0. opening \in [Parties -> OpeningType \cup {Idle}] BY DEF TypeInv, TypeOK, DisputesTypeOK
<1>1. CASE DisputeSteps
  <2>1. ASSUME NEW q \in Parties, NEW o \in Orders, NEW role, OpenStart(q, o, role),
               opening'[p] # opening[p]
        PROVE  opening'[p].order = o /\ order[o].status = "DELIVERED"
    BY <2>1, <1>0 DEF OpenStart, OpeningFrame
  <2>2. ASSUME NEW q \in Parties, OpenCreate(q) PROVE opening'[p] = opening[p]
    <3>1. opening' = [opening EXCEPT ![q].at = "advance"] /\ opening[q] # Idle
      BY <2>2 DEF OpenCreate, Idle
    <3>2. CASE q # p
      <4>1. opening'[p] = opening[p] BY <3>1, <3>2, <1>0
      <4> QED BY <4>1
    <3>3. CASE q = p
      <4>1. opening'[p].at = "advance" BY <3>1, <3>3, <1>0 DEF OpeningType
      <4> QED BY <4>1
    <3> QED BY <3>2, <3>3
  <2>3. ASSUME NEW q \in Parties, OpenAdvance(q) PROVE opening'[p] = opening[p]
    <3>1. opening' = [opening EXCEPT ![q] = Idle] BY <2>3 DEF OpenAdvance
    <3> QED BY <3>1, <1>0 DEF Idle
  <2>4. \/ opening' = opening
        \/ \E q \in Parties : \/ OpenCreate(q) \/ OpenAdvance(q)
                              \/ \E o \in Orders, role \in {"BUYER", "SUPPLIER"} :
                                   OpenStart(q, o, role)
    BY <1>1 DEF DisputeSteps, DisputesNext, EvidenceStart, EvidenceWrite, RuleStart, RuleBook,
      RuleAdvance
  <2> QED BY <2>1, <2>2, <2>3, <2>4
<1>2. CASE Crash
  <2>1. opening' = [q \in Parties |-> Idle] BY <1>2 DEF Crash
  <2>2. opening'[p] = Idle BY <2>1
  <2> QED BY <2>2 DEF Idle
<1>3. CASE ~DisputeSteps /\ ~Crash
  BY <1>3 DEF Next, OrderSteps, MoneySteps, SweepSteps, CustomsSteps, disputeVars, vars
<1> QED BY <1>1, <1>2, <1>3

LEMMA DisputeOrigin ==
  ASSUME TypeInv, [Next]_vars, NEW d \in DisputeId, dispute'[d] # NoDispute
  PROVE  \/ dispute[d] # NoDispute /\ dispute'[d].order = dispute[d].order
         \/ \E p \in Parties : opening[p].at = "create" /\ dispute'[d].order = opening[p].order
<1>0. /\ dispute \in [DisputeId -> DisputeType \cup {NoDispute}]
      /\ evidence \in [Witnesses -> EvidenceType \cup {Idle}]
      /\ ruling \in [Staff -> RulingType \cup {Idle}]
  BY DEF TypeInv, TypeOK, DisputesTypeOK
<1>1. CASE dispute'[d] = dispute[d] BY <1>1
<1>a. ASSUME NEW e \in DisputeId, NEW st, dispute' = Edited(e, st), dispute[e] # NoDispute,
             dispute'[d] # dispute[d]
      PROVE  dispute[d] # NoDispute /\ dispute'[d].order = dispute[d].order
  <2>1. e = d BY <1>a, <1>0 DEF Edited
  <2>2. dispute'[d] = [status |-> st, order |-> dispute[d].order, version |-> dispute[d].version + 1]
    BY <2>1, <1>a, <1>0 DEF Edited
  <2> QED BY <2>1, <2>2, <1>a
<1>2. ASSUME NEW p \in Parties, OpenCreate(p), dispute'[d] # dispute[d]
      PROVE  opening[p].at = "create" /\ dispute'[d].order = opening[p].order
  <2>1. PICK e \in DisputeId : dispute' = [dispute EXCEPT ![e] =
            [status |-> "OPEN", order |-> opening[p].order, version |-> 0]]
    BY <1>2 DEF OpenCreate
  <2>2. e = d BY <2>1, <1>2, <1>0
  <2> QED BY <2>1, <2>2, <1>0, <1>2 DEF OpenCreate
<1>3. ASSUME NEW e \in Witnesses, EvidenceWrite(e), dispute'[d] # dispute[d]
      PROVE  dispute[d] # NoDispute /\ dispute'[d].order = dispute[d].order
  <2>1. evidence[e] # Idle /\ evidence[e] \in EvidenceType BY <1>3, <1>0 DEF EvidenceWrite, Idle
  <2>2. /\ evidence[e].dispute \in DisputeId /\ dispute[evidence[e].dispute] # NoDispute
    BY <2>1 DEF EvidenceType, TypeInv, RowsExist
  <2>3. dispute' = Edited(evidence[e].dispute, "INVESTIGATING") BY <1>3 DEF EvidenceWrite
  <2> QED BY <2>2, <2>3, <1>3, <1>a
<1>4. ASSUME NEW s \in Staff, RuleBook(s), dispute'[d] # dispute[d]
      PROVE  dispute[d] # NoDispute /\ dispute'[d].order = dispute[d].order
  <2>1. ruling[s] # Idle /\ ruling[s] \in RulingType BY <1>4, <1>0 DEF RuleBook, Idle
  <2>2. /\ ruling[s].dispute \in DisputeId /\ dispute[ruling[s].dispute] # NoDispute
    BY <2>1 DEF RulingType, TypeInv, RowsExist
  <2>3. dispute' = Edited(ruling[s].dispute, "RESOLVED") BY <1>4 DEF RuleBook
  <2> QED BY <2>2, <2>3, <1>4, <1>a
<1>5. \/ dispute' = dispute
      \/ \E p \in Parties : OpenCreate(p)
      \/ \E e \in Witnesses : EvidenceWrite(e)
      \/ \E s \in Staff : RuleBook(s)
  <2>1. CASE DisputeSteps
    BY <2>1 DEF DisputeSteps, DisputesNext, OpenStart, OpenAdvance, EvidenceStart, RuleStart,
      RuleAdvance
  <2>2. CASE Crash BY <2>2 DEF Crash
  <2>3. CASE ~DisputeSteps /\ ~Crash
    BY <2>3 DEF Next, OrderSteps, MoneySteps, SweepSteps, CustomsSteps, disputeVars, vars
  <2> QED BY <2>1, <2>2, <2>3
<1> QED BY <1>1, <1>2, <1>3, <1>4, <1>5

LEMMA PaymentsKept == ASSUME SaleInv, [Next]_vars PROVE PaymentsOfOrders'
<1>0. /\ TypeInv /\ OrderInv /\ PaymentsOfOrders
      /\ payment \in [PayId -> PaymentType \cup {NoPayment}]
      /\ checkout \in [Buyers -> CheckoutType \cup {Idle}]
  BY DEF SaleInv, MoneyInv, OrderInv, TypeInv, TypeOK, SettlementTypeOK
<1>1. ASSUME NEW o \in Orders, Exists(o) PROVE order'[o].status # "DRAFT"
  BY <1>0, <1>1, StatusStays DEF Exists
<1>2. ASSUME NEW b \in Buyers, checkout[b] # Idle
      PROVE  checkout[b].order \in Orders /\ Exists(checkout[b].order)
  BY <1>0, <1>2 DEF CheckoutType, PaymentsOfOrders
<1>3. ASSUME NEW p \in PayId, payment[p] # NoPayment
      PROVE  payment[p].order \in Orders /\ Exists(payment[p].order)
  BY <1>0, <1>3 DEF PaymentType, PaymentsOfOrders
<1>4. ASSUME NEW b \in Buyers, checkout'[b] # Idle
      PROVE  order'[checkout'[b].order].status # "DRAFT"
  <2>1. CASE checkout[b] # Idle /\ checkout'[b].order = checkout[b].order BY <2>1, <1>1, <1>2
  <2>2. ASSUME NEW o \in Orders, checkout'[b].order = o, order[o].status \in PayableStates
        PROVE  order'[checkout'[b].order].status # "DRAFT"
    BY <2>2, <1>1, StatusOrder
  <2> QED BY <2>1, <2>2, <1>0, <1>4, CheckoutOrigin
<1>5. ASSUME NEW p \in PayId, payment'[p] # NoPayment
      PROVE  order'[payment'[p].order].status # "DRAFT"
  BY <1>0, <1>1, <1>2, <1>3, <1>5, PaymentOrigin
<1> QED BY <1>4, <1>5 DEF PaymentsOfOrders, Exists

LEMMA OrphansKept == ASSUME SaleInv, [Next]_vars PROVE OrphansArePast'
<1>0. /\ TypeInv /\ OrderInv /\ HoldFollowsOrder
      /\ sweep \in [Sweepers -> SweepType \cup {Idle}]
  BY DEF SaleInv, MoneyInv, OrderInv, TypeInv, TypeOK, SweeperTypeOK
<1> SUFFICES ASSUME NEW s \in Sweepers, sweep'[s].at \in {"orphan", "release"}
             PROVE  order'[sweep'[s].order].status \notin {"DRAFT", "PLACED"}
  BY DEF OrphansArePast, PastPlaced
<1>1. ASSUME NEW o \in Orders, PastPlaced(o) PROVE order'[o].status \notin {"DRAFT", "PLACED"}
  BY <1>0, <1>1, StatusStays DEF PastPlaced
<1>2. CASE sweep[s].at \in {"orphan", "release"} /\ sweep'[s].order = sweep[s].order
  <2>1. sweep[s].order \in Orders BY <1>0, <1>2 DEF SweepType, Idle
  <2>2. PastPlaced(sweep[s].order) BY <1>2 DEF SaleInv, OrphansArePast
  <2> QED BY <2>1, <2>2, <1>1, <1>2
<1>3. ASSUME NEW o \in Orders, sweep'[s].order = o,
             order[o].status # "PLACED", reservation[o].state = "HELD"
      PROVE  order'[sweep'[s].order].status \notin {"DRAFT", "PLACED"}
  <2>1. PastPlaced(o) BY <1>0, <1>3 DEF HoldFollowsOrder, Exists, PastPlaced
  <2> QED BY <2>1, <1>1, <1>3
<1> QED BY <1>0, <1>2, <1>3, SweepOrigin

LEMMA PayoutsKept == ASSUME SaleInv, [Next]_vars PROVE PayoutsOfShipped'
<1>0. /\ TypeInv /\ OrderInv /\ PayoutsOfShipped
      /\ opening \in [Parties -> OpeningType \cup {Idle}]
      /\ dispute \in [DisputeId -> DisputeType \cup {NoDispute}]
  BY DEF SaleInv, MoneyInv, OrderInv, TypeInv, TypeOK, DisputesTypeOK
<1>1. ASSUME NEW o \in Orders, HasShipped(o) PROVE order'[o].status \in ShippedStates
  BY <1>0, <1>1, StatusStays DEF HasShipped
<1>2. ASSUME NEW d \in Dispatcher, release'[d].at \in {"dispute", "book"}
      PROVE  order'[release'[d].order].status \in ShippedStates
  <2>1. /\ release[d] \in ReleaseType /\ release'[d].order = release[d].order
        /\ \/ release[d].at \in {"dispute", "book"}
           \/ order[release[d].order].status = "DELIVERED"
    BY <1>0, <1>2, ReleaseOrigin
  <2>2. HasShipped(release[d].order) BY <2>1, <1>0, StatusOrder DEF PayoutsOfShipped
  <2> QED BY <2>1, <2>2, <1>1 DEF ReleaseType
<1>3. ASSUME NEW p \in Parties, opening[p].at = "create"
      PROVE  opening[p].order \in Orders /\ HasShipped(opening[p].order)
  BY <1>0, <1>3 DEF OpeningType, Idle, PayoutsOfShipped
<1>4. ASSUME NEW p \in Parties, opening'[p].at = "create"
      PROVE  order'[opening'[p].order].status \in ShippedStates
  <2>1. CASE opening'[p] = opening[p] BY <2>1, <1>1, <1>3, <1>4
  <2>2. ASSUME NEW o \in Orders, opening'[p].order = o, order[o].status = "DELIVERED"
        PROVE  order'[opening'[p].order].status \in ShippedStates
    BY <2>2, <1>1, StatusOrder
  <2> QED BY <2>1, <2>2, <1>0, <1>4, OpeningOrigin
<1>5. ASSUME NEW d \in DisputeId, dispute'[d] # NoDispute
      PROVE  order'[dispute'[d].order].status \in ShippedStates
  <2>1. CASE dispute[d] # NoDispute /\ dispute'[d].order = dispute[d].order
    <3>1. dispute[d].order \in Orders /\ HasShipped(dispute[d].order)
      BY <2>1, <1>0 DEF DisputeType, PayoutsOfShipped
    <3> QED BY <2>1, <3>1, <1>1
  <2>2. ASSUME NEW p \in Parties, opening[p].at = "create", dispute'[d].order = opening[p].order
        PROVE  order'[dispute'[d].order].status \in ShippedStates
    BY <2>2, <1>1, <1>3
  <2> QED BY <2>1, <2>2, <1>0, <1>5, DisputeOrigin
<1> QED BY <1>2, <1>4, <1>5 DEF PayoutsOfShipped, HasShipped

LEMMA SaleInvNext == ASSUME SaleInv, [Next]_vars PROVE SaleInv'
<1>1. MoneyInv' BY MoneyInvNext DEF SaleInv
<1> QED BY <1>1, HoldKept, PaymentsKept, OrphansKept, PayoutsKept DEF SaleInv

(* The inductive invariant of the refinement: in every reachable state,    *)
(* money is only taken for orders that exist, only orders that are past    *)
(* PLACED lose their hold as orphans, and only shipped orders are paid     *)
(* out or disputed.                                                        *)
THEOREM SaleInvariance == Spec => []SaleInv
<1>1. Init => SaleInv BY SaleInvInit
<1>2. SaleInv /\ [Next]_vars => SaleInv' BY SaleInvNext
<1> QED BY <1>1, <1>2, PTL DEF Spec

----------------------------------------------------------------------------
(* What a step of a handler is for the sale                                *)

(* Conditions that hold of the same orders are the same function.          *)
LEMMA SameConditions ==
  ASSUME NEW S, NEW f \in [S -> BOOLEAN], NEW g \in [S -> BOOLEAN], \A x \in S : g[x] <=> f[x]
  PROVE  g = f
<1>1. \A x \in S : g[x] \in BOOLEAN /\ f[x] \in BOOLEAN OBVIOUS
<1>2. \A x \in S : g[x] = f[x] BY <1>1
<1> QED BY <1>2

(* A condition that, once true of an order, stays true: a step that        *)
(* touches one order leaves it or makes it true of that order.             *)
LEMMA Raised ==
  ASSUME NEW S, NEW f \in [S -> BOOLEAN], NEW g \in [S -> BOOLEAN], NEW a \in S,
         f[a] => g[a], \A x \in S \ {a} : g[x] <=> f[x]
  PROVE  \/ g = f
         \/ ~f[a] /\ g[a] /\ g = [f EXCEPT ![a] = TRUE]
<1>1. CASE f[a] <=> g[a]
  <2>1. \A x \in S : g[x] <=> f[x] BY <1>1
  <2> QED BY <2>1, SameConditions
<1>2. CASE ~f[a] /\ g[a] BY <1>2
<1> QED BY <1>1, <1>2

LEMMA StageMoved ==
  ASSUME NEW o \in Orders, \A q \in Orders \ {o} : order'[q].status = order[q].status
  PROVE  /\ SaleStage' = [SaleStage EXCEPT ![o] = StageOf(order'[o].status)]
         /\ StageOf(order'[o].status) = StageOf(order[o].status) => SaleStage' = SaleStage
BY DEF SaleStage

LEMMA GoodsMoved ==
  ASSUME NEW o \in Orders, \A q \in Orders \ {o} : reservation'[q] = reservation[q]
  PROVE  /\ SaleGoods' = [SaleGoods EXCEPT ![o] = GoodsOf(reservation'[o])]
         /\ GoodsOf(reservation'[o]) = GoodsOf(reservation[o]) => SaleGoods' = SaleGoods
BY DEF SaleGoods

LEMMA ReceivedMoved ==
  ASSUME NEW o \in Orders, \A q \in Orders \ {o} : ledger'[q] = ledger[q],
         ledger[o].transit > 0 => ledger'[o].transit > 0
  PROVE  \/ SaleReceived' = SaleReceived
         \/ ~SaleReceived[o] /\ SaleReceived' = [SaleReceived EXCEPT ![o] = TRUE]
<1>1. SaleReceived \in [Orders -> BOOLEAN] /\ SaleReceived' \in [Orders -> BOOLEAN]
  BY DEF SaleReceived
<1>2. /\ SaleReceived[o] => SaleReceived'[o]
      /\ \A q \in Orders \ {o} : SaleReceived'[q] <=> SaleReceived[q]
  BY DEF SaleReceived
<1> QED BY <1>1, <1>2, Raised

LEMMA SharedMoved ==
  ASSUME NEW o \in Orders, \A q \in Orders \ {o} : ledger'[q] = ledger[q],
         PaidOut(o) >= Total => PaidOut(o)' >= Total
  PROVE  \/ SaleShared' = SaleShared
         \/ ~SaleShared[o] /\ SaleShared' = [SaleShared EXCEPT ![o] = TRUE]
<1>1. SaleShared \in [Orders -> BOOLEAN] /\ SaleShared' \in [Orders -> BOOLEAN]
  BY DEF SaleShared
<1>2. /\ SaleShared[o] => SaleShared'[o]
      /\ \A q \in Orders \ {o} : SaleShared'[q] <=> SaleShared[q]
  BY DEF SaleShared, PaidOut
<1> QED BY <1>1, <1>2, Raised

LEMMA ClearedMoved ==
  ASSUME TypeInv, [Next]_vars, NEW o \in Orders,
         \A q \in Orders \ {o} : paid'[q] = paid[q] /\ paperwork'[q] = paperwork[q]
  PROVE  \/ SaleCleared' = SaleCleared
         \/ ~SaleCleared[o] /\ SaleCleared' = [SaleCleared EXCEPT ![o] = TRUE]
<1>1. SaleCleared \in [Orders -> BOOLEAN] /\ SaleCleared' \in [Orders -> BOOLEAN]
  BY DEF SaleCleared, ReadyToShip, PaidUp
<1>2. MayShip(o) => MayShip(o)' BY GuardsStay
<1>3. /\ SaleCleared[o] => SaleCleared'[o]
      /\ \A q \in Orders \ {o} : SaleCleared'[q] <=> SaleCleared[q]
  BY <1>2 DEF SaleCleared, MayShip, ReadyToShip, PaidUp
<1> QED BY <1>1, <1>3, Raised

(* What the statuses are as stages, and the edges of the table as moves    *)
(* between stages.                                                         *)
LEMMA Stages ==
  /\ StageOf("DRAFT") = "none" /\ StageOf("PLACED") = "open" /\ StageOf("CANCELLED") = "cancelled"
  /\ \A st \in {"PAID_ESCROW", "CONFIRMED", "PREPARING"} : StageOf(st) = "funded"
  /\ \A st \in {"RESOLVED", "COMPLETED"} : StageOf(st) = "closed"
  /\ \A st \in {"SHIPPED", "IN_CUSTOMS", "CUSTOMS_CLEARED", "DELIVERED", "DISPUTED"} :
       StageOf(st) = "shipped"
BY DEF StageOf

LEMMA TableStages ==
  ASSUME NEW from, NEW to, NEW roles, Allowed(OrderTable, from, to, roles), from # "DRAFT"
  PROVE  \/ from = "PLACED" /\ to = "PAID_ESCROW"
         \/ from = "PLACED" /\ to = "CANCELLED"
         \/ from \in {"CONFIRMED", "PREPARING"} /\ to = "SHIPPED"
         \/ /\ StageOf(from) = StageOf(to)
            /\ to \notin {"CANCELLED", "SHIPPED"}
         \/ StageOf(from) = "shipped" /\ to \in {"RESOLVED", "COMPLETED"}
BY Stages DEF Allowed, OrderTable, Edge

SaleStill == UNCHANGED <<SaleStage, SaleGoods, SaleReceived, SaleCleared, SaleShared>>

(* The twelve steps that can be one of the sale; the others read, or write *)
(* what the sale does not show.                                            *)
LEMMA SaleWriters ==
  ASSUME TypeInv, [Next]_vars
  PROVE  \/ SaleStill
         \/ \E o \in Orders :
              /\ UNCHANGED ledger
              /\ \/ Place(o) \/ RegisterShipment(o) \/ RegisterDocuments(o)
                 \/ \E k \in Instalments(o) : MarkPaid(o, k)
         \/ \E w \in Callers :
              /\ UNCHANGED ledger
              /\ CommitTransition(w) \/ CommitCancel(w) \/ CommitShip(w)
         \/ \E h \in Hooks : HookBook(h)
         \/ \E d \in Dispatcher : ReleaseBook(d)
         \/ \E s \in Staff : RuleBook(s)
         \/ \E s \in Sweepers : OrphanRelease(s)
         \/ \E f \in Officers : CustomsCommit(f) /\ UNCHANGED ledger
<1>0. order \in [Orders -> OrderType] /\ reservation \in [Orders -> ReservationType]
  BY DEF TypeInv, TypeOK, TradingTypeOK
<1>a. ASSUME UNCHANGED <<order, reservation, paid, paperwork, ledger>> PROVE SaleStill
  BY <1>a DEF SaleStill, SaleStage, SaleGoods, SaleReceived, SaleCleared, SaleShared, ReadyToShip,
    PaidUp, PaidOut
<1>1. CASE OrderSteps
  <2>1. UNCHANGED ledger BY <1>1 DEF OrderSteps, settlementVars
  <2>2. ASSUME NEW o \in Orders, TtlExpires(o) PROVE SaleStill
    <3>1. \A q \in Orders : GoodsOf(reservation'[q]) = GoodsOf(reservation[q])
      BY <2>2, <1>0 DEF TtlExpires, GoodsOf, ReservationType
    <3>2. SaleGoods' = SaleGoods BY <3>1 DEF SaleGoods
    <3> QED BY <3>2, <2>1, <2>2 DEF TtlExpires, SaleStill, SaleStage, SaleReceived, SaleCleared,
          SaleShared, ReadyToShip, PaidUp, PaidOut
  <2>3. ASSUME NEW o \in Orders, DisputeWindowCloses(o) PROVE SaleStill
    <3>1. \A q \in Orders : order'[q].status = order[q].status
      BY <2>3, <1>0 DEF DisputeWindowCloses, OrderType
    <3>2. SaleStage' = SaleStage BY <3>1 DEF SaleStage
    <3> QED BY <3>2, <2>1, <2>3 DEF DisputeWindowCloses, SaleStill, SaleGoods, SaleReceived,
          SaleCleared, SaleShared, ReadyToShip, PaidUp, PaidOut
  <2>4. ASSUME NEW o \in Orders, NEW c \in Clients, NEW r \in OrderRequests, Request(c, o, r)
        PROVE  SaleStill
    BY <2>1, <2>4, <1>a DEF Request
  <2>5. ASSUME NEW w \in Callers,
               \/ ShipGuards(w) \/ VersionConflict(w) \/ LockShip(w) \/ AbortShip(w) \/ Continue(w)
        PROVE  SaleStill
    BY <2>1, <2>5, <1>a DEF ShipGuards, VersionConflict, LockShip, AbortShip, Continue
  <2> QED BY <1>1, <2>1, <2>2, <2>3, <2>4, <2>5 DEF OrderSteps, TradingNext, OrderStep, CallStep
<1>2. CASE MoneySteps
  <2>1. \/ UNCHANGED <<order, reservation, paid, paperwork, ledger>>
        \/ \E h \in Hooks : HookBook(h)
        \/ \E d \in Dispatcher : ReleaseBook(d)
    BY <1>2 DEF MoneySteps, SettlementNext, tradingVars, moneyVars, CheckoutStart, CheckoutPrice,
      CheckoutReuse, CheckoutCreate, Charge, PaymentAges, HookStart, HookSettle, HookAdvance,
      Dispatch, ReleaseStatus, ReleaseTransfer, ReleaseComplete, Publish, Onboard
  <2> QED BY <2>1, <1>a
<1>3. CASE DisputeSteps
  <2>1. \/ UNCHANGED <<order, reservation, paid, paperwork, ledger>>
        \/ \E s \in Staff : RuleBook(s)
    BY <1>3 DEF DisputeSteps, DisputesNext, tradingVars, settlementVars, OpenStart, OpenCreate,
      OpenAdvance, EvidenceStart, EvidenceWrite, RuleStart, RuleAdvance
  <2> QED BY <2>1, <1>a
<1>4. CASE SweepSteps
  <2>1. \/ UNCHANGED <<order, reservation, paid, paperwork, ledger>>
        \/ \E s \in Sweepers : OrphanRelease(s)
    BY <1>4 DEF SweepSteps, SweepStep, tradingVars, settlementVars, SweepStart, SweepCancel,
      OrphanRead, OrphanAbort
  <2> QED BY <2>1, <1>a
<1>5. CASE CustomsSteps
  <2>1. \/ UNCHANGED <<order, reservation, paid, paperwork, ledger>>
        \/ \E f \in Officers : CustomsCommit(f) /\ UNCHANGED ledger
    BY <1>5 DEF CustomsSteps, CustomsNext, tradingVars, settlementVars, Declare, CustomsStart,
      CustomsUpdate
  <2> QED BY <2>1, <1>a
<1>6. CASE Crash BY <1>6, <1>a DEF Crash, moneyVars
<1>7. CASE UNCHANGED vars BY <1>7, <1>a DEF vars, tradingVars, settlementVars
<1> QED BY <1>1, <1>2, <1>3, <1>4, <1>5, <1>6, <1>7 DEF Next

SaleTypes ==
  /\ order \in [Orders -> OrderType] /\ reservation \in [Orders -> ReservationType]
  /\ paid \in [Orders -> SUBSET Nat] /\ paperwork \in [Orders -> SUBSET {"shipment", "documents"}]
  /\ ledger \in [Orders -> AccountsType] /\ ledger' \in [Orders -> AccountsType]
  /\ Total \in Nat \ {0}

LEMMA SaleTypesHold == ASSUME TypeInv, [Next]_vars PROVE SaleTypes
BY NextTypes, SettlementAssumption
  DEF SaleTypes, TypeInv, TypeOK, TradingTypeOK, SettlementTypeOK, SettlementAssumption

(* Placing an order opens the sale.                                        *)
LEMMA PlaceOpens ==
  ASSUME SaleInv, [Next]_vars, NEW o \in Orders, Place(o), UNCHANGED ledger
  PROVE  Sale!Open(o)
<1>0. SaleTypes /\ OutboundOnce BY SaleTypesHold DEF SaleInv, MoneyInv, OrderInv
<1>1. /\ order[o].status = "DRAFT" /\ order'[o].status = "PLACED"
      /\ \A q \in Orders \ {o} : order'[q].status = order[q].status
  BY <1>0 DEF SaleTypes, Place, OrderType
<1>2. SaleStage[o] = "none" /\ SaleStage' = [SaleStage EXCEPT ![o] = "open"]
  <2>1. SaleStage[o] = StageOf(order[o].status) BY DEF SaleStage
  <2> QED BY <2>1, <1>1, Stages, StageMoved
<1>3. /\ reservation'[o].state = "HELD" /\ reservation'[o].shipped = reservation[o].shipped
      /\ \A q \in Orders \ {o} : reservation'[q] = reservation[q]
  BY <1>0 DEF SaleTypes, Place, ReservationType
<1>4. reservation[o].shipped = 0 BY <1>0, <1>1 DEF OutboundOnce, ShippedStates
<1>5. SaleGoods' = [SaleGoods EXCEPT ![o] = "held"]
  <2>1. GoodsOf(reservation'[o]) = "held" BY <1>3, <1>4 DEF GoodsOf
  <2> QED BY <2>1, <1>3, GoodsMoved
<1>6. UNCHANGED <<SaleReceived, SaleCleared, SaleShared>>
  BY DEF Place, SaleReceived, SaleCleared, SaleShared, ReadyToShip, PaidUp, PaidOut
<1> QED BY <1>2, <1>5, <1>6 DEF Sale!Open

(* The paperwork and the instalments of an order may clear it.             *)
LEMMA PaperworkClears ==
  ASSUME SaleInv, [Next]_vars, NEW o \in Orders, UNCHANGED ledger,
         \/ RegisterShipment(o) \/ RegisterDocuments(o)
         \/ \E k \in Instalments(o) : MarkPaid(o, k)
  PROVE  SaleStill \/ Sale!Clear(o)
<1>0. TypeInv /\ SaleTypes BY SaleTypesHold DEF SaleInv, MoneyInv, OrderInv
<1>1. /\ UNCHANGED <<order, reservation>> /\ order[o].status # "DRAFT"
      /\ \A q \in Orders \ {o} : paid'[q] = paid[q] /\ paperwork'[q] = paperwork[q]
  BY <1>0 DEF SaleTypes, RegisterShipment, RegisterDocuments, MarkPaid
<1>2. UNCHANGED <<SaleStage, SaleGoods, SaleReceived, SaleShared>>
  BY <1>1 DEF SaleStage, SaleGoods, SaleReceived, SaleShared, PaidOut
<1>3. SaleStage[o] # "none"
  BY <1>0, <1>1, Stages DEF SaleStage, SaleTypes, OrderType, OrderStatus
<1>4. \/ SaleCleared' = SaleCleared
      \/ ~SaleCleared[o] /\ SaleCleared' = [SaleCleared EXCEPT ![o] = TRUE]
  BY <1>0, <1>1, ClearedMoved
<1> QED BY <1>2, <1>3, <1>4 DEF SaleStill, Sale!Clear

(* The transaction of a transition: what it finds and what it leaves.      *)
LEMMA CommitFinds ==
  ASSUME SaleInv, [Next]_vars, NEW w \in Callers, UNCHANGED ledger,
         CommitTransition(w) \/ CommitCancel(w) \/ CommitShip(w)
  PROVE  LET o == call[w].order
             to == call[w].to
         IN /\ o \in Orders
            /\ Allowed(OrderTable, order[o].status, to, call[w].roles)
            /\ order[o].status # "DRAFT"
            /\ to = "SHIPPED" => MayShip(o)
            /\ Prepared(o, to, call[w].next)
            /\ CommitTransition(w) => to \notin {"CANCELLED", "SHIPPED"}
            /\ CommitCancel(w) => to = "CANCELLED"
            /\ CommitShip(w) => to = "SHIPPED"
            /\ SaleStage[o] = StageOf(order[o].status)
            /\ SaleStage' = [SaleStage EXCEPT ![o] = StageOf(to)]
            /\ StageOf(to) = StageOf(order[o].status) => SaleStage' = SaleStage
            /\ UNCHANGED <<SaleReceived, SaleCleared, SaleShared>>
<1>0. /\ TypeInv /\ SaleTypes /\ CallsOK /\ CallsPrepared
      /\ call \in [Callers -> CallType \cup {NoCall}]
  BY SaleTypesHold DEF SaleInv, MoneyInv, OrderInv, TypeInv, TypeOK, TradingTypeOK
<1>1. InTransition(w) BY DEF InTransition, CommitTransition, CommitCancel, CommitShip
<1>2. call[w] # NoCall /\ call[w] \in CallType BY <1>0, <1>1 DEF InTransition, NoCall
<1>3. PICK o \in Orders, to \in OrderStatus : o = call[w].order /\ to = call[w].to
  BY <1>2 DEF CallType
<1>4. FrameOK(w) BY <1>0, <1>1 DEF CallsOK
<1>5. call[w].version = order[o].version /\ (CommitShip(w) => to = "SHIPPED")
  BY <1>3, <1>4 DEF FrameOK, CommitTransition, CommitCancel, CommitShip, Fresh
<1>6. /\ Allowed(OrderTable, order[o].status, to, call[w].roles) /\ order[o].status # "DRAFT"
      /\ to = "SHIPPED" => MayShip(o)
  BY <1>3, <1>4, <1>5 DEF FrameOK, CommitTransition, CommitCancel, CommitShip
<1>7. Prepared(o, to, call[w].next) BY <1>0, <1>2, <1>3 DEF CallsPrepared
<1>8. order' = Written(o, to)
  BY <1>3, <1>5 DEF CommitTransition, CommitCancel, CommitShip
<1>9. order'[o].status = to /\ \A q \in Orders \ {o} : order'[q].status = order[q].status
  BY <1>0, <1>8 DEF Written, SaleTypes
<1>10. /\ SaleStage' = [SaleStage EXCEPT ![o] = StageOf(to)]
       /\ StageOf(to) = StageOf(order[o].status) => SaleStage' = SaleStage
  BY <1>9, StageMoved
<1>11. UNCHANGED <<paid, paperwork>> BY DEF CommitTransition, CommitCancel, CommitShip
<1>12. UNCHANGED <<SaleReceived, SaleCleared, SaleShared>>
  BY <1>11 DEF SaleReceived, SaleCleared, SaleShared, ReadyToShip, PaidUp, PaidOut
<1>13. SaleStage[o] = StageOf(order[o].status) BY DEF SaleStage
<1> QED BY <1>3, <1>5, <1>6, <1>7, <1>10, <1>12, <1>13 DEF CommitTransition, CommitCancel

(* PAID_ESCROW funds the sale, RESOLVED and COMPLETED close it; the other  *)
(* statuses are the same stage.                                            *)
LEMMA TransitionMoves ==
  ASSUME SaleInv, [Next]_vars, NEW w \in Callers, CommitTransition(w), UNCHANGED ledger
  PROVE  SaleStill \/ \E o \in Orders : Sale!Fund(o) \/ Sale!Close(o)
<1>0. PICK to : to = call[w].to OBVIOUS
<1>1. PICK o \in Orders : o = call[w].order /\ to = call[w].to BY <1>0, CommitFinds
<1>2. /\ Allowed(OrderTable, order[o].status, to, call[w].roles) /\ order[o].status # "DRAFT"
      /\ to \notin {"CANCELLED", "SHIPPED"}
      /\ Prepared(o, to, call[w].next)
      /\ SaleStage[o] = StageOf(order[o].status)
      /\ SaleStage' = [SaleStage EXCEPT ![o] = StageOf(to)]
      /\ StageOf(to) = StageOf(order[o].status) => SaleStage' = SaleStage
      /\ UNCHANGED <<SaleReceived, SaleCleared, SaleShared>>
  BY <1>1, CommitFinds
<1>3. UNCHANGED SaleGoods BY DEF CommitTransition, SaleGoods
<1>4. CASE order[o].status = "PLACED" /\ to = "PAID_ESCROW"
  <2>1. SaleReceived[o] BY <1>2, <1>4 DEF Prepared, SaleReceived
  <2> QED BY <2>1, <1>2, <1>3, <1>4, Stages DEF Sale!Fund
<1>5. CASE StageOf(order[o].status) = StageOf(to) BY <1>2, <1>3, <1>5 DEF SaleStill
<1>6. CASE StageOf(order[o].status) = "shipped" /\ to \in {"RESOLVED", "COMPLETED"}
  <2>1. SaleShared[o] BY <1>2, <1>6 DEF Prepared, SaleShared
  <2> QED BY <2>1, <1>2, <1>3, <1>6, Stages DEF Sale!Close
<1> QED BY <1>2, <1>4, <1>5, <1>6, TableStages

(* A cancelled sale has its goods back in the stock, by this transaction   *)
(* or by the sweeper before it.                                            *)
LEMMA CancelCancels ==
  ASSUME SaleInv, [Next]_vars, NEW w \in Callers, CommitCancel(w), UNCHANGED ledger
  PROVE  \E o \in Orders : Sale!Cancel(o)
<1>0. /\ SaleTypes /\ OutboundOnce /\ HoldFollowsOrder
  BY SaleTypesHold DEF SaleInv, MoneyInv, OrderInv
<1>1. PICK o \in Orders : o = call[w].order BY CommitFinds
<1>2. /\ Allowed(OrderTable, order[o].status, "CANCELLED", call[w].roles)
      /\ order[o].status # "DRAFT"
      /\ SaleStage[o] = StageOf(order[o].status)
      /\ SaleStage' = [SaleStage EXCEPT ![o] = StageOf("CANCELLED")]
      /\ UNCHANGED <<SaleReceived, SaleCleared, SaleShared>>
  BY <1>1, CommitFinds
<1>3. order[o].status = "PLACED" BY <1>2, TableStages, Stages DEF Allowed, OrderTable, Edge
<1>4. /\ reservation[o] \in ReservationType
      /\ reservation[o].shipped = 0 /\ reservation[o].state # "NONE"
  BY <1>0, <1>3 DEF SaleTypes, OutboundOnce, ShippedStates, HoldFollowsOrder, Exists
<1>5. \A q \in Orders \ {o} : reservation'[q] = reservation[q]
  BY <1>0, <1>1 DEF CommitCancel, Released, SaleTypes
<1>6. GoodsOf(reservation'[o]) = "back"
  <2>1. CASE reservation[o].state = "HELD"
    <3>1. reservation'[o] = GivenBack(reservation[o])
      BY <1>0, <1>1, <2>1 DEF CommitCancel, Released, SaleTypes
    <3>2. reservation'[o].state = "RELEASED" /\ reservation'[o].shipped = 0
      BY <1>4, <3>1, GivenBackType
    <3> QED BY <3>2 DEF GoodsOf
  <2>2. CASE reservation[o].state # "HELD"
    BY <1>1, <1>4, <2>2 DEF CommitCancel, GoodsOf
  <2> QED BY <2>1, <2>2
<1>7. SaleGoods' = [SaleGoods EXCEPT ![o] = "back"] BY <1>5, <1>6, GoodsMoved
<1> QED BY <1>2, <1>3, <1>7, Stages DEF Sale!Cancel

(* The goods leave with the stage, and only of a cleared sale.             *)
LEMMA ShipShips ==
  ASSUME SaleInv, [Next]_vars, NEW w \in Callers, CommitShip(w), UNCHANGED ledger
  PROVE  \E o \in Orders : Sale!Ship(o)
<1>0. SaleTypes BY SaleTypesHold DEF SaleInv, MoneyInv, OrderInv
<1>1. PICK o \in Orders : o = call[w].order BY CommitFinds
<1>2. /\ Allowed(OrderTable, order[o].status, "SHIPPED", call[w].roles)
      /\ order[o].status # "DRAFT" /\ MayShip(o)
      /\ SaleStage[o] = StageOf(order[o].status)
      /\ SaleStage' = [SaleStage EXCEPT ![o] = StageOf("SHIPPED")]
      /\ UNCHANGED <<SaleReceived, SaleCleared, SaleShared>>
  BY <1>1, CommitFinds
<1>3. order[o].status \in {"CONFIRMED", "PREPARING"}
  BY <1>2 DEF Allowed, OrderTable, Edge
<1>4. SaleCleared[o] BY <1>2 DEF MayShip, SaleCleared
<1>5. reservation'[o] = ShippedOut(reservation[o])
      /\ \A q \in Orders \ {o} : reservation'[q] = reservation[q]
  BY <1>0, <1>1 DEF CommitShip, SaleTypes
<1>6. GoodsOf(reservation'[o]) = "gone"
  <2>1. reservation[o].shipped \in Nat BY <1>0 DEF SaleTypes, ReservationType
  <2>2. reservation'[o].shipped = reservation[o].shipped + 1
    BY <1>0, <1>5, ShippedOutType DEF SaleTypes
  <2> QED BY <2>1, <2>2 DEF GoodsOf
<1>7. SaleGoods' = [SaleGoods EXCEPT ![o] = "gone"] BY <1>5, <1>6, GoodsMoved
<1> QED BY <1>2, <1>3, <1>4, <1>7, Stages DEF Sale!Ship

(* A booked payment is money received, and may clear the sale.             *)
LEMMA BookReceives ==
  ASSUME SaleInv, [Next]_vars, NEW h \in Hooks, HookBook(h)
  PROVE  SaleStill \/ \E o \in Orders : Sale!Receive(o) \/ Sale!Clear(o)
<1>0. /\ TypeInv /\ PositiveAmounts /\ NeverNegative /\ PaymentsOfOrders /\ SaleTypes
      /\ hook \in [Hooks -> HookType \cup {Idle}]
  BY SaleTypesHold DEF SaleInv, MoneyInv, OrderInv, TypeInv, TypeOK, SettlementTypeOK
<1>1. hook[h] \in HookType /\ hook[h] # Idle BY <1>0 DEF HookBook, Idle
<1>2. PICK o \in Orders : o = hook[h].order BY <1>1 DEF HookType
<1>3. SaleStage[o] # "none"
  <2>1. Exists(o) BY <1>0, <1>1, <1>2 DEF HookType, TypeInv, RowsExist, PaymentsOfOrders
  <2> QED BY <2>1, <1>0, Stages DEF Exists, SaleStage, SaleTypes, OrderType, OrderStatus
<1>4. UNCHANGED <<SaleStage, SaleGoods>> BY DEF HookBook, SaleStage, SaleGoods
<1>5. /\ \A q \in Orders \ {o} : ledger'[q] = ledger[q]
      /\ \A q \in Orders \ {o} : paid'[q] = paid[q] /\ paperwork'[q] = paperwork[q]
      /\ ledger'[o] = Received(ledger[o], payment[hook[h].pay].amount)
  BY <1>0, <1>2 DEF HookBook, SaleTypes
<1>6. ledger'[o].transit > 0
  <2>1. /\ ledger'[o].transit > ledger[o].transit /\ ledger[o].transit >= 0
        /\ ledger[o].transit \in Int /\ ledger'[o].transit \in Int
    BY <1>0, <1>2, LedgerFacts DEF NeverNegative, AccountsType
  <2> QED BY <2>1
<1>7. UNCHANGED SaleShared
  <2>1. \A q \in Orders : PaidOut(q)' = PaidOut(q) BY <1>5 DEF PaidOut, Received
  <2> QED BY <2>1 DEF SaleShared
<1>8. \/ SaleReceived' = SaleReceived
      \/ ~SaleReceived[o] /\ SaleReceived' = [SaleReceived EXCEPT ![o] = TRUE]
  BY <1>5, <1>6, ReceivedMoved
<1>9. \/ SaleCleared' = SaleCleared
      \/ ~SaleCleared[o] /\ SaleCleared' = [SaleCleared EXCEPT ![o] = TRUE]
  BY <1>0, <1>5, ClearedMoved
<1>10. CASE SaleReceived' = SaleReceived
  BY <1>3, <1>4, <1>7, <1>9, <1>10 DEF SaleStill, Sale!Clear
<1>11. CASE ~SaleReceived[o] /\ SaleReceived' = [SaleReceived EXCEPT ![o] = TRUE]
  BY <1>3, <1>4, <1>7, <1>9, <1>11 DEF Sale!Receive
<1> QED BY <1>8, <1>10, <1>11

(* A distribution of the escrow of a shipped order shares its price out,   *)
(* the first time.                                                         *)
LEMMA DistributionShares ==
  ASSUME SaleInv, [Next]_vars, NEW o \in Orders, HasShipped(o),
         UNCHANGED <<order, reservation, paid, paperwork>>,
         \A q \in Orders \ {o} : ledger'[q] = ledger[q],
         PaidOut(o)' = PaidOut(o) + Total
  PROVE  SaleStill \/ Sale!ShareOut(o)
<1>0. /\ TypeInv /\ PositiveAmounts /\ NeverNegative /\ SaleTypes
      /\ EscrowBeforeProgress /\ PaidOutBeforeClosing
  BY SaleTypesHold DEF SaleInv, MoneyInv, OrderInv
<1>1. UNCHANGED <<SaleStage, SaleGoods, SaleCleared>>
  BY DEF SaleStage, SaleGoods, SaleCleared, ReadyToShip, PaidUp
<1>2. /\ ledger[o].transit \in Int /\ ledger'[o].transit \in Int
      /\ PaidOut(o) \in Int /\ PaidOut(o)' \in Int
      /\ ledger'[o].transit >= ledger[o].transit /\ PaidOut(o) >= 0
  BY <1>0, LedgerFacts DEF AccountsType, PaidOut, NeverNegative
<1>3. ledger[o].transit > 0
  BY <1>0 DEF EscrowBeforeProgress, HasShipped, ShippedStates, UnpaidStates
<1>4. SaleReceived[o] /\ SaleReceived' = SaleReceived
  <2>1. SaleReceived[o] BY <1>3 DEF SaleReceived
  <2> QED BY <2>1, <1>2, <1>3, ReceivedMoved
<1>5. \/ SaleShared' = SaleShared
      \/ ~SaleShared[o] /\ SaleShared' = [SaleShared EXCEPT ![o] = TRUE]
  <2>1. PaidOut(o) >= Total => PaidOut(o)' >= Total BY <1>0, <1>2 DEF SaleTypes
  <2> QED BY <2>1, SharedMoved
<1>6. ASSUME ~SaleShared[o] PROVE SaleStage[o] = "shipped"
  <2>1. ~(PaidOut(o) >= Total) BY <1>6 DEF SaleShared
  <2>2. order[o].status \notin {"RESOLVED", "COMPLETED"} BY <2>1, <1>0 DEF PaidOutBeforeClosing
  <2> QED BY <2>2, Stages DEF HasShipped, ShippedStates, SaleStage
<1> QED BY <1>1, <1>4, <1>5, <1>6 DEF SaleStill, Sale!ShareOut

LEMMA PayoutShares ==
  ASSUME SaleInv, [Next]_vars,
         \/ \E d \in Dispatcher : ReleaseBook(d)
         \/ \E s \in Staff : RuleBook(s)
  PROVE  SaleStill \/ \E o \in Orders : Sale!ShareOut(o)
<1>0. /\ TypeInv /\ PositiveAmounts /\ PayoutsOfShipped /\ SaleTypes
      /\ release \in [Dispatcher -> ReleaseType \cup {Idle}]
      /\ ruling \in [Staff -> RulingType \cup {Idle}]
  BY SaleTypesHold
    DEF SaleInv, MoneyInv, OrderInv, TypeInv, TypeOK, SettlementTypeOK, DisputesTypeOK
<1>1. ASSUME NEW d \in Dispatcher, ReleaseBook(d)
      PROVE  SaleStill \/ \E o \in Orders : Sale!ShareOut(o)
  <2>1. release[d].at = "book" BY <1>1 DEF ReleaseBook
  <2>2. release[d] \in ReleaseType BY <2>1, <1>0 DEF Idle
  <2>3. PICK o \in Orders : o = release[d].order BY <2>2 DEF ReleaseType
  <2>4. HasShipped(o) BY <2>1, <2>3, <1>0 DEF PayoutsOfShipped
  <2>5. /\ UNCHANGED <<order, reservation, paid, paperwork>>
        /\ \A q \in Orders \ {o} : ledger'[q] = ledger[q]
    BY <1>0, <1>1, <2>3 DEF ReleaseBook, tradingVars, SaleTypes
  <2>6. PaidOut(o)' = PaidOut(o) + Total BY <1>0, <1>1, <2>3, LedgerFacts
  <2> QED BY <2>4, <2>5, <2>6, DistributionShares
<1>2. ASSUME NEW s \in Staff, RuleBook(s)
      PROVE  SaleStill \/ \E o \in Orders : Sale!ShareOut(o)
  <2>1. ruling[s] # Idle /\ ruling[s] \in RulingType BY <1>2, <1>0 DEF RuleBook, Idle
  <2>2. PICK o \in Orders : o = ruling[s].order BY <2>1 DEF RulingType
  <2>3. HasShipped(o)
    BY <2>1, <2>2, <1>0 DEF RulingType, TypeInv, RowsExist, PayoutsOfShipped
  <2>4. /\ UNCHANGED <<order, reservation, paid, paperwork>>
        /\ \A q \in Orders \ {o} : ledger'[q] = ledger[q]
    BY <1>0, <1>2, <2>2 DEF RuleBook, tradingVars, SaleTypes
  <2>5. PaidOut(o)' = PaidOut(o) + Total BY <1>0, <1>2, <2>2, LedgerFacts
  <2> QED BY <2>3, <2>4, <2>5, DistributionShares
<1> QED BY <1>1, <1>2

(* An orphan that is still held belongs to a funded sale: an order that is *)
(* cancelled or shipped holds nothing.                                     *)
LEMMA OrphanGivesBack ==
  ASSUME SaleInv, [Next]_vars, NEW s \in Sweepers, OrphanRelease(s)
  PROVE  SaleStill \/ \E o \in Orders : Sale!GiveBack(o)
<1>0. /\ SaleTypes /\ OutboundOnce /\ CancelledHoldsNothing /\ HoldFollowsOrder /\ OrphansArePast
      /\ sweep \in [Sweepers -> SweepType \cup {Idle}]
  BY SaleTypesHold DEF SaleInv, MoneyInv, OrderInv, TypeInv, TypeOK, SweeperTypeOK
<1>1. sweep[s].at = "release" BY DEF OrphanRelease
<1>2. sweep[s] \in SweepType BY <1>0, <1>1 DEF Idle
<1>3. PICK o \in Orders : o = sweep[s].order BY <1>2 DEF SweepType
<1>4. PastPlaced(o) BY <1>0, <1>1, <1>3 DEF OrphansArePast
<1>5. /\ reservation'[o] = GivenBack(reservation[o])
      /\ \A q \in Orders \ {o} : reservation'[q] = reservation[q]
  BY <1>0, <1>3 DEF OrphanRelease, Released, SaleTypes
<1>6. /\ reservation[o].shipped \in Nat /\ reservation[o].state # "NONE"
      /\ reservation'[o].state = "RELEASED" /\ reservation'[o].shipped = reservation[o].shipped
  BY <1>0, <1>4, <1>5, GivenBackType, StatusOrder
    DEF SaleTypes, ReservationType, HoldFollowsOrder, Exists
<1>7. UNCHANGED <<SaleStage, SaleReceived, SaleCleared, SaleShared>>
  BY DEF OrphanRelease, settlementVars, SaleStage, SaleReceived, SaleCleared, SaleShared,
    ReadyToShip, PaidUp, PaidOut
<1>8. CASE reservation[o].state = "HELD" /\ reservation[o].shipped = 0
  <2>1. order[o].status \notin ShippedStates BY <1>0, <1>8 DEF OutboundOnce
  <2>2. order[o].status # "CANCELLED" BY <1>0, <1>8 DEF CancelledHoldsNothing
  <2>3. order[o].status \in {"PAID_ESCROW", "CONFIRMED", "PREPARING"}
    BY <2>1, <2>2, <1>0, <1>4 DEF PastPlaced, ShippedStates, SaleTypes, OrderType, OrderStatus
  <2>4. SaleStage[o] = "funded" BY <2>3, Stages DEF SaleStage
  <2>5. SaleGoods[o] = "held" /\ GoodsOf(reservation'[o]) = "back"
    BY <1>6, <1>8 DEF SaleGoods, GoodsOf
  <2>6. SaleGoods' = [SaleGoods EXCEPT ![o] = "back"] BY <2>5, <1>5, GoodsMoved
  <2> QED BY <2>4, <2>5, <2>6, <1>7 DEF Sale!GiveBack
<1>9. CASE ~(reservation[o].state = "HELD" /\ reservation[o].shipped = 0)
  <2>1. GoodsOf(reservation'[o]) = GoodsOf(reservation[o]) BY <1>6, <1>9 DEF GoodsOf
  <2>2. SaleGoods' = SaleGoods BY <2>1, <1>5, GoodsMoved
  <2> QED BY <2>2, <1>7 DEF SaleStill
<1> QED BY <1>8, <1>9

(* Customs move a shipped order within its stage, or reopen a closed one.  *)
LEMMA CustomsReopens ==
  ASSUME SaleInv, [Next]_vars, NEW f \in Officers, CustomsCommit(f), UNCHANGED ledger
  PROVE  SaleStill \/ \E o \in Orders : Sale!Reopen(o)
<1>0. /\ SaleTypes /\ CustomsOK /\ customs \in [Officers -> CustomsType \cup {NoCall}]
  BY SaleTypesHold DEF SaleInv, MoneyInv, OrderInv, TypeInv, TypeOK, CustomsTypeOK
<1>1. UNCHANGED <<SaleGoods, SaleReceived, SaleCleared, SaleShared>>
  BY DEF CustomsCommit, SaleGoods, SaleReceived, SaleCleared, SaleShared, ReadyToShip, PaidUp,
    PaidOut
<1>2. CASE customs[f].moves = "none"
  BY <1>1, <1>2 DEF CustomsCommit, SaleStill, SaleStage
<1>3. CASE customs[f].moves # "none"
  <2>1. customs[f].at = "commit" BY DEF CustomsCommit
  <2>2. customs[f] \in CustomsType BY <2>1, <1>0 DEF NoCall
  <2>3. PICK o \in Orders : o = customs[f].order BY <2>2 DEF CustomsType
  <2>4. /\ customs[f].moves \in {"IN_CUSTOMS", "CUSTOMS_CLEARED"}
        /\ order[o].status \in ShippedStates
    BY <2>1, <2>3, <1>0, <1>3 DEF CustomsOK
  <2>5. /\ order'[o].status = customs[f].moves
        /\ \A q \in Orders \ {o} : order'[q].status = order[q].status
    BY <2>3, <1>0, <1>3 DEF CustomsCommit, Written, SaleTypes
  <2>6. StageOf(order'[o].status) = "shipped" BY <2>4, <2>5, Stages
  <2>7. SaleStage[o] \in {"shipped", "closed"} BY <2>4, Stages DEF ShippedStates, SaleStage
  <2>8. /\ SaleStage' = [SaleStage EXCEPT ![o] = "shipped"]
        /\ SaleStage[o] = "shipped" => SaleStage' = SaleStage
    <3>1. SaleStage[o] = StageOf(order[o].status) BY DEF SaleStage
    <3> QED BY <3>1, <2>5, <2>6, StageMoved
  <2> QED BY <2>7, <2>8, <1>1 DEF SaleStill, Sale!Reopen
<1> QED BY <1>2, <1>3

LEMMA SaleInitial == ASSUME Init PROVE Sale!Init
<1>1. SaleStage = [o \in Orders |-> "none"]
  BY Stages DEF Init, TradingInit, SaleStage
<1>2. SaleGoods = [o \in Orders |-> "none"]
  BY DEF Init, TradingInit, SaleGoods, GoodsOf
<1> DEFINE never == [o \in Orders |-> FALSE]
<1>3. never \in [Orders -> BOOLEAN] /\ \A o \in Orders : ~never[o] BY Zenon
<1>4. ASSUME NEW o \in Orders
      PROVE  ~(ledger[o].transit > 0) /\ ~ReadyToShip(o) /\ ~(PaidOut(o) >= Total)
  <2>1. ledger[o].transit = 0 /\ PaidOut(o) = 0 BY DEF Init, SettlementInit, PaidOut
  <2>2. "shipment" \notin paperwork[o] BY DEF Init, TradingInit
  <2>3. "shipment" \in {"shipment", "documents"} OBVIOUS
  <2>4. ~ReadyToShip(o) BY <2>2, <2>3 DEF ReadyToShip
  <2> QED BY <2>1, <2>4, SettlementAssumption DEF SettlementAssumption
<1>5. /\ SaleReceived \in [Orders -> BOOLEAN] /\ SaleShared \in [Orders -> BOOLEAN]
      /\ SaleCleared \in [Orders -> BOOLEAN]
  BY DEF SaleReceived, SaleShared, SaleCleared, ReadyToShip, PaidUp
<1>6. \A o \in Orders : ~SaleReceived[o] /\ ~SaleShared[o] /\ ~SaleCleared[o]
  BY <1>4 DEF SaleReceived, SaleShared, SaleCleared
<1> HIDE DEF never
<1>7. SaleReceived = never /\ SaleShared = never /\ SaleCleared = never
  BY <1>3, <1>5, <1>6, SameConditions
<1> QED BY <1>1, <1>2, <1>7 DEF Sale!Init, never

LEMMA SaleStep == ASSUME SaleInv, [Next]_vars PROVE [Sale!Next]_(Sale!saleVars)
<1>1. SaleStill \/ Sale!Next
  <2>0. TypeInv BY DEF SaleInv, MoneyInv, OrderInv
  <2>1. ASSUME NEW o \in Orders, UNCHANGED ledger,
               \/ Place(o) \/ RegisterShipment(o) \/ RegisterDocuments(o)
               \/ \E k \in Instalments(o) : MarkPaid(o, k)
        PROVE  SaleStill \/ Sale!Next
    BY <2>1, PlaceOpens, PaperworkClears DEF Sale!Next
  <2>2. ASSUME NEW w \in Callers, UNCHANGED ledger,
               CommitTransition(w) \/ CommitCancel(w) \/ CommitShip(w)
        PROVE  SaleStill \/ Sale!Next
    BY <2>2, TransitionMoves, CancelCancels, ShipShips DEF Sale!Next
  <2>3. ASSUME NEW h \in Hooks, HookBook(h) PROVE SaleStill \/ Sale!Next
    BY <2>3, BookReceives DEF Sale!Next
  <2>4. ASSUME \/ \E d \in Dispatcher : ReleaseBook(d)
               \/ \E s \in Staff : RuleBook(s)
        PROVE  SaleStill \/ Sale!Next
    BY <2>4, PayoutShares DEF Sale!Next
  <2>5. ASSUME NEW s \in Sweepers, OrphanRelease(s) PROVE SaleStill \/ Sale!Next
    BY <2>5, OrphanGivesBack DEF Sale!Next
  <2>6. ASSUME NEW f \in Officers, CustomsCommit(f), UNCHANGED ledger
        PROVE  SaleStill \/ Sale!Next
    BY <2>6, CustomsReopens DEF Sale!Next
  <2> QED BY <2>0, <2>1, <2>2, <2>3, <2>4, <2>5, <2>6, SaleWriters
<1> QED BY <1>1 DEF SaleStill, Sale!saleVars

(* The handlers of any number of orders, interleaved, crashing and with    *)
(* their stale reads, implement the abstract sale.                         *)
THEOREM SaleImplemented == Spec => ImplementsSale
<1>1. Init => Sale!Init BY SaleInitial
<1>2. SaleInv /\ [Next]_vars => [Sale!Next]_(Sale!saleVars) BY SaleStep
<1> QED BY <1>1, <1>2, SaleInvariance, PTL DEF Spec, ImplementsSale, Sale!Spec

----------------------------------------------------------------------------
(* Money moves once                                                        *)

(* A webhook between its look at the payment and the end of its booking.   *)
Underway(h) == hook[h].at \in {"book", "settle"}

(* Checkouts about to create an intent take the places of those that wait. *)
Creating(o) == {b \in Buyers : checkout[b].at = "create" /\ checkout[b].order = o}

IntentsCounted ==
  \A o \in Orders : Cardinality(Pending(o)) + Cardinality(Creating(o)) <= Cardinality(Buyers)

(* An order without instalments is paid in whole or not at all.            *)
WholePrices ==
  \A o \in Orders : Terms[o] = << >> =>
    /\ \A p \in PayId :
         payment[p] # NoPayment /\ payment[p].order = o => payment[p].amount = Total
    /\ \A b \in Buyers :
         checkout[b].at \in {"reuse", "create"} /\ checkout[b].order = o =>
           checkout[b].amount = Total
    /\ ledger[o].transit = 0 \/ ledger[o].transit >= Total

(* What was never announced is not booked, and what was announced once is  *)
(* in one hand.                                                            *)
AnnouncementsCounted ==
  /\ \A p \in PayId : deliveries[p] = 0 =>
       /\ payment[p].status \in {"NONE", "PENDING"}
       /\ \A h \in Hooks : Underway(h) => hook[h].pay # p
  /\ \A p \in PayId, g, h \in Hooks :
       deliveries[p] <= 1 /\ Underway(g) /\ Underway(h) /\ hook[g].pay = p /\ hook[h].pay = p =>
         g = h

(* A refund has its dispute.                                               *)
RefundsDisputed ==
  \A p \in PayId :
    payment[p].status \in {"REFUNDED", "PARTIAL_REFUND"} => HasRow(payment[p].order)

(* A payment that is announced in turn is still PENDING when it is booked. *)
BookedOnce ==
  \A h \in Hooks :
    Underway(h) /\ AnnouncedInTurn(hook[h].order) => payment[hook[h].pay].status = "PENDING"

(* The event of a delivery is in the outbox from the delivery to its       *)
(* publication; nothing is paid out before the dispatcher gets that far    *)
(* with it, and not twice.                                                 *)
DeliveredStates == {"DELIVERED", "COMPLETED", "DISPUTED", "RESOLVED"}
Delivered(o) == order[o].status \in DeliveredStates

In(o, s) == \E i \in DOMAIN s : s[i] = o
Once(o, s) == \A i, j \in DOMAIN s : s[i] = o /\ s[j] = o => i = j

Transferred == {"book", "complete", "publish"}
Settled == {"complete", "publish"}
Reached(o, ats) == \E d \in Dispatcher : release[d].at \in ats /\ release[d].order = o
Waiting(o, ats) == ~Delivered(o) \/ (In(o, outbox) /\ ~Reached(o, ats))

PayoutsCounted ==
  \A o \in Orders : DeliveredOnce(o) =>
    /\ In(o, outbox) => Delivered(o)
    /\ Once(o, outbox)
    /\ transfers[o] <= 1 /\ (Waiting(o, Transferred) => transfers[o] = 0)
    /\ ~HasRow(o) => PaidOut(o) <= Total /\ (Waiting(o, Settled) => PaidOut(o) = 0)

BookingInv ==
  /\ SaleInv /\ IntentsCounted /\ WholePrices /\ PayoutsCounted
  /\ AnnouncementsCounted /\ RefundsDisputed /\ BookedOnce /\ LedgerMatchesStripe

----------------------------------------------------------------------------
(* What a step may change                                                  *)

(* The writers of a payment, and what they write.                          *)
LEMMA PaymentMoves ==
  ASSUME TypeInv, [Next]_vars, NEW p \in PayId, payment'[p] # payment[p]
  PROVE  \/ \E b \in Buyers :
              /\ CheckoutCreate(b) /\ payment[p] = NoPayment
              /\ payment'[p] = [status |-> "PENDING", order |-> checkout[b].order,
                                amount |-> checkout[b].amount, recent |-> TRUE]
         \/ payment[p].status = "PENDING" /\ payment'[p].status = "PENDING"
         \/ \E h \in Hooks :
              HookBook(h) /\ hook[h].pay = p /\ payment'[p].status = "SUCCEEDED"
         \/ \E s \in Staff :
              /\ RuleBook(s) /\ ruling[s].order = payment[p].order
              /\ payment[p].status = "SUCCEEDED"
              /\ payment'[p].status \in {"REFUNDED", "PARTIAL_REFUND"}
<1> DEFINE P == \/ \E b \in Buyers :
                     /\ CheckoutCreate(b) /\ payment[p] = NoPayment
                     /\ payment'[p] = [status |-> "PENDING", order |-> checkout[b].order,
                                       amount |-> checkout[b].amount, recent |-> TRUE]
                \/ payment[p].status = "PENDING" /\ payment'[p].status = "PENDING"
                \/ \E h \in Hooks :
                     HookBook(h) /\ hook[h].pay = p /\ payment'[p].status = "SUCCEEDED"
                \/ \E s \in Staff :
                     /\ RuleBook(s) /\ ruling[s].order = payment[p].order
                     /\ payment[p].status = "SUCCEEDED"
                     /\ payment'[p].status \in {"REFUNDED", "PARTIAL_REFUND"}
<1>0. payment \in [PayId -> PaymentType \cup {NoPayment}] BY DEF TypeInv, TypeOK, SettlementTypeOK
<1>1. ASSUME NEW b \in Buyers, CheckoutCreate(b) PROVE P
  <2>1. PICK q \in PayId :
          /\ payment[q] = NoPayment
          /\ payment' = [payment EXCEPT ![q] =
               [status |-> "PENDING", order |-> checkout[b].order,
                amount |-> checkout[b].amount, recent |-> TRUE]]
    BY <1>1 DEF CheckoutCreate
  <2>2. q = p BY <2>1, <1>0
  <2> QED BY <2>1, <2>2, <1>0, <1>1
<1>2. ASSUME NEW q \in PayId, PaymentAges(q) PROVE P
  <2>1. payment' = [payment EXCEPT ![q].recent = FALSE] /\ payment[q].status = "PENDING"
    BY <1>2 DEF PaymentAges
  <2>2. q = p BY <2>1, <1>0
  <2>3. payment[p] \in PaymentType BY <2>1, <2>2, <1>0 DEF NoPayment
  <2>4. payment'[p] = [payment[p] EXCEPT !.recent = FALSE] BY <2>1, <2>2, <1>0
  <2> QED BY <2>1, <2>2, <2>3, <2>4 DEF PaymentType
<1>3. ASSUME NEW h \in Hooks, HookBook(h) PROVE P
  <2>1. payment' = [payment EXCEPT ![hook[h].pay].status = "SUCCEEDED"] BY <1>3 DEF HookBook
  <2>2. hook[h].pay = p BY <2>1, <1>0
  <2>3. payment[p] # NoPayment
    BY <1>3, <2>2 DEF HookBook, Idle, TypeInv, RowsExist
  <2>4. payment[p] \in PaymentType BY <2>3, <1>0
  <2>5. payment'[p] = [payment[p] EXCEPT !.status = "SUCCEEDED"] BY <2>1, <2>2, <1>0
  <2> QED BY <2>2, <2>4, <2>5, <1>3 DEF PaymentType
<1>4. ASSUME NEW s \in Staff, RuleBook(s) PROVE P
  <2>1. payment' = Refunded(ruling[s].order, ruling[s].refund) BY <1>4 DEF RuleBook
  <2>2. /\ p \in Succeeded(ruling[s].order)
        /\ payment'[p] = [payment[p] EXCEPT !.status =
             IF ruling[s].refund >= Total THEN "REFUNDED" ELSE "PARTIAL_REFUND"]
    BY <2>1 DEF Refunded
  <2>3. payment[p].status = "SUCCEEDED" /\ payment[p].order = ruling[s].order
    BY <2>2 DEF Succeeded
  <2>4. payment[p] \in PaymentType BY <2>3, <1>0 DEF NoPayment
  <2> QED BY <2>2, <2>3, <2>4, <1>4 DEF PaymentType
<1>5. CASE MoneySteps
  <2>1. \/ payment' = payment
        \/ \E b \in Buyers : CheckoutCreate(b)
        \/ \E q \in PayId : PaymentAges(q)
        \/ \E h \in Hooks : HookBook(h)
    BY <1>5 DEF MoneySteps, SettlementNext, moneyVars, CheckoutStart, CheckoutPrice,
      CheckoutReuse, Charge, HookStart, HookSettle, HookAdvance, Dispatch, ReleaseStatus,
      ReleaseTransfer, ReleaseBook, ReleaseComplete, Publish, Onboard
  <2> QED BY <2>1, <1>1, <1>2, <1>3
<1>6. CASE UNCHANGED settlementVars \/ Crash BY <1>6 DEF settlementVars, Crash, moneyVars
<1> QED BY <1>4, <1>5, <1>6, MoneyWriters

(* A webhook underway was so before, with the same payment, or starts now  *)
(* with one that it does not see SUCCEEDED.                                *)
LEMMA UnderwayOrigin ==
  ASSUME TypeInv, [Next]_vars, NEW h \in Hooks, Underway(h)'
  PROVE  \/ /\ Underway(h) /\ hook[h] \in HookType
            /\ hook'[h].pay = hook[h].pay /\ hook'[h].order = hook[h].order
         \/ \E p \in PayId :
              /\ HookStart(h, p) /\ hook'[h].pay = p /\ hook'[h].order = payment[p].order
              /\ payment[p] \in PaymentType /\ payment[p].status # "SUCCEEDED"
<1>0. /\ hook \in [Hooks -> HookType \cup {Idle}]
      /\ payment \in [PayId -> PaymentType \cup {NoPayment}]
  BY DEF TypeInv, TypeOK, SettlementTypeOK
<1>a. hook'[h] # Idle BY DEF Underway, Idle
<1>1. CASE \E p \in PayId : HookStart(h, p)
  <2>1. PICK p \in PayId : HookStart(h, p) BY <1>1
  <2>2. hook'[h] = HookFrame(p) /\ payment[p] # NoPayment
    BY <2>1, <1>0 DEF HookStart, TypeInv, RowsExist
  <2> QED BY <2>1, <2>2, <1>0, <1>a DEF HookFrame
<1>2. CASE ~ \E p \in PayId : HookStart(h, p)
  <2>1. hook[h] # Idle /\ hook'[h].pay = hook[h].pay /\ hook'[h].order = hook[h].order
    BY <1>2, <1>a, HookKept
  <2>2. Underway(h)
    <3>1. CASE hook'[h] = hook[h] BY <3>1 DEF Underway
    <3>2. CASE MoneySteps /\ hook'[h] # hook[h]
      <4>1. ASSUME NEW g \in Hooks, \E p \in PayId : HookStart(g, p) PROVE FALSE
        <5>1. g # h BY <4>1, <1>2
        <5> QED BY <4>1, <5>1, <1>0, <3>2 DEF HookStart
      <4>2. ASSUME NEW g \in Hooks, HookSettle(g) PROVE Underway(h)
        <5>1. g = h BY <4>2, <1>0, <3>2 DEF HookSettle
        <5> QED BY <4>2, <5>1 DEF HookSettle, Underway
      <4>3. ASSUME NEW g \in Hooks, HookBook(g) PROVE Underway(h)
        <5>1. g = h BY <4>3, <1>0, <3>2 DEF HookBook
        <5> QED BY <4>3, <5>1 DEF HookBook, Underway
      <4>4. ASSUME NEW g \in Hooks, HookAdvance(g) PROVE FALSE
        BY <4>4, <1>0, <1>a, <3>2 DEF HookAdvance
      <4>5. \/ hook' = hook
            \/ \E g \in Hooks : \/ HookSettle(g) \/ HookBook(g) \/ HookAdvance(g)
                                \/ \E p \in PayId : HookStart(g, p)
        BY <3>2 DEF MoneySteps, SettlementNext, CheckoutStart, CheckoutPrice, CheckoutReuse,
          CheckoutCreate, Charge, PaymentAges, Dispatch, ReleaseStatus, ReleaseTransfer,
          ReleaseBook, ReleaseComplete, Publish, Onboard
      <4> QED BY <4>1, <4>2, <4>3, <4>4, <4>5, <3>2
    <3>3. CASE Crash
      <4>1. hook' = [g \in Hooks |-> Idle] BY <3>3 DEF Crash
      <4>2. hook'[h] = Idle BY <4>1
      <4> QED BY <4>2, <1>a
    <3>4. CASE UNCHANGED settlementVars \/ \E s \in Staff : RuleBook(s)
      BY <3>1, <3>4 DEF settlementVars, RuleBook
    <3> QED BY <3>1, <3>2, <3>3, <3>4, MoneyWriters
  <2> QED BY <2>1, <2>2, <1>0
<1> QED BY <1>1, <1>2

(* Announcements are counted.                                              *)
LEMMA AnnouncementsGrow ==
  ASSUME TypeInv, [Next]_vars, NEW p \in PayId
  PROVE  /\ deliveries[p] \in Nat /\ deliveries'[p] \in Nat
         /\ deliveries[p] <= deliveries'[p]
         /\ \A h \in Hooks : HookStart(h, p) => deliveries'[p] = deliveries[p] + 1
<1>0. deliveries \in [PayId -> Nat] /\ deliveries' \in [PayId -> Nat]
  BY NextTypes DEF TypeInv, TypeOK, SettlementTypeOK
<1>1. ASSUME NEW h \in Hooks, NEW q \in PayId, HookStart(h, q)
      PROVE  /\ deliveries[p] <= deliveries'[p]
             /\ q = p => deliveries'[p] = deliveries[p] + 1
  <2>1. deliveries' = [deliveries EXCEPT ![q] = @ + 1] BY <1>1 DEF HookStart
  <2> QED BY <2>1, <1>0
<1>2. deliveries' = deliveries \/ \E h \in Hooks, q \in PayId : HookStart(h, q)
  <2>1. CASE MoneySteps
    BY <2>1 DEF MoneySteps, SettlementNext, moneyVars, CheckoutStart, CheckoutPrice,
      CheckoutReuse, CheckoutCreate, Charge, PaymentAges, HookSettle, HookBook, HookAdvance,
      Dispatch, ReleaseStatus, ReleaseTransfer, ReleaseBook, ReleaseComplete, Publish, Onboard
  <2>2. CASE UNCHANGED settlementVars \/ Crash \/ \E s \in Staff : RuleBook(s)
    BY <2>2 DEF settlementVars, Crash, moneyVars, RuleBook
  <2> QED BY <2>1, <2>2, MoneyWriters
<1> QED BY <1>0, <1>1, <1>2

LEMMA RowStays ==
  ASSUME TypeInv, [Next]_vars, NEW o, HasRow(o)
  PROVE  HasRow(o)'
BY DisputesStay DEF HasRow

(* Announcements that are in turn have been so before.                     *)
LEMMA TurnsStay ==
  ASSUME TypeInv, [Next]_vars, NEW o, AnnouncedInTurn(o)'
  PROVE  AnnouncedInTurn(o)
<1>1. CASE AnnouncedOnce(o)'
  <2>1. ASSUME NEW p \in PayId, payment[p] # NoPayment, payment[p].order = o
        PROVE  deliveries[p] <= 1
    <3>1. deliveries'[p] <= 1 BY <1>1, <2>1, PaymentsStay DEF AnnouncedOnce
    <3> QED BY <3>1, AnnouncementsGrow
  <2> QED BY <2>1 DEF AnnouncedInTurn, AnnouncedOnce
<1>2. CASE OneWebhook /\ ~HasRow(o)' BY <1>2, RowStays DEF AnnouncedInTurn
<1> QED BY <1>1, <1>2 DEF AnnouncedInTurn, OneWebhook

----------------------------------------------------------------------------
(* The bookings                                                            *)

LEMMA BookingInvInit == ASSUME Init PROVE BookingInv
<1>1. SaleInv BY SaleInvInit
<1>2. /\ payment = [p \in PayId |-> NoPayment] /\ hook = [h \in Hooks |-> Idle]
      /\ checkout = [b \in Buyers |-> Idle]
      /\ \A o \in Orders : ledger[o].transit = 0
  BY DEF Init, SettlementInit
<1>3. IntentsCounted
  <2> SUFFICES ASSUME NEW o \in Orders
               PROVE  Cardinality(Pending(o)) + Cardinality(Creating(o)) <= Cardinality(Buyers)
    BY DEF IntentsCounted
  <2>1. Pending(o) = {} BY <1>2 DEF Pending, NoPayment
  <2>2. Creating(o) = {} BY <1>2 DEF Creating, Idle
  <2>3. Cardinality(Buyers) \in Nat
    BY FS_CardinalityType, SettlementAssumption DEF SettlementAssumption
  <2> QED BY <2>1, <2>2, <2>3, FS_EmptySet
<1>4. AnnouncementsCounted /\ RefundsDisputed /\ BookedOnce
  BY <1>2 DEF AnnouncementsCounted, RefundsDisputed, BookedOnce, Underway, NoPayment, Idle
<1>5. LedgerMatchesStripe
  <2> SUFFICES ASSUME NEW o \in Orders PROVE ledger[o].transit = SumFunctionOnSet(Collected(o), PayId)
    BY DEF LedgerMatchesStripe
  <2>1. \A p \in PayId : Collected(o)[p] = 0 BY <1>2 DEF Collected, NoPayment
  <2>2. IsFiniteSet(PayId) BY FS_Interval, SettlementAssumption DEF PayId, SettlementAssumption
  <2>3. SumFunctionOnSet(Collected(o), PayId) = 0 BY <2>1, <2>2, SumZero
  <2> QED BY <1>2, <2>3
<1>6. WholePrices BY <1>2 DEF WholePrices, NoPayment, Idle
<1>7. PayoutsCounted
  <2>1. outbox = << >> /\ \A o \in Orders : transfers[o] = 0 /\ PaidOut(o) = 0
    BY <1>2 DEF Init, TradingInit, SettlementInit, PaidOut
  <2>2. Total \in Nat \ {0} BY SettlementAssumption DEF SettlementAssumption
  <2>3. DOMAIN outbox = {} BY <2>1
  <2> QED BY <2>1, <2>2, <2>3 DEF PayoutsCounted, In, Once
<1> QED BY <1>1, <1>3, <1>4, <1>5, <1>6, <1>7 DEF BookingInv

LEMMA AnnouncementsKept == ASSUME BookingInv, [Next]_vars PROVE AnnouncementsCounted'
<1>0. TypeInv /\ AnnouncementsCounted
  BY DEF BookingInv, SaleInv, MoneyInv, OrderInv
<1>1. ASSUME NEW p \in PayId, deliveries'[p] = 0 PROVE payment'[p].status \in {"NONE", "PENDING"}
  <2>1. deliveries[p] = 0 BY <1>0, <1>1, AnnouncementsGrow
  <2>2. /\ payment[p].status \in {"NONE", "PENDING"}
        /\ \A h \in Hooks : Underway(h) => hook[h].pay # p
    BY <1>0, <2>1 DEF AnnouncementsCounted
  <2>3. ASSUME NEW h \in Hooks, HookBook(h) PROVE hook[h].pay # p
    BY <2>2, <2>3 DEF HookBook, Underway
  <2>4. CASE payment'[p] = payment[p] BY <2>2, <2>4
  <2>5. ASSUME NEW b \in Buyers,
               payment'[p] = [status |-> "PENDING", order |-> checkout[b].order,
                              amount |-> checkout[b].amount, recent |-> TRUE]
        PROVE  payment'[p].status = "PENDING"
    BY <2>5
  <2> QED BY <1>0, <2>2, <2>3, <2>4, <2>5, PaymentMoves
<1>2. ASSUME NEW p \in PayId, deliveries'[p] = 0, NEW h \in Hooks, Underway(h)'
      PROVE  hook'[h].pay # p
  <2>1. deliveries[p] = 0 BY <1>0, <1>2, AnnouncementsGrow
  <2>2. CASE Underway(h) /\ hook'[h].pay = hook[h].pay
    BY <2>1, <2>2, <1>0 DEF AnnouncementsCounted
  <2>3. ASSUME NEW q \in PayId, HookStart(h, q), hook'[h].pay = q PROVE hook'[h].pay # p
    BY <2>1, <2>3, <1>0, <1>2, AnnouncementsGrow
  <2> QED BY <1>0, <1>2, <2>2, <2>3, UnderwayOrigin
<1>3. ASSUME NEW p \in PayId, NEW g \in Hooks, NEW h \in Hooks, deliveries'[p] <= 1,
             Underway(g)', Underway(h)', hook'[g].pay = p, hook'[h].pay = p
      PROVE  g = h
  <2>1. deliveries[p] <= 1 BY <1>0, <1>3, AnnouncementsGrow
  <2>2. CASE Underway(g) /\ hook[g].pay = p /\ Underway(h) /\ hook[h].pay = p
    BY <2>1, <2>2, <1>0 DEF AnnouncementsCounted
  <2>3. ASSUME NEW k \in Hooks, HookStart(k, p)
        PROVE  \A j \in Hooks : Underway(j) => hook[j].pay # p
    <3>1. deliveries[p] = 0 BY <2>3, <1>0, <1>3, AnnouncementsGrow
    <3> QED BY <3>1, <1>0 DEF AnnouncementsCounted
  <2>4. CASE HookStart(g, p) /\ HookStart(h, p)
    <3>1. hook \in [Hooks -> HookType \cup {Idle}] BY <1>0 DEF TypeInv, TypeOK, SettlementTypeOK
    <3>2. ASSUME g # h PROVE FALSE
      <4>1. hook'[h] = hook[h] /\ hook[h] = Idle BY <2>4, <3>1, <3>2 DEF HookStart
      <4> QED BY <4>1, <1>3 DEF Underway, Idle
    <3> QED BY <3>2
  <2>5. /\ (Underway(g) /\ hook[g].pay = p) \/ HookStart(g, p)
        /\ (Underway(h) /\ hook[h].pay = p) \/ HookStart(h, p)
    BY <1>0, <1>3, UnderwayOrigin
  <2> QED BY <2>2, <2>3, <2>4, <2>5
<1> QED BY <1>1, <1>2, <1>3 DEF AnnouncementsCounted, Underway

LEMMA RefundsKept == ASSUME BookingInv, [Next]_vars PROVE RefundsDisputed'
<1>0. TypeInv /\ RefundsDisputed BY DEF BookingInv, SaleInv, MoneyInv, OrderInv
<1>1. ASSUME NEW p \in PayId, NEW o, payment'[p].order = o,
             payment'[p].status \in {"REFUNDED", "PARTIAL_REFUND"}
      PROVE  HasRow(o)'
  <2>1. CASE payment'[p] = payment[p]
    <3>1. HasRow(o) BY <1>0, <1>1, <2>1 DEF RefundsDisputed
    <3> QED BY <3>1, <1>0, RowStays
  <2>2. ASSUME NEW s \in Staff, RuleBook(s), ruling[s].order = payment[p].order,
               payment[p].status = "SUCCEEDED"
        PROVE  HasRow(o)'
    <3>1. ruling[s] # Idle /\ ruling[s] \in RulingType
      BY <2>2, <1>0 DEF RuleBook, Idle, TypeInv, TypeOK, DisputesTypeOK
    <3>2. /\ ruling[s].dispute \in DisputeId /\ dispute[ruling[s].dispute] # NoDispute
          /\ dispute[ruling[s].dispute].order = ruling[s].order
      BY <1>0, <3>1 DEF TypeInv, RowsExist, RulingType
    <3>3. payment'[p].order = payment[p].order BY <1>0, <2>2, PaymentsStay DEF NoPayment
    <3>4. HasRow(o) BY <3>2, <3>3, <2>2, <1>1 DEF HasRow
    <3> QED BY <3>4, <1>0, RowStays
  <2>3. ASSUME NEW b \in Buyers,
               payment'[p] = [status |-> "PENDING", order |-> checkout[b].order,
                              amount |-> checkout[b].amount, recent |-> TRUE]
        PROVE  FALSE
    BY <2>3, <1>1
  <2> QED BY <1>0, <1>1, <2>1, <2>2, <2>3, PaymentMoves
<1> QED BY <1>1 DEF RefundsDisputed, HasRow

(* Two webhooks on a payment that is announced in turn are one.            *)
LEMMA OneHand ==
  ASSUME BookingInv, NEW g \in Hooks, NEW h \in Hooks, Underway(g), Underway(h),
         hook[g].pay = hook[h].pay, AnnouncedInTurn(hook[h].order)
  PROVE  g = h
<1>0. TypeInv /\ AnnouncementsCounted BY DEF BookingInv, SaleInv, MoneyInv, OrderInv
<1>1. hook[h] # Idle /\ hook[h] \in HookType
  BY <1>0 DEF Underway, Idle, TypeInv, TypeOK, SettlementTypeOK
<1>2. /\ hook[h].pay \in PayId /\ payment[hook[h].pay] # NoPayment
      /\ payment[hook[h].pay].order = hook[h].order
  BY <1>0, <1>1 DEF TypeInv, RowsExist, HookType
<1>3. CASE AnnouncedOnce(hook[h].order)
  <2>1. deliveries[hook[h].pay] <= 1 BY <1>2, <1>3 DEF AnnouncedOnce
  <2> QED BY <2>1, <1>0, <1>2 DEF AnnouncementsCounted
<1>4. CASE OneWebhook BY <1>4 DEF OneWebhook
<1> QED BY <1>3, <1>4 DEF AnnouncedInTurn

LEMMA BookedOnceKept == ASSUME BookingInv, [Next]_vars PROVE BookedOnce'
<1>0. TypeInv /\ AnnouncementsCounted /\ RefundsDisputed /\ BookedOnce
  BY DEF BookingInv, SaleInv, MoneyInv, OrderInv
<1>1. ASSUME NEW h \in Hooks, Underway(h)', NEW o, hook'[h].order = o, AnnouncedInTurn(o)'
      PROVE  payment'[hook'[h].pay].status = "PENDING"
  <2>0. AnnouncedInTurn(o) BY <1>0, <1>1, TurnsStay
  <2>1. CASE /\ Underway(h) /\ hook[h] \in HookType
             /\ hook'[h].pay = hook[h].pay /\ hook'[h].order = hook[h].order
    <3> DEFINE p == hook[h].pay
    <3>1. p \in PayId /\ payment[p].status = "PENDING"
      BY <2>0, <2>1, <1>0, <1>1 DEF BookedOnce, HookType
    <3>2. ASSUME NEW g \in Hooks, HookBook(g), hook[g].pay = p PROVE FALSE
      <4>1. Underway(g) BY <3>2 DEF HookBook, Underway
      <4>2. g = h BY <4>1, <3>2, <2>0, <2>1, <1>1, OneHand
      <4>3. hook'[h] = [hook[h] EXCEPT !.at = "advance"] \/ hook'[h] = Idle
        BY <3>2, <4>2, <1>0 DEF HookBook, TypeInv, TypeOK, SettlementTypeOK
      <4> QED BY <4>3, <2>1, <1>1 DEF Underway, Idle, HookType
    <3>3. CASE payment'[p] = payment[p] BY <3>1, <3>3, <2>1
    <3>4. payment[p] # NoPayment BY <3>1 DEF NoPayment
    <3> QED BY <1>0, <2>1, <3>1, <3>2, <3>3, <3>4, PaymentMoves
  <2>2. ASSUME NEW p \in PayId, HookStart(h, p), hook'[h].pay = p,
               hook'[h].order = payment[p].order,
               payment[p] \in PaymentType, payment[p].status # "SUCCEEDED"
        PROVE  payment'[hook'[h].pay].status = "PENDING"
    <3>1. payment' = payment /\ payment[p].order = o BY <1>1, <2>2 DEF HookStart
    <3>2. CASE AnnouncedOnce(o)'
      <4>1. payment[p] # NoPayment BY <2>2 DEF PaymentType, NoPayment
      <4>2. deliveries'[p] <= 1 BY <3>1, <3>2, <4>1 DEF AnnouncedOnce
      <4>3. deliveries[p] = 0 BY <4>2, <1>0, <2>2, AnnouncementsGrow
      <4>4. payment[p].status \in {"NONE", "PENDING"} BY <4>3, <1>0 DEF AnnouncementsCounted
      <4> QED BY <4>4, <3>1, <2>2 DEF PaymentType
    <3>3. CASE ~HasRow(o)'
      <4>1. ~HasRow(o) BY <1>0, <3>3, RowStays
      <4> QED BY <4>1, <3>1, <1>0, <2>2 DEF RefundsDisputed, PaymentType
    <3> QED BY <1>1, <3>2, <3>3 DEF AnnouncedInTurn
  <2> QED BY <1>0, <1>1, <2>1, <2>2, UnderwayOrigin
<1> QED BY <1>1 DEF BookedOnce, Underway, AnnouncedInTurn, AnnouncedOnce, OneWebhook, HasRow

(* What Stripe has collected of a payment only changes when the payment is *)
(* booked.                                                                 *)
LEMMA CollectedStays ==
  ASSUME TypeInv, [Next]_vars, NEW o \in Orders, NEW p \in PayId,
         \A h \in Hooks : HookBook(h) /\ hook[h].pay = p => hook[h].order # o
  PROVE  Collected(o)'[p] = Collected(o)[p]
<1>0. payment \in [PayId -> PaymentType \cup {NoPayment}]
      /\ payment' \in [PayId -> PaymentType \cup {NoPayment}]
  BY NextTypes DEF TypeInv, TypeOK, SettlementTypeOK
<1>1. CASE payment'[p] = payment[p] BY <1>1 DEF Collected
<1>2. CASE payment[p].status = "PENDING" /\ payment'[p].status = "PENDING"
  BY <1>2 DEF Collected
<1>3. ASSUME NEW h \in Hooks, HookBook(h), hook[h].pay = p
      PROVE  Collected(o)'[p] = Collected(o)[p]
  <2>1. payment[p] # NoPayment /\ payment[p].order = hook[h].order
    BY <1>3, <1>0 DEF HookBook, Idle, TypeInv, RowsExist
  <2>2. payment[p].order # o BY <1>3, <2>1
  <2>3. payment'[p].order # o BY <2>1, <2>2, PaymentsStay
  <2> QED BY <2>2, <2>3 DEF Collected
<1>4. ASSUME payment[p].status = "SUCCEEDED",
             payment'[p].status \in {"REFUNDED", "PARTIAL_REFUND"}
      PROVE  Collected(o)'[p] = Collected(o)[p]
  <2>1. payment'[p].order = payment[p].order /\ payment'[p].amount = payment[p].amount
    BY <1>4, PaymentsStay DEF NoPayment
  <2> QED BY <2>1, <1>4 DEF Collected
<1>5. ASSUME NEW b \in Buyers, payment[p] = NoPayment,
             payment'[p] = [status |-> "PENDING", order |-> checkout[b].order,
                            amount |-> checkout[b].amount, recent |-> TRUE]
      PROVE  Collected(o)'[p] = Collected(o)[p]
  BY <1>5 DEF Collected, NoPayment
<1> QED BY <1>1, <1>2, <1>3, <1>4, <1>5, PaymentMoves

LEMMA CollectedType ==
  ASSUME TypeInv, NEW o \in Orders, NEW p \in PayId
  PROVE  Collected(o)[p] \in Nat
<1>1. payment[p] \in PaymentType \cup {NoPayment} BY DEF TypeInv, TypeOK, SettlementTypeOK
<1>2. CASE payment[p] = NoPayment BY <1>2 DEF Collected, NoPayment
<1>3. CASE payment[p] \in PaymentType
  <2>1. payment[p].amount \in Nat BY <1>3 DEF PaymentType
  <2> QED BY <2>1 DEF Collected
<1> QED BY <1>1, <1>2, <1>3

LEMMA LedgerKept == ASSUME BookingInv, [Next]_vars PROVE LedgerMatchesStripe'
<1>0. /\ TypeInv /\ PositiveAmounts /\ BookedOnce /\ LedgerMatchesStripe
      /\ IsFiniteSet(PayId)
  BY FS_Interval, SettlementAssumption
    DEF BookingInv, SaleInv, MoneyInv, OrderInv, PayId, SettlementAssumption
<1>a. TypeInv' BY <1>0, TypeStep
<1> SUFFICES ASSUME NEW o \in Orders, AnnouncedInTurn(o)'
             PROVE  ledger'[o].transit = SumFunctionOnSet(Collected(o)', PayId)
  BY DEF LedgerMatchesStripe
<1> DEFINE f == Collected(o)
           g == Collected(o)'
<1>1. AnnouncedInTurn(o) BY <1>0, TurnsStay
<1>2. ledger[o].transit = SumFunctionOnSet(f, PayId) BY <1>0, <1>1 DEF LedgerMatchesStripe
<1>3. \A p \in PayId : f[p] \in Int /\ g[p] \in Int
  <2>1. \A p \in PayId : f[p] \in Nat BY <1>0, CollectedType
  <2>2. \A p \in PayId : g[p] \in Nat
    <3> SUFFICES ASSUME NEW p \in PayId PROVE g[p] \in Nat OBVIOUS
    <3>1. payment'[p] \in PaymentType \/ payment'[p] = NoPayment
      BY <1>a DEF TypeInv, TypeOK, SettlementTypeOK
    <3>2. payment'[p] \in PaymentType => payment'[p].amount \in Nat BY DEF PaymentType
    <3> QED BY <3>1, <3>2 DEF Collected, NoPayment
  <2> QED BY <2>1, <2>2
<1>4. ASSUME NEW h \in Hooks, HookBook(h), hook[h].order = o
      PROVE  ledger'[o].transit = SumFunctionOnSet(g, PayId)
  <2> DEFINE q == hook[h].pay
  <2>1. hook[h] # Idle /\ hook[h] \in HookType
    BY <1>4, <1>0 DEF HookBook, Idle, TypeInv, TypeOK, SettlementTypeOK
  <2>2. q \in PayId /\ payment[q] # NoPayment /\ payment[q].order = o
    BY <2>1, <1>4, <1>0 DEF HookType, TypeInv, RowsExist
  <2>3. payment[q].status = "PENDING" /\ payment[q] \in PaymentType
    BY <1>4, <1>0, <1>1, <2>2
      DEF BookedOnce, Underway, HookBook, TypeInv, TypeOK, SettlementTypeOK
  <2>4. payment'[q] = [payment[q] EXCEPT !.status = "SUCCEEDED"]
    BY <1>4, <1>0, <2>2 DEF HookBook, TypeInv, TypeOK, SettlementTypeOK
  <2>5. f[q] = 0 /\ g[q] = payment[q].amount
    BY <2>2, <2>3, <2>4 DEF Collected, PaymentType
  <2>6. \A p \in PayId \ {q} : g[p] = f[p]
    <3> SUFFICES ASSUME NEW p \in PayId, p # q PROVE g[p] = f[p] OBVIOUS
    <3>1. payment'[p] = payment[p]
      BY <1>4, <1>0 DEF HookBook, TypeInv, TypeOK, SettlementTypeOK
    <3> QED BY <3>1 DEF Collected
  <2>7. ledger'[o].transit = ledger[o].transit + payment[q].amount
    <3>1. ledger[o] \in AccountsType /\ payment[q].amount \in Nat
      BY <1>0, <2>3 DEF TypeInv, TypeOK, SettlementTypeOK, PaymentType
    <3>2. ledger'[o] = Received(ledger[o], payment[q].amount)
      BY <1>4, <1>0 DEF HookBook, TypeInv, TypeOK, SettlementTypeOK
    <3> QED BY <3>1, <3>2, ReceivedFacts
  <2> HIDE DEF f, g, q
  <2>8. SumFunctionOnSet(g, PayId) = SumFunctionOnSet(f, PayId) + g[q] - f[q]
    BY <1>0, <1>3, <2>2, <2>6, SumChanges
  <2>9. SumFunctionOnSet(f, PayId) \in Int /\ payment[q].amount \in Nat
    BY <1>0, <1>3, <2>3, SumType DEF PaymentType
  <2> QED BY <1>2, <2>5, <2>7, <2>8, <2>9
<1>5. ASSUME \A h \in Hooks : HookBook(h) => hook[h].order # o
      PROVE  ledger'[o].transit = SumFunctionOnSet(g, PayId)
  <2>1. \A p \in PayId : g[p] = f[p] BY <1>0, <1>5, CollectedStays
  <2>2. ledger'[o].transit = ledger[o].transit
    <3>1. \A r, c : DistributedTo(ledger[o], r, c).transit = ledger[o].transit BY DEF DistributedTo
    <3> QED BY <1>0, <1>5, <3>1, LedgerMoves
  <2> HIDE DEF f, g
  <2>3. SumFunctionOnSet(g, PayId) = SumFunctionOnSet(f, PayId) BY <1>0, <2>1, SumEqual
  <2> QED BY <1>2, <2>2, <2>3
<1> QED BY <1>4, <1>5

(* Intents are created one for one, and only where none waits does another *)
(* checkout begin to.                                                      *)
LEMMA IntentsKept == ASSUME BookingInv, [Next]_vars PROVE IntentsCounted'
<1>0. /\ TypeInv /\ IntentsCounted /\ IsFiniteSet(Buyers) /\ IsFiniteSet(PayId)
      /\ payment \in [PayId -> PaymentType \cup {NoPayment}]
      /\ checkout \in [Buyers -> CheckoutType \cup {Idle}]
  <2>1. IsFiniteSet(Buyers) /\ IsFiniteSet(PayId)
    BY FS_Interval, SettlementAssumption DEF PayId, SettlementAssumption
  <2> QED BY <2>1
    DEF BookingInv, SaleInv, MoneyInv, OrderInv, TypeInv, TypeOK, SettlementTypeOK
<1> SUFFICES ASSUME NEW o \in Orders
             PROVE  Cardinality(Pending(o)') + Cardinality(Creating(o)') <= Cardinality(Buyers)
  BY DEF IntentsCounted
<1> DEFINE P == Pending(o)
           Q == Pending(o)'
           C == Creating(o)
           D == Creating(o)'
<1>1. /\ P \subseteq PayId /\ Q \subseteq PayId /\ C \subseteq Buyers /\ D \subseteq Buyers
      /\ Cardinality(P) + Cardinality(C) <= Cardinality(Buyers)
  BY <1>0 DEF Pending, Creating, IntentsCounted
<1>2. /\ IsFiniteSet(P) /\ IsFiniteSet(Q) /\ IsFiniteSet(C) /\ IsFiniteSet(D)
      /\ Cardinality(P) \in Nat /\ Cardinality(Q) \in Nat /\ Cardinality(C) \in Nat
      /\ Cardinality(D) \in Nat /\ Cardinality(Buyers) \in Nat
  <2> HIDE DEF P, Q, C, D
  <2> QED BY <1>0, <1>1, FS_Subset, FS_CardinalityType
<1>a. ASSUME NEW p \in PayId, p \in Q, p \notin P
      PROVE  \E b \in Buyers : CheckoutCreate(b) /\ checkout[b].order = o
  <2>1. payment'[p].status = "PENDING" /\ payment'[p].order = o BY <1>a DEF Pending
  <2>2. payment[p].status # "PENDING" \/ payment[p].order # o BY <1>a DEF Pending
  <2>3. payment[p].status = "PENDING" => payment[p].order = o
    BY <2>1, <1>0, PaymentsStay DEF NoPayment
  <2>4. payment'[p] # payment[p] /\ payment[p].status # "PENDING" BY <2>1, <2>2, <2>3
  <2>5. PICK b \in Buyers :
          CheckoutCreate(b) /\ payment'[p] = [status |-> "PENDING", order |-> checkout[b].order,
                                             amount |-> checkout[b].amount, recent |-> TRUE]
    BY <2>1, <2>4, <1>0, PaymentMoves
  <2> QED BY <2>1, <2>5
<1>b. ASSUME NEW b \in Buyers, b \in D, b \notin C
      PROVE  CheckoutReuse(b) /\ P = {}
  BY <1>0, <1>b, CheckoutMoves DEF Creating
<1>3. ASSUME NEW b \in Buyers, CheckoutCreate(b), checkout[b].order = o
      PROVE  Cardinality(Q) + Cardinality(D) <= Cardinality(Buyers)
  <2>1. PICK p \in PayId :
          /\ payment[p] = NoPayment
          /\ payment' = [payment EXCEPT ![p] =
               [status |-> "PENDING", order |-> checkout[b].order,
                amount |-> checkout[b].amount, recent |-> TRUE]]
    BY <1>3 DEF CheckoutCreate
  <2>2. p \notin P /\ Q = P \cup {p} BY <2>1, <1>0, <1>3 DEF Pending, NoPayment
  <2>3. b \in C /\ D = C \ {b}
    BY <1>0, <1>3 DEF CheckoutCreate, Creating, Idle
  <2> HIDE DEF P, Q, C, D
  <2>4. Cardinality(Q) = Cardinality(P) + 1 BY <1>2, <2>2, FS_AddElement
  <2>5. Cardinality(D) = Cardinality(C) - 1 BY <1>2, <2>3, FS_RemoveElement
  <2> QED BY <2>4, <2>5, <1>1, <1>2
<1>4. ASSUME NEW b \in Buyers, CheckoutReuse(b), P = {}
      PROVE  Cardinality(Q) + Cardinality(D) <= Cardinality(Buyers)
  <2>1. payment' = payment BY <1>4 DEF CheckoutReuse, moneyVars
  <2>a. Q = {} BY <1>4, <2>1 DEF Pending
  <2> HIDE DEF P, Q, C, D
  <2>2. Cardinality(Q) = 0 BY <2>a, FS_EmptySet
  <2>3. Cardinality(D) <= Cardinality(Buyers) BY <1>0, <1>1, FS_Subset
  <2> QED BY <2>2, <2>3, <1>2
<1>5. ASSUME Q \subseteq P, D \subseteq C
      PROVE  Cardinality(Q) + Cardinality(D) <= Cardinality(Buyers)
  <2> HIDE DEF P, Q, C, D
  <2>1. Cardinality(Q) <= Cardinality(P) /\ Cardinality(D) <= Cardinality(C)
    BY <1>2, <1>5, FS_Subset
  <2> QED BY <2>1, <1>1, <1>2
<1> QED BY <1>1, <1>3, <1>4, <1>5, <1>a, <1>b

LEMMA WholeKept == ASSUME BookingInv, [Next]_vars PROVE WholePrices'
<1>0. /\ TypeInv /\ WholePrices /\ Total \in Nat \ {0}
      /\ payment \in [PayId -> PaymentType \cup {NoPayment}]
  BY SettlementAssumption
    DEF BookingInv, SaleInv, MoneyInv, OrderInv, SettlementAssumption, TypeInv, TypeOK,
        SettlementTypeOK
<1> SUFFICES ASSUME NEW o \in Orders, Terms[o] = << >>
             PROVE  /\ \A p \in PayId :
                         payment'[p] # NoPayment /\ payment'[p].order = o => payment'[p].amount = Total
                    /\ \A b \in Buyers :
                         checkout'[b].at \in {"reuse", "create"} /\ checkout'[b].order = o =>
                           checkout'[b].amount = Total
                    /\ ledger'[o].transit = 0 \/ ledger'[o].transit >= Total
  BY DEF WholePrices
<1>1. ASSUME NEW p \in PayId, payment'[p] # NoPayment, payment'[p].order = o
      PROVE  payment'[p].amount = Total
  <2>1. CASE payment[p] # NoPayment
    BY <2>1, <1>0, <1>1, PaymentsStay DEF WholePrices
  <2>2. CASE payment[p] = NoPayment
    <3>1. PICK b \in Buyers :
            /\ CheckoutCreate(b)
            /\ payment'[p] = [status |-> "PENDING", order |-> checkout[b].order,
                              amount |-> checkout[b].amount, recent |-> TRUE]
      <4>1. ASSUME NEW h \in Hooks, HookBook(h) PROVE hook[h].pay # p
        BY <4>1, <2>2, <1>0 DEF HookBook, Idle, TypeInv, RowsExist
      <4> QED BY <4>1, <2>2, <1>0, <1>1, PaymentMoves DEF NoPayment
    <3> QED BY <3>1, <1>0, <1>1 DEF CheckoutCreate, WholePrices
  <2> QED BY <2>1, <2>2
<1>2. ASSUME NEW b \in Buyers, checkout'[b].at \in {"reuse", "create"}, checkout'[b].order = o
      PROVE  checkout'[b].amount = Total
  <2>1. CASE checkout'[b] = checkout[b] BY <2>1, <1>0, <1>2 DEF WholePrices
  <2>2. CASE checkout'[b] # checkout[b]
    <3>1. Due(o) = {} BY DEF Due, Instalments
    <3>2. AmountsDue(o) = {Total} BY <3>1 DEF AmountsDue
    <3>3. checkout[b].order = o /\ (CheckoutReuse(b) => checkout[b].amount = Total)
      BY <1>0, <1>2, <2>2, CheckoutMoves DEF CheckoutReuse, WholePrices
    <3> QED BY <3>2, <3>3, <1>0, <1>2, <2>2, CheckoutMoves
  <2> QED BY <2>1, <2>2
<1>3. ledger'[o].transit = 0 \/ ledger'[o].transit >= Total
  <2>1. ledger[o] \in AccountsType /\ ledger[o].transit \in Int
    BY <1>0 DEF TypeInv, TypeOK, SettlementTypeOK, AccountsType
  <2>2. ledger[o].transit = 0 \/ ledger[o].transit >= Total BY <1>0 DEF WholePrices
  <2>3. ASSUME NEW h \in Hooks, HookBook(h), hook[h].order = o,
               ledger'[o] = Received(ledger[o], payment[hook[h].pay].amount)
        PROVE  ledger'[o].transit >= Total
    <3>1. hook[h] # Idle /\ hook[h] \in HookType
      BY <2>3, <1>0 DEF HookBook, Idle, TypeInv, TypeOK, SettlementTypeOK
    <3>2. payment[hook[h].pay].amount = Total
      BY <3>1, <2>3, <1>0 DEF HookType, TypeInv, RowsExist, WholePrices
    <3>3. ledger'[o].transit = ledger[o].transit + Total
      BY <3>2, <2>1, <2>3, <1>0, ReceivedFacts
    <3> QED BY <3>3, <2>1, <2>2, <1>0
  <2>4. \A r, c : DistributedTo(ledger[o], r, c).transit = ledger[o].transit BY DEF DistributedTo
  <2> QED BY <1>0, <2>2, <2>3, <2>4, LedgerMoves
<1> QED BY <1>1, <1>2, <1>3

----------------------------------------------------------------------------
(* The way of a delivery through the outbox                                *)

(* Conditions under which an order is delivered once have been met before, *)
(* and a step that keeps them is no crash and no customs write on it.      *)
LEMMA DeliveredOnceStays ==
  ASSUME TypeInv, [Next]_vars, NEW o \in Orders, DeliveredOnce(o)'
  PROVE  /\ DeliveredOnce(o) /\ ~Crash
         /\ \A f \in Officers : CustomsCommit(f) => customs[f].order # o
<1>0. /\ declaration \in [Orders -> CustomsStatus \cup {"NONE"}] /\ crashes \in Nat
      /\ customs \in [Officers -> CustomsType \cup {NoCall}]
      /\ crashes' = 0 /\ declaration'[o] = "NONE"
  BY DEF TypeInv, TypeOK, CustomsTypeOK, DeliveredOnce
<1>1. ~Crash BY <1>0 DEF Crash
<1>2. crashes' = crashes
  BY <1>1 DEF Next, OrderSteps, MoneySteps, DisputeSteps, SweepSteps, CustomsSteps, vars
<1>3. ASSUME NEW f \in Officers, CustomsCommit(f) PROVE customs[f].order # o
  <2>1. customs[f] \in CustomsType BY <1>3, <1>0 DEF CustomsCommit, NoCall
  <2>2. customs[f].to \in CustomsStatus BY <2>1 DEF CustomsType
  <2>3. customs[f].to # "NONE" BY <2>2 DEF CustomsStatus
  <2> QED BY <2>3, <1>3, <1>0 DEF CustomsCommit
<1>4. declaration[o] = "NONE"
  <2>1. CASE declaration' = declaration BY <2>1, <1>0
  <2>2. ASSUME NEW q \in Orders, Declare(q) PROVE declaration[o] = "NONE"
    BY <2>2, <1>0 DEF Declare
  <2>3. ASSUME NEW f \in Officers, CustomsCommit(f) PROVE declaration[o] = "NONE"
    <3>1. customs[f].order # o BY <2>3, <1>3
    <3> QED BY <3>1, <2>3, <1>0 DEF CustomsCommit
  <2>4. \/ declaration' = declaration
        \/ \E q \in Orders : Declare(q)
        \/ \E f \in Officers : CustomsCommit(f)
    BY <1>1 DEF Next, OrderSteps, MoneySteps, DisputeSteps, SweepSteps, CustomsSteps, vars,
      CustomsNext, CustomsStart, CustomsUpdate, customsVars
  <2> QED BY <2>1, <2>2, <2>3, <2>4
<1> QED BY <1>0, <1>1, <1>2, <1>3, <1>4 DEF DeliveredOnce

(* What was delivered stays delivered.                                     *)
LEMMA DeliveredStays ==
  ASSUME OrderInv, [Next]_vars, NEW o \in Orders, DeliveredOnce(o)', Delivered(o)
  PROVE  Delivered(o)'
<1>0. TypeInv BY DEF OrderInv
<1>1. CASE order'[o].status = order[o].status BY <1>1 DEF Delivered
<1>2. CASE order[o].status = "DRAFT" BY <1>2 DEF Delivered, DeliveredStates
<1>3. ASSUME NEW w \in Callers,
             Allowed(OrderTable, order[o].status, call[w].to, call[w].roles),
             order'[o].status = call[w].to
      PROVE  Delivered(o)'
  BY <1>3 DEF Delivered, DeliveredStates, Allowed, OrderTable, Edge
<1> QED BY <1>0, <1>1, <1>2, <1>3, StatusMoves, DeliveredOnceStays

(* The outbox grows by an order that is being delivered, and loses the     *)
(* event that is published.                                                *)
LEMMA OutboxMoves ==
  ASSUME OrderInv, [Next]_vars, outbox' # outbox
  PROVE  \/ \E q \in Orders :
              outbox' = Append(outbox, q) /\ ~Delivered(q) /\ Delivered(q)'
         \/ \E d \in Dispatcher : Publish(d)
<1>0. TypeInv /\ order \in [Orders -> OrderType]
  BY DEF OrderInv, TypeInv, TypeOK, TradingTypeOK
<1>1. ASSUME NEW w \in Callers, CommitTransition(w)
      PROVE  \E q \in Orders : outbox' = Append(outbox, q) /\ ~Delivered(q) /\ Delivered(q)'
  <2> DEFINE q == call[w].order
  <2>1. InTransition(w) /\ FrameOK(w)
    BY <1>1 DEF CommitTransition, InTransition, OrderInv, CallsOK
  <2>2. q \in Orders
    BY <1>0, <1>1, CallFrame DEF CommitTransition, TypeInv, TypeOK, CallType
  <2>3. call[w].seen = order[q].status BY <2>1, <1>1 DEF CommitTransition, Fresh, FrameOK
  <2>4. /\ outbox' = Append(outbox, q)
        /\ Emits(OrderTable, call[w].seen, call[w].to, "OrderDelivered")
    BY <1>1 DEF CommitTransition, Published
  <2>5. call[w].seen \notin DeliveredStates /\ call[w].to = "DELIVERED"
    BY <2>4 DEF Emits, OrderTable, Edge, DeliveredStates
  <2>6. order'[q].status = "DELIVERED"
    BY <1>0, <1>1, <2>2, <2>5 DEF CommitTransition, Written
  <2> QED BY <2>2, <2>3, <2>4, <2>5, <2>6 DEF Delivered, DeliveredStates
<1> QED BY <1>0, <1>1, OutboxGrows

(* An event in a queue that grows at its end and is read from its front.   *)
LEMMA AppendedEvent ==
  ASSUME NEW S, NEW s \in Seq(S), NEW o, NEW q \in S
  PROVE  /\ In(o, Append(s, q)) <=> In(o, s) \/ q = o
         /\ Once(o, s) /\ (q = o => ~In(o, s)) => Once(o, Append(s, q))
<1>1. /\ DOMAIN s = 1..Len(s) /\ Len(s) \in Nat
      /\ DOMAIN Append(s, q) = 1..(Len(s) + 1)
      /\ \A i \in 1..Len(s) : Append(s, q)[i] = s[i]
      /\ Append(s, q)[Len(s) + 1] = q
  OBVIOUS
<1> DEFINE t == Append(s, q)
<1> HIDE DEF t
<1>2. /\ DOMAIN t = 1..(Len(s) + 1)
      /\ \A i \in 1..Len(s) : t[i] = s[i]
      /\ t[Len(s) + 1] = q
  BY <1>1 DEF t
<1>3. \A i \in 1..(Len(s) + 1) : i \in 1..Len(s) \/ i = Len(s) + 1 BY <1>1
<1>4. 1..Len(s) \subseteq 1..(Len(s) + 1) /\ Len(s) + 1 \in 1..(Len(s) + 1) BY <1>1
<1>5. In(o, t) <=> In(o, s) \/ q = o BY <1>1, <1>2, <1>3, <1>4 DEF In
<1>6. ASSUME Once(o, s), q = o => ~In(o, s) PROVE Once(o, t)
  BY <1>1, <1>2, <1>3, <1>6 DEF In, Once
<1> QED BY <1>5, <1>6 DEF t

LEMMA RemainingEvents ==
  ASSUME NEW S, NEW s \in Seq(S), s # << >>, NEW o
  PROVE  /\ In(o, Tail(s)) => In(o, s)
         /\ Once(o, s) => Once(o, Tail(s))
         /\ Once(o, s) /\ Head(s) = o => ~In(o, Tail(s))
<1>1. /\ DOMAIN s = 1..Len(s) /\ Len(s) \in Nat /\ Len(s) > 0 /\ Head(s) = s[1]
      /\ DOMAIN Tail(s) = 1..(Len(s) - 1)
      /\ \A i \in 1..(Len(s) - 1) : Tail(s)[i] = s[i + 1]
  OBVIOUS
<1>2. \A i \in 1..(Len(s) - 1) : i + 1 \in 1..Len(s) /\ i + 1 # 1 BY <1>1
<1>3. 1 \in 1..Len(s) BY <1>1
<1>4. \A i, j \in 1..(Len(s) - 1) : i + 1 = j + 1 => i = j BY <1>1
<1> DEFINE t == Tail(s)
<1>5. /\ DOMAIN t = 1..(Len(s) - 1) /\ \A i \in 1..(Len(s) - 1) : t[i] = s[i + 1] BY <1>1
<1> HIDE DEF t
<1>6. In(o, t) => In(o, s) BY <1>1, <1>2, <1>5 DEF In
<1>7. Once(o, s) => Once(o, t) BY <1>1, <1>2, <1>4, <1>5 DEF Once
<1>8. Once(o, s) /\ Head(s) = o => ~In(o, t) BY <1>1, <1>2, <1>3, <1>5 DEF In, Once
<1> QED BY <1>6, <1>7, <1>8 DEF t

----------------------------------------------------------------------------
(* What the dispatcher does with it                                        *)

(* The frame of the dispatcher only goes forward until it publishes.       *)
LEMMA ReachedStays ==
  ASSUME TypeInv, [Next]_vars, ~Crash, NEW d \in Dispatcher, ~Publish(d),
         NEW ats \in {Transferred, Settled}, release[d].at \in ats
  PROVE  release'[d].at \in ats /\ release'[d].order = release[d].order
<1>0. release \in [Dispatcher -> ReleaseType \cup {Idle}] BY DEF TypeInv, TypeOK, SettlementTypeOK
<1>1. release[d] \in ReleaseType BY <1>0 DEF Transferred, Settled, Idle
<1>a. \A e \in Dispatcher : e = d BY SettlementAssumption DEF SettlementAssumption
<1>2. ASSUME NEW at \in ats, To(d, at)
      PROVE  release'[d].at \in ats /\ release'[d].order = release[d].order
  <2>1. release'[d] = [release[d] EXCEPT !.at = at] BY <1>2, <1>0 DEF To
  <2> QED BY <2>1, <1>1 DEF ReleaseType
<1>3. CASE ReleaseBook(d)
  <2>1. To(d, "complete") BY <1>3 DEF ReleaseBook
  <2>2. "complete" \in ats BY DEF Transferred, Settled
  <2> QED BY <2>1, <2>2, <1>2
<1>4. CASE ReleaseComplete(d)
  <2>1. To(d, "publish") BY <1>4 DEF ReleaseComplete
  <2>2. "publish" \in ats BY DEF Transferred, Settled
  <2> QED BY <2>1, <2>2, <1>2
<1>5. CASE Dispatch(d) \/ ReleaseStatus(d) \/ ReleaseTransfer(d, InDispute)
  <2>1. release[d].at \in {"idle", "status", "dispute"}
    BY <1>5 DEF Dispatch, ReleaseStatus, ReleaseTransfer, Idle
  <2> QED BY <2>1 DEF Transferred, Settled
<1>6. CASE release' = release BY <1>6
<1>7. CASE MoneySteps
  <2>1. \/ release' = release
        \/ \E e \in Dispatcher :
             \/ Dispatch(e) \/ ReleaseStatus(e) \/ ReleaseTransfer(e, InDispute)
             \/ ReleaseBook(e) \/ ReleaseComplete(e) \/ Publish(e)
    BY <1>7 DEF MoneySteps, SettlementNext, CheckoutStart, CheckoutPrice, CheckoutReuse,
      CheckoutCreate, Charge, PaymentAges, HookStart, HookSettle, HookBook, HookAdvance, Onboard
  <2> QED BY <2>1, <1>a, <1>3, <1>4, <1>5, <1>6
<1>8. CASE UNCHANGED settlementVars \/ \E s \in Staff : RuleBook(s)
  BY <1>8, <1>6 DEF settlementVars, RuleBook
<1> QED BY <1>7, <1>8, MoneyWriters

(* A transfer of an order is made by its release, which goes on to book.   *)
LEMMA TransferMoves ==
  ASSUME TypeInv, [Next]_vars, NEW o \in Orders
  PROVE  /\ transfers[o] \in Nat
         /\ \/ transfers'[o] = transfers[o]
            \/ /\ transfers'[o] = transfers[o] + 1
               /\ \E d \in Dispatcher :
                    /\ release[d].at = "dispute" /\ release[d].order = o
                    /\ release'[d].at = "book" /\ release'[d].order = o
<1>0. /\ transfers \in [Orders -> Nat]
      /\ release \in [Dispatcher -> ReleaseType \cup {Idle}]
  BY DEF TypeInv, TypeOK, SettlementTypeOK
<1>1. ASSUME NEW d \in Dispatcher, ReleaseTransfer(d, InDispute), transfers'[o] # transfers[o]
      PROVE  /\ transfers'[o] = transfers[o] + 1
             /\ release[d].at = "dispute" /\ release[d].order = o
             /\ release'[d].at = "book" /\ release'[d].order = o
  <2>1. release[d].at = "dispute" /\ release[d] \in ReleaseType
    BY <1>1, <1>0 DEF ReleaseTransfer, Idle
  <2>2. /\ transfers' = [transfers EXCEPT ![release[d].order] = @ + 1]
        /\ To(d, "book")
    BY <1>1 DEF ReleaseTransfer
  <2>3. release'[d] = [release[d] EXCEPT !.at = "book"] BY <2>2, <1>0 DEF To
  <2>4. release[d].order = o BY <2>2, <1>0, <1>1
  <2> QED BY <2>1, <2>2, <2>3, <2>4, <1>0 DEF ReleaseType
<1>2. transfers' = transfers \/ \E d \in Dispatcher : ReleaseTransfer(d, InDispute)
  <2>1. CASE MoneySteps
    BY <2>1 DEF MoneySteps, SettlementNext, moneyVars, CheckoutStart, CheckoutPrice,
      CheckoutReuse, CheckoutCreate, Charge, PaymentAges, HookStart, HookSettle, HookBook,
      HookAdvance, Dispatch, ReleaseStatus, ReleaseBook, ReleaseComplete, Publish, Onboard
  <2>2. CASE UNCHANGED settlementVars \/ Crash \/ \E s \in Staff : RuleBook(s)
    BY <2>2 DEF settlementVars, Crash, moneyVars, RuleBook
  <2> QED BY <2>1, <2>2, MoneyWriters
<1> QED BY <1>0, <1>1, <1>2

(* An order that waits for a stage of its release has waited for it.       *)
LEMMA WaitingStayed ==
  ASSUME OrderInv, [Next]_vars, NEW o \in Orders, DeliveredOnce(o)', Once(o, outbox),
         NEW ats \in {Transferred, Settled}, Waiting(o, ats)'
  PROVE  Waiting(o, ats)
<1>0. TypeInv /\ outbox \in Seq(Orders) BY DEF OrderInv, TypeInv, TypeOK, TradingTypeOK
<1> SUFFICES ASSUME Delivered(o) PROVE In(o, outbox) /\ ~Reached(o, ats)
  BY DEF Waiting
<1>1. Delivered(o)' BY DeliveredStays
<1>2. In(o, outbox)' /\ ~Reached(o, ats)' BY <1>1 DEF Waiting
<1>3. ASSUME NEW d \in Dispatcher, Publish(d)
      PROVE  /\ outbox # << >> /\ outbox' = Tail(outbox) /\ release[d].order = Head(outbox)
  BY <1>3, <1>0 DEF Publish, TypeInv, HoldsHead, Idle
<1>4. In(o, outbox)
  <2>1. In(o, outbox') BY <1>2 DEF In
  <2>2. ASSUME NEW q \in Orders, outbox' = Append(outbox, q), ~Delivered(q)
        PROVE  In(o, outbox)
    BY <2>1, <2>2, <1>0, AppendedEvent
  <2>3. CASE \E d \in Dispatcher : Publish(d) BY <2>1, <2>3, <1>0, <1>3, RemainingEvents
  <2> QED BY <2>1, <2>2, <2>3, OutboxMoves
<1>5. ASSUME NEW d \in Dispatcher, release[d].at \in ats, release[d].order = o PROVE FALSE
  <2>1. CASE Publish(d)
    <3>1. outbox # << >> /\ outbox' = Tail(outbox) /\ Head(outbox) = o BY <2>1, <1>3, <1>5
    <3>2. ~In(o, outbox') BY <3>1, <1>0, RemainingEvents
    <3> QED BY <3>2, <1>2 DEF In
  <2>2. CASE ~Publish(d)
    <3>1. ~Crash BY <1>0, DeliveredOnceStays
    <3>2. release'[d].at \in ats /\ release'[d].order = o BY <2>2, <3>1, <1>0, <1>5, ReachedStays
    <3> QED BY <3>2, <1>2 DEF Reached
  <2> QED BY <2>1, <2>2
<1> QED BY <1>4, <1>5 DEF Reached

LEMMA PayoutsCountedKept == ASSUME BookingInv, [Next]_vars PROVE PayoutsCounted'
<1>0. /\ OrderInv /\ TypeInv /\ PayoutsCounted /\ PositiveAmounts
      /\ outbox \in Seq(Orders) /\ Total \in Nat \ {0}
  <2>1. Total \in Nat \ {0} BY SettlementAssumption DEF SettlementAssumption
  <2> QED BY <2>1 DEF BookingInv, SaleInv, MoneyInv, OrderInv, TypeInv, TypeOK, TradingTypeOK
<1> SUFFICES ASSUME NEW o \in Orders, DeliveredOnce(o)'
             PROVE  /\ In(o, outbox') => Delivered(o)'
                    /\ Once(o, outbox')
                    /\ transfers'[o] <= 1 /\ (Waiting(o, Transferred)' => transfers'[o] = 0)
                    /\ ~HasRow(o)' =>
                         PaidOut(o)' <= Total /\ (Waiting(o, Settled)' => PaidOut(o)' = 0)
  BY DEF PayoutsCounted, In, Once
<1>1. DeliveredOnce(o) BY <1>0, DeliveredOnceStays
<1>2. /\ In(o, outbox) => Delivered(o)
      /\ Once(o, outbox)
      /\ transfers[o] <= 1 /\ (Waiting(o, Transferred) => transfers[o] = 0)
      /\ ~HasRow(o) => PaidOut(o) <= Total /\ (Waiting(o, Settled) => PaidOut(o) = 0)
  BY <1>0, <1>1 DEF PayoutsCounted
<1>3. /\ In(o, outbox') => Delivered(o)'
      /\ Once(o, outbox')
  <2>1. ASSUME NEW q \in Orders, outbox' = Append(outbox, q), ~Delivered(q), Delivered(q)'
        PROVE  (In(o, outbox') => Delivered(o)') /\ Once(o, outbox')
    <3>1. q = o => ~In(o, outbox) /\ Delivered(o)' BY <2>1, <1>2
    <3>2. In(o, outbox) => Delivered(o)' BY <1>0, <1>2, DeliveredStays
    <3> QED BY <3>1, <3>2, <2>1, <1>0, <1>2, AppendedEvent
  <2>2. ASSUME NEW d \in Dispatcher, Publish(d)
        PROVE  (In(o, outbox') => Delivered(o)') /\ Once(o, outbox')
    <3>1. outbox # << >> /\ outbox' = Tail(outbox)
      BY <2>2, <1>0 DEF Publish, TypeInv, HoldsHead, Idle
    <3>2. (In(o, outbox') => In(o, outbox)) /\ Once(o, outbox')
      BY <3>1, <1>0, <1>2, RemainingEvents
    <3> QED BY <3>2, <1>0, <1>2, DeliveredStays
  <2>3. CASE outbox' = outbox BY <2>3, <1>0, <1>2, DeliveredStays
  <2> QED BY <2>1, <2>2, <2>3, <1>0, OutboxMoves
(* The release at work on the order waits for what comes after it.         *)
<1>4. ASSUME NEW d \in Dispatcher, release[d].order = o, NEW ats,
             release[d].at # "idle", release[d].at \notin ats
      PROVE  Waiting(o, ats) /\ Delivered(o)'
  <2>1. outbox # << >> /\ Head(outbox) = o BY <1>0, <1>4 DEF TypeInv, HoldsHead, Idle
  <2>2. 1 \in DOMAIN outbox /\ outbox[1] = o BY <2>1, <1>0
  <2>3. In(o, outbox) BY <2>2 DEF In
  <2>4. ~Reached(o, ats) BY <1>4, SettlementAssumption DEF Reached, SettlementAssumption
  <2> QED BY <2>3, <2>4, <1>0, <1>2, DeliveredStays DEF Waiting
<1>5. transfers'[o] <= 1 /\ (Waiting(o, Transferred)' => transfers'[o] = 0)
  <2>1. CASE transfers'[o] = transfers[o]
    <3>1. Waiting(o, Transferred)' => Waiting(o, Transferred) BY <1>0, <1>2, WaitingStayed
    <3> QED BY <2>1, <3>1, <1>2
  <2>2. ASSUME transfers'[o] = transfers[o] + 1, NEW d \in Dispatcher,
               release[d].at = "dispute", release[d].order = o,
               release'[d].at = "book", release'[d].order = o
        PROVE  transfers'[o] = 1 /\ ~Waiting(o, Transferred)'
    <3>1. Waiting(o, Transferred) /\ Delivered(o)' BY <2>2, <1>4 DEF Transferred
    <3>2. Reached(o, Transferred)' BY <2>2 DEF Reached, Transferred
    <3> QED BY <3>1, <3>2, <2>2, <1>2 DEF Waiting
  <2> QED BY <2>1, <2>2, <1>0, TransferMoves
<1>6. ASSUME ~HasRow(o)'
      PROVE  PaidOut(o)' <= Total /\ (Waiting(o, Settled)' => PaidOut(o)' = 0)
  <2>0. ~HasRow(o) BY <1>0, <1>6, RowStays
  <2>1. CASE PaidOut(o)' = PaidOut(o)
    <3>1. Waiting(o, Settled)' => Waiting(o, Settled) BY <1>0, <1>2, WaitingStayed
    <3> QED BY <2>0, <2>1, <3>1, <1>2
  <2>2. ASSUME NEW d \in Dispatcher, ReleaseBook(d), release[d].order = o
        PROVE  PaidOut(o)' = Total /\ ~Waiting(o, Settled)'
    <3>1. release[d].at = "book" BY <2>2 DEF ReleaseBook
    <3>2. Waiting(o, Settled) /\ Delivered(o)' BY <2>2, <3>1, <1>4 DEF Settled
    <3>3. PaidOut(o)' = PaidOut(o) + Total BY <2>2, <1>0, LedgerFacts
    <3>4. release[d] \in ReleaseType /\ release \in [Dispatcher -> ReleaseType \cup {Idle}]
      BY <3>1, <1>0 DEF TypeInv, TypeOK, SettlementTypeOK, Idle
    <3>5. release'[d] = [release[d] EXCEPT !.at = "complete"]
      BY <2>2, <3>4 DEF ReleaseBook, To
    <3>6. Reached(o, Settled)'
      BY <3>4, <3>5, <2>2 DEF Reached, Settled, ReleaseType
    <3> QED BY <3>2, <3>3, <3>6, <2>0, <1>0, <1>2 DEF Waiting
  <2>3. ASSUME NEW s \in Staff, RuleBook(s), ruling[s].order = o PROVE FALSE
    <3>1. ruling[s] # Idle /\ ruling[s] \in RulingType
      BY <2>3, <1>0 DEF RuleBook, Idle, TypeInv, TypeOK, DisputesTypeOK
    <3> QED BY <3>1, <2>0, <2>3, <1>0 DEF TypeInv, RowsExist, RulingType, HasRow
  <2>4. ASSUME NEW h \in Hooks, ledger'[o] = Received(ledger[o], payment[hook[h].pay].amount)
        PROVE  PaidOut(o)' = PaidOut(o)
    BY <2>4 DEF Received, PaidOut
  <2>5. CASE ledger'[o] = ledger[o] BY <2>1, <2>5 DEF PaidOut
  <2> QED BY <2>1, <2>2, <2>3, <2>4, <2>5, <1>0, LedgerMoves
<1> QED BY <1>3, <1>5, <1>6

LEMMA BookingInvNext == ASSUME BookingInv, [Next]_vars PROVE BookingInv'
<1>1. SaleInv' BY SaleInvNext DEF BookingInv
<1> QED BY <1>1, IntentsKept, WholeKept, PayoutsCountedKept, AnnouncementsKept, RefundsKept,
           BookedOnceKept, LedgerKept
    DEF BookingInv

(* The inductive invariant of the money: what every handler, every row and *)
(* every event has yet to do to it.                                        *)
THEOREM BookingInvariance == Spec => []BookingInv
<1>1. Init => BookingInv BY BookingInvInit
<1>2. BookingInv /\ [Next]_vars => BookingInv' BY BookingInvNext
<1> QED BY <1>1, <1>2, PTL DEF Spec

(* The escrow of an order that is paid in one piece, delivered once and    *)
(* not disputed covers what leaves it.                                     *)
LEMMA EscrowIsEnough == ASSUME BookingInv PROVE EscrowCovers
<1> SUFFICES ASSUME NEW o \in Orders, DeliveredOnce(o), ~HasRow(o), Terms[o] = << >>
             PROVE  ledger[o].escrow >= 0
  BY DEF EscrowCovers
<1>0. Total \in Nat \ {0} BY SettlementAssumption DEF SettlementAssumption
<1>1. /\ ledger[o].transit \in Int /\ ledger[o].escrow \in Int /\ PaidOut(o) \in Int
      /\ ledger[o].transit = ledger[o].escrow + PaidOut(o)
      /\ ledger[o].transit >= 0
  <2>1. ledger[o] \in AccountsType
    BY DEF BookingInv, SaleInv, MoneyInv, OrderInv, TypeInv, TypeOK, SettlementTypeOK
  <2> QED BY <2>1
    DEF BookingInv, SaleInv, MoneyInv, Conservation, NeverNegative, AccountsType, PaidOut
<1>2. PaidOut(o) <= Total /\ (~Delivered(o) => PaidOut(o) = 0)
  BY DEF BookingInv, PayoutsCounted, Waiting
<1>3. Delivered(o) => ledger[o].transit >= Total
  <2>1. Delivered(o) => ledger[o].transit > 0
    BY DEF BookingInv, SaleInv, MoneyInv, EscrowBeforeProgress, Delivered, DeliveredStates,
           UnpaidStates
  <2> QED BY <2>1, <1>1 DEF BookingInv, WholePrices
<1> QED BY <1>0, <1>1, <1>2, <1>3

(* Money moves once, however checkouts, announcements of Stripe, releases, *)
(* rulings and crashes interleave: intents are handed out again, the       *)
(* ledger has what Stripe collected, the supplier is sent one transfer and *)
(* the escrow covers what leaves it.                                       *)
THEOREM MoneyMovesOnce == Spec => []MoneyOnce
<1>1. ASSUME BookingInv PROVE IntentsReused
  <2> SUFFICES ASSUME NEW o \in Orders PROVE Cardinality(Pending(o)) <= Cardinality(Buyers)
    BY DEF IntentsReused
  <2>1. IsFiniteSet(Buyers) /\ IsFiniteSet(PayId)
    BY FS_Interval, SettlementAssumption DEF PayId, SettlementAssumption
  <2>2. Creating(o) \subseteq Buyers /\ Pending(o) \subseteq PayId BY DEF Creating, Pending
  <2>3. /\ Cardinality(Pending(o)) \in Nat /\ Cardinality(Creating(o)) \in Nat
        /\ Cardinality(Buyers) \in Nat
    BY <2>1, <2>2, FS_Subset, FS_CardinalityType
  <2> QED BY <2>3, <1>1 DEF BookingInv, IntentsCounted
<1>2. ASSUME BookingInv PROVE TransferOnce
  BY <1>2 DEF BookingInv, PayoutsCounted, TransferOnce
<1>3. BookingInv => MoneyOnce
  BY <1>1, <1>2, EscrowIsEnough DEF MoneyOnce, BookingInv
<1> QED BY <1>3, BookingInvariance, PTL
=============================================================================
