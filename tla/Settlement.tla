----------------------------- MODULE Settlement -----------------------------
(***************************************************************************)
(* Money: checkout, the Stripe webhook, the shadow ledger and the release  *)
(* of the escrow by the consumer of OrderDelivered (settlement.service.ts, *)
(* outbox.dispatcher.ts).  Stripe itself is external: a buyer who has an   *)
(* intent may pay it at any time, and a payment is announced one or more   *)
(* times.                                                                  *)
(***************************************************************************)
EXTENDS Trading, Integers, FiniteSetsExt

CONSTANTS
  Total,          \* grandTotal of an order, in minor units
  RatePct,        \* commissionRate, in percent
  Buyers,         \* checkout requests in progress at once
  Hooks,          \* webhook requests in progress at once (callers)
  Dispatcher,     \* the outbox loop of the API process (a caller), or none
  MaxPayments,    \* bound: payment intents created
  MaxDeliveries   \* bound: times that Stripe announces one payment

ASSUME SettlementAssumption ==
  /\ Total \in Nat \ {0} /\ RatePct \in 0..100
  /\ MaxPayments \in Nat /\ MaxDeliveries \in Nat /\ IsFiniteSet(Buyers)
  /\ Hooks \subseteq Callers /\ Dispatcher \subseteq Callers
  /\ \A d, e \in Dispatcher : d = e

PayId == 1..MaxPayments

VARIABLES
  payment,     \* payments, in order of creation
  charged,     \* external: the intents that Stripe has collected
  deliveries,  \* external: announcements of each intent
  ledger,      \* per order, the balance of each account
  transfers,   \* external: Stripe transfers made to the supplier
  onboarded,   \* orders whose supplier has a Connect account (or fake mode)
  checkout, hook, release   \* the handlers in progress

moneyVars == <<payment, charged, deliveries, ledger, transfers, onboarded>>
settlementVars == <<payment, charged, deliveries, ledger, transfers, onboarded,
                    checkout, hook, release>>

(* BUYER_FUNDS_IN_TRANSIT (debits minus credits) and, credits minus        *)
(* debits, ESCROW_HELD, SUPPLIER_PAYABLE, PLATFORM_COMMISSION and          *)
(* REFUND_PAYABLE.                                                         *)
AccountsType == [transit : Int, escrow : Int, supplier : Int, commission : Int, refund : Int]

NoPayment == [status |-> "NONE"]
PaymentType ==
  [status : {"PENDING", "SUCCEEDED", "REFUNDED", "PARTIAL_REFUND"},
   order : Orders, amount : Nat, recent : BOOLEAN]

Idle == [at |-> "idle"]
CheckoutType ==
  [at : {"price", "reuse", "create"}, order : Orders, seen : OrderStatus, amount : Nat]
HookType == [at : {"book", "settle", "advance"}, pay : PayId, order : Orders,
             seen : OrderStatus, settles : SUBSET Nat]
ReleaseType == [at : {"status", "dispute", "book", "complete", "publish"}, order : Orders]

SettlementTypeOK ==
  /\ payment \in [PayId -> PaymentType \cup {NoPayment}]
  /\ charged \subseteq PayId
  /\ deliveries \in [PayId -> Nat]
  /\ ledger \in [Orders -> AccountsType]
  /\ transfers \in [Orders -> Nat]
  /\ onboarded \subseteq Orders
  /\ checkout \in [Buyers -> CheckoutType \cup {Idle}]
  /\ hook \in [Hooks -> HookType \cup {Idle}]
  /\ release \in [Dispatcher -> ReleaseType \cup {Idle}]

SettlementInit ==
  /\ payment = [p \in PayId |-> NoPayment]
  /\ charged = {}
  /\ deliveries = [p \in PayId |-> 0]
  /\ ledger = [o \in Orders |-> [transit |-> 0, escrow |-> 0, supplier |-> 0,
                                 commission |-> 0, refund |-> 0]]
  /\ transfers = [o \in Orders |-> 0]
  /\ onboarded \in {{}, Orders}
  /\ checkout = [b \in Buyers |-> Idle]
  /\ hook = [h \in Hooks |-> Idle]
  /\ release = [d \in Dispatcher |-> Idle]

----------------------------------------------------------------------------
(* Checkout                                                                *)

PayableStates == {"PLACED", "PAID_ESCROW", "CONFIRMED", "PREPARING"}

Due(o) == Instalments(o) \ paid[o]

Pending(o) == {p \in PayId : payment[p].status = "PENDING" /\ payment[p].order = o}

(* What the buyer is asked for: the first unpaid instalment, or without     *)
(* any the whole price.                                                    *)
AmountsDue(o) ==
  IF Due(o) = {} THEN {Total}
  ELSE {Terms[o][k].amount : k \in {k \in Due(o) : \A j \in Due(o) : k <= j}}

(* checkout reads the order, ...                                           *)
CheckoutStart(b, o) ==
  /\ checkout[b] = Idle
  /\ \E p \in PayId : payment[p] = NoPayment   \* bound: MaxPayments
  /\ order[o].status \in PayableStates
  /\ checkout' = [checkout EXCEPT ![b] =
       [at |-> "price", order |-> o, seen |-> order[o].status, amount |-> 0]]
  /\ UNCHANGED <<tradingVars, moneyVars, hook, release>>

(* ... then its instalments.  An instalment is payable until the goods     *)
(* ship, the whole price only while PLACED.                                *)
CheckoutPrice(b) ==
  LET f == checkout[b]
  IN /\ f.at = "price"
     /\ IF Due(f.order) = {} /\ f.seen # "PLACED"
        THEN checkout' = [checkout EXCEPT ![b] = Idle]
        ELSE \E amount \in AmountsDue(f.order) :
               checkout' = [checkout EXCEPT ![b] = [f EXCEPT !.at = "reuse", !.amount = amount]]
     /\ UNCHANGED <<tradingVars, moneyVars, hook, release>>

(* An intent still PENDING is handed out again, whatever its amount.       *)
CheckoutReuse(b) ==
  /\ checkout[b].at = "reuse"
  /\ checkout' = [checkout EXCEPT ![b] =
       IF Pending(@.order) # {} THEN Idle ELSE [@ EXCEPT !.at = "create"]]
  /\ UNCHANGED <<tradingVars, moneyVars, hook, release>>

(* The intent at Stripe, then its row.                                     *)
CheckoutCreate(b) ==
  /\ checkout[b].at = "create"
  /\ \E p \in PayId :
       /\ payment[p] = NoPayment
       /\ \A q \in 1..(p - 1) : payment[q] # NoPayment
       /\ payment' = [payment EXCEPT ![p] =
            [status |-> "PENDING", order |-> checkout[b].order,
             amount |-> checkout[b].amount, recent |-> TRUE]]
  /\ checkout' = [checkout EXCEPT ![b] = Idle]
  /\ UNCHANGED <<tradingVars, charged, deliveries, ledger, transfers, onboarded, hook, release>>

(* External: the buyer pays the intent.                                    *)
Charge(p) ==
  /\ payment[p].status = "PENDING"
  /\ p \notin charged
  /\ charged' = charged \cup {p}
  /\ UNCHANGED <<tradingVars, payment, deliveries, ledger, transfers, onboarded,
                 checkout, hook, release>>

(* The row becomes older than the grace of 24 h; it is younger than the    *)
(* order, so the hold (24 h as well) has expired before.                   *)
PaymentAges(p) ==
  /\ payment[p].status = "PENDING" /\ payment[p].recent
  /\ reservation[payment[p].order].expired
  /\ payment' = [payment EXCEPT ![p].recent = FALSE]
  /\ UNCHANGED <<tradingVars, charged, deliveries, ledger, transfers, onboarded,
                 checkout, hook, release>>

----------------------------------------------------------------------------
(* The webhook                                                             *)

(* Mutants of HookFrame: the order is advanced and nothing is booked; the  *)
(* status of the payment is not looked at.                                 *)
HookFrameAdvancing(p) ==
  [at |-> "advance", pay |-> p, order |-> payment[p].order,
   seen |-> order[payment[p].order].status, settles |-> {}]
HookFrameUnchecked(p) ==
  [at |-> "book", pay |-> p, order |-> payment[p].order,
   seen |-> order[payment[p].order].status, settles |-> {}]

(* onPaymentSucceeded reads the payment, stops if it is SUCCEEDED, and     *)
(* reads the order.                                                        *)
HookFrame(p) ==
  IF payment[p].status = "SUCCEEDED" THEN Idle
  ELSE [at |-> "book", pay |-> p, order |-> payment[p].order,
        seen |-> order[payment[p].order].status, settles |-> {}]

HookStart(h, p) ==
  /\ hook[h] = Idle /\ call[h] = NoCall
  /\ p \in charged /\ deliveries[p] < MaxDeliveries
  /\ deliveries' = [deliveries EXCEPT ![p] = @ + 1]
  /\ hook' = [hook EXCEPT ![h] = HookFrame(p)]
  /\ UNCHANGED <<tradingVars, payment, charged, ledger, transfers, onboarded, checkout, release>>

Sum(o, ks) == MapThenSumSet(LAMBDA k : Terms[o][k].amount, ks)

(* settleByPayment: the earliest unpaid instalments that the amount covers *)
(* completely.                                                             *)
Covered(o, amount) ==
  {k \in Due(o) : Sum(o, {j \in Due(o) : j <= k}) <= amount}

(* The transaction starts with an update of the payment row, which two     *)
(* announcements of one payment take in turn; then it reads the unpaid     *)
(* instalments without locking them.                                       *)
HookSettle(h) ==
  LET f == hook[h]
  IN /\ f.at = "book"
     /\ ~\E g \in Hooks : hook[g].at = "settle" /\ hook[g].pay = f.pay
     /\ hook' = [hook EXCEPT ![h].at = "settle",
                             ![h].settles = Covered(f.order, payment[f.pay].amount)]
     /\ UNCHANGED <<tradingVars, moneyVars, checkout, release>>

(* The journal of a payment: from the buyer into escrow.                   *)
Received(l, amount) ==
  [transit |-> l.transit + amount, escrow |-> l.escrow + amount,
   supplier |-> l.supplier, commission |-> l.commission, refund |-> l.refund]

(* ... and commits; only an order that was seen PLACED is advanced.        *)
HookBook(h) ==
  LET f == hook[h]
      amount == payment[f.pay].amount
  IN /\ f.at = "settle"
     /\ payment' = [payment EXCEPT ![f.pay].status = "SUCCEEDED"]
     /\ ledger' = [ledger EXCEPT ![f.order] = Received(@, amount)]
     /\ paid' = [paid EXCEPT ![f.order] = @ \cup f.settles]
     /\ hook' = [hook EXCEPT ![h] =
          IF f.seen = "PLACED" THEN [@ EXCEPT !.at = "advance"] ELSE Idle]
     /\ UNCHANGED <<order, reservation, paperwork, outbox, call>>
     /\ UNCHANGED <<charged, deliveries, transfers, onboarded, checkout, release>>

(* Mutant of HookAdvance: the transition is asked for as the buyer.        *)
HookAdvanceAsBuyer(h) ==
  /\ hook[h].at = "advance"
  /\ Begin(h, hook[h].order, "PAID_ESCROW", {"BUYER"}, "none")
  /\ hook' = [hook EXCEPT ![h] = Idle]
  /\ UNCHANGED <<order, reservation, paid, paperwork, outbox>>
  /\ UNCHANGED <<moneyVars, checkout, release>>

(* After the commit, a transition of its own moves the order on.           *)
HookAdvance(h) ==
  /\ hook[h].at = "advance"
  /\ Begin(h, hook[h].order, "PAID_ESCROW", {"SYSTEM"}, "none")
  /\ hook' = [hook EXCEPT ![h] = Idle]
  /\ UNCHANGED <<order, reservation, paid, paperwork, outbox>>
  /\ UNCHANGED <<moneyVars, checkout, release>>

----------------------------------------------------------------------------
(* Release of the escrow                                                   *)

(* Commission on an amount, rounded half up to the minor unit.             *)
CommissionOn(amount) == (amount * RatePct + 50) \div 100

(* The journal that takes the price out of escrow: a refund (none on a     *)
(* release), the commission on the rest and the share of the supplier.     *)
DistributedTo(l, refund, commission) ==
  [transit |-> l.transit, escrow |-> l.escrow - Total,
   supplier |-> l.supplier + (Total - refund - commission),
   commission |-> l.commission + commission, refund |-> l.refund + refund]

(* The dispatcher emits the oldest OrderDelivered event.                   *)
Dispatch(d) ==
  /\ release[d] = Idle /\ outbox # << >>
  /\ release' = [release EXCEPT ![d] = [at |-> "status", order |-> Head(outbox)]]
  /\ UNCHANGED <<tradingVars, moneyVars, checkout, hook>>

To(d, at) == release' = [release EXCEPT ![d].at = at]

(* Mutant of ReleaseStatus: the order is completed before the payout.      *)
ReleaseStatusEager(d) ==
  /\ release[d].at = "status"
  /\ To(d, IF order[release[d].order].status = "DELIVERED" THEN "complete" ELSE "publish")
  /\ UNCHANGED <<tradingVars, moneyVars, checkout, hook>>

(* onOrderDelivered catches every refusal, so that the event counts as     *)
(* consumed.                                                               *)
ReleaseStatus(d) ==
  /\ release[d].at = "status"
  /\ To(d, IF order[release[d].order].status = "DELIVERED" THEN "dispute" ELSE "publish")
  /\ UNCHANGED <<tradingVars, moneyVars, checkout, hook>>

(* No dispute in progress and a payout account: the transfer is made at    *)
(* Stripe before anything is written.  inDispute is what the read of the   *)
(* disputes returns.                                                       *)
ReleaseTransfer(d, inDispute) ==
  LET o == release[d].order
      ok == o \in onboarded /\ o \notin inDispute
  IN /\ release[d].at = "dispute"
     /\ To(d, IF ok THEN "book" ELSE "publish")
     /\ transfers' = IF ok THEN [transfers EXCEPT ![o] = @ + 1] ELSE transfers
     /\ UNCHANGED <<tradingVars, payment, charged, deliveries, ledger, onboarded, checkout, hook>>

ReleaseBook(d) ==
  /\ release[d].at = "book"
  /\ ledger' = [ledger EXCEPT ![release[d].order] =
       DistributedTo(@, 0, CommissionOn(Total))]
  /\ To(d, "complete")
  /\ UNCHANGED <<tradingVars, payment, charged, deliveries, transfers, onboarded, checkout, hook>>

ReleaseComplete(d) ==
  /\ release[d].at = "complete"
  /\ Begin(d, release[d].order, "COMPLETED", {"SYSTEM"}, "none")
  /\ To(d, "publish")
  /\ UNCHANGED <<order, reservation, paid, paperwork, outbox>>
  /\ UNCHANGED <<moneyVars, checkout, hook>>

(* publishedAt is set once the listener has returned.                      *)
Publish(d) ==
  /\ release[d].at = "publish" /\ call[d] = NoCall
  /\ outbox' = Tail(outbox)
  /\ release' = [release EXCEPT ![d] = Idle]
  /\ UNCHANGED <<order, reservation, paid, paperwork, call>>
  /\ UNCHANGED <<moneyVars, checkout, hook>>

(* connectOnboarding: the supplier gets an account.                        *)
Onboard(o) ==
  /\ o \notin onboarded
  /\ onboarded' = onboarded \cup {o}
  /\ UNCHANGED <<tradingVars, payment, charged, deliveries, ledger, transfers,
                 checkout, hook, release>>

SettlementNext(inDispute) ==
  \/ \E b \in Buyers :
       \/ \E o \in Orders : CheckoutStart(b, o)
       \/ CheckoutPrice(b) \/ CheckoutReuse(b) \/ CheckoutCreate(b)
  \/ \E p \in PayId : Charge(p) \/ PaymentAges(p) \/ \E h \in Hooks : HookStart(h, p)
  \/ \E h \in Hooks : HookSettle(h) \/ HookBook(h) \/ HookAdvance(h)
  \/ \E d \in Dispatcher :
       \/ Dispatch(d) \/ ReleaseStatus(d) \/ ReleaseTransfer(d, inDispute)
       \/ ReleaseBook(d) \/ ReleaseComplete(d) \/ Publish(d)
  \/ \E o \in Orders : Onboard(o)
=============================================================================
