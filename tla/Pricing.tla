------------------------------ MODULE Pricing ------------------------------
(***************************************************************************)
(* What an order costs and in which parts it is paid: the price tiers of a *)
(* SKU, the commission rules and the payment terms, then checkout and the  *)
(* instalments a payment settles.  placeOrders computes with Decimals; the *)
(* columns keep cents.  Here prices are in cents, quantities in hundredths *)
(* of a unit, as their column, so a total is in hundredths of a cent until *)
(* it is stored, and so is an amount that is asked for; shares and rates   *)
(* are in hundredths of a percent.                                         *)
(***************************************************************************)
EXTENDS Integers, Sequences, FiniteSets, FiniteSetsExt, Functions

CONSTANTS
  Bills,       \* orders that are priced
  Quantities,  \* quantities of their line
  TierLists,   \* the tiers a SKU may have: sets of [from, to, price]
  TermLists,   \* payment terms that are asked for: sequences of [pct, amount]
  Rules        \* commission rules: [category, rate, priority]

None == -1                    \* a field that is not given

TierType == [from : Nat, to : Nat \cup {None}, price : Nat \ {0}]
TermType == [pct : Int, amount : (Nat \ {0}) \cup {None}]
RuleType == [category : {"ours", "other", "any"}, rate : 0..5000, priority : Nat]

ASSUME PricingAssumption ==
  /\ Quantities \subseteq Nat \ {0} /\ TierLists \subseteq SUBSET TierType
  /\ TermLists \subseteq Seq(TermType) /\ Rules \subseteq RuleType

VARIABLES
  rules,   \* the rules in force
  bill     \* per order, its amounts and what was paid

pricingVars == <<rules, bill>>

Unpriced == [at |-> "unpriced"]
NoIntent == [at |-> "none"]

PartType == [amount : Int, paid : {"no", "online", "offline"}]
BillType ==
  [at : {"placed"}, due : Nat, commission : Nat, terms : Seq(TermType), parts : Seq(PartType),
   intent : {NoIntent} \cup [at : {"pending"}, amount : Int], collected : Int]

PricingTypeOK ==
  /\ rules \subseteq Rules
  /\ bill \in [Bills -> {Unpriced} \cup BillType]

PricingInit == rules = {} /\ bill = [b \in Bills |-> Unpriced]

(* Halves are rounded away from zero, by Decimal and by the database.      *)
Nearest(n, d) == IF n >= 0 THEN (2 * n + d) \div (2 * d) ELSE -((d - 2 * n) \div (2 * d))

(* pickPriceTier: the first tier of the interval [qtyMin, qtyMax); the     *)
(* query of the tiers has no order.                                        *)
Picks(tiers, qty) ==
  {t \in tiers : qty >= t.from * 100 /\ (t.to = None \/ qty < t.to * 100)}

(* resolveCommissionRate: a rule of the category before one for all, the   *)
(* highest priority first, ties in no order; 8 % without any.              *)
Rates(category) ==
  LET first(S) == {r.rate : r \in {r \in S : \A q \in S : q.priority <= r.priority}}
      own == {r \in rules : r.category = category}
      general == {r \in rules : r.category = "any"}
  IN IF own # {} THEN first(own) ELSE IF general # {} THEN first(general) ELSE {800}

Percentages(terms) == SumFunction([i \in DOMAIN terms |-> terms[i].pct])

(* validate and assertTermsSum: only terms that all have a percentage are  *)
(* added up; whether a sum that is off by 0.01 passes is up to the         *)
(* rounding of floating point.                                             *)
Validated(terms) ==
  terms # << >> /\ (\A i \in DOMAIN terms : terms[i].pct # None)
    => Percentages(terms) \in 9999..10001

Share(total, term) == IF term.pct = None THEN 0 ELSE Nearest(total * term.pct, 10000 * 100)

(* A share is rounded to cents, an amount is any positive number.          *)
AmountOf(total, term) ==
  IF term.amount # None THEN term.amount ELSE 100 * Share(total, term)

(* Mutant of Parts: the last instalment is a share like the others.        *)
PartsByShare(total, terms) ==
  [i \in DOMAIN terms |-> [amount |-> Nearest(AmountOf(total, terms[i]), 100), paid |-> "no"]]

(* createForOrder: the last instalment is what the others have left of the *)
(* total, none of which has been rounded; the column rounds each of them.  *)
Parts(total, terms) ==
  LET amounts == [i \in DOMAIN terms |-> AmountOf(total, terms[i])]
      allocated == SumFunctionOnSet(amounts, 1..(Len(terms) - 1))
  IN [i \in DOMAIN terms |->
        [amount |-> Nearest(IF i = Len(terms) THEN total - allocated ELSE amounts[i], 100),
         paid |-> "no"]]

(* What placeOrders writes of the order of one supplier, ...               *)
Placed(total, rate, terms) ==
  [at |-> "placed", due |-> Nearest(total, 100), commission |-> Nearest(total * rate, 10000 * 100),
   terms |-> terms, parts |-> Parts(total, terms), intent |-> NoIntent, collected |-> 0]

(* ... which has one line here.                                            *)
PlaceBill(b) ==
  /\ bill[b] = Unpriced
  /\ \E qty \in Quantities, tiers \in TierLists, terms \in {t \in TermLists : Validated(t)} :
       \E tier \in Picks(tiers, qty), rate \in Rates("ours") :
         bill' = [bill EXCEPT ![b] = Placed(tier.price * qty, rate, terms)]
  /\ UNCHANGED rules

(* create and remove of the commission rules.                              *)
CreateRule(r) == r \notin rules /\ rules' = rules \cup {r} /\ UNCHANGED bill
RemoveRule(r) == r \in rules /\ rules' = rules \ {r} /\ UNCHANGED bill

----------------------------------------------------------------------------
(* Payments                                                                *)

PendingParts(b) == {k \in DOMAIN bill[b].parts : bill[b].parts[k].paid = "no"}

PayAmount(b) ==
  IF PendingParts(b) # {} THEN bill[b].parts[Min(PendingParts(b))].amount ELSE bill[b].due

(* checkout: the earliest instalment that is pending, or the whole price   *)
(* of an order that is unpaid; Stripe takes no amount that is not          *)
(* positive, and an intent that waits is reused.                           *)
Checkout(b) ==
  /\ bill[b] # Unpriced /\ bill[b].intent = NoIntent
  /\ PendingParts(b) = {} => bill[b].collected = 0
  /\ PayAmount(b) > 0
  /\ bill' = [bill EXCEPT ![b].intent = [at |-> "pending", amount |-> PayAmount(b)]]
  /\ UNCHANGED rules

(* What instalments amount to.                                            *)
SumOf(b, S) == SumFunctionOnSet([k \in DOMAIN bill[b].parts |-> bill[b].parts[k].amount], S)

(* settleByPayment: in their order, the pending instalments that what is   *)
(* left of the amount covers; it stops at the first one that it does not.  *)
Covered(b, amount) ==
  LET before(k) == SumOf(b, {i \in PendingParts(b) : i < k})
  IN {k \in PendingParts(b) :
        \A j \in {i \in PendingParts(b) : i <= k} :
          before(j) < amount /\ before(j) + bill[b].parts[j].amount <= amount}

(* onPaymentSucceeded.                                                     *)
Collect(b) ==
  /\ bill[b] # Unpriced /\ bill[b].intent # NoIntent
  /\ LET amount == bill[b].intent.amount
         settled == Covered(b, amount)
     IN bill' = [bill EXCEPT
          ![b].collected = @ + amount,
          ![b].intent = NoIntent,
          ![b].parts = [k \in DOMAIN @ |-> IF k \in settled THEN [@[k] EXCEPT !.paid = "online"] ELSE @[k]]]
  /\ UNCHANGED rules

(* markPaid: an instalment came by bank transfer.                          *)
PayOffline(b, k) ==
  /\ bill[b] # Unpriced /\ k \in PendingParts(b)
  /\ bill' = [bill EXCEPT ![b].parts[k].paid = "offline"]
  /\ UNCHANGED rules

PricingNext ==
  \/ \E r \in Rules : CreateRule(r) \/ RemoveRule(r)
  \/ \E b \in Bills :
       \/ PlaceBill(b) \/ Checkout(b) \/ Collect(b)
       \/ bill[b] # Unpriced /\ \E k \in PendingParts(b) : PayOffline(b, k)

----------------------------------------------------------------------------
Priced == {b \in Bills : bill[b] # Unpriced}

(* Instalments but the last of an amount that is not in whole cents.       *)
Broken(terms) ==
  {i \in 1..(Len(terms) - 1) : terms[i].amount # None /\ terms[i].amount % 100 # 0}

(* The instalments of an order add up to its price as stored: to the cent  *)
(* when the amounts asked for are in whole cents, and otherwise within     *)
(* half a cent for each that is not, as the last is what was left before   *)
(* the others were rounded on storing.                                     *)
PartsAddUp ==
  \A b \in Priced :
    LET parts == bill[b].parts
        gap == SumOf(b, DOMAIN parts) - bill[b].due
        slack == Cardinality(Broken(bill[b].terms)) + 1
    IN parts # << >> /\ parts[Len(parts)].amount >= 0
         => 2 * gap <= slack /\ -2 * gap <= slack

(* By percentages that are none below zero, every instalment is its share  *)
(* within the rounding of the others and the tolerance of the check.       *)
SharesKept ==
  \A b \in Priced : LET parts == bill[b].parts IN
    (\A i \in DOMAIN parts : bill[b].terms[i].pct >= 0 /\ bill[b].terms[i].amount = None)
      => \A i \in DOMAIN parts :
           LET gap == parts[i].amount * 10000 - bill[b].due * bill[b].terms[i].pct
               slack == Len(parts) * 10000 + bill[b].due
           IN gap \in -slack..slack

(* What payments have settled was collected, also when an instalment came  *)
(* by transfer between a checkout and its payment.                         *)
PaidIsCovered ==
  \A b \in Priced :
    SumOf(b, {k \in DOMAIN bill[b].parts : bill[b].parts[k].paid = "online"}) <= bill[b].collected

(* The supplier keeps half of the price at least, whatever rules came and  *)
(* went.                                                                   *)
CommissionKept == \A b \in Priced : 2 * bill[b].commission <= bill[b].due + 1

(* The price of an order is divided without loss but for the rounding of   *)
(* the amounts asked for, and no payment settles what it did not bring.    *)
BillsHold == PartsAddUp /\ SharesKept /\ PaidIsCovered /\ CommissionKept
=============================================================================
