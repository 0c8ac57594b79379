----------------------------- MODULE Placement -----------------------------
(***************************************************************************)
(* TradingService.placeOrders and what it consults: the cart of a buyer,   *)
(* the stock that can still be reserved and the framework contract whose   *)
(* volume the orders use up.  A request names one line per supplier; the   *)
(* groups are written one transaction after the other.  Quantities are     *)
(* counted in units of one line, prices are left out.  What happens to an  *)
(* order afterwards is the subject of Trading; here it can be cancelled.   *)
(***************************************************************************)
EXTENDS Naturals, Sequences, FiniteSets

CONSTANTS
  Suppliers,   \* each sells one SKU, out of one lot
  Contracts,   \* framework contracts of the buyer
  Cap,         \* units that a contract admits, its tolerance included
  Stock,       \* units of each supplier that can be reserved at the start
  Placers,     \* placeOrders requests in progress at once
  Teams,       \* bound: the handlers and suppliers of one behaviour
  MaxOrders,   \* bound: orders written
  MaxAdds      \* bound: versions of a cart item

NoContract == "no contract"

ASSUME PlacementAssumption ==
  /\ IsFiniteSet(Suppliers) /\ IsFiniteSet(Placers) /\ NoContract \notin Contracts
  /\ Cap \in Nat /\ Stock \in Nat /\ MaxOrders \in Nat /\ MaxAdds \in Nat

VARIABLES
  orders,     \* trade_orders, in the order of their creation
  available,  \* per supplier, qtyOnHand - qtyReserved
  contract,   \* the contracts and whether effectiveTo has passed
  cart,       \* cart_items of the buyer
  placing,    \* the placeOrders requests in progress
  team        \* the handlers and suppliers of this behaviour

placementVars == <<orders, available, contract, cart, placing, team>>

Free == [at |-> "free"]
NoItem == [version |-> 0]

OrderRow == [via : {"DIRECT", "RFQ", "BROKER"}, contract : Contracts \cup {NoContract},
             quote : Nat, supplier : Suppliers, open : BOOLEAN]
PlacingType ==
  [at : {"groups"}, left : SUBSET Suppliers, done : SUBSET Suppliers,
   contract : Contracts \cup {NoContract}]

PlacementTypeOK ==
  /\ orders \in Seq(OrderRow)
  /\ available \in [Suppliers -> Nat]
  /\ contract \in [Contracts -> {"none", "DRAFT", "ACTIVE", "lapsed"}]
  /\ cart \in [Suppliers -> {NoItem} \cup [version : Nat, deleted : BOOLEAN]]
  /\ placing \in [Placers -> PlacingType \cup {Free}]
  /\ team \in Teams

PlacementInit ==
  /\ orders = << >>
  /\ available = [s \in Suppliers |-> Stock]
  /\ contract = [c \in Contracts |-> "none"]
  /\ cart = [s \in Suppliers |-> NoItem]
  /\ placing = [b \in Placers |-> Free]
  /\ team \in Teams

(* The suppliers of this behaviour.                                        *)
Sellers == Suppliers \cap team

----------------------------------------------------------------------------
(* Contracts                                                               *)

(* create: a contract without a date of signature stays a draft, as no     *)
(* operation changes the status later.                                     *)
CreateContract(c) ==
  /\ team \cap Placers # {} /\ contract[c] = "none"   \* bound
  /\ \E status \in {"DRAFT", "ACTIVE"} : contract' = [contract EXCEPT ![c] = status]
  /\ UNCHANGED <<orders, available, cart, placing, team>>

ContractLapses(c) ==
  /\ contract[c] = "ACTIVE"
  /\ contract' = [contract EXCEPT ![c] = "lapsed"]
  /\ UNCHANGED <<orders, available, cart, placing, team>>

(* What the orders of the contract that are not CANCELLED use of it.       *)
Used(c) ==
  Cardinality({i \in DOMAIN orders : orders[i].contract = c /\ orders[i].open})

HasCapacity(c, n) == contract[c] = "ACTIVE" /\ Used(c) + n <= Cap

----------------------------------------------------------------------------
(* The cart                                                                *)

(* addToCart: an upsert that does not clear deletedAt.                     *)
AddToCart(s) ==
  /\ team \cap Placers # {} /\ cart[s].version < MaxAdds   \* bounds
  /\ cart' = [cart EXCEPT ![s] =
       IF @ = NoItem THEN [version |-> 1, deleted |-> FALSE]
       ELSE [@ EXCEPT !.version = cart[s].version + 1]]
  /\ UNCHANGED <<orders, available, contract, placing, team>>

(* The ordered items of the cart are deleted.                              *)
Cleared(items) ==
  [s \in Suppliers |->
     IF s \in items /\ cart[s] # NoItem THEN [cart[s] EXCEPT !.deleted = TRUE] ELSE cart[s]]

----------------------------------------------------------------------------
(* Orders                                                                  *)

(* The row of an order and its hold: reserveInTx fails without stock.      *)
WriteOrder(via, c, quote, s) ==
  /\ Len(orders) < MaxOrders   \* bound
  /\ available[s] > 0
  /\ orders' = Append(orders, [via |-> via, contract |-> c, quote |-> quote,
                               supplier |-> s, open |-> TRUE])
  /\ available' = [available EXCEPT ![s] = @ - 1]

(* placeOrders checks the lines and the contract for all of them, ...      *)
PlaceStart(b, items, c) ==
  /\ b \in team /\ placing[b] = Free
  /\ items # {}
  /\ c # NoContract => HasCapacity(c, Cardinality(items))
  /\ placing' = [placing EXCEPT ![b] =
       [at |-> "groups", left |-> items, done |-> {}, contract |-> c]]
  /\ UNCHANGED <<orders, available, contract, cart, team>>

(* ... then writes the order of one supplier after the other, ...          *)
PlaceGroup(b) ==
  /\ placing[b].at = "groups"
  /\ \E s \in placing[b].left :
       /\ WriteOrder("DIRECT", placing[b].contract, 0, s)
       /\ placing' = [placing EXCEPT ![b].left = @ \ {s}, ![b].done = @ \cup {s}]
  /\ UNCHANGED <<contract, cart, team>>

(* Mutant of PlaceFail: the cart is emptied whatever came of the request.  *)
PlaceFailClearing(b) ==
  /\ placing[b].at = "groups"
  /\ \E s \in placing[b].left : available[s] = 0
  /\ placing' = [placing EXCEPT ![b] = Free]
  /\ cart' = Cleared(placing[b].left \cup placing[b].done)
  /\ UNCHANGED <<orders, available, contract, team>>

(* ... where one without stock ends the request and the groups before it   *)
(* remain, ...                                                             *)
PlaceFail(b) ==
  /\ placing[b].at = "groups"
  /\ \E s \in placing[b].left : available[s] = 0
  /\ placing' = [placing EXCEPT ![b] = Free]
  /\ UNCHANGED <<orders, available, contract, cart, team>>

(* ... and takes the items out of the cart when all of them are ordered.   *)
PlaceDone(b) ==
  /\ placing[b].at = "groups" /\ placing[b].left = {}
  /\ cart' = Cleared(placing[b].done)
  /\ placing' = [placing EXCEPT ![b] = Free]
  /\ UNCHANGED <<orders, available, contract, team>>

(* An order is cancelled and its hold given back (Trading, Sweeper).       *)
CancelOrder(i) ==
  /\ orders[i].open
  /\ orders' = [orders EXCEPT ![i].open = FALSE]
  /\ available' = [available EXCEPT ![orders[i].supplier] = @ + 1]
  /\ UNCHANGED <<contract, cart, placing, team>>

PlacementNext ==
  \/ \E c \in Contracts : CreateContract(c) \/ ContractLapses(c)
  \/ \E s \in Sellers : AddToCart(s)
  \/ \E b \in Placers :
       \/ \E items \in SUBSET Sellers, c \in Contracts \cup {NoContract} : PlaceStart(b, items, c)
       \/ PlaceGroup(b) \/ PlaceFail(b) \/ PlaceDone(b)
  \/ \E i \in DOMAIN orders : CancelOrder(i)
=============================================================================
