----------------------------- MODULE Inventory -----------------------------
(***************************************************************************)
(* inventory.service.ts: the balances of the lots of one SKU, the rows of  *)
(* the reservations and the transactions that move both.  A release and an *)
(* outbound movement read the HELD rows without locking them and update    *)
(* the lots afterwards, so each of them is two steps; the CHECK constraints*)
(* of the lots are evaluated by the second.  The order that owns a hold is *)
(* kept down to what decides which of these transactions may run.          *)
(***************************************************************************)
EXTENDS Integers, FiniteSets, FiniteSetsExt

CONSTANTS
  NLots,      \* lots of the SKU, numbered in the order of their expiry
  Refs,       \* orders
  Qty,        \* what each order asks for
  Workers,    \* transition() requests that cancel or ship
  Sweepers,   \* releaseOrphan() in progress at once
  Consignments, \* quantities that may arrive
  MaxStock    \* bound: quantity that ever arrives at a lot

ASSUME InventoryAssumption ==
  /\ NLots \in Nat /\ MaxStock \in Nat
  /\ IsFiniteSet(Refs) /\ Qty \in [Refs -> Nat \ {0}]
  /\ Consignments \subseteq Nat \ {0}

Lots == 1..NLots

VARIABLES
  lot,      \* onHand and reserved of each lot
  spoiled,  \* lots past their expiry
  row,      \* reservations: quantity and status per order and lot
  phase,    \* the order: none, placed, paid, shipped or cancelled
  journal,  \* inventory_transactions: totals per order
  inbound,  \* inventory_transactions: INBOUND per lot
  tx        \* the transactions in progress, with the rows they have read

vars == <<lot, spoiled, row, phase, journal, inbound, tx>>

NoTx == [kind |-> "none"]
NoRow == [qty |-> 0, status |-> "NONE"]
TxType == [kind : {"cancel", "ship", "orphan"}, ref : Refs, held : SUBSET Lots]

TypeOK ==
  /\ lot \in [Lots -> [onHand : Nat, reserved : Nat]]
  /\ spoiled \subseteq Lots
  /\ row \in [Refs -> [Lots -> [qty : Nat, status : {"NONE", "HELD", "RELEASED", "CONSUMED"}]]]
  /\ phase \in [Refs -> {"none", "placed", "paid", "shipped", "cancelled"}]
  /\ journal \in [Refs -> [reserve : Nat, release : Nat, outbound : Nat]]
  /\ inbound \in [Lots -> Nat]
  /\ tx \in [Workers \cup Sweepers -> TxType \cup {NoTx}]

Init ==
  /\ lot = [l \in Lots |-> [onHand |-> 0, reserved |-> 0]]
  /\ spoiled = {}
  /\ row = [r \in Refs |-> [l \in Lots |-> NoRow]]
  /\ phase = [r \in Refs |-> "none"]
  /\ journal = [r \in Refs |-> [reserve |-> 0, release |-> 0, outbound |-> 0]]
  /\ inbound = [l \in Lots |-> 0]
  /\ tx = [w \in Workers \cup Sweepers |-> NoTx]

(* inbound: an upsert, for a lot that is expired too.                      *)
Receive(l, q) ==
  /\ inbound[l] + q <= MaxStock
  /\ lot' = [lot EXCEPT ![l].onHand = @ + q]
  /\ inbound' = [inbound EXCEPT ![l] = @ + q]
  /\ UNCHANGED <<spoiled, row, phase, journal, tx>>

Spoil(l) ==
  /\ l \notin spoiled
  /\ spoiled' = spoiled \cup {l}
  /\ UNCHANGED <<lot, row, phase, journal, inbound, tx>>

Sellable == Lots \ spoiled
Available == [l \in Lots |-> lot[l].onHand - lot[l].reserved]

(* Mutant of Take: the last lot to expire is emptied first.                *)
TakeLatest(l, qty) ==
  IF l \notin Sellable THEN 0
  ELSE LET before == SumFunctionOnSet(Available, {j \in Sellable : j > l})
       IN Max({0, Min({Available[l], qty - before})})

(* What reserveInTx takes from lot l: it empties the lots that expire      *)
(* earlier first.                                                          *)
Take(l, qty) ==
  IF l \notin Sellable THEN 0
  ELSE LET before == SumFunctionOnSet(Available, {j \in Sellable : j < l})
       IN Max({0, Min({Available[l], qty - before})})

(* reserveInTx locks every sellable lot (FOR UPDATE), so it is one step;   *)
(* with too little stock the placing of the order rolls back.              *)
Reserve(r) ==
  /\ phase[r] = "none"
  /\ SumFunctionOnSet(Available, Sellable) >= Qty[r]
  /\ lot' = [l \in Lots |-> [lot[l] EXCEPT !.reserved = @ + Take(l, Qty[r])]]
  /\ row' = [row EXCEPT ![r] = [l \in Lots |->
       IF Take(l, Qty[r]) > 0 THEN [qty |-> Take(l, Qty[r]), status |-> "HELD"] ELSE NoRow]]
  /\ journal' = [journal EXCEPT ![r].reserve = Qty[r]]
  /\ phase' = [phase EXCEPT ![r] = "placed"]
  /\ UNCHANGED <<spoiled, inbound, tx>>

Pay(r) ==
  /\ phase[r] = "placed"
  /\ ~\E w \in Workers : tx[w] # NoTx /\ tx[w].ref = r
  /\ phase' = [phase EXCEPT ![r] = "paid"]
  /\ UNCHANGED <<lot, spoiled, row, journal, inbound, tx>>

HeldRows(r) == {l \in Lots : row[r][l].status = "HELD"}

(* A cancellation is from PLACED, a shipment once paid; a shipment needs   *)
(* HELD rows.                                                              *)
Startable(r, kind) ==
  /\ phase[r] = IF kind = "cancel" THEN "placed" ELSE "paid"
  /\ kind = "ship" => HeldRows(r) # {}

(* transition() holds the row lock of the order.                           *)
Start(w, r, kind) ==
  /\ tx[w] = NoTx
  /\ Startable(r, kind)
  /\ ~\E v \in Workers : tx[v] # NoTx /\ tx[v].ref = r
  /\ tx' = [tx EXCEPT ![w] = [kind |-> kind, ref |-> r, held |-> HeldRows(r)]]
  /\ UNCHANGED <<lot, spoiled, row, phase, journal, inbound>>

(* releaseOrphan takes no lock on the order; it is for orders that were    *)
(* seen past PLACED with expired rows.                                     *)
StartOrphan(s, r) ==
  /\ tx[s] = NoTx
  /\ phase[r] \in {"paid", "shipped", "cancelled"}
  /\ HeldRows(r) # {}
  /\ tx' = [tx EXCEPT ![s] = [kind |-> "orphan", ref |-> r, held |-> HeldRows(r)]]
  /\ UNCHANGED <<lot, spoiled, row, phase, journal, inbound>>

(* The balances that the updates of transaction t produce.                 *)
After(t) ==
  [l \in Lots |->
     IF l \notin t.held THEN lot[l]
     ELSE [onHand |-> lot[l].onHand - IF t.kind = "ship" THEN row[t.ref][l].qty ELSE 0,
           reserved |-> lot[l].reserved - row[t.ref][l].qty]]

(* CHECK (onHand >= 0, reserved >= 0, reserved <= onHand)                  *)
Checks(l) == l.onHand >= 0 /\ l.reserved >= 0 /\ l.reserved <= l.onHand

Quantities(r) == [l \in Lots |-> row[r][l].qty]
Moved(t) == SumFunctionOnSet(Quantities(t.ref), t.held)

(* Mutant of Mark: the rows stay HELD.                                     *)
MarkNothing(t, status) == row' = row

(* The rows are marked by their ids, whatever their status is by now.      *)
Mark(t, status) ==
  row' = [row EXCEPT ![t.ref] = [l \in Lots |->
            IF l \in t.held THEN [@[l] EXCEPT !.status = status] ELSE @[l]]]

CommitRelease(w) ==
  LET t == tx[w]
  IN /\ t.kind \in {"cancel", "orphan"}
     /\ \A l \in Lots : Checks(After(t)[l])
     /\ lot' = After(t)
     /\ Mark(t, "RELEASED")
     /\ journal' = [journal EXCEPT ![t.ref].release = @ + Moved(t)]
     /\ phase' = IF t.kind = "cancel" THEN [phase EXCEPT ![t.ref] = "cancelled"] ELSE phase
     /\ tx' = [tx EXCEPT ![w] = NoTx]
     /\ UNCHANGED <<spoiled, inbound>>

CommitOutbound(w) ==
  LET t == tx[w]
  IN /\ t.kind = "ship"
     /\ \A l \in Lots : Checks(After(t)[l])
     /\ lot' = After(t)
     /\ Mark(t, "CONSUMED")
     /\ journal' = [journal EXCEPT ![t.ref].outbound = @ + Moved(t)]
     /\ phase' = [phase EXCEPT ![t.ref] = "shipped"]
     /\ tx' = [tx EXCEPT ![w] = NoTx]
     /\ UNCHANGED <<spoiled, inbound>>

(* A CHECK that fails, or a crash, rolls the transaction back.             *)
Rollback(w) ==
  /\ tx[w] # NoTx
  /\ tx' = [tx EXCEPT ![w] = NoTx]
  /\ UNCHANGED <<lot, spoiled, row, phase, journal, inbound>>

Next ==
  \/ \E l \in Lots : Spoil(l) \/ \E q \in Consignments : Receive(l, q)
  \/ \E r \in Refs : Reserve(r) \/ Pay(r)
  \/ \E w \in Workers, r \in Refs, kind \in {"cancel", "ship"} : Start(w, r, kind)
  \/ \E s \in Sweepers, r \in Refs : StartOrphan(s, r)
  \/ \E w \in Workers \cup Sweepers : CommitRelease(w) \/ CommitOutbound(w) \/ Rollback(w)

Spec == Init /\ [][Next]_vars

----------------------------------------------------------------------------
HeldOn(l) ==
  SumFunction([r \in Refs |-> IF row[r][l].status = "HELD" THEN row[r][l].qty ELSE 0])

(* No order had more given back and shipped out than it had reserved.       *)
UndoneOnce == \A r \in Refs : journal[r].release + journal[r].outbound <= journal[r].reserve

(* "The balance is the cache of the journal": the rows HELD on a lot add   *)
(* up to its qtyReserved, as long as no orphan release and shipment have   *)
(* consumed the same rows (neither locks them).                            *)
ReservedIsHeld == UndoneOnce => \A l \in Lots : lot[l].reserved = HeldOn(l)

(* A shipped order took exactly what it ordered out of the stock.          *)
ShippedInFull == \A r \in Refs : phase[r] = "shipped" => journal[r].outbound = Qty[r]

(* The journal explains the balances, races included: the stock on hand is *)
(* what arrived minus what was shipped, the reserved stock is what was     *)
(* reserved minus what was given back or shipped.                          *)
StockIsJournal ==
  /\ SumFunction([l \in Lots |-> lot[l].onHand]) =
       SumFunction(inbound) - SumFunction([r \in Refs |-> journal[r].outbound])
  /\ SumFunction([l \in Lots |-> lot[l].reserved]) =
       SumFunction([r \in Refs |-> journal[r].reserve])
         - SumFunction([r \in Refs |-> journal[r].release + journal[r].outbound])

(* FIFO by expiry: a new hold on a lot leaves nothing available on a       *)
(* sellable lot that expires before it.                                    *)
FirstExpiredFirst ==
  [][\A r \in Refs, l \in Lots :
       row[r][l].status = "NONE" /\ row'[r][l].status = "HELD" =>
         \A j \in Sellable : j < l => lot'[j].reserved = lot'[j].onHand]_vars

(* Balances, rows and journal tell one story, whatever was interleaved.    *)
BooksAgree == TypeOK /\ StockIsJournal /\ ReservedIsHeld /\ ShippedInFull
=============================================================================
