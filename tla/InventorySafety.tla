-------------------------- MODULE InventorySafety --------------------------
(***************************************************************************)
(* Proofs about the inventory: its books agree and the earliest lots are   *)
(* taken first, for any number of lots, orders and transactions.           *)
(***************************************************************************)
EXTENDS Inventory, Sums

RowsOf(r) == {l \in Lots : row[r][l].status # "NONE"}

(* CHECK (reserved <= onHand) holds for every lot at any time.             *)
LotsChecked == \A l \in Lots : lot[l].reserved <= lot[l].onHand

(* The rows of an order add up to what it asked for and move together; what*)
(* is no longer held has been given back or shipped at least once.         *)
RowsOK(r) ==
  /\ \A l \in Lots : row[r][l].qty > 0 <=> l \in RowsOf(r)
  /\ HeldRows(r) \in {{}, RowsOf(r)}
  /\ phase[r] = "none" => journal[r] = [reserve |-> 0, release |-> 0, outbound |-> 0] /\ RowsOf(r) = {}
  /\ phase[r] # "none" => /\ SumFunctionOnSet(Quantities(r), RowsOf(r)) = Qty[r]
                          /\ journal[r].reserve = Qty[r]
                          /\ RowsOf(r) # {}
  /\ phase[r] = "placed" => HeldRows(r) # {}
  /\ journal[r].outbound = IF phase[r] = "shipped" THEN Qty[r] ELSE 0
  /\ phase[r] # "none" /\ HeldRows(r) = {} => journal[r].release + journal[r].outbound >= Qty[r]

(* A transaction has read all rows of its order, and the row lock keeps    *)
(* its phase.                                                              *)
TxOK(w) ==
  LET t == tx[w] IN
  t # NoTx =>
    /\ t.held = RowsOf(t.ref)
    /\ phase[t.ref] \notin {"none"}
    /\ t.kind = "cancel" => w \in Workers /\ phase[t.ref] = "placed"
    /\ t.kind = "ship" => w \in Workers /\ phase[t.ref] = "paid"
    /\ t.kind = "orphan" => phase[t.ref] # "placed"

OneLock ==
  \A v, w \in Workers \cup Sweepers :
    /\ tx[v] # NoTx /\ tx[w] # NoTx /\ tx[v].ref = tx[w].ref
    /\ tx[v].kind # "orphan" /\ tx[w].kind # "orphan"
    => v = w

InventoryInv ==
  /\ TypeOK /\ LotsChecked
  /\ \A r \in Refs : RowsOK(r)
  /\ \A w \in Workers \cup Sweepers : TxOK(w)
  /\ OneLock /\ StockIsJournal /\ ReservedIsHeld

----------------------------------------------------------------------------
(* Sets of lots are finite.                                                *)
LEMMA LotsFinite == \A S \in SUBSET Lots : IsFiniteSet(S)
<1>1. IsFiniteSet(Lots) BY InventoryAssumption, FS_Interval DEF Lots
<1> QED BY <1>1, FS_Subset

(* Max and Min of the library, for two numbers.                            *)
LEMMA Clamped ==
  ASSUME NEW a \in Int, NEW b \in Int
  PROVE  Max({0, Min({a, b})}) =
           IF a <= b THEN IF a > 0 THEN a ELSE 0 ELSE IF b > 0 THEN b ELSE 0
<1>1. \A x, y \in Int : Min({x, y}) = IF x <= y THEN x ELSE y
  <2> SUFFICES ASSUME NEW x \in Int, NEW y \in Int PROVE Min({x, y}) = IF x <= y THEN x ELSE y
    OBVIOUS
  <2> DEFINE m == IF x <= y THEN x ELSE y
  <2>1. m \in {x, y} /\ \A z \in {x, y} : m <= z OBVIOUS
  <2>2. \A n \in {x, y} : (\A z \in {x, y} : n <= z) => n = m OBVIOUS
  <2> QED BY <2>1, <2>2 DEF Min
<1>2. \A x, y \in Int : Max({x, y}) = IF x <= y THEN y ELSE x
  <2> SUFFICES ASSUME NEW x \in Int, NEW y \in Int PROVE Max({x, y}) = IF x <= y THEN y ELSE x
    OBVIOUS
  <2> DEFINE m == IF x <= y THEN y ELSE x
  <2>1. m \in {x, y} /\ \A z \in {x, y} : m >= z OBVIOUS
  <2>2. \A n \in {x, y} : (\A z \in {x, y} : n >= z) => n = m OBVIOUS
  <2> QED BY <2>1, <2>2 DEF Max
<1> QED BY <1>1, <1>2

(* What is available of a lot is a natural number.                         *)
LEMMA AvailableNat ==
  ASSUME TypeOK, LotsChecked
  PROVE  \A l \in Lots : Available[l] \in Nat /\ Available[l] = lot[l].onHand - lot[l].reserved
  BY DEF TypeOK, LotsChecked, Available

(* What is available of the sellable lots up to n.                         *)
Before(n) == SumFunctionOnSet(Available, {j \in Sellable : j <= n})

LEMMA BeforeGrows ==
  ASSUME TypeOK, LotsChecked, NEW n \in Lots
  PROVE  /\ Before(n) \in Nat /\ Before(n - 1) \in Nat
         /\ n \in Sellable => Before(n) = Available[n] + Before(n - 1)
         /\ n \notin Sellable => Before(n) = Before(n - 1)
         /\ {j \in Sellable : j < n} = {j \in Sellable : j <= n - 1}
<1> DEFINE A(k) == {j \in Sellable : j <= k}
<1>1. \A k : A(k) \in SUBSET Lots /\ IsFiniteSet(A(k))
  <2>1. \A k : A(k) \in SUBSET Lots BY DEF Sellable
  <2> QED BY <2>1, LotsFinite
<1>2. \A k : Before(k) \in Nat
  <2>1. \A k : \A x \in A(k) : Available[x] \in Nat BY <1>1, AvailableNat
  <2> HIDE DEF A
  <2>2. \A k : SumFunctionOnSet(Available, A(k)) \in Nat BY <1>1, <2>1, SumNat
  <2> QED BY <2>2 DEF Before, A
<1>3. n \in Nat \ {0} /\ \A j \in Lots : j \in Nat BY InventoryAssumption DEF Lots
<1>0. /\ \A j \in Sellable : (j < n <=> j <= n - 1) /\ (j <= n <=> j = n \/ j <= n - 1)
      /\ ~(n <= n - 1)
  BY <1>3 DEF Sellable
<1>4. {j \in Sellable : j < n} = A(n - 1) BY <1>0, Zenon
<1>5. n \in Sellable => n \in A(n) /\ A(n) \ {n} = A(n - 1)
  <2>1. ASSUME n \in Sellable, NEW j PROVE j \in A(n) \ {n} <=> j \in A(n - 1) BY <1>0, Zenon
  <2>2. ASSUME n \in Sellable PROVE n \in A(n) BY <1>0, <2>2, Zenon
  <2> HIDE DEF A
  <2> QED BY <2>1, <2>2
<1>6. n \notin Sellable => A(n) = A(n - 1)
  <2>1. ASSUME n \notin Sellable, NEW j PROVE j \in A(n) <=> j \in A(n - 1) BY <1>0, <2>1, Zenon
  <2> HIDE DEF A
  <2> QED BY <2>1
<1>7. ASSUME n \in Sellable PROVE Before(n) = Available[n] + Before(n - 1)
  <2> HIDE DEF A
  <2>1. \A x \in A(n) : Available[x] \in Int BY <1>1, AvailableNat
  <2>2. SumFunctionOnSet(Available, A(n)) = Available[n] + SumFunctionOnSet(Available, A(n) \ {n})
    BY <1>1, <1>5, <1>7, <2>1, SumAt
  <2> QED BY <1>5, <1>7, <2>2 DEF Before, A
<1> QED BY <1>2, <1>4, <1>6, <1>7 DEF Before

(* What reserveInTx takes from a lot: what is still missing after the lots *)
(* before it, but not more than is available.                              *)
LEMMA TakeIs ==
  ASSUME TypeOK, LotsChecked, NEW q \in Nat, NEW l \in Lots
  PROVE  /\ Take(l, q) \in Nat /\ Take(l, q) <= Available[l]
         /\ Take(l, q) = IF l \notin Sellable \/ q <= Before(l - 1) THEN 0
                         ELSE IF Available[l] <= q - Before(l - 1) THEN Available[l]
                         ELSE q - Before(l - 1)
<1>1. /\ Before(l - 1) \in Nat
      /\ SumFunctionOnSet(Available, {j \in Sellable : j < l}) = Before(l - 1)
  BY BeforeGrows DEF Before
<1>2. Available[l] \in Nat BY AvailableNat
<1>3. CASE l \notin Sellable BY <1>2, <1>3 DEF Take
<1>4. CASE l \in Sellable
  <2>1. Take(l, q) = Max({0, Min({Available[l], q - Before(l - 1)})}) BY <1>1, <1>4 DEF Take
  <2> QED BY <1>1, <1>2, <1>4, <2>1, Clamped
<1> QED BY <1>3, <1>4

(* It adds up to what the order asks for, if there is enough.              *)
LEMMA TakeAdds ==
  ASSUME TypeOK, LotsChecked, NEW q \in Nat, SumFunctionOnSet(Available, Sellable) >= q
  PROVE  SumFunctionOnSet([l \in Lots |-> Take(l, q)], Lots) = q
<1> DEFINE take == [l \in Lots |-> Take(l, q)]
           T(n) == SumFunctionOnSet(take, 1..n)
           Least(n) == IF q <= Before(n) THEN q ELSE Before(n)
           Bad == {n \in 0..NLots : T(n) # Least(n)}
<1>1. NLots \in Nat /\ Lots = 1..NLots BY InventoryAssumption DEF Lots
<1>2. \A l \in Lots : take[l] = Take(l, q) /\ take[l] \in Nat BY TakeIs
<1>3. \A n \in 0..NLots : /\ 1..n \in SUBSET Lots /\ IsFiniteSet(1..n) /\ T(n) \in Nat
  <2> SUFFICES ASSUME NEW n \in 0..NLots
        PROVE 1..n \in SUBSET Lots /\ IsFiniteSet(1..n) /\ T(n) \in Nat
    OBVIOUS
  <2>1. 1..n \in SUBSET Lots BY <1>1
  <2>2. IsFiniteSet(1..n) BY <2>1, LotsFinite
  <2>3. \A x \in 1..n : take[x] \in Nat BY <1>2, <2>1
  <2> HIDE DEF take
  <2> QED BY <2>1, <2>2, <2>3, SumNat
<1>4. T(0) = 0 /\ Before(0) = 0
  <2>1. 1..0 = {} /\ {j \in Sellable : j <= 0} = {} BY <1>1 DEF Sellable
  <2> QED BY <2>1, SumEmpty DEF Before
<1>5. ASSUME NEW n \in Lots, T(n - 1) = Least(n - 1) PROVE T(n) = Least(n)
  <2>1. n \in 1..n /\ (1..n) \ {n} = 1..(n - 1) /\ n \in 0..NLots /\ n - 1 \in 0..NLots BY <1>1
  <2>2. T(n) = take[n] + T(n - 1)
    <3> HIDE DEF take
    <3>0. 1..n \in SUBSET Lots /\ IsFiniteSet(1..n) BY <1>3, <2>1
    <3>1. \A x \in 1..n : take[x] \in Int BY <1>2, <3>0
    <3>2. SumFunctionOnSet(take, 1..n) = take[n] + SumFunctionOnSet(take, (1..n) \ {n})
      BY <2>1, <3>0, <3>1, SumAt
    <3> QED BY <2>1, <3>2
  <2>3. /\ Before(n) \in Nat /\ Before(n - 1) \in Nat
        /\ n \in Sellable => Before(n) = Available[n] + Before(n - 1)
        /\ n \notin Sellable => Before(n) = Before(n - 1)
        /\ Available[n] \in Nat
    BY BeforeGrows, AvailableNat
  <2>4. take[n] = IF n \notin Sellable \/ q <= Before(n - 1) THEN 0
                  ELSE IF Available[n] <= q - Before(n - 1) THEN Available[n]
                  ELSE q - Before(n - 1)
    BY TakeIs
  <2>5. T(n - 1) = Least(n - 1) BY <1>5
  <2> HIDE DEF take, T
  <2> QED BY <2>2, <2>3, <2>4, <2>5
<1>6. Bad = {}
  <2> SUFFICES ASSUME Bad # {} PROVE FALSE OBVIOUS
  <2>1. IsFiniteSet(Bad) /\ \A n \in Bad : n \in Int
    <3>1. IsFiniteSet(0..NLots) BY <1>1, FS_Interval
    <3>2. Bad \in SUBSET (0..NLots) OBVIOUS
    <3> HIDE DEF Bad
    <3>3. IsFiniteSet(Bad) BY <3>1, <3>2, FS_Subset
    <3> QED BY <3>2, <3>3
  <2>2. PICK n \in Bad : \A k \in Bad : n <= k
    <3> HIDE DEF Bad
    <3> QED BY <2>1, LeastOf
  <2>3. n # 0 BY <1>4, <2>2
  <2>4. n \in Lots /\ n - 1 \in 0..NLots BY <1>1, <2>2, <2>3
  <2>5. n - 1 \notin Bad
    <3> HIDE DEF Bad
    <3> QED BY <2>1, <2>2, <2>4
  <2>6. T(n - 1) = Least(n - 1) BY <2>4, <2>5
  <2>7. T(n) = Least(n) BY <1>5, <2>4, <2>6
  <2> QED BY <2>2, <2>7
<1>7. T(NLots) = Least(NLots) BY <1>1, <1>6
<1>8. {j \in Sellable : j <= NLots} = Sellable BY <1>1 DEF Sellable
<1>9. Before(NLots) = SumFunctionOnSet(Available, Sellable) BY <1>8 DEF Before
<1>10. T(NLots) = q
  <2>1. Before(NLots) \in Nat
    <3>1. CASE NLots = 0 BY <1>4, <3>1
    <3>2. CASE NLots # 0
      <4>1. NLots \in Lots BY <1>1, <3>2
      <4> QED BY <4>1, BeforeGrows
    <3> QED BY <3>1, <3>2
  <2> QED BY <1>7, <1>9, <2>1
<1> QED BY <1>1, <1>10

----------------------------------------------------------------------------
(* The totals of the books, as sums over the lots and the orders.          *)
OnHand == [l \in Lots |-> lot[l].onHand]
Reserved == [l \in Lots |-> lot[l].reserved]
Ordered == [r \in Refs |-> journal[r].reserve]
Shipped == [r \in Refs |-> journal[r].outbound]
Undone == [r \in Refs |-> journal[r].release + journal[r].outbound]
HeldBy(l) == [r \in Refs |-> IF row[r][l].status = "HELD" THEN row[r][l].qty ELSE 0]

(* The sum of a function is the sum over its domain.                       *)
LEMMA SumAll == \A f : SumFunction(f) = SumFunctionOnSet(f, DOMAIN f)
  BY Zenon DEF SumFunction, SumFunctionOnSet, FoldFunction

(* StockIsJournal, said with these totals.                                 *)
LEMMA StockIs ==
  ASSUME inbound \in [Lots -> Nat]
  PROVE  StockIsJournal <=>
           /\ SumFunctionOnSet(OnHand, Lots) =
                SumFunctionOnSet(inbound, Lots) - SumFunctionOnSet(Shipped, Refs)
           /\ SumFunctionOnSet(Reserved, Lots) =
                SumFunctionOnSet(Ordered, Refs) - SumFunctionOnSet(Undone, Refs)
<1>1. /\ SumFunction(OnHand) = SumFunctionOnSet(OnHand, Lots)
      /\ SumFunction(Reserved) = SumFunctionOnSet(Reserved, Lots)
      /\ SumFunction(inbound) = SumFunctionOnSet(inbound, Lots)
      /\ SumFunction(Shipped) = SumFunctionOnSet(Shipped, Refs)
      /\ SumFunction(Ordered) = SumFunctionOnSet(Ordered, Refs)
      /\ SumFunction(Undone) = SumFunctionOnSet(Undone, Refs)
  BY SumAll DEF OnHand, Reserved, Shipped, Ordered, Undone
<1>2. StockIsJournal <=>
        /\ SumFunction(OnHand) = SumFunction(inbound) - SumFunction(Shipped)
        /\ SumFunction(Reserved) = SumFunction(Ordered) - SumFunction(Undone)
  BY Zenon DEF StockIsJournal, OnHand, Reserved, Shipped, Ordered, Undone
<1> QED BY <1>1, <1>2

(* HeldOn, likewise.                                                       *)
LEMMA HeldIs == \A l : HeldOn(l) = SumFunctionOnSet(HeldBy(l), Refs)
<1> TAKE l
<1>1. DOMAIN HeldBy(l) = Refs BY DEF HeldBy
<1>2. HeldOn(l) = SumFunction(HeldBy(l)) BY Zenon DEF HeldOn, HeldBy
<1> QED BY <1>1, <1>2, SumAll

(* The books that are added up are finite.                                 *)
LEMMA BooksFinite == IsFiniteSet(Lots) /\ IsFiniteSet(Refs)
  BY LotsFinite, InventoryAssumption

(* The total over the orders, when one order changes.                      *)
LEMMA RefChanges ==
  \A r \in Refs : \A f, g :
    /\ \A k \in Refs : f[k] \in Int
    /\ \A k \in Refs : g[k] \in Int
    /\ \A k \in Refs \ {r} : g[k] = f[k]
    => SumFunctionOnSet(g, Refs) = SumFunctionOnSet(f, Refs) + g[r] - f[r]
<1> SUFFICES ASSUME NEW r \in Refs, NEW f, NEW g, \A k \in Refs : f[k] \in Int,
                    \A k \in Refs : g[k] \in Int, \A k \in Refs \ {r} : g[k] = f[k]
             PROVE  SumFunctionOnSet(g, Refs) = SumFunctionOnSet(f, Refs) + g[r] - f[r]
  OBVIOUS
<1> QED BY BooksFinite, SumChanges

(* StockIs of the state after a step.                                      *)
LEMMA StockIsNext ==
  ASSUME inbound' \in [Lots -> Nat]
  PROVE  StockIsJournal' <=>
           /\ SumFunctionOnSet(OnHand', Lots) =
                SumFunctionOnSet(inbound', Lots) - SumFunctionOnSet(Shipped', Refs)
           /\ SumFunctionOnSet(Reserved', Lots) =
                SumFunctionOnSet(Ordered', Refs) - SumFunctionOnSet(Undone', Refs)
<1>1. /\ SumFunction(OnHand') = SumFunctionOnSet(OnHand', Lots)
      /\ SumFunction(Reserved') = SumFunctionOnSet(Reserved', Lots)
      /\ SumFunction(inbound') = SumFunctionOnSet(inbound', Lots)
      /\ SumFunction(Shipped') = SumFunctionOnSet(Shipped', Refs)
      /\ SumFunction(Ordered') = SumFunctionOnSet(Ordered', Refs)
      /\ SumFunction(Undone') = SumFunctionOnSet(Undone', Refs)
  BY SumAll DEF OnHand, Reserved, Shipped, Ordered, Undone
<1>2. StockIsJournal' <=>
        /\ SumFunction(OnHand') = SumFunction(inbound') - SumFunction(Shipped')
        /\ SumFunction(Reserved') = SumFunction(Ordered') - SumFunction(Undone')
  BY Zenon DEF StockIsJournal, OnHand, Reserved, Shipped, Ordered, Undone
<1> QED BY <1>1, <1>2

(* HeldIs of the state after a step.                                       *)
LEMMA HeldIsNext == \A l : HeldOn(l)' = SumFunctionOnSet(HeldBy(l)', Refs)
<1> TAKE l
<1>1. DOMAIN HeldBy(l)' = Refs BY DEF HeldBy
<1>2. HeldOn(l)' = SumFunction(HeldBy(l)') BY Zenon DEF HeldOn, HeldBy
<1> QED BY <1>1, <1>2, SumAll

(* An order whose rows, journal and phase a step leaves alone stays right. *)
LEMMA RowsKept ==
  ASSUME NEW r, RowsOK(r), row'[r] = row[r], journal'[r] = journal[r], phase'[r] = phase[r]
  PROVE  RowsOK(r)'
<1>1. RowsOf(r)' = RowsOf(r) BY DEF RowsOf
<1>2. HeldRows(r)' = HeldRows(r) BY DEF HeldRows
<1>3. Quantities(r)' = Quantities(r) BY DEF Quantities
<1> QED BY <1>1, <1>2, <1>3 DEF RowsOK

(* The initial state.                                                      *)
LEMMA InvInit == Init => InventoryInv
<1> SUFFICES ASSUME Init PROVE InventoryInv OBVIOUS
<1>1. TypeOK BY DEF Init, TypeOK, NoRow, NoTx
<1>2. \A l \in Lots : lot[l] = [onHand |-> 0, reserved |-> 0] BY DEF Init
<1>3. LotsChecked BY <1>2 DEF LotsChecked
<1>4. ASSUME NEW r \in Refs
      PROVE  /\ \A l \in Lots : row[r][l] = NoRow
             /\ phase[r] = "none" /\ journal[r] = [reserve |-> 0, release |-> 0, outbound |-> 0]
  BY DEF Init
<1>5. ASSUME NEW r \in Refs PROVE RowsOK(r)
  <2>1. RowsOf(r) = {} /\ HeldRows(r) = {} BY <1>4 DEF RowsOf, HeldRows, NoRow
  <2>2. \A l \in Lots : row[r][l].qty = 0 BY <1>4 DEF NoRow
  <2> QED BY <1>4, <2>1, <2>2 DEF RowsOK
<1>6. \A w \in Workers \cup Sweepers : tx[w] = NoTx BY DEF Init
<1>7. StockIsJournal
  <2>1. /\ SumFunctionOnSet(OnHand, Lots) = 0
        /\ SumFunctionOnSet(Reserved, Lots) = 0
        /\ SumFunctionOnSet(inbound, Lots) = 0
        /\ SumFunctionOnSet(Shipped, Refs) = 0
        /\ SumFunctionOnSet(Ordered, Refs) = 0
        /\ SumFunctionOnSet(Undone, Refs) = 0
    <3>1. \A l \in Lots : OnHand[l] = 0 /\ Reserved[l] = 0 /\ inbound[l] = 0
      BY <1>2 DEF OnHand, Reserved, Init
    <3>2. \A r \in Refs : Shipped[r] = 0 /\ Ordered[r] = 0 /\ Undone[r] = 0
      BY <1>4 DEF Shipped, Ordered, Undone
    <3> QED BY <3>1, <3>2, BooksFinite, SumZero
  <2> QED BY <1>1, <2>1, StockIs DEF TypeOK
<1>8. ReservedIsHeld
  <2>1. ASSUME NEW l \in Lots PROVE HeldOn(l) = 0
    <3>1. \A r \in Refs : HeldBy(l)[r] = 0 BY <1>4 DEF HeldBy, NoRow
    <3> QED BY <3>1, BooksFinite, SumZero, HeldIs
  <2> QED BY <1>2, <2>1 DEF ReservedIsHeld
<1> QED BY <1>1, <1>3, <1>5, <1>6, <1>7, <1>8 DEF InventoryInv, TxOK, OneLock

(* A step that moves no stock keeps the books as they are.                 *)
LEMMA Unmoved ==
  ASSUME UNCHANGED <<lot, row, journal, inbound>>, LotsChecked, StockIsJournal, ReservedIsHeld
  PROVE  LotsChecked' /\ StockIsJournal' /\ ReservedIsHeld'
<1>1. LotsChecked' BY DEF LotsChecked
<1>2. StockIsJournal' BY DEF StockIsJournal
<1>3. \A l : HeldOn(l)' = HeldOn(l) BY DEF HeldOn
<1>4. UndoneOnce' <=> UndoneOnce BY DEF UndoneOnce
<1> QED BY <1>1, <1>2, <1>3, <1>4 DEF ReservedIsHeld

(* inbound: the lot and the journal grow by the same quantity.             *)
LEMMA InvReceive ==
  ASSUME InventoryInv, NEW l \in Lots, NEW q \in Consignments, Receive(l, q)
  PROVE  InventoryInv'
<1> USE DEF InventoryInv
<1>1. q \in Nat \ {0} BY InventoryAssumption
<1>2. /\ lot' = [lot EXCEPT ![l].onHand = @ + q] /\ inbound' = [inbound EXCEPT ![l] = @ + q]
      /\ UNCHANGED <<spoiled, row, phase, journal, tx>>
  BY DEF Receive
<1>3. TypeOK'
  <2>1. [lot[l] EXCEPT !.onHand = @ + q] \in [onHand : Nat, reserved : Nat]
    <3>1. lot[l] \in [onHand : Nat, reserved : Nat] BY DEF TypeOK
    <3> QED BY <1>1, <3>1
  <2>2. lot' \in [Lots -> [onHand : Nat, reserved : Nat]] BY <1>2, <2>1 DEF TypeOK
  <2>3. inbound' \in [Lots -> Nat] BY <1>1, <1>2 DEF TypeOK
  <2> QED BY <1>2, <2>2, <2>3 DEF TypeOK
<1>4. \A k \in Lots : /\ lot'[k].onHand = lot[k].onHand + IF k = l THEN q ELSE 0
                      /\ lot'[k].reserved = lot[k].reserved
                      /\ inbound'[k] = inbound[k] + IF k = l THEN q ELSE 0
                      /\ lot[k].onHand \in Nat /\ lot[k].reserved \in Nat /\ inbound[k] \in Nat
  BY <1>1, <1>2 DEF TypeOK
<1>5. LotsChecked' BY <1>1, <1>4 DEF LotsChecked
<1>6. \A r \in Refs : RowsOK(r)' BY <1>2, RowsKept
<1>7. \A r : RowsOf(r)' = RowsOf(r) BY <1>2 DEF RowsOf
<1>8. \A w \in Workers \cup Sweepers : TxOK(w)' BY <1>2, <1>7 DEF TxOK
<1>9. OneLock' BY <1>2 DEF OneLock
<1>10. /\ SumFunctionOnSet(OnHand', Lots) = SumFunctionOnSet(OnHand, Lots) + OnHand'[l] - OnHand[l]
       /\ SumFunctionOnSet(inbound', Lots) = SumFunctionOnSet(inbound, Lots) + inbound'[l] - inbound[l]
       /\ SumFunctionOnSet(Reserved', Lots) = SumFunctionOnSet(Reserved, Lots)
  <2>1. \A k \in Lots : /\ OnHand'[k] = OnHand[k] + IF k = l THEN q ELSE 0
                        /\ Reserved'[k] = Reserved[k] /\ OnHand[k] \in Int
    BY <1>4 DEF OnHand, Reserved
  <2>2. \A k \in Lots : OnHand'[k] \in Int /\ inbound[k] \in Int /\ inbound'[k] \in Int
    BY <1>1, <1>4, <2>1
  <2>3. \A k \in Lots \ {l} : OnHand'[k] = OnHand[k] /\ inbound'[k] = inbound[k] BY <1>4, <2>1
  <2> QED BY <2>1, <2>2, <2>3, BooksFinite, SumChanges, SumEqual
<1>11. OnHand'[l] - OnHand[l] = q /\ inbound'[l] - inbound[l] = q BY <1>1, <1>4 DEF OnHand
<1>12. Shipped' = Shipped /\ Ordered' = Ordered /\ Undone' = Undone
  BY <1>2 DEF Shipped, Ordered, Undone
<1>13. StockIsJournal'
  <2>1. /\ SumFunctionOnSet(OnHand, Lots) \in Int /\ SumFunctionOnSet(inbound, Lots) \in Int
        /\ SumFunctionOnSet(Shipped, Refs) \in Int
        /\ OnHand'[l] \in Int /\ OnHand[l] \in Int /\ inbound'[l] \in Int /\ inbound[l] \in Int
    <3>1. \A k \in Lots : OnHand[k] \in Int /\ inbound[k] \in Int /\ OnHand'[k] \in Int /\ inbound'[k] \in Int
      BY <1>1, <1>4 DEF OnHand
    <3>2. \A r \in Refs : Shipped[r] \in Int BY DEF TypeOK, Shipped
    <3> QED BY <3>1, <3>2, BooksFinite, SumType
  <2>2. inbound \in [Lots -> Nat] /\ inbound' \in [Lots -> Nat] BY <1>3 DEF TypeOK
  <2> QED BY <1>1, <1>10, <1>11, <1>12, <2>1, <2>2, StockIs, StockIsNext
<1>14. ReservedIsHeld'
  <2>1. \A k : HeldOn(k)' = HeldOn(k) BY <1>2 DEF HeldOn
  <2>2. UndoneOnce' <=> UndoneOnce BY <1>2 DEF UndoneOnce
  <2> QED BY <1>4, <2>1, <2>2 DEF ReservedIsHeld
<1> QED BY <1>3, <1>5, <1>6, <1>8, <1>9, <1>13, <1>14

(* A lot passes its expiry: no book changes.                               *)
LEMMA InvSpoil ==
  ASSUME InventoryInv, NEW l \in Lots, Spoil(l)
  PROVE  InventoryInv'
<1> USE DEF InventoryInv
<1>1. spoiled' = spoiled \cup {l} /\ UNCHANGED <<lot, row, phase, journal, inbound, tx>>
  BY DEF Spoil
<1>2. TypeOK' BY <1>1 DEF TypeOK
<1>3. \A r \in Refs : RowsOK(r)' BY <1>1, RowsKept
<1>4. \A r : RowsOf(r)' = RowsOf(r) BY <1>1 DEF RowsOf
<1>5. \A w \in Workers \cup Sweepers : TxOK(w)' BY <1>1, <1>4 DEF TxOK
<1>6. OneLock' BY <1>1 DEF OneLock
<1> QED BY <1>1, <1>2, <1>3, <1>5, <1>6, Unmoved

(* The payment: no request of the order is in progress, so the only        *)
(* transactions that may see the new phase are orphan releases.            *)
LEMMA InvPay ==
  ASSUME InventoryInv, NEW r \in Refs, Pay(r)
  PROVE  InventoryInv'
<1> USE DEF InventoryInv
<1>1. /\ phase[r] = "placed" /\ ~\E w \in Workers : tx[w] # NoTx /\ tx[w].ref = r
      /\ phase' = [phase EXCEPT ![r] = "paid"]
      /\ UNCHANGED <<lot, spoiled, row, journal, inbound, tx>>
  BY DEF Pay
<1>2. TypeOK' BY <1>1 DEF TypeOK
<1>3. phase'[r] = "paid" /\ \A k \in Refs \ {r} : phase'[k] = phase[k] BY <1>1 DEF TypeOK
<1>4. \A k : /\ RowsOf(k)' = RowsOf(k) /\ HeldRows(k)' = HeldRows(k)
             /\ Quantities(k)' = Quantities(k)
  BY <1>1 DEF RowsOf, HeldRows, Quantities
<1>5. RowsOK(r)' BY <1>1, <1>3, <1>4 DEF RowsOK
<1>6. \A k \in Refs : RowsOK(k)' BY <1>1, <1>3, <1>5, RowsKept
<1>7. ASSUME NEW w \in Workers \cup Sweepers PROVE TxOK(w)'
  <2>1. TxOK(w) /\ tx[w] \in TxType \cup {NoTx} BY DEF TypeOK
  <2>2. CASE tx[w] # NoTx
    <3>1. tx[w].ref \in Refs /\ tx[w].kind \in {"cancel", "ship", "orphan"} BY <2>1, <2>2 DEF TxType
    <3>2. tx[w].kind = "orphan" \/ tx[w].ref # r BY <1>1, <2>1, <2>2, <3>1 DEF TxOK
    <3> QED BY <1>1, <1>3, <1>4, <2>1, <3>1, <3>2 DEF TxOK
  <2>3. CASE tx[w] = NoTx BY <1>1, <2>3 DEF TxOK
  <2> QED BY <2>2, <2>3
<1>8. OneLock' BY <1>1 DEF OneLock
<1> QED BY <1>1, <1>2, <1>6, <1>7, <1>8, Unmoved

(* A transaction that starts has read all rows of its order.               *)
LEMMA Started ==
  ASSUME InventoryInv, NEW w \in Workers \cup Sweepers, NEW r \in Refs,
         NEW kind \in {"cancel", "ship", "orphan"}, HeldRows(r) # {}, phase[r] # "none",
         kind = "cancel" => w \in Workers /\ phase[r] = "placed",
         kind = "ship" => w \in Workers /\ phase[r] = "paid",
         kind = "orphan" => phase[r] # "placed",
         kind # "orphan" => \A v \in Workers : tx[v] = NoTx \/ tx[v].ref # r,
         tx' = [tx EXCEPT ![w] = [kind |-> kind, ref |-> r, held |-> HeldRows(r)]],
         UNCHANGED <<lot, spoiled, row, phase, journal, inbound>>
  PROVE  InventoryInv'
<1> USE DEF InventoryInv
<1> DEFINE t == [kind |-> kind, ref |-> r, held |-> HeldRows(r)]
<1>1. HeldRows(r) = RowsOf(r) /\ HeldRows(r) \in SUBSET Lots BY DEF RowsOK, HeldRows
<1>2. t \in TxType /\ t # NoTx BY <1>1 DEF TxType, NoTx
<1>3. tx' = [tx EXCEPT ![w] = t] /\ tx'[w] = t /\ \A v \in (Workers \cup Sweepers) \ {w} : tx'[v] = tx[v]
  BY DEF TypeOK
<1>4. TypeOK' BY <1>2, <1>3 DEF TypeOK
<1>5. \A k \in Refs : RowsOK(k)' BY RowsKept
<1>6. \A k : RowsOf(k)' = RowsOf(k) BY DEF RowsOf
<1>7. ASSUME NEW v \in Workers \cup Sweepers PROVE TxOK(v)'
  <2>1. CASE v = w
    <3>1. tx'[v] = t /\ t.kind = kind /\ t.ref = r /\ t.held = RowsOf(r) BY <1>1, <1>3, <2>1
    <3> HIDE DEF t
    <3> QED BY <1>6, <2>1, <3>1 DEF TxOK
  <2>2. CASE v # w
    <3>1. tx'[v] = tx[v] BY <1>3, <2>2
    <3> QED BY <1>6, <3>1 DEF TxOK
  <2> QED BY <2>1, <2>2
<1>8. OneLock'
  <2> SUFFICES ASSUME NEW u \in Workers \cup Sweepers, NEW v \in Workers \cup Sweepers,
                      tx'[u] # NoTx, tx'[v] # NoTx, tx'[u].ref = tx'[v].ref,
                      tx'[u].kind # "orphan", tx'[v].kind # "orphan", u # v
               PROVE  FALSE
    BY DEF OneLock
  <2>1. \A x \in Workers \cup Sweepers : x # w => tx'[x] = tx[x] BY <1>3
  <2>2. \A x \in Workers \cup Sweepers : tx[x] # NoTx /\ tx[x].kind # "orphan" => x \in Workers
    BY DEF TypeOK, TxType, TxOK
  <2>3. tx'[w].kind = kind /\ tx'[w].ref = r BY <1>3
  <2>4. CASE u = w BY <2>1, <2>2, <2>3, <2>4
  <2>5. CASE v = w BY <2>1, <2>2, <2>3, <2>5
  <2>6. CASE u # w /\ v # w BY <2>1, <2>6 DEF OneLock
  <2> QED BY <2>4, <2>5, <2>6
<1> QED BY <1>4, <1>5, <1>7, <1>8, Unmoved

(* A cancellation or a shipment reads its rows.                            *)
LEMMA InvStart ==
  ASSUME InventoryInv, NEW w \in Workers, NEW r \in Refs, NEW kind \in {"cancel", "ship"},
         Start(w, r, kind)
  PROVE  InventoryInv'
<1>1. phase[r] = (IF kind = "cancel" THEN "placed" ELSE "paid") BY DEF Start, Startable
<1>2. HeldRows(r) # {} BY <1>1 DEF Start, Startable, InventoryInv, RowsOK
<1>3. /\ tx' = [tx EXCEPT ![w] = [kind |-> kind, ref |-> r, held |-> HeldRows(r)]]
      /\ UNCHANGED <<lot, spoiled, row, phase, journal, inbound>>
      /\ \A v \in Workers : tx[v] = NoTx \/ tx[v].ref # r
  BY DEF Start
<1> QED BY <1>1, <1>2, <1>3, Started

(* An orphan release reads its rows.                                       *)
LEMMA InvStartOrphan ==
  ASSUME InventoryInv, NEW s \in Sweepers, NEW r \in Refs, StartOrphan(s, r)
  PROVE  InventoryInv'
<1>1. /\ phase[r] \in {"paid", "shipped", "cancelled"} /\ HeldRows(r) # {}
      /\ tx' = [tx EXCEPT ![s] = [kind |-> "orphan", ref |-> r, held |-> HeldRows(r)]]
      /\ UNCHANGED <<lot, spoiled, row, phase, journal, inbound>>
  BY DEF StartOrphan
<1> QED BY <1>1, Started

(* A rollback changes nothing but the transaction.                         *)
LEMMA InvRollback ==
  ASSUME InventoryInv, NEW w \in Workers \cup Sweepers, Rollback(w)
  PROVE  InventoryInv'
<1> USE DEF InventoryInv
<1>1. /\ tx' = [tx EXCEPT ![w] = NoTx]
      /\ UNCHANGED <<lot, spoiled, row, phase, journal, inbound>>
  BY DEF Rollback
<1>2. \A v \in Workers \cup Sweepers : tx'[v] = tx[v] \/ tx'[v] = NoTx BY <1>1 DEF TypeOK
<1>3. TypeOK' BY <1>1 DEF TypeOK
<1>4. \A k \in Refs : RowsOK(k)' BY <1>1, RowsKept
<1>5. \A k : RowsOf(k)' = RowsOf(k) BY <1>1 DEF RowsOf
<1>6. \A v \in Workers \cup Sweepers : TxOK(v)' BY <1>1, <1>2, <1>5 DEF TxOK
<1>7. OneLock' BY <1>2 DEF OneLock
<1> QED BY <1>1, <1>3, <1>4, <1>6, <1>7, Unmoved

(* reserveInTx: the lots are locked, so the rows of the order, the         *)
(* reserved balances and the journal grow by the same quantities.          *)
LEMMA InvReserve ==
  ASSUME InventoryInv, NEW r \in Refs, Reserve(r)
  PROVE  InventoryInv'
<1> USE DEF InventoryInv
<1> DEFINE q == Qty[r]
           take == [l \in Lots |-> Take(l, q)]
<1>1. /\ phase[r] = "none" /\ SumFunctionOnSet(Available, Sellable) >= q
      /\ lot' = [l \in Lots |-> [lot[l] EXCEPT !.reserved = @ + Take(l, q)]]
      /\ row' = [row EXCEPT ![r] = [l \in Lots |->
           IF Take(l, q) > 0 THEN [qty |-> Take(l, q), status |-> "HELD"] ELSE NoRow]]
      /\ journal' = [journal EXCEPT ![r].reserve = q]
      /\ phase' = [phase EXCEPT ![r] = "placed"]
      /\ UNCHANGED <<spoiled, inbound, tx>>
  BY DEF Reserve
<1>2. q \in Nat \ {0} BY InventoryAssumption
<1>3. \A l \in Lots : take[l] = Take(l, q) /\ take[l] \in Nat /\ take[l] <= Available[l]
  BY <1>2, TakeIs
<1>4. SumFunctionOnSet(take, Lots) = q BY <1>1, <1>2, TakeAdds
<1>5. \A l \in Lots : /\ lot[l].onHand \in Nat /\ lot[l].reserved \in Nat
                      /\ Available[l] = lot[l].onHand - lot[l].reserved
  BY DEF TypeOK, Available
<1>6. \A l \in Lots : /\ lot'[l].onHand = lot[l].onHand
                      /\ lot'[l].reserved = lot[l].reserved + take[l]
  BY <1>1, <1>3 DEF TypeOK
<1>7. /\ \A l \in Lots : row'[r][l].qty = take[l] /\ row'[r][l].status = IF take[l] > 0 THEN "HELD" ELSE "NONE"
      /\ \A k \in Refs \ {r} : row'[k] = row[k]
  <2>1. row'[r] = [l \in Lots |-> IF take[l] > 0 THEN [qty |-> take[l], status |-> "HELD"] ELSE NoRow]
    BY <1>1 DEF TypeOK
  <2>2. \A l \in Lots : take[l] \in Nat BY <1>3
  <2> HIDE DEF take
  <2>3. \A l \in Lots : row'[r][l].qty = take[l] /\ row'[r][l].status = IF take[l] > 0 THEN "HELD" ELSE "NONE"
    BY <2>1, <2>2 DEF NoRow
  <2> QED BY <1>1, <2>3 DEF TypeOK
<1>8. /\ journal[r].reserve = 0 /\ journal[r].release = 0 /\ journal[r].outbound = 0
      /\ RowsOf(r) = {}
  BY <1>1 DEF RowsOK
<1>9. /\ journal'[r].reserve = q /\ journal'[r].release = 0 /\ journal'[r].outbound = 0
      /\ \A k \in Refs \ {r} : journal'[k] = journal[k]
  BY <1>1, <1>8 DEF TypeOK
<1>10. phase'[r] = "placed" /\ \A k \in Refs \ {r} : phase'[k] = phase[k] BY <1>1 DEF TypeOK
<1> HIDE DEF take, q
<1>11. TypeOK'
  <2>1. lot' \in [Lots -> [onHand : Nat, reserved : Nat]]
    <3>1. ASSUME NEW l \in Lots
          PROVE  [lot[l] EXCEPT !.reserved = @ + Take(l, q)] \in [onHand : Nat, reserved : Nat]
      <4>1. lot[l] \in [onHand : Nat, reserved : Nat] /\ Take(l, q) \in Nat BY <1>3 DEF TypeOK
      <4> QED BY <4>1
    <3> QED BY <1>1, <3>1
  <2>2. row' \in [Refs -> [Lots -> [qty : Nat, status : {"NONE", "HELD", "RELEASED", "CONSUMED"}]]]
    <3> DEFINE new == [l \in Lots |->
                 IF Take(l, q) > 0 THEN [qty |-> Take(l, q), status |-> "HELD"] ELSE NoRow]
               T == [qty : Nat, status : {"NONE", "HELD", "RELEASED", "CONSUMED"}]
    <3>1. ASSUME NEW l \in Lots PROVE new[l] \in T
      <4>1. Take(l, q) \in Nat BY <1>3
      <4>2. [qty |-> Take(l, q), status |-> "HELD"] \in T /\ NoRow \in T BY <4>1 DEF NoRow
      <4> QED BY <4>2
    <3>2. row' = [row EXCEPT ![r] = new] BY <1>1
    <3>3. row \in [Refs -> [Lots -> T]] BY DEF TypeOK
    <3>4. new \in [Lots -> T] BY <3>1
    <3> HIDE DEF new, T
    <3>5. row' \in [Refs -> [Lots -> T]] BY <3>2, <3>3, <3>4
    <3> QED BY <3>5 DEF T
  <2>3. journal' \in [Refs -> [reserve : Nat, release : Nat, outbound : Nat]]
    BY <1>1, <1>2, <1>9 DEF TypeOK
  <2>4. phase' \in [Refs -> {"none", "placed", "paid", "shipped", "cancelled"}] BY <1>1 DEF TypeOK
  <2> QED BY <1>1, <2>1, <2>2, <2>3, <2>4 DEF TypeOK
<1>12. LotsChecked' BY <1>3, <1>5, <1>6 DEF LotsChecked
<1>13. RowsOK(r)'
  <2> DEFINE S == {l \in Lots : take[l] > 0}
  <2>1. RowsOf(r)' = S /\ HeldRows(r)' = S BY <1>7 DEF RowsOf, HeldRows, NoRow
  <2>2. \A l \in Lots : Quantities(r)'[l] = take[l] /\ row'[r][l].qty = take[l]
    BY <1>3, <1>7 DEF Quantities, NoRow
  <2>3. S \in SUBSET Lots /\ \A l \in Lots \ S : take[l] = 0 BY <1>3
  <2>4. \A l \in Lots : row'[r][l].qty > 0 <=> l \in RowsOf(r)' BY <2>1, <2>2
  <2> HIDE DEF S
  <2>5. SumFunctionOnSet(take, S) = q
    <3>1. IsFiniteSet(S) /\ IsFiniteSet(Lots \ S) BY <2>3, LotsFinite
    <3>2. SumFunctionOnSet(take, Lots) = SumFunctionOnSet(take, S) + SumFunctionOnSet(take, Lots \ S)
      BY <1>3, <2>3, BooksFinite, SumSplit
    <3>3. SumFunctionOnSet(take, Lots \ S) = 0 BY <2>3, <3>1, SumZero
    <3>4. SumFunctionOnSet(take, S) \in Int BY <1>3, <2>3, <3>1, SumType
    <3> QED BY <1>4, <3>2, <3>3, <3>4
  <2>6. SumFunctionOnSet(Quantities(r)', S) = q
    <3>1. IsFiniteSet(S) /\ \A l \in S : Quantities(r)'[l] = take[l] BY <2>2, <2>3, LotsFinite
    <3> QED BY <2>5, <3>1, SumEqual
  <2>7. S # {} BY <1>2, <2>5, SumEmpty
  <2> QED BY <1>2, <1>9, <1>10, <2>1, <2>4, <2>6, <2>7 DEF RowsOK, q
<1>14. \A k \in Refs : RowsOK(k)' BY <1>7, <1>9, <1>10, <1>13, RowsKept
<1>15. ASSUME NEW w \in Workers \cup Sweepers PROVE TxOK(w)'
  <2>1. tx[w] \in TxType \cup {NoTx} /\ tx'[w] = tx[w] BY <1>1 DEF TypeOK
  <2>2. CASE tx[w] # NoTx
    <3>1. tx[w].ref \in Refs \ {r} BY <1>1, <2>1, <2>2 DEF TxType, TxOK
    <3>2. RowsOf(tx[w].ref)' = RowsOf(tx[w].ref)
      <4>1. tx'[w].ref = tx[w].ref /\ row'[tx[w].ref] = row[tx[w].ref] BY <1>7, <2>1, <3>1
      <4> QED BY <4>1 DEF RowsOf
    <3>3. TxOK(w) /\ phase'[tx[w].ref] = phase[tx[w].ref] BY <1>10, <3>1
    <3> QED BY <2>1, <3>2, <3>3 DEF TxOK
  <2>3. CASE tx[w] = NoTx BY <2>1, <2>3 DEF TxOK
  <2> QED BY <2>2, <2>3
<1>16. OneLock' BY <1>1 DEF OneLock
<1>17. StockIsJournal'
  <2>1. OnHand' = OnHand BY <1>6 DEF OnHand
  <2>2. Shipped' = Shipped /\ Undone' = Undone
    <3>1. \A k \in Refs : /\ journal'[k].outbound = journal[k].outbound
                          /\ journal'[k].release = journal[k].release
      BY <1>8, <1>9
    <3> QED BY <3>1 DEF Shipped, Undone
  <2>3. SumFunctionOnSet(Reserved', Lots) = SumFunctionOnSet(Reserved, Lots) + q
    <3>1. \A l \in Lots : Reserved[l] \in Int /\ take[l] \in Int /\ Reserved'[l] = Reserved[l] + take[l]
      BY <1>3, <1>5, <1>6 DEF Reserved
    <3> QED BY <1>4, <3>1, BooksFinite, SumPlus
  <2>4. SumFunctionOnSet(Ordered', Refs) = SumFunctionOnSet(Ordered, Refs) + Ordered'[r] - Ordered[r]
    <3>1. \A k \in Refs : Ordered[k] \in Int BY DEF TypeOK, Ordered
    <3>2. \A k \in Refs : Ordered'[k] \in Int BY <1>2, <1>9, <3>1 DEF Ordered
    <3>3. \A k \in Refs \ {r} : Ordered'[k] = Ordered[k] BY <1>9 DEF Ordered
    <3> QED BY <3>1, <3>2, <3>3, BooksFinite, SumChanges
  <2>5. Ordered'[r] = q /\ Ordered[r] = 0 BY <1>8, <1>9 DEF Ordered
  <2>6. /\ SumFunctionOnSet(Ordered, Refs) \in Int /\ SumFunctionOnSet(Undone, Refs) \in Int
    <3>1. \A k \in Refs : Ordered[k] \in Int /\ Undone[k] \in Int BY DEF TypeOK, Ordered, Undone
    <3> QED BY <3>1, BooksFinite, SumType
  <2>7. inbound \in [Lots -> Nat] /\ inbound' = inbound BY <1>1 DEF TypeOK
  <2> QED BY <1>2, <2>1, <2>2, <2>3, <2>4, <2>5, <2>6, <2>7, StockIs, StockIsNext
<1>18. ReservedIsHeld'
  <2> SUFFICES ASSUME UndoneOnce', NEW l \in Lots PROVE lot'[l].reserved = HeldOn(l)'
    BY DEF ReservedIsHeld
  <2>1. UndoneOnce
    <3>1. \A k \in Refs \ {r} : journal[k].release + journal[k].outbound <= journal[k].reserve
      BY <1>9 DEF UndoneOnce
    <3> QED BY <1>8, <3>1 DEF UndoneOnce
  <2>2. lot[l].reserved = HeldOn(l) BY <2>1 DEF ReservedIsHeld
  <2>3. HeldOn(l)' = HeldOn(l) + HeldBy(l)'[r] - HeldBy(l)[r]
    <3>1. \A k \in Refs : HeldBy(l)[k] \in Int BY DEF TypeOK, HeldBy
    <3>2. \A k \in Refs : HeldBy(l)'[k] \in Int BY <1>11 DEF TypeOK, HeldBy
    <3>3. \A k \in Refs \ {r} : HeldBy(l)'[k] = HeldBy(l)[k] BY <1>7 DEF HeldBy
    <3>4. SumFunctionOnSet(HeldBy(l)', Refs) = SumFunctionOnSet(HeldBy(l), Refs) + HeldBy(l)'[r] - HeldBy(l)[r]
      BY <3>1, <3>2, <3>3, BooksFinite, SumChanges
    <3> QED BY <3>4, HeldIs, HeldIsNext
  <2>4. HeldBy(l)'[r] = take[l] BY <1>3, <1>7 DEF HeldBy, NoRow
  <2>5. HeldBy(l)[r] = 0 BY <1>8 DEF HeldBy, RowsOf
  <2>6. lot'[l].reserved = lot[l].reserved + take[l] BY <1>6
  <2> QED BY <1>3, <1>5, <2>2, <2>3, <2>4, <2>5, <2>6
<1> QED BY <1>11, <1>12, <1>14, <1>15, <1>16, <1>17, <1>18

(* A release or an outbound movement undoes all rows of its order, held or *)
(* not: when it is the first to do so, as many are held as it undoes; the  *)
(* second leaves the journal with more undone than reserved.               *)
LEMMA Committed ==
  ASSUME InventoryInv, NEW w \in Workers \cup Sweepers, NEW t, t = tx[w], t # NoTx,
         NEW r, r = t.ref,
         NEW status \in {"RELEASED", "CONSUMED"},
         status = "CONSUMED" <=> t.kind = "ship",
         \A l \in Lots : Checks(After(t)[l]),
         lot' = After(t), Mark(t, status),
         journal' = IF t.kind = "ship"
                      THEN [journal EXCEPT ![r].outbound = @ + Moved(t)]
                      ELSE [journal EXCEPT ![r].release = @ + Moved(t)],
         phase' = IF t.kind = "ship" THEN [phase EXCEPT ![r] = "shipped"]
                  ELSE IF t.kind = "cancel" THEN [phase EXCEPT ![r] = "cancelled"]
                  ELSE phase,
         tx' = [tx EXCEPT ![w] = NoTx],
         UNCHANGED <<spoiled, inbound>>
  PROVE  InventoryInv'
<1> USE DEF InventoryInv
<1> DEFINE held == t.held
           q == Qty[r]
           ship == t.kind = "ship"
           moved == [l \in Lots |-> IF l \in held THEN row[r][l].qty ELSE 0]
<1>1. /\ t \in TxType /\ t # NoTx /\ r \in Refs /\ held \in SUBSET Lots
      /\ t.kind \in {"cancel", "ship", "orphan"}
  <2>1. t \in TxType BY DEF TypeOK
  <2> QED BY <2>1 DEF TxType
<1>2. /\ held = RowsOf(r) /\ phase[r] # "none"
      /\ ship => phase[r] = "paid"
      /\ t.kind = "cancel" => phase[r] = "placed"
      /\ t.kind = "orphan" => phase[r] # "placed"
      /\ t.kind # "orphan" => w \in Workers
  BY <1>1 DEF TxOK
<1>3. q \in Nat \ {0} BY <1>1, InventoryAssumption
<1>4. RowsOK(r) /\ journal[r].reserve = q /\ SumFunctionOnSet(Quantities(r), held) = q
      /\ (HeldRows(r) = {} => journal[r].release + journal[r].outbound >= q)
      /\ (ship => journal[r].outbound = 0)
      /\ HeldRows(r) \in {{}, held}
  BY <1>1, <1>2 DEF RowsOK
<1>5. Moved(t) = q BY <1>4 DEF Moved
<1>6. \A l \in Lots : /\ lot[l].onHand \in Nat /\ lot[l].reserved \in Nat
                      /\ row[r][l].qty \in Nat
                      /\ moved[l] = (IF l \in held THEN row[r][l].qty ELSE 0) /\ moved[l] \in Nat
  BY <1>1 DEF TypeOK
<1>7. \A l \in Lots : /\ lot'[l].onHand = lot[l].onHand - IF ship THEN moved[l] ELSE 0
                      /\ lot'[l].reserved = lot[l].reserved - moved[l]
  <2> SUFFICES ASSUME NEW l \in Lots
               PROVE  /\ lot'[l].onHand = lot[l].onHand - IF ship THEN moved[l] ELSE 0
                      /\ lot'[l].reserved = lot[l].reserved - moved[l]
    OBVIOUS
  <2>1. CASE l \in held BY <1>6, <2>1 DEF After
  <2>2. CASE l \notin held
    <3>1. lot'[l] = lot[l] /\ moved[l] = 0 BY <1>6, <2>2 DEF After
    <3> QED BY <1>6, <3>1
  <2> QED BY <2>1, <2>2
<1>8. \A l \in Lots : lot'[l].onHand >= 0 /\ lot'[l].reserved >= 0 /\ lot'[l].reserved <= lot'[l].onHand
  BY DEF Checks
<1> DEFINE RowType == [qty : Nat, status : {"NONE", "HELD", "RELEASED", "CONSUMED"}]
           marked == [l \in Lots |-> IF l \in held THEN [row[r][l] EXCEPT !.status = status] ELSE row[r][l]]
<1>9. /\ row \in [Refs -> [Lots -> RowType]] /\ row' = [row EXCEPT ![r] = marked]
      /\ \A k \in Refs \ {r} : row'[k] = row[k]
      /\ row'[r] = marked
  BY <1>1 DEF Mark, TypeOK
<1>10. /\ journal'[r].reserve = journal[r].reserve
       /\ journal'[r].release = journal[r].release + IF ship THEN 0 ELSE q
       /\ journal'[r].outbound = journal[r].outbound + IF ship THEN q ELSE 0
       /\ \A k \in Refs \ {r} : journal'[k] = journal[k]
       /\ journal[r].release \in Nat /\ journal[r].outbound \in Nat
  <2>1. CASE ship BY <1>1, <1>3, <1>5, <2>1 DEF TypeOK
  <2>2. CASE ~ship BY <1>1, <1>3, <1>5, <2>2 DEF TypeOK
  <2> QED BY <2>1, <2>2
<1>11. /\ phase'[r] = IF ship THEN "shipped" ELSE IF t.kind = "cancel" THEN "cancelled" ELSE phase[r]
       /\ \A k \in Refs \ {r} : phase'[k] = phase[k]
  BY <1>1 DEF TypeOK
<1>12. tx'[w] = NoTx /\ \A v \in (Workers \cup Sweepers) \ {w} : tx'[v] = tx[v] BY DEF TypeOK
<1>13. TypeOK'
  <2>1. lot' \in [Lots -> [onHand : Nat, reserved : Nat]]
    <3>1. ASSUME NEW l \in Lots PROVE After(t)[l] \in [onHand : Nat, reserved : Nat]
      <4>1. CASE l \in held
        <5>1. lot'[l].onHand \in Nat /\ lot'[l].reserved \in Nat BY <1>6, <1>7, <1>8
        <5>2. After(t)[l] = [onHand |-> lot'[l].onHand, reserved |-> lot'[l].reserved]
          BY <4>1 DEF After
        <5> QED BY <5>1, <5>2
      <4>2. CASE l \notin held BY <4>2 DEF After, TypeOK
      <4> QED BY <4>1, <4>2
    <3>2. After(t) = [l \in Lots |-> After(t)[l]] BY DEF After
    <3> QED BY <3>1, <3>2
  <2>2. row' \in [Refs -> [Lots -> RowType]]
    <3>1. ASSUME NEW l \in Lots PROVE marked[l] \in RowType
      <4>1. row[r][l] \in RowType BY <1>1 DEF TypeOK
      <4>2. [row[r][l] EXCEPT !.status = status] \in RowType BY <4>1
      <4> QED BY <4>1, <4>2
    <3>2. marked \in [Lots -> RowType] BY <3>1
    <3> HIDE DEF marked, RowType
    <3> QED BY <1>9, <3>2
  <2>3. journal' \in [Refs -> [reserve : Nat, release : Nat, outbound : Nat]]
    <3>1. journal[r] \in [reserve : Nat, release : Nat, outbound : Nat] /\ q \in Nat
      BY <1>1, <1>3 DEF TypeOK
    <3>2. /\ [journal[r] EXCEPT !.outbound = @ + q] \in [reserve : Nat, release : Nat, outbound : Nat]
          /\ [journal[r] EXCEPT !.release = @ + q] \in [reserve : Nat, release : Nat, outbound : Nat]
      BY <3>1
    <3>3. journal' = IF ship THEN [journal EXCEPT ![r] = [journal[r] EXCEPT !.outbound = @ + q]]
                     ELSE [journal EXCEPT ![r] = [journal[r] EXCEPT !.release = @ + q]]
      BY <1>5
    <3>4. journal \in [Refs -> [reserve : Nat, release : Nat, outbound : Nat]] BY DEF TypeOK
    <3> HIDE DEF q, ship
    <3>5. CASE ship BY <1>1, <3>2, <3>3, <3>4, <3>5
    <3>6. CASE ~ship BY <1>1, <3>2, <3>3, <3>4, <3>6
    <3> QED BY <3>5, <3>6
  <2>4. phase' \in [Refs -> {"none", "placed", "paid", "shipped", "cancelled"}] BY <1>1 DEF TypeOK
  <2>5. tx' \in [Workers \cup Sweepers -> TxType \cup {NoTx}] BY DEF TypeOK
  <2> QED BY <2>1, <2>2, <2>3, <2>4, <2>5 DEF TypeOK
<1> HIDE DEF held, q, ship, moved
<1>14. LotsChecked' BY <1>8 DEF LotsChecked
<1>15. /\ \A l \in Lots : row'[r][l].qty = row[r][l].qty
       /\ \A l \in Lots : row'[r][l].status = IF l \in held THEN status ELSE "NONE"
  <2> SUFFICES ASSUME NEW l \in Lots
               PROVE  /\ row'[r][l].qty = row[r][l].qty
                      /\ row'[r][l].status = IF l \in held THEN status ELSE "NONE"
    OBVIOUS
  <2>1. row[r][l] \in RowType BY <1>1, <1>9
  <2>2. row'[r][l] = IF l \in held THEN [row[r][l] EXCEPT !.status = status] ELSE row[r][l] BY <1>9
  <2>3. l \notin held => row[r][l].status = "NONE" BY <1>2 DEF RowsOf
  <2> QED BY <2>1, <2>2, <2>3
<1> HIDE DEF RowType, marked
<1>16. RowsOf(r)' = held /\ HeldRows(r)' = {} /\ Quantities(r)' = Quantities(r)
  BY <1>1, <1>15 DEF RowsOf, HeldRows, Quantities
<1>17. RowsOK(r)'
  <2>1. \A l \in Lots : row'[r][l].qty > 0 <=> l \in RowsOf(r)'
    BY <1>2, <1>4, <1>15, <1>16 DEF RowsOK
  <2>2. phase'[r] # "none" /\ phase'[r] # "placed" BY <1>1, <1>2, <1>11 DEF ship
  <2>3. held # {} BY <1>2, <1>4 DEF RowsOK
  <2>4. journal'[r].reserve = q /\ SumFunctionOnSet(Quantities(r)', held) = q BY <1>4, <1>10, <1>16
  <2>5. journal'[r].outbound = IF phase'[r] = "shipped" THEN Qty[r] ELSE 0
    <3>1. CASE ship BY <1>3, <1>4, <1>10, <1>11, <3>1 DEF q
    <3>2. CASE ~ship
      <4>1. journal'[r].outbound = journal[r].outbound BY <1>10, <3>2
      <4>2. phase'[r] = "shipped" <=> phase[r] = "shipped" BY <1>2, <1>11, <3>2
      <4> QED BY <1>4, <4>1, <4>2 DEF RowsOK
    <3> QED BY <3>1, <3>2
  <2>6. journal'[r].release + journal'[r].outbound >= q BY <1>3, <1>10
  <2> QED BY <1>16, <2>1, <2>2, <2>3, <2>4, <2>5, <2>6 DEF RowsOK, q
<1>18. \A k \in Refs : RowsOK(k)' BY <1>9, <1>10, <1>11, <1>17, RowsKept
<1>19. \A k \in Refs : RowsOf(k)' = RowsOf(k)
  <2>1. \A k \in Refs \ {r} : RowsOf(k)' = RowsOf(k) BY <1>9 DEF RowsOf
  <2> QED BY <1>2, <1>16, <2>1
<1>20. ASSUME NEW v \in Workers \cup Sweepers PROVE TxOK(v)'
  <2>1. CASE tx'[v] = NoTx BY <2>1 DEF TxOK
  <2>2. CASE tx'[v] # NoTx
    <3>1. v # w /\ tx'[v] = tx[v] /\ tx[v] # NoTx BY <1>12, <2>2
    <3>2. tx[v].ref \in Refs /\ tx[v].kind \in {"cancel", "ship", "orphan"}
      BY <3>1 DEF TypeOK, TxType
    <3>3. TxOK(v) OBVIOUS
    <3>4. RowsOf(tx[v].ref)' = RowsOf(tx[v].ref) BY <1>19, <3>1, <3>2
    <3>5. CASE tx[v].ref # r BY <1>11, <3>1, <3>2, <3>3, <3>4, <3>5 DEF TxOK
    <3>6. CASE tx[v].ref = r
      <4>1. t.kind = "orphan" \/ tx[v].kind = "orphan" BY <3>1, <3>6 DEF OneLock
      <4>2. CASE t.kind = "orphan"
        <5>1. phase'[r] = phase[r] BY <1>11, <4>2 DEF ship
        <5> QED BY <3>1, <3>2, <3>3, <3>4, <3>6, <5>1 DEF TxOK
      <4>3. CASE tx[v].kind = "orphan"
        <5>1. phase'[r] # "placed" /\ phase'[r] # "none"
          BY <1>2, <1>11, <3>1, <3>3, <3>6, <4>3 DEF TxOK
        <5> QED BY <3>1, <3>2, <3>3, <3>4, <3>6, <4>3, <5>1 DEF TxOK
      <4> QED BY <4>1, <4>2, <4>3
    <3> QED BY <3>5, <3>6
  <2> QED BY <2>1, <2>2
<1>21. OneLock'
  <2>1. \A v \in Workers \cup Sweepers : tx'[v] # NoTx => tx'[v] = tx[v] BY <1>12
  <2> QED BY <2>1 DEF OneLock
<1>22. SumFunctionOnSet(moved, Lots) = q
  <2>1. \A l \in Lots : Quantities(r)[l] = row[r][l].qty /\ Quantities(r)[l] \in Int
    BY <1>6 DEF Quantities
  <2>2. SumFunctionOnSet([l \in Lots |-> IF l \in held THEN Quantities(r)[l] ELSE 0], Lots) = q
    BY <1>1, <1>4, <2>1, BooksFinite, SumWithin
  <2>3. moved = [l \in Lots |-> IF l \in held THEN Quantities(r)[l] ELSE 0] BY <2>1 DEF moved
  <2> QED BY <2>2, <2>3
<1>23. StockIsJournal'
  <2>1. inbound \in [Lots -> Nat] /\ inbound' = inbound BY DEF TypeOK
  <2>2. /\ SumFunctionOnSet(Ordered, Refs) \in Int /\ SumFunctionOnSet(Undone, Refs) \in Int
        /\ SumFunctionOnSet(Shipped, Refs) \in Int /\ SumFunctionOnSet(inbound, Lots) \in Int
        /\ \A k \in Refs : Shipped[k] \in Int /\ Undone[k] \in Int
    <3>1. \A k \in Refs : Ordered[k] \in Int /\ Undone[k] \in Int /\ Shipped[k] \in Int
      BY DEF TypeOK, Ordered, Undone, Shipped
    <3>2. \A l \in Lots : inbound[l] \in Int BY DEF TypeOK
    <3> QED BY <3>1, <3>2, BooksFinite, SumType
  <2>3. Ordered' = Ordered BY <1>10 DEF Ordered
  <2>4. /\ SumFunctionOnSet(Undone', Refs) = SumFunctionOnSet(Undone, Refs) + Undone'[r] - Undone[r]
        /\ SumFunctionOnSet(Shipped', Refs) = SumFunctionOnSet(Shipped, Refs) + Shipped'[r] - Shipped[r]
    <3>0. r \in Refs /\ \A k \in Refs : Shipped[k] \in Int /\ Undone[k] \in Int BY <1>1, <2>2
    <3>1. \A k \in Refs : Undone'[k] \in Int /\ Shipped'[k] \in Int
      BY <1>13 DEF TypeOK, Undone, Shipped
    <3>2. \A k \in Refs \ {r} : Undone'[k] = Undone[k] /\ Shipped'[k] = Shipped[k]
      BY <1>10 DEF Undone, Shipped
    <3> QED BY <3>0, <3>1, <3>2, RefChanges
  <2>5. /\ Undone'[r] - Undone[r] = q /\ Undone[r] \in Int /\ Undone'[r] \in Int
        /\ Shipped'[r] - Shipped[r] = (IF ship THEN q ELSE 0) /\ Shipped[r] \in Int /\ Shipped'[r] \in Int
    <3>1. /\ Undone[r] = journal[r].release + journal[r].outbound
          /\ Undone'[r] = journal'[r].release + journal'[r].outbound
          /\ Shipped[r] = journal[r].outbound /\ Shipped'[r] = journal'[r].outbound
      BY <1>1 DEF Undone, Shipped
    <3>2. PICK g, o, g1, o1, u, u1 : /\ g = journal[r].release /\ o = journal[r].outbound
                                     /\ g1 = journal'[r].release /\ o1 = journal'[r].outbound
                                     /\ u = Undone[r] /\ u1 = Undone'[r]
      OBVIOUS
    <3>3. /\ g \in Int /\ o \in Int /\ q \in Int
          /\ g1 = (IF ship THEN g ELSE g + q) /\ o1 = (IF ship THEN o + q ELSE o)
      <4>1. g \in Int /\ o \in Int /\ q \in Int BY <1>3, <1>10, <3>2
      <4>2. CASE ship BY <1>10, <3>2, <4>1, <4>2
      <4>3. CASE ~ship BY <1>10, <3>2, <4>1, <4>3
      <4> QED BY <4>1, <4>2, <4>3
    <3>4. u = g + o /\ u1 = g1 + o1 BY <3>1, <3>2
    <3>5. /\ u1 - u = q /\ u \in Int /\ u1 \in Int
          /\ o1 - o = (IF ship THEN q ELSE 0) /\ o1 \in Int
      BY <3>3, <3>4
    <3> QED BY <3>1, <3>2, <3>3, <3>5
  <2>6. \A l \in Lots : /\ Reserved[l] \in Int /\ Reserved'[l] \in Int /\ OnHand[l] \in Int /\ OnHand'[l] \in Int
                        /\ moved[l] \in Int
                        /\ Reserved[l] = Reserved'[l] + moved[l]
                        /\ OnHand[l] = OnHand'[l] + IF ship THEN moved[l] ELSE 0
    BY <1>6, <1>7 DEF Reserved, OnHand
  <2>7. SumFunctionOnSet(Reserved, Lots) = SumFunctionOnSet(Reserved', Lots) + q
    BY <1>22, <2>6, BooksFinite, SumPlus
  <2>8. SumFunctionOnSet(OnHand, Lots) = SumFunctionOnSet(OnHand', Lots) + IF ship THEN q ELSE 0
    <3>1. CASE ship BY <1>22, <2>6, <3>1, BooksFinite, SumPlus
    <3>2. CASE ~ship
      <4>1. \A l \in Lots : OnHand[l] = OnHand'[l] BY <2>6, <3>2
      <4>2. SumFunctionOnSet(OnHand, Lots) = SumFunctionOnSet(OnHand', Lots)
        BY <4>1, BooksFinite, SumEqual
      <4>3. SumFunctionOnSet(OnHand', Lots) \in Int BY <2>6, BooksFinite, SumType
      <4> QED BY <3>2, <4>2, <4>3
    <3> QED BY <3>1, <3>2
  <2>9. SumFunctionOnSet(Reserved', Lots) \in Int /\ SumFunctionOnSet(OnHand', Lots) \in Int
    BY <2>6, BooksFinite, SumType
  <2> QED BY <1>3, <2>1, <2>2, <2>3, <2>4, <2>5, <2>7, <2>8, <2>9, StockIs, StockIsNext
<1>24. ReservedIsHeld'
  <2> SUFFICES ASSUME UndoneOnce', NEW l \in Lots PROVE lot'[l].reserved = HeldOn(l)'
    BY DEF ReservedIsHeld
  <2>1. UndoneOnce
    <3>1. \A k \in Refs \ {r} : journal[k].release + journal[k].outbound <= journal[k].reserve
      BY <1>10 DEF UndoneOnce
    <3>2. journal[r].release + journal[r].outbound <= journal[r].reserve
      <4>1. journal'[r].release + journal'[r].outbound <= journal'[r].reserve BY <1>1 DEF UndoneOnce
      <4> QED BY <1>3, <1>4, <1>10, <4>1
    <3> QED BY <3>1, <3>2 DEF UndoneOnce
  <2>2. HeldRows(r) = held
    <3>1. journal'[r].release + journal'[r].outbound <= q BY <1>1, <1>4, <1>10 DEF UndoneOnce
    <3>2. ~(journal[r].release + journal[r].outbound >= q) BY <1>3, <1>10, <3>1
    <3> QED BY <1>4, <3>2
  <2>3. lot[l].reserved = HeldOn(l) BY <2>1 DEF ReservedIsHeld
  <2>4. HeldOn(l)' = HeldOn(l) + HeldBy(l)'[r] - HeldBy(l)[r]
    <3>0. r \in Refs BY <1>1
    <3>1. \A k \in Refs : HeldBy(l)[k] \in Int BY DEF TypeOK, HeldBy
    <3>2. \A k \in Refs : HeldBy(l)'[k] \in Int BY <1>13 DEF TypeOK, HeldBy
    <3>3. \A k \in Refs \ {r} : HeldBy(l)'[k] = HeldBy(l)[k] BY <1>9 DEF HeldBy
    <3>4. SumFunctionOnSet(HeldBy(l)', Refs) = SumFunctionOnSet(HeldBy(l), Refs) + HeldBy(l)'[r] - HeldBy(l)[r]
      BY <3>0, <3>1, <3>2, <3>3, RefChanges
    <3> QED BY <3>4, HeldIs, HeldIsNext
  <2>5. HeldBy(l)'[r] = 0 BY <1>1, <1>15 DEF HeldBy
  <2>6. HeldBy(l)[r] = moved[l] BY <1>1, <1>6, <2>2 DEF HeldBy, HeldRows
  <2>7. lot'[l].reserved = lot[l].reserved - moved[l] BY <1>7
  <2> QED BY <1>6, <2>3, <2>4, <2>5, <2>6, <2>7
<1> QED BY <1>13, <1>14, <1>18, <1>20, <1>21, <1>23, <1>24

(* releaseInTx commits.                                                    *)
LEMMA InvCommitRelease ==
  ASSUME InventoryInv, NEW w \in Workers \cup Sweepers, CommitRelease(w)
  PROVE  InventoryInv'
<1>1. /\ tx[w].kind \in {"cancel", "orphan"} /\ \A l \in Lots : Checks(After(tx[w])[l])
      /\ lot' = After(tx[w]) /\ Mark(tx[w], "RELEASED")
      /\ journal' = [journal EXCEPT ![tx[w].ref].release = @ + Moved(tx[w])]
      /\ phase' = IF tx[w].kind = "cancel" THEN [phase EXCEPT ![tx[w].ref] = "cancelled"] ELSE phase
      /\ tx' = [tx EXCEPT ![w] = NoTx] /\ UNCHANGED <<spoiled, inbound>>
  BY DEF CommitRelease
<1>2. tx[w] # NoTx BY <1>1 DEF NoTx
<1>3. tx[w].kind # "ship" BY <1>1
<1>4. PICK t, r : t = tx[w] /\ r = t.ref OBVIOUS
<1> QED BY <1>1, <1>2, <1>3, <1>4, Committed

(* outboundInTx commits.                                                   *)
LEMMA InvCommitOutbound ==
  ASSUME InventoryInv, NEW w \in Workers \cup Sweepers, CommitOutbound(w)
  PROVE  InventoryInv'
<1>1. /\ tx[w].kind = "ship" /\ \A l \in Lots : Checks(After(tx[w])[l])
      /\ lot' = After(tx[w]) /\ Mark(tx[w], "CONSUMED")
      /\ journal' = [journal EXCEPT ![tx[w].ref].outbound = @ + Moved(tx[w])]
      /\ phase' = [phase EXCEPT ![tx[w].ref] = "shipped"]
      /\ tx' = [tx EXCEPT ![w] = NoTx] /\ UNCHANGED <<spoiled, inbound>>
  BY DEF CommitOutbound
<1>2. tx[w] # NoTx BY <1>1 DEF NoTx
<1>3. PICK t, r : t = tx[w] /\ r = t.ref OBVIOUS
<1> QED BY <1>1, <1>2, <1>3, Committed

(* The books of the inventory hold in every reachable state.               *)
THEOREM InventoryInvariance == Spec => []InventoryInv
<1>1. InventoryInv /\ [Next]_vars => InventoryInv'
  <2> SUFFICES ASSUME InventoryInv, [Next]_vars PROVE InventoryInv' OBVIOUS
  <2>1. ASSUME NEW l \in Lots, Spoil(l) PROVE InventoryInv' BY <2>1, InvSpoil
  <2>2. ASSUME NEW l \in Lots, NEW q \in Consignments, Receive(l, q) PROVE InventoryInv'
    BY <2>2, InvReceive
  <2>3. ASSUME NEW r \in Refs, Reserve(r) PROVE InventoryInv' BY <2>3, InvReserve
  <2>4. ASSUME NEW r \in Refs, Pay(r) PROVE InventoryInv' BY <2>4, InvPay
  <2>5. ASSUME NEW w \in Workers, NEW r \in Refs, NEW kind \in {"cancel", "ship"}, Start(w, r, kind)
        PROVE  InventoryInv'
    BY <2>5, InvStart
  <2>6. ASSUME NEW s \in Sweepers, NEW r \in Refs, StartOrphan(s, r) PROVE InventoryInv'
    BY <2>6, InvStartOrphan
  <2>7. ASSUME NEW w \in Workers \cup Sweepers, CommitRelease(w) PROVE InventoryInv'
    BY <2>7, InvCommitRelease
  <2>8. ASSUME NEW w \in Workers \cup Sweepers, CommitOutbound(w) PROVE InventoryInv'
    BY <2>8, InvCommitOutbound
  <2>9. ASSUME NEW w \in Workers \cup Sweepers, Rollback(w) PROVE InventoryInv'
    BY <2>9, InvRollback
  <2>10. CASE UNCHANGED vars
    <3>1. UNCHANGED <<lot, spoiled, row, phase, journal, inbound, tx>> BY <2>10 DEF vars
    <3>2. TypeOK' /\ OneLock' BY <3>1 DEF TypeOK, OneLock, InventoryInv
    <3>3. \A r \in Refs : RowsOK(r)' BY <3>1, RowsKept DEF InventoryInv
    <3>4. \A r : RowsOf(r)' = RowsOf(r) BY <3>1 DEF RowsOf
    <3>5. \A w \in Workers \cup Sweepers : TxOK(w)' BY <3>1, <3>4 DEF TxOK, InventoryInv
    <3> QED BY <3>1, <3>2, <3>3, <3>5, Unmoved DEF InventoryInv
  <2> QED BY <2>1, <2>2, <2>3, <2>4, <2>5, <2>6, <2>7, <2>8, <2>9, <2>10 DEF Next
<1> QED BY <1>1, InvInit, PTL DEF Spec

(* The balances are the cache of the journal, the rows held explain what   *)
(* is reserved unless an order was undone twice, and a shipped order took  *)
(* exactly what it ordered.                                                *)
THEOREM BooksAgreeAlways == Spec => []BooksAgree
<1>1. InventoryInv => BooksAgree
  <2> SUFFICES ASSUME InventoryInv PROVE BooksAgree OBVIOUS
  <2>1. ShippedInFull BY DEF InventoryInv, RowsOK, ShippedInFull
  <2> QED BY <2>1 DEF InventoryInv, BooksAgree
<1> QED BY <1>1, InventoryInvariance, PTL

(* Nothing stays available of the lots before one that is taken from.      *)
LEMMA TakeEarlier ==
  ASSUME TypeOK, LotsChecked, NEW q \in Nat, NEW l \in Lots, Take(l, q) > 0,
         NEW j \in Sellable, j < l
  PROVE  Take(j, q) = Available[j]
<1>1. j \in Lots /\ l \in Nat /\ j \in Nat BY InventoryAssumption DEF Sellable, Lots
<1>2. q > Before(l - 1)
  <2>1. Before(l - 1) \in Nat BY BeforeGrows
  <2> QED BY <2>1, TakeIs
<1>3. Before(j) <= Before(l - 1)
  <2> DEFINE A(k) == {i \in Sellable : i <= k}
  <2>1. A(l - 1) \in SUBSET Lots BY DEF Sellable
  <2>2. IsFiniteSet(A(l - 1)) /\ \A i \in A(l - 1) : Available[i] \in Nat
    BY <2>1, LotsFinite, AvailableNat
  <2>3. A(j) \in SUBSET A(l - 1)
    <3>1. \A i \in Sellable : i <= j => i <= l - 1 BY <1>1, InventoryAssumption DEF Sellable, Lots
    <3> QED BY <3>1
  <2> HIDE DEF A
  <2>4. SumFunctionOnSet(Available, A(j)) <= SumFunctionOnSet(Available, A(l - 1))
    BY <2>2, <2>3, SumSubset
  <2> QED BY <2>4 DEF Before, A
<1>4. /\ Before(j) = Available[j] + Before(j - 1)
      /\ Before(j) \in Nat /\ Before(j - 1) \in Nat /\ Before(l - 1) \in Nat /\ Available[j] \in Nat
  BY <1>1, BeforeGrows, AvailableNat
<1>5. Take(j, q) = IF q <= Before(j - 1) THEN 0
                   ELSE IF Available[j] <= q - Before(j - 1) THEN Available[j]
                   ELSE q - Before(j - 1)
  BY <1>1, TakeIs
<1> QED BY <1>2, <1>3, <1>4, <1>5

(* FIFO by expiry: stock is taken from a lot only when the sellable lots   *)
(* that expire before it are left with nothing available.                  *)
THEOREM EarliestFirst == Spec => FirstExpiredFirst
<1> DEFINE First ==
      \A r \in Refs, l \in Lots :
        row[r][l].status = "NONE" /\ row'[r][l].status = "HELD" =>
          \A j \in Sellable : j < l => lot'[j].reserved = lot'[j].onHand
<1>1. ASSUME row' = row PROVE First BY <1>1
<1>2. ASSUME InventoryInv, NEW r \in Refs, Reserve(r) PROVE First
  <2> SUFFICES ASSUME NEW k \in Refs, NEW l \in Lots, row[k][l].status = "NONE",
                      row'[k][l].status = "HELD", NEW j \in Sellable, j < l
               PROVE  lot'[j].reserved = lot'[j].onHand
    OBVIOUS
  <2> DEFINE q == Qty[r]
             new == [i \in Lots |->
                       IF Take(i, q) > 0 THEN [qty |-> Take(i, q), status |-> "HELD"] ELSE NoRow]
  <2>1. TypeOK /\ LotsChecked /\ q \in Nat BY <1>2, InventoryAssumption DEF InventoryInv
  <2>2. row' = [row EXCEPT ![r] = new] BY <1>2 DEF Reserve
  <2>3. k = r
    <3> HIDE DEF new
    <3> QED BY <2>1, <2>2 DEF TypeOK
  <2>4. row'[r][l] = IF Take(l, q) > 0 THEN [qty |-> Take(l, q), status |-> "HELD"] ELSE NoRow
    BY <2>1, <2>2 DEF TypeOK
  <2>5. Take(l, q) > 0 BY <2>3, <2>4 DEF NoRow
  <2>6. j \in Lots /\ Take(j, q) = Available[j] BY <2>1, <2>5, TakeEarlier DEF Sellable
  <2>7. lot'[j] = [lot[j] EXCEPT !.reserved = @ + Take(j, q)] BY <1>2, <2>6 DEF Reserve
  <2>8. lot[j] \in [onHand : Nat, reserved : Nat] BY <2>1, <2>6 DEF TypeOK
  <2>9. Available[j] = lot[j].onHand - lot[j].reserved BY <2>6 DEF Available
  <2> QED BY <2>6, <2>7, <2>8, <2>9
<1>3. ASSUME InventoryInv, NEW t \in TxType, NEW status \in {"RELEASED", "CONSUMED"}, Mark(t, status)
      PROVE  First
  <2> SUFFICES ASSUME NEW k \in Refs, NEW l \in Lots, row[k][l].status = "NONE"
               PROVE  row'[k][l].status # "HELD"
    OBVIOUS
  <2>1. /\ row \in [Refs -> [Lots -> [qty : Nat, status : {"NONE", "HELD", "RELEASED", "CONSUMED"}]]]
        /\ t.ref \in Refs
    BY <1>3 DEF InventoryInv, TypeOK, TxType
  <2>2. row'[k][l] \in {row[k][l], [row[k][l] EXCEPT !.status = status]}
    <3>1. CASE k = t.ref BY <1>3, <2>1, <3>1 DEF Mark
    <3>2. CASE k # t.ref BY <1>3, <2>1, <3>2 DEF Mark
    <3> QED BY <3>1, <3>2
  <2>3. row[k][l] \in [qty : Nat, status : {"NONE", "HELD", "RELEASED", "CONSUMED"}] BY <2>1
  <2> QED BY <2>2, <2>3
<1>4. InventoryInv /\ [Next]_vars => First \/ UNCHANGED vars
  <2> SUFFICES ASSUME InventoryInv, Next PROVE First BY DEF vars
  <2>1. ASSUME NEW w \in Workers \cup Sweepers, CommitRelease(w) \/ CommitOutbound(w) PROVE First
    <3>1. tx[w] \in TxType
      BY <2>1 DEF InventoryInv, TypeOK, CommitRelease, CommitOutbound, NoTx
    <3>2. Mark(tx[w], "RELEASED") \/ Mark(tx[w], "CONSUMED")
      BY <2>1 DEF CommitRelease, CommitOutbound
    <3>3. PICK t : t = tx[w] OBVIOUS
    <3> QED BY <1>3, <3>1, <3>2, <3>3
  <2>2. ASSUME NEW r \in Refs, Reserve(r) PROVE First BY <1>2, <2>2
  <2>3. ASSUME \/ \E l \in Lots : Spoil(l) \/ \E q \in Consignments : Receive(l, q)
               \/ \E r \in Refs : Pay(r)
               \/ \E w \in Workers, r \in Refs, kind \in {"cancel", "ship"} : Start(w, r, kind)
               \/ \E s \in Sweepers, r \in Refs : StartOrphan(s, r)
               \/ \E w \in Workers \cup Sweepers : Rollback(w)
        PROVE  row' = row
    BY <2>3 DEF Spoil, Receive, Pay, Start, StartOrphan, Rollback
  <2> HIDE DEF First
  <2> QED BY <1>1, <2>1, <2>2, <2>3 DEF Next
<1>5. FirstExpiredFirst <=> [][First]_vars BY DEF FirstExpiredFirst
<1> HIDE DEF First
<1> QED BY <1>4, <1>5, InventoryInvariance, PTL DEF Spec

=============================================================================
