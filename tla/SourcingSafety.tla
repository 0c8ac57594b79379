--------------------------- MODULE SourcingSafety ---------------------------
(***************************************************************************)
(* How an order comes into being, for any number of requests, suppliers,   *)
(* contracts and quotes: the properties of Sourcing, and of Pricing how a  *)
(* price is divided.  Handlers decide on what they read before they write; *)
(* the invariant says of each frame what of that is still true, and by     *)
(* which limit, version or count it stays so.                              *)
(***************************************************************************)
EXTENDS Sourcing, Sums

(* A placement has room in its contract for what it has still to write.    *)
OnePlacer == Cardinality(team \cap Placers) <= 1
PlacersBusy == \A b \in Placers : placing[b] # Free => b \in team
RoomLeft ==
  OnePlacer => \A b \in Placers, c \in Contracts :
    placing[b] # Free /\ placing[b].contract = c => Used(c) + Cardinality(placing[b].left) <= Cap
PlacementInv == PlacersBusy /\ ContractKept /\ RoomLeft

(* Rounds are taken up to the number of quotes, so a round that was        *)
(* counted is taken or it is the next.                                     *)
RoundsTaken ==
  \A r \in Rfqs, s \in Suppliers : \A k \in 1..Cardinality(QuotesOf(r, s)) :
    \E q \in QuotesOf(r, s) : quotes[q].round = k
RoundsCounted ==
  \A w \in Submitters : submitting[w].at = "write" =>
    submitting[w].round \in 1..(Cardinality(QuotesOf(submitting[w].rfq, submitting[w].supplier)) + 1)

(* Quotes are for RFQs there are; one acceptance at a time finds its RFQ   *)
(* as it was when it looked.                                               *)
OneAcceptor == Cardinality(team \cap Acceptors) <= 1
QuotesHaveRfq ==
  /\ \A q \in DOMAIN quotes : rfq[quotes[q].rfq] # NoRfq
  /\ \A w \in Submitters : submitting[w] # Free => rfq[submitting[w].rfq] # NoRfq
StillQuoting ==
  \A w \in Acceptors : accepting[w] # Free =>
    /\ w \in team /\ accepting[w].quote \in DOMAIN quotes
    /\ OneAcceptor => rfq[quotes[accepting[w].quote].rfq].status = "QUOTING"
QuotationInv == RoundsTaken /\ RoundsConsecutive /\ RoundsCounted /\ QuotesHaveRfq /\ StillQuoting

(* A move whose version is current was allowed from the current status; an *)
(* order is linked to one opportunity, once.                               *)
MovesAllowed ==
  \A b \in Brokers : working[b] # Free =>
    /\ working[b].opp \in DOMAIN opportunity
    /\ working[b].version <= opportunity[working[b].opp].version
    /\ working[b].at = "move" /\ working[b].version = opportunity[working[b].opp].version
         => Allowed(OpportunityTable, opportunity[working[b].opp].status, working[b].to, {"BROKER"})
Links(b) == working[b].at \in {"read", "link"}
LinksOnce ==
  /\ \A i \in DOMAIN opportunity : opportunity[i].won <= Len(orders)
  /\ \A b \in Brokers : Links(b) =>
       /\ working[b].order \in 1..Len(orders)
       /\ \A i \in DOMAIN opportunity : opportunity[i].won # working[b].order
       /\ \A a \in Brokers : Links(a) /\ working[a].order = working[b].order => a = b

(* The opportunity that a run is about to create is the only open one.     *)
OneMatcher == Cardinality(team \cap Matchers) <= 1
Rivals(signal, s) ==
  {i \in DOMAIN opportunity :
     /\ opportunity[i].signal = signal /\ opportunity[i].supplier = s
     /\ opportunity[i].status \in OpenStatus /\ opportunity[i].won = 0}
RunsLookFirst ==
  \A m \in Matchers :
    /\ matching[m] # Free => m \in team
    /\ matching[m].at = "create" =>
         /\ matching[m].supplier \in Suppliers
         /\ OneMatcher => Rivals(matching[m].signal, matching[m].supplier) = {}
BrokerageInv == MovesAllowed /\ LinksOnce /\ RunsLookFirst /\ OneOpenOpportunity

(* An intent is for an amount that Stripe takes.                           *)
IntentsPositive ==
  \A b \in Bills : bill[b] # Unpriced /\ bill[b].intent # NoIntent => bill[b].intent.amount > 0
PricingInv == IntentsPositive /\ BillsHold

SourcingInv == TypeOK /\ PlacementInv /\ QuotationInv /\ BrokerageInv /\ PricingInv
----------------------------------------------------------------------------
(* Orders, and what they use of a contract                                 *)

LEMMA Assumptions ==
  /\ IsFiniteSet(Suppliers) /\ IsFiniteSet(Placers) /\ NoContract \notin Contracts
  /\ IsFiniteSet(Acceptors) /\ IsFiniteSet(Matchers)
  /\ Cap \in Nat /\ Stock \in Nat /\ MaxOrders \in Nat /\ MaxAdds \in Nat
  /\ MaxQuotes \in Nat /\ MaxOpportunities \in Nat /\ MaxTouches \in Nat
BY PlacementAssumption, QuotationAssumption, BrokerageAssumption

LEMMA SeqFacts ==
  \A S : \A s \in Seq(S) : Len(s) \in Nat /\ DOMAIN s = 1..Len(s) /\ \A i \in DOMAIN s : s[i] \in S
OBVIOUS

(* The orders of a contract that are not cancelled.                        *)
UsedBy(c) == {i \in DOMAIN orders : orders[i].contract = c /\ orders[i].open}

LEMMA UsedFinite ==
  ASSUME orders \in Seq(OrderRow), NEW c
  PROVE  IsFiniteSet(UsedBy(c)) /\ Used(c) = Cardinality(UsedBy(c)) /\ Used(c) \in Nat
<1>1. DOMAIN orders = 1..Len(orders) /\ Len(orders) \in Nat BY SeqFacts
<1>2. IsFiniteSet(DOMAIN orders) BY <1>1, FS_Interval
<1>3. IsFiniteSet(UsedBy(c)) BY <1>2, FS_Subset DEF UsedBy
<1> QED BY <1>3, FS_CardinalityType DEF Used, UsedBy

(* A new order uses one unit of its contract, ...                          *)
LEMMA OrderWritten ==
  ASSUME PlacementTypeOK, NEW via \in {"DIRECT", "RFQ", "BROKER"}, NEW k \in Contracts \cup {NoContract},
         NEW quote \in Nat, NEW s \in Suppliers, WriteOrder(via, k, quote, s)
  PROVE  /\ orders' \in Seq(OrderRow) /\ Len(orders') = Len(orders) + 1 /\ Len(orders) \in Nat
         /\ DOMAIN orders' = DOMAIN orders \cup {Len(orders) + 1} /\ Len(orders) + 1 \notin DOMAIN orders
         /\ orders'[Len(orders) + 1].via = via /\ orders'[Len(orders) + 1].quote = quote
         /\ \A i \in DOMAIN orders : orders'[i] = orders[i]
         /\ available' \in [Suppliers -> Nat]
         /\ \A c \in Contracts : Used(c)' = IF c = k THEN Used(c) + 1 ELSE Used(c)
<1>1. PICK row : row = [via |-> via, contract |-> k, quote |-> quote, supplier |-> s, open |-> TRUE]
  OBVIOUS
<1>2. row \in OrderRow /\ row.contract = k /\ row.open /\ row.via = via /\ row.quote = quote
  BY <1>1 DEF OrderRow
<1>3. orders' = Append(orders, row) /\ orders \in Seq(OrderRow)
  BY <1>1 DEF WriteOrder, PlacementTypeOK
<1> HIDE DEF OrderRow
<1>4. /\ orders' \in Seq(OrderRow) /\ Len(orders') = Len(orders) + 1 /\ Len(orders) \in Nat
      /\ DOMAIN orders' = DOMAIN orders \cup {Len(orders) + 1} /\ Len(orders) + 1 \notin DOMAIN orders
      /\ orders'[Len(orders) + 1] = row
      /\ \A i \in DOMAIN orders : orders'[i] = orders[i]
  BY <1>2, <1>3, AppendTo
<1>5. available' \in [Suppliers -> Nat] BY DEF WriteOrder, PlacementTypeOK
<1>6. ASSUME NEW c \in Contracts PROVE Used(c)' = IF c = k THEN Used(c) + 1 ELSE Used(c)
  <2>1. IsFiniteSet(UsedBy(c)) /\ Used(c) = Cardinality(UsedBy(c)) /\ Used(c) \in Nat
    BY <1>3, UsedFinite
  <2>2. Used(c)' = Cardinality(UsedBy(c)') BY DEF Used, UsedBy
  <2>3. UsedBy(c)' = IF c = k THEN UsedBy(c) \cup {Len(orders) + 1} ELSE UsedBy(c)
    BY <1>2, <1>4 DEF UsedBy
  <2>4. Len(orders) + 1 \notin UsedBy(c) BY <1>4 DEF UsedBy
  <2>5. Cardinality(UsedBy(c) \cup {Len(orders) + 1}) = Cardinality(UsedBy(c)) + 1
    BY <2>1, <2>4, FS_AddElement
  <2> HIDE DEF UsedBy, Used
  <2>6. CASE c = k BY <2>1, <2>2, <2>3, <2>5, <2>6
  <2>7. CASE c # k BY <2>1, <2>2, <2>3, <2>7
  <2> QED BY <2>6, <2>7
<1> QED BY <1>2, <1>4, <1>5, <1>6

(* ... a cancelled one gives it back.                                      *)
LEMMA OrderCancelled ==
  ASSUME PlacementTypeOK, NEW i \in DOMAIN orders, CancelOrder(i)
  PROVE  /\ orders' \in Seq(OrderRow) /\ Len(orders') = Len(orders) /\ DOMAIN orders' = DOMAIN orders
         /\ available' \in [Suppliers -> Nat]
         /\ \A c \in Contracts : Used(c)' <= Used(c)
<1>1. PICK row : row = [orders[i] EXCEPT !.open = FALSE] OBVIOUS
<1>2. orders' = [orders EXCEPT ![i] = row] /\ orders \in Seq(OrderRow)
  BY <1>1 DEF CancelOrder, PlacementTypeOK
<1>3. orders[i] \in OrderRow BY <1>2, SeqFacts
<1>4. row \in OrderRow /\ ~row.open /\ orders[i].supplier \in Suppliers BY <1>1, <1>3 DEF OrderRow
<1>5. available' \in [Suppliers -> Nat] BY <1>4 DEF CancelOrder, PlacementTypeOK
<1> HIDE DEF OrderRow
<1>6. /\ orders' \in Seq(OrderRow) /\ Len(orders') = Len(orders) /\ DOMAIN orders' = DOMAIN orders
      /\ orders'[i] = row /\ \A j \in DOMAIN orders \ {i} : orders'[j] = orders[j]
  BY <1>2, <1>4, Replace
<1>7. ASSUME NEW c \in Contracts PROVE Used(c)' <= Used(c)
  <2>1. IsFiniteSet(UsedBy(c)) /\ Used(c) = Cardinality(UsedBy(c)) BY <1>2, UsedFinite
  <2>2. Used(c)' = Cardinality(UsedBy(c)') BY DEF Used, UsedBy
  <2>3. UsedBy(c)' \subseteq UsedBy(c) BY <1>4, <1>6 DEF UsedBy
  <2> QED BY <2>1, <2>2, <2>3, FS_Subset
<1> QED BY <1>5, <1>6, <1>7

(* Of one placement at a time, who places is the only one.                 *)
LEMMA Lone ==
  ASSUME NEW P, IsFiniteSet(P), Cardinality(team \cap P) <= 1,
         NEW a \in P, NEW b \in P, a \in team, b \in team
  PROVE  a = b
<1>1. IsFiniteSet(team \cap P) BY FS_Intersection
<1> QED BY <1>1, OneAtMost

----------------------------------------------------------------------------
(* Placement                                                               *)

LEMMA PlacingRow ==
  ASSUME PlacementTypeOK, NEW b \in Placers, placing[b] # Free
  PROVE  /\ placing[b] \in PlacingType /\ placing[b].at = "groups"
         /\ placing[b].left \in SUBSET Suppliers /\ placing[b].done \in SUBSET Suppliers
         /\ placing[b].contract \in Contracts \cup {NoContract}
         /\ IsFiniteSet(placing[b].left) /\ Cardinality(placing[b].left) \in Nat
<1>1. placing[b] \in PlacingType BY DEF PlacementTypeOK
<1>2. IsFiniteSet(Suppliers) BY Assumptions
<1>3. /\ placing[b].at = "groups"
      /\ placing[b].left \in SUBSET Suppliers /\ placing[b].done \in SUBSET Suppliers
      /\ placing[b].contract \in Contracts \cup {NoContract}
  BY <1>1 DEF PlacingType
<1> QED BY <1>1, <1>2, <1>3, FS_Subset, FS_CardinalityType

(* What the placements of one behaviour leave: room as long as no step     *)
(* adds to the use of a contract.                                          *)
LEMMA RoomStays ==
  ASSUME PlacementTypeOK, PlacementInv, team' = team,
         orders \in Seq(OrderRow), orders' \in Seq(OrderRow),
         \A c \in Contracts : Used(c)' <= Used(c),
         NEW b, \A x \in Placers \ {b} : placing'[x] = placing[x],
         b \in Placers => placing'[b] = Free \/ placing'[b] = placing[b]
  PROVE  PlacementInv'
<1>1. \A c \in Contracts : Used(c) \in Nat /\ Used(c)' \in Nat
  <2>1. \A c : Used(c) \in Nat BY UsedFinite
  <2>2. \A c : Used(c)' \in Nat
    <3> SUFFICES ASSUME NEW c PROVE Used(c)' \in Nat OBVIOUS
    <3>1. DOMAIN orders' = 1..Len(orders') /\ Len(orders') \in Nat BY SeqFacts
    <3>2. IsFiniteSet(DOMAIN orders') BY <3>1, FS_Interval
    <3>3. IsFiniteSet({i \in DOMAIN orders' : orders'[i].contract = c /\ orders'[i].open})
      BY <3>2, FS_Subset
    <3> QED BY <3>3, FS_CardinalityType DEF Used
  <2> QED BY <2>1, <2>2
<1>2. \A x \in Placers : placing'[x] # Free => placing[x] # Free /\ placing'[x] = placing[x] OBVIOUS
<1>3. PlacersBusy' BY <1>2 DEF PlacementInv, PlacersBusy
<1>4. ContractKept' BY <1>1, Assumptions DEF PlacementInv, ContractKept
<1>5. RoomLeft'
  <2> SUFFICES ASSUME OnePlacer', NEW x \in Placers, NEW c \in Contracts,
                      placing'[x] # Free, placing'[x].contract = c
               PROVE  Used(c)' + Cardinality(placing'[x].left) <= Cap
    BY DEF RoomLeft
  <2>1. placing[x] # Free /\ placing'[x] = placing[x] BY <1>2
  <2>2. OnePlacer BY DEF OnePlacer
  <2>3. Cardinality(placing[x].left) \in Nat BY <2>1, PlacingRow
  <2>4. Used(c) + Cardinality(placing[x].left) <= Cap BY <2>1, <2>2 DEF PlacementInv, RoomLeft
  <2>5. Used(c)' <= Used(c) /\ Used(c) \in Nat /\ Used(c)' \in Nat BY <1>1
  <2> HIDE DEF Used
  <2> QED BY <2>1, <2>3, <2>4, <2>5, Assumptions
<1> QED BY <1>3, <1>4, <1>5 DEF PlacementInv

LEMMA StartInv ==
  ASSUME PlacementTypeOK, PlacementInv, NEW b \in Placers, NEW items \in SUBSET Sellers,
         NEW c \in Contracts \cup {NoContract}, PlaceStart(b, items, c)
  PROVE  PlacementTypeOK' /\ PlacementInv'
<1>1. PICK row : row = [at |-> "groups", left |-> items, done |-> {}, contract |-> c] OBVIOUS
<1>2. items \in SUBSET Suppliers BY DEF Sellers
<1>3. row \in PlacingType /\ row.left = items /\ row.contract = c BY <1>1, <1>2 DEF PlacingType
<1>4. /\ placing' = [placing EXCEPT ![b] = row] /\ placing[b] = Free /\ b \in team
      /\ UNCHANGED <<orders, available, contract, cart, team>>
      /\ c # NoContract => HasCapacity(c, Cardinality(items))
  BY <1>1 DEF PlaceStart
<1>5. PlacementTypeOK' BY <1>3, <1>4 DEF PlacementTypeOK
<1>6. placing'[b] = row /\ \A x \in Placers \ {b} : placing'[x] = placing[x]
  BY <1>4 DEF PlacementTypeOK
<1>7. PlacersBusy' BY <1>4, <1>6 DEF PlacementInv, PlacersBusy
<1>8. \A k : Used(k)' = Used(k) BY <1>4 DEF Used
<1>9. ContractKept' BY <1>4, <1>8 DEF PlacementInv, ContractKept
<1>10. RoomLeft'
  <2> SUFFICES ASSUME OnePlacer', NEW x \in Placers, NEW k \in Contracts,
                      placing'[x] # Free, placing'[x].contract = k
               PROVE  Used(k)' + Cardinality(placing'[x].left) <= Cap
    BY DEF RoomLeft
  <2>1. CASE x = b
    <3>1. k = c /\ c # NoContract BY <1>3, <1>6, <2>1, Assumptions
    <3> QED BY <1>3, <1>4, <1>6, <1>8, <2>1, <3>1 DEF HasCapacity
  <2>2. CASE x # b BY <1>4, <1>6, <1>8, <2>2 DEF PlacementInv, RoomLeft, OnePlacer
  <2> QED BY <2>1, <2>2
<1> QED BY <1>5, <1>7, <1>9, <1>10 DEF PlacementInv

LEMMA GroupInv ==
  ASSUME PlacementTypeOK, PlacementInv, NEW b \in Placers, PlaceGroup(b)
  PROVE  PlacementTypeOK' /\ PlacementInv'
<1>1. PICK s \in placing[b].left :
        /\ WriteOrder("DIRECT", placing[b].contract, 0, s)
        /\ placing' = [placing EXCEPT ![b].left = @ \ {s}, ![b].done = @ \cup {s}]
  BY DEF PlaceGroup
<1>2. placing[b] # Free BY DEF PlaceGroup, Free
<1>3. PICK c \in Contracts \cup {NoContract} : c = placing[b].contract BY <1>2, PlacingRow
<1>4. s \in Suppliers /\ UNCHANGED <<contract, cart, team>> BY <1>1, <1>2, PlacingRow DEF PlaceGroup
<1>5. /\ orders' \in Seq(OrderRow) /\ available' \in [Suppliers -> Nat]
      /\ \A k \in Contracts : Used(k)' = IF k = c THEN Used(k) + 1 ELSE Used(k)
  BY <1>1, <1>3, <1>4, OrderWritten
<1>6. PICK row : row = [placing[b] EXCEPT !.left = @ \ {s}, !.done = @ \cup {s}] OBVIOUS
<1>7. placing[b] \in PlacingType BY <1>2, PlacingRow
<1>8. /\ row \in PlacingType /\ row.left = placing[b].left \ {s} /\ row.contract = c
  BY <1>3, <1>4, <1>6, <1>7 DEF PlacingType
<1>9. placing' = [placing EXCEPT ![b] = row] BY <1>1, <1>6, <1>7 DEF PlacingType
<1>10. placing'[b] = row /\ \A x \in Placers \ {b} : placing'[x] = placing[x]
  BY <1>9 DEF PlacementTypeOK
<1>11. PlacementTypeOK' BY <1>4, <1>5, <1>8, <1>9 DEF PlacementTypeOK
<1>12. PlacersBusy' BY <1>2, <1>4, <1>10 DEF PlacementInv, PlacersBusy
<1>13. PICK m \in Nat : m = Cardinality(placing[b].left) BY <1>2, PlacingRow
<1>14. Cardinality(row.left) = m - 1 /\ m >= 1
  <2>1. IsFiniteSet(placing[b].left) BY <1>2, PlacingRow
  <2>5. Cardinality(placing[b].left \ {s}) = Cardinality(placing[b].left) - 1
    BY <1>1, <2>1, FS_RemoveElement
  <2>2. Cardinality(row.left) = m - 1 BY <1>8, <1>13, <2>5
  <2>3. placing[b].left # {} BY <1>1
  <2>4. m # 0 BY <1>13, <2>1, <2>3, FS_EmptySet
  <2> QED BY <2>2, <2>4
<1>15. \A k : Used(k) \in Nat BY UsedFinite DEF PlacementTypeOK
<1>16. ASSUME OnePlacer PROVE \A x \in Placers : placing'[x] # Free => x = b
  <2> SUFFICES ASSUME NEW x \in Placers, placing'[x] # Free PROVE x = b OBVIOUS
  <2>1. x \in team /\ b \in team BY <1>2, <1>10 DEF PlacementInv, PlacersBusy
  <2> QED BY <1>16, <2>1, Lone, Assumptions DEF OnePlacer
<1>17. OnePlacer' => OnePlacer BY <1>4 DEF OnePlacer
<1>18. ASSUME OnePlacer, NEW k \in Contracts, k = c
       PROVE  Used(k)' + Cardinality(row.left) <= Cap /\ Used(k)' <= Cap
  <2>1. Used(k) + m <= Cap BY <1>2, <1>3, <1>13, <1>18 DEF PlacementInv, RoomLeft
  <2>2. Used(k)' = Used(k) + 1 BY <1>5, <1>18
  <2> HIDE DEF Used
  <2> QED BY <1>14, <1>15, <2>1, <2>2, Assumptions
<1>19. ContractKept'
  <2> SUFFICES ASSUME OnePlacer', NEW k \in Contracts PROVE Used(k)' <= Cap
    BY DEF ContractKept, OnePlacer
  <2>1. CASE k = c BY <1>17, <1>18, <2>1
  <2>2. CASE k # c BY <1>5, <1>17, <2>2 DEF PlacementInv, ContractKept, OnePlacer
  <2> QED BY <2>1, <2>2
<1>20. RoomLeft'
  <2> SUFFICES ASSUME OnePlacer', NEW x \in Placers, NEW k \in Contracts,
                      placing'[x] # Free, placing'[x].contract = k
               PROVE  Used(k)' + Cardinality(placing'[x].left) <= Cap
    BY DEF RoomLeft
  <2>1. x = b BY <1>16, <1>17
  <2>2. k = c BY <1>8, <1>10, <2>1
  <2> QED BY <1>10, <1>17, <1>18, <2>1, <2>2
<1> QED BY <1>11, <1>12, <1>19, <1>20 DEF PlacementInv

LEMMA CartRow ==
  ASSUME PlacementTypeOK
  PROVE  /\ \A items : Cleared(items) \in [Suppliers -> {NoItem} \cup [version : Nat, deleted : BOOLEAN]]
         /\ \A s \in Suppliers : cart[s].version \in Nat
<1>1. cart \in [Suppliers -> {NoItem} \cup [version : Nat, deleted : BOOLEAN]] BY DEF PlacementTypeOK
<1>2. ASSUME NEW s \in Suppliers, cart[s] # NoItem
      PROVE  [cart[s] EXCEPT !.deleted = TRUE] \in [version : Nat, deleted : BOOLEAN]
  BY <1>1, <1>2
<1>3. \A s \in Suppliers : cart[s].version \in Nat BY <1>1 DEF NoItem
<1> QED BY <1>1, <1>2, <1>3 DEF Cleared

LEMMA AddInv ==
  ASSUME PlacementTypeOK, NEW s \in Suppliers, AddToCart(s)
  PROVE  /\ cart' \in [Suppliers -> {NoItem} \cup [version : Nat, deleted : BOOLEAN]]
         /\ cart'[s].version # cart[s].version
         /\ \A x \in Suppliers \ {s} : cart'[x] = cart[x]
<1>1. cart \in [Suppliers -> {NoItem} \cup [version : Nat, deleted : BOOLEAN]] BY DEF PlacementTypeOK
<1>2. PICK n \in Nat : n = cart[s].version BY CartRow
<1>3. PICK item : item = IF cart[s] = NoItem THEN [version |-> 1, deleted |-> FALSE]
                         ELSE [cart[s] EXCEPT !.version = n + 1]
  OBVIOUS
<1>4. cart' = [cart EXCEPT ![s] = item]
  <2>1. CASE cart[s] = NoItem BY <1>1, <1>3, <2>1 DEF AddToCart
  <2>2. CASE cart[s] # NoItem
    <3>1. cart' = [cart EXCEPT ![s] = [cart[s] EXCEPT !.version = cart[s].version + 1]]
      BY <1>1, <2>2 DEF AddToCart
    <3> QED BY <1>2, <1>3, <2>2, <3>1
  <2> QED BY <2>1, <2>2
<1>5. item \in [version : Nat, deleted : BOOLEAN] /\ item.version # n
  <2>1. CASE cart[s] = NoItem
    <3>1. n = 0 BY <1>2, <2>1 DEF NoItem
    <3>2. item = [version |-> 1, deleted |-> FALSE] BY <1>3, <2>1
    <3> QED BY <3>1, <3>2
  <2>2. CASE cart[s] # NoItem
    <3>1. cart[s] \in [version : Nat, deleted : BOOLEAN] BY <1>1, <2>2
    <3>2. item = [cart[s] EXCEPT !.version = n + 1] BY <1>3, <2>2
    <3> QED BY <3>1, <3>2
  <2> QED BY <2>1, <2>2
<1> QED BY <1>1, <1>2, <1>4, <1>5

LEMMA PlacementStep ==
  ASSUME PlacementTypeOK, PlacementInv, PlacementNext
  PROVE  PlacementTypeOK' /\ PlacementInv'
<1>1. orders \in Seq(OrderRow) /\ \A c \in Contracts : Used(c) \in Nat
  BY UsedFinite DEF PlacementTypeOK
<1>2. ASSUME NEW c \in Contracts, CreateContract(c) \/ ContractLapses(c)
      PROVE  PlacementTypeOK' /\ PlacementInv'
  <2>1. UNCHANGED <<orders, available, cart, placing, team>> BY <1>2 DEF CreateContract, ContractLapses
  <2>2. contract' \in [Contracts -> {"none", "DRAFT", "ACTIVE", "lapsed"}]
    BY <1>2 DEF CreateContract, ContractLapses, PlacementTypeOK
  <2>3. PlacementTypeOK' BY <2>1, <2>2 DEF PlacementTypeOK
  <2>4. \A k \in Contracts : Used(k)' <= Used(k)
    <3>1. \A k \in Contracts : Used(k)' = Used(k) BY <2>1 DEF Used
    <3> QED BY <1>1, <3>1
  <2> QED BY <1>1, <2>1, <2>3, <2>4, RoomStays
<1>3. ASSUME NEW s \in Sellers, AddToCart(s) PROVE PlacementTypeOK' /\ PlacementInv'
  <2>1. UNCHANGED <<orders, available, contract, placing, team>> BY <1>3 DEF AddToCart
  <2>2. cart' \in [Suppliers -> {NoItem} \cup [version : Nat, deleted : BOOLEAN]]
    BY <1>3, AddInv DEF Sellers
  <2>3. PlacementTypeOK' BY <2>1, <2>2 DEF PlacementTypeOK
  <2>4. \A k \in Contracts : Used(k)' <= Used(k)
    <3>1. \A k \in Contracts : Used(k)' = Used(k) BY <2>1 DEF Used
    <3> QED BY <1>1, <3>1
  <2> QED BY <1>1, <2>1, <2>3, <2>4, RoomStays
<1>4. ASSUME NEW b \in Placers, PlaceFail(b) \/ PlaceDone(b) PROVE PlacementTypeOK' /\ PlacementInv'
  <2>1. placing' = [placing EXCEPT ![b] = Free] /\ UNCHANGED <<orders, available, contract, team>>
    BY <1>4 DEF PlaceFail, PlaceDone
  <2>2. cart' \in [Suppliers -> {NoItem} \cup [version : Nat, deleted : BOOLEAN]]
    BY <1>4, CartRow DEF PlaceFail, PlaceDone, PlacementTypeOK
  <2>3. PlacementTypeOK' BY <2>1, <2>2 DEF PlacementTypeOK
  <2>4. \A k \in Contracts : Used(k)' <= Used(k)
    <3>1. \A k \in Contracts : Used(k)' = Used(k) BY <2>1 DEF Used
    <3> QED BY <1>1, <3>1
  <2>5. placing'[b] = Free /\ \A x \in Placers \ {b} : placing'[x] = placing[x]
    BY <2>1 DEF PlacementTypeOK
  <2> QED BY <1>1, <2>1, <2>3, <2>4, <2>5, RoomStays
<1>5. ASSUME NEW i \in DOMAIN orders, CancelOrder(i) PROVE PlacementTypeOK' /\ PlacementInv'
  <2>1. UNCHANGED <<contract, cart, placing, team>> BY <1>5 DEF CancelOrder
  <2>2. /\ orders' \in Seq(OrderRow) /\ available' \in [Suppliers -> Nat]
        /\ \A c \in Contracts : Used(c)' <= Used(c)
    BY <1>5, OrderCancelled
  <2>3. PlacementTypeOK' BY <2>1, <2>2 DEF PlacementTypeOK
  <2> QED BY <1>1, <2>1, <2>2, <2>3, RoomStays
<1> QED BY <1>2, <1>3, <1>4, <1>5, StartInv, GroupInv DEF PlacementNext

----------------------------------------------------------------------------
(* Quotes                                                                  *)

LEMMA QuotesFinite ==
  ASSUME quotes \in Seq(QuoteRow), NEW r, NEW s
  PROVE  IsFiniteSet(QuotesOf(r, s)) /\ Cardinality(QuotesOf(r, s)) \in Nat
<1>1. DOMAIN quotes = 1..Len(quotes) /\ Len(quotes) \in Nat BY SeqFacts
<1>2. IsFiniteSet(DOMAIN quotes) BY <1>1, FS_Interval
<1>3. IsFiniteSet(QuotesOf(r, s)) BY <1>2, FS_Subset DEF QuotesOf
<1> QED BY <1>3, FS_CardinalityType

(* The status and the validity of quotes have no part in their rounds.     *)
SameQuotes ==
  /\ DOMAIN quotes' = DOMAIN quotes
  /\ \A q \in DOMAIN quotes :
       /\ quotes'[q].rfq = quotes[q].rfq /\ quotes'[q].supplier = quotes[q].supplier
       /\ quotes'[q].round = quotes[q].round

LEMMA RoundsSame ==
  ASSUME QuotationInv, SameQuotes
  PROVE  /\ \A r, s : QuotesOf(r, s)' = QuotesOf(r, s)
         /\ RoundsTaken' /\ RoundsConsecutive'
<1>1. \A r, s : QuotesOf(r, s)' = QuotesOf(r, s) BY DEF SameQuotes, QuotesOf
<1>2. \A r, s : \A q \in QuotesOf(r, s) : quotes'[q].round = quotes[q].round
  BY DEF SameQuotes, QuotesOf
<1> HIDE DEF QuotesOf
<1>3. RoundsTaken' BY <1>1, <1>2 DEF QuotationInv, RoundsTaken
<1>4. RoundsConsecutive' BY <1>1, <1>2 DEF QuotationInv, RoundsConsecutive
<1> QED BY <1>1, <1>3, <1>4

(* What is known of an RFQ: it stays, and it is QUOTING unless accepted.   *)
RfqsStay == \A r \in Rfqs : rfq[r] # NoRfq => rfq'[r] # NoRfq
QuotingStays == \A r \in Rfqs : rfq[r].status = "QUOTING" => rfq'[r].status = "QUOTING"

LEMMA RfqRows ==
  ASSUME QuotationTypeOK
  PROVE  /\ \A r \in Rfqs : rfq[r] # NoRfq => rfq[r] \in RfqRow /\ rfq[r].status \in RfqStatus
         /\ \A x \in RfqRow : x # NoRfq
         /\ \A r \in Rfqs : rfq[r].status \in RfqStatus => rfq[r] # NoRfq
BY DEF QuotationTypeOK, RfqRow, NoRfq, RfqStatus

(* An RFQ that there is gets another status.                               *)
LEMMA RfqSet ==
  ASSUME QuotationTypeOK, NEW r \in Rfqs, rfq[r] # NoRfq, NEW status \in RfqStatus,
         rfq' = [rfq EXCEPT ![r].status = status]
  PROVE  /\ rfq' \in [Rfqs -> RfqRow \cup {NoRfq}] /\ RfqsStay
         /\ rfq'[r].status = status /\ \A x \in Rfqs \ {r} : rfq'[x] = rfq[x]
<1>1. PICK row : row = [rfq[r] EXCEPT !.status = status] OBVIOUS
<1>2. rfq[r] \in RfqRow BY RfqRows
<1>3. row \in RfqRow /\ row.status = status BY <1>1, <1>2 DEF RfqRow
<1>4. rfq' = [rfq EXCEPT ![r] = row] BY <1>1
<1>5. row # NoRfq BY <1>3, RfqRows
<1> QED BY <1>3, <1>4, <1>5 DEF QuotationTypeOK, RfqsStay

(* Requests that wait are as before, and one may have ended.               *)
Ending(f, x) == \A y \in DOMAIN f : f'[y] = f[y] \/ (y = x /\ f'[y] = Free)

LEMMA SubmissionRow ==
  ASSUME QuotationTypeOK, NEW w \in Submitters, submitting[w] # Free
  PROVE  /\ submitting[w] \in SubmittingType /\ submitting[w].at \in {"count", "write"}
         /\ submitting[w].rfq \in Rfqs /\ submitting[w].supplier \in Suppliers
         /\ submitting[w].round \in Nat /\ submitting[w].seen \in RfqStatus
BY DEF QuotationTypeOK, SubmittingType

LEMMA QuoteRows ==
  ASSUME QuotationTypeOK
  PROVE  /\ Len(quotes) \in Nat /\ DOMAIN quotes = 1..Len(quotes) /\ quotes \in Seq(QuoteRow)
         /\ \A q \in DOMAIN quotes :
              /\ quotes[q] \in QuoteRow /\ quotes[q].rfq \in Rfqs /\ quotes[q].supplier \in Suppliers
              /\ quotes[q].round \in Nat
<1>1. quotes \in Seq(QuoteRow) BY DEF QuotationTypeOK
<1>2. /\ Len(quotes) \in Nat /\ DOMAIN quotes = 1..Len(quotes)
      /\ \A q \in DOMAIN quotes : quotes[q] \in QuoteRow
  BY <1>1, SeqFacts
<1> QED BY <1>1, <1>2 DEF QuoteRow

(* Steps that leave quotes and requests alone.                             *)
LEMMA QuotesStay ==
  ASSUME QuotationTypeOK, QuotationInv, SameQuotes, RfqsStay, QuotingStays,
         UNCHANGED <<submitting, accepting, team>>
  PROVE  QuotationInv'
<1>1. (\A r, s : QuotesOf(r, s)' = QuotesOf(r, s)) /\ RoundsTaken' /\ RoundsConsecutive'
  BY RoundsSame
<1>2. RoundsCounted' BY <1>1 DEF QuotationInv, RoundsCounted
<1>3. \A q \in DOMAIN quotes : quotes[q].rfq \in Rfqs BY QuoteRows
<1>4. QuotesHaveRfq'
  BY <1>3, SubmissionRow DEF QuotationInv, QuotesHaveRfq, SameQuotes, RfqsStay
<1>5. StillQuoting'
  BY <1>3 DEF QuotationInv, StillQuoting, SameQuotes, QuotingStays, OneAcceptor
<1> QED BY <1>1, <1>2, <1>4, <1>5 DEF QuotationInv

LEMMA RfqSteps ==
  ASSUME QuotationTypeOK, QuotationInv, NEW r \in Rfqs, CreateRfq(r) \/ Deadline(r)
  PROVE  QuotationTypeOK' /\ QuotationInv'
<1>1. UNCHANGED <<quotes, submitting, accepting, team>>
  BY DEF CreateRfq, Deadline, placementVars
<1>2. SameQuotes BY <1>1 DEF SameQuotes
<1>3. PICK row \in RfqRow :
        /\ rfq' = [rfq EXCEPT ![r] = row]
        /\ rfq[r] # NoRfq => row.status = rfq[r].status
  <2>1. CASE CreateRfq(r)
    <3>1. [status |-> "OPEN", due |-> FALSE] \in RfqRow BY DEF RfqRow, RfqStatus
    <3> QED BY <2>1, <3>1 DEF CreateRfq
  <2>2. CASE Deadline(r)
    <3>1. PICK row : row = [rfq[r] EXCEPT !.due = TRUE] OBVIOUS
    <3>2. rfq[r] \in RfqRow BY <2>2, RfqRows DEF Deadline
    <3>3. row \in RfqRow /\ row.status = rfq[r].status BY <3>1, <3>2 DEF RfqRow
    <3>4. rfq' = [rfq EXCEPT ![r] = row] BY <2>2, <3>1 DEF Deadline
    <3> QED BY <3>3, <3>4
  <2> QED BY <2>1, <2>2
<1>4. row # NoRfq BY RfqRows
<1>5. rfq' \in [Rfqs -> RfqRow \cup {NoRfq}] BY <1>3 DEF QuotationTypeOK
<1>6. rfq'[r] = row /\ \A x \in Rfqs \ {r} : rfq'[x] = rfq[x] BY <1>3 DEF QuotationTypeOK
<1>7. RfqsStay BY <1>4, <1>6 DEF RfqsStay
<1>8. QuotingStays BY <1>3, <1>6 DEF QuotingStays, NoRfq
<1>9. QuotationTypeOK' BY <1>1, <1>5 DEF QuotationTypeOK
<1> QED BY <1>1, <1>2, <1>7, <1>8, <1>9, QuotesStay

LEMMA ValidityInv ==
  ASSUME QuotationTypeOK, QuotationInv, NEW q \in DOMAIN quotes, ValidityEnds(q)
  PROVE  QuotationTypeOK' /\ QuotationInv'
<1>1. PICK row : row = [quotes[q] EXCEPT !.valid = FALSE] OBVIOUS
<1>2. quotes \in Seq(QuoteRow) /\ quotes[q] \in QuoteRow BY SeqFacts DEF QuotationTypeOK
<1>3. /\ row \in QuoteRow /\ row.rfq = quotes[q].rfq /\ row.supplier = quotes[q].supplier
      /\ row.round = quotes[q].round
  BY <1>1, <1>2 DEF QuoteRow
<1>4. quotes' = [quotes EXCEPT ![q] = row] BY <1>1 DEF ValidityEnds
<1>5. /\ quotes' \in Seq(QuoteRow) /\ DOMAIN quotes' = DOMAIN quotes /\ quotes'[q] = row
      /\ \A x \in DOMAIN quotes \ {q} : quotes'[x] = quotes[x]
  <2> HIDE DEF QuoteRow
  <2> QED BY <1>2, <1>3, <1>4, Replace
<1>6. UNCHANGED <<rfq, submitting, accepting, team>> BY DEF ValidityEnds, placementVars
<1>7. SameQuotes BY <1>3, <1>5 DEF SameQuotes
<1>8. RfqsStay /\ QuotingStays BY <1>6 DEF RfqsStay, QuotingStays
<1>9. QuotationTypeOK' BY <1>5, <1>6 DEF QuotationTypeOK
<1> QED BY <1>6, <1>7, <1>8, <1>9, QuotesStay

LEMMA SubmitStartInv ==
  ASSUME QuotationTypeOK, QuotationInv, NEW w \in Submitters, NEW r \in Rfqs, NEW s \in Suppliers,
         SubmitStart(w, r, s)
  PROVE  QuotationTypeOK' /\ QuotationInv'
<1>1. rfq[r] \in RfqRow /\ rfq[r].status \in RfqStatus BY RfqRows DEF SubmitStart
<1>2. PICK row \in SubmittingType :
        submitting' = [submitting EXCEPT ![w] = row] /\ row.at = "count" /\ row.rfq = r
  <2>1. [at |-> "count", rfq |-> r, supplier |-> s, seen |-> rfq[r].status, round |-> 0] \in SubmittingType
    BY <1>1 DEF SubmittingType
  <2> QED BY <2>1 DEF SubmitStart
<1>3. UNCHANGED <<rfq, quotes, accepting, team>> /\ rfq[r] # NoRfq BY DEF SubmitStart, placementVars
<1>4. submitting'[w] = row /\ \A x \in Submitters \ {w} : submitting'[x] = submitting[x]
  BY <1>2 DEF QuotationTypeOK
<1>5. QuotationTypeOK' BY <1>2, <1>3 DEF QuotationTypeOK
<1>6. SameQuotes BY <1>3 DEF SameQuotes
<1>7. (\A x, y : QuotesOf(x, y)' = QuotesOf(x, y)) /\ RoundsTaken' /\ RoundsConsecutive'
  BY <1>6, RoundsSame
<1>8. RoundsCounted' BY <1>2, <1>4, <1>7 DEF QuotationInv, RoundsCounted
<1>9. QuotesHaveRfq' BY <1>2, <1>3, <1>4 DEF QuotationInv, QuotesHaveRfq
<1>10. StillQuoting' BY <1>3 DEF QuotationInv, StillQuoting, OneAcceptor
<1> QED BY <1>5, <1>7, <1>8, <1>9, <1>10 DEF QuotationInv

LEMMA SubmitCountInv ==
  ASSUME QuotationTypeOK, QuotationInv, NEW w \in Submitters, SubmitCount(w)
  PROVE  QuotationTypeOK' /\ QuotationInv'
<1>1. submitting[w] # Free BY DEF SubmitCount, Free
<1>2. PICK n \in Nat : n = Cardinality(QuotesOf(submitting[w].rfq, submitting[w].supplier))
  BY QuotesFinite DEF QuotationTypeOK
<1>17. PICK next \in Nat : next = n + 1 OBVIOUS
<1>3. PICK row : row = [submitting[w] EXCEPT !.at = "write", !.round = next] OBVIOUS
<1>4. submitting[w] \in SubmittingType BY <1>1, SubmissionRow
<1>5. /\ row \in SubmittingType /\ row.rfq = submitting[w].rfq
      /\ row.supplier = submitting[w].supplier /\ row.round = next
  BY <1>3, <1>4 DEF SubmittingType
<1>6. submitting' = [submitting EXCEPT ![w].at = "write", ![w].round = next]
  BY <1>2, <1>17 DEF SubmitCount
<1>7. submitting' = [submitting EXCEPT ![w] = row] BY <1>3, <1>4, <1>6 DEF SubmittingType
<1>8. UNCHANGED <<rfq, quotes, accepting, team>> BY DEF SubmitCount, placementVars
<1>9. submitting'[w] = row /\ \A x \in Submitters \ {w} : submitting'[x] = submitting[x]
  BY <1>7 DEF QuotationTypeOK
<1>10. QuotationTypeOK' BY <1>5, <1>7, <1>8 DEF QuotationTypeOK
<1>11. SameQuotes BY <1>8 DEF SameQuotes
<1>12. (\A x, y : QuotesOf(x, y)' = QuotesOf(x, y)) /\ RoundsTaken' /\ RoundsConsecutive'
  BY <1>11, RoundsSame
<1>13. next \in 1..(n + 1) BY <1>17
<1>14. RoundsCounted'
  <2> SUFFICES ASSUME NEW x \in Submitters, submitting'[x].at = "write"
               PROVE  submitting'[x].round \in
                        1..(Cardinality(QuotesOf(submitting'[x].rfq, submitting'[x].supplier)) + 1)
    BY <1>12 DEF RoundsCounted
  <2>1. CASE x = w BY <1>2, <1>5, <1>9, <1>13, <2>1
  <2>2. CASE x # w BY <1>9, <2>2 DEF QuotationInv, RoundsCounted
  <2> QED BY <2>1, <2>2
<1>15. QuotesHaveRfq' BY <1>1, <1>5, <1>8, <1>9 DEF QuotationInv, QuotesHaveRfq
<1>16. StillQuoting' BY <1>8 DEF QuotationInv, StillQuoting, OneAcceptor
<1> QED BY <1>10, <1>12, <1>14, <1>15, <1>16 DEF QuotationInv

(* A quote with the next round.                                            *)
LEMMA NextRound ==
  ASSUME QuotationTypeOK, QuotationInv, NEW f \in SubmittingType, ~RoundTaken(f),
         f.round \in 1..(Cardinality(QuotesOf(f.rfq, f.supplier)) + 1),
         NEW row \in QuoteRow, row.rfq = f.rfq, row.supplier = f.supplier, row.round = f.round,
         quotes' = Append(quotes, row)
  PROVE  /\ quotes' \in Seq(QuoteRow) /\ DOMAIN quotes \subseteq DOMAIN quotes'
         /\ \A q \in DOMAIN quotes : quotes'[q] = quotes[q]
         /\ \A q \in DOMAIN quotes' \ DOMAIN quotes : quotes'[q] = row
         /\ RoundsTaken' /\ RoundsConsecutive'
         /\ \A r, s : Cardinality(QuotesOf(r, s)) <= Cardinality(QuotesOf(r, s)')
<1>1. /\ quotes' \in Seq(QuoteRow) /\ Len(quotes) \in Nat /\ DOMAIN quotes = 1..Len(quotes)
      /\ DOMAIN quotes' = DOMAIN quotes \cup {Len(quotes) + 1} /\ Len(quotes) + 1 \notin DOMAIN quotes
      /\ quotes'[Len(quotes) + 1] = row
      /\ \A q \in DOMAIN quotes : quotes'[q] = quotes[q]
  <2> HIDE DEF QuoteRow
  <2> QED BY AppendTo DEF QuotationTypeOK
<1>2. PICK new \in Nat : new = Len(quotes) + 1 BY <1>1
<1>3. new \notin DOMAIN quotes /\ \A q \in DOMAIN quotes : q \in Nat /\ q < new BY <1>1, <1>2
<1> DEFINE Q(r, s) == QuotesOf(r, s)
<1>4. ASSUME NEW r, NEW s
      PROVE  Q(r, s)' = IF r = f.rfq /\ s = f.supplier THEN Q(r, s) \cup {new} ELSE Q(r, s)
  BY <1>1, <1>2, <1>3 DEF QuotesOf
<1>5. \A r, s : IsFiniteSet(Q(r, s)) /\ Cardinality(Q(r, s)) \in Nat /\ Q(r, s) \subseteq DOMAIN quotes
  <2>1. quotes \in Seq(QuoteRow) BY DEF QuotationTypeOK
  <2>2. \A r, s : QuotesOf(r, s) \subseteq DOMAIN quotes BY DEF QuotesOf
  <2> QED BY <2>1, <2>2, QuotesFinite
<1>6. PICK n \in Nat : n = Cardinality(Q(f.rfq, f.supplier)) BY <1>5
<1>7. f.round = n + 1
  <2>1. f.rfq \in Rfqs /\ f.supplier \in Suppliers BY DEF SubmittingType
  <2>2. \A k \in 1..n : \E q \in Q(f.rfq, f.supplier) : quotes[q].round = k
    BY <1>6, <2>1 DEF QuotationInv, RoundsTaken
  <2>3. f.round \notin 1..n BY <2>2 DEF RoundTaken
  <2> QED BY <1>6, <2>3
<1>8. new \notin Q(f.rfq, f.supplier) BY <1>3, <1>5
<1>9. Cardinality(Q(f.rfq, f.supplier) \cup {new}) = n + 1 BY <1>5, <1>6, <1>8, FS_AddElement
<1>10. row.round = n + 1 /\ quotes'[new] = row BY <1>1, <1>2, <1>7
<1> HIDE DEF Q
<1>11. ASSUME NEW r \in Rfqs, NEW s \in Suppliers
       PROVE  /\ \A k \in 1..Cardinality(Q(r, s)') : \E q \in Q(r, s)' : quotes'[q].round = k
              /\ \A q \in Q(r, s)' : quotes'[q].round = Cardinality({p \in Q(r, s)' : p <= q})
  <2>1. /\ \A k \in 1..Cardinality(Q(r, s)) : \E q \in Q(r, s) : quotes[q].round = k
        /\ \A q \in Q(r, s) : quotes[q].round = Cardinality({p \in Q(r, s) : p <= q})
    BY DEF QuotationInv, RoundsTaken, RoundsConsecutive, Q
  <2>2. \A q \in Q(r, s) : q \in DOMAIN quotes BY <1>5
  <2>3. CASE ~(r = f.rfq /\ s = f.supplier)
    <3>1. Q(r, s)' = Q(r, s) BY <1>4, <2>3
    <3> QED BY <1>1, <2>1, <2>2, <3>1
  <2>4. CASE r = f.rfq /\ s = f.supplier
    <3>1. Q(r, s)' = Q(r, s) \cup {new} /\ Cardinality(Q(r, s)) = n /\ Cardinality(Q(r, s)') = n + 1
      BY <1>4, <1>6, <1>9, <2>4
    <3>2. \A k \in 1..(n + 1) : \E q \in Q(r, s)' : quotes'[q].round = k
      <4> SUFFICES ASSUME NEW k \in 1..(n + 1) PROVE \E q \in Q(r, s)' : quotes'[q].round = k OBVIOUS
      <4>1. CASE k = n + 1 BY <1>10, <3>1, <4>1
      <4>2. CASE k # n + 1
        <5>1. k \in 1..n BY <4>2
        <5>2. PICK q \in Q(r, s) : quotes[q].round = k BY <2>1, <3>1, <5>1
        <5> QED BY <1>1, <2>2, <3>1, <5>2
      <4> QED BY <4>1, <4>2
    <3>3. \A q \in Q(r, s) : {p \in Q(r, s)' : p <= q} = {p \in Q(r, s) : p <= q}
      BY <1>3, <2>2, <3>1
    <3>4. {p \in Q(r, s)' : p <= new} = Q(r, s)' BY <1>3, <2>2, <3>1
    <3>5. \A q \in Q(r, s)' : quotes'[q].round = Cardinality({p \in Q(r, s)' : p <= q})
      <4> SUFFICES ASSUME NEW q \in Q(r, s)'
                   PROVE  quotes'[q].round = Cardinality({p \in Q(r, s)' : p <= q})
        OBVIOUS
      <4>1. CASE q = new BY <1>10, <3>1, <3>4, <4>1
      <4>2. CASE q # new
        <5>1. q \in Q(r, s) BY <3>1, <4>2
        <5> QED BY <1>1, <2>1, <2>2, <3>3, <5>1
      <4> QED BY <4>1, <4>2
    <3> QED BY <3>1, <3>2, <3>5
  <2> QED BY <2>3, <2>4
<1>12. RoundsTaken' /\ RoundsConsecutive' BY <1>11 DEF RoundsTaken, RoundsConsecutive, Q
<1>13. \A r, s : Cardinality(Q(r, s)) <= Cardinality(Q(r, s)')
  <2> SUFFICES ASSUME NEW r, NEW s PROVE Cardinality(Q(r, s)) <= Cardinality(Q(r, s)') OBVIOUS
  <2>1. CASE ~(r = f.rfq /\ s = f.supplier)
    <3>1. Q(r, s)' = Q(r, s) BY <1>4, <2>1
    <3>2. PICK c \in Nat : c = Cardinality(Q(r, s)) BY <1>5
    <3>3. c <= c OBVIOUS
    <3> QED BY <3>1, <3>2, <3>3
  <2>2. CASE r = f.rfq /\ s = f.supplier
    <3>1. Q(r, s)' = Q(r, s) \cup {new} BY <1>4, <2>2
    <3>2. n <= n + 1 OBVIOUS
    <3> QED BY <1>6, <1>9, <2>2, <3>1, <3>2
  <2> QED BY <2>1, <2>2
<1> QED BY <1>1, <1>12, <1>13 DEF Q

LEMMA SubmitWriteInv ==
  ASSUME QuotationTypeOK, QuotationInv, NEW w \in Submitters, SubmitWrite(w)
  PROVE  QuotationTypeOK' /\ QuotationInv'
<1>1. submitting[w] # Free /\ submitting[w].at = "write" BY DEF SubmitWrite, Free
<1>2. PICK f \in SubmittingType : f = submitting[w] BY <1>1, SubmissionRow
<1>3. f.rfq \in Rfqs /\ f.supplier \in Suppliers /\ rfq[f.rfq] # NoRfq
  BY <1>1, <1>2, SubmissionRow DEF QuotationInv, QuotesHaveRfq
<1>4. submitting' = [submitting EXCEPT ![w] = Free] /\ UNCHANGED <<accepting, team>>
  BY DEF SubmitWrite, placementVars
<1>5. submitting'[w] = Free /\ \A x \in Submitters \ {w} : submitting'[x] = submitting[x]
  BY <1>4 DEF QuotationTypeOK
<1>6. submitting' \in [Submitters -> SubmittingType \cup {Free}] BY <1>4 DEF QuotationTypeOK
<1>7. CASE RoundTaken(f)
  <2>1. UNCHANGED <<rfq, quotes>> BY <1>2, <1>7 DEF SubmitWrite
  <2>2. SameQuotes BY <2>1 DEF SameQuotes
  <2>3. (\A x, y : QuotesOf(x, y)' = QuotesOf(x, y)) /\ RoundsTaken' /\ RoundsConsecutive'
    BY <2>2, RoundsSame
  <2>4. RoundsCounted' BY <1>5, <2>3 DEF QuotationInv, RoundsCounted, Free
  <2>5. QuotesHaveRfq' BY <1>5, <2>1 DEF QuotationInv, QuotesHaveRfq
  <2>6. StillQuoting' BY <1>4, <2>1 DEF QuotationInv, StillQuoting, OneAcceptor
  <2>7. QuotationTypeOK' BY <1>4, <1>6, <2>1 DEF QuotationTypeOK
  <2> QED BY <2>3, <2>4, <2>5, <2>6, <2>7 DEF QuotationInv
<1>8. CASE ~RoundTaken(f)
  <2>1. PICK row : row = [rfq |-> f.rfq, supplier |-> f.supplier, round |-> f.round, valid |-> TRUE,
                          status |-> "SUBMITTED"]
    OBVIOUS
  <2>2. /\ quotes' = Append(quotes, row)
        /\ rfq' = IF f.seen = "OPEN" THEN [rfq EXCEPT ![f.rfq].status = "QUOTING"] ELSE rfq
    BY <1>2, <1>8, <2>1 DEF SubmitWrite
  <2>3. f.round \in 1..(Cardinality(QuotesOf(f.rfq, f.supplier)) + 1)
    BY <1>1, <1>2 DEF QuotationInv, RoundsCounted
  <2>4. f.round \in Nat \ {0}
    <3>1. PICK n \in Nat : n = Cardinality(QuotesOf(f.rfq, f.supplier))
      BY QuotesFinite DEF QuotationTypeOK
    <3>2. f.round \in 1..(n + 1) BY <2>3, <3>1
    <3> QED BY <3>2
  <2>5. /\ row \in QuoteRow /\ row.rfq = f.rfq /\ row.supplier = f.supplier /\ row.round = f.round
    BY <1>3, <2>1, <2>4 DEF QuoteRow
  <2>6. /\ quotes' \in Seq(QuoteRow) /\ DOMAIN quotes \subseteq DOMAIN quotes'
        /\ \A q \in DOMAIN quotes : quotes'[q] = quotes[q]
        /\ \A q \in DOMAIN quotes' \ DOMAIN quotes : quotes'[q] = row
        /\ RoundsTaken' /\ RoundsConsecutive'
        /\ \A r, s : Cardinality(QuotesOf(r, s)) <= Cardinality(QuotesOf(r, s)')
    BY <1>8, <2>2, <2>3, <2>5, NextRound
  <2>7. rfq' \in [Rfqs -> RfqRow \cup {NoRfq}] /\ RfqsStay /\ QuotingStays
    <3>1. CASE f.seen = "OPEN"
      <4>1. rfq' = [rfq EXCEPT ![f.rfq].status = "QUOTING"] /\ "QUOTING" \in RfqStatus
        BY <2>2, <3>1 DEF RfqStatus
      <4>2. /\ rfq' \in [Rfqs -> RfqRow \cup {NoRfq}] /\ RfqsStay
            /\ rfq'[f.rfq].status = "QUOTING" /\ \A x \in Rfqs \ {f.rfq} : rfq'[x] = rfq[x]
        BY <1>3, <4>1, RfqSet
      <4> QED BY <4>2 DEF QuotingStays
    <3>2. CASE f.seen # "OPEN" BY <2>2, <3>2 DEF QuotationTypeOK, RfqsStay, QuotingStays
    <3> QED BY <3>1, <3>2
  <2>8. RoundsCounted'
    <3> SUFFICES ASSUME NEW x \in Submitters, submitting'[x].at = "write", NEW r, NEW s,
                        r = submitting'[x].rfq, s = submitting'[x].supplier
                 PROVE  submitting'[x].round \in 1..(Cardinality(QuotesOf(r, s)') + 1)
      BY DEF RoundsCounted, QuotesOf
    <3>1. x # w /\ submitting'[x] = submitting[x] BY <1>5 DEF Free
    <3>2. r = submitting[x].rfq /\ s = submitting[x].supplier BY <3>1
    <3>3. submitting[x].round \in 1..(Cardinality(QuotesOf(r, s)) + 1)
      BY <3>1, <3>2 DEF QuotationInv, RoundsCounted
    <3>4. PICK n \in Nat : n = Cardinality(QuotesOf(r, s)) BY QuotesFinite DEF QuotationTypeOK
    <3>5. PICK m \in Nat : m = Cardinality(QuotesOf(r, s)')
      <4>1. DOMAIN quotes' = 1..Len(quotes') /\ Len(quotes') \in Nat BY <2>6, SeqFacts
      <4>2. IsFiniteSet(DOMAIN quotes') BY <4>1, FS_Interval
      <4>3. IsFiniteSet(QuotesOf(r, s)') BY <4>2, FS_Subset DEF QuotesOf
      <4> QED BY <4>3, FS_CardinalityType
    <3>6. n <= m BY <2>6, <3>4, <3>5
    <3>7. PICK k : k = submitting[x].round OBVIOUS
    <3>8. k \in 1..(n + 1) BY <3>3, <3>4, <3>7
    <3>9. k \in 1..(m + 1) BY <3>6, <3>8
    <3> QED BY <3>1, <3>2, <3>5, <3>7, <3>9
  <2>9. QuotesHaveRfq'
    <3>1. \A q \in DOMAIN quotes : rfq'[quotes[q].rfq] # NoRfq
      BY <2>7, QuoteRows DEF QuotationInv, QuotesHaveRfq, RfqsStay
    <3>2. rfq'[row.rfq] # NoRfq BY <1>3, <2>5, <2>7 DEF RfqsStay
    <3>3. \A q \in DOMAIN quotes' : rfq'[quotes'[q].rfq] # NoRfq BY <2>6, <3>1, <3>2
    <3>4. \A x \in Submitters : submitting'[x] # Free => rfq'[submitting'[x].rfq] # NoRfq
      BY <1>5, <2>7, SubmissionRow DEF QuotationInv, QuotesHaveRfq, RfqsStay
    <3> QED BY <3>3, <3>4 DEF QuotesHaveRfq
  <2>10. StillQuoting'
    <3> SUFFICES ASSUME NEW a \in Acceptors, accepting'[a] # Free
                 PROVE  /\ a \in team' /\ accepting'[a].quote \in DOMAIN quotes'
                        /\ OneAcceptor' => rfq'[quotes'[accepting'[a].quote].rfq].status = "QUOTING"
      BY DEF StillQuoting
    <3>1. accepting'[a] = accepting[a] /\ team' = team /\ (OneAcceptor' => OneAcceptor)
      BY <1>4 DEF OneAcceptor
    <3>2. PICK q : q = accepting[a].quote OBVIOUS
    <3>3. a \in team /\ q \in DOMAIN quotes /\ (OneAcceptor => rfq[quotes[q].rfq].status = "QUOTING")
      BY <3>1, <3>2 DEF QuotationInv, StillQuoting
    <3>4. quotes[q].rfq \in Rfqs /\ quotes'[q] = quotes[q] /\ q \in DOMAIN quotes'
      BY <2>6, <3>3, QuoteRows
    <3> QED BY <2>7, <3>1, <3>2, <3>3, <3>4 DEF QuotingStays
  <2>11. QuotationTypeOK' BY <1>4, <1>6, <2>6, <2>7 DEF QuotationTypeOK
  <2> QED BY <2>6, <2>8, <2>9, <2>10, <2>11 DEF QuotationInv
<1> QED BY <1>7, <1>8

(* Only a QUOTING RFQ can be accepted.                                     *)
LEMMA AcceptableQuotes ==
  ASSUME QuotationTypeOK, NEW q \in DOMAIN quotes, Acceptable(q)
  PROVE  rfq[quotes[q].rfq].status = "QUOTING"
BY DEF Acceptable, Allowed, RfqTable, Edge

LEMMA AcceptStartInv ==
  ASSUME QuotationTypeOK, QuotationInv, NEW w \in Acceptors, NEW q \in DOMAIN quotes, AcceptStart(w, q)
  PROVE  QuotationTypeOK' /\ QuotationInv'
<1>1. PICK row : row = [at |-> "write", quote |-> q] OBVIOUS
<1>2. q \in Nat BY QuoteRows
<1>3. row \in AcceptingType /\ row.quote = q BY <1>1, <1>2 DEF AcceptingType
<1>4. /\ accepting' = [accepting EXCEPT ![w] = row] /\ w \in team /\ Acceptable(q)
      /\ UNCHANGED <<rfq, quotes, submitting, team>>
  BY <1>1 DEF AcceptStart, placementVars
<1>5. accepting'[w] = row /\ \A x \in Acceptors \ {w} : accepting'[x] = accepting[x]
  BY <1>4 DEF QuotationTypeOK
<1>6. QuotationTypeOK' BY <1>3, <1>4 DEF QuotationTypeOK
<1>7. SameQuotes BY <1>4 DEF SameQuotes
<1>8. (\A x, y : QuotesOf(x, y)' = QuotesOf(x, y)) /\ RoundsTaken' /\ RoundsConsecutive'
  BY <1>7, RoundsSame
<1>9. RoundsCounted' BY <1>4, <1>8 DEF QuotationInv, RoundsCounted
<1>10. QuotesHaveRfq' BY <1>4 DEF QuotationInv, QuotesHaveRfq
<1>11. rfq[quotes[q].rfq].status = "QUOTING" BY <1>4, AcceptableQuotes
<1>12. StillQuoting'
  <2> SUFFICES ASSUME NEW a \in Acceptors, accepting'[a] # Free
               PROVE  /\ a \in team /\ accepting'[a].quote \in DOMAIN quotes
                      /\ OneAcceptor => rfq[quotes[accepting'[a].quote].rfq].status = "QUOTING"
    BY <1>4 DEF StillQuoting, OneAcceptor
  <2>1. CASE a = w BY <1>3, <1>4, <1>5, <1>11, <2>1
  <2>2. CASE a # w BY <1>5, <2>2 DEF QuotationInv, StillQuoting
  <2> QED BY <2>1, <2>2
<1> QED BY <1>6, <1>8, <1>9, <1>10, <1>12 DEF QuotationInv

(* Who accepts alone finds nobody else about to, and writes to a row.      *)
LEMMA AcceptEnds ==
  ASSUME QuotationTypeOK, QuotationInv, NEW w \in Acceptors, accepting[w].at = "write",
         accepting' = [accepting EXCEPT ![w] = Free], UNCHANGED <<submitting, team>>,
         SameQuotes, quotes' \in Seq(QuoteRow), RfqsStay, rfq' \in [Rfqs -> RfqRow \cup {NoRfq}]
  PROVE  QuotationTypeOK' /\ QuotationInv'
<1>1. accepting[w] # Free /\ w \in team BY DEF QuotationInv, StillQuoting, Free
<1>2. accepting'[w] = Free /\ \A x \in Acceptors \ {w} : accepting'[x] = accepting[x]
  BY DEF QuotationTypeOK
<1>3. QuotationTypeOK' BY DEF QuotationTypeOK
<1>4. (\A x, y : QuotesOf(x, y)' = QuotesOf(x, y)) /\ RoundsTaken' /\ RoundsConsecutive'
  BY RoundsSame
<1>5. RoundsCounted' BY <1>4 DEF QuotationInv, RoundsCounted
<1>6. QuotesHaveRfq'
  BY QuoteRows, SubmissionRow DEF QuotationInv, QuotesHaveRfq, SameQuotes, RfqsStay
<1>7. ASSUME OneAcceptor PROVE \A x \in Acceptors : accepting'[x] = Free
  <2> SUFFICES ASSUME NEW x \in Acceptors, accepting'[x] # Free PROVE FALSE OBVIOUS
  <2>1. x # w /\ accepting[x] # Free BY <1>2
  <2>2. x \in team BY <2>1 DEF QuotationInv, StillQuoting
  <2> QED BY <1>1, <1>7, <2>1, <2>2, Lone, Assumptions DEF OneAcceptor
<1>8. OneAcceptor' => OneAcceptor BY DEF OneAcceptor
<1>9. StillQuoting' BY <1>2, <1>7, <1>8 DEF QuotationInv, StillQuoting, SameQuotes
<1> QED BY <1>3, <1>4, <1>5, <1>6, <1>9 DEF QuotationInv

LEMMA AcceptInv ==
  ASSUME QuotationTypeOK, QuotationInv, NEW w \in Acceptors, AcceptWrite(w) \/ AcceptFail(w)
  PROVE  QuotationTypeOK' /\ QuotationInv'
<1>1. /\ accepting[w].at = "write" /\ accepting[w] # Free
      /\ accepting' = [accepting EXCEPT ![w] = Free] /\ UNCHANGED <<submitting, team>>
  BY DEF AcceptWrite, AcceptFail, placementVars, Free
<1>2. PICK q \in DOMAIN quotes : q = accepting[w].quote BY <1>1 DEF QuotationInv, StillQuoting
<1>3. CASE AcceptFail(w)
  <2>1. UNCHANGED <<rfq, quotes>> BY <1>3 DEF AcceptFail
  <2>2. SameQuotes /\ RfqsStay /\ quotes' \in Seq(QuoteRow) /\ rfq' \in [Rfqs -> RfqRow \cup {NoRfq}]
    BY <2>1 DEF SameQuotes, RfqsStay, QuotationTypeOK
  <2> QED BY <1>1, <2>2, AcceptEnds
<1>4. CASE AcceptWrite(w)
  <2>1. quotes' = Accepted(q) /\ rfq' = [rfq EXCEPT ![quotes[q].rfq].status = "ACCEPTED"]
    BY <1>2, <1>4 DEF AcceptWrite
  <2>2. quotes[q].rfq \in Rfqs /\ rfq[quotes[q].rfq] # NoRfq /\ "ACCEPTED" \in RfqStatus
    BY QuoteRows DEF QuotationInv, QuotesHaveRfq, RfqStatus
  <2>3. rfq' \in [Rfqs -> RfqRow \cup {NoRfq}] /\ RfqsStay BY <2>1, <2>2, RfqSet
  <2>4. ASSUME NEW k \in DOMAIN quotes, NEW status \in {"ACCEPTED", "REJECTED"}
        PROVE  LET new == [quotes[k] EXCEPT !.status = status] IN
                 /\ new \in QuoteRow /\ new.rfq = quotes[k].rfq
                 /\ new.supplier = quotes[k].supplier /\ new.round = quotes[k].round
    <3>1. quotes[k] \in QuoteRow BY QuoteRows
    <3> QED BY <3>1 DEF QuoteRow
  <2>5. DOMAIN quotes' = DOMAIN quotes /\ quotes' = [k \in DOMAIN quotes |-> quotes'[k]]
    BY <2>1 DEF Accepted
  <2>6. ASSUME NEW k \in DOMAIN quotes
        PROVE  /\ quotes'[k] \in QuoteRow /\ quotes'[k].rfq = quotes[k].rfq
               /\ quotes'[k].supplier = quotes[k].supplier /\ quotes'[k].round = quotes[k].round
    <3>1. \/ quotes'[k] = quotes[k]
          \/ \E status \in {"ACCEPTED", "REJECTED"} : quotes'[k] = [quotes[k] EXCEPT !.status = status]
      BY <2>1 DEF Accepted
    <3> QED BY <2>4, <3>1, QuoteRows
  <2>7. SameQuotes BY <2>5, <2>6 DEF SameQuotes
  <2>8. quotes' \in Seq(QuoteRow)
    <3>1. quotes' \in [DOMAIN quotes -> QuoteRow] BY <2>5, <2>6
    <3> HIDE DEF QuoteRow
    <3> QED BY <3>1, QuoteRows, Replace
  <2> QED BY <1>1, <2>3, <2>7, <2>8, AcceptEnds
<1> QED BY <1>3, <1>4

LEMMA QuotationStep ==
  ASSUME QuotationTypeOK, QuotationInv, QuotationNext
  PROVE  QuotationTypeOK' /\ QuotationInv'
BY RfqSteps, ValidityInv, SubmitStartInv, SubmitCountInv, SubmitWriteInv, AcceptStartInv, AcceptInv
   DEF QuotationNext, Sellers

----------------------------------------------------------------------------
(* Opportunities                                                           *)

LEMMA OpportunityRows ==
  ASSUME BrokerageTypeOK
  PROVE  /\ opportunity \in Seq(OpportunityRow)
         /\ Len(opportunity) \in Nat /\ DOMAIN opportunity = 1..Len(opportunity)
         /\ \A i \in DOMAIN opportunity :
              /\ opportunity[i] \in OpportunityRow
              /\ opportunity[i].version \in Nat /\ opportunity[i].won \in Nat
              /\ opportunity[i].status \in OpportunityStatus
<1>1. opportunity \in Seq(OpportunityRow) BY DEF BrokerageTypeOK
<1>2. /\ Len(opportunity) \in Nat /\ DOMAIN opportunity = 1..Len(opportunity)
      /\ \A i \in DOMAIN opportunity : opportunity[i] \in OpportunityRow
  BY <1>1, SeqFacts
<1> QED BY <1>1, <1>2 DEF OpportunityRow

LEMMA WorkRow ==
  ASSUME BrokerageTypeOK, BrokerageInv, NEW b \in Brokers, working[b] # Free
  PROVE  /\ working[b] \in WorkingType /\ working[b].at \in {"claim", "move", "read", "link"}
         /\ working[b].opp \in DOMAIN opportunity /\ working[b].version \in Nat
         /\ working[b].order \in Nat /\ working[b].to \in OpportunityStatus
         /\ working[b].version <= opportunity[working[b].opp].version
BY DEF BrokerageTypeOK, WorkingType, BrokerageInv, MovesAllowed

LEMMA MatchRow ==
  ASSUME BrokerageTypeOK, NEW m \in Matchers, matching[m] # Free
  PROVE  /\ matching[m] \in MatchingType /\ matching[m].signal \in Signal
         /\ matching[m].left \in SUBSET Suppliers
BY DEF BrokerageTypeOK, MatchingType

(* Edges lead from an open status.                                         *)
LEMMA EdgesOpen ==
  \A from, to, roles : Allowed(OpportunityTable, from, to, roles) =>
    from \in OpenStatus /\ to \in OpportunityStatus /\ IsEdge(OpportunityTable, from, to)
BY DEF Allowed, IsEdge, OpportunityTable, Edge, OpenStatus, OpportunityStatus

(* Orders that are placed elsewhere.                                       *)
LEMMA OrdersGrow ==
  ASSUME BrokerageTypeOK, BrokerageInv, UNCHANGED <<brokerageVars, team>>,
         Len(orders) \in Nat, Len(orders') \in Nat, Len(orders) <= Len(orders')
  PROVE  BrokerageTypeOK' /\ BrokerageInv'
<1>1. UNCHANGED <<opportunity, aged, working, matching, team>> BY DEF brokerageVars
<1>2. BrokerageTypeOK' BY <1>1 DEF BrokerageTypeOK
<1>3. MovesAllowed' BY <1>1 DEF BrokerageInv, MovesAllowed
<1>4. LinksOnce'
  <2>1. \A i \in DOMAIN opportunity : opportunity[i].won <= Len(orders')
    BY OpportunityRows DEF BrokerageInv, LinksOnce
  <2>2. \A b \in Brokers : Links(b) => working[b].order \in 1..Len(orders')
    BY DEF BrokerageInv, LinksOnce
  <2> QED BY <1>1, <2>1, <2>2 DEF BrokerageInv, LinksOnce, Links
<1>5. RunsLookFirst' BY <1>1 DEF BrokerageInv, RunsLookFirst, OneMatcher, Rivals
<1>6. OneOpenOpportunity' BY <1>1 DEF BrokerageInv, OneOpenOpportunity
<1> QED BY <1>2, <1>3, <1>4, <1>5, <1>6 DEF BrokerageInv

(* A request of a broker begins: it names what it has read, and if it is   *)
(* to link an order, the one that was just written.                        *)
LEMMA WorkBegins ==
  ASSUME BrokerageTypeOK, BrokerageInv, UNCHANGED <<opportunity, aged, matching, team>>,
         Len(orders) \in Nat, Len(orders') \in Nat, Len(orders) <= Len(orders'),
         NEW b \in Brokers, NEW row \in WorkingType, working' = [working EXCEPT ![b] = row],
         row.opp \in DOMAIN opportunity, row.version = opportunity[row.opp].version,
         row.at = "move" => Allowed(OpportunityTable, opportunity[row.opp].status, row.to, {"BROKER"}),
         row.at \in {"read", "link"} => row.order = Len(orders) + 1 /\ Len(orders') = Len(orders) + 1
  PROVE  BrokerageTypeOK' /\ BrokerageInv'
<1>1. working'[b] = row /\ \A x \in Brokers \ {b} : working'[x] = working[x] BY DEF BrokerageTypeOK
<1>2. BrokerageTypeOK' BY DEF BrokerageTypeOK
<1>3. MovesAllowed'
  <2>1. row.version <= opportunity[row.opp].version BY OpportunityRows
  <2> QED BY <1>1, <2>1 DEF BrokerageInv, MovesAllowed
<1>4. LinksOnce'
  <2>1. \A i \in DOMAIN opportunity : opportunity[i].won <= Len(orders')
    BY OpportunityRows DEF BrokerageInv, LinksOnce
  <2>2. \A x \in Brokers \ {b} : Links(x)' = Links(x) BY <1>1 DEF Links
  <2>3. ASSUME NEW x \in Brokers \ {b}, Links(x)
        PROVE  /\ working'[x] = working[x] /\ working[x].order \in 1..Len(orders)
               /\ working[x].order \in 1..Len(orders')
               /\ \A i \in DOMAIN opportunity : opportunity[i].won # working[x].order
    BY <1>1, <2>3 DEF BrokerageInv, LinksOnce
  <2>4. ASSUME Links(b)'
        PROVE  /\ working'[b].order = Len(orders) + 1 /\ working'[b].order \in 1..Len(orders')
               /\ \A i \in DOMAIN opportunity : opportunity[i].won # working'[b].order
               /\ \A x \in Brokers \ {b} : Links(x) => working[x].order # working'[b].order
    <3>1. working'[b].order = Len(orders) + 1 /\ Len(orders') = Len(orders) + 1
      BY <1>1, <2>4 DEF Links
    <3>2. \A i \in DOMAIN opportunity : opportunity[i].won <= Len(orders) /\ opportunity[i].won \in Nat
      BY OpportunityRows DEF BrokerageInv, LinksOnce
    <3> QED BY <2>3, <3>1, <3>2
  <2>5. ASSUME NEW x \in Brokers, Links(x)', NEW y \in Brokers, Links(y)',
               working'[x].order = working'[y].order
        PROVE  x = y
    BY <2>2, <2>3, <2>4, <2>5 DEF BrokerageInv, LinksOnce
  <2>6. ASSUME NEW x \in Brokers, Links(x)'
        PROVE  /\ working'[x].order \in 1..Len(orders')
               /\ \A i \in DOMAIN opportunity : opportunity[i].won # working'[x].order
    BY <2>2, <2>3, <2>4, <2>6
  <2> QED BY <2>1, <2>5, <2>6 DEF LinksOnce
<1>5. RunsLookFirst' BY DEF BrokerageInv, RunsLookFirst, OneMatcher, Rivals
<1>6. OneOpenOpportunity' BY DEF BrokerageInv, OneOpenOpportunity
<1> QED BY <1>2, <1>3, <1>4, <1>5, <1>6 DEF BrokerageInv

(* It ends without a change, or goes on to link what it has placed.        *)
LEMMA WorkGoesOn ==
  ASSUME BrokerageTypeOK, BrokerageInv, UNCHANGED <<opportunity, aged, matching, team, orders>>,
         NEW b \in Brokers, NEW row \in WorkingType \cup {Free}, working' = [working EXCEPT ![b] = row],
         row # Free => /\ row.at = "link" /\ working[b].at = "read"
                       /\ row.opp = working[b].opp /\ row.version = working[b].version
                       /\ row.order = working[b].order
  PROVE  BrokerageTypeOK' /\ BrokerageInv'
<1>1. working'[b] = row /\ \A x \in Brokers \ {b} : working'[x] = working[x] BY DEF BrokerageTypeOK
<1>2. BrokerageTypeOK' BY DEF BrokerageTypeOK
<1>3. working[b].at = "read" => working[b] # Free BY DEF Free
<1>4. MovesAllowed' BY <1>1, <1>3 DEF BrokerageInv, MovesAllowed
<1>5. \A x \in Brokers : Links(x)' => Links(x) /\ working'[x].order = working[x].order
  BY <1>1 DEF Links, Free
<1>6. LinksOnce' BY <1>5 DEF BrokerageInv, LinksOnce
<1>7. RunsLookFirst' BY DEF BrokerageInv, RunsLookFirst, OneMatcher, Rivals
<1>8. OneOpenOpportunity' BY DEF BrokerageInv, OneOpenOpportunity
<1> QED BY <1>2, <1>4, <1>6, <1>7, <1>8 DEF BrokerageInv

(* It writes its opportunity, whose version goes up.                       *)
LEMMA WorkWrites ==
  ASSUME BrokerageTypeOK, BrokerageInv, UNCHANGED <<aged, matching, team, orders>>,
         Len(orders) \in Nat,
         NEW b \in Brokers, working[b] # Free, working' = [working EXCEPT ![b] = Free],
         NEW i, i = working[b].opp, NEW row \in OpportunityRow,
         opportunity' = [opportunity EXCEPT ![i] = row],
         row.signal = opportunity[i].signal, row.supplier = opportunity[i].supplier,
         row.version = opportunity[i].version + 1,
         row.won = opportunity[i].won \/ (Links(b) /\ row.won = working[b].order),
         row.status \in OpenStatus /\ row.won = 0 =>
           opportunity[i].status \in OpenStatus /\ opportunity[i].won = 0
  PROVE  BrokerageTypeOK' /\ BrokerageInv'
<1>1. i \in DOMAIN opportunity BY WorkRow
<1>2. /\ opportunity' \in Seq(OpportunityRow) /\ DOMAIN opportunity' = DOMAIN opportunity
      /\ opportunity'[i] = row /\ \A j \in DOMAIN opportunity \ {i} : opportunity'[j] = opportunity[j]
  <2> HIDE DEF OpportunityRow
  <2> QED BY <1>1, Replace, OpportunityRows
<1>3. working'[b] = Free /\ \A x \in Brokers \ {b} : working'[x] = working[x] BY DEF BrokerageTypeOK
<1>4. BrokerageTypeOK' BY <1>2 DEF BrokerageTypeOK
<1>5. MovesAllowed'
  <2> SUFFICES ASSUME NEW x \in Brokers, working'[x] # Free
               PROVE  /\ working'[x].opp \in DOMAIN opportunity
                      /\ working'[x].version <= opportunity'[working'[x].opp].version
                      /\ working'[x].at = "move" /\ working'[x].version = opportunity'[working'[x].opp].version
                           => Allowed(OpportunityTable, opportunity'[working'[x].opp].status,
                                      working'[x].to, {"BROKER"})
    BY <1>2 DEF MovesAllowed
  <2>1. x # b /\ working'[x] = working[x] BY <1>3
  <2>2. PICK j : j = working[x].opp OBVIOUS
  <2>3. /\ j \in DOMAIN opportunity /\ working[x].version \in Nat
        /\ working[x].version <= opportunity[j].version /\ opportunity[j].version \in Nat
    BY <2>1, <2>2, WorkRow, OpportunityRows
  <2>4. CASE j = i
    <3>1. opportunity'[j].version = opportunity[j].version + 1 BY <1>2, <2>4
    <3>2. working[x].version < opportunity'[j].version BY <2>3, <3>1
    <3> QED BY <2>1, <2>2, <2>3, <3>1, <3>2
  <2>5. CASE j # i BY <1>2, <2>1, <2>2, <2>3, <2>5 DEF BrokerageInv, MovesAllowed
  <2> QED BY <2>4, <2>5
<1>6. LinksOnce'
  <2>1. \A x \in Brokers : Links(x)' => Links(x) /\ x # b /\ working'[x] = working[x]
    BY <1>3 DEF Links, Free
  <2>2. \A j \in DOMAIN opportunity' : opportunity'[j].won <= Len(orders)
    <3>1. Links(b) => working[b].order <= Len(orders) BY DEF BrokerageInv, LinksOnce
    <3> QED BY <1>1, <1>2, <3>1 DEF BrokerageInv, LinksOnce
  <2>3. ASSUME NEW x \in Brokers, Links(x)'
        PROVE  \A j \in DOMAIN opportunity' : opportunity'[j].won # working'[x].order
    <3>1. Links(b) => working[b].order # working[x].order BY <2>1, <2>3 DEF BrokerageInv, LinksOnce
    <3> QED BY <1>1, <1>2, <2>1, <2>3, <3>1 DEF BrokerageInv, LinksOnce
  <2> QED BY <2>1, <2>2, <2>3 DEF BrokerageInv, LinksOnce
<1>7. \A signal, s : Rivals(signal, s)' \subseteq Rivals(signal, s) BY <1>1, <1>2 DEF Rivals
<1>8. RunsLookFirst' BY <1>7 DEF BrokerageInv, RunsLookFirst, OneMatcher
<1>9. OneOpenOpportunity' BY <1>1, <1>2 DEF BrokerageInv, OneOpenOpportunity
<1> QED BY <1>4, <1>5, <1>6, <1>8, <1>9 DEF BrokerageInv

LEMMA BrokerStarts ==
  ASSUME BrokerageTypeOK, BrokerageInv, orders \in Seq(OrderRow), NEW b \in Brokers,
         NEW i \in DOMAIN opportunity,
         ClaimStart(b, i) \/ (\E to \in OpportunityStatus : MoveStart(b, i, to))
  PROVE  BrokerageTypeOK' /\ BrokerageInv'
<1>1. UNCHANGED <<opportunity, aged, matching, team, orders>>
  BY DEF ClaimStart, MoveStart, sourcingVars, placementVars
<1>2. PICK row \in WorkingType :
        /\ working' = [working EXCEPT ![b] = row] /\ row.opp = i /\ row.version = opportunity[i].version
        /\ row.at = "move" => Allowed(OpportunityTable, opportunity[i].status, row.to, {"BROKER"})
        /\ row.at \notin {"read", "link"}
  <2>1. /\ opportunity[i].status \in OpportunityStatus /\ opportunity[i].version \in Nat /\ i \in Nat /\ i # 0
    BY OpportunityRows
  <2>2. \A at \in {"claim", "move"}, to \in OpportunityStatus :
          LET row == [at |-> at, opp |-> i, to |-> to, order |-> 0, version |-> opportunity[i].version] IN
          Frame(at, i, to, 0) = row /\ row \in WorkingType
    BY <2>1 DEF Frame, WorkingType
  <2>3. CASE ClaimStart(b, i)
    <3>1. working' = [working EXCEPT ![b] = Frame("claim", i, opportunity[i].status, 0)]
      BY <2>3 DEF ClaimStart
    <3> QED BY <2>1, <2>2, <3>1
  <2>4. ASSUME NEW to \in OpportunityStatus, MoveStart(b, i, to)
        PROVE  \E row \in WorkingType :
                 /\ working' = [working EXCEPT ![b] = row] /\ row.opp = i /\ row.version = opportunity[i].version
                 /\ row.at = "move" => Allowed(OpportunityTable, opportunity[i].status, row.to, {"BROKER"})
                 /\ row.at \notin {"read", "link"}
    <3>1. /\ working' = [working EXCEPT ![b] = Frame("move", i, to, 0)]
          /\ Allowed(OpportunityTable, opportunity[i].status, to, {"BROKER"})
      BY <2>4 DEF MoveStart
    <3> QED BY <2>1, <2>2, <3>1
  <2> QED BY <2>3, <2>4
<1>3. Len(orders) \in Nat /\ Len(orders') \in Nat /\ Len(orders) <= Len(orders') BY <1>1, SeqFacts
<1> QED BY <1>1, <1>2, <1>3, WorkBegins

LEMMA BrokerOrders ==
  ASSUME PlacementTypeOK, BrokerageTypeOK, BrokerageInv, NEW b \in Brokers, NEW s \in Suppliers,
         NEW i \in {0} \cup DOMAIN opportunity, BrokerOrder(b, s, i)
  PROVE  BrokerageTypeOK' /\ BrokerageInv'
<1>1. UNCHANGED <<opportunity, aged, matching, team>> /\ working[b] = Free BY DEF BrokerOrder
<1>2. Len(orders') = Len(orders) + 1 /\ Len(orders) \in Nat
  <2>1. WriteOrder("BROKER", NoContract, 0, s) BY DEF BrokerOrder
  <2> QED BY <2>1, OrderWritten
<1>3. Len(orders') \in Nat /\ Len(orders) <= Len(orders') BY <1>2
<1>4. CASE i = 0
  <2>1. working' = working BY <1>1, <1>4 DEF BrokerOrder, BrokerageTypeOK
  <2> QED BY <1>1, <1>2, <1>3, <2>1, OrdersGrow DEF brokerageVars
<1>5. CASE i # 0
  <2>1. opportunity[i].version \in Nat /\ i \in Nat /\ i \in DOMAIN opportunity BY <1>5, OpportunityRows
  <2>2. PICK row : row = [at |-> "read", opp |-> i, to |-> "NEGOTIATING", order |-> Len(orders) + 1,
                          version |-> opportunity[i].version]
    OBVIOUS
  <2>3. /\ row \in WorkingType /\ row.at = "read" /\ row.opp = i /\ row.order = Len(orders) + 1
        /\ row.version = opportunity[i].version
    BY <1>2, <2>1, <2>2 DEF WorkingType, OpportunityStatus
  <2>4. working' = [working EXCEPT ![b] = row] BY <1>5, <2>2 DEF BrokerOrder, Frame
  <2> QED BY <1>1, <1>2, <1>3, <2>1, <2>3, <2>4, WorkBegins
<1> QED BY <1>4, <1>5

LEMMA BrokerWrites ==
  ASSUME BrokerageTypeOK, BrokerageInv, orders \in Seq(OrderRow), NEW b \in Brokers,
         ClaimWrite(b) \/ MoveWrite(b) \/ LinkRead(b) \/ LinkWrite(b)
  PROVE  BrokerageTypeOK' /\ BrokerageInv'
<1>1. UNCHANGED <<aged, matching, team, orders>> /\ Len(orders) \in Nat
  BY SeqFacts DEF ClaimWrite, MoveWrite, LinkRead, LinkWrite, sourcingVars, placementVars
<1>2. working[b] # Free BY DEF ClaimWrite, MoveWrite, LinkRead, LinkWrite, Free
<1>3. PICK f \in WorkingType : f = working[b] BY <1>2, WorkRow
<1>4. PICK i \in DOMAIN opportunity : i = f.opp BY <1>2, <1>3, WorkRow
<1>5. PICK old \in OpportunityRow : old = opportunity[i] BY OpportunityRows
<1>6. PICK v \in Nat : v = old.version + 1 BY <1>5 DEF OpportunityRow
<1>7. opportunity \in Seq(OpportunityRow) BY OpportunityRows
<1>8. CASE ClaimWrite(b)
  <2>1. PICK row : row = [old EXCEPT !.broker = {b}, !.version = v] OBVIOUS
  <2>2. /\ row \in OpportunityRow /\ row.signal = old.signal /\ row.supplier = old.supplier
        /\ row.version = v /\ row.won = old.won /\ row.status = old.status
    BY <2>1 DEF OpportunityRow
  <2>3. opportunity' = [opportunity EXCEPT ![i] = row] /\ working' = [working EXCEPT ![b] = Free]
    BY <1>3, <1>4, <1>5, <1>6, <1>8, <2>1 DEF ClaimWrite, OpportunityRow
  <2> QED BY <1>1, <1>2, <1>3, <1>4, <1>5, <1>6, <2>2, <2>3, WorkWrites
<1>9. CASE MoveWrite(b)
  <2>1. working' = [working EXCEPT ![b] = Free] BY <1>9 DEF MoveWrite
  <2>2. CASE ~Current(f)
    <3>1. opportunity' = opportunity BY <1>3, <1>9, <2>2 DEF MoveWrite
    <3> QED BY <1>1, <2>1, <3>1, WorkGoesOn
  <2>3. CASE Current(f)
    <3>1. /\ opportunity' = [opportunity EXCEPT ![f.opp].status = f.to, ![f.opp].version = @ + 1]
          /\ f.at = "move"
      BY <1>3, <1>9, <2>3 DEF MoveWrite
    <3>2. PICK row : row = [old EXCEPT !.status = f.to, !.version = v] OBVIOUS
    <3>3. f.to \in OpportunityStatus BY <1>3 DEF WorkingType
    <3>4. /\ row \in OpportunityRow /\ row.signal = old.signal /\ row.supplier = old.supplier
          /\ row.version = v /\ row.won = old.won
      BY <3>2, <3>3 DEF OpportunityRow
    <3>5. opportunity' = [opportunity EXCEPT ![i] = row]
      BY <1>4, <1>5, <1>6, <3>1, <3>2 DEF OpportunityRow
    <3>6. Allowed(OpportunityTable, old.status, f.to, {"BROKER"})
      BY <1>2, <1>3, <1>4, <1>5, <2>3, <3>1 DEF BrokerageInv, MovesAllowed, Current
    <3>7. old.status \in OpenStatus BY <3>6, EdgesOpen
    <3> QED BY <1>1, <1>2, <1>3, <1>4, <1>5, <1>6, <2>1, <3>4, <3>5, <3>7, WorkWrites
  <2> QED BY <2>2, <2>3
<1>10. CASE LinkRead(b)
  <2>1. PICK to \in OpportunityStatus : working' = [working EXCEPT ![b].at = "link", ![b].to = to]
    BY <1>10 DEF LinkRead, OpportunityStatus
  <2>2. PICK row : row = [f EXCEPT !.at = "link", !.to = to] OBVIOUS
  <2>3. /\ row \in WorkingType /\ row.at = "link" /\ row.opp = f.opp /\ row.version = f.version
        /\ row.order = f.order
    BY <2>2 DEF WorkingType
  <2>4. working' = [working EXCEPT ![b] = row] BY <1>3, <2>1, <2>2 DEF WorkingType
  <2>5. working[b].at = "read" /\ opportunity' = opportunity BY <1>10 DEF LinkRead
  <2> QED BY <1>1, <1>3, <2>3, <2>4, <2>5, WorkGoesOn
<1>11. CASE LinkWrite(b)
  <2>1. /\ opportunity' = [opportunity EXCEPT ![f.opp].won = f.order,
             ![f.opp].version = @ + 1, ![f.opp].status = IF f.to = "NEGOTIATING" THEN f.to ELSE @]
        /\ f.at = "link" /\ working' = [working EXCEPT ![b] = Free]
    BY <1>3, <1>11 DEF LinkWrite
  <2>2. PICK status : status = IF f.to = "NEGOTIATING" THEN f.to ELSE old.status OBVIOUS
  <2>3. status \in OpportunityStatus BY <2>2 DEF OpportunityRow, OpportunityStatus
  <2>4. PICK row : row = [old EXCEPT !.won = f.order, !.version = v, !.status = status] OBVIOUS
  <2>5. f.order \in Nat BY <1>3 DEF WorkingType
  <2>6. /\ row \in OpportunityRow /\ row.signal = old.signal /\ row.supplier = old.supplier
        /\ row.version = v /\ row.won = f.order
    BY <2>3, <2>4, <2>5 DEF OpportunityRow
  <2>7. opportunity' = [opportunity EXCEPT ![i] = row]
    BY <1>4, <1>5, <1>6, <2>1, <2>2, <2>4 DEF OpportunityRow
  <2>8. Links(b) BY <1>3, <2>1 DEF Links
  <2>9. f.order \in 1..Len(orders) BY <1>3, <2>8 DEF BrokerageInv, LinksOnce
  <2>10. f.order # 0 BY <1>1, <2>9
  <2>11. /\ row.won = working[b].order /\ row.won # 0
         /\ row.signal = opportunity[i].signal /\ row.supplier = opportunity[i].supplier
         /\ row.version = opportunity[i].version + 1
    BY <1>3, <1>5, <1>6, <2>6, <2>10
  <2>12. row \in OpportunityRow /\ i = working[b].opp /\ working' = [working EXCEPT ![b] = Free]
    BY <1>3, <1>4, <2>1, <2>6
  <2> HIDE DEF OpportunityRow, Links
  <2> QED BY <1>1, <1>2, <2>7, <2>8, <2>11, <2>12, WorkWrites
<1> QED BY <1>8, <1>9, <1>10, <1>11

----------------------------------------------------------------------------
(* The rules                                                               *)

LEMMA RulingRow ==
  ASSUME NEW signal \in Signal
  PROVE  Ruling(signal) \in MatchingType /\ Ruling(signal).at = "pick"
<1>1. Candidates(signal) \in SUBSET Suppliers BY DEF Candidates, Sellers
<1> QED BY <1>1 DEF Ruling, MatchingType

(* A run of the rules looks, or ends.                                      *)
LEMMA RunMoves ==
  ASSUME BrokerageTypeOK, BrokerageInv, UNCHANGED <<opportunity, aged, working, team, orders>>,
         NEW m \in Matchers, m \in team, NEW row \in MatchingType \cup {Free},
         matching' = [matching EXCEPT ![m] = row],
         row # Free /\ row.at = "create" =>
           row.supplier \in Suppliers /\ Rivals(row.signal, row.supplier) = {}
  PROVE  BrokerageTypeOK' /\ BrokerageInv'
<1>1. matching'[m] = row /\ \A x \in Matchers \ {m} : matching'[x] = matching[x] BY DEF BrokerageTypeOK
<1>2. BrokerageTypeOK' BY DEF BrokerageTypeOK
<1>3. MovesAllowed' BY DEF BrokerageInv, MovesAllowed
<1>4. LinksOnce' BY DEF BrokerageInv, LinksOnce, Links
<1>5. \A signal, s : Rivals(signal, s)' = Rivals(signal, s) BY DEF Rivals
<1>6. RunsLookFirst'
  <2> SUFFICES ASSUME NEW x \in Matchers
               PROVE  /\ matching'[x] # Free => x \in team
                      /\ matching'[x].at = "create" =>
                           /\ matching'[x].supplier \in Suppliers
                           /\ OneMatcher => Rivals(matching'[x].signal, matching'[x].supplier) = {}
    BY <1>5 DEF RunsLookFirst, OneMatcher
  <2>1. CASE x = m BY <1>1, <2>1 DEF Free
  <2>2. CASE x # m BY <1>1, <2>2 DEF BrokerageInv, RunsLookFirst
  <2> QED BY <2>1, <2>2
<1>7. OneOpenOpportunity' BY DEF BrokerageInv, OneOpenOpportunity
<1> QED BY <1>2, <1>3, <1>4, <1>6, <1>7 DEF BrokerageInv

LEMMA RunSteps ==
  ASSUME BrokerageTypeOK, BrokerageInv, NEW m \in Matchers,
         MatchStart(m) \/ MatchPick(m) \/ MatchNext(m)
  PROVE  BrokerageTypeOK' /\ BrokerageInv'
<1>1. UNCHANGED <<opportunity, aged, working, team, orders>>
  BY DEF MatchStart, MatchPick, MatchNext, sourcingVars, placementVars
<1>2. m \in team
  <2>1. matching[m].at = "pick" => matching[m] # Free BY DEF Free
  <2>2. matching[m] # Free => m \in team BY DEF BrokerageInv, RunsLookFirst
  <2> QED BY <2>1, <2>2 DEF MatchStart, MatchPick, MatchNext
<1>3. CASE MatchStart(m)
  <2>1. matching' = [matching EXCEPT ![m] = Ruling("CHURN_RISK")] BY <1>3 DEF MatchStart
  <2>2. Ruling("CHURN_RISK") \in MatchingType /\ Ruling("CHURN_RISK").at = "pick"
    BY RulingRow DEF Signal
  <2> QED BY <1>1, <1>2, <2>1, <2>2, RunMoves
<1>4. CASE MatchNext(m)
  <2>1. PICK row \in {Ruling("RFQ_MATCH"), Free} : matching' = [matching EXCEPT ![m] = row]
    BY <1>4 DEF MatchNext
  <2>2. Ruling("RFQ_MATCH") \in MatchingType /\ Ruling("RFQ_MATCH").at = "pick" BY RulingRow DEF Signal
  <2> QED BY <1>1, <1>2, <2>1, <2>2, RunMoves
<1>5. CASE MatchPick(m)
  <2>1. matching[m] # Free
    <3>1. matching[m].at = "pick" BY <1>5 DEF MatchPick
    <3> QED BY <3>1 DEF Free
  <2>2. PICK g \in MatchingType : g = matching[m] BY <2>1, MatchRow
  <2>3. PICK s \in g.left :
          matching' = [matching EXCEPT ![m].left = @ \ {s},
            ![m].at = IF OpenFor(matching[m].signal, s) THEN "pick" ELSE "create",
            ![m].supplier = IF OpenFor(matching[m].signal, s) THEN "none" ELSE s]
    BY <1>5, <2>2 DEF MatchPick
  <2>4. PICK at, supplier :
          /\ at = (IF OpenFor(g.signal, s) THEN "pick" ELSE "create")
          /\ supplier = (IF OpenFor(g.signal, s) THEN "none" ELSE s)
    OBVIOUS
  <2>5. PICK row : row = [g EXCEPT !.left = @ \ {s}, !.at = at, !.supplier = supplier] OBVIOUS
  <2>6. g.left \in SUBSET Suppliers BY <2>2 DEF MatchingType
  <2>7. /\ row \in MatchingType /\ row.at = at /\ row.supplier = supplier /\ row.signal = g.signal
    BY <2>4, <2>5, <2>6 DEF MatchingType
  <2>8. matching' = [matching EXCEPT ![m] = row] BY <2>2, <2>3, <2>4, <2>5 DEF MatchingType
  <2>9. ASSUME at = "create" PROVE s \in Suppliers /\ supplier = s /\ Rivals(g.signal, s) = {}
    <3>1. ~OpenFor(g.signal, s) BY <2>4, <2>9
    <3> QED BY <2>4, <2>6, <3>1 DEF OpenFor, Rivals
  <2> QED BY <1>1, <1>2, <2>7, <2>8, <2>9, RunMoves
<1> QED BY <1>3, <1>4, <1>5

LEMMA CreateInv ==
  ASSUME BrokerageTypeOK, BrokerageInv, orders \in Seq(OrderRow), NEW m \in Matchers, MatchCreate(m)
  PROVE  BrokerageTypeOK' /\ BrokerageInv'
<1>1. UNCHANGED <<aged, working, team, orders>> /\ Len(orders) \in Nat
  BY SeqFacts DEF MatchCreate, sourcingVars, placementVars
<1>2. matching[m].at = "create" /\ matching[m] # Free BY DEF MatchCreate, Free
<1>3. PICK g \in MatchingType : g = matching[m] BY <1>2, MatchRow
<1>4. /\ m \in team /\ g.supplier \in Suppliers
      /\ OneMatcher => Rivals(g.signal, g.supplier) = {}
  BY <1>2, <1>3 DEF BrokerageInv, RunsLookFirst
<1>5. PICK row : row = [signal |-> g.signal, supplier |-> g.supplier, status |-> "NEW", version |-> 0,
                        broker |-> {}, won |-> 0]
  OBVIOUS
<1>6. /\ row \in OpportunityRow /\ row.signal = g.signal /\ row.supplier = g.supplier /\ row.won = 0
  BY <1>3, <1>4, <1>5 DEF OpportunityRow, OpportunityStatus, MatchingType
<1>7. opportunity' = Append(opportunity, row) BY <1>3, <1>5 DEF MatchCreate
<1>8. /\ opportunity' \in Seq(OpportunityRow) /\ Len(opportunity) + 1 \notin DOMAIN opportunity
      /\ DOMAIN opportunity' = DOMAIN opportunity \cup {Len(opportunity) + 1}
      /\ opportunity'[Len(opportunity) + 1] = row
      /\ \A i \in DOMAIN opportunity : opportunity'[i] = opportunity[i]
  <2> HIDE DEF OpportunityRow
  <2> QED BY <1>6, <1>7, OpportunityRows, AppendTo
<1>9. PICK next : next = [g EXCEPT !.at = "pick", !.supplier = "none"] OBVIOUS
<1>10. next \in MatchingType /\ next.at = "pick" BY <1>9 DEF MatchingType
<1>11. matching' = [matching EXCEPT ![m] = next] BY <1>3, <1>9 DEF MatchCreate, MatchingType
<1>12. matching'[m] = next /\ \A x \in Matchers \ {m} : matching'[x] = matching[x]
  BY <1>11 DEF BrokerageTypeOK
<1>13. BrokerageTypeOK' BY <1>1, <1>8, <1>10, <1>11 DEF BrokerageTypeOK
<1>14. MovesAllowed'
  <2> SUFFICES ASSUME NEW b \in Brokers, working[b] # Free
               PROVE  /\ working[b].opp \in DOMAIN opportunity'
                      /\ opportunity'[working[b].opp] = opportunity[working[b].opp]
    BY <1>1 DEF BrokerageInv, MovesAllowed
  <2>1. working[b].opp \in DOMAIN opportunity BY WorkRow
  <2> QED BY <1>8, <2>1
<1>15. LinksOnce'
  <2>1. \A i \in DOMAIN opportunity' : opportunity'[i].won <= Len(orders)
    <3>1. 0 <= Len(orders) BY <1>1
    <3> QED BY <1>6, <1>8, <3>1 DEF BrokerageInv, LinksOnce
  <2>2. ASSUME NEW b \in Brokers, Links(b)
        PROVE  \A i \in DOMAIN opportunity' : opportunity'[i].won # working[b].order
    <3>1. working[b].order \in 1..Len(orders) BY <2>2 DEF BrokerageInv, LinksOnce
    <3>2. working[b].order # 0 BY <1>1, <3>1
    <3> QED BY <1>6, <1>8, <2>2, <3>2 DEF BrokerageInv, LinksOnce
  <2> QED BY <1>1, <2>1, <2>2 DEF BrokerageInv, LinksOnce, Links
<1>16. OneMatcher' => OneMatcher BY <1>1 DEF OneMatcher
<1>17. RunsLookFirst'
  <2> SUFFICES ASSUME NEW x \in Matchers
               PROVE  /\ matching'[x] # Free => x \in team
                      /\ matching'[x].at = "create" => matching'[x].supplier \in Suppliers /\ ~OneMatcher
    BY <1>1, <1>16 DEF RunsLookFirst
  <2>1. CASE x = m BY <1>4, <1>10, <1>12, <2>1
  <2>2. CASE x # m
    <3>1. matching'[x] = matching[x] BY <1>12, <2>2
    <3>2. ASSUME matching[x].at = "create", OneMatcher PROVE FALSE
      <4>1. x \in team BY <3>2 DEF BrokerageInv, RunsLookFirst, Free
      <4> QED BY <1>4, <2>2, <3>2, <4>1, Lone, Assumptions DEF OneMatcher
    <3> QED BY <3>1, <3>2 DEF BrokerageInv, RunsLookFirst
  <2> QED BY <2>1, <2>2
<1>18. OneOpenOpportunity'
  <2> SUFFICES ASSUME OneMatcher, NEW i \in DOMAIN opportunity', NEW j \in DOMAIN opportunity',
                      opportunity'[i].status \in OpenStatus, opportunity'[j].status \in OpenStatus,
                      opportunity'[i].signal = opportunity'[j].signal,
                      opportunity'[i].supplier = opportunity'[j].supplier,
                      opportunity'[i].won = 0, opportunity'[j].won = 0
               PROVE  i = j
    BY <1>16 DEF OneOpenOpportunity, OneMatcher
  <2>1. \A k \in DOMAIN opportunity :
          opportunity[k].status \in OpenStatus /\ opportunity[k].won = 0 =>
            ~(opportunity[k].signal = g.signal /\ opportunity[k].supplier = g.supplier)
    BY <1>4 DEF Rivals
  <2>2. CASE i \in DOMAIN opportunity /\ j \in DOMAIN opportunity
    BY <1>8, <2>2 DEF BrokerageInv, OneOpenOpportunity, OneMatcher
  <2> QED BY <1>6, <1>8, <2>1, <2>2
<1> QED BY <1>13, <1>14, <1>15, <1>17, <1>18 DEF BrokerageInv

LEMMA BrokerageStep ==
  ASSUME PlacementTypeOK, BrokerageTypeOK, BrokerageInv, BrokerageNext
  PROVE  BrokerageTypeOK' /\ BrokerageInv'
<1>1. orders \in Seq(OrderRow) BY DEF PlacementTypeOK
<1>2. CASE MonthPasses
  <2>1. UNCHANGED <<opportunity, working, matching, team, orders>> /\ aged' = Len(orders)
    BY <1>2 DEF MonthPasses, sourcingVars, placementVars
  <2>2. BrokerageTypeOK' BY <1>1, <2>1, SeqFacts DEF BrokerageTypeOK
  <2>3. BrokerageInv'
    BY <2>1 DEF BrokerageInv, MovesAllowed, LinksOnce, Links, RunsLookFirst, OneMatcher, Rivals, OneOpenOpportunity
  <2> QED BY <2>2, <2>3
<1> QED BY <1>1, <1>2, RunSteps, CreateInv, BrokerStarts, BrokerOrders, BrokerWrites
        DEF BrokerageNext, Sellers

----------------------------------------------------------------------------
(* Rounding                                                                *)

LEMMA NearestCents ==
  ASSUME NEW n \in Int
  PROVE  /\ Nearest(n, 100) \in Int /\ 100 * Nearest(n, 100) - n \in -50..50
         /\ n >= 0 => Nearest(n, 100) >= 0
         /\ Nearest(n, 100) >= 0 => n - 100 * Nearest(n, 100) <= 49
BY SMTT(60) DEF Nearest

(* A cent, half of one and a hundredth, in the unit of a share before it   *)
(* is rounded.                                                             *)
Cent == 1000000
Half == 500000
Penny == 10000

LEMMA CentType == Cent \in Int /\ Half \in Nat /\ Penny \in Int BY SMT DEF Cent, Half, Penny

LEMMA NearestShare ==
  ASSUME NEW n \in Int
  PROVE  /\ Nearest(n, 10000 * 100) \in Int
         /\ Cent * Nearest(n, 10000 * 100) - n <= Half
         /\ n - Cent * Nearest(n, 10000 * 100) <= Half
         /\ n >= 0 => Nearest(n, 10000 * 100) >= 0
<1>1. Nearest(n, 10000 * 100) =
        IF n >= 0 THEN (2 * n + 1000000) \div 2000000 ELSE -((1000000 - 2 * n) \div 2000000)
  BY SMT DEF Nearest
<1> QED BY <1>1, SMT DEF Cent, Half

LEMMA ShareType ==
  ASSUME NEW n \in Int
  PROVE  Nearest(n, 10000 * 100) \in Int /\ (n >= 0 => Nearest(n, 10000 * 100) >= 0)
BY NearestShare, SMT

(* Whole cents stay as they are.                                           *)
LEMMA NearestWhole ==
  ASSUME NEW n \in Int, n % 100 = 0
  PROVE  100 * Nearest(n, 100) = n
<1>1. 100 * Nearest(n, 100) - n \in -50..50 /\ Nearest(n, 100) \in Int BY NearestCents
<1>2. PICK q \in Int : n = 100 * q
  <2>1. n = 100 * (n \div 100) /\ n \div 100 \in Int BY SMT
  <2> QED BY <2>1
<1>3. Nearest(100 * q, 100) = q BY <1>2, SMTT(60) DEF Nearest
<1> QED BY <1>2, <1>3

----------------------------------------------------------------------------
(* Bills                                                                   *)

AmountsOf(row) == [k \in DOMAIN row.parts |-> row.parts[k].amount]
Online(row) == {k \in DOMAIN row.parts : row.parts[k].paid = "online"}

(* What PricingInv says of one bill.                                       *)
AddsUp(row) ==
  LET gap == SumFunctionOnSet(AmountsOf(row), DOMAIN row.parts) - row.due
      slack == Cardinality(Broken(row.terms)) + 1
  IN row.parts # << >> /\ row.parts[Len(row.parts)].amount >= 0
       => 2 * gap <= slack /\ -2 * gap <= slack
Shared(row) ==
  (\A i \in DOMAIN row.parts : row.terms[i].pct >= 0 /\ row.terms[i].amount = None)
    => \A i \in DOMAIN row.parts :
         LET gap == row.parts[i].amount * 10000 - row.due * row.terms[i].pct
             slack == Len(row.parts) * 10000 + row.due
         IN gap \in -slack..slack
Brought(row) == SumFunctionOnSet(AmountsOf(row), Online(row)) <= row.collected
BillKept(row) ==
  /\ AddsUp(row) /\ Shared(row) /\ Brought(row) /\ 2 * row.commission <= row.due + 1
  /\ row.intent # NoIntent => row.intent.amount > 0

LEMMA BillsKept ==
  ASSUME PricingInv, NEW b \in Bills, bill[b] # Unpriced
  PROVE  BillKept(bill[b])
<1>1. b \in Priced BY DEF Priced
<1>2. AddsUp(bill[b]) BY <1>1 DEF PricingInv, BillsHold, PartsAddUp, SumOf, AddsUp, AmountsOf
<1>3. Shared(bill[b]) BY <1>1 DEF PricingInv, BillsHold, SharesKept, Shared
<1>4. Brought(bill[b]) BY <1>1 DEF PricingInv, BillsHold, PaidIsCovered, SumOf, Brought, AmountsOf, Online
<1>5. 2 * bill[b].commission <= bill[b].due + 1 BY <1>1 DEF PricingInv, BillsHold, CommissionKept
<1>6. bill[b].intent # NoIntent => bill[b].intent.amount > 0 BY DEF PricingInv, IntentsPositive
<1> QED BY <1>2, <1>3, <1>4, <1>5, <1>6 DEF BillKept

LEMMA BillRow ==
  ASSUME NEW row \in BillType
  PROVE  /\ row # Unpriced /\ row.due \in Nat /\ row.collected \in Int
         /\ row.parts \in Seq(PartType) /\ Len(row.parts) \in Nat
         /\ DOMAIN row.parts = 1..Len(row.parts) /\ IsFiniteSet(DOMAIN row.parts)
         /\ \A k \in DOMAIN row.parts : row.parts[k] \in PartType /\ row.parts[k].amount \in Int
         /\ row.intent # NoIntent => row.intent.amount \in Int
<1>1. /\ row # Unpriced /\ row.due \in Nat /\ row.collected \in Int /\ row.parts \in Seq(PartType)
      /\ row.intent # NoIntent => row.intent.amount \in Int
  BY DEF BillType, Unpriced
<1>2. /\ Len(row.parts) \in Nat /\ DOMAIN row.parts = 1..Len(row.parts)
      /\ \A k \in DOMAIN row.parts : row.parts[k] \in PartType
  BY <1>1, SeqFacts
<1>3. IsFiniteSet(DOMAIN row.parts) BY <1>2, FS_Interval
<1> QED BY <1>1, <1>2, <1>3 DEF PartType

(* One bill is written.                                                    *)
LEMMA BillWritten ==
  ASSUME PricingTypeOK, PricingInv, NEW b \in Bills, NEW row \in BillType, BillKept(row),
         bill' = [bill EXCEPT ![b] = row], rules' = rules
  PROVE  PricingTypeOK' /\ PricingInv'
<1>1. PricingTypeOK' BY DEF PricingTypeOK
<1>2. bill'[b] = row /\ \A x \in Bills \ {b} : bill'[x] = bill[x] BY DEF PricingTypeOK
<1>3. \A x \in Bills : bill'[x] # Unpriced => BillKept(bill'[x])
  <2> HIDE DEF BillKept
  <2> QED BY <1>2, BillsKept
<1>4. \A x \in Priced' : /\ AddsUp(bill'[x]) /\ Shared(bill'[x]) /\ Brought(bill'[x])
                          /\ 2 * bill'[x].commission <= bill'[x].due + 1
  BY <1>3 DEF Priced, BillKept
<1>5. IntentsPositive' BY <1>3 DEF IntentsPositive, BillKept
<1>6. PartsAddUp' BY <1>4 DEF PartsAddUp, SumOf, AddsUp, AmountsOf
<1>7. SharesKept' BY <1>4 DEF SharesKept, Shared
<1>8. PaidIsCovered' BY <1>4 DEF PaidIsCovered, SumOf, Brought, AmountsOf, Online
<1>9. CommissionKept' BY <1>4 DEF CommissionKept
<1> QED BY <1>1, <1>5, <1>6, <1>7, <1>8, <1>9 DEF PricingInv, BillsHold

(* It keeps its amounts, whatever is paid.                                 *)
LEMMA BillRewritten ==
  ASSUME NEW old \in BillType, BillKept(old), NEW row \in BillType,
         row.due = old.due, row.commission = old.commission, row.terms = old.terms,
         DOMAIN row.parts = DOMAIN old.parts, Len(row.parts) = Len(old.parts),
         \A k \in DOMAIN old.parts : row.parts[k].amount = old.parts[k].amount,
         Brought(row), row.intent # NoIntent => row.intent.amount > 0
  PROVE  BillKept(row)
<1>1. AmountsOf(row) = AmountsOf(old) BY DEF AmountsOf
<1>2. AddsUp(row)
  <2>1. row.parts # << >> => old.parts # << >>
    <3>1. \A s \in Seq(PartType) : s = << >> <=> Len(s) = 0 OBVIOUS
    <3> QED BY <3>1, BillRow
  <2>2. row.parts # << >> => Len(old.parts) \in DOMAIN old.parts
    <3>1. \A s \in Seq(PartType) : s # << >> => Len(s) \in DOMAIN s OBVIOUS
    <3> QED BY <3>1, <2>1, BillRow
  <2> QED BY <1>1, <2>1, <2>2 DEF AddsUp, BillKept
<1>3. Shared(row) BY DEF Shared, BillKept
<1> QED BY <1>2, <1>3 DEF BillKept

LEMMA BillOf ==
  ASSUME PricingTypeOK, NEW b \in Bills, bill[b] # Unpriced
  PROVE  bill[b] \in BillType
BY DEF PricingTypeOK

LEMMA CheckoutInv ==
  ASSUME PricingTypeOK, PricingInv, NEW b \in Bills, Checkout(b)
  PROVE  PricingTypeOK' /\ PricingInv'
<1>1. bill[b] # Unpriced /\ PayAmount(b) > 0 /\ rules' = rules BY DEF Checkout
<1>2. PICK old \in BillType : old = bill[b] BY <1>1, BillOf
<1>3. PayAmount(b) \in Int
  <2>1. CASE PendingParts(b) = {} BY <1>2, <2>1, BillRow DEF PayAmount
  <2>2. CASE PendingParts(b) # {}
    <3>1. IsFiniteSet(PendingParts(b)) /\ \A k \in PendingParts(b) : k \in Int
      BY <1>2, BillRow, FS_Subset DEF PendingParts
    <3>2. \E k \in PendingParts(b) : \A j \in PendingParts(b) : k <= j BY <2>2, <3>1, LeastOf
    <3>3. Min(PendingParts(b)) \in PendingParts(b) BY <3>2 DEF Min
    <3>4. Min(PendingParts(b)) \in DOMAIN old.parts BY <1>2, <3>3 DEF PendingParts
    <3> HIDE DEF Min
    <3> QED BY <1>2, <2>2, <3>4, BillRow DEF PayAmount
  <2> QED BY <2>1, <2>2
<1>4. PICK intent : intent = [at |-> "pending", amount |-> PayAmount(b)] OBVIOUS
<1>5. /\ intent \in {NoIntent} \cup [at : {"pending"}, amount : Int] /\ intent.amount > 0
  BY <1>1, <1>3, <1>4
<1>6. PICK row : row = [old EXCEPT !.intent = intent] OBVIOUS
<1>7. /\ row \in BillType /\ row.due = old.due /\ row.commission = old.commission
      /\ row.terms = old.terms /\ row.parts = old.parts /\ row.collected = old.collected
      /\ row.intent = intent
  BY <1>5, <1>6 DEF BillType
<1>8. bill' = [bill EXCEPT ![b] = row] BY <1>2, <1>4, <1>6 DEF Checkout
<1>9. BillKept(old) BY <1>1, <1>2, BillsKept
<1>10. Brought(row) BY <1>7, <1>9 DEF BillKept, Brought, AmountsOf, Online
<1>11. BillKept(row) BY <1>5, <1>7, <1>9, <1>10, BillRewritten
<1> QED BY <1>1, <1>7, <1>8, <1>11, BillWritten

LEMMA PayOfflineInv ==
  ASSUME PricingTypeOK, PricingInv, NEW b \in Bills, NEW k \in PendingParts(b), PayOffline(b, k)
  PROVE  PricingTypeOK' /\ PricingInv'
<1>1. bill[b] # Unpriced /\ rules' = rules BY DEF PayOffline
<1>2. PICK old \in BillType : old = bill[b] BY <1>1, BillOf
<1>3. k \in DOMAIN old.parts /\ old.parts[k].paid = "no" BY <1>2 DEF PendingParts
<1>4. PICK part : part = [old.parts[k] EXCEPT !.paid = "offline"] OBVIOUS
<1>5. old.parts[k] \in PartType BY <1>3, BillRow
<1>6. part \in PartType /\ part.amount = old.parts[k].amount /\ part.paid = "offline"
  BY <1>4, <1>5 DEF PartType
<1>7. PICK parts : parts = [old.parts EXCEPT ![k] = part] OBVIOUS
<1>8. /\ parts \in Seq(PartType) /\ Len(parts) = Len(old.parts) /\ DOMAIN parts = DOMAIN old.parts
      /\ parts[k] = part /\ \A j \in DOMAIN old.parts \ {k} : parts[j] = old.parts[j]
  <2> HIDE DEF PartType
  <2> QED BY <1>3, <1>6, <1>7, BillRow, Replace
<1>9. PICK row : row = [old EXCEPT !.parts = parts] OBVIOUS
<1>10. /\ row \in BillType /\ row.due = old.due /\ row.commission = old.commission
       /\ row.terms = old.terms /\ row.parts = parts /\ row.collected = old.collected
       /\ row.intent = old.intent
  BY <1>8, <1>9 DEF BillType
<1>11. bill' = [bill EXCEPT ![b] = row] BY <1>2, <1>4, <1>7, <1>9 DEF PayOffline, BillType
<1>12. BillKept(old) BY <1>1, <1>2, BillsKept
<1>13. \A j \in DOMAIN old.parts : row.parts[j].amount = old.parts[j].amount BY <1>6, <1>8, <1>10
<1>14. Online(row) = Online(old) BY <1>3, <1>6, <1>8, <1>10 DEF Online
<1>15. Brought(row)
  <2>1. AmountsOf(row) = AmountsOf(old) BY <1>8, <1>10, <1>13 DEF AmountsOf
  <2> QED BY <1>10, <1>12, <1>14, <2>1 DEF BillKept, Brought
<1>16. row.intent # NoIntent => row.intent.amount > 0 BY <1>10, <1>12 DEF BillKept
<1>17. BillKept(row) BY <1>8, <1>10, <1>12, <1>13, <1>15, <1>16, BillRewritten
<1> QED BY <1>1, <1>10, <1>11, <1>17, BillWritten

(* The instalments that a payment settles cost no more than it brought.    *)
LEMMA CoveredSum ==
  ASSUME PricingTypeOK, NEW b \in Bills, bill[b] # Unpriced, NEW amount \in Int, amount > 0
  PROVE  /\ Covered(b, amount) \subseteq PendingParts(b)
         /\ SumOf(b, Covered(b, amount)) <= amount
<1>1. PICK old \in BillType : old = bill[b] BY BillOf
<1>2. PICK f : f = [k \in DOMAIN old.parts |-> old.parts[k].amount] OBVIOUS
<1>3. /\ \A k \in DOMAIN old.parts : f[k] \in Int
      /\ DOMAIN old.parts \subseteq Nat /\ IsFiniteSet(DOMAIN old.parts)
  BY <1>2, BillRow
<1>4. \A S : SumOf(b, S) = SumFunctionOnSet(f, S) BY <1>1, <1>2 DEF SumOf
<1>5. PendingParts(b) \subseteq DOMAIN old.parts BY <1>1 DEF PendingParts
<1>6. Covered(b, amount) \subseteq PendingParts(b) BY DEF Covered
<1>7. IsFiniteSet(Covered(b, amount)) BY <1>3, <1>5, <1>6, FS_Subset
<1>8. CASE Covered(b, amount) = {}
  BY <1>4, <1>6, <1>8, SumEmpty
<1>9. CASE Covered(b, amount) # {}
  <2>1. PICK k \in Covered(b, amount) : \A j \in Covered(b, amount) : k >= j
    BY <1>3, <1>5, <1>6, <1>7, <1>9, GreatestOf
  <2>2. k \in PendingParts(b) /\ k \in Nat BY <1>3, <1>5, <1>6
  <2>3. \A j \in {i \in PendingParts(b) : i <= k} :
          /\ SumOf(b, {i \in PendingParts(b) : i < j}) < amount
          /\ SumOf(b, {i \in PendingParts(b) : i < j}) + bill[b].parts[j].amount <= amount
    BY <2>1 DEF Covered
  <2>4. ASSUME NEW j \in PendingParts(b), j <= k PROVE j \in Covered(b, amount)
    <3>1. \A i \in PendingParts(b) : i <= j => i <= k BY <1>3, <1>5, <2>2, <2>4
    <3> QED BY <2>3, <2>4, <3>1 DEF Covered
  <2>5. Covered(b, amount) = {i \in PendingParts(b) : i <= k}
    BY <1>3, <1>5, <1>6, <2>1, <2>4
  <2>6. PICK C : C = Covered(b, amount) OBVIOUS
  <2>7. C \ {k} = {i \in PendingParts(b) : i < k}
    <3>1. \A i \in PendingParts(b) : i < k <=> i <= k /\ i # k BY <1>3, <1>5, <2>2
    <3> QED BY <2>5, <2>6, <3>1
  <2>8. IsFiniteSet(C) /\ k \in C /\ \A x \in C : f[x] \in Int BY <1>3, <1>5, <1>6, <1>7, <2>1, <2>6
  <2>9. SumFunctionOnSet(f, C) = f[k] + SumFunctionOnSet(f, C \ {k}) BY <2>8, SumAt
  <2>10. IsFiniteSet(C \ {k}) BY <2>8, FS_Subset
  <2>11. SumFunctionOnSet(f, C \ {k}) \in Int BY <2>8, <2>10, SumType
  <2>12. k <= k BY <2>2
  <2>13. SumFunctionOnSet(f, C \ {k}) + f[k] <= amount
    BY <1>1, <1>2, <1>4, <1>5, <2>2, <2>3, <2>7, <2>12
  <2>14. SumFunctionOnSet(f, C) <= amount BY <2>8, <2>9, <2>11, <2>13
  <2> QED BY <1>4, <1>6, <2>6, <2>14
<1> QED BY <1>8, <1>9

LEMMA CollectInv ==
  ASSUME PricingTypeOK, PricingInv, NEW b \in Bills, Collect(b)
  PROVE  PricingTypeOK' /\ PricingInv'
<1>1. bill[b] # Unpriced /\ bill[b].intent # NoIntent /\ rules' = rules BY DEF Collect
<1>2. PICK old \in BillType : old = bill[b] BY <1>1, BillOf
<1>3. PICK amount \in Int : amount = old.intent.amount BY <1>1, <1>2, BillRow
<1>4. BillKept(old) BY <1>1, <1>2, BillsKept
<1>5. amount > 0 BY <1>1, <1>2, <1>3, <1>4 DEF BillKept
<1>6. PICK settled : settled = Covered(b, amount) OBVIOUS
<1>7. settled \subseteq PendingParts(b) /\ SumOf(b, settled) <= amount
  BY <1>1, <1>5, <1>6, CoveredSum
<1>8. settled \subseteq DOMAIN old.parts /\ \A k \in settled : old.parts[k].paid = "no"
  BY <1>2, <1>7 DEF PendingParts
<1>9. PICK parts : parts = [k \in DOMAIN old.parts |->
          IF k \in settled THEN [old.parts[k] EXCEPT !.paid = "online"] ELSE old.parts[k]]
  OBVIOUS
<1>10. ASSUME NEW k \in DOMAIN old.parts
       PROVE  /\ parts[k] \in PartType /\ parts[k].amount = old.parts[k].amount
              /\ parts[k].paid = IF k \in settled THEN "online" ELSE old.parts[k].paid
  <2>1. old.parts[k] \in PartType BY BillRow
  <2> QED BY <1>9, <2>1 DEF PartType
<1>11. parts \in Seq(PartType) /\ Len(parts) = Len(old.parts) /\ DOMAIN parts = DOMAIN old.parts
  <2>1. parts \in [DOMAIN old.parts -> PartType] BY <1>9, <1>10
  <2> HIDE DEF PartType
  <2> QED BY <2>1, BillRow, Replace
<1>12. PICK collected \in Int : collected = old.collected + amount BY BillRow
<1>13. PICK row : row = [old EXCEPT !.collected = collected, !.intent = NoIntent, !.parts = parts] OBVIOUS
<1>14. /\ row \in BillType /\ row.due = old.due /\ row.commission = old.commission
       /\ row.terms = old.terms /\ row.parts = parts /\ row.collected = collected
       /\ row.intent = NoIntent
  BY <1>11, <1>13 DEF BillType
<1>15. bill' = [bill EXCEPT ![b] = row]
  BY <1>2, <1>3, <1>6, <1>9, <1>12, <1>13 DEF Collect, BillType
<1>16. \A j \in DOMAIN old.parts : row.parts[j].amount = old.parts[j].amount BY <1>10, <1>14
<1>17. AmountsOf(row) = AmountsOf(old) BY <1>11, <1>14, <1>16 DEF AmountsOf
<1>18. Online(row) = Online(old) \cup settled /\ Online(old) \cap settled = {}
  BY <1>8, <1>10, <1>11, <1>14 DEF Online
<1>19. Brought(row)
  <2>1. PICK f : f = AmountsOf(old) OBVIOUS
  <2>2. Online(row) \subseteq DOMAIN old.parts BY <1>8, <1>18 DEF Online
  <2>3. IsFiniteSet(Online(row)) /\ \A k \in Online(row) : f[k] \in Int
    BY <2>1, <2>2, BillRow, FS_Subset DEF AmountsOf
  <2>4. IsFiniteSet(settled) /\ IsFiniteSet(Online(old)) BY <1>18, <2>3, FS_Subset
  <2>5. Online(row) \ settled = Online(old) /\ settled \in SUBSET Online(row) BY <1>18
  <2>6. SumFunctionOnSet(f, Online(row)) = SumFunctionOnSet(f, settled) + SumFunctionOnSet(f, Online(old))
    BY <2>3, <2>5, SumSplit
  <2>7. SumFunctionOnSet(f, settled) \in Int /\ SumFunctionOnSet(f, Online(old)) \in Int
    <3>1. \A k \in settled : f[k] \in Int BY <2>3, <2>5
    <3>2. \A k \in Online(old) : f[k] \in Int BY <2>3, <2>5
    <3> QED BY <2>4, <3>1, <3>2, SumType
  <2>8. SumFunctionOnSet(f, settled) <= amount BY <1>2, <1>7, <2>1 DEF SumOf, AmountsOf
  <2>9. SumFunctionOnSet(f, Online(old)) <= old.collected BY <1>4, <2>1 DEF BillKept, Brought
  <2>10. old.collected \in Int BY BillRow
  <2>11. SumFunctionOnSet(f, Online(row)) <= collected
    BY <1>12, <2>6, <2>7, <2>8, <2>9, <2>10
  <2> QED BY <1>14, <1>17, <2>1, <2>11 DEF Brought
<1>20. BillKept(row) BY <1>4, <1>11, <1>14, <1>16, <1>19, BillRewritten
<1> QED BY <1>1, <1>14, <1>15, <1>20, BillWritten

----------------------------------------------------------------------------
(* How a price is divided                                                  *)

Amounts(total, terms) == [i \in DOMAIN terms |-> AmountOf(total, terms[i])]
Allocated(total, terms) == SumFunctionOnSet(Amounts(total, terms), 1..(Len(terms) - 1))

LEMMA AmountsType ==
  ASSUME NEW total \in Nat, NEW terms \in Seq(TermType)
  PROVE  /\ Len(terms) \in Nat /\ DOMAIN terms = 1..Len(terms)
         /\ \A i \in DOMAIN terms : terms[i] \in TermType /\ Amounts(total, terms)[i] \in Int
         /\ 1..(Len(terms) - 1) \subseteq DOMAIN terms /\ IsFiniteSet(1..(Len(terms) - 1))
         /\ Allocated(total, terms) \in Int
<1>1. Len(terms) \in Nat /\ DOMAIN terms = 1..Len(terms) /\ \A i \in DOMAIN terms : terms[i] \in TermType
  BY SeqFacts
<1>2. ASSUME NEW i \in DOMAIN terms PROVE Amounts(total, terms)[i] \in Int
  <2>1. terms[i].pct \in Int /\ (terms[i].amount \in Int \/ terms[i].amount = None) BY <1>1 DEF TermType
  <2>2. PICK n \in Int : n = total * terms[i].pct BY <2>1
  <2>3. PICK share \in Int : share = Nearest(n, 10000 * 100) BY ShareType, SMT
  <2>4. Share(total, terms[i]) \in Int BY <2>2, <2>3, SMT DEF Share
  <2>5. AmountOf(total, terms[i]) \in Int BY <2>1, <2>4 DEF AmountOf
  <2> QED BY <2>5 DEF Amounts
<1>3. 1..(Len(terms) - 1) \subseteq DOMAIN terms BY <1>1
<1>4. IsFiniteSet(1..(Len(terms) - 1)) BY <1>1, FS_Interval
<1>5. Allocated(total, terms) \in Int BY <1>2, <1>3, <1>4, SumType DEF Allocated
<1> QED BY <1>1, <1>2, <1>3, <1>4, <1>5

LEMMA PartsType ==
  ASSUME NEW total \in Nat, NEW terms \in Seq(TermType)
  PROVE  /\ Parts(total, terms) \in Seq(PartType) /\ Len(Parts(total, terms)) = Len(terms)
         /\ DOMAIN Parts(total, terms) = DOMAIN terms
         /\ \A i \in DOMAIN terms :
              /\ Parts(total, terms)[i].paid = "no"
              /\ Parts(total, terms)[i].amount =
                   Nearest(IF i = Len(terms) THEN total - Allocated(total, terms)
                           ELSE Amounts(total, terms)[i], 100)
<1>1. PICK rest : rest = total - Allocated(total, terms) OBVIOUS
<1>2. rest \in Int BY <1>1, AmountsType
<1>3. Parts(total, terms) =
        [i \in DOMAIN terms |->
           [amount |-> Nearest(IF i = Len(terms) THEN rest ELSE Amounts(total, terms)[i], 100),
            paid |-> "no"]]
  BY <1>1 DEF Parts, Amounts, Allocated
<1>4. ASSUME NEW i \in DOMAIN terms
      PROVE  /\ Parts(total, terms)[i] \in PartType /\ Parts(total, terms)[i].paid = "no"
             /\ Parts(total, terms)[i].amount =
                  Nearest(IF i = Len(terms) THEN rest ELSE Amounts(total, terms)[i], 100)
  <2>0. PICK x \in Int : x = IF i = Len(terms) THEN rest ELSE Amounts(total, terms)[i]
    BY <1>2, AmountsType
  <2>1. PICK amount \in Int : amount = Nearest(x, 100) BY NearestCents
  <2>2. Parts(total, terms)[i] = [amount |-> amount, paid |-> "no"] BY <1>3, <2>0, <2>1
  <2> QED BY <2>0, <2>1, <2>2 DEF PartType
<1>5. Parts(total, terms) \in [DOMAIN terms -> PartType] BY <1>3, <1>4
<1>6. /\ Parts(total, terms) \in Seq(PartType) /\ Len(Parts(total, terms)) = Len(terms)
      /\ DOMAIN Parts(total, terms) = DOMAIN terms
  <2>1. PICK n \in Nat : n = Len(terms) /\ DOMAIN terms = 1..n BY AmountsType
  <2>2. \A f \in [1..n -> PartType] : f \in Seq(PartType) /\ Len(f) = n
    <3> HIDE DEF PartType
    <3> QED OBVIOUS
  <2> HIDE DEF PartType
  <2> QED BY <1>3, <1>5, <2>1, <2>2
<1> QED BY <1>1, <1>4, <1>6

(* What is stored of the instalments but the last is what was allocated,   *)
(* within half a cent for each that is not in whole cents.                 *)
Stored(total, terms) == [i \in DOMAIN terms |-> Nearest(Amounts(total, terms)[i], 100)]

LEMMA StoredClose ==
  ASSUME NEW total \in Nat, NEW terms \in Seq(TermType)
  PROVE  \E stored \in Int, count \in Nat :
           /\ stored = SumFunctionOnSet(Stored(total, terms), 1..(Len(terms) - 1))
           /\ count = Cardinality(Broken(terms))
           /\ 100 * stored <= Allocated(total, terms) + 50 * count
           /\ Allocated(total, terms) <= 100 * stored + 50 * count
<1> DEFINE S == 1..(Len(terms) - 1)
<1> DEFINE B == Broken(terms)
<1>1. /\ S \subseteq DOMAIN terms /\ IsFiniteSet(S) /\ B \subseteq S
      /\ \A i \in S : terms[i] \in TermType /\ Amounts(total, terms)[i] \in Int
  BY AmountsType DEF Broken
<1>2. ASSUME NEW i \in S \ B PROVE 100 * Nearest(Amounts(total, terms)[i], 100) = Amounts(total, terms)[i]
  <2>1. i \in S /\ i \notin B /\ i \in DOMAIN terms BY <1>1
  <2>2. PICK x \in Int : x = Amounts(total, terms)[i] BY <1>1, <2>1
  <2>3. x = AmountOf(total, terms[i]) BY <2>1, <2>2 DEF Amounts
  <2>4. x % 100 = 0
    <3>1. CASE terms[i].amount # None BY <2>1, <2>3, <3>1 DEF Broken, AmountOf
    <3>2. CASE terms[i].amount = None
      <4>1. terms[i].pct \in Int BY <1>1, <2>1 DEF TermType
      <4>2. PICK t \in Int : t = total * terms[i].pct BY <4>1
      <4>3. PICK share \in Int : share = Nearest(t, 10000 * 100) BY ShareType, SMT
      <4>40. Share(total, terms[i]) \in Int BY <4>2, <4>3, SMT DEF Share
      <4>4. PICK s \in Int : s = Share(total, terms[i]) BY <4>40
      <4>5. x = 100 * s BY <2>3, <3>2, <4>4 DEF AmountOf
      <4> QED BY <4>5, SMT
    <3> QED BY <3>1, <3>2
  <2>5. 100 * Nearest(x, 100) = x BY <2>4, NearestWhole
  <2> QED BY <2>2, <2>5
<1> HIDE DEF S, B
<1>21. PICK f : f = Stored(total, terms) OBVIOUS
<1>22. \A i \in S : f[i] = Nearest(Amounts(total, terms)[i], 100) BY <1>1, <1>21 DEF Stored
<1>3. IsFiniteSet(B) /\ IsFiniteSet(S \ B) /\ Cardinality(B) \in Nat
  BY <1>1, FS_Subset, FS_CardinalityType
<1>4. PICK h : h = Amounts(total, terms) OBVIOUS
<1>5. PICK g : g = [i \in S |-> 100 * f[i]] OBVIOUS
<1>6. ASSUME NEW i \in S
      PROVE  /\ f[i] \in Int /\ h[i] \in Int /\ g[i] \in Int /\ g[i] = 100 * f[i]
             /\ g[i] <= h[i] + 50 /\ h[i] <= g[i] + 50
             /\ i \notin B => g[i] = h[i]
  <2>1. f[i] = Nearest(h[i], 100) /\ h[i] \in Int BY <1>1, <1>4, <1>22
  <2>2. PICK x \in Int : x = h[i] BY <2>1
  <2>3. PICK y \in Int : y = Nearest(x, 100) BY NearestCents
  <2>4. 100 * y - x \in -50..50 BY <2>3, NearestCents
  <2>5. 100 * y - x >= -50 /\ 100 * y - x <= 50 BY <2>4
  <2>6. g[i] = 100 * y /\ f[i] = y BY <1>5, <2>1, <2>2, <2>3
  <2>7. i \notin B => 100 * y = x BY <1>2, <1>4, <2>2, <2>3
  <2> QED BY <2>2, <2>5, <2>6, <2>7
<1>7. PICK stored \in Int : stored = SumFunctionOnSet(f, S)
  <2>1. \A i \in S : f[i] \in Int BY <1>6
  <2>2. SumFunctionOnSet(f, S) \in Int BY <1>1, <2>1, SumType
  <2> QED BY <2>2
<1>8. SumFunctionOnSet(g, S) = 100 * stored
  <2>1. PICK c \in Int : c = 100 OBVIOUS
  <2>2. \A i \in S : f[i] \in Int /\ g[i] = c * f[i] BY <1>6, <2>1
  <2>3. SumFunctionOnSet(g, S) = c * SumFunctionOnSet(f, S) BY <1>1, <2>2, SumScaled
  <2> QED BY <1>7, <2>1, <2>3
<1>9. /\ SumFunctionOnSet(g, S) = SumFunctionOnSet(g, B) + SumFunctionOnSet(g, S \ B)
      /\ SumFunctionOnSet(h, S) = SumFunctionOnSet(h, B) + SumFunctionOnSet(h, S \ B)
  BY <1>1, <1>6, SumSplit
<1>10. SumFunctionOnSet(g, S \ B) = SumFunctionOnSet(h, S \ B)
  <2>1. \A i \in S \ B : g[i] = h[i] BY <1>6
  <2> QED BY <1>3, <2>1, SumEqual
<1>11. /\ SumFunctionOnSet(g, B) <= SumFunctionOnSet(h, B) + 50 * Cardinality(B)
       /\ SumFunctionOnSet(h, B) <= SumFunctionOnSet(g, B) + 50 * Cardinality(B)
  <2>1. \A i \in B : /\ g[i] \in Int /\ h[i] \in Int
                     /\ g[i] <= h[i] + 50 /\ h[i] <= g[i] + 50
    BY <1>1, <1>6
  <2> QED BY <1>3, <2>1, SumClose
<1>12. /\ SumFunctionOnSet(g, B) \in Int /\ SumFunctionOnSet(h, B) \in Int
       /\ SumFunctionOnSet(h, S \ B) \in Int
  <2>1. \A i \in B : g[i] \in Int /\ h[i] \in Int BY <1>1, <1>6
  <2>2. \A i \in S \ B : h[i] \in Int BY <1>6
  <2> QED BY <1>3, <2>1, <2>2, SumType
<1>13. SumFunctionOnSet(h, S) = Allocated(total, terms) BY <1>4 DEF S, Allocated
<1>14. /\ 100 * stored <= SumFunctionOnSet(h, S) + 50 * Cardinality(B)
       /\ SumFunctionOnSet(h, S) <= 100 * stored + 50 * Cardinality(B)
  BY <1>3, <1>8, <1>9, <1>10, <1>11, <1>12
<1> QED BY <1>3, <1>7, <1>13, <1>14, <1>21 DEF S, B

LEMMA PlacedAddsUp ==
  ASSUME NEW total \in Nat, NEW terms \in Seq(TermType), NEW row \in BillType,
         row.due = Nearest(total, 100), row.terms = terms, row.parts = Parts(total, terms)
  PROVE  AddsUp(row)
<1> DEFINE gap == SumFunctionOnSet(AmountsOf(row), DOMAIN row.parts) - row.due
           slack == Cardinality(Broken(terms)) + 1
<1> SUFFICES ASSUME row.parts # << >>, row.parts[Len(row.parts)].amount >= 0
             PROVE  2 * gap <= slack /\ -2 * gap <= slack
  BY DEF AddsUp
<1>1. PICK n \in Nat : n = Len(terms) /\ DOMAIN terms = 1..n /\ DOMAIN row.parts = 1..n /\ Len(row.parts) = n
  BY AmountsType, PartsType
<1>2. n # 0 /\ n \in 1..n
  <2>1. \A s \in Seq(PartType) : s # << >> => Len(s) # 0 OBVIOUS
  <2>2. n # 0 BY <1>1, <2>1, BillRow
  <2> QED BY <2>2
<1>3. PICK f : f = AmountsOf(row) OBVIOUS
<1>4. \A i \in 1..n : f[i] \in Int BY <1>1, <1>3, BillRow DEF AmountsOf
<1>5. f[n] = Nearest(total - Allocated(total, terms), 100)
  BY <1>1, <1>2, <1>3, PartsType DEF AmountsOf
<1>6. \A i \in 1..(n - 1) : f[i] = Nearest(Amounts(total, terms)[i], 100)
  <2> SUFFICES ASSUME NEW i \in 1..(n - 1) PROVE f[i] = Nearest(Amounts(total, terms)[i], 100)
    OBVIOUS
  <2>1. i \in 1..n /\ i # n OBVIOUS
  <2>2. Parts(total, terms)[i].amount = Nearest(Amounts(total, terms)[i], 100) BY <1>1, <2>1, PartsType
  <2>3. f[i] = row.parts[i].amount BY <1>1, <1>3, <2>1 DEF AmountsOf
  <2> QED BY <2>2, <2>3
<1>7. IsFiniteSet(1..n) /\ (1..n) \ {n} = 1..(n - 1)
  <2>1. 1 \in Int /\ n \in Int OBVIOUS
  <2>2. IsFiniteSet(1..n) BY <2>1, FS_Interval
  <2> QED BY <2>2
<1>8. SumFunctionOnSet(f, 1..n) = f[n] + SumFunctionOnSet(f, (1..n) \ {n})
  BY <1>2, <1>4, <1>7, SumAt
<1>9. PICK stored \in Int, count \in Nat, a \in Int :
        /\ stored = SumFunctionOnSet(f, 1..(n - 1)) /\ count = Cardinality(Broken(terms))
        /\ a = Allocated(total, terms)
        /\ 100 * stored <= a + 50 * count /\ a <= 100 * stored + 50 * count
  <2>1. PICK g : g = Stored(total, terms) OBVIOUS
  <2>2. \A i \in 1..(n - 1) : g[i] = f[i]
    <3>1. \A i \in 1..(n - 1) : i \in DOMAIN terms BY <1>1
    <3> QED BY <1>6, <2>1, <3>1 DEF Stored
  <2>3. IsFiniteSet(1..(n - 1)) BY <1>1, AmountsType
  <2>4. SumFunctionOnSet(g, 1..(n - 1)) = SumFunctionOnSet(f, 1..(n - 1)) BY <2>2, <2>3, SumEqual
  <2>5. PICK stored \in Int, count \in Nat :
          /\ stored = SumFunctionOnSet(g, 1..(n - 1))
          /\ count = Cardinality(Broken(terms))
          /\ 100 * stored <= Allocated(total, terms) + 50 * count
          /\ Allocated(total, terms) <= 100 * stored + 50 * count
    BY <1>1, <2>1, StoredClose
  <2>6. PICK a \in Int : a = Allocated(total, terms) BY AmountsType
  <2> QED BY <2>4, <2>5, <2>6
<1>10. PICK last \in Int, due \in Int : last = f[n] /\ due = row.due /\ last >= 0 /\ due >= 0
  <2>1. f[n] >= 0 BY <1>1, <1>2, <1>3 DEF AmountsOf
  <2> QED BY <1>2, <1>4, <2>1, BillRow
<1>11. 100 * last - (total - a) <= 50 /\ (total - a) - 100 * last <= 49
  <2>1. PICK rest \in Int : rest = total - a OBVIOUS
  <2>2. last = Nearest(rest, 100) BY <1>5, <1>9, <1>10, <2>1
  <2>3. 100 * last - rest \in -50..50 /\ rest - 100 * last <= 49 BY <1>10, <2>2, NearestCents
  <2>4. 100 * last - rest <= 50 BY <2>3
  <2> QED BY <2>1, <2>3, <2>4
<1>12. 100 * due - total <= 50 /\ total - 100 * due <= 49
  <2>1. total \in Int /\ due = Nearest(total, 100) BY <1>10
  <2>2. 100 * due - total \in -50..50 /\ total - 100 * due <= 49 BY <1>10, <2>1, NearestCents
  <2>3. 100 * due - total <= 50 BY <2>2
  <2> QED BY <2>2, <2>3
<1>13. PICK e \in Int : e = last + stored - due OBVIOUS
<1>14. gap = e
  <2>1. SumFunctionOnSet(AmountsOf(row), DOMAIN row.parts) = SumFunctionOnSet(f, 1..n) BY <1>1, <1>3
  <2>2. SumFunctionOnSet(f, 1..n) = last + stored BY <1>7, <1>8, <1>9, <1>10
  <2> QED BY <1>10, <1>13, <2>1, <2>2
<1>15. 2 * e <= count + 1 /\ -2 * e <= count + 1
  <2>1. 100 * stored <= a + 50 * count /\ a <= 100 * stored + 50 * count BY <1>9
  <2> QED BY <1>11, <1>12, <1>13, <2>1, SMT
<1> QED BY <1>9, <1>14, <1>15

(* A product of something small.                                           *)
LEMMA SmallProduct ==
  ASSUME NEW e \in Int, NEW k \in Nat, NEW p \in Nat, -k <= e, e <= k
  PROVE  e * p \in Int /\ -(k * p) <= e * p /\ e * p <= k * p
BY SMT

Percents(terms) == [i \in DOMAIN terms |-> terms[i].pct]

LEMMA PercentagesSum ==
  ASSUME NEW terms \in Seq(TermType), \A i \in DOMAIN terms : terms[i].pct >= 0,
         Validated(terms), NEW k \in DOMAIN terms
  PROVE  /\ Percentages(terms) \in Nat /\ Percentages(terms) \in 9999..10001
         /\ \A i \in DOMAIN terms : terms[i].pct \in Nat /\ Percents(terms)[i] = terms[i].pct
         /\ terms[k].pct <= Percentages(terms)
         /\ SumFunctionOnSet(Percents(terms), DOMAIN terms \ {k}) \in Nat
         /\ Percentages(terms) = terms[k].pct + SumFunctionOnSet(Percents(terms), DOMAIN terms \ {k})
<1>1. /\ DOMAIN terms = 1..Len(terms) /\ Len(terms) \in Nat
      /\ \A i \in DOMAIN terms : terms[i].pct \in Int
  <2>1. \A i \in DOMAIN terms : terms[i] \in TermType BY SeqFacts
  <2>2. DOMAIN terms = 1..Len(terms) /\ Len(terms) \in Nat BY SeqFacts
  <2> QED BY <2>1, <2>2 DEF TermType
<1>2. \A i \in DOMAIN terms : terms[i].pct \in Nat /\ Percents(terms)[i] = terms[i].pct
  BY <1>1 DEF Percents
<1>3. IsFiniteSet(DOMAIN terms) /\ IsFiniteSet(DOMAIN terms \ {k})
  <2>1. IsFiniteSet(DOMAIN terms) BY <1>1, FS_Interval
  <2> QED BY <2>1, FS_Subset
<1>4. PICK p : p = Percents(terms) OBVIOUS
<1>5. Percentages(terms) = SumFunctionOnSet(p, DOMAIN terms)
  <2>1. DOMAIN Percents(terms) = DOMAIN terms BY DEF Percents
  <2> QED BY <1>4, <2>1 DEF Percentages, SumFunction, Percents
<1>6. \A i \in DOMAIN terms : p[i] \in Nat /\ p[i] \in Int /\ p[i] = terms[i].pct BY <1>2, <1>4
<1>7. SumFunctionOnSet(p, DOMAIN terms) = p[k] + SumFunctionOnSet(p, DOMAIN terms \ {k})
  BY <1>3, <1>6, SumAt
<1>8. SumFunctionOnSet(p, DOMAIN terms \ {k}) \in Nat BY <1>3, <1>6, SumNat
<1>9. Percentages(terms) \in 9999..10001
  <2>1. terms # << >> BY <1>1
  <2>2. \A i \in DOMAIN terms : terms[i].pct # None BY DEF None
  <2> QED BY <2>1, <2>2 DEF Validated
<1>10. Percentages(terms) \in Nat BY <1>9, SMT
<1>11. terms[k].pct <= Percentages(terms) BY <1>5, <1>6, <1>7, <1>8
<1> QED BY <1>2, <1>4, <1>5, <1>6, <1>7, <1>8, <1>9, <1>10, <1>11

(* Rounding takes half a cent at most from each instalment but the last.   *)
LEMMA OthersSum ==
  ASSUME NEW total \in Nat, NEW terms \in Seq(TermType),
         \A i \in DOMAIN terms : terms[i].pct >= 0 /\ terms[i].amount = None,
         NEW n \in Nat, n = Len(terms), n >= 1
  PROVE  LET a == Allocated(total, terms)
             o == total * SumFunctionOnSet(Percents(terms), 1..(n - 1))
         IN Penny * a <= o + Half * (n - 1) /\ o <= Penny * a + Half * (n - 1)
<1> DEFINE S == 1..(n - 1)
<1>1. /\ DOMAIN terms = 1..n /\ S \subseteq DOMAIN terms /\ IsFiniteSet(S)
      /\ \A i \in DOMAIN terms : Amounts(total, terms)[i] \in Int
  BY AmountsType
<1>2. Cardinality(S) = n - 1
  <2>1. n - 1 \in Int /\ 1 \in Int OBVIOUS
  <2>2. Cardinality(1..(n - 1)) = IF 1 > n - 1 THEN 0 ELSE n - 1 - 1 + 1 BY <2>1, FS_Interval
  <2> QED BY <2>2
<1> HIDE DEF S
<1>3. PICK f, g : /\ f = [i \in S |-> Penny * Amounts(total, terms)[i]]
                  /\ g = [i \in S |-> total * Percents(terms)[i]]
  OBVIOUS
<1>4. ASSUME NEW i \in S
      PROVE  /\ Amounts(total, terms)[i] \in Int /\ Percents(terms)[i] \in Int
             /\ f[i] = Penny * Amounts(total, terms)[i] /\ g[i] = total * Percents(terms)[i]
             /\ f[i] \in Int /\ g[i] \in Int /\ f[i] <= g[i] + Half /\ g[i] <= f[i] + Half
  <2>1. i \in DOMAIN terms BY <1>1
  <2>2. PICK x \in Int : x = Amounts(total, terms)[i] BY <1>1, <2>1
  <2>3. terms[i] \in TermType BY <2>1, SeqFacts
  <2>4. PICK p \in Int : p = terms[i].pct BY <2>3 DEF TermType
  <2>5. Percents(terms)[i] = p BY <2>1, <2>4 DEF Percents
  <2>6. p # None /\ terms[i].amount = None BY <2>1, <2>4 DEF None
  <2>7. PICK t \in Int : t = total * p BY <2>4
  <2>80. PICK share \in Int : share = Nearest(t, 10000 * 100) BY ShareType, SMT
  <2>8. x = 100 * share
    <3>1. x = AmountOf(total, terms[i]) BY <2>1, <2>2 DEF Amounts
    <3>2. x = 100 * Share(total, terms[i]) BY <2>6, <3>1 DEF AmountOf
    <3> QED BY <2>4, <2>6, <2>7, <2>80, <3>2 DEF Share
  <2>9. PICK y \in Int : y = Penny * x BY <2>2, CentType
  <2>10. y - t <= Half /\ t - y <= Half
    <3>1. Cent * share - t <= Half /\ t - Cent * share <= Half BY <2>7, <2>80, NearestShare
    <3>2. y = Cent * share BY <2>8, <2>9, SMT DEF Cent, Penny
    <3> QED BY <3>1, <3>2
  <2>11. y <= t + Half /\ t <= y + Half BY <2>7, <2>9, <2>10, CentType
  <2>12. f[i] = y /\ g[i] = t BY <1>3, <2>2, <2>5, <2>7, <2>9
  <2> QED BY <1>3, <2>2, <2>5, <2>9, <2>11, <2>12
<1>5. SumFunctionOnSet(f, S) = Penny * SumFunctionOnSet(Amounts(total, terms), S)
  <2>1. \A i \in S : Amounts(total, terms)[i] \in Int /\ f[i] = Penny * Amounts(total, terms)[i] BY <1>4
  <2> QED BY <1>1, <2>1, CentType, SumScaled, Zenon
<1>6. SumFunctionOnSet(g, S) = total * SumFunctionOnSet(Percents(terms), S)
  <2>1. \A i \in S : Percents(terms)[i] \in Int /\ g[i] = total * Percents(terms)[i] BY <1>4
  <2>2. total \in Int OBVIOUS
  <2> QED BY <1>1, <2>1, <2>2, SumScaled, Zenon
<1>7. /\ SumFunctionOnSet(f, S) <= SumFunctionOnSet(g, S) + Half * Cardinality(S)
      /\ SumFunctionOnSet(g, S) <= SumFunctionOnSet(f, S) + Half * Cardinality(S)
  BY <1>1, <1>4, CentType, SumClose
<1>8. SumFunctionOnSet(Amounts(total, terms), S) = Allocated(total, terms) BY DEF S, Allocated
<1> QED BY <1>2, <1>5, <1>6, <1>7, <1>8 DEF S

LEMMA PlacedShared ==
  ASSUME NEW total \in Nat, NEW terms \in Seq(TermType), Validated(terms), NEW row \in BillType,
         row.due = Nearest(total, 100), row.terms = terms, row.parts = Parts(total, terms)
  PROVE  Shared(row)
<1> SUFFICES ASSUME \A i \in DOMAIN terms : terms[i].pct >= 0 /\ terms[i].amount = None,
                    NEW k \in DOMAIN terms
             PROVE  row.parts[k].amount * 10000 - row.due * terms[k].pct
                      \in -(Len(terms) * 10000 + row.due)..(Len(terms) * 10000 + row.due)
  <2>1. DOMAIN row.parts = DOMAIN terms /\ Len(row.parts) = Len(terms) BY PartsType
  <2> QED BY <2>1 DEF Shared
<1>0. \A i \in DOMAIN terms : terms[i].pct >= 0 OBVIOUS
<1>1. PICK n \in Nat : n = Len(terms) /\ DOMAIN terms = 1..n BY AmountsType
<1>2. n >= 1 /\ k \in 1..n BY <1>1
<1>3. PICK due \in Nat : due = row.due BY BillRow
<1>4. PICK d \in Int : d = 100 * due - total
  <2>1. 100 * due - total \in Int OBVIOUS
  <2> QED BY <2>1
<1>5. -50 <= d /\ d <= 50
  <2>1. total \in Int /\ due = Nearest(total, 100) BY <1>3
  <2>2. 100 * due - total \in -50..50 BY <2>1, NearestCents
  <2> QED BY <1>4, <2>2
<1>6. PICK pct \in Nat, others \in Nat :
        /\ pct = terms[k].pct /\ others = SumFunctionOnSet(Percents(terms), DOMAIN terms \ {k})
        /\ pct + others \in 9999..10001
  <2>1. SumFunctionOnSet(Percents(terms), DOMAIN terms \ {k}) \in Nat BY <1>0, PercentagesSum
  <2>2. PICK others \in Nat : others = SumFunctionOnSet(Percents(terms), DOMAIN terms \ {k}) BY <2>1
  <2>3. /\ terms[k].pct \in Nat /\ Percentages(terms) \in 9999..10001
        /\ Percentages(terms) = terms[k].pct + others
    BY <1>0, <2>2, PercentagesSum
  <2> QED BY <2>2, <2>3
<1>7. pct <= 10001 BY <1>6, SMT
<1>8. PICK t \in Int, u \in Int, v \in Int : t = total * pct /\ u = d * pct /\ v = due * pct OBVIOUS
<1>9. -(50 * pct) <= u /\ u <= 50 * pct
  <2>1. 50 \in Nat /\ -50 <= d /\ d <= 50 BY <1>5
  <2> QED BY <1>8, <2>1, SmallProduct
<1>10. PICK amount \in Int : amount = row.parts[k].amount
  <2>1. k \in DOMAIN row.parts BY PartsType
  <2> QED BY <2>1, BillRow
<1>11. ASSUME amount * 10000 - v >= -(n * 10000 + due), amount * 10000 - v <= n * 10000 + due
       PROVE  row.parts[k].amount * 10000 - row.due * terms[k].pct
                \in -(Len(terms) * 10000 + row.due)..(Len(terms) * 10000 + row.due)
  <2>1. amount * 10000 - v \in -(n * 10000 + due)..(n * 10000 + due) BY <1>11, SMT
  <2> QED BY <1>1, <1>3, <1>6, <1>8, <1>10, <2>1
<1>12. CASE k # n
  <2>0. PICK x \in Int : x = Amounts(total, terms)[k] BY AmountsType
  <2>1. amount = Nearest(x, 100) BY <1>1, <1>10, <1>12, <2>0, PartsType
  <2>2. pct # None /\ terms[k].amount = None BY DEF None
  <2>3. x = 100 * Share(total, terms[k]) BY <1>6, <2>0, <2>2 DEF Amounts, AmountOf
  <2>30. PICK share \in Int : share = Nearest(t, 10000 * 100) BY ShareType, SMT
  <2>31. x = 100 * share BY <1>6, <1>8, <2>2, <2>3, <2>30, SMT DEF Share
  <2>4. amount = Nearest(t, 10000 * 100)
    <3>1. x % 100 = 0 BY <2>31, SMT
    <3>2. 100 * amount = x BY <2>1, <3>1, NearestWhole
    <3> QED BY <2>30, <2>31, <3>2
  <2>5. Cent * amount - t <= Half /\ t - Cent * amount <= Half BY <1>8, <2>4, NearestShare
  <2>6. amount * 10000 - v >= -(n * 10000 + due) /\ amount * 10000 - v <= n * 10000 + due
    <3>1. 100 * v = t + u BY <1>4, <1>8, SMT
    <3> QED BY <1>2, <1>4, <1>5, <1>7, <1>9, <2>5, <3>1, SMT DEF Cent, Half
  <2> QED BY <1>11, <2>6
<1>13. CASE k = n
  <2>1. PICK a \in Int : a = Allocated(total, terms) BY AmountsType
  <2>2. amount = Nearest(total - a, 100) BY <1>1, <1>10, <1>13, <2>1, PartsType
  <2>3. -50 <= 100 * amount - (total - a) /\ 100 * amount - (total - a) <= 50
    <3>1. total - a \in Int OBVIOUS
    <3>2. PICK r \in Int : r = total - a BY <3>1
    <3>3. amount = Nearest(r, 100) BY <2>2, <3>2
    <3>4. 100 * amount - r \in -50..50 BY <3>3, NearestCents
    <3>5. -50 <= 100 * amount - r /\ 100 * amount - r <= 50 BY <3>4
    <3> QED BY <3>2, <3>5
  <2>5. others = SumFunctionOnSet(Percents(terms), 1..(n - 1))
    <3>1. (1..n) \ {n} = 1..(n - 1) OBVIOUS
    <3>2. DOMAIN terms \ {k} = 1..(n - 1) BY <1>1, <1>13, <3>1
    <3>3. others = SumFunctionOnSet(Percents(terms), DOMAIN terms \ {k}) BY <1>6
    <3> QED BY <3>2, <3>3, Zenon
  <2>6. 9999 <= others + pct /\ others + pct <= 10001 BY <1>6, SMT
  <2>7. PICK e \in Int : e = others + pct - 10000 OBVIOUS
  <2>8. -1 <= e /\ e <= 1 BY <2>6, <2>7
  <2>9. PICK o \in Int, w \in Int : o = total * others /\ w = e * total OBVIOUS
  <2>10. -total <= w /\ w <= total
    <3>1. 1 \in Nat /\ -1 <= e /\ e <= 1 BY <2>8
    <3>2. -(1 * total) <= w /\ w <= 1 * total BY <2>9, <3>1, SmallProduct
    <3> QED BY <3>2
  <2>11. CASE n >= 2
    <3>1. Penny * a <= o + Half * (n - 1) /\ o <= Penny * a + Half * (n - 1)
      <4>1. n >= 1 BY <1>2
      <4> QED BY <1>1, <2>1, <2>5, <2>9, <4>1, OthersSum
    <3>2. amount * 10000 - v >= -(n * 10000 + due) /\ amount * 10000 - v <= n * 10000 + due
      <4>1. 100 * v = t + u BY <1>4, <1>8, SMT
      <4>2. o + t = 10000 * total + w BY <1>8, <2>7, <2>9, SMT
      <4> QED BY <1>4, <1>5, <1>7, <1>9, <2>3, <2>10, <2>11, <3>1, <4>1, <4>2, SMT DEF Penny, Half
    <3> QED BY <1>11, <3>2
  <2>12. CASE n = 1
    <3>1. a = 0 /\ others = 0
      <4>1. 1..(n - 1) = {} BY <2>12
      <4> QED BY <1>1, <2>1, <2>5, <4>1, SumEmpty DEF Allocated
    <3>2. amount = due BY <1>3, <2>2, <3>1
    <3>3. PICK x \in Int : x = e * due OBVIOUS
    <3>4. -due <= x /\ x <= due
      <4>1. 1 \in Nat /\ -1 <= e /\ e <= 1 BY <2>8
      <4>2. -(1 * due) <= x /\ x <= 1 * due BY <3>3, <4>1, SmallProduct
      <4> QED BY <4>2
    <3>5. v = 10000 * due + x
      <4>1. pct = e + 10000 BY <2>7, <3>1
      <4> QED BY <1>8, <3>3, <4>1, SMT
    <3>6. amount * 10000 - v >= -(n * 10000 + due) /\ amount * 10000 - v <= n * 10000 + due
      BY <2>12, <3>2, <3>4, <3>5, SMT
    <3> QED BY <1>11, <3>6
  <2> QED BY <1>2, <2>11, <2>12
<1> QED BY <1>12, <1>13

LEMMA RatesType ==
  ASSUME rules \subseteq Rules
  PROVE  Rates("ours") \subseteq 0..5000
<1>1. rules \subseteq RuleType BY PricingAssumption
<1>2. \A r \in rules : r.rate \in 0..5000 BY <1>1 DEF RuleType
<1>3. 800 \in 0..5000 OBVIOUS
<1> QED BY <1>2, <1>3 DEF Rates

(* The commission is half of the price at most.                            *)
LEMMA CommissionHalf ==
  ASSUME NEW total \in Nat, NEW t \in Nat, t <= 5000 * total
  PROVE  /\ Nearest(t, 10000 * 100) \in Nat
         /\ 2 * Nearest(t, 10000 * 100) <= Nearest(total, 100) + 1
<1>1. PICK c \in Int : c = Nearest(t, 10000 * 100) BY ShareType
<1>2. Cent * c - t <= Half BY <1>1, NearestShare
<1>3. c \in Nat
  <2>1. t \in Int /\ t >= 0 OBVIOUS
  <2>2. c >= 0 BY <1>1, <2>1, ShareType
  <2> QED BY <2>2
<1>4. PICK due \in Int : due = Nearest(total, 100) BY NearestCents
<1>5. 100 * due - total \in -50..50 BY <1>4, NearestCents
<1>6. 100 * due - total >= -50 BY <1>5
<1>7. 2 * c <= due + 1 BY <1>2, <1>6, SMT DEF Cent, Half
<1> QED BY <1>1, <1>3, <1>4, <1>7

LEMMA PlaceBillInv ==
  ASSUME PricingTypeOK, PricingInv, NEW b \in Bills, PlaceBill(b)
  PROVE  PricingTypeOK' /\ PricingInv'
<1>1. PICK qty \in Quantities, tiers \in TierLists, terms \in {t \in TermLists : Validated(t)} :
        \E tier \in Picks(tiers, qty), rate \in Rates("ours") :
          bill' = [bill EXCEPT ![b] = Placed(tier.price * qty, rate, terms)]
  BY DEF PlaceBill
<1>2. PICK tier \in Picks(tiers, qty), rate \in Rates("ours") :
        bill' = [bill EXCEPT ![b] = Placed(tier.price * qty, rate, terms)]
  BY <1>1
<1>3. PICK total \in Nat : total = tier.price * qty
  <2>1. qty \in Nat BY PricingAssumption
  <2>2. tier \in TierType BY PricingAssumption DEF Picks
  <2>3. tier.price \in Nat BY <2>2 DEF TierType
  <2>4. tier.price * qty \in Nat BY <2>1, <2>3
  <2> QED BY <2>4
<1>4. terms \in Seq(TermType) /\ Validated(terms) BY PricingAssumption
<1>5. rate \in 0..5000
  <2>1. rules \subseteq Rules BY DEF PricingTypeOK
  <2> QED BY <2>1, RatesType
<1>6. rate \in Nat /\ rate <= 5000 BY <1>5
<1>7. PICK due \in Nat : due = Nearest(total, 100)
  <2>1. total \in Int /\ total >= 0 OBVIOUS
  <2>2. Nearest(total, 100) \in Int /\ Nearest(total, 100) >= 0 BY <2>1, NearestCents
  <2> QED BY <2>2
<1>8. PICK t \in Nat : t = total * rate BY <1>6
<1>81. t <= 5000 * total BY <1>6, <1>8, SMT
<1>82. PICK commission \in Nat : commission = Nearest(t, 10000 * 100) BY <1>81, CommissionHalf
<1>9. 2 * commission <= due + 1 BY <1>7, <1>81, <1>82, CommissionHalf
<1>10. PICK parts \in Seq(PartType) : parts = Parts(total, terms) BY <1>4, PartsType
<1>11. PICK row : row = [at |-> "placed", due |-> due, commission |-> commission, terms |-> terms,
                         parts |-> parts, intent |-> NoIntent, collected |-> 0]
  OBVIOUS
<1>12. /\ row \in BillType /\ row.due = due /\ row.commission = commission /\ row.terms = terms
       /\ row.parts = parts /\ row.intent = NoIntent /\ row.collected = 0
  <2> HIDE DEF TermType, PartType
  <2> QED BY <1>4, <1>11 DEF BillType
<1>13. row = Placed(tier.price * qty, rate, terms)
  BY <1>3, <1>7, <1>8, <1>82, <1>10, <1>11 DEF Placed
<1>131. bill' = [bill EXCEPT ![b] = row] BY <1>2, <1>13
<1>14. AddsUp(row) BY <1>4, <1>7, <1>10, <1>12, PlacedAddsUp
<1>15. Shared(row) BY <1>4, <1>7, <1>10, <1>12, PlacedShared
<1>16. Brought(row)
  <2>1. \A i \in DOMAIN parts : parts[i].paid = "no" BY <1>4, <1>10, PartsType
  <2>2. Online(row) = {} BY <1>12, <2>1 DEF Online
  <2> QED BY <1>12, <2>2, SumEmpty DEF Brought
<1>17. BillKept(row) BY <1>9, <1>12, <1>14, <1>15, <1>16 DEF BillKept
<1>18. rules' = rules BY DEF PlaceBill
<1> QED BY <1>12, <1>131, <1>17, <1>18, BillWritten

LEMMA BillsSame ==
  ASSUME PricingTypeOK, PricingInv, bill' = bill, rules' \subseteq Rules
  PROVE  PricingTypeOK' /\ PricingInv'
<1>1. PricingTypeOK' BY DEF PricingTypeOK
<1>2. IntentsPositive' BY DEF PricingInv, IntentsPositive
<1>3. Priced' = Priced /\ \A b, S : SumOf(b, S)' = SumOf(b, S) BY DEF Priced, SumOf
<1>4. PartsAddUp' BY <1>3 DEF PricingInv, BillsHold, PartsAddUp
<1>5. \A b \in Priced' : Shared(bill'[b])
  <2> SUFFICES ASSUME NEW b \in Priced' PROVE Shared(bill'[b]) OBVIOUS
  <2>1. b \in Bills /\ bill[b] # Unpriced /\ bill'[b] = bill[b] BY DEF Priced
  <2>2. Shared(bill[b]) BY <2>1, BillsKept DEF BillKept
  <2> QED BY <2>1, <2>2, Zenon
<1>6. SharesKept' BY <1>5 DEF SharesKept, Shared
<1>7. PaidIsCovered' BY <1>3 DEF PricingInv, BillsHold, PaidIsCovered
<1>8. CommissionKept' BY <1>3 DEF PricingInv, BillsHold, CommissionKept
<1> QED BY <1>1, <1>2, <1>4, <1>6, <1>7, <1>8 DEF PricingInv, BillsHold

LEMMA PricingStep ==
  ASSUME PricingTypeOK, PricingInv, PricingNext
  PROVE  PricingTypeOK' /\ PricingInv'
<1>1. CASE \E r \in Rules : CreateRule(r) \/ RemoveRule(r)
  <2>1. bill' = bill /\ rules' \subseteq Rules BY <1>1 DEF CreateRule, RemoveRule, PricingTypeOK
  <2> QED BY <2>1, BillsSame
<1>2. CASE \E b \in Bills :
             \/ PlaceBill(b) \/ Checkout(b) \/ Collect(b)
             \/ bill[b] # Unpriced /\ \E k \in PendingParts(b) : PayOffline(b, k)
  BY <1>2, PlaceBillInv, CheckoutInv, CollectInv, PayOfflineInv
<1> QED BY <1>1, <1>2 DEF PricingNext

----------------------------------------------------------------------------
(* The composition                                                         *)

LEMMA PlacementSame ==
  ASSUME PlacementTypeOK, PlacementInv, UNCHANGED placementVars
  PROVE  PlacementTypeOK' /\ PlacementInv'
<1>1. UNCHANGED <<orders, available, contract, cart, placing, team>> BY DEF placementVars
<1>2. PlacementTypeOK' BY <1>1 DEF PlacementTypeOK
<1>3. orders \in Seq(OrderRow) /\ orders' \in Seq(OrderRow) BY <1>1 DEF PlacementTypeOK
<1>4. \A k \in Contracts : Used(k)' <= Used(k)
  <2>1. \A k \in Contracts : Used(k)' = Used(k) BY <1>1 DEF Used
  <2>2. \A k \in Contracts : Used(k) \in Nat BY <1>3, UsedFinite
  <2> QED BY <2>1, <2>2
<1> QED BY <1>1, <1>2, <1>3, <1>4, RoomStays

LEMMA QuotationSame ==
  ASSUME QuotationTypeOK, QuotationInv, UNCHANGED <<quotationVars, team>>
  PROVE  QuotationTypeOK' /\ QuotationInv'
<1>1. UNCHANGED <<rfq, quotes, submitting, accepting, team>> BY DEF quotationVars
<1>2. QuotationTypeOK' BY <1>1 DEF QuotationTypeOK
<1>3. \A r, s : QuotesOf(r, s)' = QuotesOf(r, s) BY <1>1 DEF QuotesOf
<1>4. RoundsTaken' BY <1>1, <1>3 DEF QuotationInv, RoundsTaken
<1>5. RoundsConsecutive' BY <1>1, <1>3 DEF QuotationInv, RoundsConsecutive
<1>6. RoundsCounted' BY <1>1, <1>3 DEF QuotationInv, RoundsCounted
<1>7. QuotesHaveRfq' /\ StillQuoting'
  BY <1>1 DEF QuotationInv, QuotesHaveRfq, StillQuoting, OneAcceptor
<1> QED BY <1>2, <1>4, <1>5, <1>6, <1>7 DEF QuotationInv

(* An order that is placed elsewhere uses no contract.                     *)
LEMMA OrderedElsewhere ==
  ASSUME PlacementTypeOK, PlacementInv, NEW via \in {"RFQ", "BROKER"}, NEW quote \in Nat,
         NEW s \in Suppliers, WriteOrder(via, NoContract, quote, s),
         UNCHANGED <<contract, cart, placing, team>>
  PROVE  PlacementTypeOK' /\ PlacementInv'
<1>1. /\ orders' \in Seq(OrderRow) /\ available' \in [Suppliers -> Nat]
      /\ \A c \in Contracts : Used(c)' = IF c = NoContract THEN Used(c) + 1 ELSE Used(c)
  BY OrderWritten
<1>2. PlacementTypeOK' BY <1>1 DEF PlacementTypeOK
<1>3. orders \in Seq(OrderRow) BY DEF PlacementTypeOK
<1>4. \A c \in Contracts : Used(c)' <= Used(c)
  <2>1. \A c \in Contracts : Used(c)' = Used(c) BY <1>1, Assumptions
  <2>2. \A c \in Contracts : Used(c) \in Nat BY <1>3, UsedFinite
  <2> QED BY <2>1, <2>2
<1> QED BY <1>1, <1>2, <1>3, <1>4, RoomStays

(* No order is forgotten.                                                  *)
LEMMA OrdersStay ==
  ASSUME PlacementTypeOK, PlacementNext
  PROVE  /\ team' = team /\ Len(orders) \in Nat /\ Len(orders') \in Nat /\ Len(orders) <= Len(orders')
<1>1. orders \in Seq(OrderRow) /\ Len(orders) \in Nat BY SeqFacts DEF PlacementTypeOK
<1>2. ASSUME NEW b \in Placers, PlaceGroup(b)
      PROVE  team' = team /\ Len(orders') = Len(orders) + 1
  <2>1. placing[b] # Free BY <1>2 DEF PlaceGroup, Free
  <2>2. PICK s \in placing[b].left : WriteOrder("DIRECT", placing[b].contract, 0, s)
    BY <1>2 DEF PlaceGroup
  <2>3. s \in Suppliers /\ placing[b].contract \in Contracts \cup {NoContract} BY <2>1, PlacingRow
  <2>4. Len(orders') = Len(orders) + 1 BY <2>2, <2>3, OrderWritten
  <2> QED BY <1>2, <2>4 DEF PlaceGroup
<1>3. ASSUME NEW i \in DOMAIN orders, CancelOrder(i)
      PROVE  team' = team /\ Len(orders') = Len(orders)
  BY <1>3, OrderCancelled DEF CancelOrder
<1>4. team' = team /\ (orders' = orders \/ Len(orders') = Len(orders) + 1 \/ Len(orders') = Len(orders))
  BY <1>2, <1>3 DEF PlacementNext, CreateContract, ContractLapses, AddToCart, PlaceStart, PlaceFail, PlaceDone
<1> QED BY <1>1, <1>4

LEMMA InitInv ==
  ASSUME Init
  PROVE  SourcingInv
<1>1. PlacementInit /\ QuotationInit /\ BrokerageInit /\ PricingInit BY DEF Init
<1>2. PlacementTypeOK /\ PlacementInv
  <2>1. orders = << >> /\ \A b \in Placers : placing[b] = Free BY <1>1 DEF PlacementInit
  <2>2. PlacementTypeOK BY <1>1, Assumptions DEF PlacementInit, PlacementTypeOK
  <2>3. \A c : Used(c) = 0
    <3>1. \A c : {i \in DOMAIN orders : orders[i].contract = c /\ orders[i].open} = {} BY <2>1
    <3> QED BY <3>1, FS_EmptySet DEF Used
  <2>4. ContractKept BY <2>3, Assumptions DEF ContractKept
  <2> QED BY <2>1, <2>2, <2>4 DEF PlacementInv, PlacersBusy, RoomLeft
<1>3. QuotationTypeOK /\ QuotationInv
  <2>1. /\ quotes = << >> /\ \A w \in Submitters : submitting[w] = Free
        /\ \A w \in Acceptors : accepting[w] = Free
    BY <1>1 DEF QuotationInit
  <2>2. QuotationTypeOK BY <1>1 DEF QuotationInit, QuotationTypeOK
  <2>3. \A r, s : QuotesOf(r, s) = {} BY <2>1 DEF QuotesOf
  <2>4. Cardinality({}) = 0 BY FS_EmptySet
  <2>5. \A r, s : 1..Cardinality(QuotesOf(r, s)) = {} BY <2>3, <2>4
  <2>6. RoundsTaken BY <2>5 DEF RoundsTaken
  <2>7. RoundsConsecutive BY <2>3 DEF RoundsConsecutive
  <2>8. RoundsCounted BY <2>1 DEF RoundsCounted, Free
  <2>9. QuotesHaveRfq /\ StillQuoting BY <2>1 DEF QuotesHaveRfq, StillQuoting
  <2> QED BY <2>2, <2>6, <2>7, <2>8, <2>9 DEF QuotationInv
<1>4. BrokerageTypeOK /\ BrokerageInv
  <2>1. /\ opportunity = << >> /\ \A b \in Brokers : working[b] = Free
        /\ \A m \in Matchers : matching[m] = Free
    BY <1>1 DEF BrokerageInit
  <2>2. BrokerageTypeOK BY <1>1 DEF BrokerageInit, BrokerageTypeOK
  <2>3. MovesAllowed /\ LinksOnce BY <2>1 DEF MovesAllowed, LinksOnce, Links, Free
  <2>4. RunsLookFirst /\ OneOpenOpportunity BY <2>1 DEF RunsLookFirst, OneOpenOpportunity, Free
  <2> QED BY <2>2, <2>3, <2>4 DEF BrokerageInv
<1>5. PricingTypeOK /\ PricingInv
  <2>1. PricingTypeOK BY <1>1 DEF PricingInit, PricingTypeOK
  <2>2. Priced = {} /\ \A b \in Bills : bill[b] = Unpriced BY <1>1 DEF PricingInit, Priced
  <2> QED BY <2>1, <2>2 DEF PricingInv, IntentsPositive, BillsHold, PartsAddUp, SharesKept, PaidIsCovered,
        CommissionKept
<1> QED BY <1>2, <1>3, <1>4, <1>5 DEF SourcingInv, TypeOK

LEMMA StepInv ==
  ASSUME SourcingInv, [Next]_vars
  PROVE  SourcingInv'
<1> USE DEF SourcingInv, TypeOK
<1>1. CASE PlacementSteps
  <2>1. PlacementNext /\ UNCHANGED <<quotationVars, brokerageVars, pricingVars>>
    BY <1>1 DEF PlacementSteps
  <2>2. /\ team' = team /\ Len(orders) \in Nat /\ Len(orders') \in Nat
        /\ Len(orders) <= Len(orders')
    BY <2>1, OrdersStay
  <2>3. bill' = bill /\ rules' \subseteq Rules BY <2>1 DEF pricingVars, PricingTypeOK
  <2>4. PlacementTypeOK' /\ PlacementInv' BY <2>1, PlacementStep
  <2>5. QuotationTypeOK' /\ QuotationInv' BY <2>1, <2>2, QuotationSame
  <2>6. BrokerageTypeOK' /\ BrokerageInv' BY <2>1, <2>2, OrdersGrow
  <2>7. PricingTypeOK' /\ PricingInv' BY <2>3, BillsSame
  <2> QED BY <2>4, <2>5, <2>6, <2>7
<1>2. CASE QuotationSteps
  <2>1. QuotationNext /\ UNCHANGED <<brokerageVars, pricingVars>> BY <1>2 DEF QuotationSteps
  <2>2. bill' = bill /\ rules' \subseteq Rules BY <2>1 DEF pricingVars, PricingTypeOK
  <2>3. QuotationTypeOK' /\ QuotationInv' BY <2>1, QuotationStep
  <2>4. PricingTypeOK' /\ PricingInv' BY <2>2, BillsSame
  <2>5. orders \in Seq(OrderRow) /\ Len(orders) \in Nat BY SeqFacts DEF PlacementTypeOK
  <2>6. CASE \E w \in Acceptors : AcceptWrite(w)
    <3>1. PICK w \in Acceptors : AcceptWrite(w) BY <2>6
    <3>2. PICK q : q = accepting[w].quote OBVIOUS
    <3>3. /\ WriteOrder("RFQ", NoContract, q, quotes[q].supplier) /\ accepting[w] # Free
          /\ UNCHANGED <<contract, cart, placing, team>>
      BY <3>1, <3>2 DEF AcceptWrite, Free
    <3>4. q \in DOMAIN quotes BY <3>2, <3>3 DEF QuotationInv, StillQuoting
    <3>5. quotes[q].supplier \in Suppliers /\ q \in Nat BY <3>4, QuoteRows
    <3>6. Len(orders') = Len(orders) + 1 BY <3>3, <3>5, OrderWritten
    <3>7. Len(orders') \in Nat /\ Len(orders) <= Len(orders') BY <2>5, <3>6
    <3>8. PlacementTypeOK' /\ PlacementInv' BY <3>3, <3>5, OrderedElsewhere
    <3>9. BrokerageTypeOK' /\ BrokerageInv' BY <2>1, <2>5, <3>3, <3>7, OrdersGrow
    <3> QED BY <2>3, <2>4, <3>8, <3>9
  <2>7. CASE ~(\E w \in Acceptors : AcceptWrite(w))
    <3>1. UNCHANGED placementVars
      BY <2>1, <2>7 DEF QuotationNext, CreateRfq, Deadline, ValidityEnds, SubmitStart, SubmitCount,
           SubmitWrite, AcceptStart, AcceptFail
    <3>2. PlacementTypeOK' /\ PlacementInv' BY <3>1, PlacementSame
    <3>3. team' = team /\ orders' = orders BY <3>1 DEF placementVars
    <3>4. BrokerageTypeOK' /\ BrokerageInv' BY <2>1, <2>5, <3>3, OrdersGrow
    <3> QED BY <2>3, <2>4, <3>2, <3>4
  <2> QED BY <2>6, <2>7
<1>3. CASE BrokerageSteps
  <2>1. BrokerageNext /\ UNCHANGED pricingVars BY <1>3 DEF BrokerageSteps
  <2>2. bill' = bill /\ rules' \subseteq Rules BY <2>1 DEF pricingVars, PricingTypeOK
  <2>3. BrokerageTypeOK' /\ BrokerageInv' BY <2>1, BrokerageStep
  <2>4. PricingTypeOK' /\ PricingInv' BY <2>2, BillsSame
  <2>5. CASE \E b \in Brokers, s \in Sellers, i \in {0} \cup DOMAIN opportunity : BrokerOrder(b, s, i)
    <3>1. PICK s \in Suppliers : /\ WriteOrder("BROKER", NoContract, 0, s)
                                 /\ UNCHANGED <<contract, cart, placing, team, quotationVars>>
      BY <2>5 DEF BrokerOrder, Sellers
    <3>2. PlacementTypeOK' /\ PlacementInv' BY <3>1, OrderedElsewhere
    <3>3. QuotationTypeOK' /\ QuotationInv' BY <3>1, QuotationSame
    <3> QED BY <2>3, <2>4, <3>2, <3>3
  <2>6. CASE ~(\E b \in Brokers, s \in Sellers, i \in {0} \cup DOMAIN opportunity : BrokerOrder(b, s, i))
    <3>1. UNCHANGED sourcingVars
      BY <2>1, <2>6 DEF BrokerageNext, MonthPasses, MatchStart, MatchPick, MatchCreate, MatchNext,
           ClaimStart, MoveStart, ClaimWrite, MoveWrite, LinkRead, LinkWrite
    <3>2. UNCHANGED placementVars /\ UNCHANGED <<quotationVars, team>>
      BY <3>1 DEF sourcingVars, placementVars
    <3>3. PlacementTypeOK' /\ PlacementInv' BY <3>2, PlacementSame
    <3>4. QuotationTypeOK' /\ QuotationInv' BY <3>2, QuotationSame
    <3> QED BY <2>3, <2>4, <3>3, <3>4
  <2> QED BY <2>5, <2>6
<1>4. CASE PricingSteps \/ UNCHANGED vars
  <2>1. UNCHANGED placementVars /\ UNCHANGED <<quotationVars, team>> /\ UNCHANGED <<brokerageVars, team>>
        /\ orders' = orders
    BY <1>4 DEF PricingSteps, vars, placementVars
  <2>2. Len(orders) \in Nat BY SeqFacts DEF PlacementTypeOK
  <2>3. PlacementTypeOK' /\ PlacementInv' BY <2>1, PlacementSame
  <2>4. QuotationTypeOK' /\ QuotationInv' BY <2>1, QuotationSame
  <2>5. BrokerageTypeOK' /\ BrokerageInv' BY <2>1, <2>2, OrdersGrow
  <2>6. PricingTypeOK' /\ PricingInv'
    <3>1. CASE PricingNext BY <3>1, PricingStep
    <3>2. CASE UNCHANGED vars
      <4>1. bill' = bill /\ rules' \subseteq Rules BY <3>2 DEF vars, pricingVars, PricingTypeOK
      <4> QED BY <4>1, BillsSame
    <3> QED BY <1>4, <3>1, <3>2 DEF PricingSteps
  <2> QED BY <2>3, <2>4, <2>5, <2>6
<1> QED BY <1>1, <1>2, <1>3, <1>4 DEF Next

(* Every reachable state satisfies the invariant of the handlers of        *)
(* placeOrders, submitQuote, acceptQuote, of the rules and of brokers.     *)
THEOREM SourcingInvariance == Spec => []SourcingInv
BY InitInv, StepInv, PTL DEF Spec

----------------------------------------------------------------------------
(* The properties                                                          *)

(* placeOrders checks the volume of a contract once, for all the groups    *)
(* that it then writes one after the other: with one request at a time the *)
(* volume holds.  An item that leaves the cart was ordered by the request  *)
(* that removes it.                                                        *)
THEOREM PlacingKeptTheorem == Spec => PlacingKept
<1>1. SourcingInv => TypeOK /\ ContractKept BY DEF SourcingInv, PlacementInv
<1>2. SourcingInv /\ [Next]_vars =>
        [\A s \in Suppliers :
           cart'[s] # cart[s] /\ cart'[s].version = cart[s].version =>
             \E b \in Placers : placing[b] # Free /\ s \in placing[b].done /\ placing[b].left = {}]_vars
  <2> SUFFICES ASSUME SourcingInv, Next, NEW s \in Suppliers,
                      cart'[s] # cart[s], cart'[s].version = cart[s].version
               PROVE  \E b \in Placers : placing[b] # Free /\ s \in placing[b].done /\ placing[b].left = {}
    BY DEF vars
  <2>1. cart' # cart OBVIOUS
  <2>2. PlacementTypeOK BY DEF SourcingInv, TypeOK
  <2>3. CASE \E b \in Placers : PlaceDone(b)
    <3>1. PICK b \in Placers : PlaceDone(b) BY <2>3
    <3>2. placing[b].left = {} /\ cart' = Cleared(placing[b].done) /\ placing[b] # Free
      BY <3>1 DEF PlaceDone, Free
    <3>3. s \in placing[b].done BY <3>2 DEF Cleared
    <3> QED BY <3>2, <3>3
  <2>4. CASE \E x \in Sellers : AddToCart(x)
    <3>1. PICK x \in Suppliers : AddToCart(x) BY <2>4 DEF Sellers
    <3> QED BY <2>2, <3>1, AddInv
  <2>5. CASE ~(\E b \in Placers : PlaceDone(b)) /\ ~(\E x \in Sellers : AddToCart(x))
    <3>1. CASE PlacementSteps
      <4>1. PlacementNext BY <3>1 DEF PlacementSteps
      <4> QED BY <2>1, <2>5, <4>1 DEF PlacementNext, CreateContract, ContractLapses, PlaceStart,
                 PlaceGroup, PlaceFail, CancelOrder
    <3>2. CASE QuotationSteps
      <4>1. QuotationNext BY <3>2 DEF QuotationSteps
      <4> QED BY <2>1, <4>1 DEF QuotationNext, CreateRfq, Deadline, ValidityEnds, SubmitStart, SubmitCount,
                 SubmitWrite, AcceptStart, AcceptWrite, AcceptFail, placementVars
    <3>3. CASE BrokerageSteps
      <4>1. BrokerageNext BY <3>3 DEF BrokerageSteps
      <4> QED BY <2>1, <4>1 DEF BrokerageNext, MonthPasses, MatchStart, MatchPick, MatchCreate, MatchNext,
                 ClaimStart, MoveStart, ClaimWrite, MoveWrite, LinkRead, LinkWrite, BrokerOrder,
                 sourcingVars, placementVars
    <3>4. CASE PricingSteps BY <2>1, <3>4 DEF PricingSteps, placementVars
    <3> QED BY <3>1, <3>2, <3>3, <3>4 DEF Next
  <2> QED BY <2>3, <2>4, <2>5
<1> QED BY <1>1, <1>2, SourcingInvariance, PTL DEF Spec, PlacingKept, ClearedIsOrdered

(* submitQuote numbers the quotes of a supplier without a gap, whoever     *)
(* else counts at the same time, and acceptQuote, one at a time, orders    *)
(* while the RFQ is QUOTING, although both decide before they write.       *)
THEOREM TendersKeptTheorem == Spec => TendersKept
<1>1. SourcingInv => RoundsConsecutive BY DEF SourcingInv, QuotationInv
<1>2. SourcingInv /\ [Next]_vars =>
        [\A i \in DOMAIN orders' \ DOMAIN orders :
           orders'[i].via = "RFQ" /\ Cardinality(team \cap Acceptors) <= 1 =>
             rfq[quotes[orders'[i].quote].rfq].status = "QUOTING"]_vars
  <2> SUFFICES ASSUME SourcingInv, Next, NEW i \in DOMAIN orders' \ DOMAIN orders,
                      orders'[i].via = "RFQ", OneAcceptor
               PROVE  rfq[quotes[orders'[i].quote].rfq].status = "QUOTING"
    BY DEF vars, OneAcceptor
  <2>1. orders' # orders OBVIOUS
  <2>2. PlacementTypeOK /\ QuotationTypeOK /\ QuotationInv BY DEF SourcingInv, TypeOK
  <2>3. ASSUME NEW via \in {"DIRECT", "RFQ", "BROKER"}, NEW k \in Contracts \cup {NoContract},
               NEW quote \in Nat, NEW s \in Suppliers, WriteOrder(via, k, quote, s)
        PROVE  via = "RFQ" /\ orders'[i].quote = quote
    <3>1. i = Len(orders) + 1 BY <2>2, <2>3, OrderWritten
    <3> QED BY <2>2, <2>3, <3>1, OrderWritten
  <2>4. CASE \E w \in Acceptors : AcceptWrite(w)
    <3>1. PICK w \in Acceptors : AcceptWrite(w) BY <2>4
    <3>2. PICK q : q = accepting[w].quote OBVIOUS
    <3>3. WriteOrder("RFQ", NoContract, q, quotes[q].supplier) /\ accepting[w] # Free
      BY <3>1, <3>2 DEF AcceptWrite, Free
    <3>4. q \in DOMAIN quotes /\ rfq[quotes[q].rfq].status = "QUOTING"
      BY <2>2, <3>2, <3>3 DEF QuotationInv, StillQuoting
    <3>5. quotes[q].supplier \in Suppliers /\ q \in Nat BY <2>2, <3>4, QuoteRows
    <3>6. orders'[i].quote = q BY <2>3, <3>3, <3>5
    <3> QED BY <3>4, <3>6
  <2>5. CASE ~(\E w \in Acceptors : AcceptWrite(w))
    <3>1. CASE PlacementSteps
      <4>1. PlacementNext BY <3>1 DEF PlacementSteps
      <4>2. CASE \E b \in Placers : PlaceGroup(b)
        <5>1. PICK b \in Placers : PlaceGroup(b) BY <4>2
        <5>2. placing[b] # Free BY <5>1 DEF PlaceGroup, Free
        <5>3. placing[b].left \subseteq Suppliers /\ placing[b].contract \in Contracts \cup {NoContract}
          BY <2>2, <5>2 DEF PlacementTypeOK, PlacingType
        <5>4. PICK s \in Suppliers : WriteOrder("DIRECT", placing[b].contract, 0, s)
          BY <5>1, <5>3 DEF PlaceGroup
        <5> QED BY <2>3, <5>3, <5>4
      <4>3. CASE \E k \in DOMAIN orders : CancelOrder(k)
        <5>1. DOMAIN orders' = DOMAIN orders BY <4>3 DEF CancelOrder
        <5> QED BY <5>1
      <4> QED BY <2>1, <4>1, <4>2, <4>3 DEF PlacementNext, CreateContract, ContractLapses, AddToCart,
                 PlaceStart, PlaceFail, PlaceDone
    <3>2. CASE QuotationSteps
      <4>1. QuotationNext BY <3>2 DEF QuotationSteps
      <4> QED BY <2>1, <2>5, <4>1 DEF QuotationNext, CreateRfq, Deadline, ValidityEnds, SubmitStart,
                 SubmitCount, SubmitWrite, AcceptStart, AcceptFail, placementVars
    <3>3. CASE BrokerageSteps
      <4>1. BrokerageNext BY <3>3 DEF BrokerageSteps
      <4>2. CASE \E b \in Brokers, s \in Sellers, k \in {0} \cup DOMAIN opportunity : BrokerOrder(b, s, k)
        <5>1. PICK s \in Suppliers : WriteOrder("BROKER", NoContract, 0, s)
          BY <4>2 DEF BrokerOrder, Sellers
        <5> QED BY <2>3, <5>1
      <4> QED BY <2>1, <4>1, <4>2 DEF BrokerageNext, MonthPasses, MatchStart, MatchPick, MatchCreate,
                 MatchNext, ClaimStart, MoveStart, ClaimWrite, MoveWrite, LinkRead, LinkWrite,
                 sourcingVars, placementVars
    <3>4. CASE PricingSteps BY <2>1, <3>4 DEF PricingSteps, placementVars
    <3> QED BY <3>1, <3>2, <3>3, <3>4 DEF Next
  <2> QED BY <2>4, <2>5
<1> QED BY <1>1, <1>2, SourcingInvariance, PTL DEF Spec, TendersKept, OrderedWhileQuoting

(* One run of the rules at a time opens no opportunity beside an open one, *)
(* and transition moves an opportunity along its table, although brokers   *)
(* claim, move and link it at once and the link looks at no version.       *)
THEOREM OpportunitiesKeptTheorem == Spec => OpportunitiesKept
<1>1. SourcingInv => OneOpenOpportunity BY DEF SourcingInv, BrokerageInv
<1>2. SourcingInv /\ [Next]_vars =>
        [\A i \in DOMAIN opportunity :
           opportunity'[i].status # opportunity[i].status /\ opportunity'[i].won = opportunity[i].won =>
             IsEdge(OpportunityTable, opportunity[i].status, opportunity'[i].status)]_vars
  <2> SUFFICES ASSUME SourcingInv, Next, NEW i \in DOMAIN opportunity,
                      opportunity'[i].status # opportunity[i].status,
                      opportunity'[i].won = opportunity[i].won
               PROVE  IsEdge(OpportunityTable, opportunity[i].status, opportunity'[i].status)
    BY DEF vars
  <2>1. opportunity' # opportunity OBVIOUS
  <2>2. BrokerageTypeOK /\ BrokerageInv BY DEF SourcingInv, TypeOK
  <2>3. opportunity[i] \in OpportunityRow /\ opportunity \in Seq(OpportunityRow) BY <2>2, OpportunityRows
  <2>4. CASE \E m \in Matchers : MatchCreate(m)
    <3>1. PICK row : opportunity' = Append(opportunity, row) BY <2>4 DEF MatchCreate
    <3>2. opportunity'[i] = opportunity[i] BY <2>2, <3>1, OpportunityRows
    <3> QED BY <3>2
  <2>5. CASE \E b \in Brokers : ClaimWrite(b)
    <3>1. PICK b \in Brokers : \E k : opportunity' = [opportunity EXCEPT ![k].broker = {b}, ![k].version = @ + 1]
      BY <2>5 DEF ClaimWrite
    <3>2. opportunity'[i].status = opportunity[i].status BY <2>3, <3>1 DEF OpportunityRow
    <3> QED BY <3>2
  <2>6. CASE \E b \in Brokers : MoveWrite(b)
    <3> PICK b \in Brokers : MoveWrite(b) BY <2>6
    <3> DEFINE f == working[b]
    <3>1. f = working[b] /\ MoveWrite(b) OBVIOUS
    <3>2. /\ Current(f) /\ f.at = "move" /\ f # Free
          /\ opportunity' = [opportunity EXCEPT ![f.opp].status = f.to, ![f.opp].version = @ + 1]
      BY <2>1, <3>1 DEF MoveWrite, Free
    <3>3. Allowed(OpportunityTable, opportunity[f.opp].status, f.to, {"BROKER"})
      BY <2>2, <3>1, <3>2 DEF BrokerageInv, MovesAllowed, Current
    <3>4. CASE i = f.opp
      <4>1. opportunity'[i].status = f.to BY <2>3, <3>2, <3>4 DEF OpportunityRow
      <4> QED BY <3>3, <3>4, <4>1, EdgesOpen
    <3>5. CASE i # f.opp BY <2>3, <3>2, <3>5
    <3> QED BY <3>4, <3>5
  <2>7. CASE \E b \in Brokers : LinkWrite(b)
    <3> PICK b \in Brokers : LinkWrite(b) BY <2>7
    <3> DEFINE f == working[b]
    <3>1. f = working[b] /\ LinkWrite(b) OBVIOUS
    <3>2. PICK to : opportunity' = [opportunity EXCEPT ![f.opp].won = f.order,
                                      ![f.opp].version = @ + 1, ![f.opp].status = to]
      BY <3>1 DEF LinkWrite
    <3>3. Links(b) BY <3>1 DEF LinkWrite, Links
    <3>4. opportunity[i].won # f.order BY <2>2, <3>1, <3>3 DEF BrokerageInv, LinksOnce
    <3>5. CASE i = f.opp
      <4>1. opportunity'[i].won = f.order BY <2>3, <3>2, <3>5 DEF OpportunityRow
      <4> QED BY <3>4, <4>1
    <3>6. CASE i # f.opp BY <2>3, <3>2, <3>6
    <3> QED BY <3>5, <3>6
  <2>8. CASE ~(\E m \in Matchers : MatchCreate(m))
             /\ ~(\E b \in Brokers : ClaimWrite(b) \/ MoveWrite(b) \/ LinkWrite(b))
    <3>1. CASE BrokerageSteps
      <4>1. BrokerageNext BY <3>1 DEF BrokerageSteps
      <4> QED BY <2>1, <2>8, <4>1 DEF BrokerageNext, MonthPasses, MatchStart, MatchPick, MatchNext,
                 ClaimStart, MoveStart, LinkRead, BrokerOrder
    <3>2. CASE ~BrokerageSteps
      BY <2>1, <3>2 DEF Next, PlacementSteps, QuotationSteps, PricingSteps, brokerageVars
    <3> QED BY <3>1, <3>2
  <2> QED BY <2>4, <2>5, <2>6, <2>7, <2>8
<1> QED BY <1>1, <1>2, SourcingInvariance, PTL DEF Spec, OpportunitiesKept, MovesAreEdges

(* However an order is priced, paid and split between wallets, milestones  *)
(* and refunds, the parts are the whole to the cent, and a bill is paid    *)
(* only by what covers it.                                                 *)
THEOREM BillsHoldTheorem == Spec => []BillsHold
<1>1. SourcingInv => BillsHold BY DEF SourcingInv, PricingInv
<1> QED BY <1>1, SourcingInvariance, PTL
=============================================================================
