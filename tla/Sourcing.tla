------------------------------ MODULE Sourcing ------------------------------
(***************************************************************************)
(* The three ways in which an order comes into being, on one stock: the    *)
(* cart of a buyer, an accepted quote and a broker; and, in behaviours of  *)
(* its own, what an order costs.  A pool of handlers given as {} leaves    *)
(* its component out of an instance.                                       *)
(***************************************************************************)
EXTENDS Brokerage, Pricing

vars == <<placementVars, quotationVars, brokerageVars, pricingVars>>

TypeOK == PlacementTypeOK /\ QuotationTypeOK /\ BrokerageTypeOK /\ PricingTypeOK

Init == PlacementInit /\ QuotationInit /\ BrokerageInit /\ PricingInit

PlacementSteps == PlacementNext /\ UNCHANGED <<quotationVars, brokerageVars, pricingVars>>
QuotationSteps == QuotationNext /\ UNCHANGED <<brokerageVars, pricingVars>>
BrokerageSteps == BrokerageNext /\ UNCHANGED pricingVars
PricingSteps ==
  team \cap Bills # {} /\ PricingNext /\ UNCHANGED <<placementVars, quotationVars, brokerageVars>>

Next == PlacementSteps \/ QuotationSteps \/ BrokerageSteps \/ PricingSteps

Spec == Init /\ [][Next]_vars

----------------------------------------------------------------------------
(* Safety                                                                  *)

(* The orders of a contract that are not cancelled stay within its volume  *)
(* (one placement at a time): the capacity is checked once, for all the    *)
(* groups that are then written one after the other.                       *)
ContractKept ==
  Cardinality(team \cap Placers) <= 1 => \A c \in Contracts : Used(c) <= Cap

(* The quotes of a supplier on an RFQ are numbered 1, 2, 3 in the order in *)
(* which they were written, although the count is taken before the         *)
(* transaction and two submissions may take the same one.                  *)
RoundsConsecutive ==
  \A r \in Rfqs, s \in Suppliers :
    \A q \in QuotesOf(r, s) :
      quotes[q].round = Cardinality({p \in QuotesOf(r, s) : p <= q})

(* The rules (one run at a time) create no opportunity beside an open one  *)
(* for the same buyer, supplier, lot and signal; two can be open only      *)
(* because an order of a broker has reopened a closed one.                 *)
OneOpenOpportunity ==
  Cardinality(team \cap Matchers) <= 1 => \A i, j \in DOMAIN opportunity :
    /\ opportunity[i].status \in OpenStatus /\ opportunity[j].status \in OpenStatus
    /\ opportunity[i].signal = opportunity[j].signal
    /\ opportunity[i].supplier = opportunity[j].supplier
    /\ opportunity[i].won = 0 /\ opportunity[j].won = 0
    => i = j

(* The cart loses an item only when the request has ordered it.            *)
ClearedIsOrdered ==
  [][\A s \in Suppliers :
       cart'[s] # cart[s] /\ cart'[s].version = cart[s].version =>
         \E b \in Placers : placing[b] # Free /\ s \in placing[b].done /\ placing[b].left = {}]_vars

(* An order from a quote is written while its RFQ is QUOTING (one          *)
(* acceptance at a time), so that a second one needs the RFQ to have been  *)
(* reopened.                                                               *)
OrderedWhileQuoting ==
  [][\A i \in DOMAIN orders' \ DOMAIN orders :
       orders'[i].via = "RFQ" /\ Cardinality(team \cap Acceptors) <= 1 =>
         rfq[quotes[orders'[i].quote].rfq].status = "QUOTING"]_vars

(* transition() of an opportunity takes edges of the table from the status *)
(* at that moment; only the link of a broker order writes without one.     *)
MovesAreEdges ==
  [][\A i \in DOMAIN opportunity :
       opportunity'[i].status # opportunity[i].status /\ opportunity'[i].won = opportunity[i].won =>
         IsEdge(OpportunityTable, opportunity[i].status, opportunity'[i].status)]_vars

(* A placement spends what it has checked: the volume of its contract is   *)
(* kept, and an item that is gone from the cart was ordered.               *)
PlacingKept == [](TypeOK /\ ContractKept) /\ ClearedIsOrdered

(* A tender keeps its order: its rounds have no gap, and it is ordered     *)
(* while it is open to quotes.                                             *)
TendersKept == []RoundsConsecutive /\ OrderedWhileQuoting

(* Rules and brokers keep the opportunities apart and on their table.      *)
OpportunitiesKept == []OneOpenOpportunity /\ MovesAreEdges
=============================================================================
