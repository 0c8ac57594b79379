------------------------------ MODULE Trading ------------------------------
(***************************************************************************)
(* Orders and the service every order write is meant to go through:        *)
(* TradingService.transition, with the reservation, instalments and        *)
(* paperwork it consults.  PostgreSQL runs READ COMMITTED, so a transition *)
(* is several steps: the read that checks the edge, the guards of a        *)
(* shipment, and a transaction that starts with the versioned update.      *)
(*                                                                         *)
(* This module has no specification of its own: Settlement, Disputes,      *)
(* Sweeper and Customs extend it and Marketplace composes them.            *)
(***************************************************************************)
EXTENDS Naturals, FiniteSets, Sequences, StateMachines

CONSTANTS
  Orders,    \* orders that may be placed
  Callers,   \* threads of control that can be inside transition()
  Clients,   \* the callers that serve HTTP requests on an order
  Terms      \* per order, its instalments: a sequence of [amount, blocks]

InstalmentType == [amount : Nat \ {0}, blocks : BOOLEAN]

ASSUME TradingAssumption ==
  /\ Clients \subseteq Callers
  /\ Terms \in [Orders -> Seq(InstalmentType)]

VARIABLES
  order,        \* trade_orders: status, version and the dispute window
  reservation,  \* the hold of the order on a lot, its TTL and journal rows
  paid,         \* the instalments of the order that are PAID
  paperwork,    \* what the shipping guard finds for the order
  outbox,       \* OrderDelivered events not yet published, oldest first
  call          \* per caller, the transition() it is executing

tradingVars == <<order, reservation, paid, paperwork, outbox, call>>

NoCall == [at |-> "idle"]

CallType ==
  [at : {"guards", "commit", "ship", "next"}, order : Orders, to : OrderStatus,
   roles : SUBSET RoleCode, seen : OrderStatus, version : Nat,
   next : {"none", "COMPLETED"}]

OrderType ==
  [status : OrderStatus, version : Nat, window : {"unset", "open", "closed"}]

ReservationType ==
  [state : {"NONE", "HELD", "RELEASED", "CONSUMED"}, expired : BOOLEAN,
   released : Nat, shipped : Nat]

Instalments(o) == DOMAIN Terms[o]

TradingTypeOK ==
  /\ order \in [Orders -> OrderType]
  /\ reservation \in [Orders -> ReservationType]
  /\ paid \in [Orders -> SUBSET Nat]
  /\ paperwork \in [Orders -> SUBSET {"shipment", "documents"}]
  /\ outbox \in Seq(Orders)
  /\ call \in [Callers -> CallType \cup {NoCall}]

(* No row exists before placeOrders; "documents" is there from the start   *)
(* when no requirement template covers the category and the two countries. *)
TradingInit ==
  /\ order = [o \in Orders |-> [status |-> "DRAFT", version |-> 0, window |-> "unset"]]
  /\ reservation = [o \in Orders |-> [state |-> "NONE", expired |-> FALSE,
                                      released |-> 0, shipped |-> 0]]
  /\ paid = [o \in Orders |-> {}]
  /\ paperwork \in [Orders -> {{}, {"documents"}}]
  /\ outbox = << >>
  /\ call = [w \in Callers |-> NoCall]

----------------------------------------------------------------------------
(* The steps of transition()                                               *)

(* The caller reads the order and has the edge and its roles checked; a    *)
(* refused request ends here.  next is what the caller does afterwards.    *)
Begin(w, o, to, roles, next) ==
  /\ call[w] = NoCall
  /\ call' = [call EXCEPT ![w] =
       IF Allowed(OrderTable, order[o].status, to, roles)
       THEN [at |-> IF to = "SHIPPED" THEN "guards" ELSE "commit",
             order |-> o, to |-> to, roles |-> roles,
             seen |-> order[o].status, version |-> order[o].version, next |-> next]
       ELSE NoCall]

PaidUp(o) == \A k \in Instalments(o) : Terms[o][k].blocks => k \in paid[o]

ReadyToShip(o) == paperwork[o] = {"shipment", "documents"}

(* Mutant of MayShip: assertShippable is forgotten.                        *)
MayShipUnpaid(o) == ReadyToShip(o)

MayShip(o) == ReadyToShip(o) /\ PaidUp(o)

(* assertReadyToShip and assertShippable run before the transaction; what  *)
(* they check never becomes false again, so the two reads are one step.    *)
ShipGuards(w) ==
  /\ call[w].at = "guards"
  /\ call' = [call EXCEPT ![w] =
       IF MayShip(call[w].order) THEN [@ EXCEPT !.at = "commit"] ELSE NoCall]
  /\ UNCHANGED <<order, reservation, paid, paperwork, outbox>>

(* A shipping transaction holds the row lock of its order from its         *)
(* versioned update until it ends.                                         *)
Locked(o) == \E w \in Callers : call[w].at = "ship" /\ call[w].order = o

(* Mutant of Fresh: the update has no version in its WHERE clause.         *)
FreshUnchecked(w) == TRUE

Fresh(w) == order[call[w].order].version = call[w].version

(* VERSION_CONFLICT: the update matches no row.                            *)
VersionConflict(w) ==
  /\ call[w].at = "commit"
  /\ ~Fresh(w)
  /\ call' = [call EXCEPT ![w] = NoCall]
  /\ UNCHANGED <<order, reservation, paid, paperwork, outbox>>

Written(o, to) ==
  [order EXCEPT ![o] = [status |-> to, version |-> @.version + 1,
                        window |-> IF to = "DELIVERED" THEN "open" ELSE @.window]]

Published(o, from, to) ==
  IF Emits(OrderTable, from, to, "OrderDelivered") THEN Append(outbox, o) ELSE outbox

Return(w) ==
  call' = [call EXCEPT ![w] =
             IF @.next = "none" THEN NoCall ELSE [@ EXCEPT !.at = "next"]]

(* The transaction of every target but CANCELLED and SHIPPED.              *)
CommitTransition(w) ==
  LET o == call[w].order
      to == call[w].to
  IN /\ call[w].at = "commit"
     /\ to \notin {"CANCELLED", "SHIPPED"}
     /\ Fresh(w) /\ ~Locked(o)
     /\ order' = Written(o, to)
     /\ outbox' = Published(o, call[w].seen, to)
     /\ Return(w)
     /\ UNCHANGED <<reservation, paid, paperwork>>

GivenBack(r) == [r EXCEPT !.state = "RELEASED", !.released = @ + 1]
ShippedOut(r) == [r EXCEPT !.state = "CONSUMED", !.shipped = @ + 1]

(* Mutants of Released: a status that nothing else knows; nothing given back. *)
ReleasedAsExpired(o) == [reservation EXCEPT ![o].state = "EXPIRED"]
ReleasedNothing(o) == reservation

(* releaseInTx: the rows still HELD give their quantity back to the lot.   *)
Released(o) == [reservation EXCEPT ![o] = GivenBack(@)]

(* A cancellation gives the hold back in the same transaction.             *)
CommitCancel(w) ==
  LET o == call[w].order
  IN /\ call[w].at = "commit"
     /\ call[w].to = "CANCELLED"
     /\ Fresh(w) /\ ~Locked(o)
     /\ order' = Written(o, "CANCELLED")
     /\ reservation' = IF reservation[o].state = "HELD" THEN Released(o) ELSE reservation
     /\ Return(w)
     /\ UNCHANGED <<paid, paperwork, outbox>>

(* A shipment takes the row lock, then reads the HELD rows without locking *)
(* them; without any it rolls back.                                        *)
LockShip(w) ==
  LET o == call[w].order
  IN /\ call[w].at = "commit"
     /\ call[w].to = "SHIPPED"
     /\ Fresh(w) /\ ~Locked(o)
     /\ call' = [call EXCEPT ![w] =
          IF reservation[o].state = "HELD" THEN [@ EXCEPT !.at = "ship"] ELSE NoCall]
     /\ UNCHANGED <<order, reservation, paid, paperwork, outbox>>

(* outboundInTx: decrement the lot and mark the row by its id, whatever    *)
(* its state has become since it was read.                                 *)
CommitShip(w) ==
  LET o == call[w].order
  IN /\ call[w].at = "ship"
     /\ order' = Written(o, "SHIPPED")
     /\ reservation' = [reservation EXCEPT ![o] = ShippedOut(@)]
     /\ Return(w)
     /\ UNCHANGED <<paid, paperwork, outbox>>

(* A hold released since then may leave the lot too low for the CHECK      *)
(* constraints (it does unless other holds of the lot cover it): rollback. *)
AbortShip(w) ==
  /\ call[w].at = "ship"
  /\ reservation[call[w].order].state # "HELD"
  /\ call' = [call EXCEPT ![w] = NoCall]
  /\ UNCHANGED <<order, reservation, paid, paperwork, outbox>>

(* A dispute that was rejected goes on to complete the order.              *)
Continue(w) ==
  LET c == call[w]
      o == c.order
  IN /\ c.at = "next"
     /\ call' = [call EXCEPT ![w] =
          IF Allowed(OrderTable, order[o].status, c.next, {"SYSTEM"})
          THEN [at |-> "commit", order |-> o, to |-> c.next, roles |-> {"SYSTEM"},
                seen |-> order[o].status, version |-> order[o].version, next |-> "none"]
          ELSE NoCall]
     /\ UNCHANGED <<order, reservation, paid, paperwork, outbox>>

CallStep(w) ==
  \/ ShipGuards(w) \/ VersionConflict(w) \/ CommitTransition(w) \/ CommitCancel(w)
  \/ LockShip(w) \/ CommitShip(w) \/ AbortShip(w) \/ Continue(w)

----------------------------------------------------------------------------
(* Requests and the passage of time                                        *)

(* One group of placeOrders: the order, its instalments and the hold with  *)
(* a TTL of 24 h are written in one transaction.                           *)
Place(o) ==
  /\ order[o].status = "DRAFT"
  /\ order' = [order EXCEPT ![o].status = "PLACED"]
  /\ reservation' = [reservation EXCEPT ![o].state = "HELD"]
  /\ UNCHANGED <<paid, paperwork, outbox, call>>

(* The order endpoints and the role each of them demands.                  *)
OrderRequests ==
  { <<"CANCELLED", "BUYER">>, <<"CONFIRMED", "SUPPLIER">>, <<"PREPARING", "SUPPLIER">>,
    <<"SHIPPED", "SUPPLIER">>, <<"DELIVERED", "BUYER">> }

Request(c, o, r) ==
  /\ Begin(c, o, r[1], {r[2]}, "none")
  /\ UNCHANGED <<order, reservation, paid, paperwork, outbox>>

(* registerShipment and, for the last missing type, registerDocument.      *)
RegisterShipment(o) ==
  /\ order[o].status \in {"PAID_ESCROW", "CONFIRMED", "PREPARING"}
  /\ paperwork' = [paperwork EXCEPT ![o] = @ \cup {"shipment"}]
  /\ UNCHANGED <<order, reservation, paid, outbox, call>>

RegisterDocuments(o) ==
  /\ order[o].status # "DRAFT"
  /\ paperwork' = [paperwork EXCEPT ![o] = @ \cup {"documents"}]
  /\ UNCHANGED <<order, reservation, paid, outbox, call>>

(* markPaid: an offline transfer for one instalment, at any order status.  *)
MarkPaid(o, k) ==
  /\ order[o].status # "DRAFT"
  /\ k \notin paid[o]
  /\ paid' = [paid EXCEPT ![o] = @ \cup {k}]
  /\ UNCHANGED <<order, reservation, paperwork, outbox, call>>

TtlExpires(o) ==
  /\ reservation[o].state = "HELD" /\ ~reservation[o].expired
  /\ reservation' = [reservation EXCEPT ![o].expired = TRUE]
  /\ UNCHANGED <<order, paid, paperwork, outbox, call>>

DisputeWindowCloses(o) ==
  /\ order[o].window = "open"
  /\ order' = [order EXCEPT ![o].window = "closed"]
  /\ UNCHANGED <<reservation, paid, paperwork, outbox, call>>

OrderStep(o) ==
  \/ Place(o) \/ RegisterShipment(o) \/ RegisterDocuments(o)
  \/ \E k \in Instalments(o) : MarkPaid(o, k)
  \/ TtlExpires(o) \/ DisputeWindowCloses(o)
  \/ \E c \in Clients, r \in OrderRequests : Request(c, o, r)

TradingNext == (\E o \in Orders : OrderStep(o)) \/ (\E w \in Callers : CallStep(w))
=============================================================================
