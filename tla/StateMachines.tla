--------------------------- MODULE StateMachines ---------------------------
(***************************************************************************)
(* The transition tables that prisma/seed/index.ts writes into             *)
(* state_transitions, and the check that StateMachineService makes against *)
(* them.  A table is a set of edges; the audit row that recordInTx writes  *)
(* is not modelled, the domain event of an edge is.                        *)
(***************************************************************************)

Edge(from, to, roles, event) ==
  [from |-> from, to |-> to, roles |-> roles, event |-> event]

OrderTable ==
  { Edge("DRAFT", "PLACED", {"BUYER"}, "OrderPlaced"),
    Edge("PLACED", "PAID_ESCROW", {"SYSTEM"}, "OrderPaid"),
    Edge("PLACED", "CANCELLED", {"BUYER", "ADMIN", "SYSTEM"}, "OrderCancelled"),
    Edge("PAID_ESCROW", "CONFIRMED", {"SUPPLIER"}, "OrderConfirmed"),
    Edge("CONFIRMED", "PREPARING", {"SUPPLIER"}, "none"),
    Edge("PREPARING", "SHIPPED", {"SUPPLIER"}, "OrderShipped"),
    Edge("CONFIRMED", "SHIPPED", {"SUPPLIER"}, "OrderShipped"),
    Edge("SHIPPED", "IN_CUSTOMS", {"LOGISTICS_OPERATOR", "CUSTOMS_OFFICER", "ADMIN"}, "none"),
    Edge("IN_CUSTOMS", "CUSTOMS_CLEARED", {"CUSTOMS_OFFICER", "ADMIN"}, "none"),
    Edge("CUSTOMS_CLEARED", "DELIVERED", {"BUYER", "SYSTEM"}, "OrderDelivered"),
    Edge("SHIPPED", "DELIVERED", {"BUYER", "SYSTEM"}, "OrderDelivered"),
    Edge("DELIVERED", "COMPLETED", {"SYSTEM"}, "OrderCompleted"),
    Edge("DELIVERED", "DISPUTED", {"BUYER", "SUPPLIER"}, "OrderDisputed"),
    Edge("DISPUTED", "RESOLVED", {"ADMIN", "CUSTOMER_SERVICE"}, "DisputeResolved"),
    Edge("RESOLVED", "COMPLETED", {"SYSTEM", "ADMIN"}, "OrderCompleted") }

CustomsTable ==
  { Edge("DRAFT", "SUBMITTED", {"CUSTOMS_OFFICER", "ADMIN"}, "CustomsSubmitted"),
    Edge("SUBMITTED", "INSPECTION", {"CUSTOMS_OFFICER", "ADMIN"}, "none"),
    Edge("SUBMITTED", "CLEARED", {"CUSTOMS_OFFICER", "ADMIN"}, "CustomsCleared"),
    Edge("INSPECTION", "CLEARED", {"CUSTOMS_OFFICER", "ADMIN"}, "CustomsCleared"),
    Edge("INSPECTION", "REJECTED", {"CUSTOMS_OFFICER", "ADMIN"}, "none") }

(* The role codes of seedRoles, and SYSTEM for the platform itself.        *)
RoleCode ==
  {"GUEST", "BUYER", "SUPPLIER", "BROKER", "CUSTOMER_SERVICE", "QUALITY_INSPECTOR",
   "LOGISTICS_OPERATOR", "CUSTOMS_OFFICER", "FINANCE", "ADMIN", "SUPER_ADMIN", "SYSTEM"}

(* assertAllowed: the edge is in the table and one of the actor's roles is *)
(* on it ("*" occurs in no seeded edge).                                   *)
Allowed(table, from, to, roles) ==
  \E e \in table : e.from = from /\ e.to = to /\ roles \cap e.roles # {}

(* from -> to is an edge of the table, whoever takes it.                   *)
IsEdge(table, from, to) == \E e \in table : e.from = from /\ e.to = to

(* The edge from -> to carries the domain event.                           *)
Emits(table, from, to, event) ==
  \E e \in table : e.from = from /\ e.to = to /\ e.event = event

OrderStatus ==
  {"DRAFT", "PLACED", "PAID_ESCROW", "CONFIRMED", "PREPARING", "SHIPPED",
   "IN_CUSTOMS", "CUSTOMS_CLEARED", "DELIVERED", "COMPLETED", "CANCELLED",
   "DISPUTED", "RESOLVED"}

CustomsStatus == {"DRAFT", "SUBMITTED", "INSPECTION", "CLEARED", "REJECTED"}
=============================================================================
