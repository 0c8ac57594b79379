----------------------------- MODULE EscrowSale -----------------------------
(***************************************************************************)
(* What the platform promises about a sale, without handlers, versions or  *)
(* tables: goods are set aside when an order is placed and leave once,     *)
(* after money came in and the conditions of the shipment were met; the    *)
(* sale is closed when the money has been shared out.  Two steps are no    *)
(* promise but what the code does besides: a hold that is given back       *)
(* although the order goes on, and a closed order that customs reopen.     *)
(***************************************************************************)
CONSTANT Orders

VARIABLES
  stage,      \* "none", "open", "funded", "shipped", "closed", "cancelled"
  goods,      \* "none", "held", "back" in the stock, "gone"
  received,   \* money for the order has come in
  cleared,    \* its papers are complete and what blocks the shipment is paid
  shared      \* its price has been paid out

saleVars == <<stage, goods, received, cleared, shared>>

Init ==
  /\ stage = [o \in Orders |-> "none"]
  /\ goods = [o \in Orders |-> "none"]
  /\ received = [o \in Orders |-> FALSE]
  /\ cleared = [o \in Orders |-> FALSE]
  /\ shared = [o \in Orders |-> FALSE]

Open(o) ==
  /\ stage[o] = "none"
  /\ stage' = [stage EXCEPT ![o] = "open"]
  /\ goods' = [goods EXCEPT ![o] = "held"]
  /\ UNCHANGED <<received, cleared, shared>>

Cancel(o) ==
  /\ stage[o] = "open"
  /\ stage' = [stage EXCEPT ![o] = "cancelled"]
  /\ goods' = [goods EXCEPT ![o] = "back"]
  /\ UNCHANGED <<received, cleared, shared>>

(* A payment may settle the last instalment that blocks the shipment.      *)
Receive(o) ==
  /\ stage[o] # "none" /\ ~received[o]
  /\ received' = [received EXCEPT ![o] = TRUE]
  /\ cleared' \in {cleared, [cleared EXCEPT ![o] = TRUE]}
  /\ UNCHANGED <<stage, goods, shared>>

Clear(o) ==
  /\ stage[o] # "none" /\ ~cleared[o]
  /\ cleared' = [cleared EXCEPT ![o] = TRUE]
  /\ UNCHANGED <<stage, goods, received, shared>>

Fund(o) ==
  /\ stage[o] = "open" /\ received[o]
  /\ stage' = [stage EXCEPT ![o] = "funded"]
  /\ UNCHANGED <<goods, received, cleared, shared>>

Ship(o) ==
  /\ stage[o] = "funded" /\ cleared[o]
  /\ stage' = [stage EXCEPT ![o] = "shipped"]
  /\ goods' = [goods EXCEPT ![o] = "gone"]
  /\ UNCHANGED <<received, cleared, shared>>

ShareOut(o) ==
  /\ stage[o] = "shipped" /\ received[o] /\ ~shared[o]
  /\ shared' = [shared EXCEPT ![o] = TRUE]
  /\ UNCHANGED <<stage, goods, received, cleared>>

Close(o) ==
  /\ stage[o] = "shipped" /\ shared[o]
  /\ stage' = [stage EXCEPT ![o] = "closed"]
  /\ UNCHANGED <<goods, received, cleared, shared>>

(* The sweeper takes the hold of an order that is not PLACED for an orphan.*)
GiveBack(o) ==
  /\ stage[o] = "funded" /\ goods[o] = "held"
  /\ goods' = [goods EXCEPT ![o] = "back"]
  /\ UNCHANGED <<stage, received, cleared, shared>>

(* Customs write the status over what it has become.                       *)
Reopen(o) ==
  /\ stage[o] = "closed"
  /\ stage' = [stage EXCEPT ![o] = "shipped"]
  /\ UNCHANGED <<goods, received, cleared, shared>>

Next ==
  \E o \in Orders :
    \/ Open(o) \/ Cancel(o) \/ Receive(o) \/ Clear(o) \/ Fund(o) \/ Ship(o)
    \/ ShareOut(o) \/ Close(o) \/ GiveBack(o) \/ Reopen(o)

Spec == Init /\ [][Next]_saleVars
=============================================================================
