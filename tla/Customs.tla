------------------------------ MODULE Customs ------------------------------
(***************************************************************************)
(* The export declaration of an order (fulfillment.service.ts).  Its       *)
(* transitions move the order as well, in one transaction that does not    *)
(* go through TradingService.transition and does not check the version.    *)
(***************************************************************************)
EXTENDS Trading

CONSTANT Officers   \* transitionDeclaration() requests in progress at once

VARIABLES declaration, customs

customsVars == <<declaration, customs>>

CustomsType ==
  [at : {"update", "commit"}, order : Orders, to : CustomsStatus,
   moves : OrderStatus \cup {"none"}]

CustomsTypeOK ==
  /\ declaration \in [Orders -> CustomsStatus \cup {"NONE"}]
  /\ customs \in [Officers -> CustomsType \cup {NoCall}]

CustomsInit ==
  /\ declaration = [o \in Orders |-> "NONE"]
  /\ customs = [f \in Officers |-> NoCall]

OfficerRoles == {"CUSTOMS_OFFICER"}

(* createDeclaration, an upsert that leaves the status of a row alone.     *)
Declare(o) ==
  /\ order[o].status # "DRAFT"
  /\ declaration[o] = "NONE"
  /\ declaration' = [declaration EXCEPT ![o] = "DRAFT"]
  /\ UNCHANGED <<tradingVars, customs>>

(* The status of the declaration is checked before the transaction.        *)
CustomsStart(f, o, to) ==
  /\ customs[f] = NoCall
  /\ Allowed(CustomsTable, declaration[o], to, OfficerRoles)
  /\ customs' = [customs EXCEPT ![f] =
       [at |-> "update", order |-> o, to |-> to, moves |-> "none"]]
  /\ UNCHANGED <<tradingVars, declaration>>

TargetOf(to) ==
  CASE to = "SUBMITTED" -> "IN_CUSTOMS"
    [] to = "CLEARED" -> "CUSTOMS_CLEARED"
    [] OTHER -> "none"

DeclarationLocked(o) ==
  \E f \in Officers : customs[f].at = "commit" /\ customs[f].order = o

MayMove(o, target) == Allowed(OrderTable, order[o].status, target, OfficerRoles)

(* The transaction locks the declaration by updating it and reads the      *)
(* order without a lock; an edge the table does not have rolls it back.    *)
CustomsUpdate(f) ==
  LET o == customs[f].order
      target == TargetOf(customs[f].to)
      moves == target # "none" /\ order[o].status # target
  IN /\ customs[f].at = "update"
     /\ ~DeclarationLocked(o)
     /\ customs' = [customs EXCEPT ![f] =
          IF moves => MayMove(o, target)
          THEN [@ EXCEPT !.at = "commit", !.moves = IF moves THEN target ELSE "none"]
          ELSE NoCall]
     /\ UNCHANGED <<tradingVars, declaration>>

(* The order row is then written by its id, over whatever it holds by now. *)
CustomsCommit(f) ==
  LET c == customs[f]
  IN /\ c.at = "commit"
     /\ c.moves # "none" => ~Locked(c.order)
     /\ declaration' = [declaration EXCEPT ![c.order] = c.to]
     /\ order' = IF c.moves = "none" THEN order ELSE Written(c.order, c.moves)
     /\ customs' = [customs EXCEPT ![f] = NoCall]
     /\ UNCHANGED <<reservation, paid, paperwork, outbox, call>>

CustomsNext ==
  \/ \E o \in Orders : Declare(o)
  \/ \E f \in Officers :
       \/ \E o \in Orders, to \in CustomsStatus : CustomsStart(f, o, to)
       \/ CustomsUpdate(f) \/ CustomsCommit(f)
=============================================================================
