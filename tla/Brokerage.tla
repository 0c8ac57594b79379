----------------------------- MODULE Brokerage -----------------------------
(***************************************************************************)
(* brokerage.service.ts and matchmaking.service.ts: opportunities that the *)
(* rules find among buyers, RFQs and stock, and what brokers make of them. *)
(* The look for an open opportunity and its creation are two steps, and an *)
(* order placed for a buyer writes its opportunity without a version.      *)
(***************************************************************************)
EXTENDS Quotation

CONSTANTS
  Brokers,           \* requests of brokers in progress at once
  Matchers,          \* runs of the rules in progress at once
  MaxOpportunities,  \* bound: opportunities written
  MaxTouches         \* bound: version of an opportunity that is still worked on

ASSUME BrokerageAssumption ==
  IsFiniteSet(Matchers) /\ MaxOpportunities \in Nat /\ MaxTouches \in Nat

VARIABLES
  opportunity,  \* opportunities, in the order of their creation
  aged,         \* the first orders, those placed more than 30 days ago
  working, matching   \* the requests and runs in progress

brokerageVars == <<opportunity, aged, working, matching>>

OpportunityTable ==
  { Edge("NEW", "CONTACTED", {"BROKER", "ADMIN"}, "none"),
    Edge("CONTACTED", "NEGOTIATING", {"BROKER", "ADMIN"}, "none"),
    Edge("NEGOTIATING", "WON", {"BROKER", "ADMIN", "SYSTEM"}, "OpportunityWon"),
    Edge("NEW", "LOST", {"BROKER", "ADMIN"}, "none"),
    Edge("CONTACTED", "LOST", {"BROKER", "ADMIN"}, "none"),
    Edge("NEGOTIATING", "LOST", {"BROKER", "ADMIN"}, "none") }

OpportunityStatus == {"NEW", "CONTACTED", "NEGOTIATING", "WON", "LOST"}
OpenStatus == {"NEW", "CONTACTED", "NEGOTIATING"}

(* What an opportunity is about: the signal, and the supplier, as there is *)
(* one buyer and one lot per supplier.                                     *)
Signal == {"CHURN_RISK", "RFQ_MATCH"}

OpportunityRow == [signal : Signal, supplier : Suppliers, status : OpportunityStatus,
                   version : Nat, broker : SUBSET Brokers, won : Nat]
WorkingType ==
  [at : {"claim", "move", "read", "link"}, opp : Nat, to : OpportunityStatus,
   version : Nat, order : Nat]
MatchingType ==
  [at : {"pick", "create"}, signal : Signal, left : SUBSET Suppliers,
   supplier : Suppliers \cup {"none"}]

BrokerageTypeOK ==
  /\ opportunity \in Seq(OpportunityRow)
  /\ aged \in Nat
  /\ working \in [Brokers -> WorkingType \cup {Free}]
  /\ matching \in [Matchers -> MatchingType \cup {Free}]

BrokerageInit ==
  /\ opportunity = << >>
  /\ aged = 0
  /\ working = [b \in Brokers |-> Free]
  /\ matching = [m \in Matchers |-> Free]

sourcingVars == <<placementVars, quotationVars>>

----------------------------------------------------------------------------
(* Matchmaking                                                             *)

MonthPasses ==
  /\ aged # Len(orders)
  /\ aged' = Len(orders)
  /\ UNCHANGED <<opportunity, working, matching, sourcingVars>>

(* Rule A: the last order of the buyer that is not cancelled is old.  A    *)
(* lot counts although all of it may be reserved.                          *)
Churning ==
  LET live == {i \in DOMAIN orders : orders[i].open}
  IN live # {} /\ live \subseteq 1..aged

(* Rule B: an RFQ takes quotes, and a supplier has enough for it.          *)
Asked == \E r \in Rfqs : rfq[r].status \in {"OPEN", "QUOTING"} /\ ~rfq[r].due

Candidates(signal) ==
  IF signal = "CHURN_RISK" THEN IF Churning THEN Sellers ELSE {}
  ELSE IF Asked THEN {s \in Sellers : available[s] > 0} ELSE {}

Ruling(signal) ==
  [at |-> "pick", signal |-> signal, left |-> Candidates(signal), supplier |-> "none"]

(* runRules, every two hours or on request: one rule after the other, ...  *)
MatchStart(m) ==
  /\ m \in team /\ matching[m] = Free
  /\ matching' = [matching EXCEPT ![m] = Ruling("CHURN_RISK")]
  /\ UNCHANGED <<opportunity, aged, working, sourcingVars>>

OpenFor(signal, s) ==
  \E i \in DOMAIN opportunity :
    /\ opportunity[i].signal = signal /\ opportunity[i].supplier = s
    /\ opportunity[i].status \in OpenStatus

(* ... for each candidate a look for an opportunity that is still open ... *)
MatchPick(m) ==
  /\ matching[m].at = "pick"
  /\ \E s \in matching[m].left :
       matching' = [matching EXCEPT ![m].left = @ \ {s},
         ![m].at = IF OpenFor(matching[m].signal, s) THEN "pick" ELSE "create",
         ![m].supplier = IF OpenFor(matching[m].signal, s) THEN "none" ELSE s]
  /\ UNCHANGED <<opportunity, aged, working, sourcingVars>>

(* ... and, without one, the creation of it.                               *)
MatchCreate(m) ==
  /\ matching[m].at = "create"
  /\ Len(opportunity) < MaxOpportunities   \* bound
  /\ opportunity' = Append(opportunity,
       [signal |-> matching[m].signal, supplier |-> matching[m].supplier,
        status |-> "NEW", version |-> 0, broker |-> {}, won |-> 0])
  /\ matching' = [matching EXCEPT ![m].at = "pick", ![m].supplier = "none"]
  /\ UNCHANGED <<aged, working, sourcingVars>>

MatchNext(m) ==
  /\ matching[m].at = "pick" /\ matching[m].left = {}
  /\ matching' = [matching EXCEPT ![m] =
       IF @.signal = "CHURN_RISK" THEN Ruling("RFQ_MATCH") ELSE Free]
  /\ UNCHANGED <<opportunity, aged, working, sourcingVars>>

----------------------------------------------------------------------------
(* Brokers                                                                 *)

Workable(i) == opportunity[i].version < MaxTouches   \* bound

Frame(at, i, to, order) ==
  [at |-> at, opp |-> i, to |-> to, order |-> order,
   version |-> IF i = 0 THEN 0 ELSE opportunity[i].version]

(* claim: refused if another broker has it ...                             *)
ClaimStart(b, i) ==
  /\ b \in team /\ working[b] = Free
  /\ Workable(i) /\ opportunity[i].broker \subseteq {b}
  /\ working' = [working EXCEPT ![b] = Frame("claim", i, opportunity[i].status, 0)]
  /\ UNCHANGED <<opportunity, aged, matching, sourcingVars>>

(* ... then written by its id.                                             *)
ClaimWrite(b) ==
  /\ working[b].at = "claim"
  /\ opportunity' = [opportunity EXCEPT ![working[b].opp].broker = {b},
                                        ![working[b].opp].version = @ + 1]
  /\ working' = [working EXCEPT ![b] = Free]
  /\ UNCHANGED <<aged, matching, sourcingVars>>

(* transition: the edge is checked, then written if the version is still   *)
(* the one that was read.                                                  *)
MoveStart(b, i, to) ==
  /\ b \in team /\ working[b] = Free
  /\ Workable(i) /\ Allowed(OpportunityTable, opportunity[i].status, to, {"BROKER"})
  /\ working' = [working EXCEPT ![b] = Frame("move", i, to, 0)]
  /\ UNCHANGED <<opportunity, aged, matching, sourcingVars>>

(* Mutant of Current: the update has no version in its WHERE clause.       *)
CurrentUnchecked(f) == TRUE

Current(f) == opportunity[f.opp].version = f.version

MoveWrite(b) ==
  LET f == working[b]
  IN /\ f.at = "move"
     /\ opportunity' = IF Current(f)
          THEN [opportunity EXCEPT ![f.opp].status = f.to, ![f.opp].version = @ + 1]
          ELSE opportunity
     /\ working' = [working EXCEPT ![b] = Free]
     /\ UNCHANGED <<aged, matching, sourcingVars>>

(* createBrokerOrder: the order in a transaction of its own, then, if one  *)
(* is named, the opportunity: read ...                                     *)
BrokerOrder(b, s, i) ==
  /\ b \in team /\ working[b] = Free
  /\ i # 0 => Workable(i)
  /\ WriteOrder("BROKER", NoContract, 0, s)
  /\ working' = [working EXCEPT ![b] =
       IF i = 0 THEN Free ELSE Frame("read", i, "NEGOTIATING", Len(orders) + 1)]
  /\ UNCHANGED <<opportunity, aged, matching, contract, cart, placing, team, quotationVars>>

LinkRead(b) ==
  /\ working[b].at = "read"
  /\ working' = [working EXCEPT ![b].at = "link",
       ![b].to = IF opportunity[working[b].opp].status \in {"NEW", "CONTACTED"}
                 THEN "NEGOTIATING" ELSE "NEW"]
  /\ UNCHANGED <<opportunity, aged, matching, sourcingVars>>

(* ... and written by its id, the status as well if it was an early one.   *)
LinkWrite(b) ==
  LET f == working[b]
  IN /\ f.at = "link"
     /\ opportunity' = [opportunity EXCEPT ![f.opp].won = f.order,
          ![f.opp].version = @ + 1,
          ![f.opp].status = IF f.to = "NEGOTIATING" THEN f.to ELSE @]
     /\ working' = [working EXCEPT ![b] = Free]
     /\ UNCHANGED <<aged, matching, sourcingVars>>

BrokerageNext ==
  \/ MonthPasses
  \/ \E m \in Matchers : MatchStart(m) \/ MatchPick(m) \/ MatchCreate(m) \/ MatchNext(m)
  \/ \E b \in Brokers :
       \/ \E i \in DOMAIN opportunity :
            ClaimStart(b, i) \/ \E to \in OpportunityStatus : MoveStart(b, i, to)
       \/ \E s \in Sellers, i \in {0} \cup DOMAIN opportunity : BrokerOrder(b, s, i)
       \/ ClaimWrite(b) \/ MoveWrite(b) \/ LinkRead(b) \/ LinkWrite(b)
=============================================================================
