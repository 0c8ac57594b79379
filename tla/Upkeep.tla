------------------------------ MODULE Upkeep ------------------------------
(***************************************************************************)
(* Imports and purges over one database. The clearing of test data         *)
(* (scripts/lib/test-data.ts): what is to go is found by the names of the  *)
(* organisations, the ids that hang on them are collected, and one READ    *)
(* COMMITTED transaction deletes from leaf to root, while the API goes on  *)
(* serving.                                                                *)
(***************************************************************************)
EXTENDS Imports

CONSTANTS
  Sellers,       \* the suppliers among the organisations
  Purges,        \* runs of clean-test-data or of a smoke test's own clearing
  TestNames,     \* [Purges -> the names it goes by]
  MaxDeals,      \* bound: orders placed through the API
  MaxAborts      \* bound: transactions that fail

ASSUME UpkeepAssumption == {MaxDeals, MaxAborts} \subseteq Nat

VARIABLES
  lots,          \* organisations that have a lot in stock
  checked,       \* buyers for whom a placement has passed its check
  dealt,         \* how many orders were placed
  deals,         \* those that exist, each with its buyer and its supplier
  holds,         \* the orders that have a reservation row
  late,          \* history: orders a purge could not know, and how far it was
  purges         \* [Purges -> phase, what it found and collected, what is deleted]

purgeVars == <<lots, checked, dealt, deals, holds, late, purges>>

Idle == [at |-> "find", found |-> {}, orders |-> {}, lots |-> {}, goneHolds |-> {}, aborts |-> 0]

PurgeInit ==
  /\ lots = {} /\ checked = {} /\ dealt = 0 /\ deals = {} /\ holds = {} /\ late = {}
  /\ purges = [p \in Purges |-> Idle]

-----------------------------------------------------------------------------
(* What the API does in the meantime.                                      *)

Join(o) ==
  /\ o \in cast \cap Orgs /\ o \notin orgs
  /\ orgs' = orgs \cup {o}
  /\ UNCHANGED purgeVars

StockUp(o) ==
  /\ o \in (orgs \cap cast \cap Sellers) \ lots
  /\ lots' = lots \cup {o}
  /\ UNCHANGED <<orgs, checked, dealt, deals, holds, late, purges>>

Deleting(p, o) == purges[p].at = "orgs" /\ o \in purges[p].lots
Concerns(p, d) == {d.buyer, d.supplier} \cap purges[p].found # {}

Collected(p) == purges[p].at \in {"stock", "holds", "lots", "orgs"}

(* A placement reads its buyer before its transaction.                     *)
DealChecks(b) ==
  /\ b \in orgs \ (Sellers \cup checked)
  /\ dealt < MaxDeals                               \* bound
  /\ checked' = checked \cup {b}
  /\ UNCHANGED <<orgs, lots, dealt, deals, holds, late, purges>>

(* What the purges could not know of an order: it is made after one of     *)
(* them has looked for orders, or its buyer was cleared meanwhile.         *)
Unknown(d) ==
  {<<d, purges[p].at>> : p \in {q \in Purges : Concerns(q, d) /\ Collected(q)}}
  \cup {<<d, "cleared">> : b \in {d.buyer} \ orgs}

(* The order and its reservation are one transaction, which waits for the  *)
(* lot while a purge is deleting it; no foreign key asks for the buyer.    *)
Deal(b, o) ==
  LET d == [id |-> dealt + 1, buyer |-> b, supplier |-> o] IN
  /\ b \in checked /\ o \in orgs \cap lots
  /\ dealt < MaxDeals                               \* bound
  /\ \A p \in Purges : ~Deleting(p, o)
  /\ dealt' = dealt + 1
  /\ deals' = deals \cup {d}
  /\ holds' = holds \cup {d}
  /\ late' = late \cup Unknown(d)
  /\ checked' = checked \ {b}
  /\ UNCHANGED <<orgs, lots, purges>>

-----------------------------------------------------------------------------
(* One purge.                                                              *)

Advance(p, at, found, os, ls, gone) ==
  purges' = [purges EXCEPT ![p] = [at |-> at, found |-> found, orders |-> os, lots |-> ls,
                                   goneHolds |-> gone, aborts |-> @.aborts]]

FindOrgs(p) ==
  /\ p \in cast /\ purges[p].at = "find"
  /\ Advance(p, "protect", {o \in orgs : NameOf[o] \in TestNames[p]}, {}, {}, {})
  /\ UNCHANGED <<orgs, lots, checked, dealt, deals, holds, late>>

(* Mutant of Protected: nobody is.                                         *)
ProtectedNone == {}

(* Whoever has one of the fixed addresses among its members stays.         *)
Protected == orgs \cap Real

Protect(p) ==
  LET test == purges[p].found \ Protected IN
  /\ purges[p].at = "protect"
  /\ Advance(p, IF test = {} THEN "find" ELSE "orders", test, {}, {}, {})
  /\ UNCHANGED <<orgs, lots, checked, dealt, deals, holds, late>>

(* Mutant of OrdersOf: by the buyer only.                                  *)
OrdersOfBuyers(found) == {d \in deals : d.buyer \in found}

(* By either side.                                                         *)
OrdersOf(found) == {d \in deals : d.buyer \in found \/ d.supplier \in found}

CollectOrders(p) ==
  /\ purges[p].at = "orders"
  /\ Advance(p, "stock", purges[p].found, OrdersOf(purges[p].found), {}, {})
  /\ UNCHANGED <<orgs, lots, checked, dealt, deals, holds, late>>

CollectLots(p) ==
  /\ purges[p].at = "stock"
  /\ Advance(p, "holds", purges[p].found, purges[p].orders, lots \cap purges[p].found, {})
  /\ UNCHANGED <<orgs, lots, checked, dealt, deals, holds, late>>

(* By the lot and by the order: an order of a surviving buyer is only      *)
(* found by the lot.                                                       *)
HoldsOf(p) == {h \in holds : h.supplier \in purges[p].lots \/ h \in purges[p].orders}

TxHolds(p) ==
  /\ purges[p].at = "holds"
  /\ Advance(p, "lots", purges[p].found, purges[p].orders, purges[p].lots, HoldsOf(p))
  /\ UNCHANGED <<orgs, lots, checked, dealt, deals, holds, late>>

TxLots(p) ==
  /\ purges[p].at = "lots"
  /\ \A q \in Purges \ {p} : \A o \in purges[p].lots : ~Deleting(q, o)
  /\ Advance(p, "orgs", purges[p].found, purges[p].orders, purges[p].lots, purges[p].goneHolds)
  /\ UNCHANGED <<orgs, lots, checked, dealt, deals, holds, late>>

(* The last statements and the commit; only here does anybody else see it. *)
Commit(p) ==
  /\ purges[p].at = "orgs"
  /\ orgs' = orgs \ purges[p].found
  /\ deals' = deals \ purges[p].orders
  /\ holds' = holds \ purges[p].goneHolds
  /\ lots' = lots \ purges[p].lots
  /\ late' = {l \in late : l[1] \in deals' \cup holds'}
  /\ Advance(p, "done", {}, {}, {}, {})
  /\ UNCHANGED <<checked, dealt>>

(* In the transaction a row written in between keeps its parent (a foreign *)
(* key), the time is up, or the process dies: nothing was deleted.         *)
Abort(p) ==
  /\ purges[p].at \in {"holds", "lots", "orgs"}
  /\ purges[p].aborts < MaxAborts                    \* bound
  /\ purges' = [purges EXCEPT ![p] = [Idle EXCEPT !.aborts = purges[p].aborts + 1]]
  /\ UNCHANGED <<orgs, lots, checked, dealt, deals, holds, late>>

PurgeNext ==
  \/ \E o \in Orgs : Join(o) \/ StockUp(o)
  \/ \E b, o \in Orgs : DealChecks(b) \/ Deal(b, o)
  \/ \E p \in Purges : FindOrgs(p) \/ Protect(p) \/ CollectOrders(p) \/ CollectLots(p)
                       \/ TxHolds(p) \/ TxLots(p) \/ Commit(p) \/ Abort(p)

----------------------------------------------------------------------------

vars == <<cast, orgs, importVars, purgeVars>>

Init == ImportsInit /\ PurgeInit

Import == ImportsNext /\ UNCHANGED <<cast, purgeVars>>
Clear == PurgeNext /\ UNCHANGED <<cast, importVars>>

Next == Import \/ Clear
Spec == Init /\ [][Next]_vars

-----------------------------------------------------------------------------
Live == {"PLACED", "PAID", "COMPLETED"}

TypeOK ==
  /\ cast \in Casts /\ orgs \subseteq Orgs
  /\ BagToSet(rows) \subseteq Rows /\ stock \in [Scripts -> Nat]
  /\ orders \in [Scripts -> Seq(Live \cup {"CANCELLED"})]
  /\ enriched \subseteq Orgs
  /\ \A s \in Scripts : runs[s].at \in 0..Len(ScriptOf[s]) /\ runs[s].done <= runs[s].runs
  /\ lots \cup checked \subseteq Orgs /\ {d[1] : d \in late} \cup holds \cup deals \subseteq
                            [id : 1..MaxDeals, buyer : Orgs, supplier : Orgs]
  /\ \A p \in Purges : purges[p].found \cup purges[p].lots \subseteq Orgs

(* How often the scripts write a row at most, when nothing goes wrong.     *)
Writers(s) == {i \in DOMAIN ScriptOf[s] : ScriptOf[s][i].op \in {"new", "own", "lot", "always"}}
RowsOf == [s \in Scripts |-> {ScriptOf[s][i].row : i \in Writers(s)}]
Times ==
  [s \in Scripts |-> [r \in RowsOf[s] |-> Cardinality({i \in Writers(s) : ScriptOf[s][i].row = r})]]

(* A killed import that is run again doubles nothing that has a number or  *)
(* a name, the papers of an order among it, but the contract that          *)
(* Liangmei's registers anew with each order.  Farms and other units,      *)
(* written before what their gate looks for, and what is said or entered   *)
(* always, come twice.                                                     *)
Doubled == {"unit", "farm", "talk"}
Anew == {<<"demo", "contact">>, <<"liangmei", "document">>}
OnceEach ==
  \A s \in Scripts : \A r \in RowsOf[s] :
    r[2] \notin Doubled /\ r \notin Anew => Copies(r) <= Times[s][r]

(* Runs that nothing interrupted leave all they have to leave, however     *)
(* often they were made, and whichever other imports came in between.      *)
Wanted(s, r) ==
  LET always == \E i \in Writers(s) : ScriptOf[s][i].op = "always" /\ ScriptOf[s][i].row = r IN
  IF always THEN Times[s][r] * runs[s].done ELSE Times[s][r]
UninterruptedIsWhole ==
  \A s \in Scripts : ~Running(s) /\ runs[s].done > 0 /\ runs[s].crashes = 0 =>
    \A r \in RowsOf[s] : r[1] = s => Copies(r) = Wanted(s, r)

(* The orders are not recognised when an import is run again, but for HZB  *)
(* and Tuopai the stock is that of one order: a second one comes only      *)
(* after the first was cancelled.                                          *)
LiveOrders(s) == Cardinality({i \in DOMAIN orders[s] : orders[s][i] \in Live})
OneLiveOrder == \A s \in {"hzb", "tuopai"} : LiveOrders(s) <= 1

(* For those two a run comes to its end once, and every run after it       *)
(* throws at its order: only a half-done import can be run again.          *)
EndsOnce == \A s \in {"hzb", "tuopai"} : runs[s].done <= 1

(* Otherwise an import fails only if some run before it was interrupted,   *)
(* if the lots do not suffice for one more order, or if the buyer has      *)
(* registered himself and waits for his approval.                          *)
UsedUp(s) == LotQty[s] < (runs[s].done + 1) * OrderQty[s]
FirstRunSucceeds ==
  \A s \in refused :
    \/ UsedUp(s)
    \/ "Jinglin" \in cast \/ \E t \in Scripts : runs[t].crashes > 0

(* The French archive is written to the company that has the account, not  *)
(* to a copy of its name, once that company exists.                        *)
EnrichedIsReal ==
  [][\A s \in Scripts : Running(s) /\ Now(s).op = "enrich" /\ "Jinglin" \in orgs
       => enriched' \ enriched \subseteq Real]_vars

(* What people use is never cleared, whatever it is called and whoever     *)
(* registers while a purge looks around.                                   *)
RealKept == [][orgs \cap Real \subseteq orgs']_vars

(* No order of a cleared company is left, but one written after the purge  *)
(* had looked for orders: even after it was done, by a placement that had  *)
(* read its buyer before.                                                  *)
LeavesNothing ==
  \A d \in deals : {d.buyer, d.supplier} \subseteq orgs
    \/ \E l \in late : l[1] = d

(* No reservation outlives its order or its lot and holds the sweeper up,  *)
(* but one made between the deletion of the reservations and of the lots.  *)
NoOrphanHold ==
  /\ holds \subseteq deals
  /\ \A h \in holds : h.supplier \in lots \/ <<h, "lots">> \in late

(* An import can be killed and run again: nothing is there twice but what  *)
(* Doubled and Anew name, nothing is missing after runs that ended, and it *)
(* fails only where an earlier one was cut off or has used up the lots.    *)
ImportsRepeatable ==
  TypeOK /\ OnceEach /\ UninterruptedIsWhole /\ OneLiveOrder /\ EndsOnce /\ FirstRunSucceeds

(* The scripts keep their hands off the companies that are real.           *)
RealUntouched == EnrichedIsReal /\ RealKept

(* A purge leaves nothing behind that points to what it has cleared.       *)
PurgedClean == LeavesNothing /\ NoOrphanHold
=============================================================================
