------------------------------- MODULE Imports -------------------------------
(***************************************************************************)
(* The import scripts (apps/api/scripts/seed-*.ts): each walks through its *)
(* steps against the API and the database, may be killed after any of      *)
(* them, and is run again by hand, one at a time.  A script is a sequence  *)
(* of steps; what it remembers is which of its gates found nothing.        *)
(***************************************************************************)
EXTENDS Naturals, Sequences, FiniteSets, BagsExt, Bags

CONSTANTS
  Orgs,          \* organisations there may be
  NameOf,        \* [Orgs -> legal names]: a copy has the name of the real one
  Real,          \* those that register with an address of PROTECTED_EMAILS
  Casts,         \* sets of scripts, organisations and purges of one behaviour
  LotQty,        \* [scripts -> what is stocked], in kg
  OrderQty,      \* [scripts -> what one run orders]
  FARMS,         \* how many farms Tuopai has
  MaxRuns,       \* bound: runs of one script
  MaxCrashes     \* bound

VARIABLES
  cast,
  orgs,          \* organisations that exist
  rows,          \* bag of the rows written, each as <<script, kind>>
  stock,         \* [scripts -> kg not held by an order]
  orders,        \* [scripts -> the states of the orders it placed]
  enriched,      \* organisations to whose file a script added
  runs,          \* [scripts -> step, gates that found nothing, history of runs]
  refused        \* scripts a run of which has thrown

importVars == <<rows, stock, orders, enriched, runs, refused>>

-----------------------------------------------------------------------------
(* The steps.                                                              *)

Step(op, of, kind, gate) == [op |-> op, row |-> <<of, kind>>, gate |-> <<of, gate>>]

(* register, then approve if that was new.                                 *)
EnsureParty(o) == <<Step("register", o, "org", "org"), Step("new", o, "approved", "org")>>

(* Looked for, and created when it is not there.                           *)
Own(s, kinds) == [i \in 1..Len(kinds) |-> Step("own", s, kinds[i], kinds[i])]

(* One look at `gate', then rows that are written only if it was missing.  *)
Group(s, gate, kinds) ==
  <<Step("gate", s, gate, gate)>> \o [i \in 1..Len(kinds) |-> Step("new", s, kinds[i], gate)]

Always(s, kinds) == [i \in 1..Len(kinds) |-> Step("always", s, kinds[i], kinds[i])]
Lone(op, s) == <<Step(op, s, op, op)>>

(* What follows an order in the run that placed it.                        *)
Papers == <<"confirmed", "shipment", "document", "declaration">>
Paid(s) == Lone("pay", s) \o Always(s, Papers)

Hzb ==
  EnsureParty("HZB") \o EnsureParty("Jinglin") \o Own("hzb", <<"cert", "permit">>)
  \o Group("hzb", "batch", <<"unit", "batch", "passed">>)
  \o Group("hzb", "product", <<"product">>) \o Own("hzb", <<"sku">>)
  \o <<Step("new", "hzb", "live", "product")>> \o Lone("lot", "hzb")
  \o Lone("place", "hzb") \o Paid("hzb") \o Own("hzb", <<"used">>)
  \o Lone("deliver", "hzb") \o Lone("expire", "hzb")

Tuopai ==
  EnsureParty("Tuopai") \o EnsureParty("Jinglin") \o Own("tuopai", <<"profile">>)
  \o Group("tuopai", "contact", <<"contact", "contact", "contact">>)
  \o Lone("sales", "HZB") \o Own("tuopai", <<"cert", "permit">>) \o Lone("overdue", "hzb")
  \o Group("tuopai", "farm", [i \in 1..FARMS |-> "farm"])
  \o Group("tuopai", "product", <<"product">>) \o Own("tuopai", <<"sku">>)
  \o <<Step("new", "tuopai", "live", "product")>> \o Lone("lot", "tuopai")
  \o Lone("place", "tuopai") \o Paid("tuopai")

Liangmei ==
  EnsureParty("Liangmei") \o EnsureParty("Jinglin")
  \o Own("liangmei", <<"profile", "contact", "cert">>)
  \o Group("liangmei", "unit", <<"unit", "subunit", "subunit">>)
  \o Group("liangmei", "product", <<"product">>) \o Own("liangmei", <<"sku">>)
  \o <<Step("new", "liangmei", "live", "product")>> \o Lone("lot", "liangmei")
  \o Lone("place", "liangmei") \o Always("liangmei", <<"document">>)

Demo ==
  EnsureParty("HZB") \o EnsureParty("Jinglin")
  \o Group("demo", "batch", <<"unit", "batch", "passed">>)
  \o Group("demo", "product", <<"product", "sku", "live">>) \o Lone("lot", "demo")
  \o Lone("some", "demo") \o Own("demo", <<"rfq">>) \o Always("demo", <<"contact", "talk">>)

French ==
  Lone("enrich", "Jinglin")
  \o Group("french", "org", <<"org", "profile", "contact", "address">>)

ScriptOf ==
  [hzb |-> Hzb, tuopai |-> Tuopai, liangmei |-> Liangmei, demo |-> Demo, french |-> French]
Scripts == DOMAIN ScriptOf
Rows == UNION {{ScriptOf[s][i].row : i \in DOMAIN ScriptOf[s]} : s \in Scripts}

(* What the scripts register has an address of PROTECTED_EMAILS.           *)
Registered == {"HZB", "Jinglin", "Tuopai", "Liangmei"}

ASSUME ImportsAssumption ==
  /\ Registered \subseteq Orgs \cap Real
  /\ {LotQty, OrderQty} \subseteq [Scripts -> Nat]
  /\ FARMS \in Nat \ {0} /\ {MaxRuns, MaxCrashes} \subseteq Nat

(* A lot is enough for the first order of the script, but for HZB and      *)
(* Tuopai not for a second.                                                *)
Traders == {"hzb", "tuopai", "liangmei"}
ASSUME QuantitiesAssumption ==
  /\ \A s \in Traders : OrderQty[s] <= LotQty[s]
  /\ \A s \in {"hzb", "tuopai"} : LotQty[s] < 2 * OrderQty[s]

ImportsInit ==
  /\ cast \in Casts
  /\ orgs = {}
  /\ rows = EmptyBag
  /\ stock = [s \in Scripts |-> 0]
  /\ orders = [s \in Scripts |-> << >>]
  /\ enriched = {}
  /\ runs = [s \in Scripts |-> [at |-> 0, fresh |-> {}, runs |-> 0, crashes |-> 0, done |-> 0]]
  /\ refused = {}

-----------------------------------------------------------------------------
(* A run.                                                                  *)

Now(s) == ScriptOf[s][runs[s].at]
Running(s) == runs[s].at # 0
There(r) == BagIn(r, rows)
Copies(r) == IF There(r) THEN rows[r] ELSE 0
Add(r) == rows' = IF There(r) THEN rows ELSE BagAdd(rows, r)

(* Mutant of Enough: no gate finds anything.                               *)
EnoughNever(r) == FALSE

(* Farms are counted, everything else is looked up.                        *)
Enough(r) == IF r = <<"tuopai", "farm">> THEN Copies(r) >= FARMS ELSE There(r)

(* On to the next step, or to the end.                                     *)
Onward(s, fresh) ==
  runs' = IF runs[s].at = Len(ScriptOf[s])
          THEN [runs EXCEPT ![s].at = 0, ![s].fresh = {}, ![s].done = @ + 1]
          ELSE [runs EXCEPT ![s].at = @ + 1, ![s].fresh = fresh]
Continue(s) == Onward(s, runs[s].fresh)

Start(s) ==
  /\ s \in cast /\ \A t \in Scripts : ~Running(t)
  /\ runs[s].runs < MaxRuns                          \* bound
  /\ runs' = [runs EXCEPT ![s].at = 1, ![s].runs = @ + 1]
  /\ UNCHANGED <<orgs, rows, stock, orders, enriched, refused>>

(* The process is killed, or the API is away.                              *)
Crash(s) ==
  /\ Running(s)
  /\ runs[s].crashes < MaxCrashes                    \* bound
  /\ runs' = [runs EXCEPT ![s].at = 0, ![s].fresh = {}, ![s].crashes = @ + 1]
  /\ UNCHANGED <<orgs, rows, stock, orders, enriched, refused>>

Throw(s) ==
  /\ runs' = [runs EXCEPT ![s].at = 0, ![s].fresh = {}]
  /\ refused' = refused \cup {s}
  /\ UNCHANGED <<orgs, rows, stock, orders, enriched>>

(* An address that is known only logs in.                                  *)
DoRegister(s) ==
  LET o == Now(s).row[1] IN
  /\ Now(s).op = "register"
  /\ Onward(s, IF o \in orgs THEN runs[s].fresh ELSE runs[s].fresh \cup {Now(s).gate})
  /\ orgs' = orgs \cup {o}
  /\ UNCHANGED <<rows, stock, orders, enriched, refused>>

(* Looks are assumed to be answered: api() hands on any status, so that an *)
(* error would read as absence, and DoLot stock a second time.             *)
DoGate(s) ==
  /\ Now(s).op = "gate"
  /\ Onward(s, IF Enough(Now(s).row) THEN runs[s].fresh ELSE runs[s].fresh \cup {Now(s).gate})
  /\ UNCHANGED <<orgs, rows, stock, orders, enriched, refused>>

Write(s) ==
  LET r == Now(s).row IN
  \/ Now(s).op = "always"
  \/ Now(s).op = "new" /\ Now(s).gate \in runs[s].fresh
  \/ Now(s).op = "own" /\ ~There(r)

DoRow(s) ==
  /\ Now(s).op \in {"new", "own", "always"}
  /\ rows' = IF Write(s) THEN BagAdd(rows, Now(s).row) ELSE rows
  /\ Continue(s)
  /\ UNCHANGED <<orgs, stock, orders, enriched, refused>>

(* A lot needs its SKU; only the demo goes on without.                     *)
DoLot(s) ==
  /\ Now(s).op = "lot"
  /\ \/ /\ There(Now(s).row) \/ There(<<s, "sku">>)
        /\ Add(Now(s).row)
        /\ stock' = IF There(Now(s).row) THEN stock ELSE [stock EXCEPT ![s] = LotQty[s]]
        /\ Continue(s)
        /\ UNCHANGED <<orgs, orders, enriched, refused>>
     \/ /\ ~There(Now(s).row) /\ ~There(<<s, "sku">>)
        /\ IF s = "demo" THEN Continue(s) /\ UNCHANGED <<orgs, rows, stock, orders, enriched, refused>>
           ELSE Throw(s)

(* The list of orders shows neither totals nor notes, so the order is      *)
(* never recognised.                                                       *)
Recognised(s) == FALSE

(* The buyer is approved, the lots are good and hold enough.               *)
Orderable(s) ==
  /\ There(<<"Jinglin", "approved">>) /\ ~There(<<s, "expire">>)
  /\ There(<<s, "lot">>) /\ stock[s] >= OrderQty[s]

Placed(s) ==
  /\ stock' = [stock EXCEPT ![s] = @ - OrderQty[s]]
  /\ orders' = [orders EXCEPT ![s] = Append(@, "PLACED")]
  /\ Continue(s)
  /\ UNCHANGED <<orgs, enriched, refused>>

DoPlace(s) ==
  /\ Now(s).op = "place"
  /\ \/ ~Recognised(s) /\ Orderable(s) /\ Placed(s) /\ UNCHANGED rows
     \/ ~Recognised(s) /\ ~Orderable(s) /\ Throw(s)
     \/ Recognised(s) /\ Continue(s) /\ UNCHANGED <<orgs, rows, stock, orders, enriched, refused>>

(* The demo asks how many orders the buyer has, of whatever script; three  *)
(* of the six it places are his.  Those that ship get their papers.        *)
OfBuyer == Len(orders["hzb"]) + Len(orders["tuopai"]) + Len(orders["liangmei"]) + 3 * Len(orders["demo"])

DoSome(s) ==
  /\ Now(s).op = "some"
  /\ IF OfBuyer < 4 /\ Orderable(s) THEN Placed(s) /\ rows' = BagAdd(rows, Now(s).row)
     ELSE Continue(s) /\ UNCHANGED <<orgs, rows, stock, orders, enriched, refused>>

Move(s, state) ==
  /\ orders' = [orders EXCEPT ![s][Len(orders[s])] = state]
  /\ Continue(s)
  /\ UNCHANGED <<orgs, rows, stock, enriched, refused>>

DoPay(s) == Now(s).op = "pay" /\ Move(s, "PAID")
DoDeliver(s) == Now(s).op = "deliver" /\ Move(s, "COMPLETED")

(* The true dates are written back: HZB's lots are past theirs, and        *)
(* Tuopai's run marks HZB's permits.                                       *)
DoDate(s) ==
  /\ Now(s).op \in {"expire", "overdue"}
  /\ IF Now(s).op = "expire" \/ There(<<"hzb", "permit">>) THEN Add(Now(s).row) ELSE UNCHANGED rows
  /\ Continue(s)
  /\ UNCHANGED <<orgs, stock, orders, enriched, refused>>

(* The real one is who has the member; else any of that name.              *)
Namesakes(o) == {c \in orgs : NameOf[c] = NameOf[o]}
FindReal(o) == IF o \in orgs THEN {o} ELSE Namesakes(o)

(* Tuopai's run gives HZB its sales contacts, by the name alone.           *)
Found(s) == IF Now(s).op = "enrich" THEN FindReal("Jinglin") ELSE Namesakes("HZB")

DoEnrich(s) ==
  /\ Now(s).op \in {"enrich", "sales"}
  /\ \/ \E c \in Found(s) : enriched' = enriched \cup {c}
     \/ Found(s) = {} /\ UNCHANGED enriched
  /\ Continue(s)
  /\ UNCHANGED <<orgs, rows, stock, orders, refused>>

Do(s) ==
  Running(s) /\ (DoRegister(s) \/ DoGate(s) \/ DoRow(s) \/ DoLot(s) \/ DoPlace(s) \/ DoSome(s)
                 \/ DoPay(s) \/ DoDeliver(s) \/ DoDate(s) \/ DoEnrich(s))

(* Between runs the sweeper cancels what nobody pays, and an admin may     *)
(* approve a buyer left pending.                                           *)
Sweep(s) ==
  /\ \A t \in Scripts : ~Running(t)
  /\ \E i \in DOMAIN orders[s] :
       /\ orders[s][i] = "PLACED"
       /\ orders' = [orders EXCEPT ![s][i] = "CANCELLED"]
       /\ stock' = [stock EXCEPT ![s] = @ + OrderQty[s]]
  /\ UNCHANGED <<orgs, rows, enriched, runs, refused>>

ApproveByHand(o) ==
  /\ o \in orgs
  /\ \A s \in Scripts : ~Running(s)
  /\ ~There(<<o, "approved">>)
  /\ Add(<<o, "approved">>)
  /\ UNCHANGED <<orgs, stock, orders, enriched, runs, refused>>

ImportsNext ==
  \/ \E s \in Scripts : Start(s) \/ Do(s) \/ Crash(s) \/ Sweep(s)
  \/ ApproveByHand("Jinglin")
=============================================================================
