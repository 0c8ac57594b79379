---------------------------- MODULE Fulfillment ----------------------------
(***************************************************************************)
(* What fulfils an order, side by side: shipments and their papers, CITES  *)
(* permits, and the scan of what expires, which writes to all of them.     *)
(* The handlers of one behaviour are drawn by `team'; "cross" lets         *)
(* deductions overlap the migration of the permits.                        *)
(***************************************************************************)
EXTENDS Shipments, Cites

vars == <<expiryVars, team, paperVars, shipmentVars, citesVars>>

TypeOK == ExpiryTypeOK /\ PaperTypeOK /\ ShipmentTypeOK /\ CitesTypeOK

Init == ExpiryInit /\ PaperInit /\ ShipmentInit /\ CitesInit

Next ==
  \/ Working(Scans \cup Inspectors) /\ DayPasses /\ UNCHANGED <<paperVars, shipmentVars, citesVars>>
  \/ ExpiryNext /\ UNCHANGED <<paperVars, shipmentVars, citesVars>>
  \/ PaperNext /\ UNCHANGED <<shipmentVars, citesVars>>
  \/ ShipmentNext /\ UNCHANGED citesVars
  \/ CitesNext /\ UNCHANGED <<paperVars, shipmentVars>>

Spec == Init /\ [][Next]_vars

----------------------------------------------------------------------------
(* A certificate is EXPIRED only after its last day, which still counts    *)
(* ("today is 0 days"), so no shipment is held up by it too early.         *)
ExpiredIsOverdue == \A c \in Certs : cert[c].status = "EXPIRED" => cert[c].expires < today

(* "Each bucket reminds once" (dedupeKey): one scan at a time sends nobody *)
(* the same reminder twice, however often it crashes and starts over.      *)
RemindedOnce ==
  Cardinality(team \cap Scans) <= 1 => \A b \in Mailboxes : inbox[b] <= 1

(* By the time the staff gets its digest, every holder of a listed         *)
(* certificate has the reminder of its bucket.                             *)
ScanTells ==
  \A s \in Scans : scan[s].at = "digest" =>
    \A m \in Members, i \in scan[s].items : inbox[<<m, i>>] > 0

(* No row names an object that is not in the storage: a crash, or a put    *)
(* that fails, leaves an object too many and never one too few.            *)
FilesAreStored ==
  /\ \A d \in Docs : fileKey[d] # "pending-upload" => <<d, fileKey[d]>> \in stored
  /\ \A c \in copies : c.file # Pending => c.file \in stored

(* An order has one shipment, unless two registrations overlap.            *)
OneShipment ==
  Cardinality(team \cap Registrars) <= 1 => \A i, j \in DOMAIN shipments :
    shipments[i].order = shipments[j].order => i = j

(* An order ships with a shipment and the papers its lane requires.        *)
ShippedWithPapers ==
  \A o \in Orders : goods[o] = "shipped" => Found(o) # {} /\ Required \subseteq Present(o)

(* Every breach is told to every member of the buyer, as long as nothing   *)
(* crashes.                                                                *)
BreachesTold ==
  \A o \in Orders :
    "crash" \notin team /\ (\A g \in Loggers : logger[g] = Free) =>
      \A m \in Members : alarms[<<o, m>>] = breaches[o]

(* The total of a permit is the sum of its lines, deductions that race for *)
(* it included; the script keeps that, unless somebody deducts while it    *)
(* runs, or runs it a second time.                                         *)
TotalsAreLines ==
  "cross" \notin team /\ Cardinality(team \cap Migrators) <= 1 =>
    \A p \in Permits : Lines(p) # {} /\ cert[p].live =>
      /\ permit[p].quota = SumFunction([s \in Species |-> line[p][s].quota])
      /\ permit[p].used = SumFunction([s \in Species |-> line[p][s].used])

(* How many deductions may overlap the one that is written.                *)
Racing == IF Working(Inspectors) THEN Cardinality(team \cap Inspectors) - 1 ELSE 0

(* A quota is overdrawn by the deductions that overlap and by no more: not *)
(* at all by one at a time, also of permits that were merged.  A merge     *)
(* adds up what several inspectors have overdrawn.                         *)
QuotaKept ==
  LET slack == Racing * Max(Kg)
  IN "cross" \notin team /\ (Racing = 0 \/ ~Working(Migrators)) =>
       \A p \in Permits :
         /\ permit[p].used <= permit[p].quota + slack
         /\ \A s \in Lines(p) : line[p][s].used <= line[p][s].quota + slack

(* The expiry scan, crashed and started over or not, expires nothing early *)
(* and reminds everybody once.                                             *)
RemindersKept == TypeOK /\ ExpiredIsOverdue /\ RemindedOnce /\ ScanTells

(* What leaves has one shipment and its papers, and its breaches are told. *)
ShipmentsKept == OneShipment /\ ShippedWithPapers /\ BreachesTold

(* Permits and their lines count the same kilograms, within the quota.     *)
PermitsKept == TotalsAreLines /\ QuotaKept
=============================================================================
