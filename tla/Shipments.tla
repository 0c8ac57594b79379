---------------------------- MODULE Shipments -----------------------------
(***************************************************************************)
(* Documents and shipments of an order (fulfillment.service.ts): the       *)
(* checklist, the original in the object storage, the masked copies sent   *)
(* in its place, the shipments, their legs and temperatures, and the two   *)
(* calls by which a transition to SHIPPED involves them: assertReadyToShip *)
(* before the transaction and markInTransitInTx within it. The storage is  *)
(* written before the row that names the object, so an upload and a copy   *)
(* are three steps. A document row is a row of cert. Of the order only the *)
(* transition matters here; its lock is in Trading.                        *)
(***************************************************************************)
EXTENDS Expiry, Sequences

CONSTANTS
  Orders, Types,  \* orders; docType
  Filers,         \* bound: whether documents are registered
  Uploads,        \* uploadDocumentFile() in progress at once
  Copiers,        \* createMaskedCopy() in progress at once
  MaxCopies       \* bound: masked copies made

Extensions == {"pdf", "png"}   \* of those accepted; the redactor supports them all

VARIABLES
  about,    \* order and docType of a document
  fileKey,  \* extension of the object a document names, or "pending-upload"
  masked,   \* documents with a maskTemplate
  stored,   \* objects in the storage
  copies,   \* masked_document_copies
  drawn,    \* tracking codes drawn so far, all different
  upload, copier

paperVars == <<about, fileKey, masked, stored, copies, drawn, upload, copier>>

Originals == Docs \X Extensions
Renderings == {<<"masked", n>> : n \in 1..MaxCopies}
Pending == <<>>

UploadType == [at : {"put", "write"}, doc : Docs, ext : Extensions]
CopyType == [at : {"put", "create"}, doc : Docs, file : Renderings \cup {Pending}]

PaperTypeOK ==
  /\ about \in [Docs -> (Orders \X Types) \cup {<<>>}]
  /\ fileKey \in [Docs -> Extensions \cup {"pending-upload"}]
  /\ masked \subseteq Docs
  /\ stored \subseteq Originals \cup Renderings
  /\ copies \subseteq [doc : Docs, file : Renderings \cup {Pending}]
  /\ drawn \in 0..MaxCopies
  /\ upload \in [Uploads -> {Free} \cup UploadType]
  /\ copier \in [Copiers -> {Free} \cup CopyType]

PaperInit ==
  /\ about = [d \in Docs |-> <<>>]
  /\ fileKey = [d \in Docs |-> "pending-upload"]
  /\ masked = {} /\ stored = {} /\ copies = {} /\ drawn = 0
  /\ upload = [u \in Uploads |-> Free]
  /\ copier = [k \in Copiers |-> Free]

(* registerDocument: the row alone, of no file yet.                        *)
RegisterDocument(d, o, t) ==
  /\ cert[d] = NoCert
  /\ \E date \in Dates : Issued(d, "VALID", date)
  /\ about' = [about EXCEPT ![d] = <<o, t>>]
  /\ UNCHANGED <<today, inbox, scan, team, fileKey, masked, stored, copies, drawn, upload, copier>>

(* buildChecklist counts every document that was not rejected, and nothing *)
(* rejects one.                                                            *)
Present(o) == {about[d][2] : d \in {e \in Docs : cert[e].live /\ about[e][1] = o}}

----------------------------------------------------------------------------
(* The original                                                            *)

UploadStart(u, d, e) ==
  /\ u \in team /\ upload[u] = Free
  /\ cert[d].live
  /\ upload' = [upload EXCEPT ![u] = [at |-> "put", doc |-> d, ext |-> e]]
  /\ UNCHANGED <<expiryVars, team, about, fileKey, masked, stored, copies, drawn, copier>>

(* Mutant of UploadPut: nobody waits for the storage.                      *)
UploadPutUnawaited(u) ==
  /\ upload[u].at = "put"
  /\ upload' = [upload EXCEPT ![u].at = "write"]
  /\ UNCHANGED <<expiryVars, team, about, fileKey, masked, stored, copies, drawn, copier>>

UploadPut(u) ==
  /\ upload[u].at = "put"
  /\ stored' = stored \cup {<<upload[u].doc, upload[u].ext>>}
  /\ upload' = [upload EXCEPT ![u].at = "write"]
  /\ UNCHANGED <<expiryVars, team, about, fileKey, masked, copies, drawn, copier>>

UploadWrite(u) ==
  /\ upload[u].at = "write"
  /\ fileKey' = [fileKey EXCEPT ![upload[u].doc] = upload[u].ext]
  /\ upload' = [upload EXCEPT ![u] = Free]
  /\ UNCHANGED <<expiryVars, team, about, masked, stored, copies, drawn, copier>>

(* A put that fails, or a crash: the request ends where it is.             *)
UploadFail(u) ==
  /\ upload[u] # Free
  /\ upload' = [upload EXCEPT ![u] = Free]
  /\ UNCHANGED <<expiryVars, team, about, fileKey, masked, stored, copies, drawn, copier>>

----------------------------------------------------------------------------
(* Masked copies                                                           *)

SetMaskTemplate(d) ==
  /\ cert[d].live /\ d \notin masked
  /\ masked' = masked \cup {d}
  /\ UNCHANGED <<expiryVars, team, about, fileKey, stored, copies, drawn, upload, copier>>

(* renderMaskedFile gives up without an original.                          *)
Renderable(d) == fileKey[d] # "pending-upload" /\ <<d, fileKey[d]>> \in stored

(* createMaskedCopy reads the document and the original, ...               *)
CopyStart(k, d) ==
  /\ k \in team /\ copier[k] = Free
  /\ drawn < MaxCopies   \* bound
  /\ d \in masked
  /\ drawn' = drawn + 1
  /\ copier' = [copier EXCEPT ![k] = IF Renderable(d)
       THEN [at |-> "put", doc |-> d, file |-> <<"masked", drawn + 1>>]
       ELSE [at |-> "create", doc |-> d, file |-> Pending]]
  /\ UNCHANGED <<expiryVars, team, about, fileKey, masked, stored, copies, upload>>

(* ... stores what the redactor made of it, ...                            *)
CopyPut(k) ==
  /\ copier[k].at = "put"
  /\ stored' = stored \cup {copier[k].file}
  /\ copier' = [copier EXCEPT ![k].at = "create"]
  /\ UNCHANGED <<expiryVars, team, about, fileKey, masked, copies, drawn, upload>>

(* ... and records the copy.                                               *)
CopyCreate(k) ==
  /\ copier[k].at = "create"
  /\ copies' = copies \cup {[doc |-> copier[k].doc, file |-> copier[k].file]}
  /\ copier' = [copier EXCEPT ![k] = Free]
  /\ UNCHANGED <<expiryVars, team, about, fileKey, masked, stored, drawn, upload>>

CopyFail(k) ==
  /\ copier[k] # Free
  /\ copier' = [copier EXCEPT ![k] = Free]
  /\ UNCHANGED <<expiryVars, team, about, fileKey, masked, stored, copies, drawn, upload>>

PaperNext ==
  \/ Working(Filers) /\ \E d \in Docs, o \in Orders, t \in Types : RegisterDocument(d, o, t)
  \/ Working(Copiers) /\ \E d \in Docs : SetMaskTemplate(d)
  \/ \E u \in Uploads :
       \/ \E d \in Docs, e \in Extensions : UploadStart(u, d, e)
       \/ UploadPut(u) \/ UploadWrite(u) \/ UploadFail(u)
  \/ \E k \in Copiers :
       \/ \E d \in Docs : CopyStart(k, d)
       \/ CopyPut(k) \/ CopyCreate(k) \/ CopyFail(k)

----------------------------------------------------------------------------
(* Shipments                                                                *)

CONSTANTS
  Required,       \* requiredDocTypes of the trade lane
  Registrars,     \* registerShipment() in progress at once
  Shippers,       \* transitions to SHIPPED in progress at once
  Loggers,        \* addTemperatureLogs() in progress at once
  Temperatures,   \* degrees that may be logged
  MaxShipments, MaxLogs   \* bounds: rows of shipments, logs with a breach

ASSUME ShipmentsAssumption ==
  /\ MaxCopies \in Nat /\ MaxShipments \in Nat /\ MaxLogs \in Nat
  /\ IsFiniteSet(Registrars) /\ IsFiniteSet(Loggers)

VARIABLES
  goods,      \* the order: one that may still ship, or shipped
  shipments,  \* rows in the order of their creation
  breaches,   \* logs of an order that had a breach
  alarms,     \* TEMP_BREACH notifications of a member of the buyer
  registrar, shipper, logger

shipmentVars == <<goods, shipments, breaches, alarms, registrar, shipper, logger>>

ShipmentStatus == {"PREPARING", "IN_TRANSIT"}

ShipmentTypeOK ==
  /\ goods \in [Orders -> {"open", "shipped"}]
  /\ shipments \in Seq([order : Orders, status : ShipmentStatus, legs : ShipmentStatus])
  /\ breaches \in [Orders -> 0..MaxLogs]
  /\ alarms \in [Orders \X Members -> Nat]
  /\ registrar \in [Registrars -> {Free} \cup
       [at : {"write"}, order : Orders, existing : 0..MaxShipments]]
  /\ shipper \in [Shippers -> {Free} \cup [at : {"commit"}, order : Orders]]
  /\ logger \in [Loggers -> {Free} \cup
       [at : {"tell"}, order : Orders, left : SUBSET Members]]

ShipmentInit ==
  /\ goods = [o \in Orders |-> "open"]
  /\ shipments = <<>>
  /\ breaches = [o \in Orders |-> 0]
  /\ alarms = [b \in Orders \X Members |-> 0]
  /\ registrar = [r \in Registrars |-> Free]
  /\ shipper = [p \in Shippers |-> Free]
  /\ logger = [g \in Loggers |-> Free]

Found(o) == {i \in DOMAIN shipments : shipments[i].order = o}

(* registerShipment looks for a row with findFirst, in no stated order, ...*)
RegisterRead(r, o) ==
  /\ r \in team /\ registrar[r] = Free
  /\ goods[o] = "open"
  /\ \E i \in IF Found(o) = {} THEN {0} ELSE Found(o) :
       registrar' = [registrar EXCEPT ![r] = [at |-> "write", order |-> o, existing |-> i]]
  /\ UNCHANGED <<expiryVars, team, paperVars, goods, shipments, breaches, alarms, shipper, logger>>

(* ... then updates it and makes its legs anew, or creates one.            *)
RegisterWrite(r) ==
  LET f == registrar[r]
  IN /\ f.at = "write"
     /\ f.existing = 0 => Len(shipments) < MaxShipments   \* bound
     /\ shipments' = IF f.existing = 0
          THEN Append(shipments, [order |-> f.order, status |-> "PREPARING", legs |-> "PREPARING"])
          ELSE [shipments EXCEPT ![f.existing].legs = "PREPARING"]
     /\ registrar' = [registrar EXCEPT ![r] = Free]
     /\ UNCHANGED <<expiryVars, team, paperVars, goods, breaches, alarms, shipper, logger>>

(* Mutant of ReadyToShip: an order without a shipment is let through.      *)
ReadyToShipUnregistered(o) == Required \subseteq Present(o)

(* assertReadyToShip                                                       *)
ReadyToShip(o) == Found(o) # {} /\ Required \subseteq Present(o)

ShipCheck(p, o) ==
  /\ p \in team /\ shipper[p] = Free
  /\ goods[o] = "open"
  /\ ReadyToShip(o)
  /\ shipper' = [shipper EXCEPT ![p] = [at |-> "commit", order |-> o]]
  /\ UNCHANGED <<expiryVars, team, paperVars, goods, shipments, breaches, alarms, registrar, logger>>

(* markInTransitInTx updates every row of the order, and all their legs.   *)
InTransit(o) ==
  [i \in DOMAIN shipments |->
     IF i \in Found(o) THEN [shipments[i] EXCEPT !.status = "IN_TRANSIT", !.legs = "IN_TRANSIT"]
     ELSE shipments[i]]

ShipCommit(p) ==
  LET o == shipper[p].order
  IN /\ shipper[p].at = "commit"
     /\ goods' = [goods EXCEPT ![o] = "shipped"]
     /\ shipments' = IF goods[o] = "open" THEN InTransit(o) ELSE shipments
     /\ shipper' = [shipper EXCEPT ![p] = Free]
     /\ UNCHANGED <<expiryVars, team, paperVars, breaches, alarms, registrar, logger>>

----------------------------------------------------------------------------
(* Cold chain                                                              *)

DEFAULT_TEMP_MIN == 0 - 2
DEFAULT_TEMP_MAX == 2

Breached(t) == t < DEFAULT_TEMP_MIN \/ t > DEFAULT_TEMP_MAX

(* addTemperatureLogs writes the rows, ...                                 *)
LogTemperatures(g, o, temps) ==
  /\ g \in team /\ logger[g] = Free
  /\ breaches[o] < MaxLogs   \* bound
  /\ Found(o) # {}
  /\ \E t \in temps : Breached(t)   \* of the others no state is kept here
  /\ breaches' = [breaches EXCEPT ![o] = @ + 1]
  /\ logger' = [logger EXCEPT ![g] = [at |-> "tell", order |-> o, left |-> Members]]
  /\ UNCHANGED <<expiryVars, team, paperVars, goods, shipments, alarms, registrar, shipper>>

(* ... then tells the members of the buyer one by one.                     *)
TellMember(g) ==
  /\ logger[g].at = "tell"
  /\ \E m \in logger[g].left :
       /\ alarms' = [alarms EXCEPT ![<<logger[g].order, m>>] = @ + 1]
       /\ logger' = [logger EXCEPT ![g].left = @ \ {m}]
  /\ UNCHANGED <<expiryVars, team, paperVars, goods, shipments, breaches, registrar, shipper>>

LogDone(g) ==
  /\ logger[g].at = "tell"
  /\ logger[g].left = {} \/ "crash" \in team   \* bound
  /\ logger' = [logger EXCEPT ![g] = Free]
  /\ UNCHANGED <<expiryVars, team, paperVars, goods, shipments, breaches, alarms, registrar, shipper>>

ShipmentNext ==
  \/ \E r \in Registrars : RegisterWrite(r) \/ \E o \in Orders : RegisterRead(r, o)
  \/ \E p \in Shippers : ShipCommit(p) \/ \E o \in Orders : ShipCheck(p, o)
  \/ \E g \in Loggers :
       \/ \E o \in Orders, temps \in SUBSET Temperatures : LogTemperatures(g, o, temps)
       \/ TellMember(g) \/ LogDone(g)
=============================================================================
