------------------------- MODULE FulfillmentSafety -------------------------
(***************************************************************************)
(* Proofs about what fulfils an order: the reminders of the expiry scan,   *)
(* the files of its documents, its shipments and its permits.              *)
(***************************************************************************)
EXTENDS Fulfillment, Sums

(* A row is marked only if it was overdue when it was listed, and nothing  *)
(* moves its date.                                                         *)
MarksOverdue ==
  \A s \in Scans : scan[s] # Free =>
    \A c \in scan[s].left : cert[c] # NoCert /\ cert[c].expires < today

(* A scan has told its holders, or is about to.                            *)
ScanOK(s) ==
  scan[s] # Free =>
    /\ s \in team
    /\ \A a, b \in scan[s].send : a = b
    /\ scan[s].at = "mark" => scan[s].tell = {} /\ scan[s].send = {}
    /\ scan[s].at = "tell" => \A m \in Members, i \in scan[s].items :
         <<m, i>> \in scan[s].tell \cup scan[s].send \/ inbox[<<m, i>>] > 0
    /\ scan[s].at = "digest" => \A m \in Members, i \in scan[s].items : inbox[<<m, i>>] > 0

(* What the only scan is about to send was not sent before.                *)
SendsAreNew ==
  Cardinality(team \cap Scans) <= 1 =>
    /\ \A b \in Mailboxes : inbox[b] <= 1
    /\ \A s \in Scans : scan[s] # Free => \A b \in scan[s].send : inbox[b] = 0

RemindersInv ==
  /\ ExpiryTypeOK /\ ExpiredIsOverdue /\ MarksOverdue
  /\ \A s \in Scans : ScanOK(s)
  /\ SendsAreNew

(* The row that names an object is written after the object.               *)
FilesInv ==
  /\ PaperTypeOK /\ FilesAreStored
  /\ \A u \in Uploads : upload[u].at = "write" => <<upload[u].doc, upload[u].ext>> \in stored
  /\ \A k \in Copiers :
       /\ copier[k].at = "create" => copier[k].file = Pending \/ copier[k].file \in stored
       /\ copier[k].at = "put" => copier[k].file # Pending

(* The only registration that has seen no shipment creates the first.      *)
RegistrationsOK ==
  /\ Len(shipments) <= MaxShipments
  /\ \A r \in Registrars : registrar[r] # Free =>
       /\ r \in team
       /\ registrar[r].existing # 0 => registrar[r].existing \in DOMAIN shipments
       /\ registrar[r].existing = 0 /\ Cardinality(team \cap Registrars) <= 1 =>
            Found(registrar[r].order) = {}

(* What was checked before the transaction still holds in it.              *)
ChecksHold ==
  \A p \in Shippers : shipper[p].at = "commit" =>
    Found(shipper[p].order) # {} /\ Required \subseteq Present(shipper[p].order)

(* A breach has been told to a member, or its log is about to.             *)
Owes(n, o, m) == IF n # Free /\ n.order = o /\ m \in n.left THEN 1 ELSE 0
Telling(o, m) == [g \in Loggers |-> Owes(logger[g], o, m)]

AlarmsDue ==
  "crash" \notin team => \A o \in Orders, m \in Members :
    alarms[<<o, m>>] + SumFunctionOnSet(Telling(o, m), Loggers) = breaches[o]

ShipmentsInv ==
  /\ ShipmentTypeOK /\ RegistrationsOK /\ ChecksHold /\ AlarmsDue
  /\ OneShipment /\ ShippedWithPapers

FulfillmentInv == RemindersInv /\ FilesInv /\ ShipmentsInv /\ CitesTypeOK

----------------------------------------------------------------------------
(* The rows: none goes away or moves its date, one becomes EXPIRED only    *)
(* once it is overdue, and documents stay.                                 *)
CertType == [status : {"PENDING", "VALID", "EXPIRED"}, expires : Dates, live : BOOLEAN]
CertsTyped == cert \in [Certs -> {NoCert} \cup CertType]

RowsMove ==
  /\ CertsTyped' /\ today <= today'
  /\ \A c \in Certs :
       /\ cert[c] # NoCert => cert'[c] # NoCert /\ cert'[c].expires = cert[c].expires
       /\ cert'[c].status = "EXPIRED" =>
            cert[c].status = "EXPIRED" \/ (cert[c] # NoCert /\ cert[c].expires < today)
       /\ c \in Docs /\ cert[c].live => cert'[c].live

(* A row that was never written is none of the others.                     *)
LEMMA RowIs == \A x \in CertType : x # NoCert /\ x.status \in {"PENDING", "VALID", "EXPIRED"}
<1>1. \A x \in CertType : x.status # "none" BY DEF CertType
<1>2. NoCert.status = "none" BY DEF NoCert
<1> QED BY <1>1, <1>2 DEF CertType

(* A step that leaves the rows alone.                                      *)
LEMMA RowsRest == CertsTyped /\ cert' = cert /\ today <= today' => RowsMove
  BY DEF RowsMove, CertsTyped

(* A row is issued.                                                        *)
LEMMA RowsIssue ==
  ASSUME CertsTyped, today \in Nat, today' = today, NEW c \in Certs, cert[c] = NoCert,
         NEW status \in {"PENDING", "VALID"}, NEW date \in Dates, Issued(c, status, date)
  PROVE  RowsMove
<1> DEFINE new == [status |-> status, expires |-> date, live |-> TRUE]
<1>1. new \in CertType BY DEF CertType
<1>2. cert' = [cert EXCEPT ![c] = new] BY DEF Issued
<1>3. new.status # "EXPIRED" OBVIOUS
<1> HIDE DEF new
<1>4. CertsTyped' BY <1>1, <1>2 DEF CertsTyped
<1>5. cert'[c] = new /\ \A k \in Certs \ {c} : cert'[k] = cert[k] BY <1>2 DEF CertsTyped
<1>6. ~cert[c].live BY DEF NoCert
<1> QED BY <1>3, <1>4, <1>5, <1>6 DEF RowsMove

(* Rows other than documents are deleted.                                  *)
LEMMA RowsDelete ==
  ASSUME CertsTyped, today \in Nat, today' = today, NEW D \in SUBSET Certs, D \cap Docs = {},
         cert' = [c \in Certs |-> IF c \in D THEN [cert[c] EXCEPT !.live = FALSE] ELSE cert[c]]
  PROVE  RowsMove
<1>1. ASSUME NEW c \in Certs
      PROVE  \/ cert'[c] = cert[c]
             \/ /\ c \in D /\ cert[c] \in CertType /\ cert'[c] \in CertType
                /\ cert'[c].expires = cert[c].expires /\ cert'[c].status = cert[c].status
  <2>1. CASE c \notin D BY <2>1
  <2>2. CASE c \in D /\ cert[c] = NoCert
    <3>1. /\ DOMAIN NoCert = {"status", "live"} /\ NoCert["live"] = FALSE
          /\ NoCert = [k \in {"status", "live"} |-> NoCert[k]]
      BY DEF NoCert
    <3>2. [NoCert EXCEPT !.live = FALSE] =
            [k \in {"status", "live"} |-> IF k = "live" THEN FALSE ELSE NoCert[k]]
      BY <3>1, Zenon
    <3>3. [NoCert EXCEPT !.live = FALSE] = NoCert BY <3>1, <3>2, Zenon
    <3> QED BY <2>2, <3>3
  <2>3. CASE c \in D /\ cert[c] # NoCert
    <3>1. cert[c] \in CertType BY <2>3 DEF CertsTyped
    <3>2. cert'[c] = [cert[c] EXCEPT !.live = FALSE] BY <2>3
    <3> QED BY <2>3, <3>1, <3>2 DEF CertType
  <2> QED BY <2>1, <2>2, <2>3
<1>2. CertsTyped'
  <2>1. \A c \in Certs : cert'[c] \in {NoCert} \cup CertType BY <1>1 DEF CertsTyped
  <2>2. cert' = [c \in Certs |-> cert'[c]] OBVIOUS
  <2> HIDE DEF CertsTyped
  <2> QED BY <2>1, <2>2 DEF CertsTyped
<1>3. \A c \in Certs : c \in Docs => c \notin D OBVIOUS
<1>4. ASSUME NEW c \in Certs
      PROVE  /\ cert[c] # NoCert => cert'[c] # NoCert /\ cert'[c].expires = cert[c].expires
             /\ cert'[c].status = "EXPIRED" => cert[c].status = "EXPIRED"
             /\ c \in Docs /\ cert[c].live => cert'[c].live
  BY <1>1, <1>3, RowIs
<1> QED BY <1>2, <1>4 DEF RowsMove

(* An overdue row is marked.                                               *)
LEMMA RowsMark ==
  ASSUME CertsTyped, today \in Nat, today' = today, NEW c \in Certs, cert[c] # NoCert,
         cert[c].expires < today, cert' = [cert EXCEPT ![c].status = "EXPIRED"]
  PROVE  RowsMove
<1>1. cert[c] \in CertType BY DEF CertsTyped
<1>2. /\ cert'[c] = [cert[c] EXCEPT !.status = "EXPIRED"]
      /\ \A k \in Certs \ {c} : cert'[k] = cert[k]
  BY DEF CertsTyped
<1>3. /\ cert'[c] \in CertType /\ cert'[c].expires = cert[c].expires
      /\ cert'[c].live = cert[c].live
  BY <1>1, <1>2 DEF CertType
<1>4. CertsTyped'
  <2>1. cert' = [cert EXCEPT ![c] = cert'[c]] BY <1>2 DEF CertsTyped
  <2> QED BY <1>3, <2>1 DEF CertsTyped
<1>5. cert'[c] # NoCert BY <1>3, RowIs
<1> QED BY <1>2, <1>3, <1>4, <1>5 DEF RowsMove

(* Every step moves the rows so.                                           *)
LEMMA RowsMoves ==
  ASSUME RemindersInv, CitesTypeOK, [Next]_vars
  PROVE  RowsMove
<1>1. CertsTyped /\ today \in Nat
  BY ExpiryAssumption DEF RemindersInv, ExpiryTypeOK, CertsTyped, CertType
<1>2. CASE cert' = cert /\ today' \in {today, today + 1} BY <1>1, <1>2, RowsRest
<1>3. ASSUME NEW c \in PartyCerts, AddCertificate(c) PROVE RowsMove
  <2>1. c \in Certs /\ cert[c] = NoCert /\ today' = today BY <1>3 DEF AddCertificate, Certs
  <2>2. PICK date \in Dates : Issued(c, "PENDING", date) BY <1>3 DEF AddCertificate
  <2> QED BY <1>1, <2>1, <2>2, RowsIssue
<1>4. ASSUME NEW c \in PartyCerts, RemoveCertificate(c) PROVE RowsMove
  <2>1. {c} \in SUBSET Certs /\ {c} \cap Docs = {} BY ExpiryAssumption DEF Certs
  <2>2. cert' = [k \in Certs |-> IF k \in {c} THEN [cert[k] EXCEPT !.live = FALSE] ELSE cert[k]]
    BY <1>1, <1>4 DEF RemoveCertificate, CertsTyped
  <2>3. today' = today BY <1>4 DEF RemoveCertificate
  <2> QED BY <1>1, <2>1, <2>2, <2>3, RowsDelete
<1>5. ASSUME NEW s \in Scans, ScanMark(s) PROVE RowsMove
  <2>1. PICK c \in scan[s].left : cert' = [cert EXCEPT ![c].status = "EXPIRED"] BY <1>5 DEF ScanMark
  <2>2. scan[s] \in {Free} \cup ScanType /\ scan[s].at = "mark"
    BY <1>5 DEF RemindersInv, ExpiryTypeOK, ScanMark
  <2>3. scan[s] # Free BY <2>2 DEF Free
  <2>4. c \in Certs BY <2>2, <2>3 DEF ScanType
  <2>5. cert[c] # NoCert /\ cert[c].expires < today BY <2>3 DEF RemindersInv, MarksOverdue
  <2>6. today' = today BY <1>5 DEF ScanMark
  <2> QED BY <1>1, <2>1, <2>4, <2>5, <2>6, RowsMark
<1>6. ASSUME NEW d \in Docs, NEW o \in Orders, NEW t \in Types, RegisterDocument(d, o, t)
      PROVE RowsMove
  <2>1. d \in Certs /\ cert[d] = NoCert /\ today' = today BY <1>6 DEF RegisterDocument, Certs
  <2>2. PICK date \in Dates : Issued(d, "VALID", date) BY <1>6 DEF RegisterDocument
  <2> QED BY <1>1, <2>1, <2>2, RowsIssue
<1>7. ASSUME NEW p \in Permits, cert[p] = NoCert, today' = today,
             \E date \in Dates : Issued(p, "VALID", date)
      PROVE  RowsMove
  <2>1. p \in Certs BY DEF Certs
  <2>2. PICK date \in Dates : Issued(p, "VALID", date) BY <1>7
  <2> QED BY <1>1, <1>7, <2>1, <2>2, RowsIssue
<1>8. ASSUME NEW g \in Migrators, MergeGroup(g) PROVE RowsMove
  <2>1. PICK list \in migrator[g].left :
          cert' = [c \in Certs |-> IF c \in list \ {Primary(list)}
                                   THEN [cert[c] EXCEPT !.live = FALSE]
                                   ELSE cert[c]]
    BY <1>8 DEF MergeGroup
  <2>2. list \in SUBSET Permits /\ today' = today BY <1>8 DEF CitesTypeOK, MergeGroup
  <2> DEFINE D == list \ {Primary(list)}
  <2>3. D \in SUBSET Certs /\ D \cap Docs = {} BY <2>2, ExpiryAssumption DEF Certs
  <2> HIDE DEF D
  <2>4. cert' = [c \in Certs |-> IF c \in D THEN [cert[c] EXCEPT !.live = FALSE] ELSE cert[c]]
    BY <2>1 DEF D
  <2> QED BY <1>1, <2>2, <2>3, <2>4, RowsDelete
<1>9. CASE ExpiryNext
  <2>1. CASE ScanNext
    <3>1. PICK s \in Scans :
            \/ ScanStart(s) \/ ScanMark(s) \/ ScanHolders(s) \/ ScanInternal(s)
            \/ ScanAsk(s) \/ ScanSend(s) \/ ScanDone(s) \/ ScanCrash(s)
      BY <2>1 DEF ScanNext
    <3>2. ScanMark(s) \/ (cert' = cert /\ today' = today)
      BY <3>1 DEF ScanStart, ScanHolders, ScanInternal, ScanAsk, ScanSend, ScanDone, ScanCrash
    <3> QED BY <1>2, <1>5, <3>2
  <2> QED BY <1>3, <1>4, <1>9, <2>1 DEF ExpiryNext
<1>10. CASE PaperNext
  <2>1. \/ \E d \in Docs, o \in Orders, t \in Types : RegisterDocument(d, o, t)
        \/ cert' = cert /\ today' = today
    BY <1>10 DEF PaperNext, SetMaskTemplate, UploadStart, UploadPut, UploadWrite, UploadFail,
                 CopyStart, CopyPut, CopyCreate, CopyFail, expiryVars
  <2> QED BY <1>2, <1>6, <2>1
<1>11. CASE CitesNext
  <2>1. ASSUME NEW p \in Permits, NEW s, NEW q, NEW used, Import(p, s, q, used) PROVE RowsMove
    BY <1>7, <2>1 DEF Import, Upcoming
  <2>2. ASSUME NEW p \in Permits, NEW quota, NEW s, CreateCitesPermit(p, quota, s) PROVE RowsMove
    BY <1>7, <2>2 DEF CreateCitesPermit, Upcoming
  <2>3. ASSUME \/ \E i \in Inspectors :
                    \/ \E p \in Permits, kg \in Kg, s \in Species \cup {"none"} :
                         DeductRead(i, p, kg, s)
                    \/ DeductWrite(i)
               \/ \E g \in Migrators : MigrateRead(g) \/ Backfill(g) \/ MigrateEnd(g)
        PROVE  cert' = cert /\ today' = today
    BY <2>3 DEF DeductRead, DeductWrite, MigrateRead, Backfill, MigrateEnd, expiryVars
  <2> QED BY <1>2, <1>8, <1>11, <2>1, <2>2, <2>3 DEF CitesNext
<1>12. CASE ShipmentNext
  <2>1. cert' = cert /\ today' = today
    BY <1>12 DEF ShipmentNext, RegisterWrite, RegisterRead, ShipCommit, ShipCheck, LogTemperatures,
                 TellMember, LogDone, expiryVars
  <2> QED BY <1>2, <2>1
<1>13. CASE DayPasses BY <1>2, <1>13 DEF DayPasses
<1>14. CASE UNCHANGED vars BY <1>2, <1>14 DEF vars, expiryVars
<1> QED BY <1>9, <1>10, <1>11, <1>12, <1>13, <1>14 DEF Next

----------------------------------------------------------------------------
(* In the initial states nothing is under way.                             *)
LEMMA FulfillmentInit == Init => FulfillmentInv
<1> SUFFICES ASSUME Init PROVE FulfillmentInv OBVIOUS
<1> USE DEF Init, ExpiryInit, PaperInit, ShipmentInit, CitesInit
<1>1. ExpiryTypeOK BY ExpiryAssumption DEF ExpiryTypeOK, Free, Mailboxes
<1>2. RemindersInv
  <2>1. ExpiredIsOverdue BY DEF ExpiredIsOverdue, NoCert
  <2>2. MarksOverdue /\ \A s \in Scans : ScanOK(s) BY DEF MarksOverdue, ScanOK
  <2>3. SendsAreNew BY DEF SendsAreNew
  <2> QED BY <1>1, <2>1, <2>2, <2>3 DEF RemindersInv
<1>3. PaperTypeOK BY ShipmentsAssumption DEF PaperTypeOK
<1>4. FilesInv
  <2>1. FilesAreStored BY DEF FilesAreStored
  <2>2. /\ \A u \in Uploads : upload[u].at # "write"
        /\ \A k \in Copiers : copier[k].at \notin {"put", "create"}
    BY DEF Free
  <2> QED BY <1>3, <2>1, <2>2 DEF FilesInv
<1>5. ShipmentTypeOK BY ShipmentsAssumption DEF ShipmentTypeOK
<1>6. ShipmentsInv
  <2>1. RegistrationsOK BY ShipmentsAssumption DEF RegistrationsOK
  <2>2. ChecksHold BY DEF ChecksHold, Free
  <2>3. OneShipment /\ ShippedWithPapers BY DEF OneShipment, ShippedWithPapers
  <2>4. \A o \in Orders, m \in Members : SumFunctionOnSet(Telling(o, m), Loggers) = 0
    <3> SUFFICES ASSUME NEW o \in Orders, NEW m \in Members
                 PROVE  SumFunctionOnSet(Telling(o, m), Loggers) = 0
      OBVIOUS
    <3>1. \A g \in Loggers : Telling(o, m)[g] = 0 BY DEF Telling, Owes
    <3> QED BY <3>1, SumZero, ShipmentsAssumption
  <2>5. AlarmsDue BY <2>4 DEF AlarmsDue
  <2> QED BY <1>5, <2>1, <2>2, <2>3, <2>5 DEF ShipmentsInv
<1>7. CitesTypeOK
  <2>1. NoPermit \in PermitType /\ NoLine \in LineType
    BY DEF NoPermit, NoLine, PermitType, LineType
  <2> QED BY <2>1 DEF CitesTypeOK
<1> QED BY <1>2, <1>4, <1>6, <1>7 DEF FulfillmentInv

----------------------------------------------------------------------------
(* Reminders                                                               *)

(* At most one of a finite set.                                            *)
LEMMA OnlyOne ==
  ASSUME NEW S, IsFiniteSet(S), NEW T \in SUBSET S, Cardinality(T) <= 1, NEW x \in T, NEW y \in T
  PROVE  x = y
<1> SUFFICES ASSUME x # y PROVE FALSE OBVIOUS
<1>1. IsFiniteSet(T) /\ {x, y} \in SUBSET T BY FS_Subset
<1>2. Cardinality({x, y}) <= Cardinality(T) BY <1>1, FS_Subset
<1>3. IsFiniteSet({x}) /\ Cardinality({x}) = 1 BY FS_Singleton
<1>4. Cardinality({x} \cup {y}) = Cardinality({x}) + 1 BY <1>3, FS_AddElement
<1>5. {x, y} = {x} \cup {y} OBVIOUS
<1>6. Cardinality(T) \in Nat BY <1>1, FS_CardinalityType
<1> QED BY <1>2, <1>3, <1>4, <1>5, <1>6

(* Dates stay and days pass: what was overdue still is.                    *)
LEMMA OverdueStays ==
  ASSUME ExpiryTypeOK, RowsMove, ExpiredIsOverdue, today' \in 0..MaxDay
  PROVE  /\ ExpiredIsOverdue'
         /\ \A c \in Certs : cert[c] # NoCert /\ cert[c].expires < today =>
              cert'[c] # NoCert /\ cert'[c].expires < today'
<1>1. \A c \in Certs : cert[c] # NoCert => cert[c].expires \in Nat
  BY ExpiryAssumption DEF ExpiryTypeOK
<1>2. today \in Nat /\ today' \in Nat /\ today <= today'
  BY ExpiryAssumption DEF ExpiryTypeOK, RowsMove
<1>3. ASSUME NEW c \in Certs, cert[c] # NoCert, cert[c].expires < today
      PROVE  cert'[c] # NoCert /\ cert'[c].expires < today'
  BY <1>1, <1>2, <1>3 DEF RowsMove
<1>4. \A c \in Certs : cert[c].status = "EXPIRED" => cert[c] # NoCert BY DEF NoCert
<1>5. ASSUME NEW c \in Certs, cert'[c].status = "EXPIRED" PROVE cert'[c].expires < today'
  BY <1>3, <1>4, <1>5 DEF RowsMove, ExpiredIsOverdue
<1> QED BY <1>3, <1>5 DEF ExpiredIsOverdue

(* A step of anything but the scan.                                        *)
LEMMA RemindersRest ==
  ASSUME RemindersInv, RowsMove, today' \in 0..MaxDay, UNCHANGED <<inbox, scan, team>>
  PROVE  RemindersInv'
<1>1. ExpiryTypeOK' BY DEF RemindersInv, ExpiryTypeOK, RowsMove, CertsTyped, CertType
<1>2. /\ ExpiredIsOverdue'
      /\ \A c \in Certs : cert[c] # NoCert /\ cert[c].expires < today =>
           cert'[c] # NoCert /\ cert'[c].expires < today'
  BY OverdueStays DEF RemindersInv
<1>3. \A s \in Scans : scan[s] # Free => scan[s].left \in SUBSET Certs
  BY DEF RemindersInv, ExpiryTypeOK, ScanType
<1>4. MarksOverdue' BY <1>2, <1>3 DEF RemindersInv, MarksOverdue
<1>5. \A s \in Scans : ScanOK(s)' BY DEF RemindersInv, ScanOK
<1>6. SendsAreNew' BY DEF RemindersInv, SendsAreNew
<1> QED BY <1>1, <1>2, <1>4, <1>5, <1>6 DEF RemindersInv

(* A step of one scan.                                                     *)
LEMMA ScanMoves ==
  ASSUME RemindersInv, RowsMove, today' = today, team' = team, NEW s \in Scans,
         NEW n \in {Free} \cup ScanType, scan' = [scan EXCEPT ![s] = n],
         inbox' \in [Mailboxes -> Nat], \A b \in Mailboxes : inbox[b] <= inbox'[b],
         n # Free => \A c \in n.left : cert[c] # NoCert /\ cert[c].expires < today,
         ScanOK(s)', SendsAreNew'
  PROVE  RemindersInv'
<1>0. ExpiryTypeOK /\ MarksOverdue /\ \A t \in Scans : ScanOK(t) BY DEF RemindersInv
<1>1. scan'[s] = n /\ \A t \in Scans \ {s} : scan'[t] = scan[t] BY <1>0 DEF ExpiryTypeOK
<1>2. scan' \in [Scans -> {Free} \cup ScanType]
  <2>1. scan \in [Scans -> {Free} \cup ScanType] BY <1>0 DEF ExpiryTypeOK
  <2> QED BY <2>1
<1>3. ExpiryTypeOK' BY <1>0, <1>2 DEF ExpiryTypeOK, RowsMove, CertsTyped, CertType
<1>4. /\ ExpiredIsOverdue'
      /\ \A c \in Certs : cert[c] # NoCert /\ cert[c].expires < today =>
           cert'[c] # NoCert /\ cert'[c].expires < today'
  BY <1>3, OverdueStays DEF RemindersInv, ExpiryTypeOK
<1>5. MarksOverdue'
  <2> SUFFICES ASSUME NEW t \in Scans, scan'[t] # Free, NEW c \in scan'[t].left
               PROVE  cert'[c] # NoCert /\ cert'[c].expires < today'
    BY DEF MarksOverdue
  <2>1. c \in Certs BY <1>3 DEF ExpiryTypeOK, ScanType
  <2>2. cert[c] # NoCert /\ cert[c].expires < today BY <1>0, <1>1 DEF MarksOverdue
  <2> QED BY <1>4, <2>1, <2>2
<1>6. ASSUME NEW t \in Scans \ {s} PROVE ScanOK(t)'
  <2> SUFFICES ASSUME scan[t] # Free PROVE ScanOK(t)' BY <1>1 DEF ScanOK
  <2>1. scan[t].items \in SUBSET Keys BY <1>0 DEF ExpiryTypeOK, ScanType
  <2>2. \A m \in Members, i \in scan[t].items : <<m, i>> \in Mailboxes BY <2>1 DEF Mailboxes
  <2>3. \A b \in Mailboxes : inbox[b] > 0 => inbox'[b] > 0 BY <1>0 DEF ExpiryTypeOK
  <2> QED BY <1>0, <1>1, <2>2, <2>3 DEF ScanOK
<1>7. \A t \in Scans : ScanOK(t)' BY <1>6
<1> QED BY <1>3, <1>4, <1>5, <1>7 DEF RemindersInv

(* ... that sends nothing.                                                 *)
LEMMA ScanQuiet ==
  ASSUME RemindersInv, RowsMove, today' = today, team' = team, inbox' = inbox, NEW s \in Scans,
         NEW n \in {Free} \cup ScanType, scan' = [scan EXCEPT ![s] = n],
         n # Free => \A c \in n.left : cert[c] # NoCert /\ cert[c].expires < today,
         n # Free => \A b \in n.send : inbox[b] = 0,
         ScanOK(s)'
  PROVE  RemindersInv'
<1>1. inbox \in [Mailboxes -> Nat] BY DEF RemindersInv, ExpiryTypeOK
<1>2. scan'[s] = n /\ \A t \in Scans \ {s} : scan'[t] = scan[t] BY DEF RemindersInv, ExpiryTypeOK
<1>3. SendsAreNew' BY <1>2 DEF RemindersInv, SendsAreNew
<1>4. \A b \in Mailboxes : inbox[b] <= inbox'[b] BY <1>1
<1>5. inbox' \in [Mailboxes -> Nat] BY <1>1
<1> QED BY <1>3, <1>4, <1>5, ScanMoves

(* A bucket is one of the set, or none: the certificate is overdue.        *)
LEMMA BucketsOf ==
  /\ Min(Buckets) \in Buckets
  /\ \A days \in Int : days <= Max(Buckets) =>
       BucketOf(days) \in Buckets \cup {Expired} /\ (BucketOf(days) = Expired => days < 0)
<1> USE ExpiryAssumption
<1>1. \A T \in SUBSET Buckets : T # {} => Min(T) \in T
  <2> SUFFICES ASSUME NEW T \in SUBSET Buckets, T # {} PROVE Min(T) \in T OBVIOUS
  <2>1. IsFiniteSet(T) BY FS_Subset
  <2>2. \A x \in T : x \in Int OBVIOUS
  <2>3. \E x \in T : \A y \in T : x <= y BY <2>1, <2>2, LeastOf
  <2> QED BY <2>3 DEF Min
<1>2. Max(Buckets) \in Buckets
  <2>1. \A x \in Buckets : x \in Int OBVIOUS
  <2>2. \E x \in Buckets : \A y \in Buckets : x >= y BY <2>1, GreatestOf
  <2> QED BY <2>2 DEF Max
<1>3. ASSUME NEW days \in Int, days <= Max(Buckets)
      PROVE  BucketOf(days) \in Buckets \cup {Expired} /\ (BucketOf(days) = Expired => days < 0)
  <2>1. CASE days < 0 BY <2>1 DEF BucketOf
  <2>2. CASE ~(days < 0)
    <3> DEFINE T == {b \in Buckets : days <= b}
    <3>1. T \in SUBSET Buckets /\ T # {} BY <1>2, <1>3
    <3>2. BucketOf(days) = Min(T) BY <2>2 DEF BucketOf
    <3>3. Min(T) \in T BY <1>1, <3>1
    <3>4. BucketOf(days) \in Buckets BY <3>2, <3>3
    <3> QED BY <3>4 DEF Expired
  <2> QED BY <2>1, <2>2
<1> QED BY <1>1, <1>3

(* The items of a listing are keys, and those of the bucket of what        *)
(* expired are overdue.                                                    *)
LEMMA ListingOf ==
  ASSUME ExpiryTypeOK
  PROVE  /\ Listed \in SUBSET Keys
         /\ \A i \in OfBucket(Listed, {Expired}) :
              i[1] \in Certs /\ cert[i[1]] # NoCert /\ cert[i[1]].expires < today
<1>1. ASSUME NEW c \in Certs, cert[c].live, DaysLeft(c) <= Max(Buckets)
      PROVE  /\ BucketOf(DaysLeft(c)) \in Buckets \cup {Expired} /\ cert[c] # NoCert
             /\ BucketOf(DaysLeft(c)) = Expired => cert[c].expires < today
  <2>1. cert[c] # NoCert BY <1>1 DEF NoCert
  <2>2. cert[c].expires \in Int /\ today \in Int
    <3>1. today \in Int BY ExpiryAssumption DEF ExpiryTypeOK
    <3>2. cert[c].expires \in Dates BY <2>1 DEF ExpiryTypeOK
    <3>3. \A d \in Dates : d \in Int BY ExpiryAssumption
    <3> QED BY <3>1, <3>2, <3>3
  <2>3. DaysLeft(c) \in Int /\ (DaysLeft(c) < 0 => cert[c].expires < today) BY <2>2 DEF DaysLeft
  <2> HIDE DEF DaysLeft
  <2> QED BY <1>1, <2>1, <2>3, BucketsOf
<1>2. \A i \in Listed : \E c \in Certs :
        /\ cert[c].live /\ DaysLeft(c) <= Max(Buckets)
        /\ i = <<c, BucketOf(DaysLeft(c))>>
  BY DEF Listed
<1>3. ASSUME NEW i \in Listed
      PROVE  /\ i \in Keys
             /\ i[2] = Expired =>
                  i[1] \in Certs /\ cert[i[1]] # NoCert /\ cert[i[1]].expires < today
  <2>1. PICK c \in Certs : /\ cert[c].live /\ DaysLeft(c) <= Max(Buckets)
                           /\ i = <<c, BucketOf(DaysLeft(c))>>
    BY <1>2
  <2>2. i[1] = c /\ i[2] = BucketOf(DaysLeft(c)) BY <2>1
  <2> QED BY <1>1, <2>1, <2>2 DEF Keys
<1> QED BY <1>3 DEF OfBucket

(* A listing tells nobody yet, and what it is to mark is overdue.          *)
LEMMA StartKeeps ==
  ASSUME RemindersInv, RowsMove, NEW s \in Scans, ScanStart(s)
  PROVE  RemindersInv'
<1> DEFINE n == [at |-> "mark", items |-> Listed,
                 left |-> {i[1] : i \in OfBucket(Listed, {Expired})}, tell |-> {}, send |-> {}]
<1>1. /\ Listed \in SUBSET Keys
      /\ \A i \in OfBucket(Listed, {Expired}) :
           i[1] \in Certs /\ cert[i[1]] # NoCert /\ cert[i[1]].expires < today
  BY ListingOf DEF RemindersInv
<1>2. /\ scan' = [scan EXCEPT ![s] = n] /\ s \in team
      /\ today' = today /\ inbox' = inbox /\ team' = team
  BY DEF ScanStart
<1>3. n \in ScanType BY <1>1 DEF ScanType
<1>4. \A c \in n.left : cert[c] # NoCert /\ cert[c].expires < today BY <1>1
<1>5. n.send = {} /\ n.tell = {} /\ n.at = "mark" OBVIOUS
<1> HIDE DEF n
<1>6. scan'[s] = n BY <1>2 DEF RemindersInv, ExpiryTypeOK
<1>7. ScanOK(s)' BY <1>2, <1>5, <1>6 DEF ScanOK
<1> QED BY <1>2, <1>3, <1>4, <1>5, <1>7, ScanQuiet

(* A row is marked: it was overdue when it was listed and still is.        *)
LEMMA MarkKeeps ==
  ASSUME RemindersInv, RowsMove, NEW s \in Scans, ScanMark(s)
  PROVE  RemindersInv'
<1>1. PICK c \in scan[s].left : scan' = [scan EXCEPT ![s].left = @ \ {c}] BY DEF ScanMark
<1>2. /\ scan[s].at = "mark" /\ today' = today /\ inbox' = inbox /\ team' = team BY DEF ScanMark
<1>3. scan[s] # Free BY <1>2 DEF Free
<1>4. scan[s] \in ScanType BY <1>3 DEF RemindersInv, ExpiryTypeOK
<1> DEFINE n == [scan[s] EXCEPT !.left = @ \ {c}]
<1>5. /\ n \in ScanType /\ n.left = scan[s].left \ {c}
      /\ n.at = "mark" /\ n.tell = scan[s].tell /\ n.send = scan[s].send
  BY <1>2, <1>4 DEF ScanType
<1>6. scan' = [scan EXCEPT ![s] = n] BY <1>1
<1> HIDE DEF n
<1>7. scan'[s] = n BY <1>6 DEF RemindersInv, ExpiryTypeOK
<1>8. s \in team /\ n.tell = {} /\ n.send = {} BY <1>2, <1>3, <1>5 DEF RemindersInv, ScanOK
<1>9. ScanOK(s)' BY <1>2, <1>5, <1>7, <1>8 DEF ScanOK
<1>10. \A k \in n.left : cert[k] # NoCert /\ cert[k].expires < today
  BY <1>3, <1>5 DEF RemindersInv, MarksOverdue
<1> QED BY <1>2, <1>5, <1>6, <1>8, <1>9, <1>10, ScanQuiet

(* The holders of every item are still to be asked about.                  *)
LEMMA HoldersKeeps ==
  ASSUME RemindersInv, RowsMove, NEW s \in Scans, ScanHolders(s)
  PROVE  RemindersInv'
<1>1. /\ scan' = [scan EXCEPT ![s].at = "tell", ![s].tell = Members \X scan[s].items]
      /\ scan[s].at = "mark" /\ scan[s].left = {}
      /\ today' = today /\ inbox' = inbox /\ team' = team
  BY DEF ScanHolders
<1>2. scan[s] # Free BY <1>1 DEF Free
<1>3. scan[s] \in ScanType BY <1>2 DEF RemindersInv, ExpiryTypeOK
<1> DEFINE n == [scan[s] EXCEPT !.at = "tell", !.tell = Members \X scan[s].items]
<1>4. /\ n.left = {} /\ n.send = scan[s].send /\ n.at = "tell"
      /\ n.items = scan[s].items /\ n.tell = Members \X scan[s].items
  BY <1>1, <1>3 DEF ScanType
<1>5. Members \X scan[s].items \in SUBSET Mailboxes BY <1>3 DEF ScanType, Mailboxes
<1>6. n \in ScanType BY <1>3, <1>5 DEF ScanType
<1>7. scan' = [scan EXCEPT ![s] = n] BY <1>1
<1> HIDE DEF n
<1>8. scan'[s] = n BY <1>7 DEF RemindersInv, ExpiryTypeOK
<1>9. s \in team /\ n.send = {} BY <1>1, <1>2, <1>4 DEF RemindersInv, ScanOK
<1>10. ScanOK(s)' BY <1>1, <1>4, <1>8, <1>9 DEF ScanOK
<1> QED BY <1>1, <1>4, <1>6, <1>7, <1>9, <1>10, ScanQuiet

(* The digest follows once nobody is left to be told.                      *)
LEMMA InternalKeeps ==
  ASSUME RemindersInv, RowsMove, NEW s \in Scans, ScanInternal(s)
  PROVE  RemindersInv'
<1>0. PICK T \in {{}, Staff \X {today}} : scan' = [scan EXCEPT ![s].at = "digest", ![s].tell = T]
  BY DEF ScanInternal
<1>1. /\ scan[s].at = "tell" /\ scan[s].tell = {} /\ scan[s].send = {}
      /\ today' = today /\ inbox' = inbox /\ team' = team
  BY DEF ScanInternal
<1>2. scan[s] # Free BY <1>1 DEF Free
<1>3. scan[s] \in ScanType BY <1>2 DEF RemindersInv, ExpiryTypeOK
<1> DEFINE n == [scan[s] EXCEPT !.at = "digest", !.tell = T]
<1>4. n.left = scan[s].left /\ n.send = {} /\ n.at = "digest" /\ n.items = scan[s].items
  BY <1>1, <1>3 DEF ScanType
<1>5. T \in SUBSET Mailboxes BY DEF RemindersInv, ExpiryTypeOK, Mailboxes
<1>6. n \in ScanType BY <1>3, <1>5 DEF ScanType
<1>7. scan' = [scan EXCEPT ![s] = n] BY <1>0
<1> HIDE DEF n
<1>8. scan'[s] = n BY <1>7 DEF RemindersInv, ExpiryTypeOK
<1>9. s \in team /\ \A m \in Members, i \in n.items : inbox[<<m, i>>] > 0
  BY <1>1, <1>2, <1>4 DEF RemindersInv, ScanOK
<1>10. ScanOK(s)' BY <1>1, <1>4, <1>8, <1>9 DEF ScanOK
<1>11. \A c \in n.left : cert[c] # NoCert /\ cert[c].expires < today
  BY <1>2, <1>4 DEF RemindersInv, MarksOverdue
<1> QED BY <1>1, <1>4, <1>6, <1>7, <1>10, <1>11, ScanQuiet

(* A holder is dropped from the list only if the reminder is there, or     *)
(* about to be sent.                                                       *)
LEMMA AskKeeps ==
  ASSUME RemindersInv, RowsMove, NEW s \in Scans, ScanAsk(s)
  PROVE  RemindersInv'
<1>0. PICK b \in scan[s].tell :
        scan' = [scan EXCEPT ![s].tell = @ \ {b},
                             ![s].send = IF AlreadyNotified(b) THEN {} ELSE {b}]
  BY DEF ScanAsk
<1>1. /\ scan[s] # Free /\ scan[s].send = {}
      /\ today' = today /\ inbox' = inbox /\ team' = team
  BY DEF ScanAsk
<1>2. scan[s] \in ScanType BY <1>1 DEF RemindersInv, ExpiryTypeOK
<1>3. b \in Mailboxes /\ inbox[b] \in Nat BY <1>2 DEF ScanType, RemindersInv, ExpiryTypeOK
<1>4. PICK T : T = IF AlreadyNotified(b) THEN {} ELSE {b} OBVIOUS
<1>5. T \in SUBSET {b} /\ (b \in T \/ inbox[b] > 0) /\ \A k \in T : inbox[k] = 0
  BY <1>3, <1>4 DEF AlreadyNotified
<1> DEFINE n == [scan[s] EXCEPT !.tell = @ \ {b}, !.send = T]
<1>6. /\ n.left = scan[s].left /\ n.send = T /\ n.at = scan[s].at /\ n.items = scan[s].items
      /\ n.tell = scan[s].tell \ {b}
  BY <1>2 DEF ScanType
<1>7. n \in ScanType BY <1>2, <1>3, <1>5 DEF ScanType
<1>8. scan' = [scan EXCEPT ![s] = n] BY <1>0, <1>4
<1> HIDE DEF n
<1>9. scan'[s] = n BY <1>8 DEF RemindersInv, ExpiryTypeOK
<1>10. ScanOK(s) BY DEF RemindersInv
<1>11. n.at # "mark" BY <1>1, <1>6, <1>10 DEF ScanOK
<1>12. ScanOK(s)'
  <2>1. \A x, y \in n.send : x = y BY <1>5, <1>6
  <2>2. ASSUME n.at = "tell", NEW m \in Members, NEW i \in n.items
        PROVE  <<m, i>> \in n.tell \cup n.send \/ inbox[<<m, i>>] > 0
    BY <1>1, <1>5, <1>6, <1>10, <2>2 DEF ScanOK
  <2>3. n.at = "digest" => \A m \in Members, i \in n.items : inbox[<<m, i>>] > 0
    BY <1>1, <1>6, <1>10 DEF ScanOK
  <2>4. s \in team BY <1>1, <1>10 DEF ScanOK
  <2> QED BY <1>1, <1>9, <1>11, <2>1, <2>2, <2>3, <2>4 DEF ScanOK
<1>13. \A c \in n.left : cert[c] # NoCert /\ cert[c].expires < today
  BY <1>1, <1>6 DEF RemindersInv, MarksOverdue
<1>14. \A k \in n.send : inbox[k] = 0 BY <1>5, <1>6
<1> QED BY <1>1, <1>7, <1>8, <1>12, <1>13, <1>14, ScanQuiet

(* A reminder is sent: the only scan found it missing, and nobody else has *)
(* sent it since.                                                          *)
LEMMA SendKeeps ==
  ASSUME RemindersInv, RowsMove, NEW s \in Scans, ScanSend(s)
  PROVE  RemindersInv'
<1>0. PICK b \in scan[s].send :
        inbox' = [inbox EXCEPT ![b] = @ + 1] /\ scan' = [scan EXCEPT ![s].send = {}]
  BY DEF ScanSend
<1>1. scan[s] # Free /\ today' = today /\ team' = team BY DEF ScanSend
<1>2. scan[s] \in ScanType /\ inbox \in [Mailboxes -> Nat] BY <1>1 DEF RemindersInv, ExpiryTypeOK
<1>3. b \in Mailboxes BY <1>2 DEF ScanType
<1>4. /\ inbox' \in [Mailboxes -> Nat] /\ inbox'[b] = inbox[b] + 1 /\ inbox'[b] > 0
      /\ \A k \in Mailboxes \ {b} : inbox'[k] = inbox[k]
      /\ \A k \in Mailboxes : inbox[k] <= inbox'[k] /\ inbox[k] \in Nat
  BY <1>0, <1>2, <1>3
<1> DEFINE n == [scan[s] EXCEPT !.send = {}]
<1>5. /\ n.left = scan[s].left /\ n.send = {} /\ n.at = scan[s].at /\ n.items = scan[s].items
      /\ n.tell = scan[s].tell /\ n \in ScanType
  BY <1>2 DEF ScanType
<1>6. scan' = [scan EXCEPT ![s] = n] BY <1>0
<1> HIDE DEF n
<1>7. scan'[s] = n /\ \A t \in Scans \ {s} : scan'[t] = scan[t]
  BY <1>6 DEF RemindersInv, ExpiryTypeOK
<1>8. ScanOK(s) BY DEF RemindersInv
<1>9. \A k \in scan[s].send : k = b BY <1>1, <1>8 DEF ScanOK
<1>10. \A m \in Members, i \in n.items : <<m, i>> \in Mailboxes
  BY <1>2, <1>5 DEF ScanType, Mailboxes
<1>11. ScanOK(s)'
  <2>1. n.at # "mark" BY <1>1, <1>5, <1>8, <1>0 DEF ScanOK
  <2>2. ASSUME n.at = "tell", NEW m \in Members, NEW i \in n.items
        PROVE  <<m, i>> \in n.tell \/ inbox'[<<m, i>>] > 0
    <3>1. <<m, i>> \in scan[s].tell \cup scan[s].send \/ inbox[<<m, i>>] > 0
      BY <1>1, <1>5, <1>8, <2>2 DEF ScanOK
    <3>2. inbox[<<m, i>>] > 0 => inbox'[<<m, i>>] > 0 BY <1>4, <1>10
    <3> QED BY <1>4, <1>5, <1>9, <3>1, <3>2
  <2>3. ASSUME n.at = "digest", NEW m \in Members, NEW i \in n.items
        PROVE  inbox'[<<m, i>>] > 0
    BY <1>1, <1>4, <1>5, <1>8, <1>10, <2>3 DEF ScanOK
  <2>4. s \in team' BY <1>1, <1>8 DEF ScanOK
  <2> QED BY <1>5, <1>7, <2>1, <2>2, <2>3, <2>4 DEF ScanOK
<1>12. \A c \in n.left : cert[c] # NoCert /\ cert[c].expires < today
  BY <1>1, <1>5 DEF RemindersInv, MarksOverdue
<1>13. SendsAreNew'
  <2> SUFFICES ASSUME Cardinality(team \cap Scans) <= 1
               PROVE  /\ \A k \in Mailboxes : inbox'[k] <= 1
                      /\ \A t \in Scans : scan'[t] # Free => \A k \in scan'[t].send : inbox'[k] = 0
    BY <1>1 DEF SendsAreNew
  <2>1. inbox[b] = 0 BY <1>1 DEF RemindersInv, SendsAreNew
  <2>2. \A k \in Mailboxes : inbox'[k] <= 1 BY <1>4, <2>1 DEF RemindersInv, SendsAreNew
  <2>3. ASSUME NEW t \in Scans, scan'[t] # Free, t # s PROVE FALSE
    <3>1. t \in team /\ s \in team BY <1>1, <1>7, <2>3 DEF RemindersInv, ScanOK
    <3>2. team \cap Scans \in SUBSET Scans OBVIOUS
    <3>3. t \in team \cap Scans /\ s \in team \cap Scans BY <3>1
    <3> QED BY <2>3, <3>2, <3>3, OnlyOne, ExpiryAssumption
  <2> QED BY <1>5, <1>7, <2>2, <2>3
<1> QED BY <1>1, <1>4, <1>5, <1>6, <1>11, <1>12, <1>13, ScanMoves

(* A scan ends, or is lost.                                                *)
LEMMA EndKeeps ==
  ASSUME RemindersInv, RowsMove, NEW s \in Scans, ScanDone(s) \/ ScanCrash(s)
  PROVE  RemindersInv'
<1>1. /\ scan' = [scan EXCEPT ![s] = Free] /\ today' = today /\ inbox' = inbox /\ team' = team
  BY DEF ScanDone, ScanCrash
<1>2. scan'[s] = Free BY <1>1 DEF RemindersInv, ExpiryTypeOK
<1>3. ScanOK(s)' BY <1>2 DEF ScanOK
<1> QED BY <1>1, <1>3, ScanQuiet

(* Every step keeps the reminders.                                         *)
LEMMA RemindersStep ==
  ASSUME RemindersInv, CitesTypeOK, [Next]_vars
  PROVE  RemindersInv'
<1>1. RowsMove BY RowsMoves
<1>2. today \in 0..MaxDay /\ MaxDay \in Nat BY ExpiryAssumption DEF RemindersInv, ExpiryTypeOK
<1>3. CASE UNCHANGED <<inbox, scan, team>> /\ today' \in 0..MaxDay BY <1>1, <1>3, RemindersRest
<1>4. CASE ScanNext
  BY <1>1, <1>4, StartKeeps, MarkKeeps, HoldersKeeps, InternalKeeps, AskKeeps, SendKeeps, EndKeeps
  DEF ScanNext
<1>5. CASE ExpiryNext
  BY <1>2, <1>3, <1>4, <1>5 DEF ExpiryNext, AddCertificate, RemoveCertificate
<1>6. CASE DayPasses BY <1>2, <1>3, <1>6 DEF DayPasses
<1>7. CASE PaperNext
  BY <1>2, <1>3, <1>7 DEF PaperNext, RegisterDocument, SetMaskTemplate, UploadStart, UploadPut,
     UploadWrite, UploadFail, CopyStart, CopyPut, CopyCreate, CopyFail, expiryVars
<1>8. CASE ShipmentNext
  BY <1>2, <1>3, <1>8 DEF ShipmentNext, RegisterWrite, RegisterRead, ShipCommit, ShipCheck,
     LogTemperatures, TellMember, LogDone, expiryVars
<1>9. CASE CitesNext
  BY <1>2, <1>3, <1>9
    DEF CitesNext, Import, CreateCitesPermit, DeductRead, DeductWrite, MigrateRead,
     MergeGroup, Backfill, MigrateEnd, expiryVars
<1>10. CASE UNCHANGED vars BY <1>2, <1>3, <1>10 DEF vars, expiryVars
<1> QED BY <1>5, <1>6, <1>7, <1>8, <1>9, <1>10 DEF Next

----------------------------------------------------------------------------
(* Files                                                                   *)

(* A step that leaves the papers alone.                                    *)
LEMMA FilesRest == FilesInv /\ UNCHANGED paperVars => FilesInv'
  BY DEF FilesInv, PaperTypeOK, FilesAreStored, paperVars

(* A step of one upload: nothing leaves the storage, and the row that is   *)
(* written names an object that is there.                                  *)
LEMMA UploadMoves ==
  ASSUME FilesInv, NEW u \in Uploads, NEW n \in {Free} \cup UploadType,
         upload' = [upload EXCEPT ![u] = n], stored \subseteq stored',
         stored' \subseteq Originals \cup Renderings,
         n.at = "write" => <<n.doc, n.ext>> \in stored',
         UNCHANGED <<about, fileKey, masked, copies, drawn, copier>>
  PROVE  FilesInv'
<1>1. upload' \in [Uploads -> {Free} \cup UploadType]
  <2>1. upload \in [Uploads -> {Free} \cup UploadType] BY DEF FilesInv, PaperTypeOK
  <2> QED BY <2>1
<1>2. PaperTypeOK' BY <1>1 DEF FilesInv, PaperTypeOK
<1>3. FilesAreStored' BY DEF FilesInv, FilesAreStored
<1>4. upload'[u] = n /\ \A v \in Uploads \ {u} : upload'[v] = upload[v] BY DEF FilesInv, PaperTypeOK
<1>5. \A v \in Uploads : upload'[v].at = "write" => <<upload'[v].doc, upload'[v].ext>> \in stored'
  BY <1>4 DEF FilesInv
<1>6. \A k \in Copiers :
        /\ copier'[k].at = "create" => copier'[k].file = Pending \/ copier'[k].file \in stored'
        /\ copier'[k].at = "put" => copier'[k].file # Pending
  BY DEF FilesInv
<1> QED BY <1>2, <1>3, <1>5, <1>6 DEF FilesInv

(* A step of one copy.                                                     *)
LEMMA CopyMoves ==
  ASSUME FilesInv, NEW k \in Copiers, NEW n \in {Free} \cup CopyType,
         copier' = [copier EXCEPT ![k] = n], stored \subseteq stored',
         stored' \subseteq Originals \cup Renderings, drawn' \in 0..MaxCopies,
         n.at = "create" => n.file = Pending \/ n.file \in stored',
         n.at = "put" => n.file # Pending,
         copies' \subseteq [doc : Docs, file : Renderings \cup {Pending}],
         \A c \in copies' : c \in copies \/ c.file = Pending \/ c.file \in stored',
         UNCHANGED <<about, fileKey, masked, upload>>
  PROVE  FilesInv'
<1>1. copier' \in [Copiers -> {Free} \cup CopyType]
  <2>1. copier \in [Copiers -> {Free} \cup CopyType] BY DEF FilesInv, PaperTypeOK
  <2> QED BY <2>1
<1>2. PaperTypeOK' BY <1>1 DEF FilesInv, PaperTypeOK
<1>3. FilesAreStored' BY DEF FilesInv, FilesAreStored
<1>4. copier'[k] = n /\ \A j \in Copiers \ {k} : copier'[j] = copier[j] BY DEF FilesInv, PaperTypeOK
<1>5. \A j \in Copiers :
        /\ copier'[j].at = "create" => copier'[j].file = Pending \/ copier'[j].file \in stored'
        /\ copier'[j].at = "put" => copier'[j].file # Pending
  BY <1>4 DEF FilesInv
<1>6. \A v \in Uploads : upload'[v].at = "write" => <<upload'[v].doc, upload'[v].ext>> \in stored'
  BY DEF FilesInv
<1> QED BY <1>2, <1>3, <1>5, <1>6 DEF FilesInv

(* An upload starts, puts its object or fails.                             *)
LEMMA UploadKeeps ==
  ASSUME FilesInv, NEW u \in Uploads,
         \/ \E d \in Docs, e \in Extensions : UploadStart(u, d, e)
         \/ UploadPut(u) \/ UploadFail(u)
  PROVE  FilesInv'
<1>1. Free \in {Free} \cup UploadType /\ Free.at # "write" BY DEF Free
<1>2. stored \subseteq Originals \cup Renderings BY DEF FilesInv, PaperTypeOK
<1>3. ASSUME NEW d \in Docs, NEW e \in Extensions, UploadStart(u, d, e) PROVE FilesInv'
  <2> DEFINE n == [at |-> "put", doc |-> d, ext |-> e]
  <2>1. n \in UploadType /\ n.at = "put" BY DEF UploadType
  <2>2. upload' = [upload EXCEPT ![u] = n] BY <1>3 DEF UploadStart
  <2> HIDE DEF n
  <2>3. UNCHANGED <<stored, about, fileKey, masked, copies, drawn, copier>> BY <1>3 DEF UploadStart
  <2> QED BY <1>2, <2>1, <2>2, <2>3, UploadMoves
<1>4. ASSUME UploadPut(u) PROVE FilesInv'
  <2>1. upload[u] \in UploadType BY <1>4 DEF UploadPut, FilesInv, PaperTypeOK, Free
  <2> DEFINE n == [upload[u] EXCEPT !.at = "write"]
  <2>2. n \in UploadType /\ n.doc = upload[u].doc /\ n.ext = upload[u].ext BY <2>1 DEF UploadType
  <2>3. upload' = [upload EXCEPT ![u] = n] BY <1>4 DEF UploadPut
  <2> HIDE DEF n
  <2>4. stored' = stored \cup {<<n.doc, n.ext>>} BY <1>4, <2>2 DEF UploadPut
  <2>5. <<n.doc, n.ext>> \in Originals BY <2>2 DEF UploadType, Originals
  <2>6. UNCHANGED <<about, fileKey, masked, copies, drawn, copier>> BY <1>4 DEF UploadPut
  <2> QED BY <1>2, <2>2, <2>3, <2>4, <2>5, <2>6, UploadMoves
<1>5. ASSUME UploadFail(u) PROVE FilesInv'
  <2>1. upload' = [upload EXCEPT ![u] = Free] BY <1>5 DEF UploadFail
  <2>2. UNCHANGED <<stored, about, fileKey, masked, copies, drawn, copier>> BY <1>5 DEF UploadFail
  <2> QED BY <1>1, <1>2, <2>1, <2>2, UploadMoves
<1> QED BY <1>3, <1>4, <1>5

(* The row of an upload is written.                                        *)
LEMMA WriteKeeps ==
  ASSUME FilesInv, NEW u \in Uploads, UploadWrite(u)
  PROVE  FilesInv'
<1>1. upload[u] \in UploadType /\ upload[u].at = "write"
  BY DEF UploadWrite, FilesInv, PaperTypeOK, Free
<1>2. PICK d, e : d = upload[u].doc /\ e = upload[u].ext OBVIOUS
<1>3. d \in Docs /\ e \in Extensions BY <1>1, <1>2 DEF UploadType
<1>4. <<d, e>> \in stored BY <1>1, <1>2 DEF FilesInv
<1>5. /\ fileKey' = [fileKey EXCEPT ![d] = e] /\ upload' = [upload EXCEPT ![u] = Free]
      /\ UNCHANGED <<about, masked, stored, copies, drawn, copier>>
  BY <1>2 DEF UploadWrite
<1>6. fileKey \in [Docs -> Extensions \cup {"pending-upload"}] BY DEF FilesInv, PaperTypeOK
<1>7. PaperTypeOK' BY <1>3, <1>5, <1>6 DEF FilesInv, PaperTypeOK
<1>8. FilesAreStored' BY <1>3, <1>4, <1>5, <1>6 DEF FilesInv, FilesAreStored
<1>9. \A v \in Uploads : upload'[v] = upload[v] \/ upload'[v] = Free
  BY <1>5 DEF FilesInv, PaperTypeOK
<1>10. \A v \in Uploads : upload'[v].at = "write" => <<upload'[v].doc, upload'[v].ext>> \in stored'
  BY <1>5, <1>9 DEF FilesInv, Free
<1> QED BY <1>5, <1>7, <1>8, <1>10 DEF FilesInv

(* A copy starts, puts what was rendered, is recorded or fails.            *)
LEMMA CopyKeeps ==
  ASSUME FilesInv, NEW k \in Copiers,
         (\E d \in Docs : CopyStart(k, d)) \/ CopyPut(k) \/ CopyCreate(k) \/ CopyFail(k)
  PROVE  FilesInv'
<1>1. Free.at \notin {"put", "create"} BY DEF Free
<1>2. /\ stored \subseteq Originals \cup Renderings /\ drawn \in 0..MaxCopies /\ MaxCopies \in Nat
      /\ copies \subseteq [doc : Docs, file : Renderings \cup {Pending}]
  BY ShipmentsAssumption DEF FilesInv, PaperTypeOK
<1>3. ASSUME NEW d \in Docs, CopyStart(k, d) PROVE FilesInv'
  <2>1. drawn' = drawn + 1 /\ drawn' \in 1..MaxCopies BY <1>2, <1>3 DEF CopyStart
  <2> DEFINE put == [at |-> "put", doc |-> d, file |-> <<"masked", drawn + 1>>]
             create == [at |-> "create", doc |-> d, file |-> Pending]
  <2>2. put \in CopyType /\ put.at = "put" /\ put.file # Pending
    BY <2>1 DEF CopyType, Renderings, Pending
  <2>3. create \in CopyType /\ create.at = "create" /\ create.file = Pending BY DEF CopyType
  <2>4. copier' = [copier EXCEPT ![k] = put] \/ copier' = [copier EXCEPT ![k] = create]
    BY <1>3 DEF CopyStart
  <2>5. UNCHANGED <<stored, copies, about, fileKey, masked, upload>> BY <1>3 DEF CopyStart
  <2>6. drawn' \in 0..MaxCopies BY <2>1
  <2> HIDE DEF put, create
  <2> QED BY <1>2, <2>2, <2>3, <2>4, <2>5, <2>6, CopyMoves
<1>4. ASSUME CopyPut(k) PROVE FilesInv'
  <2>1. copier[k] \in CopyType /\ copier[k].at = "put"
    BY <1>4 DEF CopyPut, FilesInv, PaperTypeOK, Free
  <2> DEFINE n == [copier[k] EXCEPT !.at = "create"]
  <2>2. /\ n \in CopyType /\ n.at = "create" /\ n.file = copier[k].file
        /\ copier[k].file \in Renderings
    BY <2>1 DEF CopyType, FilesInv
  <2>3. copier' = [copier EXCEPT ![k] = n] /\ stored' = stored \cup {n.file}
    BY <1>4, <2>2 DEF CopyPut
  <2>4. UNCHANGED <<copies, drawn, about, fileKey, masked, upload>> BY <1>4 DEF CopyPut
  <2> HIDE DEF n
  <2> QED BY <1>2, <2>2, <2>3, <2>4, CopyMoves
<1>5. ASSUME CopyCreate(k) PROVE FilesInv'
  <2>1. copier[k] \in CopyType /\ copier[k].at = "create"
    BY <1>5 DEF CopyCreate, FilesInv, PaperTypeOK, Free
  <2> DEFINE c == [doc |-> copier[k].doc, file |-> copier[k].file]
  <2>2. c \in [doc : Docs, file : Renderings \cup {Pending}] /\ c.file = copier[k].file
    BY <2>1 DEF CopyType
  <2>3. copies' = copies \cup {c} /\ copier' = [copier EXCEPT ![k] = Free] BY <1>5 DEF CopyCreate
  <2>4. UNCHANGED <<stored, drawn, about, fileKey, masked, upload>> BY <1>5 DEF CopyCreate
  <2>5. c.file = Pending \/ c.file \in stored BY <2>1, <2>2 DEF FilesInv
  <2> HIDE DEF c
  <2> QED BY <1>1, <1>2, <2>2, <2>3, <2>4, <2>5, CopyMoves
<1>6. ASSUME CopyFail(k) PROVE FilesInv'
  <2>1. copier' = [copier EXCEPT ![k] = Free] BY <1>6 DEF CopyFail
  <2>2. UNCHANGED <<stored, copies, drawn, about, fileKey, masked, upload>> BY <1>6 DEF CopyFail
  <2> QED BY <1>1, <1>2, <2>1, <2>2, CopyMoves
<1> QED BY <1>3, <1>4, <1>5, <1>6

(* A document is registered, or is to be masked.                           *)
LEMMA PapersKeep ==
  ASSUME FilesInv,
         \/ \E d \in Docs, o \in Orders, t \in Types : RegisterDocument(d, o, t)
         \/ \E d \in Docs : SetMaskTemplate(d)
  PROVE  FilesInv'
<1>1. UNCHANGED <<fileKey, stored, copies, drawn, upload, copier>>
  BY DEF RegisterDocument, SetMaskTemplate
<1>2. about' \in [Docs -> (Orders \X Types) \cup {<<>>}]
  BY DEF RegisterDocument, SetMaskTemplate, FilesInv, PaperTypeOK
<1>3. masked' \subseteq Docs BY DEF RegisterDocument, SetMaskTemplate, FilesInv, PaperTypeOK
<1>4. PaperTypeOK' BY <1>1, <1>2, <1>3 DEF FilesInv, PaperTypeOK
<1> QED BY <1>1, <1>4 DEF FilesInv, FilesAreStored

(* Every step keeps the files.                                             *)
LEMMA FilesStep ==
  ASSUME FilesInv, [Next]_vars
  PROVE  FilesInv'
<1>1. CASE UNCHANGED paperVars BY <1>1, FilesRest
<1>2. CASE PaperNext BY <1>2, UploadKeeps, WriteKeeps, CopyKeeps, PapersKeep DEF PaperNext
<1>3. CASE ShipmentNext
  BY <1>1, <1>3 DEF ShipmentNext, RegisterWrite, RegisterRead, ShipCommit, ShipCheck,
     LogTemperatures, TellMember, LogDone
<1> QED BY <1>1, <1>2, <1>3 DEF Next, vars

----------------------------------------------------------------------------
(* Shipments                                                               *)
Row == [order : Orders, status : ShipmentStatus, legs : ShipmentStatus]

(* What is present stays: a document is never deleted, nor is its order    *)
(* changed.                                                                *)
LEMMA PapersStay ==
  ASSUME RemindersInv, FilesInv, CitesTypeOK, [Next]_vars
  PROVE  \A o \in Orders : Present(o) \subseteq Present(o)'
<1>1. RowsMove BY RowsMoves
<1>2. \A d \in Docs : cert[d].live => cert'[d].live BY <1>1 DEF RowsMove, Certs
<1>3. \A d \in Docs : cert[d].live => about'[d] = about[d]
  <2>1. CASE about' = about BY <2>1
  <2>2. ASSUME NEW e \in Docs, NEW o, NEW t, RegisterDocument(e, o, t)
        PROVE  \A d \in Docs : cert[d].live => about'[d] = about[d]
    <3>1. ~cert[e].live BY <2>2 DEF RegisterDocument, NoCert
    <3>2. about' = [about EXCEPT ![e] = <<o, t>>] BY <2>2 DEF RegisterDocument
    <3>3. \A d \in Docs \ {e} : about'[d] = about[d] BY <3>2 DEF FilesInv, PaperTypeOK
    <3> QED BY <3>1, <3>3
  <2>3. about' = about \/ \E d \in Docs, o \in Orders, t \in Types : RegisterDocument(d, o, t)
    BY DEF Next, vars, PaperNext, SetMaskTemplate, UploadStart, UploadPut, UploadWrite, UploadFail,
       CopyStart, CopyPut, CopyCreate, CopyFail, ShipmentNext, RegisterWrite, RegisterRead,
       ShipCommit, ShipCheck, LogTemperatures, TellMember, LogDone, paperVars
  <2> QED BY <2>1, <2>2, <2>3
<1> QED BY <1>2, <1>3 DEF Present

(* A step of the others.                                                   *)
LEMMA ShipmentsRest ==
  ASSUME ShipmentsInv, \A o \in Orders : Present(o) \subseteq Present(o)',
         UNCHANGED shipmentVars, team' = team
  PROVE  ShipmentsInv'
<1>1. /\ goods' = goods /\ shipments' = shipments /\ breaches' = breaches /\ alarms' = alarms
      /\ registrar' = registrar /\ shipper' = shipper /\ logger' = logger
  BY DEF shipmentVars
<1>2. ShipmentTypeOK' BY <1>1 DEF ShipmentsInv, ShipmentTypeOK
<1>3. \A o : Found(o)' = Found(o) BY <1>1 DEF Found
<1>4. RegistrationsOK' BY <1>1, <1>3 DEF ShipmentsInv, RegistrationsOK
<1>5. \A p \in Shippers : shipper[p].at = "commit" => shipper[p].order \in Orders
  BY DEF ShipmentsInv, ShipmentTypeOK, Free
<1>6. ChecksHold' BY <1>1, <1>3, <1>5 DEF ShipmentsInv, ChecksHold
<1>7. OneShipment' BY <1>1 DEF ShipmentsInv, OneShipment
<1>8. ShippedWithPapers' BY <1>1, <1>3 DEF ShipmentsInv, ShippedWithPapers
<1>9. AlarmsDue' BY <1>1 DEF ShipmentsInv, AlarmsDue, Telling
<1> QED BY <1>2, <1>4, <1>6, <1>7, <1>8, <1>9 DEF ShipmentsInv

(* A step of registrations and transitions: no row goes away or changes    *)
(* its order.                                                              *)
LEMMA ShipmentsMove ==
  ASSUME ShipmentsInv, UNCHANGED <<cert, about, team, breaches, alarms, logger>>,
         ShipmentTypeOK', RegistrationsOK', OneShipment',
         \A o \in Orders : Found(o) \subseteq Found(o)',
         \A p \in Shippers : shipper'[p].at = "commit" =>
           \/ shipper[p].at = "commit" /\ shipper'[p] = shipper[p]
           \/ ReadyToShip(shipper'[p].order),
         \A o \in Orders : goods'[o] = "shipped" =>
           \/ goods[o] = "shipped"
           \/ \E p \in Shippers : shipper[p].at = "commit" /\ shipper[p].order = o
  PROVE  ShipmentsInv'
<1>1. \A o : Present(o)' = Present(o) BY DEF Present
<1>2. \A p \in Shippers : shipper'[p].at = "commit" => shipper'[p].order \in Orders
  BY DEF ShipmentTypeOK, Free
<1>3. ChecksHold' BY <1>1, <1>2 DEF ShipmentsInv, ChecksHold, ReadyToShip
<1>4. ShippedWithPapers' BY <1>1 DEF ShipmentsInv, ChecksHold, ShippedWithPapers
<1>5. AlarmsDue' BY DEF ShipmentsInv, AlarmsDue, Telling
<1> QED BY <1>3, <1>4, <1>5 DEF ShipmentsInv

(* A registration looks for the row of its order.                          *)
LEMMA RegisterReadKeeps ==
  ASSUME ShipmentsInv, NEW r \in Registrars, NEW o \in Orders, RegisterRead(r, o)
  PROVE  ShipmentsInv'
<1>1. PICK i \in IF Found(o) = {} THEN {0} ELSE Found(o) :
        registrar' = [registrar EXCEPT ![r] = [at |-> "write", order |-> o, existing |-> i]]
  BY DEF RegisterRead
<1>2. /\ UNCHANGED <<cert, about, team, breaches, alarms, logger, goods, shipments, shipper>>
      /\ r \in team
  BY DEF RegisterRead, expiryVars, paperVars
<1>3. shipments \in Seq(Row) /\ Len(shipments) <= MaxShipments /\ MaxShipments \in Nat
  BY ShipmentsAssumption DEF ShipmentsInv, ShipmentTypeOK, RegistrationsOK, Row
<1>4. i \in 0..MaxShipments /\ (i # 0 => i \in DOMAIN shipments) /\ (i = 0 => Found(o) = {})
  BY <1>3 DEF Found
<1> DEFINE n == [at |-> "write", order |-> o, existing |-> i]
<1>5. /\ n \in [at : {"write"}, order : Orders, existing : 0..MaxShipments]
      /\ n.order = o /\ n.existing = i
  BY <1>4
<1>6. registrar' = [registrar EXCEPT ![r] = n] BY <1>1
<1> HIDE DEF n
<1>7. ShipmentTypeOK' BY <1>2, <1>5, <1>6 DEF ShipmentsInv, ShipmentTypeOK
<1>8. registrar'[r] = n /\ \A q \in Registrars \ {r} : registrar'[q] = registrar[q]
  BY <1>6 DEF ShipmentsInv, ShipmentTypeOK
<1>9. \A q : Found(q)' = Found(q) BY <1>2 DEF Found
<1>10. RegistrationsOK' BY <1>2, <1>4, <1>5, <1>8, <1>9 DEF ShipmentsInv, RegistrationsOK
<1>11. OneShipment' BY <1>2 DEF ShipmentsInv, OneShipment
<1> QED BY <1>2, <1>7, <1>9, <1>10, <1>11, ShipmentsMove

(* A registration writes: the only one that found no row appends the       *)
(* first.                                                                  *)
LEMMA RegisterWriteKeeps ==
  ASSUME ShipmentsInv, NEW r \in Registrars, RegisterWrite(r)
  PROVE  ShipmentsInv'
<1>1. PICK f : f = registrar[r] OBVIOUS
<1>2. UNCHANGED <<cert, about, team, breaches, alarms, logger, goods, shipper>>
  BY DEF RegisterWrite, expiryVars, paperVars
<1>3. /\ shipments \in Seq(Row) /\ Len(shipments) \in Nat /\ Len(shipments) <= MaxShipments
      /\ MaxShipments \in Nat
  BY ShipmentsAssumption DEF ShipmentsInv, ShipmentTypeOK, RegistrationsOK, Row
<1>4. f.at = "write" BY <1>1 DEF RegisterWrite
<1>5. f # Free /\ f.order \in Orders BY <1>1, <1>4 DEF Free, ShipmentsInv, ShipmentTypeOK
<1>6. registrar' = [registrar EXCEPT ![r] = Free] BY DEF RegisterWrite
<1>7. /\ registrar'[r] = Free /\ \A q \in Registrars \ {r} : registrar'[q] = registrar[q]
      /\ \A q \in Registrars : registrar[q] # Free => q \in team
  BY <1>6 DEF ShipmentsInv, ShipmentTypeOK, RegistrationsOK
<1>8. ASSUME NEW q \in Registrars, registrar'[q] # Free, Cardinality(team \cap Registrars) <= 1
      PROVE  FALSE
  <2>1. registrar[q] # Free /\ q # r BY <1>7, <1>8
  <2>2. q \in team \cap Registrars /\ r \in team \cap Registrars BY <1>1, <1>5, <1>7, <2>1
  <2>3. team \cap Registrars \in SUBSET Registrars OBVIOUS
  <2> QED BY <1>8, <2>1, <2>2, <2>3, OnlyOne, ShipmentsAssumption
<1>9. CASE f.existing = 0
  <2> DEFINE n == [order |-> f.order, status |-> "PREPARING", legs |-> "PREPARING"]
  <2>1. n \in Row /\ n.order = f.order BY <1>5 DEF Row, ShipmentStatus
  <2>2. shipments' = Append(shipments, n) BY <1>1, <1>9 DEF RegisterWrite
  <2>3. Len(shipments) < MaxShipments BY <1>1, <1>9 DEF RegisterWrite
  <2> HIDE DEF n
  <2>4. /\ shipments' \in Seq(Row) /\ Len(shipments') = Len(shipments) + 1
        /\ \A i \in DOMAIN shipments : i \in DOMAIN shipments' /\ shipments'[i] = shipments[i]
        /\ DOMAIN shipments' = DOMAIN shipments \cup {Len(shipments) + 1}
        /\ shipments'[Len(shipments) + 1] = n
    BY <1>3, <2>1, <2>2
  <2>5. ShipmentTypeOK' BY <1>2, <1>6, <2>4 DEF ShipmentsInv, ShipmentTypeOK, Row
  <2>6. \A o : Found(o) \subseteq Found(o)' BY <2>4 DEF Found
  <2>7. RegistrationsOK'
    <3>1. Len(shipments') <= MaxShipments BY <1>3, <2>3, <2>4
    <3>2. \A q \in Registrars : registrar'[q] # Free =>
            /\ q \in team'
            /\ registrar'[q].existing # 0 => registrar'[q].existing \in DOMAIN shipments'
      BY <1>2, <1>7, <2>4 DEF ShipmentsInv, RegistrationsOK
    <3> QED BY <1>2, <1>8, <3>1, <3>2 DEF RegistrationsOK
  <2>8. OneShipment'
    <3> SUFFICES ASSUME Cardinality(team \cap Registrars) <= 1,
                        NEW i \in DOMAIN shipments', NEW j \in DOMAIN shipments',
                        shipments'[i].order = shipments'[j].order
                 PROVE  i = j
      BY <1>2 DEF OneShipment
    <3>1. Found(f.order) = {} BY <1>1, <1>5, <1>9 DEF ShipmentsInv, RegistrationsOK
    <3>2. \A k \in DOMAIN shipments : shipments[k].order # f.order BY <3>1 DEF Found
    <3> QED BY <2>1, <2>4, <3>2 DEF ShipmentsInv, OneShipment
  <2> QED BY <1>2, <2>5, <2>6, <2>7, <2>8, ShipmentsMove
<1>10. CASE f.existing # 0
  <2>1. PICK e : e = f.existing OBVIOUS
  <2>2. e \in DOMAIN shipments BY <1>1, <1>5, <1>10, <2>1 DEF ShipmentsInv, RegistrationsOK
  <2>3. shipments' = [shipments EXCEPT ![e].legs = "PREPARING"]
    BY <1>1, <1>10, <2>1 DEF RegisterWrite
  <2> DEFINE n == [shipments[e] EXCEPT !.legs = "PREPARING"]
  <2>4. n \in Row /\ n.order = shipments[e].order
    <3>1. shipments[e] \in Row BY <1>3, <2>2
    <3> QED BY <3>1 DEF Row, ShipmentStatus
  <2>5. shipments' = [shipments EXCEPT ![e] = n] BY <2>3
  <2> HIDE DEF n
  <2>6. /\ shipments' \in Seq(Row) /\ Len(shipments') = Len(shipments)
        /\ DOMAIN shipments' = DOMAIN shipments
    BY <1>3, <2>2, <2>4, <2>5
  <2>7. \A i \in DOMAIN shipments : shipments'[i].order = shipments[i].order
    BY <1>3, <2>2, <2>4, <2>5
  <2>8. \A o : Found(o)' = Found(o) BY <2>6, <2>7 DEF Found
  <2>9. ShipmentTypeOK' BY <1>2, <1>6, <2>6 DEF ShipmentsInv, ShipmentTypeOK, Row
  <2>10. RegistrationsOK' BY <1>2, <1>7, <2>6, <2>8 DEF ShipmentsInv, RegistrationsOK
  <2>11. OneShipment' BY <1>2, <2>6, <2>7 DEF ShipmentsInv, OneShipment
  <2> QED BY <1>2, <2>8, <2>9, <2>10, <2>11, ShipmentsMove
<1> QED BY <1>9, <1>10

(* The shipment and the papers are checked before the transaction.         *)
LEMMA ShipCheckKeeps ==
  ASSUME ShipmentsInv, NEW p \in Shippers, NEW o \in Orders, ShipCheck(p, o)
  PROVE  ShipmentsInv'
<1>1. /\ UNCHANGED <<cert, about, team, breaches, alarms, logger, goods, shipments, registrar>>
      /\ ReadyToShip(o)
  BY DEF ShipCheck, expiryVars, paperVars
<1> DEFINE n == [at |-> "commit", order |-> o]
<1>2. n \in [at : {"commit"}, order : Orders] /\ n.order = o OBVIOUS
<1>3. shipper' = [shipper EXCEPT ![p] = n] BY DEF ShipCheck
<1> HIDE DEF n
<1>4. ShipmentTypeOK' BY <1>1, <1>2, <1>3 DEF ShipmentsInv, ShipmentTypeOK
<1>5. shipper'[p] = n /\ \A q \in Shippers \ {p} : shipper'[q] = shipper[q]
  BY <1>3 DEF ShipmentsInv, ShipmentTypeOK
<1>6. \A q : Found(q)' = Found(q) BY <1>1 DEF Found
<1>7. RegistrationsOK' /\ OneShipment' BY <1>1, <1>6 DEF ShipmentsInv, RegistrationsOK, OneShipment
<1> QED BY <1>1, <1>2, <1>4, <1>5, <1>6, <1>7, ShipmentsMove

(* The transaction ships what was checked and puts its rows in transit.    *)
LEMMA ShipCommitKeeps ==
  ASSUME ShipmentsInv, NEW p \in Shippers, ShipCommit(p)
  PROVE  ShipmentsInv'
<1>1. PICK o : o = shipper[p].order OBVIOUS
<1>2. /\ UNCHANGED <<cert, about, team, breaches, alarms, logger, registrar>>
      /\ shipper[p].at = "commit" /\ shipper' = [shipper EXCEPT ![p] = Free]
  BY DEF ShipCommit, expiryVars, paperVars
<1>3. /\ goods' = [goods EXCEPT ![o] = "shipped"]
      /\ shipments' \in {shipments, InTransit(o)}
  BY <1>1 DEF ShipCommit
<1>4. o \in Orders BY <1>1, <1>2 DEF ShipmentsInv, ShipmentTypeOK, Free
<1>5. shipments \in Seq(Row) /\ Len(shipments) \in Nat /\ DOMAIN shipments = 1..Len(shipments)
  BY DEF ShipmentsInv, ShipmentTypeOK, Row
<1>6. /\ InTransit(o) \in Seq(Row) /\ Len(InTransit(o)) = Len(shipments)
      /\ DOMAIN InTransit(o) = DOMAIN shipments
      /\ \A i \in DOMAIN shipments : InTransit(o)[i].order = shipments[i].order
  <2> DEFINE n(i) == IF i \in Found(o)
                       THEN [shipments[i] EXCEPT !.status = "IN_TRANSIT", !.legs = "IN_TRANSIT"]
                       ELSE shipments[i]
  <2>1. ASSUME NEW i \in DOMAIN shipments PROVE n(i) \in Row /\ n(i).order = shipments[i].order
    <3>1. shipments[i] \in Row BY <1>5
    <3> QED BY <3>1 DEF Row, ShipmentStatus
  <2>2. InTransit(o) = [i \in 1..Len(shipments) |-> n(i)] BY <1>5 DEF InTransit
  <2> HIDE DEF n
  <2>3. \A i \in 1..Len(shipments) : n(i) \in Row /\ InTransit(o)[i] = n(i) BY <1>5, <2>1, <2>2
  <2>4. InTransit(o) \in Seq(Row) /\ Len(InTransit(o)) = Len(shipments) BY <1>5, <2>2, <2>3
  <2> QED BY <1>5, <2>1, <2>3, <2>4
<1>7. /\ shipments' \in Seq(Row) /\ Len(shipments') = Len(shipments)
      /\ DOMAIN shipments' = DOMAIN shipments
      /\ \A i \in DOMAIN shipments : shipments'[i].order = shipments[i].order
  BY <1>3, <1>5, <1>6
<1>8. \A q : Found(q)' = Found(q) BY <1>7 DEF Found
<1>9. ShipmentTypeOK' BY <1>2, <1>3, <1>4, <1>7 DEF ShipmentsInv, ShipmentTypeOK, Row
<1>10. RegistrationsOK' BY <1>2, <1>7, <1>8 DEF ShipmentsInv, RegistrationsOK
<1>11. OneShipment' BY <1>2, <1>7 DEF ShipmentsInv, OneShipment
<1>12. \A q \in Shippers : shipper'[q].at = "commit" =>
         shipper[q].at = "commit" /\ shipper'[q] = shipper[q]
  BY <1>2 DEF ShipmentsInv, ShipmentTypeOK, Free
<1>13. \A q \in Orders : goods'[q] = "shipped" => goods[q] = "shipped" \/ q = o
  BY <1>3 DEF ShipmentsInv, ShipmentTypeOK
<1> QED BY <1>1, <1>2, <1>8, <1>9, <1>10, <1>11, <1>12, <1>13, ShipmentsMove

(* A step of a cold chain log: what a log still owes and what it has told  *)
(* add up to the breaches.                                                 *)
LEMMA AlarmsMove ==
  ASSUME ShipmentsInv, NEW g \in Loggers, NEW n, logger' = [logger EXCEPT ![g] = n],
         UNCHANGED <<cert, about, team, goods, shipments, registrar, shipper>>,
         ShipmentTypeOK',
         "crash" \notin team => \A o \in Orders, m \in Members :
           alarms'[<<o, m>>] + Owes(n, o, m) - Owes(logger[g], o, m) - alarms[<<o, m>>]
             = breaches'[o] - breaches[o]
  PROVE  ShipmentsInv'
<1>1. \A o : Found(o)' = Found(o) /\ Present(o)' = Present(o) BY DEF Found, Present
<1>2. RegistrationsOK' BY <1>1 DEF ShipmentsInv, RegistrationsOK
<1>3. ChecksHold' BY <1>1 DEF ShipmentsInv, ChecksHold
<1>4. OneShipment' BY DEF ShipmentsInv, OneShipment
<1>5. ShippedWithPapers' BY <1>1 DEF ShipmentsInv, ShippedWithPapers
<1>6. AlarmsDue'
  <2> SUFFICES ASSUME "crash" \notin team, NEW o \in Orders, NEW m \in Members
               PROVE  alarms'[<<o, m>>] + SumFunctionOnSet(Telling(o, m)', Loggers) = breaches'[o]
    BY DEF AlarmsDue
  <2>1. PICK f, f1 : f = Telling(o, m) /\ f1 = Telling(o, m)' OBVIOUS
  <2>2. logger'[g] = n /\ \A h \in Loggers \ {g} : logger'[h] = logger[h]
    BY DEF ShipmentsInv, ShipmentTypeOK
  <2>3. /\ \A h \in Loggers : f[h] = Owes(logger[h], o, m) /\ f1[h] = Owes(logger'[h], o, m)
        /\ \A h \in Loggers : f[h] \in Int /\ f1[h] \in Int
    BY <2>1 DEF Telling, Owes
  <2>4. \A h \in Loggers \ {g} : f1[h] = f[h] BY <2>2, <2>3
  <2>5. IsFiniteSet(Loggers) BY ShipmentsAssumption
  <2>6. SumFunctionOnSet(f1, Loggers) = SumFunctionOnSet(f, Loggers) + f1[g] - f[g]
    BY <2>3, <2>4, <2>5, SumChanges
  <2>7. SumFunctionOnSet(f, Loggers) \in Int BY <2>3, <2>5, SumType
  <2>8. alarms[<<o, m>>] + SumFunctionOnSet(f, Loggers) = breaches[o]
    BY <2>1 DEF ShipmentsInv, AlarmsDue
  <2>9. /\ alarms[<<o, m>>] \in Int /\ alarms'[<<o, m>>] \in Int
        /\ breaches[o] \in Int /\ breaches'[o] \in Int
    BY ShipmentsAssumption DEF ShipmentsInv, ShipmentTypeOK
  <2>10. f1[g] = Owes(n, o, m) /\ f[g] = Owes(logger[g], o, m) BY <2>2, <2>3
  <2>11. alarms'[<<o, m>>] + f1[g] - f[g] - alarms[<<o, m>>] = breaches'[o] - breaches[o]
    BY <2>10
  <2>12. PICK a, a1, b, b1, x, x1, t, t1 :
           /\ a = alarms[<<o, m>>] /\ a1 = alarms'[<<o, m>>] /\ b = breaches[o] /\ b1 = breaches'[o]
           /\ x = f[g] /\ x1 = f1[g]
           /\ t = SumFunctionOnSet(f, Loggers) /\ t1 = SumFunctionOnSet(f1, Loggers)
    OBVIOUS
  <2>13. /\ a \in Int /\ a1 \in Int /\ b \in Int /\ b1 \in Int /\ x \in Int /\ x1 \in Int
         /\ t \in Int /\ t1 \in Int
    BY <2>3, <2>5, <2>7, <2>9, <2>12, SumType
  <2>14. t1 = t + x1 - x /\ a + t = b /\ a1 + x1 - x - a = b1 - b
    BY <2>6, <2>8, <2>11, <2>12
  <2>15. a1 + t1 = b1 BY <2>13, <2>14
  <2> QED BY <2>1, <2>12, <2>15
<1> QED BY <1>2, <1>3, <1>4, <1>5, <1>6 DEF ShipmentsInv

LogType == [at : {"tell"}, order : Orders, left : SUBSET Members]

(* Which the actions do.                                                   *)
LEMMA LogTyped ==
  ASSUME ShipmentsInv, NEW g \in Loggers, NEW n \in {Free} \cup LogType,
         logger' = [logger EXCEPT ![g] = n], UNCHANGED <<goods, shipments, registrar, shipper>>,
         breaches' \in [Orders -> 0..MaxLogs], alarms' \in [Orders \X Members -> Nat]
  PROVE  ShipmentTypeOK'
<1>1. logger' \in [Loggers -> {Free} \cup LogType]
  <2>1. logger \in [Loggers -> {Free} \cup LogType] BY DEF ShipmentsInv, ShipmentTypeOK, LogType
  <2> QED BY <2>1
<1> QED BY <1>1 DEF ShipmentsInv, ShipmentTypeOK, LogType

(* A breach is logged, and owed to every member.                           *)
LEMMA LogKeeps ==
  ASSUME ShipmentsInv, NEW g \in Loggers, NEW o \in Orders, NEW temps, LogTemperatures(g, o, temps)
  PROVE  ShipmentsInv'
<1>1. /\ logger[g] = Free /\ breaches[o] < MaxLogs
      /\ breaches' = [breaches EXCEPT ![o] = @ + 1]
      /\ UNCHANGED <<cert, about, team, goods, shipments, alarms, registrar, shipper>>
  BY DEF LogTemperatures, expiryVars, paperVars
<1> DEFINE n == [at |-> "tell", order |-> o, left |-> Members]
<1>2. n \in LogType /\ n # Free /\ n.order = o /\ n.left = Members BY DEF LogType, Free
<1>3. logger' = [logger EXCEPT ![g] = n] BY DEF LogTemperatures
<1> HIDE DEF n
<1>4. /\ breaches \in [Orders -> 0..MaxLogs] /\ MaxLogs \in Nat
      /\ alarms \in [Orders \X Members -> Nat]
  BY ShipmentsAssumption DEF ShipmentsInv, ShipmentTypeOK
<1>5. breaches' \in [Orders -> 0..MaxLogs] BY <1>1, <1>4
<1>6. ShipmentTypeOK' BY <1>1, <1>2, <1>3, <1>4, <1>5, LogTyped
<1>7. ASSUME NEW q \in Orders, NEW m \in Members
      PROVE  alarms'[<<q, m>>] + Owes(n, q, m) - Owes(logger[g], q, m) - alarms[<<q, m>>]
               = breaches'[q] - breaches[q]
  <2>1. Owes(logger[g], q, m) = 0 /\ Owes(n, q, m) = IF q = o THEN 1 ELSE 0
    BY <1>1, <1>2 DEF Owes
  <2>2. breaches'[q] = IF q = o THEN breaches[q] + 1 ELSE breaches[q] BY <1>1, <1>4
  <2>3. alarms'[<<q, m>>] = alarms[<<q, m>>] /\ alarms[<<q, m>>] \in Int /\ breaches[q] \in Int
    BY <1>1, <1>4
  <2> QED BY <2>1, <2>2, <2>3
<1> QED BY <1>1, <1>3, <1>6, <1>7, AlarmsMove

(* A member is told: one alarm more and one owed less.                     *)
LEMMA TellKeeps ==
  ASSUME ShipmentsInv, NEW g \in Loggers, TellMember(g)
  PROVE  ShipmentsInv'
<1>1. PICK m \in logger[g].left :
        /\ alarms' = [alarms EXCEPT ![<<logger[g].order, m>>] = @ + 1]
        /\ logger' = [logger EXCEPT ![g].left = @ \ {m}]
  BY DEF TellMember
<1>2. /\ UNCHANGED <<cert, about, team, goods, shipments, breaches, registrar, shipper>>
      /\ logger[g].at = "tell"
  BY DEF TellMember, expiryVars, paperVars
<1>3. logger[g] \in LogType BY <1>2 DEF ShipmentsInv, ShipmentTypeOK, LogType, Free
<1>4. PICK o : o = logger[g].order OBVIOUS
<1>5. o \in Orders /\ m \in Members BY <1>3, <1>4 DEF LogType
<1> DEFINE n == [logger[g] EXCEPT !.left = @ \ {m}]
<1>6. n \in LogType /\ n.order = o /\ n.left = logger[g].left \ {m} BY <1>3, <1>4 DEF LogType
<1>7. n # Free /\ logger[g] # Free BY <1>2, <1>3, <1>6 DEF LogType, Free
<1>8. logger' = [logger EXCEPT ![g] = n] BY <1>1
<1> HIDE DEF n
<1>9. /\ breaches \in [Orders -> 0..MaxLogs] /\ MaxLogs \in Nat
      /\ alarms \in [Orders \X Members -> Nat]
  BY ShipmentsAssumption DEF ShipmentsInv, ShipmentTypeOK
<1>10. alarms' = [alarms EXCEPT ![<<o, m>>] = @ + 1] BY <1>1, <1>4
<1>11. <<o, m>> \in Orders \X Members BY <1>5
<1>12. alarms' \in [Orders \X Members -> Nat] BY <1>9, <1>10, <1>11
<1>13. ShipmentTypeOK' BY <1>2, <1>6, <1>8, <1>9, <1>12, LogTyped
<1>14. ASSUME NEW q \in Orders, NEW k \in Members
       PROVE  alarms'[<<q, k>>] + Owes(n, q, k) - Owes(logger[g], q, k) - alarms[<<q, k>>]
                = breaches'[q] - breaches[q]
  <2>1. /\ alarms[<<q, k>>] \in Int /\ breaches[q] \in Int /\ breaches'[q] = breaches[q]
    BY <1>2, <1>9
  <2>2. CASE q = o /\ k = m
    <3>1. Owes(n, q, k) = 0 /\ Owes(logger[g], q, k) = 1
      BY <1>1, <1>4, <1>6, <1>7, <2>2 DEF Owes
    <3>2. alarms'[<<q, k>>] = alarms[<<q, k>>] + 1 BY <1>9, <1>10, <1>11, <2>2
    <3> QED BY <2>1, <3>1, <3>2
  <2>3. CASE ~(q = o /\ k = m)
    <3>1. Owes(n, q, k) = Owes(logger[g], q, k) BY <1>4, <1>6, <1>7, <2>3 DEF Owes
    <3>2. <<q, k>> # <<o, m>> /\ <<q, k>> \in Orders \X Members BY <2>3
    <3>3. alarms'[<<q, k>>] = alarms[<<q, k>>] BY <1>9, <1>10, <3>2
    <3>4. Owes(n, q, k) \in Int BY DEF Owes
    <3> QED BY <2>1, <3>1, <3>3, <3>4
  <2> QED BY <2>2, <2>3
<1> QED BY <1>2, <1>8, <1>13, <1>14, AlarmsMove

(* A log ends with nothing owed, or crashes.                               *)
LEMMA LogDoneKeeps ==
  ASSUME ShipmentsInv, NEW g \in Loggers, LogDone(g)
  PROVE  ShipmentsInv'
<1>1. /\ logger' = [logger EXCEPT ![g] = Free]
      /\ "crash" \notin team => logger[g].left = {}
      /\ UNCHANGED <<cert, about, team, goods, shipments, breaches, alarms, registrar, shipper>>
  BY DEF LogDone, expiryVars, paperVars
<1>2. /\ breaches \in [Orders -> 0..MaxLogs] /\ MaxLogs \in Nat
      /\ alarms \in [Orders \X Members -> Nat]
  BY ShipmentsAssumption DEF ShipmentsInv, ShipmentTypeOK
<1>3. ShipmentTypeOK' BY <1>1, <1>2, LogTyped
<1>4. ASSUME "crash" \notin team, NEW q \in Orders, NEW k \in Members
      PROVE  alarms'[<<q, k>>] + Owes(Free, q, k) - Owes(logger[g], q, k) - alarms[<<q, k>>]
               = breaches'[q] - breaches[q]
  <2>1. Owes(Free, q, k) = 0 /\ Owes(logger[g], q, k) = 0 BY <1>1, <1>4 DEF Owes
  <2>2. alarms[<<q, k>>] \in Int /\ breaches[q] \in Int BY <1>2
  <2> QED BY <1>1, <2>1, <2>2
<1> QED BY <1>1, <1>3, <1>4, AlarmsMove

(* Every step keeps the shipments.                                         *)
LEMMA ShipmentsStep ==
  ASSUME RemindersInv, FilesInv, ShipmentsInv, CitesTypeOK, [Next]_vars
  PROVE  ShipmentsInv'
<1>1. \A o \in Orders : Present(o) \subseteq Present(o)' BY PapersStay
<1>2. CASE UNCHANGED shipmentVars /\ team' = team BY <1>1, <1>2, ShipmentsRest
<1>3. CASE ShipmentNext
  BY <1>3, RegisterReadKeeps, RegisterWriteKeeps, ShipCheckKeeps, ShipCommitKeeps, LogKeeps,
     TellKeeps, LogDoneKeeps DEF ShipmentNext
<1>4. team' = team
  BY DEF Next, vars, DayPasses, ExpiryNext, AddCertificate, RemoveCertificate, ScanNext, ScanStart,
     ScanMark, ScanHolders, ScanInternal, ScanAsk, ScanSend, ScanDone, ScanCrash, PaperNext,
     RegisterDocument, SetMaskTemplate, UploadStart, UploadPut, UploadWrite, UploadFail, CopyStart,
     CopyPut, CopyCreate, CopyFail, ShipmentNext, RegisterWrite, RegisterRead, ShipCommit,
     ShipCheck, LogTemperatures, TellMember, LogDone, CitesNext, Import, CreateCitesPermit, DeductRead,
     DeductWrite, MigrateRead, MergeGroup, Backfill, MigrateEnd
<1> QED BY <1>2, <1>3, <1>4 DEF Next, vars

----------------------------------------------------------------------------
(* Permits                                                                 *)
DeductionType ==
  [at : {"deduct"}, permit : Permits, kg : Kg, meant : SUBSET Species,
   seen : PermitType, lines : [Species -> LineType]]
MigrationType ==
  [at : {"merge"}, left : SUBSET SUBSET Permits, seen : [Permits -> PermitType],
   bare : SUBSET Permits]

(* A quantity is a positive number.                                        *)
LEMMA KgTyped == \A k \in Kg \cup {0} : k \in Nat /\ (k \in Kg => k > 0)
<1>1. Kg \subseteq Nat \ {0} BY CitesAssumption
<1> QED BY <1>1

(* The earliest row of a group is one of it.                               *)
LEMMA PrimaryIn ==
  ASSUME NEW list \in SUBSET Permits, list # {}
  PROVE  Primary(list) \in list
<1> DEFINE ages == {Age[p] : p \in list}
<1>1. IsFiniteSet(list) BY CitesAssumption, FS_Subset
<1>2. IsFiniteSet(ages)
  <2>1. [p \in list |-> Age[p]] \in Surjection(list, ages) BY DEF Surjection
  <2> HIDE DEF ages
  <2> QED BY <1>1, <2>1, FS_Surjection DEF ExistsSurjection
<1>3. ages # {} /\ \A a \in ages : a \in Int BY CitesAssumption
<1>4. \E a \in ages : \A b \in ages : a <= b
  <2> HIDE DEF ages
  <2> QED BY <1>2, <1>3, LeastOf
<1>5. \E p \in list : \A q \in list : Age[p] <= Age[q] BY <1>4
<1> QED BY <1>5 DEF Primary

(* Sums over rows and over species.                                        *)
LEMMA TotalsTyped ==
  /\ \A quota \in [Species -> Nat] : SumFunction(quota) \in Nat
  /\ \A list \in SUBSET Permits : \A f \in [list -> Nat] : SumFunction(f) \in Nat
<1>1. ASSUME NEW quota \in [Species -> Nat] PROVE SumFunction(quota) \in Nat
  <2>1. IsFiniteSet(Species) /\ \A s \in Species : quota[s] \in Nat BY CitesAssumption
  <2>2. SumFunctionOnSet(quota, Species) \in Nat BY <2>1, SumNat
  <2> QED BY <2>2 DEF SumFunction
<1>2. ASSUME NEW list \in SUBSET Permits, NEW f \in [list -> Nat] PROVE SumFunction(f) \in Nat
  <2>1. IsFiniteSet(list) /\ \A p \in list : f[p] \in Nat BY CitesAssumption, FS_Subset
  <2>2. SumFunctionOnSet(f, list) \in Nat BY <2>1, SumNat
  <2> QED BY <2>2 DEF SumFunction
<1> QED BY <1>1, <1>2

(* A step that changes one row of a permit, its lines or both.             *)
LEMMA PermitTyped ==
  ASSUME CitesTypeOK, NEW p \in Permits, NEW x \in PermitType, NEW y \in [Species -> LineType],
         permit' \in {permit, [permit EXCEPT ![p] = x]}, line' \in {line, [line EXCEPT ![p] = y]},
         inspector' \in [Inspectors -> {Free} \cup DeductionType],
         migrator' \in [Migrators -> {Free} \cup MigrationType]
  PROVE  CitesTypeOK'
<1>1. permit \in [Permits -> PermitType] /\ line \in [Permits -> [Species -> LineType]]
  BY DEF CitesTypeOK
<1>2. permit' \in [Permits -> PermitType] BY <1>1
<1>3. line' \in [Permits -> [Species -> LineType]] BY <1>1
<1> QED BY <1>2, <1>3 DEF CitesTypeOK, DeductionType, MigrationType

(* The type invariant with its records named.                              *)
LEMMA CitesTypes ==
  CitesTypeOK => /\ permit \in [Permits -> PermitType]
                 /\ line \in [Permits -> [Species -> LineType]]
                 /\ inspector \in [Inspectors -> {Free} \cup DeductionType]
                 /\ migrator \in [Migrators -> {Free} \cup MigrationType]
  BY DEF CitesTypeOK, DeductionType, MigrationType

(* A row is imported.                                                      *)
LEMMA ImportKeeps ==
  ASSUME CitesTypeOK, NEW p \in Permits, NEW s \in Species, NEW q \in Kg, NEW used \in Kg \cup {0},
         Import(p, s, q, used)
  PROVE  CitesTypeOK'
<1> DEFINE x == [species |-> s, quota |-> q, used |-> used]
<1>1. x \in PermitType BY CitesAssumption DEF PermitType
<1>2. permit' = [permit EXCEPT ![p] = x] /\ UNCHANGED <<line, inspector, migrator>> BY DEF Import
<1> HIDE DEF x
<1>3. line[p] \in [Species -> LineType] BY CitesTypes
<1> QED BY <1>1, <1>2, <1>3, CitesTypes, PermitTyped

(* A permit is created with a line per species and their sum.              *)
LEMMA CreateKeeps ==
  ASSUME CitesTypeOK, NEW p \in Permits, NEW s \in Species, NEW quota \in [Species -> Kg \cup {0}],
         CreateCitesPermit(p, quota, s)
  PROVE  CitesTypeOK'
<1>1. quota \in [Species -> Nat]
  <2>1. \A k \in Kg \cup {0} : k \in Nat BY KgTyped
  <2> QED BY <2>1
<1>2. SumFunction(quota) \in Nat BY <1>1, TotalsTyped
<1> DEFINE x == [species |-> s, quota |-> SumFunction(quota), used |-> 0]
           y == [z \in Species |-> [quota |-> quota[z], used |-> 0]]
<1>3. x \in PermitType BY <1>2 DEF PermitType
<1>4. y \in [Species -> LineType] BY <1>1 DEF LineType
<1>5. /\ permit' = [permit EXCEPT ![p] = x] /\ line' = [line EXCEPT ![p] = y]
      /\ UNCHANGED <<inspector, migrator>>
  BY DEF CreateCitesPermit
<1> HIDE DEF x, y
<1> QED BY <1>3, <1>4, <1>5, CitesTypes, PermitTyped

(* A deduction reads the permit and its lines.                             *)
LEMMA DeductReadKeeps ==
  ASSUME CitesTypeOK, NEW i \in Inspectors, NEW p \in Permits, NEW kg \in Kg,
         NEW s \in Species \cup {"none"}, DeductRead(i, p, kg, s)
  PROVE  CitesTypeOK'
<1> DEFINE n == [at |-> "deduct", permit |-> p, kg |-> kg, meant |-> Meant(p, s),
                 seen |-> permit[p], lines |-> line[p]]
<1>1. permit[p] \in PermitType /\ line[p] \in [Species -> LineType] BY CitesTypes
<1>2. Meant(p, s) \in SUBSET Species BY DEF Meant, Lines
<1>3. n \in DeductionType BY <1>1, <1>2 DEF DeductionType
<1>4. inspector' = [inspector EXCEPT ![i] = n] /\ UNCHANGED <<permit, line, migrator>>
  BY DEF DeductRead
<1> HIDE DEF n
<1>5. inspector' \in [Inspectors -> {Free} \cup DeductionType] BY <1>3, <1>4, CitesTypes
<1> QED BY <1>1, <1>4, <1>5, CitesTypes, PermitTyped

(* A deduction increments the line and the total, or is rolled back.       *)
LEMMA DeductWriteKeeps ==
  ASSUME CitesTypeOK, NEW i \in Inspectors, DeductWrite(i)
  PROVE  CitesTypeOK'
<1>1. PICK f : f = inspector[i] OBVIOUS
<1>2. f.at = "deduct" /\ inspector' = [inspector EXCEPT ![i] = Free] /\ migrator' = migrator
  BY <1>1 DEF DeductWrite
<1>3. f \in DeductionType BY <1>1, <1>2, CitesTypes DEF Free
<1>4. f.permit \in Permits /\ f.kg \in Nat BY <1>3, CitesAssumption DEF DeductionType
<1> DEFINE p == f.permit
           x == [permit[p] EXCEPT !.used = @ + f.kg]
           l(s) == [quota |-> line[p][s].quota, used |-> line[p][s].used + f.kg]
           y == [s \in Species |-> IF s \in f.meant THEN l(s) ELSE line[p][s]]
<1>5. permit[p] \in PermitType /\ line[p] \in [Species -> LineType] BY <1>4, CitesTypes
<1>6. x \in PermitType BY <1>4, <1>5 DEF PermitType
<1>7. y \in [Species -> LineType]
  <2>1. \A s \in Species : line[p][s] \in LineType BY <1>5
  <2>2. \A s \in Species : l(s) \in LineType BY <1>4, <2>1 DEF LineType
  <2> HIDE DEF l
  <2> QED BY <2>1, <2>2
<1>8. permit' \in {permit, [permit EXCEPT ![p] = x]} /\ line' \in {line, [line EXCEPT ![p] = y]}
  <2>1. CASE Remains(f)
    <3>1. Deducted(f) BY <1>1, <2>1 DEF DeductWrite
    <3>2. permit' = [permit EXCEPT ![p] = x] BY <3>1 DEF Deducted
    <3>3. line' = [line EXCEPT ![p] = y] BY <3>1 DEF Deducted
    <3> QED BY <3>2, <3>3
  <2>2. CASE ~Remains(f) BY <1>1, <2>2 DEF DeductWrite
  <2> QED BY <2>1, <2>2
<1> HIDE DEF x, y
<1>9. inspector' \in [Inspectors -> {Free} \cup DeductionType] BY <1>2, CitesTypes
<1>10. p \in Permits BY <1>4
<1> QED BY <1>2, <1>6, <1>7, <1>8, <1>9, <1>10, CitesTypes, PermitTyped

(* The script reads all permits and groups them.                           *)
LEMMA MigrateReadKeeps ==
  ASSUME CitesTypeOK, NEW g \in Migrators, MigrateRead(g)
  PROVE  CitesTypeOK'
<1> DEFINE groups == {Group(p) : p \in {q \in Permits : cert[q].live}}
           bare == {p \in Permits : Lines(p) = {}}
           n == [at |-> "merge", left |-> groups, seen |-> permit, bare |-> bare]
<1>1. groups \in SUBSET SUBSET Permits /\ bare \in SUBSET Permits BY DEF Group
<1>2. migrator' = [migrator EXCEPT ![g] = n] /\ UNCHANGED <<permit, line, inspector>>
  BY DEF MigrateRead
<1> HIDE DEF groups, bare
<1>3. n \in MigrationType BY <1>1, CitesTypes DEF MigrationType
<1> HIDE DEF n
<1>4. migrator' \in [Migrators -> {Free} \cup MigrationType] BY <1>2, <1>3, CitesTypes
<1> QED BY <1>2, <1>4 DEF CitesTypeOK, DeductionType, MigrationType

(* What is merged is typed as what was read.                               *)
LEMMA MergesTyped ==
  ASSUME CitesTypeOK, NEW f \in MigrationType, NEW list \in SUBSET Permits, list # {}
  PROVE  /\ Merged(f, list) \in [Permits -> PermitType]
         /\ MergedLines(f, list) \in [Permits -> [Species -> LineType]]
<1>1. PICK p : p = Primary(list) OBVIOUS
<1>2. p \in list BY <1>1, PrimaryIn
<1>3. f.seen \in [Permits -> PermitType] BY DEF MigrationType
<1>4. \A q \in list : f.seen[q].quota \in Nat /\ f.seen[q].used \in Nat BY <1>3 DEF PermitType
<1>5. PICK quota, used : /\ quota = SumFunction([q \in list |-> f.seen[q].quota])
                         /\ used = SumFunction([q \in list |-> f.seen[q].used])
  OBVIOUS
<1>6. quota \in Nat /\ used \in Nat
  <2>1. /\ [q \in list |-> f.seen[q].quota] \in [list -> Nat]
        /\ [q \in list |-> f.seen[q].used] \in [list -> Nat]
    BY <1>4
  <2> QED BY <1>5, <2>1, TotalsTyped
<1>7. Merged(f, list) = [permit EXCEPT ![p].quota = quota, ![p].used = used]
  BY <1>1, <1>5 DEF Merged
<1> DEFINE x == [permit[p] EXCEPT !.quota = quota, !.used = used]
<1>8. permit[p] \in PermitType /\ line[p] \in [Species -> LineType] BY <1>2, CitesTypes
<1>9. x \in PermitType BY <1>6, <1>8 DEF PermitType
<1>10. Merged(f, list) = [permit EXCEPT ![p] = x] BY <1>2, <1>7, CitesTypes
<1> DEFINE same(s) == {q \in list : f.seen[q].species = s}
           y == [s \in Species |->
                  IF line[p][s] # NoLine \/ same(s) = {} THEN line[p][s]
                  ELSE [quota |-> f.seen[Primary(same(s))].quota,
                        used |-> f.seen[Primary(same(s))].used]]
<1>11. y \in [Species -> LineType]
  <2> SUFFICES ASSUME NEW s \in Species, same(s) # {}
               PROVE  [quota |-> f.seen[Primary(same(s))].quota,
                       used |-> f.seen[Primary(same(s))].used]
                        \in LineType
    BY <1>8
  <2>1. same(s) \in SUBSET Permits /\ same(s) \subseteq list OBVIOUS
  <2> HIDE DEF same
  <2>2. Primary(same(s)) \in list BY <2>1, PrimaryIn
  <2> QED BY <1>4, <2>2 DEF LineType
<1>12. MergedLines(f, list) = [line EXCEPT ![p] = y] BY <1>1 DEF MergedLines
<1> HIDE DEF x, y
<1> QED BY <1>2, <1>9, <1>10, <1>11, <1>12, CitesTypes

(* A group is merged or backfilled, or the script ends.                    *)
LEMMA MigrationKeeps ==
  ASSUME CitesTypeOK, NEW g \in Migrators, MergeGroup(g) \/ Backfill(g) \/ MigrateEnd(g)
  PROVE  CitesTypeOK'
<1>1. ASSUME MergeGroup(g) \/ Backfill(g) PROVE CitesTypeOK'
  <2>1. migrator[g] # Free BY <1>1 DEF MergeGroup, Backfill
  <2>2. PICK list \in migrator[g].left :
          /\ Cardinality(list) # 0
          /\ migrator' = [migrator EXCEPT ![g].left = @ \ {list}] /\ inspector' = inspector
          /\ permit' \in {permit, Merged(migrator[g], list)}
          /\ line' \in {line, MergedLines(migrator[g], list)}
    BY <1>1 DEF MergeGroup, Backfill
  <2>3. migrator[g] \in MigrationType BY <2>1, CitesTypes
  <2>4. list \in SUBSET Permits BY <2>3 DEF MigrationType
  <2>5. list # {} BY <2>2, FS_EmptySet
  <2>6. /\ permit' \in [Permits -> PermitType] /\ line' \in [Permits -> [Species -> LineType]]
    BY <2>2, <2>3, <2>4, <2>5, MergesTyped, CitesTypes
  <2> DEFINE n == [migrator[g] EXCEPT !.left = @ \ {list}]
  <2>7. n \in MigrationType BY <2>3 DEF MigrationType
  <2>8. migrator' = [migrator EXCEPT ![g] = n] BY <2>2
  <2> HIDE DEF n
  <2>9. migrator' \in [Migrators -> {Free} \cup MigrationType] BY <2>7, <2>8, CitesTypes
  <2> QED BY <2>2, <2>6, <2>9 DEF CitesTypeOK, DeductionType, MigrationType
<1>2. ASSUME MigrateEnd(g) PROVE CitesTypeOK'
  <2>1. migrator' = [migrator EXCEPT ![g] = Free] /\ UNCHANGED <<permit, line, inspector>>
    BY <1>2 DEF MigrateEnd
  <2> QED BY <2>1 DEF CitesTypeOK
<1> QED BY <1>1, <1>2

(* Every step keeps the types of the permits.                              *)
LEMMA CitesStep ==
  ASSUME CitesTypeOK, [Next]_vars
  PROVE  CitesTypeOK'
<1>1. CASE UNCHANGED citesVars BY <1>1 DEF CitesTypeOK, citesVars
<1>2. CASE CitesNext
  BY <1>2, ImportKeeps, CreateKeeps, DeductReadKeeps, DeductWriteKeeps, MigrateReadKeeps,
     MigrationKeeps
  DEF CitesNext
<1>3. CASE PaperNext /\ UNCHANGED <<shipmentVars, citesVars>> BY <1>1, <1>3
<1> QED BY <1>1, <1>2, <1>3 DEF Next, vars

----------------------------------------------------------------------------
(* The invariant and what follows from it.                                 *)

(* No step of any handler disturbs the invariant.                          *)
LEMMA FulfillmentStep == FulfillmentInv /\ [Next]_vars => FulfillmentInv'
  BY RemindersStep, FilesStep, ShipmentsStep, CitesStep DEF FulfillmentInv

(* Of every behaviour of scans, papers, shipments and permits side by      *)
(* side, whatever overlaps or crashes.                                     *)
THEOREM FulfillmentInvariance == Spec => []FulfillmentInv
  BY FulfillmentInit, FulfillmentStep, PTL DEF Spec

(* Whatever the handlers, the days and the crashes: a certificate expires  *)
(* after its last day, one scan at a time reminds everybody of a bucket    *)
(* once, and no digest goes out before the reminders.                      *)
THEOREM RemindersAlwaysKept == Spec => []RemindersKept
<1>1. FulfillmentInv => ExpiryTypeOK /\ PaperTypeOK /\ ShipmentTypeOK /\ CitesTypeOK
  BY DEF FulfillmentInv, RemindersInv, FilesInv, ShipmentsInv
<1>2. FulfillmentInv => ScanTells
  <2> SUFFICES ASSUME FulfillmentInv, NEW s \in Scans, scan[s].at = "digest"
               PROVE  \A m \in Members, i \in scan[s].items : inbox[<<m, i>>] > 0
    BY DEF ScanTells
  <2>1. scan[s] # Free BY DEF Free
  <2> QED BY <2>1 DEF FulfillmentInv, RemindersInv, ScanOK
<1>3. FulfillmentInv => ExpiredIsOverdue /\ RemindedOnce
  BY DEF FulfillmentInv, RemindersInv, SendsAreNew, RemindedOnce
<1>4. FulfillmentInv => RemindersKept BY <1>1, <1>2, <1>3 DEF RemindersKept, TypeOK
<1> QED BY <1>4, FulfillmentInvariance, PTL

(* No row, of a document or of a masked copy, names an object that is not  *)
(* in the storage.                                                         *)
THEOREM FilesAlwaysStored == Spec => []FilesAreStored
<1>1. FulfillmentInv => FilesAreStored BY DEF FulfillmentInv, FilesInv
<1> QED BY <1>1, FulfillmentInvariance, PTL

(* One registration at a time leaves one shipment per order, what ships    *)
(* has its papers, and every breach is told.                               *)
THEOREM ShipmentsAlwaysKept == Spec => []ShipmentsKept
<1>1. ASSUME FulfillmentInv PROVE BreachesTold
  <2> SUFFICES ASSUME "crash" \notin team, \A g \in Loggers : logger[g] = Free,
                      NEW o \in Orders, NEW m \in Members
               PROVE  alarms[<<o, m>>] = breaches[o]
    BY DEF BreachesTold
  <2>1. PICK f : f = Telling(o, m) OBVIOUS
  <2>2. \A g \in Loggers : f[g] = 0 BY <2>1 DEF Telling, Owes
  <2>3. SumFunctionOnSet(f, Loggers) = 0 BY <2>2, SumZero, ShipmentsAssumption
  <2>4. alarms[<<o, m>>] + SumFunctionOnSet(f, Loggers) = breaches[o]
    BY <1>1, <2>1 DEF FulfillmentInv, ShipmentsInv, AlarmsDue
  <2>5. alarms[<<o, m>>] \in Int BY <1>1 DEF FulfillmentInv, ShipmentsInv, ShipmentTypeOK
  <2> QED BY <2>3, <2>4, <2>5
<1>2. FulfillmentInv => ShipmentsKept
  BY <1>1 DEF FulfillmentInv, ShipmentsInv, ShipmentsKept
<1> QED BY <1>2, FulfillmentInvariance, PTL

----------------------------------------------------------------------------
(* Permits                                                                 *)

(* A handler at work is one of the team, and deducts from a row.           *)
HandlersOK ==
  /\ \A i \in Inspectors : inspector[i] # Free =>
       i \in team /\ cert[inspector[i].permit] # NoCert
  /\ \A g \in Migrators : migrator[g] # Free => g \in team

(* The script does not run while somebody deducts, but for "cross".        *)
Apart ==
  "cross" \notin team =>
    \/ \A i \in Inspectors : inspector[i] = Free
    \/ \A g \in Migrators : migrator[g] = Free

(* What a deduction is about to add to a permit, and to a line.            *)
Due(f, p) == IF f # Free /\ f.permit = p /\ Remains(f) THEN f.kg ELSE 0
DueOf(f, p, s) == IF f # Free /\ f.permit = p /\ s \in f.meant /\ Remains(f) THEN f.kg ELSE 0
PermitDue(p) == [i \in Inspectors |-> Due(inspector[i], p)]
LineDue(p, s) == [i \in Inspectors |-> DueOf(inspector[i], p, s)]

(* With it added, the quota is overdrawn by no more than the others.       *)
Slack == Racing * Max(Kg)
QuotaOK ==
  "cross" \notin team /\ (Racing = 0 \/ ~Working(Migrators)) =>
    /\ \A p \in Permits :
         permit[p].used + SumFunctionOnSet(PermitDue(p), Inspectors) <= permit[p].quota + Slack
    /\ \A p \in Permits, s \in Species :
         line[p][s].used + SumFunctionOnSet(LineDue(p, s), Inspectors) <= line[p][s].quota + Slack
    /\ \A g \in Migrators : migrator[g] # Free =>
         \A p \in Permits : migrator[g].seen[p].used <= migrator[g].seen[p].quota

(* A permit with lines has one of its species and, as long as it lives,    *)
(* their sums.                                                             *)
RowOK(p) ==
  /\ cert[p] = NoCert => permit[p] = NoPermit /\ Lines(p) = {}
  /\ cert[p] # NoCert => permit[p].species \in Species /\ permit[p].quota > 0
  /\ Lines(p) # {} => permit[p].species \in Lines(p)
  /\ Lines(p) # {} /\ cert[p].live =>
       /\ permit[p].quota = SumFunctionOnSet([s \in Species |-> line[p][s].quota], Species)
       /\ permit[p].used = SumFunctionOnSet([s \in Species |-> line[p][s].used], Species)

(* The rows of one number differ in their species.                         *)
RowsApart ==
  \A p, q \in Permits : cert[p].live /\ cert[q].live /\ p # q /\ Base[p] = Base[q] =>
    SpeciesOf(p) \cap SpeciesOf(q) = {}

(* A deduction means one line, or the row has none.                        *)
DeductionOK(f) ==
  f # Free =>
    /\ f.meant \subseteq Lines(f.permit)
    /\ Lines(f.permit) # {} => \E s \in Lines(f.permit) : f.meant = {s}

(* What the script has read of the groups that are left still holds.       *)
GroupOK(f, list) ==
  /\ list # {}
  /\ \A q \in list : /\ cert[q].live /\ permit[q] = f.seen[q]
                     /\ q \in f.bare <=> Lines(q) = {}
                     /\ \A r \in list : Base[r] = Base[q]
MigrationOK(f) ==
  f # Free => /\ \A list \in f.left : GroupOK(f, list)
              /\ \A a, b \in f.left : a # b => a \cap b = {}

LinesHold ==
  /\ \A p \in Permits : RowOK(p)
  /\ RowsApart
  /\ \A i \in Inspectors : DeductionOK(inspector[i])
  /\ \A g \in Migrators : MigrationOK(migrator[g])

(* One script at a time keeps the sums.                                    *)
LinesOK == "cross" \notin team /\ Cardinality(team \cap Migrators) <= 1 => LinesHold

PermitsInv == CitesTypeOK /\ HandlersOK /\ Apart /\ QuotaOK /\ LinesOK

(* The rows of permits that a step leaves alone.                           *)
Steady ==
  \A p \in Permits : (cert'[p] = NoCert <=> cert[p] = NoCert) /\ cert'[p].live = cert[p].live

(* Other handlers leave the rows of permits where they are.                *)
LEMMA SteadyRest ==
  ASSUME RemindersInv, DayPasses \/ ExpiryNext \/ PaperNext \/ ShipmentNext \/ UNCHANGED vars
  PROVE  Steady /\ team' = team
<1>1. CertsTyped BY DEF RemindersInv, ExpiryTypeOK, CertsTyped, CertType
<1>2. \A p \in Permits : p \in Certs /\ p \notin PartyCerts /\ p \notin Docs
  BY ExpiryAssumption DEF Certs
<1>3. CASE cert' = cert /\ team' = team BY <1>3 DEF Steady
<1>4. ASSUME NEW c \in PartyCerts \cup Docs, \A k \in Certs \ {c} : cert'[k] = cert[k] PROVE Steady
  BY <1>2, <1>4 DEF Steady
<1>5. ASSUME NEW c \in PartyCerts, AddCertificate(c) PROVE Steady /\ team' = team
  <2>1. PICK date \in Dates : Issued(c, "PENDING", date) BY <1>5 DEF AddCertificate
  <2>2. \A k \in Certs \ {c} : cert'[k] = cert[k] BY <2>1, <1>1 DEF Issued, CertsTyped
  <2> QED BY <1>4, <1>5, <2>2 DEF AddCertificate
<1>6. ASSUME NEW c \in PartyCerts, RemoveCertificate(c) PROVE Steady /\ team' = team
  <2>1. \A k \in Certs \ {c} : cert'[k] = cert[k] BY <1>1, <1>6 DEF RemoveCertificate, CertsTyped
  <2> QED BY <1>4, <1>6, <2>1 DEF RemoveCertificate
<1>7. ASSUME NEW s \in Scans, ScanMark(s) PROVE Steady /\ team' = team
  <2>1. PICK c \in scan[s].left : cert' = [cert EXCEPT ![c].status = "EXPIRED"] BY <1>7 DEF ScanMark
  <2>2. scan[s] \in {Free} \cup ScanType /\ scan[s].at = "mark"
    BY <1>7 DEF RemindersInv, ExpiryTypeOK, ScanMark
  <2>3. scan[s] # Free BY <2>2 DEF Free
  <2>4. c \in Certs BY <2>2, <2>3 DEF ScanType
  <2>5. cert[c] # NoCert BY <2>3 DEF RemindersInv, MarksOverdue
  <2>6. cert[c] \in CertType BY <1>1, <2>4, <2>5 DEF CertsTyped
  <2>7. /\ cert'[c] = [cert[c] EXCEPT !.status = "EXPIRED"]
        /\ \A k \in Certs \ {c} : cert'[k] = cert[k]
    BY <1>1, <2>1, <2>4 DEF CertsTyped
  <2>8. cert'[c] \in CertType /\ cert'[c].live = cert[c].live BY <2>6, <2>7 DEF CertType
  <2>9. cert'[c] # NoCert BY <2>8, RowIs
  <2> QED BY <1>2, <1>7, <2>5, <2>7, <2>8, <2>9 DEF Steady, ScanMark
<1>8. ASSUME NEW d \in Docs, NEW o \in Orders, NEW t \in Types, RegisterDocument(d, o, t)
      PROVE Steady /\ team' = team
  <2>1. PICK date \in Dates : Issued(d, "VALID", date) BY <1>8 DEF RegisterDocument
  <2>2. \A k \in Certs \ {d} : cert'[k] = cert[k] BY <2>1, <1>1 DEF Issued, CertsTyped
  <2> QED BY <1>4, <1>8, <2>2 DEF RegisterDocument
<1>9. CASE ExpiryNext
  <2>1. CASE ScanNext
    <3>1. PICK s \in Scans :
            \/ ScanStart(s) \/ ScanMark(s) \/ ScanHolders(s) \/ ScanInternal(s)
            \/ ScanAsk(s) \/ ScanSend(s) \/ ScanDone(s) \/ ScanCrash(s)
      BY <2>1 DEF ScanNext
    <3>2. ScanMark(s) \/ (cert' = cert /\ team' = team)
      BY <3>1 DEF ScanStart, ScanHolders, ScanInternal, ScanAsk, ScanSend, ScanDone, ScanCrash
    <3> QED BY <1>3, <1>7, <3>2
  <2> QED BY <1>5, <1>6, <1>9, <2>1 DEF ExpiryNext
<1>10. CASE PaperNext
  <2>1. \/ \E d \in Docs, o \in Orders, t \in Types : RegisterDocument(d, o, t)
        \/ cert' = cert /\ team' = team
    BY <1>10 DEF PaperNext, SetMaskTemplate, UploadStart, UploadPut, UploadWrite, UploadFail,
                 CopyStart, CopyPut, CopyCreate, CopyFail, expiryVars
  <2> QED BY <1>3, <1>8, <2>1
<1>11. CASE ShipmentNext
  <2>1. cert' = cert /\ team' = team
    BY <1>11 DEF ShipmentNext, RegisterWrite, RegisterRead, ShipCommit, ShipCheck, LogTemperatures,
                 TellMember, LogDone, expiryVars
  <2> QED BY <1>3, <2>1
<1>12. CASE DayPasses BY <1>3, <1>12 DEF DayPasses
<1>13. CASE UNCHANGED vars BY <1>3, <1>13 DEF vars, expiryVars
<1> QED BY <1>9, <1>10, <1>11, <1>12, <1>13

(* So the invariant survives them.                                         *)
LEMMA PermitsRest ==
  ASSUME PermitsInv, Steady, team' = team, UNCHANGED citesVars
  PROVE  PermitsInv'
<1>1. UNCHANGED <<permit, line, inspector, migrator>> BY DEF citesVars
<1>2. CitesTypeOK' BY <1>1 DEF PermitsInv, CitesTypeOK
<1>3. HandlersOK'
  <2>1. \A i \in Inspectors : inspector[i] # Free => inspector[i].permit \in Permits
    BY CitesTypes DEF PermitsInv, DeductionType
  <2> QED BY <1>1, <2>1 DEF PermitsInv, HandlersOK, Steady
<1>4. Apart' BY <1>1 DEF PermitsInv, Apart
<1>5. QuotaOK'
  <2>1. (Slack' = Slack) /\ (Racing' = Racing) BY DEF Slack, Racing, Working
  <2>2. \A p, s : (PermitDue(p)' = PermitDue(p)) /\ (LineDue(p, s)' = LineDue(p, s))
    BY <1>1 DEF PermitDue, LineDue
  <2> QED BY <1>1, <2>1, <2>2 DEF PermitsInv, QuotaOK, Working
<1>6. LinesOK'
  <2> SUFFICES ASSUME "cross" \notin team, Cardinality(team \cap Migrators) <= 1
               PROVE  /\ \A p \in Permits : RowOK(p)'
                      /\ RowsApart'
                      /\ \A i \in Inspectors : DeductionOK(inspector[i])'
                      /\ \A g \in Migrators : MigrationOK(migrator[g])'
    BY DEF LinesOK, LinesHold
  <2>1. \A p : (Lines(p)' = Lines(p)) /\ (SpeciesOf(p)' = SpeciesOf(p)) BY <1>1 DEF Lines, SpeciesOf
  <2>2. \A p \in Permits : RowOK(p)' BY <1>1, <2>1 DEF PermitsInv, LinesOK, LinesHold, RowOK, Steady
  <2>3. RowsApart' BY <2>1 DEF PermitsInv, LinesOK, LinesHold, RowsApart, Steady
  <2>4. \A i \in Inspectors : DeductionOK(inspector[i])'
    BY <1>1, <2>1 DEF PermitsInv, LinesOK, LinesHold, DeductionOK
  <2>5. ASSUME NEW g \in Migrators PROVE MigrationOK(migrator[g])'
    <3>1. migrator[g] # Free => \A list \in migrator[g].left : list \in SUBSET Permits
      BY CitesTypes DEF PermitsInv, MigrationType
    <3> QED BY <1>1, <2>1, <3>1 DEF PermitsInv, LinesOK, LinesHold, MigrationOK, GroupOK, Steady
  <2> QED BY <2>2, <2>3, <2>4, <2>5
<1> QED BY <1>2, <1>3, <1>4, <1>5, <1>6 DEF PermitsInv

(* A handler that starts is one of the team and finds the other side idle. *)
LEMMA HandlersStep ==
  ASSUME CitesTypeOK, CertsTyped, HandlersOK, Apart, RowsMove, CitesNext
  PROVE  HandlersOK' /\ Apart' /\ team' = team
<1>1. ASSUME NEW i \in Inspectors PROVE inspector[i] # Free => inspector[i].permit \in Certs
  BY CitesTypes DEF DeductionType, Certs
<1>2. CASE UNCHANGED <<inspector, migrator, team>>
  BY <1>1, <1>2 DEF HandlersOK, Apart, RowsMove
<1>3. ASSUME NEW i \in Inspectors, NEW p \in Permits, NEW kg \in Kg,
             NEW s \in Species \cup {"none"}, DeductRead(i, p, kg, s)
      PROVE  HandlersOK' /\ Apart' /\ team' = team
  <2>1. PICK n : /\ n.permit = p
                 /\ inspector' = [inspector EXCEPT ![i] = n]
    BY <1>3 DEF DeductRead
  <2>2. /\ i \in team /\ inspector[i] = Free /\ cert[p] # NoCert /\ UNCHANGED <<cert, team, migrator>>
        /\ "cross" \in team \/ \A g \in Migrators : migrator[g] = Free
    BY <1>3 DEF DeductRead, expiryVars
  <2>3. \A j \in Inspectors : inspector'[j] = IF j = i THEN n ELSE inspector[j]
    BY <2>1, CitesTypes
  <2> QED BY <2>1, <2>2, <2>3 DEF HandlersOK, Apart
<1>4. ASSUME NEW i \in Inspectors, DeductWrite(i) PROVE HandlersOK' /\ Apart' /\ team' = team
  <2>1. \A j \in Inspectors : inspector'[j] = IF j = i THEN Free ELSE inspector[j]
    BY <1>4, CitesTypes DEF DeductWrite
  <2> QED BY <1>4, <2>1 DEF DeductWrite, HandlersOK, Apart, expiryVars
<1>5. ASSUME NEW g \in Migrators, MigrateRead(g) PROVE HandlersOK' /\ Apart' /\ team' = team
  <2>1. PICK n : migrator' = [migrator EXCEPT ![g] = n] BY <1>5 DEF MigrateRead
  <2>2. /\ g \in team /\ UNCHANGED <<cert, team, inspector>>
        /\ "cross" \in team \/ \A i \in Inspectors : inspector[i] = Free
    BY <1>5 DEF MigrateRead, expiryVars
  <2>3. \A h \in Migrators : migrator'[h] = IF h = g THEN n ELSE migrator[h]
    BY <2>1, CitesTypes
  <2> QED BY <2>2, <2>3 DEF HandlersOK, Apart
<1>6. ASSUME NEW g \in Migrators, MergeGroup(g) \/ Backfill(g) \/ MigrateEnd(g)
      PROVE  HandlersOK' /\ Apart' /\ team' = team
  <2>1. migrator[g] # Free /\ UNCHANGED <<team, inspector>>
    BY <1>6 DEF MergeGroup, Backfill, MigrateEnd, expiryVars
  <2>2. PICK n : migrator' = [migrator EXCEPT ![g] = n]
    BY <1>6 DEF MergeGroup, Backfill, MigrateEnd
  <2>3. \A h \in Migrators : h # g => migrator'[h] = migrator[h] BY <2>2, CitesTypes
  <2>4. \A i \in Inspectors : inspector[i] # Free => cert'[inspector[i].permit] # NoCert
    BY <1>1 DEF HandlersOK, RowsMove
  <2> QED BY <2>1, <2>3, <2>4 DEF HandlersOK, Apart
<1>7. ASSUME NEW p \in Permits, NEW s, NEW q, NEW used, Import(p, s, q, used)
      PROVE  UNCHANGED <<inspector, migrator, team>>
  BY <1>7 DEF Import
<1>8. ASSUME NEW p \in Permits, NEW quota, NEW s, CreateCitesPermit(p, quota, s)
      PROVE  UNCHANGED <<inspector, migrator, team>>
  BY <1>8 DEF CreateCitesPermit
<1> QED BY <1>2, <1>3, <1>4, <1>5, <1>6, <1>7, <1>8 DEF CitesNext

----------------------------------------------------------------------------
(* The quota                                                               *)

(* The bounds are numbers.                                                 *)
LEMMA SlackTyped ==
  /\ Racing \in Nat /\ Slack \in Nat /\ Max(Kg) \in Nat /\ \A k \in Kg : k \in Nat /\ k <= Max(Kg)
<1>1. \A k \in Kg : k \in Nat BY KgTyped
<1>2. \E k \in Kg : \A y \in Kg : k >= y
  <2>1. \A k \in Kg : k \in Int BY <1>1
  <2> QED BY <2>1, CitesAssumption, GreatestOf
<1>3. Max(Kg) \in Kg /\ \A k \in Kg : Max(Kg) >= k BY <1>2 DEF Max
<1>4. Racing \in Nat
  <2>1. CASE ~Working(Inspectors) BY <2>1 DEF Racing
  <2>2. CASE Working(Inspectors)
    <3>1. IsFiniteSet(team \cap Inspectors) BY CitesAssumption, FS_Subset
    <3>2. Cardinality(team \cap Inspectors) \in Nat /\ Cardinality(team \cap Inspectors) # 0
      BY <2>2, <3>1, FS_CardinalityType, FS_EmptySet DEF Working
    <3> QED BY <2>2, <3>2 DEF Racing
  <2> QED BY <2>1, <2>2
<1>5. Max(Kg) \in Nat BY <1>1, <1>3
<1>6. \A m, n \in Nat : m * n \in Nat OBVIOUS
<1>7. Slack \in Nat BY <1>4, <1>5, <1>6 DEF Slack
<1> QED BY <1>1, <1>3, <1>4, <1>5, <1>7

(* What all inspectors are about to add is no more than what one of them   *)
(* adds and the largest deduction of the others.                           *)
LEMMA DueWithin ==
  ASSUME NEW d, NEW i \in Inspectors, i \in team,
         \A j \in Inspectors : d[j] \in Nat /\ d[j] <= Max(Kg) /\ (j \notin team => d[j] = 0)
  PROVE  SumFunctionOnSet(d, Inspectors) <= d[i] + Slack
<1> DEFINE T == team \cap Inspectors
           zero == [j \in T |-> 0]
<1>1. IsFiniteSet(Inspectors) /\ IsFiniteSet(T) /\ IsFiniteSet(T \ {i}) /\ IsFiniteSet(Inspectors \ T)
  BY CitesAssumption, FS_Subset
<1>2. i \in T OBVIOUS
<1>3. Cardinality(T \ {i}) = Racing
  <2>1. Cardinality(T \ {i}) = Cardinality(T) - 1 BY <1>1, <1>2, FS_RemoveElement
  <2> QED BY <1>2, <2>1 DEF Racing, Working
<1>4. Max(Kg) \in Nat /\ Racing \in Nat BY SlackTyped
<1>5. SumFunctionOnSet(d, T \ {i}) <= Slack
  <2>1. SumFunctionOnSet(zero, T \ {i}) = 0 BY <1>1, SumZero
  <2>2. \A j \in T \ {i} : d[j] \in Int /\ zero[j] \in Int /\ d[j] <= zero[j] + Max(Kg) BY <1>4
  <2> HIDE DEF zero, T
  <2>3. SumFunctionOnSet(d, T \ {i}) <= SumFunctionOnSet(zero, T \ {i}) + Max(Kg) * Cardinality(T \ {i})
    BY <1>1, <1>4, <2>2, SumClose
  <2>4. Max(Kg) * Racing = Racing * Max(Kg) BY <1>4
  <2>5. SumFunctionOnSet(zero, T \ {i}) + Max(Kg) * Cardinality(T \ {i}) = Slack
    <3>1. Racing * Max(Kg) \in Nat BY SlackTyped DEF Slack
    <3> QED BY <1>3, <2>1, <2>4, <3>1 DEF Slack
  <2> QED BY <2>3, <2>5
<1>6. SumFunctionOnSet(d, T) = d[i] + SumFunctionOnSet(d, T \ {i})
  <2>1. \A j \in T : d[j] \in Int OBVIOUS
  <2> HIDE DEF T
  <2> QED BY <1>1, <1>2, <2>1, SumAt
<1>7. SumFunctionOnSet(d, Inspectors) = SumFunctionOnSet(d, T) + SumFunctionOnSet(d, Inspectors \ T)
  BY <1>1, SumSplit
<1>8. SumFunctionOnSet(d, Inspectors \ T) = 0 BY <1>1, SumZero
<1>9. SumFunctionOnSet(d, T \ {i}) \in Int /\ d[i] \in Int
  <2>1. \A j \in T \ {i} : d[j] \in Int OBVIOUS
  <2> HIDE DEF T
  <2> QED BY <1>1, <2>1, SumType
<1> HIDE DEF T
<1> QED BY <1>5, <1>6, <1>7, <1>8, <1>9, SlackTyped

(* What a deduction adds is one of Kg, or nothing.                         *)
LEMMA DueTyped ==
  ASSUME CitesTypeOK, HandlersOK, NEW p, NEW s
  PROVE  /\ \A i \in Inspectors :
              /\ PermitDue(p)[i] \in Nat /\ PermitDue(p)[i] <= Max(Kg)
              /\ LineDue(p, s)[i] \in Nat /\ LineDue(p, s)[i] <= Max(Kg)
              /\ i \notin team \/ inspector[i] = Free => PermitDue(p)[i] = 0 /\ LineDue(p, s)[i] = 0
         /\ SumFunctionOnSet(PermitDue(p), Inspectors) \in Nat
         /\ SumFunctionOnSet(LineDue(p, s), Inspectors) \in Nat
<1>1. ASSUME NEW i \in Inspectors
      PROVE  /\ PermitDue(p)[i] \in Nat /\ PermitDue(p)[i] <= Max(Kg)
             /\ LineDue(p, s)[i] \in Nat /\ LineDue(p, s)[i] <= Max(Kg)
             /\ i \notin team \/ inspector[i] = Free => PermitDue(p)[i] = 0 /\ LineDue(p, s)[i] = 0
  <2>1. inspector[i] # Free => inspector[i].kg \in Kg /\ i \in team
    BY CitesTypes DEF DeductionType, HandlersOK
  <2>2. PermitDue(p)[i] = Due(inspector[i], p) /\ LineDue(p, s)[i] = DueOf(inspector[i], p, s)
    BY DEF PermitDue, LineDue
  <2> QED BY <2>1, <2>2, SlackTyped DEF Due, DueOf
<1> QED BY <1>1, SumNat, CitesAssumption

(* Nobody deducts: nothing is about to be added.                           *)
LEMMA NothingDue ==
  ASSUME NEW p, NEW s,
         \A i \in Inspectors : inspector[i] = Free \/ inspector[i].permit # p
  PROVE  /\ SumFunctionOnSet(PermitDue(p), Inspectors) = 0
         /\ SumFunctionOnSet(LineDue(p, s), Inspectors) = 0
<1>1. \A i \in Inspectors : PermitDue(p)[i] = 0 /\ LineDue(p, s)[i] = 0
  BY DEF PermitDue, LineDue, Due, DueOf
<1> QED BY <1>1, SumZero, CitesAssumption

(* A row is written anew, and nobody deducts from it.                      *)
LEMMA QuotaNew ==
  ASSUME CitesTypeOK, HandlersOK, QuotaOK, NEW p \in Permits, cert[p] = NoCert,
         NEW x \in PermitType, x.used <= x.quota,
         permit' = [permit EXCEPT ![p] = x],
         NEW y \in [Species -> LineType], \A s \in Species : y[s].used <= y[s].quota,
         line' \in {line, [line EXCEPT ![p] = y]},
         UNCHANGED <<team, inspector, migrator>>
  PROVE  QuotaOK'
<1>1. \A q, s : (PermitDue(q)' = PermitDue(q)) /\ (LineDue(q, s)' = LineDue(q, s))
  BY DEF PermitDue, LineDue
<1>2. (Slack' = Slack) /\ (Racing' = Racing) BY DEF Slack, Racing, Working
<1>3. \A s : /\ SumFunctionOnSet(PermitDue(p), Inspectors) = 0
             /\ SumFunctionOnSet(LineDue(p, s), Inspectors) = 0
  BY NothingDue DEF HandlersOK
<1> SUFFICES ASSUME "cross" \notin team, Racing = 0 \/ ~Working(Migrators)
             PROVE
    /\ \A q \in Permits :
         permit'[q].used + SumFunctionOnSet(PermitDue(q), Inspectors) <= permit'[q].quota + Slack
    /\ \A q \in Permits, s \in Species :
         line'[q][s].used + SumFunctionOnSet(LineDue(q, s), Inspectors) <= line'[q][s].quota + Slack
    /\ \A g \in Migrators : migrator[g] # Free =>
         \A q \in Permits : migrator[g].seen[q].used <= migrator[g].seen[q].quota
  BY <1>1, <1>2 DEF QuotaOK, Working
<1>4. ASSUME NEW q \in Permits
      PROVE  permit'[q].used + SumFunctionOnSet(PermitDue(q), Inspectors) <= permit'[q].quota + Slack
  <2>1. CASE q = p
    <3>1. permit'[p] = x BY CitesTypes
    <3>2. x.used \in Nat /\ x.quota \in Nat BY DEF PermitType
    <3> QED BY <1>3, <2>1, <3>1, <3>2, SlackTyped
  <2>2. CASE q # p
    <3>1. permit'[q] = permit[q] BY <2>2, CitesTypes
    <3> QED BY <3>1 DEF QuotaOK
  <2> QED BY <2>1, <2>2
<1>5. ASSUME NEW q \in Permits, NEW s \in Species
      PROVE  line'[q][s].used + SumFunctionOnSet(LineDue(q, s), Inspectors) <= line'[q][s].quota + Slack
  <2>1. CASE line'[q] = line[q] BY <2>1 DEF QuotaOK
  <2>2. CASE q = p /\ line'[p] = y
    <3>1. y[s].used \in Nat /\ y[s].quota \in Nat BY DEF LineType
    <3> QED BY <1>3, <2>2, <3>1, SlackTyped
  <2>3. line'[q] = line[q] \/ (q = p /\ line'[p] = y) BY CitesTypes
  <2> QED BY <2>1, <2>2, <2>3
<1> QED BY <1>4, <1>5 DEF QuotaOK

(* A row is registered.                                                    *)
LEMMA QuotaRegister ==
  ASSUME CitesTypeOK, HandlersOK, QuotaOK, NEW p \in Permits, NEW s \in Species,
         \/ \E q \in Kg, used \in Kg \cup {0} : Import(p, s, q, used)
         \/ \E quota \in [Species -> Kg \cup {0}] : CreateCitesPermit(p, quota, s)
  PROVE  QuotaOK'
<1>1. ASSUME NEW q \in Kg, NEW used \in Kg \cup {0}, Import(p, s, q, used)
      PROVE  QuotaOK'
  <2> DEFINE x == [species |-> s, quota |-> q, used |-> used]
             y == [z \in Species |-> [quota |-> 0, used |-> 0]]
  <2>1. x \in PermitType /\ x.used <= x.quota BY <1>1, CitesAssumption DEF PermitType, Import
  <2>2. y \in [Species -> LineType] /\ \A z \in Species : y[z].used <= y[z].quota BY DEF LineType
  <2>3. /\ cert[p] = NoCert /\ permit' = [permit EXCEPT ![p] = x]
        /\ UNCHANGED <<line, team, inspector, migrator>>
    BY <1>1 DEF Import, Upcoming
  <2> HIDE DEF x, y
  <2> QED BY <2>1, <2>2, <2>3, QuotaNew
<1>2. ASSUME NEW quota \in [Species -> Kg \cup {0}], CreateCitesPermit(p, quota, s)
      PROVE  QuotaOK'
  <2> DEFINE x == [species |-> s, quota |-> SumFunction(quota), used |-> 0]
             y == [z \in Species |-> [quota |-> quota[z], used |-> 0]]
  <2>1. quota \in [Species -> Nat]
    <3>1. \A k \in Kg \cup {0} : k \in Nat BY KgTyped
    <3> QED BY <3>1
  <2>2. SumFunction(quota) \in Nat BY <2>1, TotalsTyped
  <2>3. x \in PermitType /\ x.used <= x.quota BY <2>2 DEF PermitType
  <2>4. y \in [Species -> LineType] /\ \A z \in Species : y[z].used <= y[z].quota
    BY <2>1 DEF LineType
  <2>5. /\ cert[p] = NoCert /\ permit' = [permit EXCEPT ![p] = x] /\ line' = [line EXCEPT ![p] = y]
        /\ UNCHANGED <<team, inspector, migrator>>
    BY <1>2 DEF CreateCitesPermit, Upcoming
  <2> HIDE DEF x, y
  <2> QED BY <2>3, <2>4, <2>5, QuotaNew
<1> QED BY <1>1, <1>2

(* A deduction reads: what it may add fits the quota by itself.            *)
LEMMA QuotaRead ==
  ASSUME CitesTypeOK, HandlersOK, QuotaOK, CitesTypeOK', HandlersOK', NEW i \in Inspectors,
         NEW p \in Permits, NEW kg \in Kg, NEW s \in Species \cup {"none"}, DeductRead(i, p, kg, s)
  PROVE  QuotaOK'
<1> DEFINE n == [at |-> "deduct", permit |-> p, kg |-> kg, meant |-> Meant(p, s),
                 seen |-> permit[p], lines |-> line[p]]
<1>1. /\ inspector[i] = Free /\ inspector' = [inspector EXCEPT ![i] = n] /\ i \in team
      /\ UNCHANGED <<permit, line, team, migrator>>
  BY DEF DeductRead
<1>2. /\ n.permit = p /\ n.kg = kg /\ n.seen = permit[p] /\ n.lines = line[p] OBVIOUS
<1> HIDE DEF n
<1>3. inspector'[i] = n /\ \A j \in Inspectors \ {i} : inspector'[j] = inspector[j]
  BY <1>1, CitesTypes
<1>4. (Slack' = Slack) /\ (Racing' = Racing) BY <1>1 DEF Slack, Racing, Working
<1>5. \A q, z : /\ PermitDue(q)'[i] = Due(n, q) /\ LineDue(q, z)'[i] = DueOf(n, q, z)
                /\ PermitDue(q)[i] = 0 /\ LineDue(q, z)[i] = 0
                /\ \A j \in Inspectors \ {i} : /\ PermitDue(q)'[j] = PermitDue(q)[j]
                                               /\ LineDue(q, z)'[j] = LineDue(q, z)[j]
  BY <1>1, <1>3 DEF PermitDue, LineDue, Due, DueOf
<1>6. \A q, z : /\ \A j \in Inspectors :
                     /\ PermitDue(q)'[j] \in Nat /\ PermitDue(q)'[j] <= Max(Kg)
                     /\ LineDue(q, z)'[j] \in Nat /\ LineDue(q, z)'[j] <= Max(Kg)
                     /\ j \notin team => PermitDue(q)'[j] = 0 /\ LineDue(q, z)'[j] = 0
  <2>1. \A q, z : /\ \A j \in Inspectors :
                     /\ PermitDue(q)[j] \in Nat /\ PermitDue(q)[j] <= Max(Kg)
                     /\ LineDue(q, z)[j] \in Nat /\ LineDue(q, z)[j] <= Max(Kg)
                     /\ j \notin team => PermitDue(q)[j] = 0 /\ LineDue(q, z)[j] = 0
    BY DueTyped
  <2>2. \A q, z : Due(n, q) \in {0, kg} /\ DueOf(n, q, z) \in {0, kg}
    BY <1>2 DEF Due, DueOf
  <2>3. kg \in Nat /\ kg <= Max(Kg) BY SlackTyped
  <2> QED BY <1>1, <1>5, <2>1, <2>2, <2>3, SlackTyped
<1> SUFFICES ASSUME "cross" \notin team, Racing = 0 \/ ~Working(Migrators)
             PROVE
    /\ \A q \in Permits :
         permit[q].used + SumFunctionOnSet(PermitDue(q)', Inspectors) <= permit[q].quota + Slack
    /\ \A q \in Permits, z \in Species :
         line[q][z].used + SumFunctionOnSet(LineDue(q, z)', Inspectors) <= line[q][z].quota + Slack
    /\ \A g \in Migrators : migrator[g] # Free =>
         \A q \in Permits : migrator[g].seen[q].used <= migrator[g].seen[q].quota
  BY <1>1, <1>4 DEF QuotaOK, Working
<1>7. ASSUME NEW q \in Permits
      PROVE  permit[q].used + SumFunctionOnSet(PermitDue(q)', Inspectors) <= permit[q].quota + Slack
  <2>1. CASE Due(n, q) = 0
    <3>1. \A j \in Inspectors : PermitDue(q)'[j] = PermitDue(q)[j] BY <1>5, <2>1
    <3>2. SumFunctionOnSet(PermitDue(q)', Inspectors) = SumFunctionOnSet(PermitDue(q), Inspectors)
      BY <3>1, SumEqual, CitesAssumption
    <3> QED BY <3>2 DEF QuotaOK
  <2>2. CASE Due(n, q) # 0
    <3>1. q = p /\ Due(n, q) = kg /\ permit[p].quota - permit[p].used >= kg
      BY <1>2, <2>2 DEF Due, Remains
    <3>2. SumFunctionOnSet(PermitDue(q)', Inspectors) <= PermitDue(q)'[i] + Slack
      BY <1>1, <1>6, DueWithin
    <3>3. permit[p].quota \in Nat /\ permit[p].used \in Nat /\ kg \in Nat
      BY CitesTypes, SlackTyped DEF PermitType
    <3>4. SumFunctionOnSet(PermitDue(q)', Inspectors) \in Nat BY <1>6, SumNat, CitesAssumption
    <3> QED BY <1>5, <3>1, <3>2, <3>3, <3>4, SlackTyped
  <2> QED BY <2>1, <2>2
<1>8. ASSUME NEW q \in Permits, NEW z \in Species
      PROVE  line[q][z].used + SumFunctionOnSet(LineDue(q, z)', Inspectors) <= line[q][z].quota + Slack
  <2>1. CASE DueOf(n, q, z) = 0
    <3>1. \A j \in Inspectors : LineDue(q, z)'[j] = LineDue(q, z)[j] BY <1>5, <2>1
    <3>2. SumFunctionOnSet(LineDue(q, z)', Inspectors) = SumFunctionOnSet(LineDue(q, z), Inspectors)
      BY <3>1, SumEqual, CitesAssumption
    <3> QED BY <3>2 DEF QuotaOK
  <2>2. CASE DueOf(n, q, z) # 0
    <3>1. q = p /\ DueOf(n, q, z) = kg /\ line[p][z].quota - line[p][z].used >= kg
      BY <1>2, <2>2 DEF DueOf, Remains
    <3>2. SumFunctionOnSet(LineDue(q, z)', Inspectors) <= LineDue(q, z)'[i] + Slack
      BY <1>1, <1>6, DueWithin
    <3>3. line[p][z].quota \in Nat /\ line[p][z].used \in Nat /\ kg \in Nat
      BY CitesTypes, SlackTyped DEF LineType
    <3>4. SumFunctionOnSet(LineDue(q, z)', Inspectors) \in Nat BY <1>6, SumNat, CitesAssumption
    <3> QED BY <1>5, <3>1, <3>2, <3>3, <3>4, SlackTyped
  <2> QED BY <2>1, <2>2
<1> QED BY <1>7, <1>8 DEF QuotaOK

(* A deduction writes what it was about to add.                            *)
LEMMA QuotaWrite ==
  ASSUME CitesTypeOK, HandlersOK, QuotaOK, CitesTypeOK', HandlersOK', NEW i \in Inspectors,
         DeductWrite(i)
  PROVE  QuotaOK'
<1>1. PICK f : f = inspector[i] OBVIOUS
<1>2. f.at = "deduct" /\ inspector' = [inspector EXCEPT ![i] = Free] /\ UNCHANGED <<team, migrator>>
  BY <1>1 DEF DeductWrite
<1>3. f \in DeductionType /\ f # Free BY <1>1, <1>2, CitesTypes DEF Free
<1>4. f.permit \in Permits /\ f.kg \in Nat BY <1>3, CitesAssumption DEF DeductionType
<1>5. inspector'[i] = Free /\ \A j \in Inspectors \ {i} : inspector'[j] = inspector[j]
  BY <1>2, CitesTypes
<1>6. (Slack' = Slack) /\ (Racing' = Racing) BY <1>2 DEF Slack, Racing, Working
<1>7. ASSUME NEW q, NEW z
      PROVE  /\ SumFunctionOnSet(PermitDue(q)', Inspectors) =
                  SumFunctionOnSet(PermitDue(q), Inspectors) - Due(f, q)
             /\ SumFunctionOnSet(LineDue(q, z)', Inspectors) =
                  SumFunctionOnSet(LineDue(q, z), Inspectors) - DueOf(f, q, z)
  <2>1. /\ PermitDue(q)'[i] = 0 /\ LineDue(q, z)'[i] = 0
        /\ PermitDue(q)[i] = Due(f, q) /\ LineDue(q, z)[i] = DueOf(f, q, z)
        /\ \A j \in Inspectors \ {i} : /\ PermitDue(q)'[j] = PermitDue(q)[j]
                                       /\ LineDue(q, z)'[j] = LineDue(q, z)[j]
    BY <1>1, <1>5 DEF PermitDue, LineDue, Due, DueOf
  <2>2. \A j \in Inspectors : PermitDue(q)[j] \in Int /\ LineDue(q, z)[j] \in Int BY DueTyped
  <2>3. \A j \in Inspectors : PermitDue(q)'[j] \in Int /\ LineDue(q, z)'[j] \in Int BY <2>1, <2>2
  <2>4. /\ SumFunctionOnSet(PermitDue(q)', Inspectors) =
             SumFunctionOnSet(PermitDue(q), Inspectors) + PermitDue(q)'[i] - PermitDue(q)[i]
        /\ SumFunctionOnSet(LineDue(q, z)', Inspectors) =
             SumFunctionOnSet(LineDue(q, z), Inspectors) + LineDue(q, z)'[i] - LineDue(q, z)[i]
    <3>1. PICK a, b, c, d : /\ a = PermitDue(q) /\ b = PermitDue(q)'
                            /\ c = LineDue(q, z) /\ d = LineDue(q, z)'
      OBVIOUS
    <3>2. /\ \A j \in Inspectors : a[j] \in Int /\ b[j] \in Int /\ c[j] \in Int /\ d[j] \in Int
          /\ \A j \in Inspectors \ {i} : b[j] = a[j] /\ d[j] = c[j]
      BY <2>1, <2>2, <2>3, <3>1
    <3>3. /\ SumFunctionOnSet(b, Inspectors) = SumFunctionOnSet(a, Inspectors) + b[i] - a[i]
          /\ SumFunctionOnSet(d, Inspectors) = SumFunctionOnSet(c, Inspectors) + d[i] - c[i]
      <4>1. IsFiniteSet(Inspectors) BY CitesAssumption
      <4>2. SumFunctionOnSet(b, Inspectors) = SumFunctionOnSet(a, Inspectors) + b[i] - a[i]
        BY <3>2, <4>1, SumChanges
      <4>3. SumFunctionOnSet(d, Inspectors) = SumFunctionOnSet(c, Inspectors) + d[i] - c[i]
        BY <3>2, <4>1, SumChanges
      <4> QED BY <4>2, <4>3
    <3> QED BY <3>1, <3>3
  <2>5. /\ SumFunctionOnSet(PermitDue(q), Inspectors) \in Nat
        /\ SumFunctionOnSet(LineDue(q, z), Inspectors) \in Nat
    BY DueTyped
  <2>6. Due(f, q) \in Nat /\ DueOf(f, q, z) \in Nat BY <1>4 DEF Due, DueOf
  <2> QED BY <2>1, <2>4, <2>5, <2>6
<1>8. ASSUME NEW q \in Permits
      PROVE  /\ permit'[q].used = permit[q].used + Due(f, q) /\ permit'[q].quota = permit[q].quota
             /\ \A z \in Species :
                  /\ line'[q][z].used = line[q][z].used + DueOf(f, q, z)
                  /\ line'[q][z].quota = line[q][z].quota
  <2>1. /\ permit[q].used \in Nat /\ \A z \in Species : line[q][z].used \in Nat
        /\ permit[q] \in PermitType
        /\ line[q] \in [Species -> LineType]
    BY CitesTypes DEF PermitType, LineType
  <2>2. CASE ~Remains(f)
    <3>1. permit' = permit /\ line' = line BY <1>1, <2>2 DEF DeductWrite
    <3>2. Due(f, q) = 0 /\ \A z \in Species : DueOf(f, q, z) = 0 BY <2>2 DEF Due, DueOf
    <3> QED BY <2>1, <3>1, <3>2
  <2>3. CASE Remains(f)
    <3>1. Deducted(f) BY <1>1, <2>3 DEF DeductWrite
    <3> DEFINE x == [permit[f.permit] EXCEPT !.used = @ + f.kg]
               y == [s \in Species |->
                       IF s \in f.meant
                       THEN [quota |-> line[f.permit][s].quota, used |-> line[f.permit][s].used + f.kg]
                       ELSE line[f.permit][s]]
    <3>2. permit' = [permit EXCEPT ![f.permit] = x] /\ line' = [line EXCEPT ![f.permit] = y]
      BY <3>1 DEF Deducted
    <3>3. CASE q # f.permit
      <4>1. permit'[q] = permit[q] /\ line'[q] = line[q] BY <3>2, <3>3, CitesTypes
      <4>2. Due(f, q) = 0 /\ \A z \in Species : DueOf(f, q, z) = 0 BY <3>3 DEF Due, DueOf
      <4> QED BY <2>1, <4>1, <4>2
    <3>4. CASE q = f.permit
      <4>1. permit'[q] = x /\ line'[q] = y
        <5> HIDE DEF x, y
        <5> QED BY <1>4, <3>2, <3>4, CitesTypes
      <4>2. x.used = permit[q].used + f.kg /\ x.quota = permit[q].quota BY <2>1, <3>4 DEF PermitType
      <4>3. Due(f, q) = f.kg /\ \A z : DueOf(f, q, z) = IF z \in f.meant THEN f.kg ELSE 0
        BY <1>3, <2>3, <3>4 DEF Due, DueOf
      <4>4. \A z \in Species : /\ y[z].used = line[q][z].used + DueOf(f, q, z)
                               /\ y[z].quota = line[q][z].quota
        BY <2>1, <3>4, <4>3
      <4> HIDE DEF x, y
      <4> QED BY <4>1, <4>2, <4>3, <4>4
    <3> QED BY <3>3, <3>4
  <2> QED BY <2>2, <2>3
<1> SUFFICES ASSUME "cross" \notin team, Racing = 0 \/ ~Working(Migrators)
             PROVE
    /\ \A q \in Permits :
         permit'[q].used + SumFunctionOnSet(PermitDue(q)', Inspectors) <= permit'[q].quota + Slack
    /\ \A q \in Permits, z \in Species :
         line'[q][z].used + SumFunctionOnSet(LineDue(q, z)', Inspectors) <= line'[q][z].quota + Slack
    /\ \A g \in Migrators : migrator[g] # Free =>
         \A q \in Permits : migrator[g].seen[q].used <= migrator[g].seen[q].quota
  BY <1>2, <1>6 DEF QuotaOK, Working
<1>9. \A a, b, c \in Nat : (a + b) + (c - b) = a + c OBVIOUS
<1>10. ASSUME NEW q \in Permits
       PROVE  permit'[q].used + SumFunctionOnSet(PermitDue(q)', Inspectors) <= permit'[q].quota + Slack
  <2>1. permit[q].used \in Nat BY CitesTypes DEF PermitType
  <2>2. Due(f, q) \in Nat BY <1>4 DEF Due
  <2>3. SumFunctionOnSet(PermitDue(q), Inspectors) \in Nat BY DueTyped
  <2>4. permit'[q].used + SumFunctionOnSet(PermitDue(q)', Inspectors) =
          permit[q].used + SumFunctionOnSet(PermitDue(q), Inspectors)
    BY <1>7, <1>8, <1>9, <2>1, <2>2, <2>3
  <2> QED BY <1>8, <2>4 DEF QuotaOK
<1>11. ASSUME NEW q \in Permits, NEW z \in Species
       PROVE  line'[q][z].used + SumFunctionOnSet(LineDue(q, z)', Inspectors) <= line'[q][z].quota + Slack
  <2>1. line[q][z].used \in Nat BY CitesTypes DEF LineType
  <2>2. DueOf(f, q, z) \in Nat BY <1>4 DEF DueOf
  <2>3. SumFunctionOnSet(LineDue(q, z), Inspectors) \in Nat BY DueTyped
  <2>4. line'[q][z].used + SumFunctionOnSet(LineDue(q, z)', Inspectors) =
          line[q][z].used + SumFunctionOnSet(LineDue(q, z), Inspectors)
    BY <1>7, <1>8, <1>9, <2>1, <2>2, <2>3
  <2> QED BY <1>8, <2>4 DEF QuotaOK
<1> QED BY <1>10, <1>11 DEF QuotaOK

(* What a merge writes, by its rows.                                       *)
LEMMA MergedIs ==
  ASSUME CitesTypeOK, NEW f \in MigrationType, NEW list \in SUBSET Permits, list # {}
  PROVE  /\ Primary(list) \in list
         /\ \A q \in Permits \ {Primary(list)} :
              Merged(f, list)[q] = permit[q] /\ MergedLines(f, list)[q] = line[q]
         /\ Merged(f, list)[Primary(list)].species = permit[Primary(list)].species
         /\ Merged(f, list)[Primary(list)].quota = SumFunction([q \in list |-> f.seen[q].quota])
         /\ Merged(f, list)[Primary(list)].used = SumFunction([q \in list |-> f.seen[q].used])
<1>1. PICK p : p = Primary(list) OBVIOUS
<1>2. p \in list /\ p \in Permits BY <1>1, PrimaryIn
<1>3. PICK quota, used : /\ quota = SumFunction([q \in list |-> f.seen[q].quota])
                         /\ used = SumFunction([q \in list |-> f.seen[q].used])
  OBVIOUS
<1>4. Merged(f, list) = [permit EXCEPT ![p].quota = quota, ![p].used = used]
  BY <1>1, <1>3 DEF Merged
<1>5. permit[p] \in PermitType BY <1>2, CitesTypes
<1> DEFINE x == [permit[p] EXCEPT !.quota = quota, !.used = used]
<1>6. x.species = permit[p].species /\ x.quota = quota /\ x.used = used BY <1>5 DEF PermitType
<1>7. Merged(f, list) = [permit EXCEPT ![p] = x] BY <1>2, <1>4, CitesTypes
<1> HIDE DEF x
<1>8. /\ \A q \in Permits \ {p} : Merged(f, list)[q] = permit[q]
      /\ Merged(f, list)[p] = x
  BY <1>2, <1>7, CitesTypes
<1>9. PICK y : MergedLines(f, list) = [line EXCEPT ![p] = y]
  BY <1>1, Zenon DEF MergedLines
<1>10. \A q \in Permits \ {p} : MergedLines(f, list)[q] = line[q]
  BY <1>2, <1>9, CitesTypes
<1> QED BY <1>1, <1>2, <1>3, <1>6, <1>8, <1>10

(* ... and by its lines.                                                   *)
LEMMA MergedLineIs ==
  ASSUME CitesTypeOK, NEW f \in MigrationType, NEW list \in SUBSET Permits, list # {},
         NEW p, p = Primary(list), NEW s \in Species, NEW same,
         same = {q \in list : f.seen[q].species = s}
  PROVE  /\ line[p][s] # NoLine \/ same = {} => MergedLines(f, list)[p][s] = line[p][s]
         /\ line[p][s] = NoLine /\ same # {} =>
              \E r \in same : MergedLines(f, list)[p][s] =
                              [quota |-> f.seen[r].quota, used |-> f.seen[r].used]
<1>1. p \in list /\ p \in Permits BY PrimaryIn
<1> DEFINE l(z) ==
             LET r == {q \in list : f.seen[q].species = z}
             IN  IF line[p][z] # NoLine \/ r = {} THEN line[p][z]
                 ELSE [quota |-> f.seen[Primary(r)].quota, used |-> f.seen[Primary(r)].used]
           y == [z \in Species |-> l(z)]
<1>2. MergedLines(f, list) = [line EXCEPT ![p] = y] BY DEF MergedLines
<1>3. y[s] = l(s) OBVIOUS
<1>4. MergedLines(f, list)[p] = y
  <2> HIDE DEF y
  <2> QED BY <1>1, <1>2, CitesTypes
<1>5. l(s) = IF line[p][s] # NoLine \/ same = {} THEN line[p][s]
             ELSE [quota |-> f.seen[Primary(same)].quota, used |-> f.seen[Primary(same)].used]
  BY Zenon
<1>6. same # {} => Primary(same) \in same BY PrimaryIn
<1> HIDE DEF l, y
<1> QED BY <1>3, <1>4, <1>5, <1>6

(* The script reads, merges or ends: sums of what fits their quotas fit    *)
(* theirs.                                                                 *)
LEMMA QuotaMigrate ==
  ASSUME CitesTypeOK, HandlersOK, Apart, QuotaOK, NEW g \in Migrators,
         MigrateRead(g) \/ MergeGroup(g) \/ Backfill(g) \/ MigrateEnd(g)
  PROVE  QuotaOK'
<1>1. UNCHANGED <<team, inspector>>
  BY DEF MigrateRead, MergeGroup, Backfill, MigrateEnd, expiryVars
<1>2. \A q, s : (PermitDue(q)' = PermitDue(q)) /\ (LineDue(q, s)' = LineDue(q, s))
  BY <1>1 DEF PermitDue, LineDue
<1>3. (Slack' = Slack) /\ (Racing' = Racing) BY <1>1 DEF Slack, Racing, Working
<1>4. g \in team
  BY DEF MigrateRead, MergeGroup, Backfill, MigrateEnd, HandlersOK
<1> SUFFICES ASSUME "cross" \notin team, Racing = 0
             PROVE
    /\ \A q \in Permits :
         permit'[q].used + SumFunctionOnSet(PermitDue(q), Inspectors) <= permit'[q].quota + Slack
    /\ \A q \in Permits, z \in Species :
         line'[q][z].used + SumFunctionOnSet(LineDue(q, z), Inspectors) <= line'[q][z].quota + Slack
    /\ \A h \in Migrators : migrator'[h] # Free =>
         \A q \in Permits : migrator'[h].seen[q].used <= migrator'[h].seen[q].quota
  BY <1>1, <1>2, <1>3, <1>4 DEF QuotaOK, Working
<1>5. Slack = 0 BY SlackTyped DEF Slack
<1>6. \A q \in Permits : /\ permit[q].used \in Nat /\ permit[q].quota \in Nat
                         /\ \A z \in Species : line[q][z].used \in Nat /\ line[q][z].quota \in Nat
  BY CitesTypes DEF PermitType, LineType
<1>7. /\ \A q \in Permits : permit[q].used <= permit[q].quota
      /\ \A q \in Permits, z \in Species : line[q][z].used <= line[q][z].quota
  <2>1. ASSUME NEW q \in Permits PROVE permit[q].used <= permit[q].quota
    <3>1. SumFunctionOnSet(PermitDue(q), Inspectors) \in Nat BY DueTyped
    <3>2. permit[q].used + SumFunctionOnSet(PermitDue(q), Inspectors) <= permit[q].quota + Slack
      BY DEF QuotaOK
    <3> QED BY <1>5, <1>6, <3>1, <3>2
  <2>2. ASSUME NEW q \in Permits, NEW z \in Species PROVE line[q][z].used <= line[q][z].quota
    <3>1. SumFunctionOnSet(LineDue(q, z), Inspectors) \in Nat BY DueTyped
    <3>2. line[q][z].used + SumFunctionOnSet(LineDue(q, z), Inspectors) <= line[q][z].quota + Slack
      BY DEF QuotaOK
    <3>3. line[q][z].used \in Nat /\ line[q][z].quota \in Nat BY <1>6
    <3> QED BY <1>5, <3>1, <3>2, <3>3
  <2> QED BY <2>1, <2>2
<1>8. ASSUME MigrateRead(g)
      PROVE  \A h \in Migrators : migrator'[h] # Free =>
               \A q \in Permits : migrator'[h].seen[q].used <= migrator'[h].seen[q].quota
  <2>1. PICK n : n.seen = permit /\ migrator' = [migrator EXCEPT ![g] = n] BY <1>8 DEF MigrateRead
  <2>2. \A h \in Migrators : migrator'[h] = IF h = g THEN n ELSE migrator[h] BY <2>1, CitesTypes
  <2> QED BY <1>7, <2>1, <2>2 DEF QuotaOK
<1>9. CASE MigrateRead(g) \/ MigrateEnd(g)
  <2>1. \A h \in Migrators : migrator'[h] # Free =>
               \A q \in Permits : migrator'[h].seen[q].used <= migrator'[h].seen[q].quota
    <3>1. ASSUME MigrateEnd(g), NEW h \in Migrators, migrator'[h] # Free
          PROVE  migrator'[h] = migrator[h]
      BY <3>1, CitesTypes DEF MigrateEnd
    <3> QED BY <1>8, <1>9, <3>1 DEF QuotaOK
  <2>2. UNCHANGED <<permit, line>> BY <1>9 DEF MigrateRead, MigrateEnd
  <2> QED BY <2>1, <2>2 DEF QuotaOK
<1>10. CASE MergeGroup(g) \/ Backfill(g)
  <2>1. migrator[g] # Free BY <1>10 DEF MergeGroup, Backfill
  <2>0. PICK f : f = migrator[g] OBVIOUS
  <2>2. PICK list \in f.left :
          /\ Cardinality(list) # 0
          /\ migrator' = [migrator EXCEPT ![g].left = @ \ {list}]
          /\ permit' \in {permit, Merged(f, list)} /\ line' \in {line, MergedLines(f, list)}
    BY <1>10, <2>0 DEF MergeGroup, Backfill
  <2>3. f \in MigrationType BY <2>0, <2>1, CitesTypes
  <2>4. list \in SUBSET Permits /\ list # {} /\ IsFiniteSet(list)
    BY <2>2, <2>3, CitesAssumption, FS_Subset, FS_EmptySet DEF MigrationType
  <2>5. \A q \in Permits : /\ f.seen[q].used <= f.seen[q].quota
                           /\ f.seen[q].used \in Nat /\ f.seen[q].quota \in Nat
    BY <2>0, <2>1, <2>3 DEF QuotaOK, MigrationType, PermitType
  <2>6. \A q, s : /\ SumFunctionOnSet(PermitDue(q), Inspectors) = 0
                  /\ SumFunctionOnSet(LineDue(q, s), Inspectors) = 0
    BY <2>1, NothingDue DEF Apart
  <2>7. SumFunction([q \in list |-> f.seen[q].used]) <= SumFunction([q \in list |-> f.seen[q].quota])
    <3> DEFINE a == [q \in list |-> f.seen[q].used]
               b == [q \in list |-> f.seen[q].quota]
    <3>1. \A q \in list : a[q] \in Int /\ b[q] \in Int /\ a[q] <= b[q] BY <2>4, <2>5
    <3>2. DOMAIN a = list /\ DOMAIN b = list OBVIOUS
    <3> HIDE DEF a, b
    <3>3. SumFunctionOnSet(a, list) <= SumFunctionOnSet(b, list) BY <2>4, <3>1, SumAtMost
    <3> QED BY <3>2, <3>3 DEF a, b, SumFunction
  <2>8. \A q \in Permits : /\ permit'[q].used <= permit'[q].quota
                           /\ permit'[q].used \in Nat /\ permit'[q].quota \in Nat
    <3>1. \A q \in Permits : Merged(f, list)[q].used <= Merged(f, list)[q].quota
      BY <1>7, <2>3, <2>4, <2>7, MergedIs
    <3>2. Merged(f, list) \in [Permits -> PermitType] BY <2>3, <2>4, MergesTyped
    <3>3. \A q \in Permits : Merged(f, list)[q].used \in Nat /\ Merged(f, list)[q].quota \in Nat
      BY <3>2 DEF PermitType
    <3> QED BY <1>6, <1>7, <2>2, <3>1, <3>3
  <2>9. \A q \in Permits, s \in Species :
           /\ line'[q][s].used <= line'[q][s].quota
           /\ line'[q][s].used \in Nat /\ line'[q][s].quota \in Nat
    <3>1. ASSUME NEW q \in Permits, NEW s \in Species
          PROVE  MergedLines(f, list)[q][s].used <= MergedLines(f, list)[q][s].quota
      <4>1. CASE MergedLines(f, list)[q][s] = line[q][s] BY <1>7, <4>1
      <4>2. CASE \E r \in list : MergedLines(f, list)[q][s] =
                                   [quota |-> f.seen[r].quota, used |-> f.seen[r].used]
        BY <2>4, <2>5, <4>2
      <4>3. \/ MergedLines(f, list)[q][s] = line[q][s]
            \/ \E r \in list : MergedLines(f, list)[q][s] =
                                   [quota |-> f.seen[r].quota, used |-> f.seen[r].used]
        <5>0. \A r \in Permits \ {Primary(list)} : MergedLines(f, list)[r] = line[r]
          BY <2>3, <2>4, MergedIs
        <5>1. CASE q # Primary(list)
          <6>1. MergedLines(f, list)[q] = line[q] BY <5>0, <5>1
          <6> QED BY <6>1
        <5>2. CASE q = Primary(list)
          <6> DEFINE same == {r \in list : f.seen[r].species = s}
          <6>1. PICK r : r = same OBVIOUS
          <6>2. r \subseteq list BY <6>1
          <6> HIDE DEF same
          <6>3. r = {k \in list : f.seen[k].species = s} BY <6>1 DEF same
          <6>4. /\ line[q][s] # NoLine \/ r = {} => MergedLines(f, list)[q][s] = line[q][s]
                /\ line[q][s] = NoLine /\ r # {} =>
                     \E k \in r : MergedLines(f, list)[q][s] =
                                    [quota |-> f.seen[k].quota, used |-> f.seen[k].used]
            BY <2>3, <2>4, <5>2, <6>3, MergedLineIs
          <6> QED BY <6>2, <6>4
        <5> QED BY <5>1, <5>2
      <4> QED BY <4>1, <4>2, <4>3
    <3>2. MergedLines(f, list) \in [Permits -> [Species -> LineType]] BY <2>3, <2>4, MergesTyped
    <3>3. \A q \in Permits, s \in Species :
            MergedLines(f, list)[q][s].used \in Nat /\ MergedLines(f, list)[q][s].quota \in Nat
      BY <3>2 DEF LineType
    <3> QED BY <1>6, <1>7, <2>2, <3>1, <3>3
  <2>10. ASSUME NEW h \in Migrators, migrator'[h] # Free, NEW q \in Permits
         PROVE  migrator'[h].seen[q].used <= migrator'[h].seen[q].quota
    <3>1. migrator[h] # Free /\ migrator'[h].seen = migrator[h].seen
      BY <2>0, <2>1, <2>2, <2>3, <2>10, CitesTypes DEF MigrationType
    <3> QED BY <3>1 DEF QuotaOK
  <2> QED BY <1>5, <2>6, <2>8, <2>9, <2>10
<1> QED BY <1>9, <1>10

----------------------------------------------------------------------------
(* The lines                                                               *)

(* A row is written anew: nobody has seen it.                              *)
LEMMA LinesNew ==
  ASSUME CitesTypeOK, HandlersOK, LinesHold, NEW p \in Permits, cert[p] = NoCert,
         \A q \in Permits \ {p} : cert'[q] = cert[q] /\ permit'[q] = permit[q] /\ line'[q] = line[q],
         UNCHANGED <<inspector, migrator>>, RowOK(p)',
         \A q \in Permits : Base[q] = Base[p] => SpeciesOf(q) \cap SpeciesOf(p)' = {}
  PROVE  LinesHold'
<1>1. \A q \in Permits \ {p} : (Lines(q)' = Lines(q)) /\ (SpeciesOf(q)' = SpeciesOf(q))
  BY DEF Lines, SpeciesOf
<1>2. ASSUME NEW q \in Permits PROVE RowOK(q)'
  <2>1. CASE q = p BY <2>1
  <2>2. CASE q # p
    <3>1. RowOK(q) /\ cert'[q] = cert[q] /\ permit'[q] = permit[q] /\ line'[q] = line[q]
      BY <2>2 DEF LinesHold
    <3> QED BY <1>1, <2>2, <3>1 DEF RowOK
  <2> QED BY <2>1, <2>2
<1>3. RowsApart'
  <2> SUFFICES ASSUME NEW q \in Permits, NEW r \in Permits, cert'[q].live, cert'[r].live,
                      q # r, Base[q] = Base[r]
               PROVE  SpeciesOf(q)' \cap SpeciesOf(r)' = {}
    BY DEF RowsApart
  <2>1. CASE q = p
    <3>1. SpeciesOf(r)' = SpeciesOf(r) BY <1>1, <2>1
    <3>2. SpeciesOf(r) \cap SpeciesOf(p)' = {} BY <2>1
    <3> QED BY <2>1, <3>1, <3>2
  <2>2. CASE r = p
    <3>1. SpeciesOf(q)' = SpeciesOf(q) BY <1>1, <2>2
    <3>2. SpeciesOf(q) \cap SpeciesOf(p)' = {} BY <2>2
    <3> QED BY <2>2, <3>1, <3>2
  <2>3. CASE q # p /\ r # p
    <3>1. (SpeciesOf(q)' = SpeciesOf(q)) /\ (SpeciesOf(r)' = SpeciesOf(r)) BY <1>1, <2>3
    <3>2. cert[q].live /\ cert[r].live BY <2>3
    <3>3. SpeciesOf(q) \cap SpeciesOf(r) = {} BY <3>2 DEF LinesHold, RowsApart
    <3> QED BY <3>1, <3>3
  <2> QED BY <2>1, <2>2, <2>3
<1>4. ASSUME NEW i \in Inspectors PROVE DeductionOK(inspector[i])'
  <2>1. inspector[i] # Free => inspector[i].permit \in Permits \ {p}
    BY CitesTypes DEF DeductionType, HandlersOK
  <2>2. DeductionOK(inspector[i]) BY DEF LinesHold
  <2> QED BY <1>1, <2>1, <2>2 DEF DeductionOK
<1>5. ASSUME NEW g \in Migrators PROVE MigrationOK(migrator[g])'
  <2>1. migrator[g] # Free => \A list \in migrator[g].left : list \in SUBSET Permits
    BY CitesTypes DEF MigrationType
  <2>2. ~cert[p].live BY DEF NoCert
  <2>3. MigrationOK(migrator[g]) BY DEF LinesHold
  <2>4. ASSUME migrator[g] # Free, NEW list \in migrator[g].left PROVE GroupOK(migrator[g], list)'
    <3>1. GroupOK(migrator[g], list) BY <2>3, <2>4 DEF MigrationOK
    <3>2. \A q \in list : q \in Permits \ {p} BY <2>1, <2>2, <2>4, <3>1 DEF GroupOK
    <3> QED BY <1>1, <3>1, <3>2 DEF GroupOK
  <2> QED BY <2>3, <2>4 DEF MigrationOK
<1> QED BY <1>2, <1>3, <1>4, <1>5 DEF LinesHold

(* A row is registered with the lines that make its total.                 *)
LEMMA LinesRegister ==
  ASSUME CitesTypeOK, CertsTyped, HandlersOK, LinesHold, NEW p \in Permits, NEW s \in Species,
         \/ \E q \in Kg, used \in Kg \cup {0} : Import(p, s, q, used)
         \/ \E quota \in [Species -> Kg \cup {0}] : CreateCitesPermit(p, quota, s)
  PROVE  LinesHold'
<1>1. p \in Certs BY DEF Certs
<1>2. ASSUME NEW date \in Dates, Issued(p, "VALID", date), cert[p] = NoCert
      PROVE  cert'[p] # NoCert /\ \A q \in Permits \ {p} : cert'[q] = cert[q]
  <2> DEFINE new == [status |-> "VALID", expires |-> date, live |-> TRUE]
  <2>1. new \in CertType BY DEF CertType
  <2>2. cert' = [cert EXCEPT ![p] = new] BY <1>2 DEF Issued
  <2> HIDE DEF new
  <2> QED BY <1>1, <2>1, <2>2, RowIs DEF CertsTyped, Certs
<1>3. ASSUME NEW q \in Kg, NEW used \in Kg \cup {0}, Import(p, s, q, used)
      PROVE  LinesHold'
  <2> DEFINE x == [species |-> s, quota |-> q, used |-> used]
  <2>1. x.species = s /\ x.quota = q OBVIOUS
  <2>2. permit' = [permit EXCEPT ![p] = x] /\ UNCHANGED <<line, inspector, migrator>>
    BY <1>3 DEF Import
  <2> HIDE DEF x
  <2>3. permit'[p] = x /\ \A r \in Permits \ {p} : permit'[r] = permit[r] BY <2>2, CitesTypes
  <2>4. /\ cert[p] = NoCert /\ \A r \in Permits : Lines(r) = {}
        /\ \A r \in Permits : Base[r] = Base[p] => SpeciesOf(r) \cap {s} = {}
    BY <1>3 DEF Import, Upcoming
  <2>5. cert'[p] # NoCert /\ \A r \in Permits \ {p} : cert'[r] = cert[r]
    BY <1>2, <1>3, <2>4 DEF Import
  <2>6. Lines(p)' = {} BY <2>2, <2>4 DEF Lines
  <2>7. SpeciesOf(p)' = {s} BY <2>1, <2>3, <2>6 DEF SpeciesOf
  <2>8. RowOK(p)'
    <3>1. q > 0 BY KgTyped
    <3> QED BY <2>1, <2>3, <2>5, <2>6, <3>1 DEF RowOK
  <2>9. \A r \in Permits : Base[r] = Base[p] => SpeciesOf(r) \cap SpeciesOf(p)' = {}
    BY <2>4, <2>7
  <2> QED BY <2>2, <2>3, <2>4, <2>5, <2>8, <2>9, LinesNew
<1>4. ASSUME NEW quota \in [Species -> Kg \cup {0}], CreateCitesPermit(p, quota, s)
      PROVE  LinesHold'
  <2> DEFINE x == [species |-> s, quota |-> SumFunction(quota), used |-> 0]
             y == [z \in Species |-> [quota |-> quota[z], used |-> 0]]
  <2>1. x.species = s /\ x.quota = SumFunctionOnSet(quota, Species) /\ x.used = 0
    BY DEF SumFunction
  <2>2. /\ permit' = [permit EXCEPT ![p] = x] /\ line' = [line EXCEPT ![p] = y]
        /\ UNCHANGED <<inspector, migrator>>
    BY <1>4 DEF CreateCitesPermit
  <2>3. \A z \in Species : /\ y[z] = [quota |-> quota[z], used |-> 0]
                           /\ y[z].quota = quota[z] /\ y[z].used = 0
    OBVIOUS
  <2> HIDE DEF x, y
  <2>4. /\ permit'[p] = x /\ line'[p] = y
        /\ \A r \in Permits \ {p} : permit'[r] = permit[r] /\ line'[r] = line[r]
    BY <2>2, CitesTypes
  <2>5. /\ cert[p] = NoCert /\ quota[s] > 0
        /\ \A r \in Permits : Base[r] = Base[p] => SpeciesOf(r) \cap {z \in Species : quota[z] > 0} = {}
    BY <1>4 DEF CreateCitesPermit, Upcoming
  <2>6. cert'[p] # NoCert /\ \A r \in Permits \ {p} : cert'[r] = cert[r]
    BY <1>2, <1>4, <2>5 DEF CreateCitesPermit
  <2>7. \A z \in Species : quota[z] \in Nat
    <3>1. \A k \in Kg \cup {0} : k \in Nat BY KgTyped
    <3> QED BY <3>1
  <2>8. Lines(p)' = {z \in Species : quota[z] > 0}
    <3>1. \A z \in Species : y[z] # NoLine <=> quota[z] > 0
      <4> SUFFICES ASSUME NEW z \in Species PROVE y[z] # NoLine <=> quota[z] > 0 OBVIOUS
      <4>1. y[z].quota = quota[z] /\ NoLine.quota = 0 BY <2>3 DEF NoLine
      <4>2. quota[z] = 0 => y[z] = NoLine BY <2>3 DEF NoLine
      <4> QED BY <2>7, <4>1, <4>2
    <3> QED BY <2>4, <3>1 DEF Lines
  <2>9. SpeciesOf(p)' = {z \in Species : quota[z] > 0}
    BY <2>1, <2>4, <2>5, <2>8 DEF SpeciesOf
  <2>10. RowOK(p)'
    <3>1. SumFunctionOnSet(quota, Species) > 0
      <4>1. SumFunctionOnSet(quota, Species) = quota[s] + SumFunctionOnSet(quota, Species \ {s})
        BY <2>7, SumAt, CitesAssumption
      <4>2. SumFunctionOnSet(quota, Species \ {s}) \in Nat
        <5>1. IsFiniteSet(Species \ {s}) BY CitesAssumption, FS_Subset
        <5> QED BY <2>7, <5>1, SumNat
      <4> QED BY <2>5, <2>7, <4>1, <4>2
    <3>2. SumFunctionOnSet([z \in Species |-> y[z].quota], Species) = SumFunctionOnSet(quota, Species)
      <4>1. \A z \in Species : [k \in Species |-> y[k].quota][z] = quota[z] BY <2>3
      <4> QED BY <4>1, SumEqual, CitesAssumption
    <3>3. SumFunctionOnSet([z \in Species |-> y[z].used], Species) = 0
      <4>1. \A z \in Species : [k \in Species |-> y[k].used][z] = 0 BY <2>3
      <4> QED BY <4>1, SumZero, CitesAssumption
    <3> QED BY <2>1, <2>4, <2>5, <2>6, <2>8, <3>1, <3>2, <3>3 DEF RowOK
  <2>11. \A r \in Permits : Base[r] = Base[p] => SpeciesOf(r) \cap SpeciesOf(p)' = {}
    BY <2>5, <2>9
  <2> QED BY <2>2, <2>4, <2>5, <2>6, <2>10, <2>11, LinesNew
<1> QED BY <1>3, <1>4

(* A deduction reads: it means one line, or there is none.                 *)
LEMMA LinesRead ==
  ASSUME CitesTypeOK, LinesHold, NEW i \in Inspectors, NEW p \in Permits, NEW kg \in Kg,
         NEW s \in Species \cup {"none"}, DeductRead(i, p, kg, s)
  PROVE  LinesHold'
<1> DEFINE n == [at |-> "deduct", permit |-> p, kg |-> kg, meant |-> Meant(p, s),
                 seen |-> permit[p], lines |-> line[p]]
<1>1. /\ inspector' = [inspector EXCEPT ![i] = n] /\ UNCHANGED <<cert, permit, line, migrator>>
      /\ s # "none" => s \in Lines(p)
      /\ s = "none" => Cardinality(Lines(p)) <= 1
  BY DEF DeductRead, expiryVars
<1>2. n.permit = p /\ n.meant = Meant(p, s) OBVIOUS
<1> HIDE DEF n
<1>3. \A q : (Lines(q)' = Lines(q)) /\ (SpeciesOf(q)' = SpeciesOf(q))
  BY <1>1 DEF Lines, SpeciesOf
<1>4. IsFiniteSet(Lines(p))
  <2>1. Lines(p) \subseteq Species BY DEF Lines
  <2> QED BY <2>1, CitesAssumption, FS_Subset
<1>5. DeductionOK(n)
  <2>1. CASE s # "none"
    <3>1. Meant(p, s) = {s} /\ s \in Lines(p) BY <1>1, <2>1 DEF Meant
    <3> QED BY <1>2, <3>1 DEF DeductionOK
  <2>2. CASE s = "none" /\ Lines(p) = {}
    <3>1. Meant(p, s) = {} BY <2>2 DEF Meant
    <3> QED BY <1>2, <2>2, <3>1 DEF DeductionOK
  <2>3. CASE s = "none" /\ Lines(p) # {}
    <3>1. Cardinality(Lines(p)) = 1
      <4>1. Cardinality(Lines(p)) \in Nat /\ Cardinality(Lines(p)) # 0
        BY <1>4, <2>3, FS_CardinalityType, FS_EmptySet
      <4> QED BY <1>1, <2>3, <4>1
    <3>2. PICK z : Lines(p) = {z} BY <1>4, <3>1, FS_Singleton
    <3>3. Meant(p, s) = {z} BY <2>3, <3>1, <3>2 DEF Meant
    <3> QED BY <1>2, <3>2, <3>3 DEF DeductionOK
  <2> QED BY <2>1, <2>2, <2>3
<1>6. \A q \in Permits : RowOK(q)' BY <1>1, <1>3 DEF LinesHold, RowOK
<1>7. RowsApart' BY <1>1, <1>3 DEF LinesHold, RowsApart
<1>8. ASSUME NEW j \in Inspectors PROVE DeductionOK(inspector[j])'
  <2>1. inspector'[j] = IF j = i THEN n ELSE inspector[j] BY <1>1, CitesTypes
  <2>2. DeductionOK(inspector'[j]) BY <1>5, <2>1 DEF LinesHold
  <2> QED BY <1>3, <2>2 DEF DeductionOK
<1>9. ASSUME NEW g \in Migrators PROVE MigrationOK(migrator[g])'
  BY <1>1, <1>3 DEF LinesHold, MigrationOK, GroupOK
<1> QED BY <1>6, <1>7, <1>8, <1>9 DEF LinesHold

(* A deduction writes: the line and the total grow by the same.            *)
LEMMA LinesWrite ==
  ASSUME CitesTypeOK, HandlersOK, LinesHold, \A g \in Migrators : migrator[g] = Free,
         NEW i \in Inspectors, DeductWrite(i)
  PROVE  LinesHold'
<1>1. PICK f : f = inspector[i] OBVIOUS
<1>2. /\ f.at = "deduct" /\ inspector' = [inspector EXCEPT ![i] = Free]
      /\ UNCHANGED <<cert, migrator>>
  BY <1>1 DEF DeductWrite, expiryVars
<1>3. f \in DeductionType /\ f # Free BY <1>1, <1>2, CitesTypes DEF Free
<1>4. f.permit \in Permits /\ f.kg \in Nat /\ f.kg > 0
  <2>1. f.permit \in Permits /\ f.kg \in Kg BY <1>3 DEF DeductionType
  <2>2. f.kg \in Nat \ {0} BY <2>1, CitesAssumption
  <2> QED BY <2>1, <2>2
<1>5. DeductionOK(f) BY <1>1 DEF LinesHold
<1> DEFINE p == f.permit
           x == [permit[p] EXCEPT !.used = @ + f.kg]
           y == [s \in Species |->
                   IF s \in f.meant THEN [quota |-> line[p][s].quota, used |-> line[p][s].used + f.kg]
                   ELSE line[p][s]]
<1>6. /\ permit[p] \in PermitType /\ line[p] \in [Species -> LineType]
      /\ permit[p].used \in Nat /\ permit[p].quota \in Nat
      /\ \A s \in Species : line[p][s].used \in Nat /\ line[p][s].quota \in Nat
  BY <1>4, CitesTypes DEF PermitType, LineType
<1>7. x.species = permit[p].species /\ x.quota = permit[p].quota /\ x.used = permit[p].used + f.kg
  BY <1>6 DEF PermitType
<1>8. \A s \in Species : /\ y[s].quota = line[p][s].quota
                         /\ s \in f.meant => y[s].used = line[p][s].used + f.kg
                         /\ s \notin f.meant => y[s] = line[p][s]
  BY <1>6
<1>9. \A s \in Species : y[s] = NoLine <=> line[p][s] = NoLine
  <2> SUFFICES ASSUME NEW s \in Species PROVE y[s] = NoLine <=> line[p][s] = NoLine OBVIOUS
  <2>1. CASE s \notin f.meant BY <1>8, <2>1
  <2>2. CASE s \in f.meant
    <3>1. line[p][s] # NoLine BY <1>3, <1>5, <2>2 DEF DeductionOK, Lines
    <3>2. y[s].used # 0 BY <1>4, <1>6, <1>8, <2>2
    <3>3. NoLine.used = 0 BY DEF NoLine
    <3> QED BY <3>1, <3>2, <3>3
  <2> QED BY <2>1, <2>2
<1>10. p \in Permits BY <1>4
<1>11. \/ permit' = permit /\ line' = line
       \/ permit' = [permit EXCEPT ![p] = x] /\ line' = [line EXCEPT ![p] = y]
  <2>1. CASE Remains(f)
    <3>1. Deducted(f) BY <1>1, <2>1 DEF DeductWrite
    <3> QED BY <3>1 DEF Deducted
  <2>2. CASE ~Remains(f) BY <1>1, <2>2 DEF DeductWrite
  <2> QED BY <2>1, <2>2
<1>12. CASE permit' = permit /\ line' = line
  <2>1. \A q : (Lines(q)' = Lines(q)) /\ (SpeciesOf(q)' = SpeciesOf(q))
    BY <1>12 DEF Lines, SpeciesOf
  <2>2. \A q \in Permits : RowOK(q)' BY <1>2, <1>12, <2>1 DEF LinesHold, RowOK
  <2>3. RowsApart' BY <1>2, <1>12, <2>1 DEF LinesHold, RowsApart
  <2>4. ASSUME NEW j \in Inspectors PROVE DeductionOK(inspector[j])'
    <3>1. inspector'[j] = IF j = i THEN Free ELSE inspector[j] BY <1>2, CitesTypes
    <3> QED BY <2>1, <3>1 DEF LinesHold, DeductionOK
  <2>5. \A g \in Migrators : MigrationOK(migrator[g])' BY <1>2 DEF MigrationOK
  <2> QED BY <2>2, <2>3, <2>4, <2>5 DEF LinesHold
<1>13. CASE permit' = [permit EXCEPT ![p] = x] /\ line' = [line EXCEPT ![p] = y]
  <2>1. /\ permit'[p] = x /\ line'[p] = y
        /\ \A q \in Permits \ {p} : permit'[q] = permit[q] /\ line'[q] = line[q]
    <3> HIDE DEF x, y, p
    <3> QED BY <1>10, <1>13, CitesTypes
  <2>2. \A q \in Permits : (Lines(q)' = Lines(q)) /\ (SpeciesOf(q)' = SpeciesOf(q))
    <3> HIDE DEF x, y, p
    <3>1. Lines(p)' = Lines(p) BY <1>9, <2>1 DEF Lines
    <3>2. \A q \in Permits \ {p} : Lines(q)' = Lines(q) BY <2>1 DEF Lines
    <3> QED BY <1>7, <2>1, <3>1, <3>2 DEF SpeciesOf
  <2>3. ASSUME NEW q \in Permits \ {p} PROVE RowOK(q)'
    <3>1. RowOK(q) /\ permit'[q] = permit[q] /\ line'[q] = line[q] /\ cert'[q] = cert[q]
      BY <1>2, <2>1 DEF LinesHold
    <3>2. Lines(q)' = Lines(q) BY <2>2
    <3> QED BY <3>1, <3>2 DEF RowOK
  <2>4. RowOK(p)'
    <3>1. /\ RowOK(p) /\ cert'[p] = cert[p] /\ (Lines(p)' = Lines(p)) BY <1>2, <1>10, <2>2 DEF LinesHold
    <3>2. cert[p] # NoCert BY <1>1, <1>3 DEF HandlersOK
    <3> DEFINE k == [s \in Species |-> line[p][s].quota]
               l == [s \in Species |-> y[s].quota]
               u == [s \in Species |-> line[p][s].used]
               v == [s \in Species |-> y[s].used]
    <3>3. SumFunctionOnSet(l, Species) = SumFunctionOnSet(k, Species)
      <4>1. \A s \in Species : l[s] = k[s] BY <1>8
      <4> HIDE DEF k, l
      <4> QED BY <4>1, SumEqual, CitesAssumption
    <3>4. Lines(p) # {} => SumFunctionOnSet(v, Species) = SumFunctionOnSet(u, Species) + f.kg
      <4> SUFFICES ASSUME Lines(p) # {} PROVE SumFunctionOnSet(v, Species) = SumFunctionOnSet(u, Species) + f.kg
        OBVIOUS
      <4>1. PICK z \in Lines(p) : f.meant = {z} BY <1>3, <1>5 DEF DeductionOK
      <4>2. z \in Species BY DEF Lines
      <4>3. /\ \A s \in Species : u[s] \in Int /\ v[s] \in Int
            /\ \A s \in Species \ {z} : v[s] = u[s]
            /\ v[z] = u[z] + f.kg
        <5> HIDE DEF y, p
        <5>1. \A s \in Species : v[s] = IF s = z THEN u[s] + f.kg ELSE u[s] BY <1>8, <4>1
        <5>2. \A s \in Species : u[s] \in Nat BY <1>6
        <5> QED BY <1>4, <4>2, <5>1, <5>2
      <4> HIDE DEF u, v
      <4>4. SumFunctionOnSet(v, Species) = SumFunctionOnSet(u, Species) + v[z] - u[z]
        <5>1. IsFiniteSet(Species) BY CitesAssumption
        <5>2. \A s \in Species : u[s] \in Int /\ v[s] \in Int BY <4>3
        <5>3. \A s \in Species \ {z} : v[s] = u[s] BY <4>3
        <5> QED BY <4>2, <5>1, <5>2, <5>3, SumChanges
      <4>5. SumFunctionOnSet(u, Species) \in Int BY <4>3, SumType, CitesAssumption
      <4> QED BY <1>4, <4>2, <4>3, <4>4, <4>5
    <3> HIDE DEF x, y, p
    <3> QED BY <1>7, <2>1, <3>1, <3>2, <3>3, <3>4 DEF RowOK
  <2>5. RowsApart' BY <1>2, <2>2 DEF LinesHold, RowsApart
  <2>6. ASSUME NEW j \in Inspectors PROVE DeductionOK(inspector[j])'
    <3>1. inspector'[j] = IF j = i THEN Free ELSE inspector[j] BY <1>2, CitesTypes
    <3>2. inspector[j] # Free => inspector[j].permit \in Permits BY CitesTypes DEF DeductionType
    <3> QED BY <2>2, <3>1, <3>2 DEF LinesHold, DeductionOK
  <2>7. \A g \in Migrators : MigrationOK(migrator[g])' BY <1>2 DEF MigrationOK
  <2> QED BY <2>3, <2>4, <2>5, <2>6, <2>7 DEF LinesHold
<1> QED BY <1>11, <1>12, <1>13

(* The lines k of the row p, L of them, become g: each other row q of the  *)
(* group gives its line h[q] the value v[q].  Without lines p is one more. *)
Pools(list, T, p, h, v, L, k, g) ==
  /\ IsFiniteSet(list) /\ IsFiniteSet(T) /\ p \in list
  /\ h \in [list -> T] /\ \A q, r \in list : h[q] = h[r] => q = r
  /\ \A q \in list : v[q] \in Int
  /\ L \in SUBSET T
  /\ \A t \in T : k[t] \in Int /\ g[t] \in Int
  /\ \A t \in L : g[t] = k[t]
  /\ \A t \in T \ L : k[t] = 0
  /\ \A q \in list : h[q] \notin L => g[h[q]] = v[q]
  /\ \A t \in T \ L : (\A q \in list : h[q] # t) => g[t] = 0
  /\ L # {} => (\A q \in list : h[q] \in L <=> q = p) /\ SumFunctionOnSet(k, T) = v[p]

(* Then the lines add up to the rows.                                      *)
LEMMA Pooled ==
  ASSUME NEW list, NEW T, NEW p, NEW h, NEW v, NEW L, NEW k, NEW g,
         Pools(list, T, p, h, v, L, k, g)
  PROVE  SumFunctionOnSet(g, T) = SumFunctionOnSet(v, list)
<1> USE DEF Pools
<1>1. CASE L = {}
  <2>1. /\ \A q \in list : g[h[q]] = v[q]
        /\ \A t \in T : (\A q \in list : h[q] # t) => g[t] = 0
    BY <1>1
  <2> QED BY <2>1, SumMoved
<1>2. CASE L # {}
  <2> DEFINE D == list \ {p}
             j == [q \in D |-> h[q]]
  <2>1. IsFiniteSet(D) BY FS_Subset
  <2>2. j \in [D -> T] /\ \A q, r \in D : j[q] = j[r] => q = r OBVIOUS
  <2>3. \A q \in D : k[j[q]] = 0 /\ g[j[q]] = v[q] BY <1>2
  <2>4. \A t \in T : (\A q \in D : j[q] # t) => g[t] = k[t]
    <3> SUFFICES ASSUME NEW t \in T \ L, \A q \in D : j[q] # t PROVE g[t] = k[t] OBVIOUS
    <3>1. h[p] # t BY <1>2
    <3>2. \A q \in list : h[q] # t BY <3>1
    <3> QED BY <3>2
  <2>5. \A q \in D : v[q] \in Int OBVIOUS
  <2>6. SumFunctionOnSet(v, list) = v[p] + SumFunctionOnSet(v, D) BY SumAt
  <2> HIDE DEF D, j
  <2>7. SumFunctionOnSet(g, T) = SumFunctionOnSet(k, T) + SumFunctionOnSet(v, D)
    BY <2>1, <2>2, <2>3, <2>4, <2>5, SumSpread
  <2> QED BY <1>2, <2>6, <2>7
<1> QED BY <1>1, <1>2

(* What the lines of a merged group are, and that they add up to its rows. *)
LEMMA GroupSums ==
  ASSUME CitesTypeOK, LinesHold, NEW f \in MigrationType, NEW list \in SUBSET Permits,
         GroupOK(f, list), NEW p, p = Primary(list), NEW y, y = MergedLines(f, list)[p]
  PROVE  /\ p \in list
         /\ \A s \in Species : y[s] # NoLine <=> s \in Lines(p) \/ \E q \in list : permit[q].species = s
         /\ SumFunctionOnSet([s \in Species |-> y[s].quota], Species) =
              SumFunctionOnSet([q \in list |-> f.seen[q].quota], list)
         /\ SumFunctionOnSet([s \in Species |-> y[s].used], Species) =
              SumFunctionOnSet([q \in list |-> f.seen[q].used], list)
<1>1. list # {} /\ p \in list /\ p \in Permits BY PrimaryIn DEF GroupOK
<1>2. IsFiniteSet(list) /\ IsFiniteSet(Species) BY CitesAssumption, FS_Subset
<1>3. \A q \in list : /\ cert[q].live /\ f.seen[q] = permit[q] /\ Base[q] = Base[p]
  BY <1>1 DEF GroupOK
<1>4. \A q \in list : permit[q].species \in Species /\ permit[q].quota > 0
  <2>1. \A q \in list : cert[q] # NoCert BY <1>3 DEF NoCert
  <2> QED BY <2>1 DEF LinesHold, RowOK
<1>5. \A q \in list : permit[q].quota \in Nat /\ permit[q].used \in Nat
  BY CitesTypes DEF PermitType
<1>6. \A q, r \in list : permit[q].species = permit[r].species => q = r
  BY <1>3 DEF LinesHold, RowsApart, SpeciesOf
<1>7. \A q \in list : q # p => permit[q].species \notin Lines(p)
  BY <1>1, <1>3 DEF LinesHold, RowsApart, SpeciesOf
<1>8. Lines(p) # {} => permit[p].species \in Lines(p) BY <1>1 DEF LinesHold, RowOK
<1>9. ASSUME NEW s \in Species
      PROVE  /\ s \in Lines(p) => y[s] = line[p][s]
             /\ \A q \in list : s \notin Lines(p) /\ permit[q].species = s =>
                  y[s] = [quota |-> permit[q].quota, used |-> permit[q].used]
             /\ s \notin Lines(p) /\ (\A q \in list : permit[q].species # s) => y[s] = NoLine
  <2>1. PICK same : same = {q \in list : f.seen[q].species = s} OBVIOUS
  <2>2. /\ line[p][s] # NoLine \/ same = {} => y[s] = line[p][s]
        /\ line[p][s] = NoLine /\ same # {} =>
             \E r \in same : y[s] = [quota |-> f.seen[r].quota, used |-> f.seen[r].used]
    BY <1>1, <2>1, MergedLineIs
  <2>3. \A q : q \in same <=> q \in list /\ permit[q].species = s BY <1>3, <2>1
  <2>4. s \in Lines(p) <=> line[p][s] # NoLine BY DEF Lines
  <2>5. \A r \in same : [quota |-> f.seen[r].quota, used |-> f.seen[r].used] =
                        [quota |-> permit[r].quota, used |-> permit[r].used]
    BY <1>3, <2>3
  <2>6. ASSUME NEW q \in list, s \notin Lines(p), permit[q].species = s
        PROVE  y[s] = [quota |-> permit[q].quota, used |-> permit[q].used]
    <3>1. q \in same /\ \A r \in same : r = q BY <1>6, <2>3, <2>6
    <3> QED BY <2>2, <2>4, <2>5, <2>6, <3>1
  <2> QED BY <2>2, <2>3, <2>4, <2>6
<1>10. ASSUME NEW s \in Species
       PROVE  y[s] # NoLine <=> s \in Lines(p) \/ \E q \in list : permit[q].species = s
  <2>1. CASE s \in Lines(p) BY <1>9, <2>1 DEF Lines
  <2>2. ASSUME s \notin Lines(p), NEW q \in list, permit[q].species = s PROVE y[s] # NoLine
    <3>1. y[s] = [quota |-> permit[q].quota, used |-> permit[q].used] BY <1>9, <2>2
    <3>2. y[s].quota = permit[q].quota /\ NoLine.quota = 0 BY <3>1 DEF NoLine
    <3> QED BY <1>4, <1>5, <2>2, <3>2
  <2> QED BY <1>9, <2>1, <2>2
<1> DEFINE h == [q \in list |-> permit[q].species]
<1>11. h \in [list -> Species] /\ \A q, r \in list : h[q] = h[r] => q = r BY <1>4, <1>6
<1>12. /\ \A q \in list : h[q] \in Lines(p) => q = p
       /\ Lines(p) # {} => h[p] \in Lines(p)
       /\ Lines(p) \in SUBSET Species
  BY <1>1, <1>7, <1>8 DEF Lines
<1>13. \A s \in Species : line[p][s].quota \in Nat /\ line[p][s].used \in Nat
  BY <1>1, CitesTypes DEF LineType
<1>14. \A s \in Species \ Lines(p) : line[p][s].quota = 0 /\ line[p][s].used = 0
  BY DEF Lines, NoLine
<1>15. Lines(p) # {} =>
         /\ SumFunctionOnSet([s \in Species |-> line[p][s].quota], Species) = permit[p].quota
         /\ SumFunctionOnSet([s \in Species |-> line[p][s].used], Species) = permit[p].used
  BY <1>1, <1>3 DEF LinesHold, RowOK
<1>16. /\ \A s \in Lines(p) : y[s] = line[p][s]
       /\ \A q \in list : h[q] \notin Lines(p) =>
            y[h[q]].quota = permit[q].quota /\ y[h[q]].used = permit[q].used
       /\ \A s \in Species \ Lines(p) : (\A q \in list : h[q] # s) => y[s].quota = 0 /\ y[s].used = 0
  <2>1. \A s \in Lines(p) : y[s] = line[p][s] BY <1>9, <1>12
  <2>2. ASSUME NEW q \in list, h[q] \notin Lines(p)
        PROVE  y[h[q]].quota = permit[q].quota /\ y[h[q]].used = permit[q].used
    <3>1. h[q] \in Species /\ h[q] = permit[q].species BY <1>4
    <3> HIDE DEF h
    <3>2. y[h[q]] = [quota |-> permit[q].quota, used |-> permit[q].used] BY <1>9, <2>2, <3>1
    <3> QED BY <3>2
  <2>3. ASSUME NEW s \in Species \ Lines(p), \A q \in list : h[q] # s
        PROVE  y[s].quota = 0 /\ y[s].used = 0
    <3>1. y[s] = NoLine BY <1>9, <2>3
    <3> QED BY <3>1 DEF NoLine
  <2> QED BY <2>1, <2>2, <2>3
<1>17. \A s \in Species : y[s].quota \in Int /\ y[s].used \in Int
  <2> SUFFICES ASSUME NEW s \in Species PROVE y[s].quota \in Int /\ y[s].used \in Int OBVIOUS
  <2>1. CASE s \in Lines(p) BY <1>13, <1>16, <2>1
  <2>2. ASSUME s \notin Lines(p), NEW q \in list, h[q] = s PROVE y[s].quota \in Int /\ y[s].used \in Int
    <3> HIDE DEF h
    <3> QED BY <1>5, <1>16, <2>2
  <2>3. CASE s \notin Lines(p) /\ \A q \in list : h[q] # s BY <1>16, <2>3
  <2> QED BY <2>1, <2>2, <2>3
<1> HIDE DEF h
<1>18. SumFunctionOnSet([s \in Species |-> y[s].quota], Species) =
              SumFunctionOnSet([q \in list |-> f.seen[q].quota], list)
  <2> DEFINE v == [q \in list |-> f.seen[q].quota]
             k == [s \in Species |-> line[p][s].quota]
             g == [s \in Species |-> y[s].quota]
  <2>1. /\ \A q \in list : v[q] = permit[q].quota /\ v[q] \in Int
        /\ v[p] = permit[p].quota
    BY <1>1, <1>3, <1>5
  <2>2. /\ \A s \in Species : k[s] \in Int /\ g[s] \in Int
        /\ \A s \in Lines(p) : g[s] = k[s]
        /\ \A s \in Species \ Lines(p) : k[s] = 0
        /\ \A q \in list : h[q] \notin Lines(p) => g[h[q]] = v[q]
        /\ \A s \in Species \ Lines(p) : (\A q \in list : h[q] # s) => g[s] = 0
    BY <1>11, <1>12, <1>13, <1>14, <1>16, <1>17, <2>1
  <2>3. Lines(p) # {} => /\ \A q \in list : h[q] \in Lines(p) <=> q = p
                         /\ SumFunctionOnSet(k, Species) = v[p]
    BY <1>1, <1>12, <1>15, <2>1
  <2> HIDE DEF v, k, g
  <2>4. SumFunctionOnSet(g, Species) = SumFunctionOnSet(v, list)
    <3>1. PICK L : L = Lines(p) OBVIOUS
    <3>2. \A s \in Species : k[s] \in Int /\ g[s] \in Int BY <2>2
    <3>3. L \in SUBSET Species BY <1>12, <3>1
    <3>4. \A s \in L : g[s] = k[s] BY <2>2, <3>1
    <3>10. \A s \in Species \ L : k[s] = 0 BY <2>2, <3>1
    <3>5. \A q \in list : h[q] \notin L => g[h[q]] = v[q] BY <2>2, <3>1
    <3>6. \A s \in Species \ L : (\A q \in list : h[q] # s) => g[s] = 0 BY <2>2, <3>1
    <3>7. L # {} => /\ \A q \in list : h[q] \in L <=> q = p
                    /\ SumFunctionOnSet(k, Species) = v[p]
      BY <2>3, <3>1
    <3>8. \A q \in list : v[q] \in Int BY <2>1
    <3>9. p \in list /\ IsFiniteSet(list) /\ IsFiniteSet(Species) BY <1>1, <1>2
    <3>11. h \in [list -> Species] BY <1>11
    <3>12. \A q, r \in list : h[q] = h[r] => q = r BY <1>11
    <3>13. Pools(list, Species, p, h, v, L, k, g)
      BY <3>2, <3>3, <3>4, <3>5, <3>6, <3>7, <3>8, <3>9, <3>10, <3>11, <3>12 DEF Pools
    <3> QED BY <3>13, Pooled
  <2> QED BY <2>4 DEF v, g
<1>19. SumFunctionOnSet([s \in Species |-> y[s].used], Species) =
              SumFunctionOnSet([q \in list |-> f.seen[q].used], list)
  <2> DEFINE v == [q \in list |-> f.seen[q].used]
             k == [s \in Species |-> line[p][s].used]
             g == [s \in Species |-> y[s].used]
  <2>1. /\ \A q \in list : v[q] = permit[q].used /\ v[q] \in Int
        /\ v[p] = permit[p].used
    BY <1>1, <1>3, <1>5
  <2>2. /\ \A s \in Species : k[s] \in Int /\ g[s] \in Int
        /\ \A s \in Lines(p) : g[s] = k[s]
        /\ \A s \in Species \ Lines(p) : k[s] = 0
        /\ \A q \in list : h[q] \notin Lines(p) => g[h[q]] = v[q]
        /\ \A s \in Species \ Lines(p) : (\A q \in list : h[q] # s) => g[s] = 0
    BY <1>11, <1>12, <1>13, <1>14, <1>16, <1>17, <2>1
  <2>3. Lines(p) # {} => /\ \A q \in list : h[q] \in Lines(p) <=> q = p
                         /\ SumFunctionOnSet(k, Species) = v[p]
    BY <1>1, <1>12, <1>15, <2>1
  <2> HIDE DEF v, k, g
  <2>4. SumFunctionOnSet(g, Species) = SumFunctionOnSet(v, list)
    <3>1. PICK L : L = Lines(p) OBVIOUS
    <3>2. \A s \in Species : k[s] \in Int /\ g[s] \in Int BY <2>2
    <3>3. L \in SUBSET Species BY <1>12, <3>1
    <3>4. \A s \in L : g[s] = k[s] BY <2>2, <3>1
    <3>10. \A s \in Species \ L : k[s] = 0 BY <2>2, <3>1
    <3>5. \A q \in list : h[q] \notin L => g[h[q]] = v[q] BY <2>2, <3>1
    <3>6. \A s \in Species \ L : (\A q \in list : h[q] # s) => g[s] = 0 BY <2>2, <3>1
    <3>7. L # {} => /\ \A q \in list : h[q] \in L <=> q = p
                    /\ SumFunctionOnSet(k, Species) = v[p]
      BY <2>3, <3>1
    <3>8. \A q \in list : v[q] \in Int BY <2>1
    <3>9. p \in list /\ IsFiniteSet(list) /\ IsFiniteSet(Species) BY <1>1, <1>2
    <3>11. h \in [list -> Species] BY <1>11
    <3>12. \A q, r \in list : h[q] = h[r] => q = r BY <1>11
    <3>13. Pools(list, Species, p, h, v, L, k, g)
      BY <3>2, <3>3, <3>4, <3>5, <3>6, <3>7, <3>8, <3>9, <3>10, <3>11, <3>12 DEF Pools
    <3> QED BY <3>13, Pooled
  <2> QED BY <2>4 DEF v, g
<1> QED BY <1>1, <1>10, <1>18, <1>19

(* The script reads all rows and their groups.                             *)
LEMMA LinesMigrate ==
  ASSUME CitesTypeOK, LinesHold, NEW g \in Migrators, MigrateRead(g) \/ MigrateEnd(g)
  PROVE  LinesHold'
<1>1. UNCHANGED <<cert, permit, line, inspector>>
  BY DEF MigrateRead, MigrateEnd, expiryVars
<1>2. \A q : (Lines(q)' = Lines(q)) /\ (SpeciesOf(q)' = SpeciesOf(q))
  BY <1>1 DEF Lines, SpeciesOf
<1>3. \A q \in Permits : RowOK(q)' BY <1>1, <1>2 DEF LinesHold, RowOK
<1>4. RowsApart' BY <1>1, <1>2 DEF LinesHold, RowsApart
<1>5. \A i \in Inspectors : DeductionOK(inspector[i])' BY <1>1, <1>2 DEF LinesHold, DeductionOK
<1>6. PICK n : /\ migrator' = [migrator EXCEPT ![g] = n]
               /\ MigrationOK(n)
  <2>1. CASE MigrateEnd(g)
    <3>1. MigrationOK(Free) BY DEF MigrationOK
    <3> QED BY <2>1, <3>1 DEF MigrateEnd
  <2>2. CASE MigrateRead(g)
    <3> DEFINE n == [at |-> "merge", left |-> {Group(p) : p \in {q \in Permits : cert[q].live}},
                     seen |-> permit, bare |-> {p \in Permits : Lines(p) = {}}]
    <3>1. migrator' = [migrator EXCEPT ![g] = n] BY <2>2 DEF MigrateRead
    <3>2. /\ n.left = {Group(p) : p \in {q \in Permits : cert[q].live}}
          /\ n.seen = permit /\ n.bare = {p \in Permits : Lines(p) = {}}
      OBVIOUS
    <3> HIDE DEF n
    <3>3. ASSUME NEW list \in n.left PROVE GroupOK(n, list)
      <4>1. PICK p \in Permits : cert[p].live /\ list = Group(p) BY <3>2
      <4>2. p \in list BY <4>1 DEF Group
      <4>3. \A q \in list : q \in Permits /\ cert[q].live /\ Base[q] = Base[p] BY <4>1 DEF Group
      <4>4. \A q \in list : q \in n.bare <=> Lines(q) = {} BY <3>2, <4>3
      <4> QED BY <3>2, <4>2, <4>3, <4>4 DEF GroupOK
    <3>4. ASSUME NEW a \in n.left, NEW b \in n.left, a # b PROVE a \cap b = {}
      <4>1. PICK p \in Permits, q \in Permits : a = Group(p) /\ b = Group(q) BY <3>2
      <4>2. Base[p] # Base[q] BY <3>4, <4>1 DEF Group
      <4> QED BY <4>1, <4>2 DEF Group
    <3> QED BY <3>1, <3>3, <3>4 DEF MigrationOK
  <2> QED BY <2>1, <2>2
<1>7. ASSUME NEW h \in Migrators PROVE MigrationOK(migrator[h])'
  <2>1. migrator'[h] = IF h = g THEN n ELSE migrator[h] BY <1>6, CitesTypes
  <2>2. MigrationOK(migrator'[h]) BY <1>6, <2>1 DEF LinesHold
  <2> QED BY <1>1, <1>2, <2>2 DEF MigrationOK, GroupOK
<1> QED BY <1>3, <1>4, <1>5, <1>7 DEF LinesHold

(* A merge makes one row of a group, with the sums of all its rows.        *)
LEMMA LinesMerge ==
  ASSUME CitesTypeOK, CertsTyped, LinesHold, \A i \in Inspectors : inspector[i] = Free,
         NEW g \in Migrators, \A h \in Migrators \ {g} : migrator[h] = Free,
         MergeGroup(g) \/ Backfill(g)
  PROVE  LinesHold'
<1>1. PICK f : f = migrator[g] OBVIOUS
<1>2. f # Free /\ UNCHANGED inspector BY <1>1 DEF MergeGroup, Backfill
<1>3. f \in MigrationType /\ MigrationOK(f) BY <1>1, <1>2, CitesTypes DEF LinesHold
<1>4. PICK list \in f.left :
        /\ migrator' = [migrator EXCEPT ![g].left = @ \ {list}]
        /\ \/ /\ permit' = Merged(f, list) /\ line' = MergedLines(f, list)
              /\ cert' = [c \in Certs |-> IF c \in list \ {Primary(list)}
                                          THEN [cert[c] EXCEPT !.live = FALSE] ELSE cert[c]]
           \/ /\ Cardinality(list) = 1 /\ UNCHANGED <<permit, cert>>
              /\ line' = IF list \subseteq f.bare THEN MergedLines(f, list) ELSE line
  BY <1>1 DEF MergeGroup, Backfill, expiryVars
<1>5. list \in SUBSET Permits /\ GroupOK(f, list) BY <1>2, <1>3, <1>4 DEF MigrationType, MigrationOK
<1>6. PICK p : p = Primary(list) OBVIOUS
<1>7. list # {} /\ p \in list /\ p \in Permits BY <1>5, <1>6, PrimaryIn DEF GroupOK
<1>8. \A q \in list : /\ cert[q].live /\ f.seen[q] = permit[q] /\ Base[q] = Base[p]
                      /\ q \in Certs /\ cert[q] \in CertType
  <2>1. \A q \in list : cert[q].live /\ f.seen[q] = permit[q] /\ Base[q] = Base[p] /\ q \in Certs
    BY <1>5, <1>7 DEF GroupOK, Certs
  <2>2. \A q \in list : cert[q] # NoCert BY <2>1 DEF NoCert
  <2> QED BY <2>1, <2>2 DEF CertsTyped
<1>9. PICK a, b : /\ a = SumFunctionOnSet([q \in list |-> f.seen[q].quota], list)
                  /\ b = SumFunctionOnSet([q \in list |-> f.seen[q].used], list)
  OBVIOUS
<1>10. PICK y : y = MergedLines(f, list)[p] OBVIOUS
<1>11. /\ \A s \in Species :
            y[s] # NoLine <=> s \in Lines(p) \/ \E q \in list : permit[q].species = s
       /\ SumFunctionOnSet([s \in Species |-> y[s].quota], Species) = a
       /\ SumFunctionOnSet([s \in Species |-> y[s].used], Species) = b
  BY <1>3, <1>5, <1>6, <1>9, <1>10, GroupSums
<1>12. /\ \A q \in Permits \ {p} : Merged(f, list)[q] = permit[q] /\ MergedLines(f, list)[q] = line[q]
       /\ Merged(f, list)[p].species = permit[p].species
       /\ Merged(f, list)[p].quota = a /\ Merged(f, list)[p].used = b
  BY <1>3, <1>5, <1>6, <1>7, <1>9, MergedIs DEF SumFunction
<1>13. \A q \in list : permit[q].species \in Species /\ permit[q].quota > 0
  <2>1. \A q \in list : cert[q] # NoCert BY <1>8 DEF NoCert
  <2> QED BY <1>5, <2>1 DEF LinesHold, RowOK
<1>14. permit[p].quota <= a /\ a \in Nat /\ permit[p].quota \in Nat
  <2> DEFINE v == [q \in list |-> f.seen[q].quota]
  <2>1. IsFiniteSet(list) /\ IsFiniteSet(list \ {p}) BY <1>5, CitesAssumption, FS_Subset
  <2>2. \A q \in list : v[q] = permit[q].quota /\ v[q] \in Nat
    BY <1>5, <1>8, CitesTypes DEF PermitType
  <2> HIDE DEF v
  <2>3. SumFunctionOnSet(v, list) = v[p] + SumFunctionOnSet(v, list \ {p})
    BY <1>7, <2>1, <2>2, SumAt
  <2>4. SumFunctionOnSet(v, list \ {p}) \in Nat BY <2>1, <2>2, SumNat
  <2>5. a = SumFunctionOnSet(v, list) BY <1>9 DEF v
  <2> QED BY <1>7, <2>2, <2>3, <2>4, <2>5
<1>15. \A h \in Migrators : h # g => migrator'[h] = Free BY <1>4, CitesTypes
<1>16. migrator'[g] # Free => /\ migrator'[g].seen = f.seen /\ migrator'[g].bare = f.bare
                              /\ migrator'[g].left = f.left \ {list}
  BY <1>1, <1>3, <1>4, CitesTypes DEF MigrationType
<1>17. \A i \in Inspectors : DeductionOK(inspector[i])' BY <1>2 DEF DeductionOK
<1>18. ASSUME \A q \in Permits \ list : /\ permit'[q] = permit[q] /\ line'[q] = line[q]
                                        /\ cert'[q] = cert[q]
       PROVE  \A h \in Migrators : MigrationOK(migrator[h])'
  <2>1. \A q \in Permits \ list : Lines(q)' = Lines(q) BY <1>18 DEF Lines
  <2>2. ASSUME migrator'[g] # Free, NEW other \in migrator'[g].left
        PROVE  GroupOK(migrator[g], other)'
    <3>1. other \in f.left /\ other # list BY <1>16, <2>2
    <3>2. other \in SUBSET Permits /\ other \cap list = {} /\ GroupOK(f, other)
      BY <1>2, <1>3, <1>4, <3>1 DEF MigrationOK, MigrationType
    <3>3. \A q \in other : q \in Permits \ list BY <3>2
    <3> QED BY <1>16, <1>18, <2>1, <2>2, <3>2, <3>3 DEF GroupOK
  <2>3. MigrationOK(migrator[g])' BY <1>2, <1>3, <1>16, <2>2 DEF MigrationOK
  <2>4. \A h \in Migrators : h # g => MigrationOK(migrator[h])' BY <1>15 DEF MigrationOK
  <2> QED BY <2>3, <2>4
<1>19. CASE /\ permit' = Merged(f, list) /\ line' = MergedLines(f, list)
            /\ cert' = [c \in Certs |-> IF c \in list \ {Primary(list)}
                                        THEN [cert[c] EXCEPT !.live = FALSE] ELSE cert[c]]
  <2>1. /\ permit'[p].species = permit[p].species /\ permit'[p].quota = a /\ permit'[p].used = b
        /\ line'[p] = y
        /\ \A q \in Permits \ {p} : permit'[q] = permit[q] /\ line'[q] = line[q]
    BY <1>10, <1>12, <1>19
  <2>2. /\ \A q \in Permits : q \notin list \/ q = p => cert'[q] = cert[q]
        /\ \A q \in list \ {p} : cert'[q] # NoCert /\ ~cert'[q].live
    <3>1. \A q \in Permits : q \notin list \/ q = p => cert'[q] = cert[q]
      BY <1>6, <1>19 DEF Certs
    <3>2. ASSUME NEW q \in list \ {p} PROVE cert'[q] # NoCert /\ ~cert'[q].live
      <4>1. cert'[q] = [cert[q] EXCEPT !.live = FALSE] BY <1>6, <1>8, <1>19
      <4> DEFINE c == cert[q]
                 d == cert'[q]
      <4>2. c \in CertType /\ d = [c EXCEPT !.live = FALSE] BY <1>8, <4>1
      <4> HIDE DEF c, d
      <4>3. d \in CertType /\ d.live = FALSE BY <4>2 DEF CertType
      <4>4. d = cert'[q] BY DEF d
      <4> QED BY <4>3, <4>4, RowIs
    <3> QED BY <3>1, <3>2
  <2>3. \A q \in Permits \ {p} : (Lines(q)' = Lines(q)) /\ (SpeciesOf(q)' = SpeciesOf(q))
    BY <2>1 DEF Lines, SpeciesOf
  <2>4. Lines(p)' = Lines(p) \cup {permit[q].species : q \in list}
    <3>1. Lines(p)' = {s \in Species : y[s] # NoLine} BY <2>1 DEF Lines
    <3>2. Lines(p) \subseteq Species BY DEF Lines
    <3> QED BY <1>11, <1>13, <3>1, <3>2
  <2>5. \A s \in SpeciesOf(p)' : \E q \in list : s \in SpeciesOf(q)
    BY <1>7, <2>1, <2>4 DEF SpeciesOf
  <2>6. ASSUME NEW q \in Permits PROVE RowOK(q)'
    <3>1. RowOK(q) BY DEF LinesHold
    <3>2. CASE q = p
      <4>1. cert'[p] = cert[p] /\ cert[p] # NoCert BY <1>7, <1>8, <2>2 DEF NoCert
      <4>2. permit'[p].species \in Species /\ permit'[p].quota > 0
        BY <1>7, <1>13, <1>14, <2>1
      <4>3. permit'[p].species \in Lines(p)' BY <1>7, <2>1, <2>4
      <4> QED BY <1>11, <2>1, <3>2, <4>1, <4>2, <4>3 DEF RowOK
    <3>3. CASE q # p /\ q \notin list BY <2>1, <2>2, <2>3, <3>1, <3>3 DEF RowOK
    <3>4. CASE q # p /\ q \in list
      <4>1. cert[q] # NoCert /\ cert'[q] # NoCert /\ ~cert'[q].live BY <1>8, <2>2, <3>4 DEF NoCert
      <4> QED BY <2>1, <2>3, <3>1, <3>4, <4>1 DEF RowOK
    <3> QED BY <3>2, <3>3, <3>4
  <2>7. RowsApart'
    <3> SUFFICES ASSUME NEW q \in Permits, NEW r \in Permits, cert'[q].live, cert'[r].live,
                        q # r, Base[q] = Base[r]
                 PROVE  SpeciesOf(q)' \cap SpeciesOf(r)' = {}
      BY DEF RowsApart
    <3>1. \A k \in Permits : cert'[k].live => cert[k].live /\ (k = p \/ k \notin list)
      BY <1>7, <1>8, <2>2
    <3>2. ASSUME NEW k \in Permits, cert'[k].live, k # p, Base[k] = Base[p]
          PROVE  SpeciesOf(p)' \cap SpeciesOf(k)' = {}
      <4>1. cert[k].live /\ k \notin list /\ (SpeciesOf(k)' = SpeciesOf(k)) BY <2>3, <3>1, <3>2
      <4>2. \A z \in list : SpeciesOf(z) \cap SpeciesOf(k) = {}
        BY <1>5, <1>8, <3>2, <4>1 DEF LinesHold, RowsApart
      <4> QED BY <2>5, <4>1, <4>2
    <3>3. CASE q = p BY <3>2, <3>3
    <3>4. CASE r = p BY <3>2, <3>4
    <3>5. CASE q # p /\ r # p
      <4>1. SpeciesOf(q) \cap SpeciesOf(r) = {} BY <3>1 DEF LinesHold, RowsApart
      <4> QED BY <2>3, <3>5, <4>1
    <3> QED BY <3>3, <3>4, <3>5
  <2>8. \A q \in Permits \ list : permit'[q] = permit[q] /\ line'[q] = line[q] /\ cert'[q] = cert[q]
    BY <1>7, <2>1, <2>2
  <2> QED BY <1>17, <1>18, <2>6, <2>7, <2>8 DEF LinesHold
<1>20. CASE /\ Cardinality(list) = 1 /\ UNCHANGED <<permit, cert>>
            /\ line' = IF list \subseteq f.bare THEN MergedLines(f, list) ELSE line
  <2>1. list = {p}
    <3>1. IsFiniteSet(list) BY <1>5, CitesAssumption, FS_Subset
    <3> QED BY <1>7, <1>20, <3>1, FS_Singleton
  <2>2. CASE ~(list \subseteq f.bare)
    <3>1. UNCHANGED <<permit, cert, line>> BY <1>20, <2>2
    <3>2. \A q : (Lines(q)' = Lines(q)) /\ (SpeciesOf(q)' = SpeciesOf(q))
      BY <3>1 DEF Lines, SpeciesOf
    <3>3. \A q \in Permits : RowOK(q)' BY <3>1, <3>2 DEF LinesHold, RowOK
    <3>4. RowsApart' BY <3>1, <3>2 DEF LinesHold, RowsApart
    <3> QED BY <1>17, <1>18, <3>1, <3>3, <3>4 DEF LinesHold
  <2>3. CASE list \subseteq f.bare
    <3>1. Lines(p) = {} BY <1>5, <1>7, <2>3 DEF GroupOK
    <3>2. /\ line'[p] = y /\ \A q \in Permits \ {p} : line'[q] = line[q]
      BY <1>10, <1>12, <1>20, <2>3
    <3>3. a = permit[p].quota /\ b = permit[p].used
      <4> DEFINE v == [q \in list |-> f.seen[q].quota]
                 u == [q \in list |-> f.seen[q].used]
      <4>1. v[p] = permit[p].quota /\ u[p] = permit[p].used BY <1>7, <1>8
      <4>2. permit[p].quota \in Nat /\ permit[p].used \in Nat BY <1>7, CitesTypes DEF PermitType
      <4>3. IsFiniteSet(list) BY <2>1, FS_Singleton
      <4>4. list \ {p} = {} /\ \A q \in list : v[q] \in Int /\ u[q] \in Int BY <2>1, <4>1, <4>2
      <4> HIDE DEF v, u
      <4>5. /\ SumFunctionOnSet(v, list) = v[p] + SumFunctionOnSet(v, list \ {p})
            /\ SumFunctionOnSet(u, list) = u[p] + SumFunctionOnSet(u, list \ {p})
        BY <1>7, <4>3, <4>4, SumAt
      <4>6. SumFunctionOnSet(v, list \ {p}) = 0 /\ SumFunctionOnSet(u, list \ {p}) = 0
        BY <4>4, SumEmpty
      <4>7. a = SumFunctionOnSet(v, list) /\ b = SumFunctionOnSet(u, list) BY <1>9 DEF v, u
      <4> QED BY <4>1, <4>2, <4>5, <4>6, <4>7
    <3>4. Lines(p)' = {permit[p].species}
      <4>1. Lines(p)' = {s \in Species : y[s] # NoLine} BY <3>2 DEF Lines
      <4> QED BY <1>7, <1>11, <1>13, <2>1, <3>1, <4>1
    <3>5. \A q \in Permits \ {p} : Lines(q)' = Lines(q) BY <3>2 DEF Lines
    <3>6. \A q \in Permits : SpeciesOf(q)' = SpeciesOf(q)
      BY <1>20, <3>1, <3>4, <3>5 DEF SpeciesOf
    <3>7. ASSUME NEW q \in Permits PROVE RowOK(q)'
      <4>1. RowOK(q) BY DEF LinesHold
      <4>2. CASE q = p
        <5>1. cert[p] # NoCert BY <1>7, <1>8 DEF NoCert
        <5> QED BY <1>11, <1>20, <3>2, <3>3, <3>4, <4>1, <4>2, <5>1 DEF RowOK
      <4>3. CASE q # p BY <1>20, <3>2, <3>5, <4>1, <4>3 DEF RowOK
      <4> QED BY <4>2, <4>3
    <3>8. RowsApart' BY <1>20, <3>6 DEF LinesHold, RowsApart
    <3>9. \A q \in Permits \ list : permit'[q] = permit[q] /\ line'[q] = line[q] /\ cert'[q] = cert[q]
      BY <1>20, <2>1, <3>2
    <3> QED BY <1>17, <1>18, <3>7, <3>8, <3>9 DEF LinesHold
  <2> QED BY <2>2, <2>3
<1> QED BY <1>4, <1>19, <1>20

----------------------------------------------------------------------------
(* Before the first permit the invariant holds.                            *)
LEMMA PermitsInit == Init => PermitsInv
<1> SUFFICES ASSUME Init PROVE PermitsInv OBVIOUS
<1>1. CitesTypeOK BY FulfillmentInit DEF FulfillmentInv
<1>2. /\ \A p \in Permits : cert[p] = NoCert /\ permit[p] = NoPermit
      /\ \A p \in Permits, s \in Species : line[p][s] = NoLine
      /\ \A i \in Inspectors : inspector[i] = Free
      /\ \A g \in Migrators : migrator[g] = Free
  BY DEF Init, ExpiryInit, CitesInit, Certs
<1>3. HandlersOK /\ Apart BY <1>2 DEF HandlersOK, Apart
<1>4. QuotaOK
  <2>1. \A p, s : /\ SumFunctionOnSet(PermitDue(p), Inspectors) = 0
                  /\ SumFunctionOnSet(LineDue(p, s), Inspectors) = 0
    BY <1>2, NothingDue
  <2>2. NoPermit.used = 0 /\ NoPermit.quota = 0 /\ NoLine.used = 0 /\ NoLine.quota = 0
    BY DEF NoPermit, NoLine
  <2> QED BY <1>2, <2>1, <2>2, SlackTyped DEF QuotaOK
<1>5. LinesHold
  <2>1. \A p \in Permits : Lines(p) = {} /\ ~cert[p].live BY <1>2 DEF Lines, NoCert
  <2>2. \A p \in Permits : RowOK(p) BY <1>2, <2>1 DEF RowOK
  <2>3. RowsApart BY <2>1 DEF RowsApart
  <2>4. /\ \A i \in Inspectors : DeductionOK(inspector[i])
        /\ \A g \in Migrators : MigrationOK(migrator[g])
    BY <1>2 DEF DeductionOK, MigrationOK
  <2> QED BY <2>2, <2>3, <2>4 DEF LinesHold
<1> QED BY <1>1, <1>3, <1>4, <1>5 DEF PermitsInv, LinesOK

(* A step of the permits keeps it.                                         *)
LEMMA PermitsCites ==
  ASSUME PermitsInv, CertsTyped, RowsMove, CitesTypeOK', CitesNext
  PROVE  PermitsInv'
<1> USE DEF PermitsInv
<1>1. HandlersOK' /\ Apart' /\ team' = team BY HandlersStep
<1>2. ASSUME NEW p \in Permits, NEW s \in Species,
             \/ \E q \in Kg, used \in Kg \cup {0} : Import(p, s, q, used)
             \/ \E quota \in [Species -> Kg \cup {0}] : CreateCitesPermit(p, quota, s)
      PROVE  QuotaOK' /\ (LinesHold => LinesHold')
  BY <1>2, QuotaRegister, LinesRegister
<1>3. ASSUME NEW i \in Inspectors, NEW p \in Permits, NEW kg \in Kg,
             NEW s \in Species \cup {"none"}, DeductRead(i, p, kg, s)
      PROVE  QuotaOK' /\ (LinesHold => LinesHold')
  BY <1>1, <1>3, QuotaRead, LinesRead
<1>4. ASSUME NEW i \in Inspectors, DeductWrite(i)
      PROVE  QuotaOK' /\ ("cross" \notin team /\ LinesHold => LinesHold')
  <2>1. inspector[i] # Free BY <1>4 DEF DeductWrite, Free
  <2>2. "cross" \notin team => \A g \in Migrators : migrator[g] = Free BY <2>1 DEF Apart
  <2> QED BY <1>1, <1>4, <2>2, QuotaWrite, LinesWrite
<1>5. ASSUME NEW g \in Migrators, MigrateRead(g) \/ MergeGroup(g) \/ Backfill(g) \/ MigrateEnd(g)
      PROVE  /\ QuotaOK'
             /\ "cross" \notin team /\ Cardinality(team \cap Migrators) <= 1 /\ LinesHold => LinesHold'
  <2>1. QuotaOK' BY <1>5, QuotaMigrate
  <2>2. ASSUME "cross" \notin team, Cardinality(team \cap Migrators) <= 1, LinesHold,
               MergeGroup(g) \/ Backfill(g)
        PROVE  LinesHold'
    <3>1. migrator[g] # Free BY <2>2 DEF MergeGroup, Backfill
    <3>2. \A i \in Inspectors : inspector[i] = Free BY <2>2, <3>1 DEF Apart
    <3>3. ASSUME NEW h \in Migrators \ {g}, migrator[h] # Free PROVE FALSE
      <4> DEFINE T == team \cap Migrators
      <4>1. g \in T /\ h \in T BY <3>1, <3>3 DEF HandlersOK
      <4>2. IsFiniteSet(Migrators) BY CitesAssumption
      <4>3. g = h
        <5>1. T \in SUBSET Migrators /\ Cardinality(T) <= 1 BY <2>2
        <5> HIDE DEF T
        <5> QED BY <4>1, <4>2, <5>1, OnlyOne
      <4> QED BY <3>3, <4>3
    <3> QED BY <2>2, <3>2, <3>3, LinesMerge
  <2> QED BY <1>5, <2>1, <2>2, LinesMigrate
<1>6. /\ QuotaOK'
      /\ "cross" \notin team /\ Cardinality(team \cap Migrators) <= 1 /\ LinesHold => LinesHold'
  BY <1>2, <1>3, <1>4, <1>5 DEF CitesNext
<1>7. LinesOK' BY <1>1, <1>6 DEF LinesOK
<1> QED BY <1>1, <1>6, <1>7

(* Every step keeps it.                                                    *)
LEMMA PermitsStep ==
  ASSUME FulfillmentInv, PermitsInv, [Next]_vars
  PROVE  PermitsInv'
<1>1. RemindersInv /\ CitesTypeOK BY DEF FulfillmentInv
<1>2. CertsTyped BY <1>1 DEF RemindersInv, ExpiryTypeOK, CertsTyped, CertType
<1>3. CASE CitesNext BY <1>1, <1>2, <1>3, RowsMoves, CitesStep, PermitsCites
<1>4. CASE UNCHANGED citesVars /\ (DayPasses \/ ExpiryNext \/ PaperNext \/ ShipmentNext \/ UNCHANGED vars)
  BY <1>1, <1>4, SteadyRest, PermitsRest
<1>5. UNCHANGED vars => UNCHANGED citesVars BY DEF vars
<1> QED BY <1>3, <1>4, <1>5 DEF Next

(* Whatever the permits, the species and the inspectors: the total of a    *)
(* permit is the sum of its lines, merged and backfilled by one script at  *)
(* a time, and racing deductions overdraw a quota by no more than there    *)
(* are others of them.                                                     *)
THEOREM PermitsAlwaysKept == Spec => []PermitsKept
<1>1. PermitsInv => TotalsAreLines
  <2> SUFFICES ASSUME PermitsInv, "cross" \notin team, Cardinality(team \cap Migrators) <= 1,
                      NEW p \in Permits, Lines(p) # {}, cert[p].live
               PROVE  /\ permit[p].quota = SumFunction([s \in Species |-> line[p][s].quota])
                      /\ permit[p].used = SumFunction([s \in Species |-> line[p][s].used])
    BY DEF TotalsAreLines
  <2>1. RowOK(p) BY DEF PermitsInv, LinesOK, LinesHold
  <2> QED BY <2>1 DEF RowOK, SumFunction
<1>2. PermitsInv => QuotaKept
  <2> SUFFICES ASSUME PermitsInv, "cross" \notin team, Racing = 0 \/ ~Working(Migrators),
                      NEW p \in Permits
               PROVE  /\ permit[p].used <= permit[p].quota + Slack
                      /\ \A s \in Lines(p) : line[p][s].used <= line[p][s].quota + Slack
    BY DEF QuotaKept, Slack
  <2>1. CitesTypeOK /\ HandlersOK BY DEF PermitsInv
  <2>2. permit[p].used <= permit[p].quota + Slack
    <3>1. permit[p].used + SumFunctionOnSet(PermitDue(p), Inspectors) <= permit[p].quota + Slack
      BY DEF PermitsInv, QuotaOK
    <3>2. SumFunctionOnSet(PermitDue(p), Inspectors) \in Nat BY <2>1, DueTyped
    <3>3. permit[p].used \in Nat /\ permit[p].quota \in Nat BY <2>1, CitesTypes DEF PermitType
    <3> QED BY <3>1, <3>2, <3>3, SlackTyped
  <2>3. ASSUME NEW s \in Lines(p) PROVE line[p][s].used <= line[p][s].quota + Slack
    <3>1. s \in Species BY DEF Lines
    <3>2. line[p][s].used + SumFunctionOnSet(LineDue(p, s), Inspectors) <= line[p][s].quota + Slack
      BY <3>1 DEF PermitsInv, QuotaOK
    <3>3. SumFunctionOnSet(LineDue(p, s), Inspectors) \in Nat BY <2>1, DueTyped
    <3>4. line[p][s].used \in Nat /\ line[p][s].quota \in Nat BY <2>1, <3>1, CitesTypes DEF LineType
    <3> QED BY <3>2, <3>3, <3>4, SlackTyped
  <2> QED BY <2>2, <2>3
<1>3. FulfillmentInv /\ PermitsInv /\ [Next]_vars => (FulfillmentInv /\ PermitsInv)'
  BY FulfillmentStep, PermitsStep
<1>4. Init => FulfillmentInv /\ PermitsInv BY FulfillmentInit, PermitsInit
<1> QED BY <1>1, <1>2, <1>3, <1>4, PTL DEF Spec, PermitsKept
=============================================================================
