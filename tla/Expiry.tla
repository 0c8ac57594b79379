------------------------------- MODULE Expiry -------------------------------
(***************************************************************************)
(* cert-expiry.service.ts with what it reads and writes: the status and    *)
(* the expiry date of certificates of organisations, CITES permits and     *)
(* documents, and the notifications by which the scan knows whom it has    *)
(* told.  A scan lists, marks, tells the holders and then the staff, one   *)
(* database call after the other.  Mails repeat the notifications at best  *)
(* effort and are left out.                                                *)
(***************************************************************************)
EXTENDS Integers, FiniteSets, FiniteSetsExt

CONSTANTS
  PartyCerts, Permits, Docs,   \* rows of the three tables
  Dates,      \* days on which they may expire
  Buckets,    \* REMINDER_BUCKETS: days ahead at which holders are reminded
  Members,    \* users of the organisation that holds the certificates
  Staff,      \* inspectors and administrators
  Scans,      \* runs of the scan in progress at once: by the cron or by hand
  Teams,      \* bound: the handlers of one behaviour
  MaxDay      \* bound: days that pass

Certs == PartyCerts \cup Permits \cup Docs

ASSUME ExpiryAssumption ==
  /\ MaxDay \in Nat /\ Dates \subseteq Nat
  /\ Buckets \in SUBSET Nat /\ Buckets # {} /\ IsFiniteSet(Buckets)
  /\ IsFiniteSet(Scans)
  /\ PartyCerts \cap Permits = {} /\ PartyCerts \cap Docs = {} /\ Permits \cap Docs = {}

VARIABLES
  today,
  cert,    \* status and expiryDate of each row; live: deletedAt is null
  inbox,   \* how often a user has been sent a notification with a dedupeKey
  scan,    \* the scans in progress
  team     \* the handlers of this behaviour

expiryVars == <<today, cert, inbox, scan>>

Free == [at |-> "free"]
NoCert == [status |-> "none", live |-> FALSE]
Active == {"VALID", "PENDING"}
Expired == 0 - 1

(* Holders have a key per certificate and bucket, staff one per day.       *)
Keys == Certs \X (Buckets \cup {Expired})
Mailboxes == (Members \X Keys) \cup (Staff \X (0..MaxDay))

(* left: rows still to be marked; tell: whom is still to be asked about;   *)
(* send: the notification found missing.                                   *)
ScanType ==
  [at : {"mark", "tell", "digest"}, items : SUBSET Keys, left : SUBSET Certs,
   tell : SUBSET Mailboxes, send : SUBSET Mailboxes]

ExpiryTypeOK ==
  /\ today \in 0..MaxDay
  /\ cert \in [Certs -> {NoCert} \cup
       [status : {"PENDING", "VALID", "EXPIRED"}, expires : Dates, live : BOOLEAN]]
  /\ inbox \in [Mailboxes -> Nat]
  /\ scan \in [Scans -> {Free} \cup ScanType]
  /\ team \in Teams

ExpiryInit ==
  /\ today = 0
  /\ cert = [c \in Certs |-> NoCert]
  /\ inbox = [b \in Mailboxes |-> 0]
  /\ scan = [s \in Scans |-> Free]
  /\ team \in Teams

Working(X) == team \cap X # {}

DayPasses ==
  /\ today < MaxDay   \* bound
  /\ today' = today + 1
  /\ UNCHANGED <<cert, inbox, scan, team>>

----------------------------------------------------------------------------
(* Rows                                                                    *)

Issued(c, status, date) ==
  cert' = [cert EXCEPT ![c] = [status |-> status, expires |-> date, live |-> TRUE]]

(* addCertificate of an organisation awaits its check; none is ever made.  *)
AddCertificate(c) ==
  /\ cert[c] = NoCert
  /\ \E date \in Dates : Issued(c, "PENDING", date)
  /\ UNCHANGED <<today, inbox, scan, team>>

RemoveCertificate(c) ==
  /\ cert[c].live
  /\ cert' = [cert EXCEPT ![c].live = FALSE]
  /\ UNCHANGED <<today, inbox, scan, team>>

----------------------------------------------------------------------------
(* The scan                                                                *)

DaysLeft(c) == cert[c].expires - today

(* The nearest bucket that the days left have reached.                     *)
BucketOf(days) ==
  IF days < 0 THEN Expired ELSE Min({b \in Buckets : days <= b})

(* listExpiring: the active rows within the widest bucket.                 *)
Listed ==
  {<<c, BucketOf(DaysLeft(c))>> : c \in
     {k \in Certs : cert[k].live /\ cert[k].status \in Active /\ DaysLeft(k) <= Max(Buckets)}}

OfBucket(items, buckets) == {i \in items : i[2] \in buckets}

ScanStart(s) ==
  /\ s \in team /\ scan[s] = Free
  /\ scan' = [scan EXCEPT ![s] =
       [at |-> "mark", items |-> Listed, left |-> {i[1] : i \in OfBucket(Listed, {Expired})},
        tell |-> {}, send |-> {}]]
  /\ UNCHANGED <<today, cert, inbox, team>>

(* markExpired: by id, whatever became of the row since it was listed.     *)
ScanMark(s) ==
  /\ scan[s].at = "mark"
  /\ \E c \in scan[s].left :
       /\ cert' = [cert EXCEPT ![c].status = "EXPIRED"]
       /\ scan' = [scan EXCEPT ![s].left = @ \ {c}]
  /\ UNCHANGED <<today, inbox, team>>

(* notifyHolders for every item, once all are marked.                      *)
ScanHolders(s) ==
  /\ scan[s].at = "mark" /\ scan[s].left = {}
  /\ scan' = [scan EXCEPT ![s].at = "tell", ![s].tell = Members \X scan[s].items]
  /\ UNCHANGED <<today, cert, inbox, team>>

(* notifyInternal, of what is urgent and under the date of that moment.    *)
ScanInternal(s) ==
  /\ scan[s].at = "tell" /\ scan[s].tell = {} /\ scan[s].send = {}
  /\ scan' = [scan EXCEPT ![s].at = "digest", ![s].tell =
       IF OfBucket(scan[s].items, {Expired, Min(Buckets)}) = {} THEN {} ELSE Staff \X {today}]
  /\ UNCHANGED <<today, cert, inbox, team>>

(* Mutant of AlreadyNotified: the dedupeKey leaves the bucket out.         *)
AlreadyNotifiedOfCert(b) ==
  \E k \in Mailboxes : k[1] = b[1] /\ b[1] \in Members /\ k[2][1] = b[2][1] /\ inbox[k] > 0

AlreadyNotified(b) == inbox[b] > 0

(* alreadyNotified is asked, ...                                           *)
ScanAsk(s) ==
  /\ scan[s] # Free /\ scan[s].send = {}
  /\ \E b \in scan[s].tell :
       scan' = [scan EXCEPT ![s].tell = @ \ {b},
                            ![s].send = IF AlreadyNotified(b) THEN {} ELSE {b}]
  /\ UNCHANGED <<today, cert, inbox, team>>

(* ... then notifyUser writes.                                             *)
ScanSend(s) ==
  /\ scan[s] # Free
  /\ \E b \in scan[s].send :
       /\ inbox' = [inbox EXCEPT ![b] = @ + 1]
       /\ scan' = [scan EXCEPT ![s].send = {}]
  /\ UNCHANGED <<today, cert, team>>

ScanDone(s) ==
  /\ scan[s].at = "digest" /\ scan[s].tell = {} /\ scan[s].send = {}
  /\ scan' = [scan EXCEPT ![s] = Free]
  /\ UNCHANGED <<today, cert, inbox, team>>

(* A restart of the process, or a query that fails, loses the scan; the    *)
(* next one starts over.                                                   *)
ScanCrash(s) ==
  /\ "crash" \in team   \* bound
  /\ scan[s] # Free
  /\ scan' = [scan EXCEPT ![s] = Free]
  /\ UNCHANGED <<today, cert, inbox, team>>

ScanNext ==
  \E s \in Scans :
    \/ ScanStart(s) \/ ScanMark(s) \/ ScanHolders(s) \/ ScanInternal(s)
    \/ ScanAsk(s) \/ ScanSend(s) \/ ScanDone(s) \/ ScanCrash(s)

ExpiryNext ==
  \/ Working(Scans) /\ \E c \in PartyCerts : AddCertificate(c) \/ RemoveCertificate(c)
  \/ ScanNext
=============================================================================
