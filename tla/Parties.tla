------------------------------ MODULE Parties ------------------------------
(***************************************************************************)
(* Who takes part: registration (auth.service.ts) with the codes of        *)
(* code-generator.service.ts, review by the staff, contacts, and access to *)
(* what a party keeps confidential (party.service.ts).                     *)
(***************************************************************************)
EXTENDS Messaging

CONSTANTS
  Registrars, Email,   \* registrations being submitted and their addresses
  JumpMax,             \* of the rule of the codes
  Clerks,              \* administrators who review parties
  Keepers,             \* requests of a party to keep its contacts
  Requesters,          \* staff asking for confidential fields
  HighFields, LowFields,   \* HIGH_SENSITIVITY_FIELDS and the others
  Window,              \* how long a grant lasts
  MaxParties, MaxContacts, MaxEscalations   \* bounds

ASSUME PartiesAssumption ==
  /\ {JumpMax, Window} \subseteq Nat \ {0}
  /\ "rule" \notin SuperAdmins /\ IsFiniteSet(Keepers)
  /\ {MaxParties, MaxContacts, MaxEscalations} \subseteq Nat

VARIABLES
  parties,      \* rows of Organization with the address of the owner
  currentSeq,   \* of the rule of the codes
  registering,  \* the handlers of register
  contacts,     \* rows of Contact of one organisation
  keeping,      \* the handlers of addContact
  escalations,  \* rows of AccessEscalation
  granted,      \* history: grants, with what or who granted and when
  seen          \* history: fields read, with the escalation (0: the list) and the time

registerVars == <<parties, currentSeq, registering>>
contactVars == <<contacts, keeping>>
accessVars == <<escalations, granted, seen>>

Codes == Nat
Statuses == {"PENDING", "APPROVED", "DENIED"}
Fields == HighFields \cup LowFields

(* What the list of the parties decrypts for an administrator.             *)
ListedFields == Fields \cap {"companyName", "registrationNo", "taxId", "contactName"}
Now == 0..MaxClock

PartiesTypeOK ==
  /\ parties \in Seq([email : {Email[r] : r \in Registrars}, code : Codes,
                      status : {"PENDING", "ACTIVE", "INACTIVE"}])
  /\ currentSeq \in Nat
  /\ registering \in [Registrars -> [at : {"free", "code", "create", "ok", "refused", "failed"}, code : Nat]]
  /\ contacts \in Seq([primary : BOOLEAN, live : BOOLEAN])
  /\ keeping \in [Keepers -> {"free", "create"}]
  /\ escalations \in Seq([by : Requesters, fields : SUBSET Fields, status : Statuses,
                          until : {None} \cup 0..MaxClock + Window])
  /\ granted \subseteq [escalation : Nat, by : SuperAdmins \cup {"rule"}, at : Now]
  /\ seen \subseteq [escalation : Nat, field : Fields, at : Now]

PartiesInit ==
  /\ parties = <<>> /\ currentSeq = 0
  /\ registering = [r \in Registrars |-> [at |-> "free", code |-> 0]]
  /\ contacts = <<>> /\ keeping = [k \in Keepers |-> "free"]
  /\ escalations = <<>> /\ granted = {} /\ seen = {}

----------------------------------------------------------------------------
(* Registration                                                            *)

Registers(r, at, code) == registering' = [registering EXCEPT ![r] = [at |-> at, code |-> code]]
Taken(email) == \E i \in DOMAIN parties : parties[i].email = email

RegisterCheck(r) ==
  /\ r \in team /\ registering[r].at = "free"
  /\ Registers(r, IF Taken(Email[r]) THEN "refused" ELSE "code", 0)
  /\ UNCHANGED <<outboxVars, parties, currentSeq>>

CodeFree == \A s \in Registrars : registering[s].at # "create"

(* The transaction locks the rule and jumps ahead; it commits the new      *)
(* sequence or, rolled back, leaves the old one.                           *)
RegisterCode(r) ==
  /\ registering[r].at = "code" /\ CodeFree
  /\ \E jump \in 1..JumpMax : Registers(r, "create", currentSeq + jump)
  /\ UNCHANGED <<outboxVars, parties, currentSeq>>

(* The rows; publicCode and emailBidx are unique.                          *)
RegisterCreate(r) ==
  LET code == registering[r].code
      collides == \E i \in DOMAIN parties : parties[i].code = code
  IN
  /\ registering[r].at = "create"
  /\ \/ /\ Taken(Email[r]) \/ collides
        /\ Registers(r, IF collides THEN "failed" ELSE "refused", 0)
        /\ UNCHANGED <<outboxVars, parties, currentSeq>>
     \/ /\ ~Taken(Email[r]) /\ ~collides
        /\ Len(parties) < MaxParties   \* bound
        /\ parties' = Append(parties, [email |-> Email[r], code |-> code, status |-> "PENDING"])
        /\ currentSeq' = code
        /\ Emit("PartyRegistered", Len(parties) + 1)
        /\ Registers(r, "ok", 0)

(* approve does not ask what the status was.                               *)
Approve(c, i, status) ==
  /\ c \in team
  /\ i \in DOMAIN parties /\ parties[i].status # status   \* bound
  /\ parties' = [parties EXCEPT ![i].status = status]
  /\ Emit(IF status = "ACTIVE" THEN "PartyApproved" ELSE "PartyRejected", i)
  /\ UNCHANGED <<currentSeq, registering>>

RegisterNext ==
  \/ \E r \in Registrars : RegisterCheck(r) \/ RegisterCode(r) \/ RegisterCreate(r)
  \/ \E c \in Clerks, i \in DOMAIN parties, status \in {"ACTIVE", "INACTIVE"} : Approve(c, i, status)

----------------------------------------------------------------------------
(* Contacts                                                                *)

Demoted == [i \in DOMAIN contacts |-> [contacts[i] EXCEPT !.primary = @ /\ ~contacts[i].live]]

(* A primary contact first takes the place of the others, ...              *)
AddPrimary(k) ==
  /\ k \in team /\ keeping[k] = "free"
  /\ contacts' = Demoted
  /\ keeping' = [keeping EXCEPT ![k] = "create"]

(* ... and is created in a step of its own.                                *)
AddContact(k) ==
  /\ Len(contacts) < MaxContacts   \* bound
  /\ \/ /\ keeping[k] = "create"
        /\ contacts' = Append(contacts, [primary |-> TRUE, live |-> TRUE])
     \/ /\ k \in team /\ keeping[k] = "free"
        /\ contacts' = Append(contacts, [primary |-> FALSE, live |-> TRUE])
  /\ keeping' = [keeping EXCEPT ![k] = "free"]

RemoveContact(k) ==
  /\ k \in team
  /\ \E i \in DOMAIN contacts :
       contacts[i].live /\ contacts' = [contacts EXCEPT ![i].live = FALSE]
  /\ UNCHANGED keeping

KeepNext == \E k \in Keepers : AddPrimary(k) \/ AddContact(k) \/ RemoveContact(k)

----------------------------------------------------------------------------
(* Confidential fields                                                     *)

(* Mutant of IsHigh: only a request for nothing but such fields counts.    *)
IsHighWhole(fields) == fields \subseteq HighFields

IsHigh(fields) == fields \cap HighFields # {}

RequestEscalation(q) ==
  /\ q \in team /\ Len(escalations) < MaxEscalations   \* bound
  /\ \E fields \in SUBSET Fields \ {{}} :
       LET high == IsHigh(fields) IN
       /\ escalations' = Append(escalations,
            [by |-> q, fields |-> fields, status |-> IF high THEN "PENDING" ELSE "APPROVED",
             until |-> IF high THEN None ELSE clock + Window])
       /\ granted' = IF high THEN granted
                     ELSE granted \cup {[escalation |-> Len(escalations) + 1, by |-> "rule", at |-> clock]}
  /\ Emit("AccessEscalated", Len(escalations) + 1)
  /\ UNCHANGED seen

(* A decision does not ask what was decided before.                        *)
DecideEscalation(a, e, allowed) ==
  /\ a \in team
  /\ escalations' = [escalations EXCEPT
       ![e].status = IF allowed THEN "APPROVED" ELSE "DENIED",
       ![e].until = IF allowed THEN clock + Window ELSE None]
  /\ granted' = IF allowed THEN granted \cup {[escalation |-> e, by |-> a, at |-> clock]} ELSE granted
  /\ UNCHANGED <<outboxVars, seen>>

ViewSensitive(q, e) ==
  /\ q \in team /\ escalations[e].by = q
  /\ escalations[e].status = "APPROVED" /\ escalations[e].until >= clock
  /\ seen' = seen \cup {[escalation |-> e, field |-> f, at |-> clock] : f \in escalations[e].fields}
  /\ UNCHANGED <<outboxVars, escalations, granted>>

(* listParties: no grant is asked for, only the list is audited.           *)
ListParties(c) ==
  /\ c \in team /\ parties # <<>>
  /\ seen' = seen \cup {[escalation |-> 0, field |-> f, at |-> clock] : f \in ListedFields}
  /\ UNCHANGED <<outboxVars, escalations, granted>>

AccessNext ==
  \/ \E c \in Clerks : ListParties(c)
  \/ \E q \in Requesters : RequestEscalation(q)
  \/ \E e \in DOMAIN escalations :
       \/ \E a \in SuperAdmins, allowed \in BOOLEAN : DecideEscalation(a, e, allowed)
       \/ \E q \in Requesters : ViewSensitive(q, e)
=============================================================================
