------------------------------ MODULE Access ------------------------------
(***************************************************************************)
(* Who may use the platform: accounts and their sessions, and the requests *)
(* of users to have their data exported or to be erased, with the staff    *)
(* that decides them (gdpr.service.ts). A user is the only member of the   *)
(* organisation it registered; an erasure asks for the orders of that      *)
(* organisation that are under way. The actors of one behaviour are drawn  *)
(* by `team'; "crash" lets handlers be lost, "order" lets orders be placed *)
(* while requests are decided.                                             *)
(***************************************************************************)
EXTENDS Sessions, StateMachines

CONSTANTS
  Orders, PartiesOf,   \* the buyer and the supplier of an order
  Submitters, Asks,    \* requests being submitted: their user and type
  Clerks,              \* staff deciding on requests
  MaxRequests          \* bound

ASSUME PrivacyAssumption ==
  /\ PartiesOf \in [Orders -> SUBSET Users]
  /\ Asks \in [Submitters -> Users \X {"EXPORT", "DELETE"}]
  /\ IsFiniteSet(Clerks) /\ MaxRequests \in Nat

VARIABLES
  member,      \* users whose membership is not deleted
  order,       \* status of the orders; "none": not placed yet
  requests,    \* rows of DataSubjectRequest
  exports,     \* requests with a file in the storage
  submitting, deciding   \* the handlers

privacyVars == <<member, order, requests, exports, submitting, deciding>>

IN_FLIGHT_ORDER_STATES ==
  {"PLACED", "PAID_ESCROW", "CONFIRMED", "PREPARING", "SHIPPED",
   "IN_CUSTOMS", "CUSTOMS_CLEARED", "DELIVERED", "DISPUTED", "RESOLVED"}

PrivacyTypeOK ==
  /\ member \subseteq Users
  /\ order \in [Orders -> OrderStatus \cup {"none"}]
  /\ requests \in Seq([user : Users, type : {"EXPORT", "DELETE"},
                       status : {"PENDING", "COMPLETED", "REJECTED"}])
  /\ exports \subseteq DOMAIN requests
  /\ submitting \in [Submitters -> {"free", "create"}]
  /\ deciding \in [Clerks -> {Free} \cup
       [at : {"reject", "export", "complete", "check", "erase"}, request : DOMAIN requests]]

PrivacyInit ==
  /\ member = Users
  /\ order = [o \in Orders |-> "none"]
  /\ requests = <<>> /\ exports = {}
  /\ submitting = [s \in Submitters |-> "free"]
  /\ deciding = [c \in Clerks |-> Free]

----------------------------------------------------------------------------
(* Orders, as far as an erasure sees them                                  *)

(* Nothing in placeOrders asks for the members of either party.  Without   *)
(* "order" in the team nobody orders once requests are being decided.      *)
PlaceOrder(o) ==
  /\ order[o] = "none"
  /\ "order" \in team \/ (member = Users /\ \A c \in Clerks : deciding[c] = Free)   \* bound
  /\ order' = [order EXCEPT ![o] = "PLACED"]
  /\ UNCHANGED <<sessionVars, member, requests, exports, submitting, deciding, team>>

MoveOrder(o) ==
  /\ \E status \in OrderStatus :
       /\ IsEdge(OrderTable, order[o], status)
       /\ order' = [order EXCEPT ![o] = status]
  /\ UNCHANGED <<sessionVars, member, requests, exports, submitting, deciding, team>>

----------------------------------------------------------------------------
(* Requests                                                                *)

PendingOf(ask) ==
  {r \in DOMAIN requests :
     <<requests[r].user, requests[r].type>> = ask /\ requests[r].status = "PENDING"}

Duplicate(ask) == PendingOf(ask) # {}

(* The guard of the route looks no account up: an access token issued      *)
(* before an erasure still submits after it.                               *)
SubmitRead(s) ==
  /\ s \in team /\ submitting[s] = "free"
  /\ ~Duplicate(Asks[s])
  /\ submitting' = [submitting EXCEPT ![s] = "create"]
  /\ UNCHANGED <<sessionVars, member, order, requests, exports, deciding, team>>

SubmitWrite(s) ==
  /\ submitting[s] = "create" /\ Len(requests) < MaxRequests   \* bound
  /\ requests' = Append(requests, [user |-> Asks[s][1], type |-> Asks[s][2], status |-> "PENDING"])
  /\ submitting' = [submitting EXCEPT ![s] = "free"]
  /\ UNCHANGED <<sessionVars, member, order, exports, deciding, team>>

Decides(c, next) == deciding' = [deciding EXCEPT ![c] = next]

LoadPending(r) == requests[r].status = "PENDING"

(* approve and reject both load a pending request.                         *)
DecideStart(c) ==
  /\ c \in team /\ deciding[c] = Free
  /\ \E r \in DOMAIN requests, granted \in BOOLEAN :
       /\ LoadPending(r)
       /\ Decides(c, [request |-> r,
            at |-> IF ~granted THEN "reject"
                   ELSE IF requests[r].type = "EXPORT" THEN "export" ELSE "check"])
  /\ UNCHANGED <<sessionVars, member, order, requests, exports, submitting, team>>

Closed(r, status) == requests' = [requests EXCEPT ![r].status = status]

Reject(c) ==
  /\ deciding[c].at = "reject"
  /\ Closed(deciding[c].request, "REJECTED")
  /\ Decides(c, Free)
  /\ UNCHANGED <<sessionVars, member, order, exports, submitting, team>>

(* Mutant of ExportPut: the put is not awaited.                            *)
ExportPutUnawaited(c) ==
  /\ deciding[c].at = "export"
  /\ Decides(c, [deciding[c] EXCEPT !.at = "complete"])
  /\ \E done \in BOOLEAN :
       exports' = IF done THEN exports \cup {deciding[c].request} ELSE exports
  /\ UNCHANGED <<sessionVars, member, order, requests, submitting, team>>

(* The bundle is gathered and put in the storage, ...                      *)
ExportPut(c) ==
  /\ deciding[c].at = "export"
  /\ exports' = exports \cup {deciding[c].request}
  /\ Decides(c, [deciding[c] EXCEPT !.at = "complete"])
  /\ UNCHANGED <<sessionVars, member, order, requests, submitting, team>>

(* ... then the request is completed with its key and token.               *)
ExportComplete(c) ==
  /\ deciding[c].at = "complete"
  /\ Closed(deciding[c].request, "COMPLETED")
  /\ Decides(c, Free)
  /\ UNCHANGED <<sessionVars, member, order, exports, submitting, team>>

(* Mutant of InFlight: a ruling counts as the end of an order.             *)
InFlightUntilRuling(u) ==
  {o \in Orders : u \in PartiesOf[o] /\ order[o] \in IN_FLIGHT_ORDER_STATES \ {"RESOLVED"}}

InFlight(u) == {o \in Orders : u \in PartiesOf[o] /\ order[o] \in IN_FLIGHT_ORDER_STATES}

(* assertErasable: no one else is a member, so no order may be under way;  *)
(* a user without membership has nothing to hand over.                     *)
EraseCheck(c) ==
  LET u == requests[deciding[c].request].user IN
  /\ deciding[c].at = "check"
  /\ IF u \in member /\ InFlight(u) # {} THEN Decides(c, Free)
     ELSE Decides(c, [deciding[c] EXCEPT !.at = "erase"])
  /\ UNCHANGED <<sessionVars, member, order, requests, exports, submitting, team>>

ResetsErased(u) ==
  [r \in DOMAIN resets |->
     IF resets[r].user = u THEN [resets[r] EXCEPT !.state = "deleted"] ELSE resets[r]]

(* The transaction: the account is disabled and emptied, its sessions are  *)
(* revoked, its links, membership and roles go, the request is completed.  *)
Erase(c) ==
  LET u == requests[deciding[c].request].user IN
  /\ deciding[c].at = "erase"
  /\ account' = [account EXCEPT ![u] =
       [status |-> "DISABLED", erased |-> TRUE, password |-> FALSE, totp |-> FALSE]]
  /\ sessions' = RevokedAll(u)
  /\ resets' = ResetsErased(u)
  /\ over' = Ended(u)
  /\ member' = member \ {u}
  /\ Closed(deciding[c].request, "COMPLETED")
  /\ Decides(c, Free)
  /\ UNCHANGED <<clock, ticket, jar, signedIn, refreshing, calling, form, order, exports,
                 submitting, team>>

(* A restart, or a query or a put that fails, loses the handler.           *)
DecideCrash(c) ==
  /\ "crash" \in team   \* bound
  /\ deciding[c] # Free
  /\ Decides(c, Free)
  /\ UNCHANGED <<sessionVars, member, order, requests, exports, submitting, team>>

PrivacyNext ==
  \/ Acting(Clerks) /\ \E o \in Orders : PlaceOrder(o) \/ MoveOrder(o)
  \/ \E s \in Submitters : SubmitRead(s) \/ SubmitWrite(s)
  \/ \E c \in Clerks :
       \/ DecideStart(c) \/ Reject(c) \/ ExportPut(c) \/ ExportComplete(c)
       \/ EraseCheck(c) \/ Erase(c) \/ DecideCrash(c)

----------------------------------------------------------------------------

vars == <<sessionVars, team, privacyVars>>

TypeOK == SessionsTypeOK /\ PrivacyTypeOK

Init == SessionsInit /\ PrivacyInit

Next ==
  \/ SessionsNext /\ UNCHANGED privacyVars
  \/ PrivacyNext

Spec == Init /\ [][Next]_vars

----------------------------------------------------------------------------
(* Tabs that refresh one cookie at once do not sign each other out: while  *)
(* a refresh is answered within half of the grace and nothing crashes, a   *)
(* browser shows its user as signed out only after a logout, a change of   *)
(* the password or an erasure.                                             *)
StaysSignedIn ==
  [][\A b \in Browsers :
       signedIn[b] /\ ~signedIn'[b] /\ "crash" \notin team => over'[b]]_vars

(* With nothing in flight the refresh cookie of a browser names a session  *)
(* in force: whichever answer came last, it can be refreshed.              *)
JarIsLive ==
  \A b \in Browsers :
    /\ "crash" \notin team /\ ~over[b] /\ form[b] = Free
    /\ \A t \in Tabs : BrowserOf[t] = b => refreshing[t] = Free
    => jar[b].refresh # 0 /\ sessions[jar[b].refresh].revoked = Live

(* An erased account starts no sign-in, change or reset again (`the        *)
(* account can no longer log in', executeErasure), by whatever was mailed  *)
(* or issued before.                                                       *)
ErasedStartsNothing ==
  [][\A b \in Browsers :
       account[Owner[b]].erased /\ form[b] = Free => form'[b] = Free]_vars

(* A user has one pending request of a type (submit), unless two           *)
(* submissions overlap.                                                    *)
OnePendingRequest ==
  \A s \in team \cap Submitters :
    (\A x \in team \cap Submitters : Asks[x] = Asks[s] => x = s) =>
      Cardinality(PendingOf(Asks[s])) <= 1

(* A completed export has its file, whatever crashes.                      *)
ExportIsStored ==
  \A r \in DOMAIN requests :
    requests[r].type = "EXPORT" /\ requests[r].status = "COMPLETED" => r \in exports

(* No order is left to a party that is gone (assertErasable): once a       *)
(* member is erased, the orders of its organisation do not move again,     *)
(* because the statuses that count as in flight are all from which the     *)
(* order machine goes on.                                                  *)
NothingLeftUndone ==
  [][\A o \in Orders :
       "order" \notin team /\ PartiesOf[o] \cap member # PartiesOf[o] => order'[o] = order[o]]_vars

(* A request is decided once: by one clerk at a time, a decision is not    *)
(* changed, so who was erased has a completed request to show for it.      *)
ErasedOnRequest ==
  Cardinality(team \cap Clerks) <= 1 =>
    \A u \in Users : account[u].erased =>
      \E r \in DOMAIN requests :
        requests[r].user = u /\ requests[r].type = "DELETE" /\ requests[r].status = "COMPLETED"

(* A browser stays signed in, and what it holds can be refreshed, until    *)
(* its user or an erasure ends it.                                         *)
SessionsHold == []JarIsLive /\ StaysSignedIn

(* Requests of data subjects are decided once, and have what they promise. *)
RequestsKept == TypeOK /\ OnePendingRequest /\ ExportIsStored /\ ErasedOnRequest

(* Who is erased is gone: nothing of theirs starts again, and no order is  *)
(* left waiting for them.                                                  *)
ErasedIsGone == ErasedStartsNothing /\ NothingLeftUndone
=============================================================================
