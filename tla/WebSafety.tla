------------------------------ MODULE WebSafety -----------------------------
(***************************************************************************)
(* The browser's side.  Sessions, requests and erasures are kept, for any  *)
(* numbers of users, browsers, tabs and staff: the properties of Access.   *)
(* A refresh token is in the hands of one browser, and what a tab is about *)
(* to receive nobody has seen before; so a session is revoked only by a    *)
(* tab that will bring the next one, within the grace the others still     *)
(* have.  The pages of Desk: whatever rows a case starts from, its pages   *)
(* offer what the API takes, show what was so and send a form once.        *)
(***************************************************************************)
EXTENDS Access, Desk, Sums

(* Frames name rows there are.                                             *)
FramesPoint ==
  /\ \A b \in Browsers : jar[b].refresh <= Len(sessions)
  /\ \A t \in Pending :
       /\ refreshing[t].token <= Len(sessions) /\ refreshing[t].new <= Len(sessions)
       /\ refreshing[t].at \in {"revoke", "issue"} => refreshing[t].token # 0
FormsPoint == \A b \in Browsers : form[b].at = "reset" => form[b].token <= Len(resets)

(* A session is in the hands of one browser, that of its user: in the jar, *)
(* sent by one of the tabs or on its way to one.                           *)
Holds(b, i) ==
  /\ i # 0
  /\ \/ jar[b].refresh = i
     \/ \E t \in Pending : BrowserOf[t] = b /\ i \in {refreshing[t].token, refreshing[t].new}
SessionsOwned ==
  \A b \in Browsers, i \in 1..MaxSessions : Holds(b, i) =>
    /\ sessions[i].user = Owner[b]
    /\ \A c \in Browsers : Holds(c, i) => c = b

(* The session that is on its way to a tab is nowhere else.                *)
NewIsUnseen ==
  \A t \in Pending : refreshing[t].new # 0 =>
    /\ refreshing[t].at = "answer"
    /\ \A b \in Browsers : jar[b].refresh # refreshing[t].new
    /\ \A s \in Pending :
         /\ refreshing[s].token # refreshing[t].new
         /\ refreshing[s].new = refreshing[t].new => s = t

OnTime ==
  \A t \in Pending : refreshing[t].sent <= clock /\ clock <= refreshing[t].sent + Latency

(* Of a browser that was not signed out, a session is revoked by a tab     *)
(* that will bring another one, and a token that was sent is in its grace. *)
Undisturbed(b) == "crash" \notin team /\ ~over[b]
Replacing(t, n) ==
  /\ refreshing[t].at \in {"issue", "answer"} /\ refreshing[t].token = n
  /\ refreshing[t].sent <= sessions[n].revoked
JarOK(b) ==
  LET n == jar[b].refresh IN
  /\ n # 0
  /\ sessions[n].revoked = Live \/ \E t \in Pending : BrowserOf[t] = b /\ Replacing(t, n)
TabOK(t) ==
  /\ refreshing[t].token # 0
  /\ \/ sessions[refreshing[t].token].revoked = Live
     \/ sessions[refreshing[t].token].revoked >= refreshing[t].sent - Latency
  /\ refreshing[t].at = "answer" =>
       refreshing[t].new # 0 /\ sessions[refreshing[t].new].revoked = Live
TokensLast ==
  \A b \in Browsers : Undisturbed(b) =>
    JarOK(b) /\ \A t \in Pending : BrowserOf[t] = b => TabOK(t)

SessionsInv == FramesPoint /\ SessionsOwned /\ NewIsUnseen /\ OnTime /\ TokensLast

(* A submission that is alone with its question has found no request, and  *)
(* nobody else asks.                                                       *)
Alone(s) == \A x \in team \cap Submitters : Asks[x] = Asks[s] => x = s
SubmissionsOK ==
  /\ \A s \in Submitters : submitting[s] # "free" => s \in team
  /\ \A s \in team \cap Submitters : Alone(s) =>
       /\ \A i, j \in PendingOf(Asks[s]) : i = j
       /\ submitting[s] = "create" => PendingOf(Asks[s]) = {}

(* What a clerk does fits the request; a clerk who is alone decides on one *)
(* that is pending.                                                        *)
DecisionsOK ==
  \A c \in Clerks : deciding[c] # Free =>
    /\ c \in team
    /\ deciding[c].at \in {"export", "complete"} => requests[deciding[c].request].type = "EXPORT"
    /\ deciding[c].at \in {"check", "erase"} => requests[deciding[c].request].type = "DELETE"
    /\ deciding[c].at = "complete" => deciding[c].request \in exports
    /\ Cardinality(team \cap Clerks) <= 1 => requests[deciding[c].request].status = "PENDING"

(* The links of an erased account are gone, and no order of who is no      *)
(* member is under way, nor of who is about to be none.                    *)
LinksGone ==
  \A u \in Users : account[u].erased =>
    \A r \in DOMAIN resets : resets[r].user = u => resets[r].state = "deleted"
OrdersDone ==
  /\ \A o \in Orders : order[o] # "DRAFT"
  /\ "order" \notin team =>
       /\ \A u \in Users : u \notin member => InFlight(u) = {}
       /\ \A c \in Clerks : deciding[c].at = "erase" => InFlight(requests[deciding[c].request].user) = {}

PrivacyInv ==
  /\ FormsPoint /\ SubmissionsOK /\ DecisionsOK /\ ExportIsStored /\ ErasedOnRequest
  /\ LinksGone /\ OrdersDone

AccessInv == TypeOK /\ SessionsInv /\ PrivacyInv
----------------------------------------------------------------------------
(* What steps do to rows and frames                                        *)

LEMMA Assumptions ==
  /\ Internal \subseteq Users /\ Owner \in [Browsers -> Users]
  /\ BrowserOf \in [Tabs -> Browsers] /\ TabOf \in [Calls -> Tabs]
  /\ REFRESH_GRACE \in Nat /\ Latency \in Nat /\ 2 * Latency <= REFRESH_GRACE
  /\ MaxClock \in Nat /\ MaxSessions \in Nat /\ MaxTokens \in Nat
  /\ IsFiniteSet(Browsers) /\ Cardinality(Browsers) <= MaxSessions
  /\ PartiesOf \in [Orders -> SUBSET Users] /\ Asks \in [Submitters -> Users \X {"EXPORT", "DELETE"}]
  /\ IsFiniteSet(Clerks) /\ MaxRequests \in Nat
BY SessionsAssumption, PrivacyAssumption

SessionRow == [user : Users, revoked : {Live} \cup Nat]
JarRow == [access : BOOLEAN, refresh : 0..MaxSessions]
ResetRow == [user : Users, state : {"fresh", "used", "lapsed", "deleted"}]
RequestRow == [user : Users, type : {"EXPORT", "DELETE"}, status : {"PENDING", "COMPLETED", "REJECTED"}]

(* The rows of the tables.                                                 *)
LEMMA Rows ==
  ASSUME TypeOK
  PROVE  /\ sessions \in Seq(SessionRow) /\ Len(sessions) \in 0..MaxSessions
         /\ DOMAIN sessions = 1..Len(sessions)
         /\ \A i \in DOMAIN sessions : sessions[i] \in SessionRow
         /\ resets \in Seq(ResetRow) /\ Len(resets) \in 0..MaxTokens
         /\ DOMAIN resets = 1..Len(resets)
         /\ \A r \in DOMAIN resets : resets[r] \in ResetRow
         /\ requests \in Seq(RequestRow) /\ Len(requests) \in Nat
         /\ DOMAIN requests = 1..Len(requests)
         /\ \A r \in DOMAIN requests : requests[r] \in RequestRow
         /\ jar \in [Browsers -> JarRow]
<1>1. /\ sessions \in Seq(SessionRow) /\ Len(sessions) <= MaxSessions
      /\ resets \in Seq(ResetRow) /\ Len(resets) <= MaxTokens
      /\ jar \in [Browsers -> JarRow]
  BY DEF TypeOK, SessionsTypeOK, SessionRow, ResetRow, JarRow
<1>2. requests \in Seq(RequestRow) BY DEF TypeOK, PrivacyTypeOK, RequestRow
<1>3. \A S : \A s \in Seq(S) : Len(s) \in Nat /\ DOMAIN s = 1..Len(s) /\ \A i \in DOMAIN s : s[i] \in S
  OBVIOUS
<1> QED BY <1>1, <1>2, <1>3, Assumptions

(* The frame of a tab.                                                     *)
LEMMA TabRow ==
  ASSUME TypeOK
  PROVE  /\ Pending \subseteq Tabs
         /\ \A t \in Tabs : refreshing[t].at # "free" => t \in Pending
         /\ \A t \in Pending :
              /\ refreshing[t] \in RefreshType
              /\ refreshing[t].at \in {"read", "revoke", "issue", "answer"}
              /\ refreshing[t].token \in 0..MaxSessions /\ refreshing[t].new \in 0..MaxSessions
              /\ refreshing[t].sent \in Nat
BY DEF TypeOK, SessionsTypeOK, Pending, RefreshType, Free

Others(t) == \A s \in Tabs \ {t} : refreshing'[s] = refreshing[s]

(* A tab goes on to its next step, ...                                     *)
LEMMA Advance ==
  ASSUME TypeOK, NEW t \in Pending, NEW next \in {"revoke", "issue", "answer"},
         refreshing' = [refreshing EXCEPT ![t].at = next]
  PROVE  /\ refreshing' \in [Tabs -> {Free} \cup RefreshType] /\ Pending' = Pending /\ Others(t)
         /\ refreshing'[t].at = next /\ refreshing'[t].token = refreshing[t].token
         /\ refreshing'[t].sent = refreshing[t].sent /\ refreshing'[t].new = refreshing[t].new
<1>1. PICK entry : entry = [refreshing[t] EXCEPT !.at = next] OBVIOUS
<1>2. refreshing' = [refreshing EXCEPT ![t] = entry] BY <1>1
<1>3. refreshing[t] \in RefreshType /\ t \in Tabs BY TabRow DEF Pending
<1>4. /\ entry \in RefreshType /\ entry.at = next /\ entry.token = refreshing[t].token
      /\ entry.sent = refreshing[t].sent /\ entry.new = refreshing[t].new
  BY <1>1, <1>3 DEF RefreshType
<1>5. entry # Free BY <1>4 DEF Free
<1>6. refreshing \in [Tabs -> {Free} \cup RefreshType] BY DEF TypeOK, SessionsTypeOK
<1>7. refreshing'[t] = entry /\ Others(t) BY <1>2, <1>3, <1>6 DEF Others
<1>8. Pending' = Pending BY <1>5, <1>7 DEF Pending, Others
<1> QED BY <1>2, <1>3, <1>4, <1>6, <1>7, <1>8

(* ... is given a new session, ...                                         *)
LEMMA Receive ==
  ASSUME TypeOK, NEW t \in Pending, NEW new \in 0..MaxSessions,
         refreshing' = [refreshing EXCEPT ![t].at = "answer", ![t].new = new]
  PROVE  /\ refreshing' \in [Tabs -> {Free} \cup RefreshType] /\ Pending' = Pending /\ Others(t)
         /\ refreshing'[t].at = "answer" /\ refreshing'[t].token = refreshing[t].token
         /\ refreshing'[t].sent = refreshing[t].sent /\ refreshing'[t].new = new
<1>1. PICK entry : entry = [refreshing[t] EXCEPT !.at = "answer", !.new = new] OBVIOUS
<1>3. refreshing[t] \in RefreshType /\ t \in Tabs BY TabRow DEF Pending
<1>6. refreshing \in [Tabs -> {Free} \cup RefreshType] BY DEF TypeOK, SessionsTypeOK
<1>2. refreshing' = [refreshing EXCEPT ![t] = entry] BY <1>1, <1>3, <1>6
<1>4. /\ entry \in RefreshType /\ entry.at = "answer" /\ entry.token = refreshing[t].token
      /\ entry.sent = refreshing[t].sent /\ entry.new = new
  BY <1>1, <1>3 DEF RefreshType
<1>5. entry # Free BY <1>4 DEF Free
<1>7. refreshing'[t] = entry /\ Others(t) BY <1>2, <1>3, <1>6 DEF Others
<1>8. Pending' = Pending BY <1>5, <1>7 DEF Pending, Others
<1> QED BY <1>2, <1>3, <1>4, <1>6, <1>7, <1>8

(* ... has asked for one, ...                                              *)
LEMMA Ask ==
  ASSUME TypeOK, NEW t \in Tabs, NEW token \in 0..MaxSessions, refreshing[t] = Free,
         refreshing' = [refreshing EXCEPT ![t] = [at |-> "read", token |-> token, sent |-> clock, new |-> 0]]
  PROVE  /\ refreshing' \in [Tabs -> {Free} \cup RefreshType] /\ Pending' = Pending \cup {t} /\ Others(t)
         /\ refreshing'[t].at = "read" /\ refreshing'[t].token = token
         /\ refreshing'[t].sent = clock /\ refreshing'[t].new = 0
<1>1. refreshing \in [Tabs -> {Free} \cup RefreshType] /\ clock \in Nat
  BY Assumptions DEF TypeOK, SessionsTypeOK
<1>2. PICK entry : entry = [at |-> "read", token |-> token, sent |-> clock, new |-> 0] OBVIOUS
<1>3. entry \in RefreshType /\ entry # Free BY <1>1, <1>2, Assumptions DEF RefreshType, Free
<1>4. refreshing'[t] = entry /\ Others(t) BY <1>1, <1>2 DEF Others
<1>5. Pending' = Pending \cup {t} BY <1>3, <1>4 DEF Pending, Others
<1> QED BY <1>1, <1>2, <1>3, <1>4, <1>5

(* ... or has its answer.                                                  *)
LEMMA Answered ==
  ASSUME TypeOK, NEW t \in Pending, refreshing' = [refreshing EXCEPT ![t] = Free]
  PROVE  refreshing' \in [Tabs -> {Free} \cup RefreshType] /\ Pending' = Pending \ {t} /\ Others(t)
<1>1. refreshing \in [Tabs -> {Free} \cup RefreshType] BY DEF TypeOK, SessionsTypeOK
<1> QED BY <1>1 DEF Pending, Others

(* Rows of sessions: their users stay, one is stamped or all of a user,    *)
(* one is added.                                                           *)
LEMMA Stamp ==
  ASSUME TypeOK, NEW i \in DOMAIN sessions, sessions' = [sessions EXCEPT ![i].revoked = clock]
  PROVE  /\ sessions' \in Seq(SessionRow) /\ Len(sessions') = Len(sessions)
         /\ \A j \in DOMAIN sessions : sessions'[j].user = sessions[j].user
         /\ sessions'[i].revoked = clock
         /\ \A j \in DOMAIN sessions \ {i} : sessions'[j] = sessions[j]
<1>1. PICK entry : entry = [sessions[i] EXCEPT !.revoked = clock] OBVIOUS
<1>2. sessions' = [sessions EXCEPT ![i] = entry] BY <1>1
<1>3. sessions[i] \in SessionRow /\ sessions \in Seq(SessionRow) BY Rows
<1>4. clock \in Nat BY Assumptions DEF TypeOK, SessionsTypeOK
<1>5. entry \in SessionRow /\ entry.user = sessions[i].user /\ entry.revoked = clock
  BY <1>1, <1>3, <1>4 DEF SessionRow
<1> HIDE DEF SessionRow
<1> QED BY <1>2, <1>3, <1>5, Replace

LEMMA StampAll ==
  ASSUME TypeOK, NEW u \in Users, sessions' = RevokedAll(u)
  PROVE  /\ sessions' \in Seq(SessionRow) /\ Len(sessions') = Len(sessions)
         /\ \A j \in DOMAIN sessions : sessions'[j].user = sessions[j].user
         /\ \A j \in DOMAIN sessions : sessions[j].user # u => sessions'[j] = sessions[j]
<1>1. /\ sessions \in Seq(SessionRow) /\ \A j \in DOMAIN sessions : sessions[j] \in SessionRow
      /\ clock \in Nat
  BY Rows, Assumptions DEF TypeOK, SessionsTypeOK
<1>2. \A j \in DOMAIN sessions :
        /\ sessions'[j] \in SessionRow /\ sessions'[j].user = sessions[j].user
        /\ sessions[j].user # u => sessions'[j] = sessions[j]
  BY <1>1 DEF RevokedAll, SessionRow
<1>3. sessions' = [j \in DOMAIN sessions |-> sessions'[j]] BY DEF RevokedAll
<1> HIDE DEF SessionRow
<1>4. sessions' \in [DOMAIN sessions -> SessionRow] BY <1>2, <1>3, Zenon
<1> QED BY <1>1, <1>2, <1>4, Replace

LEMMA Issue ==
  ASSUME TypeOK, NEW u \in Users, Len(sessions) < MaxSessions, sessions' = Issued(u)
  PROVE  /\ sessions' \in Seq(SessionRow) /\ Len(sessions') = Len(sessions) + 1
         /\ Len(sessions') \in 1..MaxSessions
         /\ \A j \in DOMAIN sessions : sessions'[j] = sessions[j]
         /\ sessions'[Len(sessions')].user = u /\ sessions'[Len(sessions')].revoked = Live
<1>1. PICK entry : entry = [user |-> u, revoked |-> Live] OBVIOUS
<1>2. entry \in SessionRow /\ entry.user = u /\ entry.revoked = Live BY <1>1 DEF SessionRow
<1>3. sessions' = Append(sessions, entry) BY <1>1 DEF Issued
<1>4. sessions \in Seq(SessionRow) /\ Len(sessions) \in 0..MaxSessions BY Rows
<1> HIDE DEF SessionRow
<1>5. /\ sessions' \in Seq(SessionRow) /\ Len(sessions') = Len(sessions) + 1
      /\ sessions'[Len(sessions) + 1] = entry /\ \A j \in DOMAIN sessions : sessions'[j] = sessions[j]
  BY <1>2, <1>3, <1>4, AppendTo
<1> QED BY <1>2, <1>4, <1>5, Assumptions

----------------------------------------------------------------------------
(* Sessions and tokens                                                     *)

RotationTypes ==
  /\ clock \in 0..MaxClock
  /\ sessions \in Seq(SessionRow) /\ Len(sessions) <= MaxSessions
  /\ jar \in [Browsers -> JarRow]
  /\ refreshing \in [Tabs -> {Free} \cup RefreshType]
  /\ signedIn \in [Browsers -> BOOLEAN] /\ over \in [Browsers -> BOOLEAN]

(* What changes sessions, jars and frames of tabs, apart from the actions  *)
(* of Sessions themselves.                                                 *)
Same ==
  /\ UNCHANGED <<clock, sessions, signedIn, refreshing, over, team>>
  /\ jar' \in [Browsers -> JarRow] /\ \A b \in Browsers : jar'[b].refresh = jar[b].refresh
AskFor(t) ==
  /\ refreshing[t] = Free
  /\ refreshing' = [refreshing EXCEPT ![t] =
       [at |-> "read", token |-> jar[BrowserOf[t]].refresh, sent |-> clock, new |-> 0]]
  /\ UNCHANGED <<clock, sessions, jar, signedIn, over, team>>
EndAll(u) ==
  /\ sessions' = RevokedAll(u) /\ over' = Ended(u)
  /\ UNCHANGED <<clock, jar, signedIn, refreshing, team>>

(* The access cookie lapses, the refresh cookie stays.                     *)
LEMMA CookieLapses ==
  ASSUME TypeOK, NEW b \in Browsers, AccessExpires(b)
  PROVE  Same
<1>1. PICK entry : entry = [jar[b] EXCEPT !.access = FALSE] OBVIOUS
<1>2. jar' = [jar EXCEPT ![b] = entry] BY <1>1 DEF AccessExpires
<1>3. jar \in [Browsers -> JarRow] BY Rows
<1>4. entry \in JarRow /\ entry.refresh = jar[b].refresh BY <1>1, <1>3 DEF JarRow
<1>5. jar' \in [Browsers -> JarRow] /\ \A c \in Browsers : jar'[c].refresh = jar[c].refresh
  BY <1>2, <1>3, <1>4
<1> QED BY <1>5 DEF AccessExpires, Same

LEMMA Moves ==
  ASSUME TypeOK, [Next]_vars
  PROVE  \/ Same \/ Tick
         \/ \E t \in Tabs :
              AskFor(t) \/ RefreshRead(t) \/ RefreshRevoke(t) \/ RefreshIssue(t)
              \/ RefreshAnswer(t) \/ RefreshCrash(t)
         \/ \E u \in Users : EndAll(u)
         \/ \E b \in Browsers : SignIn(b) \/ Logout(b)
<1>1. jar \in [Browsers -> JarRow] /\ Owner \in [Browsers -> Users] /\ TabOf \in [Calls -> Tabs]
  BY Rows, Assumptions
<1> HIDE DEF JarRow
<1>2. CASE UNCHANGED vars BY <1>1, <1>2 DEF vars, sessionVars, Same
<1>3. CASE SessionsNext
  <2> USE <1>1
  <2>1. CASE Tick BY <2>1
  <2>2. CASE \E k \in Calls : CallRefused(k)
    <3>1. PICK k \in Calls : CallRefused(k) BY <2>2
    <3>2. Same \/ AskFor(TabOf[k]) BY <3>1 DEF CallRefused, Same, AskFor
    <3> QED BY <3>2
  <2>3. CASE \E k \in Calls : CallReplayed(k) BY <2>3 DEF CallReplayed, unserved, Same
  <2>4. CASE \E t \in Tabs :
          RefreshRead(t) \/ RefreshRevoke(t) \/ RefreshIssue(t) \/ RefreshAnswer(t) \/ RefreshCrash(t)
    BY <2>4
  <2>5. CASE \E b \in Browsers : AccessExpires(b) BY <2>5, CookieLapses
  <2>6. CASE \E b \in Browsers : LoginRead(b) \/ MfaVerify(b) \/ MfaEnable(b) \/ MfaDisable(b)
    BY <2>6 DEF LoginRead, MfaVerify, MfaEnable, MfaDisable, untouched, Same
  <2>7. CASE \E b \in Browsers : ChangeRead(b) \/ ResetRead(b)
    BY <2>7 DEF ChangeRead, ResetRead, untouched, Same
  <2>8. CASE \E b \in Browsers : ChangeWrite(b)
    <3>1. PICK b \in Browsers : ChangeWrite(b) BY <2>8
    <3>2. EndAll(Owner[b]) BY <3>1 DEF ChangeWrite, EndAll
    <3> QED BY <3>2
  <2>9. CASE \E b \in Browsers : ResetWrite(b)
    <3>1. PICK b \in Browsers : ResetWrite(b) BY <2>9
    <3>2. EndAll(Owner[b]) \/ Same BY <3>1 DEF ResetWrite, EndAll, Same
    <3> QED BY <3>2
  <2>10. CASE \E b \in Browsers : SignIn(b) \/ Logout(b) BY <2>10
  <2>11. CASE \E u \in Users : ForgotPassword(u) \/ TicketExpires(u)
    BY <2>11 DEF ForgotPassword, TicketExpires, untouched, Same
  <2>12. CASE \E r \in DOMAIN resets : TokenExpires(r) BY <2>12 DEF TokenExpires, untouched, Same
  <2> QED BY <1>3, <2>1, <2>2, <2>3, <2>4, <2>5, <2>6, <2>7, <2>8, <2>9, <2>10, <2>11, <2>12
          DEF SessionsNext
<1>4. CASE PrivacyNext
  <2> USE <1>1
  <2>1. CASE \E o \in Orders : PlaceOrder(o) \/ MoveOrder(o)
    BY <2>1 DEF PlaceOrder, MoveOrder, sessionVars, Same
  <2>2. CASE \E s \in Submitters : SubmitRead(s) \/ SubmitWrite(s)
    BY <2>2 DEF SubmitRead, SubmitWrite, sessionVars, Same
  <2>3. CASE \E c \in Clerks :
          DecideStart(c) \/ Reject(c) \/ ExportPut(c) \/ ExportComplete(c) \/ EraseCheck(c) \/ DecideCrash(c)
    BY <2>3 DEF DecideStart, Reject, ExportPut, ExportComplete, EraseCheck, DecideCrash, sessionVars, Same
  <2>4. CASE \E c \in Clerks : Erase(c)
    <3>1. PICK c \in Clerks : Erase(c) BY <2>4
    <3>2. deciding[c].request \in DOMAIN requests
      BY <3>1 DEF Erase, TypeOK, PrivacyTypeOK, Free
    <3>3. requests[deciding[c].request].user \in Users BY <3>2, Rows DEF RequestRow
    <3>4. EndAll(requests[deciding[c].request].user) BY <3>1 DEF Erase, EndAll
    <3> QED BY <3>3, <3>4
  <2> QED BY <1>4, <2>1, <2>2, <2>3, <2>4 DEF PrivacyNext
<1> QED BY <1>2, <1>3, <1>4 DEF Next

(* A session in the hands of a browser is a row.                           *)
LEMMA HeldExists ==
  ASSUME TypeOK, FramesPoint, NEW b \in Browsers
  PROVE  /\ \A i : Holds(b, i) => i \in DOMAIN sessions /\ i \in 1..MaxSessions
         /\ jar[b].refresh \in 0..Len(sessions)
         /\ \A t \in Pending :
              refreshing[t].token \in 0..Len(sessions) /\ refreshing[t].new \in 0..Len(sessions)
<1>1. jar[b].refresh \in 0..MaxSessions BY Rows DEF JarRow
<1>2. jar[b].refresh \in 0..Len(sessions) BY <1>1, Rows, Assumptions DEF FramesPoint
<1>3. \A t \in Pending :
        refreshing[t].token \in 0..Len(sessions) /\ refreshing[t].new \in 0..Len(sessions)
  BY TabRow, Rows, Assumptions DEF FramesPoint
<1> QED BY <1>2, <1>3, Rows, Assumptions DEF Holds

(* Steps that give nobody a token.                                         *)
HandsSame ==
  /\ Pending' = Pending
  /\ \A t \in Pending :
       /\ refreshing'[t].token = refreshing[t].token /\ refreshing'[t].new = refreshing[t].new
       /\ refreshing'[t].sent = refreshing[t].sent
       /\ refreshing[t].at = "answer" => refreshing'[t].at = "answer"
  /\ \A b \in Browsers : jar'[b].refresh = jar[b].refresh
  /\ Len(sessions') = Len(sessions)
  /\ \A i \in DOMAIN sessions : sessions'[i].user = sessions[i].user

LEMMA HandsKeep ==
  ASSUME TypeOK, SessionsInv, HandsSame
  PROVE  /\ SessionsOwned' /\ NewIsUnseen' /\ (clock' = clock => OnTime')
         /\ (\A t \in Pending : refreshing'[t].at \in {"revoke", "issue"} => refreshing[t].token # 0)
              => FramesPoint'
<1>1. \A b \in Browsers : \A i : Holds(b, i)' <=> Holds(b, i) BY DEF HandsSame, Holds
<1>2. SessionsOwned'
  <2> SUFFICES ASSUME NEW b \in Browsers, NEW i \in 1..MaxSessions, Holds(b, i)'
               PROVE  sessions'[i].user = Owner[b] /\ \A c \in Browsers : Holds(c, i)' => c = b
    BY DEF SessionsOwned
  <2>1. Holds(b, i) BY <1>1
  <2>2. i \in DOMAIN sessions BY <2>1, HeldExists DEF SessionsInv
  <2>3. sessions[i].user = Owner[b] /\ \A c \in Browsers : Holds(c, i) => c = b
    BY <2>1 DEF SessionsInv, SessionsOwned
  <2> QED BY <1>1, <2>2, <2>3 DEF HandsSame
<1>3. NewIsUnseen' BY DEF SessionsInv, NewIsUnseen, HandsSame
<1>4. clock' = clock => OnTime' BY DEF SessionsInv, OnTime, HandsSame
<1>5. (\A t \in Pending : refreshing'[t].at \in {"revoke", "issue"} => refreshing[t].token # 0)
        => FramesPoint'
  BY DEF SessionsInv, FramesPoint, HandsSame
<1> QED BY <1>2, <1>3, <1>4, <1>5

Rotation == RotationTypes /\ SessionsInv

(* Nothing of it changes.                                                  *)
LEMMA InvSame ==
  ASSUME TypeOK, SessionsInv, Same
  PROVE  Rotation'
<1>1. Pending' = Pending BY DEF Same, Pending
<1>2. HandsSame BY <1>1 DEF Same, HandsSame
<1>3. RotationTypes'
  BY DEF TypeOK, SessionsTypeOK, RotationTypes, Same, SessionRow
<1>4. FramesPoint' /\ SessionsOwned' /\ NewIsUnseen' /\ OnTime'
  BY <1>1, <1>2, HandsKeep DEF Same, SessionsInv, FramesPoint
<1>5. TokensLast'
  BY <1>1 DEF Same, SessionsInv, TokensLast, Undisturbed, JarOK, Replacing, TabOK
<1> QED BY <1>3, <1>4, <1>5 DEF Rotation, SessionsInv

(* Time waits for answers.                                                 *)
LEMMA InvTick ==
  ASSUME TypeOK, SessionsInv, Tick
  PROVE  Rotation'
<1>1. Pending' = Pending BY DEF Tick, Pending
<1>2. HandsSame BY <1>1 DEF Tick, HandsSame
<1>3. RotationTypes'
  BY Assumptions DEF TypeOK, SessionsTypeOK, RotationTypes, Tick, SessionRow, JarRow
<1>4. FramesPoint' /\ SessionsOwned' /\ NewIsUnseen'
  BY <1>1, <1>2, HandsKeep DEF Tick, SessionsInv, FramesPoint
<1>5. OnTime'
  <2> SUFFICES ASSUME NEW t \in Pending
               PROVE  refreshing[t].sent <= clock + 1 /\ clock + 1 <= refreshing[t].sent + Latency
    BY <1>1 DEF OnTime, Tick
  <2>1. /\ refreshing[t].sent <= clock /\ clock < refreshing[t].sent + Latency
        /\ refreshing[t].sent \in Nat /\ clock \in Nat /\ Latency \in Nat
    BY TabRow, Assumptions DEF Tick, SessionsInv, OnTime, TypeOK, SessionsTypeOK
  <2> QED BY <2>1
<1>6. TokensLast'
  BY <1>1 DEF Tick, SessionsInv, TokensLast, Undisturbed, JarOK, Replacing, TabOK
<1> QED BY <1>3, <1>4, <1>5, <1>6 DEF Rotation, SessionsInv

(* The token of the jar is in force, or its tab is about to replace it;    *)
(* what is left of the grace is what a tab had when it asked.              *)
LEMMA InvAskFor ==
  ASSUME TypeOK, SessionsInv, NEW t \in Tabs, AskFor(t)
  PROVE  Rotation'
<1>1. PICK token \in 0..MaxSessions : token = jar[BrowserOf[t]].refresh
  BY Rows, Assumptions DEF JarRow
<1>2. /\ refreshing' \in [Tabs -> {Free} \cup RefreshType] /\ Pending' = Pending \cup {t} /\ Others(t)
      /\ refreshing'[t].at = "read" /\ refreshing'[t].token = token
      /\ refreshing'[t].sent = clock /\ refreshing'[t].new = 0
  BY <1>1, Ask DEF AskFor
<1>3. t \notin Pending /\ Pending \subseteq Tabs BY DEF AskFor, Pending
<1>4. \A s \in Pending : refreshing'[s] = refreshing[s] BY <1>2, <1>3 DEF Others
<1>5. UNCHANGED <<clock, sessions, jar, signedIn, over, team>> BY DEF AskFor
<1>6. BrowserOf[t] \in Browsers /\ Latency \in Nat /\ clock \in Nat
  BY Assumptions DEF TypeOK, SessionsTypeOK
<1>7. RotationTypes'
  BY <1>2, <1>5 DEF TypeOK, SessionsTypeOK, RotationTypes, SessionRow, JarRow
<1>8. \A b \in Browsers : \A i : Holds(b, i)' <=> Holds(b, i)
  BY <1>1, <1>2, <1>4, <1>5 DEF Holds
<1>9. FramesPoint'
  <2>1. token <= Len(sessions) /\ 0 <= Len(sessions) BY <1>1, <1>6, HeldExists, Rows DEF SessionsInv
  <2> QED BY <1>2, <1>4, <1>5, <2>1 DEF SessionsInv, FramesPoint
<1>10. SessionsOwned' BY <1>5, <1>8 DEF SessionsInv, SessionsOwned
<1>11. NewIsUnseen'
  <2> SUFFICES ASSUME NEW s \in Pending', refreshing'[s].new # 0
               PROVE  /\ refreshing'[s].at = "answer"
                      /\ \A b \in Browsers : jar[b].refresh # refreshing'[s].new
                      /\ \A q \in Pending' :
                           /\ refreshing'[q].token # refreshing'[s].new
                           /\ refreshing'[q].new = refreshing'[s].new => q = s
    BY <1>5 DEF NewIsUnseen
  <2>1. s \in Pending /\ refreshing'[s] = refreshing[s] BY <1>2, <1>4
  <2>2. /\ refreshing[s].at = "answer"
        /\ \A b \in Browsers : jar[b].refresh # refreshing[s].new
        /\ \A q \in Pending : /\ refreshing[q].token # refreshing[s].new
                              /\ refreshing[q].new = refreshing[s].new => q = s
    BY <2>1 DEF SessionsInv, NewIsUnseen
  <2>3. token # refreshing[s].new BY <1>1, <1>6, <2>2
  <2> QED BY <1>2, <1>4, <2>1, <2>2, <2>3
<1>12. OnTime'
  <2>1. clock <= clock /\ clock <= clock + Latency BY <1>6
  <2> QED BY <1>2, <1>4, <1>5, <2>1 DEF SessionsInv, OnTime
<1>13. TokensLast'
  <2> SUFFICES ASSUME NEW b \in Browsers, Undisturbed(b)
               PROVE  JarOK(b)' /\ \A s \in Pending' : BrowserOf[s] = b => TabOK(s)'
    BY <1>5 DEF TokensLast, Undisturbed
  <2>1. JarOK(b) /\ \A s \in Pending : BrowserOf[s] = b => TabOK(s) BY DEF SessionsInv, TokensLast
  <2>2. JarOK(b)' BY <1>2, <1>4, <1>5, <2>1 DEF JarOK, Replacing
  <2>3. ASSUME NEW s \in Pending, BrowserOf[s] = b PROVE TabOK(s)'
    BY <1>4, <1>5, <2>1, <2>3 DEF TabOK
  <2>4. ASSUME BrowserOf[t] = b PROVE TabOK(t)'
    <3>1. token # 0 BY <1>1, <2>1, <2>4 DEF JarOK
    <3>2. sessions[token].revoked = Live \/ sessions[token].revoked >= clock - Latency
      <4>1. CASE sessions[token].revoked = Live BY <4>1
      <4>2. CASE sessions[token].revoked # Live
        <5>1. PICK s \in Pending : refreshing[s].sent <= sessions[token].revoked
          BY <1>1, <2>1, <2>4, <4>2 DEF JarOK, Replacing
        <5>2. refreshing[s].sent \in Nat /\ clock <= refreshing[s].sent + Latency
          BY TabRow DEF SessionsInv, OnTime
        <5>3. sessions[token].revoked \in Int
          <6>1. token \in 0..Len(sessions) BY <1>1, <1>6, HeldExists DEF SessionsInv
          <6>2. token \in DOMAIN sessions BY <3>1, <6>1, Rows
          <6>3. sessions[token] \in SessionRow BY <6>2, Rows
          <6>4. sessions[token].revoked \in {Live} \cup Nat BY <6>3 DEF SessionRow
          <6> QED BY <6>4 DEF Live
        <5> QED BY <1>6, <5>1, <5>2, <5>3
      <4> QED BY <4>1, <4>2
    <3> QED BY <1>2, <1>5, <3>1, <3>2 DEF TabOK
  <2> QED BY <1>2, <2>2, <2>3, <2>4
<1> QED BY <1>7, <1>9, <1>10, <1>11, <1>12, <1>13 DEF Rotation, SessionsInv

(* What a revoked session says.                                            *)
LEMMA RevokedInt ==
  ASSUME TypeOK, NEW i \in DOMAIN sessions
  PROVE  sessions[i].revoked \in Int
<1>1. sessions[i] \in SessionRow BY Rows
<1>2. sessions[i].revoked \in {Live} \cup Nat BY <1>1 DEF SessionRow
<1> QED BY <1>2 DEF Live

(* A tab of a browser that was not signed out never reads that its token   *)
(* is beyond the grace.                                                    *)
LEMMA InvRead ==
  ASSUME TypeOK, SessionsInv, NEW t \in Tabs, RefreshRead(t)
  PROVE  Rotation'
<1>1. t \in Pending BY TabRow DEF RefreshRead
<1>2. PICK n : n = refreshing[t].token OBVIOUS
<1>3. PICK next \in {"revoke", "issue", "answer"} :
        next = IF n = 0 \/ BeyondGrace(sessions[n]) THEN "answer"
               ELSE IF sessions[n].revoked = Live THEN "revoke" ELSE "issue"
  OBVIOUS
<1>4. refreshing' = [refreshing EXCEPT ![t].at = next] BY <1>2, <1>3 DEF RefreshRead
<1>5. /\ refreshing' \in [Tabs -> {Free} \cup RefreshType] /\ Pending' = Pending /\ Others(t)
      /\ refreshing'[t].at = next /\ refreshing'[t].token = refreshing[t].token
      /\ refreshing'[t].sent = refreshing[t].sent /\ refreshing'[t].new = refreshing[t].new
  BY <1>1, <1>4, Advance
<1>6. UNCHANGED <<clock, sessions, jar, signedIn, over, team>> /\ refreshing[t].at = "read"
  BY DEF RefreshRead, unserved
<1>7. Pending \subseteq Tabs BY DEF Pending
<1>8. HandsSame BY <1>5, <1>6, <1>7 DEF HandsSame, Others
<1>9. RotationTypes'
  BY <1>5, <1>6 DEF TypeOK, SessionsTypeOK, RotationTypes, SessionRow, JarRow
<1>10. \A s \in Pending : refreshing'[s].at \in {"revoke", "issue"} => refreshing[s].token # 0
  <2>1. next \in {"revoke", "issue"} => n # 0 BY <1>3
  <2> QED BY <1>2, <1>5, <1>7, <2>1 DEF SessionsInv, FramesPoint, Others
<1>11. FramesPoint' /\ SessionsOwned' /\ NewIsUnseen' /\ OnTime' BY <1>6, <1>8, <1>10, HandsKeep
<1>12. TokensLast'
  <2> SUFFICES ASSUME NEW b \in Browsers, Undisturbed(b)
               PROVE  JarOK(b)' /\ \A s \in Pending : BrowserOf[s] = b => TabOK(s)'
    BY <1>5, <1>6 DEF TokensLast, Undisturbed
  <2>1. JarOK(b) /\ \A s \in Pending : BrowserOf[s] = b => TabOK(s) BY DEF SessionsInv, TokensLast
  <2>2. JarOK(b)'
    <3>1. \A s \in Pending : \A i : Replacing(s, i) => Replacing(s, i)'
      BY <1>5, <1>6, <1>7 DEF Replacing, Others
    <3> QED BY <1>5, <1>6, <2>1, <3>1 DEF JarOK
  <2>3. ASSUME NEW s \in Pending, BrowserOf[s] = b, s # t PROVE TabOK(s)'
    BY <1>5, <1>6, <1>7, <2>1, <2>3 DEF TabOK, Others
  <2>4. ASSUME BrowserOf[t] = b PROVE TabOK(t)'
    <3>1. TabOK(t) BY <1>1, <2>1, <2>4
    <3>2. n \in DOMAIN sessions
      <4>1. n \in 0..Len(sessions) BY <1>1, <1>2, HeldExists DEF SessionsInv
      <4> QED BY <1>2, <3>1, <4>1, Rows DEF TabOK
    <3>3. sessions[n].revoked \in Int BY <3>2, RevokedInt
    <3>4. refreshing[t].sent \in Nat /\ clock \in Nat /\ clock <= refreshing[t].sent + Latency
      BY <1>1, TabRow, Assumptions DEF SessionsInv, OnTime, TypeOK, SessionsTypeOK
    <3>5. sessions[n].revoked = Live \/ sessions[n].revoked >= refreshing[t].sent - Latency
      BY <1>2, <3>1 DEF TabOK
    <3>6. ~BeyondGrace(sessions[n])
      <4>1. sessions[n].revoked >= refreshing[t].sent - Latency => clock - sessions[n].revoked <= REFRESH_GRACE
        BY <3>3, <3>4, Assumptions
      <4>2. \A k \in Int : k <= REFRESH_GRACE => ~(k > REFRESH_GRACE) BY Assumptions
      <4>3. clock - sessions[n].revoked \in Int BY <3>3, <3>4
      <4> QED BY <3>5, <4>1, <4>2, <4>3 DEF BeyondGrace
    <3>7. next # "answer" BY <1>2, <1>3, <3>1, <3>6 DEF TabOK
    <3> QED BY <1>5, <1>6, <3>1, <3>7 DEF TabOK
  <2> QED BY <2>2, <2>3, <2>4
<1> QED BY <1>9, <1>11, <1>12 DEF Rotation, SessionsInv

(* The tab that stamps the session replaces it.                            *)
LEMMA InvRevoke ==
  ASSUME TypeOK, SessionsInv, NEW t \in Tabs, RefreshRevoke(t)
  PROVE  Rotation'
<1>1. t \in Pending BY TabRow DEF RefreshRevoke
<1>2. PICK n : n = refreshing[t].token OBVIOUS
<1>3. refreshing[t].at = "revoke" /\ refreshing' = [refreshing EXCEPT ![t].at = "issue"]
  BY DEF RefreshRevoke
<1>4. /\ refreshing' \in [Tabs -> {Free} \cup RefreshType] /\ Pending' = Pending /\ Others(t)
      /\ refreshing'[t].at = "issue" /\ refreshing'[t].token = refreshing[t].token
      /\ refreshing'[t].sent = refreshing[t].sent /\ refreshing'[t].new = refreshing[t].new
  BY <1>1, <1>3, Advance
<1>5. n \in DOMAIN sessions /\ n # 0
  <2>1. n \in 0..Len(sessions) BY <1>1, <1>2, HeldExists, Assumptions DEF SessionsInv
  <2>2. n # 0 BY <1>1, <1>2, <1>3 DEF SessionsInv, FramesPoint
  <2> QED BY <2>1, <2>2, Rows
<1>6. sessions' = [sessions EXCEPT ![n].revoked = clock] BY <1>2 DEF RefreshRevoke, Rotated
<1>7. /\ sessions' \in Seq(SessionRow) /\ Len(sessions') = Len(sessions)
      /\ \A j \in DOMAIN sessions : sessions'[j].user = sessions[j].user
      /\ sessions'[n].revoked = clock
      /\ \A j \in DOMAIN sessions \ {n} : sessions'[j] = sessions[j]
  BY <1>5, <1>6, Stamp
<1>8. UNCHANGED <<clock, jar, signedIn, over, team>> BY DEF RefreshRevoke, unserved
<1>9. Pending \subseteq Tabs BY DEF Pending
<1>10. HandsSame BY <1>4, <1>3, <1>7, <1>8, <1>9 DEF HandsSame, Others
<1>11. RotationTypes'
  BY <1>4, <1>7, <1>8 DEF TypeOK, SessionsTypeOK, RotationTypes, JarRow
<1>12. \A s \in Pending : refreshing'[s].at \in {"revoke", "issue"} => refreshing[s].token # 0
  BY <1>2, <1>4, <1>5, <1>9 DEF SessionsInv, FramesPoint, Others
<1>13. FramesPoint' /\ SessionsOwned' /\ NewIsUnseen' /\ OnTime' BY <1>8, <1>10, <1>12, HandsKeep
<1>14. TokensLast'
  <2> SUFFICES ASSUME NEW b \in Browsers, Undisturbed(b)
               PROVE  JarOK(b)' /\ \A s \in Pending : BrowserOf[s] = b => TabOK(s)'
    BY <1>4, <1>8 DEF TokensLast, Undisturbed
  <2>1. JarOK(b) /\ \A s \in Pending : BrowserOf[s] = b => TabOK(s) BY DEF SessionsInv, TokensLast
  <2>2. /\ \A s \in Pending : refreshing[s].sent <= clock /\ refreshing[s].sent \in Nat
        /\ clock \in Nat /\ Latency \in Nat
    BY TabRow, Assumptions DEF SessionsInv, OnTime, TypeOK, SessionsTypeOK
  <2>3. PICK i \in 0..Len(sessions) : i = jar[b].refresh BY HeldExists DEF SessionsInv
  <2>4. Holds(b, i) /\ i \in DOMAIN sessions BY <2>1, <2>3, Rows DEF Holds, JarOK
  <2>5. JarOK(b)'
    <3>1. CASE i # n
      <4>1. sessions'[i] = sessions[i] BY <1>7, <2>4, <3>1
      <4>2. \A s \in Pending : Replacing(s, i) => Replacing(s, i)'
        BY <1>3, <1>4, <1>9, <4>1 DEF Replacing, Others
      <4> QED BY <1>4, <1>8, <2>1, <2>3, <4>1, <4>2 DEF JarOK
    <3>2. CASE i = n
      <4>1. Holds(BrowserOf[t], n) /\ BrowserOf[t] \in Browsers
        BY <1>1, <1>2, <1>5, Assumptions DEF Holds
      <4>2. n \in 1..MaxSessions BY <4>1, HeldExists DEF SessionsInv
      <4>3. BrowserOf[t] = b BY <2>4, <3>2, <4>1, <4>2 DEF SessionsInv, SessionsOwned
      <4>4. Replacing(t, n)' BY <1>1, <1>2, <1>4, <1>7, <2>2 DEF Replacing
      <4> QED BY <1>1, <1>4, <1>8, <2>1, <2>3, <3>2, <4>3, <4>4 DEF JarOK
    <3> QED BY <3>1, <3>2
  <2>6. ASSUME NEW s \in Pending, BrowserOf[s] = b PROVE TabOK(s)'
    <3>1. TabOK(s) BY <2>1, <2>6
    <3>2. PICK k : k = refreshing[s].token OBVIOUS
    <3>3. k \in DOMAIN sessions
      <4>1. k \in 0..Len(sessions) BY <3>2, HeldExists DEF SessionsInv
      <4> QED BY <3>1, <3>2, <4>1, Rows DEF TabOK
    <3>4. refreshing'[s].token = k /\ refreshing'[s].sent = refreshing[s].sent /\ refreshing'[s].new = refreshing[s].new
      BY <1>4, <1>9, <3>2 DEF Others
    <3>5. sessions'[k].revoked = Live \/ sessions'[k].revoked >= refreshing[s].sent - Latency
      <4>1. CASE k = n BY <1>7, <2>2, <4>1
      <4>2. CASE k # n BY <1>7, <3>1, <3>2, <3>3, <4>2 DEF TabOK
      <4> QED BY <4>1, <4>2
    <3>6. ASSUME refreshing'[s].at = "answer"
          PROVE  refreshing[s].new # 0 /\ sessions'[refreshing[s].new].revoked = Live
      <4>1. s # t BY <1>4, <3>6
      <4>2. refreshing[s].at = "answer" BY <1>4, <1>9, <3>6, <4>1 DEF Others
      <4>3. refreshing[s].new # 0 /\ sessions[refreshing[s].new].revoked = Live
        BY <3>1, <4>2 DEF TabOK
      <4>4. refreshing[s].new # n BY <1>1, <1>2, <4>3 DEF SessionsInv, NewIsUnseen
      <4>5. refreshing[s].new \in DOMAIN sessions
        <5>1. refreshing[s].new \in 0..Len(sessions) BY HeldExists DEF SessionsInv
        <5> QED BY <4>3, <5>1, Rows
      <4> QED BY <1>7, <4>3, <4>4, <4>5
    <3> QED BY <3>1, <3>2, <3>4, <3>5, <3>6 DEF TabOK
  <2> QED BY <2>5, <2>6
<1> QED BY <1>11, <1>13, <1>14 DEF Rotation, SessionsInv

(* Nobody has seen the new session.                                        *)
LEMMA InvIssue ==
  ASSUME TypeOK, SessionsInv, NEW t \in Tabs, RefreshIssue(t)
  PROVE  Rotation'
<1>1. t \in Pending /\ refreshing[t].at = "issue" BY TabRow DEF RefreshIssue
<1>2. PICK n : n = refreshing[t].token OBVIOUS
<1>3. n \in DOMAIN sessions /\ n # 0
  <2>1. n \in 0..Len(sessions) BY <1>1, <1>2, HeldExists, Assumptions DEF SessionsInv
  <2>2. n # 0 BY <1>1, <1>2 DEF SessionsInv, FramesPoint
  <2> QED BY <2>1, <2>2, Rows
<1>4. PICK u \in Users : u = sessions[n].user BY <1>3, Rows DEF SessionRow
<1>5. PICK m : m = Len(sessions') OBVIOUS
<1>6. Len(sessions) < MaxSessions /\ sessions' = Issued(u) BY <1>2, <1>4 DEF RefreshIssue
<1>7. /\ sessions' \in Seq(SessionRow) /\ m = Len(sessions) + 1 /\ m \in 1..MaxSessions
      /\ \A j \in DOMAIN sessions : sessions'[j] = sessions[j]
      /\ sessions'[m].user = u /\ sessions'[m].revoked = Live
  BY <1>5, <1>6, Issue
<1>8. refreshing' = [refreshing EXCEPT ![t].at = "answer", ![t].new = m]
  BY <1>5 DEF RefreshIssue
<1>9. /\ refreshing' \in [Tabs -> {Free} \cup RefreshType] /\ Pending' = Pending /\ Others(t)
      /\ refreshing'[t].at = "answer" /\ refreshing'[t].token = refreshing[t].token
      /\ refreshing'[t].sent = refreshing[t].sent /\ refreshing'[t].new = m
  <2>1. m \in 0..MaxSessions BY <1>7, Assumptions
  <2> QED BY <1>1, <1>8, <2>1, Receive
<1>10. UNCHANGED <<clock, jar, signedIn, over, team>> BY DEF RefreshIssue, unserved
<1>11. /\ \A s \in Pending : s # t => refreshing'[s] = refreshing[s]
       /\ Pending \subseteq Tabs
  BY <1>9 DEF Others, Pending
<1>12. /\ m \notin DOMAIN sessions /\ m # 0
       /\ \A b \in Browsers : jar[b].refresh # m
       /\ \A s \in Pending : refreshing[s].token # m /\ refreshing[s].new # m
  <2>1. Len(sessions) \in Nat /\ DOMAIN sessions = 1..Len(sessions) BY Rows
  <2>2. m \notin 0..Len(sessions) BY <1>7, <2>1
  <2> QED BY <1>7, <2>1, <2>2, HeldExists, Assumptions DEF SessionsInv
<1>13. refreshing[t].new = 0 BY <1>1 DEF SessionsInv, NewIsUnseen
<1>14. BrowserOf[t] \in Browsers /\ Holds(BrowserOf[t], n)
  BY <1>1, <1>2, <1>3, Assumptions DEF Holds
<1>15. n \in 1..MaxSessions BY <1>14, HeldExists DEF SessionsInv
<1>16. RotationTypes'
  BY <1>5, <1>7, <1>9, <1>10, Assumptions DEF TypeOK, SessionsTypeOK, RotationTypes, JarRow
<1>17. \A b \in Browsers : \A i :
         Holds(b, i)' => Holds(b, i) \/ (i = m /\ b = BrowserOf[t])
  BY <1>9, <1>10, <1>11 DEF Holds
<1>18. FramesPoint'
  <2>1. \A k \in 0..Len(sessions) : k <= m BY <1>7, Rows
  <2>2. \A b \in Browsers : jar[b].refresh <= m BY <2>1, HeldExists DEF SessionsInv
  <2>3. \A s \in Pending : refreshing[s].token <= m /\ refreshing[s].new <= m
    BY <1>14, <2>1, HeldExists DEF SessionsInv
  <2>4. m <= m BY <1>7
  <2> QED BY <1>2, <1>3, <1>5, <1>9, <1>10, <1>11, <2>2, <2>3, <2>4 DEF SessionsInv, FramesPoint
<1>19. SessionsOwned'
  <2> SUFFICES ASSUME NEW b \in Browsers, NEW i \in 1..MaxSessions, Holds(b, i)'
               PROVE  sessions'[i].user = Owner[b] /\ \A c \in Browsers : Holds(c, i)' => c = b
    BY DEF SessionsOwned
  <2>1. CASE i = m
    <3>1. \A c \in Browsers : ~Holds(c, m) BY <1>12 DEF Holds
    <3>2. b = BrowserOf[t] /\ \A c \in Browsers : Holds(c, i)' => c = b BY <1>17, <2>1, <3>1
    <3>3. u = Owner[b] BY <1>4, <1>14, <1>15, <3>2 DEF SessionsInv, SessionsOwned
    <3> QED BY <1>7, <2>1, <3>2, <3>3
  <2>2. CASE i # m
    <3>1. Holds(b, i) BY <1>17, <2>2
    <3>2. i \in DOMAIN sessions BY <3>1, HeldExists DEF SessionsInv
    <3>3. sessions[i].user = Owner[b] /\ \A c \in Browsers : Holds(c, i) => c = b
      BY <3>1 DEF SessionsInv, SessionsOwned
    <3> QED BY <1>7, <1>17, <2>2, <3>2, <3>3
  <2> QED BY <2>1, <2>2
<1>20. NewIsUnseen'
  <2> SUFFICES ASSUME NEW s \in Pending, refreshing'[s].new # 0
               PROVE  /\ refreshing'[s].at = "answer"
                      /\ \A b \in Browsers : jar[b].refresh # refreshing'[s].new
                      /\ \A q \in Pending :
                           /\ refreshing'[q].token # refreshing'[s].new
                           /\ refreshing'[q].new = refreshing'[s].new => q = s
    BY <1>9, <1>10 DEF NewIsUnseen
  <2>1. CASE s = t BY <1>9, <1>11, <1>12, <2>1
  <2>2. CASE s # t
    <3>1. refreshing'[s] = refreshing[s] /\ refreshing[s].new # m BY <1>11, <1>12, <2>2
    <3>2. /\ refreshing[s].at = "answer"
          /\ \A b \in Browsers : jar[b].refresh # refreshing[s].new
          /\ \A q \in Pending : /\ refreshing[q].token # refreshing[s].new
                                /\ refreshing[q].new = refreshing[s].new => q = s
      BY <3>1 DEF SessionsInv, NewIsUnseen
    <3>3. \A q \in Pending : /\ refreshing'[q].token = refreshing[q].token
                             /\ q # t => refreshing'[q].new = refreshing[q].new
      BY <1>9, <1>11
    <3> QED BY <1>9, <3>1, <3>2, <3>3
  <2> QED BY <2>1, <2>2
<1>21. OnTime' BY <1>9, <1>10, <1>11 DEF SessionsInv, OnTime
<1>22. TokensLast'
  <2> SUFFICES ASSUME NEW b \in Browsers, Undisturbed(b)
               PROVE  JarOK(b)' /\ \A s \in Pending : BrowserOf[s] = b => TabOK(s)'
    BY <1>9, <1>10 DEF TokensLast, Undisturbed
  <2>1. JarOK(b) /\ \A s \in Pending : BrowserOf[s] = b => TabOK(s) BY DEF SessionsInv, TokensLast
  <2>2. \A k \in 0..Len(sessions) : k # 0 => sessions'[k] = sessions[k]
    <3>1. DOMAIN sessions = 1..Len(sessions) /\ Len(sessions) \in Nat BY Rows
    <3>2. \A k \in 0..Len(sessions) : k # 0 => k \in DOMAIN sessions BY <3>1
    <3> QED BY <1>7, <3>2
  <2>3. JarOK(b)'
    <3>1. PICK i \in 0..Len(sessions) : i = jar[b].refresh BY HeldExists DEF SessionsInv
    <3>2. i # 0 /\ sessions'[i] = sessions[i] BY <2>1, <2>2, <3>1 DEF JarOK
    <3>3. \A s \in Pending : Replacing(s, i) => Replacing(s, i)'
      BY <1>9, <1>11, <3>2 DEF Replacing
    <3> QED BY <1>9, <1>10, <2>1, <3>1, <3>2, <3>3 DEF JarOK
  <2>4. ASSUME NEW s \in Pending, BrowserOf[s] = b PROVE TabOK(s)'
    <3>1. TabOK(s) BY <2>1, <2>4
    <3>2. PICK k \in 0..Len(sessions) : k = refreshing[s].token
      BY <2>4, HeldExists DEF SessionsInv
    <3>3. PICK new \in 0..Len(sessions) : new = refreshing[s].new
      BY <2>4, HeldExists DEF SessionsInv
    <3>4. k # 0 /\ sessions'[k] = sessions[k] BY <2>2, <3>1, <3>2 DEF TabOK
    <3>5. CASE s = t
      BY <1>2, <1>7, <1>9, <1>12, <3>1, <3>2, <3>4, <3>5 DEF TabOK
    <3>6. CASE s # t
      <4>1. refreshing'[s] = refreshing[s] BY <1>11, <3>6
      <4>2. refreshing[s].at = "answer" => new # 0 /\ sessions'[new].revoked = Live
        BY <2>2, <3>1, <3>3 DEF TabOK
      <4> QED BY <3>1, <3>2, <3>3, <3>4, <4>1, <4>2 DEF TabOK
    <3> QED BY <3>5, <3>6
  <2> QED BY <2>3, <2>4
<1> QED BY <1>16, <1>18, <1>19, <1>20, <1>21, <1>22 DEF Rotation, SessionsInv

(* What an answer brings goes into the jar; it is in force, unless the     *)
(* browser was signed out.                                                 *)
LEMMA InvAnswer ==
  ASSUME TypeOK, SessionsInv, NEW t \in Tabs, RefreshAnswer(t)
  PROVE  Rotation'
<1>1. t \in Pending /\ refreshing[t].at = "answer" BY TabRow DEF RefreshAnswer
<1>2. PICK h \in Browsers : h = BrowserOf[t] BY Assumptions
<1>3. PICK m \in 0..MaxSessions : m = refreshing[t].new BY <1>1, TabRow
<1>4. refreshing' = [refreshing EXCEPT ![t] = Free] BY DEF RefreshAnswer
<1>5. refreshing' \in [Tabs -> {Free} \cup RefreshType] /\ Pending' = Pending \ {t} /\ Others(t)
  BY <1>1, <1>4, Answered
<1>6. \A s \in Pending' : s \in Pending /\ s # t /\ refreshing'[s] = refreshing[s]
  BY <1>5 DEF Others, Pending
<1>7. UNCHANGED <<clock, sessions, over, team>> BY DEF RefreshAnswer, unserved
<1>8. /\ jar' \in [Browsers -> JarRow]
      /\ jar'[h].refresh = IF m = 0 THEN jar[h].refresh ELSE m
      /\ \A b \in Browsers \ {h} : jar'[b] = jar[b]
  <2>1. jar \in [Browsers -> JarRow] BY Rows
  <2>2. jar' = IF m = 0 THEN jar ELSE [jar EXCEPT ![h] = [access |-> TRUE, refresh |-> m]]
    BY <1>2, <1>3 DEF RefreshAnswer
  <2>3. [access |-> TRUE, refresh |-> m] \in JarRow BY DEF JarRow
  <2> QED BY <2>1, <2>2, <2>3
<1>9. RotationTypes'
  <2>1. signedIn' \in [Browsers -> BOOLEAN]
    BY <1>2 DEF RefreshAnswer, TypeOK, SessionsTypeOK
  <2> QED BY <1>5, <1>7, <1>8, <2>1 DEF TypeOK, SessionsTypeOK, RotationTypes, SessionRow
<1>10. \A b \in Browsers : \A i : Holds(b, i)' => Holds(b, i)
  BY <1>1, <1>2, <1>3, <1>6, <1>8 DEF Holds
<1>11. FramesPoint'
  <2>1. m <= Len(sessions) BY <1>1, <1>3 DEF SessionsInv, FramesPoint
  <2> QED BY <1>6, <1>7, <1>8, <2>1 DEF SessionsInv, FramesPoint
<1>12. SessionsOwned' BY <1>7, <1>10 DEF SessionsInv, SessionsOwned
<1>13. NewIsUnseen'
  <2> SUFFICES ASSUME NEW s \in Pending', refreshing'[s].new # 0
               PROVE  /\ refreshing'[s].at = "answer"
                      /\ \A b \in Browsers : jar'[b].refresh # refreshing'[s].new
                      /\ \A q \in Pending' :
                           /\ refreshing'[q].token # refreshing'[s].new
                           /\ refreshing'[q].new = refreshing'[s].new => q = s
    BY DEF NewIsUnseen
  <2>1. s \in Pending /\ s # t /\ refreshing'[s] = refreshing[s] BY <1>6
  <2>2. /\ refreshing[s].at = "answer"
        /\ \A b \in Browsers : jar[b].refresh # refreshing[s].new
        /\ \A q \in Pending : /\ refreshing[q].token # refreshing[s].new
                              /\ refreshing[q].new = refreshing[s].new => q = s
    BY <2>1 DEF SessionsInv, NewIsUnseen
  <2>3. m # refreshing[s].new BY <1>1, <1>3, <2>1, <2>2
  <2>4. \A b \in Browsers : jar'[b].refresh # refreshing[s].new BY <1>8, <2>2, <2>3
  <2> QED BY <1>6, <2>1, <2>2, <2>4
<1>14. OnTime' BY <1>6, <1>7 DEF SessionsInv, OnTime
<1>15. TokensLast'
  <2> SUFFICES ASSUME NEW b \in Browsers, Undisturbed(b)
               PROVE  JarOK(b)' /\ \A s \in Pending' : BrowserOf[s] = b => TabOK(s)'
    BY <1>7 DEF TokensLast, Undisturbed
  <2>1. JarOK(b) /\ \A s \in Pending : BrowserOf[s] = b => TabOK(s) BY DEF SessionsInv, TokensLast
  <2>2. JarOK(b)'
    <3>1. CASE b = h
      <4>1. m # 0 /\ sessions[m].revoked = Live BY <1>1, <1>2, <1>3, <2>1, <3>1 DEF TabOK
      <4> QED BY <1>7, <1>8, <3>1, <4>1 DEF JarOK
    <3>2. CASE b # h
      <4>1. \A s \in Pending : \A i : BrowserOf[s] = b /\ Replacing(s, i) => s \in Pending' /\ Replacing(s, i)'
        BY <1>2, <1>5, <1>6, <1>7, <3>2 DEF Replacing
      <4> QED BY <1>7, <1>8, <2>1, <3>2, <4>1 DEF JarOK
    <3> QED BY <3>1, <3>2
  <2>3. ASSUME NEW s \in Pending', BrowserOf[s] = b PROVE TabOK(s)'
    BY <1>6, <1>7, <2>1, <2>3 DEF TabOK
  <2> QED BY <2>2, <2>3
<1> QED BY <1>9, <1>11, <1>12, <1>13, <1>14, <1>15 DEF Rotation, SessionsInv

(* A refresh is lost only where something may crash.                       *)
LEMMA InvCrash ==
  ASSUME TypeOK, SessionsInv, NEW t \in Tabs, RefreshCrash(t)
  PROVE  Rotation'
<1>1. t \in Pending /\ refreshing[t].at # "answer" BY TabRow DEF RefreshCrash
<1>2. refreshing' = [refreshing EXCEPT ![t].at = "answer"] BY DEF RefreshCrash
<1>3. /\ refreshing' \in [Tabs -> {Free} \cup RefreshType] /\ Pending' = Pending /\ Others(t)
      /\ refreshing'[t].at = "answer" /\ refreshing'[t].token = refreshing[t].token
      /\ refreshing'[t].sent = refreshing[t].sent /\ refreshing'[t].new = refreshing[t].new
  BY <1>1, <1>2, Advance
<1>4. UNCHANGED <<clock, sessions, jar, signedIn, over, team>> /\ "crash" \in team
  BY DEF RefreshCrash, unserved
<1>5. Pending \subseteq Tabs BY DEF Pending
<1>6. HandsSame BY <1>3, <1>4, <1>5 DEF HandsSame, Others
<1>7. RotationTypes'
  BY <1>3, <1>4 DEF TypeOK, SessionsTypeOK, RotationTypes, SessionRow, JarRow
<1>8. \A s \in Pending : refreshing'[s].at \in {"revoke", "issue"} => refreshing[s].token # 0
  BY <1>3, <1>5 DEF SessionsInv, FramesPoint, Others
<1>9. FramesPoint' /\ SessionsOwned' /\ NewIsUnseen' /\ OnTime' BY <1>4, <1>6, <1>8, HandsKeep
<1>10. TokensLast' BY <1>4 DEF TokensLast, Undisturbed
<1> QED BY <1>7, <1>9, <1>10 DEF Rotation, SessionsInv

(* All sessions of a user end together with what its browsers show.        *)
LEMMA InvEndAll ==
  ASSUME TypeOK, SessionsInv, NEW u \in Users, EndAll(u)
  PROVE  Rotation'
<1>1. UNCHANGED <<clock, jar, signedIn, refreshing, team>> /\ sessions' = RevokedAll(u) /\ over' = Ended(u)
  BY DEF EndAll
<1>2. /\ sessions' \in Seq(SessionRow) /\ Len(sessions') = Len(sessions)
      /\ \A j \in DOMAIN sessions : sessions'[j].user = sessions[j].user
      /\ \A j \in DOMAIN sessions : sessions[j].user # u => sessions'[j] = sessions[j]
  BY <1>1, StampAll
<1>3. Pending' = Pending BY <1>1 DEF Pending
<1>4. HandsSame BY <1>1, <1>2, <1>3 DEF HandsSame
<1>5. RotationTypes'
  <2>1. over' \in [Browsers -> BOOLEAN] BY <1>1 DEF Ended, TypeOK, SessionsTypeOK
  <2> QED BY <1>1, <1>2, <2>1 DEF TypeOK, SessionsTypeOK, RotationTypes, JarRow
<1>6. FramesPoint' /\ SessionsOwned' /\ NewIsUnseen' /\ OnTime'
  BY <1>1, <1>3, <1>4, HandsKeep DEF SessionsInv, FramesPoint
<1>7. TokensLast'
  <2> SUFFICES ASSUME NEW b \in Browsers, Undisturbed(b)'
               PROVE  JarOK(b)' /\ \A s \in Pending : BrowserOf[s] = b => TabOK(s)'
    BY <1>3 DEF TokensLast
  <2>1. Undisturbed(b) /\ Owner[b] # u BY <1>1 DEF Undisturbed, Ended, BrowsersOf
  <2>2. JarOK(b) /\ \A s \in Pending : BrowserOf[s] = b => TabOK(s)
    BY <2>1 DEF SessionsInv, TokensLast
  <2>3. ASSUME NEW i, Holds(b, i) PROVE sessions'[i] = sessions[i]
    <3>1. i \in DOMAIN sessions /\ i \in 1..MaxSessions BY <2>3, HeldExists DEF SessionsInv
    <3>2. sessions[i].user = Owner[b] BY <2>3, <3>1 DEF SessionsInv, SessionsOwned
    <3> QED BY <1>2, <2>1, <3>1, <3>2
  <2>4. JarOK(b)'
    <3>1. Holds(b, jar[b].refresh) BY <2>2 DEF JarOK, Holds
    <3>2. sessions'[jar[b].refresh] = sessions[jar[b].refresh] BY <2>3, <3>1
    <3> QED BY <1>1, <1>3, <2>2, <3>2 DEF JarOK, Replacing
  <2>5. ASSUME NEW s \in Pending, BrowserOf[s] = b PROVE TabOK(s)'
    <3>1. TabOK(s) BY <2>2, <2>5
    <3>2. Holds(b, refreshing[s].token) BY <2>5, <3>1 DEF TabOK, Holds
    <3>3. refreshing[s].at = "answer" => Holds(b, refreshing[s].new) BY <2>5, <3>1 DEF TabOK, Holds
    <3> QED BY <1>1, <2>3, <3>1, <3>2, <3>3 DEF TabOK
  <2> QED BY <2>4, <2>5
<1> QED BY <1>5, <1>6, <1>7 DEF Rotation, SessionsInv

(* A browser signs in with a session nobody has seen; that it was signed   *)
(* out is over when no refresh of before is under way.                     *)
LEMMA InvSignIn ==
  ASSUME TypeOK, SessionsInv, NEW h \in Browsers, SignIn(h)
  PROVE  Rotation'
<1>1. Owner[h] \in Users BY Assumptions
<1>2. PICK m : m = Len(sessions') OBVIOUS
<1>3. /\ sessions' \in Seq(SessionRow) /\ m = Len(sessions) + 1 /\ m \in 1..MaxSessions
      /\ \A j \in DOMAIN sessions : sessions'[j] = sessions[j]
      /\ sessions'[m].user = Owner[h] /\ sessions'[m].revoked = Live
  BY <1>1, <1>2, Issue DEF SignIn
<1>4. /\ jar' \in [Browsers -> JarRow] /\ jar'[h].refresh = m
      /\ \A b \in Browsers \ {h} : jar'[b] = jar[b]
  <2>1. jar \in [Browsers -> JarRow] BY Rows
  <2>2. jar' = [jar EXCEPT ![h] = [access |-> TRUE, refresh |-> m]] BY <1>2 DEF SignIn
  <2>3. [access |-> TRUE, refresh |-> m] \in JarRow BY <1>3, Assumptions DEF JarRow
  <2> QED BY <2>1, <2>2, <2>3
<1>5. UNCHANGED <<clock, refreshing, team>> BY DEF SignIn
<1>6. Pending' = Pending BY <1>5 DEF Pending
<1>7. /\ over' \in [Browsers -> BOOLEAN] /\ signedIn' \in [Browsers -> BOOLEAN]
      /\ \A b \in Browsers \ {h} : over'[b] = over[b]
      /\ ~over'[h] => ~over[h] \/ \A t \in Pending : BrowserOf[t] # h
  <2>1. over \in [Browsers -> BOOLEAN] /\ signedIn \in [Browsers -> BOOLEAN] BY DEF TypeOK, SessionsTypeOK
  <2>2. PICK p \in BOOLEAN : p = (over[h] /\ h \in {BrowserOf[t] : t \in Pending}) OBVIOUS
  <2>3. over' = [over EXCEPT ![h] = p] BY <2>2 DEF SignIn
  <2>4. over'[h] = p BY <2>1, <2>3
  <2>5. ~p => ~over[h] \/ \A t \in Pending : BrowserOf[t] # h BY <2>2
  <2> QED BY <2>1, <2>3, <2>4, <2>5 DEF SignIn
<1>8. /\ m \notin DOMAIN sessions /\ m # 0
      /\ \A b \in Browsers : jar[b].refresh # m
      /\ \A s \in Pending : refreshing[s].token # m /\ refreshing[s].new # m
  <2>1. Len(sessions) \in Nat /\ DOMAIN sessions = 1..Len(sessions) BY Rows
  <2>2. m \notin 0..Len(sessions) BY <1>3, <2>1
  <2> QED BY <1>3, <2>1, <2>2, HeldExists DEF SessionsInv
<1>9. RotationTypes'
  BY <1>2, <1>3, <1>4, <1>5, <1>7, Assumptions DEF TypeOK, SessionsTypeOK, RotationTypes
<1>10. \A b \in Browsers : \A i : Holds(b, i)' => Holds(b, i) \/ (i = m /\ b = h)
  BY <1>4, <1>5, <1>6 DEF Holds
<1>11. FramesPoint'
  <2>1. \A k \in 0..Len(sessions) : k <= m BY <1>3, Rows
  <2>2. \A b \in Browsers : jar[b].refresh <= m BY <2>1, HeldExists DEF SessionsInv
  <2>3. \A s \in Pending : refreshing[s].token <= m /\ refreshing[s].new <= m
    BY <2>1, HeldExists DEF SessionsInv
  <2>4. m <= m BY <1>3
  <2> QED BY <1>2, <1>4, <1>5, <1>6, <2>2, <2>3, <2>4 DEF SessionsInv, FramesPoint
<1>12. SessionsOwned'
  <2> SUFFICES ASSUME NEW b \in Browsers, NEW i \in 1..MaxSessions, Holds(b, i)'
               PROVE  sessions'[i].user = Owner[b] /\ \A c \in Browsers : Holds(c, i)' => c = b
    BY DEF SessionsOwned
  <2>1. CASE i = m
    <3>1. \A c \in Browsers : ~Holds(c, m) BY <1>8 DEF Holds
    <3> QED BY <1>3, <1>10, <2>1, <3>1
  <2>2. CASE i # m
    <3>1. Holds(b, i) BY <1>10, <2>2
    <3>2. i \in DOMAIN sessions BY <3>1, HeldExists DEF SessionsInv
    <3>3. sessions[i].user = Owner[b] /\ \A c \in Browsers : Holds(c, i) => c = b
      BY <3>1 DEF SessionsInv, SessionsOwned
    <3> QED BY <1>3, <1>10, <2>2, <3>2, <3>3
  <2> QED BY <2>1, <2>2
<1>13. NewIsUnseen' BY <1>4, <1>5, <1>6, <1>8 DEF SessionsInv, NewIsUnseen
<1>14. OnTime' BY <1>5, <1>6 DEF SessionsInv, OnTime
<1>15. TokensLast'
  <2> SUFFICES ASSUME NEW b \in Browsers, Undisturbed(b)'
               PROVE  JarOK(b)' /\ \A s \in Pending : BrowserOf[s] = b => TabOK(s)'
    BY <1>6 DEF TokensLast
  <2>1. \A k \in 0..Len(sessions) : k # 0 => sessions'[k] = sessions[k] BY <1>3, Rows
  <2>2. Undisturbed(b) \/ (b = h /\ \A t \in Pending : BrowserOf[t] # h)
    BY <1>5, <1>7 DEF Undisturbed
  <2>3. Undisturbed(b) => JarOK(b) /\ \A s \in Pending : BrowserOf[s] = b => TabOK(s)
    BY DEF SessionsInv, TokensLast
  <2>4. JarOK(b)'
    <3>1. CASE b = h BY <1>3, <1>4, <1>8, <3>1 DEF JarOK
    <3>2. CASE b # h
      <4>1. PICK i \in 0..Len(sessions) : i = jar[b].refresh BY HeldExists DEF SessionsInv
      <4>2. i # 0 /\ sessions'[i] = sessions[i] BY <2>1, <2>2, <2>3, <3>2, <4>1 DEF JarOK
      <4>3. \A s \in Pending : Replacing(s, i) => Replacing(s, i)' BY <1>5, <4>2 DEF Replacing
      <4> QED BY <1>4, <1>6, <2>2, <2>3, <3>2, <4>1, <4>2, <4>3 DEF JarOK
    <3> QED BY <3>1, <3>2
  <2>5. ASSUME NEW s \in Pending, BrowserOf[s] = b PROVE TabOK(s)'
    <3>1. TabOK(s) BY <2>2, <2>3, <2>5
    <3>2. PICK k \in 0..Len(sessions) : k = refreshing[s].token BY HeldExists DEF SessionsInv
    <3>3. PICK new \in 0..Len(sessions) : new = refreshing[s].new BY HeldExists DEF SessionsInv
    <3>4. k # 0 /\ sessions'[k] = sessions[k] BY <2>1, <3>1, <3>2 DEF TabOK
    <3>5. refreshing[s].at = "answer" => new # 0 /\ sessions'[new].revoked = Live
      BY <2>1, <3>1, <3>3 DEF TabOK
    <3> QED BY <1>5, <3>1, <3>2, <3>3, <3>4, <3>5 DEF TabOK
  <2> QED BY <2>4, <2>5
<1> QED BY <1>9, <1>11, <1>12, <1>13, <1>14, <1>15 DEF Rotation, SessionsInv

(* A logout ends the session of its own browser.                           *)
LEMMA InvLogout ==
  ASSUME TypeOK, SessionsInv, NEW h \in Browsers, Logout(h)
  PROVE  Rotation'
<1>1. PICK n \in 0..Len(sessions) : n = jar[h].refresh BY HeldExists DEF SessionsInv
<1>2. /\ sessions' \in Seq(SessionRow) /\ Len(sessions') = Len(sessions)
      /\ \A j \in DOMAIN sessions : sessions'[j].user = sessions[j].user
      /\ \A j \in DOMAIN sessions : j # n => sessions'[j] = sessions[j]
  <2>1. CASE n = 0 BY <1>1, <2>1, Rows DEF Logout
  <2>2. CASE n # 0
    <3>1. n \in DOMAIN sessions /\ sessions' = [sessions EXCEPT ![n].revoked = clock]
      BY <1>1, <2>2, Rows DEF Logout
    <3> QED BY <3>1, Stamp
  <2> QED BY <2>1, <2>2
<1>3. /\ jar' \in [Browsers -> JarRow] /\ jar'[h].refresh = 0
      /\ \A b \in Browsers \ {h} : jar'[b] = jar[b]
  <2>1. jar \in [Browsers -> JarRow] BY Rows
  <2>2. jar' = [jar EXCEPT ![h] = [access |-> FALSE, refresh |-> 0]] BY DEF Logout
  <2>3. [access |-> FALSE, refresh |-> 0] \in JarRow BY Assumptions DEF JarRow
  <2> QED BY <2>1, <2>2, <2>3
<1>4. UNCHANGED <<clock, refreshing, team>> BY DEF Logout
<1>5. Pending' = Pending BY <1>4 DEF Pending
<1>6. /\ over' \in [Browsers -> BOOLEAN] /\ signedIn' \in [Browsers -> BOOLEAN] /\ over'[h]
      /\ \A b \in Browsers \ {h} : over'[b] = over[b]
  BY DEF Logout, TypeOK, SessionsTypeOK
<1>7. RotationTypes'
  BY <1>2, <1>3, <1>4, <1>6 DEF TypeOK, SessionsTypeOK, RotationTypes
<1>8. \A b \in Browsers : \A i : Holds(b, i)' => Holds(b, i) BY <1>3, <1>4, <1>5 DEF Holds
<1>9. FramesPoint'
  <2>1. 0 <= Len(sessions) BY Rows
  <2> QED BY <1>2, <1>3, <1>4, <1>5, <2>1 DEF SessionsInv, FramesPoint
<1>10. SessionsOwned'
  <2> SUFFICES ASSUME NEW b \in Browsers, NEW i \in 1..MaxSessions, Holds(b, i)'
               PROVE  sessions'[i].user = Owner[b] /\ \A c \in Browsers : Holds(c, i)' => c = b
    BY DEF SessionsOwned
  <2>1. Holds(b, i) BY <1>8
  <2>2. i \in DOMAIN sessions BY <2>1, HeldExists DEF SessionsInv
  <2> QED BY <1>2, <1>8, <2>1, <2>2 DEF SessionsInv, SessionsOwned
<1>11. NewIsUnseen' BY <1>3, <1>4, <1>5 DEF SessionsInv, NewIsUnseen
<1>12. OnTime' BY <1>4, <1>5 DEF SessionsInv, OnTime
<1>13. TokensLast'
  <2> SUFFICES ASSUME NEW b \in Browsers, Undisturbed(b)'
               PROVE  JarOK(b)' /\ \A s \in Pending : BrowserOf[s] = b => TabOK(s)'
    BY <1>5 DEF TokensLast
  <2>1. Undisturbed(b) /\ b # h BY <1>4, <1>6 DEF Undisturbed
  <2>2. JarOK(b) /\ \A s \in Pending : BrowserOf[s] = b => TabOK(s)
    BY <2>1 DEF SessionsInv, TokensLast
  <2>3. ASSUME NEW i, Holds(b, i) PROVE sessions'[i] = sessions[i]
    <3>1. i \in DOMAIN sessions /\ i \in 1..MaxSessions BY <2>3, HeldExists DEF SessionsInv
    <3>2. ~Holds(h, i) BY <2>1, <2>3, <3>1 DEF SessionsInv, SessionsOwned
    <3>3. i # n BY <1>1, <2>3, <3>2 DEF Holds
    <3> QED BY <1>2, <3>1, <3>3
  <2>4. JarOK(b)'
    <3>1. Holds(b, jar[b].refresh) BY <2>2 DEF JarOK, Holds
    <3>2. sessions'[jar[b].refresh] = sessions[jar[b].refresh] BY <2>3, <3>1
    <3> QED BY <1>3, <1>4, <1>5, <2>1, <2>2, <3>2 DEF JarOK, Replacing
  <2>5. ASSUME NEW s \in Pending, BrowserOf[s] = b PROVE TabOK(s)'
    <3>1. TabOK(s) BY <2>2, <2>5
    <3>2. Holds(b, refreshing[s].token) BY <2>5, <3>1 DEF TabOK, Holds
    <3>3. refreshing[s].at = "answer" => Holds(b, refreshing[s].new) BY <2>5, <3>1 DEF TabOK, Holds
    <3> QED BY <1>4, <2>3, <3>1, <3>2, <3>3 DEF TabOK
  <2> QED BY <2>4, <2>5
<1> QED BY <1>7, <1>9, <1>10, <1>11, <1>12, <1>13 DEF Rotation, SessionsInv

(* Every step keeps what is said of sessions and tokens.                   *)
LEMMA RotationStep ==
  ASSUME TypeOK, SessionsInv, [Next]_vars
  PROVE  Rotation'
BY Moves, InvSame, InvTick, InvAskFor, InvRead, InvRevoke, InvIssue, InvAnswer, InvCrash,
   InvEndAll, InvSignIn, InvLogout

(* Calls that wait have a tab that refreshes.                              *)
CallTypes ==
  /\ calling \in [Calls -> {"free", "refresh", "replay"}]
  /\ \A k \in Calls : calling[k] = "refresh" => refreshing[TabOf[k]] # Free
LEMMA CallStep ==
  ASSUME TypeOK, [Next]_vars
  PROVE  CallTypes'
<1>1. CallTypes /\ TabOf \in [Calls -> Tabs] /\ refreshing \in [Tabs -> {Free} \cup RefreshType]
  BY Assumptions DEF TypeOK, SessionsTypeOK, CallTypes
<1>2. CASE UNCHANGED <<calling, refreshing>> BY <1>1, <1>2 DEF CallTypes
<1>3. ASSUME calling' = calling, Pending' = Pending PROVE CallTypes'
  BY <1>1, <1>3 DEF CallTypes, Pending
<1>4. ASSUME NEW k \in Calls, CallRefused(k) PROVE CallTypes'
  <2>1. PICK t \in Tabs : t = TabOf[k] BY <1>1
  <2>2. calling' = [calling EXCEPT ![k] = "refresh"] BY <1>4 DEF CallRefused
  <2>3. refreshing'[t] # Free /\ \A s \in Tabs : refreshing[s] # Free => refreshing'[s] # Free
    <3>1. CASE refreshing[t] # Free BY <1>4, <2>1, <3>1 DEF CallRefused
    <3>2. CASE refreshing[t] = Free
      <4>1. refreshing' = [refreshing EXCEPT ![t] =
              [at |-> "read", token |-> jar[BrowserOf[t]].refresh, sent |-> clock, new |-> 0]]
        BY <1>4, <2>1, <3>2 DEF CallRefused
      <4> QED BY <1>1, <4>1 DEF Free
    <3> QED BY <3>1, <3>2
  <2> QED BY <1>1, <2>1, <2>2, <2>3 DEF CallTypes
<1>5. ASSUME NEW k \in Calls, CallReplayed(k) PROVE CallTypes'
  BY <1>1, <1>5 DEF CallReplayed, CallTypes
<1>6. ASSUME NEW t \in Tabs, RefreshAnswer(t) PROVE CallTypes'
  <2>1. PICK next \in {"free", "replay"} : next = IF refreshing[t].new = 0 THEN "free" ELSE "replay"
    OBVIOUS
  <2>2. calling' = [k \in Calls |-> IF k \notin Waiting(t) THEN calling[k] ELSE next]
    BY <1>6, <2>1 DEF RefreshAnswer
  <2>3. refreshing' = [refreshing EXCEPT ![t] = Free] BY <1>6 DEF RefreshAnswer
  <2>4. \A k \in Calls : calling'[k] = "refresh" => calling[k] = "refresh" /\ TabOf[k] # t
    BY <2>1, <2>2 DEF Waiting
  <2> QED BY <1>1, <2>1, <2>2, <2>3, <2>4 DEF CallTypes
<1>7. ASSUME NEW t \in Tabs, RefreshRead(t) \/ RefreshRevoke(t) \/ RefreshIssue(t) \/ RefreshCrash(t)
      PROVE  CallTypes'
  <2>1. t \in Pending BY <1>7, TabRow DEF RefreshRead, RefreshRevoke, RefreshIssue, RefreshCrash
  <2>2. calling' = calling
    BY <1>7 DEF RefreshRead, RefreshRevoke, RefreshIssue, RefreshCrash
  <2>3. CASE RefreshRead(t)
    <3>1. PICK next \in {"revoke", "issue", "answer"} : refreshing' = [refreshing EXCEPT ![t].at = next]
      BY <2>3 DEF RefreshRead
    <3> QED BY <1>3, <2>1, <2>2, <3>1, Advance
  <2>4. CASE RefreshRevoke(t) \/ RefreshCrash(t)
    <3>1. PICK next \in {"revoke", "issue", "answer"} : refreshing' = [refreshing EXCEPT ![t].at = next]
      BY <2>4 DEF RefreshRevoke, RefreshCrash
    <3> QED BY <1>3, <2>1, <2>2, <3>1, Advance
  <2>5. CASE RefreshIssue(t)
    <3>1. PICK m : m = Len(sessions') OBVIOUS
    <3>2. refreshing' = [refreshing EXCEPT ![t].at = "answer", ![t].new = m] BY <2>5, <3>1 DEF RefreshIssue
    <3>3. PICK entry : entry = [refreshing[t] EXCEPT !.at = "answer", !.new = m] OBVIOUS
    <3>4. refreshing[t] \in RefreshType BY <2>1, TabRow
    <3>5. entry.at = "answer" BY <3>3, <3>4 DEF RefreshType
    <3>6. refreshing' = [refreshing EXCEPT ![t] = entry] BY <1>1, <3>2, <3>3
    <3>7. entry # Free BY <3>5 DEF Free
    <3>8. refreshing'[t] = entry /\ \A s \in Tabs : s # t => refreshing'[s] = refreshing[s]
      BY <1>1, <3>6
    <3> QED BY <1>1, <2>2, <3>7, <3>8 DEF CallTypes
  <2> QED BY <1>7, <2>3, <2>4, <2>5
<1>8. CASE UNCHANGED vars BY <1>2, <1>8 DEF vars, sessionVars
<1>9. CASE PrivacyNext
  BY <1>2, <1>9 DEF PrivacyNext, PlaceOrder, MoveOrder, SubmitRead, SubmitWrite, DecideStart, Reject,
     ExportPut, ExportComplete, EraseCheck, Erase, DecideCrash, sessionVars
<1>10. ASSUME SessionsNext PROVE CallTypes'
  <2>1. CASE Tick \/ \E r \in DOMAIN resets : TokenExpires(r)
    BY <1>2, <2>1 DEF Tick, TokenExpires, untouched
  <2>2. CASE \E b \in Browsers :
          \/ AccessExpires(b) \/ LoginRead(b) \/ MfaVerify(b) \/ MfaEnable(b) \/ MfaDisable(b)
          \/ ChangeRead(b) \/ ChangeWrite(b) \/ ResetRead(b) \/ ResetWrite(b) \/ SignIn(b) \/ Logout(b)
    BY <1>2, <2>2 DEF AccessExpires, LoginRead, MfaVerify, MfaEnable, MfaDisable, ChangeRead, ChangeWrite,
       ResetRead, ResetWrite, SignIn, Logout, untouched
  <2>3. CASE \E u \in Users : ForgotPassword(u) \/ TicketExpires(u)
    BY <1>2, <2>3 DEF ForgotPassword, TicketExpires, untouched
  <2>4. CASE \E k \in Calls : CallRefused(k) \/ CallReplayed(k) BY <1>4, <1>5, <2>4
  <2>5. CASE \E t \in Tabs :
          RefreshRead(t) \/ RefreshRevoke(t) \/ RefreshIssue(t) \/ RefreshAnswer(t) \/ RefreshCrash(t)
    BY <1>6, <1>7, <2>5
  <2> QED BY <1>10, <2>1, <2>2, <2>3, <2>4, <2>5 DEF SessionsNext
<1> QED BY <1>8, <1>9, <1>10 DEF Next

----------------------------------------------------------------------------
(* Accounts, links and forms                                               *)

AccountsTypes ==
  /\ account \in [Users -> AccountType] /\ ticket \subseteq Users
  /\ resets \in Seq(ResetRow) /\ Len(resets) <= MaxTokens
  /\ form \in [Browsers -> {Free} \cup FormType]
  /\ team \in Teams

(* Who is erased has no way in: the links are gone, and nothing begins.    *)
StartsNothing == \A b \in Browsers : account[Owner[b]].erased /\ form[b] = Free => form'[b] = Free
ErasedSame == \A u \in Users : account'[u].erased = account[u].erased
Accounts == AccountsTypes /\ FormsPoint /\ LinksGone

(* The flags of an account change one at a time.                           *)
LEMMA FlagSet ==
  ASSUME TypeOK, NEW u \in Users, NEW v \in BOOLEAN,
         \/ account' = [account EXCEPT ![u].totp = v]
         \/ account' = [account EXCEPT ![u].password = v]
  PROVE  account' \in [Users -> AccountType] /\ ErasedSame
<1>1. account \in [Users -> AccountType] BY DEF TypeOK, SessionsTypeOK
<1>2. PICK entry : /\ entry \in {[account[u] EXCEPT !.totp = v], [account[u] EXCEPT !.password = v]}
                 /\ account' = [account EXCEPT ![u] = entry]
  OBVIOUS
<1>3. entry \in AccountType /\ entry.erased = account[u].erased BY <1>1, <1>2 DEF AccountType
<1>4. account'[u] = entry /\ \A x \in Users : x # u => account'[x] = account[x] BY <1>1, <1>2
<1> QED BY <1>1, <1>2, <1>3, <1>4 DEF ErasedSame

(* A form goes to its next step.                                           *)
LEMMA FormMoves ==
  ASSUME TypeOK, FormsPoint, NEW b \in Browsers, NEW next \in {Free} \cup FormType,
         next.at = "reset" => next.token <= Len(resets),
         form' = [form EXCEPT ![b] = next]
  PROVE  /\ form' \in [Browsers -> {Free} \cup FormType]
         /\ Len(resets') = Len(resets) => FormsPoint'
         /\ form'[b] = next /\ \A c \in Browsers : c # b => form'[c] = form[c]
BY DEF TypeOK, SessionsTypeOK, FormsPoint

(* Links of a table as long as it was, none of which came back.            *)
LEMMA LinksStay ==
  ASSUME TypeOK, LinksGone, FormsPoint, ErasedSame, form' = form,
         resets' \in Seq(ResetRow), Len(resets') = Len(resets),
         \A r \in DOMAIN resets : /\ resets'[r].user = resets[r].user
                                  /\ resets[r].state = "deleted" => resets'[r].state = "deleted"
  PROVE  LinksGone' /\ FormsPoint'
<1>1. DOMAIN resets' = DOMAIN resets BY Rows
<1> QED BY <1>1 DEF LinksGone, FormsPoint, ErasedSame

(* A link changes its state.                                               *)
LEMMA LinkMoves ==
  ASSUME TypeOK, NEW r \in DOMAIN resets, NEW state \in {"fresh", "used", "lapsed", "deleted"},
         resets' = [resets EXCEPT ![r].state = state]
  PROVE  /\ resets' \in Seq(ResetRow) /\ Len(resets') = Len(resets)
         /\ resets'[r].state = state /\ \A q \in DOMAIN resets : resets'[q].user = resets[q].user
         /\ \A q \in DOMAIN resets : q # r => resets'[q] = resets[q]
<1>1. PICK entry : entry = [resets[r] EXCEPT !.state = state] OBVIOUS
<1>2. resets' = [resets EXCEPT ![r] = entry] BY <1>1
<1>3. resets[r] \in ResetRow /\ resets \in Seq(ResetRow) BY Rows
<1>4. entry \in ResetRow /\ entry.user = resets[r].user /\ entry.state = state BY <1>1, <1>3 DEF ResetRow
<1> HIDE DEF ResetRow
<1>5. /\ resets' \in Seq(ResetRow) /\ Len(resets') = Len(resets)
      /\ resets'[r] = entry /\ \A q \in DOMAIN resets \ {r} : resets'[q] = resets[q]
  BY <1>2, <1>3, <1>4, Replace
<1> QED BY <1>4, <1>5

(* An account is erased with its links.                                    *)
LEMMA EraseAccounts ==
  ASSUME TypeOK, Accounts, NEW u \in Users,
         account' = [account EXCEPT ![u] =
           [status |-> "DISABLED", erased |-> TRUE, password |-> FALSE, totp |-> FALSE]],
         resets' = ResetsErased(u), UNCHANGED <<form, team, ticket>>
  PROVE  Accounts' /\ \A x \in Users : account'[x].erased => x = u \/ account[x].erased
<1>1. account \in [Users -> AccountType] /\ Accounts BY DEF TypeOK, SessionsTypeOK
<1>2. account' \in [Users -> AccountType] /\ account'[u].erased
  BY <1>1 DEF AccountType
<1>3. \A x \in Users : x # u => account'[x] = account[x] BY <1>1
<1>4. resets \in Seq(ResetRow) /\ \A r \in DOMAIN resets : resets[r] \in ResetRow BY Rows
<1>5. \A r \in DOMAIN resets :
        /\ resets'[r] \in ResetRow /\ resets'[r].user = resets[r].user
        /\ resets[r].user = u => resets'[r].state = "deleted"
        /\ resets[r].user # u => resets'[r] = resets[r]
  BY <1>4 DEF ResetsErased, ResetRow
<1>6. resets' = [r \in DOMAIN resets |-> resets'[r]] BY DEF ResetsErased
<1>7. resets' \in Seq(ResetRow) /\ Len(resets') = Len(resets) /\ DOMAIN resets' = DOMAIN resets
  <2> HIDE DEF ResetRow
  <2>1. resets' \in [DOMAIN resets -> ResetRow] BY <1>5, <1>6, Zenon
  <2> QED BY <1>4, <2>1, Replace
<1>8. FormsPoint' BY <1>1, <1>7 DEF Accounts, FormsPoint
<1>9. LinksGone' BY <1>1, <1>3, <1>5, <1>7 DEF Accounts, LinksGone
<1>10. AccountsTypes' BY <1>1, <1>2, <1>7 DEF Accounts, AccountsTypes
<1> QED BY <1>3, <1>8, <1>9, <1>10 DEF Accounts

(* Every other step of an account leaves who is erased alone.              *)
LEMMA AccountSteps ==
  ASSUME TypeOK, Accounts, [Next]_vars, \A c \in Clerks : ~Erase(c)
  PROVE  Accounts' /\ ErasedSame /\ StartsNothing
<1> DEFINE Goal == Accounts' /\ ErasedSame /\ StartsNothing
<1>1. /\ AccountsTypes /\ FormsPoint /\ LinksGone /\ Owner \in [Browsers -> Users]
      /\ account \in [Users -> AccountType] /\ form \in [Browsers -> {Free} \cup FormType]
  BY Assumptions DEF Accounts, AccountsTypes
<1>2. CASE UNCHANGED <<account, ticket, resets, form, team>>
  BY <1>1, <1>2 DEF Accounts, AccountsTypes, FormsPoint, LinksGone, ErasedSame, StartsNothing
<1>3. ASSUME NEW b \in Browsers, NEW next \in FormType \cup {Free}, form' = [form EXCEPT ![b] = next],
             next.at = "reset" => next.token <= Len(resets),
             UNCHANGED <<account, resets, team>>, ticket' \subseteq Users,
             form[b] # Free \/ ~account[Owner[b]].erased
      PROVE  Goal
  <2>1. /\ form' \in [Browsers -> {Free} \cup FormType] /\ FormsPoint'
        /\ \A c \in Browsers : c # b => form'[c] = form[c]
    BY <1>1, <1>3, FormMoves
  <2>2. LinksGone' BY <1>1, <1>3 DEF LinksGone
  <2> QED BY <1>1, <1>3, <2>1, <2>2 DEF Accounts, AccountsTypes, ErasedSame, StartsNothing
<1>4. ASSUME NEW u \in Users, UNCHANGED <<ticket, resets, form, team>>, NEW v \in BOOLEAN,
             account' = [account EXCEPT ![u].totp = v]
      PROVE  Goal
  <2>1. account' \in [Users -> AccountType] /\ ErasedSame BY <1>4, FlagSet
  <2> QED BY <1>1, <1>4, <2>1 DEF Accounts, AccountsTypes, FormsPoint, LinksGone, ErasedSame, StartsNothing
<1>5. ASSUME NEW b \in Browsers, LoginRead(b) PROVE Goal
  <2>1. Owner[b] \in Users /\ ~account[Owner[b]].erased BY <1>1, <1>5 DEF LoginRead, Known
  <2>2. CASE form' = form
    <3>1. UNCHANGED <<account, resets, team>> /\ ticket' \subseteq Users
      BY <1>1, <1>5, <2>1, <2>2 DEF LoginRead, untouched, Submitted, AccountsTypes
    <3> QED BY <1>1, <2>2, <3>1 DEF Accounts, AccountsTypes, FormsPoint, LinksGone, ErasedSame, StartsNothing
  <2>3. CASE Submitted(b, [at |-> "issue"]) /\ UNCHANGED ticket
    <3>1. UNCHANGED <<account, resets, team>> BY <1>5 DEF LoginRead
    <3>2. PICK next : next = [at |-> "issue"] OBVIOUS
    <3>3. next \in FormType /\ next.at # "reset" BY <3>2 DEF FormType
    <3>4. ticket' \subseteq Users BY <1>1, <2>3 DEF AccountsTypes
    <3>5. form' = [form EXCEPT ![b] = next] BY <2>3, <3>2 DEF Submitted
    <3> QED BY <1>3, <2>1, <3>1, <3>3, <3>4, <3>5
  <2> QED BY <1>5, <2>2, <2>3 DEF LoginRead
<1>6. ASSUME NEW b \in Browsers, MfaVerify(b) PROVE Goal
  <2>1. ~account[Owner[b]].erased BY <1>6 DEF MfaVerify, Known
  <2>2. PICK next : next = [at |-> "issue"] OBVIOUS
  <2>3. next \in FormType /\ next.at # "reset" BY <2>2 DEF FormType
  <2>4. form' = [form EXCEPT ![b] = next] /\ UNCHANGED <<account, resets, team>> /\ ticket' \subseteq Users
    BY <1>1, <1>6, <2>2 DEF MfaVerify, Submitted, AccountsTypes
  <2> QED BY <1>3, <2>1, <2>3, <2>4
<1>7. ASSUME NEW b \in Browsers, ChangeRead(b) PROVE Goal
  <2>1. ~account[Owner[b]].erased BY <1>7 DEF ChangeRead
  <2>2. PICK next : next = [at |-> "change"] OBVIOUS
  <2>3. next \in FormType /\ next.at # "reset" BY <2>2 DEF FormType
  <2>4. form' = [form EXCEPT ![b] = next] /\ UNCHANGED <<account, resets, team>> /\ ticket' \subseteq Users
    BY <1>1, <1>7, <2>2 DEF ChangeRead, Submitted, AccountsTypes
  <2> QED BY <1>3, <2>1, <2>3, <2>4
<1>8. ASSUME NEW b \in Browsers, MfaEnable(b) \/ MfaDisable(b) PROVE Goal
  <2>1. PICK v \in BOOLEAN : account' = [account EXCEPT ![Owner[b]].totp = v]
    BY <1>8 DEF MfaEnable, MfaDisable
  <2>2. UNCHANGED <<ticket, resets, form, team>> BY <1>8 DEF MfaEnable, MfaDisable
  <2> QED BY <1>1, <1>4, <2>1, <2>2
<1>9. ASSUME NEW b \in Browsers, ChangeWrite(b) PROVE Goal
  <2>1. account' \in [Users -> AccountType] /\ ErasedSame
    BY <1>1, <1>9, FlagSet DEF ChangeWrite
  <2>2. PICK next : next = [at |-> "issue"] OBVIOUS
  <2>3. next \in FormType /\ next.at # "reset" BY <2>2 DEF FormType
  <2>4. form' = [form EXCEPT ![b] = next] /\ UNCHANGED <<ticket, resets, team>> /\ form[b].at = "change"
    BY <1>9, <2>2 DEF ChangeWrite, Submitted
  <2>5. /\ form' \in [Browsers -> {Free} \cup FormType] /\ FormsPoint'
        /\ \A c \in Browsers : c # b => form'[c] = form[c]
    BY <1>1, <2>3, <2>4, FormMoves
  <2>6. LinksGone' BY <1>1, <2>1, <2>4 DEF LinksGone, ErasedSame
  <2>7. form[b] # Free BY <2>4 DEF Free
  <2> QED BY <1>1, <2>1, <2>4, <2>5, <2>6, <2>7 DEF Accounts, AccountsTypes, StartsNothing
<1>10. ASSUME NEW b \in Browsers, ResetRead(b) PROVE Goal
  <2>1. PICK r \in DOMAIN resets :
          resets[r].user = Owner[b] /\ resets[r].state = "fresh" /\ Submitted(b, [at |-> "reset", token |-> r])
    BY <1>10 DEF ResetRead
  <2>2. ~account[Owner[b]].erased BY <1>1, <2>1 DEF LinksGone
  <2>3. PICK next : next = [at |-> "reset", token |-> r] OBVIOUS
  <2>4. r \in 1..Len(resets) /\ r \in 1..MaxTokens BY <2>1, Rows, Assumptions
  <2>5. next \in FormType /\ next.token <= Len(resets) BY <2>3, <2>4, Rows DEF FormType
  <2>6. form' = [form EXCEPT ![b] = next] /\ UNCHANGED <<account, resets, team>> /\ ticket' \subseteq Users
    BY <1>1, <1>10, <2>1, <2>3 DEF ResetRead, Submitted, AccountsTypes
  <2> QED BY <1>3, <2>2, <2>5, <2>6
<1>11. ASSUME NEW b \in Browsers, ResetWrite(b) PROVE Goal
  <2>1. PICK r : r = form[b].token OBVIOUS
  <2>2. form[b].at = "reset" /\ form[b] # Free BY <1>11 DEF ResetWrite, Free
  <2>3. r \in DOMAIN resets
    <3>1. r \in 1..MaxTokens BY <1>1, <2>1, <2>2 DEF FormType
    <3>2. r <= Len(resets) BY <1>1, <2>1, <2>2 DEF FormsPoint
    <3> QED BY <3>1, <3>2, Rows
  <2>4. form' = [form EXCEPT ![b] = Free] /\ UNCHANGED <<ticket, team>> BY <1>11 DEF ResetWrite, Submitted
  <2>5. Free.at # "reset" BY DEF Free
  <2>6. /\ form' \in [Browsers -> {Free} \cup FormType]
        /\ Len(resets') = Len(resets) => FormsPoint'
        /\ \A c \in Browsers : c # b => form'[c] = form[c]
    BY <1>1, <2>4, <2>5, FormMoves
  <2>7. CASE UNCHANGED <<account, resets>>
    <3>1. FormsPoint' /\ LinksGone' BY <1>1, <2>6, <2>7 DEF LinksGone
    <3> QED BY <1>1, <2>2, <2>4, <2>6, <2>7, <3>1 DEF Accounts, AccountsTypes, ErasedSame, StartsNothing
  <2>8. CASE /\ resets[r].state # "deleted" /\ resets' = [resets EXCEPT ![r].state = "used"]
             /\ account' = [account EXCEPT ![Owner[b]].password = TRUE]
    <3>1. account' \in [Users -> AccountType] /\ ErasedSame BY <1>1, <2>8, FlagSet
    <3>2. /\ resets' \in Seq(ResetRow) /\ Len(resets') = Len(resets)
          /\ \A q \in DOMAIN resets : resets'[q].user = resets[q].user
          /\ \A q \in DOMAIN resets : q # r => resets'[q] = resets[q]
      BY <2>3, <2>8, LinkMoves
    <3>3. DOMAIN resets' = DOMAIN resets BY <3>2, Rows
    <3>4. LinksGone' BY <1>1, <2>8, <3>1, <3>2, <3>3 DEF LinksGone, ErasedSame
    <3> QED BY <1>1, <2>2, <2>4, <2>6, <3>1, <3>2, <3>4 DEF Accounts, AccountsTypes, StartsNothing
  <2> QED BY <1>11, <2>1, <2>7, <2>8 DEF ResetWrite
<1>12. ASSUME NEW b \in Browsers, SignIn(b) PROVE Goal
  <2>1. form[b] # Free /\ form' = [form EXCEPT ![b] = Free] BY <1>12 DEF SignIn, Submitted, Free
  <2>2. UNCHANGED <<account, resets, team>> /\ ticket' \subseteq Users BY <1>1, <1>12 DEF SignIn, AccountsTypes
  <2>3. Free.at # "reset" BY DEF Free
  <2> QED BY <1>3, <2>1, <2>2, <2>3
<1>13. ASSUME NEW u \in Users, ForgotPassword(u) PROVE Goal
  <2>1. PICK entry : entry = [user |-> u, state |-> "fresh"] OBVIOUS
  <2>2. entry \in ResetRow /\ entry.user = u BY <2>1 DEF ResetRow
  <2>3. resets' = Append(resets, entry) /\ Len(resets) < MaxTokens /\ ~account[u].erased
    BY <1>13, <2>1 DEF ForgotPassword, Known
  <2>4. UNCHANGED <<account, ticket, form, team>> BY <1>13 DEF ForgotPassword
  <2>5. resets \in Seq(ResetRow) BY Rows
  <2>6. /\ resets' \in Seq(ResetRow) /\ Len(resets') = Len(resets) + 1 /\ Len(resets) \in Nat
        /\ DOMAIN resets' = DOMAIN resets \cup {Len(resets) + 1} /\ resets'[Len(resets) + 1] = entry
        /\ \A i \in DOMAIN resets : resets'[i] = resets[i]
    <3> HIDE DEF ResetRow
    <3> QED BY <2>2, <2>3, <2>5, AppendTo
  <2>7. LinksGone' BY <1>1, <2>2, <2>3, <2>4, <2>6 DEF LinksGone
  <2>8. FormsPoint'
    <3> SUFFICES ASSUME NEW b \in Browsers, form[b].at = "reset" PROVE form[b].token <= Len(resets')
      BY <2>4 DEF FormsPoint
    <3>1. form[b].token \in 1..MaxTokens /\ form[b].token <= Len(resets)
      BY <1>1 DEF FormsPoint, FormType, Free
    <3>2. \A k \in Nat : k <= Len(resets) => k <= Len(resets) + 1 BY <2>6
    <3>3. form[b].token \in Nat BY <3>1, Assumptions
    <3> QED BY <2>6, <3>1, <3>2, <3>3
  <2>9. Len(resets') <= MaxTokens BY <2>3, <2>6, Assumptions
  <2> QED BY <1>1, <2>4, <2>6, <2>7, <2>8, <2>9 DEF Accounts, AccountsTypes, ErasedSame, StartsNothing
<1>14. ASSUME NEW u \in Users, TicketExpires(u) PROVE Goal
  <2>1. UNCHANGED <<account, resets, form, team>> /\ ticket' \subseteq Users
    BY <1>1, <1>14 DEF TicketExpires, AccountsTypes
  <2> QED BY <1>1, <2>1 DEF Accounts, AccountsTypes, FormsPoint, LinksGone, ErasedSame, StartsNothing
<1>15. ASSUME NEW r \in DOMAIN resets, TokenExpires(r) PROVE Goal
  <2>1. UNCHANGED <<account, ticket, form, team>> /\ resets[r].state = "fresh"
    BY <1>15 DEF TokenExpires
  <2>2. /\ resets' \in Seq(ResetRow) /\ Len(resets') = Len(resets)
        /\ \A q \in DOMAIN resets : resets'[q].user = resets[q].user
        /\ \A q \in DOMAIN resets : q # r => resets'[q] = resets[q]
    BY <1>15, LinkMoves DEF TokenExpires
  <2>3. ErasedSame BY <2>1 DEF ErasedSame
  <2>4. LinksGone' /\ FormsPoint' BY <1>1, <2>1, <2>2, <2>3, LinksStay
  <2> QED BY <1>1, <2>1, <2>2, <2>3, <2>4 DEF Accounts, AccountsTypes, StartsNothing
<1> HIDE DEF Goal
<1>16. CASE UNCHANGED vars BY <1>2, <1>16 DEF vars, sessionVars, Goal
<1>17. CASE PrivacyNext
  <2>1. UNCHANGED <<account, ticket, resets, form, team>>
    BY <1>17 DEF PrivacyNext, PlaceOrder, MoveOrder, SubmitRead, SubmitWrite, DecideStart, Reject,
       ExportPut, ExportComplete, EraseCheck, DecideCrash, sessionVars
  <2> QED BY <1>2, <2>1 DEF Goal
<1>18. ASSUME SessionsNext PROVE Goal
  <2>1. CASE \/ Tick \/ \E k \in Calls : CallRefused(k) \/ CallReplayed(k)
             \/ \E b \in Browsers : AccessExpires(b) \/ Logout(b)
    BY <1>2, <2>1 DEF Tick, CallRefused, CallReplayed, AccessExpires, Logout, unserved, Goal
  <2>2. CASE \E t \in Tabs :
          RefreshRead(t) \/ RefreshRevoke(t) \/ RefreshIssue(t) \/ RefreshAnswer(t) \/ RefreshCrash(t)
    BY <1>2, <2>2 DEF RefreshRead, RefreshRevoke, RefreshIssue, RefreshAnswer, RefreshCrash, unserved, Goal
  <2>3. CASE \E b \in Browsers :
          \/ LoginRead(b) \/ MfaVerify(b) \/ MfaEnable(b) \/ MfaDisable(b)
          \/ ChangeRead(b) \/ ChangeWrite(b) \/ ResetRead(b) \/ ResetWrite(b) \/ SignIn(b)
    BY <1>5, <1>6, <1>7, <1>8, <1>9, <1>10, <1>11, <1>12, <2>3
  <2>4. CASE \/ \E u \in Users : ForgotPassword(u) \/ TicketExpires(u)
             \/ \E r \in DOMAIN resets : TokenExpires(r)
    BY <1>13, <1>14, <1>15, <2>4
  <2> QED BY <1>18, <2>1, <2>2, <2>3, <2>4 DEF SessionsNext
<1> QED BY <1>16, <1>17, <1>18 DEF Next, Goal

----------------------------------------------------------------------------
(* Requests and decisions                                                  *)

DecisionType ==
  [at : {"reject", "export", "complete", "check", "erase"}, request : DOMAIN requests]
RequestsTypes ==
  /\ member \subseteq Users /\ order \in [Orders -> OrderStatus \cup {"none"}]
  /\ requests \in Seq(RequestRow) /\ exports \subseteq DOMAIN requests
  /\ submitting \in [Submitters -> {"free", "create"}]
  /\ deciding \in [Clerks -> {Free} \cup DecisionType]
RequestsInv ==
  RequestsTypes /\ SubmissionsOK /\ DecisionsOK /\ ExportIsStored /\ ErasedOnRequest /\ OrdersDone

(* The frame of a clerk.                                                   *)
LEMMA ClerkRow ==
  ASSUME TypeOK
  PROVE  /\ RequestsTypes
         /\ \A c \in Clerks : deciding[c].at # "free" => deciding[c] # Free
         /\ \A c \in Clerks : deciding[c] # Free =>
              /\ deciding[c] \in DecisionType /\ deciding[c].request \in DOMAIN requests
              /\ requests[deciding[c].request] \in RequestRow
              /\ requests[deciding[c].request].user \in Users
<1>1. RequestsTypes BY DEF TypeOK, PrivacyTypeOK, RequestsTypes, DecisionType, RequestRow
<1>2. \A c \in Clerks : deciding[c] # Free => deciding[c] \in DecisionType BY <1>1 DEF RequestsTypes
<1>3. \A c \in Clerks : deciding[c] # Free => deciding[c].request \in DOMAIN requests
  BY <1>2 DEF DecisionType
<1>4. \A r \in DOMAIN requests : requests[r] \in RequestRow /\ requests[r].user \in Users
  BY Rows DEF RequestRow
<1> QED BY <1>1, <1>2, <1>3, <1>4 DEF Free

(* A step of a clerk that decides nothing yet.                             *)
LEMMA ClerkMoves ==
  ASSUME TypeOK, RequestsInv, NEW c \in Clerks, NEW next \in {Free} \cup DecisionType,
         UNCHANGED <<requests, submitting, account, team, member, order>>, Decides(c, next),
         exports \subseteq exports', exports' \subseteq DOMAIN requests,
         next # Free =>
           /\ c \in team
           /\ next.at \in {"export", "complete"} => requests[next.request].type = "EXPORT"
           /\ next.at \in {"check", "erase"} => requests[next.request].type = "DELETE"
           /\ next.at = "complete" => next.request \in exports'
           /\ Cardinality(team \cap Clerks) <= 1 => requests[next.request].status = "PENDING",
         next.at = "erase" /\ "order" \notin team => InFlight(requests[next.request].user) = {}
  PROVE  RequestsInv'
<1>1. RequestsTypes BY DEF RequestsInv
<1>2. deciding'[c] = next /\ \A d \in Clerks : d # c => deciding'[d] = deciding[d]
  BY <1>1 DEF RequestsTypes, Decides
<1>3. RequestsTypes' BY <1>1 DEF RequestsTypes, Decides, DecisionType
<1>4. DecisionsOK' BY <1>2 DEF RequestsInv, DecisionsOK
<1>5. SubmissionsOK' BY DEF RequestsInv, SubmissionsOK, PendingOf, Alone
<1>6. ExportIsStored' /\ ErasedOnRequest' BY DEF RequestsInv, ExportIsStored, ErasedOnRequest
<1>7. OrdersDone' BY <1>2 DEF RequestsInv, OrdersDone, InFlight
<1> QED BY <1>3, <1>4, <1>5, <1>6, <1>7 DEF RequestsInv

(* A request gets a decision.                                              *)
LEMMA CloseRow ==
  ASSUME TypeOK, NEW r \in DOMAIN requests, NEW status \in {"COMPLETED", "REJECTED"}, Closed(r, status)
  PROVE  /\ requests' \in Seq(RequestRow) /\ DOMAIN requests' = DOMAIN requests
         /\ \A q \in DOMAIN requests :
              /\ requests'[q].user = requests[q].user /\ requests'[q].type = requests[q].type
              /\ q # r => requests'[q] = requests[q]
         /\ requests'[r].status = status
         /\ \A ask : PendingOf(ask)' \subseteq PendingOf(ask)
<1>1. PICK entry : entry = [requests[r] EXCEPT !.status = status] OBVIOUS
<1>2. requests' = [requests EXCEPT ![r] = entry] BY <1>1 DEF Closed
<1>3. requests[r] \in RequestRow /\ requests \in Seq(RequestRow) BY Rows
<1>4. /\ entry \in RequestRow /\ entry.user = requests[r].user /\ entry.type = requests[r].type
      /\ entry.status = status
  BY <1>1, <1>3 DEF RequestRow
<1> HIDE DEF RequestRow
<1>5. /\ requests' \in Seq(RequestRow) /\ DOMAIN requests' = DOMAIN requests
      /\ requests'[r] = entry /\ \A q \in DOMAIN requests \ {r} : requests'[q] = requests[q]
  BY <1>2, <1>3, <1>4, Replace
<1>6. \A ask : PendingOf(ask)' \subseteq PendingOf(ask) BY <1>4, <1>5 DEF PendingOf
<1> QED BY <1>4, <1>5, <1>6

(* A clerk who decides has one request; alone, it is the only one whose    *)
(* decision this could change, and it was pending.                         *)
LEMMA ClerkCloses ==
  ASSUME TypeOK, RequestsInv, NEW c \in Clerks, deciding[c] # Free,
         NEW status \in {"COMPLETED", "REJECTED"}, Closed(deciding[c].request, status), Decides(c, Free),
         status = "COMPLETED" /\ requests[deciding[c].request].type = "EXPORT" => deciding[c].request \in exports,
         UNCHANGED <<submitting, team, order, exports>>,
         \/ member' = member
         \/ (member' = member \ {requests[deciding[c].request].user} /\ deciding[c].at = "erase")
  PROVE  /\ RequestsTypes' /\ SubmissionsOK' /\ DecisionsOK' /\ ExportIsStored' /\ OrdersDone'
         /\ Cardinality(team \cap Clerks) <= 1 => \A q \in DOMAIN requests :
              requests[q].status = "COMPLETED" => q \in DOMAIN requests' /\ requests'[q] = requests[q]
<1>1. PICK r \in DOMAIN requests : r = deciding[c].request BY ClerkRow
<1>2. /\ requests' \in Seq(RequestRow) /\ DOMAIN requests' = DOMAIN requests
      /\ \A q \in DOMAIN requests :
           /\ requests'[q].user = requests[q].user /\ requests'[q].type = requests[q].type
           /\ q # r => requests'[q] = requests[q]
      /\ requests'[r].status = status
      /\ \A ask : PendingOf(ask)' \subseteq PendingOf(ask)
  BY <1>1, CloseRow
<1>3. RequestsTypes /\ deciding' = [deciding EXCEPT ![c] = Free] BY DEF RequestsInv, Decides
<1>4. deciding'[c] = Free /\ \A d \in Clerks : d # c => deciding'[d] = deciding[d]
  BY <1>3 DEF RequestsTypes
<1>5. RequestsTypes' BY <1>2, <1>3 DEF RequestsTypes, DecisionType
<1>6. SubmissionsOK'
  <2> SUFFICES ASSUME NEW s \in team \cap Submitters, Alone(s)
               PROVE  /\ \A i, j \in PendingOf(Asks[s])' : i = j
                      /\ submitting[s] = "create" => PendingOf(Asks[s])' = {}
    BY DEF SubmissionsOK, Alone, RequestsInv
  <2>1. /\ \A i, j \in PendingOf(Asks[s]) : i = j
        /\ submitting[s] = "create" => PendingOf(Asks[s]) = {}
    BY DEF RequestsInv, SubmissionsOK
  <2>2. PendingOf(Asks[s])' \subseteq PendingOf(Asks[s]) BY <1>2
  <2> QED BY <2>1, <2>2
<1>7. Cardinality(team \cap Clerks) <= 1 => \A d \in Clerks : deciding[d] # Free => d = c
  <2> SUFFICES ASSUME Cardinality(team \cap Clerks) <= 1, NEW d \in Clerks, deciding[d] # Free
               PROVE  d = c
    OBVIOUS
  <2>1. d \in team \cap Clerks /\ c \in team \cap Clerks BY DEF RequestsInv, DecisionsOK
  <2>2. IsFiniteSet(team \cap Clerks) BY Assumptions, FS_Intersection
  <2> QED BY <2>1, <2>2, OneAtMost
<1>8. DecisionsOK'
  <2> SUFFICES ASSUME NEW d \in Clerks, deciding'[d] # Free
               PROVE  /\ d \in team
                      /\ deciding'[d].at \in {"export", "complete"} => requests'[deciding'[d].request].type = "EXPORT"
                      /\ deciding'[d].at \in {"check", "erase"} => requests'[deciding'[d].request].type = "DELETE"
                      /\ deciding'[d].at = "complete" => deciding'[d].request \in exports
                      /\ Cardinality(team \cap Clerks) <= 1 => requests'[deciding'[d].request].status = "PENDING"
    BY DEF DecisionsOK
  <2>1. d # c /\ deciding'[d] = deciding[d] BY <1>4
  <2>2. deciding[d].request \in DOMAIN requests BY <2>1, ClerkRow
  <2> QED BY <1>2, <1>7, <2>1, <2>2 DEF RequestsInv, DecisionsOK
<1>9. ExportIsStored' BY <1>1, <1>2 DEF RequestsInv, ExportIsStored
<1>10. OrdersDone'
  <2>1. \A o \in Orders : order[o] # "DRAFT" BY DEF RequestsInv, OrdersDone
  <2> SUFFICES ASSUME "order" \notin team
               PROVE  /\ \A u \in Users : u \notin member' => InFlight(u) = {}
                      /\ \A d \in Clerks : deciding'[d].at = "erase" =>
                           InFlight(requests'[deciding'[d].request].user) = {}
    BY <2>1 DEF OrdersDone, InFlight
  <2>2. \A u \in Users : u \notin member => InFlight(u) = {} BY DEF RequestsInv, OrdersDone
  <2>3. \A d \in Clerks : deciding[d].at = "erase" => InFlight(requests[deciding[d].request].user) = {}
    BY DEF RequestsInv, OrdersDone
  <2>4. \A d \in Clerks : deciding'[d].at = "erase" =>
          d # c /\ deciding'[d] = deciding[d] /\ deciding[d].request \in DOMAIN requests
    BY <1>4, ClerkRow DEF Free
  <2>5. \A d \in Clerks : deciding'[d].at = "erase" => InFlight(requests'[deciding'[d].request].user) = {}
    <3> SUFFICES ASSUME NEW d \in Clerks, deciding'[d].at = "erase"
                 PROVE  InFlight(requests'[deciding'[d].request].user) = {}
      OBVIOUS
    <3>1. requests'[deciding'[d].request].user = requests[deciding[d].request].user BY <1>2, <2>4
    <3>2. deciding[d].at = "erase" BY <2>4
    <3> QED BY <2>3, <3>1, <3>2
  <2>6. \A u \in Users : u \notin member' => InFlight(u) = {} BY <2>2, <2>3
  <2> QED BY <2>5, <2>6
<1>11. Cardinality(team \cap Clerks) <= 1 => \A q \in DOMAIN requests :
         requests[q].status = "COMPLETED" => q \in DOMAIN requests' /\ requests'[q] = requests[q]
  <2>1. Cardinality(team \cap Clerks) <= 1 => requests[r].status = "PENDING"
    BY <1>1 DEF RequestsInv, DecisionsOK
  <2> QED BY <1>2, <2>1
<1> QED BY <1>5, <1>6, <1>8, <1>9, <1>10, <1>11

(* The order machine goes on from what counts as in flight, and from DRAFT *)
(* alone besides.                                                          *)
LEMMA EdgesInFlight ==
  \A from, to : IsEdge(OrderTable, from, to) =>
    /\ from = "DRAFT" \/ from \in IN_FLIGHT_ORDER_STATES
    /\ to \in OrderStatus /\ to # "DRAFT"
BY DEF IsEdge, OrderTable, Edge, IN_FLIGHT_ORDER_STATES, OrderStatus

(* What orders change.                                                     *)
LEMMA OrderSteps ==
  ASSUME TypeOK, RequestsInv, NEW o \in Orders, PlaceOrder(o) \/ MoveOrder(o)
  PROVE  /\ RequestsInv'
         /\ "order" \notin team =>
              \A x \in Orders : PartiesOf[x] \cap member # PartiesOf[x] => order'[x] = order[x]
<1>1. /\ UNCHANGED <<account, member, requests, exports, submitting, deciding, team>>
      /\ RequestsTypes /\ OrdersDone /\ PartiesOf \in [Orders -> SUBSET Users]
  BY Assumptions DEF PlaceOrder, MoveOrder, sessionVars, RequestsInv
<1>2. PICK status \in OrderStatus \ {"DRAFT"} :
        /\ order' = [order EXCEPT ![o] = status]
        /\ \/ ("order" \in team \/ (member = Users /\ \A c \in Clerks : deciding[c] = Free))
           \/ order[o] \in IN_FLIGHT_ORDER_STATES
  <2>1. CASE PlaceOrder(o)
    <3>1. "PLACED" \in OrderStatus \ {"DRAFT"} BY DEF OrderStatus
    <3> QED BY <2>1, <3>1 DEF PlaceOrder
  <2>2. CASE MoveOrder(o)
    <3>1. PICK status \in OrderStatus : IsEdge(OrderTable, order[o], status) /\ order' = [order EXCEPT ![o] = status]
      BY <2>2 DEF MoveOrder
    <3>2. order[o] \in IN_FLIGHT_ORDER_STATES /\ status # "DRAFT"
      BY <1>1, <3>1, EdgesInFlight DEF OrdersDone
    <3> QED BY <3>1, <3>2
  <2> QED BY <2>1, <2>2
<1>3. /\ order' \in [Orders -> OrderStatus \cup {"none"}] /\ order'[o] = status
      /\ \A x \in Orders : x # o => order'[x] = order[x]
  BY <1>1, <1>2 DEF RequestsTypes
<1>4. RequestsTypes' BY <1>1, <1>3 DEF RequestsTypes, DecisionType
<1>5. ASSUME NEW u \in Users, InFlight(u) = {}, order[o] \in IN_FLIGHT_ORDER_STATES
      PROVE  InFlight(u)' = {}
  BY <1>1, <1>3, <1>5 DEF InFlight
<1>6. OrdersDone'
  <2>1. \A x \in Orders : order'[x] # "DRAFT" BY <1>1, <1>2, <1>3 DEF OrdersDone
  <2> SUFFICES ASSUME "order" \notin team
               PROVE  /\ \A u \in Users : u \notin member => InFlight(u)' = {}
                      /\ \A c \in Clerks : deciding[c].at = "erase" =>
                           InFlight(requests[deciding[c].request].user)' = {}
    BY <1>1, <2>1 DEF OrdersDone
  <2>2. /\ \A u \in Users : u \notin member => InFlight(u) = {}
        /\ \A c \in Clerks : deciding[c].at = "erase" => InFlight(requests[deciding[c].request].user) = {}
    BY <1>1 DEF OrdersDone
  <2>3. CASE member = Users /\ \A c \in Clerks : deciding[c] = Free BY <2>3 DEF Free
  <2>4. CASE order[o] \in IN_FLIGHT_ORDER_STATES
    <3>1. \A c \in Clerks : deciding[c].at = "erase" => requests[deciding[c].request].user \in Users
      BY ClerkRow DEF Free
    <3>2. \A u \in Users : InFlight(u) = {} => InFlight(u)' = {} BY <1>5, <2>4
    <3>3. ASSUME NEW c \in Clerks, deciding[c].at = "erase"
          PROVE  InFlight(requests[deciding[c].request].user)' = {}
      <4>1. PICK u \in Users : u = requests[deciding[c].request].user BY <3>1, <3>3
      <4>2. InFlight(u)' = {} BY <2>2, <3>2, <3>3, <4>1
      <4>3. u = requests'[deciding'[c].request].user BY <1>1, <4>1
      <4> QED BY <4>2, <4>3 DEF InFlight
    <3> QED BY <2>2, <3>2, <3>3
  <2> QED BY <1>2, <2>3, <2>4
<1>7. "order" \notin team => \A x \in Orders : PartiesOf[x] \cap member # PartiesOf[x] => order'[x] = order[x]
  <2> SUFFICES ASSUME "order" \notin team, PartiesOf[o] \cap member # PartiesOf[o] PROVE FALSE
    BY <1>3
  <2>1. PICK u \in Users : u \in PartiesOf[o] /\ u \notin member BY <1>1
  <2>2. InFlight(u) = {} BY <1>1, <2>1 DEF OrdersDone
  <2>3. order[o] \notin IN_FLIGHT_ORDER_STATES BY <2>1, <2>2 DEF InFlight
  <2> QED BY <1>2, <2>1, <2>3
<1>8. SubmissionsOK' BY <1>1 DEF RequestsInv, SubmissionsOK, PendingOf, Alone
<1>9. DecisionsOK' BY <1>1 DEF RequestsInv, DecisionsOK
<1>10. ExportIsStored' /\ ErasedOnRequest' BY <1>1 DEF RequestsInv, ExportIsStored, ErasedOnRequest
<1> QED BY <1>4, <1>6, <1>7, <1>8, <1>9, <1>10 DEF RequestsInv

(* A submission that is alone writes what it has found missing.            *)
LEMMA SubmissionSteps ==
  ASSUME TypeOK, RequestsInv, NEW s \in Submitters, SubmitRead(s) \/ SubmitWrite(s)
  PROVE  RequestsInv'
<1>1. /\ UNCHANGED <<account, member, order, exports, deciding, team>> /\ RequestsTypes
  BY DEF SubmitRead, SubmitWrite, sessionVars, RequestsInv
<1>2. CASE SubmitRead(s)
  <2>1. requests' = requests /\ submitting' = [submitting EXCEPT ![s] = "create"] BY <1>2 DEF SubmitRead
  <2>2. s \in team /\ PendingOf(Asks[s]) = {} BY <1>2 DEF SubmitRead, Duplicate
  <2>3. RequestsTypes' BY <1>1, <2>1 DEF RequestsTypes, DecisionType
  <2>4. SubmissionsOK'
    <3>1. submitting'[s] = "create" /\ \A x \in Submitters : x # s => submitting'[x] = submitting[x]
      BY <1>1, <2>1 DEF RequestsTypes
    <3>2. \A ask : PendingOf(ask)' = PendingOf(ask) BY <2>1 DEF PendingOf
    <3> QED BY <1>1, <2>2, <3>1, <3>2 DEF RequestsInv, SubmissionsOK, Alone
  <2>5. DecisionsOK' /\ ExportIsStored' /\ ErasedOnRequest'
    BY <1>1, <2>1 DEF RequestsInv, DecisionsOK, ExportIsStored, ErasedOnRequest
  <2>6. OrdersDone' BY <1>1, <2>1 DEF RequestsInv, OrdersDone, InFlight
  <2> QED BY <2>3, <2>4, <2>5, <2>6 DEF RequestsInv
<1>3. CASE SubmitWrite(s)
  <2>1. PICK entry : entry = [user |-> Asks[s][1], type |-> Asks[s][2], status |-> "PENDING"] OBVIOUS
  <2>2. Asks[s] \in Users \X {"EXPORT", "DELETE"} BY Assumptions
  <2>3. entry \in RequestRow /\ <<entry.user, entry.type>> = Asks[s] /\ entry.status = "PENDING"
    BY <2>1, <2>2 DEF RequestRow
  <2>4. /\ requests' = Append(requests, entry) /\ submitting' = [submitting EXCEPT ![s] = "free"]
        /\ submitting[s] = "create"
    BY <1>3, <2>1 DEF SubmitWrite
  <2>5. PICK m : m = Len(requests) + 1 OBVIOUS
  <2>6. /\ requests' \in Seq(RequestRow) /\ DOMAIN requests' = DOMAIN requests \cup {m}
        /\ m \notin DOMAIN requests /\ requests'[m] = entry
        /\ \A i \in DOMAIN requests : requests'[i] = requests[i]
    <3>1. requests \in Seq(RequestRow) BY Rows
    <3> HIDE DEF RequestRow
    <3> QED BY <2>3, <2>4, <2>5, <3>1, AppendTo
  <2>7. submitting'[s] = "free" /\ \A x \in Submitters : x # s => submitting'[x] = submitting[x]
    BY <1>1, <2>4 DEF RequestsTypes
  <2>8. RequestsTypes'
    <3>1. DecisionType \subseteq DecisionType' BY <2>6 DEF DecisionType
    <3>2. submitting' \in [Submitters -> {"free", "create"}] BY <1>1, <2>4 DEF RequestsTypes
    <3>3. deciding' \in [Clerks -> {Free} \cup DecisionType'] BY <1>1, <3>1 DEF RequestsTypes
    <3> QED BY <1>1, <2>6, <3>2, <3>3 DEF RequestsTypes
  <2>9. SubmissionsOK'
    <3>1. s \in team BY <2>4 DEF RequestsInv, SubmissionsOK
    <3>2. PendingOf(Asks[s])' \subseteq PendingOf(Asks[s]) \cup {m}
      BY <2>6 DEF PendingOf
    <3>3. \A ask : ask # Asks[s] => PendingOf(ask)' = PendingOf(ask)
      BY <2>3, <2>6 DEF PendingOf
    <3> SUFFICES ASSUME NEW x \in team \cap Submitters, Alone(x)
                 PROVE  /\ \A i, j \in PendingOf(Asks[x])' : i = j
                        /\ submitting'[x] = "create" => PendingOf(Asks[x])' = {}
      BY <1>1, <2>7 DEF RequestsInv, SubmissionsOK, Alone
    <3>4. CASE Asks[x] = Asks[s]
      <4>1. x = s BY <3>1, <3>4 DEF Alone
      <4>2. PendingOf(Asks[s]) = {} BY <2>4, <4>1 DEF RequestsInv, SubmissionsOK
      <4> QED BY <2>7, <3>2, <4>1, <4>2
    <3>5. CASE Asks[x] # Asks[s]
      <4>1. PendingOf(Asks[x])' = PendingOf(Asks[x]) /\ x # s BY <3>3, <3>5
      <4>2. /\ \A i, j \in PendingOf(Asks[x]) : i = j
            /\ submitting[x] = "create" => PendingOf(Asks[x]) = {}
        BY DEF RequestsInv, SubmissionsOK
      <4> QED BY <2>7, <4>1, <4>2
    <3> QED BY <3>4, <3>5
  <2>10. \A c \in Clerks : deciding[c] # Free => requests'[deciding[c].request] = requests[deciding[c].request]
    BY <2>6, ClerkRow
  <2>11. DecisionsOK' BY <1>1, <2>10 DEF RequestsInv, DecisionsOK
  <2>12. ExportIsStored' BY <1>1, <2>3, <2>6 DEF RequestsInv, ExportIsStored
  <2>13. ErasedOnRequest'
    <3> SUFFICES ASSUME Cardinality(team \cap Clerks) <= 1, NEW u \in Users, account[u].erased
                 PROVE  \E r \in DOMAIN requests' :
                          requests'[r].user = u /\ requests'[r].type = "DELETE" /\ requests'[r].status = "COMPLETED"
      BY <1>1 DEF ErasedOnRequest
    <3>1. PICK r \in DOMAIN requests :
            requests[r].user = u /\ requests[r].type = "DELETE" /\ requests[r].status = "COMPLETED"
      BY DEF RequestsInv, ErasedOnRequest
    <3> QED BY <2>6, <3>1
  <2>14. OrdersDone'
    <3>1. \A c \in Clerks : deciding[c].at = "erase" =>
            requests'[deciding[c].request].user = requests[deciding[c].request].user
      BY <2>10, ClerkRow
    <3>2. \A c \in Clerks : deciding[c].at = "erase" /\ "order" \notin team =>
            InFlight(requests'[deciding[c].request].user) = {}
      <4> SUFFICES ASSUME NEW c \in Clerks, deciding[c].at = "erase", "order" \notin team
                   PROVE  InFlight(requests'[deciding[c].request].user) = {}
        OBVIOUS
      <4>1. InFlight(requests[deciding[c].request].user) = {} BY DEF RequestsInv, OrdersDone
      <4> QED BY <3>1, <4>1
    <3> QED BY <1>1, <3>2 DEF RequestsInv, OrdersDone, InFlight
  <2> QED BY <2>8, <2>9, <2>11, <2>12, <2>13, <2>14 DEF RequestsInv
<1> QED BY <1>2, <1>3

(* Clerks.                                                                 *)
LEMMA ClerkSteps ==
  ASSUME TypeOK, RequestsInv, NEW c \in Clerks,
         \/ DecideStart(c) \/ Reject(c) \/ ExportPut(c) \/ ExportComplete(c)
         \/ EraseCheck(c) \/ DecideCrash(c)
  PROVE  RequestsInv'
<1>1. /\ UNCHANGED <<account, member, order, submitting, team>> /\ RequestsTypes
      /\ exports \subseteq DOMAIN requests
  BY DEF DecideStart, Reject, ExportPut, ExportComplete, EraseCheck, DecideCrash, sessionVars,
     RequestsInv, RequestsTypes
<1>2. CASE DecideStart(c)
  <2>1. PICK r \in DOMAIN requests, at \in {"reject", "export", "check"} :
          /\ requests[r].status = "PENDING" /\ Decides(c, [request |-> r, at |-> at])
          /\ at = "export" => requests[r].type = "EXPORT"
          /\ at = "check" => requests[r].type # "EXPORT"
    <3>1. PICK r \in DOMAIN requests, granted \in BOOLEAN :
            /\ requests[r].status = "PENDING"
            /\ Decides(c, [request |-> r,
                 at |-> IF ~granted THEN "reject"
                        ELSE IF requests[r].type = "EXPORT" THEN "export" ELSE "check"])
      BY <1>2 DEF DecideStart, LoadPending
    <3>2. PICK at \in {"reject", "export", "check"} :
            at = IF ~granted THEN "reject" ELSE IF requests[r].type = "EXPORT" THEN "export" ELSE "check"
      OBVIOUS
    <3> QED BY <3>1, <3>2
  <2>2. PICK next : next = [request |-> r, at |-> at] OBVIOUS
  <2>3. requests[r].type \in {"EXPORT", "DELETE"} BY <2>1, Rows DEF RequestRow
  <2>4. next \in DecisionType /\ next.request = r /\ next.at = at BY <2>1, <2>2 DEF DecisionType
  <2>5. UNCHANGED <<requests, exports>> /\ c \in team BY <1>2 DEF DecideStart
  <2>6. Decides(c, next) BY <2>1, <2>2
  <2> QED BY <1>1, <2>1, <2>3, <2>4, <2>5, <2>6, ClerkMoves
<1>3. CASE Reject(c)
  <2>1. deciding[c] # Free /\ Closed(deciding[c].request, "REJECTED") /\ Decides(c, Free)
    BY <1>3, ClerkRow DEF Reject
  <2>2. UNCHANGED <<submitting, team, order, exports>> /\ member' = member BY <1>1, <1>3 DEF Reject
  <2>3. /\ RequestsTypes' /\ SubmissionsOK' /\ DecisionsOK' /\ ExportIsStored' /\ OrdersDone'
        /\ Cardinality(team \cap Clerks) <= 1 => \A q \in DOMAIN requests :
             requests[q].status = "COMPLETED" => q \in DOMAIN requests' /\ requests'[q] = requests[q]
    BY <2>1, <2>2, ClerkCloses
  <2>4. ErasedOnRequest' BY <1>1, <2>3 DEF RequestsInv, ErasedOnRequest
  <2> QED BY <2>3, <2>4 DEF RequestsInv
<1>4. CASE ExportPut(c)
  <2>1. deciding[c].at = "export" /\ deciding[c] # Free /\ deciding[c] \in DecisionType
    BY <1>4, ClerkRow DEF ExportPut
  <2>2. PICK next : next = [deciding[c] EXCEPT !.at = "complete"] OBVIOUS
  <2>3. next \in DecisionType /\ next.request = deciding[c].request /\ next.at = "complete"
    BY <2>1, <2>2 DEF DecisionType
  <2>4. Decides(c, next) /\ exports' = exports \cup {next.request} /\ requests' = requests
    BY <1>4, <2>2, <2>3 DEF ExportPut
  <2>5. /\ c \in team /\ requests[next.request].type = "EXPORT" /\ next.request \in DOMAIN requests
        /\ Cardinality(team \cap Clerks) <= 1 => requests[next.request].status = "PENDING"
    BY <2>1, <2>3, ClerkRow DEF RequestsInv, DecisionsOK
  <2> QED BY <1>1, <2>3, <2>4, <2>5, ClerkMoves
<1>5. CASE ExportComplete(c)
  <2>1. deciding[c] # Free /\ Closed(deciding[c].request, "COMPLETED") /\ Decides(c, Free)
    BY <1>5, ClerkRow DEF ExportComplete
  <2>2. UNCHANGED <<submitting, team, order, exports>> /\ member' = member BY <1>1, <1>5 DEF ExportComplete
  <2>3. deciding[c].request \in exports BY <1>5, <2>1 DEF ExportComplete, RequestsInv, DecisionsOK
  <2>4. /\ RequestsTypes' /\ SubmissionsOK' /\ DecisionsOK' /\ ExportIsStored' /\ OrdersDone'
        /\ Cardinality(team \cap Clerks) <= 1 => \A q \in DOMAIN requests :
             requests[q].status = "COMPLETED" => q \in DOMAIN requests' /\ requests'[q] = requests[q]
    BY <2>1, <2>2, <2>3, ClerkCloses
  <2>5. ErasedOnRequest' BY <1>1, <2>4 DEF RequestsInv, ErasedOnRequest
  <2> QED BY <2>4, <2>5 DEF RequestsInv
<1>6. CASE DecideCrash(c) \/ (EraseCheck(c) /\ Decides(c, Free))
  <2>1. Decides(c, Free) /\ UNCHANGED <<requests, exports>> BY <1>6 DEF DecideCrash, EraseCheck
  <2>2. Free.at # "erase" BY DEF Free
  <2> QED BY <1>1, <2>1, <2>2, ClerkMoves
<1>7. CASE EraseCheck(c) /\ ~Decides(c, Free)
  <2>1. deciding[c].at = "check" /\ deciding[c] # Free /\ deciding[c] \in DecisionType
    BY <1>7, ClerkRow DEF EraseCheck
  <2>2. PICK next : next = [deciding[c] EXCEPT !.at = "erase"] OBVIOUS
  <2>3. next \in DecisionType /\ next.request = deciding[c].request /\ next.at = "erase"
    BY <2>1, <2>2 DEF DecisionType
  <2>4. PICK u \in Users : u = requests[deciding[c].request].user BY <2>1, ClerkRow
  <2>5. /\ Decides(c, next) /\ UNCHANGED <<requests, exports>>
        /\ ~(u \in member /\ InFlight(u) # {})
    BY <1>7, <2>2, <2>4 DEF EraseCheck
  <2>6. "order" \notin team => InFlight(u) = {} BY <2>5 DEF RequestsInv, OrdersDone
  <2>7. /\ c \in team /\ requests[next.request].type = "DELETE"
        /\ Cardinality(team \cap Clerks) <= 1 => requests[next.request].status = "PENDING"
    BY <2>1, <2>3 DEF RequestsInv, DecisionsOK
  <2>8. "order" \notin team => InFlight(requests[next.request].user) = {} BY <2>3, <2>4, <2>6
  <2> QED BY <1>1, <2>3, <2>5, <2>7, <2>8, ClerkMoves
<1> QED BY <1>2, <1>3, <1>4, <1>5, <1>6, <1>7

(* The erasure completes the request it is done for.                       *)
LEMMA EraseStep ==
  ASSUME TypeOK, RequestsInv, Accounts, NEW c \in Clerks, Erase(c)
  PROVE  RequestsInv' /\ Accounts' /\ form' = form
<1>1. deciding[c].at = "erase" /\ deciding[c] # Free BY ClerkRow DEF Erase
<1>2. PICK r \in DOMAIN requests : r = deciding[c].request BY <1>1, ClerkRow
<1>3. PICK u \in Users : u = requests[r].user BY <1>1, <1>2, ClerkRow
<1>4. Closed(deciding[c].request, "COMPLETED") /\ Decides(c, Free) BY DEF Erase
<1>5. UNCHANGED <<submitting, team, order, exports>> /\ member' = member \ {u}
  BY <1>2, <1>3 DEF Erase
<1>6. requests[r].type = "DELETE" BY <1>1, <1>2 DEF RequestsInv, DecisionsOK
<1>7. /\ RequestsTypes' /\ SubmissionsOK' /\ DecisionsOK' /\ ExportIsStored' /\ OrdersDone'
      /\ Cardinality(team \cap Clerks) <= 1 => \A q \in DOMAIN requests :
           requests[q].status = "COMPLETED" => q \in DOMAIN requests' /\ requests'[q] = requests[q]
  BY <1>1, <1>2, <1>3, <1>4, <1>5, <1>6, ClerkCloses
<1>8. /\ r \in DOMAIN requests' /\ requests'[r].user = u /\ requests'[r].type = "DELETE"
      /\ requests'[r].status = "COMPLETED"
  BY <1>2, <1>3, <1>4, <1>6, CloseRow
<1>9. Accounts' /\ \A x \in Users : account'[x].erased => x = u \/ account[x].erased
  <2>1. /\ account' = [account EXCEPT ![u] =
             [status |-> "DISABLED", erased |-> TRUE, password |-> FALSE, totp |-> FALSE]]
        /\ resets' = ResetsErased(u) /\ UNCHANGED <<form, team, ticket>>
    BY <1>2, <1>3 DEF Erase
  <2> QED BY <2>1, EraseAccounts
<1>10. ErasedOnRequest'
  <2> SUFFICES ASSUME Cardinality(team \cap Clerks) <= 1, NEW x \in Users, account'[x].erased
               PROVE  \E q \in DOMAIN requests' :
                        requests'[q].user = x /\ requests'[q].type = "DELETE" /\ requests'[q].status = "COMPLETED"
    BY <1>5 DEF ErasedOnRequest
  <2>1. CASE x = u BY <1>8, <2>1
  <2>2. CASE account[x].erased
    <3>1. PICK q \in DOMAIN requests :
            requests[q].user = x /\ requests[q].type = "DELETE" /\ requests[q].status = "COMPLETED"
      BY <2>2 DEF RequestsInv, ErasedOnRequest
    <3> QED BY <1>7, <3>1
  <2> QED BY <1>9, <2>1, <2>2
<1> QED BY <1>7, <1>9, <1>10 DEF RequestsInv, Erase

----------------------------------------------------------------------------
(* The invariant                                                           *)

(* A finite set can be listed.                                             *)
LEMMA Listed ==
  ASSUME NEW S, IsFiniteSet(S)
  PROVE  /\ Cardinality(S) \in Nat /\ SetToSeq(S) \in [1..Cardinality(S) -> S]
         /\ DOMAIN SetToSeq(S) = 1..Cardinality(S)
         /\ \A i, j \in 1..Cardinality(S) : SetToSeq(S)[i] = SetToSeq(S)[j] => i = j
         /\ \A x \in S : \E i \in 1..Cardinality(S) : SetToSeq(S)[i] = x
<1>1. PICK n \in Nat : n = Cardinality(S) BY FS_CardinalityType
<1>2. PICK f : f \in Bijection(1..n, S) BY <1>1, FS_CardinalityType DEF ExistsBijection
<1>3. f \in [1..n -> S] /\ IsInjective(f) BY <1>2 DEF Bijection, Injection
<1>4. PICK s : s = SetToSeq(S) OBVIOUS
<1>5. s = CHOOSE g \in [1..n -> S] : IsInjective(g) BY <1>1, <1>4 DEF SetToSeq
<1>6. s \in [1..n -> S] /\ IsInjective(s) BY <1>3, <1>5
<1>7. s \in Injection(1..n, S) BY <1>6 DEF Injection
<1>8. IsFiniteSet(1..n) /\ Cardinality(1..n) = n BY <1>1, FS_Interval
<1>9. s \in Surjection(1..n, S) BY <1>1, <1>7, <1>8, FS_Injection
<1>10. \A i, j \in 1..n : s[i] = s[j] => i = j BY <1>6 DEF IsInjective
<1>11. \A x \in S : \E i \in 1..n : s[i] = x BY <1>9 DEF Surjection
<1> QED BY <1>1, <1>4, <1>6, <1>10, <1>11

LEMMA InitInv == Init => AccessInv
<1> SUFFICES ASSUME Init PROVE AccessInv OBVIOUS
<1>1. PICK s : s = SetToSeq(Browsers) OBVIOUS
<1>2. PICK n \in Nat : n = Cardinality(Browsers) BY Assumptions, Listed
<1>3. /\ s \in [1..n -> Browsers] /\ DOMAIN s = 1..n
      /\ \A i, j \in 1..n : s[i] = s[j] => i = j
      /\ \A b \in Browsers : \E i \in 1..n : s[i] = b
  BY <1>1, <1>2, Assumptions, Listed
<1>4. n <= MaxSessions BY <1>2, Assumptions
<1>5. /\ sessions = [i \in 1..n |-> [user |-> Owner[s[i]], revoked |-> Live]]
      /\ jar = [b \in Browsers |-> [access |-> TRUE, refresh |-> CHOOSE i \in 1..n : s[i] = b]]
  <2>1. /\ sessions = [i \in DOMAIN s |-> [user |-> Owner[s[i]], revoked |-> Live]]
        /\ jar = [b \in Browsers |-> [access |-> TRUE, refresh |-> CHOOSE i \in DOMAIN s : s[i] = b]]
    BY <1>1 DEF Init, SessionsInit
  <2> QED BY <1>3, <2>1
<1>6. \A i \in 1..n : sessions[i].user = Owner[s[i]] /\ sessions[i].revoked = Live BY <1>5
<1>7. \A b \in Browsers : jar[b].refresh \in 1..n /\ s[jar[b].refresh] = b BY <1>3, <1>5
<1>8. Len(sessions) = n /\ sessions \in Seq(SessionRow)
  <2>1. \A i \in 1..n : Owner[s[i]] \in Users BY <1>3, Assumptions
  <2>2. \A i \in 1..n : sessions[i] \in SessionRow BY <1>5, <2>1 DEF SessionRow
  <2>3. sessions = [i \in 1..n |-> sessions[i]] BY <1>5
  <2> HIDE DEF SessionRow
  <2> QED BY <2>2, <2>3
<1>9. jar \in [Browsers -> JarRow]
  <2>1. \A b \in Browsers : jar[b] \in JarRow
    <3> SUFFICES ASSUME NEW b \in Browsers PROVE jar[b] \in JarRow OBVIOUS
    <3>1. PICK k : k = jar[b].refresh OBVIOUS
    <3>2. k \in 1..n BY <1>7, <3>1
    <3>3. k \in 0..MaxSessions BY <1>2, <1>4, <3>2, Assumptions
    <3>4. jar[b] = [access |-> TRUE, refresh |-> k] BY <1>5, <3>1
    <3> QED BY <3>3, <3>4 DEF JarRow
  <2> QED BY <1>5, <2>1
<1>10. Pending = {} BY DEF Init, SessionsInit, Pending
<1>11. SessionsTypeOK
  <2>1. account \in [Users -> AccountType] BY DEF Init, SessionsInit, AccountType
  <2>2. resets = <<>> /\ Len(resets) <= MaxTokens BY Assumptions DEF Init, SessionsInit
  <2>3. clock \in 0..MaxClock BY Assumptions DEF Init, SessionsInit
  <2>4. /\ ticket \subseteq Users /\ signedIn \in [Browsers -> BOOLEAN] /\ over \in [Browsers -> BOOLEAN]
        /\ refreshing \in [Tabs -> {Free} \cup RefreshType]
        /\ calling \in [Calls -> {"free", "refresh", "replay"}]
        /\ \A k \in Calls : calling[k] # "refresh"
        /\ form \in [Browsers -> {Free} \cup FormType] /\ team \in Teams
    BY DEF Init, SessionsInit
  <2> QED BY <1>4, <1>8, <1>9, <2>1, <2>2, <2>3, <2>4 DEF SessionsTypeOK, SessionRow, JarRow
<1>12. PrivacyTypeOK
  <2>1. requests = <<>> /\ requests \in Seq(RequestRow) BY DEF Init, PrivacyInit
  <2> QED BY <2>1 DEF Init, PrivacyInit, PrivacyTypeOK, RequestRow
<1>13. SessionsInv
  <2>1. FramesPoint BY <1>7, <1>8, <1>10 DEF FramesPoint
  <2>2. SessionsOwned
    <3>1. \A b \in Browsers : \A i : Holds(b, i) => i \in 1..n /\ s[i] = b
      BY <1>7, <1>10 DEF Holds
    <3> QED BY <1>6, <3>1 DEF SessionsOwned
  <2>3. NewIsUnseen /\ OnTime BY <1>10 DEF NewIsUnseen, OnTime
  <2>4. TokensLast BY <1>6, <1>7, <1>10 DEF TokensLast, JarOK
  <2> QED BY <2>1, <2>2, <2>3, <2>4 DEF SessionsInv
<1>14. PrivacyInv
  <2>1. FormsPoint BY DEF Init, SessionsInit, FormsPoint, Free
  <2>2. DOMAIN requests = {} /\ DOMAIN resets = {} BY DEF Init, PrivacyInit, SessionsInit
  <2>3. \A ask : PendingOf(ask) = {} BY <2>2 DEF PendingOf
  <2>4. SubmissionsOK BY <2>3 DEF Init, PrivacyInit, SubmissionsOK
  <2>5. DecisionsOK BY DEF Init, PrivacyInit, DecisionsOK
  <2>6. ExportIsStored BY <2>2 DEF ExportIsStored
  <2>7. \A u \in Users : ~account[u].erased BY DEF Init, SessionsInit
  <2>8. ErasedOnRequest /\ LinksGone BY <2>7 DEF ErasedOnRequest, LinksGone
  <2>9. OrdersDone BY DEF Init, PrivacyInit, OrdersDone, InFlight, IN_FLIGHT_ORDER_STATES, Free
  <2> QED BY <2>1, <2>4, <2>5, <2>6, <2>8, <2>9 DEF PrivacyInv
<1> QED BY <1>11, <1>12, <1>13, <1>14 DEF AccessInv, TypeOK

(* Nobody joins a team later.                                              *)
LEMMA TeamStays ==
  ASSUME TypeOK, [Next]_vars
  PROVE  team' = team
BY Moves DEF Same, Tick, AskFor, RefreshRead, RefreshRevoke, RefreshIssue, RefreshAnswer, RefreshCrash,
   EndAll, SignIn, Logout

(* Sessions and accounts leave requests alone.                             *)
LEMMA RequestsSame ==
  ASSUME RequestsInv, UNCHANGED privacyVars, team' = team, ErasedSame
  PROVE  RequestsInv'
<1>1. UNCHANGED <<member, order, requests, exports, submitting, deciding>> BY DEF privacyVars
<1>2. RequestsTypes' BY <1>1 DEF RequestsInv, RequestsTypes, DecisionType
<1>3. SubmissionsOK' BY <1>1 DEF RequestsInv, SubmissionsOK, PendingOf, Alone
<1>4. DecisionsOK' /\ ExportIsStored' BY <1>1 DEF RequestsInv, DecisionsOK, ExportIsStored
<1>5. ErasedOnRequest' BY <1>1 DEF RequestsInv, ErasedOnRequest, ErasedSame
<1>6. OrdersDone' BY <1>1 DEF RequestsInv, OrdersDone, InFlight
<1> QED BY <1>2, <1>3, <1>4, <1>5, <1>6 DEF RequestsInv

LEMMA StepInv == AccessInv /\ [Next]_vars => AccessInv' /\ StartsNothing
<1> SUFFICES ASSUME AccessInv, [Next]_vars PROVE AccessInv' /\ StartsNothing OBVIOUS
<1>1. TypeOK /\ SessionsInv /\ PrivacyInv BY DEF AccessInv
<1>2. Accounts
  <2>1. resets \in Seq(ResetRow) BY <1>1, Rows
  <2> QED BY <1>1, <2>1 DEF TypeOK, SessionsTypeOK, PrivacyInv, Accounts, AccountsTypes
<1>3. RequestsInv BY <1>1, ClerkRow DEF PrivacyInv, RequestsInv
<1>4. RotationTypes' /\ SessionsInv' BY <1>1, RotationStep DEF Rotation
<1>5. CallTypes' BY <1>1, CallStep
<1>6. Accounts' /\ RequestsInv' /\ StartsNothing
  <2>1. ASSUME NEW c \in Clerks, Erase(c) PROVE Accounts' /\ RequestsInv' /\ StartsNothing
    BY <1>1, <1>2, <1>3, <2>1, EraseStep DEF StartsNothing
  <2>2. ASSUME \A c \in Clerks : ~Erase(c) PROVE Accounts' /\ RequestsInv' /\ StartsNothing
    <3>1. Accounts' /\ ErasedSame /\ StartsNothing BY <1>1, <1>2, <2>2, AccountSteps
    <3>2. team' = team BY <1>1, TeamStays
    <3>3. CASE UNCHANGED vars \/ (SessionsNext /\ UNCHANGED privacyVars)
      BY <1>3, <3>1, <3>2, <3>3, RequestsSame DEF vars
    <3>4. CASE PrivacyNext
      <4>1. ASSUME NEW o \in Orders, PlaceOrder(o) \/ MoveOrder(o) PROVE RequestsInv'
        BY <1>1, <1>3, <4>1, OrderSteps
      <4>2. ASSUME NEW s \in Submitters, SubmitRead(s) \/ SubmitWrite(s) PROVE RequestsInv'
        BY <1>1, <1>3, <4>2, SubmissionSteps
      <4>3. ASSUME NEW c \in Clerks,
                   \/ DecideStart(c) \/ Reject(c) \/ ExportPut(c) \/ ExportComplete(c)
                   \/ EraseCheck(c) \/ DecideCrash(c)
            PROVE  RequestsInv'
        BY <1>1, <1>3, <4>3, ClerkSteps
      <4> QED BY <2>2, <3>1, <3>4, <4>1, <4>2, <4>3 DEF PrivacyNext
    <3> QED BY <3>1, <3>3, <3>4 DEF Next
  <2> QED BY <2>1, <2>2
<1>7. SessionsTypeOK'
  BY <1>4, <1>5, <1>6 DEF SessionsTypeOK, RotationTypes, CallTypes, Accounts, AccountsTypes, SessionRow, ResetRow, JarRow
<1>8. PrivacyTypeOK'
  BY <1>6 DEF PrivacyTypeOK, RequestsInv, RequestsTypes, RequestRow, DecisionType
<1>9. PrivacyInv' BY <1>6 DEF PrivacyInv, Accounts, RequestsInv
<1> QED BY <1>4, <1>6, <1>7, <1>8, <1>9 DEF AccessInv, TypeOK
----------------------------------------------------------------------------
(* The theorems                                                            *)

(* Along every behaviour the types hold, refresh tokens stay in the hands  *)
(* of one browser and rotate in time, requests fit who works on them, and  *)
(* erased accounts keep no link: what the theorems below follow from.      *)
THEOREM AccessInvariance == Spec => []AccessInv
<1>1. Init => AccessInv BY InitInv
<1>2. AccessInv /\ [Next]_vars => AccessInv' BY StepInv
<1> QED BY <1>1, <1>2, PTL DEF Spec

(* Requests of data subjects (submit, decide): one submission at a time    *)
(* leaves one pending request of a type; a completed export has its file;  *)
(* one clerk at a time leaves a completed request behind every erasure.    *)
THEOREM RequestsKeptTheorem == Spec => []RequestsKept
<1>1. AccessInv => RequestsKept
  <2> SUFFICES ASSUME AccessInv PROVE RequestsKept OBVIOUS
  <2>1. TypeOK /\ SubmissionsOK /\ ExportIsStored /\ ErasedOnRequest BY DEF AccessInv, PrivacyInv
  <2>2. OnePendingRequest
    <3> SUFFICES ASSUME NEW s \in team \cap Submitters,
                        \A x \in team \cap Submitters : Asks[x] = Asks[s] => x = s
                 PROVE  Cardinality(PendingOf(Asks[s])) <= 1
      BY DEF OnePendingRequest
    <3>1. \A i, j \in PendingOf(Asks[s]) : i = j BY <2>1 DEF SubmissionsOK, Alone
    <3> QED BY <3>1, OneAtMost
  <2> QED BY <2>1, <2>2 DEF RequestsKept
<1> QED BY <1>1, AccessInvariance, PTL

(* Who is erased is gone (executeErasure, assertErasable): nothing that    *)
(* signs the account in, or changes it, starts again, and no order of its  *)
(* organisation moves on without it.                                       *)
THEOREM ErasedIsGoneTheorem == Spec => ErasedIsGone
<1>1. AccessInv /\ [Next]_vars =>
        [\A b \in Browsers : account[Owner[b]].erased /\ form[b] = Free => form'[b] = Free]_vars
  BY StepInv DEF StartsNothing
<1>2. AccessInv /\ [Next]_vars =>
        [\A o \in Orders :
           "order" \notin team /\ PartiesOf[o] \cap member # PartiesOf[o] => order'[o] = order[o]]_vars
  <2> SUFFICES ASSUME AccessInv, Next
               PROVE  \A o \in Orders :
                        "order" \notin team /\ PartiesOf[o] \cap member # PartiesOf[o]
                        => order'[o] = order[o]
    BY DEF vars
  <2>1. TypeOK /\ RequestsInv BY ClerkRow DEF AccessInv, PrivacyInv, RequestsInv
  <2>2. CASE \E o \in Orders : PlaceOrder(o) \/ MoveOrder(o) BY <2>1, <2>2, OrderSteps
  <2>3. CASE ~ \E o \in Orders : PlaceOrder(o) \/ MoveOrder(o)
    <3>1. order' = order
      BY <2>3 DEF Next, SessionsNext, PrivacyNext, privacyVars, SubmitRead, SubmitWrite,
         DecideStart, Reject, ExportPut, ExportComplete, EraseCheck, Erase, DecideCrash
    <3> QED BY <3>1
  <2> QED BY <2>2, <2>3
<1> QED BY <1>1, <1>2, AccessInvariance, PTL
        DEF Spec, ErasedIsGone, ErasedStartsNothing, NothingLeftUndone

(* Tabs that refresh the cookie of a browser at once (refreshOnce of each  *)
(* tab, refresh of AuthService) do not sign it out, and with nothing in    *)
(* flight its cookie names a session in force.                             *)
THEOREM SessionsHoldTheorem == Spec => SessionsHold
<1>1. AccessInv => JarIsLive
  <2> SUFFICES ASSUME AccessInv, NEW b \in Browsers,
                      "crash" \notin team, ~over[b],
                      \A t \in Tabs : BrowserOf[t] = b => refreshing[t] = Free
               PROVE  jar[b].refresh # 0 /\ sessions[jar[b].refresh].revoked = Live
    BY DEF JarIsLive
  <2>1. JarOK(b) BY DEF AccessInv, SessionsInv, TokensLast, Undisturbed
  <2>2. \A t \in Pending : t \in Tabs /\ refreshing[t] # Free BY DEF Pending
  <2> QED BY <2>1, <2>2 DEF JarOK
<1>2. AccessInv /\ [Next]_vars =>
        [\A b \in Browsers :
           signedIn[b] /\ ~signedIn'[b] /\ "crash" \notin team => over'[b]]_vars
  <2> SUFFICES ASSUME AccessInv, [Next]_vars, NEW b \in Browsers,
                      signedIn[b], ~signedIn'[b], "crash" \notin team
               PROVE  over'[b]
    OBVIOUS
  <2>1. TypeOK /\ SessionsInv BY DEF AccessInv
  <2>2. signedIn \in [Browsers -> BOOLEAN] /\ over \in [Browsers -> BOOLEAN] /\ BrowserOf \in [Tabs -> Browsers]
    BY <2>1, Assumptions DEF TypeOK, SessionsTypeOK
  <2>3. signedIn' # signedIn OBVIOUS
  <2>4. CASE \E t \in Tabs : RefreshAnswer(t)
    <3>1. PICK t \in Tabs : RefreshAnswer(t) BY <2>4
    <3>2. b = BrowserOf[t] /\ refreshing[t].new = 0 /\ refreshing[t].at = "answer" /\ over' = over
      BY <2>2, <3>1 DEF RefreshAnswer, unserved
    <3>3. t \in Pending BY <2>1, <3>2, TabRow
    <3>4. ~TabOK(t) BY <3>2 DEF TabOK
    <3> QED BY <2>1, <2>2, <3>2, <3>3, <3>4 DEF SessionsInv, TokensLast, Undisturbed
  <2>5. CASE \E c \in Browsers : SignIn(c) \/ Logout(c)
    <3>1. PICK c \in Browsers : SignIn(c) \/ Logout(c) BY <2>5
    <3>2. CASE SignIn(c) BY <2>2, <3>2 DEF SignIn
    <3>3. CASE Logout(c) BY <2>2, <3>3 DEF Logout
    <3> QED BY <3>1, <3>2, <3>3
  <2> QED BY <2>1, <2>3, <2>4, <2>5, Moves
          DEF Same, Tick, AskFor, RefreshRead, RefreshRevoke, RefreshIssue, RefreshCrash, EndAll
<1> QED BY <1>1, <1>2, AccessInvariance, PTL DEF Spec, SessionsHold, StaysSignedIn

----------------------------------------------------------------------------
(* The desk                                                                *)

(* A row of every kind, and what a handler makes of it.                    *)
CaseRow(r) == DOMAIN r = Kinds /\ Sound(r)

LEMMA Overs ==
  ASSUME NEW f, NEW g
  PROVE  /\ DOMAIN Over(f, g) = DOMAIN f \cup DOMAIN g
         /\ \A k \in DOMAIN f : Over(f, g)[k] = f[k]
         /\ \A k \in DOMAIN g \ DOMAIN f : Over(f, g)[k] = g[k]
BY DEF Over

LEMMA Givens ==
  ASSUME NEW h, NEW r, CaseRow(r), DOMAIN h.gives \subseteq Kinds
  PROVE  LET t == Over(h.gives, r)
         IN /\ DOMAIN t = Kinds
            /\ \A k \in Kinds : t[k] = IF k \in DOMAIN h.gives THEN h.gives[k] ELSE r[k]
<1> DEFINE g == h.gives
<1>1. DOMAIN Over(g, r) = DOMAIN g \cup DOMAIN r
  BY Overs
<1>2. \A k \in DOMAIN g : Over(g, r)[k] = g[k]
  BY Overs
<1>3. \A k \in DOMAIN r \ DOMAIN g : Over(g, r)[k] = r[k]
  BY Overs
<1> QED BY <1>1, <1>2, <1>3 DEF CaseRow

LEMMA InFrom ==
  ASSUME NEW to, NEW roles, NEW x
  PROVE  x \in From(to, roles) <=> \E e \in OrderTable : e.to = to /\ e.roles \cap roles # {} /\ e.from = x
BY DEF From

LEMMA FromCancelled == From("CANCELLED", {"BUYER"}) = {"PLACED"}
<1>1. ASSUME NEW e \in OrderTable, e.to = "CANCELLED"
      PROVE  e.from = "PLACED" /\ e.roles = {"BUYER", "ADMIN", "SYSTEM"}
  BY <1>1 DEF OrderTable, Edge
<1>2. \E e \in OrderTable : e.to = "CANCELLED" /\ e.from = "PLACED"
  BY DEF OrderTable, Edge
<1>3. {"BUYER", "ADMIN", "SYSTEM"} \cap {"BUYER"} # {} OBVIOUS
<1> QED BY <1>1, <1>2, <1>3, InFrom

LEMMA FromConfirmed == From("CONFIRMED", {"SUPPLIER"}) = {"PAID_ESCROW"}
<1>1. ASSUME NEW e \in OrderTable, e.to = "CONFIRMED" PROVE e.from = "PAID_ESCROW" /\ e.roles = {"SUPPLIER"}
  BY <1>1 DEF OrderTable, Edge
<1>2. \E e \in OrderTable : e.to = "CONFIRMED" /\ e.from = "PAID_ESCROW"
  BY DEF OrderTable, Edge
<1> QED BY <1>1, <1>2, InFrom

LEMMA FromShipped == From("SHIPPED", {"SUPPLIER"}) = {"PREPARING", "CONFIRMED"}
<1>1. ASSUME NEW e \in OrderTable, e.to = "SHIPPED"
      PROVE  e.from \in {"PREPARING", "CONFIRMED"} /\ e.roles = {"SUPPLIER"}
  BY <1>1 DEF OrderTable, Edge
<1>2. \E e \in OrderTable : e.to = "SHIPPED" /\ e.from = "PREPARING"
  BY DEF OrderTable, Edge
<1>3. \E e \in OrderTable : e.to = "SHIPPED" /\ e.from = "CONFIRMED"
  BY DEF OrderTable, Edge
<1> QED BY <1>1, <1>2, <1>3, InFrom

LEMMA FromDelivered == From("DELIVERED", {"BUYER"}) = {"CUSTOMS_CLEARED", "SHIPPED"}
<1>1. ASSUME NEW e \in OrderTable, e.to = "DELIVERED"
      PROVE  e.from \in {"CUSTOMS_CLEARED", "SHIPPED"} /\ e.roles = {"BUYER", "SYSTEM"}
  BY <1>1 DEF OrderTable, Edge
<1>2. \E e \in OrderTable : e.to = "DELIVERED" /\ e.from = "CUSTOMS_CLEARED"
  BY DEF OrderTable, Edge
<1>3. \E e \in OrderTable : e.to = "DELIVERED" /\ e.from = "SHIPPED"
  BY DEF OrderTable, Edge
<1>4. {"BUYER", "SYSTEM"} \cap {"BUYER"} # {} OBVIOUS
<1> QED BY <1>1, <1>2, <1>3, <1>4, InFrom

LEMMA MovingIs ==
  Moving =
    { Handler("cancel", [order |-> {"PLACED"}], [order |-> "CANCELLED"]),
      Handler("confirm", [order |-> {"PAID_ESCROW"}], [order |-> "CONFIRMED"]),
      Handler("ship", [order |-> {"PREPARING", "CONFIRMED"}, due |-> {"none", "PAID"}, papers |-> {"complete"}],
              [order |-> "SHIPPED"]),
      Handler("deliver", [order |-> {"CUSTOMS_CLEARED", "SHIPPED"}], [order |-> "DELIVERED", window |-> "open"]) }
BY FromCancelled, FromConfirmed, FromShipped, FromDelivered DEF Moving, Cancelled

(* A simulated payment asks more than a payment, and gives the same.       *)
LEMMA SimulatingIs ==
  ASSUME NEW h \in Simulating
  PROVE  /\ h.call = "simulate"
         /\ \E g \in Paying : h.gives = g.gives /\ \A r : Meets(h, r) => Meets(g, r)
<1>1. PICK g \in Paying : h = Handler("simulate", Over(g.needs, [gateway |-> {"none"}]), g.gives)
  BY DEF Simulating
<1>2. /\ h.call = "simulate" /\ h.gives = g.gives
      /\ h.needs = Over(g.needs, [gateway |-> {"none"}])
  BY <1>1 DEF Handler
<1>3. ASSUME NEW r, Meets(h, r) PROVE Meets(g, r)
  BY <1>2, <1>3 DEF Meets, Over
<1> QED BY <1>2, <1>3

(* Whatever a handler accepts, it leaves rows that agree with each other.  *)
LEMMA RowsKept ==
  ASSUME NEW r, CaseRow(r), NEW h \in API \cup Elsewhere \cup Setbacks, Meets(h, r)
  PROVE  CaseRow(Over(h.gives, r))
<1>1. ASSUME NEW g \in Paying, Meets(g, r) PROVE CaseRow(Over(g.gives, r))
  BY <1>1 DEF Paying, Settled, PAYABLE_STATES, Handler, Meets, CaseRow, Over, Kinds, Statuses, Sound, Open,
     OrderStatus
<1>2. CASE h \in Marking
  BY <1>2 DEF Marking, Handler, Meets, CaseRow, Over, Kinds, Statuses, Sound, Open, OrderStatus
<1>3. CASE h \in Moving
  BY <1>3, MovingIs DEF Handler, Meets, CaseRow, Over, Kinds, Statuses, Sound, Open, OrderStatus
<1>4. CASE h \in Papering
  BY <1>4 DEF Papering, Handler, Meets, CaseRow, Over, Kinds, Statuses, Sound, Open, OrderStatus
<1>5. CASE h \in Disputing
  BY <1>5 DEF Disputing, Handler, Meets, CaseRow, Over, Kinds, Statuses, Sound, Open, OrderStatus
<1>6. CASE h \in Quoting
  BY <1>6 DEF Quoting, Quoted, Ordering, Nothing, Handler, Meets, CaseRow, Over, Kinds, Statuses, Sound, Open,
     OrderStatus
<1>7. CASE h \in Brokering
  BY <1>7 DEF Brokering, Ordering, Nothing, Handler, Meets, CaseRow, Over, Kinds, Statuses, Sound, Open,
     OrderStatus
<1>8. CASE h \in Cataloguing
  BY <1>8 DEF Cataloguing, Nothing, Handler, Meets, CaseRow, Over, Kinds, Statuses, Sound, Open, OrderStatus
<1>9. CASE h \in Reviewing
  BY <1>9 DEF Reviewing, Handler, Meets, CaseRow, Over, Kinds, Statuses, Sound, Open, OrderStatus
<1>10. CASE h \in Keeping
  BY <1>10 DEF Keeping, Adding, Removing, Nothing, Handler, Meets, CaseRow, Over, Kinds, Statuses, Sound, Open,
     OrderStatus
<1>11. CASE h \in Elsewhere
  BY <1>11 DEF Elsewhere, Nothing, Handler, Meets, CaseRow, Over, Kinds, Statuses, Sound, Open, OrderStatus
<1>12. CASE h \in Setbacks
  BY <1>12 DEF Setbacks, Nothing, Handler, Meets, CaseRow, Over, Kinds, Statuses, Sound, Open, OrderStatus
<1>13. CASE h \in Simulating
  BY <1>1, <1>13, SimulatingIs
<1> QED BY <1>1, <1>2, <1>3, <1>4, <1>5, <1>6, <1>7, <1>8, <1>9, <1>10, <1>11, <1>12, <1>13 DEF API

(* Papers are never taken away, and only a page opens a dispute.           *)
LEMMA Gives ==
  ASSUME NEW h \in API \cup Elsewhere \cup Setbacks
  PROVE  /\ DOMAIN h.gives \subseteq Kinds
         /\ "papers" \in DOMAIN h.gives => h.gives["papers"] # "none"
         /\ "dispute" \in DOMAIN h.gives => h \in API /\ h.call \in {"raise", "resolve"}
<1> USE DEF Kinds
<1>1. ASSUME NEW g \in Paying
      PROVE  DOMAIN g.gives \subseteq Kinds /\ "papers" \notin DOMAIN g.gives /\ "dispute" \notin DOMAIN g.gives
  BY <1>1 DEF Paying, Settled, Handler, Statuses
<1>2. CASE h \in Marking
  BY <1>2 DEF Marking, Handler, Statuses
<1>3. CASE h \in Moving
  BY <1>3, MovingIs DEF Handler, Statuses
<1>4. CASE h \in Papering
  BY <1>4 DEF Papering, Handler, Statuses
<1>5. CASE h \in Disputing
  BY <1>5 DEF API, Disputing, Handler, Statuses
<1>6. CASE h \in Quoting
  BY <1>6 DEF Quoting, Quoted, Ordering, Nothing, Over, Handler, Statuses
<1>7. CASE h \in Brokering
  BY <1>7 DEF Brokering, Ordering, Nothing, Over, Handler, Statuses
<1>8. CASE h \in Cataloguing
  BY <1>8 DEF Cataloguing, Nothing, Over, Handler, Statuses
<1>9. CASE h \in Reviewing
  BY <1>9 DEF Reviewing, Handler, Statuses
<1>10. CASE h \in Keeping
  BY <1>10 DEF Keeping, Adding, Removing, Nothing, Over, Handler, Statuses
<1>11. CASE h \in Elsewhere
  BY <1>11 DEF Elsewhere, Nothing, Over, Handler, Statuses
<1>12. CASE h \in Setbacks
  BY <1>12 DEF Setbacks, Nothing, Over, Handler, Statuses
<1>13. CASE h \in Simulating
  BY <1>1, <1>13, SimulatingIs
<1> QED BY <1>1, <1>2, <1>3, <1>4, <1>5, <1>6, <1>7, <1>8, <1>9, <1>10, <1>11, <1>12, <1>13 DEF API

(* What is accepted, and what it gives.                                    *)
Takes(call, gives, r) == \E h \in API : h.call = call /\ h.gives = gives /\ Meets(h, r)

LEMMA TakesOf ==
  ASSUME NEW r, NEW c, NEW n, NEW g, Handler(c, n, g) \in API, \A k \in DOMAIN n : r[k] \in n[k]
  PROVE  Takes(c, g, r)
BY DEF Takes, Meets, Handler

LEMMA TakesPaying ==
  ASSUME NEW r, CaseRow(r)
  PROVE  /\ r["due"] \in {"none", "PAID"} /\ r["order"] = "PLACED"
              => Takes("pay", [order |-> "PAID_ESCROW"], r)
         /\ r["due"] = "BOTH" /\ r["order"] = "PLACED"
              => Takes("pay", [order |-> "PAID_ESCROW", due |-> "BALANCE"], r)
         /\ r["due"] = "DEPOSIT" /\ r["order"] = "PLACED"
              => Takes("pay", [order |-> "PAID_ESCROW", due |-> "PAID"], r)
         /\ r["due"] = "BALANCE" /\ r["order"] = "PLACED"
              => Takes("pay", [order |-> "PAID_ESCROW", due |-> "PAID"], r)
         /\ r["due"] = "BOTH" /\ r["order"] \in PAYABLE_STATES \ {"PLACED"}
              => Takes("pay", [due |-> "BALANCE"], r)
         /\ r["due"] = "DEPOSIT" /\ r["order"] \in PAYABLE_STATES \ {"PLACED"}
              => Takes("pay", [due |-> "PAID"], r)
         /\ r["due"] = "BALANCE" /\ r["order"] \in PAYABLE_STATES \ {"PLACED"}
              => Takes("pay", [due |-> "PAID"], r)
<1>1. ASSUME r["due"] \in {"none", "PAID"} /\ r["order"] = "PLACED"
      PROVE  Takes("pay", [order |-> "PAID_ESCROW"], r)
  <2>1. Handler("pay", [order |-> {"PLACED"}, due |-> {"none", "PAID"}], [order |-> "PAID_ESCROW"]) \in API
    BY DEF API, Paying, Settled
  <2> QED BY <1>1, <2>1, TakesOf DEF CaseRow, Sound, Kinds, Statuses, Open, PAYABLE_STATES, OrderStatus
<1>2. ASSUME r["due"] = "BOTH" /\ r["order"] = "PLACED"
      PROVE  Takes("pay", [order |-> "PAID_ESCROW", due |-> "BALANCE"], r)
  <2>1. Handler("pay", [order |-> {"PLACED"}, due |-> {"BOTH"}],
                [order |-> "PAID_ESCROW", due |-> "BALANCE"]) \in API
    BY DEF API, Paying, Settled
  <2> QED BY <1>2, <2>1, TakesOf DEF CaseRow, Sound, Kinds, Statuses, Open, PAYABLE_STATES, OrderStatus
<1>3. ASSUME r["due"] = "DEPOSIT" /\ r["order"] = "PLACED"
      PROVE  Takes("pay", [order |-> "PAID_ESCROW", due |-> "PAID"], r)
  <2>1. Handler("pay", [order |-> {"PLACED"}, due |-> {"DEPOSIT"}],
                [order |-> "PAID_ESCROW", due |-> "PAID"]) \in API
    BY DEF API, Paying, Settled
  <2> QED BY <1>3, <2>1, TakesOf DEF CaseRow, Sound, Kinds, Statuses, Open, PAYABLE_STATES, OrderStatus
<1>4. ASSUME r["due"] = "BALANCE" /\ r["order"] = "PLACED"
      PROVE  Takes("pay", [order |-> "PAID_ESCROW", due |-> "PAID"], r)
  <2>1. Handler("pay", [order |-> {"PLACED"}, due |-> {"BALANCE"}],
                [order |-> "PAID_ESCROW", due |-> "PAID"]) \in API
    BY DEF API, Paying, Settled
  <2> QED BY <1>4, <2>1, TakesOf DEF CaseRow, Sound, Kinds, Statuses, Open, PAYABLE_STATES, OrderStatus
<1>5. ASSUME r["due"] = "BOTH" /\ r["order"] \in PAYABLE_STATES \ {"PLACED"}
      PROVE  Takes("pay", [due |-> "BALANCE"], r)
  <2>1. Handler("pay", [order |-> PAYABLE_STATES \ {"PLACED"}, due |-> {"BOTH"}], [due |-> "BALANCE"]) \in API
    BY DEF API, Paying, Settled
  <2> QED BY <1>5, <2>1, TakesOf DEF CaseRow, Sound, Kinds, Statuses, Open, PAYABLE_STATES, OrderStatus
<1>6. ASSUME r["due"] = "DEPOSIT" /\ r["order"] \in PAYABLE_STATES \ {"PLACED"}
      PROVE  Takes("pay", [due |-> "PAID"], r)
  <2>1. Handler("pay", [order |-> PAYABLE_STATES \ {"PLACED"}, due |-> {"DEPOSIT"}], [due |-> "PAID"]) \in API
    BY DEF API, Paying, Settled
  <2> QED BY <1>6, <2>1, TakesOf DEF CaseRow, Sound, Kinds, Statuses, Open, PAYABLE_STATES, OrderStatus
<1>7. ASSUME r["due"] = "BALANCE" /\ r["order"] \in PAYABLE_STATES \ {"PLACED"}
      PROVE  Takes("pay", [due |-> "PAID"], r)
  <2>1. Handler("pay", [order |-> PAYABLE_STATES \ {"PLACED"}, due |-> {"BALANCE"}], [due |-> "PAID"]) \in API
    BY DEF API, Paying, Settled
  <2> QED BY <1>7, <2>1, TakesOf DEF CaseRow, Sound, Kinds, Statuses, Open, PAYABLE_STATES, OrderStatus
<1> QED BY <1>1, <1>2, <1>3, <1>4, <1>5, <1>6, <1>7

LEMMA TakesMarking ==
  ASSUME NEW r, CaseRow(r)
  PROVE  /\ r["due"] = "BOTH" /\ r["viewer"] # "staff"
              => Takes("markDeposit", [due |-> "BALANCE"], r)
         /\ r["due"] = "DEPOSIT" /\ r["viewer"] # "staff"
              => Takes("markDeposit", [due |-> "PAID"], r)
         /\ r["due"] = "BOTH" /\ r["viewer"] # "staff"
              => Takes("markBalance", [due |-> "DEPOSIT"], r)
         /\ r["due"] = "BALANCE" /\ r["viewer"] # "staff"
              => Takes("markBalance", [due |-> "PAID"], r)
<1>1. ASSUME r["due"] = "BOTH" /\ r["viewer"] # "staff"
      PROVE  Takes("markDeposit", [due |-> "BALANCE"], r)
  <2>1. Handler("markDeposit", [due |-> {"BOTH"}, viewer |-> Booker], [due |-> "BALANCE"]) \in API
    BY DEF API, Marking
  <2> QED BY <1>1, <2>1, TakesOf DEF Booker, CaseRow, Sound, Kinds, Statuses, Open, PAYABLE_STATES, OrderStatus
<1>2. ASSUME r["due"] = "DEPOSIT" /\ r["viewer"] # "staff"
      PROVE  Takes("markDeposit", [due |-> "PAID"], r)
  <2>1. Handler("markDeposit", [due |-> {"DEPOSIT"}, viewer |-> Booker], [due |-> "PAID"]) \in API
    BY DEF API, Marking
  <2> QED BY <1>2, <2>1, TakesOf DEF Booker, CaseRow, Sound, Kinds, Statuses, Open, PAYABLE_STATES, OrderStatus
<1>3. ASSUME r["due"] = "BOTH" /\ r["viewer"] # "staff"
      PROVE  Takes("markBalance", [due |-> "DEPOSIT"], r)
  <2>1. Handler("markBalance", [due |-> {"BOTH"}, viewer |-> Booker], [due |-> "DEPOSIT"]) \in API
    BY DEF API, Marking
  <2> QED BY <1>3, <2>1, TakesOf DEF Booker, CaseRow, Sound, Kinds, Statuses, Open, PAYABLE_STATES, OrderStatus
<1>4. ASSUME r["due"] = "BALANCE" /\ r["viewer"] # "staff"
      PROVE  Takes("markBalance", [due |-> "PAID"], r)
  <2>1. Handler("markBalance", [due |-> {"BALANCE"}, viewer |-> Booker], [due |-> "PAID"]) \in API
    BY DEF API, Marking
  <2> QED BY <1>4, <2>1, TakesOf DEF Booker, CaseRow, Sound, Kinds, Statuses, Open, PAYABLE_STATES, OrderStatus
<1> QED BY <1>1, <1>2, <1>3, <1>4

LEMMA TakesMoving ==
  ASSUME NEW r, CaseRow(r)
  PROVE  /\ r["order"] = "PLACED"
              => Takes("cancel", [order |-> "CANCELLED"], r)
         /\ r["order"] = "PAID_ESCROW"
              => Takes("confirm", [order |-> "CONFIRMED"], r)
         /\ r["order"] = "CONFIRMED" /\ r["due"] \in {"none", "PAID"} /\ r["papers"] = "complete"
              => Takes("ship", [order |-> "SHIPPED"], r)
         /\ r["order"] \in {"CUSTOMS_CLEARED", "SHIPPED"}
              => Takes("deliver", [order |-> "DELIVERED", window |-> "open"], r)
<1>1. ASSUME r["order"] = "PLACED"
      PROVE  Takes("cancel", [order |-> "CANCELLED"], r)
  <2>1. Handler("cancel", [order |-> {"PLACED"}], [order |-> "CANCELLED"]) \in API
    BY MovingIs DEF API
  <2> QED BY <1>1, <2>1, TakesOf DEF CaseRow, Sound, Kinds, Statuses, Open, PAYABLE_STATES, OrderStatus
<1>2. ASSUME r["order"] = "PAID_ESCROW"
      PROVE  Takes("confirm", [order |-> "CONFIRMED"], r)
  <2>1. Handler("confirm", [order |-> {"PAID_ESCROW"}], [order |-> "CONFIRMED"]) \in API
    BY MovingIs DEF API
  <2> QED BY <1>2, <2>1, TakesOf DEF CaseRow, Sound, Kinds, Statuses, Open, PAYABLE_STATES, OrderStatus
<1>3. ASSUME r["order"] = "CONFIRMED" /\ r["due"] \in {"none", "PAID"} /\ r["papers"] = "complete"
      PROVE  Takes("ship", [order |-> "SHIPPED"], r)
  <2>1. Handler("ship", [order |-> {"PREPARING", "CONFIRMED"}, due |-> {"none", "PAID"}, papers |-> {"complete"}],
                [order |-> "SHIPPED"]) \in API
    BY MovingIs DEF API
  <2> QED BY <1>3, <2>1, TakesOf DEF CaseRow, Sound, Kinds, Statuses, Open, PAYABLE_STATES, OrderStatus
<1>4. ASSUME r["order"] \in {"CUSTOMS_CLEARED", "SHIPPED"}
      PROVE  Takes("deliver", [order |-> "DELIVERED", window |-> "open"], r)
  <2>1. Handler("deliver", [order |-> {"CUSTOMS_CLEARED", "SHIPPED"}],
                [order |-> "DELIVERED", window |-> "open"]) \in API
    BY MovingIs DEF API
  <2> QED BY <1>4, <2>1, TakesOf DEF CaseRow, Sound, Kinds, Statuses, Open, PAYABLE_STATES, OrderStatus
<1> QED BY <1>1, <1>2, <1>3, <1>4

LEMMA TakesPapering ==
  ASSUME NEW r, CaseRow(r), r["papers"] # "none", r["order"] = "CONFIRMED"
  PROVE  Takes("papers", [papers |-> "complete"], r)
<1>1. Handler("papers", [papers |-> {"missing", "complete"}, order |-> {"PAID_ESCROW", "CONFIRMED", "PREPARING"}],
              [papers |-> "complete"]) \in API
  BY DEF API, Papering
<1> QED BY <1>1, TakesOf DEF CaseRow, Sound, Kinds, Statuses, OrderStatus

LEMMA TakesDisputing ==
  ASSUME NEW r, CaseRow(r)
  PROVE  /\ r["order"] = "DELIVERED" /\ r["window"] = "open" /\ r["viewer"] = "none"
              => Takes("raise", [order |-> "DISPUTED", dispute |-> "OPEN"], r)
         /\ r["dispute"] \in Open
              => Takes("resolve", [order |-> "COMPLETED", dispute |-> "RESOLVED"], r)
<1>1. ASSUME r["order"] = "DELIVERED" /\ r["window"] = "open" /\ r["viewer"] = "none"
      PROVE  Takes("raise", [order |-> "DISPUTED", dispute |-> "OPEN"], r)
  <2>1. Handler("raise", [order |-> {"DELIVERED"}, window |-> {"open"}, dispute |-> {"none", "RESOLVED"},
                          viewer |-> {"none"}],
                [order |-> "DISPUTED", dispute |-> "OPEN"]) \in API
    BY DEF API, Disputing
  <2> QED BY <1>1, <2>1, TakesOf DEF CaseRow, Sound, Kinds, Statuses, Open, PAYABLE_STATES, OrderStatus
<1>2. ASSUME r["dispute"] \in Open
      PROVE  Takes("resolve", [order |-> "COMPLETED", dispute |-> "RESOLVED"], r)
  <2>1. Handler("resolve", [dispute |-> Open, order |-> {"DISPUTED"}],
                [order |-> "COMPLETED", dispute |-> "RESOLVED"]) \in API
    BY DEF API, Disputing
  <2> QED BY <1>2, <2>1, TakesOf DEF CaseRow, Sound, Kinds, Statuses, Open, PAYABLE_STATES, OrderStatus
<1> QED BY <1>1, <1>2

(* An order is placed in the row `order' if that one is free.              *)
LEMMA TakesOrdering ==
  ASSUME NEW r, CaseRow(r), NEW c, NEW n, NEW g, Ordering(c, n, g) \subseteq API,
         r["supply"] = "none", \A k \in DOMAIN n : r[k] \in n[k], DOMAIN n \cap {"order", "supply"} = {}
  PROVE  \/ r["order"] = "none" /\ Takes(c, Over([order |-> "PLACED"], g), r)
         \/ r["order"] # "none" /\ Takes(c, g, r)
<1> DEFINE f(o) == Over([order |-> o, supply |-> {"none"}], n)
<1>1. ASSUME NEW o, r["order"] \in o PROVE \A k \in DOMAIN f(o) : r[k] \in f(o)[k]
  BY <1>1 DEF Over
<1>2. r["order"] \in OrderStatus \cup {"none"}
  BY DEF CaseRow, Sound, Kinds, Statuses
<1>3. /\ Handler(c, f({"none"}), Over([order |-> "PLACED"], g)) \in API
      /\ Handler(c, f(OrderStatus), g) \in API
  BY DEF Ordering
<1>4. CASE r["order"] = "none"
  <2>1. \A k \in DOMAIN f({"none"}) : r[k] \in f({"none"})[k]
    BY <1>1, <1>4
  <2> HIDE DEF f
  <2> QED BY <1>3, <1>4, <2>1, TakesOf
<1>5. CASE r["order"] # "none"
  <2>1. \A k \in DOMAIN f(OrderStatus) : r[k] \in f(OrderStatus)[k]
    BY <1>1, <1>2, <1>5
  <2> HIDE DEF f
  <2> QED BY <1>3, <1>5, <2>1, TakesOf
<1> QED BY <1>4, <1>5

LEMMA TakesQuoting ==
  ASSUME NEW r, CaseRow(r)
  PROVE  /\ r["rfq"] = "none"
              => Takes("publish", [rfq |-> "OPEN", deadline |-> "none"], r)
         /\ r["rfq"] # "none"
              => Takes("publish", Nothing, r)
         /\ r["rfq"] = "OPEN" /\ r["deadline"] = "none"
              => Takes("quote", Over([rfq |-> "QUOTING"], Quoted), r)
         /\ r["rfq"] = "QUOTING" /\ r["deadline"] = "none"
              => Takes("quote", Quoted, r)
         /\ r["rfq"] = "QUOTING" /\ r["validity"] = "none" /\ r["supply"] = "none"
              => \/ r["order"] = "none"
                     /\ Takes("accept", Over([order |-> "PLACED"], [rfq |-> "ACCEPTED", quote |-> "ACCEPTED"]), r)
                 \/ r["order"] # "none" /\ Takes("accept", [rfq |-> "ACCEPTED", quote |-> "ACCEPTED"], r)
         /\ r["supply"] = "none"
              => \/ r["order"] = "none" /\ Takes("place", Over([order |-> "PLACED"], [cart |-> "none"]), r)
                 \/ r["order"] # "none" /\ Takes("place", [cart |-> "none"], r)
<1>1. ASSUME r["rfq"] = "none"
      PROVE  Takes("publish", [rfq |-> "OPEN", deadline |-> "none"], r)
  <2>1. Handler("publish", [rfq |-> {"none"}], [rfq |-> "OPEN", deadline |-> "none"]) \in API
    BY DEF API, Quoting
  <2> QED BY <1>1, <2>1, TakesOf
<1>2. ASSUME r["rfq"] # "none"
      PROVE  Takes("publish", Nothing, r)
  <2>1. Handler("publish", [rfq |-> Statuses.rfq \ {"none"}], Nothing) \in API
    BY DEF API, Quoting
  <2> QED BY <1>2, <2>1, TakesOf DEF CaseRow, Sound, Kinds, Statuses
<1>3. ASSUME r["rfq"] = "OPEN" /\ r["deadline"] = "none"
      PROVE  Takes("quote", Over([rfq |-> "QUOTING"], Quoted), r)
  <2>1. Handler("quote", [rfq |-> {"OPEN"}, deadline |-> {"none"}], Over([rfq |-> "QUOTING"], Quoted)) \in API
    BY DEF API, Quoting
  <2> QED BY <1>3, <2>1, TakesOf
<1>4. ASSUME r["rfq"] = "QUOTING" /\ r["deadline"] = "none"
      PROVE  Takes("quote", Quoted, r)
  <2>1. Handler("quote", [rfq |-> {"QUOTING", "ACCEPTED"}, deadline |-> {"none"}], Quoted) \in API
    BY DEF API, Quoting
  <2> QED BY <1>4, <2>1, TakesOf
<1>5. ASSUME r["rfq"] = "QUOTING" /\ r["validity"] = "none" /\ r["supply"] = "none"
      PROVE  \/ r["order"] = "none"
                /\ Takes("accept", Over([order |-> "PLACED"], [rfq |-> "ACCEPTED", quote |-> "ACCEPTED"]), r)
             \/ r["order"] # "none" /\ Takes("accept", [rfq |-> "ACCEPTED", quote |-> "ACCEPTED"], r)
  <2> DEFINE n == [rfq |-> {"QUOTING"}, quote |-> Statuses.quote \ {"none"}, validity |-> {"none"}]
             g == [rfq |-> "ACCEPTED", quote |-> "ACCEPTED"]
  <2>1. Ordering("accept", n, g) \subseteq API
    BY DEF API, Quoting
  <2>2. \A k \in DOMAIN n : r[k] \in n[k]
    BY <1>5 DEF CaseRow, Sound, Kinds, Statuses
  <2>3. DOMAIN n \cap {"order", "supply"} = {}
    OBVIOUS
  <2> HIDE DEF n, g
  <2>4. \/ r["order"] = "none" /\ Takes("accept", Over([order |-> "PLACED"], g), r)
        \/ r["order"] # "none" /\ Takes("accept", g, r)
    BY <1>5, <2>1, <2>2, <2>3, TakesOrdering
  <2> QED BY <2>4 DEF g
<1>6. ASSUME r["supply"] = "none"
      PROVE  \/ r["order"] = "none" /\ Takes("place", Over([order |-> "PLACED"], [cart |-> "none"]), r)
             \/ r["order"] # "none" /\ Takes("place", [cart |-> "none"], r)
  <2>1. Ordering("place", Nothing, [cart |-> "none"]) \subseteq API
    BY DEF API, Quoting
  <2>2. DOMAIN Nothing = {}
    BY DEF Nothing
  <2> QED BY <1>6, <2>1, <2>2, TakesOrdering
<1> QED BY <1>1, <1>2, <1>3, <1>4, <1>5, <1>6

LEMMA TakesBrokering ==
  ASSUME NEW r, CaseRow(r)
  PROVE  /\ r["opportunity"] # "none" /\ r["broker"] # "other"
              => Takes("claim", [broker |-> "me"], r)
         /\ r["opportunity"] = "NEW"
              => Takes("contacted", [opportunity |-> "CONTACTED"], r)
         /\ r["opportunity"] \in {"NEW", "CONTACTED", "NEGOTIATING"}
              => Takes("lost", [opportunity |-> "LOST"], r)
         /\ r["supply"] = "none" /\ r["opportunity"] # "none"
              => \E g : Takes("orderFor", g, r)
<1>1. ASSUME r["opportunity"] # "none" /\ r["broker"] # "other"
      PROVE  Takes("claim", [broker |-> "me"], r)
  <2>1. Handler("claim", [broker |-> {"none", "me"}, opportunity |-> Statuses.opportunity \ {"none"}],
                [broker |-> "me"]) \in API
    BY DEF API, Brokering
  <2> QED BY <1>1, <2>1, TakesOf DEF CaseRow, Sound, Kinds, Statuses
<1>2. ASSUME r["opportunity"] = "NEW"
      PROVE  Takes("contacted", [opportunity |-> "CONTACTED"], r)
  <2>1. Handler("contacted", [opportunity |-> {"NEW"}], [opportunity |-> "CONTACTED"]) \in API
    BY DEF API, Brokering
  <2> QED BY <1>2, <2>1, TakesOf
<1>3. ASSUME r["opportunity"] \in {"NEW", "CONTACTED", "NEGOTIATING"}
      PROVE  Takes("lost", [opportunity |-> "LOST"], r)
  <2>1. Handler("lost", [opportunity |-> {"NEW", "CONTACTED", "NEGOTIATING"}], [opportunity |-> "LOST"]) \in API
    BY DEF API, Brokering
  <2> QED BY <1>3, <2>1, TakesOf
<1>4. ASSUME r["supply"] = "none", NEW among, r["opportunity"] \in among, NEW g,
             Ordering("orderFor", [opportunity |-> among], g) \subseteq API
      PROVE  \E f : Takes("orderFor", f, r)
  <2> DEFINE n == [opportunity |-> among]
  <2>1. Ordering("orderFor", n, g) \subseteq API
    BY <1>4
  <2>2. \A k \in DOMAIN n : r[k] \in n[k]
    BY <1>4
  <2>3. DOMAIN n \cap {"order", "supply"} = {}
    OBVIOUS
  <2> HIDE DEF n
  <2> QED BY <1>4, <2>1, <2>2, <2>3, TakesOrdering
<1>5. /\ Ordering("orderFor", [opportunity |-> {"NEW", "CONTACTED"}], [opportunity |-> "NEGOTIATING"]) \subseteq API
      /\ Ordering("orderFor", [opportunity |-> {"NEGOTIATING", "WON", "LOST"}], Nothing) \subseteq API
  BY DEF API, Brokering
<1>6. r["opportunity"] # "none" => r["opportunity"] \in {"NEW", "CONTACTED"} \cup {"NEGOTIATING", "WON", "LOST"}
  BY DEF CaseRow, Sound, Kinds, Statuses
<1>7. ASSUME r["supply"] = "none", r["opportunity"] # "none" PROVE \E g : Takes("orderFor", g, r)
  <2>1. CASE r["opportunity"] \in {"NEW", "CONTACTED"}
    BY <1>4, <1>5, <1>7, <2>1
  <2>2. CASE r["opportunity"] \in {"NEGOTIATING", "WON", "LOST"}
    BY <1>4, <1>5, <1>7, <2>2
  <2> QED BY <1>6, <1>7, <2>1, <2>2
<1> QED BY <1>1, <1>2, <1>3, <1>7

LEMMA TakesCataloguing ==
  ASSUME NEW r, CaseRow(r)
  PROVE  /\ r["product"] = "none"
              => Takes("create", [product |-> "DRAFT"], r)
         /\ r["product"] # "none"
              => Takes("create", Nothing, r)
         /\ r["product"] # "none"
              => Takes("addSku", [skus |-> "some"], r)
         /\ r["product"] = "DRAFT"
              => Takes("submit", [product |-> "PENDING_REVIEW"], r)
         /\ r["product"] = "ACTIVE"
              => Takes("edit", [product |-> "PENDING_REVIEW"], r)
         /\ r["product"] \in {"DRAFT", "PENDING_REVIEW"}
              => Takes("edit", Nothing, r)
<1>1. ASSUME r["product"] = "none"
      PROVE  Takes("create", [product |-> "DRAFT"], r)
  <2>1. Handler("create", [product |-> {"none"}], [product |-> "DRAFT"]) \in API
    BY DEF API, Cataloguing
  <2> QED BY <1>1, <2>1, TakesOf DEF CaseRow, Sound, Kinds, Statuses, Open, OrderStatus
<1>2. ASSUME r["product"] # "none"
      PROVE  Takes("create", Nothing, r)
  <2>1. Handler("create", [product |-> Statuses.product \ {"none"}], Nothing) \in API
    BY DEF API, Cataloguing
  <2> QED BY <1>2, <2>1, TakesOf DEF CaseRow, Sound, Kinds, Statuses, Open, OrderStatus
<1>3. ASSUME r["product"] # "none"
      PROVE  Takes("addSku", [skus |-> "some"], r)
  <2>1. Handler("addSku", [product |-> Statuses.product \ {"none"}], [skus |-> "some"]) \in API
    BY DEF API, Cataloguing
  <2> QED BY <1>3, <2>1, TakesOf DEF CaseRow, Sound, Kinds, Statuses, Open, OrderStatus
<1>4. ASSUME r["product"] = "DRAFT"
      PROVE  Takes("submit", [product |-> "PENDING_REVIEW"], r)
  <2>1. Handler("submit", [product |-> {"DRAFT"}], [product |-> "PENDING_REVIEW"]) \in API
    BY DEF API, Cataloguing
  <2> QED BY <1>4, <2>1, TakesOf DEF CaseRow, Sound, Kinds, Statuses, Open, OrderStatus
<1>5. ASSUME r["product"] = "ACTIVE"
      PROVE  Takes("edit", [product |-> "PENDING_REVIEW"], r)
  <2>1. Handler("edit", [product |-> {"ACTIVE"}], [product |-> "PENDING_REVIEW"]) \in API
    BY DEF API, Cataloguing
  <2> QED BY <1>5, <2>1, TakesOf DEF CaseRow, Sound, Kinds, Statuses, Open, OrderStatus
<1>6. ASSUME r["product"] \in {"DRAFT", "PENDING_REVIEW"}
      PROVE  Takes("edit", Nothing, r)
  <2>1. Handler("edit", [product |-> {"DRAFT", "PENDING_REVIEW"}], Nothing) \in API
    BY DEF API, Cataloguing
  <2> QED BY <1>6, <2>1, TakesOf DEF CaseRow, Sound, Kinds, Statuses, Open, OrderStatus
<1> QED BY <1>1, <1>2, <1>3, <1>4, <1>5, <1>6

LEMMA TakesReviewing ==
  ASSUME NEW r, CaseRow(r)
  PROVE  /\ r["product"] # "none"
              => Takes("approveProduct", [product |-> "ACTIVE"], r)
         /\ r["product"] # "none"
              => Takes("rejectProduct", [product |-> "DRAFT"], r)
         /\ r["party"] # "none"
              => Takes("approveParty", [party |-> "ACTIVE"], r)
         /\ r["party"] # "none"
              => Takes("rejectParty", [party |-> "INACTIVE"], r)
         /\ r["draft"] # "none"
              => Takes("review", [draft |-> "REVIEWED"], r)
<1>1. ASSUME r["product"] # "none"
      PROVE  Takes("approveProduct", [product |-> "ACTIVE"], r)
  <2>1. Handler("approveProduct", [product |-> Statuses.product \ {"none"}], [product |-> "ACTIVE"]) \in API
    BY DEF API, Reviewing
  <2> QED BY <1>1, <2>1, TakesOf DEF CaseRow, Sound, Kinds, Statuses, Open, OrderStatus
<1>2. ASSUME r["product"] # "none"
      PROVE  Takes("rejectProduct", [product |-> "DRAFT"], r)
  <2>1. Handler("rejectProduct", [product |-> Statuses.product \ {"none"}], [product |-> "DRAFT"]) \in API
    BY DEF API, Reviewing
  <2> QED BY <1>2, <2>1, TakesOf DEF CaseRow, Sound, Kinds, Statuses, Open, OrderStatus
<1>3. ASSUME r["party"] # "none"
      PROVE  Takes("approveParty", [party |-> "ACTIVE"], r)
  <2>1. Handler("approveParty", [party |-> Statuses.party \ {"none"}], [party |-> "ACTIVE"]) \in API
    BY DEF API, Reviewing
  <2> QED BY <1>3, <2>1, TakesOf DEF CaseRow, Sound, Kinds, Statuses, Open, OrderStatus
<1>4. ASSUME r["party"] # "none"
      PROVE  Takes("rejectParty", [party |-> "INACTIVE"], r)
  <2>1. Handler("rejectParty", [party |-> Statuses.party \ {"none"}], [party |-> "INACTIVE"]) \in API
    BY DEF API, Reviewing
  <2> QED BY <1>4, <2>1, TakesOf DEF CaseRow, Sound, Kinds, Statuses, Open, OrderStatus
<1>5. ASSUME r["draft"] # "none"
      PROVE  Takes("review", [draft |-> "REVIEWED"], r)
  <2>1. Handler("review", [draft |-> Statuses.draft \ {"none"}], [draft |-> "REVIEWED"]) \in API
    BY DEF API, Reviewing
  <2> QED BY <1>5, <2>1, TakesOf DEF CaseRow, Sound, Kinds, Statuses, Open, OrderStatus
<1> QED BY <1>1, <1>2, <1>3, <1>4, <1>5

LEMMA TakesAdding ==
  ASSUME NEW r, CaseRow(r), NEW c, NEW k \in Kinds, Adding(c, k) \in API, Statuses[k] = {"none", "some"}
  PROVE  \E g : Takes(c, g, r)
<1>1. r[k] \in Statuses[k]
  BY DEF CaseRow, Sound
<1> QED BY <1>1, TakesOf DEF Adding

LEMMA TakesRemoving ==
  ASSUME NEW r, NEW c, NEW k, Removing(c, k) \in API, r[k] = "some"
  PROVE  \E g : Takes(c, g, r)
<1> DEFINE n == [j \in {k} |-> {"some"}]
           g == [j \in {k} |-> "none"]
<1>1. Handler(c, n, g) \in API
  BY DEF Removing
<1>2. \A j \in DOMAIN n : r[j] \in n[j]
  OBVIOUS
<1> HIDE DEF n, g
<1> QED BY <1>1, <1>2, TakesOf

LEMMA TakesKeeping ==
  ASSUME NEW r, CaseRow(r)
  PROVE  /\ \A c \in {"inbound", "addUnit", "addBatch", "addContact", "addCertificate", "addPermit",
                      "addRule", "deleteRule", "enable"} :
               \E g : Takes(c, g, r)
         /\ r["supply"] = "short" => Takes("inbound", [lot |-> "some", supply |-> "none"], r)
         /\ r["contact"] = "some" => \E g : Takes("removeContact", g, r)
         /\ r["certificate"] = "some" => \E g : Takes("removeCertificate", g, r)
         /\ r["mfa"] = "on" => \E g : Takes("disable", g, r)
<1>1. /\ Handler("inbound", [supply |-> {"none", "short"}], [lot |-> "some", supply |-> "none"]) \in API
      /\ Handler("inbound", [supply |-> {"unlisted"}], [lot |-> "some"]) \in API
      /\ Adding("addUnit", "unit") \in API
      /\ Adding("addBatch", "batch") \in API
      /\ Adding("addContact", "contact") \in API
      /\ Adding("addCertificate", "certificate") \in API
      /\ Adding("addPermit", "permit") \in API
      /\ Adding("addRule", "rule") \in API
      /\ Removing("removeContact", "contact") \in API /\ Removing("removeCertificate", "certificate") \in API
      /\ Handler("deleteRule", Nothing, [rule |-> "none"]) \in API
      /\ Handler("enable", Nothing, [mfa |-> "on"]) \in API
      /\ Handler("disable", [mfa |-> {"on"}], [mfa |-> "off"]) \in API
  BY DEF API, Keeping
<1>2. \A k \in {"unit", "batch", "contact", "certificate", "permit", "rule"} :
        k \in Kinds /\ Statuses[k] = {"none", "some"}
  BY DEF Kinds, Statuses
<1>3. /\ \E g : Takes("inbound", g, r)
      /\ r["supply"] = "short" => Takes("inbound", [lot |-> "some", supply |-> "none"], r)
  <2>1. r["supply"] \in {"none", "short", "unlisted"}
    BY DEF CaseRow, Sound, Kinds, Statuses
  <2>2. r["supply"] \in {"none", "short"} => Takes("inbound", [lot |-> "some", supply |-> "none"], r)
    BY <1>1, TakesOf
  <2>3. r["supply"] = "unlisted" => Takes("inbound", [lot |-> "some"], r)
    BY <1>1, TakesOf
  <2> QED BY <2>1, <2>2, <2>3
<1>4. \E g : Takes("addUnit", g, r)
  BY <1>1, <1>2, TakesAdding
<1>5. \E g : Takes("addBatch", g, r)
  BY <1>1, <1>2, TakesAdding
<1>6. \E g : Takes("addContact", g, r)
  BY <1>1, <1>2, TakesAdding
<1>7. \E g : Takes("addCertificate", g, r)
  BY <1>1, <1>2, TakesAdding
<1>8. \E g : Takes("addPermit", g, r)
  BY <1>1, <1>2, TakesAdding
<1>9. \E g : Takes("addRule", g, r)
  BY <1>1, <1>2, TakesAdding
<1>10. Takes("deleteRule", [rule |-> "none"], r)
  BY <1>1, TakesOf, \A k \in DOMAIN Nothing : r[k] \in Nothing[k] DEF Nothing
<1>11. Takes("enable", [mfa |-> "on"], r)
  BY <1>1, TakesOf, \A k \in DOMAIN Nothing : r[k] \in Nothing[k] DEF Nothing
<1>12. r["contact"] = "some" => \E g : Takes("removeContact", g, r)
  BY <1>1, TakesRemoving
<1>13. r["certificate"] = "some" => \E g : Takes("removeCertificate", g, r)
  BY <1>1, TakesRemoving
<1>14. r["mfa"] = "on" => Takes("disable", [mfa |-> "off"], r)
  <2>1. Handler("disable", [mfa |-> {"on"}], [mfa |-> "off"]) \in API
    BY <1>1
  <2> QED BY <2>1, TakesOf
<1> QED BY <1>3, <1>4, <1>5, <1>6, <1>7, <1>8, <1>9, <1>10, <1>11, <1>12, <1>13, <1>14

(* What the calls of some buttons change, and what they ask.               *)
LEMMA Changes ==
  ASSUME NEW h \in API
  PROVE  /\ h.call = "papers" => DOMAIN h.gives = {"papers"}
         /\ h.call \in {"enable", "disable"} => DOMAIN h.gives = {"mfa"}
<1>1. CASE h \in Paying
  BY <1>1 DEF Paying, Settled, Handler
<1>11. CASE h \in Simulating
  BY <1>11, SimulatingIs
<1>2. CASE h \in Marking
  BY <1>2 DEF Marking, Handler
<1>3. CASE h \in Moving
  BY <1>3, MovingIs DEF Handler
<1>4. CASE h \in Papering
  BY <1>4 DEF Papering, Handler
<1>5. CASE h \in Disputing
  BY <1>5 DEF Disputing, Handler
<1>6. CASE h \in Quoting
  BY <1>6 DEF Quoting, Quoted, Ordering, Nothing, Over, Handler
<1>7. CASE h \in Brokering
  BY <1>7 DEF Brokering, Ordering, Nothing, Over, Handler
<1>8. CASE h \in Cataloguing
  BY <1>8 DEF Cataloguing, Nothing, Handler
<1>9. CASE h \in Reviewing
  BY <1>9 DEF Reviewing, Handler
<1>10. CASE h \in Keeping
  BY <1>10 DEF Keeping, Adding, Removing, Nothing, Handler
<1> QED BY <1>1, <1>2, <1>3, <1>4, <1>5, <1>6, <1>7, <1>8, <1>9, <1>10, <1>11 DEF API

LEMMA AsksFor ==
  ASSUME NEW h \in API, NEW r, Meets(h, r)
  PROVE  /\ h.call = "cancel" => r["order"] = "PLACED"
         /\ h.call = "confirm" => r["order"] = "PAID_ESCROW"
         /\ h.call = "ship" => r["order"] \in {"PREPARING", "CONFIRMED"}
         /\ h.call = "accept" => r["rfq"] = "QUOTING"
         /\ h.call = "raise" => r["order"] = "DELIVERED"
         /\ h.call = "resolve" => r["dispute"] \in Open
         /\ h.call = "submit" => r["product"] = "DRAFT"
         /\ h.call = "contacted" => r["opportunity"] = "NEW"
<1>1. CASE h \in Paying
  BY <1>1 DEF Paying, Settled, Handler, Meets
<1>11. CASE h \in Simulating
  BY <1>11, SimulatingIs
<1>2. CASE h \in Marking
  BY <1>2 DEF Marking, Handler, Meets
<1>3. CASE h \in Moving
  BY <1>3, MovingIs DEF Handler, Meets
<1>4. CASE h \in Papering
  BY <1>4 DEF Papering, Handler, Meets
<1>5. CASE h \in Disputing
  BY <1>5 DEF Disputing, Handler, Meets
<1>6. CASE h \in Quoting
  BY <1>6 DEF Quoting, Quoted, Ordering, Nothing, Over, Handler, Meets
<1>7. CASE h \in Brokering
  BY <1>7 DEF Brokering, Ordering, Nothing, Over, Handler, Meets
<1>8. CASE h \in Cataloguing
  BY <1>8 DEF Cataloguing, Nothing, Handler, Meets
<1>9. CASE h \in Reviewing
  BY <1>9 DEF Reviewing, Handler, Meets
<1>10. CASE h \in Keeping
  BY <1>10 DEF Keeping, Adding, Removing, Nothing, Handler, Meets
<1> QED BY <1>1, <1>2, <1>3, <1>4, <1>5, <1>6, <1>7, <1>8, <1>9, <1>10, <1>11 DEF API

(* What a page just loaded draws its buttons from.                         *)
LEMMA FreshIs ==
  /\ \A p : \A k \in Kinds : Fresh(p)[k] \in {row[k], "none"}
  /\ Fresh("supplier")["rfq"] \in {"OPEN", "QUOTING", "none"}
  /\ Fresh("supplier")["rfq"] # "none" => row["deadline"] # "past"
  /\ Fresh("broker")["opportunity"] \in {"NEW", "CONTACTED", "NEGOTIATING", "none"}
  /\ Fresh("buyer")["quote"] # "none" => Fresh("buyer")["rfq"] = row["rfq"]
<1>1. \A p : \A k \in Kinds : Fresh(p)[k] = IF On(p, k) THEN Answer(p, k) ELSE "none"
  BY DEF Fresh
<1>2. \A p : \A k \in Kinds : Answer(p, k) \in {row[k], "none"}
  BY DEF Answer, Unlisted
<1>3. /\ Answer("supplier", "rfq") \in {"OPEN", "QUOTING", "none"}
      /\ Answer("supplier", "rfq") # "none" => row["deadline"] # "past"
      /\ Answer("broker", "opportunity") \in {"NEW", "CONTACTED", "NEGOTIATING", "none"}
  BY DEF Answer, Unlisted, Lists
<1>4. \A k \in Kinds : Answer("buyer", k) = row[k]
  BY DEF Answer, Unlisted, Lists
<1>5. On("buyer", "quote") <=> On("buyer", "rfq")
  <2>1. \A k : On("buyer", k) <=> k \in KindsOf("buyer")
    BY DEF On, SeenBy
  <2>2. \A k : k \in KindsOf("buyer") <=> \E group \in BuyerReads : group \cap Concern # {} /\ k \in group
    BY DEF KindsOf, Requests, Reads
  <2>3. \A k : k \in {"rfq", "quote"} =>
          (k \in KindsOf("buyer") <=> {"rfq", "quote"} \cap Concern # {})
    BY <2>2 DEF BuyerReads
  <2> QED BY <2>1, <2>3
<1>6. {"rfq", "quote", "opportunity"} \subseteq Kinds
  BY DEF Kinds, Statuses
<1> QED BY <1>1, <1>2, <1>3, <1>4, <1>5, <1>6

RowsInv == CaseRow(row) /\ ("papers" \in Concern => row["papers"] # "none")

LEMMA TakesPay ==
  ASSUME NEW r, CaseRow(r), r["order"] = "PLACED" \/ (r["due"] \in Unpaid /\ r["order"] \in PAYABLE_STATES)
  PROVE  \E g : Takes("pay", g, r)
<1>1. r["due"] \in {"none", "PAID", "BOTH", "DEPOSIT", "BALANCE"}
  BY DEF CaseRow, Sound, Kinds, Statuses
<1>2. r["due"] \in {"none", "PAID"} => r["order"] = "PLACED"
  BY DEF Unpaid
<1>3. r["order"] = "PLACED" \/ r["order"] \in PAYABLE_STATES \ {"PLACED"}
  OBVIOUS
<1> QED BY <1>1, <1>2, <1>3, TakesPaying

(* Only those of Paying are payments, so that what takes one takes it      *)
(* simulated.                                                              *)
LEMMA TakesSimulate ==
  ASSUME NEW r, CaseRow(r), r["order"] = "PLACED", r["gateway"] = "none"
  PROVE  \E g : Takes("simulate", g, r)
<1>1. PICK g \in Paying : Meets(g, r)
  <2>1. r["due"] \in {"none", "PAID", "BOTH", "DEPOSIT", "BALANCE"}
    BY DEF CaseRow, Sound, Kinds, Statuses
  <2>2. CASE r["due"] \in {"none", "PAID"}
    <3> DEFINE g == Handler("pay", [order |-> {"PLACED"}, due |-> {"none", "PAID"}], [order |-> "PAID_ESCROW"])
    <3>1. g \in Paying
      BY DEF Paying
    <3>2. Meets(g, r)
      BY <2>2 DEF Meets, Handler
    <3> QED BY <3>1, <3>2
  <2>3. ASSUME NEW i, NEW j, Settled(<<i, j>>) \subseteq Paying, r["due"] = i
        PROVE  \E g \in Paying : Meets(g, r)
    <3> DEFINE g == Handler("pay", [order |-> {"PLACED"}, due |-> {i}], [order |-> "PAID_ESCROW", due |-> j])
    <3>1. g \in Paying
      BY <2>3 DEF Settled
    <3>2. Meets(g, r)
      BY <2>3 DEF Meets, Handler
    <3> QED BY <3>1, <3>2
  <2>4. /\ Settled(<<"BOTH", "BALANCE">>) \subseteq Paying /\ Settled(<<"DEPOSIT", "PAID">>) \subseteq Paying
        /\ Settled(<<"BALANCE", "PAID">>) \subseteq Paying
    BY DEF Paying
  <2> QED BY <2>1, <2>2, <2>3, <2>4
<1> DEFINE n == Over(g.needs, [gateway |-> {"none"}])
<1>2. Handler("simulate", n, g.gives) \in API
  BY DEF API, Simulating
<1>3. \A k \in DOMAIN n : r[k] \in n[k]
  BY <1>1 DEF Meets, Over
<1> HIDE DEF n
<1> QED BY <1>2, <1>3, TakesOf

LEMMA TakesOrders ==
  ASSUME NEW r, CaseRow(r), r["supply"] = "none"
  PROVE  /\ \E g : Takes("place", g, r)
         /\ r["rfq"] = "QUOTING" /\ r["validity"] = "none" => \E g : Takes("accept", g, r)
         /\ r["opportunity"] # "none" => \E g : Takes("orderFor", g, r)
BY TakesQuoting, TakesBrokering

LEMMA TakesEdits ==
  ASSUME NEW r, CaseRow(r)
  PROVE  /\ \E g : Takes("create", g, r)
         /\ r["product"] # "none" => \E g : Takes("edit", g, r)
         /\ \E g : Takes("publish", g, r)
<1>1. r["product"] # "none" => r["product"] \in {"DRAFT", "PENDING_REVIEW", "ACTIVE"}
  BY DEF CaseRow, Sound, Kinds, Statuses
<1> QED BY <1>1, TakesCataloguing, TakesQuoting

(* A button that a page just loaded draws is accepted, but for those named. *)
LEMMA ButtonsAccepted ==
  ASSUME RowsInv, NEW p \in DOMAIN Reads, NEW call \in Buttons(p, Fresh(p)), Concerns(call)
  PROVE  (\E g : Takes(call, g, row)) \/ KnownRefusal(call)
<1> DEFINE s == Fresh(p)
<1>1. CaseRow(row)
  BY DEF RowsInv
<1>2. \A k \in Kinds : s[k] \in {row[k], "none"}
  BY FreshIs
<1>3. {"cart", "order", "due", "papers", "window", "dispute", "rfq", "quote", "opportunity", "broker",
       "product", "skus", "party", "draft", "lot", "contact", "certificate", "rule", "mfa",
       "deadline", "validity", "supply", "gateway", "viewer"} \subseteq Kinds
  BY DEF Kinds, Statuses
<1> HIDE DEF s
<1>4. CASE p = "buyer"
  <2>1. \/ call \in {"place", "publish"}
        \/ call = "accept" /\ s["quote"] = "SUBMITTED" /\ s["rfq"] # "ACCEPTED"
        \/ call \in {"simulate", "cancel"} /\ s["order"] = "PLACED"
        \/ call = "deliver" /\ s["order"] = "SHIPPED"
    BY <1>4 DEF s, Buttons, BuyerButtons, BuyerCart, BuyerTenders, BuyerOrders, When
  <2>2. row["rfq"] = "QUOTING" \/ call # "accept"
    BY <1>1, <1>2, <1>3, <1>4, <2>1, FreshIs DEF CaseRow, Sound, Kinds, Statuses, s
  <2> QED
    BY <1>1, <1>2, <1>3, <2>1, <2>2, TakesSimulate, TakesOrders, TakesEdits, TakesMoving
       DEF KnownRefusal, CaseRow, Sound, Kinds, Statuses, Open, Unpaid, PAYABLE_STATES
<1>5. CASE p = "supplier"
  <2>1. \/ call = "create"
        \/ call = "inbound"
        \/ call \in {"edit", "addSku"} /\ s["product"] # "none"
        \/ call = "submit" /\ s["product"] = "DRAFT"
        \/ call = "quote" /\ s["rfq"] # "none"
        \/ call = "confirm" /\ s["order"] = "PAID_ESCROW"
        \/ call = "ship" /\ s["order"] = "CONFIRMED"
        \/ call = "papers" /\ s["order"] = "CONFIRMED"
    BY <1>5 DEF s, Buttons, SupplierButtons, SupplierProducts, SupplierForms, SupplierLots, SupplierTenders,
       SupplierOrders, FulfilPanel, When
  <2>2. call = "quote" => row["rfq"] \in {"OPEN", "QUOTING"} /\ row["deadline"] # "past"
    BY <1>1, <1>2, <1>3, <1>5, <2>1, FreshIs DEF s
  <2>3. call = "papers" => row["papers"] # "none"
    BY <1>1, <1>2, <1>3, <1>5, <2>1, Changes, RowsInv DEF RowsInv, Concerns
  <2> QED
    BY <1>1, <1>2, <1>3, <2>1, <2>2, <2>3, TakesEdits, TakesCataloguing, TakesQuoting, TakesMoving,
       TakesPapering, TakesKeeping DEF KnownRefusal, CaseRow, Sound, Kinds, Statuses, Open, Unpaid,
       PAYABLE_STATES
<1>6. CASE p = "detail"
  <2>1. \/ call = "pay" /\ (s["order"] = "PLACED" \/ (s["due"] \in Unpaid /\ s["order"] \in PAYABLE_STATES))
        \/ call = "deliver" /\ s["order"] \in {"SHIPPED", "CUSTOMS_CLEARED", "IN_CUSTOMS"}
    BY <1>6 DEF s, Buttons, DetailButtons, Payment, Receipt, When
  <2> QED
    BY <1>1, <1>2, <1>3, <2>1, TakesPay, TakesMoving
       DEF KnownRefusal, CaseRow, Sound, Kinds, Statuses, Open, Unpaid, PAYABLE_STATES
<1>7. CASE p = "ledger"
  <2>1. \/ call = "markDeposit" /\ s["due"] \in {"BOTH", "DEPOSIT"}
        \/ call = "markBalance" /\ s["due"] \in {"BOTH", "BALANCE"}
    BY <1>7 DEF s, Buttons, LedgerButtons, When
  <2> QED
    BY <1>1, <1>2, <1>3, <2>1, TakesMarking
       DEF KnownRefusal, CaseRow, Sound, Kinds, Statuses, Open, Unpaid, PAYABLE_STATES
<1>8. CASE p = "panel"
  <2>1. \/ call = "raise" /\ s["order"] = "DELIVERED" /\ s["window"] = "open"
    BY <1>8 DEF s, Buttons, PanelButtons, When
  <2> QED
    BY <1>1, <1>2, <1>3, <2>1, TakesDisputing
       DEF KnownRefusal, CaseRow, Sound, Kinds, Statuses, Open, Unpaid, PAYABLE_STATES
<1>9. CASE p = "disputes"
  <2>1. \/ call = "resolve" /\ s["dispute"] \in Open
    BY <1>9 DEF s, Buttons, DisputesButtons, When
  <2> QED
    BY <1>1, <1>2, <1>3, <2>1, TakesDisputing
       DEF KnownRefusal, CaseRow, Sound, Kinds, Statuses, Open, Unpaid, PAYABLE_STATES
<1>10. CASE p = "broker"
  <2>1. \/ call = "claim" /\ s["opportunity"] # "none"
        \/ call = "orderFor" /\ s["opportunity"] # "none"
        \/ call = "contacted" /\ s["opportunity"] = "NEW"
        \/ call = "lost" /\ s["opportunity"] \notin {"none", "WON"}
    BY <1>10 DEF s, Buttons, BrokerButtons, When
  <2>2. s["opportunity"] \in {"NEW", "CONTACTED", "NEGOTIATING", "none"}
    BY <1>10, FreshIs DEF s
  <2> QED
    BY <1>1, <2>2, <1>2, <1>3, <2>1, TakesOrders, TakesBrokering
       DEF KnownRefusal, CaseRow, Sound, Kinds, Statuses, Open, Unpaid, PAYABLE_STATES
<1>11. CASE p = "admin"
  <2>1. \/ call \in {"approveParty", "rejectParty"} /\ s["party"] # "none"
        \/ call \in {"approveProduct", "rejectProduct"} /\ s["product"] # "none"
        \/ call = "review" /\ s["draft"] # "none"
    BY <1>11 DEF s, Buttons, AdminButtons, AdminParties, AdminProducts, AdminDrafts, When
  <2> QED
    BY <1>1, <1>2, <1>3, <2>1, TakesReviewing
       DEF KnownRefusal, CaseRow, Sound, Kinds, Statuses, Open, Unpaid, PAYABLE_STATES
<1>12. CASE p = "trace"
  <2>1. \/ call \in {"addUnit", "addBatch"}
    BY <1>12 DEF s, Buttons, TraceButtons, When
  <2> QED
    BY <1>1, <1>2, <1>3, <2>1, TakesKeeping
       DEF KnownRefusal, CaseRow, Sound, Kinds, Statuses, Open, Unpaid, PAYABLE_STATES
<1>13. CASE p = "profile"
  <2>1. \/ call \in {"addContact", "addCertificate", "addPermit"}
        \/ call = "removeContact" /\ s["contact"] # "none"
        \/ call = "removeCertificate" /\ s["certificate"] # "none"
    BY <1>13 DEF s, Buttons, ProfileButtons, ProfileContacts, ProfileCertificates, ProfilePermits, When
  <2> QED
    BY <1>1, <1>2, <1>3, <2>1, TakesKeeping
       DEF KnownRefusal, CaseRow, Sound, Kinds, Statuses, Open, Unpaid, PAYABLE_STATES
<1>14. CASE p = "ops"
  <2>1. \/ call \in {"addRule", "deleteRule"}
    BY <1>14 DEF s, Buttons, OpsButtons, When
  <2> QED
    BY <1>1, <1>2, <1>3, <2>1, TakesKeeping
       DEF KnownRefusal, CaseRow, Sound, Kinds, Statuses, Open, Unpaid, PAYABLE_STATES
<1>15. CASE p = "account"
  <2>1. \/ call = "enable"
        \/ call = "disable" /\ s["mfa"] = "on"
    BY <1>15 DEF s, Buttons, AccountButtons, When
  <2> QED
    BY <1>1, <1>2, <1>3, <2>1, TakesKeeping
       DEF KnownRefusal, CaseRow, Sound, Kinds, Statuses, Open, Unpaid, PAYABLE_STATES
<1> QED BY <1>4, <1>5, <1>6, <1>7, <1>8, <1>9, <1>10, <1>11, <1>12, <1>13, <1>14, <1>15 DEF Reads

Manned == /\ Staffed(desk.pages, Concern)
          /\ row["dispute"] # "none" => "dispute" \in Concern

Onward(k) ==
  \/ row[k] \in Final[k]
  \/ KnownStranded(k)
  \/ \E h \in Elsewhere : Advances(h, k)
  \/ \E h \in API : h.call \in Offered /\ Advances(h, k)

LEMMA ByButton ==
  ASSUME NEW k, NEW p \in desk.pages, NEW call \in Buttons(p, Fresh(p)), NEW g, Takes(call, g, row),
         NEW j \in CaseOf(k), j \in DOMAIN g, g[j] # row[j]
  PROVE  Onward(k)
BY DEF Onward, Takes, Offered, Advances

LEMMA ByOthers ==
  ASSUME NEW k, NEW c, NEW n, NEW g, Handler(c, n, g) \in Elsewhere, \A i \in DOMAIN n : row[i] \in n[i],
         NEW j \in CaseOf(k), j \in DOMAIN g, g[j] # row[j]
  PROVE  Onward(k)
BY DEF Onward, Advances, Meets, Handler

LEMMA FreshOn ==
  ASSUME NEW p \in DOMAIN Reads, NEW group \in Reads[p], group \cap Concern # {}, NEW k \in group, k \in Kinds
  PROVE  Fresh(p)[k] = Answer(p, k)
<1>1. k \in KindsOf(p)
  BY DEF KindsOf, Requests
<1>2. On(p, k)
  BY <1>1 DEF On, SeenBy
<1> QED BY <1>2 DEF Fresh

LEMMA OrderOnward ==
  ASSUME RowsInv, Manned, "order" \in Concern
  PROVE  Onward("order")
<1> DEFINE o == row["order"]
           s == Fresh("supplier")
           d == Fresh("detail")
<1>1. /\ {"supplier", "detail"} \subseteq desk.pages
      /\ "papers" \in Concern
  BY DEF Manned, Staffed, Parts
<1>2. {"order", "due", "papers", "dispute", "window"} \subseteq Kinds
  BY DEF Kinds, Statuses
<1>3. s["order"] = o
  <2>1. s["order"] = Answer("supplier", "order")
    BY <1>2, FreshOn, {"order"} \in Reads["supplier"], "supplier" \in DOMAIN Reads DEF Reads, SupplierReads
  <2> QED BY <2>1 DEF Answer, Unlisted, Lists
<1>4. d["order"] = o /\ d["due"] = row["due"]
  <2>1. {"order", "due", "window"} \in Reads["detail"] /\ "detail" \in DOMAIN Reads
    BY DEF Reads, OrderReads
  <2>2. d["order"] = Answer("detail", "order") /\ d["due"] = Answer("detail", "due")
    BY <1>2, <2>1, FreshOn
  <2> QED BY <2>2 DEF Answer, Unlisted, Lists
<1>5. CaseOf("order") = {"order", "due", "papers"}
  BY DEF CaseOf
<1>6. CaseRow(row) /\ row["papers"] # "none"
  BY <1>1 DEF RowsInv
<1>7. o \in {"PLACED", "PAID_ESCROW", "CONFIRMED", "SHIPPED", "IN_CUSTOMS", "CUSTOMS_CLEARED",
            "DELIVERED", "COMPLETED", "CANCELLED", "DISPUTED", "none"}
  BY <1>2, <1>6 DEF CaseRow, Sound, Statuses, OrderStatus
<1>8. row["due"] \in {"none", "BOTH", "DEPOSIT", "BALANCE", "PAID"}
  BY <1>2, <1>6 DEF CaseRow, Sound, Statuses
<1>9. row["dispute"] \in {"none", "OPEN", "INVESTIGATING", "RESOLVED"}
  BY <1>2, <1>6 DEF CaseRow, Sound, Statuses
<1>10. o = "DISPUTED" <=> row["dispute"] \in Open
  BY <1>6 DEF CaseRow, Sound
<1> HIDE DEF s, d
<1>11. CASE o = "PLACED"
  <2>1. Handler("sweep", [order |-> {"PLACED"}], [order |-> "CANCELLED"]) \in Elsewhere
    BY DEF Elsewhere
  <2> QED BY <1>5, <1>11, <2>1, ByOthers
<1>12. CASE o = "PAID_ESCROW"
  <2>1. "confirm" \in Buttons("supplier", s)
    BY <1>3, <1>12 DEF Buttons, SupplierButtons, SupplierOrders, When
  <2>2. Takes("confirm", [order |-> "CONFIRMED"], row)
    BY <1>6, <1>12, TakesMoving
  <2> QED BY <1>1, <1>5, <1>12, <2>1, <2>2, ByButton DEF s
<1>13. CASE o = "CONFIRMED" /\ row["due"] \in Unpaid
  <2>1. "pay" \in Buttons("detail", d)
    BY <1>4, <1>13 DEF Buttons, DetailButtons, Payment, When, PAYABLE_STATES
  <2>2. PICK v : Takes("pay", [due |-> v], row) /\ v # row["due"]
    BY <1>6, <1>13, TakesPaying DEF PAYABLE_STATES, Unpaid
  <2> QED BY <1>1, <1>5, <2>1, <2>2, ByButton DEF d
<1>14. CASE o = "CONFIRMED" /\ row["due"] \in {"none", "PAID"} /\ row["papers"] = "complete"
  <2>1. "ship" \in Buttons("supplier", s)
    BY <1>3, <1>14 DEF Buttons, SupplierButtons, SupplierOrders, When
  <2>2. Takes("ship", [order |-> "SHIPPED"], row)
    BY <1>6, <1>14, TakesMoving
  <2> QED BY <1>1, <1>5, <1>14, <2>1, <2>2, ByButton DEF s
<1>15. CASE o = "CONFIRMED" /\ row["papers"] # "complete"
  <2>1. "papers" \in Buttons("supplier", s)
    BY <1>3, <1>15 DEF Buttons, SupplierButtons, FulfilPanel, When
  <2>2. Takes("papers", [papers |-> "complete"], row)
    BY <1>6, <1>15, TakesPapering
  <2> QED BY <1>1, <1>5, <1>15, <2>1, <2>2, ByButton DEF s
<1>16. CASE o \in {"SHIPPED", "CUSTOMS_CLEARED"}
  <2>1. "deliver" \in Buttons("detail", d)
    BY <1>4, <1>16 DEF Buttons, DetailButtons, Receipt, When
  <2>2. Takes("deliver", [order |-> "DELIVERED", window |-> "open"], row)
    BY <1>6, <1>16, TakesMoving
  <2> QED BY <1>1, <1>5, <1>16, <2>1, <2>2, ByButton DEF d
<1>17. CASE o = "IN_CUSTOMS"
  <2>1. Handler("clear", [order |-> {"IN_CUSTOMS"}], [order |-> "CUSTOMS_CLEARED"]) \in Elsewhere
    BY DEF Elsewhere
  <2> QED BY <1>5, <1>17, <2>1, ByOthers
<1>18. CASE o = "DELIVERED"
  <2>1. Handler("release", [order |-> {"DELIVERED"}, dispute |-> {"none", "RESOLVED"}], [order |-> "COMPLETED"])
          \in Elsewhere
    BY DEF Elsewhere
  <2>2. row["dispute"] \in {"none", "RESOLVED"}
    BY <1>9, <1>10, <1>18 DEF Open
  <2> QED BY <1>5, <1>18, <2>1, <2>2, ByOthers
<1>19. CASE o = "DISPUTED"
  <2> DEFINE v == Fresh("disputes")
  <2>1. row["dispute"] \in Open
    BY <1>10, <1>19
  <2>2. "dispute" \in Concern
    BY <2>1 DEF Manned, Open
  <2>3. "disputes" \in desk.pages
    BY <2>2 DEF Manned, Staffed, Parts
  <2>4. v["dispute"] = Answer("disputes", "dispute")
    BY <1>2, <2>2, FreshOn, {"dispute"} \in Reads["disputes"], "disputes" \in DOMAIN Reads
       DEF Reads, DisputesReads
  <2>5. v["dispute"] = row["dispute"]
    BY <2>4 DEF Answer, Unlisted, Lists
  <2> HIDE DEF v
  <2>6. "resolve" \in Buttons("disputes", v)
    BY <2>1, <2>5 DEF Buttons, DisputesButtons, When
  <2>7. Takes("resolve", [order |-> "COMPLETED", dispute |-> "RESOLVED"], row)
    BY <1>6, <2>1, TakesDisputing
  <2> QED BY <1>5, <1>19, <2>3, <2>6, <2>7, ByButton DEF v
<1>20. CASE o \in {"COMPLETED", "CANCELLED", "none"}
  BY <1>20 DEF Onward, Final
<1> QED BY <1>7, <1>8, <1>11, <1>12, <1>13, <1>14, <1>15, <1>16, <1>17, <1>18, <1>19, <1>20 DEF Unpaid

LEMMA DisputeOnward ==
  ASSUME RowsInv, Manned, "dispute" \in Concern
  PROVE  Onward("dispute")
<1> DEFINE v == Fresh("disputes")
<1>1. CaseRow(row) /\ "dispute" \in Kinds /\ "disputes" \in desk.pages
  BY DEF RowsInv, Kinds, Statuses, Manned, Staffed, Parts
<1>2. row["dispute"] \in {"none", "OPEN", "INVESTIGATING", "RESOLVED"}
  BY <1>1 DEF CaseRow, Sound, Statuses
<1>3. CASE row["dispute"] \in Open
  <2>1. v["dispute"] = Answer("disputes", "dispute")
    BY <1>1, FreshOn, {"dispute"} \in Reads["disputes"], "disputes" \in DOMAIN Reads DEF Reads, DisputesReads
  <2>2. v["dispute"] = row["dispute"]
    BY <2>1 DEF Answer, Unlisted, Lists
  <2> HIDE DEF v
  <2>3. "resolve" \in Buttons("disputes", v)
    BY <1>3, <2>2 DEF Buttons, DisputesButtons, When
  <2>4. Takes("resolve", [order |-> "COMPLETED", dispute |-> "RESOLVED"], row)
    BY <1>1, <1>3, TakesDisputing
  <2>5. "dispute" \in CaseOf("dispute") /\ row["dispute"] # "RESOLVED"
    BY <1>3 DEF CaseOf, Open
  <2> QED BY <1>1, <2>3, <2>4, <2>5, ByButton DEF v
<1> QED BY <1>2, <1>3 DEF Open, Onward, Final

LEMMA TenderOnward ==
  ASSUME RowsInv, Manned, "rfq" \in Concern
  PROVE  Onward("rfq")
<1> DEFINE b == Fresh("buyer")
           s == Fresh("supplier")
<1>1. CaseRow(row) /\ {"rfq", "quote"} \subseteq Kinds /\ {"buyer", "supplier"} \subseteq desk.pages
  BY DEF RowsInv, Kinds, Statuses, Manned, Staffed, Parts
<1>2. /\ row["rfq"] \in {"none", "OPEN", "QUOTING", "ACCEPTED"}
      /\ row["quote"] \in {"none", "SUBMITTED", "ACCEPTED"}
      /\ row["quote"] = "none" <=> row["rfq"] \in {"none", "OPEN"}
      /\ row["quote"] = "ACCEPTED" => row["rfq"] = "ACCEPTED"
  BY <1>1 DEF CaseRow, Sound, Statuses
<1>3. b["rfq"] = row["rfq"] /\ b["quote"] = row["quote"]
  <2>1. {"rfq", "quote"} \in Reads["buyer"] /\ "buyer" \in DOMAIN Reads
    BY DEF Reads, BuyerReads
  <2>2. b["rfq"] = Answer("buyer", "rfq") /\ b["quote"] = Answer("buyer", "quote")
    BY <1>1, <2>1, FreshOn
  <2> QED BY <2>2 DEF Answer, Unlisted, Lists
<1>4. /\ row["rfq"] = "OPEN" /\ row["deadline"] # "past" => s["rfq"] = "OPEN"
      /\ s["quote"] = row["quote"]
  <2>1. {"rfq", "quote"} \in Reads["supplier"] /\ "supplier" \in DOMAIN Reads
    BY DEF Reads, SupplierReads
  <2>2. s["rfq"] = Answer("supplier", "rfq") /\ s["quote"] = Answer("supplier", "quote")
    BY <1>1, <2>1, FreshOn
  <2> QED BY <2>2 DEF Answer, Unlisted, Lists
<1>5. {"rfq", "supply"} \subseteq CaseOf("rfq")
  BY DEF CaseOf
<1>10. /\ row["deadline"] \in {"none", "past"} /\ row["validity"] \in {"none", "past"}
       /\ row["supply"] \in {"none", "short", "unlisted"}
  BY <1>1 DEF CaseRow, Sound, Kinds, Statuses
<1> HIDE DEF b, s
<1>6. CASE row["rfq"] = "none"
  <2>1. "publish" \in Buttons("buyer", b)
    BY DEF Buttons, BuyerButtons, BuyerTenders
  <2>2. Takes("publish", [rfq |-> "OPEN", deadline |-> "none"], row)
    BY <1>1, <1>6, TakesQuoting
  <2> QED BY <1>1, <1>5, <1>6, <2>1, <2>2, ByButton DEF b
<1>7. CASE row["rfq"] = "OPEN" /\ row["deadline"] = "none"
  <2>1. "quote" \in Buttons("supplier", s)
    BY <1>2, <1>4, <1>7 DEF Buttons, SupplierButtons, SupplierTenders, When
  <2> DEFINE g == Over([rfq |-> "QUOTING"], Quoted)
  <2>2. Takes("quote", g, row)
    BY <1>1, <1>7, TakesQuoting
  <2>3. "rfq" \in DOMAIN g /\ g["rfq"] = "QUOTING"
    BY DEF Over
  <2> HIDE DEF g
  <2> QED BY <1>1, <1>5, <1>7, <2>1, <2>2, <2>3, ByButton DEF s
<1>11. CASE row["rfq"] = "QUOTING" /\ row["supply"] = "short"
  <2>1. "inbound" \in Buttons("supplier", s)
    BY DEF Buttons, SupplierButtons, SupplierLots
  <2>2. Takes("inbound", [lot |-> "some", supply |-> "none"], row)
    BY <1>1, <1>11, TakesKeeping
  <2> QED BY <1>1, <1>5, <1>11, <2>1, <2>2, ByButton DEF s
<1>8. CASE row["rfq"] = "QUOTING" /\ row["validity"] = "none" /\ row["supply"] = "none"
  <2>1. "accept" \in Buttons("buyer", b)
    BY <1>2, <1>3, <1>8 DEF Buttons, BuyerButtons, BuyerTenders, When
  <2> DEFINE g == [rfq |-> "ACCEPTED", quote |-> "ACCEPTED"]
             t == Over([order |-> "PLACED"], g)
  <2>2. Takes("accept", g, row) \/ Takes("accept", t, row)
    BY <1>1, <1>8, TakesQuoting
  <2>3. "rfq" \in DOMAIN g /\ g["rfq"] = "ACCEPTED" /\ "rfq" \in DOMAIN t /\ t["rfq"] = "ACCEPTED"
    BY DEF Over
  <2> HIDE DEF g, t
  <2>4. CASE Takes("accept", g, row)
    BY <1>1, <1>5, <1>8, <2>1, <2>3, <2>4, ByButton DEF b
  <2>5. CASE Takes("accept", t, row)
    BY <1>1, <1>5, <1>8, <2>1, <2>3, <2>5, ByButton DEF b
  <2> QED BY <2>2, <2>4, <2>5
<1>9. CASE row["rfq"] = "ACCEPTED" \/ KnownStranded("rfq")
  BY <1>9 DEF Onward, Final
<1> QED BY <1>2, <1>6, <1>7, <1>8, <1>9, <1>10, <1>11 DEF KnownStranded

LEMMA ProductOnward ==
  ASSUME RowsInv, Manned, "product" \in Concern
  PROVE  Onward("product")
<1> DEFINE s == Fresh("supplier")
           a == Fresh("admin")
<1>1. CaseRow(row) /\ {"product", "skus"} \subseteq Kinds /\ {"supplier", "admin"} \subseteq desk.pages
  BY DEF RowsInv, Kinds, Statuses, Manned, Staffed, Parts
<1>2. row["product"] \in {"none", "DRAFT", "PENDING_REVIEW", "ACTIVE"} /\ row["skus"] \in {"none", "some"}
  BY <1>1 DEF CaseRow, Sound, Statuses
<1>3. s["product"] = row["product"] /\ s["skus"] = row["skus"]
  <2>1. {"product", "skus"} \in Reads["supplier"] /\ "supplier" \in DOMAIN Reads
    BY DEF Reads, SupplierReads
  <2>2. s["product"] = Answer("supplier", "product") /\ s["skus"] = Answer("supplier", "skus")
    BY <1>1, <2>1, FreshOn
  <2> QED BY <2>2 DEF Answer, Unlisted, Lists
<1>4. row["product"] = "PENDING_REVIEW" => a["product"] = "PENDING_REVIEW"
  <2>1. {"product"} \in Reads["admin"] /\ "admin" \in DOMAIN Reads
    BY DEF Reads, AdminReads
  <2>2. a["product"] = Answer("admin", "product")
    BY <1>1, <2>1, FreshOn
  <2> QED BY <2>2 DEF Answer, Unlisted, Lists
<1>5. {"product", "skus"} \subseteq CaseOf("product")
  BY DEF CaseOf
<1> HIDE DEF s, a
<1>6. CASE row["product"] = "none"
  <2>1. "create" \in Buttons("supplier", s)
    BY DEF Buttons, SupplierButtons, SupplierForms
  <2>2. Takes("create", [product |-> "DRAFT"], row)
    BY <1>1, <1>6, TakesCataloguing
  <2> QED BY <1>1, <1>5, <1>6, <2>1, <2>2, ByButton DEF s
<1>7. CASE row["product"] = "DRAFT" /\ row["skus"] = "none"
  <2>1. "addSku" \in Buttons("supplier", s)
    BY <1>3, <1>7 DEF Buttons, SupplierButtons, SupplierForms, When
  <2>2. Takes("addSku", [skus |-> "some"], row)
    BY <1>1, <1>7, TakesCataloguing
  <2> QED BY <1>1, <1>5, <1>7, <2>1, <2>2, ByButton DEF s
<1>8. CASE row["product"] = "DRAFT" /\ row["skus"] # "none"
  <2>1. "submit" \in Buttons("supplier", s)
    BY <1>3, <1>8 DEF Buttons, SupplierButtons, SupplierProducts, When
  <2>2. Takes("submit", [product |-> "PENDING_REVIEW"], row)
    BY <1>1, <1>8, TakesCataloguing
  <2> QED BY <1>1, <1>5, <1>8, <2>1, <2>2, ByButton DEF s
<1>9. CASE row["product"] = "PENDING_REVIEW"
  <2>1. "approveProduct" \in Buttons("admin", a)
    BY <1>4, <1>9 DEF Buttons, AdminButtons, AdminProducts, When
  <2>2. Takes("approveProduct", [product |-> "ACTIVE"], row)
    BY <1>1, <1>9, TakesReviewing
  <2> QED BY <1>1, <1>5, <1>9, <2>1, <2>2, ByButton DEF a
<1>10. CASE row["product"] = "ACTIVE"
  BY <1>10 DEF Onward, Final
<1> QED BY <1>2, <1>6, <1>7, <1>8, <1>9, <1>10

LEMMA LeadOnward ==
  ASSUME RowsInv, Manned, "opportunity" \in Concern
  PROVE  Onward("opportunity")
<1> DEFINE b == Fresh("broker")
<1>1. CaseRow(row) /\ {"opportunity", "broker"} \subseteq Kinds /\ "broker" \in desk.pages
  BY DEF RowsInv, Kinds, Statuses, Manned, Staffed, Parts
<1>2. /\ row["opportunity"] \in {"none", "NEW", "CONTACTED", "NEGOTIATING", "LOST"}
      /\ row["broker"] \in {"none", "me", "other"}
  BY <1>1 DEF CaseRow, Sound, Statuses
<1>3. /\ row["opportunity"] \in {"NEW", "CONTACTED", "NEGOTIATING"} => b["opportunity"] = row["opportunity"]
      /\ b["broker"] = row["broker"]
  <2>1. {"opportunity", "broker"} \in Reads["broker"] /\ "broker" \in DOMAIN Reads
    BY DEF Reads, BrokerReads
  <2>2. b["opportunity"] = Answer("broker", "opportunity") /\ b["broker"] = Answer("broker", "broker")
    BY <1>1, <2>1, FreshOn
  <2> QED BY <2>2 DEF Answer, Unlisted, Lists
<1>4. {"opportunity", "broker"} \subseteq CaseOf("opportunity")
  BY DEF CaseOf
<1> HIDE DEF b
<1>5. CASE row["opportunity"] = "none"
  <2>1. Handler("match", [opportunity |-> {"none"}], [opportunity |-> "NEW"]) \in Elsewhere
    BY DEF Elsewhere
  <2> QED BY <1>4, <1>5, <2>1, ByOthers
<1>6. CASE row["opportunity"] \in {"NEW", "CONTACTED", "NEGOTIATING"} /\ row["broker"] = "none"
  <2>1. "claim" \in Buttons("broker", b)
    BY <1>3, <1>6 DEF Buttons, BrokerButtons, When
  <2>2. Takes("claim", [broker |-> "me"], row)
    BY <1>1, <1>6, TakesBrokering
  <2> QED BY <1>1, <1>4, <1>6, <2>1, <2>2, ByButton DEF b
<1>7. CASE row["opportunity"] \in {"NEW", "CONTACTED", "NEGOTIATING"} /\ row["broker"] = "me"
  <2>1. "lost" \in Buttons("broker", b)
    BY <1>3, <1>7 DEF Buttons, BrokerButtons, When
  <2>2. Takes("lost", [opportunity |-> "LOST"], row)
    BY <1>1, <1>7, TakesBrokering
  <2> QED BY <1>1, <1>4, <1>7, <2>1, <2>2, ByButton DEF b
<1>8. CASE row["opportunity"] = "LOST" \/ row["broker"] = "other"
  BY <1>8 DEF Onward, Final, KnownStranded
<1> QED BY <1>2, <1>5, <1>6, <1>7, <1>8

LEMMA QueueOnward ==
  ASSUME RowsInv, Manned, NEW k \in {"party", "draft"} \cap Concern
  PROVE  Onward(k)
<1> DEFINE a == Fresh("admin")
<1>1. CaseRow(row) /\ {"party", "draft"} \subseteq Kinds /\ "admin" \in desk.pages
  BY DEF RowsInv, Kinds, Statuses, Manned, Staffed, Parts
<1>2. /\ row["party"] \in {"none", "PENDING", "ACTIVE", "INACTIVE"}
      /\ row["draft"] \in {"none", "MACHINE_DRAFT", "REVIEWED"}
  BY <1>1 DEF CaseRow, Sound, Statuses
<1>3. {k} \in Reads["admin"] /\ "admin" \in DOMAIN Reads /\ k \in Kinds /\ k \in CaseOf(k)
  BY <1>1 DEF Reads, AdminReads, CaseOf
<1>4. a[k] = Answer("admin", k)
  BY <1>3, FreshOn
<1>5. CASE k = "party"
  <2>1. row["party"] = "PENDING" => a["party"] = "PENDING"
    BY <1>4, <1>5 DEF Answer, Unlisted, Lists
  <2> HIDE DEF a
  <2>2. CASE row["party"] = "none"
    <3>1. Handler("register", [party |-> {"none"}], [party |-> "PENDING"]) \in Elsewhere
      BY DEF Elsewhere
    <3> QED BY <1>3, <1>5, <2>2, <3>1, ByOthers
  <2>3. CASE row["party"] = "PENDING"
    <3>1. "approveParty" \in Buttons("admin", a)
      BY <2>1, <2>3 DEF Buttons, AdminButtons, AdminParties, When
    <3>2. Takes("approveParty", [party |-> "ACTIVE"], row)
      BY <1>1, <2>3, TakesReviewing
    <3> QED BY <1>1, <1>3, <1>5, <2>3, <3>1, <3>2, ByButton DEF a
  <2> QED BY <1>2, <1>5, <2>2, <2>3 DEF Onward, Final
<1>6. CASE k = "draft"
  <2>1. row["draft"] = "MACHINE_DRAFT" => a["draft"] = "MACHINE_DRAFT"
    BY <1>4, <1>6 DEF Answer, Unlisted, Lists
  <2> HIDE DEF a
  <2>2. CASE row["draft"] = "none"
    <3>1. Handler("translate", [draft |-> {"none"}], [draft |-> "MACHINE_DRAFT"]) \in Elsewhere
      BY DEF Elsewhere
    <3> QED BY <1>3, <1>6, <2>2, <3>1, ByOthers
  <2>3. CASE row["draft"] = "MACHINE_DRAFT"
    <3>1. "review" \in Buttons("admin", a)
      BY <2>1, <2>3 DEF Buttons, AdminButtons, AdminDrafts, When
    <3>2. Takes("review", [draft |-> "REVIEWED"], row)
      BY <1>1, <2>3, TakesReviewing
    <3> QED BY <1>1, <1>3, <1>6, <2>3, <3>1, <3>2, ByButton DEF a
  <2> QED BY <1>2, <1>6, <2>2, <2>3 DEF Onward, Final
<1> QED BY <1>5, <1>6

LEMMA AllOnward ==
  ASSUME RowsInv, desk.patient => Manned, desk.pages \subseteq DOMAIN Reads
  PROVE  ButtonsWork /\ NeverStranded
<1>1. ButtonsWork
  BY ButtonsAccepted DEF ButtonsWork, Takes, Accepting
<1>2. NeverStranded
  <2> SUFFICES ASSUME desk.patient, NEW k \in DOMAIN Final \cap Concern
               PROVE  Onward(k)
    BY DEF NeverStranded, Onward
  <2>1. k \in {"order", "dispute", "rfq", "product", "opportunity", "party", "draft"}
    BY DEF Final
  <2> QED BY <2>1, OrderOnward, DisputeOnward, TenderOnward, ProductOnward, LeadOnward, QueueOnward
<1> QED BY <1>1, <1>2

----------------------------------------------------------------------------
(* The pages                                                               *)

Cells(f) ==
  \A k \in DOMAIN f : f[k].at \in Statuses[k] \cup {"none", "unread"} /\ f[k].as \in 0..age
Paired(f) == "quote" \in DOMAIN f /\ f["quote"].at = "SUBMITTED" => f["rfq"].at \in {"QUOTING", "ACCEPTED"}
Whole(f) == {"rfq", "quote"} \subseteq DOMAIN f \/ {"rfq", "quote"} \cap DOMAIN f = {}
So(p, f, known, failed) ==
  \A k \in DOMAIN f :
    \/ f[k].at = "unread" \/ <<p, k, f[k].at>> \in known
    \/ p = "disputes" /\ p \in failed /\ f[k].at = "none"
WasSo(p, f) == So(p, f, past, spoilt)

LoadOK(l) ==
  /\ DOMAIN l = {"page", "n", "got", "holds"}
  /\ l.page \in desk.pages /\ l.n \in 0..begun /\ l.holds \in BOOLEAN
  /\ Got(l) \subseteq KindsOf(l.page) /\ Cells(l.got)

ShownInv ==
  /\ DOMAIN shown = desk.pages
  /\ \A p \in desk.pages : DOMAIN shown[p] = KindsOf(p) /\ Cells(shown[p])
  /\ \A l \in loads : LoadOK(l)
CountsInv ==
  /\ age \in Nat /\ begun \in Nat /\ presses \in Nat
  /\ DOMAIN mine = desk.pages /\ \A p \in desk.pages : mine[p] \in 0..age
  /\ spoilt \subseteq desk.pages
ActsInv ==
  \A a \in acts :
    /\ a.page \in desk.pages /\ a.call \in Buttons(a.page, a.seen) /\ a.call \in ApiCalls /\ Concerns(a.call)
    /\ a.call = "accept" => a.seen["rfq"] \in {"QUOTING", "ACCEPTED"}
PatientInv ==
  desk.patient => /\ loads = {} /\ acts = {} /\ Manned
                  /\ \A p \in desk.pages, k \in Kinds : k \in KindsOf(p) => shown[p][k].at = "unread"

(* What is read together is drawn together.                                *)
PairsInv ==
  "buyer" \in desk.pages =>
    /\ Paired(shown["buyer"])
    /\ \A l \in loads : l.page = "buyer" => Paired(l.got) /\ Whole(l.got)
(* What the lists of administrators show, and are about to, was so.        *)
KnownInv ==
  ~desk.patient =>
    /\ Readable \subseteq past
    /\ \A p \in desk.pages \cap Queues : WasSo(p, shown[p])
    /\ \A l \in loads : l.page \in Queues => WasSo(l.page, l.got)

(* The newest refresh of a page brings what its user did.                  *)
Newest(l) == \A m \in loads : m.page = l.page => m.n <= l.n
OwnInv ==
  \A p \in desk.pages \ spoilt :
    /\ \A l \in loads : l.page = p /\ Newest(l) => \A k \in Got(l) : l.got[k].as >= mine[p]
    /\ \/ \E l \in loads : l.page = p
       \/ \A k \in KindsOf(p) : shown[p][k].as >= mine[p] \/ shown[p][k].at = "unread"
(* The account is read once, before anything is done there.                *)
AccountInv ==
  \A l \in loads : l.page = "account" =>
    /\ \A k \in KindsOf("account") : shown["account"][k].at = "unread"
    /\ \A a \in acts : a.page # "account"
    /\ \A m \in loads : m.page = "account" => m = l

(* A form that is disabled has one call in flight, or reads after it.      *)
BusyInv ==
  /\ busy \subseteq desk.pages /\ forgot \subseteq desk.pages \cap {"detail"}
  /\ \A a \in acts : (Disabling(a.page, a.call) /\ a.page \notin forgot) =>
       /\ a.page \in busy
       /\ \A b \in acts : b.page = a.page /\ Disabling(b.page, b.call) => b = a
  /\ \A l \in loads : l.holds =>
       /\ l.page = "panel" /\ "panel" \in busy
       /\ \A a \in acts : a.page # "panel"
       /\ \A m \in loads : m.holds => m = l

DeskInv ==
  /\ desk \in Desks /\ RowsInv /\ ShownInv /\ CountsInv /\ ActsInv /\ PatientInv
  /\ PairsInv /\ KnownInv /\ OwnInv /\ AccountInv /\ BusyInv

LEMMA Settings ==
  ASSUME desk \in Desks
  PROVE  /\ desk.pages \subseteq DOMAIN Reads /\ desk.patient \in BOOLEAN /\ desk.presses \in Nat
         /\ Concern \subseteq Kinds /\ Sound(Start(desk))
         /\ "papers" \in Concern => desk.rows["papers"] # "none"
         /\ "panel" \in desk.pages => "detail" \in desk.pages
         /\ desk.patient => Staffed(desk.pages, Concern)
BY DeskAssumption DEF Concern

LEMMA SameDesk ==
  ASSUME desk' = desk
  PROVE  /\ Concern' = Concern
         /\ \A p : Requests(p)' = Requests(p) /\ KindsOf(p)' = KindsOf(p)
         /\ \A p, k : On(p, k)' = On(p, k)
         /\ \A p, k : Page(k, p)' = Page(k, p)
         /\ \A call : Concerns(call)' = Concerns(call)
BY DEF Concern, Requests, KindsOf, On, Page, Concerns

LEMMA ReadKinds ==
  ASSUME NEW p \in DOMAIN Reads
  PROVE  /\ KindsOf(p) \subseteq Kinds
         /\ \A group \in Requests(p) : group \subseteq KindsOf(p)
<1>1. \A group \in Reads[p] : group \subseteq Kinds
  BY DEF Reads, Kinds, Statuses, BuyerReads, SupplierReads, OrderReads, PanelReads, DisputesReads, BrokerReads,
         AdminReads, TraceReads, ProfileReads, OpsReads, AccountReads
<1> QED BY <1>1 DEF KindsOf, Requests

LEMMA SeesOwn ==
  ASSUME NEW p, p # "panel"
  PROVE  /\ \A k : On(p, k) <=> k \in KindsOf(p)
         /\ \A k \in KindsOf(p) : Page(k, p) = p
BY DEF On, Page, SeenBy

LEMMA LoadIs ==
  ASSUME NEW p, NEW n, NEW h
  PROVE  /\ DOMAIN Load(p, n, h) = {"page", "n", "got", "holds"}
         /\ Load(p, n, h).page = p /\ Load(p, n, h).n = n /\ Load(p, n, h).holds = h
         /\ Got(Load(p, n, h)) = {} /\ DOMAIN Load(p, n, h).got = {}
BY DEF Load, Got, Nothing

LEMMA WithGot ==
  ASSUME NEW l \in loads, LoadOK(l), NEW x
  PROVE  LET m == [l EXCEPT !.got = x]
         IN /\ DOMAIN m = {"page", "n", "got", "holds"}
            /\ m.page = l.page /\ m.n = l.n /\ m.holds = l.holds /\ m.got = x /\ Got(m) = DOMAIN x
BY DEF LoadOK, Got

LEMMA DeskStarts == DeskInit => DeskInv
<1> SUFFICES ASSUME DeskInit PROVE DeskInv
  OBVIOUS
<1>1. desk \in Desks
  BY DEF DeskInit
<1>2. DOMAIN row = Kinds /\ \A k \in Concern : row[k] = desk.rows[k]
  BY <1>1, Settings DEF DeskInit, Start, Over, Concern
<1>3. RowsInv
  BY <1>1, <1>2, Settings DEF RowsInv, CaseRow, DeskInit
<1>4. /\ DOMAIN shown = desk.pages
      /\ \A p \in desk.pages : DOMAIN shown[p] = KindsOf(p) /\ \A k \in KindsOf(p) : shown[p][k] = Unread
  BY DEF DeskInit
<1>5. \A l \in loads : \E p \in desk.pages : l = Load(p, 0, FALSE)
  BY DEF DeskInit
<1>6. DOMAIN Nothing = {}
  BY DEF Nothing
<1>7. ShownInv
  <2>1. \A p \in desk.pages : Cells(shown[p])
    BY <1>4 DEF Cells, Unread, DeskInit
  <2>2. \A l \in loads : LoadOK(l)
    <3> SUFFICES ASSUME NEW l \in loads PROVE LoadOK(l)
      OBVIOUS
    <3>1. PICK p \in desk.pages : l = Load(p, 0, FALSE)
      BY <1>5
    <3>2. /\ DOMAIN l = {"page", "n", "got", "holds"} /\ l.page = p /\ l.n = 0 /\ l.holds \in BOOLEAN
          /\ Got(l) = {} /\ DOMAIN l.got = {}
      BY <1>6, <3>1 DEF Load, Got
    <3>3. l.n \in 0..begun
      BY <3>2 DEF DeskInit
    <3> QED BY <3>2, <3>3 DEF LoadOK, Cells
  <2> QED BY <1>4, <2>1, <2>2 DEF ShownInv
<1>8. CountsInv
  BY DEF CountsInv, DeskInit
<1>9. ActsInv
  BY DEF ActsInv, DeskInit
<1>10. PatientInv
  <2>1. row["dispute"] # "none" => "dispute" \in Concern
    BY <1>1, Settings DEF DeskInit, Start, Over, Concern, Kinds, Statuses
  <2> QED BY <1>1, <1>4, <2>1, Settings DEF PatientInv, Manned, DeskInit, Unread
<1>11. PairsInv
  BY <1>4, <1>5, <1>6 DEF PairsInv, Paired, Whole, Load, Unread
<1>12. KnownInv
  BY <1>4, <1>5, <1>6 DEF KnownInv, WasSo, So, Load, Unread, DeskInit
<1>13. OwnInv
  BY <1>4, <1>5, <1>6 DEF OwnInv, Load, Unread, Got, DeskInit
<1>14. AccountInv
  <2>1. \A l \in loads : l = Load(l.page, 0, FALSE) /\ l.page \in desk.pages
    BY <1>5 DEF Load
  <2>2. acts = {} /\ "account" \in desk.pages => \A k \in KindsOf("account") : shown["account"][k].at = "unread"
    BY <1>4 DEF DeskInit, Unread
  <2>3. acts = {}
    BY DEF DeskInit
  <2> QED BY <2>1, <2>2, <2>3 DEF AccountInv
<1>15. BusyInv
  BY <1>5 DEF BusyInv, Load, DeskInit
<1> QED BY <1>1, <1>3, <1>7, <1>8, <1>9, <1>10, <1>11, <1>12, <1>13, <1>14, <1>15 DEF DeskInv

(* What a form that is drawn again becomes.                                *)
LEMMA Redrawn ==
  ASSUME NEW D, Redraw(D)
  PROVE  /\ busy' \subseteq D /\ \A p \in D : p # "detail" => p \in busy'
         /\ forgot' = forgot \cup (D \ busy')
BY DEF Redraw, Mounted

(* A refresh takes an answer f of a group, and may draw x.                 *)
Takings(l, f, x) ==
  /\ loads' = (loads \ {l}) \cup {[l EXCEPT !.got = Over(f, @)]}
  /\ shown' = IF l.page \in Progressive THEN Draw(l, x) ELSE shown

SameRest == UNCHANGED <<desk, row, acts, mine, begun, age, past, presses, moves>>

LEMMA TakingTypes ==
  ASSUME ShownInv, CountsInv, desk \in Desks, SameRest, NEW l \in loads, NEW f, NEW x, Takings(l, f, x),
         DOMAIN f \subseteq KindsOf(l.page), DOMAIN x \subseteq KindsOf(l.page), Cells(f), Cells(x)
  PROVE  ShownInv'
<1> DEFINE m == [l EXCEPT !.got = Over(f, l.got)]
<1>1. LoadOK(l) /\ l.page \in desk.pages
  BY DEF ShownInv, LoadOK
<1>2. \A c : Cells(c)' <=> Cells(c)
  BY DEF SameRest, Cells
<1>3. \A g, h : Cells(g) /\ Cells(h) => Cells(Over(g, h))
  BY DEF Cells, Over
<1>4. DOMAIN Over(f, l.got) = DOMAIN f \cup Got(l)
  BY DEF Over, Got
<1>5. LoadOK(m)'
  BY <1>1, <1>2, <1>3, <1>4, WithGot, SameDesk DEF LoadOK, SameRest, Got
<1>6. \A k \in loads : LoadOK(k)'
  BY <1>2, SameDesk DEF LoadOK, SameRest, ShownInv, Got
<1>7. loads' = (loads \ {l}) \cup {m}
  BY DEF Takings
<1>8. CASE l.page \notin Progressive
  <2>1. shown' = shown
    BY <1>8 DEF Takings
  <2> QED BY <1>2, <1>5, <1>6, <1>7, <2>1, SameDesk DEF ShownInv, SameRest
<1>9. CASE l.page \in Progressive
  <2>1. shown' = [shown EXCEPT ![l.page] = Over(x, shown[l.page])]
    BY <1>9 DEF Takings, Draw
  <2>2. DOMAIN Over(x, shown[l.page]) = KindsOf(l.page)
    <3>1. DOMAIN shown[l.page] = KindsOf(l.page)
      BY <1>1 DEF ShownInv
    <3>2. DOMAIN Over(x, shown[l.page]) = DOMAIN x \cup DOMAIN shown[l.page]
      BY Overs
    <3> QED BY <3>1, <3>2
  <2>3. Cells(Over(x, shown[l.page]))
    BY <1>1, <1>3 DEF ShownInv
  <2> HIDE DEF m
  <2> QED BY <1>1, <1>2, <1>5, <1>6, <1>7, <2>1, <2>2, <2>3, SameDesk DEF ShownInv, SameRest
<1> QED BY <1>8, <1>9

LEMMA SameReadable ==
  ASSUME desk' = desk, row' = row
  PROVE  Readable' = Readable
BY SameDesk DEF Readable, Answer, Unlisted

(* A refresh changes neither rows nor calls.                               *)
LEMMA RefreshFrame ==
  ASSUME DeskInv, SameRest, loads # {}, spoilt' \subseteq desk.pages
  PROVE  desk' \in Desks /\ RowsInv' /\ CountsInv' /\ ActsInv' /\ PatientInv'
<1>1. RowsInv'
  BY DEF DeskInv, RowsInv, CaseRow, Sound, SameRest, Concern
<1>2. CountsInv'
  BY DEF DeskInv, CountsInv, SameRest
<1>3. ActsInv'
  BY SameDesk DEF DeskInv, ActsInv, SameRest
<1>4. ~desk.patient
  BY DEF DeskInv, PatientInv
<1> QED BY <1>1, <1>2, <1>3, <1>4 DEF DeskInv, SameRest, PatientInv

LEMMA TakingKeeps ==
  ASSUME DeskInv, SameRest, spoilt \subseteq spoilt', NEW l \in loads, NEW f, NEW x, Takings(l, f, x),
         l.page = "buyer" => Paired(f) /\ Whole(f),
         l.page \in Queues => So(l.page, f, past, spoilt'),
         l.page \notin spoilt' => \A k \in DOMAIN f : f[k].as >= mine[l.page]
  PROVE  PairsInv' /\ KnownInv' /\ OwnInv' /\ AccountInv'
<1> DEFINE m == [l EXCEPT !.got = Over(f, l.got)]
<1>1. LoadOK(l) /\ l.page \in desk.pages
  BY DEF DeskInv, ShownInv, LoadOK
<1>2. loads' = (loads \ {l}) \cup {m}
  BY DEF Takings
<1>3. m.page = l.page /\ m.n = l.n /\ m.got = Over(f, l.got) /\ Got(m) = DOMAIN f \cup Got(l)
  BY <1>1, WithGot, Overs DEF Got
<1>4. /\ \A k \in DOMAIN f : m.got[k] = f[k]
      /\ \A k \in Got(l) \ DOMAIN f : m.got[k] = l.got[k]
  <2>1. \A k \in DOMAIN f : Over(f, l.got)[k] = f[k]
    BY Overs
  <2>2. \A k \in DOMAIN l.got \ DOMAIN f : Over(f, l.got)[k] = l.got[k]
    BY Overs
  <2> HIDE DEF m
  <2> QED BY <1>3, <2>1, <2>2 DEF Got
<1>5. \A p \in desk.pages : p # l.page \/ p \notin Progressive => shown'[p] = shown[p]
  BY DEF DeskInv, ShownInv, Takings, Draw
<1>6. Got(m) = DOMAIN m.got /\ \A j \in loads : Got(j) = DOMAIN j.got
  BY DEF Got
<1> HIDE DEF m
<1>7. PairsInv'
  <2> SUFFICES ASSUME "buyer" \in desk.pages
               PROVE  /\ Paired(shown["buyer"])'
                      /\ \A j \in loads' : j.page = "buyer" => Paired(j.got) /\ Whole(j.got)
    BY DEF PairsInv, SameRest, Paired, Whole
  <2>1. Paired(shown["buyer"])'
    BY <1>5 DEF DeskInv, PairsInv, Paired, Progressive
  <2>2. l.page = "buyer" => Paired(m.got) /\ Whole(m.got)
    BY <1>3, <1>4, <1>6 DEF DeskInv, PairsInv, Paired, Whole
  <2> QED BY <1>2, <1>3, <2>1, <2>2 DEF DeskInv, PairsInv
<1>8. KnownInv'
  <2>1. l.page \in Queues => So(l.page, m.got, past, spoilt')
    BY <1>1, <1>3, <1>4, <1>6 DEF DeskInv, KnownInv, PatientInv, WasSo, So
  <2>2. \A p, c : /\ WasSo(p, c) => WasSo(p, c)'
                  /\ So(p, c, past, spoilt') => WasSo(p, c)'
    BY DEF WasSo, So, SameRest
  <2>3. \A p \in desk.pages \cap Queues : shown'[p] = shown[p]
    BY <1>5 DEF Progressive, Queues
  <2> QED BY <1>2, <1>3, <2>1, <2>2, <2>3, SameReadable DEF DeskInv, KnownInv, SameRest
<1>9. OwnInv'
  <2> SUFFICES ASSUME NEW p \in desk.pages \ spoilt'
               PROVE  /\ \A k \in loads' : k.page = p /\ Newest(k)' => \A c \in Got(k) : k.got[c].as >= mine[p]
                      /\ \/ \E k \in loads' : k.page = p
                         \/ \A c \in KindsOf(p) : shown'[p][c].as >= mine[p] \/ shown'[p][c].at = "unread"
    BY SameDesk DEF OwnInv, SameRest, Got
  <2>1. Newest(m)' => Newest(l)
    BY <1>2, <1>3 DEF Newest, DeskInv, ShownInv, LoadOK
  <2>2. \A k \in loads \ {l} : Newest(k)' => Newest(k)
    BY <1>2, <1>3 DEF Newest
  <2>3. m.page = p /\ Newest(m)' => \A c \in Got(m) : m.got[c].as >= mine[p]
    BY <1>3, <1>4, <2>1 DEF DeskInv, OwnInv
  <2>4. \A k \in loads' : k.page = p /\ Newest(k)' => \A c \in Got(k) : k.got[c].as >= mine[p]
    BY <1>2, <2>2, <2>3 DEF DeskInv, OwnInv
  <2>5. CASE p = l.page
    BY <1>2, <1>3, <2>4, <2>5
  <2>6. CASE p # l.page
    BY <1>2, <1>5, <2>4, <2>6 DEF DeskInv, OwnInv
  <2> QED BY <2>5, <2>6
<1>10. AccountInv'
  <2> SUFFICES ASSUME NEW k \in loads', k.page = "account"
               PROVE  /\ \A c \in KindsOf("account") : shown'["account"][c].at = "unread"
                      /\ \A a \in acts : a.page # "account"
                      /\ \A j \in loads' : j.page = "account" => j = k
    BY SameDesk DEF AccountInv, SameRest
  <2>1. \E j \in loads : j.page = "account" /\ "account" \in desk.pages
    BY <1>1, <1>2, <1>3 DEF DeskInv, ShownInv, LoadOK
  <2>2. \A j \in loads' : j.page = "account" => j = k
    BY <1>2, <1>3 DEF DeskInv, AccountInv
  <2> QED BY <1>5, <2>1, <2>2 DEF DeskInv, AccountInv, Progressive
<1> QED BY <1>7, <1>8, <1>9, <1>10

(* What becomes of forms when a page is drawn, and when a refresh ends.    *)
LEMMA TakingBusy ==
  ASSUME DeskInv, SameRest, Redraw(busy), NEW l \in loads, NEW f, NEW x, Takings(l, f, x)
  PROVE  BusyInv'
<1> DEFINE m == [l EXCEPT !.got = Over(f, l.got)]
<1>1. LoadOK(l)
  BY DEF DeskInv, ShownInv
<1>2. loads' = (loads \ {l}) \cup {m}
  BY DEF Takings
<1>3. m.page = l.page /\ m.holds = l.holds
  BY <1>1, WithGot
<1> HIDE DEF m
<1>4. /\ busy' \subseteq busy /\ \A p \in busy : p # "detail" => p \in busy'
      /\ forgot' = forgot \cup (busy \ busy')
  BY Redrawn
<1>5. busy' \subseteq desk.pages /\ forgot' \subseteq desk.pages \cap {"detail"}
  BY <1>4 DEF DeskInv, BusyInv
<1>6. ASSUME NEW a \in acts, Disabling(a.page, a.call), a.page \notin forgot'
      PROVE  a.page \in busy' /\ \A b \in acts : b.page = a.page /\ Disabling(b.page, b.call) => b = a
  BY <1>4, <1>6 DEF DeskInv, BusyInv
<1>7. ASSUME NEW k \in loads', k.holds
      PROVE  /\ k.page = "panel" /\ "panel" \in busy'
             /\ \A a \in acts : a.page # "panel"
             /\ \A j \in loads' : j.holds => j = k
  BY <1>2, <1>3, <1>4, <1>7 DEF DeskInv, BusyInv
<1> QED BY <1>5, <1>6, <1>7 DEF BusyInv, SameRest

LEMMA EndingBusy ==
  ASSUME DeskInv, SameRest, NEW l \in loads, loads' = loads \ {l},
         \/ Redraw(Released(l))
         \/ busy' = Released(l) /\ forgot' = forgot
  PROVE  BusyInv'
<1>1. /\ busy' \subseteq Released(l) /\ \A p \in Released(l) : p # "detail" => p \in busy'
      /\ forgot' = forgot \cup (Released(l) \ busy')
  BY Redrawn
<1>2. Released(l) \subseteq busy /\ \A p \in busy : p \in Released(l) \/ (l.holds /\ p = "panel")
  BY DEF Released, DeskInv, BusyInv
<1>3. busy' \subseteq desk.pages /\ forgot' \subseteq desk.pages \cap {"detail"}
  BY <1>1, <1>2 DEF DeskInv, BusyInv
<1>4. ASSUME NEW a \in acts, Disabling(a.page, a.call), a.page \notin forgot'
      PROVE  a.page \in busy' /\ \A b \in acts : b.page = a.page /\ Disabling(b.page, b.call) => b = a
  BY <1>1, <1>2, <1>4 DEF DeskInv, BusyInv
<1>5. ASSUME NEW k \in loads', k.holds
      PROVE  /\ k.page = "panel" /\ "panel" \in busy'
             /\ \A a \in acts : a.page # "panel"
             /\ \A j \in loads' : j.holds => j = k
  BY <1>1, <1>2, <1>5 DEF DeskInv, BusyInv
<1> QED BY <1>3, <1>4, <1>5 DEF BusyInv, SameRest

LEMMA TakingInv ==
  ASSUME DeskInv, SameRest, Redraw(busy), spoilt \subseteq spoilt', spoilt' \subseteq desk.pages,
         NEW l \in loads, NEW f, NEW x, Takings(l, f, x),
         DOMAIN f \subseteq KindsOf(l.page), DOMAIN x \subseteq KindsOf(l.page), Cells(f), Cells(x),
         l.page = "buyer" => Paired(f) /\ Whole(f),
         l.page \in Queues => So(l.page, f, past, spoilt'),
         l.page \notin spoilt' => \A k \in DOMAIN f : f[k].as >= mine[l.page]
  PROVE  DeskInv'
<1>1. desk' \in Desks /\ RowsInv' /\ CountsInv' /\ ActsInv' /\ PatientInv'
  BY RefreshFrame
<1>2. ShownInv'
  BY TakingTypes DEF DeskInv
<1>3. PairsInv' /\ KnownInv' /\ OwnInv' /\ AccountInv'
  BY TakingKeeps
<1>4. BusyInv'
  BY TakingBusy
<1> QED BY <1>1, <1>2, <1>3, <1>4 DEF DeskInv

LEMMA AnswerTypes ==
  ASSUME RowsInv, NEW p
  PROVE  \A k \in Kinds : Answer(p, k) \in Statuses[k] \cup {"none"}
BY DEF RowsInv, CaseRow, Sound, Answer

LEMMA BuyerGroups ==
  ASSUME NEW group \in Requests("buyer")
  PROVE  {"rfq", "quote"} \subseteq group \/ {"rfq", "quote"} \cap group = {}
BY DEF Requests, Reads, BuyerReads

LEMMA ReadsStep ==
  ASSUME DeskInv, SameRest, NEW l \in loads, NEW group \in Requests(l.page), LoadReads(l, group)
  PROVE  DeskInv'
<1> DEFINE f == [k \in group |-> [at |-> Answer(l.page, k), as |-> age]]
           x == Over(f, l.got)
<1>1. /\ LoadOK(l) /\ l.page \in desk.pages /\ desk.pages \subseteq DOMAIN Reads /\ ~desk.patient
      /\ CaseRow(row) /\ age \in Nat
  BY Settings DEF DeskInv, ShownInv, LoadOK, PatientInv, RowsInv, CountsInv
<1>2. group \subseteq KindsOf(l.page) /\ KindsOf(l.page) \subseteq Kinds
  BY <1>1, ReadKinds
<1>3. DOMAIN f = group /\ \A k \in group : f[k].at = Answer(l.page, k) /\ f[k].as = age
  OBVIOUS
<1>4. Takings(l, f, x)
  BY DEF LoadReads, Takings
<1>5. Redraw(busy) /\ spoilt' = spoilt
  BY DEF LoadReads
<1> HIDE DEF f
<1>6. Cells(f)
  BY <1>1, <1>2, <1>3, AnswerTypes DEF Cells, DeskInv
<1>7. DOMAIN x \subseteq KindsOf(l.page) /\ Cells(x)
  <2>1. DOMAIN x = group \cup DOMAIN l.got
    BY <1>3, Overs
  <2>2. \A k \in group : x[k] = f[k]
    BY <1>3, Overs
  <2>3. \A k \in DOMAIN l.got \ group : x[k] = l.got[k]
    BY <1>3, Overs
  <2> HIDE DEF x
  <2> QED BY <1>1, <1>2, <1>3, <1>6, <2>1, <2>2, <2>3 DEF Cells, LoadOK, Got
<1>8. ASSUME l.page = "buyer" PROVE Paired(f) /\ Whole(f)
  <2>1. \A k : Answer("buyer", k) = row[k]
    BY DEF Answer, Unlisted, Lists
  <2>2. row["quote"] = "SUBMITTED" => row["rfq"] \in {"QUOTING", "ACCEPTED"}
    BY <1>1 DEF CaseRow, Sound, Kinds, Statuses
  <2> QED BY <1>3, <1>8, <2>1, <2>2, BuyerGroups DEF Paired, Whole
<1>9. ASSUME l.page \in Queues PROVE So(l.page, f, past, spoilt')
  <2>1. \A k \in group : <<l.page, k, Answer(l.page, k)>> \in Readable
    BY <1>1, <1>2, <1>9 DEF Readable
  <2> QED BY <1>1, <1>3, <2>1 DEF So, DeskInv, KnownInv
<1>10. \A k \in DOMAIN f : f[k].as >= mine[l.page]
  BY <1>1, <1>3 DEF DeskInv, CountsInv
<1> HIDE DEF x
<1>11. spoilt' \subseteq desk.pages
  BY <1>5 DEF DeskInv, CountsInv
<1> QED BY <1>2, <1>3, <1>4, <1>5, <1>6, <1>7, <1>8, <1>9, <1>10, <1>11, TakingInv

LEMMA BlankStep ==
  ASSUME DeskInv, SameRest, NEW l \in loads, NEW group \in Requests(l.page), LoadFails(l, group),
         ~Keeps(l.page, group)
  PROVE  DeskInv'
<1> DEFINE f == Blank(group)
<1>1. /\ LoadOK(l) /\ l.page \in desk.pages /\ desk.pages \subseteq DOMAIN Reads /\ age \in Nat
  BY Settings DEF DeskInv, ShownInv, LoadOK, CountsInv
<1>2. group \subseteq KindsOf(l.page) /\ KindsOf(l.page) \subseteq Kinds
  BY <1>1, ReadKinds
<1>3. DOMAIN f = group /\ \A k \in group : f[k].at = "none" /\ f[k].as = 0
  BY DEF Blank
<1>4. Takings(l, f, f)
  BY DEF LoadFails, Takings
<1>5. Redraw(busy) /\ spoilt' = spoilt \cup {l.page}
  BY DEF LoadFails
<1> HIDE DEF f
<1>6. Cells(f)
  BY <1>1, <1>3 DEF Cells
<1>7. l.page = "buyer" => Paired(f) /\ Whole(f)
  BY <1>3, BuyerGroups DEF Paired, Whole
<1>8. l.page \in Queues => So(l.page, f, past, spoilt')
  BY <1>3, <1>5 DEF Keeps, Queues, So
<1>9. spoilt \subseteq spoilt' /\ spoilt' \subseteq desk.pages /\ l.page \in spoilt'
  BY <1>1, <1>5 DEF DeskInv, CountsInv
<1> QED BY <1>2, <1>3, <1>4, <1>5, <1>6, <1>7, <1>8, <1>9, TakingInv

LEMMA GivenUpStep ==
  ASSUME DeskInv, SameRest, NEW l \in loads, NEW group \in Requests(l.page), LoadFails(l, group),
         Keeps(l.page, group)
  PROVE  DeskInv'
<1>1. LoadOK(l) /\ l.page \in desk.pages
  BY DEF DeskInv, ShownInv, LoadOK
<1>2. /\ loads' = loads \ {l} /\ busy' = Released(l) /\ shown' = shown /\ forgot' = forgot
      /\ spoilt' = spoilt \cup {l.page}
  BY DEF LoadFails
<1>3. desk' \in Desks /\ RowsInv' /\ CountsInv' /\ ActsInv' /\ PatientInv'
  BY <1>1, <1>2, RefreshFrame DEF DeskInv, CountsInv
<1>4. ShownInv'
  BY <1>2, SameDesk DEF DeskInv, ShownInv, LoadOK, Cells, SameRest, Got
<1>5. PairsInv'
  BY <1>2 DEF DeskInv, PairsInv, Paired, Whole, SameRest
<1>6. KnownInv'
  BY <1>2, SameReadable DEF DeskInv, KnownInv, WasSo, So, SameRest
<1>7. OwnInv'
  <2> SUFFICES ASSUME NEW p \in desk.pages \ spoilt'
               PROVE  /\ \A k \in loads' : k.page = p /\ Newest(k)' => \A c \in Got(k) : k.got[c].as >= mine[p]
                      /\ \/ \E k \in loads' : k.page = p
                         \/ \A c \in KindsOf(p) : shown'[p][c].as >= mine[p] \/ shown'[p][c].at = "unread"
    BY SameDesk DEF OwnInv, SameRest, Got
  <2>1. p # l.page /\ p \notin spoilt
    BY <1>2
  <2>2. \A k \in loads' : k.page = p /\ Newest(k)' => Newest(k)
    BY <1>2, <2>1 DEF Newest
  <2> QED BY <1>2, <2>1, <2>2 DEF DeskInv, OwnInv
<1>8. AccountInv'
  BY <1>2, SameDesk DEF DeskInv, AccountInv, SameRest
<1>9. BusyInv'
  BY <1>2, EndingBusy
<1> QED BY <1>3, <1>4, <1>5, <1>6, <1>7, <1>8, <1>9 DEF DeskInv

LEMMA EndsStep ==
  ASSUME DeskInv, SameRest, NEW l \in loads, LoadEnds(l)
  PROVE  DeskInv'
<1>1. LoadOK(l) /\ l.page \in desk.pages /\ DOMAIN l.got = KindsOf(l.page) /\ Cells(l.got)
  BY DEF DeskInv, ShownInv, LoadOK, LoadEnds, Got
<1>2. /\ loads' = loads \ {l} /\ Redraw(Released(l))
      /\ shown' = [shown EXCEPT ![l.page] = Over(l.got, shown[l.page])]
      /\ spoilt' = IF \E m \in loads : m.page = l.page /\ m.n < l.n THEN spoilt \cup {l.page} ELSE spoilt
  BY DEF LoadEnds, Draw
<1>3. /\ DOMAIN shown' = desk.pages
      /\ \A p \in desk.pages : p # l.page => shown'[p] = shown[p]
  BY <1>2 DEF DeskInv, ShownInv
<1>4. DOMAIN shown'[l.page] = KindsOf(l.page) /\ \A k \in KindsOf(l.page) : shown'[l.page][k] = l.got[k]
  <2>1. shown'[l.page] = Over(l.got, shown[l.page]) /\ DOMAIN shown[l.page] = KindsOf(l.page)
    BY <1>1, <1>2 DEF DeskInv, ShownInv
  <2>2. DOMAIN Over(l.got, shown[l.page]) = DOMAIN l.got \cup DOMAIN shown[l.page]
    BY Overs
  <2>3. \A k \in DOMAIN l.got : Over(l.got, shown[l.page])[k] = l.got[k]
    BY Overs
  <2> QED BY <1>1, <2>1, <2>2, <2>3
<1>5. desk' \in Desks /\ RowsInv' /\ CountsInv' /\ ActsInv' /\ PatientInv'
  BY <1>1, <1>2, RefreshFrame DEF DeskInv, CountsInv
<1>6. ShownInv'
  <2>1. \A c : Cells(c)' <=> Cells(c)
    BY DEF SameRest, Cells
  <2>2. Cells(shown'[l.page])
    BY <1>1, <1>4 DEF Cells
  <2>3. \A k \in loads' : LoadOK(k)'
    BY <1>2, <2>1, SameDesk DEF DeskInv, ShownInv, LoadOK, SameRest, Got
  <2> QED BY <1>3, <1>4, <2>1, <2>2, <2>3, SameDesk DEF DeskInv, ShownInv, SameRest
<1>7. PairsInv'
  <2>1. l.page = "buyer" => Paired(shown'["buyer"])
    BY <1>1, <1>4 DEF DeskInv, PairsInv, Paired, Whole
  <2> QED BY <1>2, <1>3, <2>1 DEF DeskInv, PairsInv, Paired, Whole, SameRest
<1>8. KnownInv'
  <2>1. l.page \in Queues => WasSo(l.page, shown'[l.page])
    BY <1>1, <1>4 DEF DeskInv, KnownInv, PatientInv, WasSo, So
  <2>2. \A p, c : WasSo(p, c) => WasSo(p, c)'
    BY <1>2 DEF WasSo, So, SameRest
  <2> QED BY <1>2, <1>3, <2>1, <2>2, SameReadable DEF DeskInv, KnownInv, SameRest
<1>9. OwnInv'
  <2> SUFFICES ASSUME NEW p \in desk.pages \ spoilt'
               PROVE  /\ \A k \in loads' : k.page = p /\ Newest(k)' => \A c \in Got(k) : k.got[c].as >= mine[p]
                      /\ \/ \E k \in loads' : k.page = p
                         \/ \A c \in KindsOf(p) : shown'[p][c].as >= mine[p] \/ shown'[p][c].at = "unread"
    BY SameDesk DEF OwnInv, SameRest, Got
  <2>1. p \notin spoilt
    BY <1>2
  <2>2. CASE p # l.page
    <3>1. \A k \in loads' : k.page = p /\ Newest(k)' => Newest(k)
      BY <1>2, <2>2 DEF Newest
    <3> QED BY <1>2, <1>3, <2>1, <2>2, <3>1 DEF DeskInv, OwnInv
  <2>3. CASE p = l.page
    <3>1. \A m \in loads : m.page = p => ~(m.n < l.n)
      BY <1>2, <2>3
    <3>2. \A m \in loads : m.n \in Nat
      BY DEF DeskInv, ShownInv, LoadOK
    <3>3. \A k \in loads' : k.page = p /\ Newest(k)' => Newest(k)
      BY <1>2, <2>3, <3>1, <3>2 DEF Newest
    <3>4. (\A k \in loads' : k.page # p) => Newest(l)
      BY <1>2, <2>3, <3>2 DEF Newest
    <3>5. (\A k \in loads' : k.page # p) => \A c \in KindsOf(p) : shown'[p][c].as >= mine[p]
      BY <1>1, <1>4, <2>1, <2>3, <3>4 DEF DeskInv, OwnInv, Got
    <3> QED BY <1>2, <2>1, <2>3, <3>3, <3>5 DEF DeskInv, OwnInv
  <2> QED BY <2>2, <2>3
<1>10. AccountInv'
  <2> SUFFICES ASSUME NEW k \in loads', k.page = "account"
               PROVE  /\ \A c \in KindsOf("account") : shown'["account"][c].at = "unread"
                      /\ \A a \in acts : a.page # "account"
                      /\ \A j \in loads' : j.page = "account" => j = k
    BY SameDesk DEF AccountInv, SameRest
  <2>1. k \in loads /\ k # l /\ "account" \in desk.pages
    BY <1>2 DEF DeskInv, ShownInv, LoadOK
  <2>2. l.page # "account"
    BY <2>1 DEF DeskInv, AccountInv
  <2> QED BY <1>2, <1>3, <2>1, <2>2 DEF DeskInv, AccountInv
<1>11. BusyInv'
  BY <1>2, EndingBusy
<1> QED BY <1>5, <1>6, <1>7, <1>8, <1>9, <1>10, <1>11 DEF DeskInv

LEMMA RefreshStep == DeskInv /\ Refresh => DeskInv'
<1> SUFFICES ASSUME DeskInv, Refresh PROVE DeskInv'
  OBVIOUS
<1>1. SameRest
  BY DEF Refresh, SameRest
<1>2. PICK l \in loads :
        \/ \E group \in Requests(l.page) : LoadReads(l, group)
        \/ \E group \in Requests(l.page) : LoadFails(l, group)
        \/ LoadEnds(l)
  BY DEF Refresh
<1> QED BY <1>1, <1>2, ReadsStep, BlankStep, GivenUpStep, EndsStep

(* A button of the account is drawn from what has been read.               *)
LEMMA AccountDrawn ==
  ASSUME DeskInv, "account" \in desk.pages, Buttons("account", Drawn("account")) # {}
  PROVE  \A l \in loads : l.page # "account"
<1>1. Drawn("account")["mfa"] # "none"
  BY DEF Buttons, AccountButtons, When
<1>2. "mfa" \in Kinds
  BY DEF Kinds, Statuses
<1>3. "mfa" \in KindsOf("account") /\ shown["account"]["mfa"].at # "unread"
  BY <1>1, <1>2, SeesOwn DEF Drawn
<1> QED BY <1>3 DEF DeskInv, AccountInv

LEMMA TenderDrawn ==
  ASSUME DeskInv, "buyer" \in desk.pages, "accept" \in Buttons("buyer", Drawn("buyer"))
  PROVE  Drawn("buyer")["rfq"] \in {"QUOTING", "ACCEPTED"}
<1> DEFINE d == Drawn("buyer")
<1>1. {"rfq", "quote"} \subseteq Kinds
  BY DEF Kinds, Statuses
<1>2. \A k \in Kinds :
        d[k] = IF k \in KindsOf("buyer") /\ shown["buyer"][k].at # "unread" THEN shown["buyer"][k].at ELSE "none"
  BY SeesOwn DEF Drawn
<1> HIDE DEF d
<1>3. d["quote"] = "SUBMITTED"
  BY DEF d, Buttons, BuyerButtons, BuyerCart, BuyerTenders, BuyerOrders, When
<1>4. "quote" \in KindsOf("buyer") /\ shown["buyer"]["quote"].at = "SUBMITTED"
  BY <1>1, <1>2, <1>3
<1>5. DOMAIN shown["buyer"] = KindsOf("buyer")
  BY DEF DeskInv, ShownInv
<1>6. shown["buyer"]["rfq"].at \in {"QUOTING", "ACCEPTED"}
  BY <1>4, <1>5 DEF DeskInv, PairsInv, Paired
<1>7. "rfq" \in KindsOf("buyer")
  BY <1>4 DEF KindsOf, Requests, Reads, BuyerReads
<1> QED BY <1>1, <1>2, <1>6, <1>7 DEF d

(* What the buttons of some calls are drawn from.                          *)
LEMMA ButtonsOf ==
  ASSUME NEW p \in DOMAIN Reads, NEW s, NEW c \in Buttons(p, s)
  PROVE  /\ c = "accept" => p = "buyer" /\ s["rfq"] # "ACCEPTED"
         /\ c = "raise" => p = "panel" /\ s["order"] = "DELIVERED"
         /\ c = "cancel" => s["order"] = "PLACED"
         /\ c = "confirm" => s["order"] = "PAID_ESCROW"
         /\ c = "ship" => s["order"] = "CONFIRMED"
         /\ c = "submit" => s["product"] = "DRAFT"
         /\ c = "contacted" => s["opportunity"] = "NEW"
BY DEF Reads, Buttons, When, BuyerButtons, BuyerCart, BuyerTenders, BuyerOrders, SupplierButtons,
   SupplierProducts,
       SupplierForms, SupplierLots, SupplierTenders, SupplierOrders, FulfilPanel, DetailButtons, Payment, Receipt,
       LedgerButtons, PanelButtons, DisputesButtons, BrokerButtons, AdminButtons, AdminParties, AdminProducts,
       AdminDrafts, TraceButtons, ProfileButtons, ProfileContacts, ProfileCertificates, ProfilePermits, OpsButtons,
       AccountButtons

LEMMA PressStep ==
  ASSUME DeskInv, ~desk.patient, NEW p \in desk.pages, NEW call \in ApiCalls, Press(p, call)
  PROVE  DeskInv'
<1> DEFINE c == [page |-> p, call |-> call, n |-> presses', seen |-> Drawn(p)]
<1>1. /\ presses' = presses + 1 /\ Concerns(call) /\ call \in Buttons(p, Drawn(p))
      /\ ~(Disabling(p, call) /\ p \in busy)
      /\ acts' = acts \cup {c}
      /\ busy' = IF Disabling(p, call) THEN busy \cup {p} ELSE busy
      /\ UNCHANGED <<desk, row, shown, loads, age, mine, begun, past, spoilt, forgot, moves, fails>>
  BY DEF Press
<1>2. c.page = p /\ c.call = call /\ c.seen = Drawn(p)
  OBVIOUS
<1> HIDE DEF c
<1>3. RowsInv' /\ CountsInv'
  BY <1>1, SameDesk DEF DeskInv, RowsInv, CaseRow, Sound, CountsInv
<1>4. ShownInv'
  BY <1>1, SameDesk DEF DeskInv, ShownInv, LoadOK, Cells, Got
<1>5. ActsInv'
  <2>1. call = "accept" => Drawn(p)["rfq"] \in {"QUOTING", "ACCEPTED"}
    BY <1>1, Settings, ButtonsOf, TenderDrawn DEF DeskInv
  <2> QED BY <1>1, <1>2, <2>1, SameDesk DEF DeskInv, ActsInv
<1>6. PatientInv'
  BY <1>1 DEF PatientInv
<1>7. PairsInv'
  BY <1>1 DEF DeskInv, PairsInv, Paired, Whole
<1>8. KnownInv'
  BY <1>1, SameReadable DEF DeskInv, KnownInv, WasSo
<1>9. OwnInv'
  BY <1>1, SameDesk DEF DeskInv, OwnInv, Newest, Got
<1>10. AccountInv'
  BY <1>1, <1>2, SameDesk, AccountDrawn DEF DeskInv, AccountInv
<1>11. BusyInv'
  <2>1. \A l \in loads : l.holds => p # "panel"
    BY <1>1 DEF DeskInv, BusyInv, Disabling, Guarded
  <2>2. busy \subseteq busy' /\ busy' \subseteq desk.pages
    BY <1>1 DEF DeskInv, BusyInv
  <2>3. ASSUME NEW a \in acts', Disabling(a.page, a.call), a.page \notin forgot
        PROVE  a.page \in busy' /\ \A b \in acts' : b.page = a.page /\ Disabling(b.page, b.call) => b = a
    BY <1>1, <1>2, <2>3 DEF DeskInv, BusyInv
  <2> QED BY <1>1, <1>2, <2>1, <2>2, <2>3 DEF DeskInv, BusyInv
<1> QED BY <1>1, <1>3, <1>4, <1>5, <1>6, <1>7, <1>8, <1>9, <1>10, <1>11 DEF DeskInv

(* Time goes on, and the refreshes N begin.                                *)
Later ==
  /\ RowsInv' /\ age' \in Nat /\ age <= age' /\ past \subseteq past'
  /\ (~desk.patient => Readable' \subseteq past')
  /\ UNCHANGED <<desk, presses, spoilt>>
Begins(N) ==
  /\ loads' = loads \cup N /\ begun' \in Nat /\ begun <= begun'
  /\ \A m \in N : LoadOK(m)' /\ Got(m) = {} /\ m.n > begun /\ m.page # "account"

LEMMA Kinder ==
  ASSUME DeskInv, Later
  PROVE  /\ \A f : Cells(f) => Cells(f)'
         /\ \A p, f : WasSo(p, f) => WasSo(p, f)'
<1>1. age \in Nat
  BY DEF DeskInv, CountsInv
<1> QED BY <1>1 DEF Cells, WasSo, So, Later

LEMMA MovedLater ==
  ASSUME DeskInv, NEW h \in API \cup Elsewhere \cup Setbacks, Meets(h, row), Moved(h.gives),
         UNCHANGED <<desk, presses, spoilt>>
  PROVE  Later
<1>1. CaseRow(row)' /\ \A k \in Kinds : row'[k] = IF k \in DOMAIN h.gives THEN h.gives[k] ELSE row[k]
  BY RowsKept, Gives, Givens DEF Moved, DeskInv, RowsInv, CaseRow
<1>2. RowsInv'
  BY <1>1, Gives, SameDesk, "papers" \in Kinds DEF RowsInv, DeskInv, Kinds, Statuses
<1> QED BY <1>2 DEF Later, Moved, DeskInv, CountsInv

LEMMA LoadsLater ==
  ASSUME DeskInv, Later, NEW N, Begins(N)
  PROVE  \A l \in loads' : LoadOK(l)'
<1>1. ASSUME NEW l \in loads PROVE LoadOK(l)'
  BY <1>1, Kinder, SameDesk DEF DeskInv, ShownInv, CountsInv, LoadOK, Later, Begins, Got
<1> QED BY <1>1 DEF Begins

LEMMA QuietKeeps ==
  ASSUME DeskInv, Later, NEW N, Begins(N), shown' = shown, acts' \subseteq acts,
         acts # {} \/ ~desk.patient,
         DOMAIN mine' = desk.pages, \A p \in desk.pages : mine'[p] \in 0..age',
         \A p \in desk.pages : mine'[p] = mine[p] \/ \E m \in N : m.page = p
  PROVE  /\ desk' \in Desks /\ RowsInv' /\ ShownInv' /\ CountsInv' /\ ActsInv' /\ PatientInv'
         /\ PairsInv' /\ KnownInv' /\ OwnInv' /\ AccountInv'
<1>1. desk' = desk /\ desk' \in Desks /\ RowsInv' /\ ~desk.patient
  BY DEF Later, DeskInv, PatientInv
<1>2. ShownInv'
  BY <1>1, Kinder, LoadsLater, SameDesk DEF DeskInv, ShownInv
<1>3. CountsInv'
  BY DEF DeskInv, CountsInv, Later, Begins
<1>4. ActsInv'
  BY <1>1, SameDesk DEF DeskInv, ActsInv
<1>5. PatientInv'
  BY <1>1 DEF PatientInv
<1>6. DOMAIN Nothing = {} /\ \A m \in N : DOMAIN m.got = {}
  BY DEF Begins, Got, Nothing
<1>7. PairsInv'
  BY <1>1, <1>6 DEF DeskInv, PairsInv, Paired, Whole, Begins
<1>8. KnownInv'
  <2>1. \A m \in N : WasSo(m.page, m.got)'
    BY <1>6 DEF WasSo, So
  <2>2. \A l \in loads' : l.page \in Queues => WasSo(l.page, l.got)'
    BY <1>1, <2>1, Kinder DEF DeskInv, KnownInv, Begins
  <2>3. \A p \in desk.pages \cap Queues : WasSo(p, shown[p])'
    BY <1>1, Kinder DEF DeskInv, KnownInv
  <2> QED BY <1>1, <2>2, <2>3 DEF KnownInv, Later
<1>9. OwnInv'
  <2> SUFFICES ASSUME NEW p \in desk.pages \ spoilt
               PROVE  /\ \A k \in loads' : k.page = p /\ Newest(k)' => \A c \in Got(k) : k.got[c].as >= mine'[p]
                      /\ \/ \E k \in loads' : k.page = p
                         \/ \A c \in KindsOf(p) : shown[p][c].as >= mine'[p] \/ shown[p][c].at = "unread"
    BY <1>1, SameDesk DEF OwnInv, Later, Got
  <2>1. CASE \E m \in N : m.page = p
    <3>1. PICK m \in N : m.page = p
      BY <2>1
    <3>2. \A k \in loads : k.page = p => ~Newest(k)'
      BY <3>1 DEF Newest, Begins, DeskInv, ShownInv, LoadOK, CountsInv
    <3> QED BY <3>1, <3>2 DEF Begins
  <2>2. CASE ~\E m \in N : m.page = p
    <3>1. mine'[p] = mine[p]
      BY <2>2
    <3>2. \A k \in loads : Newest(k)' => Newest(k)
      BY DEF Newest, Begins
    <3> QED BY <2>2, <3>1, <3>2 DEF DeskInv, OwnInv, Begins
  <2> QED BY <2>1, <2>2
<1>10. AccountInv'
  BY <1>1, SameDesk DEF DeskInv, AccountInv, Begins
<1> QED BY <1>1, <1>2, <1>3, <1>4, <1>5, <1>7, <1>8, <1>9, <1>10

LEMMA AnswerBusy ==
  ASSUME DeskInv, UNCHANGED <<desk, forgot>>, NEW a \in acts, acts' = acts \ {a}, NEW N, loads' = loads \cup N,
         \/ busy' = Finally(a) /\ \A m \in N : ~m.holds
         \/ /\ busy' = busy /\ a.page = "panel"
            /\ \A m, k \in N : m.holds => m.page = "panel" /\ (k.holds => k = m)
  PROVE  BusyInv'
<1>1. busy' \subseteq busy /\ forgot' = forgot /\ desk' = desk
  BY DEF Finally
<1>2. a.page = "panel" => Disabling(a.page, a.call) /\ a.page \notin forgot
  BY DEF Disabling, Guarded, DeskInv, BusyInv
<1>3. a.page = "panel" => \A b \in acts' : b.page # "panel"
  BY <1>2 DEF DeskInv, BusyInv, Disabling, Guarded
<1>4. ASSUME NEW b \in acts', Disabling(b.page, b.call), b.page \notin forgot
      PROVE  b.page \in busy'
  BY <1>3, <1>4 DEF Finally, DeskInv, BusyInv
<1>5. ASSUME NEW l \in loads', l.holds
      PROVE  /\ l.page = "panel" /\ "panel" \in busy'
             /\ \A b \in acts' : b.page # "panel"
             /\ \A m \in loads' : m.holds => m = l
  <2>1. CASE busy' = Finally(a) /\ \A m \in N : ~m.holds
    <3>1. l \in loads /\ a.page # "panel"
      BY <1>5, <2>1 DEF DeskInv, BusyInv
    <3>2. l.page = "panel" /\ "panel" \in busy'
      BY <1>5, <2>1, <3>1 DEF Finally, DeskInv, BusyInv
    <3>3. \A b \in acts' : b.page # "panel"
      BY <1>5, <3>1 DEF DeskInv, BusyInv
    <3> QED BY <1>5, <2>1, <3>1, <3>2, <3>3 DEF DeskInv, BusyInv
  <2>2. CASE /\ busy' = busy /\ a.page = "panel"
             /\ \A m, k \in N : m.holds => m.page = "panel" /\ (k.holds => k = m)
    <3>1. \A m \in loads : ~m.holds
      BY <2>2 DEF DeskInv, BusyInv
    <3>2. "panel" \in busy
      BY <1>2, <2>2 DEF DeskInv, BusyInv
    <3> QED BY <1>3, <1>5, <2>2, <3>1, <3>2
  <2> QED BY <2>1, <2>2
<1>6. busy' \subseteq desk.pages /\ forgot \subseteq desk.pages \cap {"detail"}
  BY <1>1 DEF DeskInv, BusyInv
<1>7. \A b \in acts' : Disabling(b.page, b.call) /\ b.page \notin forgot =>
        \A c \in acts' : c.page = b.page /\ Disabling(c.page, c.call) => c = b
  BY DEF DeskInv, BusyInv
<1> QED BY <1>1, <1>4, <1>5, <1>6, <1>7 DEF BusyInv

(* The refreshes that follow an answer.                                    *)
LEMMA AfterIs ==
  ASSUME DeskInv, NEW a \in acts, begun' = begun + 1, desk' = desk
  PROVE  /\ \A m \in After(a) : LoadOK(m)' /\ Got(m) = {} /\ m.n > begun /\ m.page # "account"
         /\ \A m \in After(a) : m.holds => a.page = "panel" /\ m.page = "panel"
         /\ \A m, k \in After(a) : m.holds /\ k.holds => k = m
         /\ a.page # "account" => \E m \in After(a) : m.page = a.page
         /\ a.page = "account" => After(a) = {}
         /\ a.page = "panel" <=> \E m \in After(a) : m.holds
<1>1. /\ a.page \in desk.pages /\ ("panel" \in desk.pages => "detail" \in desk.pages) /\ begun \in Nat
  BY Settings DEF DeskInv, ActsInv, CountsInv
<1>2. DOMAIN Nothing = {}
  BY DEF Nothing
<1>3. ASSUME NEW p \in desk.pages, NEW m, m = Load(p, begun + 1, TRUE) \/ m = Load(p, begun + 1, FALSE)
      PROVE  LoadOK(m)' /\ Got(m) = {} /\ m.n > begun /\ m.page = p
  <2>1. /\ DOMAIN m = {"page", "n", "got", "holds"}
        /\ m.page = p /\ m.n = begun + 1 /\ m.holds \in BOOLEAN /\ m.got = Nothing
    <3>1. CASE m = Load(p, begun + 1, TRUE)
      BY <3>1 DEF Load
    <3>2. CASE m = Load(p, begun + 1, FALSE)
      BY <3>2 DEF Load
    <3> QED BY <1>3, <3>1, <3>2
  <2>2. Got(m) = {} /\ m.n \in 0..begun' /\ m.n > begun
    BY <1>1, <1>2, <2>1 DEF Got
  <2>3. Cells(m.got)'
    BY <1>2, <2>1 DEF Cells
  <2> QED BY <2>1, <2>2, <2>3 DEF LoadOK, Got
<1>4. \A p : Load(p, begun + 1, TRUE).holds /\ ~Load(p, begun + 1, FALSE).holds
  BY DEF Load
<1>5. CASE a.page = "panel"
  <2>1. After(a) = {Load("panel", begun + 1, TRUE), Load("detail", begun + 1, FALSE)}
    BY <1>5 DEF After
  <2>2. "panel" \in desk.pages /\ "detail" \in desk.pages
    BY <1>1, <1>5
  <2>3. Load("panel", begun + 1, TRUE).page = "panel" /\ Load("detail", begun + 1, FALSE).page = "detail"
    BY DEF Load
  <2>4. \A m \in After(a) : LoadOK(m)' /\ Got(m) = {} /\ m.n > begun /\ m.page # "account"
    BY <1>3, <2>1, <2>2, <2>3
  <2> QED BY <1>4, <1>5, <2>1, <2>3, <2>4
<1>6. CASE a.page = "account"
  BY <1>6 DEF After
<1>7. CASE a.page \notin {"panel", "account"}
  <2>1. After(a) = {Load(a.page, begun + 1, FALSE)}
    BY <1>7 DEF After
  <2>2. Load(a.page, begun + 1, FALSE).page = a.page
    BY DEF Load
  <2>3. \A m \in After(a) : LoadOK(m)' /\ Got(m) = {} /\ m.n > begun /\ m.page # "account"
    BY <1>1, <1>3, <1>7, <2>1, <2>2
  <2> QED BY <1>4, <1>7, <2>1, <2>2, <2>3
<1> QED BY <1>5, <1>6, <1>7

LEMMA ServedStep ==
  ASSUME DeskInv, NEW a \in acts, acts' = acts \ {a}, UNCHANGED <<desk, presses>>,
         NEW h \in Accepting(a.call, row), Served(a, h), a.page # "account"
  PROVE  DeskInv'
<1>1. /\ Moved(h.gives) /\ loads' = loads \cup After(a) /\ begun' = begun + 1 /\ shown' = shown
      /\ mine' = [mine EXCEPT ![a.page] = age'] /\ busy' = Enabled(a)
      /\ UNCHANGED <<spoilt, forgot, fails>>
  BY DEF Served, Follow
<1>2. Later /\ age' = age + 1
  BY <1>1, MovedLater DEF Accepting, Moved
<1>3. Begins(After(a))
  BY <1>1, AfterIs DEF Begins, DeskInv, CountsInv
<1>4. age \in Nat /\ a.page \in desk.pages /\ DOMAIN mine = desk.pages /\ \A p \in desk.pages : mine[p] \in 0..age
  BY DEF DeskInv, CountsInv, ActsInv
<1>5. DOMAIN mine' = desk.pages /\ \A p \in desk.pages : mine'[p] \in 0..age'
  BY <1>1, <1>2, <1>4
<1>6. \A p \in desk.pages : mine'[p] = mine[p] \/ \E m \in After(a) : m.page = p
  BY <1>1, <1>4, AfterIs
<1>7. BusyInv'
  <2>1. CASE a.page = "panel"
    <3>1. busy' = busy
      BY <1>1, <2>1, AfterIs DEF Enabled
    <3> QED BY <1>1, <2>1, <3>1, AfterIs, AnswerBusy
  <2>2. CASE a.page # "panel"
    <3>1. busy' = Finally(a) /\ \A m \in After(a) : ~m.holds
      BY <1>1, <2>2, AfterIs DEF Enabled
    <3> QED BY <1>1, <3>1, AnswerBusy
  <2> QED BY <2>1, <2>2
<1> QED BY <1>1, <1>2, <1>3, <1>5, <1>6, <1>7, QuietKeeps DEF DeskInv

LEMMA ServedAccount ==
  ASSUME DeskInv, NEW a \in acts, acts' = acts \ {a}, UNCHANGED <<desk, presses>>,
         NEW h \in Accepting(a.call, row), Served(a, h), a.page = "account"
  PROVE  DeskInv'
<1> DEFINE f == [k \in {"mfa"} |-> [at |-> row'[k], as |-> age']]
<1>1. /\ Moved(h.gives) /\ loads' = loads /\ begun' = begun + 1
      /\ shown' = [shown EXCEPT !["account"] = Over(f, shown["account"])]
      /\ mine' = [mine EXCEPT !["account"] = age'] /\ busy' = Enabled(a)
      /\ UNCHANGED <<spoilt, forgot, fails>>
  BY DEF Served, Follow, After
<1>2. Later /\ age' = age + 1
  BY <1>1, MovedLater DEF Accepting, Moved
<1>3. age \in Nat /\ begun \in Nat /\ "account" \in desk.pages /\ DOMAIN mine = desk.pages /\ ~desk.patient
  BY DEF DeskInv, CountsInv, ActsInv, PatientInv
<1>4. \A l \in loads : l.page # "account"
  BY DEF DeskInv, AccountInv
<1>5. KindsOf("account") = {"mfa"}
  <2>1. a.call \in {"enable", "disable"}
    BY DEF DeskInv, ActsInv, Buttons, AccountButtons, When
  <2>2. "mfa" \in Concern
    BY <2>1, Changes DEF DeskInv, ActsInv, Concerns
  <2> QED BY <2>2 DEF KindsOf, Requests, Reads, AccountReads
<1>6. DOMAIN f = {"mfa"} /\ f["mfa"].at = row'["mfa"] /\ f["mfa"].as = age'
  OBVIOUS
<1> HIDE DEF f
<1>7. /\ DOMAIN shown' = desk.pages /\ \A p \in desk.pages : p # "account" => shown'[p] = shown[p]
      /\ DOMAIN shown'["account"] = {"mfa"} /\ shown'["account"]["mfa"] = f["mfa"]
  <2>1. DOMAIN shown = desk.pages /\ DOMAIN shown["account"] = {"mfa"}
    BY <1>3, <1>5 DEF DeskInv, ShownInv
  <2>2. /\ DOMAIN Over(f, shown["account"]) = DOMAIN f \cup DOMAIN shown["account"]
        /\ \A k \in DOMAIN f : Over(f, shown["account"])[k] = f[k]
    BY Overs
  <2> QED BY <1>1, <1>3, <1>6, <2>1, <2>2
<1>8. Begins({})
  BY <1>1, <1>3 DEF Begins
<1>9. ShownInv'
  <2>1. row'["mfa"] \in Statuses["mfa"] \cup {"none"}
    BY <1>2 DEF Later, RowsInv, CaseRow, Sound, Kinds, Statuses
  <2>2. Cells(shown["account"])'
    BY <1>2, <1>3, <1>6, <1>7, <2>1 DEF Cells
  <2> QED BY <1>2, <1>5, <1>7, <1>8, <2>2, Kinder, LoadsLater, SameDesk DEF DeskInv, ShownInv, Later
<1>10. CountsInv'
  BY <1>1, <1>2, <1>3 DEF DeskInv, CountsInv, Later
<1>11. ActsInv' /\ PatientInv'
  BY <1>3, SameDesk DEF DeskInv, ActsInv, PatientInv
<1>12. PairsInv'
  BY <1>1, <1>7 DEF DeskInv, PairsInv, Paired, Whole
<1>13. KnownInv'
  BY <1>1, <1>2, <1>3, <1>7, Kinder DEF DeskInv, KnownInv, Later, Queues
<1>14. OwnInv'
  <2>1. \A k : Newest(k)' = Newest(k)
    BY <1>1 DEF Newest
  <2>2. \A p \in desk.pages : p # "account" => mine'[p] = mine[p]
    BY <1>1, <1>3
  <2>3. mine'["account"] = age' /\ shown'["account"]["mfa"].as = age' /\ age' \in Nat
    BY <1>1, <1>2, <1>3, <1>6, <1>7
  <2> QED BY <1>1, <1>4, <1>5, <1>7, <2>1, <2>2, <2>3, SameDesk DEF DeskInv, OwnInv, Got
<1>15. AccountInv'
  BY <1>1, <1>4 DEF AccountInv
<1>16. BusyInv'
  <2>1. busy' = Finally(a)
    BY <1>1 DEF Enabled, After
  <2> QED BY <1>1, <2>1, AnswerBusy, loads' = loads \cup {}
<1> QED BY <1>2, <1>9, <1>10, <1>11, <1>12, <1>13, <1>14, <1>15, <1>16 DEF DeskInv, Later

LEMMA LostStep ==
  ASSUME DeskInv, NEW a \in acts, acts' = acts \ {a}, UNCHANGED <<desk, presses>>,
         NEW h \in Accepting(a.call, row), AnswerLost(a, h)
  PROVE  DeskInv'
<1> DEFINE N == IF a.call = "deleteRule" THEN After(a) ELSE {}
<1>1. /\ Moved(h.gives) /\ busy' = Finally(a) /\ UNCHANGED <<shown, mine, spoilt, forgot>>
      /\ IF a.call = "deleteRule" THEN loads' = loads \cup After(a) /\ begun' = begun + 1
         ELSE UNCHANGED <<loads, begun>>
  BY DEF AnswerLost, Follow
<1>2. Later /\ age' = age + 1
  BY <1>1, MovedLater DEF Accepting, Moved
<1>3. Begins(N)
  BY <1>1, AfterIs DEF Begins, DeskInv, CountsInv
<1>4. \A m \in N : ~m.holds
  <2>1. a.call = "deleteRule" => a.page # "panel"
    BY DEF DeskInv, ActsInv, Buttons, PanelButtons, When
  <2> QED BY <1>1, <2>1, AfterIs
<1> HIDE DEF N
<1>5. age \in Nat /\ DOMAIN mine' = desk.pages /\ \A p \in desk.pages : mine[p] \in 0..age /\ mine'[p] = mine[p]
  BY <1>1 DEF DeskInv, CountsInv
<1>6. \A p \in desk.pages : mine'[p] \in 0..age'
  BY <1>2, <1>5
<1>7. BusyInv'
  BY <1>1, <1>3, <1>4, AnswerBusy DEF Begins
<1> QED BY <1>1, <1>2, <1>3, <1>5, <1>6, <1>7, QuietKeeps DEF DeskInv

LEMMA RefusedStep ==
  ASSUME DeskInv, NEW a \in acts, acts' = acts \ {a}, UNCHANGED <<desk, presses>>, Refused(a)
  PROVE  DeskInv'
<1>1. /\ busy' = Finally(a)
      /\ UNCHANGED <<row, shown, loads, begun, age, mine, past, spoilt, forgot, fails>>
  BY DEF Refused
<1>2. Later
  BY <1>1, SameDesk, SameReadable DEF Later, DeskInv, RowsInv, CaseRow, Sound, CountsInv, KnownInv
<1>3. Begins({})
  BY <1>1 DEF Begins, DeskInv, CountsInv
<1>4. DOMAIN mine' = desk.pages /\ \A p \in desk.pages : mine'[p] \in 0..age' /\ mine'[p] = mine[p]
  BY <1>1 DEF DeskInv, CountsInv
<1>5. BusyInv'
  BY <1>1, AnswerBusy, loads' = loads \cup {}
<1> QED BY <1>1, <1>2, <1>3, <1>4, <1>5, QuietKeeps DEF DeskInv

LEMMA ServeStep ==
  ASSUME DeskInv, NEW a \in acts, Serve(a)
  PROVE  DeskInv'
<1>1. UNCHANGED <<desk, presses, moves>> /\ acts' = acts \ {a}
  BY DEF Serve
<1>2. (\E h \in Accepting(a.call, row) : Served(a, h) \/ AnswerLost(a, h)) \/ Refused(a)
  BY DEF Serve
<1> QED BY <1>1, <1>2, ServedStep, ServedAccount, LostStep, RefusedStep

(* Somebody works who waits, or something happens elsewhere.               *)
LEMMA PatientStep ==
  ASSUME DeskInv, desk.patient, NEW h \in API \cup Elsewhere \cup Setbacks, Meets(h, row),
         row' = Over(h.gives, row),
         "dispute" \in DOMAIN h.gives => "dispute" \in Concern,
         UNCHANGED <<desk, shown, loads, busy, mine, begun, spoilt, forgot, acts, age, past, presses>>
  PROVE  DeskInv'
<1>1. CaseRow(row)' /\ \A k \in Kinds : row'[k] = IF k \in DOMAIN h.gives THEN h.gives[k] ELSE row[k]
  BY RowsKept, Gives, Givens DEF DeskInv, RowsInv, CaseRow
<1>2. {"papers", "dispute"} \subseteq Kinds
  BY DEF Kinds, Statuses
<1>3. RowsInv'
  BY <1>1, <1>2, Gives, SameDesk DEF RowsInv, DeskInv
<1>4. PatientInv'
  BY <1>1, <1>2, SameDesk DEF DeskInv, PatientInv, Manned
<1>5. ShownInv' /\ CountsInv' /\ ActsInv'
  BY SameDesk DEF DeskInv, ShownInv, LoadOK, Cells, CountsInv, ActsInv, Got
<1>6. PairsInv' /\ KnownInv' /\ BusyInv'
  BY DEF DeskInv, PairsInv, Paired, Whole, KnownInv, BusyInv
<1>7. OwnInv' /\ AccountInv'
  BY SameDesk DEF DeskInv, OwnInv, Newest, AccountInv, Got
<1> QED BY <1>3, <1>4, <1>5, <1>6, <1>7 DEF DeskInv

LEMMA PassStep == DeskInv /\ Pass => DeskInv'
<1> SUFFICES ASSUME DeskInv, Pass PROVE DeskInv'
  OBVIOUS
<1>1. UNCHANGED <<desk, pageVars, acts, presses, fails>>
  BY DEF Pass
<1>2. PICK h \in Elsewhere \cup Setbacks :
        /\ Meets(h, row) /\ DOMAIN h.gives \subseteq Concern
        /\ IF desk.patient THEN row' = Over(h.gives, row) /\ UNCHANGED <<age, past, moves>> ELSE Moved(h.gives)
  BY DEF Pass
<1>3. UNCHANGED <<shown, loads, busy, mine, begun, spoilt, forgot>>
  BY <1>1 DEF pageVars
<1>4. CASE ~desk.patient
  <2>1. Later
    BY <1>1, <1>2, <1>3, <1>4, MovedLater
  <2>2. age' = age + 1 /\ age \in Nat
    BY <1>2, <1>4 DEF Moved, DeskInv, CountsInv
  <2>3. Begins({})
    BY <1>3 DEF Begins, DeskInv, CountsInv
  <2>4. DOMAIN mine' = desk.pages /\ \A p \in desk.pages : mine'[p] \in 0..age' /\ mine'[p] = mine[p]
    BY <1>3, <2>2 DEF DeskInv, CountsInv
  <2>5. BusyInv'
    BY <1>1, <1>3 DEF DeskInv, BusyInv
  <2> QED BY <1>1, <1>3, <1>4, <2>1, <2>3, <2>4, <2>5, QuietKeeps DEF DeskInv
<1>5. CASE desk.patient
  BY <1>1, <1>2, <1>3, <1>5, PatientStep
<1> QED BY <1>4, <1>5

LEMMA WorkStep ==
  ASSUME DeskInv, NEW p \in desk.pages, NEW call \in ApiCalls, Work(p, call)
  PROVE  DeskInv'
<1>1. /\ desk.patient /\ call \in Buttons(p, Fresh(p))
      /\ UNCHANGED <<desk, shown, loads, busy, mine, begun, spoilt, forgot, acts, age, past, presses>>
  BY DEF Work, pageVars
<1>2. PICK h \in API : h.call = call /\ Meets(h, row) /\ row' = Over(h.gives, row)
  BY DEF Work, Accepting
<1>3. p \in DOMAIN Reads /\ Staffed(desk.pages, Concern) /\ (row["dispute"] # "none" => "dispute" \in Concern)
  BY <1>1, Settings DEF DeskInv, PatientInv, Manned
<1>4. call = "raise" => p = "panel"
  BY <1>1, <1>3, ButtonsOf
<1>5. "dispute" \in DOMAIN h.gives => "dispute" \in Concern
  BY <1>2, <1>3, <1>4, Gives, AsksFor DEF Staffed, Open
<1> QED BY <1>1, <1>2, <1>5, PatientStep

LEMMA DeskStep == DeskInv /\ [DeskNext]_deskVars => DeskInv'
<1> SUFFICES ASSUME DeskInv, [DeskNext]_deskVars PROVE DeskInv'
  OBVIOUS
<1>1. CASE UNCHANGED deskVars
  <2>1. UNCHANGED <<desk, row, shown, loads, acts, busy, mine, begun, spoilt, forgot, age, past, presses>>
    BY <1>1 DEF deskVars, pageVars
  <2>2. RowsInv' /\ ShownInv' /\ CountsInv' /\ ActsInv'
    BY <2>1, SameDesk DEF DeskInv, RowsInv, CaseRow, Sound, ShownInv, LoadOK, Cells, CountsInv, ActsInv, Got
  <2>3. PatientInv' /\ PairsInv' /\ BusyInv'
    BY <2>1, SameDesk DEF DeskInv, PatientInv, Manned, PairsInv, Paired, Whole, BusyInv
  <2>4. KnownInv' /\ OwnInv' /\ AccountInv'
    BY <2>1, SameDesk, SameReadable DEF DeskInv, KnownInv, WasSo, OwnInv, Newest, AccountInv, Got
  <2> QED BY <2>1, <2>2, <2>3, <2>4 DEF DeskInv
<1>2. CASE Refresh
  BY <1>2, RefreshStep
<1>3. CASE Pass
  BY <1>3, PassStep
<1>4. ASSUME NEW a \in acts, Serve(a) PROVE DeskInv'
  BY <1>4, ServeStep
<1>5. ASSUME NEW p \in desk.pages, NEW call \in ApiCalls, Work(p, call) PROVE DeskInv'
  BY <1>5, WorkStep
<1>6. ASSUME NEW p \in desk.pages, NEW call \in ApiCalls, ~desk.patient, Press(p, call) PROVE DeskInv'
  BY <1>6, PressStep
<1> QED BY <1>1, <1>2, <1>3, <1>4, <1>5, <1>6 DEF DeskNext

(* The rows of a case agree with each other whatever the API makes of      *)
(* them, what a page or an answer shows was so when it was read, and every *)
(* call in flight is one whose button its page drew (act,                  *)
(* orders/[code]/page.tsx:86).                                             *)
THEOREM DeskSafe == DeskSpec => []DeskInv
<1>1. DeskInit => DeskInv
  BY DeskStarts
<1>2. DeskInv /\ [DeskNext]_deskVars => DeskInv'
  BY DeskStep
<1> QED BY <1>1, <1>2, PTL DEF DeskSpec

(* A page that has just been loaded offers nothing that the API then       *)
(* refuses, but for the refusals KnownRefusal names: the buttons of the    *)
(* pages against the guards of the services they call (transition,         *)
(* acceptQuote, placeOrders, open, markPaid, CatalogService).              *)
THEOREM DeskServes == DeskSpec => []ButtonsWork
<1>1. DeskInv => ButtonsWork
  BY AllOnward, Settings DEF DeskInv, PatientInv
<1> QED BY <1>1, DeskSafe, PTL

(* Nobody who works at the pages leaves a case where no button and no job  *)
(* moves it on: a status that one page leads to has a button on a page of  *)
(* somebody who takes part (supplier/page.tsx:470,                         *)
(* orders/[code]/page.tsx:233).  But for the cases KnownStranded names:    *)
(* tenders past their deadline (rfq.service.ts:80, 108) or whose quote     *)
(* expired (144), leads of other brokers.                                  *)
THEOREM DeskLeadsOn == DeskSpec => []NeverStranded
<1>1. DeskInv => NeverStranded
  BY AllOnward, Settings DEF DeskInv, PatientInv
<1> QED BY <1>1, DeskSafe, PTL

LEMMA TypeFrom == DeskInv => DeskTypeOK
<1> SUFFICES ASSUME DeskInv PROVE DeskTypeOK
  OBVIOUS
<1>1. desk \in Desks /\ \A k \in Kinds : row[k] \in Statuses[k] \cup {"none"}
  BY DEF DeskInv, RowsInv, CaseRow, Sound
<1>2. \A p \in desk.pages, k \in Kinds :
        k \in DOMAIN shown[p] => /\ shown[p][k].at \in Statuses[k] \cup {"none", "unread"}
                                /\ shown[p][k].as \in 0..age
  BY DEF DeskInv, ShownInv, Cells
<1>3. \A l \in loads : l.page \in desk.pages /\ Got(l) \subseteq KindsOf(l.page)
  BY DEF DeskInv, ShownInv, LoadOK
<1>4. \A a \in acts : a.page \in desk.pages /\ a.call \in ApiCalls
  BY DEF DeskInv, ActsInv
<1>5. busy \subseteq desk.pages /\ spoilt \subseteq desk.pages /\ forgot \subseteq desk.pages
  BY DEF DeskInv, BusyInv, CountsInv
<1> QED BY <1>1, <1>2, <1>3, <1>4, <1>5 DEF DeskTypeOK

LEMMA QueuesFrom == DeskInv => QueuesAreTrue
<1> SUFFICES ASSUME DeskInv, NEW p \in desk.pages \cap Queues, NEW k \in KindsOf(p)
             PROVE  \/ shown[p][k].at = "unread" \/ <<p, k, shown[p][k].at>> \in past
                    \/ p = "disputes" /\ p \in spoilt /\ shown[p][k].at = "none"
  BY DEF QueuesAreTrue
<1>1. DOMAIN shown[p] = KindsOf(p) /\ KindsOf(p) \subseteq Kinds
  BY Settings, ReadKinds DEF DeskInv, ShownInv
<1>2. CASE desk.patient
  BY <1>1, <1>2 DEF DeskInv, PatientInv
<1>3. CASE ~desk.patient
  BY <1>1, <1>3 DEF DeskInv, KnownInv, WasSo, So
<1> QED BY <1>2, <1>3

LEMMA OwnFrom == DeskInv => OwnActShown
BY DEF DeskInv, OwnInv, OwnActShown

LEMMA StaleStep ==
  ASSUME DeskInv, [DeskNext]_deskVars, NEW a \in acts \ acts', a.call \in DOMAIN Deciding, age' # age,
         NEW k \in Deciding[a.call]
  PROVE  a.seen[k] = row[k]
<1>1. age \in Nat /\ a.page \in DOMAIN Reads /\ a.call \in Buttons(a.page, a.seen)
      /\ (a.call = "accept" => a.seen["rfq"] \in {"QUOTING", "ACCEPTED"})
  BY Settings DEF DeskInv, CountsInv, ActsInv
<1>2. PICK b \in acts : Serve(b)
  BY DEF DeskNext, deskVars, pageVars, Refresh, Pass, Work, Press
<1>3. b = a
  BY <1>2 DEF Serve
<1>4. PICK h \in Accepting(a.call, row) : TRUE
  BY <1>2, <1>3 DEF Serve, Refused
<1>5. h \in API /\ h.call = a.call /\ Meets(h, row)
  BY <1>4 DEF Accepting
<1>6. row["order"] # "PREPARING"
  BY DEF DeskInv, RowsInv, CaseRow, Sound
<1>7. a.call \in {"cancel", "confirm", "ship", "accept", "raise", "submit", "contacted"}
  BY DEF Deciding
<1> QED BY <1>1, <1>5, <1>6, <1>7, ButtonsOf, AsksFor DEF Deciding

(* What a page shows is no trap: a failed request leaves the lists of the  *)
(* administrators as they were (admin/page.tsx:63-87), but that of the     *)
(* disputes, which it empties (admin-disputes.tsx:16); a page shows what   *)
(* its user did unless answers failed or overtook each other; and a call   *)
(* that one status alone accepts, pressed on what is no longer so, is      *)
(* refused.                                                                *)
THEOREM DeskIsTrue == DeskSpec => PagesAreTrue
<1>1. DeskInv => DeskTypeOK /\ QueuesAreTrue /\ OwnActShown
  BY TypeFrom, QueuesFrom, OwnFrom
<1>2. DeskInv /\ [DeskNext]_deskVars =>
        [\A a \in acts \ acts' :
           a.call \in DOMAIN Deciding /\ age' # age
             => \A k \in Deciding[a.call] : a.seen[k] = row[k]]_deskVars
  BY StaleStep
<1> QED BY <1>1, <1>2, DeskSafe, PTL DEF DeskSpec, PagesAreTrue, StaleIsRefused

(* The forms of payments, disputes and the account send one call at a      *)
(* time, as long as they stay on the page (busy, stripe-checkout.tsx:65    *)
(* and dispute-panel.tsx:52): the part of FormsHold that is an invariant.  *)
THEOREM DeskHolds == DeskSpec => []OneSubmission
<1>1. DeskInv => OneSubmission
  <2> SUFFICES ASSUME DeskInv, NEW a \in acts, NEW b \in acts,
                      a.page = b.page, a.page \in Forms \ forgot, a.call = b.call, a.call # "deliver"
               PROVE  a = b
    BY DEF OneSubmission
  <2>1. a.call \in Buttons(a.page, a.seen)
    BY DEF DeskInv, ActsInv
  <2>2. Disabling(a.page, a.call) /\ Disabling(b.page, b.call)
    BY <2>1 DEF Forms, Disabling, Guarded, Buttons, DetailButtons, Payment, Receipt, When
  <2> QED BY <2>2 DEF DeskInv, BusyInv
<1> QED BY <1>1, DeskSafe, PTL
=============================================================================
