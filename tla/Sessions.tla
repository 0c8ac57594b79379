------------------------------ MODULE Sessions ------------------------------
(***************************************************************************)
(* auth.service.ts and the browser's side of it, web/lib/api.ts: sign-in   *)
(* with and without a second factor, rotating refresh tokens, changes and  *)
(* resets of the password.  A browser has a jar of cookies that its tabs   *)
(* share; a tab refreshes once for all of its calls.  An access token      *)
(* verifies by itself and lapses at some time; no handler looks its owner  *)
(* up.  The thirty days of a session never pass.                           *)
(***************************************************************************)
EXTENDS Integers, Sequences, SequencesExt, FiniteSets

CONSTANTS
  Users, Internal,     \* accounts; those with an internal role
  Browsers, Owner,     \* Owner: who signs in with the browser
  Tabs, BrowserOf,
  Calls, TabOf,        \* calls of api() that a tab makes at once
  REFRESH_GRACE,       \* ticks of the clock
  Latency,             \* bound: ticks that a refresh takes to be answered
  MaxClock, MaxSessions, MaxTokens,   \* bounds
  Teams                \* bound: who acts in one behaviour

ASSUME SessionsAssumption ==
  /\ Internal \subseteq Users /\ Owner \in [Browsers -> Users]
  /\ BrowserOf \in [Tabs -> Browsers] /\ TabOf \in [Calls -> Tabs]
  /\ {REFRESH_GRACE, Latency, MaxClock, MaxSessions, MaxTokens} \subseteq Nat
  /\ IsFiniteSet(Browsers) /\ Cardinality(Browsers) <= MaxSessions   \* all are signed in
  /\ 2 * Latency <= REFRESH_GRACE   \* an answer takes half of the grace at most

VARIABLES
  clock,
  account,     \* User: status; erased, password, totp: whether deletedAt,
               \* passwordHash and totpSecretEnc are set
  ticket,      \* users with an MFA ticket that has not expired
  sessions,    \* rows of Session in the order of their creation
  resets,      \* rows of PasswordResetToken
  jar,         \* the cookies; refresh is the index of a session, 0: none
  signedIn,    \* getSession(): what the browser's local storage says
  refreshing,  \* refreshInFlight of a tab, with the handler that serves it
  calling,     \* what a call of api() waits for
  form,        \* the form a browser has submitted and its handler
  over,        \* history: the browser was signed out on purpose
  team         \* who acts in this behaviour

sessionVars ==
  <<clock, account, ticket, sessions, resets, jar, signedIn, refreshing, calling, form, over>>
unserved == <<clock, account, ticket, resets, form, over>>
untouched == <<clock, jar, signedIn, refreshing, calling, over>>

Free == [at |-> "free"]
Live == 0 - 1

AccountType ==
  [status : {"ACTIVE", "DISABLED"}, erased : BOOLEAN, password : BOOLEAN, totp : BOOLEAN]
RefreshType ==
  [at : {"read", "revoke", "issue", "answer"}, token : 0..MaxSessions, sent : Nat,
   new : 0..MaxSessions]
FormType ==
  [at : {"issue", "change"}] \cup [at : {"reset"}, token : 1..MaxTokens]

SessionsTypeOK ==
  /\ clock \in 0..MaxClock
  /\ account \in [Users -> AccountType]
  /\ ticket \subseteq Users
  /\ sessions \in Seq([user : Users, revoked : {Live} \cup Nat]) /\ Len(sessions) <= MaxSessions
  /\ resets \in Seq([user : Users, state : {"fresh", "used", "lapsed", "deleted"}])
  /\ Len(resets) <= MaxTokens
  /\ jar \in [Browsers -> [access : BOOLEAN, refresh : 0..MaxSessions]]
  /\ signedIn \in [Browsers -> BOOLEAN] /\ over \in [Browsers -> BOOLEAN]
  /\ refreshing \in [Tabs -> {Free} \cup RefreshType]
  /\ calling \in [Calls -> {"free", "refresh", "replay"}]
  /\ \A k \in Calls : calling[k] = "refresh" => refreshing[TabOf[k]] # Free
  /\ form \in [Browsers -> {Free} \cup FormType]
  /\ team \in Teams

(* Every browser is signed in.                                             *)
SessionsInit ==
  /\ clock = 0
  /\ account = [u \in Users |-> [status |-> "ACTIVE", erased |-> FALSE, password |-> TRUE, totp |-> FALSE]]
  /\ ticket = {} /\ resets = <<>>
  /\ LET signIns == SetToSeq(Browsers) IN
       /\ sessions = [i \in DOMAIN signIns |-> [user |-> Owner[signIns[i]], revoked |-> Live]]
       /\ jar = [b \in Browsers |->
                   [access |-> TRUE, refresh |-> CHOOSE i \in DOMAIN signIns : signIns[i] = b]]
  /\ signedIn = [b \in Browsers |-> TRUE] /\ over = [b \in Browsers |-> FALSE]
  /\ refreshing = [t \in Tabs |-> Free] /\ calling = [k \in Calls |-> "free"]
  /\ form = [b \in Browsers |-> Free]
  /\ team \in Teams

Issued(u) == Append(sessions, [user |-> u, revoked |-> Live])

(* updateMany where revokedAt is null.                                     *)
RevokedAll(u) ==
  [i \in DOMAIN sessions |->
     IF sessions[i].user = u /\ sessions[i].revoked = Live
     THEN [sessions[i] EXCEPT !.revoked = clock] ELSE sessions[i]]

BrowsersOf(u) == {b \in Browsers : Owner[b] = u}
Ended(u) == [b \in Browsers |-> over[b] \/ b \in BrowsersOf(u)]

----------------------------------------------------------------------------
(* Time                                                                    *)

Pending == {t \in Tabs : refreshing[t] # Free}

Tick ==
  /\ clock < MaxClock   \* bound
  /\ \A t \in Pending : clock < refreshing[t].sent + Latency
  /\ clock' = clock + 1
  /\ UNCHANGED <<account, ticket, sessions, resets, jar, signedIn, refreshing, calling, form, over, team>>

AccessExpires(b) ==
  /\ jar[b].access
  /\ jar' = [jar EXCEPT ![b].access = FALSE]
  /\ UNCHANGED <<clock, account, ticket, sessions, resets, signedIn, refreshing, calling, form, over, team>>

----------------------------------------------------------------------------
(* A call that is answered 401 refreshes once for its tab and is replayed  *)

(* refreshOnce: the request in flight is shared.                           *)
CallRefused(k) ==
  LET t == TabOf[k]
      b == BrowserOf[t]
  IN /\ k \in team /\ calling[k] = "free" /\ ~jar[b].access
     /\ calling' = [calling EXCEPT ![k] = "refresh"]
     /\ refreshing' = IF refreshing[t] # Free THEN refreshing
                      ELSE [refreshing EXCEPT ![t] =
                              [at |-> "read", token |-> jar[b].refresh, sent |-> clock, new |-> 0]]
     /\ UNCHANGED <<clock, account, ticket, sessions, resets, jar, signedIn, form, over, team>>

(* Mutant of BeyondGrace: the last moment of the grace is outside.         *)
BeyondGraceEarly(s) == s.revoked # Live /\ clock - s.revoked >= REFRESH_GRACE

BeyondGrace(s) == s.revoked # Live /\ clock - s.revoked > REFRESH_GRACE

RefreshRead(t) ==
  /\ refreshing[t].at = "read"
  /\ LET n == refreshing[t].token
         next == IF n = 0 \/ BeyondGrace(sessions[n]) THEN "answer"
                 ELSE IF sessions[n].revoked = Live THEN "revoke" ELSE "issue"
     IN refreshing' = [refreshing EXCEPT ![t].at = next]
  /\ UNCHANGED <<unserved, sessions, jar, signedIn, calling, team>>

(* By id, though another refresh may have revoked it since it was read.    *)
Rotated(n) == [sessions EXCEPT ![n].revoked = clock]

RefreshRevoke(t) ==
  /\ refreshing[t].at = "revoke"
  /\ sessions' = Rotated(refreshing[t].token)
  /\ refreshing' = [refreshing EXCEPT ![t].at = "issue"]
  /\ UNCHANGED <<unserved, jar, signedIn, calling, team>>

(* The user is read for the roles; neither status nor deletedAt is asked.  *)
RefreshIssue(t) ==
  /\ refreshing[t].at = "issue"
  /\ Len(sessions) < MaxSessions   \* bound
  /\ sessions' = Issued(sessions[refreshing[t].token].user)
  /\ refreshing' = [refreshing EXCEPT ![t].at = "answer", ![t].new = Len(sessions')]
  /\ UNCHANGED <<unserved, jar, signedIn, calling, team>>

(* The calls that share the refresh in flight.                             *)
Waiting(t) == {k \in Calls : TabOf[k] = t /\ calling[k] = "refresh"}

(* The answer sets the cookies; a refusal clears what the browser shows.   *)
RefreshAnswer(t) ==
  LET b == BrowserOf[t]
      new == refreshing[t].new
  IN /\ refreshing[t].at = "answer"
     /\ jar' = IF new = 0 THEN jar ELSE [jar EXCEPT ![b] = [access |-> TRUE, refresh |-> new]]
     /\ signedIn' = [signedIn EXCEPT ![b] = @ /\ new # 0]
     /\ calling' = [k \in Calls |->
          IF k \notin Waiting(t) THEN calling[k] ELSE IF new = 0 THEN "free" ELSE "replay"]
     /\ refreshing' = [refreshing EXCEPT ![t] = Free]
     /\ UNCHANGED <<unserved, sessions, team>>

(* The process restarts, or a query fails: fetch does not answer ok.       *)
RefreshCrash(t) ==
  /\ "crash" \in team   \* bound
  /\ refreshing[t].at \in {"read", "revoke", "issue"}
  /\ refreshing' = [refreshing EXCEPT ![t].at = "answer"]
  /\ UNCHANGED <<unserved, sessions, jar, signedIn, calling, team>>

(* Whatever the second answer is, the call is over.                        *)
CallReplayed(k) ==
  /\ calling[k] = "replay"
  /\ calling' = [calling EXCEPT ![k] = "free"]
  /\ UNCHANGED <<unserved, sessions, jar, signedIn, refreshing, team>>

----------------------------------------------------------------------------
(* Forms: what they read, then what they write                             *)

Submitted(b, next) == form' = [form EXCEPT ![b] = next]
Idle(b) == b \in team /\ form[b] = Free

Known(u) == account[u].status = "ACTIVE" /\ ~account[u].erased

(* login, with the right password.                                         *)
LoginRead(b) ==
  LET u == Owner[b] IN
  /\ Idle(b) /\ Known(u) /\ account[u].password
  /\ IF u \in Internal /\ account[u].totp
     THEN ticket' = ticket \cup {u} /\ UNCHANGED form
     ELSE Submitted(b, [at |-> "issue"]) /\ UNCHANGED ticket
  /\ UNCHANGED <<untouched, account, sessions, resets, team>>

MfaVerify(b) ==
  /\ Idle(b) /\ Owner[b] \in ticket /\ Known(Owner[b]) /\ account[Owner[b]].totp
  /\ Submitted(b, [at |-> "issue"])
  /\ UNCHANGED <<untouched, account, ticket, sessions, resets, team>>

TicketExpires(u) ==
  /\ u \in ticket
  /\ ticket' = ticket \ {u}
  /\ UNCHANGED <<untouched, account, sessions, resets, form, team>>

(* mfaEnable with the ticket of mfaSetup writes by id; mfaDisable asks for *)
(* the account, the password and the code.                                 *)
MfaEnable(b) ==
  /\ "mfa" \in team   \* bound
  /\ Idle(b) /\ jar[b].access
  /\ account' = [account EXCEPT ![Owner[b]].totp = TRUE]
  /\ UNCHANGED <<untouched, ticket, sessions, resets, form, team>>

MfaDisable(b) ==
  LET u == Owner[b] IN
  /\ Idle(b) /\ jar[b].access
  /\ ~account[u].erased /\ account[u].password /\ account[u].totp
  /\ account' = [account EXCEPT ![u].totp = FALSE]
  /\ UNCHANGED <<untouched, ticket, sessions, resets, form, team>>

ChangeRead(b) ==
  LET u == Owner[b] IN
  /\ Idle(b) /\ jar[b].access
  /\ ~account[u].erased /\ account[u].password
  /\ Submitted(b, [at |-> "change"])
  /\ UNCHANGED <<untouched, account, ticket, sessions, resets, team>>

ChangeWrite(b) ==
  LET u == Owner[b] IN
  /\ form[b].at = "change"
  /\ account' = [account EXCEPT ![u].password = TRUE]
  /\ sessions' = RevokedAll(u)
  /\ over' = Ended(u)
  /\ Submitted(b, [at |-> "issue"])
  /\ UNCHANGED <<clock, ticket, resets, jar, signedIn, refreshing, calling, team>>

ForgotPassword(u) ==
  /\ Known(u) /\ Len(resets) < MaxTokens   \* bound
  /\ resets' = Append(resets, [user |-> u, state |-> "fresh"])
  /\ UNCHANGED <<untouched, account, ticket, sessions, form, team>>

TokenExpires(r) ==
  /\ resets[r].state = "fresh"
  /\ resets' = [resets EXCEPT ![r].state = "lapsed"]
  /\ UNCHANGED <<untouched, account, ticket, sessions, form, team>>

ResetRead(b) ==
  /\ Idle(b)
  /\ \E r \in DOMAIN resets :
       resets[r].user = Owner[b] /\ resets[r].state = "fresh"
       /\ Submitted(b, [at |-> "reset", token |-> r])
  /\ UNCHANGED <<untouched, account, ticket, sessions, resets, team>>

(* The transaction fails when the row of the token is gone.                *)
ResetWrite(b) ==
  LET u == Owner[b]
      r == form[b].token
  IN /\ form[b].at = "reset"
     /\ IF resets[r].state = "deleted"
        THEN UNCHANGED <<account, sessions, resets, over>>
        ELSE /\ resets' = [resets EXCEPT ![r].state = "used"]
             /\ account' = [account EXCEPT ![u].password = TRUE]
             /\ sessions' = RevokedAll(u)
             /\ over' = Ended(u)
     /\ Submitted(b, Free)
     /\ UNCHANGED <<clock, ticket, jar, signedIn, refreshing, calling, team>>

(* issueTokens, and the answer that brings the cookies.  A refresh sent    *)
(* before may yet be refused and clear what the browser shows.             *)
SignIn(b) ==
  /\ form[b].at = "issue"
  /\ Len(sessions) < MaxSessions   \* bound
  /\ sessions' = Issued(Owner[b])
  /\ jar' = [jar EXCEPT ![b] = [access |-> TRUE, refresh |-> Len(sessions')]]
  /\ signedIn' = [signedIn EXCEPT ![b] = TRUE]
  /\ over' = [over EXCEPT ![b] = @ /\ b \in {BrowserOf[t] : t \in Pending}]
  /\ Submitted(b, Free)
  /\ UNCHANGED <<clock, account, ticket, resets, refreshing, calling, team>>

(* logout stamps the session again, a revoked one too.                     *)
Logout(b) ==
  /\ Idle(b) /\ signedIn[b]
  /\ sessions' = IF jar[b].refresh = 0 THEN sessions
                 ELSE [sessions EXCEPT ![jar[b].refresh].revoked = clock]
  /\ jar' = [jar EXCEPT ![b] = [access |-> FALSE, refresh |-> 0]]
  /\ signedIn' = [signedIn EXCEPT ![b] = FALSE]
  /\ over' = [over EXCEPT ![b] = TRUE]
  /\ UNCHANGED <<clock, account, ticket, resets, refreshing, calling, form, team>>

----------------------------------------------------------------------------
Acting(X) == team \cap X # {}

SessionsNext ==
  \/ Acting(Calls) /\ Tick
  \/ \E k \in Calls : CallRefused(k) \/ CallReplayed(k)
  \/ \E t \in Tabs :
       RefreshRead(t) \/ RefreshRevoke(t) \/ RefreshIssue(t) \/ RefreshAnswer(t) \/ RefreshCrash(t)
  \/ \E b \in Browsers :
       \/ Acting(Calls) /\ AccessExpires(b)
       \/ LoginRead(b) \/ MfaVerify(b) \/ MfaEnable(b) \/ MfaDisable(b)
       \/ ChangeRead(b) \/ ChangeWrite(b) \/ ResetRead(b) \/ ResetWrite(b)
       \/ SignIn(b) \/ Logout(b)
  \/ Acting(Browsers) /\ \E u \in Users : ForgotPassword(u) \/ TicketExpires(u)
  \/ \E r \in DOMAIN resets : TokenExpires(r)
=============================================================================
