----------------------------- MODULE Messaging -----------------------------
(***************************************************************************)
(* communication.service.ts: conversations that freeze when contact data   *)
(* is sent once too often; notifications, their push by                    *)
(* notification.gateway.ts and the bell that shows them.  A bell is a tab  *)
(* of one user.  The thirty days in which strikes count never pass.        *)
(***************************************************************************)
EXTENDS Outbox

CONSTANTS
  Senders, Writer, Topic,   \* requests to send: their user and conversation
  Participants,             \* who takes part in a conversation
  Exempt,                   \* users with a role of the staff
  SuperAdmins,
  Bells, Viewer,            \* tabs and their users
  MaxLate, MaxNotices, MaxDrops   \* bounds

ASSUME MessagingAssumption ==
  /\ Viewer \in [Bells -> SuperAdmins] /\ IsFiniteSet(Senders)
  /\ {MaxLate, MaxNotices, MaxDrops} \subseteq Nat

VARIABLES
  strikes,     \* rows of MessageBlockEvent of a user
  frozen,      \* conversations that are FROZEN
  late,        \* history: messages a conversation got after it froze
  sending,     \* the handlers of sendMessage
  notices,     \* rows of Notification: their user and their event
  telling,     \* what the listener of AccessEscalated has left to do
  sockets,     \* connections of a bell that the gateway knows
  bell,        \* the lists it asked for, how often it shows each notice, its connection
  reached      \* history: what was pushed to a session that did not show it yet,
               \* and no list that is older has replaced

chatVars == <<strikes, frozen, late, sending>>
noticeVars == <<notices, telling, sockets, bell, reached>>

BLOCK_FREEZE_THRESHOLD == 3

Writers == {Writer[s] : s \in Senders}
Topics == {Topic[s] : s \in Senders}

(* A list that was asked for; one that fails is one that never answers.    *)
Loads(known) == [at : {"none", "asked", "read"}, got : SUBSET known]
NoLoad == [at |-> "none", got |-> {}]

MessagingTypeOK ==
  /\ strikes \in [Writers -> Nat]
  /\ frozen \subseteq Topics
  /\ late \in [Topics -> 0..MaxLate]
  /\ sending \in [Senders -> {"free", "count", "freeze", "check", "post"}]
  /\ notices \in Seq([user : SuperAdmins, event : 1..MaxEvents]) /\ Len(notices) <= MaxNotices
  /\ telling \in [Ticks -> [left : SUBSET SuperAdmins, push : 0..Len(notices)]]
  /\ sockets \in [Bells -> Nat]
  /\ bell \in [Bells -> [on : BOOLEAN, loads : [0..MaxDrops -> Loads(DOMAIN notices)],
                         shows : [1..MaxNotices -> Nat],
                         connects : BOOLEAN, drops : 0..MaxDrops]]
  /\ reached \in [Bells -> SUBSET DOMAIN notices]

Showing(ns) == [n \in 1..MaxNotices |-> IF n \in ns THEN 1 ELSE 0]

MessagingInit ==
  /\ strikes = [u \in Writers |-> 0]
  /\ frozen = {} /\ late = [c \in Topics |-> 0]
  /\ sending = [s \in Senders |-> "free"]
  /\ notices = <<>>
  /\ telling = [t \in Ticks |-> [left |-> {}, push |-> 0]]
  /\ sockets = [b \in Bells |-> 0]
  /\ bell = [b \in Bells |-> [on |-> FALSE, loads |-> [k \in 0..MaxDrops |-> NoLoad],
                              shows |-> Showing({}), connects |-> FALSE, drops |-> 0]]
  /\ reached = [b \in Bells |-> {}]

----------------------------------------------------------------------------
(* Messages                                                                *)

Sends(s, next) == sending' = [sending EXCEPT ![s] = next]
MayWrite(s) == Writer[s] \in Participants \cup Exempt

(* Contact data in a message is recorded as a strike, ...                  *)
SendBlocked(s) ==
  /\ s \in team /\ sending[s] = "free"
  /\ MayWrite(s) /\ Writer[s] \notin Exempt
  /\ strikes[Writer[s]] < BLOCK_FREEZE_THRESHOLD + 1   \* bound
  /\ strikes' = [strikes EXCEPT ![Writer[s]] = @ + 1]
  /\ Sends(s, "count")
  /\ UNCHANGED <<frozen, late>>

(* Mutant of RecentBlocks: the strike being handled is not counted yet.    *)
RecentBlocksBefore(u) == strikes[u] - 1

RecentBlocks(u) == strikes[u]

(* ... the strikes of the user in all conversations are counted, ...       *)
SendCount(s) ==
  /\ sending[s] = "count"
  /\ Sends(s, IF RecentBlocks(Writer[s]) >= BLOCK_FREEZE_THRESHOLD THEN "freeze" ELSE "free")
  /\ UNCHANGED <<strikes, frozen, late>>

(* ... and this conversation is frozen; the message is refused.            *)
SendFreeze(s) ==
  /\ sending[s] = "freeze"
  /\ frozen' = frozen \cup {Topic[s]}
  /\ Sends(s, "free")
  /\ UNCHANGED <<strikes, late>>

(* A clean message, or one of the staff.                                   *)
SendClean(s) ==
  /\ s \in team /\ sending[s] = "free"
  /\ MayWrite(s)
  /\ Sends(s, "check")
  /\ UNCHANGED <<strikes, frozen, late>>

Refused(s) == Topic[s] \in frozen

SendCheck(s) ==
  /\ sending[s] = "check"
  /\ Sends(s, IF Refused(s) THEN "free" ELSE "post")
  /\ UNCHANGED <<strikes, frozen, late>>

(* The message is created, whatever became of the conversation.           *)
SendPost(s) ==
  /\ sending[s] = "post"
  /\ late[Topic[s]] < MaxLate   \* bound
  /\ late' = IF Topic[s] \in frozen THEN [late EXCEPT ![Topic[s]] = @ + 1] ELSE late
  /\ Sends(s, "free")
  /\ UNCHANGED <<strikes, frozen>>

ChatNext ==
  \E s \in Senders :
    \/ SendBlocked(s) \/ SendCount(s) \/ SendFreeze(s)
    \/ SendClean(s) \/ SendCheck(s) \/ SendPost(s)

----------------------------------------------------------------------------
(* Notifications                                                           *)

(* onAccessEscalated: every super admin ...                                *)
OnAccessEscalated(t) ==
  /\ Hears(t, "AccessEscalated")
  /\ telling' = [telling EXCEPT ![t] = [left |-> SuperAdmins, push |-> 0]]
  /\ UNCHANGED <<notices, sockets, bell, reached>>

Tells(t) ==
  dispatch[t].at = "listen" /\ Current(t).type = "AccessEscalated"

(* ... gets a row ...                                                      *)
NotifyUser(t) ==
  /\ Tells(t) /\ telling[t].push = 0 /\ Len(notices) < MaxNotices   \* bound
  /\ \E a \in telling[t].left :
       /\ notices' = Append(notices, [user |-> a, event |-> AtHand(t)])
       /\ telling' = [telling EXCEPT ![t] = [left |-> @.left \ {a}, push |-> Len(notices) + 1]]
  /\ UNCHANGED <<outboxVars, sockets, bell, reached>>

(* ... and a push on each of its open connections, which the bell adds to  *)
(* its items.                                                              *)
Push(t) ==
  LET n == telling[t].push
      online == {b \in Bells : Viewer[b] = notices[n].user /\ sockets[b] > 0}
  IN
  /\ Tells(t) /\ n # 0
  /\ bell' = [b \in Bells |->
       IF b \in online
       THEN [bell[b] EXCEPT !.shows = [bell[b].shows EXCEPT ![n] = bell[b].shows[n] + sockets[b]]]
       ELSE bell[b]]
  /\ reached' = [b \in Bells |->
       IF b \in online /\ bell[b].shows[n] = 0
       THEN reached[b] \cup {n} ELSE reached[b]]
  /\ telling' = [telling EXCEPT ![t].push = 0]
  /\ UNCHANGED <<outboxVars, notices, sockets>>

(* Mutant of Told: the dispatcher does not wait for the listener.          *)
ToldUnawaited(t) ==
  /\ Tells(t)
  /\ Goes(t, "mark")
  /\ UNCHANGED <<events, running, fails, noticeVars>>

Told(t) ==
  /\ Tells(t) /\ telling[t] = [left |-> {}, push |-> 0]
  /\ Goes(t, "mark")
  /\ UNCHANGED <<events, running, fails, noticeVars>>

----------------------------------------------------------------------------
(* The bell                                                                *)

(* A session starts: the list is asked for and a connection opened.  What  *)
(* the bell shows is not cleared now.                                      *)
BellOn(b) ==
  /\ b \in team /\ ~bell[b].on
  /\ bell' = [bell EXCEPT ![b].on = TRUE, ![b].connects = TRUE,
       ![b].loads = [@ EXCEPT ![bell[b].drops] = [at |-> "asked", got |-> {}]]]
  /\ UNCHANGED <<notices, telling, sockets, reached>>

ListRead(b, k) ==
  /\ bell[b].loads[k].at = "asked"
  /\ bell' = [bell EXCEPT ![b].loads = [@ EXCEPT ![k] =
       [at |-> "read", got |-> {n \in DOMAIN notices : notices[n].user = Viewer[b]}]]]
  /\ UNCHANGED <<notices, telling, sockets, reached>>

(* The answer replaces what was pushed in the meantime, also when its      *)
(* session is over and another one runs: nothing cancels it.               *)
ListAnswer(b, k) ==
  LET got == bell[b].loads[k].got IN
  /\ bell[b].loads[k].at = "read"
  /\ bell' = [bell EXCEPT ![b].loads = [@ EXCEPT ![k] = NoLoad], ![b].shows = Showing(got)]
  /\ reached' = [reached EXCEPT ![b] = @ \cap got]
  /\ UNCHANGED <<notices, telling, sockets>>

SocketOpen(b) ==
  /\ bell[b].connects
  /\ bell' = [bell EXCEPT ![b].connects = FALSE]
  /\ sockets' = [sockets EXCEPT ![b] = @ + 1]
  /\ UNCHANGED <<notices, telling, reached>>

(* A connection drops and is opened again after a while; the list is not.  *)
SocketDrops(b) ==
  /\ sockets[b] > 0 /\ bell[b].drops < MaxDrops   \* bound
  /\ sockets' = [sockets EXCEPT ![b] = @ - 1]
  /\ bell' = [bell EXCEPT ![b].connects = TRUE, ![b].drops = @ + 1]
  /\ UNCHANGED <<notices, telling, reached>>

Closed(b) == 0

(* The session ends: the items go, the connection is closed, a list that   *)
(* is still to come comes all the same.                                    *)
BellOff(b) ==
  /\ bell[b].on /\ bell[b].drops < MaxDrops   \* bound
  /\ sockets' = [sockets EXCEPT ![b] = Closed(b)]
  /\ bell' = [bell EXCEPT ![b].on = FALSE, ![b].shows = Showing({}),
       ![b].connects = FALSE, ![b].drops = @ + 1]
  /\ reached' = [reached EXCEPT ![b] = {}]
  /\ UNCHANGED <<notices, telling>>

BellNext ==
  \E b \in Bells :
    \/ BellOn(b) \/ SocketOpen(b) \/ SocketDrops(b) \/ BellOff(b)
    \/ \E k \in 0..MaxDrops : ListRead(b, k) \/ ListAnswer(b, k)
=============================================================================
