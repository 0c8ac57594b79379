------------------------------ MODULE Platform ------------------------------
(***************************************************************************)
(* What surrounds the trade: parties and their secrets, messages and       *)
(* notifications, the catalog with its translations, the trace of a        *)
(* product, the visibility of fields, and the outbox between them.  The    *)
(* actors of one behaviour are drawn by `team'; "fail" lets listeners      *)
(* throw, "cross" lets handlers overlap that are otherwise kept apart.     *)
(***************************************************************************)
EXTENDS Parties, Listings, Policies

deskVars == <<chatVars, noticeVars, registerVars, contactVars, accessVars>>
shelfVars == <<catalogVars, translationVars>>
vars == <<clock, team, outboxVars, deskVars, shelfVars, tracingVars, policyVars>>

TypeOK ==
  /\ OutboxTypeOK /\ MessagingTypeOK /\ PartiesTypeOK
  /\ ListingsTypeOK /\ TracingTypeOK /\ PoliciesTypeOK

Init ==
  /\ OutboxInit /\ MessagingInit /\ PartiesInit
  /\ ListingsInit /\ TracingInit /\ PoliciesInit

(* Time matters to grants, withdrawals and the cache.                      *)
Timed == SuperAdmins \cup Nurses \cup Readers

Tick ==
  /\ team \cap Timed # {} /\ clock < MaxClock /\ Answered   \* bound
  /\ clock' = clock + 1
  /\ UNCHANGED <<team, outboxVars, deskVars, shelfVars, tracingVars, policyVars>>

Deliver ==
  OutboxNext /\ UNCHANGED <<clock, team, deskVars, shelfVars, tracingVars, policyVars>>

Tell ==
  /\ \E t \in Ticks : OnAccessEscalated(t) \/ NotifyUser(t) \/ Push(t) \/ Told(t)
  /\ UNCHANGED <<clock, team, chatVars, registerVars, contactVars, accessVars, shelfVars,
                 tracingVars, policyVars>>

Ring ==
  /\ BellNext
  /\ UNCHANGED <<clock, team, outboxVars, chatVars, registerVars, contactVars, accessVars,
                 shelfVars, tracingVars, policyVars>>

Chat ==
  /\ ChatNext
  /\ UNCHANGED <<clock, team, outboxVars, noticeVars, registerVars, contactVars, accessVars,
                 shelfVars, tracingVars, policyVars>>

Register ==
  /\ RegisterNext
  /\ UNCHANGED <<clock, team, chatVars, noticeVars, contactVars, accessVars, shelfVars,
                 tracingVars, policyVars>>

Keep ==
  /\ KeepNext
  /\ UNCHANGED <<clock, team, outboxVars, chatVars, noticeVars, registerVars, accessVars,
                 shelfVars, tracingVars, policyVars>>

Escalate ==
  /\ AccessNext
  /\ UNCHANGED <<clock, team, chatVars, noticeVars, registerVars, contactVars, shelfVars,
                 tracingVars, policyVars>>

List ==
  /\ CatalogNext
  /\ UNCHANGED <<clock, team, deskVars, translationVars, tracingVars, policyVars>>

Translate ==
  /\ TranslationNext
  /\ UNCHANGED <<clock, team, deskVars, catalogVars, tracingVars, policyVars>>

Trace ==
  TracingNext /\ UNCHANGED <<clock, team, outboxVars, deskVars, shelfVars, policyVars>>

Filter ==
  PoliciesNext /\ UNCHANGED <<clock, team, outboxVars, deskVars, shelfVars, tracingVars>>

Next ==
  \/ Tick \/ Deliver \/ Tell \/ Ring \/ Chat \/ Register \/ Keep \/ Escalate
  \/ List \/ Translate \/ Trace \/ Filter

Spec == Init /\ [][Next]_vars

(* The interval fires every two seconds and the event loop runs what is    *)
(* due; failures and restarts are not forever.                             *)
Dispatching ==
  \/ Deliver \/ Tell
  \/ /\ \E t \in Ticks : OnProductPublished(t) \/ LookForExisting(t) \/ StoreDraft(t) \/ Drafted(t)
     /\ UNCHANGED <<clock, team, deskVars, catalogVars, tracingVars, policyVars>>

FairSpec == Spec /\ WF_vars(Dispatching)

----------------------------------------------------------------------------
(* Every event is published in the end: a dispatch that throws gives the   *)
(* flag back (`finally'), and what was lost is fetched again.              *)
AllPublished ==
  \A i \in 1..MaxEvents :
    (i \in DOMAIN events /\ team \cap Ticks # {}) ~> (i \in DOMAIN events /\ events[i].published)

(* An escalation counts as published only when every super admin has been  *)
(* told (`an escalation must be copied at once'), restarts or not, as long *)
(* as no listener throws.                                                  *)
EscalationTold ==
  "fail" \notin team =>
    \A i \in DOMAIN events :
      events[i].type = "AccessEscalated" /\ events[i].published =>
        \A a \in SuperAdmins : \E n \in DOMAIN notices : notices[n] = [user |-> a, event |-> i]

(* What is pushed to a session that does not show it yet shows up in it    *)
(* exactly once, whatever connections dropped or sessions ended before,    *)
(* until a list that was read before the notice answers: of this session   *)
(* or of one that is over, it replaces the items (notification-bell.tsx,   *)
(* load).                                                                  *)
ShownOnce ==
  \A b \in Bells : \A n \in reached[b] : bell[b].shows[n] = 1

(* The third strike freezes a conversation, however the strikes of a user  *)
(* overlap (BLOCK_FREEZE_THRESHOLD).                                       *)
ThirdStrikeFreezes ==
  \A u \in Writers :
    /\ strikes[u] >= BLOCK_FREEZE_THRESHOLD
    /\ \A s \in Senders : Writer[s] = u => sending[s] \notin {"count", "freeze"}
    => \E s \in Senders : Writer[s] = u /\ Topic[s] \in frozen

(* After it is frozen a conversation gets no more messages than were past  *)
(* the check at that time, one of each request but the one that froze it.  *)
FrozenIsQuiet ==
  \A c \in Topics : late[c] <= Cardinality({s \in team \cap Senders : Topic[s] = c}) - 1
                    \/ late[c] = 0

(* Registrations never meet in the codes: who is refused has an address    *)
(* that is taken.                                                          *)
CodesNeverCollide == \A r \in Registrars : registering[r].at # "failed"

(* An organisation has one primary contact at most, unless two are added   *)
(* at once.                                                                *)
OnePrimary ==
  Cardinality(team \cap Keepers) <= 1 =>
    Cardinality({i \in DOMAIN contacts : contacts[i].live /\ contacts[i].primary}) <= 1

(* But for the list of the parties, confidential fields are read within    *)
(* the window of a grant, and those of high sensitivity only of one that a *)
(* super admin gave.  The list shows the numbers of registration and of    *)
(* tax, both of high sensitivity, with no grant, although these fields     *)
(* `must go through an escalation' (party.service.ts:9); the legal         *)
(* representative and the address are never in it.                         *)
ViewsAreGranted ==
  \A v \in seen :
    \/ v.escalation = 0 /\ v.field \in ListedFields
    \/ \E g \in granted :
         /\ g.escalation = v.escalation
         /\ v.at \in g.at..g.at + Window
         /\ v.field \in HighFields => g.by # "rule"

(* What is listed was looked at (`so that key facts are not swapped after  *)
(* listing', updateProduct).                                               *)
PublishedIsReviewed ==
  \A p \in Products : product[p].status = "ACTIVE" => product[p].text = approved[p]

(* It holds while nobody edits a product that is being looked at.          *)
ReviewedUnlessCrossed == "cross" \notin team => PublishedIsReviewed

(* A text that somebody has reviewed is never a machine draft again: the   *)
(* check for an existing row and the draft are two steps, but no second    *)
(* dispatch runs between them.                                             *)
ReviewedStays ==
  [][\A row \in DOMAIN translation :
       translation[row].status = "REVIEWED" => translation'[row].status = "REVIEWED"]_vars

(* Nothing was processed before the end of a medication on record, while   *)
(* none is recorded in the middle of it.                                   *)
ProcessedAfterWithdrawal ==
  "cross" \notin team => \A b \in DOMAIN batches : batches[b].day >= batches[b].until

(* A change of the policies is in force when the cache has lapsed, also    *)
(* for rows that were read before it and cached after it.                  *)
PolicyInForce ==
  LET effects == {policy[role] : role \in applied.roles \cup {"*"}} \ {"none"} IN
  applied.at >= changed + CACHE_TTL + Latency =>
    applied.effect =
      IF effects = {} \/ "ALLOW" \in effects THEN "ALLOW"
      ELSE IF "MASK" \in effects THEN "MASK" ELSE "DENY"

(* What must be known arrives: every super admin is told, and the bell     *)
(* shows it once.                                                          *)
NoticesArrive == TypeOK /\ EscalationTold /\ ShownOnce

(* A freeze comes with the third strike, and then holds.                   *)
FreezeHolds == ThirdStrikeFreezes /\ FrozenIsQuiet

(* Parties and their secrets: codes do not collide, contacts have a first  *)
(* one at most, and confidential fields are read by grant or in the list.  *)
PartiesKept == CodesNeverCollide /\ OnePrimary /\ ViewsAreGranted

(* What is checked before it is written holds afterwards, as long as no    *)
(* two handlers of one row cross.                                          *)
GuardsHold == ReviewedUnlessCrossed /\ ProcessedAfterWithdrawal
=============================================================================
