--------------------------- MODULE PlatformSafety ---------------------------
(***************************************************************************)
(* What surrounds the trade is kept, for any numbers of users, products,   *)
(* firings and events: TypeOK and the safety properties of Platform.  The  *)
(* parts share no variable but the outbox, the clock and the team, so the  *)
(* invariant is a conjunction of one part for each, and a step of one part *)
(* changes nothing that the others speak of.                               *)
(***************************************************************************)
EXTENDS Platform, Sums

(* One dispatch at most is going on.                                       *)
OneDispatch ==
  /\ \A t \in Ticks : dispatch[t] # Free => running
  /\ \A t, u \in Ticks : dispatch[t] # Free /\ dispatch[u] # Free => t = u

(* What is published is a product.                                         *)
AboutProducts ==
  \A i \in DOMAIN events : events[i].type = "ProductPublished" => events[i].about \in Products

(* Whom the listener of an escalation has not on its list any more has a   *)
(* notice, and everyone has one when the event is about to be marked.      *)
Notified(a, i) == \E n \in DOMAIN notices : notices[n] = [user |-> a, event |-> i]
AdminsTold ==
  \A t \in Ticks :
    /\ Tells(t) => \A a \in SuperAdmins : a \in telling[t].left \/ Notified(a, AtHand(t))
    /\ /\ dispatch[t].at = "mark" /\ Current(t).type = "AccessEscalated"
       /\ "fail" \notin team
       => \A a \in SuperAdmins : Notified(a, AtHand(t))

(* A notice is pushed by one firing at most and was not pushed before; a   *)
(* bell has one connection at most, open or to be opened.                  *)
PushedOnce ==
  \A t \in Ticks :
    /\ \A b \in Bells : telling[t].push \notin reached[b]
    /\ \A u \in Ticks : telling[t].push # 0 /\ telling[t].push = telling[u].push => t = u
OneSocket ==
  \A b \in Bells :
    /\ ~bell[b].on => sockets[b] = 0 /\ ~bell[b].connects
    /\ sockets[b] <= IF bell[b].connects THEN 0 ELSE 1
BellsInv == PushedOnce /\ OneSocket /\ ShownOnce

(* A user with three strikes has a handler that will count them or has a   *)
(* frozen conversation.                                                    *)
StrikesHandled ==
  \A u \in Writers : strikes[u] >= BLOCK_FREEZE_THRESHOLD =>
    \E s \in Senders : Writer[s] = u /\ (sending[s] \in {"count", "freeze"} \/ Topic[s] \in frozen)

(* The messages a frozen conversation got and may still get leave out one  *)
(* request, that of the strike that froze it.                              *)
On(c) == {s \in team \cap Senders : Topic[s] = c}
Posting(c) == {s \in Senders : sending[s] = "post" /\ Topic[s] = c}
FrozenLeavesOne ==
  /\ \A s \in Senders : sending[s] # "free" => s \in team
  /\ \A c \in Topics :
       IF c \in frozen THEN late[c] + Cardinality(Posting(c)) < Cardinality(On(c)) ELSE late[c] = 0
ChatInv == StrikesHandled /\ FrozenLeavesOne

(* The rule of the codes is locked by one transaction, which is ahead of   *)
(* all codes in use.                                                       *)
CodesAhead ==
  /\ \A i \in DOMAIN parties : parties[i].code <= currentSeq
  /\ \A r \in Registrars : registering[r].at = "create" =>
       /\ registering[r].code > currentSeq
       /\ \A s \in Registrars : registering[s].at = "create" => s = r

(* A request that has demoted the primary contacts finds none when it is   *)
(* alone.                                                                  *)
Primaries == {i \in DOMAIN contacts : contacts[i].live /\ contacts[i].primary}
FirstIsFree ==
  /\ \A k \in Keepers : keeping[k] = "create" => k \in team
  /\ (\A k, l \in team \cap Keepers : k = l) =>
       /\ \A i, j \in Primaries : i = j
       /\ \A k \in Keepers : keeping[k] = "create" => Primaries = {}

(* An approved escalation runs out one window after the grant it rests on. *)
GrantOf(e, g) ==
  /\ g.escalation = e /\ g.at <= clock
  /\ escalations[e].until = g.at + Window
  /\ IsHigh(escalations[e].fields) => g.by # "rule"
ApprovedByGrant ==
  \A e \in DOMAIN escalations : escalations[e].status = "APPROVED" =>
    \E g \in granted : GrantOf(e, g)
PartiesInv == CodesAhead /\ CodesNeverCollide /\ FirstIsFree /\ ApprovedByGrant /\ ViewsAreGranted

(* Unless handlers cross, nobody edits while somebody looks, who looks     *)
(* sees the product as it is, and who edits a listed product has seen that *)
(* it is listed.                                                           *)
LooksAndEdits ==
  "cross" \notin team =>
    /\ \A e \in Editors, c \in Reviewers : editing[e] = Free \/ reviewing[c] = Free
    /\ \A c \in Reviewers : reviewing[c] # Free =>
         /\ product[reviewing[c].product].status # "none"
         /\ product[reviewing[c].product].text = reviewing[c].text
    /\ \A e \in Editors : editing[e].at = "update" /\ product[EditorOf[e]].status = "ACTIVE" =>
         editing[e].status = "ACTIVE"
CatalogInv == LooksAndEdits /\ ReviewedUnlessCrossed

(* The listener that waits for the model has found no row.                 *)
NoRowYet ==
  \A t \in Ticks : Drafting(t, "llm") => translation[<<Current(t).about, drafting[t].into>>] = NoRow

(* Unless handlers cross, the medications have ended when a batch is being *)
(* made.                                                                   *)
CareEnded ==
  "cross" \notin team =>
    \A w \in Butchers : processing[w] = "create" => \A i \in DOMAIN care : care[i] <= clock
TracingInv == CareEnded /\ ProcessedAfterWithdrawal

(* Rows that are not those of the policy were asked for before it changed, *)
(* and an answer takes no longer than the latency.                         *)
StaleWasEarly ==
  /\ \A r \in Readers : reading[r] # Free =>
       /\ reading[r].sent <= clock /\ clock <= reading[r].sent + Latency
       /\ reading[r].at = "store" /\ reading[r].rows # policy => reading[r].sent <= changed
  /\ cache.at <= clock /\ changed <= clock /\ applied.at <= clock
  /\ cache # Uncached /\ cache.rows # policy => cache.at <= changed + Latency
  /\ applied.at < changed + CACHE_TTL + Latency \/ applied.effect = Effective(policy, applied.roles)

PlatformInv ==
  /\ TypeOK /\ OneDispatch /\ AboutProducts /\ AdminsTold /\ EscalationTold /\ BellsInv
  /\ ChatInv /\ PartiesInv /\ CatalogInv /\ NoRowYet /\ TracingInv /\ StaleWasEarly

----------------------------------------------------------------------------
(* Which part takes a step                                                 *)

LEMMA Assumptions ==
  /\ BatchSize \in Nat \ {0} /\ MaxClock \in Nat /\ MaxEvents \in Nat /\ MaxFails \in Nat
  /\ Viewer \in [Bells -> SuperAdmins] /\ IsFiniteSet(Senders)
  /\ MaxLate \in Nat /\ MaxNotices \in Nat /\ MaxDrops \in Nat
  /\ JumpMax \in Nat \ {0} /\ Window \in Nat \ {0}
  /\ "rule" \notin SuperAdmins /\ IsFiniteSet(Keepers)
  /\ Products \subseteq Nat /\ EditorOf \in [Editors -> Products] /\ MaxTexts \in Nat \ {0}
  /\ "*" \in Roles /\ RolesOf \in [Readers -> SUBSET Roles]
  /\ CACHE_TTL \in Nat \ {0} /\ Latency \in Nat /\ MaxChanges \in Nat
  BY OutboxAssumption, MessagingAssumption, PartiesAssumption, ListingsAssumption,
     PoliciesAssumption
  DEF OutboxAssumption, MessagingAssumption, PartiesAssumption, ListingsAssumption,
      PoliciesAssumption

(* The steps of the parts that have the outbox to themselves at most.      *)
LEMMA PartSteps ==
  ASSUME [Next]_vars
  PROVE  /\ team' = team
         /\ clock' = clock \/ (clock < MaxClock /\ clock' = clock + 1 /\ Answered)
         /\ ChatNext \/ UNCHANGED chatVars
         /\ RegisterNext \/ UNCHANGED registerVars
         /\ KeepNext \/ UNCHANGED contactVars
         /\ (AccessNext /\ clock' = clock) \/ UNCHANGED accessVars
         /\ CatalogNext \/ UNCHANGED catalogVars
         /\ (TracingNext /\ clock' = clock) \/ UNCHANGED tracingVars
         /\ (PoliciesNext /\ clock' = clock) \/ UNCHANGED policyVars
<1>1. CASE UNCHANGED vars BY <1>1 DEF vars, deskVars, shelfVars
<1>2. CASE Tick BY <1>2 DEF Tick, deskVars, shelfVars
<1>3. CASE Deliver BY <1>3 DEF Deliver, deskVars, shelfVars
<1>4. CASE Tell BY <1>4 DEF Tell, shelfVars
<1>5. CASE Ring BY <1>5 DEF Ring, shelfVars
<1>6. CASE Chat BY <1>6 DEF Chat, shelfVars
<1>7. CASE Register BY <1>7 DEF Register, shelfVars
<1>8. CASE Keep BY <1>8 DEF Keep, shelfVars
<1>9. CASE Escalate BY <1>9 DEF Escalate, shelfVars
<1>10. CASE List BY <1>10 DEF List, deskVars
<1>11. CASE Translate BY <1>11 DEF Translate, deskVars
<1>12. CASE Trace BY <1>12 DEF Trace, deskVars, shelfVars
<1>13. CASE Filter BY <1>13 DEF Filter, deskVars, shelfVars
<1> QED
  BY <1>1, <1>2, <1>3, <1>4, <1>5, <1>6, <1>7, <1>8, <1>9, <1>10, <1>11, <1>12, <1>13 DEF Next

(* What is emitted: the types and numbers that listeners can rely on.      *)
Emits ==
  \E type \in EventTypes, about \in Nat :
    Emit(type, about) /\ (type = "ProductPublished" => about \in Products)

(* The steps that change the outbox, the notices or the translations.      *)
LEMMA DeliverySteps ==
  ASSUME TypeOK, [Next]_vars
  PROVE  \/ OutboxNext /\ UNCHANGED <<noticeVars, translationVars>>
         \/ /\ \E t \in Ticks : OnAccessEscalated(t) \/ NotifyUser(t) \/ Push(t) \/ Told(t)
            /\ UNCHANGED translationVars
         \/ BellNext /\ UNCHANGED <<outboxVars, translationVars>>
         \/ TranslationNext /\ UNCHANGED <<noticeVars, catalogVars>>
         \/ Emits /\ UNCHANGED <<noticeVars, translationVars>>
         \/ UNCHANGED <<outboxVars, noticeVars, translationVars>>
<1>1. CASE UNCHANGED vars BY <1>1 DEF vars, deskVars, shelfVars
<1>2. CASE Tick BY <1>2 DEF Tick, deskVars, shelfVars
<1>3. CASE Deliver BY <1>3 DEF Deliver, deskVars, shelfVars
<1>4. CASE Tell BY <1>4 DEF Tell, shelfVars
<1>5. CASE Ring BY <1>5 DEF Ring, shelfVars
<1>6. CASE Chat BY <1>6 DEF Chat, shelfVars
<1>7. CASE Register
  <2>1. UNCHANGED <<noticeVars, translationVars>> BY <1>7 DEF Register, shelfVars
  <2>2. CASE \E r \in Registrars : RegisterCheck(r) \/ RegisterCode(r)
    BY <2>1, <2>2 DEF RegisterCheck, RegisterCode
  <2>3. CASE \E r \in Registrars : RegisterCreate(r)
    <3>1. Len(parties) + 1 \in Nat BY DEF TypeOK, PartiesTypeOK
    <3>2. UNCHANGED outboxVars \/ Emit("PartyRegistered", Len(parties) + 1)
      BY <2>3 DEF RegisterCreate
    <3> QED BY <2>1, <3>1, <3>2 DEF Emits, EventTypes
  <2>4. CASE \E c \in Clerks, i \in DOMAIN parties, status \in {"ACTIVE", "INACTIVE"} :
                Approve(c, i, status)
    <3>1. PICK i \in DOMAIN parties : Emit("PartyApproved", i) \/ Emit("PartyRejected", i)
      BY <2>4 DEF Approve
    <3>2. i \in Nat BY DEF TypeOK, PartiesTypeOK
    <3> QED BY <2>1, <3>1, <3>2 DEF Emits, EventTypes
  <2> QED BY <1>7, <2>2, <2>3, <2>4 DEF Register, RegisterNext
<1>8. CASE Keep BY <1>8 DEF Keep, shelfVars
<1>9. CASE Escalate
  <2>1. UNCHANGED <<noticeVars, translationVars>> BY <1>9 DEF Escalate, shelfVars
  <2>2. Len(escalations) + 1 \in Nat BY DEF TypeOK, PartiesTypeOK
  <2>3. UNCHANGED outboxVars \/ Emit("AccessEscalated", Len(escalations) + 1)
    BY <1>9 DEF Escalate, AccessNext, RequestEscalation, DecideEscalation, ViewSensitive,
                 ListParties
  <2> QED BY <2>1, <2>2, <2>3 DEF Emits, EventTypes
<1>10. CASE List
  <2>1. UNCHANGED <<noticeVars, translationVars>> BY <1>10 DEF List, deskVars
  <2>2. CASE \E e \in Editors : CreateProduct(e) \/ EditStart(e) \/ EditWrite(e) \/ SubmitWrite(e)
    BY <2>1, <2>2 DEF CreateProduct, EditStart, EditWrite, SubmitWrite
  <2>3. CASE \E c \in Reviewers : ReviewLook(c) \/ ReviewReject(c)
    BY <2>1, <2>3 DEF ReviewLook, ReviewReject
  <2>4. CASE \E c \in Reviewers : ReviewApprove(c)
    <3>1. PICK c \in Reviewers : ReviewApprove(c) BY <2>4
    <3>2. reviewing[c] # Free BY <3>1 DEF ReviewApprove, Free
    <3>3. reviewing[c].product \in Products BY <3>2 DEF TypeOK, ListingsTypeOK
    <3>4. Emit("ProductPublished", reviewing[c].product) BY <3>1 DEF ReviewApprove
    <3>5. reviewing[c].product \in Nat BY <3>3, Assumptions
    <3> QED BY <2>1, <3>3, <3>4, <3>5 DEF Emits, EventTypes
  <2> QED BY <1>10, <2>2, <2>3, <2>4 DEF List, CatalogNext
<1>11. CASE Translate BY <1>11 DEF Translate, deskVars
<1>12. CASE Trace BY <1>12 DEF Trace, deskVars, shelfVars
<1>13. CASE Filter BY <1>13 DEF Filter, deskVars, shelfVars
<1> QED
  BY <1>1, <1>2, <1>3, <1>4, <1>5, <1>6, <1>7, <1>8, <1>9, <1>10, <1>11, <1>12, <1>13 DEF Next

----------------------------------------------------------------------------
(* Conversations                                                           *)

(* Conversations and their handlers keep their types.                      *)
LEMMA ChatTypes ==
  ASSUME TypeOK, [Next]_vars
  PROVE  /\ strikes' \in [Writers -> Nat] /\ frozen' \subseteq Topics
         /\ late' \in [Topics -> 0..MaxLate]
         /\ sending' \in [Senders -> {"free", "count", "freeze", "check", "post"}]
<1> USE DEF TypeOK, MessagingTypeOK
<1>1. CASE UNCHANGED chatVars BY <1>1 DEF chatVars
<1>2. CASE ChatNext
  <2>1. PICK s \in Senders :
          \/ SendBlocked(s) \/ SendCount(s) \/ SendFreeze(s)
          \/ SendClean(s) \/ SendCheck(s) \/ SendPost(s)
    BY <1>2 DEF ChatNext
  <2>2. Writer[s] \in Writers /\ Topic[s] \in Topics BY DEF Writers, Topics
  <2>3. CASE SendBlocked(s) BY <2>2, <2>3 DEF SendBlocked, Sends
  <2>4. CASE SendCount(s) BY <2>4 DEF SendCount, Sends
  <2>5. CASE SendFreeze(s) BY <2>2, <2>5 DEF SendFreeze, Sends
  <2>6. CASE SendClean(s) BY <2>6 DEF SendClean, Sends
  <2>7. CASE SendCheck(s) BY <2>7 DEF SendCheck, Sends
  <2>8. CASE SendPost(s)
    <3>1. late[Topic[s]] + 1 \in 0..MaxLate BY <2>2, <2>8, Assumptions DEF SendPost
    <3>2. late' \in [Topics -> 0..MaxLate] BY <2>2, <2>8, <3>1 DEF SendPost
    <3> QED BY <2>8, <3>2 DEF SendPost, Sends
  <2> QED BY <2>1, <2>3, <2>4, <2>5, <2>6, <2>7, <2>8
<1> QED BY <1>1, <1>2, PartSteps

(* The third strike freezes: the handler that records it counts it later,  *)
(* and the one that counts three freezes later.                            *)
LEMMA StrikesStep ==
  ASSUME TypeOK, StrikesHandled, [Next]_vars
  PROVE  StrikesHandled'
<1> USE DEF TypeOK, MessagingTypeOK
<1>1. CASE UNCHANGED chatVars BY <1>1 DEF chatVars, StrikesHandled
<1>2. CASE ChatNext
  <2>1. PICK s \in Senders :
          \/ SendBlocked(s) \/ SendCount(s) \/ SendFreeze(s)
          \/ SendClean(s) \/ SendCheck(s) \/ SendPost(s)
    BY <1>2 DEF ChatNext
  <2>2. Writer[s] \in Writers BY DEF Writers
  <2> SUFFICES ASSUME NEW u \in Writers, strikes'[u] >= BLOCK_FREEZE_THRESHOLD
               PROVE  \E r \in Senders : /\ Writer[r] = u
                                         /\ sending'[r] \in {"count", "freeze"} \/ Topic[r] \in frozen'
    BY DEF StrikesHandled
  <2>3. frozen \subseteq frozen'
    BY <2>1 DEF SendBlocked, SendCount, SendFreeze, SendClean, SendCheck, SendPost
  <2>4. \A r \in Senders \ {s} : sending'[r] = sending[r]
    BY <2>1 DEF SendBlocked, SendCount, SendFreeze, SendClean, SendCheck, SendPost, Sends
  <2>5. CASE u = Writer[s] /\ sending'[s] \in {"count", "freeze"} BY <2>5
  <2>6. CASE u = Writer[s] /\ SendFreeze(s) BY <2>6 DEF SendFreeze
  <2>7. CASE strikes'[u] = strikes[u] /\ (u # Writer[s] \/ sending[s] \notin {"count", "freeze"})
    <3>1. PICK r \in Senders : Writer[r] = u /\ (sending[r] \in {"count", "freeze"} \/ Topic[r] \in frozen)
      BY <2>7 DEF StrikesHandled
    <3>2. CASE Topic[r] \in frozen BY <2>3, <3>1, <3>2
    <3>3. CASE r # s BY <2>3, <2>4, <3>1, <3>3
    <3>4. CASE r = s /\ Topic[r] \notin frozen BY <2>7, <3>1, <3>4
    <3> QED BY <3>2, <3>3, <3>4
  <2>8. CASE SendBlocked(s) BY <2>2, <2>5, <2>7, <2>8 DEF SendBlocked, Sends
  <2>9. CASE SendCount(s) BY <2>5, <2>7, <2>9 DEF SendCount, Sends, RecentBlocks
  <2>10. CASE SendFreeze(s) BY <2>6, <2>7, <2>10 DEF SendFreeze
  <2>11. CASE SendClean(s) BY <2>7, <2>11 DEF SendClean
  <2>12. CASE SendCheck(s) BY <2>7, <2>12 DEF SendCheck
  <2>13. CASE SendPost(s) BY <2>7, <2>13 DEF SendPost
  <2> QED BY <2>1, <2>8, <2>9, <2>10, <2>11, <2>12, <2>13
<1> QED BY <1>1, <1>2, PartSteps

(* A request that is through with a conversation makes room for itself.    *)
LEMMA PostingChanges ==
  ASSUME TypeOK, FrozenLeavesOne, NEW c \in Topics, NEW s \in Senders,
         \A r \in Senders \ {s} : sending'[r] = sending[r]
  PROVE  /\ IsFiniteSet(On(c)) /\ IsFiniteSet(Posting(c)) /\ IsFiniteSet(Posting(c)')
         /\ Cardinality(On(c)) \in Nat /\ Cardinality(Posting(c)) \in Nat
         /\ Cardinality(Posting(c)') \in Nat
         /\ Posting(c) \subseteq On(c)
         /\ sending'[s] # "post" => Posting(c)' = Posting(c) \ {s}
<1>1. On(c) \subseteq Senders /\ Posting(c) \subseteq Senders /\ Posting(c)' \subseteq Senders
  BY DEF On, Posting
<1>2. IsFiniteSet(On(c)) /\ IsFiniteSet(Posting(c)) /\ IsFiniteSet(Posting(c)')
  BY <1>1, Assumptions, FS_Subset
<1>3. Posting(c) \subseteq On(c) BY DEF On, Posting, FrozenLeavesOne
<1>4. sending'[s] # "post" => Posting(c)' = Posting(c) \ {s} BY DEF Posting
<1> QED BY <1>2, <1>3, <1>4, FS_CardinalityType

(* A frozen conversation takes what was past the check, which the request  *)
(* that froze it was not.                                                  *)
LEMMA FrozenStep ==
  ASSUME TypeOK, FrozenLeavesOne, [Next]_vars
  PROVE  FrozenLeavesOne'
<1> USE DEF TypeOK, MessagingTypeOK
<1>1. CASE UNCHANGED chatVars
  <2>1. team' = team BY PartSteps
  <2>2. \A c : Posting(c)' = Posting(c) /\ On(c)' = On(c) BY <1>1, <2>1 DEF chatVars, Posting, On
  <2> QED BY <1>1, <2>1, <2>2 DEF chatVars, FrozenLeavesOne
<1>2. CASE ChatNext
  <2>1. PICK s \in Senders :
          \/ SendBlocked(s) \/ SendCount(s) \/ SendFreeze(s)
          \/ SendClean(s) \/ SendCheck(s) \/ SendPost(s)
    BY <1>2 DEF ChatNext
  <2>2. /\ \A r \in Senders \ {s} : sending'[r] = sending[r]
        /\ s \in team
    BY <2>1 DEF SendBlocked, SendCount, SendFreeze, SendClean, SendCheck, SendPost, Sends,
                FrozenLeavesOne
  <2>3. team' = team BY PartSteps
  <2>4. \A r \in Senders : sending'[r] # "free" => r \in team' BY <2>2, <2>3 DEF FrozenLeavesOne
  <2>5. ASSUME NEW c \in Topics
        PROVE  IF c \in frozen' THEN late'[c] + Cardinality(Posting(c)') < Cardinality(On(c)')
               ELSE late'[c] = 0
    <3>1. On(c)' = On(c) BY <2>3 DEF On
    <3>2. /\ IsFiniteSet(On(c)) /\ IsFiniteSet(Posting(c)) /\ IsFiniteSet(Posting(c)')
          /\ Cardinality(On(c)) \in Nat /\ Cardinality(Posting(c)) \in Nat
          /\ Cardinality(Posting(c)') \in Nat
          /\ Posting(c) \subseteq On(c)
          /\ sending'[s] # "post" => Posting(c)' = Posting(c) \ {s}
      BY <2>2, PostingChanges
    <3>3. IF c \in frozen THEN late[c] + Cardinality(Posting(c)) < Cardinality(On(c))
          ELSE late[c] = 0
      BY DEF FrozenLeavesOne
    <3>4. CASE Topic[s] # c
      <4>1. Posting(c)' = Posting(c) BY <2>2, <3>4 DEF Posting
      <4>2. (c \in frozen' <=> c \in frozen) /\ late'[c] = late[c]
        BY <2>1, <3>4 DEF SendBlocked, SendCount, SendFreeze, SendClean, SendCheck, SendPost
      <4> QED BY <3>1, <3>3, <4>1, <4>2
    <3>5. CASE Topic[s] = c
      <4>1. CASE SendPost(s)
        <5>1. Posting(c)' = Posting(c) \ {s} /\ s \in Posting(c)
          BY <3>2, <3>5, <4>1 DEF SendPost, Sends, Posting
        <5>2. Cardinality(Posting(c)') = Cardinality(Posting(c)) - 1
          BY <3>2, <5>1, FS_RemoveElement
        <5>3. frozen' = frozen /\ late'[c] = IF c \in frozen THEN late[c] + 1 ELSE late[c]
          BY <3>5, <4>1 DEF SendPost
        <5>4. late[c] \in Nat BY DEF TypeOK, MessagingTypeOK
        <5> QED BY <3>1, <3>2, <3>3, <5>2, <5>3, <5>4
      <4>2. CASE SendFreeze(s)
        <5>1. /\ Posting(c)' = Posting(c) \ {s} /\ s \notin Posting(c)
              /\ late' = late /\ c \in frozen' /\ s \in On(c)
          BY <2>2, <3>2, <3>5, <4>2 DEF SendFreeze, Sends, Posting, On
        <5>2. Posting(c)' = Posting(c) BY <5>1
        <5>3. Cardinality(On(c) \ {s}) = Cardinality(On(c)) - 1 BY <3>2, <5>1, FS_RemoveElement
        <5>4. Posting(c) \subseteq On(c) \ {s} /\ IsFiniteSet(On(c) \ {s})
          BY <3>2, <5>1, FS_RemoveElement
        <5>5. Cardinality(Posting(c)) <= Cardinality(On(c) \ {s}) BY <5>4, FS_Subset
        <5>6. late[c] \in Nat /\ Cardinality(Posting(c)') = Cardinality(Posting(c))
          BY <5>2 DEF TypeOK, MessagingTypeOK
        <5> QED BY <3>1, <3>2, <3>3, <5>1, <5>2, <5>3, <5>5, <5>6
      <4>3. CASE SendCheck(s)
        <5>1. frozen' = frozen /\ late' = late /\ s \notin Posting(c)
          BY <4>3 DEF SendCheck, Posting
        <5>2. c \in frozen => sending'[s] # "post" BY <3>5, <4>3 DEF SendCheck, Sends, Refused
        <5>3. c \in frozen => Posting(c)' = Posting(c) BY <3>2, <5>1, <5>2
        <5> QED BY <3>1, <3>3, <5>1, <5>3
      <4>4. CASE SendBlocked(s) \/ SendCount(s) \/ SendClean(s)
        <5>1. frozen' = frozen /\ late' = late /\ s \notin Posting(c) /\ sending'[s] # "post"
          BY <4>4 DEF SendBlocked, SendCount, SendClean, Sends, Posting
        <5>2. Posting(c)' = Posting(c) BY <3>2, <5>1
        <5> QED BY <3>1, <3>3, <5>1, <5>2
      <4> QED BY <2>1, <4>1, <4>2, <4>3, <4>4
    <3> QED BY <3>4, <3>5
  <2> QED BY <2>4, <2>5 DEF FrozenLeavesOne
<1> QED BY <1>1, <1>2, PartSteps

(* The bound on the messages after a freeze is the one that was promised.  *)
LEMMA QuietByInv ==
  ASSUME TypeOK, FrozenLeavesOne
  PROVE  FrozenIsQuiet
<1> SUFFICES ASSUME NEW c \in Topics PROVE late[c] <= Cardinality(On(c)) - 1 \/ late[c] = 0
  BY DEF FrozenIsQuiet, On
<1>1. IsFiniteSet(On(c)) /\ IsFiniteSet(Posting(c))
  <2>1. On(c) \subseteq Senders /\ Posting(c) \subseteq Senders BY DEF On, Posting
  <2> QED BY <2>1, Assumptions, FS_Subset
<1>2. Cardinality(On(c)) \in Nat /\ Cardinality(Posting(c)) \in Nat BY <1>1, FS_CardinalityType
<1>3. late[c] \in Nat BY DEF TypeOK, MessagingTypeOK
<1> QED BY <1>2, <1>3 DEF FrozenLeavesOne

(* The strikes of a user that are all handled have frozen a conversation.  *)
LEMMA FreezesByInv == StrikesHandled => ThirdStrikeFreezes
  BY DEF StrikesHandled, ThirdStrikeFreezes

----------------------------------------------------------------------------
(* Parties                                                                 *)

(* Codes are numbers.                                                      *)
LEMMA PartyRows ==
  ASSUME TypeOK
  PROVE  \A i \in DOMAIN parties : parties[i].code \in Nat
<1> DEFINE Row == [email : {Email[r] : r \in Registrars}, code : Codes,
                   status : {"PENDING", "ACTIVE", "INACTIVE"}]
<1>1. parties \in Seq(Row) BY DEF TypeOK, PartiesTypeOK
<1>2. \A x \in Row : x.code \in Nat BY DEF Codes
<1> HIDE DEF Row
<1>3. \A i \in DOMAIN parties : parties[i] \in Row BY <1>1
<1> QED BY <1>2, <1>3

(* Registrations and codes keep their types.                               *)
LEMMA RegisterTypes ==
  ASSUME TypeOK, [Next]_vars
  PROVE  /\ parties' \in Seq([email : {Email[r] : r \in Registrars}, code : Codes,
                              status : {"PENDING", "ACTIVE", "INACTIVE"}])
         /\ currentSeq' \in Nat
         /\ registering' \in [Registrars ->
              [at : {"free", "code", "create", "ok", "refused", "failed"}, code : Nat]]
<1> DEFINE Row == [email : {Email[r] : r \in Registrars}, code : Codes,
                   status : {"PENDING", "ACTIVE", "INACTIVE"}]
<1> USE DEF TypeOK, PartiesTypeOK, Codes
<1>1. CASE UNCHANGED registerVars BY <1>1 DEF registerVars
<1>2. CASE RegisterNext
  <2>1. CASE \E r \in Registrars : RegisterCheck(r)
    BY <2>1 DEF RegisterCheck, Registers
  <2>2. CASE \E r \in Registrars : RegisterCode(r)
    <3>1. PICK r \in Registrars, jump \in 1..JumpMax : Registers(r, "create", currentSeq + jump)
      BY <2>2 DEF RegisterCode
    <3>2. currentSeq + jump \in Nat BY Assumptions
    <3> QED BY <2>2, <3>1, <3>2 DEF RegisterCode, Registers
  <2>3. CASE \E r \in Registrars : RegisterCreate(r)
    <3>1. PICK r \in Registrars : RegisterCreate(r) BY <2>3
    <3>2. registering' \in [Registrars ->
            [at : {"free", "code", "create", "ok", "refused", "failed"}, code : Nat]]
      <4>1. PICK at \in {"ok", "refused", "failed"} : Registers(r, at, 0)
        BY <3>1 DEF RegisterCreate
      <4>2. [at |-> at, code |-> 0] \in
              [at : {"free", "code", "create", "ok", "refused", "failed"}, code : Nat]
        OBVIOUS
      <4> QED BY <4>1, <4>2 DEF Registers
    <3> DEFINE new == [email |-> Email[r], code |-> registering[r].code, status |-> "PENDING"]
    <3>3. registering[r].code \in Nat OBVIOUS
    <3>4. new \in Row BY <3>3
    <3>5. \/ parties' = parties /\ currentSeq' = currentSeq
          \/ parties' = Append(parties, new) /\ currentSeq' = registering[r].code
      BY <3>1 DEF RegisterCreate
    <3>6. parties \in Seq(Row) /\ currentSeq \in Nat OBVIOUS
    <3> HIDE DEF Row, new, TypeOK
    <3>7. Append(parties, new) \in Seq(Row) BY <3>4, <3>6, AppendTo
    <3>8. parties' \in Seq(Row) /\ currentSeq' \in Nat BY <3>3, <3>5, <3>6, <3>7
    <3> QED BY <3>2, <3>8 DEF Row
  <2>4. CASE \E c \in Clerks, i \in DOMAIN parties, status \in {"ACTIVE", "INACTIVE"} :
                Approve(c, i, status)
    <3>1. PICK i \in DOMAIN parties, status \in {"ACTIVE", "INACTIVE"} :
            /\ parties' = [parties EXCEPT ![i].status = status]
            /\ UNCHANGED <<currentSeq, registering>>
      BY <2>4 DEF Approve
    <3>2. [parties[i] EXCEPT !.status = status] \in Row
      <4>1. parties \in Seq(Row) OBVIOUS
      <4>2. parties[i] \in Row
        <5> HIDE DEF Row, TypeOK
        <5> QED BY <4>1
      <4> QED BY <4>2
    <3>3. parties' = [parties EXCEPT ![i] = [parties[i] EXCEPT !.status = status]] BY <3>1
    <3> HIDE DEF Row
    <3>4. parties \in Seq(Row) BY DEF Row
    <3>5. parties' \in Seq(Row) BY <3>2, <3>3, <3>4, Replace
    <3> QED BY <3>1, <3>5 DEF Row
  <2> QED BY <1>2, <2>1, <2>2, <2>3, <2>4 DEF RegisterNext
<1> QED BY <1>1, <1>2, PartSteps

(* While the rule is locked the code of the registration that locked it is *)
(* ahead of all others, so no registration fails on its code.              *)
LEMMA CodesStep ==
  ASSUME TypeOK, CodesAhead, CodesNeverCollide, [Next]_vars
  PROVE  CodesAhead' /\ CodesNeverCollide'
<1> USE DEF TypeOK, PartiesTypeOK, Codes
<1>1. CASE UNCHANGED registerVars BY <1>1 DEF registerVars, CodesAhead, CodesNeverCollide
<1>2. CASE RegisterNext
  <2>1. CASE \E r \in Registrars : RegisterCheck(r)
    <3>1. PICK r \in Registrars : RegisterCheck(r) BY <2>1
    <3>2. /\ registering'[r].at \notin {"create", "failed"}
          /\ \A s \in Registrars \ {r} : registering'[s] = registering[s]
          /\ parties' = parties /\ currentSeq' = currentSeq
      BY <3>1 DEF RegisterCheck, Registers
    <3> QED BY <3>2 DEF CodesAhead, CodesNeverCollide
  <2>2. CASE \E r \in Registrars : RegisterCode(r)
    <3>1. PICK r \in Registrars : RegisterCode(r) BY <2>2
    <3>2. PICK jump \in 1..JumpMax : Registers(r, "create", currentSeq + jump)
      BY <3>1 DEF RegisterCode
    <3>3. /\ registering'[r].at = "create" /\ registering'[r].code = currentSeq + jump
          /\ \A s \in Registrars \ {r} : registering'[s] = registering[s]
      BY <3>2 DEF Registers
    <3>4. currentSeq + jump > currentSeq BY Assumptions
    <3>5. \A s \in Registrars : registering[s].at # "create" BY <3>1 DEF RegisterCode, CodeFree
    <3>6. parties' = parties /\ currentSeq' = currentSeq BY <3>1 DEF RegisterCode
    <3> QED BY <3>3, <3>4, <3>5, <3>6 DEF CodesAhead, CodesNeverCollide
  <2>3. CASE \E r \in Registrars : RegisterCreate(r)
    <3>1. PICK r \in Registrars : RegisterCreate(r) BY <2>3
    <3> DEFINE code == registering[r].code
               new == [email |-> Email[r], code |-> code, status |-> "PENDING"]
    <3>2. code \in Nat /\ code > currentSeq BY <3>1 DEF RegisterCreate, CodesAhead
    <3>3. \A i \in DOMAIN parties : parties[i].code \in Nat /\ parties[i].code < code
      <4>1. ASSUME NEW i \in DOMAIN parties PROVE parties[i].code \in Nat /\ parties[i].code < code
        <5>1. parties[i].code \in Nat BY PartyRows
        <5>2. parties[i].code <= currentSeq BY DEF CodesAhead
        <5> HIDE DEF code
        <5> QED BY <3>2, <5>1, <5>2
      <4> QED BY <4>1
    <3>4. \A i \in DOMAIN parties : parties[i].code # code BY <3>2, <3>3
    <3>5. /\ registering'[r].at \in {"refused", "ok"}
          /\ \A s \in Registrars \ {r} : registering'[s] = registering[s]
          /\ \/ parties' = parties /\ currentSeq' = currentSeq
             \/ parties' = Append(parties, new) /\ currentSeq' = code
      BY <3>1, <3>4 DEF RegisterCreate, Registers
    <3>6. \A s \in Registrars : registering'[s].at # "create"
      BY <3>1, <3>5 DEF CodesAhead, RegisterCreate
    <3>7. \A i \in DOMAIN parties' : parties'[i].code <= currentSeq'
      <4>1. CASE parties' = parties /\ currentSeq' = currentSeq BY <4>1 DEF CodesAhead
      <4>2. CASE parties' = Append(parties, new) /\ currentSeq' = code
        <5>1. \A i \in DOMAIN parties' :
                \/ i \in DOMAIN parties /\ parties'[i] = parties[i]
                \/ parties'[i] = new
          BY <4>2
        <5>2. new.code = code OBVIOUS
        <5> HIDE DEF new, code
        <5> QED BY <3>2, <3>3, <4>2, <5>1, <5>2
      <4> QED BY <3>5, <4>1, <4>2
    <3> QED BY <3>5, <3>6, <3>7 DEF CodesAhead, CodesNeverCollide
  <2>4. CASE \E c \in Clerks, i \in DOMAIN parties, status \in {"ACTIVE", "INACTIVE"} :
                Approve(c, i, status)
    <3>1. PICK i \in DOMAIN parties, status \in {"ACTIVE", "INACTIVE"} :
            /\ parties' = [parties EXCEPT ![i].status = status]
            /\ UNCHANGED <<currentSeq, registering>>
      BY <2>4 DEF Approve
    <3>2. DOMAIN parties' = DOMAIN parties /\ \A j \in DOMAIN parties : parties'[j].code = parties[j].code
      BY <3>1
    <3> QED BY <3>1, <3>2 DEF CodesAhead, CodesNeverCollide
  <2> QED BY <1>2, <2>1, <2>2, <2>3, <2>4 DEF RegisterNext
<1> QED BY <1>1, <1>2, PartSteps

(* Contacts are rows with two flags.                                       *)
LEMMA ContactRows ==
  ASSUME TypeOK
  PROVE  \A i \in DOMAIN contacts : contacts[i] \in [primary : BOOLEAN, live : BOOLEAN]
<1> DEFINE Row == [primary : BOOLEAN, live : BOOLEAN]
<1>1. contacts \in Seq(Row) BY DEF TypeOK, PartiesTypeOK
<1> SUFFICES \A i \in DOMAIN contacts : contacts[i] \in Row OBVIOUS
<1> HIDE DEF Row
<1> QED BY <1>1

(* Contacts keep their types.                                              *)
LEMMA ContactTypes ==
  ASSUME TypeOK, [Next]_vars
  PROVE  /\ contacts' \in Seq([primary : BOOLEAN, live : BOOLEAN])
         /\ keeping' \in [Keepers -> {"free", "create"}]
<1> DEFINE Row == [primary : BOOLEAN, live : BOOLEAN]
<1>1. contacts \in Seq(Row) /\ keeping \in [Keepers -> {"free", "create"}]
  BY DEF TypeOK, PartiesTypeOK
<1>2. CASE UNCHANGED contactVars BY <1>1, <1>2 DEF contactVars
<1>3. CASE KeepNext
  <2>1. PICK k \in Keepers : AddPrimary(k) \/ AddContact(k) \/ RemoveContact(k)
    BY <1>3 DEF KeepNext
  <2>2. keeping' \in [Keepers -> {"free", "create"}]
    BY <1>1, <2>1 DEF AddPrimary, AddContact, RemoveContact
  <2>3. CASE AddPrimary(k)
    <3>1. ASSUME NEW i \in DOMAIN contacts PROVE Demoted[i] \in Row
      <4>1. contacts[i] \in Row
        <5> HIDE DEF Row
        <5> QED BY <1>1
      <4> QED BY <4>1 DEF Demoted
    <3>2. Demoted \in [DOMAIN contacts -> Row]
      <4> HIDE DEF Row
      <4> QED BY <3>1 DEF Demoted
    <3> HIDE DEF Row
    <3>3. Demoted \in Seq(Row) BY <1>1, <3>2, Replace
    <3> QED BY <2>2, <2>3, <3>3 DEF AddPrimary, Row
  <2>4. CASE AddContact(k)
    <3>1. PICK p \in BOOLEAN : contacts' = Append(contacts, [primary |-> p, live |-> TRUE])
      BY <2>4 DEF AddContact
    <3>2. [primary |-> p, live |-> TRUE] \in Row OBVIOUS
    <3> HIDE DEF Row
    <3>3. contacts' \in Seq(Row) BY <1>1, <3>1, <3>2, AppendTo
    <3> QED BY <2>2, <3>3 DEF Row
  <2>5. CASE RemoveContact(k)
    <3>1. PICK i \in DOMAIN contacts : contacts' = [contacts EXCEPT ![i].live = FALSE]
      BY <2>5 DEF RemoveContact
    <3>2. contacts' = [contacts EXCEPT ![i] = [contacts[i] EXCEPT !.live = FALSE]] BY <3>1
    <3>3. contacts[i] \in Row
      <4> HIDE DEF Row
      <4> QED BY <1>1
    <3>4. [contacts[i] EXCEPT !.live = FALSE] \in Row BY <3>3
    <3> HIDE DEF Row
    <3>5. contacts' \in Seq(Row) BY <1>1, <3>2, <3>4, Replace
    <3> QED BY <2>2, <3>5 DEF Row
  <2> QED BY <2>1, <2>3, <2>4, <2>5
<1> QED BY <1>2, <1>3, PartSteps

(* A request that is alone creates the first contact after it has demoted  *)
(* the others, and nothing comes in between.                               *)
LEMMA FirstStep ==
  ASSUME TypeOK, FirstIsFree, [Next]_vars
  PROVE  FirstIsFree'
<1>1. team' = team BY PartSteps
<1>2. CASE UNCHANGED contactVars
  <2>1. Primaries' = Primaries BY <1>2 DEF contactVars, Primaries
  <2> QED BY <1>1, <1>2, <2>1 DEF contactVars, FirstIsFree
<1>3. CASE KeepNext
  <2>1. PICK k \in Keepers : AddPrimary(k) \/ AddContact(k) \/ RemoveContact(k)
    BY <1>3 DEF KeepNext
  <2>2. contacts \in Seq([primary : BOOLEAN, live : BOOLEAN])
        /\ keeping \in [Keepers -> {"free", "create"}]
    BY DEF TypeOK, PartiesTypeOK
  <2>3. k \in team BY <2>1 DEF AddPrimary, AddContact, RemoveContact, FirstIsFree
  <2>4. \A l \in Keepers : keeping'[l] = "create" => l \in team
    BY <2>1, <2>2, <2>3 DEF AddPrimary, AddContact, RemoveContact, FirstIsFree
  <2>5. ASSUME \A l, m \in team \cap Keepers : l = m
        PROVE  /\ \A i, j \in Primaries' : i = j
               /\ \A l \in Keepers : keeping'[l] = "create" => Primaries' = {}
    <3>1. \A l \in Keepers : keeping'[l] = "create" => l = k BY <2>3, <2>4, <2>5
    <3>2. \A i, j \in Primaries : i = j BY <2>5 DEF FirstIsFree
    <3>3. CASE AddPrimary(k)
      <4>1. ASSUME NEW i \in DOMAIN contacts' PROVE ~(contacts'[i].live /\ contacts'[i].primary)
        <5>1. contacts' = Demoted /\ i \in DOMAIN contacts BY <3>3 DEF AddPrimary, Demoted
        <5>2. contacts[i] \in [primary : BOOLEAN, live : BOOLEAN] BY <5>1, ContactRows
        <5>3. /\ contacts'[i].live = contacts[i].live
              /\ contacts'[i].primary = (contacts[i].primary /\ ~contacts[i].live)
          BY <5>1, <5>2 DEF Demoted
        <5> QED BY <5>2, <5>3
      <4>2. Primaries' = {} BY <4>1 DEF Primaries
      <4> QED BY <4>2
    <3>4. CASE AddContact(k)
      <4>1. keeping'[k] = "free" BY <2>2, <3>4 DEF AddContact
      <4>2. CASE contacts' = Append(contacts, [primary |-> FALSE, live |-> TRUE])
        <5>1. \A i \in DOMAIN contacts' :
                \/ i \in DOMAIN contacts /\ contacts'[i] = contacts[i]
                \/ ~contacts'[i].primary
          BY <2>2, <4>2
        <5>2. Primaries' \subseteq Primaries BY <5>1 DEF Primaries
        <5> QED BY <3>1, <3>2, <4>1, <5>2
      <4>3. CASE keeping[k] = "create"
                 /\ contacts' = Append(contacts, [primary |-> TRUE, live |-> TRUE])
        <5>1. Primaries = {} BY <2>5, <4>3 DEF FirstIsFree
        <5>2. \A i \in DOMAIN contacts' :
                \/ i \in DOMAIN contacts /\ contacts'[i] = contacts[i]
                \/ i = Len(contacts) + 1
          BY <2>2, <4>3
        <5>3. Primaries' \subseteq {Len(contacts) + 1} BY <5>1, <5>2 DEF Primaries
        <5> QED BY <3>1, <4>1, <5>3
      <4> QED BY <3>4, <4>2, <4>3 DEF AddContact
    <3>5. CASE RemoveContact(k)
      <4>1. PICK i \in DOMAIN contacts : contacts' = [contacts EXCEPT ![i].live = FALSE]
        BY <3>5 DEF RemoveContact
      <4>2. /\ DOMAIN contacts' = DOMAIN contacts /\ ~contacts'[i].live
            /\ \A j \in DOMAIN contacts \ {i} : contacts'[j] = contacts[j]
        <5> DEFINE gone == [contacts[i] EXCEPT !.live = FALSE]
        <5>1. contacts[i] \in [primary : BOOLEAN, live : BOOLEAN] BY <4>1, ContactRows
        <5>2. ~gone.live BY <5>1
        <5>3. contacts' = [contacts EXCEPT ![i] = gone] BY <4>1
        <5> HIDE DEF gone
        <5> QED BY <2>2, <4>1, <5>2, <5>3
      <4>3. Primaries' \subseteq Primaries BY <4>2 DEF Primaries
      <4>4. keeping' = keeping BY <3>5 DEF RemoveContact
      <4> QED BY <2>5, <3>2, <4>3, <4>4 DEF FirstIsFree
    <3> QED BY <2>1, <3>3, <3>4, <3>5
  <2> QED BY <1>1, <2>4, <2>5 DEF FirstIsFree
<1> QED BY <1>2, <1>3, PartSteps

(* So an organisation has one primary contact.                             *)
LEMMA OneByInv ==
  ASSUME FirstIsFree
  PROVE  OnePrimary
<1> SUFFICES ASSUME Cardinality(team \cap Keepers) <= 1 PROVE Cardinality(Primaries) <= 1
  BY DEF OnePrimary, Primaries
<1>1. IsFiniteSet(team \cap Keepers) BY Assumptions, FS_Subset
<1>2. \A k, l \in team \cap Keepers : k = l BY <1>1, OneAtMost
<1> QED BY <1>2, OneAtMost DEF FirstIsFree

(* Escalations are rows.                                                   *)
EscalationRow ==
  [by : Requesters, fields : SUBSET Fields, status : Statuses,
   until : {None} \cup 0..MaxClock + Window]

LEMMA EscalationRows ==
  ASSUME TypeOK
  PROVE  /\ escalations \in Seq(EscalationRow)
         /\ \A e \in DOMAIN escalations : escalations[e] \in EscalationRow
         /\ Len(escalations) \in Nat /\ DOMAIN escalations = 1..Len(escalations)
<1>1. escalations \in Seq(EscalationRow) BY DEF TypeOK, PartiesTypeOK, EscalationRow
<1> QED BY <1>1

(* Escalations, grants and views keep their types.                         *)
LEMMA AccessTypes ==
  ASSUME TypeOK, [Next]_vars
  PROVE  /\ escalations' \in Seq(EscalationRow)
         /\ granted' \subseteq [escalation : Nat, by : SuperAdmins \cup {"rule"}, at : Now]
         /\ seen' \subseteq [escalation : Nat, field : Fields, at : Now]
<1>1. /\ escalations \in Seq(EscalationRow) /\ Len(escalations) \in Nat
      /\ \A e \in DOMAIN escalations : escalations[e] \in EscalationRow /\ e \in Nat
  BY EscalationRows
<1>2. /\ granted \subseteq [escalation : Nat, by : SuperAdmins \cup {"rule"}, at : Now]
      /\ seen \subseteq [escalation : Nat, field : Fields, at : Now]
      /\ clock \in Now /\ clock + Window \in 0..MaxClock + Window
  BY Assumptions DEF TypeOK, PartiesTypeOK, OutboxTypeOK, Now
<1>3. CASE UNCHANGED accessVars BY <1>1, <1>2, <1>3 DEF accessVars
<1>4. CASE \E q \in Requesters : RequestEscalation(q)
  <2>1. PICK q \in Requesters : RequestEscalation(q) BY <1>4
  <2>2. PICK fields \in SUBSET Fields :
          /\ escalations' = Append(escalations,
               [by |-> q, fields |-> fields, status |-> IF IsHigh(fields) THEN "PENDING" ELSE "APPROVED",
                until |-> IF IsHigh(fields) THEN None ELSE clock + Window])
          /\ granted' = IF IsHigh(fields) THEN granted
                        ELSE granted \cup {[escalation |-> Len(escalations) + 1, by |-> "rule", at |-> clock]}
    BY <2>1 DEF RequestEscalation
  <2> DEFINE row ==
        [by |-> q, fields |-> fields, status |-> IF IsHigh(fields) THEN "PENDING" ELSE "APPROVED",
         until |-> IF IsHigh(fields) THEN None ELSE clock + Window]
  <2>3. row \in EscalationRow BY <1>2 DEF EscalationRow, Statuses
  <2>4. escalations' = Append(escalations, row) BY <2>2
  <2>5. granted' \subseteq [escalation : Nat, by : SuperAdmins \cup {"rule"}, at : Now]
    <3>1. [escalation |-> Len(escalations) + 1, by |-> "rule", at |-> clock]
            \in [escalation : Nat, by : SuperAdmins \cup {"rule"}, at : Now]
      BY <1>1, <1>2
    <3> QED BY <1>2, <2>2, <3>1
  <2>6. seen' = seen BY <2>1 DEF RequestEscalation
  <2> HIDE DEF row
  <2>7. escalations' \in Seq(EscalationRow) BY <1>1, <2>3, <2>4, AppendTo
  <2> QED BY <1>2, <2>5, <2>6, <2>7
<1>5. CASE \E e \in DOMAIN escalations, a \in SuperAdmins, allowed \in BOOLEAN :
              DecideEscalation(a, e, allowed)
  <2>1. PICK e \in DOMAIN escalations, a \in SuperAdmins, allowed \in BOOLEAN :
          DecideEscalation(a, e, allowed)
    BY <1>5
  <2>2. (IF allowed THEN "APPROVED" ELSE "DENIED") \in Statuses
        /\ (IF allowed THEN clock + Window ELSE None) \in {None} \cup 0..MaxClock + Window
    BY <1>2 DEF Statuses
  <2> DEFINE row == [escalations[e] EXCEPT
                       !.status = IF allowed THEN "APPROVED" ELSE "DENIED",
                       !.until = IF allowed THEN clock + Window ELSE None]
  <2>3. escalations' = [escalations EXCEPT ![e] = row] BY <2>1 DEF DecideEscalation
  <2>5. row \in EscalationRow BY <1>1, <2>1, <2>2 DEF EscalationRow
  <2>6. escalations' \in Seq(EscalationRow)
    <3> HIDE DEF row
    <3>1. [escalations EXCEPT ![e] = row] \in Seq(EscalationRow) BY <1>1, <2>1, <2>5, Replace
    <3> QED BY <2>3, <3>1
  <2>4. [escalation |-> e, by |-> a, at |-> clock]
          \in [escalation : Nat, by : SuperAdmins \cup {"rule"}, at : Now]
    BY <1>1, <1>2
  <2> QED BY <1>2, <2>1, <2>4, <2>6 DEF DecideEscalation
<1>6. CASE \E e \in DOMAIN escalations, q \in Requesters : ViewSensitive(q, e)
  <2>1. PICK e \in DOMAIN escalations, q \in Requesters : ViewSensitive(q, e) BY <1>6
  <2>2. escalations[e].fields \subseteq Fields BY <1>1 DEF EscalationRow
  <2>3. \A f \in Fields :
          [escalation |-> e, field |-> f, at |-> clock] \in [escalation : Nat, field : Fields, at : Now]
    BY <1>1, <1>2
  <2> QED BY <1>1, <1>2, <2>1, <2>2, <2>3 DEF ViewSensitive
<1>7. CASE \E c \in Clerks : ListParties(c)
  <2>1. \A f \in ListedFields :
          [escalation |-> 0, field |-> f, at |-> clock] \in [escalation : Nat, field : Fields, at : Now]
    BY <1>2 DEF ListedFields
  <2> QED BY <1>1, <1>2, <1>7, <2>1 DEF ListParties
<1> QED BY <1>3, <1>4, <1>5, <1>6, <1>7, PartSteps DEF AccessNext

(* An approval and the grant it rests on are made in one step; until it    *)
(* has run out the time since the grant is within the window.              *)
LEMMA AccessStep ==
  ASSUME TypeOK, ApprovedByGrant, ViewsAreGranted, [Next]_vars
  PROVE  ApprovedByGrant' /\ ViewsAreGranted'
<1>1. /\ escalations \in Seq(EscalationRow) /\ Len(escalations) \in Nat
      /\ DOMAIN escalations = 1..Len(escalations)
      /\ \A e \in DOMAIN escalations : escalations[e] \in EscalationRow
  BY EscalationRows
<1>2. clock \in Int /\ clock' \in Int /\ clock <= clock' /\ Window \in Nat
      /\ \A g \in granted : g.at \in Int
      /\ clock \in Now
  BY PartSteps, Assumptions DEF TypeOK, OutboxTypeOK, PartiesTypeOK, Now
<1>7. clock + Window \in {None} \cup 0..MaxClock + Window
  BY Assumptions DEF TypeOK, OutboxTypeOK
<1>3. CASE UNCHANGED accessVars
  <2>1. ApprovedByGrant'
    <3> SUFFICES ASSUME NEW e \in DOMAIN escalations', escalations'[e].status = "APPROVED"
                 PROVE  \E g \in granted' : GrantOf(e, g)'
      BY DEF ApprovedByGrant
    <3>1. PICK g \in granted : GrantOf(e, g) BY <1>3 DEF accessVars, ApprovedByGrant
    <3>2. GrantOf(e, g)' BY <1>2, <1>3, <3>1 DEF accessVars, GrantOf
    <3> QED BY <1>3, <3>1, <3>2 DEF accessVars
  <2> QED BY <1>3, <2>1 DEF accessVars, ViewsAreGranted
<1>4. CASE \E q \in Requesters : RequestEscalation(q) /\ clock' = clock
  <2>1. PICK q \in Requesters : RequestEscalation(q) BY <1>4
  <2>2. PICK fields \in SUBSET Fields :
          /\ escalations' = Append(escalations,
               [by |-> q, fields |-> fields, status |-> IF IsHigh(fields) THEN "PENDING" ELSE "APPROVED",
                until |-> IF IsHigh(fields) THEN None ELSE clock + Window])
          /\ granted' = IF IsHigh(fields) THEN granted
                        ELSE granted \cup {[escalation |-> Len(escalations) + 1, by |-> "rule", at |-> clock]}
    BY <2>1 DEF RequestEscalation
  <2> DEFINE status == IF IsHigh(fields) THEN "PENDING" ELSE "APPROVED"
             until == IF IsHigh(fields) THEN None ELSE clock + Window
             row == [by |-> q, fields |-> fields, status |-> status, until |-> until]
  <2>. PICK grant : grant = [escalation |-> Len(escalations) + 1, by |-> "rule", at |-> clock]
    OBVIOUS
  <2>3. /\ row \in EscalationRow /\ row.fields = fields
        /\ IsHigh(fields) => row.status # "APPROVED"
        /\ ~IsHigh(fields) => row.until = clock + Window
        /\ grant.escalation = Len(escalations) + 1 /\ grant.at = clock
    <3>1. status \in Statuses /\ (IsHigh(fields) => status # "APPROVED") BY DEF Statuses
    <3>2. until \in {None} \cup 0..MaxClock + Window
      <4>1. CASE IsHigh(fields) BY <4>1
      <4>2. CASE ~IsHigh(fields) BY <1>7, <4>2
      <4> QED BY <4>1, <4>2
    <3>3. ~IsHigh(fields) => until = clock + Window OBVIOUS
    <3> HIDE DEF status, until
    <3> QED BY <3>1, <3>2, <3>3 DEF EscalationRow
  <2>4. escalations' = Append(escalations, row) /\ granted' = IF IsHigh(fields) THEN granted ELSE granted \cup {grant}
    BY <2>2
  <2>5. granted \subseteq granted' /\ seen' = seen BY <2>1, <2>2 DEF RequestEscalation
  <2> HIDE DEF row
  <2>6. /\ DOMAIN escalations' = DOMAIN escalations \cup {Len(escalations) + 1}
        /\ escalations'[Len(escalations) + 1] = row
        /\ \A e \in DOMAIN escalations : escalations'[e] = escalations[e]
    BY <1>1, <2>3, <2>4, AppendTo
  <2>7. ASSUME NEW e \in DOMAIN escalations', escalations'[e].status = "APPROVED"
        PROVE  \E g \in granted' : GrantOf(e, g)'
    <3>1. CASE e \in DOMAIN escalations
      <4>1. PICK g \in granted : GrantOf(e, g) BY <2>6, <2>7, <3>1 DEF ApprovedByGrant
      <4>2. GrantOf(e, g)' BY <1>2, <2>6, <3>1, <4>1 DEF GrantOf
      <4> QED BY <2>5, <4>1, <4>2
    <3>2. CASE e = Len(escalations) + 1
      <4>1. ~IsHigh(fields) BY <2>3, <2>6, <2>7, <3>2
      <4>2. grant \in granted' BY <2>4, <4>1
      <4>3. /\ escalations'[e].fields = fields /\ escalations'[e].until = clock + Window
            /\ grant.escalation = e /\ grant.at = clock /\ clock' = clock
        BY <1>4, <2>3, <2>6, <3>2, <4>1
      <4>4. GrantOf(e, grant)' BY <1>2, <4>1, <4>3 DEF GrantOf
      <4> QED BY <4>2, <4>4
    <3> QED BY <2>6, <2>7, <3>1, <3>2
  <2> QED BY <2>5, <2>7 DEF ApprovedByGrant, ViewsAreGranted
<1>5. CASE \E e \in DOMAIN escalations, a \in SuperAdmins, allowed \in BOOLEAN :
              DecideEscalation(a, e, allowed) /\ clock' = clock
  <2>1. PICK d \in DOMAIN escalations, a \in SuperAdmins, allowed \in BOOLEAN :
          DecideEscalation(a, d, allowed)
    BY <1>5
  <2>. PICK grant : grant = [escalation |-> d, by |-> a, at |-> clock] OBVIOUS
  <2>. PICK status, until : /\ status = IF allowed THEN "APPROVED" ELSE "DENIED"
                            /\ until = IF allowed THEN clock + Window ELSE None
    OBVIOUS
  <2>2. /\ status \in Statuses /\ (status = "APPROVED" => allowed)
        /\ until \in {None} \cup 0..MaxClock + Window /\ (allowed => until = clock + Window)
    <3>1. CASE allowed
      <4>1. status = "APPROVED" /\ until = clock + Window BY <3>1
      <4> QED BY <1>7, <3>1, <4>1 DEF Statuses
    <3>2. CASE ~allowed
      <4>1. status = "DENIED" /\ until = None BY <3>2
      <4> QED BY <3>2, <4>1 DEF Statuses
    <3> QED BY <3>1, <3>2
  <2>3. /\ DOMAIN escalations' = DOMAIN escalations
        /\ escalations'[d].status = status /\ escalations'[d].until = until
        /\ escalations'[d].fields = escalations[d].fields
        /\ \A e \in DOMAIN escalations \ {d} : escalations'[e] = escalations[e]
    <3>1. escalations' = [escalations EXCEPT ![d].status = status, ![d].until = until]
      BY <2>1 DEF DecideEscalation
    <3> DEFINE row == [escalations[d] EXCEPT !.status = status, !.until = until]
    <3>2. escalations[d] \in EscalationRow BY <1>1, <2>1
    <3>3. row.status = status /\ row.until = until /\ row.fields = escalations[d].fields
      BY <3>2 DEF EscalationRow
    <3>4. escalations' = [escalations EXCEPT ![d] = row] BY <3>1
    <3> HIDE DEF row
    <3> QED BY <1>1, <2>1, <3>3, <3>4
  <2>4. granted \subseteq granted' /\ seen' = seen BY <2>1 DEF DecideEscalation
  <2>7. allowed => grant \in granted' BY <2>1 DEF DecideEscalation
  <2>5. grant.escalation = d /\ grant.at = clock /\ grant.by # "rule" BY Assumptions
  <2>6. ASSUME NEW e \in DOMAIN escalations', escalations'[e].status = "APPROVED"
        PROVE  \E g \in granted' : GrantOf(e, g)'
    <3>1. CASE e # d
      <4>0. e \in DOMAIN escalations /\ escalations'[e] = escalations[e] BY <2>3, <2>6, <3>1
      <4>1. PICK g \in granted : GrantOf(e, g) BY <2>6, <4>0 DEF ApprovedByGrant
      <4>2. GrantOf(e, g)' BY <1>2, <4>0, <4>1 DEF GrantOf
      <4> QED BY <2>4, <4>1, <4>2
    <3>2. CASE e = d
      <4>1. allowed /\ escalations'[e].until = clock + Window /\ clock' = clock
        BY <1>5, <2>2, <2>3, <2>6, <3>2
      <4>2. GrantOf(e, grant)' BY <1>2, <2>5, <3>2, <4>1 DEF GrantOf
      <4> QED BY <2>7, <4>1, <4>2
    <3> QED BY <3>1, <3>2
  <2> QED BY <2>4, <2>6 DEF ApprovedByGrant, ViewsAreGranted
<1>6. CASE \E e \in DOMAIN escalations, q \in Requesters : ViewSensitive(q, e) /\ clock' = clock
  <2>1. PICK e \in DOMAIN escalations, q \in Requesters : ViewSensitive(q, e) /\ clock' = clock
    BY <1>6
  <2>2. /\ escalations[e].status = "APPROVED" /\ escalations[e].until >= clock
        /\ escalations' = escalations /\ granted' = granted
        /\ seen' = seen \cup {[escalation |-> e, field |-> f, at |-> clock] : f \in escalations[e].fields}
    BY <2>1 DEF ViewSensitive
  <2>3. PICK g \in granted : GrantOf(e, g) BY <2>2 DEF ApprovedByGrant
  <2>4. ASSUME NEW f \in escalations[e].fields
        PROVE  g.escalation = e /\ clock \in g.at..g.at + Window /\ (f \in HighFields => g.by # "rule")
    <3>1. f \in HighFields => IsHigh(escalations[e].fields) BY DEF IsHigh
    <3> QED BY <1>2, <2>2, <2>3, <3>1 DEF GrantOf
  <2>5. ViewsAreGranted'
    <3> SUFFICES ASSUME NEW v \in seen'
                 PROVE  \/ v.escalation = 0 /\ v.field \in ListedFields
                        \/ \E h \in granted' : /\ h.escalation = v.escalation
                                               /\ v.at \in h.at..h.at + Window
                                               /\ v.field \in HighFields => h.by # "rule"
      BY DEF ViewsAreGranted
    <3>1. CASE v \in seen BY <2>2, <3>1 DEF ViewsAreGranted
    <3>2. CASE v \notin seen
      <4>1. PICK f \in escalations[e].fields : v = [escalation |-> e, field |-> f, at |-> clock]
        BY <2>2, <3>2
      <4>2. v.escalation = e /\ v.field = f /\ v.at = clock BY <4>1
      <4> QED BY <2>2, <2>4, <4>2
    <3> QED BY <3>1, <3>2
  <2>6. \A d \in DOMAIN escalations, h \in granted : GrantOf(d, h)' <=> GrantOf(d, h)
    BY <2>1, <2>2 DEF GrantOf
  <2> QED BY <2>2, <2>5, <2>6 DEF ApprovedByGrant
<1>8. CASE \E c \in Clerks : ListParties(c) /\ clock' = clock
  <2>1. /\ escalations' = escalations /\ granted' = granted /\ clock' = clock
        /\ seen' = seen \cup {[escalation |-> 0, field |-> f, at |-> clock] : f \in ListedFields}
    BY <1>8 DEF ListParties
  <2>2. ViewsAreGranted'
    <3> SUFFICES ASSUME NEW v \in seen'
                 PROVE  \/ v.escalation = 0 /\ v.field \in ListedFields
                        \/ \E h \in granted' : /\ h.escalation = v.escalation
                                               /\ v.at \in h.at..h.at + Window
                                               /\ v.field \in HighFields => h.by # "rule"
      BY DEF ViewsAreGranted
    <3>1. CASE v \in seen BY <2>1, <3>1 DEF ViewsAreGranted
    <3>2. CASE v \notin seen
      <4>1. PICK f \in ListedFields : v = [escalation |-> 0, field |-> f, at |-> clock]
        BY <2>1, <3>2
      <4> QED BY <4>1
    <3> QED BY <3>1, <3>2
  <2>3. \A d \in DOMAIN escalations, h \in granted : GrantOf(d, h)' <=> GrantOf(d, h)
    BY <2>1 DEF GrantOf
  <2> QED BY <2>1, <2>2, <2>3 DEF ApprovedByGrant
<1> QED BY <1>3, <1>4, <1>5, <1>6, <1>8, PartSteps DEF AccessNext

----------------------------------------------------------------------------
(* The catalog                                                             *)

ProductRow == [status : ProductStatus, text : 0..MaxTexts]
EditingRow == [at : {"update", "submit"}, status : ProductStatus]
ReviewingRow == [at : {"decide"}, product : Products, text : 0..MaxTexts]

(* What each step of the catalog does to a product and to the handlers.    *)
Creates(e) ==
  /\ product[EditorOf[e]].status = "none"
  /\ product' = [product EXCEPT ![EditorOf[e]] = [status |-> "DRAFT", text |-> 1]]
  /\ UNCHANGED <<editing, reviewing, approved>>

Starts(e, next) ==
  /\ next.status = product[EditorOf[e]].status
  /\ Uncrossed({c \in Reviewers : reviewing[c] # Free})
  /\ editing' = [editing EXCEPT ![e] = next]
  /\ UNCHANGED <<product, reviewing, approved>>

Writes(e, row) ==
  /\ editing[e] # Free
  /\ \/ row.status = "PENDING_REVIEW"
     \/ /\ row.status = product[EditorOf[e]].status
        /\ editing[e].at = "update" /\ editing[e].status # "ACTIVE"
  /\ product' = [product EXCEPT ![EditorOf[e]] = row]
  /\ editing' = [editing EXCEPT ![e] = Free]
  /\ UNCHANGED <<reviewing, approved>>

Opens(c, next) ==
  /\ product[next.product].status = "PENDING_REVIEW"
  /\ next.text = product[next.product].text
  /\ Uncrossed({e \in Editors : editing[e] # Free})
  /\ reviewing' = [reviewing EXCEPT ![c] = next]
  /\ UNCHANGED <<product, editing, approved>>

Decides(c, row) ==
  /\ reviewing[c] # Free
  /\ row.text = product[reviewing[c].product].text
  /\ product' = [product EXCEPT ![reviewing[c].product] = row]
  /\ \/ /\ row.status = "ACTIVE"
        /\ approved' = [approved EXCEPT ![reviewing[c].product] = reviewing[c].text]
     \/ row.status = "DRAFT" /\ approved' = approved
  /\ reviewing' = [reviewing EXCEPT ![c] = Free]
  /\ UNCHANGED editing

LEMMA CatalogSteps ==
  ASSUME TypeOK, CatalogNext
  PROVE  \/ \E e \in Editors : Creates(e)
         \/ \E e \in Editors, next \in EditingRow : Starts(e, next)
         \/ \E e \in Editors, row \in ProductRow : Writes(e, row)
         \/ \E c \in Reviewers, next \in ReviewingRow : Opens(c, next)
         \/ \E c \in Reviewers, row \in ProductRow : Decides(c, row)
<1>1. /\ product \in [Products -> ProductRow]
      /\ editing \in [Editors -> {Free} \cup EditingRow]
      /\ reviewing \in [Reviewers -> {Free} \cup ReviewingRow]
      /\ \A e \in Editors : EditorOf[e] \in Products
  BY Assumptions DEF TypeOK, ListingsTypeOK, ProductRow, EditingRow, ReviewingRow
<1>2. CASE \E e \in Editors : CreateProduct(e) BY <1>2 DEF CreateProduct, Creates
<1>3. CASE \E e \in Editors : EditStart(e)
  <2>1. PICK e \in Editors : EditStart(e) BY <1>3
  <2>2. product[EditorOf[e]].status \in ProductStatus BY <1>1 DEF ProductRow
  <2>3. PICK at \in {"update", "submit"} :
          editing' = [editing EXCEPT ![e] = [at |-> at, status |-> product[EditorOf[e]].status]]
    BY <2>1 DEF EditStart, Edits
  <2>4. PICK next : next = [at |-> at, status |-> product[EditorOf[e]].status] OBVIOUS
  <2>5. next \in EditingRow /\ next.status = product[EditorOf[e]].status BY <2>2, <2>4 DEF EditingRow
  <2>6. editing' = [editing EXCEPT ![e] = next] BY <2>3, <2>4
  <2>7. Uncrossed({c \in Reviewers : reviewing[c] # Free}) /\ UNCHANGED <<product, reviewing, approved>>
    BY <2>1 DEF EditStart
  <2> QED BY <2>5, <2>6, <2>7 DEF Starts
<1>4. CASE \E e \in Editors : EditWrite(e)
  <2>1. PICK e \in Editors : EditWrite(e) BY <1>4
  <2> DEFINE p == EditorOf[e]
             status == IF NeedsReview(editing[e].status) THEN "PENDING_REVIEW" ELSE product[p].status
  <2>2. p \in Products /\ product[p].text \in 0..MaxTexts /\ product[p].status \in ProductStatus
    BY <1>1 DEF ProductRow
  <2>3. PICK row : row = [text |-> product[p].text + 1, status |-> status] OBVIOUS
  <2>4. product[p].text + 1 \in 0..MaxTexts BY <2>1, <2>2, Assumptions DEF EditWrite
  <2>5. status \in ProductStatus BY <2>2 DEF ProductStatus
  <2>6. row \in ProductRow /\ row.status = status
    <3> HIDE DEF status
    <3> QED BY <2>3, <2>4, <2>5 DEF ProductRow
  <2>7. product' = [product EXCEPT ![p] = row] BY <1>1, <2>1, <2>2, <2>3 DEF EditWrite
  <2>8. /\ editing[e].at = "update" /\ editing[e] # Free
        /\ editing' = [editing EXCEPT ![e] = Free] /\ UNCHANGED <<reviewing, approved>>
    BY <2>1 DEF EditWrite, Edits, Free
  <2>9. \/ row.status = "PENDING_REVIEW"
        \/ row.status = product[p].status /\ editing[e].status # "ACTIVE"
    BY <2>6 DEF NeedsReview
  <2> QED BY <2>6, <2>7, <2>8, <2>9 DEF Writes
<1>5. CASE \E e \in Editors : SubmitWrite(e)
  <2>1. PICK e \in Editors : SubmitWrite(e) BY <1>5
  <2> DEFINE p == EditorOf[e]
  <2>2. p \in Products /\ product[p] \in ProductRow BY <1>1
  <2>3. PICK row : row = [product[p] EXCEPT !.status = "PENDING_REVIEW"] OBVIOUS
  <2>4. row \in ProductRow /\ row.status = "PENDING_REVIEW" BY <2>2, <2>3 DEF ProductRow, ProductStatus
  <2>5. product' = [product EXCEPT ![p] = row] BY <2>1, <2>3 DEF SubmitWrite
  <2>6. /\ editing[e] # Free /\ editing' = [editing EXCEPT ![e] = Free]
        /\ UNCHANGED <<reviewing, approved>>
    BY <2>1 DEF SubmitWrite, Edits, Free
  <2> QED BY <2>4, <2>5, <2>6 DEF Writes
<1>6. CASE \E c \in Reviewers : ReviewLook(c)
  <2>1. PICK c \in Reviewers, p \in Products :
          /\ product[p].status = "PENDING_REVIEW"
          /\ Looked(c, [at |-> "decide", product |-> p, text |-> product[p].text])
          /\ Uncrossed({e \in Editors : editing[e] # Free}) /\ UNCHANGED <<product, editing, approved>>
    BY <1>6 DEF ReviewLook
  <2>2. PICK next : next = [at |-> "decide", product |-> p, text |-> product[p].text] OBVIOUS
  <2>3. product[p].text \in 0..MaxTexts BY <1>1 DEF ProductRow
  <2>4. next \in ReviewingRow /\ next.product = p /\ next.text = product[p].text
    BY <2>2, <2>3 DEF ReviewingRow
  <2>5. reviewing' = [reviewing EXCEPT ![c] = next] BY <2>1, <2>2 DEF Looked
  <2> QED BY <2>1, <2>4, <2>5 DEF Opens
<1>7. CASE \E c \in Reviewers : ReviewApprove(c) \/ ReviewReject(c)
  <2>1. PICK c \in Reviewers : ReviewApprove(c) \/ ReviewReject(c) BY <1>7
  <2> DEFINE p == reviewing[c].product
  <2>2. reviewing[c] # Free BY <2>1 DEF ReviewApprove, ReviewReject, Free
  <2>3. p \in Products BY <1>1, <2>2 DEF ReviewingRow
  <2>4. product[p] \in ProductRow BY <1>1, <2>3
  <2>5. PICK status \in {"ACTIVE", "DRAFT"} :
          /\ product' = [product EXCEPT ![p].status = status]
          /\ \/ status = "ACTIVE" /\ approved' = [approved EXCEPT ![p] = reviewing[c].text]
             \/ status = "DRAFT" /\ approved' = approved
    BY <2>1 DEF ReviewApprove, ReviewReject
  <2>6. PICK row : row = [product[p] EXCEPT !.status = status] OBVIOUS
  <2>7. row \in ProductRow /\ row.status = status /\ row.text = product[p].text
    BY <2>4, <2>6 DEF ProductRow, ProductStatus
  <2>8. product' = [product EXCEPT ![p] = row] BY <2>5, <2>6
  <2>9. reviewing' = [reviewing EXCEPT ![c] = Free] /\ UNCHANGED editing
    BY <2>1 DEF ReviewApprove, ReviewReject, Looked
  <2> QED BY <2>2, <2>5, <2>7, <2>8, <2>9 DEF Decides
<1> QED BY <1>2, <1>3, <1>4, <1>5, <1>6, <1>7 DEF CatalogNext

(* Products and their handlers keep their types.                           *)
LEMMA CatalogTypes ==
  ASSUME TypeOK, [Next]_vars
  PROVE  /\ product' \in [Products -> ProductRow]
         /\ editing' \in [Editors -> {Free} \cup EditingRow]
         /\ reviewing' \in [Reviewers -> {Free} \cup ReviewingRow]
         /\ approved' \in [Products -> 0..MaxTexts]
<1>1. /\ product \in [Products -> ProductRow]
      /\ editing \in [Editors -> {Free} \cup EditingRow]
      /\ reviewing \in [Reviewers -> {Free} \cup ReviewingRow]
      /\ approved \in [Products -> 0..MaxTexts]
      /\ \A e \in Editors : EditorOf[e] \in Products
  BY Assumptions DEF TypeOK, ListingsTypeOK, ProductRow, EditingRow, ReviewingRow
<1>2. [status |-> "DRAFT", text |-> 1] \in ProductRow
  BY Assumptions DEF ProductRow, ProductStatus
<1>3. \A c \in Reviewers : reviewing[c] # Free =>
        reviewing[c].product \in Products /\ reviewing[c].text \in 0..MaxTexts
  BY <1>1 DEF ReviewingRow
<1>4. CASE UNCHANGED catalogVars BY <1>1, <1>4 DEF catalogVars
<1>5. CASE \E e \in Editors : Creates(e) BY <1>1, <1>2, <1>5 DEF Creates
<1>6. CASE \E e \in Editors, next \in EditingRow : Starts(e, next) BY <1>1, <1>6 DEF Starts
<1>7. CASE \E e \in Editors, row \in ProductRow : Writes(e, row) BY <1>1, <1>7 DEF Writes
<1>8. CASE \E c \in Reviewers, next \in ReviewingRow : Opens(c, next) BY <1>1, <1>8 DEF Opens
<1>9. CASE \E c \in Reviewers, row \in ProductRow : Decides(c, row)
  BY <1>1, <1>3, <1>9 DEF Decides
<1> QED BY <1>4, <1>5, <1>6, <1>7, <1>8, <1>9, PartSteps, CatalogSteps

(* Unless handlers cross, what is approved is the text that was looked at, *)
(* and an edit of a listed product puts it up for review again.            *)
LEMMA CatalogStep ==
  ASSUME TypeOK, CatalogInv, [Next]_vars
  PROVE  CatalogInv'
<1>1. team' = team BY PartSteps
<1>2. CASE UNCHANGED catalogVars
  BY <1>1, <1>2 DEF catalogVars, CatalogInv, LooksAndEdits, ReviewedUnlessCrossed, PublishedIsReviewed
<1>3. CASE "cross" \in team BY <1>1, <1>3 DEF CatalogInv, LooksAndEdits, ReviewedUnlessCrossed
<1>4. CASE CatalogNext /\ "cross" \notin team
  <2>1. /\ product \in [Products -> ProductRow]
        /\ editing \in [Editors -> {Free} \cup EditingRow]
        /\ reviewing \in [Reviewers -> {Free} \cup ReviewingRow]
        /\ approved \in [Products -> 0..MaxTexts]
        /\ \A e \in Editors : EditorOf[e] \in Products
        /\ \A c \in Reviewers : reviewing[c] # Free => reviewing[c].product \in Products
    BY Assumptions DEF TypeOK, ListingsTypeOK, ProductRow, EditingRow, ReviewingRow
  <2>2. /\ \A e \in Editors, c \in Reviewers : editing[e] = Free \/ reviewing[c] = Free
        /\ \A c \in Reviewers : reviewing[c] # Free =>
             /\ product[reviewing[c].product].status # "none"
             /\ product[reviewing[c].product].text = reviewing[c].text
        /\ \A e \in Editors : editing[e].at = "update" /\ product[EditorOf[e]].status = "ACTIVE" =>
             editing[e].status = "ACTIVE"
        /\ \A p \in Products : product[p].status = "ACTIVE" => product[p].text = approved[p]
    BY <1>4 DEF CatalogInv, LooksAndEdits, ReviewedUnlessCrossed, PublishedIsReviewed
  <2> SUFFICES
        /\ \A e \in Editors, c \in Reviewers : editing'[e] = Free \/ reviewing'[c] = Free
        /\ \A c \in Reviewers : reviewing'[c] # Free =>
             /\ product'[reviewing'[c].product].status # "none"
             /\ product'[reviewing'[c].product].text = reviewing'[c].text
        /\ \A e \in Editors : editing'[e].at = "update" /\ product'[EditorOf[e]].status = "ACTIVE" =>
             editing'[e].status = "ACTIVE"
        /\ \A p \in Products : product'[p].status = "ACTIVE" => product'[p].text = approved'[p]
    BY DEF CatalogInv, LooksAndEdits, ReviewedUnlessCrossed, PublishedIsReviewed
  <2>3. ASSUME NEW e \in Editors, Creates(e)
        PROVE  /\ \A d \in Editors, c \in Reviewers : editing'[d] = Free \/ reviewing'[c] = Free
               /\ \A c \in Reviewers : reviewing'[c] # Free =>
                    /\ product'[reviewing'[c].product].status # "none"
                    /\ product'[reviewing'[c].product].text = reviewing'[c].text
               /\ \A d \in Editors : editing'[d].at = "update" /\ product'[EditorOf[d]].status = "ACTIVE" =>
                    editing'[d].status = "ACTIVE"
               /\ \A p \in Products : product'[p].status = "ACTIVE" => product'[p].text = approved'[p]
    <3>1. /\ product'[EditorOf[e]].status = "DRAFT"
          /\ \A p \in Products \ {EditorOf[e]} : product'[p] = product[p]
      BY <2>1, <2>3 DEF Creates
    <3> QED BY <2>1, <2>2, <2>3, <3>1 DEF Creates
  <2>4. ASSUME NEW e \in Editors, NEW next \in EditingRow,
               Starts(e, next)
        PROVE  /\ \A d \in Editors, c \in Reviewers : editing'[d] = Free \/ reviewing'[c] = Free
               /\ \A d \in Editors : editing'[d].at = "update" /\ product'[EditorOf[d]].status = "ACTIVE" =>
                    editing'[d].status = "ACTIVE"
    <3>1. \A c \in Reviewers : reviewing[c] = Free BY <1>4, <2>4 DEF Starts, Uncrossed
    <3>2. editing'[e] = next /\ \A d \in Editors \ {e} : editing'[d] = editing[d]
      BY <2>1, <2>4 DEF Starts
    <3> QED BY <2>2, <2>4, <3>1, <3>2 DEF Starts
  <2>5. ASSUME NEW e \in Editors, NEW row \in ProductRow, Writes(e, row)
        PROVE  /\ \A d \in Editors, c \in Reviewers : editing'[d] = Free \/ reviewing'[c] = Free
               /\ \A c \in Reviewers : reviewing'[c] = Free
               /\ \A d \in Editors : editing'[d].at = "update" /\ product'[EditorOf[d]].status = "ACTIVE" =>
                    editing'[d].status = "ACTIVE"
               /\ \A p \in Products : product'[p].status = "ACTIVE" => product'[p].text = approved'[p]
    <3>1. /\ product'[EditorOf[e]] = row
          /\ \A p \in Products \ {EditorOf[e]} : product'[p] = product[p]
      BY <2>1, <2>5 DEF Writes
    <3>2. row.status # "ACTIVE" BY <2>2, <2>5 DEF Writes
    <3>3. editing'[e] = Free /\ \A d \in Editors \ {e} : editing'[d] = editing[d]
      BY <2>1, <2>5 DEF Writes
    <3>4. \A c \in Reviewers : reviewing[c] = Free BY <2>2, <2>5 DEF Writes
    <3>5. Free.at # "update" BY DEF Free
    <3> QED BY <2>1, <2>2, <2>5, <3>1, <3>2, <3>3, <3>4, <3>5 DEF Writes
  <2>6. ASSUME NEW c \in Reviewers, NEW next \in ReviewingRow,
               Opens(c, next)
        PROVE  /\ \A e \in Editors, d \in Reviewers : editing'[e] = Free \/ reviewing'[d] = Free
               /\ \A d \in Reviewers : reviewing'[d] # Free =>
                    /\ product'[reviewing'[d].product].status # "none"
                    /\ product'[reviewing'[d].product].text = reviewing'[d].text
    <3>1. \A e \in Editors : editing[e] = Free BY <1>4, <2>6 DEF Opens, Uncrossed
    <3>2. reviewing'[c] = next /\ \A d \in Reviewers \ {c} : reviewing'[d] = reviewing[d]
      BY <2>1, <2>6 DEF Opens
    <3> QED BY <2>2, <2>6, <3>1, <3>2 DEF Opens
  <2>7. ASSUME NEW c \in Reviewers, NEW row \in ProductRow, Decides(c, row)
        PROVE  /\ \A e \in Editors : editing'[e] = Free
               /\ \A d \in Reviewers : reviewing'[d] # Free =>
                    /\ product'[reviewing'[d].product].status # "none"
                    /\ product'[reviewing'[d].product].text = reviewing'[d].text
               /\ \A p \in Products : product'[p].status = "ACTIVE" => product'[p].text = approved'[p]
    <3> DEFINE q == reviewing[c].product
    <3>1. q \in Products /\ product'[q] = row /\ \A p \in Products \ {q} : product'[p] = product[p]
      BY <2>1, <2>7 DEF Decides
    <3>2. \A e \in Editors : editing[e] = Free BY <2>2, <2>7 DEF Decides
    <3>3. reviewing'[c] = Free /\ \A d \in Reviewers \ {c} : reviewing'[d] = reviewing[d]
      BY <2>1, <2>7 DEF Decides
    <3>4. row.text = reviewing[c].text /\ row.status # "none" BY <2>2, <2>7 DEF Decides
    <3>5. \A d \in Reviewers : reviewing'[d] # Free =>
            /\ product'[reviewing'[d].product].status # "none"
            /\ product'[reviewing'[d].product].text = reviewing'[d].text
      <4> SUFFICES ASSUME NEW d \in Reviewers, reviewing'[d] # Free
                   PROVE  /\ product'[reviewing[d].product].status # "none"
                          /\ product'[reviewing[d].product].text = reviewing[d].text
        BY <3>3
      <4>1. reviewing[d] # Free /\ reviewing[d].product \in Products BY <2>1, <3>3
      <4>2. CASE reviewing[d].product = q BY <2>2, <2>7, <3>1, <3>4, <4>1, <4>2 DEF Decides
      <4>3. CASE reviewing[d].product # q BY <2>2, <3>1, <4>1, <4>3
      <4> QED BY <4>2, <4>3
    <3>6. ASSUME NEW p \in Products, product'[p].status = "ACTIVE" PROVE product'[p].text = approved'[p]
      <4>1. CASE p = q
        <5>1. approved' = [approved EXCEPT ![q] = reviewing[c].text]
          BY <2>7, <3>1, <3>6, <4>1 DEF Decides
        <5> QED BY <2>1, <3>1, <3>4, <4>1, <5>1
      <4>2. CASE p # q
        <5>1. approved'[p] = approved[p] BY <2>1, <2>7, <4>2 DEF Decides
        <5> QED BY <2>2, <3>1, <3>6, <4>2, <5>1
      <4> QED BY <4>1, <4>2
    <3> QED BY <2>7, <3>2, <3>5, <3>6 DEF Decides
  <2>8. CASE \E e \in Editors : Creates(e) BY <2>3, <2>8
  <2>9. CASE \E e \in Editors, next \in EditingRow : Starts(e, next)
    BY <2>2, <2>4, <2>9 DEF Starts
  <2>10. CASE \E e \in Editors, row \in ProductRow : Writes(e, row) BY <2>5, <2>10
  <2>11. CASE \E c \in Reviewers, next \in ReviewingRow : Opens(c, next)
    BY <2>2, <2>6, <2>11 DEF Opens
  <2>12. CASE \E c \in Reviewers, row \in ProductRow : Decides(c, row)
    <3> Free.at # "update" BY DEF Free
    <3> QED BY <2>7, <2>12
  <2> QED BY <1>4, <2>8, <2>9, <2>10, <2>11, <2>12, CatalogSteps
<1> QED BY <1>2, <1>3, <1>4, PartSteps

----------------------------------------------------------------------------
(* The trace of a product                                                  *)

BatchRow == [qc : QcStatus, day : 0..MaxClock, until : 0..MaxClock + 1]

(* Withdrawals are days.                                                   *)
LEMMA CareRecords ==
  ASSUME TypeOK
  PROVE  \A i \in DOMAIN care : care[i] \in 0..MaxClock + 1 /\ care[i] \in Int
<1> DEFINE Days == 0..MaxClock + 1
<1>1. care \in Seq(Days) BY DEF TypeOK, TracingTypeOK
<1>2. \A d \in Days : d \in Int OBVIOUS
<1> SUFFICES \A i \in DOMAIN care : care[i] \in Days /\ care[i] \in Int OBVIOUS
<1> HIDE DEF Days
<1> QED BY <1>1, <1>2

(* The last withdrawal on record is one of them.                           *)
LEMMA LastWithdrawal ==
  ASSUME TypeOK
  PROVE  LET until == Max({0} \cup Range(care)) IN
         /\ until \in 0..MaxClock + 1
         /\ until = 0 \/ \E i \in DOMAIN care : until = care[i]
<1> DEFINE S == {0} \cup Range(care)
<1>1. \A i \in DOMAIN care : care[i] \in 0..MaxClock + 1 BY CareRecords
<1>2. S \subseteq 0..MaxClock + 1 BY <1>1, Assumptions DEF Range
<1>3. IsFiniteSet(0..MaxClock + 1) BY Assumptions, FS_Interval
<1>4. IsFiniteSet(S) BY <1>2, <1>3, FS_Subset
<1>5. \A x \in S : x \in Int BY <1>2
<1>6. S # {} OBVIOUS
<1> HIDE DEF S
<1>7. \E x \in S : \A y \in S : x >= y BY <1>4, <1>5, <1>6, GreatestOf
<1>8. Max(S) \in S BY <1>7 DEF Max
<1>9. Max(S) = 0 \/ \E i \in DOMAIN care : Max(S) = care[i] BY <1>8 DEF S, Range
<1> QED BY <1>2, <1>8, <1>9 DEF S

(* Care, batches and lots keep their types.                                *)
LEMMA TracingTypes ==
  ASSUME TypeOK, [Next]_vars
  PROVE  TracingTypeOK'
<1>1. /\ care \in Seq(0..MaxClock + 1) /\ Len(care) <= MaxCare
      /\ processing \in [Butchers -> {"free", "create"}]
      /\ batches \in Seq(BatchRow) /\ Len(batches) \in Nat /\ DOMAIN batches = 1..Len(batches)
      /\ stocking \in [Stockers -> 0..Len(batches)]
      /\ lots \in Seq(DOMAIN batches)
      /\ clock \in 0..MaxClock
  BY DEF TypeOK, TracingTypeOK, OutboxTypeOK, BatchRow
<1> SUFFICES /\ care' \in Seq(0..MaxClock + 1) /\ Len(care') <= MaxCare
             /\ processing' \in [Butchers -> {"free", "create"}]
             /\ batches' \in Seq(BatchRow)
             /\ stocking' \in [Stockers -> 0..Len(batches')]
             /\ lots' \in Seq(DOMAIN batches')
  BY DEF TracingTypeOK, BatchRow
<1>2. CASE UNCHANGED tracingVars BY <1>1, <1>2 DEF tracingVars
<1>3. CASE \E n \in Nurses : AddCareRecord(n)
  <2>1. PICK until \in 0..MaxClock + 1 : care' = Append(care, until) BY <1>3 DEF AddCareRecord
  <2>2. Len(care) < MaxCare /\ UNCHANGED <<processing, batches, stocking, lots>>
    BY <1>3 DEF AddCareRecord
  <2>3. MaxCare \in Nat BY TracingAssumption DEF TracingAssumption
  <2>4. care' \in Seq(0..MaxClock + 1) /\ Len(care') = Len(care) + 1 /\ Len(care) \in Nat
    BY <1>1, <2>1, AppendTo
  <2> QED BY <1>1, <2>2, <2>3, <2>4
<1>4. CASE \E w \in Butchers : ProcessCheck(w) BY <1>1, <1>4 DEF ProcessCheck
<1>5. CASE \E w \in Butchers : ProcessCreate(w)
  <2>1. PICK w \in Butchers : ProcessCreate(w) BY <1>5
  <2> DEFINE row == [qc |-> "IN_PROGRESS", day |-> clock, until |-> Max({0} \cup Range(care))]
  <2>2. row \in BatchRow BY <1>1, LastWithdrawal DEF BatchRow, QcStatus
  <2>3. batches' = Append(batches, row) /\ UNCHANGED <<care, stocking, lots>>
    BY <2>1 DEF ProcessCreate
  <2>4. processing' \in [Butchers -> {"free", "create"}] BY <1>1, <2>1 DEF ProcessCreate
  <2> HIDE DEF row
  <2>5. /\ batches' \in Seq(BatchRow) /\ Len(batches') = Len(batches) + 1
        /\ DOMAIN batches \subseteq DOMAIN batches'
    BY <1>1, <2>2, <2>3, AppendTo
  <2>6. lots \in Seq(DOMAIN batches') BY <1>1, <2>5, Widen
  <2>7. 0..Len(batches) \subseteq 0..Len(batches') BY <1>1, <2>5
  <2> QED BY <1>1, <2>3, <2>4, <2>5, <2>6, <2>7
<1>6. CASE \E q \in Inspectors : SetQc(q)
  <2>1. PICK b \in DOMAIN batches, verdict \in {"QC_PASS", "QC_FAIL"} :
          batches' = [batches EXCEPT ![b].qc = verdict]
    BY <1>6 DEF SetQc
  <2> DEFINE row == [batches[b] EXCEPT !.qc = verdict]
  <2>2. batches[b] \in BatchRow BY <1>1
  <2>3. row \in BatchRow BY <2>2 DEF BatchRow, QcStatus
  <2>4. batches' = [batches EXCEPT ![b] = row] BY <2>1
  <2> HIDE DEF row
  <2>5. [batches EXCEPT ![b] = row] \in Seq(BatchRow) BY <1>1, <2>1, <2>3, Replace
  <2>6. Len(batches') = Len(batches) /\ DOMAIN batches' = DOMAIN batches BY <1>1, <2>4
  <2> QED BY <1>1, <1>6, <2>4, <2>5, <2>6 DEF SetQc
<1>7. CASE \E s \in Stockers : InboundCheck(s)
  <2>1. PICK s \in Stockers, b \in DOMAIN batches : stocking' = [stocking EXCEPT ![s] = b]
    BY <1>7 DEF InboundCheck
  <2> QED BY <1>1, <1>7, <2>1 DEF InboundCheck
<1>8. CASE \E s \in Stockers : InboundCreate(s)
  <2>1. PICK s \in Stockers : InboundCreate(s) BY <1>8
  <2>2. stocking[s] \in DOMAIN batches BY <1>1, <2>1 DEF InboundCreate
  <2>3. lots' = Append(lots, stocking[s]) /\ UNCHANGED <<care, processing, batches>>
    BY <2>1 DEF InboundCreate
  <2>4. lots' \in Seq(DOMAIN batches) BY <1>1, <2>2, <2>3, AppendTo
  <2>5. stocking' \in [Stockers -> 0..Len(batches)] BY <1>1, <2>1 DEF InboundCreate
  <2> QED BY <1>1, <2>3, <2>4, <2>5
<1> QED BY <1>2, <1>3, <1>4, <1>5, <1>6, <1>7, <1>8, PartSteps DEF TracingNext

(* Unless care is recorded in the middle of it, a batch is made after the  *)
(* end of all medications, which have ended when it is checked.            *)
LEMMA TracingStep ==
  ASSUME TypeOK, TracingInv, [Next]_vars
  PROVE  TracingInv'
<1>1. team' = team /\ clock \in Int /\ clock' \in Int /\ clock <= clock' /\ 0 <= clock
  BY PartSteps DEF TypeOK, OutboxTypeOK
<1>2. /\ \A i \in DOMAIN care : care[i] \in Int
      /\ care \in Seq(0..MaxClock + 1) /\ batches \in Seq(BatchRow)
      /\ processing \in [Butchers -> {"free", "create"}]
  BY CareRecords DEF TypeOK, TracingTypeOK, BatchRow
<1>3. CASE "cross" \in team
  BY <1>1, <1>3 DEF TracingInv, CareEnded, ProcessedAfterWithdrawal
<1>4. CASE "cross" \notin team
  <2>1. /\ \A w \in Butchers : processing[w] = "create" => \A i \in DOMAIN care : care[i] <= clock
        /\ \A b \in DOMAIN batches : batches[b].day >= batches[b].until
    BY <1>4 DEF TracingInv, CareEnded, ProcessedAfterWithdrawal
  <2> SUFFICES /\ \A w \in Butchers : processing'[w] = "create" =>
                    \A i \in DOMAIN care' : care'[i] <= clock'
               /\ \A b \in DOMAIN batches' : batches'[b].day >= batches'[b].until
    BY DEF TracingInv, CareEnded, ProcessedAfterWithdrawal
  <2>2. CASE UNCHANGED <<care, processing, batches>> BY <1>1, <1>2, <2>1, <2>2
  <2>3. CASE \E n \in Nurses : AddCareRecord(n)
    <3>1. \A w \in Butchers : processing[w] = "free" BY <1>4, <2>3 DEF AddCareRecord
    <3> QED BY <2>1, <2>3, <3>1 DEF AddCareRecord
  <2>4. CASE \E w \in Butchers : ProcessCheck(w)
    <3>1. \A i \in DOMAIN care : ~(care[i] > clock) BY <2>4 DEF ProcessCheck, ActiveWithdrawal
    <3>2. \A i \in DOMAIN care : care[i] <= clock' BY <1>1, <1>2, <3>1
    <3> QED BY <2>1, <2>4, <3>2 DEF ProcessCheck
  <2>5. CASE \E w \in Butchers : ProcessCreate(w)
    <3>1. PICK w \in Butchers : ProcessCreate(w) BY <2>5
    <3> DEFINE until == Max({0} \cup Range(care))
               row == [qc |-> "IN_PROGRESS", day |-> clock, until |-> until]
    <3>2. until \in Int /\ until <= clock
      <4>1. \A i \in DOMAIN care : care[i] \in Int /\ care[i] <= clock
        BY <1>2, <2>1, <3>1 DEF ProcessCreate
      <4>2. until = 0 \/ \E i \in DOMAIN care : until = care[i] BY LastWithdrawal
      <4> HIDE DEF until
      <4> QED BY <1>1, <4>1, <4>2
    <3>3. row.day >= row.until BY <1>1, <3>2
    <3>4. batches' = Append(batches, row) BY <3>1 DEF ProcessCreate
    <3>5. \A b \in DOMAIN batches' :
            \/ b \in DOMAIN batches /\ batches'[b] = batches[b]
            \/ batches'[b] = row
      <4> HIDE DEF row
      <4> QED BY <1>2, <3>4
    <3>6. \A v \in Butchers : processing'[v] = "create" => processing[v] = "create"
      BY <1>2, <3>1 DEF ProcessCreate
    <3>7. care' = care BY <3>1 DEF ProcessCreate
    <3> HIDE DEF row
    <3>8. \A b \in DOMAIN batches' : batches'[b].day >= batches'[b].until BY <2>1, <3>3, <3>5
    <3> QED BY <1>1, <1>2, <2>1, <3>6, <3>7, <3>8
  <2>6. CASE \E q \in Inspectors : SetQc(q)
    <3>1. PICK d \in DOMAIN batches, verdict \in {"QC_PASS", "QC_FAIL"} :
            batches' = [batches EXCEPT ![d].qc = verdict]
      BY <2>6 DEF SetQc
    <3>2. ASSUME NEW b \in DOMAIN batches' PROVE batches'[b].day >= batches'[b].until
      <4>1. b \in DOMAIN batches /\ batches[b] \in BatchRow BY <1>2, <3>1
      <4>2. batches'[b].day = batches[b].day /\ batches'[b].until = batches[b].until
        BY <3>1, <4>1 DEF BatchRow
      <4> QED BY <2>1, <4>1, <4>2
    <3> QED BY <1>1, <1>2, <2>1, <2>6, <3>2 DEF SetQc
  <2>7. CASE \E s \in Stockers : InboundCheck(s) \/ InboundCreate(s)
    BY <2>2, <2>7 DEF InboundCheck, InboundCreate
  <2> QED BY <2>2, <2>3, <2>4, <2>5, <2>6, <2>7, PartSteps DEF TracingNext, tracingVars
<1> QED BY <1>3, <1>4

----------------------------------------------------------------------------
(* The policies                                                            *)

(* The effect of a field is the widest of the rows that count.             *)
Hits(rows, roles) == {rows[role] : role \in roles \cup {"*"}} \ {"none"}
LEMMA Widest ==
  ASSUME NEW rows \in Rows, NEW roles \in SUBSET Roles
  PROVE  /\ Effective(rows, roles) \in Effects
         /\ Effective(rows, roles) =
              IF Hits(rows, roles) = {} \/ "ALLOW" \in Hits(rows, roles) THEN "ALLOW"
              ELSE IF "MASK" \in Hits(rows, roles) THEN "MASK" ELSE "DENY"
<1>1. Hits(rows, roles) \subseteq Effects BY Assumptions DEF Hits, Rows
<1>2. PICK hits : hits = Hits(rows, roles) OBVIOUS
<1>3. CASE hits = {} BY <1>2, <1>3 DEF Effective, Hits, Effects
<1>4. CASE hits # {}
  <2>1. PICK widest : widest = CHOOSE e \in hits : \A f \in hits : Rank(e) >= Rank(f) OBVIOUS
  <2>2. Effective(rows, roles) = widest BY <1>2, <1>4, <2>1 DEF Effective, Hits
  <2>3. Rank("ALLOW") = 3 /\ Rank("MASK") = 2 /\ Rank("DENY") = 1 BY DEF Rank
  <2>4. \E e \in hits : \A f \in hits : Rank(e) >= Rank(f) BY <1>1, <1>2, <1>4, <2>3 DEF Effects
  <2>5. widest \in hits /\ \A f \in hits : Rank(widest) >= Rank(f) BY <2>1, <2>4
  <2>6. widest = IF "ALLOW" \in hits THEN "ALLOW" ELSE IF "MASK" \in hits THEN "MASK" ELSE "DENY"
    BY <1>1, <1>2, <2>3, <2>5 DEF Effects
  <2> QED BY <1>1, <1>2, <1>4, <2>2, <2>5, <2>6
<1> QED BY <1>3, <1>4

(* What a handler of apply remembers.                                      *)
ReadingRow == [at : {"query", "store"}, sent : Nat, rows : Rows]
LEMMA ReadingIs ==
  ASSUME TypeOK, NEW r \in Readers, reading[r] # Free
  PROVE  reading[r] \in ReadingRow
  BY DEF TypeOK, PoliciesTypeOK, ReadingRow

(* The policies, their cache and the handlers keep their types.            *)
LEMMA PoliciesTypes ==
  ASSUME TypeOK, [Next]_vars
  PROVE  PoliciesTypeOK'
<1>1. /\ policy \in Rows
      /\ cache \in [at : {None} \cup Nat, rows : Rows]
      /\ reading \in [Readers -> {Free} \cup ReadingRow]
      /\ changing \subseteq Officers
      /\ changed \in Nat /\ changes \in 0..MaxChanges
      /\ applied \in [at : {None} \cup Nat, roles : SUBSET Roles, effect : Effects]
  BY DEF TypeOK, PoliciesTypeOK, ReadingRow
<1>2. clock \in Nat BY DEF TypeOK, OutboxTypeOK
<1>3. Uncached \in [at : {None} \cup Nat, rows : Rows] BY DEF Uncached, Rows
<1> SUFFICES /\ policy' \in Rows
             /\ cache' \in [at : {None} \cup Nat, rows : Rows]
             /\ reading' \in [Readers -> {Free} \cup ReadingRow]
             /\ changing' \subseteq Officers
             /\ changed' \in Nat /\ changes' \in 0..MaxChanges
             /\ applied' \in [at : {None} \cup Nat, roles : SUBSET Roles, effect : Effects]
  BY DEF PoliciesTypeOK, ReadingRow
<1>4. ASSUME NEW r \in Readers, NEW rows \in Rows, Applies(r, rows)
      PROVE  applied' \in [at : {None} \cup Nat, roles : SUBSET Roles, effect : Effects]
  <2>1. RolesOf[r] \in SUBSET Roles BY Assumptions
  <2>2. Effective(rows, RolesOf[r]) \in Effects BY <2>1, Widest
  <2> QED BY <1>2, <1>4, <2>1, <2>2 DEF Applies
<1>5. CASE UNCHANGED policyVars BY <1>1, <1>5 DEF policyVars
<1>6. CASE \E r \in Readers : ReadHit(r) BY <1>1, <1>4, <1>6 DEF ReadHit
<1>7. CASE \E r \in Readers : ReadMiss(r)
  <2>1. PICK r \in Readers : ReadMiss(r) BY <1>7
  <2>2. PICK row : row = [at |-> "query", sent |-> clock, rows |-> Uncached.rows] OBVIOUS
  <2>3. row \in ReadingRow BY <1>2, <1>3, <2>2 DEF ReadingRow
  <2>4. reading' = [reading EXCEPT ![r] = row] BY <2>1, <2>2 DEF ReadMiss
  <2> QED BY <1>1, <2>1, <2>3, <2>4 DEF ReadMiss
<1>8. CASE \E r \in Readers : ReadRows(r)
  <2>1. PICK r \in Readers : ReadRows(r) BY <1>8
  <2>2. reading[r] # Free BY <2>1 DEF ReadRows, Free
  <2>3. reading[r] \in ReadingRow BY <2>2, ReadingIs
  <2>4. PICK row : row = [[reading[r] EXCEPT !.at = "store"] EXCEPT !.rows = policy] OBVIOUS
  <2>5. row \in ReadingRow BY <1>1, <2>3, <2>4 DEF ReadingRow
  <2>6. reading' = [reading EXCEPT ![r] = row] BY <1>1, <2>1, <2>4 DEF ReadRows
  <2>7. UNCHANGED <<policy, cache, changing, changed, changes, applied>> BY <2>1 DEF ReadRows
  <2> QED BY <1>1, <2>5, <2>6, <2>7
<1>9. CASE \E r \in Readers : ReadStore(r)
  <2>1. PICK r \in Readers : ReadStore(r) BY <1>9
  <2>2. reading[r] # Free BY <2>1 DEF ReadStore, Free
  <2>3. reading[r].rows \in Rows BY <2>2, ReadingIs DEF ReadingRow
  <2>4. applied' \in [at : {None} \cup Nat, roles : SUBSET Roles, effect : Effects]
    BY <1>4, <2>1, <2>3 DEF ReadStore
  <2> QED BY <1>1, <1>2, <2>1, <2>3, <2>4 DEF ReadStore
<1>10. CASE \E v \in Officers : ChangePolicy(v)
  <2>1. PICK v \in Officers : ChangePolicy(v) BY <1>10
  <2>2. policy' \in Rows BY <1>1, <2>1 DEF ChangePolicy, Rows
  <2>3. changes' \in 0..MaxChanges BY <1>1, <2>1, Assumptions DEF ChangePolicy
  <2> QED BY <1>1, <1>2, <2>1, <2>2, <2>3 DEF ChangePolicy
<1>11. CASE \E v \in Officers : ClearCache(v) BY <1>1, <1>3, <1>11 DEF ClearCache
<1> QED BY <1>5, <1>6, <1>7, <1>8, <1>9, <1>10, <1>11, PartSteps DEF PoliciesNext

(* Rows that are not those of the policy were asked for early enough.      *)
LEMMA StaleStep ==
  ASSUME TypeOK, StaleWasEarly, [Next]_vars
  PROVE  StaleWasEarly'
<1>1. /\ policy \in Rows
      /\ cache \in [at : {None} \cup Nat, rows : Rows]
      /\ reading \in [Readers -> {Free} \cup ReadingRow]
      /\ changed \in Nat
      /\ applied \in [at : {None} \cup Nat, roles : SUBSET Roles, effect : Effects]
      /\ Latency \in Nat /\ CACHE_TTL \in Nat \ {0} /\ clock \in Nat /\ clock' \in Nat
  BY PartSteps, Assumptions DEF TypeOK, PoliciesTypeOK, OutboxTypeOK, ReadingRow
<1>2. /\ \A r \in Readers : reading[r] # Free =>
           /\ reading[r].sent \in Nat /\ reading[r].sent <= clock
           /\ clock <= reading[r].sent + Latency
           /\ reading[r].at = "store" /\ reading[r].rows # policy => reading[r].sent <= changed
      /\ cache.at <= clock /\ changed <= clock /\ applied.at <= clock
      /\ cache # Uncached /\ cache.rows # policy => cache.at <= changed + Latency
      /\ applied.at < changed + CACHE_TTL + Latency \/ applied.effect = Effective(policy, applied.roles)
  BY <1>1, ReadingIs DEF StaleWasEarly, ReadingRow
<1>3. cache.at \in Int /\ applied.at \in Int BY <1>1 DEF None
<1>4. CASE UNCHANGED policyVars
  <2>1. \A r \in Readers : reading[r] # Free => clock' <= reading[r].sent + Latency
    BY <1>1, <1>2, PartSteps DEF Answered
  <2>2. clock <= clock' BY <1>1, PartSteps
  <2>3. UNCHANGED <<policy, cache, reading, changed, applied>> BY <1>4 DEF policyVars
  <2> QED BY <1>1, <1>2, <1>3, <2>1, <2>2, <2>3 DEF StaleWasEarly
<1>5. CASE PoliciesNext /\ clock' = clock
  <2>1. CASE \E r \in Readers : ReadHit(r)
    <3>1. PICK r \in Readers : ReadHit(r) BY <2>1
    <3>2. UNCHANGED <<policy, cache, reading, changed>> BY <3>1 DEF ReadHit
    <3>3. applied' = [at |-> clock, roles |-> RolesOf[r], effect |-> Effective(cache.rows, RolesOf[r])]
      BY <3>1 DEF ReadHit, Applies
    <3>4. cache # Uncached /\ clock - cache.at < CACHE_TTL BY <3>1 DEF ReadHit, Fresh
    <3>5. cache.rows = policy \/ clock < changed + CACHE_TTL + Latency BY <1>1, <1>2, <1>3, <3>4
    <3>6. applied'.at = clock /\ applied'.roles = RolesOf[r]
          /\ applied'.effect = Effective(cache.rows, RolesOf[r])
      BY <3>3
    <3> QED BY <1>1, <1>2, <1>3, <1>5, <3>2, <3>5, <3>6 DEF StaleWasEarly
  <2>2. CASE \E r \in Readers : ReadMiss(r)
    <3>1. PICK r \in Readers : ReadMiss(r) BY <2>2
    <3>2. UNCHANGED <<policy, cache, applied, changed>> BY <3>1 DEF ReadMiss
    <3>3. PICK row : row = [at |-> "query", sent |-> clock, rows |-> Uncached.rows] OBVIOUS
    <3>4. reading' = [reading EXCEPT ![r] = row] BY <3>1, <3>3 DEF ReadMiss
    <3>5. row.at = "query" /\ row.sent = clock BY <3>3
    <3> QED BY <1>1, <1>2, <1>3, <1>5, <3>2, <3>4, <3>5 DEF StaleWasEarly
  <2>3. CASE \E r \in Readers : ReadRows(r)
    <3>1. PICK r \in Readers : ReadRows(r) BY <2>3
    <3>2. UNCHANGED <<policy, cache, applied, changed>> BY <3>1 DEF ReadRows
    <3>3. reading[r] # Free BY <3>1 DEF ReadRows, Free
    <3>4. reading[r] \in ReadingRow BY <3>3, ReadingIs
    <3>5. PICK row : row = [[reading[r] EXCEPT !.at = "store"] EXCEPT !.rows = policy] OBVIOUS
    <3>6. reading' = [reading EXCEPT ![r] = row] BY <1>1, <3>1, <3>5 DEF ReadRows
    <3>7. row.rows = policy /\ row.sent = reading[r].sent BY <3>4, <3>5 DEF ReadingRow
    <3> QED BY <1>1, <1>2, <1>3, <1>5, <3>2, <3>3, <3>6, <3>7 DEF StaleWasEarly
  <2>4. CASE \E r \in Readers : ReadStore(r)
    <3>1. PICK r \in Readers : ReadStore(r) BY <2>4
    <3>2. reading[r].at = "store" /\ UNCHANGED <<policy, changed>> BY <3>1 DEF ReadStore
    <3>3. reading[r] # Free BY <3>2 DEF Free
    <3>4. PICK rows : rows = reading[r].rows OBVIOUS
    <3>5. cache' = [at |-> clock, rows |-> rows] BY <3>1, <3>4 DEF ReadStore
    <3>6. applied' = [at |-> clock, roles |-> RolesOf[r], effect |-> Effective(rows, RolesOf[r])]
      BY <3>1, <3>4 DEF ReadStore, Applies
    <3>7. reading' = [reading EXCEPT ![r] = Free] BY <3>1 DEF ReadStore
    <3>8. rows = policy \/ clock <= changed + Latency BY <1>1, <1>2, <3>2, <3>3, <3>4
    <3>9. clock <= changed + Latency => clock < changed + CACHE_TTL + Latency BY <1>1
    <3>10. /\ cache'.at = clock /\ cache'.rows = rows
           /\ applied'.at = clock /\ applied'.roles = RolesOf[r]
           /\ applied'.effect = Effective(rows, RolesOf[r])
      BY <3>5, <3>6
    <3>11. \A s \in Readers : reading'[s] # Free => reading'[s] = reading[s] /\ reading[s] # Free
      BY <1>1, <3>7
    <3> QED BY <1>1, <1>2, <1>5, <3>2, <3>8, <3>9, <3>10, <3>11 DEF StaleWasEarly
  <2>5. CASE \E v \in Officers : ChangePolicy(v)
    <3>1. UNCHANGED <<cache, reading, applied>> /\ changed' = clock BY <2>5 DEF ChangePolicy
    <3>2. /\ applied.at < clock + CACHE_TTL + Latency
          /\ cache.at <= clock + Latency
      BY <1>1, <1>2, <1>3
    <3> QED BY <1>1, <1>2, <1>5, <3>1, <3>2 DEF StaleWasEarly
  <2>6. CASE \E v \in Officers : ClearCache(v)
    <3>1. cache' = Uncached /\ UNCHANGED <<policy, reading, changed, applied>>
      BY <2>6 DEF ClearCache
    <3>2. Uncached.at <= clock BY <1>1 DEF Uncached, None
    <3> QED BY <1>1, <1>2, <1>5, <3>1, <3>2 DEF StaleWasEarly
  <2> QED BY <1>5, <2>1, <2>2, <2>3, <2>4, <2>5, <2>6 DEF PoliciesNext
<1> QED BY <1>4, <1>5, PartSteps

(* The policy is in force once the cache and the answers under way have    *)
(* lapsed.                                                                 *)
LEMMA InForceByInv == TypeOK /\ StaleWasEarly => PolicyInForce
<1> SUFFICES ASSUME TypeOK, StaleWasEarly PROVE PolicyInForce OBVIOUS
<1>1. /\ policy \in Rows /\ applied.roles \in SUBSET Roles /\ applied.at \in Int
      /\ changed \in Nat /\ CACHE_TTL \in Nat /\ Latency \in Nat
  BY Assumptions DEF TypeOK, PoliciesTypeOK, None
<1>2. \/ applied.at < changed + CACHE_TTL + Latency
      \/ applied.effect = Effective(policy, applied.roles)
  BY DEF StaleWasEarly
<1>3. applied.at >= changed + CACHE_TTL + Latency => applied.effect = Effective(policy, applied.roles)
  BY <1>1, <1>2
<1>4. Effective(policy, applied.roles) =
        LET effects == Hits(policy, applied.roles) IN
        IF effects = {} \/ "ALLOW" \in effects THEN "ALLOW"
        ELSE IF "MASK" \in effects THEN "MASK" ELSE "DENY"
  BY <1>1, Widest
<1> QED BY <1>3, <1>4 DEF PolicyInForce, Hits

----------------------------------------------------------------------------
(* The outbox                                                              *)

EventRow == [type : EventTypes, about : Nat, published : BOOLEAN]

LEMMA EventRows ==
  ASSUME TypeOK
  PROVE  /\ events \in Seq(EventRow) /\ Len(events) \in Nat /\ Len(events) <= MaxEvents
         /\ DOMAIN events = 1..Len(events) /\ DOMAIN events \subseteq 1..MaxEvents
         /\ IsFiniteSet(DOMAIN events)
         /\ \A i \in DOMAIN events : events[i] \in EventRow
<1>1. events \in Seq(EventRow) /\ Len(events) <= MaxEvents /\ MaxEvents \in Nat
  BY Assumptions DEF TypeOK, OutboxTypeOK, EventRow
<1>2. \A i \in DOMAIN events : events[i] \in EventRow BY <1>1
<1>3. Len(events) \in Nat /\ DOMAIN events = 1..Len(events) BY <1>1
<1>4. DOMAIN events \subseteq 1..MaxEvents BY <1>1, <1>3
<1>5. IsFiniteSet(DOMAIN events) BY <1>3, FS_Interval
<1> QED BY <1>1, <1>2, <1>3, <1>4, <1>5

DispatchRow == [at : {"emit", "listen", "mark"}, batch : (SUBSET (1..MaxEvents)) \ {{}}]

LEMMA DispatchIs ==
  ASSUME TypeOK, NEW t \in Ticks, dispatch[t] # Free
  PROVE  dispatch[t] \in DispatchRow /\ dispatch[t].batch \subseteq DOMAIN events
  BY DEF TypeOK, OutboxTypeOK, DispatchRow

(* The event at hand is the first of the batch.                            *)
LEMMA AtHandIn ==
  ASSUME TypeOK, NEW t \in Ticks, dispatch[t] # Free
  PROVE  /\ AtHand(t) \in dispatch[t].batch /\ AtHand(t) \in DOMAIN events /\ AtHand(t) \in Nat
         /\ Current(t) \in EventRow
<1>1. PICK batch : batch = dispatch[t].batch OBVIOUS
<1>2. batch # {} /\ batch \subseteq DOMAIN events BY <1>1, DispatchIs DEF DispatchRow
<1>3. IsFiniteSet(batch) /\ \A x \in batch : x \in Int BY <1>2, EventRows, FS_Subset
<1>4. \E x \in batch : \A y \in batch : x <= y BY <1>2, <1>3, LeastOf
<1>5. Min(batch) \in batch BY <1>4 DEF Min
<1>6. AtHand(t) = Min(batch) BY <1>1 DEF AtHand
<1> HIDE DEF Min
<1>7. AtHand(t) \in batch BY <1>5, <1>6
<1> QED BY <1>1, <1>2, <1>7, EventRows DEF Current

(* What is fetched is some of what there is.                               *)
LEMMA FetchedSome ==
  ASSUME TypeOK, Unpublished # {}
  PROVE  Fetched # {} /\ Fetched \subseteq DOMAIN events
<1>1. Unpublished \subseteq DOMAIN events BY DEF Unpublished
<1>2. IsFiniteSet(Unpublished) /\ \A x \in Unpublished : x \in Int BY <1>1, EventRows, FS_Subset
<1>3. PICK x \in Unpublished : \A y \in Unpublished : x <= y BY <1>2, LeastOf
<1>4. PICK older : older = {j \in Unpublished : j < x} OBVIOUS
<1>5. older = {} BY <1>2, <1>3, <1>4
<1>6. Cardinality(older) < BatchSize BY <1>5, FS_EmptySet, Assumptions
<1>7. x \in Fetched BY <1>4, <1>6 DEF Fetched
<1> QED BY <1>1, <1>7 DEF Fetched

(* A dispatch goes from one step to the next.                              *)
Turns(t) ==
  /\ dispatch[t] # Free
  /\ Goes(t, "listen") \/ Goes(t, "mark")
  /\ UNCHANGED <<events, running, fails>>

LEMMA OutboxSteps ==
  ASSUME TypeOK, [Next]_vars
  PROVE  \/ Emits
         \/ \E t \in Ticks : DispatchStart(t) \/ Turns(t) \/ Mark(t) \/ DispatchFails(t)
         \/ UNCHANGED outboxVars
<1>1. CASE OutboxNext
  BY <1>1 DEF OutboxNext, EmitUnheard, ListenerFails, Turns, Free
<1>2. CASE \E t \in Ticks : OnAccessEscalated(t) \/ NotifyUser(t) \/ Push(t) \/ Told(t)
  <2>1. CASE \E t \in Ticks : OnAccessEscalated(t) \/ Told(t)
    BY <2>1 DEF OnAccessEscalated, Told, Tells, Hears, Turns, Free
  <2> QED BY <1>2, <2>1 DEF NotifyUser, Push
<1>3. CASE TranslationNext
  <2>1. CASE \E t \in Ticks : OnProductPublished(t) \/ Drafted(t)
    BY <2>1 DEF OnProductPublished, Drafted, Drafting, Hears, Turns, Free
  <2>2. CASE \E r \in Translators : ReviewTranslation(r) BY <2>2 DEF ReviewTranslation
  <2> QED BY <1>3, <2>1, <2>2 DEF TranslationNext, LookForExisting, StoreDraft
<1> QED BY <1>1, <1>2, <1>3, DeliverySteps

(* Events are kept as they are, but for their being published.             *)
Kept ==
  /\ DOMAIN events \subseteq DOMAIN events'
  /\ \A i \in DOMAIN events :
       events'[i].type = events[i].type /\ events'[i].about = events[i].about

(* A new event is not published, and one about a product names it.         *)
Fresher ==
  \A i \in DOMAIN events' \ DOMAIN events :
    ~events'[i].published /\ (events'[i].type = "ProductPublished" => events'[i].about \in Products)

LEMMA EventsStep ==
  ASSUME TypeOK, [Next]_vars
  PROVE  /\ events' \in Seq(EventRow) /\ Len(events') <= MaxEvents
         /\ Kept /\ Fresher
         /\ \A i \in DOMAIN events : events'[i].published = events[i].published \/
              \E t \in Ticks : Mark(t) /\ i = AtHand(t)
<1>1. CASE Emits
  <2>1. PICK type \in EventTypes, about \in Nat :
          Emit(type, about) /\ (type = "ProductPublished" => about \in Products)
    BY <1>1 DEF Emits
  <2>2. PICK row : row = [type |-> type, about |-> about, published |-> FALSE] OBVIOUS
  <2>3. row \in EventRow /\ row.type = type /\ row.about = about /\ ~row.published
    BY <2>2 DEF EventRow
  <2>4. events' = Append(events, row) /\ Len(events) < MaxEvents BY <2>1, <2>2 DEF Emit
  <2>5. events \in Seq(EventRow) /\ MaxEvents \in Nat BY EventRows, Assumptions
  <2>6. /\ events' \in Seq(EventRow) /\ Len(events') = Len(events) + 1 /\ Len(events) \in Nat
        /\ DOMAIN events' = DOMAIN events \cup {Len(events) + 1}
        /\ events'[Len(events) + 1] = row
        /\ \A i \in DOMAIN events : events'[i] = events[i]
    BY <2>3, <2>4, <2>5, AppendTo
  <2>7. Kept /\ Fresher BY <2>1, <2>3, <2>6 DEF Kept, Fresher
  <2>8. Len(events') <= MaxEvents BY <2>4, <2>5, <2>6
  <2> QED BY <2>6, <2>7, <2>8
<1>2. CASE \E t \in Ticks : Mark(t)
  <2>1. PICK t \in Ticks : Mark(t) BY <1>2
  <2>2. dispatch[t] # Free BY <2>1 DEF Mark, Free
  <2>3. PICK i \in DOMAIN events : i = AtHand(t) BY <2>2, AtHandIn
  <2>4. PICK row : row = [events[i] EXCEPT !.published = TRUE] OBVIOUS
  <2>5. events[i] \in EventRow BY EventRows
  <2>6. row \in EventRow /\ row.type = events[i].type /\ row.about = events[i].about
    BY <2>4, <2>5 DEF EventRow
  <2>7. events' = [events EXCEPT ![i] = row] BY <2>1, <2>3, <2>4 DEF Mark, Marked
  <2>8. events \in Seq(EventRow) /\ Len(events) <= MaxEvents BY EventRows
  <2>9. /\ events' \in Seq(EventRow) /\ Len(events') = Len(events)
        /\ DOMAIN events' = DOMAIN events /\ events'[i] = row
        /\ \A j \in DOMAIN events \ {i} : events'[j] = events[j]
    BY <2>6, <2>7, <2>8, Replace
  <2> QED BY <2>1, <2>3, <2>6, <2>8, <2>9 DEF Kept, Fresher
<1>3. CASE UNCHANGED events BY <1>3, EventRows DEF Kept, Fresher
<1> QED
  BY <1>1, <1>2, <1>3, OutboxSteps DEF DispatchStart, Turns, DispatchFails, outboxVars

(* The outbox keeps its types.                                             *)
LEMMA OutboxTypes ==
  ASSUME TypeOK, [Next]_vars
  PROVE  OutboxTypeOK'
<1>1. clock' \in 0..MaxClock /\ team' \in Teams
  BY PartSteps, Assumptions DEF TypeOK, OutboxTypeOK
<1>2. events' \in Seq(EventRow) /\ Len(events') <= MaxEvents /\ DOMAIN events \subseteq DOMAIN events'
  BY EventsStep DEF Kept
<1>3. /\ running \in BOOLEAN /\ dispatch \in [Ticks -> {Free} \cup DispatchRow]
      /\ fails \in 0..MaxFails
      /\ \A t \in Ticks : dispatch[t] # Free => dispatch[t].batch \subseteq DOMAIN events
  BY DEF TypeOK, OutboxTypeOK, DispatchRow
<1> SUFFICES /\ running' \in BOOLEAN /\ dispatch' \in [Ticks -> {Free} \cup DispatchRow]
             /\ fails' \in 0..MaxFails
             /\ \A t \in Ticks : dispatch'[t] # Free => dispatch'[t].batch \subseteq DOMAIN events
  BY <1>1, <1>2 DEF OutboxTypeOK, EventRow, DispatchRow
<1>4. ASSUME NEW t \in Ticks, NEW row \in {Free} \cup DispatchRow,
             row # Free => row.batch \subseteq DOMAIN events,
             dispatch' = [dispatch EXCEPT ![t] = row]
      PROVE  /\ dispatch' \in [Ticks -> {Free} \cup DispatchRow]
             /\ \A u \in Ticks : dispatch'[u] # Free => dispatch'[u].batch \subseteq DOMAIN events
  BY <1>3, <1>4
<1>5. CASE UNCHANGED outboxVars BY <1>3, <1>5 DEF outboxVars
<1>6. CASE Emits BY <1>3, <1>6 DEF Emits, Emit
<1>7. CASE \E t \in Ticks : DispatchStart(t)
  <2>1. PICK t \in Ticks : DispatchStart(t) BY <1>7
  <2>2. PICK row : row = [at |-> "emit", batch |-> Fetched] OBVIOUS
  <2>3. Fetched # {} /\ Fetched \subseteq DOMAIN events BY <2>1, FetchedSome DEF DispatchStart
  <2>4. Fetched \subseteq 1..MaxEvents BY <2>3, EventRows
  <2>5. row \in DispatchRow /\ row.batch \subseteq DOMAIN events
    BY <2>2, <2>3, <2>4 DEF DispatchRow
  <2>6. dispatch' = [dispatch EXCEPT ![t] = row] /\ running' = TRUE /\ UNCHANGED fails
    BY <2>1, <2>2 DEF DispatchStart
  <2> QED BY <1>3, <1>4, <2>5, <2>6
<1>8. CASE \E t \in Ticks : Turns(t)
  <2>1. PICK t \in Ticks, at \in {"listen", "mark"} :
          dispatch[t] # Free /\ Goes(t, at) /\ UNCHANGED <<events, running, fails>>
    BY <1>8 DEF Turns
  <2>2. PICK row : row = [dispatch[t] EXCEPT !.at = at] OBVIOUS
  <2>3. dispatch[t] \in DispatchRow /\ dispatch[t].batch \subseteq DOMAIN events BY <2>1, DispatchIs
  <2>4. row \in DispatchRow /\ row.batch \subseteq DOMAIN events BY <2>2, <2>3 DEF DispatchRow
  <2>5. dispatch' = [dispatch EXCEPT ![t] = row] BY <1>3, <2>1, <2>2 DEF Goes
  <2> QED BY <1>3, <1>4, <2>1, <2>4, <2>5
<1>9. CASE \E t \in Ticks : Mark(t)
  <2>1. PICK t \in Ticks : Mark(t) BY <1>9
  <2>2. dispatch[t] # Free BY <2>1 DEF Mark, Free
  <2>3. PICK rest : rest = dispatch[t].batch \ {AtHand(t)} OBVIOUS
  <2>4. dispatch[t] \in DispatchRow /\ dispatch[t].batch \subseteq DOMAIN events BY <2>2, DispatchIs
  <2>5. rest \subseteq DOMAIN events /\ rest \subseteq 1..MaxEvents BY <2>3, <2>4 DEF DispatchRow
  <2>6. PICK row : row = IF rest = {} THEN Free ELSE [at |-> "emit", batch |-> rest] OBVIOUS
  <2>7. row \in {Free} \cup DispatchRow BY <2>5, <2>6 DEF DispatchRow
  <2>8. row # Free => row.batch \subseteq DOMAIN events BY <2>5, <2>6
  <2>9. /\ dispatch' = [dispatch EXCEPT ![t] = row] /\ running' = (rest # {}) /\ UNCHANGED fails
    BY <2>1, <2>3, <2>6 DEF Mark
  <2> QED BY <1>3, <1>4, <2>7, <2>8, <2>9
<1>10. CASE \E t \in Ticks : DispatchFails(t)
  <2>1. PICK t \in Ticks : DispatchFails(t) BY <1>10
  <2>2. dispatch' = [dispatch EXCEPT ![t] = Free] /\ running' = FALSE BY <2>1 DEF DispatchFails, Released
  <2>3. fails' \in 0..MaxFails BY <1>3, <2>1, Assumptions DEF DispatchFails
  <2> QED BY <1>3, <1>4, <2>2, <2>3
<1> QED BY <1>5, <1>6, <1>7, <1>8, <1>9, <1>10, OutboxSteps

(* One dispatch at most is going on: a firing starts one only when none    *)
(* runs, and the flag is given back with the last of its steps.            *)
LEMMA OneDispatchStep ==
  ASSUME TypeOK, OneDispatch, [Next]_vars
  PROVE  OneDispatch'
<1>1. dispatch \in [Ticks -> {Free} \cup DispatchRow] BY DEF TypeOK, OutboxTypeOK, DispatchRow
<1>2. CASE UNCHANGED <<running, dispatch>> BY <1>2 DEF OneDispatch
<1>3. CASE Emits BY <1>2, <1>3 DEF Emits, Emit
<1>4. CASE \E t \in Ticks : DispatchStart(t) BY <1>1, <1>4 DEF DispatchStart, Idle, OneDispatch
<1>5. CASE \E t \in Ticks : Turns(t)
  <2>1. PICK t \in Ticks : Turns(t) BY <1>5
  <2>2. \A u \in Ticks : dispatch'[u] # Free => dispatch[u] # Free BY <1>1, <2>1 DEF Turns, Goes
  <2> QED BY <2>1, <2>2 DEF Turns, OneDispatch
<1>6. CASE \E t \in Ticks : Mark(t)
  <2>1. PICK t \in Ticks : Mark(t) BY <1>6
  <2>2. dispatch[t] # Free BY <2>1 DEF Mark, Free
  <2>3. \A u \in Ticks \ {t} : dispatch[u] = Free BY <2>2 DEF OneDispatch
  <2>4. PICK rest : rest = dispatch[t].batch \ {AtHand(t)} OBVIOUS
  <2>5. /\ running' = (rest # {})
        /\ dispatch' = [dispatch EXCEPT ![t] = IF rest = {} THEN Free ELSE [at |-> "emit", batch |-> rest]]
    BY <2>1, <2>4 DEF Mark
  <2>6. \A u \in Ticks : dispatch'[u] # Free => u = t /\ rest # {} BY <1>1, <2>3, <2>5
  <2> QED BY <2>5, <2>6 DEF OneDispatch
<1>7. CASE \E t \in Ticks : DispatchFails(t)
  BY <1>1, <1>7 DEF DispatchFails, OneDispatch
<1> QED BY <1>2, <1>3, <1>4, <1>5, <1>6, <1>7, OutboxSteps DEF outboxVars

(* What is published is a product.                                         *)
LEMMA AboutStep ==
  ASSUME TypeOK, AboutProducts, [Next]_vars
  PROVE  AboutProducts'
  BY EventsStep DEF AboutProducts, Kept, Fresher

----------------------------------------------------------------------------
(* Notices and the bells                                                   *)

LEMMA NoticeSteps ==
  ASSUME TypeOK, [Next]_vars
  PROVE  \/ UNCHANGED noticeVars
         \/ \E t \in Ticks : OnAccessEscalated(t) \/ NotifyUser(t) \/ Push(t)
         \/ BellNext
  BY DeliverySteps DEF Told

NoticeRow == [user : SuperAdmins, event : 1..MaxEvents]
TellingRow(last) == [left : SUBSET SuperAdmins, push : 0..last]
BellRow(known) ==
  [on : BOOLEAN, loads : [0..MaxDrops -> Loads(known)], shows : [1..MaxNotices -> Nat],
   connects : BOOLEAN, drops : 0..MaxDrops]

LEMMA NoticeRows ==
  ASSUME TypeOK
  PROVE  /\ notices \in Seq(NoticeRow) /\ Len(notices) \in Nat /\ Len(notices) <= MaxNotices
         /\ DOMAIN notices = 1..Len(notices) /\ DOMAIN notices \subseteq 1..MaxNotices
         /\ telling \in [Ticks -> TellingRow(Len(notices))]
         /\ sockets \in [Bells -> Nat]
         /\ bell \in [Bells -> BellRow(DOMAIN notices)]
         /\ reached \in [Bells -> SUBSET DOMAIN notices]
         /\ \A b \in Bells : bell[b] \in BellRow(DOMAIN notices)
<1>1. /\ notices \in Seq(NoticeRow) /\ Len(notices) <= MaxNotices
      /\ telling \in [Ticks -> TellingRow(Len(notices))]
      /\ sockets \in [Bells -> Nat]
      /\ bell \in [Bells -> BellRow(DOMAIN notices)]
      /\ reached \in [Bells -> SUBSET DOMAIN notices]
  BY DEF TypeOK, MessagingTypeOK, NoticeRow, TellingRow, BellRow
<1>2. Len(notices) \in Nat /\ DOMAIN notices = 1..Len(notices) BY <1>1
<1>3. DOMAIN notices \subseteq 1..MaxNotices BY <1>1, <1>2, Assumptions
<1>4. \A b \in Bells : bell[b] \in BellRow(DOMAIN notices)
  <2>1. PICK T : T = BellRow(DOMAIN notices) OBVIOUS
  <2>2. \A b \in Bells : bell[b] \in T BY <1>1, <2>1
  <2> QED BY <2>1, <2>2
<1> QED BY <1>1, <1>2, <1>3, <1>4

(* A list that is shown shows each of its notices once.                    *)
LEMMA ShowingIs ==
  \A ns : /\ Showing(ns) \in [1..MaxNotices -> Nat]
          /\ \A n \in 1..MaxNotices : n \in ns => Showing(ns)[n] = 1
  BY DEF Showing

(* A notice more leaves the bells and the listeners as they were.          *)
LEMMA RowsWiden ==
  /\ \A last, more \in Nat : last <= more => TellingRow(last) \subseteq TellingRow(more)
  /\ \A known, more : known \subseteq more => BellRow(known) \subseteq BellRow(more)
<1>1. ASSUME NEW last \in Nat, NEW more \in Nat, last <= more
      PROVE  TellingRow(last) \subseteq TellingRow(more)
  <2>1. 0..last \subseteq 0..more BY <1>1
  <2> QED BY <2>1 DEF TellingRow
<1>2. ASSUME NEW known, NEW more, known \subseteq more PROVE BellRow(known) \subseteq BellRow(more)
  <2>1. SUBSET known \subseteq SUBSET more BY <1>2
  <2>2. Loads(known) \subseteq Loads(more) BY <2>1 DEF Loads
  <2>3. [0..MaxDrops -> Loads(known)] \subseteq [0..MaxDrops -> Loads(more)] BY <2>2
  <2> QED BY <2>3 DEF BellRow
<1> QED BY <1>1, <1>2

(* What a step of the bell makes of the row of one.                        *)
BellStep(b, row, sock) ==
  /\ bell' = [bell EXCEPT ![b] = row]
  /\ sockets' = [sockets EXCEPT ![b] = sock]
  /\ UNCHANGED <<notices, telling>>

LEMMA BellSteps ==
  ASSUME TypeOK, NEW b \in Bells,
         \/ BellOn(b) \/ SocketOpen(b) \/ SocketDrops(b) \/ BellOff(b)
         \/ \E k \in 0..MaxDrops : ListRead(b, k) \/ ListAnswer(b, k)
  PROVE  \E row \in BellRow(DOMAIN notices), sock \in Nat :
           /\ BellStep(b, row, sock)
           /\ \/ /\ ~bell[b].on /\ UNCHANGED reached
                 /\ row.on /\ row.connects /\ sock = sockets[b] /\ row.shows = bell[b].shows
              \/ /\ UNCHANGED reached /\ row.shows = bell[b].shows
                 /\ row.on = bell[b].on /\ row.connects = bell[b].connects /\ sock = sockets[b]
              \/ /\ \E got : /\ reached' = [reached EXCEPT ![b] = reached[b] \cap got]
                              /\ row.shows = Showing(got)
                 /\ row.on = bell[b].on /\ row.connects = bell[b].connects /\ sock = sockets[b]
              \/ /\ bell[b].connects /\ ~row.connects /\ sock = sockets[b] + 1
                 /\ UNCHANGED reached
                 /\ row.on = bell[b].on /\ row.shows = bell[b].shows
              \/ /\ sockets[b] > 0 /\ row.connects /\ sock = sockets[b] - 1
                 /\ UNCHANGED reached
                 /\ row.on = bell[b].on /\ row.shows = bell[b].shows
              \/ /\ ~row.on /\ ~row.connects /\ sock = 0
                 /\ reached' = [reached EXCEPT ![b] = {}]
<1>1. /\ bell[b] \in BellRow(DOMAIN notices) /\ sockets[b] \in Nat
      /\ bell \in [Bells -> BellRow(DOMAIN notices)] /\ sockets \in [Bells -> Nat]
  BY NoticeRows
<1>2. PICK known : known = DOMAIN notices OBVIOUS
<1>3. PICK old \in BellRow(known) : old = bell[b] BY <1>1, <1>2
<1>4. sockets = [sockets EXCEPT ![b] = sockets[b]] BY <1>1
<1>11. old.loads \in [0..MaxDrops -> Loads(known)] BY <1>3 DEF BellRow
<1>5. CASE BellOn(b)
  <2>1. PICK load : load = [at |-> "asked", got |-> {}] OBVIOUS
  <2>2. load \in Loads(known) BY <2>1 DEF Loads
  <2>3. PICK loads : loads = [old.loads EXCEPT ![old.drops] = load] OBVIOUS
  <2>4. loads \in [0..MaxDrops -> Loads(known)] BY <1>11, <2>2, <2>3
  <2>5. PICK row : row = [[[old EXCEPT !.on = TRUE] EXCEPT !.connects = TRUE] EXCEPT !.loads = loads]
    OBVIOUS
  <2>6. /\ row \in BellRow(known) /\ row.on /\ row.connects /\ row.shows = old.shows
    BY <2>4, <2>5 DEF BellRow
  <2>7. bell' = [bell EXCEPT ![b] = row]
    BY <1>1, <1>3, <1>5, <2>1, <2>3, <2>5 DEF BellOn, BellRow
  <2>8. ~bell[b].on /\ UNCHANGED <<notices, telling, sockets, reached>> BY <1>5 DEF BellOn
  <2>9. BellStep(b, row, sockets[b]) BY <1>4, <2>7, <2>8 DEF BellStep
  <2> QED BY <1>1, <1>2, <1>3, <2>6, <2>8, <2>9
<1>6. CASE \E k \in 0..MaxDrops : ListRead(b, k)
  <2>1. PICK k \in 0..MaxDrops : ListRead(b, k) BY <1>6
  <2>2. PICK load :
          load = [at |-> "read", got |-> {n \in DOMAIN notices : notices[n].user = Viewer[b]}]
    OBVIOUS
  <2>3. load \in Loads(known) BY <1>2, <2>2 DEF Loads
  <2>4. PICK loads : loads = [old.loads EXCEPT ![k] = load] OBVIOUS
  <2>5. loads \in [0..MaxDrops -> Loads(known)] BY <1>11, <2>3, <2>4
  <2>6. PICK row : row = [old EXCEPT !.loads = loads] OBVIOUS
  <2>7. /\ row \in BellRow(known) /\ row.on = old.on /\ row.connects = old.connects
        /\ row.shows = old.shows
    BY <2>5, <2>6 DEF BellRow
  <2>8. bell' = [bell EXCEPT ![b] = row]
    BY <1>1, <1>3, <2>1, <2>2, <2>4, <2>6 DEF ListRead, BellRow
  <2>9. UNCHANGED <<notices, telling, sockets, reached>> BY <2>1 DEF ListRead
  <2>10. BellStep(b, row, sockets[b]) BY <1>4, <2>8, <2>9 DEF BellStep
  <2> QED BY <1>1, <1>2, <1>3, <2>7, <2>9, <2>10
<1>7. CASE \E k \in 0..MaxDrops : ListAnswer(b, k)
  <2>1. PICK k \in 0..MaxDrops : ListAnswer(b, k) BY <1>7
  <2>2. PICK got : got = bell[b].loads[k].got OBVIOUS
  <2>3. PICK items : items = Showing(got) OBVIOUS
  <2>4. items \in [1..MaxNotices -> Nat] BY <2>3, ShowingIs
  <2>5. NoLoad \in Loads(known) BY DEF NoLoad, Loads
  <2>6. PICK loads : loads = [old.loads EXCEPT ![k] = NoLoad] OBVIOUS
  <2>7. loads \in [0..MaxDrops -> Loads(known)] BY <1>11, <2>5, <2>6
  <2>8. PICK row : row = [[old EXCEPT !.loads = loads] EXCEPT !.shows = items] OBVIOUS
  <2>9. /\ row \in BellRow(known) /\ row.on = old.on /\ row.connects = old.connects
        /\ row.shows = items
    BY <2>4, <2>7, <2>8 DEF BellRow
  <2>10. bell' = [bell EXCEPT ![b] = row]
    BY <1>1, <1>3, <2>1, <2>2, <2>3, <2>6, <2>8 DEF ListAnswer, BellRow
  <2>11. /\ reached' = [reached EXCEPT ![b] = reached[b] \cap got]
         /\ UNCHANGED <<notices, telling, sockets>>
    BY <2>1, <2>2, NoticeRows DEF ListAnswer
  <2>12. BellStep(b, row, sockets[b]) BY <1>4, <2>10, <2>11 DEF BellStep
  <2> QED BY <1>1, <1>2, <1>3, <2>3, <2>9, <2>11, <2>12
<1>8. CASE SocketOpen(b)
  <2>1. PICK row : row = [old EXCEPT !.connects = FALSE] OBVIOUS
  <2>2. /\ row \in BellRow(known) /\ ~row.connects /\ row.on = old.on /\ row.shows = old.shows
    BY <2>1 DEF BellRow
  <2>3. bell' = [bell EXCEPT ![b] = row] BY <1>1, <1>3, <1>8, <2>1 DEF SocketOpen
  <2>4. /\ bell[b].connects /\ UNCHANGED <<notices, telling, reached>>
        /\ sockets' = [sockets EXCEPT ![b] = sockets[b] + 1]
    BY <1>8 DEF SocketOpen
  <2>5. BellStep(b, row, sockets[b] + 1) BY <2>3, <2>4 DEF BellStep
  <2>6. sockets[b] + 1 \in Nat BY <1>1
  <2> QED BY <1>2, <1>3, <2>2, <2>4, <2>5, <2>6
<1>9. CASE SocketDrops(b)
  <2>1. PICK more : more = old.drops + 1 OBVIOUS
  <2>2. PICK row : row = [[old EXCEPT !.connects = TRUE] EXCEPT !.drops = more] OBVIOUS
  <2>3. more \in 0..MaxDrops BY <1>3, <1>9, <2>1, Assumptions DEF SocketDrops, BellRow
  <2>4. /\ row \in BellRow(known) /\ row.connects /\ row.on = old.on /\ row.shows = old.shows
    BY <2>2, <2>3 DEF BellRow
  <2>5. bell' = [bell EXCEPT ![b] = row] BY <1>1, <1>3, <1>9, <2>1, <2>2 DEF SocketDrops
  <2>6. /\ sockets[b] > 0 /\ UNCHANGED <<notices, telling, reached>>
        /\ sockets' = [sockets EXCEPT ![b] = sockets[b] - 1]
    BY <1>9 DEF SocketDrops
  <2>7. BellStep(b, row, sockets[b] - 1) BY <2>5, <2>6 DEF BellStep
  <2>8. sockets[b] - 1 \in Nat BY <1>1, <2>6
  <2> QED BY <1>2, <1>3, <2>4, <2>6, <2>7, <2>8
<1>10. CASE BellOff(b)
  <2>1. PICK more : more = old.drops + 1 OBVIOUS
  <2>2. PICK items : items = Showing({}) OBVIOUS
  <2>3. items \in [1..MaxNotices -> Nat] BY <2>2, ShowingIs
  <2>4. PICK row : row = [[[[old EXCEPT !.on = FALSE] EXCEPT !.shows = items]
                              EXCEPT !.connects = FALSE] EXCEPT !.drops = more]
    OBVIOUS
  <2>5. more \in 0..MaxDrops BY <1>3, <1>10, <2>1, Assumptions DEF BellOff, BellRow
  <2>6. row \in BellRow(known) /\ ~row.on /\ ~row.connects
    BY <2>3, <2>4, <2>5 DEF BellRow
  <2>7. bell' = [bell EXCEPT ![b] = row] BY <1>1, <1>3, <1>10, <2>1, <2>2, <2>4 DEF BellOff
  <2>8. /\ sockets' = [sockets EXCEPT ![b] = 0] /\ reached' = [reached EXCEPT ![b] = {}]
        /\ UNCHANGED <<notices, telling>>
    BY <1>10 DEF BellOff, Closed
  <2>9. BellStep(b, row, 0) BY <2>7, <2>8 DEF BellStep
  <2> QED BY <1>2, <2>6, <2>8, <2>9
<1> QED BY <1>5, <1>6, <1>7, <1>8, <1>9, <1>10

(* What a push does to the bells.                                          *)
LEMMA PushSteps ==
  ASSUME TypeOK, NEW t \in Ticks, Push(t)
  PROVE  \E n \in DOMAIN notices :
           /\ n = telling[t].push
           /\ telling' = [telling EXCEPT ![t] = [left |-> telling[t].left, push |-> 0]]
           /\ UNCHANGED <<outboxVars, notices, sockets>>
           /\ bell' \in [Bells -> BellRow(DOMAIN notices)]
           /\ reached' \in [Bells -> SUBSET DOMAIN notices]
           /\ \A b \in Bells :
                /\ bell'[b].on = bell[b].on /\ bell'[b].connects = bell[b].connects
                /\ \A m \in 1..MaxNotices : m # n => bell'[b].shows[m] = bell[b].shows[m]
                /\ \/ reached'[b] = reached[b]
                   \/ /\ reached'[b] = reached[b] \cup {n} /\ sockets[b] > 0
                      /\ bell'[b].shows[n] = sockets[b]
<1>1. /\ bell \in [Bells -> BellRow(DOMAIN notices)] /\ sockets \in [Bells -> Nat]
      /\ reached \in [Bells -> SUBSET DOMAIN notices]
      /\ telling \in [Ticks -> TellingRow(Len(notices))]
      /\ Len(notices) \in Nat /\ DOMAIN notices = 1..Len(notices)
      /\ DOMAIN notices \subseteq 1..MaxNotices
  BY NoticeRows
<1>2. PICK n : n = telling[t].push OBVIOUS
<1>3. telling[t] \in TellingRow(Len(notices)) BY <1>1
<1>4. n \in DOMAIN notices
  <2>1. n \in 0..Len(notices) BY <1>2, <1>3 DEF TellingRow
  <2>2. n # 0 BY <1>2 DEF Push
  <2> QED BY <1>1, <2>1, <2>2
<1>5. PICK online : online = {b \in Bells : Viewer[b] = notices[n].user /\ sockets[b] > 0} OBVIOUS
<1>6. telling' = [telling EXCEPT ![t] = [left |-> telling[t].left, push |-> 0]]
  <2>1. PICK row : row = [telling[t] EXCEPT !.push = 0] OBVIOUS
  <2>2. row = [left |-> telling[t].left, push |-> 0] BY <1>3, <2>1 DEF TellingRow
  <2>3. telling' = [telling EXCEPT ![t] = row] BY <1>1, <2>1 DEF Push
  <2> QED BY <2>2, <2>3
<1>7. UNCHANGED <<outboxVars, notices, sockets>> BY DEF Push
<1>8. PICK known : known = DOMAIN notices OBVIOUS
<1> DEFINE shows(b) == [bell[b].shows EXCEPT ![n] = bell[b].shows[n] + sockets[b]]
           row(b) == IF b \in online THEN [bell[b] EXCEPT !.shows = shows(b)] ELSE bell[b]
<1>9. bell' = [b \in Bells |-> row(b)] BY <1>2, <1>5 DEF Push
<1>10. reached' = [b \in Bells |->
         IF b \in online /\ bell[b].shows[n] = 0
         THEN reached[b] \cup {n} ELSE reached[b]]
  BY <1>2, <1>5 DEF Push
<1>11. ASSUME NEW b \in Bells
       PROVE  /\ row(b) \in BellRow(known)
              /\ row(b).on = bell[b].on /\ row(b).connects = bell[b].connects
              /\ \A m \in 1..MaxNotices : m # n => row(b).shows[m] = bell[b].shows[m]
              /\ b \in online => row(b).shows[n] = bell[b].shows[n] + sockets[b]
  <2>1. PICK old \in BellRow(known) : old = bell[b] BY <1>1, <1>8
  <2>2. old.shows \in [1..MaxNotices -> Nat] BY DEF BellRow
  <2>3. PICK new : new = [old.shows EXCEPT ![n] = old.shows[n] + sockets[b]] OBVIOUS
  <2>4. n \in 1..MaxNotices /\ sockets[b] \in Nat BY <1>1, <1>4
  <2>5. new \in [1..MaxNotices -> Nat]
    <3>1. old.shows[n] \in Nat BY <2>2, <2>4
    <3>2. PICK shown : shown = old.shows[n] + sockets[b] OBVIOUS
    <3>3. shown \in Nat BY <2>4, <3>1, <3>2
    <3> QED BY <2>2, <2>3, <3>2, <3>3
  <2>6. /\ new[n] = old.shows[n] + sockets[b]
        /\ \A m \in 1..MaxNotices : m # n => new[m] = old.shows[m]
    BY <2>2, <2>3, <2>4
  <2>7. CASE b \in online
    <3>1. row(b) = [old EXCEPT !.shows = new] BY <2>1, <2>3, <2>7
    <3>2. PICK r : r = row(b) OBVIOUS
    <3>3. /\ r \in BellRow(known) /\ r.on = old.on
          /\ r.connects = old.connects /\ r.shows = new
      BY <2>5, <3>1, <3>2 DEF BellRow
    <3> HIDE DEF row
    <3> QED BY <2>1, <2>6, <3>2, <3>3
  <2>8. CASE b \notin online BY <2>1, <2>8
  <2> QED BY <2>7, <2>8
<1>12. bell' \in [Bells -> BellRow(known)] /\ \A b \in Bells : bell'[b] = row(b)
  <2> HIDE DEF row
  <2> QED BY <1>9, <1>11
<1>13. reached' \in [Bells -> SUBSET DOMAIN notices] BY <1>1, <1>4, <1>10
<1>14. ASSUME NEW b \in Bells
       PROVE  /\ bell'[b].on = bell[b].on /\ bell'[b].connects = bell[b].connects
              /\ \A m \in 1..MaxNotices : m # n => bell'[b].shows[m] = bell[b].shows[m]
              /\ \/ reached'[b] = reached[b]
                 \/ /\ reached'[b] = reached[b] \cup {n} /\ sockets[b] > 0
                    /\ bell'[b].shows[n] = sockets[b]
  <2>1. bell'[b] = row(b) BY <1>12
  <2>2. sockets[b] \in Nat BY <1>1
  <2> HIDE DEF row
  <2>3. reached'[b] # reached[b] =>
          /\ b \in online /\ bell[b].shows[n] = 0
          /\ reached'[b] = reached[b] \cup {n}
    BY <1>1, <1>10
  <2>4. b \in online => sockets[b] > 0 BY <1>5
  <2>5. bell[b].shows[n] = 0 => bell[b].shows[n] + sockets[b] = sockets[b] BY <2>2
  <2> QED BY <1>11, <2>1, <2>3, <2>4, <2>5
<1> HIDE DEF row
<1> QED BY <1>2, <1>4, <1>6, <1>7, <1>8, <1>12, <1>13, <1>14

(* A notice more, for one whom the listener has on its list.               *)
LEMMA NotifySteps ==
  ASSUME TypeOK, NEW t \in Ticks, NotifyUser(t)
  PROVE  \E a \in telling[t].left :
           /\ a \in SuperAdmins
           /\ notices' = Append(notices, [user |-> a, event |-> AtHand(t)])
           /\ telling' = [telling EXCEPT ![t] =
                [left |-> telling[t].left \ {a}, push |-> Len(notices) + 1]]
           /\ UNCHANGED <<outboxVars, sockets, bell, reached>>
           /\ notices' \in Seq(NoticeRow) /\ Len(notices') = Len(notices) + 1
           /\ Len(notices') <= MaxNotices
           /\ DOMAIN notices' = DOMAIN notices \cup {Len(notices) + 1}
           /\ notices'[Len(notices) + 1] = [user |-> a, event |-> AtHand(t)]
           /\ \A n \in DOMAIN notices : notices'[n] = notices[n]
<1>1. dispatch[t] # Free BY DEF NotifyUser, Tells, Free
<1>2. AtHand(t) \in 1..MaxEvents BY <1>1, AtHandIn, EventRows
<1>3. PICK a \in telling[t].left :
        /\ notices' = Append(notices, [user |-> a, event |-> AtHand(t)])
        /\ telling' = [telling EXCEPT ![t] =
             [left |-> telling[t].left \ {a}, push |-> Len(notices) + 1]]
  BY DEF NotifyUser
<1>4. telling[t] \in TellingRow(Len(notices)) BY NoticeRows
<1>5. a \in SuperAdmins BY <1>4 DEF TellingRow
<1>6. PICK new : new = [user |-> a, event |-> AtHand(t)] OBVIOUS
<1>7. new \in NoticeRow BY <1>2, <1>5, <1>6 DEF NoticeRow
<1>8. notices \in Seq(NoticeRow) /\ Len(notices) \in Nat /\ MaxNotices \in Nat
  BY NoticeRows, Assumptions
<1>9. /\ notices' \in Seq(NoticeRow) /\ Len(notices') = Len(notices) + 1
      /\ DOMAIN notices' = DOMAIN notices \cup {Len(notices) + 1}
      /\ notices'[Len(notices) + 1] = new
      /\ \A n \in DOMAIN notices : notices'[n] = notices[n]
  BY <1>3, <1>6, <1>7, <1>8, AppendTo
<1>10. Len(notices') <= MaxNotices BY <1>8, <1>9 DEF NotifyUser
<1>11. UNCHANGED <<outboxVars, sockets, bell, reached>> BY DEF NotifyUser
<1> QED BY <1>3, <1>5, <1>6, <1>9, <1>10, <1>11

(* Notices, their listeners and the bells keep their types.                *)
LEMMA NoticeTypes ==
  ASSUME TypeOK, [Next]_vars
  PROVE  /\ notices' \in Seq(NoticeRow) /\ Len(notices') <= MaxNotices
         /\ telling' \in [Ticks -> TellingRow(Len(notices'))]
         /\ sockets' \in [Bells -> Nat]
         /\ bell' \in [Bells -> BellRow(DOMAIN notices')]
         /\ reached' \in [Bells -> SUBSET DOMAIN notices']
<1>1. /\ notices \in Seq(NoticeRow) /\ Len(notices) \in Nat /\ Len(notices) <= MaxNotices
      /\ DOMAIN notices = 1..Len(notices)
      /\ telling \in [Ticks -> TellingRow(Len(notices))]
      /\ sockets \in [Bells -> Nat]
      /\ bell \in [Bells -> BellRow(DOMAIN notices)]
      /\ reached \in [Bells -> SUBSET DOMAIN notices]
  BY NoticeRows
<1>2. CASE UNCHANGED noticeVars BY <1>1, <1>2 DEF noticeVars
<1>3. CASE \E t \in Ticks : OnAccessEscalated(t)
  <2>1. PICK t \in Ticks : OnAccessEscalated(t) BY <1>3
  <2>2. PICK row : row = [left |-> SuperAdmins, push |-> 0] OBVIOUS
  <2>3. 0 \in 0..Len(notices) BY <1>1
  <2>4. row \in TellingRow(Len(notices)) BY <2>2, <2>3 DEF TellingRow
  <2>5. /\ telling' = [telling EXCEPT ![t] = row]
        /\ UNCHANGED <<notices, sockets, bell, reached>>
    BY <2>1, <2>2 DEF OnAccessEscalated
  <2> QED BY <1>1, <2>4, <2>5
<1>4. CASE \E t \in Ticks : NotifyUser(t)
  <2>1. PICK t \in Ticks : NotifyUser(t) BY <1>4
  <2>2. PICK a \in telling[t].left :
          /\ telling' = [telling EXCEPT ![t] =
               [left |-> telling[t].left \ {a}, push |-> Len(notices) + 1]]
          /\ UNCHANGED <<sockets, bell, reached>>
          /\ notices' \in Seq(NoticeRow) /\ Len(notices') = Len(notices) + 1
          /\ Len(notices') <= MaxNotices
          /\ DOMAIN notices' = DOMAIN notices \cup {Len(notices) + 1}
    BY <2>1, NotifySteps
  <2>3. PICK last : last = Len(notices') OBVIOUS
  <2>4. last \in Nat /\ Len(notices) <= last /\ last \in 0..last BY <1>1, <2>2, <2>3
  <2>5. telling \in [Ticks -> TellingRow(last)]
    <3>1. TellingRow(Len(notices)) \subseteq TellingRow(last) BY <1>1, <2>4, RowsWiden
    <3> QED BY <1>1, <3>1
  <2>6. telling[t] \in TellingRow(last) BY <2>5
  <2>7. PICK row : row = [left |-> telling[t].left \ {a}, push |-> last] OBVIOUS
  <2>8. row \in TellingRow(last) BY <2>4, <2>6, <2>7 DEF TellingRow
  <2>9. telling' = [telling EXCEPT ![t] = row] BY <2>2, <2>3, <2>7
  <2>10. telling' \in [Ticks -> TellingRow(last)] BY <2>5, <2>8, <2>9
  <2>11. PICK more : more = DOMAIN notices' OBVIOUS
  <2>12. DOMAIN notices \subseteq more BY <2>2, <2>11
  <2>13. BellRow(DOMAIN notices) \subseteq BellRow(more) BY <2>12, RowsWiden
  <2>14. bell' \in [Bells -> BellRow(more)] BY <1>1, <2>2, <2>13
  <2>15. reached' \in [Bells -> SUBSET more] BY <1>1, <2>2, <2>12
  <2> QED BY <1>1, <2>2, <2>3, <2>10, <2>11, <2>14, <2>15
<1>5. CASE \E t \in Ticks : Push(t)
  <2>1. PICK t \in Ticks : Push(t) BY <1>5
  <2>2. /\ telling' = [telling EXCEPT ![t] = [left |-> telling[t].left, push |-> 0]]
        /\ UNCHANGED <<notices, sockets>>
        /\ bell' \in [Bells -> BellRow(DOMAIN notices)]
        /\ reached' \in [Bells -> SUBSET DOMAIN notices]
    BY <2>1, PushSteps
  <2>3. PICK row : row = [left |-> telling[t].left, push |-> 0] OBVIOUS
  <2>4. 0 \in 0..Len(notices) /\ telling[t] \in TellingRow(Len(notices)) BY <1>1
  <2>5. row \in TellingRow(Len(notices)) BY <2>3, <2>4 DEF TellingRow
  <2>6. telling' \in [Ticks -> TellingRow(Len(notices))] BY <1>1, <2>2, <2>3, <2>5
  <2> QED BY <1>1, <2>2, <2>6
<1>6. CASE BellNext
  <2>1. PICK b \in Bells :
          \/ BellOn(b) \/ SocketOpen(b) \/ SocketDrops(b) \/ BellOff(b)
          \/ \E k \in 0..MaxDrops : ListRead(b, k) \/ ListAnswer(b, k)
    BY <1>6 DEF BellNext
  <2>2. PICK row \in BellRow(DOMAIN notices), sock \in Nat :
          /\ BellStep(b, row, sock)
          /\ \/ UNCHANGED reached \/ reached' = [reached EXCEPT ![b] = {}]
             \/ \E got : reached' = [reached EXCEPT ![b] = reached[b] \cap got]
    BY <2>1, BellSteps
  <2>3. reached' \in [Bells -> SUBSET DOMAIN notices] BY <1>1, <2>2
  <2> QED BY <1>1, <2>2, <2>3 DEF BellStep
<1> QED BY <1>2, <1>3, <1>4, <1>5, <1>6, NoticeSteps

LEMMA MessagingTypes ==
  ASSUME TypeOK, [Next]_vars
  PROVE  MessagingTypeOK'
  BY ChatTypes, NoticeTypes DEF MessagingTypeOK, NoticeRow, TellingRow, BellRow

(* The bell shows once what reached it and no older list has replaced: a   *)
(* notice is pushed once, on one connection.                               *)
LEMMA BellsStep ==
  ASSUME TypeOK, BellsInv, [Next]_vars
  PROVE  BellsInv'
<1>1. /\ telling \in [Ticks -> TellingRow(Len(notices))]
      /\ \A t \in Ticks : telling[t].push \in 0..Len(notices)
      /\ sockets \in [Bells -> Nat] /\ reached \in [Bells -> SUBSET DOMAIN notices]
      /\ bell \in [Bells -> BellRow(DOMAIN notices)]
      /\ Len(notices) \in Nat /\ DOMAIN notices = 1..Len(notices)
      /\ DOMAIN notices \subseteq 1..MaxNotices
  BY NoticeRows DEF TellingRow
<1>2. /\ \A t \in Ticks, b \in Bells : telling[t].push \notin reached[b]
      /\ \A t, u \in Ticks : telling[t].push # 0 /\ telling[t].push = telling[u].push => t = u
      /\ \A b \in Bells :
           /\ ~bell[b].on => sockets[b] = 0 /\ ~bell[b].connects
           /\ sockets[b] <= IF bell[b].connects THEN 0 ELSE 1
           /\ \A n \in reached[b] : bell[b].shows[n] = 1
  BY DEF BellsInv, PushedOnce, OneSocket, ShownOnce
<1> SUFFICES /\ \A t \in Ticks, b \in Bells : telling'[t].push \notin reached'[b]
             /\ \A t, u \in Ticks :
                  telling'[t].push # 0 /\ telling'[t].push = telling'[u].push => t = u
             /\ \A b \in Bells :
                  /\ ~bell'[b].on => sockets'[b] = 0 /\ ~bell'[b].connects
                  /\ sockets'[b] <= IF bell'[b].connects THEN 0 ELSE 1
                  /\ \A n \in reached'[b] : bell'[b].shows[n] = 1
  BY DEF BellsInv, PushedOnce, OneSocket, ShownOnce
<1>3. CASE UNCHANGED noticeVars BY <1>2, <1>3 DEF noticeVars
<1>4. CASE \E t \in Ticks : OnAccessEscalated(t)
  <2>1. PICK t \in Ticks : OnAccessEscalated(t) BY <1>4
  <2>2. /\ telling' = [telling EXCEPT ![t] = [left |-> SuperAdmins, push |-> 0]]
        /\ UNCHANGED <<notices, sockets, bell, reached>>
    BY <2>1 DEF OnAccessEscalated
  <2>3. telling'[t].push = 0 /\ \A u \in Ticks \ {t} : telling'[u] = telling[u] BY <1>1, <2>2
  <2>4. \A b \in Bells : 0 \notin reached[b] BY <1>1
  <2> QED BY <1>2, <2>2, <2>3, <2>4
<1>5. CASE \E t \in Ticks : NotifyUser(t)
  <2>1. PICK t \in Ticks : NotifyUser(t) BY <1>5
  <2>2. PICK a \in telling[t].left :
          /\ telling' = [telling EXCEPT ![t] =
               [left |-> telling[t].left \ {a}, push |-> Len(notices) + 1]]
          /\ UNCHANGED <<sockets, bell, reached>>
    BY <2>1, NotifySteps
  <2>3. /\ telling'[t].push = Len(notices) + 1
        /\ \A u \in Ticks \ {t} : telling'[u] = telling[u]
    BY <1>1, <2>2
  <2>4. \A b \in Bells : Len(notices) + 1 \notin reached[b] BY <1>1
  <2>5. \A u \in Ticks : telling[u].push # Len(notices) + 1 BY <1>1
  <2> QED BY <1>2, <2>2, <2>3, <2>4, <2>5
<1>6. CASE \E t \in Ticks : Push(t)
  <2>1. PICK t \in Ticks : Push(t) BY <1>6
  <2>2. PICK n \in DOMAIN notices :
          /\ n = telling[t].push
          /\ telling' = [telling EXCEPT ![t] = [left |-> telling[t].left, push |-> 0]]
          /\ UNCHANGED <<outboxVars, notices, sockets>>
          /\ \A b \in Bells :
               /\ bell'[b].on = bell[b].on /\ bell'[b].connects = bell[b].connects
               /\ \A m \in 1..MaxNotices : m # n => bell'[b].shows[m] = bell[b].shows[m]
               /\ \/ reached'[b] = reached[b]
                  \/ /\ reached'[b] = reached[b] \cup {n} /\ sockets[b] > 0
                     /\ bell'[b].shows[n] = sockets[b]
    BY <2>1, PushSteps
  <2>3. telling'[t].push = 0 /\ \A u \in Ticks \ {t} : telling'[u] = telling[u] BY <1>1, <2>2
  <2>4. \A b \in Bells : 0 \notin reached[b] /\ reached[b] \subseteq 1..MaxNotices BY <1>1
  <2>5. n # 0 /\ n \in 1..MaxNotices BY <1>1
  <2>6. \A u \in Ticks \ {t} : telling[u].push # n BY <1>2, <2>2, <2>5
  <2>7. \A u \in Ticks, b \in Bells : telling'[u].push \notin reached'[b]
    BY <1>2, <2>2, <2>3, <2>4, <2>5, <2>6
  <2>8. \A u, w \in Ticks : telling'[u].push # 0 /\ telling'[u].push = telling'[w].push => u = w
    BY <1>2, <2>3
  <2>9. ASSUME NEW b \in Bells
        PROVE  /\ ~bell'[b].on => sockets'[b] = 0 /\ ~bell'[b].connects
               /\ sockets'[b] <= IF bell'[b].connects THEN 0 ELSE 1
    BY <1>2, <2>2
  <2>10. ASSUME NEW b \in Bells, NEW m \in reached'[b]
         PROVE  bell'[b].shows[m] = 1
    <3>1. n \notin reached[b] BY <1>2, <2>2
    <3>2. CASE m \in reached[b] BY <1>2, <2>2, <2>4, <3>1, <3>2
    <3>3. CASE m \notin reached[b]
      <4>1. m = n /\ sockets[b] > 0 /\ bell'[b].shows[n] = sockets[b] BY <2>2, <3>3
      <4>2. sockets[b] \in Nat /\ (sockets[b] <= 0 \/ sockets[b] <= 1) BY <1>1, <1>2
      <4>3. sockets[b] = 1 BY <4>1, <4>2
      <4> QED BY <4>1, <4>3
    <3> QED BY <3>2, <3>3
  <2> QED BY <2>7, <2>8, <2>9, <2>10
<1>7. CASE BellNext
  <2>1. PICK b \in Bells :
          \/ BellOn(b) \/ SocketOpen(b) \/ SocketDrops(b) \/ BellOff(b)
          \/ \E k \in 0..MaxDrops : ListRead(b, k) \/ ListAnswer(b, k)
    BY <1>7 DEF BellNext
  <2>2. PICK row \in BellRow(DOMAIN notices), sock \in Nat :
          /\ BellStep(b, row, sock)
          /\ \/ /\ ~bell[b].on /\ UNCHANGED reached
                /\ row.on /\ row.connects /\ sock = sockets[b] /\ row.shows = bell[b].shows
             \/ /\ UNCHANGED reached /\ row.shows = bell[b].shows
                /\ row.on = bell[b].on /\ row.connects = bell[b].connects /\ sock = sockets[b]
             \/ /\ \E got : /\ reached' = [reached EXCEPT ![b] = reached[b] \cap got]
                             /\ row.shows = Showing(got)
                /\ row.on = bell[b].on /\ row.connects = bell[b].connects /\ sock = sockets[b]
             \/ /\ bell[b].connects /\ ~row.connects /\ sock = sockets[b] + 1
                /\ UNCHANGED reached
                /\ row.on = bell[b].on /\ row.shows = bell[b].shows
             \/ /\ sockets[b] > 0 /\ row.connects /\ sock = sockets[b] - 1
                /\ UNCHANGED reached
                /\ row.on = bell[b].on /\ row.shows = bell[b].shows
             \/ /\ ~row.on /\ ~row.connects /\ sock = 0
                /\ reached' = [reached EXCEPT ![b] = {}]
    BY <2>1, BellSteps
  <2>3. /\ telling' = telling /\ bell'[b] = row /\ sockets'[b] = sock
        /\ \A c \in Bells \ {b} : bell'[c] = bell[c] /\ sockets'[c] = sockets[c] /\ reached'[c] = reached[c]
        /\ reached'[b] \subseteq reached[b]
    <3>1. bell'[b] = row /\ sockets'[b] = sock /\ telling' = telling BY <1>1, <2>2 DEF BellStep
    <3>2. \A c \in Bells \ {b} : bell'[c] = bell[c] /\ sockets'[c] = sockets[c]
      BY <1>1, <2>2 DEF BellStep
    <3>3. /\ \A c \in Bells \ {b} : reached'[c] = reached[c]
          /\ reached'[b] \subseteq reached[b]
      BY <1>1, <2>2
    <3> QED BY <3>1, <3>2, <3>3
  <2>4. /\ sockets[b] \in Nat /\ sockets[b] <= IF bell[b].connects THEN 0 ELSE 1
        /\ ~bell[b].on => sockets[b] = 0 /\ ~bell[b].connects
        /\ \A n \in reached[b] : bell[b].shows[n] = 1 /\ n \in 1..MaxNotices
        /\ row.on \in BOOLEAN /\ row.connects \in BOOLEAN
        /\ bell[b].on \in BOOLEAN /\ bell[b].connects \in BOOLEAN
    <3>1. bell[b] \in BellRow(DOMAIN notices) BY NoticeRows
    <3>2. bell[b].on \in BOOLEAN /\ bell[b].connects \in BOOLEAN BY <3>1 DEF BellRow
    <3>3. row.on \in BOOLEAN /\ row.connects \in BOOLEAN BY <2>2 DEF BellRow
    <3> QED BY <1>1, <1>2, <3>2, <3>3
  <2>5. /\ ~row.on => sock = 0 /\ ~row.connects
        /\ sock <= IF row.connects THEN 0 ELSE 1
        /\ \A n \in reached'[b] : row.shows[n] = 1
    <3>1. CASE ~bell[b].on /\ row.on /\ row.connects /\ sock = sockets[b] /\ row.shows = bell[b].shows
      BY <2>3, <2>4, <3>1
    <3>2. CASE /\ row.shows = bell[b].shows
               /\ row.on = bell[b].on /\ row.connects = bell[b].connects /\ sock = sockets[b]
      BY <2>3, <2>4, <3>2
    <3>3. CASE /\ \E got : /\ reached' = [reached EXCEPT ![b] = reached[b] \cap got]
                            /\ row.shows = Showing(got)
               /\ row.on = bell[b].on /\ row.connects = bell[b].connects /\ sock = sockets[b]
      <4>1. PICK got : /\ reached' = [reached EXCEPT ![b] = reached[b] \cap got]
                       /\ row.shows = Showing(got)
        BY <3>3
      <4>2. reached'[b] = reached[b] \cap got BY <1>1, <4>1
      <4>3. \A n \in reached'[b] : row.shows[n] = 1 BY <2>4, <4>1, <4>2, ShowingIs
      <4> QED BY <2>4, <3>3, <4>3
    <3>4. CASE /\ bell[b].connects /\ ~row.connects /\ sock = sockets[b] + 1
               /\ row.on = bell[b].on /\ row.shows = bell[b].shows
      BY <2>3, <2>4, <3>4
    <3>5. CASE /\ sockets[b] > 0 /\ row.connects /\ sock = sockets[b] - 1
               /\ row.on = bell[b].on /\ row.shows = bell[b].shows
      BY <2>3, <2>4, <3>5
    <3>6. CASE ~row.on /\ ~row.connects /\ sock = 0 /\ reached' = [reached EXCEPT ![b] = {}]
      <4>1. reached'[b] = {} BY <1>1, <3>6
      <4> QED BY <3>6, <4>1
    <3> QED BY <2>2, <3>1, <3>2, <3>3, <3>4, <3>5, <3>6
  <2>6. \A t \in Ticks, c \in Bells : telling'[t].push \notin reached'[c] BY <1>2, <2>3
  <2> QED BY <1>2, <2>3, <2>5, <2>6
<1> QED BY <1>3, <1>4, <1>5, <1>6, <1>7, NoticeSteps

(* What remains of a dispatch that goes on.                                *)
LEMMA GoesTo ==
  ASSUME TypeOK, NEW u \in Ticks, dispatch[u] # Free, NEW at, Goes(u, at)
  PROVE  /\ dispatch'[u].at = at /\ dispatch'[u].batch = dispatch[u].batch
         /\ \A t \in Ticks \ {u} : dispatch'[t] = dispatch[t]
<1>1. dispatch[u] \in DispatchRow BY DispatchIs
<1>2. dispatch \in [Ticks -> {Free} \cup DispatchRow] BY DEF TypeOK, OutboxTypeOK, DispatchRow
<1>3. PICK row : row = [dispatch[u] EXCEPT !.at = at] OBVIOUS
<1>4. row.at = at /\ row.batch = dispatch[u].batch BY <1>1, <1>3 DEF DispatchRow
<1>5. dispatch' = [dispatch EXCEPT ![u] = row] BY <1>2, <1>3 DEF Goes
<1> QED BY <1>2, <1>4, <1>5

(* The event at hand stays what it is.                                     *)
LEMMA AtHandKept ==
  ASSUME TypeOK, [Next]_vars, NEW t \in Ticks, dispatch[t] # Free,
         dispatch'[t].batch = dispatch[t].batch
  PROVE  /\ AtHand(t)' = AtHand(t)
         /\ Current(t)'.type = Current(t).type /\ Current(t)'.about = Current(t).about
<1>1. AtHand(t) \in DOMAIN events BY AtHandIn
<1>2. AtHand(t)' = AtHand(t) BY DEF AtHand
<1> QED BY <1>1, <1>2, EventsStep DEF Current, Kept

LEMMA NoticesGrow ==
  ASSUME TypeOK, [Next]_vars
  PROVE  \A a, i : Notified(a, i) => Notified(a, i)'
<1>1. CASE UNCHANGED notices BY <1>1 DEF Notified
<1>2. CASE \E t \in Ticks : NotifyUser(t)
  <2>1. \A n \in DOMAIN notices : n \in DOMAIN notices' /\ notices'[n] = notices[n]
    BY <1>2, NotifySteps
  <2> QED BY <2>1 DEF Notified
<1>3. CASE BellNext
  BY <1>1, <1>3 DEF BellNext, BellOn, ListRead, ListAnswer, SocketOpen, SocketDrops, BellOff
<1> QED BY <1>1, <1>2, <1>3, NoticeSteps DEF noticeVars, OnAccessEscalated, Push

(* What AdminsTold says of one firing.                                     *)
Informed(t) ==
  /\ Tells(t) => \A a \in SuperAdmins : a \in telling[t].left \/ Notified(a, AtHand(t))
  /\ /\ dispatch[t].at = "mark" /\ Current(t).type = "AccessEscalated"
     /\ "fail" \notin team
     => \A a \in SuperAdmins : Notified(a, AtHand(t))

LEMMA InformedKept ==
  ASSUME TypeOK, [Next]_vars, NEW t \in Ticks, Informed(t),
         dispatch'[t] = dispatch[t], telling'[t].left = telling[t].left
  PROVE  Informed(t)'
<1>1. team' = team BY PartSteps
<1>2. CASE dispatch[t] = Free BY <1>2 DEF Informed, Tells, Free
<1>3. CASE dispatch[t] # Free
  <2>1. AtHand(t)' = AtHand(t) /\ Current(t)'.type = Current(t).type BY <1>3, AtHandKept
  <2> QED BY <1>1, <2>1, NoticesGrow DEF Informed, Tells
<1> QED BY <1>2, <1>3

(* Who is not on the list of the listener any more has a notice, and who   *)
(* marks the event has told everyone.                                      *)
LEMMA AdminsStep ==
  ASSUME TypeOK, AdminsTold, [Next]_vars
  PROVE  AdminsTold'
<1>1. \A t \in Ticks : Informed(t) BY DEF AdminsTold, Informed
<1> SUFFICES \A t \in Ticks : Informed(t)' BY DEF AdminsTold, Informed
<1>2. dispatch \in [Ticks -> {Free} \cup DispatchRow] /\ team' = team
  BY PartSteps DEF TypeOK, OutboxTypeOK, DispatchRow
<1>3. telling \in [Ticks -> TellingRow(Len(notices))] BY NoticeRows
<1>4. CASE UNCHANGED <<dispatch, telling>> BY <1>1, <1>4, InformedKept
<1>5. CASE OutboxNext /\ UNCHANGED noticeVars
  <2>1. telling' = telling BY <1>5 DEF noticeVars
  <2>2. PICK u \in Ticks :
          DispatchStart(u) \/ EmitUnheard(u) \/ Mark(u) \/ DispatchFails(u) \/ ListenerFails(u)
    BY <1>5 DEF OutboxNext
  <2>3. ASSUME NEW t \in Ticks \ {u} PROVE Informed(t)'
    <3>1. dispatch'[t] = dispatch[t]
      BY <1>2, <2>2
      DEF DispatchStart, EmitUnheard, Mark, DispatchFails, ListenerFails, Goes
    <3> QED BY <1>1, <2>1, <3>1, InformedKept
  <2>4. Informed(u)'
    <3>1. CASE DispatchStart(u) \/ Mark(u) \/ DispatchFails(u)
      <4>1. dispatch'[u].at \in {"free", "emit"}
        BY <1>2, <3>1 DEF DispatchStart, Mark, DispatchFails, Free
      <4> QED BY <4>1 DEF Informed, Tells
    <3>2. CASE EmitUnheard(u)
      <4>1. dispatch[u] # Free /\ Goes(u, "mark") BY <3>2 DEF EmitUnheard, Free
      <4>2. dispatch'[u].at = "mark" /\ Current(u)'.type = Current(u).type
        BY <4>1, GoesTo, AtHandKept
      <4> QED BY <3>2, <4>2 DEF EmitUnheard, Listened, Informed, Tells
    <3>3. CASE ListenerFails(u)
      <4>1. dispatch[u] # Free /\ Goes(u, "mark") BY <3>3 DEF ListenerFails, Free
      <4>2. dispatch'[u].at = "mark" BY <4>1, GoesTo
      <4> QED BY <1>2, <3>3, <4>2 DEF ListenerFails, Informed, Tells
    <3> QED BY <2>2, <3>1, <3>2, <3>3
  <2> QED BY <2>3, <2>4
<1>6. CASE \E u \in Ticks : OnAccessEscalated(u)
  <2>1. PICK u \in Ticks : OnAccessEscalated(u) BY <1>6
  <2>2. dispatch[u] # Free /\ Goes(u, "listen") BY <2>1 DEF OnAccessEscalated, Hears, Free
  <2>3. dispatch'[u].at = "listen" /\ \A t \in Ticks \ {u} : dispatch'[t] = dispatch[t]
    BY <2>2, GoesTo
  <2>4. telling' = [telling EXCEPT ![u] = [left |-> SuperAdmins, push |-> 0]]
    BY <2>1 DEF OnAccessEscalated
  <2>5. telling'[u].left = SuperAdmins /\ \A t \in Ticks \ {u} : telling'[t] = telling[t]
    BY <1>3, <2>4
  <2>6. Informed(u)' BY <2>3, <2>5 DEF Informed
  <2> QED BY <1>1, <2>3, <2>5, <2>6, InformedKept
<1>7. CASE \E u \in Ticks : NotifyUser(u)
  <2>1. PICK u \in Ticks : NotifyUser(u) BY <1>7
  <2>2. PICK a \in telling[u].left :
          /\ telling' = [telling EXCEPT ![u] =
               [left |-> telling[u].left \ {a}, push |-> Len(notices) + 1]]
          /\ UNCHANGED outboxVars
          /\ Len(notices) + 1 \in DOMAIN notices'
          /\ notices'[Len(notices) + 1] = [user |-> a, event |-> AtHand(u)]
    BY <2>1, NotifySteps
  <2>3. dispatch' = dispatch BY <2>2 DEF outboxVars
  <2>4. Notified(a, AtHand(u))' 
    <3>1. dispatch[u] # Free BY <2>1 DEF NotifyUser, Tells, Free
    <3>2. AtHand(u)' = AtHand(u) BY <2>3, <3>1, AtHandKept
    <3> QED BY <2>2, <3>2 DEF Notified
  <2>5. Informed(u)'
    <3>1. Tells(u) /\ dispatch[u] # Free BY <2>1 DEF NotifyUser, Tells, Free
    <3>2. AtHand(u)' = AtHand(u) BY <2>3, <3>1, AtHandKept
    <3>3. telling'[u].left = telling[u].left \ {a} BY <1>3, <2>2
    <3>4. dispatch'[u].at = "listen" BY <2>3, <3>1 DEF Tells
    <3>5. \A x \in SuperAdmins : x \in telling[u].left \/ Notified(x, AtHand(u))
      BY <1>1, <3>1 DEF Informed
    <3>6. \A x \in SuperAdmins : x \in telling'[u].left \/ Notified(x, AtHand(u))'
      BY <2>4, <3>2, <3>3, <3>5, NoticesGrow
    <3> QED BY <3>4, <3>6 DEF Informed
  <2>6. \A t \in Ticks \ {u} : telling'[t] = telling[t] BY <1>3, <2>2
  <2> QED BY <1>1, <2>3, <2>5, <2>6, InformedKept
<1>8. CASE \E u \in Ticks : Push(u)
  <2>1. PICK u \in Ticks : Push(u) BY <1>8
  <2>2. /\ telling' = [telling EXCEPT ![u] = [left |-> telling[u].left, push |-> 0]]
        /\ UNCHANGED outboxVars
    BY <2>1, PushSteps
  <2>3. dispatch' = dispatch BY <2>2 DEF outboxVars
  <2>4. \A t \in Ticks : telling'[t].left = telling[t].left BY <1>3, <2>2
  <2> QED BY <1>1, <2>3, <2>4, InformedKept
<1>9. CASE \E u \in Ticks : Told(u)
  <2>1. PICK u \in Ticks : Told(u) BY <1>9
  <2>2. Tells(u) /\ dispatch[u] # Free /\ Goes(u, "mark") BY <2>1 DEF Told, Tells, Free
  <2>3. /\ dispatch'[u].at = "mark" /\ AtHand(u)' = AtHand(u)
        /\ \A t \in Ticks \ {u} : dispatch'[t] = dispatch[t]
    BY <2>2, GoesTo, AtHandKept
  <2>4. telling[u].left = {} /\ telling' = telling BY <2>1 DEF Told, noticeVars
  <2>5. \A x \in SuperAdmins : Notified(x, AtHand(u))' BY <1>1, <2>2, <2>3, <2>4, NoticesGrow DEF Informed
  <2>6. Informed(u)' BY <2>3, <2>5 DEF Informed, Tells
  <2> QED BY <1>1, <2>3, <2>4, <2>6, InformedKept
<1>10. CASE TranslationNext /\ UNCHANGED noticeVars
  <2>1. telling' = telling BY <1>10 DEF noticeVars
  <2>2. CASE \E u \in Ticks : OnProductPublished(u) \/ Drafted(u)
    <3>1. PICK u \in Ticks : OnProductPublished(u) \/ Drafted(u) BY <2>2
    <3>2. /\ dispatch[u] # Free /\ Current(u).type = "ProductPublished"
          /\ Goes(u, "listen") \/ Goes(u, "mark")
      BY <3>1 DEF OnProductPublished, Drafted, Drafting, Hears, Free
    <3>3. /\ dispatch'[u].batch = dispatch[u].batch
          /\ \A t \in Ticks \ {u} : dispatch'[t] = dispatch[t]
      BY <3>2, GoesTo
    <3>4. Current(u)'.type = "ProductPublished" BY <3>2, <3>3, AtHandKept
    <3>5. Informed(u)' BY <3>4 DEF Informed, Tells
    <3> QED BY <1>1, <2>1, <3>3, <3>5, InformedKept
  <2> QED BY <1>4, <1>10, <2>1, <2>2
           DEF TranslationNext, LookForExisting, StoreDraft, ReviewTranslation, outboxVars
<1>11. CASE Emits /\ UNCHANGED noticeVars BY <1>4, <1>11 DEF Emits, Emit, noticeVars
<1>12. CASE BellNext /\ UNCHANGED outboxVars
  BY <1>4, <1>12
  DEF BellNext, BellOn, ListRead, ListAnswer, SocketOpen, SocketDrops, BellOff, outboxVars
<1>13. CASE UNCHANGED <<outboxVars, noticeVars>> BY <1>4, <1>13 DEF outboxVars, noticeVars
<1> QED
  BY <1>5, <1>6, <1>7, <1>8, <1>9, <1>10, <1>11, <1>12, <1>13, DeliverySteps

(* An event that is marked has been told.                                  *)
LEMMA ToldStep ==
  ASSUME TypeOK, AdminsTold, EscalationTold, [Next]_vars
  PROVE  EscalationTold'
<1>1. team' = team BY PartSteps
<1> SUFFICES ASSUME "fail" \notin team, NEW i \in DOMAIN events',
                    events'[i].type = "AccessEscalated", events'[i].published
             PROVE  \A a \in SuperAdmins : Notified(a, i)'
  BY <1>1 DEF EscalationTold, Notified
<1>2. i \in DOMAIN events /\ events[i].type = "AccessEscalated" BY EventsStep DEF Kept, Fresher
<1>3. CASE events[i].published
  <2>1. \A a \in SuperAdmins : Notified(a, i) BY <1>2, <1>3 DEF EscalationTold, Notified
  <2> QED BY <2>1, NoticesGrow
<1>4. CASE ~events[i].published
  <2>1. PICK t \in Ticks : Mark(t) /\ i = AtHand(t) BY <1>2, <1>4, EventsStep
  <2>2. dispatch[t].at = "mark" /\ Current(t).type = "AccessEscalated"
    BY <1>2, <2>1 DEF Mark, Current
  <2>3. \A a \in SuperAdmins : Notified(a, i) BY <2>1, <2>2 DEF AdminsTold
  <2> QED BY <2>3, NoticesGrow
<1> QED BY <1>3, <1>4

----------------------------------------------------------------------------
(* Translations                                                            *)

TranslationRow == [status : {"none", "MACHINE_DRAFT", "REVIEWED"}, text : 0..MaxTexts]
DraftingRow == [at : {"look", "llm"}, text : 0..MaxTexts, left : SUBSET Locales, into : Locales]

LEMMA DraftingIs ==
  ASSUME TypeOK, NEW t \in Ticks
  PROVE  /\ translation \in [Products \X Locales -> TranslationRow]
         /\ drafting \in [Ticks -> {Free} \cup DraftingRow]
         /\ drafting[t] # Free => drafting[t] \in DraftingRow
<1>1. /\ translation \in [Products \X Locales -> TranslationRow]
      /\ drafting \in [Ticks -> {Free} \cup DraftingRow]
  BY DEF TypeOK, ListingsTypeOK, TranslationRow, DraftingRow
<1> QED BY <1>1

(* The listener is about a product.                                        *)
LEMMA AboutIn ==
  ASSUME TypeOK, AboutProducts, NEW t \in Ticks, dispatch[t] # Free,
         Current(t).type = "ProductPublished"
  PROVE  Current(t).about \in Products
  BY AtHandIn DEF AboutProducts, Current

(* The row that a listener drafts.                                         *)
RowOf(t) == <<Current(t).about, drafting[t].into>>

(* What the translations become in each step, with what the listeners do.  *)
Listens(t) ==
  /\ OnProductPublished(t) /\ UNCHANGED translation
  /\ drafting'[t] # Free /\ drafting'[t].at = "look"
Searches(t) ==
  /\ drafting'[t] # Free /\ UNCHANGED <<outboxVars, translation>>
  /\ drafting'[t].at = "llm" => translation[<<Current(t).about, drafting'[t].into>>] = NoRow
Stores(t) ==
  /\ Drafting(t, "llm") /\ UNCHANGED outboxVars
  /\ drafting'[t] # Free /\ drafting'[t].at = "look"
  /\ \/ UNCHANGED translation
     \/ \E draft \in TranslationRow : translation' = [translation EXCEPT ![RowOf(t)] = draft]
  /\ RowOf(t) \in Products \X Locales
Ends(t) == drafting'[t] = Free /\ UNCHANGED translation

LEMMA ListenerSteps ==
  ASSUME TypeOK, AboutProducts, NEW t \in Ticks,
         OnProductPublished(t) \/ LookForExisting(t) \/ StoreDraft(t) \/ Drafted(t)
  PROVE  /\ \E row \in {Free} \cup DraftingRow : drafting' = [drafting EXCEPT ![t] = row]
         /\ \A u \in Ticks \ {t} : drafting'[u] = drafting[u]
         /\ Listens(t) \/ Searches(t) \/ Stores(t) \/ Ends(t)
<1>1. /\ translation \in [Products \X Locales -> TranslationRow]
      /\ drafting \in [Ticks -> {Free} \cup DraftingRow]
  BY DraftingIs
<1>2. ASSUME NEW row \in {Free} \cup DraftingRow, drafting' = [drafting EXCEPT ![t] = row]
      PROVE  /\ drafting'[t] = row
             /\ \A u \in Ticks \ {t} : drafting'[u] = drafting[u]
             /\ \E r \in {Free} \cup DraftingRow : drafting' = [drafting EXCEPT ![t] = r]
  BY <1>1, <1>2
<1>3. CASE OnProductPublished(t)
  <2>1. dispatch[t] # Free /\ Current(t).type = "ProductPublished"
    BY <1>3 DEF OnProductPublished, Hears, Free
  <2>2. PICK l \in Locales :
          drafting' = [drafting EXCEPT ![t] =
            [at |-> "look", text |-> product[Current(t).about].text, left |-> Locales, into |-> l]]
    BY <1>3 DEF OnProductPublished, Drafts
  <2>3. PICK text : text = product[Current(t).about].text OBVIOUS
  <2>4. text \in 0..MaxTexts
    <3>1. product[Current(t).about] \in [status : ProductStatus, text : 0..MaxTexts]
      BY <2>1, AboutIn DEF TypeOK, ListingsTypeOK
    <3> QED BY <2>3, <3>1
  <2>5. PICK row : row = [at |-> "look", text |-> text, left |-> Locales, into |-> l] OBVIOUS
  <2>6. row \in DraftingRow /\ row.at = "look" /\ row # Free BY <2>4, <2>5 DEF DraftingRow, Free
  <2>7. drafting' = [drafting EXCEPT ![t] = row] BY <2>2, <2>3, <2>5
  <2> QED BY <1>2, <1>3, <2>6, <2>7 DEF Listens, OnProductPublished
<1>4. CASE LookForExisting(t)
  <2>1. Drafting(t, "look") /\ UNCHANGED <<outboxVars, translation>> BY <1>4 DEF LookForExisting
  <2>2. drafting[t] # Free BY <2>1 DEF Drafting, Free
  <2>3. drafting[t] \in DraftingRow BY <2>2, DraftingIs
  <2>4. PICK l \in drafting[t].left :
          drafting' = [drafting EXCEPT ![t] =
            [text |-> drafting[t].text, left |-> drafting[t].left \ {l}, into |-> l,
             at |-> IF translation[<<Current(t).about, l>>] = NoRow THEN "llm" ELSE "look"]]
    BY <1>4 DEF LookForExisting, Drafts
  <2>5. PICK at : at = IF translation[<<Current(t).about, l>>] = NoRow THEN "llm" ELSE "look" OBVIOUS
  <2>6. PICK row : row = [text |-> drafting[t].text, left |-> drafting[t].left \ {l}, into |-> l,
                          at |-> at]
    OBVIOUS
  <2>7. l \in Locales /\ at \in {"look", "llm"} BY <2>3, <2>5 DEF DraftingRow
  <2>8. row \in DraftingRow /\ row.at = at /\ row.into = l /\ row # Free
    BY <2>3, <2>6, <2>7 DEF DraftingRow, Free
  <2>9. drafting' = [drafting EXCEPT ![t] = row] BY <2>4, <2>5, <2>6
  <2>10. drafting'[t] = row BY <1>2, <2>8, <2>9
  <2> QED BY <1>2, <2>1, <2>5, <2>8, <2>9, <2>10 DEF Searches
<1>5. CASE StoreDraft(t)
  <2>1. Drafting(t, "llm") /\ UNCHANGED outboxVars BY <1>5 DEF StoreDraft
  <2>2. drafting[t] # Free /\ dispatch[t] # Free BY <2>1 DEF Drafting, Free
  <2>3. drafting[t] \in DraftingRow BY <2>2, DraftingIs
  <2>4. PICK row : row = [drafting[t] EXCEPT !.at = "look"] OBVIOUS
  <2>5. row \in DraftingRow /\ row.at = "look" /\ row # Free BY <2>3, <2>4 DEF DraftingRow, Free
  <2>6. drafting' = [drafting EXCEPT ![t] = row] BY <1>5, <2>4 DEF StoreDraft, Drafts
  <2>7. PICK draft : draft = [status |-> "MACHINE_DRAFT", text |-> drafting[t].text] OBVIOUS
  <2>8. draft \in TranslationRow BY <2>3, <2>7 DEF DraftingRow, TranslationRow
  <2>9. UNCHANGED translation \/ translation' = [translation EXCEPT ![RowOf(t)] = draft]
    BY <1>5, <2>7 DEF StoreDraft, RowOf
  <2>10. Current(t).about \in Products BY <2>1, <2>2, AboutIn DEF Drafting
  <2>11. RowOf(t) \in Products \X Locales BY <2>3, <2>10 DEF RowOf, DraftingRow
  <2> QED BY <1>2, <2>1, <2>5, <2>6, <2>8, <2>9, <2>11 DEF Stores
<1>6. CASE Drafted(t)
  <2>1. drafting' = [drafting EXCEPT ![t] = Free] /\ UNCHANGED translation
    BY <1>6 DEF Drafted, Drafts
  <2> QED BY <1>2, <2>1 DEF Ends
<1> QED BY <1>3, <1>4, <1>5, <1>6

(* A review finds a row and leaves the others.                             *)
LEMMA ReviewSteps ==
  ASSUME TypeOK, NEW r \in Translators, ReviewTranslation(r)
  PROVE  \E key \in Products \X Locales, row \in TranslationRow :
           /\ translation[key] # NoRow /\ row.status = "REVIEWED"
           /\ translation' = [translation EXCEPT ![key] = row]
           /\ UNCHANGED <<outboxVars, drafting>>
<1>1. translation \in [Products \X Locales -> TranslationRow]
  BY DEF TypeOK, ListingsTypeOK, TranslationRow
<1>2. PICK key \in Products \X Locales :
        /\ translation[key] # NoRow
        /\ translation' = [translation EXCEPT ![key].status = "REVIEWED"]
  BY <1>1 DEF ReviewTranslation
<1>3. PICK row : row = [translation[key] EXCEPT !.status = "REVIEWED"] OBVIOUS
<1>4. translation[key] \in TranslationRow BY <1>1
<1>5. row \in TranslationRow /\ row.status = "REVIEWED" BY <1>3, <1>4 DEF TranslationRow
<1>6. translation' = [translation EXCEPT ![key] = row] BY <1>1, <1>2, <1>3
<1> QED BY <1>2, <1>5, <1>6 DEF ReviewTranslation

(* The steps that change the translations or what drafts them.             *)
LEMMA TranslationSteps ==
  ASSUME TypeOK, [Next]_vars
  PROVE  \/ \E t \in Ticks :
              OnProductPublished(t) \/ LookForExisting(t) \/ StoreDraft(t) \/ Drafted(t)
         \/ \E r \in Translators : ReviewTranslation(r)
         \/ UNCHANGED translationVars
  BY DeliverySteps DEF TranslationNext

(* Translations keep their types.                                          *)
LEMMA TranslationTypes ==
  ASSUME TypeOK, AboutProducts, [Next]_vars
  PROVE  /\ translation' \in [Products \X Locales -> TranslationRow]
         /\ drafting' \in [Ticks -> {Free} \cup DraftingRow]
<1>1. /\ translation \in [Products \X Locales -> TranslationRow]
      /\ drafting \in [Ticks -> {Free} \cup DraftingRow]
  BY DEF TypeOK, ListingsTypeOK, TranslationRow, DraftingRow
<1>2. CASE UNCHANGED translationVars BY <1>1, <1>2 DEF translationVars
<1>3. CASE \E r \in Translators : ReviewTranslation(r)
  <2>1. PICK key \in Products \X Locales, row \in TranslationRow :
          translation' = [translation EXCEPT ![key] = row] /\ UNCHANGED drafting
    BY <1>3, ReviewSteps
  <2> QED BY <1>1, <2>1
<1>4. CASE \E t \in Ticks :
             OnProductPublished(t) \/ LookForExisting(t) \/ StoreDraft(t) \/ Drafted(t)
  <2>1. PICK t \in Ticks :
          OnProductPublished(t) \/ LookForExisting(t) \/ StoreDraft(t) \/ Drafted(t)
    BY <1>4
  <2>2. PICK row \in {Free} \cup DraftingRow : drafting' = [drafting EXCEPT ![t] = row]
    BY <2>1, ListenerSteps
  <2>3. Listens(t) \/ Searches(t) \/ Stores(t) \/ Ends(t) BY <2>1, ListenerSteps
  <2>4. translation' \in [Products \X Locales -> TranslationRow]
    BY <1>1, <2>3 DEF Listens, Searches, Stores, Ends
  <2> QED BY <1>1, <2>2, <2>4
<1> QED BY <1>2, <1>3, <1>4, TranslationSteps

LEMMA ListingsTypes ==
  ASSUME TypeOK, AboutProducts, [Next]_vars
  PROVE  ListingsTypeOK'
  BY CatalogTypes, TranslationTypes
  DEF ListingsTypeOK, ProductRow, EditingRow, ReviewingRow, TranslationRow, DraftingRow

(* Between the look for a row and the draft nobody else drafts: the row is *)
(* still missing.                                                          *)
LEMMA NoRowStep ==
  ASSUME TypeOK, OneDispatch, AboutProducts, NoRowYet, [Next]_vars
  PROVE  NoRowYet'
<1>1. /\ translation \in [Products \X Locales -> TranslationRow]
      /\ drafting \in [Ticks -> {Free} \cup DraftingRow]
  BY DEF TypeOK, ListingsTypeOK, TranslationRow, DraftingRow
<1> SUFFICES ASSUME NEW u \in Ticks, Drafting(u, "llm")'
             PROVE  translation'[<<Current(u).about, drafting[u].into>>'] = NoRow
  BY DEF NoRowYet
<1>2. drafting'[u].at = "llm" /\ dispatch'[u].at = "listen" /\ Current(u)'.type = "ProductPublished"
  BY DEF Drafting
<1>3. ASSUME drafting'[u] = drafting[u], dispatch[u] # Free, dispatch'[u] = dispatch[u],
             RowOf(u) \in DOMAIN translation => translation'[RowOf(u)] = translation[RowOf(u)],
             RowOf(u) \in DOMAIN translation
      PROVE  translation'[<<Current(u).about, drafting[u].into>>'] = NoRow
  <2>1. Current(u)'.type = Current(u).type /\ Current(u)'.about = Current(u).about
    BY <1>3, AtHandKept
  <2>2. Drafting(u, "llm") BY <1>2, <1>3, <2>1 DEF Drafting
  <2>3. translation[RowOf(u)] = NoRow BY <2>2 DEF NoRowYet, RowOf
  <2> QED BY <1>3, <2>1, <2>3 DEF RowOf
<1>4. ASSUME drafting'[u] = drafting[u], dispatch[u] # Free, Current(u).type = "ProductPublished"
      PROVE  RowOf(u) \in DOMAIN translation
  <2>1. drafting[u] # Free BY <1>2, <1>4 DEF Free
  <2>2. drafting[u].into \in Locales BY <2>1, DraftingIs DEF DraftingRow
  <2>3. Current(u).about \in Products BY <1>4, AboutIn
  <2> QED BY <1>1, <2>2, <2>3 DEF RowOf
<1>5. ASSUME drafting'[u] = drafting[u], dispatch'[u] = dispatch[u],
             RowOf(u) \in DOMAIN translation => translation'[RowOf(u)] = translation[RowOf(u)]
      PROVE  translation'[<<Current(u).about, drafting[u].into>>'] = NoRow
  <2>1. dispatch[u] # Free BY <1>2, <1>5 DEF Free
  <2>2. Current(u).type = "ProductPublished" BY <1>2, <1>5, <2>1, AtHandKept
  <2> QED BY <1>3, <1>4, <1>5, <2>1, <2>2
(* A dispatch that comes to listen without this listener is about another  *)
(* event.                                                                  *)
<1>6. CASE UNCHANGED translationVars
  <2>1. drafting'[u] = drafting[u] /\ UNCHANGED translation BY <1>6 DEF translationVars
  <2>2. dispatch'[u] = dispatch[u]
    <3>1. CASE OutboxNext
      <4>1. PICK t \in Ticks :
              DispatchStart(t) \/ EmitUnheard(t) \/ Mark(t) \/ DispatchFails(t) \/ ListenerFails(t)
        BY <3>1 DEF OutboxNext
      <4>2. dispatch \in [Ticks -> {Free} \cup DispatchRow]
        BY DEF TypeOK, OutboxTypeOK, DispatchRow
      <4>3. CASE DispatchStart(t) \/ Mark(t) \/ DispatchFails(t)
        <5>1. dispatch'[t].at \in {"emit", "free"}
          BY <4>2, <4>3 DEF DispatchStart, Mark, DispatchFails, Free
        <5>2. t # u BY <1>2, <5>1
        <5> QED BY <4>2, <4>3, <5>2 DEF DispatchStart, Mark, DispatchFails
      <4>4. CASE EmitUnheard(t) \/ ListenerFails(t)
        <5>1. dispatch[t] # Free /\ Goes(t, "mark") BY <4>4 DEF EmitUnheard, ListenerFails, Free
        <5>2. dispatch'[t].at = "mark" BY <5>1, GoesTo
        <5>3. t # u BY <1>2, <5>2
        <5> QED BY <5>1, <5>3, GoesTo
      <4> QED BY <4>1, <4>3, <4>4
    <3>2. CASE \E t \in Ticks : OnAccessEscalated(t) \/ Told(t)
      <4>1. PICK t \in Ticks : OnAccessEscalated(t) \/ Told(t) BY <3>2
      <4>2. /\ dispatch[t] # Free /\ Current(t).type = "AccessEscalated"
            /\ Goes(t, "listen") \/ Goes(t, "mark")
        BY <4>1 DEF OnAccessEscalated, Told, Tells, Hears, Free
      <4>3. dispatch'[t].batch = dispatch[t].batch BY <4>2, GoesTo
      <4>4. Current(t)'.type = "AccessEscalated" BY <4>2, <4>3, AtHandKept
      <4>5. t # u BY <1>2, <4>4
      <4> QED BY <4>2, <4>5, GoesTo
    <3>3. CASE \E t \in Ticks : NotifyUser(t) \/ Push(t)
      BY <3>3 DEF NotifyUser, Push, outboxVars
    <3>4. CASE TranslationNext
      <4>1. CASE \E t \in Ticks : OnProductPublished(t)
        <5>1. PICK t \in Ticks : OnProductPublished(t) BY <4>1
        <5>2. drafting'[t].at = "look" BY <1>1, <5>1 DEF OnProductPublished, Drafts
        <5>3. dispatch[t] # Free /\ Goes(t, "listen") BY <5>1 DEF OnProductPublished, Hears, Free
        <5>4. t # u BY <1>2, <5>2
        <5> QED BY <5>3, <5>4, GoesTo
      <4>2. CASE \E t \in Ticks : Drafted(t)
        <5>1. PICK t \in Ticks : Drafted(t) BY <4>2
        <5>2. dispatch[t] # Free /\ Goes(t, "mark") BY <5>1 DEF Drafted, Drafting, Free
        <5>3. dispatch'[t].at = "mark" BY <5>2, GoesTo
        <5>4. t # u BY <1>2, <5>3
        <5> QED BY <5>2, <5>4, GoesTo
      <4> QED BY <3>4, <4>1, <4>2
              DEF TranslationNext, LookForExisting, StoreDraft, ReviewTranslation, outboxVars
    <3> QED BY <3>1, <3>2, <3>3, <3>4, DeliverySteps DEF outboxVars, Emits, Emit
  <2> QED BY <1>5, <2>1, <2>2
<1>7. CASE \E r \in Translators : ReviewTranslation(r)
  <2>1. PICK key \in Products \X Locales, row \in TranslationRow :
          /\ translation[key] # NoRow
          /\ translation' = [translation EXCEPT ![key] = row]
          /\ UNCHANGED <<outboxVars, drafting>>
    BY <1>7, ReviewSteps
  <2>2. UNCHANGED <<dispatch, drafting>> BY <2>1 DEF outboxVars
  <2>3. dispatch[u] # Free BY <1>2, <2>2 DEF Free
  <2>4. Current(u).type = "ProductPublished" BY <1>2, <2>2, <2>3, AtHandKept
  <2>5. RowOf(u) \in DOMAIN translation BY <1>4, <2>2, <2>3, <2>4
  <2>6. translation[RowOf(u)] = NoRow BY <1>2, <2>2, <2>4 DEF NoRowYet, Drafting, RowOf
  <2>7. RowOf(u) # key BY <2>1, <2>6
  <2>8. translation'[RowOf(u)] = translation[RowOf(u)] BY <1>1, <2>1, <2>5, <2>7
  <2> QED BY <1>5, <2>2, <2>8
<1>8. CASE \E t \in Ticks :
             OnProductPublished(t) \/ LookForExisting(t) \/ StoreDraft(t) \/ Drafted(t)
  <2>1. PICK t \in Ticks :
          OnProductPublished(t) \/ LookForExisting(t) \/ StoreDraft(t) \/ Drafted(t)
    BY <1>8
  <2>2. /\ \A w \in Ticks \ {t} : drafting'[w] = drafting[w]
        /\ Listens(t) \/ Searches(t) \/ Stores(t) \/ Ends(t)
    BY <2>1, ListenerSteps
  <2>3. dispatch[t] # Free
    BY <2>1 DEF OnProductPublished, LookForExisting, StoreDraft, Drafted, Drafting, Hears, Free
  <2>4. u = t
    <3> SUFFICES ASSUME u # t PROVE FALSE OBVIOUS
    <3>1. dispatch'[u] = dispatch[u]
      <4>1. CASE OnProductPublished(t) \/ Drafted(t)
        <5>1. Goes(t, "listen") \/ Goes(t, "mark")
          BY <4>1 DEF OnProductPublished, Drafted, Hears
        <5> QED BY <2>3, <5>1, GoesTo
      <4> QED BY <2>1, <4>1 DEF LookForExisting, StoreDraft, outboxVars
    <3>2. dispatch[u] # Free BY <1>2, <3>1 DEF Free
    <3> QED BY <2>3, <3>2 DEF OneDispatch
  <2>5. Searches(t) BY <1>2, <2>2, <2>4 DEF Listens, Stores, Ends, Free
  <2>6. UNCHANGED <<dispatch, translation>> BY <2>5 DEF Searches, outboxVars
  <2>7. Current(u)'.about = Current(u).about BY <2>3, <2>4, <2>6, AtHandKept
  <2> QED BY <1>2, <2>4, <2>5, <2>6, <2>7 DEF Searches
<1> QED BY <1>6, <1>7, <1>8, TranslationSteps

(* A reviewed text is never a draft again.                                 *)
LEMMA ReviewedStep ==
  ASSUME TypeOK, AboutProducts, NoRowYet, [Next]_vars,
         NEW key \in DOMAIN translation, translation[key].status = "REVIEWED"
  PROVE  translation'[key].status = "REVIEWED"
<1>1. translation \in [Products \X Locales -> TranslationRow]
  BY DEF TypeOK, ListingsTypeOK, TranslationRow
<1>2. CASE UNCHANGED translation BY <1>2
<1>3. CASE \E r \in Translators : ReviewTranslation(r)
  <2>1. PICK other \in Products \X Locales, row \in TranslationRow :
          row.status = "REVIEWED" /\ translation' = [translation EXCEPT ![other] = row]
    BY <1>3, ReviewSteps
  <2> QED BY <1>1, <2>1
<1>4. CASE \E t \in Ticks :
             OnProductPublished(t) \/ LookForExisting(t) \/ StoreDraft(t) \/ Drafted(t)
  <2>1. PICK t \in Ticks : Listens(t) \/ Searches(t) \/ Stores(t) \/ Ends(t)
    BY <1>4, ListenerSteps
  <2>2. CASE Stores(t)
    <3>1. translation[RowOf(t)] = NoRow BY <2>2 DEF Stores, NoRowYet, RowOf
    <3>2. key # RowOf(t) BY <3>1 DEF NoRow
    <3> QED BY <1>1, <1>2, <2>2, <3>2 DEF Stores
  <2> QED BY <1>2, <2>1, <2>2 DEF Listens, Searches, Ends
<1> QED BY <1>2, <1>3, <1>4, TranslationSteps DEF translationVars

----------------------------------------------------------------------------
(* The system                                                              *)

(* Every part starts with its types.                                       *)
LEMMA InitTypes == Init => TypeOK
<1> SUFFICES ASSUME Init PROVE TypeOK OBVIOUS
<1>1. OutboxTypeOK
  <2>1. dispatch \in [Ticks -> {Free} \cup DispatchRow] /\ \A t \in Ticks : dispatch[t] = Free
    BY DEF Init, OutboxInit
  <2>2. events = <<>> /\ clock = 0 /\ running = FALSE /\ fails = 0 /\ team \in Teams
    BY DEF Init, OutboxInit
  <2>3. events \in Seq(EventRow) /\ Len(events) = 0 BY <2>2
  <2>4. clock \in 0..MaxClock /\ fails \in 0..MaxFails /\ Len(events) <= MaxEvents
    BY <2>2, <2>3, Assumptions
  <2>5. running \in BOOLEAN /\ team \in Teams BY <2>2
  <2> QED BY <2>1, <2>3, <2>4, <2>5 DEF OutboxTypeOK, EventRow, DispatchRow
<1>2. MessagingTypeOK
  <2>1. /\ strikes \in [Writers -> Nat] /\ frozen \subseteq Topics
        /\ late \in [Topics -> 0..MaxLate]
        /\ sending \in [Senders -> {"free", "count", "freeze", "check", "post"}]
        /\ sockets \in [Bells -> Nat]
    BY Assumptions DEF Init, MessagingInit
  <2>2. notices = <<>> BY DEF Init, MessagingInit
  <2>3. notices \in Seq(NoticeRow) /\ Len(notices) = 0 BY <2>2
  <2>4. telling \in [Ticks -> TellingRow(Len(notices))]
    BY <2>3 DEF Init, MessagingInit, TellingRow
  <2>5. bell \in [Bells -> BellRow(DOMAIN notices)]
    <3>1. NoLoad \in Loads(DOMAIN notices) BY DEF NoLoad, Loads
    <3> QED BY <3>1, ShowingIs, Assumptions DEF Init, MessagingInit, BellRow
  <2>6. reached \in [Bells -> SUBSET DOMAIN notices] BY DEF Init, MessagingInit
  <2> QED BY <2>1, <2>3, <2>4, <2>5, <2>6, Assumptions
           DEF MessagingTypeOK, NoticeRow, TellingRow, BellRow
<1>3. PartiesTypeOK
  BY DEF Init, PartiesInit, PartiesTypeOK
<1>4. ListingsTypeOK
  <2>1. 0 \in 0..MaxTexts BY Assumptions
  <2>2. product \in [Products -> ProductRow] /\ approved \in [Products -> 0..MaxTexts]
    BY <2>1 DEF Init, ListingsInit, ProductRow, ProductStatus
  <2>3. /\ editing \in [Editors -> {Free} \cup EditingRow]
        /\ reviewing \in [Reviewers -> {Free} \cup ReviewingRow]
        /\ drafting \in [Ticks -> {Free} \cup DraftingRow]
    BY DEF Init, ListingsInit
  <2>4. translation \in [Products \X Locales -> TranslationRow]
    BY <2>1 DEF Init, ListingsInit, NoRow, TranslationRow
  <2> QED BY <2>2, <2>3, <2>4
          DEF ListingsTypeOK, ProductRow, EditingRow, ReviewingRow, TranslationRow, DraftingRow
<1>5. TracingTypeOK
  <2>1. care = <<>> /\ batches = <<>> /\ lots = <<>> BY DEF Init, TracingInit
  <2>2. /\ care \in Seq(0..MaxClock + 1) /\ Len(care) = 0 /\ batches \in Seq(BatchRow)
        /\ Len(batches) = 0 /\ lots \in Seq(DOMAIN batches)
    BY <2>1
  <2>3. /\ processing \in [Butchers -> {"free", "create"}]
        /\ stocking \in [Stockers -> 0..Len(batches)]
    BY <2>2 DEF Init, TracingInit
  <2>4. MaxCare \in Nat BY TracingAssumption DEF TracingAssumption
  <2> QED BY <2>2, <2>3, <2>4 DEF TracingTypeOK, BatchRow
<1>6. PoliciesTypeOK
  <2>1. Uncached \in [at : {None} \cup Nat, rows : Rows] BY DEF Uncached, Rows
  <2>2. changes \in 0..MaxChanges BY Assumptions DEF Init, PoliciesInit
  <2> QED BY <2>1, <2>2 DEF Init, PoliciesInit, PoliciesTypeOK, Effects
<1> QED BY <1>1, <1>2, <1>3, <1>4, <1>5, <1>6 DEF TypeOK

(* Nothing has happened yet.                                               *)
LEMMA InitInv == Init => PlatformInv
<1> SUFFICES ASSUME Init PROVE PlatformInv OBVIOUS
<1>1. TypeOK BY InitTypes
<1>2. OneDispatch /\ AboutProducts /\ AdminsTold /\ EscalationTold
  BY DEF Init, OutboxInit, OneDispatch, AboutProducts, AdminsTold, EscalationTold, Tells, Free
<1>3. BellsInv
  BY DEF Init, MessagingInit, BellsInv, PushedOnce, OneSocket, ShownOnce
<1>4. ChatInv
  <2>1. StrikesHandled
    BY DEF Init, MessagingInit, StrikesHandled, BLOCK_FREEZE_THRESHOLD
  <2>2. FrozenLeavesOne BY DEF Init, MessagingInit, FrozenLeavesOne
  <2> QED BY <2>1, <2>2 DEF ChatInv
<1>5. PartiesInv
  <2>1. CodesAhead /\ CodesNeverCollide
    BY DEF Init, PartiesInit, CodesAhead, CodesNeverCollide
  <2>2. Primaries = {} BY DEF Init, PartiesInit, Primaries
  <2>3. FirstIsFree BY <2>2 DEF Init, PartiesInit, FirstIsFree
  <2>4. ApprovedByGrant /\ ViewsAreGranted
    BY DEF Init, PartiesInit, ApprovedByGrant, ViewsAreGranted
  <2> QED BY <2>1, <2>3, <2>4 DEF PartiesInv
<1>6. CatalogInv
  <2>1. LooksAndEdits BY DEF Init, ListingsInit, LooksAndEdits, Free
  <2>2. ReviewedUnlessCrossed BY DEF Init, ListingsInit, ReviewedUnlessCrossed, PublishedIsReviewed
  <2> QED BY <2>1, <2>2 DEF CatalogInv
<1>7. NoRowYet BY DEF Init, OutboxInit, NoRowYet, Drafting, Free
<1>8. TracingInv
  BY DEF Init, TracingInit, TracingInv, CareEnded, ProcessedAfterWithdrawal
<1>9. StaleWasEarly
  <2>1. /\ clock = 0 /\ changed = 0 /\ cache = Uncached /\ applied.at = None
        /\ \A r \in Readers : reading[r] = Free
    BY DEF Init, OutboxInit, PoliciesInit
  <2>2. None <= 0 /\ None < 0 + CACHE_TTL + Latency /\ Uncached.at = None
    BY Assumptions DEF None, Uncached
  <2> QED BY <2>1, <2>2 DEF StaleWasEarly
<1> QED BY <1>1, <1>2, <1>3, <1>4, <1>5, <1>6, <1>7, <1>8, <1>9 DEF PlatformInv

(* Every part keeps its types.                                             *)
LEMMA StepTypes ==
  ASSUME TypeOK, AboutProducts, [Next]_vars
  PROVE  TypeOK'
<1>1. PartiesTypeOK'
  BY RegisterTypes, ContactTypes, AccessTypes DEF PartiesTypeOK, EscalationRow
<1> QED BY <1>1, OutboxTypes, MessagingTypes, ListingsTypes, TracingTypes, PoliciesTypes DEF TypeOK

(* The invariant is inductive.                                             *)
LEMMA StepInv == PlatformInv /\ [Next]_vars => PlatformInv'
<1> SUFFICES ASSUME PlatformInv, [Next]_vars PROVE PlatformInv' OBVIOUS
<1> USE DEF PlatformInv
<1>1. TypeOK' BY StepTypes
<1>2. OneDispatch' BY OneDispatchStep
<1>3. AboutProducts' BY AboutStep
<1>4. AdminsTold' BY AdminsStep
<1>5. EscalationTold' BY ToldStep
<1>6. BellsInv' BY BellsStep
<1>7. ChatInv' BY StrikesStep, FrozenStep DEF ChatInv
<1>8. PartiesInv' BY CodesStep, FirstStep, AccessStep DEF PartiesInv
<1>9. CatalogInv' BY CatalogStep
<1>10. NoRowYet' BY NoRowStep
<1>11. TracingInv' BY TracingStep
<1>12. StaleWasEarly' BY StaleStep
<1> QED BY <1>1, <1>2, <1>3, <1>4, <1>5, <1>6, <1>7, <1>8, <1>9, <1>10, <1>11, <1>12

THEOREM PlatformInvariance == Spec => []PlatformInv
<1>1. Init => PlatformInv BY InitInv
<1>2. PlatformInv /\ [Next]_vars => PlatformInv' BY StepInv
<1> QED BY <1>1, <1>2, PTL DEF Spec

(* Unless a listener throws, an escalation counts as published only when   *)
(* every super admin has a notice of it, and a bell shows once what was    *)
(* pushed to its session and no list that is older has replaced            *)
(* (communication.service.ts, notification.gateway.ts,                     *)
(* notification-bell.tsx).                                                 *)
THEOREM NoticesArriveTheorem == Spec => []NoticesArrive
<1>1. PlatformInv => NoticesArrive BY DEF PlatformInv, BellsInv, NoticesArrive
<1> QED BY <1>1, PlatformInvariance, PTL

(* The third strike freezes a conversation, and a frozen one gets at most  *)
(* the messages that were past the check (communication.service.ts).       *)
THEOREM FreezeHoldsTheorem == Spec => []FreezeHolds
<1>1. PlatformInv => FreezeHolds
  BY QuietByInv, FreezesByInv DEF PlatformInv, ChatInv, FreezeHolds
<1> QED BY <1>1, PlatformInvariance, PTL

(* Registrations never meet in a code, an organisation has one primary     *)
(* contact unless two are added at once, and confidential fields are read  *)
(* in the window of a grant or in the list of the parties, which shows     *)
(* numbers of registration and tax without one (party.service.ts,          *)
(* access.service.ts).                                                     *)
THEOREM PartiesKeptTheorem == Spec => []PartiesKept
<1>1. PlatformInv => PartiesKept BY OneByInv DEF PlatformInv, PartiesInv, PartiesKept
<1> QED BY <1>1, PlatformInvariance, PTL

(* A change of the visibility policies is in force once the cache and the  *)
(* queries under way have lapsed (visibility.service.ts).                  *)
THEOREM PolicyInForceTheorem == Spec => []PolicyInForce
<1>1. PlatformInv => PolicyInForce BY InForceByInv DEF PlatformInv
<1> QED BY <1>1, PlatformInvariance, PTL

(* Unless handlers of one row cross, what is listed was looked at and what *)
(* was processed had no medication left (catalog.service.ts,               *)
(* traceability.service.ts).                                               *)
THEOREM GuardsHoldTheorem == Spec => []GuardsHold
<1>1. PlatformInv => GuardsHold BY DEF PlatformInv, CatalogInv, TracingInv, GuardsHold
<1> QED BY <1>1, PlatformInvariance, PTL

(* A reviewed translation is never a machine draft again                   *)
(* (translation.service.ts).                                               *)
THEOREM ReviewedStaysTheorem == Spec => ReviewedStays
<1>1. PlatformInv /\ [Next]_vars =>
        [\A row \in DOMAIN translation :
           translation[row].status = "REVIEWED" => translation'[row].status = "REVIEWED"]_vars
  BY ReviewedStep DEF PlatformInv
<1> QED BY <1>1, PlatformInvariance, PTL DEF Spec, ReviewedStays
=============================================================================
