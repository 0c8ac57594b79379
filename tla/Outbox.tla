------------------------------- MODULE Outbox -------------------------------
(***************************************************************************)
(* outbox.service.ts and outbox.dispatcher.ts: events are written in the   *)
(* transaction of the change they tell of, an interval hands them to the   *)
(* listeners of the process and marks them published.  What a listener     *)
(* does is the business of the modules that extend this one.  Events are   *)
(* taken to be created in the order in which they commit.                  *)
(***************************************************************************)
EXTENDS Integers, Sequences, SequencesExt, FiniteSetsExt

CONSTANTS
  Ticks,        \* firings of the interval
  BatchSize,    \* events fetched at once, 50 in the code
  MaxClock, MaxEvents, MaxFails,   \* bounds
  Teams         \* bound: who acts in one behaviour

ASSUME OutboxAssumption ==
  BatchSize \in Nat \ {0} /\ {MaxClock, MaxEvents, MaxFails} \subseteq Nat

VARIABLES
  clock,
  events,       \* rows of OutboxEvent: their type, subject, whether published
  running,      \* the flag of the dispatcher
  dispatch,     \* what a firing of the interval is about to do
  fails,        \* history: dispatches that threw or were lost
  team

outboxVars == <<events, running, dispatch, fails>>

Free == [at |-> "free"]
None == 0 - 1
EventTypes ==
  {"AccessEscalated", "PartyRegistered", "PartyApproved", "PartyRejected", "ProductPublished"}
Listened == {"AccessEscalated", "ProductPublished"}

OutboxTypeOK ==
  /\ clock \in 0..MaxClock
  /\ events \in Seq([type : EventTypes, about : Nat, published : BOOLEAN])
  /\ Len(events) <= MaxEvents
  /\ running \in BOOLEAN
  /\ dispatch \in [Ticks -> {Free} \cup
       [at : {"emit", "listen", "mark"}, batch : (SUBSET (1..MaxEvents)) \ {{}}]]
  /\ \A t \in Ticks : dispatch[t] # Free => dispatch[t].batch \subseteq DOMAIN events
  /\ fails \in 0..MaxFails
  /\ team \in Teams

OutboxInit ==
  /\ clock = 0
  /\ events = <<>> /\ running = FALSE
  /\ dispatch = [t \in Ticks |-> Free]
  /\ fails = 0
  /\ team \in Teams

(* emitInTx; events beyond the bound are not followed.                     *)
Emit(type, about) ==
  /\ Len(events) < MaxEvents   \* bound
  /\ events' = Append(events, [type |-> type, about |-> about, published |-> FALSE])
  /\ UNCHANGED <<running, dispatch, fails>>

----------------------------------------------------------------------------
(* The dispatcher                                                          *)

(* Mutant of Idle: a firing does not wait for the one before.              *)
IdleAlways == TRUE

Idle == ~running

Unpublished == {i \in DOMAIN events : ~events[i].published}

(* The oldest ones, in the order of their creation.                        *)
Fetched == {i \in Unpublished : Cardinality({j \in Unpublished : j < i}) < BatchSize}

DispatchStart(t) ==
  /\ t \in team /\ dispatch[t] = Free
  /\ Idle /\ Unpublished # {}
  /\ running' = TRUE
  /\ dispatch' = [dispatch EXCEPT ![t] = [at |-> "emit", batch |-> Fetched]]
  /\ UNCHANGED <<events, fails>>

AtHand(t) == Min(dispatch[t].batch)
Current(t) == events[AtHand(t)]
Goes(t, at) == dispatch' = [dispatch EXCEPT ![t].at = at]

(* emitAsync of an event that calls the listener of its type, ...          *)
Hears(t, type) ==
  /\ dispatch[t].at = "emit" /\ Current(t).type = type
  /\ Goes(t, "listen")
  /\ UNCHANGED <<events, running, fails>>

(* ... or of one that nobody listens to.                                   *)
EmitUnheard(t) ==
  /\ dispatch[t].at = "emit" /\ Current(t).type \notin Listened
  /\ Goes(t, "mark")
  /\ UNCHANGED <<events, running, fails>>

Marked(i) == [events EXCEPT ![i].published = TRUE]

Mark(t) ==
  LET rest == dispatch[t].batch \ {AtHand(t)} IN
  /\ dispatch[t].at = "mark"
  /\ events' = Marked(AtHand(t))
  /\ running' = (rest # {})
  /\ dispatch' = [dispatch EXCEPT ![t] = IF rest = {} THEN Free ELSE [at |-> "emit", batch |-> rest]]
  /\ UNCHANGED fails

(* Mutant of Released: there is no finally.                                *)
ReleasedNever == running

Released == FALSE

(* A query of the dispatcher throws, or the process restarts.              *)
DispatchFails(t) ==
  /\ fails < MaxFails   \* bound
  /\ dispatch[t] # Free
  /\ fails' = fails + 1
  /\ running' = Released
  /\ dispatch' = [dispatch EXCEPT ![t] = Free]
  /\ UNCHANGED events

(* A listener that throws is logged by the event emitter and the dispatch  *)
(* goes on.                                                                *)
ListenerFails(t) ==
  /\ "fail" \in team   \* bound
  /\ dispatch[t].at = "listen"
  /\ Goes(t, "mark")
  /\ UNCHANGED <<events, running, fails>>

OutboxNext ==
  \E t \in Ticks :
    DispatchStart(t) \/ EmitUnheard(t) \/ Mark(t) \/ DispatchFails(t) \/ ListenerFails(t)
=============================================================================
