------------------------------ MODULE Sweeper ------------------------------
(***************************************************************************)
(* reservation-sweeper.service.ts: every ten minutes, or when an admin     *)
(* asks for it, the holds whose TTL has passed are given back.             *)
(***************************************************************************)
EXTENDS Settlement

CONSTANT Sweepers   \* sweeps in progress at once (callers)

ASSUME SweeperAssumption == Sweepers \subseteq Callers

VARIABLE sweep

SweepType == [at : {"cancel", "orphan", "release"}, order : Orders]

SweeperTypeOK == sweep \in [Sweepers -> SweepType \cup {Idle}]

SweeperInit == sweep = [s \in Sweepers |-> Idle]

(* A payment that is PENDING and recent protects its order.                *)
Protected(o) == \E p \in Pending(o) : payment[p].recent

(* Mutant of Sweepable: an intent protects its order at any age.           *)
SweepableUnlessPending(o) ==
  reservation[o].state = "HELD" /\ reservation[o].expired /\ Pending(o) = {}

Sweepable(o) ==
  reservation[o].state = "HELD" /\ reservation[o].expired /\ ~Protected(o)

(* The reads of one order of a sweep; nothing is locked by them.           *)
SweepStart(s, o) ==
  /\ sweep[s] = Idle /\ call[s] = NoCall
  /\ Sweepable(o)
  /\ sweep' = [sweep EXCEPT ![s] =
       [at |-> IF order[o].status = "PLACED" THEN "cancel" ELSE "orphan", order |-> o]]
  /\ UNCHANGED <<tradingVars, settlementVars>>

(* An unpaid order is cancelled through the state machine.                 *)
SweepCancel(s) ==
  /\ sweep[s].at = "cancel"
  /\ Begin(s, sweep[s].order, "CANCELLED", {"SYSTEM"}, "none")
  /\ sweep' = [sweep EXCEPT ![s] = Idle]
  /\ UNCHANGED <<order, reservation, paid, paperwork, outbox, settlementVars>>

(* releaseOrphan, for every other status: count and read the HELD rows ... *)
OrphanRead(s) ==
  /\ sweep[s].at = "orphan"
  /\ sweep' = [sweep EXCEPT ![s] =
       IF reservation[@.order].state = "HELD" THEN [@ EXCEPT !.at = "release"] ELSE Idle]
  /\ UNCHANGED <<tradingVars, settlementVars>>

(* ... then give them back, by their ids; ...                              *)
OrphanRelease(s) ==
  /\ sweep[s].at = "release"
  /\ reservation' = Released(sweep[s].order)
  /\ sweep' = [sweep EXCEPT ![s] = Idle]
  /\ UNCHANGED <<order, paid, paperwork, outbox, call, settlementVars>>

(* ... or roll back on a CHECK, if they are no longer held.                *)
OrphanAbort(s) ==
  /\ sweep[s].at = "release"
  /\ reservation[sweep[s].order].state # "HELD"
  /\ sweep' = [sweep EXCEPT ![s] = Idle]
  /\ UNCHANGED <<tradingVars, settlementVars>>

SweepStep(s) ==
  \/ \E o \in Orders : SweepStart(s, o)
  \/ SweepCancel(s) \/ OrphanRead(s) \/ OrphanRelease(s) \/ OrphanAbort(s)
=============================================================================
