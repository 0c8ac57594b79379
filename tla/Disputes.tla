------------------------------ MODULE Disputes ------------------------------
(***************************************************************************)
(* dispute.service.ts: a party opens a dispute on a delivered order, both  *)
(* add evidence, and the platform rules on it, which pays the escrow out   *)
(* before the order moves on.                                              *)
(***************************************************************************)
EXTENDS Settlement

CONSTANTS
  Parties,      \* open() requests in progress at once (callers)
  Witnesses,    \* addEvidence() requests in progress at once
  Staff,        \* resolve() requests in progress at once (callers)
  Refunds,      \* the partial refunds that staff may enter
  MaxDisputes,  \* bound: disputes opened
  MaxEdits      \* bound: version of a dispute that is still edited

ASSUME DisputesAssumption ==
  /\ Parties \subseteq Callers /\ Staff \subseteq Callers
  /\ Refunds \subseteq Nat /\ MaxDisputes \in Nat /\ MaxEdits \in Nat

DisputeId == 1..MaxDisputes

VARIABLES dispute, opening, evidence, ruling

disputeVars == <<dispute, opening, evidence, ruling>>

NoDispute == [status |-> "NONE"]
InProgress == {"OPEN", "INVESTIGATING"}
DisputeType == [status : InProgress \cup {"RESOLVED"}, order : Orders, version : Nat]
OpeningType == [at : {"create", "advance"}, order : Orders, role : {"BUYER", "SUPPLIER"}]
EvidenceType == [at : {"write"}, dispute : DisputeId]
StaffRoles == {"ADMIN", "SUPER_ADMIN", "CUSTOMER_SERVICE"}
RulingType == [at : {"book", "advance"}, dispute : DisputeId, order : Orders,
               refund : Nat, role : StaffRoles]

DisputesTypeOK ==
  /\ dispute \in [DisputeId -> DisputeType \cup {NoDispute}]
  /\ opening \in [Parties -> OpeningType \cup {Idle}]
  /\ evidence \in [Witnesses -> EvidenceType \cup {Idle}]
  /\ ruling \in [Staff -> RulingType \cup {Idle}]

DisputesInit ==
  /\ dispute = [d \in DisputeId |-> NoDispute]
  /\ opening = [p \in Parties |-> Idle]
  /\ evidence = [e \in Witnesses |-> Idle]
  /\ ruling = [s \in Staff |-> Idle]

InDispute ==
  {o \in Orders : \E d \in DisputeId : dispute[d].status \in InProgress /\ dispute[d].order = o}

(* Mutant of OpeningFrame: the order is moved and no row is written.       *)
OpeningFrameEager(o, role) == [at |-> "advance", order |-> o, role |-> role]

OpeningFrame(o, role) == [at |-> "create", order |-> o, role |-> role]

(* open: the order is DELIVERED, its window has not closed and no dispute  *)
(* is in progress ...                                                      *)
OpenStart(p, o, role) ==
  /\ opening[p] = Idle /\ call[p] = NoCall
  /\ order[o].status = "DELIVERED" /\ order[o].window # "closed"
  /\ o \notin InDispute
  /\ opening' = [opening EXCEPT ![p] = OpeningFrame(o, role)]
  /\ UNCHANGED <<tradingVars, settlementVars, dispute, evidence, ruling>>

(* ... then the row is written, with no constraint against a second one,   *)
OpenCreate(p) ==
  /\ opening[p].at = "create"
  /\ \E d \in DisputeId :
       /\ dispute[d] = NoDispute
       /\ \A c \in 1..(d - 1) : dispute[c] # NoDispute
       /\ dispute' = [dispute EXCEPT ![d] =
            [status |-> "OPEN", order |-> opening[p].order, version |-> 0]]
  /\ opening' = [opening EXCEPT ![p].at = "advance"]
  /\ UNCHANGED <<tradingVars, settlementVars, evidence, ruling>>

(* and after it the order moves to DISPUTED, in a transaction of its own.  *)
OpenAdvance(p) ==
  /\ opening[p].at = "advance"
  /\ Begin(p, opening[p].order, "DISPUTED", {opening[p].role}, "none")
  /\ opening' = [opening EXCEPT ![p] = Idle]
  /\ UNCHANGED <<order, reservation, paid, paperwork, outbox>>
  /\ UNCHANGED <<settlementVars, dispute, evidence, ruling>>

----------------------------------------------------------------------------
(* addEvidence checks the status, and writes INVESTIGATING later.          *)
EvidenceStart(e, d) ==
  /\ evidence[e] = Idle
  /\ dispute[d].status \in InProgress /\ dispute[d].version < MaxEdits
  /\ evidence' = [evidence EXCEPT ![e] = [at |-> "write", dispute |-> d]]
  /\ UNCHANGED <<tradingVars, settlementVars, dispute, opening, ruling>>

Edited(d, status) ==
  [dispute EXCEPT ![d] = [status |-> status, order |-> @.order, version |-> @.version + 1]]

EvidenceWrite(e) ==
  /\ evidence[e].at = "write"
  /\ dispute' = Edited(evidence[e].dispute, "INVESTIGATING")
  /\ evidence' = [evidence EXCEPT ![e] = Idle]
  /\ UNCHANGED <<tradingVars, settlementVars, opening, ruling>>

----------------------------------------------------------------------------
(* REJECT refunds nothing, REFUND_FULL everything, REFUND_PARTIAL an       *)
(* amount strictly between.                                                *)
Decisions == {0, Total} \cup {r \in Refunds : 0 < r /\ r < Total}

RuleStart(s, d, refund, role) ==
  /\ ruling[s] = Idle /\ call[s] = NoCall
  /\ dispute[d].status \in InProgress /\ dispute[d].version < MaxEdits
  /\ ruling' = [ruling EXCEPT ![s] =
       [at |-> "book", dispute |-> d, order |-> dispute[d].order,
        refund |-> refund, role |-> role]]
  /\ UNCHANGED <<tradingVars, settlementVars, dispute, opening, evidence>>

Succeeded(o) == {p \in PayId : payment[p].status = "SUCCEEDED" /\ payment[p].order = o}

(* The refund is taken from the first payment that is still SUCCEEDED.     *)
Refunded(o, refund) ==
  [p \in PayId |->
     IF refund > 0 /\ p \in Succeeded(o) /\ \A q \in Succeeded(o) : p <= q
     THEN [payment[p] EXCEPT !.status = IF refund >= Total THEN "REFUNDED" ELSE "PARTIAL_REFUND"]
     ELSE payment[p]]

(* Mutant of Distributed: the share of the supplier forgets the refund.    *)
DistributedGross(o, refund) ==
  [DistributedTo(ledger[o], 0, CommissionOn(Total - refund)) EXCEPT !.refund = @ + refund]

(* The ruling takes the commission on what is not refunded.                *)
Distributed(o, refund) == DistributedTo(ledger[o], refund, CommissionOn(Total - refund))

(* The ruling and its journal; the status of the dispute is not read again.*)
RuleBook(s) ==
  LET f == ruling[s]
  IN /\ f.at = "book"
     /\ dispute' = Edited(f.dispute, "RESOLVED")
     /\ ledger' = [ledger EXCEPT ![f.order] = Distributed(f.order, f.refund)]
     /\ payment' = Refunded(f.order, f.refund)
     /\ ruling' = [ruling EXCEPT ![s].at = "advance"]
     /\ UNCHANGED <<tradingVars, charged, deliveries, transfers, onboarded,
                    checkout, hook, release, opening, evidence>>

(* The order follows: RESOLVED, and after a rejected dispute COMPLETED.    *)
RuleAdvance(s) ==
  LET f == ruling[s]
  IN /\ f.at = "advance"
     /\ Begin(s, f.order, "RESOLVED", {f.role}, IF f.refund = 0 THEN "COMPLETED" ELSE "none")
     /\ ruling' = [ruling EXCEPT ![s] = Idle]
     /\ UNCHANGED <<order, reservation, paid, paperwork, outbox>>
     /\ UNCHANGED <<settlementVars, dispute, opening, evidence>>

DisputesNext ==
  \/ \E p \in Parties :
       \/ \E o \in Orders, role \in {"BUYER", "SUPPLIER"} : OpenStart(p, o, role)
       \/ OpenCreate(p) \/ OpenAdvance(p)
  \/ \E e \in Witnesses : EvidenceWrite(e) \/ \E d \in DisputeId : EvidenceStart(e, d)
  \/ \E s \in Staff :
       \/ \E d \in DisputeId, refund \in Decisions, role \in StaffRoles :
            RuleStart(s, d, refund, role)
       \/ RuleBook(s) \/ RuleAdvance(s)
=============================================================================
