----------------------------- MODULE Quotation -----------------------------
(***************************************************************************)
(* rfq.service.ts: a buyer asks for quotes, suppliers submit them in       *)
(* rounds and the buyer accepts one, which places an order.  Submitting    *)
(* and accepting both decide on a status read before their transaction.    *)
(***************************************************************************)
EXTENDS Placement, StateMachines

CONSTANTS
  Rfqs,        \* requests for quotes
  Submitters,  \* submitQuote requests in progress at once
  Acceptors,   \* acceptQuote requests in progress at once
  MaxQuotes    \* bound: quotes written

ASSUME QuotationAssumption == IsFiniteSet(Acceptors) /\ MaxQuotes \in Nat

VARIABLES rfq, quotes, submitting, accepting

quotationVars == <<rfq, quotes, submitting, accepting>>

RfqTable ==
  { Edge("OPEN", "QUOTING", {"SUPPLIER", "SYSTEM"}, "none"),
    Edge("OPEN", "CANCELLED", {"BUYER", "ADMIN"}, "none"),
    Edge("QUOTING", "ACCEPTED", {"BUYER"}, "RfqAccepted"),
    Edge("QUOTING", "CANCELLED", {"BUYER", "ADMIN"}, "none"),
    Edge("OPEN", "EXPIRED", {"SYSTEM"}, "none"),
    Edge("QUOTING", "EXPIRED", {"SYSTEM"}, "none") }

(* EXPIRED and CANCELLED are in the table, but no operation writes them.   *)
RfqStatus == {"OPEN", "QUOTING", "ACCEPTED"}

NoRfq == [status |-> "none"]
RfqRow == [status : RfqStatus, due : BOOLEAN]
QuoteRow == [rfq : Rfqs, supplier : Suppliers, round : Nat \ {0}, valid : BOOLEAN,
             status : {"SUBMITTED", "ACCEPTED", "REJECTED"}]
SubmittingType ==
  [at : {"count", "write"}, rfq : Rfqs, supplier : Suppliers, seen : RfqStatus, round : Nat]
AcceptingType == [at : {"write"}, quote : Nat]

QuotationTypeOK ==
  /\ rfq \in [Rfqs -> RfqRow \cup {NoRfq}]
  /\ quotes \in Seq(QuoteRow)
  /\ submitting \in [Submitters -> SubmittingType \cup {Free}]
  /\ accepting \in [Acceptors -> AcceptingType \cup {Free}]

QuotationInit ==
  /\ rfq = [r \in Rfqs |-> NoRfq]
  /\ quotes = << >>
  /\ submitting = [w \in Submitters |-> Free]
  /\ accepting = [w \in Acceptors |-> Free]

CreateRfq(r) ==
  /\ rfq[r] = NoRfq
  /\ rfq' = [rfq EXCEPT ![r] = [status |-> "OPEN", due |-> FALSE]]
  /\ UNCHANGED <<quotes, submitting, accepting, placementVars>>

(* The deadline passes; no status tells.                                   *)
Deadline(r) ==
  /\ rfq[r] # NoRfq /\ ~rfq[r].due
  /\ rfq' = [rfq EXCEPT ![r].due = TRUE]
  /\ UNCHANGED <<quotes, submitting, accepting, placementVars>>

ValidityEnds(q) ==
  /\ quotes[q].valid
  /\ quotes' = [quotes EXCEPT ![q].valid = FALSE]
  /\ UNCHANGED <<rfq, submitting, accepting, placementVars>>

QuotesOf(r, s) == {q \in DOMAIN quotes : quotes[q].rfq = r /\ quotes[q].supplier = s}

(* submitQuote reads the RFQ, whose deadline it checks but not its status, *)
SubmitStart(w, r, s) ==
  /\ w \in team /\ submitting[w] = Free
  /\ rfq[r] # NoRfq /\ ~rfq[r].due
  /\ submitting' = [submitting EXCEPT ![w] =
       [at |-> "count", rfq |-> r, supplier |-> s, seen |-> rfq[r].status, round |-> 0]]
  /\ UNCHANGED <<rfq, quotes, accepting, placementVars>>

(* counts the quotes of the supplier to find the round,                    *)
SubmitCount(w) ==
  LET f == submitting[w]
  IN /\ f.at = "count"
     /\ submitting' = [submitting EXCEPT ![w].at = "write",
                         ![w].round = Cardinality(QuotesOf(f.rfq, f.supplier)) + 1]
     /\ UNCHANGED <<rfq, quotes, accepting, placementVars>>

(* unique (rfq, supplier, round)                                           *)
RoundTaken(f) == \E q \in QuotesOf(f.rfq, f.supplier) : quotes[q].round = f.round

(* and writes the quote, which moves an RFQ that was read OPEN to QUOTING, *)
(* by its id and whatever its status has become.                           *)
SubmitWrite(w) ==
  LET f == submitting[w]
  IN /\ f.at = "write"
     /\ Len(quotes) < MaxQuotes   \* bound
     /\ IF RoundTaken(f) THEN UNCHANGED <<rfq, quotes>>
        ELSE /\ quotes' = Append(quotes, [rfq |-> f.rfq, supplier |-> f.supplier,
                                          round |-> f.round, valid |-> TRUE,
                                          status |-> "SUBMITTED"])
             /\ rfq' = IF f.seen = "OPEN" THEN [rfq EXCEPT ![f.rfq].status = "QUOTING"] ELSE rfq
     /\ submitting' = [submitting EXCEPT ![w] = Free]
     /\ UNCHANGED <<accepting, placementVars>>

(* Mutant of Acceptable: the table is not asked.                           *)
AcceptableAlways(q) == quotes[q].valid

(* The quote is valid and its RFQ may be accepted; the status of the quote *)
(* is not looked at.                                                       *)
Acceptable(q) ==
  quotes[q].valid /\ Allowed(RfqTable, rfq[quotes[q].rfq].status, "ACCEPTED", {"BUYER"})

AcceptStart(w, q) ==
  /\ w \in team /\ accepting[w] = Free
  /\ Acceptable(q)
  /\ accepting' = [accepting EXCEPT ![w] = [at |-> "write", quote |-> q]]
  /\ UNCHANGED <<rfq, quotes, submitting, placementVars>>

(* The other quotes still SUBMITTED are rejected.                          *)
Accepted(q) ==
  [k \in DOMAIN quotes |->
     IF k = q THEN [quotes[k] EXCEPT !.status = "ACCEPTED"]
     ELSE IF quotes[k].rfq = quotes[q].rfq /\ quotes[k].status = "SUBMITTED"
          THEN [quotes[k] EXCEPT !.status = "REJECTED"] ELSE quotes[k]]

(* One transaction: the order with its hold, the quotes and the RFQ.       *)
AcceptWrite(w) ==
  LET q == accepting[w].quote
  IN /\ accepting[w].at = "write"
     /\ WriteOrder("RFQ", NoContract, q, quotes[q].supplier)
     /\ quotes' = Accepted(q)
     /\ rfq' = [rfq EXCEPT ![quotes[q].rfq].status = "ACCEPTED"]
     /\ accepting' = [accepting EXCEPT ![w] = Free]
     /\ UNCHANGED <<contract, cart, placing, team, submitting>>

(* Without stock the transaction rolls back.                               *)
AcceptFail(w) ==
  /\ accepting[w].at = "write"
  /\ available[quotes[accepting[w].quote].supplier] = 0
  /\ accepting' = [accepting EXCEPT ![w] = Free]
  /\ UNCHANGED <<rfq, quotes, submitting, placementVars>>

QuotationNext ==
  \/ \E r \in Rfqs : CreateRfq(r) \/ Deadline(r)
  \/ \E q \in DOMAIN quotes : ValidityEnds(q)
  \/ \E w \in Submitters :
       \/ \E r \in Rfqs, s \in Sellers : SubmitStart(w, r, s)
       \/ SubmitCount(w) \/ SubmitWrite(w)
  \/ \E w \in Acceptors :
       \/ \E q \in DOMAIN quotes : AcceptStart(w, q)
       \/ AcceptWrite(w) \/ AcceptFail(w)
=============================================================================
