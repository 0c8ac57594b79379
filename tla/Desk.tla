-------------------------------- MODULE Desk --------------------------------
(***************************************************************************)
(* People at the pages of apps/web.  A page shows what it last read; `act' *)
(* sends the call of a button and reads the page again; a request may fail *)
(* or its answer be lost, and answers may overtake each other.  A handler  *)
(* of the API is one step here: its own races are in the other modules.    *)
(***************************************************************************)
EXTENDS Pages

CONSTANTS
  Desks,                \* [pages, rows, patient, presses]: what one behaviour is
                        \* about, and a bound of the buttons pressed in it
  MaxMoves, MaxFails    \* bounds

VARIABLES
  desk,       \* the member of Desks of this behaviour
  row,        \* the rows of the database
  shown,      \* what each page shows of them
  loads,      \* refreshes in flight
  acts,       \* calls in flight
  busy,       \* pages whose form is disabled until its call has been answered
  age,        \* history: changes of rows so far
  mine,       \* history: the age after the last change a page knows it made
  past,       \* history: what could be read so far
  spoilt,     \* history: pages whose answers failed or overtook each other
  forgot,     \* history: pages whose form went away during its call
  begun,      \* history: refreshes begun so far
  presses, moves, fails   \* counters of the bounds

pageVars == <<shown, loads, busy, mine, begun, spoilt, forgot>>
deskVars == <<desk, row, pageVars, acts, age, past, presses, moves, fails>>

(* The requests of the refresh of each page, and the kinds each answers.   *)
BuyerReads == {{"cart"}, {"order"}, {"rfq", "quote"}}
SupplierReads == {{"product", "skus"}, {"lot"}, {"order"}, {"rfq", "quote"}}
OrderReads == {{"order", "due", "window"}, {"papers"}}
PanelReads == {{"dispute"}}
DisputesReads == {{"dispute"}}
BrokerReads == {{"opportunity", "broker"}}
AdminReads == {{"party"}, {"product"}, {"draft"}}
TraceReads == {{"unit"}, {"batch"}}
ProfileReads == {{"contact"}, {"certificate"}, {"permit"}}
OpsReads == {{"rule"}}
AccountReads == {{"mfa"}}

Reads ==
  [ buyer |-> BuyerReads, supplier |-> SupplierReads, detail |-> OrderReads, ledger |-> OrderReads,
    panel |-> PanelReads, disputes |-> DisputesReads, broker |-> BrokerReads, admin |-> AdminReads,
    trace |-> TraceReads, profile |-> ProfileReads, ops |-> OpsReads, account |-> AccountReads ]

(* The rows that are listed at all; RFQs until their deadline.             *)
Lists ==
  [ supplier |-> [rfq |-> {"OPEN", "QUOTING"}],
    broker |-> [opportunity |-> {"NEW", "CONTACTED", "NEGOTIATING"}],
    admin |-> [party |-> {"PENDING"}, product |-> {"PENDING_REVIEW"}, draft |-> {"MACHINE_DRAFT"}] ]

Unlisted(p, k) ==
  \/ p \in DOMAIN Lists /\ k \in DOMAIN Lists[p] /\ row[k] \notin Lists[p][k]
  \/ p = "supplier" /\ k = "rfq" /\ row["deadline"] = "past"

Answer(p, k) == IF Unlisted(p, k) THEN "none" ELSE row[k]

----------------------------------------------------------------------------
(* The buttons                                                             *)

When(condition, calls) == IF condition THEN calls ELSE {}

(* The page of a buyer: cart, tenders, orders.                             *)
BuyerCart(s) == When(s["cart"] # "none", {"place"})
BuyerTenders(s) == {"publish"} \cup When(s["quote"] = "SUBMITTED" /\ s["rfq"] # "ACCEPTED", {"accept"})

(* Mutant of BuyerOrders: an order that is paid can still be cancelled.    *)
BuyerOrdersPaid(s) ==
  When(s["order"] \in {"PLACED", "PAID_ESCROW"}, {"simulate", "cancel"})
    \cup When(s["order"] = "SHIPPED", {"deliver"})

BuyerOrders(s) ==
  When(s["order"] = "PLACED", {"simulate", "cancel"}) \cup When(s["order"] = "SHIPPED", {"deliver"})

(* The page of a supplier: catalogue, lots, tenders, orders.               *)
SupplierProducts(s) ==
  When(s["product"] # "none", {"edit"}) \cup When(s["product"] = "DRAFT" /\ s["skus"] # "none", {"submit"})
SupplierForms(s) == {"create"} \cup When(s["product"] # "none", {"addSku"})
SupplierLots == {"inbound"}
SupplierTenders(s) == When(s["rfq"] # "none" /\ s["quote"] = "none", {"quote"})

(* Mutant of SupplierOrders: goods are shipped after a step of their own,  *)
(* PREPARING, that no button leads to.                                     *)
SupplierOrdersPreparing(s) ==
  When(s["order"] = "PAID_ESCROW", {"confirm"}) \cup When(s["order"] = "PREPARING", {"ship"})

SupplierOrders(s) == When(s["order"] = "PAID_ESCROW", {"confirm"}) \cup When(s["order"] = "CONFIRMED", {"ship"})

(* Its panel of the shipment and the documents.                            *)
FulfilPanel(s) == When(s["order"] = "CONFIRMED", {"papers"})

(* The page of an order, for its buyer, ...                                *)
Payment(s) ==
  When(s["due"] \in Unpaid /\ s["order"] \in PAYABLE_STATES, {"pay"})
    \cup When(s["due"] = "none" /\ s["order"] = "PLACED", {"pay"})
Receipt(s) == When(s["order"] \in {"SHIPPED", "CUSTOMS_CLEARED", "IN_CUSTOMS"}, {"deliver"})

(* ... and for the others.                                                 *)
LedgerButtons(s) ==
  When(s["due"] \in {"BOTH", "DEPOSIT"}, {"markDeposit"})
    \cup When(s["due"] \in {"BOTH", "BALANCE"}, {"markBalance"})

(* The panel takes the status of the order from the page around it.        *)
PanelButtons(s) ==
  When(s["order"] = "DELIVERED" /\ s["window"] = "open" /\ s["dispute"] \notin Open, {"raise"})

DisputesButtons(s) == When(s["dispute"] \in Open, {"resolve"})

BrokerButtons(s) ==
  When(s["opportunity"] # "none" /\ s["broker"] # "me", {"claim"})
    \cup When(s["opportunity"] # "none" /\ s["broker"] = "me", {"orderFor"})
    \cup When(s["opportunity"] = "NEW" /\ s["broker"] = "me", {"contacted"})
    \cup When(s["opportunity"] \notin {"none", "WON"} /\ s["broker"] = "me", {"lost"})

(* The lists of the administrators.                                        *)
AdminParties(s) == When(s["party"] # "none", {"approveParty", "rejectParty"})
AdminProducts(s) == When(s["product"] # "none", {"approveProduct", "rejectProduct"})
AdminDrafts(s) == When(s["draft"] # "none", {"review"})

TraceButtons == {"addUnit", "addBatch"}
ProfileContacts(s) == {"addContact"} \cup When(s["contact"] # "none", {"removeContact"})
ProfileCertificates(s) == {"addCertificate"} \cup When(s["certificate"] # "none", {"removeCertificate"})
ProfilePermits == {"addPermit"}
OpsButtons(s) == {"addRule"} \cup When(s["rule"] # "none", {"deleteRule"})
AccountButtons(s) == When(s["mfa"] = "off", {"enable"}) \cup When(s["mfa"] = "on", {"disable"})

BuyerButtons(s) == BuyerCart(s) \cup BuyerTenders(s) \cup BuyerOrders(s)
SupplierButtons(s) ==
  SupplierProducts(s) \cup SupplierForms(s) \cup SupplierLots \cup SupplierTenders(s)
    \cup SupplierOrders(s) \cup FulfilPanel(s)
DetailButtons(s) == Payment(s) \cup Receipt(s)
AdminButtons(s) == AdminParties(s) \cup AdminProducts(s) \cup AdminDrafts(s)
ProfileButtons(s) == ProfileContacts(s) \cup ProfileCertificates(s) \cup ProfilePermits

Buttons(p, s) ==
  CASE p = "buyer" -> BuyerButtons(s)       [] p = "supplier" -> SupplierButtons(s)
    [] p = "detail" -> DetailButtons(s)     [] p = "ledger" -> LedgerButtons(s)
    [] p = "panel" -> PanelButtons(s)       [] p = "disputes" -> DisputesButtons(s)
    [] p = "broker" -> BrokerButtons(s)     [] p = "admin" -> AdminButtons(s)
    [] p = "trace" -> TraceButtons          [] p = "profile" -> ProfileButtons(s)
    [] p = "ops" -> OpsButtons(s)           [] p = "account" -> AccountButtons(s)

(* A behaviour is about some kinds; requests and calls that concern others *)
(* are independent of it and left out.                                     *)
Concern == DOMAIN desk.rows
Requests(p) == {group \in Reads[p] : group \cap Concern # {}}
KindsOf(p) == UNION Requests(p)
Concerns(call) == \E h \in API : h.call = call /\ DOMAIN h.gives \cap Concern # {}

(* What the buttons of a page are drawn from, and what a page just loaded  *)
(* would draw them from; the panel looks at the page around it as well.    *)
SeenBy(p) == IF p = "panel" THEN {"panel", "detail"} ELSE {p}
Page(k, p) == CHOOSE q \in SeenBy(p) : k \in KindsOf(q)
On(p, k) == k \in UNION {KindsOf(q) : q \in SeenBy(p)}
Drawn(p) ==
  [k \in Kinds |-> IF On(p, k) /\ shown[Page(k, p)][k].at # "unread" THEN shown[Page(k, p)][k].at ELSE "none"]
Fresh(p) == [k \in Kinds |-> IF On(p, k) THEN Answer(p, k) ELSE "none"]

----------------------------------------------------------------------------
(* Refreshes                                                               *)

Unread == [at |-> "unread", as |-> 0]
Load(p, n, holds) == [page |-> p, n |-> n, got |-> Nothing, holds |-> holds]
Got(l) == DOMAIN l.got

(* The rows of a case agree with each other: an order is disputed while a  *)
(* dispute is open, and quotes are those of a request; no page leads to    *)
(* DRAFT, PREPARING, RESOLVED or WON.                                      *)
Sound(r) ==
  /\ \A k \in Kinds : r[k] \in Statuses[k] \cup {"none"}
  /\ r["order"] \notin {"DRAFT", "PREPARING", "RESOLVED"} /\ r["opportunity"] # "WON"
  /\ r["order"] = "DISPUTED" <=> r["dispute"] \in Open
  /\ r["quote"] = "none" <=> r["rfq"] \in {"none", "OPEN"}
  /\ r["quote"] = "ACCEPTED" => r["rfq"] = "ACCEPTED"

(* Where everybody waits, all who take part in the case have their pages.  *)
Parts ==
  [ order |-> {"supplier", "detail"}, dispute |-> {"disputes"}, rfq |-> {"buyer", "supplier"},
    product |-> {"supplier", "admin"}, opportunity |-> {"broker"}, party |-> {"admin"},
    draft |-> {"admin"} ]
Staffed(pages, kinds) ==
  /\ \A k \in kinds \cap DOMAIN Parts : Parts[k] \subseteq pages
  /\ "order" \in kinds => "papers" \in kinds
  /\ "panel" \in pages => "dispute" \in kinds

Start(d) == Over(d.rows, [k \in Kinds |-> "none"])

ASSUME DeskAssumption ==
  /\ {MaxMoves, MaxFails} \subseteq Nat
  /\ \A d \in Desks :
       /\ d.pages \subseteq DOMAIN Reads /\ d.patient \in BOOLEAN /\ d.presses \in Nat
       /\ DOMAIN d.rows \subseteq Kinds /\ Sound(Start(d))
       /\ "papers" \in DOMAIN d.rows => d.rows["papers"] # "none"
       /\ "panel" \in d.pages => "detail" \in d.pages
       /\ d.patient => Staffed(d.pages, DOMAIN d.rows)

Queues == {"admin", "ops", "disputes"}
Readable == UNION {{<<p, k, Answer(p, k)>> : k \in KindsOf(p)} : p \in desk.pages \cap Queues}

DeskInit ==
  /\ desk \in Desks
  /\ row = Start(desk)
  /\ shown = [p \in desk.pages |-> [k \in KindsOf(p) |-> Unread]]
  /\ loads = IF desk.patient THEN {} ELSE {Load(p, 0, FALSE) : p \in desk.pages}
  /\ acts = {} /\ busy = {} /\ spoilt = {} /\ forgot = {}
  /\ age = 0 /\ begun = 0 /\ mine = [p \in desk.pages |-> 0]
  /\ past = Readable
  /\ presses = 0 /\ moves = 0 /\ fails = 0

(* Pages that draw the first answer before they have the others.           *)
Progressive == {"detail", "ledger", "broker", "trace"}

Draw(l, got) == [shown EXCEPT ![l.page] = Over(got, @)]

(* The checkout is drawn while the order is payable; when it goes, it      *)
(* forgets that its call is in flight.  The other forms stay.              *)
Mounted(p) == p = "detail" => "pay" \in Payment(Drawn(p))
Redraw(disabled) ==
  /\ busy' = {p \in disabled : Mounted(p)'}
  /\ forgot' = forgot \cup (disabled \ busy')
Released(l) == IF l.holds THEN busy \ {l.page} ELSE busy

(* A request of the refresh is answered, or ...                            *)
LoadReads(l, group) ==
  LET got == Over([k \in group |-> [at |-> Answer(l.page, k), as |-> age]], l.got) IN
  /\ group \in Requests(l.page) /\ group \cap Got(l) = {}
  /\ l.page \in {"detail", "ledger"} /\ group = {"papers"} => Got(l) # {}   \* the order first
  /\ loads' = (loads \ {l}) \cup {[l EXCEPT !.got = got]}
  /\ shown' = IF l.page \in Progressive THEN Draw(l, got) ELSE shown
  /\ Redraw(busy) /\ spoilt' = spoilt

(* ... fails.  A page either gives the refresh up and keeps what it shows, *)
(* or takes the failure for an empty answer.                               *)
Keeps(p, group) ==
  \/ p \in {"admin", "ops", "account"}
  \/ p \in {"detail", "ledger"} /\ "order" \in group

Blank(group) == [k \in group |-> [at |-> "none", as |-> 0]]

LoadFails(l, group) ==
  /\ group \in Requests(l.page) /\ group \cap Got(l) = {}
  /\ l.page \in {"detail", "ledger"} /\ group = {"papers"} => Got(l) # {}
  /\ spoilt' = spoilt \cup {l.page}
  /\ IF Keeps(l.page, group)
       THEN /\ loads' = loads \ {l} /\ busy' = Released(l)
            /\ UNCHANGED <<shown, forgot>>
       ELSE /\ loads' = (loads \ {l}) \cup {[l EXCEPT !.got = Over(Blank(group), @)]}
            /\ shown' = IF l.page \in Progressive THEN Draw(l, Blank(group)) ELSE shown
            /\ Redraw(busy)

(* All are answered: the page draws them, even if a later refresh has been *)
(* drawn already.                                                          *)
LoadEnds(l) ==
  /\ Got(l) = KindsOf(l.page)
  /\ shown' = Draw(l, l.got) /\ loads' = loads \ {l}
  /\ Redraw(Released(l))
  /\ spoilt' = IF \E m \in loads : m.page = l.page /\ m.n < l.n THEN spoilt \cup {l.page} ELSE spoilt

Refresh ==
  /\ UNCHANGED <<desk, row, acts, mine, begun, age, past, presses, moves>>
  /\ \E l \in loads :
       \/ \E group \in Requests(l.page) : LoadReads(l, group) /\ fails' = fails
       \/ \E group \in Requests(l.page) : LoadFails(l, group) /\ fails < MaxFails /\ fails' = fails + 1
       \/ LoadEnds(l) /\ fails' = fails

----------------------------------------------------------------------------
(* Buttons pressed                                                         *)

(* Forms that are disabled while their call is in flight.                  *)
Guarded(p) == p \in {"panel", "account"}
Disabling(p, call) == Guarded(p) \/ (p = "detail" /\ call = "pay")

Press(p, call) ==
  /\ presses < desk.presses /\ presses' = presses + 1   \* bound
  /\ Concerns(call) /\ call \in Buttons(p, Drawn(p)) /\ ~(Disabling(p, call) /\ p \in busy)
  /\ acts' = acts \cup {[page |-> p, call |-> call, n |-> presses', seen |-> Drawn(p)]}
  /\ busy' = IF Disabling(p, call) THEN busy \cup {p} ELSE busy
  /\ UNCHANGED <<desk, row, shown, loads, age, mine, begun, past, spoilt, forgot, moves, fails>>

Moved(gives) ==
  /\ row' = Over(gives, row) /\ age' = age + 1
  /\ past' = past \cup Readable'

(* The refreshes that follow an answer; the panel waits for its own before *)
(* it is enabled again, the checkout does not.                             *)
After(a) ==
  CASE a.page = "panel" -> {Load("panel", begun + 1, TRUE), Load("detail", begun + 1, FALSE)}
    [] a.page = "account" -> {}
    [] OTHER -> {Load(a.page, begun + 1, FALSE)}

Follow(a) == loads' = loads \cup After(a) /\ begun' = begun + 1

(* Mutant of Finally: the panel is enabled again by success only.          *)
FinallyOfSuccess(a) == IF a.page = "panel" THEN busy ELSE busy \ {a.page}

(* A form is enabled again by the answer to its call.                      *)
Finally(a) == IF Disabling(a.page, a.call) THEN busy \ {a.page} ELSE busy

Enabled(a) == IF \E l \in After(a) : l.holds THEN busy ELSE Finally(a)

(* The call is carried out and its answer arrives; the forms of the        *)
(* account show the result without reading it.                             *)
Served(a, h) ==
  /\ Moved(h.gives) /\ Follow(a)
  /\ shown' = IF a.page = "account"
       THEN [shown EXCEPT !["account"] = Over([k \in {"mfa"} |-> [at |-> row'[k], as |-> age']], @)]
       ELSE shown
  /\ mine' = [mine EXCEPT ![a.page] = age'] /\ busy' = Enabled(a)
  /\ UNCHANGED <<spoilt, forgot, fails>>

(* It is carried out and the answer is lost: the page shows an error and   *)
(* reads nothing; only deleteRule ignores errors and reads the rules.      *)
AnswerLost(a, h) ==
  /\ fails < MaxFails /\ fails' = fails + 1   \* bound
  /\ Moved(h.gives) /\ busy' = Finally(a)
  /\ IF a.call = "deleteRule" THEN Follow(a) ELSE UNCHANGED <<loads, begun>>
  /\ UNCHANGED <<shown, mine, spoilt, forgot>>

(* It is refused: the page shows why and reads nothing either.             *)
Refused(a) ==
  /\ Accepting(a.call, row) = {}
  /\ busy' = Finally(a)
  /\ UNCHANGED <<row, shown, loads, begun, age, mine, past, spoilt, forgot, fails>>

Serve(a) ==
  /\ UNCHANGED <<desk, presses, moves>>
  /\ acts' = acts \ {a}
  /\ \/ \E h \in Accepting(a.call, row) : Served(a, h) \/ AnswerLost(a, h)
     \/ Refused(a)

(* Somebody at a page just loaded, who waits for every answer.             *)
Work(p, call) ==
  /\ desk.patient /\ Concerns(call) /\ call \in Buttons(p, Fresh(p))
  /\ \E h \in Accepting(call, row) : row' = Over(h.gives, row)
  /\ UNCHANGED <<desk, pageVars, acts, age, past, presses, moves, fails>>

(* Everybody and everything else.                                          *)
Pass ==
  /\ UNCHANGED <<desk, pageVars, acts, presses, fails>>
  /\ \E h \in Elsewhere \cup Setbacks :
       /\ Meets(h, row)
       /\ DOMAIN h.gives \subseteq Concern
       /\ IF desk.patient THEN row' = Over(h.gives, row) /\ UNCHANGED <<age, past, moves>>
          ELSE Moved(h.gives) /\ moves < MaxMoves /\ moves' = moves + 1   \* bound

DeskNext ==
  \/ Refresh \/ Pass
  \/ \E a \in acts : Serve(a)
  \/ \E p \in desk.pages, call \in ApiCalls : Work(p, call) \/ (~desk.patient /\ Press(p, call))

DeskSpec == DeskInit /\ [][DeskNext]_deskVars

(* Every request is answered or fails.                                     *)
FairSpec == DeskSpec /\ WF_deskVars(Refresh) /\ WF_deskVars(\E a \in acts : Serve(a))

----------------------------------------------------------------------------
(* Properties                                                              *)

DeskTypeOK ==
  /\ desk \in Desks
  /\ \A k \in Kinds : row[k] \in Statuses[k] \cup {"none"}
  /\ \A p \in desk.pages, k \in Kinds :
       k \in DOMAIN shown[p] => /\ shown[p][k].at \in Statuses[k] \cup {"none", "unread"}
                              /\ shown[p][k].as \in 0..age
  /\ \A l \in loads : l.page \in desk.pages /\ Got(l) \subseteq KindsOf(l.page)
  /\ \A a \in acts : a.page \in desk.pages /\ a.call \in ApiCalls
  /\ busy \subseteq desk.pages /\ spoilt \subseteq desk.pages /\ forgot \subseteq desk.pages

(* A page that has just been loaded draws no button whose call the API     *)
(* refuses, but for these: receipt of goods that are in customs; shipping  *)
(* before instalments and papers; claims of what another broker has;       *)
(* acceptance of a quote that has expired; orders for what is not on sale  *)
(* or in stock any more; the payment that only the double of Stripe takes; *)
(* and what an order shows to the staff as to its parties, disputes and    *)
(* transfers.                                                              *)
KnownRefusal(call) ==
  \/ call = "deliver" /\ row["order"] = "IN_CUSTOMS"
  \/ call = "ship" /\ (row["due"] \in Unpaid \/ row["papers"] # "complete")
  \/ call = "claim" /\ row["broker"] = "other"
  \/ call = "accept" /\ row["validity"] = "past"
  \/ call \in {"accept", "place", "orderFor"} /\ row["supply"] # "none"
  \/ call = "simulate" /\ row["gateway"] = "live"
  \/ call = "raise" /\ row["viewer"] # "none"
  \/ call \in {"markDeposit", "markBalance"} /\ row["viewer"] = "staff"

ButtonsWork ==
  \A p \in desk.pages : \A call \in {c \in Buttons(p, Fresh(p)) : Concerns(c)} :
    Accepting(call, row) # {} \/ KnownRefusal(call)

(* Whoever works at the pages, and with what happens elsewhere, a case is  *)
(* never left where no button and no job moves it on: an order with its    *)
(* instalments and papers, a dispute, a tender, a product with its SKUs, a *)
(* lead with its broker, a party, a translation.  But a tender is: nobody  *)
(* closes one whose deadline passes without a quote, no button renews a    *)
(* quote that expires, and a SKU taken off sale is the case of a product.  *)
Final == [ order |-> {"COMPLETED", "CANCELLED", "none"}, dispute |-> {"RESOLVED", "none"},
           rfq |-> {"ACCEPTED"}, product |-> {"ACTIVE"}, opportunity |-> {"LOST"},
           party |-> {"ACTIVE", "INACTIVE"}, draft |-> {"REVIEWED"} ]
CaseOf(k) == {k} \cup CASE k = "order" -> {"due", "papers"} [] k = "product" -> {"skus"}
                         [] k = "opportunity" -> {"broker"} [] k = "rfq" -> {"supply"} [] OTHER -> {}

KnownStranded(k) ==
  \/ k = "opportunity" /\ row["broker"] = "other"   \* at the page of another broker
  \/ k = "rfq" /\ row["rfq"] = "OPEN" /\ row["deadline"] = "past"
  \/ k = "rfq" /\ row["rfq"] = "QUOTING" /\ (row["validity"] = "past" \/ row["supply"] = "unlisted")

Advances(h, k) == Meets(h, row) /\ \E j \in DOMAIN h.gives \cap CaseOf(k) : h.gives[j] # row[j]
Offered == UNION {Buttons(p, Fresh(p)) : p \in desk.pages}

NeverStranded ==
  desk.patient =>
    \A k \in DOMAIN Final \cap Concern :
      \/ row[k] \in Final[k]
      \/ KnownStranded(k)
      \/ \E h \in Elsewhere : Advances(h, k)
      \/ \E h \in API : h.call \in Offered /\ Advances(h, k)

(* The lists of the administrators never show what was not so: a request   *)
(* that fails leaves the list it was for (page.tsx:64: an error is not to  *)
(* be disguised as an empty list).  The list of the disputes does just     *)
(* that, and nothing worse.                                                *)
QueuesAreTrue ==
  \A p \in desk.pages \cap Queues : \A k \in KindsOf(p) :
    \/ shown[p][k].at = "unread" \/ <<p, k, shown[p][k].at>> \in past
    \/ p = "disputes" /\ p \in spoilt /\ shown[p][k].at = "none"

(* When its requests are answered, a page shows at least what it did       *)
(* itself, unless answers failed or overtook each other.                   *)
OwnActShown ==
  \A p \in desk.pages :
    \/ p \in spoilt
    \/ \E l \in loads : l.page = p
    \/ \A k \in KindsOf(p) : shown[p][k].as >= mine[p] \/ shown[p][k].at = "unread"

(* A call that is accepted in one status of a row only takes effect on     *)
(* what its presser saw: if the row has changed since, it is refused.  Not *)
(* so deliver and lost, which several statuses accept, and the rest.       *)
Deciding ==
  [ cancel |-> {"order"}, confirm |-> {"order"}, ship |-> {"order"}, accept |-> {"rfq"},
    raise |-> {"order"}, submit |-> {"product"}, contacted |-> {"opportunity"} ]

StaleIsRefused ==
  [][\A a \in acts \ acts' :
       a.call \in DOMAIN Deciding /\ age' # age
         => \A k \in Deciding[a.call] : a.seen[k] = row[k]]_deskVars

(* The forms of payments, disputes and the account send no call while the  *)
(* same call of theirs is in flight, unless the form went away meanwhile   *)
(* and came back.                                                          *)
Forms == {"panel", "detail", "account"}

OneSubmission ==
  \A a, b \in acts :
    a.page = b.page /\ a.page \in Forms \ forgot /\ a.call = b.call /\ a.call # "deliver" => a = b

(* A disabled form is enabled again, whether its call succeeds, is refused *)
(* or loses its answer.                                                    *)
FormsComeBack == \A p \in Forms : p \in busy ~> p \notin busy

(* What a page shows is no trap: it was so, it has what its user did, and  *)
(* an act on what is no longer so is refused.                              *)
PagesAreTrue == [](DeskTypeOK /\ QueuesAreTrue /\ OwnActShown) /\ StaleIsRefused

(* A form sends one call at a time and comes back after it.                *)
FormsHold == []OneSubmission /\ FormsComeBack
=============================================================================
