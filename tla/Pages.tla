------------------------------- MODULE Pages -------------------------------
(***************************************************************************)
(* The pages of apps/web as tables: what each one reads, which buttons it  *)
(* draws from what it has read, and what the API asks of the row and makes *)
(* of it when a button is pressed.  The state the pages work on is one row *)
(* of every kind; "none" is a row that is absent from an answer.  The last *)
(* five kinds are no rows: they are what can be in a call's way, and their *)
(* "none" is the rule.                                                     *)
(***************************************************************************)
EXTENDS StateMachines, Integers, FiniteSets

Statuses ==
  [ cart |-> {"none", "some"},
    order |-> OrderStatus \cup {"none"},
    due |-> {"none", "BOTH", "DEPOSIT", "BALANCE", "PAID"},   \* unpaid instalments
    papers |-> {"none", "missing", "complete"},       \* shipment and documents
    window |-> {"open", "closed"},                    \* to open a dispute
    dispute |-> {"none", "OPEN", "INVESTIGATING", "RESOLVED"},
    rfq |-> {"none", "OPEN", "QUOTING", "ACCEPTED"},
    quote |-> {"none", "SUBMITTED", "ACCEPTED"},
    opportunity |-> {"none", "NEW", "CONTACTED", "NEGOTIATING", "WON", "LOST"},
    broker |-> {"none", "me", "other"},               \* who has claimed it
    product |-> {"none", "DRAFT", "PENDING_REVIEW", "ACTIVE"},
    skus |-> {"none", "some"},
    party |-> {"none", "PENDING", "ACTIVE", "INACTIVE"},
    draft |-> {"none", "MACHINE_DRAFT", "REVIEWED"},
    lot |-> {"none", "some"}, unit |-> {"none", "some"}, batch |-> {"none", "some"},
    contact |-> {"none", "some"}, certificate |-> {"none", "some"}, permit |-> {"none", "some"},
    rule |-> {"none", "some"}, mfa |-> {"off", "on"},
    deadline |-> {"none", "past"},                    \* of the RFQ
    validity |-> {"none", "past"},                    \* of the quote
    supply |-> {"none", "short", "unlisted"},         \* too little in stock, no such SKU on sale
    gateway |-> {"none", "live"},                     \* Stripe, instead of its double
    viewer |-> {"none", "finance", "staff"} ]         \* of an order, if not a party to it

Kinds == DOMAIN Statuses
Open == {"OPEN", "INVESTIGATING"}
Unpaid == {"BOTH", "DEPOSIT", "BALANCE"}
PAYABLE_STATES == {"PLACED", "PAID_ESCROW", "CONFIRMED", "PREPARING"}

From(to, roles) == {e.from : e \in {f \in OrderTable : f.to = to /\ f.roles \cap roles # {}}}

----------------------------------------------------------------------------
(* The API.  A handler accepts a call if the rows are in the statuses it   *)
(* needs, and gives them their next ones.                                  *)

Handler(call, needs, gives) == [call |-> call, needs |-> needs, gives |-> gives]
Over(f, g) == [k \in DOMAIN f \cup DOMAIN g |-> IF k \in DOMAIN f THEN f[k] ELSE g[k]]
Nothing == [k \in {} |-> "none"]

(* Mutant of Cancelled: cancelOrder without assertAllowed.                 *)
CancelledAnyhow == Handler("cancel", [order |-> Statuses.order], [order |-> "CANCELLED"])

Cancelled == Handler("cancel", [order |-> From("CANCELLED", {"BUYER"})], [order |-> "CANCELLED"])

(* checkout and the webhook that follows take the next instalment due, or  *)
(* the whole price if none is: also of an order paid by transfers alone.   *)
Settled(next) ==
  { Handler("pay", [order |-> {"PLACED"}, due |-> {next[1]}], [order |-> "PAID_ESCROW", due |-> next[2]]),
    Handler("pay", [order |-> PAYABLE_STATES \ {"PLACED"}, due |-> {next[1]}], [due |-> next[2]]) }
Paying ==
  Settled(<<"BOTH", "BALANCE">>) \cup Settled(<<"DEPOSIT", "PAID">>) \cup Settled(<<"BALANCE", "PAID">>)
    \cup {Handler("pay", [order |-> {"PLACED"}, due |-> {"none", "PAID"}], [order |-> "PAID_ESCROW"])}

(* The page of a buyer sends that webhook itself, unsigned.                *)
Simulating == {Handler("simulate", Over(h.needs, [gateway |-> {"none"}]), h.gives) : h \in Paying}

(* markPaid names an instalment: refused if that one is paid, and to the   *)
(* staff other than finance and administrators.                            *)
Booker == {"none", "finance"}
Marking ==
  { Handler("markDeposit", [due |-> {"BOTH"}, viewer |-> Booker], [due |-> "BALANCE"]),
    Handler("markDeposit", [due |-> {"DEPOSIT"}, viewer |-> Booker], [due |-> "PAID"]),
    Handler("markBalance", [due |-> {"BOTH"}, viewer |-> Booker], [due |-> "DEPOSIT"]),
    Handler("markBalance", [due |-> {"BALANCE"}, viewer |-> Booker], [due |-> "PAID"]) }

Moving ==
  { Cancelled,
    Handler("confirm", [order |-> From("CONFIRMED", {"SUPPLIER"})], [order |-> "CONFIRMED"]),
    Handler("ship", [order |-> From("SHIPPED", {"SUPPLIER"}), due |-> {"none", "PAID"}, papers |-> {"complete"}],
            [order |-> "SHIPPED"]),
    Handler("deliver", [order |-> From("DELIVERED", {"BUYER"})], [order |-> "DELIVERED", window |-> "open"]) }

(* Documents are registered without a check of the status, the shipment    *)
(* they go with until the goods have left.                                 *)
Papering ==
  {Handler("papers", [papers |-> {"missing", "complete"}, order |-> {"PAID_ESCROW", "CONFIRMED", "PREPARING"}],
           [papers |-> "complete"])}

Disputing ==
  { Handler("raise", [order |-> {"DELIVERED"}, window |-> {"open"}, dispute |-> {"none", "RESOLVED"},
                      viewer |-> {"none"}],
            [order |-> "DISPUTED", dispute |-> "OPEN"]),
    Handler("resolve", [dispute |-> Open, order |-> {"DISPUTED"}], [order |-> "COMPLETED", dispute |-> "RESOLVED"]) }

(* A call that places an order: the one of the row `order', or another.    *)
(* Its lines are on sale and reserved, or nothing is placed.               *)
Ordering(call, needs, gives) ==
  { Handler(call, Over([order |-> {"none"}, supply |-> {"none"}], needs), Over([order |-> "PLACED"], gives)),
    Handler(call, Over([order |-> OrderStatus, supply |-> {"none"}], needs), gives) }

(* Quotes are taken until the deadline, and accepted while they are valid. *)
Quoted == [quote |-> "SUBMITTED", validity |-> "none"]
Quoting ==
  { Handler("publish", [rfq |-> {"none"}], [rfq |-> "OPEN", deadline |-> "none"]),
    Handler("quote", [rfq |-> {"OPEN"}, deadline |-> {"none"}], Over([rfq |-> "QUOTING"], Quoted)),
    Handler("quote", [rfq |-> {"QUOTING", "ACCEPTED"}, deadline |-> {"none"}], Quoted),
    Handler("publish", [rfq |-> Statuses.rfq \ {"none"}], Nothing) }
  \cup Ordering("accept", [rfq |-> {"QUOTING"}, quote |-> Statuses.quote \ {"none"}, validity |-> {"none"}],
                [rfq |-> "ACCEPTED", quote |-> "ACCEPTED"])
  \cup Ordering("place", Nothing, [cart |-> "none"])

Brokering ==
  { Handler("claim", [broker |-> {"none", "me"}, opportunity |-> Statuses.opportunity \ {"none"}],
            [broker |-> "me"]),
    Handler("contacted", [opportunity |-> {"NEW"}], [opportunity |-> "CONTACTED"]),
    Handler("lost", [opportunity |-> {"NEW", "CONTACTED", "NEGOTIATING"}], [opportunity |-> "LOST"]) }
  \cup Ordering("orderFor", [opportunity |-> {"NEW", "CONTACTED"}], [opportunity |-> "NEGOTIATING"])
  \cup Ordering("orderFor", [opportunity |-> {"NEGOTIATING", "WON", "LOST"}], Nothing)

(* The reviews of the staff ask for no status, except by what they list.   *)
Cataloguing ==
  { Handler("create", [product |-> {"none"}], [product |-> "DRAFT"]),
    Handler("create", [product |-> Statuses.product \ {"none"}], Nothing),
    Handler("addSku", [product |-> Statuses.product \ {"none"}], [skus |-> "some"]),
    Handler("submit", [product |-> {"DRAFT"}], [product |-> "PENDING_REVIEW"]),
    Handler("edit", [product |-> {"ACTIVE"}], [product |-> "PENDING_REVIEW"]),
    Handler("edit", [product |-> {"DRAFT", "PENDING_REVIEW"}], Nothing) }

Reviewing ==
  { Handler("approveProduct", [product |-> Statuses.product \ {"none"}], [product |-> "ACTIVE"]),
    Handler("rejectProduct", [product |-> Statuses.product \ {"none"}], [product |-> "DRAFT"]),
    Handler("approveParty", [party |-> Statuses.party \ {"none"}], [party |-> "ACTIVE"]),
    Handler("rejectParty", [party |-> Statuses.party \ {"none"}], [party |-> "INACTIVE"]),
    Handler("review", [draft |-> Statuses.draft \ {"none"}], [draft |-> "REVIEWED"]) }

(* Rows that are only added and removed.                                   *)
Adding(call, k) == Handler(call, [j \in {k} |-> Statuses[k]], [j \in {k} |-> "some"])
Removing(call, k) == Handler(call, [j \in {k} |-> {"some"}], [j \in {k} |-> "none"])
Keeping ==
  { Handler("inbound", [supply |-> {"none", "short"}], [lot |-> "some", supply |-> "none"]),
    Handler("inbound", [supply |-> {"unlisted"}], [lot |-> "some"]),
    Adding("addUnit", "unit"), Adding("addBatch", "batch"),
    Adding("addContact", "contact"), Removing("removeContact", "contact"),
    Adding("addCertificate", "certificate"), Removing("removeCertificate", "certificate"),
    Adding("addPermit", "permit"), Adding("addRule", "rule"), Handler("deleteRule", Nothing, [rule |-> "none"]),
    Handler("enable", Nothing, [mfa |-> "on"]),      \* neither asks what there is
    Handler("disable", [mfa |-> {"on"}], [mfa |-> "off"]) }

API ==
  Paying \cup Simulating \cup Marking \cup Moving \cup Papering \cup Disputing \cup Quoting \cup Brokering
    \cup Cataloguing \cup Reviewing \cup Keeping

ApiCalls == {h.call : h \in API}
Meets(h, r) == \A k \in DOMAIN h.needs : r[k] \in h.needs[k]
Accepting(call, r) == {h \in API : h.call = call /\ Meets(h, r)}

(* What moves rows without a page: the sweeper, the API of the customs,    *)
(* the release of the escrow, time, registrations, rules and translations. *)
Elsewhere ==
  { Handler("sweep", [order |-> {"PLACED"}], [order |-> "CANCELLED"]),
    Handler("enterCustoms", [order |-> {"SHIPPED"}], [order |-> "IN_CUSTOMS"]),
    Handler("clear", [order |-> {"IN_CUSTOMS"}], [order |-> "CUSTOMS_CLEARED"]),
    Handler("release", [order |-> {"DELIVERED"}, dispute |-> {"none", "RESOLVED"}], [order |-> "COMPLETED"]),
    Handler("close", [window |-> {"open"}], [window |-> "closed"]),
    Handler("register", [party |-> {"none"}], [party |-> "PENDING"]),
    Handler("addToCart", Nothing, [cart |-> "some"]),
    Handler("match", [opportunity |-> {"none"}], [opportunity |-> "NEW"]),
    Handler("claimed", [broker |-> {"none"}], [broker |-> "other"]),
    Handler("translate", [draft |-> {"none"}], [draft |-> "MACHINE_DRAFT"]) }

(* What puts itself in the way: time, and other buyers.                    *)
Setbacks ==
  { Handler("missDeadline", [rfq |-> {"OPEN", "QUOTING"}], [deadline |-> "past"]),
    Handler("expire", [quote |-> {"SUBMITTED"}], [validity |-> "past"]),
    Handler("sellOut", [supply |-> {"none"}], [supply |-> "short"]),
    Handler("withdraw", [supply |-> {"none", "short"}], [supply |-> "unlisted"]) }
=============================================================================
