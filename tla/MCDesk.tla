------------------------------- MODULE MCDesk -------------------------------
(***************************************************************************)
(* Instances of Desk for TLC: what each behaviour is about.                *)
(***************************************************************************)
EXTENDS Desk, TLC

Waiting(pages, rows) == [pages |-> pages, rows |-> rows, patient |-> TRUE, presses |-> 0]
Rushing(pages, rows) == [pages |-> pages, rows |-> rows, patient |-> FALSE, presses |-> 2]

Placed(due) == "order" :> "PLACED" @@ "due" :> due @@ "papers" :> "missing"
                 @@ "window" :> "closed" @@ "dispute" :> "none"
Delivered == "order" :> "DELIVERED" @@ "due" :> "none" @@ "window" :> "open" @@ "dispute" :> "none"
Tender == "cart" :> "some" @@ "rfq" :> "none" @@ "quote" :> "none" @@ "deadline" :> "none"
            @@ "validity" :> "none" @@ "supply" :> "none" @@ "order" :> "none" @@ "papers" :> "missing"
Lead == "opportunity" :> "NEW" @@ "broker" :> "none" @@ "supply" :> "none"
Through(gateway, viewer) == "gateway" :> gateway @@ "viewer" :> viewer
Queue == "product" :> "PENDING_REVIEW" @@ "party" :> "PENDING" @@ "draft" :> "MACHINE_DRAFT"
Catalogue == "product" :> "none" @@ "skus" :> "none"
Filing == [k \in {"lot", "unit", "batch", "contact", "certificate", "permit", "rule"} |-> "none"]

(* Everybody waits: the whole of a trade, a tender, a lead, a catalogue,   *)
(* the lists.                                                              *)
Patient ==
  {Waiting({"buyer", "supplier", "detail", "ledger", "panel", "disputes"}, Placed(due) @@ way) :
     due \in {"none", "BOTH"},
     way \in {Through("none", "none"), Through("live", "finance"), Through("none", "staff")}}
    \cup {Waiting({"buyer", "supplier", "detail"}, Tender), Waiting({"broker"}, Lead),
          Waiting({"supplier", "admin"}, Queue @@ Catalogue),
          Waiting({"supplier", "trace", "profile", "ops"}, Filing)}

(* Nobody waits: two pages on the same rows, a checkout pressed thrice.    *)
Hasty ==
  {Rushing({"buyer"}, "order" :> "PLACED" @@ "cart" :> "some"),
   Rushing({"detail", "ledger"}, "order" :> "PLACED" @@ "due" :> "BOTH"),
   Rushing({"buyer", "supplier"}, "order" :> "PLACED" @@ "papers" :> "missing"),
   Rushing({"detail", "panel"}, Delivered),
   Rushing({"disputes"}, "order" :> "DISPUTED" @@ "dispute" :> "OPEN"),
   Rushing({"admin"}, Queue), Rushing({"supplier"}, Catalogue),
   Rushing({"broker"}, Lead), Rushing({"ops", "account"}, "rule" :> "some" @@ "mfa" :> "off"),
   Rushing({"trace"}, Filing),
   Rushing({"buyer"}, "rfq" :> "QUOTING" @@ "quote" :> "SUBMITTED" @@ "validity" :> "none"),
   [Rushing({"detail"}, "order" :> "PLACED" @@ "papers" :> "missing") EXCEPT !.presses = 3]}

Everything == Patient \cup Hasty
=============================================================================
