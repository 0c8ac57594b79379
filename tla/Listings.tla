------------------------------ MODULE Listings ------------------------------
(***************************************************************************)
(* catalog.service.ts, translation.service.ts, traceability.service.ts:    *)
(* products, their review, the translations drafted when one is published, *)
(* and where the goods come from.  The texts of a product are numbered,    *)
(* all of what updateProduct may change together; SKUs, prices and         *)
(* photographs, which no review covers, are left out.                      *)
(***************************************************************************)
EXTENDS Outbox

CONSTANTS
  Products,         \* numbers
  Editors, EditorOf,   \* requests of the supplier of a product
  Reviewers,        \* staff reviewing products
  Translators,      \* staff reviewing translations
  Locales,          \* languages other than that of the source
  MaxTexts          \* bound

ASSUME ListingsAssumption ==
  /\ Products \subseteq Nat /\ EditorOf \in [Editors -> Products]
  /\ MaxTexts \in Nat \ {0}

VARIABLES
  product,      \* rows of Product
  editing,      \* the handlers of the supplier
  reviewing,    \* what a reviewer looks at
  approved,     \* history: the text that was looked at when it was approved
  translation,  \* rows of EntityTranslation
  drafting      \* what the listener of ProductPublished has left to do

catalogVars == <<product, editing, reviewing, approved>>
translationVars == <<translation, drafting>>

ProductStatus == {"none", "DRAFT", "PENDING_REVIEW", "ACTIVE"}
NoRow == [status |-> "none", text |-> 0]

ListingsTypeOK ==
  /\ product \in [Products -> [status : ProductStatus, text : 0..MaxTexts]]
  /\ editing \in [Editors -> {Free} \cup [at : {"update", "submit"}, status : ProductStatus]]
  /\ reviewing \in [Reviewers -> {Free} \cup [at : {"decide"}, product : Products, text : 0..MaxTexts]]
  /\ approved \in [Products -> 0..MaxTexts]
  /\ translation \in [Products \X Locales ->
       [status : {"none", "MACHINE_DRAFT", "REVIEWED"}, text : 0..MaxTexts]]
  /\ drafting \in [Ticks -> {Free} \cup
       [at : {"look", "llm"}, text : 0..MaxTexts, left : SUBSET Locales, into : Locales]]

ListingsInit ==
  /\ product = [p \in Products |-> [status |-> "none", text |-> 0]]
  /\ editing = [e \in Editors |-> Free]
  /\ reviewing = [c \in Reviewers |-> Free]
  /\ approved = [p \in Products |-> 0]
  /\ translation = [row \in Products \X Locales |-> NoRow]
  /\ drafting = [t \in Ticks |-> Free]

----------------------------------------------------------------------------
(* The catalog                                                             *)

Edits(e, next) == editing' = [editing EXCEPT ![e] = next]
Looked(c, next) == reviewing' = [reviewing EXCEPT ![c] = next]
Uncrossed(handlers) == "cross" \in team \/ handlers = {}   \* bound

CreateProduct(e) ==
  /\ e \in team /\ product[EditorOf[e]].status = "none"
  /\ product' = [product EXCEPT ![EditorOf[e]] = [status |-> "DRAFT", text |-> 1]]
  /\ UNCHANGED <<outboxVars, editing, reviewing, approved>>

(* updateProduct and submitForReview read the status ...                   *)
EditStart(e) ==
  LET p == EditorOf[e] IN
  /\ e \in team /\ editing[e] = Free
  /\ Uncrossed({c \in Reviewers : reviewing[c] # Free})
  /\ \/ /\ product[p].status # "none" /\ product[p].text < MaxTexts   \* bound
        /\ Edits(e, [at |-> "update", status |-> product[p].status])
     \/ /\ product[p].status = "DRAFT"
        /\ Edits(e, [at |-> "submit", status |-> "DRAFT"])
  /\ UNCHANGED <<outboxVars, product, reviewing, approved>>

NeedsReview(status) == status = "ACTIVE"

(* ... and write after it, whatever it is by then.                         *)
EditWrite(e) ==
  LET p == EditorOf[e] IN
  /\ editing[e].at = "update" /\ product[p].text < MaxTexts   \* bound
  /\ product' = [product EXCEPT ![p] =
       [text |-> @.text + 1,
        status |-> IF NeedsReview(editing[e].status) THEN "PENDING_REVIEW" ELSE @.status]]
  /\ Edits(e, Free)
  /\ UNCHANGED <<outboxVars, reviewing, approved>>

SubmitWrite(e) ==
  /\ editing[e].at = "submit"
  /\ product' = [product EXCEPT ![EditorOf[e]].status = "PENDING_REVIEW"]
  /\ Edits(e, Free)
  /\ UNCHANGED <<outboxVars, reviewing, approved>>

(* A reviewer opens a product of the queue, listPendingReview, ...         *)
ReviewLook(c) ==
  /\ c \in team /\ reviewing[c] = Free
  /\ Uncrossed({e \in Editors : editing[e] # Free})
  /\ \E p \in Products :
       /\ product[p].status = "PENDING_REVIEW"
       /\ Looked(c, [at |-> "decide", product |-> p, text |-> product[p].text])
  /\ UNCHANGED <<outboxVars, product, editing, approved>>

(* ... and decides; review asks neither for the status nor for the text.   *)
ReviewApprove(c) ==
  LET p == reviewing[c].product IN
  /\ reviewing[c].at = "decide"
  /\ product' = [product EXCEPT ![p].status = "ACTIVE"]
  /\ approved' = [approved EXCEPT ![p] = reviewing[c].text]
  /\ Emit("ProductPublished", p)
  /\ Looked(c, Free)
  /\ UNCHANGED editing

ReviewReject(c) ==
  /\ reviewing[c].at = "decide"
  /\ product' = [product EXCEPT ![reviewing[c].product].status = "DRAFT"]
  /\ Looked(c, Free)
  /\ UNCHANGED <<outboxVars, editing, approved>>

CatalogNext ==
  \/ \E e \in Editors : CreateProduct(e) \/ EditStart(e) \/ EditWrite(e) \/ SubmitWrite(e)
  \/ \E c \in Reviewers : ReviewLook(c) \/ ReviewApprove(c) \/ ReviewReject(c)

----------------------------------------------------------------------------
(* Translations                                                            *)

Drafts(t, next) == drafting' = [drafting EXCEPT ![t] = next]

(* onProductPublished reads the product, ...                               *)
OnProductPublished(t) ==
  /\ Hears(t, "ProductPublished")
  /\ \E l \in Locales :
       Drafts(t, [at |-> "look", text |-> product[Current(t).about].text, left |-> Locales, into |-> l])
  /\ UNCHANGED translation

Drafting(t, at) ==
  /\ dispatch[t].at = "listen" /\ Current(t).type = "ProductPublished"
  /\ drafting[t].at = at

(* ... skips a language that has a row, ...                                *)
LookForExisting(t) ==
  /\ Drafting(t, "look")
  /\ \E l \in drafting[t].left :
       Drafts(t, [text |-> drafting[t].text, left |-> drafting[t].left \ {l}, into |-> l,
                  at |-> IF translation[<<Current(t).about, l>>] = NoRow THEN "llm" ELSE "look"])
  /\ UNCHANGED <<outboxVars, translation>>

(* ... asks the model, which may have no answer, and stores a draft.       *)
StoreDraft(t) ==
  /\ Drafting(t, "llm")
  /\ \/ UNCHANGED translation
     \/ translation' = [translation EXCEPT ![<<Current(t).about, drafting[t].into>>] =
          [status |-> "MACHINE_DRAFT", text |-> drafting[t].text]]
  /\ Drafts(t, [drafting[t] EXCEPT !.at = "look"])
  /\ UNCHANGED outboxVars

Drafted(t) ==
  /\ Drafting(t, "look") /\ drafting[t].left = {}
  /\ Goes(t, "mark") /\ Drafts(t, Free)
  /\ UNCHANGED <<events, running, fails, translation>>

(* review of a draft, or once more of what was reviewed.                   *)
ReviewTranslation(r) ==
  /\ r \in team
  /\ \E row \in DOMAIN translation :
       /\ translation[row] # NoRow
       /\ translation' = [translation EXCEPT ![row].status = "REVIEWED"]
  /\ UNCHANGED <<outboxVars, drafting>>

TranslationNext ==
  \/ \E t \in Ticks :
       OnProductPublished(t) \/ LookForExisting(t) \/ StoreDraft(t) \/ Drafted(t)
  \/ \E r \in Translators : ReviewTranslation(r)

----------------------------------------------------------------------------
(* traceability.service.ts: care of a source batch, the processing that    *)
(* waits for the end of a medication, quality control, and the lots that   *)
(* inventory.service.ts links to a processing batch.  The units above a    *)
(* batch only answer who owns it.  The clock counts days.                  *)

CONSTANTS
  Nurses,       \* requests to record care
  Butchers,     \* requests to process the batch
  Inspectors,   \* staff deciding on quality
  Stockers,     \* requests to take a batch into stock
  MaxCare, MaxBatches, MaxLots   \* bounds

ASSUME TracingAssumption == {MaxCare, MaxBatches, MaxLots} \subseteq Nat

VARIABLES
  care,         \* withdrawalUntil of the medications of the source batch
  processing,   \* the handlers of createProcessingBatch
  batches,      \* rows of ProcessingBatch: qcStatus, the day, and as a history
                \* the last withdrawal that was on record
  stocking,     \* the handlers of inbound
  lots          \* the batches of the lots in stock

tracingVars == <<care, processing, batches, stocking, lots>>

QcStatus == {"IN_PROGRESS", "QC_PASS", "QC_FAIL"}

TracingTypeOK ==
  /\ care \in Seq(0..MaxClock + 1) /\ Len(care) <= MaxCare
  /\ processing \in [Butchers -> {"free", "create"}]
  /\ batches \in Seq([qc : QcStatus, day : 0..MaxClock, until : 0..MaxClock + 1])
  /\ stocking \in [Stockers -> 0..Len(batches)]
  /\ lots \in Seq(DOMAIN batches)

TracingInit ==
  /\ care = <<>>
  /\ processing = [w \in Butchers |-> "free"]
  /\ batches = <<>>
  /\ stocking = [s \in Stockers |-> 0]
  /\ lots = <<>>

----------------------------------------------------------------------------

(* addCareRecord of a medication, which must name its withdrawal.          *)
AddCareRecord(n) ==
  /\ n \in team /\ Len(care) < MaxCare   \* bound
  /\ "cross" \in team \/ \A w \in Butchers : processing[w] = "free"   \* bound
  /\ \E until \in 0..MaxClock + 1 : care' = Append(care, until)
  /\ UNCHANGED <<processing, batches, stocking, lots>>

(* Mutant of ActiveWithdrawal: only the newest record is asked.            *)
ActiveWithdrawalLast == care # <<>> /\ Last(care) > clock

ActiveWithdrawal == \E i \in DOMAIN care : care[i] > clock

ProcessCheck(w) ==
  /\ w \in team /\ processing[w] = "free" /\ Len(batches) < MaxBatches   \* bound
  /\ ~ActiveWithdrawal
  /\ processing' = [processing EXCEPT ![w] = "create"]
  /\ UNCHANGED <<care, batches, stocking, lots>>

ProcessCreate(w) ==
  /\ processing[w] = "create" /\ Len(batches) < MaxBatches   \* bound
  /\ batches' = Append(batches,
       [qc |-> "IN_PROGRESS", day |-> clock, until |-> Max({0} \cup Range(care))])
  /\ processing' = [processing EXCEPT ![w] = "free"]
  /\ UNCHANGED <<care, stocking, lots>>

(* setQc, at any time and as often as wanted.                              *)
SetQc(q) ==
  /\ q \in team
  /\ \E b \in DOMAIN batches, verdict \in {"QC_PASS", "QC_FAIL"} :
       batches' = [batches EXCEPT ![b].qc = verdict]
  /\ UNCHANGED <<care, processing, stocking, lots>>

Unfit(b) == batches[b].qc = "QC_FAIL"

InboundCheck(s) ==
  /\ s \in team /\ stocking[s] = 0 /\ Len(lots) < MaxLots   \* bound
  /\ \E b \in DOMAIN batches :
       ~Unfit(b) /\ stocking' = [stocking EXCEPT ![s] = b]
  /\ UNCHANGED <<care, processing, batches, lots>>

InboundCreate(s) ==
  /\ stocking[s] # 0 /\ Len(lots) < MaxLots   \* bound
  /\ lots' = Append(lots, stocking[s])
  /\ stocking' = [stocking EXCEPT ![s] = 0]
  /\ UNCHANGED <<care, processing, batches>>

TracingNext ==
  \/ \E n \in Nurses : AddCareRecord(n)
  \/ \E w \in Butchers : ProcessCheck(w) \/ ProcessCreate(w)
  \/ \E q \in Inspectors : SetQc(q)
  \/ \E s \in Stockers : InboundCheck(s) \/ InboundCreate(s)
=============================================================================
