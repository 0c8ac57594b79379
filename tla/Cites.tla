------------------------------- MODULE Cites -------------------------------
(***************************************************************************)
(* CITES permits: registration and deduction (fulfillment.service.ts) and  *)
(* the script that gives every permit a line per species and merges those  *)
(* that had been split (migrate-cites-lines.ts).  A deduction compares     *)
(* with the permit as it was before the transaction; the script writes     *)
(* what it read before the first one.                                      *)
(***************************************************************************)
EXTENDS Expiry, Functions

CONSTANTS
  Species,
  Base,        \* the real permit number a row stands for
  Age,         \* the order of creation of the rows
  Kg,          \* quantities: of a quota, of a deduction
  Inspectors,  \* deductCites() in progress at once
  Migrators    \* runs of the script

ASSUME CitesAssumption ==
  /\ Kg \subseteq Nat \ {0} /\ Kg # {} /\ IsFiniteSet(Kg)
  /\ IsFiniteSet(Species) /\ "none" \notin Species
  /\ IsFiniteSet(Inspectors) /\ IsFiniteSet(Migrators)
  /\ IsFiniteSet(Permits) /\ Age \in [Permits -> Nat]

VARIABLES
  permit,     \* species, quota and use of a row
  line,       \* quota and use per row and species
  inspector, migrator

citesVars == <<permit, line, inspector, migrator>>

NoLine == [quota |-> 0, used |-> 0]
NoPermit == [species |-> "none", quota |-> 0, used |-> 0]

PermitType == [species : Species \cup {"none"}, quota : Nat, used : Nat]
LineType == [quota : Nat, used : Nat]

CitesTypeOK ==
  /\ permit \in [Permits -> PermitType]
  /\ line \in [Permits -> [Species -> LineType]]
  /\ inspector \in [Inspectors -> {Free} \cup
       [at : {"deduct"}, permit : Permits, kg : Kg, meant : SUBSET Species,
        seen : PermitType, lines : [Species -> LineType]]]
  /\ migrator \in [Migrators -> {Free} \cup
       [at : {"merge"}, left : SUBSET SUBSET Permits, seen : [Permits -> PermitType],
        bare : SUBSET Permits]]

CitesInit ==
  /\ permit = [p \in Permits |-> NoPermit]
  /\ line = [p \in Permits |-> [s \in Species |-> NoLine]]
  /\ inspector = [i \in Inspectors |-> Free]
  /\ migrator = [g \in Migrators |-> Free]

Lines(p) == {s \in Species : line[p][s] # NoLine}

SpeciesOf(p) == Lines(p) \cup {permit[p].species}

(* Rows are created in the order of their age.  Those of one number differ *)
(* in their species, for that is why they were split.                      *)
Upcoming(p, species) ==
  /\ cert[p] = NoCert
  /\ \A q \in Permits : Age[q] < Age[p] => cert[q] # NoCert
  /\ \A q \in Permits : Base[q] = Base[p] => SpeciesOf(q) \cap species = {}

(* An imported row has one species and no line; some of it may be used up. *)
(* Imports were over when permits began to have lines.                     *)
Import(p, s, q, used) ==
  /\ Upcoming(p, {s}) /\ \A r \in Permits : Lines(r) = {}
  /\ used <= q
  /\ \E date \in Dates : Issued(p, "VALID", date)
  /\ permit' = [permit EXCEPT ![p] = [species |-> s, quota |-> q, used |-> used]]
  /\ UNCHANGED <<today, inbox, scan, team, line, inspector, migrator>>

(* createCitesPermit: the row carries its first species and the total.     *)
CreateCitesPermit(p, quota, first) ==
  /\ Upcoming(p, {s \in Species : quota[s] > 0})
  /\ quota[first] > 0
  /\ \E date \in Dates : Issued(p, "VALID", date)
  /\ permit' = [permit EXCEPT ![p] =
       [species |-> first, quota |-> SumFunction(quota), used |-> 0]]
  /\ line' = [line EXCEPT ![p] = [s \in Species |-> [quota |-> quota[s], used |-> 0]]]
  /\ UNCHANGED <<today, inbox, scan, team, inspector, migrator>>

----------------------------------------------------------------------------
(* Deductions                                                              *)

(* The line that is meant: the species named, or the only one.             *)
Meant(p, s) ==
  IF s # "none" THEN Lines(p) \cap {s}
  ELSE IF Cardinality(Lines(p)) = 1 THEN Lines(p) ELSE {}

(* deductCites reads the permit with its lines.  A date is its midnight,   *)
(* so a permit is refused on its last day; that the row may be deleted is  *)
(* not asked.                                                              *)
DeductRead(i, p, kg, s) ==
  /\ i \in team /\ inspector[i] = Free
  /\ "cross" \in team \/ \A g \in Migrators : migrator[g] = Free   \* bound
  /\ cert[p] # NoCert /\ cert[p].status = "VALID" /\ cert[p].expires > today
  /\ s # "none" => s \in Lines(p)
  /\ s = "none" => Cardinality(Lines(p)) <= 1
  /\ inspector' = [inspector EXCEPT ![i] =
       [at |-> "deduct", permit |-> p, kg |-> kg, meant |-> Meant(p, s), seen |-> permit[p],
        lines |-> line[p]]]
  /\ UNCHANGED <<expiryVars, team, permit, line, migrator>>

Remains(f) ==
  /\ \A s \in f.meant : f.lines[s].quota - f.lines[s].used >= f.kg
  /\ f.seen.quota - f.seen.used >= f.kg

(* Mutant of Deducted: the total of the permit is left behind.             *)
DeductedFromLine(f) ==
  /\ line' = [line EXCEPT ![f.permit] =
       [s \in Species |->
          IF s \in f.meant THEN [quota |-> @[s].quota, used |-> @[s].used + f.kg] ELSE @[s]]]
  /\ permit' = IF f.meant = {} THEN [permit EXCEPT ![f.permit].used = @ + f.kg] ELSE permit

Deducted(f) ==
  /\ line' = [line EXCEPT ![f.permit] =
       [s \in Species |->
          IF s \in f.meant THEN [quota |-> @[s].quota, used |-> @[s].used + f.kg] ELSE @[s]]]
  /\ permit' = [permit EXCEPT ![f.permit].used = @ + f.kg]

(* The transaction increments, whatever the rows hold by now; too little   *)
(* left rolls it back.                                                     *)
DeductWrite(i) ==
  /\ inspector[i].at = "deduct"
  /\ IF Remains(inspector[i]) THEN Deducted(inspector[i]) ELSE UNCHANGED <<line, permit>>
  /\ inspector' = [inspector EXCEPT ![i] = Free]
  /\ UNCHANGED <<expiryVars, team, migrator>>

----------------------------------------------------------------------------
(* The migration                                                           *)

Group(p) == {q \in Permits : cert[q].live /\ Base[q] = Base[p]}

MigrateRead(g) ==
  /\ g \in team /\ migrator[g] = Free
  /\ "cross" \in team \/ \A i \in Inspectors : inspector[i] = Free   \* bound
  /\ migrator' = [migrator EXCEPT ![g] =
       [at |-> "merge", left |-> {Group(p) : p \in {q \in Permits : cert[q].live}},
        seen |-> permit, bare |-> {p \in Permits : Lines(p) = {}}]]
  /\ UNCHANGED <<expiryVars, team, permit, line, inspector>>

Primary(list) == CHOOSE p \in list : \A q \in list : Age[p] <= Age[q]

(* The totals of the row that stays.                                       *)
Merged(f, list) ==
  [permit EXCEPT ![Primary(list)].quota = SumFunction([p \in list |-> f.seen[p].quota]),
                 ![Primary(list)].used = SumFunction([p \in list |-> f.seen[p].used])]

(* Its lines: of the rows of one species the earliest gets the line.       *)
MergedLines(f, list) ==
  [line EXCEPT ![Primary(list)] = [s \in Species |->
     LET same == {p \in list : f.seen[p].species = s}
     IN IF @[s] # NoLine \/ same = {} THEN @[s]
        ELSE [quota |-> f.seen[Primary(same)].quota, used |-> f.seen[Primary(same)].used]]]

(* One transaction per group of more than one row, ...                     *)
MergeGroup(g) ==
  migrator[g] # Free /\ \E list \in migrator[g].left :
    /\ Cardinality(list) > 1
    /\ permit' = Merged(migrator[g], list)
    /\ line' = MergedLines(migrator[g], list)
    /\ cert' = [c \in Certs |->
         IF c \in list \ {Primary(list)} THEN [cert[c] EXCEPT !.live = FALSE] ELSE cert[c]]
    /\ migrator' = [migrator EXCEPT ![g].left = @ \ {list}]
    /\ UNCHANGED <<today, inbox, scan, team, inspector>>

(* ... and a line for a row that stands alone and has none.                *)
Backfill(g) ==
  migrator[g] # Free /\ \E list \in migrator[g].left :
    /\ Cardinality(list) = 1
    /\ line' = IF list \subseteq migrator[g].bare THEN MergedLines(migrator[g], list) ELSE line
    /\ migrator' = [migrator EXCEPT ![g].left = @ \ {list}]
    /\ UNCHANGED <<expiryVars, team, permit, inspector>>

(* The script ends, or dies between two groups.                            *)
MigrateEnd(g) ==
  /\ migrator[g] # Free
  /\ migrator' = [migrator EXCEPT ![g] = Free]
  /\ UNCHANGED <<expiryVars, team, permit, line, inspector>>

CitesNext ==
  \/ /\ Working(Inspectors \cup Migrators)
     /\ \E p \in Permits, s \in Species :
          \/ \E q \in Kg, used \in Kg \cup {0} : Import(p, s, q, used)
          \/ \E quota \in [Species -> Kg \cup {0}] : CreateCitesPermit(p, quota, s)
  \/ \E i \in Inspectors :
       \/ \E p \in Permits, kg \in Kg, s \in Species \cup {"none"} : DeductRead(i, p, kg, s)
       \/ DeductWrite(i)
  \/ \E g \in Migrators : MigrateRead(g) \/ MergeGroup(g) \/ Backfill(g) \/ MigrateEnd(g)
=============================================================================
