----------------------------- MODULE MCSourcing -----------------------------
(***************************************************************************)
(* Instances of Sourcing for TLC.                                          *)
(***************************************************************************)
EXTENDS Sourcing, TLC

(* Any two handlers run together and all those of one service, with one    *)
(* supplier; a placement and a broker with two as well.                    *)
Handlers == Placers \cup Submitters \cup Acceptors \cup Brokers \cup Matchers
Pairs == {t \in SUBSET Handlers : Cardinality(t) = 2}
Teamwork ==
  {t \cup {s} : t \in Pairs \cup {Submitters \cup Acceptors, Brokers \cup Matchers},
                s \in Suppliers}
    \cup {{p, b} \cup Suppliers : p \in Placers, b \in Brokers}
    \cup {Bills}

(* Quantities that hit a tier at its border or leave a fraction of a cent. *)
Weights == {125, 200, 333}

Tier(from, to, price) == [from |-> from, to |-> to, price |-> price]
Ladders == {{Tier(0, 2, 101), Tier(2, None, 33)}}

(* Shares that do not divide evenly, that are off by 0.01 %, nothing or    *)
(* less; amounts below and above the price, in whole cents or not.         *)
Percent(pct) == [pct |-> pct, amount |-> None]
Fixed(amount) == [pct |-> None, amount |-> amount]
Agreed ==
  { << >>, <<Percent(5000), Percent(5000)>>, <<Percent(3333), Percent(3333), Percent(3333)>>,
    <<Percent(10000), Percent(0)>>, <<Percent(12000), Percent(-2000)>>,
    <<Fixed(4000), Percent(5000)>>, <<Fixed(50000), Fixed(100)>>, <<Percent(4000), Percent(5000)>>,
    <<Fixed(3350), Percent(5000)>>, <<Fixed(3350), Fixed(1650), Percent(5000)>> }

Rulebook ==
  { [category |-> "ours", rate |-> 1000, priority |-> 0],
    [category |-> "any", rate |-> 5000, priority |-> 1] }

(* Submissions are interchangeable, and so are brokers and suppliers.      *)
Symmetry ==
  Permutations(Submitters) \cup Permutations(Brokers) \cup Permutations(Suppliers)
=============================================================================
