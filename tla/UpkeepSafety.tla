---------------------------- MODULE UpkeepSafety ----------------------------
(***************************************************************************)
(* What the scripts leave behind, for any organisations, quantities, casts *)
(* and numbers of farms, runs, orders and aborts: TypeOK, RealUntouched,   *)
(* PurgedClean and ImportsRepeatable of Upkeep.                            *)
(***************************************************************************)
EXTENDS Upkeep, FiniteSetTheorems, TLAPS

(* What a script does, with whom and by which gates: this says it kind by  *)
(* kind where Imports lists it step by step (ScriptsAreMade).              *)
PartiesOf ==
  [hzb |-> {"HZB", "Jinglin"}, tuopai |-> {"Tuopai", "Jinglin"},
   liangmei |-> {"Liangmei", "Jinglin"}, demo |-> {"HZB", "Jinglin"}, french |-> {}]
GatesOf ==
  [hzb |-> {"batch", "product"}, tuopai |-> {"contact", "farm", "product"},
   liangmei |-> {"unit", "product"}, demo |-> {"batch", "product"}, french |-> {"org"}]
NewOf ==
  [hzb |-> {"unit", "batch", "passed", "product", "live"},
   tuopai |-> {"contact", "farm", "product", "live"},
   liangmei |-> {"unit", "subunit", "product", "live"},
   demo |-> {"unit", "batch", "passed", "product", "sku", "live"},
   french |-> {"org", "profile", "contact", "address"}]
OwnOf ==
  [hzb |-> {"cert", "permit", "sku", "used"}, tuopai |-> {"profile", "cert", "permit", "sku"},
   liangmei |-> {"profile", "contact", "cert", "sku"}, demo |-> {"rfq"}, french |-> {}]
AlwaysOf ==
  [hzb |-> {"confirmed", "shipment", "document", "declaration"},
   tuopai |-> {"confirmed", "shipment", "document", "declaration"},
   liangmei |-> {"document"}, demo |-> {"contact", "talk"}, french |-> {}]
LonelyOf ==
  [hzb |-> {"lot", "place", "pay", "deliver", "expire"},
   tuopai |-> {"sales", "overdue", "lot", "place", "pay"},
   liangmei |-> {"lot", "place"}, demo |-> {"lot", "some"}, french |-> {"enrich"}]
GateOf(s, k) ==
  IF s = "french" THEN "org"
  ELSE IF k \in {"product", "sku", "live"} THEN "product"
  ELSE IF s = "liangmei" THEN "unit"
  ELSE IF k \in {"unit", "batch", "passed"} THEN "batch" ELSE k
Whose(s, op) ==
  IF op = "sales" THEN "HZB" ELSE IF op = "overdue" THEN "hzb" ELSE IF op = "enrich" THEN "Jinglin" ELSE s

StepsOf(s) ==
  {Step("register", o, "org", "org") : o \in PartiesOf[s]}
  \cup {Step("new", o, "approved", "org") : o \in PartiesOf[s]}
  \cup {Step("gate", s, g, g) : g \in GatesOf[s]}
  \cup {Step("new", s, k, GateOf(s, k)) : k \in NewOf[s]}
  \cup {Step("own", s, k, k) : k \in OwnOf[s]}
  \cup {Step("always", s, k, k) : k \in AlwaysOf[s]}
  \cup {Step(op, Whose(s, op), op, op) : op \in LonelyOf[s]}

(* The order of its steps: every script follows this ranking, and only     *)
(* steps for the rows of Repeated come more than once.                     *)
RankOf ==
  [enrich |-> 5, org |-> 7, profile |-> 8, contact |-> 10, address |-> 11, sales |-> 12,
   cert |-> 13, permit |-> 14, overdue |-> 15, unit |-> 18, batch |-> 19, subunit |-> 20,
   passed |-> 21, farm |-> 23, product |-> 25, sku |-> 26, live |-> 27, lot |-> 28, place |-> 29,
   some |-> 30, rfq |-> 31, pay |-> 32, talk |-> 34, confirmed |-> 33, shipment |-> 34,
   document |-> 35, declaration |-> 36,
   used |-> 37, deliver |-> 38, expire |-> 39]
AlwaysRank(k) == IF k = "contact" THEN 33 ELSE RankOf[k]
GateRank == [org |-> 6, contact |-> 9, batch |-> 16, unit |-> 17, farm |-> 22, product |-> 24]
Rank(t) ==
  IF t.op = "register" THEN IF t.row[1] = "Jinglin" THEN 3 ELSE 1
  ELSE IF t.row[2] = "approved" THEN IF t.row[1] = "Jinglin" THEN 4 ELSE 2
  ELSE IF t.op = "gate" THEN GateRank[t.row[2]]
  ELSE IF t.op = "always" THEN AlwaysRank(t.row[2])
  ELSE RankOf[t.row[2]]

Repeated == {"contact", "subunit", "farm"}
Again(t, u) == t = u /\ t.op = "new" /\ t.row[2] \in Repeated
Ranked(s, A, R) ==
  /\ A \in Seq(StepsOf(s))
  /\ \A i \in 1..Len(A) : Rank(A[i]) \in R
  /\ \A i, j \in 1..Len(A) : i < j => Rank(A[i]) < Rank(A[j]) \/ Again(A[i], A[j])
Steps(A) == {A[i] : i \in 1..Len(A)}
Under(R, Q) == \A r \in R, q \in Q : r < q

LEMMA Joins ==
  ASSUME NEW s, NEW A, NEW B, NEW R, NEW Q, Ranked(s, A, R), Ranked(s, B, Q), Under(R, Q)
  PROVE  /\ Ranked(s, A \o B, R \cup Q)
         /\ \A t : t \in Steps(A) \/ t \in Steps(B) => t \in Steps(A \o B)
<1> DEFINE C == A \o B
<1>1. /\ A \in Seq(StepsOf(s)) /\ B \in Seq(StepsOf(s)) /\ C \in Seq(StepsOf(s))
      /\ Len(A) \in Nat /\ Len(B) \in Nat /\ Len(C) = Len(A) + Len(B)
      /\ \A i \in 1..Len(A) : C[i] = A[i]
      /\ \A i \in 1..Len(C) : i > Len(A) => i - Len(A) \in 1..Len(B) /\ C[i] = B[i - Len(A)]
      /\ \A i \in 1..Len(B) : i + Len(A) \in 1..Len(C) /\ C[i + Len(A)] = B[i]
  BY DEF Ranked
<1> HIDE DEF C
<1>2. \A i \in 1..Len(C) : IF i <= Len(A) THEN C[i] = A[i] /\ Rank(C[i]) \in R
                          ELSE C[i] = B[i - Len(A)] /\ Rank(C[i]) \in Q
  <2> TAKE i \in 1..Len(C)
  <2>1. CASE i <= Len(A)
    <3>1. i \in 1..Len(A) BY <1>1, <2>1
    <3> QED BY <1>1, <2>1, <3>1 DEF Ranked
  <2>2. CASE i > Len(A)
    <3>1. i - Len(A) \in 1..Len(B) /\ C[i] = B[i - Len(A)] BY <1>1, <2>2
    <3>2. Rank(B[i - Len(A)]) \in Q BY <3>1 DEF Ranked
    <3> QED BY <1>1, <2>2, <3>1, <3>2
  <2> QED BY <1>1, <2>1, <2>2
<1>3. \A i \in 1..Len(C) : Rank(C[i]) \in R \cup Q BY <1>2
<1>4. ASSUME NEW i \in 1..Len(C), NEW j \in 1..Len(C), i < j
      PROVE  Rank(C[i]) < Rank(C[j]) \/ Again(C[i], C[j])
  <2>1. CASE j <= Len(A) BY <1>1, <1>4, <2>1 DEF Ranked
  <2>2. CASE i > Len(A)
    <3>1. i - Len(A) \in 1..Len(B) /\ j - Len(A) \in 1..Len(B) /\ i - Len(A) < j - Len(A)
      BY <1>1, <1>4, <2>2
    <3>2. C[i] = B[i - Len(A)] /\ C[j] = B[j - Len(A)] BY <1>1, <1>4, <2>2
    <3> QED BY <3>1, <3>2 DEF Ranked
  <2>3. CASE i <= Len(A) /\ j > Len(A) BY <1>1, <1>2, <2>3 DEF Under
  <2> QED BY <1>1, <2>1, <2>2, <2>3
<1>5. \A t : t \in Steps(A) \/ t \in Steps(B) => t \in Steps(C)
  <2>1. ASSUME NEW i \in 1..Len(A) PROVE A[i] \in Steps(C) BY <1>1 DEF Steps
  <2>2. ASSUME NEW i \in 1..Len(B) PROVE B[i] \in Steps(C) BY <1>1 DEF Steps
  <2> QED BY <2>1, <2>2 DEF Steps
<1> QED BY <1>1, <1>3, <1>4, <1>5 DEF Ranked, C

LEMMA OneStep ==
  ASSUME NEW s, NEW t \in StepsOf(s), NEW R, Rank(t) \in R
  PROVE  Ranked(s, <<t>>, R) /\ Steps(<<t>>) = {t}
BY DEF Ranked, Steps

LEMMA TwoSteps ==
  ASSUME NEW s, NEW t \in StepsOf(s), NEW u \in StepsOf(s), NEW R,
         Rank(t) < Rank(u), Rank(t) \in R, Rank(u) \in R
  PROVE  Ranked(s, <<t, u>>, R) /\ Steps(<<t, u>>) = {t, u}
<1> DEFINE A == <<t, u>>
<1>1. A \in Seq(StepsOf(s)) /\ Len(A) = 2 /\ A[1] = t /\ A[2] = u OBVIOUS
<1>2. 1..2 = {1, 2} OBVIOUS
<1> HIDE DEF A
<1>3. \A i, j \in {1, 2} : i < j => i = 1 /\ j = 2 OBVIOUS
<1>4. Ranked(s, A, R) BY <1>1, <1>2, <1>3 DEF Ranked
<1>5. Steps(A) = {t, u} BY <1>1, <1>2 DEF Steps
<1> QED BY <1>4, <1>5 DEF A

LEMMA KindsKnown ==
  ASSUME NEW s \in Scripts
  PROVE  /\ \A k \in NewOf[s] \cup OwnOf[s] \cup AlwaysOf[s] \cup LonelyOf[s] :
              k # "approved" /\ RankOf[k] \in Nat
         /\ \A k \in GatesOf[s] : k # "approved" /\ GateRank[k] \in Nat
         /\ \A op \in LonelyOf[s] : op \notin {"register", "gate", "always", "new", "own"}
BY DEF Scripts, ScriptOf, NewOf, OwnOf, AlwaysOf, LonelyOf, GatesOf, RankOf, GateRank

LEMMA RanksOf ==
  ASSUME NEW s \in Scripts
  PROVE  /\ \A o \in PartiesOf[s] :
              /\ Step("register", o, "org", "org") \in StepsOf(s)
              /\ Rank(Step("register", o, "org", "org")) = (IF o = "Jinglin" THEN 3 ELSE 1)
              /\ Step("new", o, "approved", "org") \in StepsOf(s)
              /\ Rank(Step("new", o, "approved", "org")) = (IF o = "Jinglin" THEN 4 ELSE 2)
         /\ \A g \in GatesOf[s] :
              Step("gate", s, g, g) \in StepsOf(s) /\ Rank(Step("gate", s, g, g)) = GateRank[g]
         /\ \A k \in NewOf[s] :
              /\ Step("new", s, k, GateOf(s, k)) \in StepsOf(s)
              /\ Rank(Step("new", s, k, GateOf(s, k))) = RankOf[k]
         /\ \A k \in OwnOf[s] :
              Step("own", s, k, k) \in StepsOf(s) /\ Rank(Step("own", s, k, k)) = RankOf[k]
         /\ \A k \in AlwaysOf[s] :
              /\ Step("always", s, k, k) \in StepsOf(s)
              /\ Rank(Step("always", s, k, k)) = AlwaysRank(k)
         /\ \A op \in LonelyOf[s] :
              /\ Step(op, Whose(s, op), op, op) \in StepsOf(s)
              /\ Rank(Step(op, Whose(s, op), op, op)) = RankOf[op]
<1>1. \A op, of, k, g : /\ Step(op, of, k, g).op = op
                        /\ Step(op, of, k, g).row[1] = of /\ Step(op, of, k, g).row[2] = k
  BY DEF Step
<1> QED BY <1>1, KindsKnown DEF StepsOf, Rank, AlwaysRank

LEMMA OwnRanked ==
  ASSUME NEW s \in Scripts, NEW kinds \in Seq(OwnOf[s]), NEW R,
         \A i \in 1..Len(kinds) : RankOf[kinds[i]] \in R,
         \A i, j \in 1..Len(kinds) : i < j => RankOf[kinds[i]] < RankOf[kinds[j]]
  PROVE  /\ Ranked(s, Own(s, kinds), R)
         /\ \A i \in 1..Len(kinds) : Step("own", s, kinds[i], kinds[i]) \in Steps(Own(s, kinds))
<1>1. /\ Len(kinds) \in Nat /\ \A i \in 1..Len(kinds) : kinds[i] \in OwnOf[s]
      /\ Len(Own(s, kinds)) = Len(kinds)
      /\ \A i \in 1..Len(kinds) : Own(s, kinds)[i] = Step("own", s, kinds[i], kinds[i])
  BY DEF Own
<1>2. \A i \in 1..Len(kinds) : Own(s, kinds)[i] \in StepsOf(s) /\ Rank(Own(s, kinds)[i]) = RankOf[kinds[i]]
  BY <1>1, RanksOf
<1>3. Own(s, kinds) \in Seq(StepsOf(s)) BY <1>1, <1>2 DEF Own
<1> QED BY <1>1, <1>2, <1>3 DEF Ranked, Steps

LEMMA AlwaysRanked ==
  ASSUME NEW s \in Scripts, NEW kinds \in Seq(AlwaysOf[s]), NEW R,
         \A i \in 1..Len(kinds) : AlwaysRank(kinds[i]) \in R,
         \A i, j \in 1..Len(kinds) : i < j => AlwaysRank(kinds[i]) < AlwaysRank(kinds[j])
  PROVE  /\ Ranked(s, Always(s, kinds), R)
         /\ \A i \in 1..Len(kinds) : Step("always", s, kinds[i], kinds[i]) \in Steps(Always(s, kinds))
<1>1. /\ Len(kinds) \in Nat /\ \A i \in 1..Len(kinds) : kinds[i] \in AlwaysOf[s]
      /\ Len(Always(s, kinds)) = Len(kinds)
      /\ \A i \in 1..Len(kinds) : Always(s, kinds)[i] = Step("always", s, kinds[i], kinds[i])
  BY DEF Always
<1>2. \A i \in 1..Len(kinds) :
        Always(s, kinds)[i] \in StepsOf(s) /\ Rank(Always(s, kinds)[i]) = AlwaysRank(kinds[i])
  BY <1>1, RanksOf
<1>3. Always(s, kinds) \in Seq(StepsOf(s)) BY <1>1, <1>2 DEF Always
<1> QED BY <1>1, <1>2, <1>3 DEF Ranked, Steps

LEMMA GroupRanked ==
  ASSUME NEW s \in Scripts, NEW g \in GatesOf[s], NEW kinds \in Seq(NewOf[s]), NEW R,
         Under({GateRank[g]}, R),
         \A i \in 1..Len(kinds) : GateOf(s, kinds[i]) = g /\ RankOf[kinds[i]] \in R,
         \A i, j \in 1..Len(kinds) : i < j =>
           \/ RankOf[kinds[i]] < RankOf[kinds[j]]
           \/ kinds[i] = kinds[j] /\ kinds[i] \in Repeated
  PROVE  /\ Ranked(s, Group(s, g, kinds), {GateRank[g]} \cup R)
         /\ Step("gate", s, g, g) \in Steps(Group(s, g, kinds))
         /\ \A i \in 1..Len(kinds) : Step("new", s, kinds[i], g) \in Steps(Group(s, g, kinds))
<1> DEFINE A == [i \in 1..Len(kinds) |-> Step("new", s, kinds[i], g)]
           t == Step("gate", s, g, g)
           B == <<t>>
<1>1. /\ Len(kinds) \in Nat /\ \A i \in 1..Len(kinds) : kinds[i] \in NewOf[s]
      /\ Len(A) = Len(kinds) /\ \A i \in 1..Len(kinds) : A[i] = Step("new", s, kinds[i], g)
  OBVIOUS
<1>2. \A i \in 1..Len(kinds) : A[i] \in StepsOf(s) /\ Rank(A[i]) = RankOf[kinds[i]]
  BY <1>1, RanksOf
<1>3. A \in Seq(StepsOf(s)) BY <1>1, <1>2
<1>4. \A i, j \in 1..Len(kinds) : kinds[i] = kinds[j] /\ kinds[i] \in Repeated => Again(A[i], A[j])
  BY <1>1 DEF Again, Step
<1>5. Group(s, g, kinds) = B \o A BY DEF Group
<1> HIDE DEF A
<1>6. Ranked(s, A, R) BY <1>1, <1>2, <1>3, <1>4 DEF Ranked
<1>7. \A i \in 1..Len(kinds) : A[i] \in Steps(A) BY <1>1 DEF Steps
<1>8. t \in StepsOf(s) /\ Rank(t) = GateRank[g] BY RanksOf
<1> HIDE DEF t
<1>9. Ranked(s, B, {GateRank[g]}) /\ Steps(B) = {t} BY <1>8, OneStep
<1> HIDE DEF B
<1>10. /\ Ranked(s, B \o A, {GateRank[g]} \cup R)
       /\ \A u : u \in Steps(B) \/ u \in Steps(A) => u \in Steps(B \o A)
  BY <1>6, <1>9, Joins
<1> QED BY <1>1, <1>5, <1>7, <1>9, <1>10 DEF t

LEMMA PartyRanked ==
  ASSUME NEW s \in Scripts, NEW o \in PartiesOf[s]
  PROVE  /\ Ranked(s, EnsureParty(o), IF o = "Jinglin" THEN {3, 4} ELSE {1, 2})
         /\ Steps(EnsureParty(o)) = {Step("register", o, "org", "org"), Step("new", o, "approved", "org")}
BY RanksOf, TwoSteps DEF EnsureParty

LEMMA LoneRanked ==
  ASSUME NEW s \in Scripts, NEW op \in LonelyOf[s]
  PROVE  /\ Ranked(s, Lone(op, Whose(s, op)), {RankOf[op]})
         /\ Steps(Lone(op, Whose(s, op))) = {Step(op, Whose(s, op), op, op)}
<1> DEFINE t == Step(op, Whose(s, op), op, op)
<1>1. t \in StepsOf(s) /\ Rank(t) = RankOf[op] BY RanksOf
<1>2. Lone(op, Whose(s, op)) = <<t>> BY DEF Lone
<1> HIDE DEF t
<1>3. Ranked(s, <<t>>, {RankOf[op]}) /\ Steps(<<t>>) = {t} BY <1>1, OneStep
<1> QED BY <1>2, <1>3 DEF t

LEMMA Widened ==
  ASSUME NEW s, NEW A, NEW R, NEW Q, Ranked(s, A, R), \A r \in R : r \in Q
  PROVE  Ranked(s, A, Q)
BY DEF Ranked

Adds(A, B) == \A t : t \in Steps(A) \/ t \in Steps(B) => t \in Steps(A \o B)

(* One piece more.                                                         *)
LEMMA Goes ==
  ASSUME NEW s, NEW A, NEW B, NEW R, NEW Q, NEW T, Ranked(s, A, R), Ranked(s, B, Q),
         \A r \in R, q \in Q : r < q, \A r \in R \cup Q : r \in T
  PROVE  Ranked(s, A \o B, T) /\ Adds(A, B)
<1>1. /\ Ranked(s, A \o B, R \cup Q)
      /\ \A t : t \in Steps(A) \/ t \in Steps(B) => t \in Steps(A \o B)
  BY Joins DEF Under
<1>2. Ranked(s, A \o B, T) BY <1>1, Widened
<1> QED BY <1>1, <1>2 DEF Adds

LEMMA One ==
  ASSUME NEW K, NEW k \in K
  PROVE  <<k>> \in Seq(K) /\ Len(<<k>>) = 1 /\ <<k>>[1] = k
OBVIOUS

LEMMA Two ==
  ASSUME NEW K, NEW k \in K, NEW l \in K
  PROVE  <<k, l>> \in Seq(K) /\ Len(<<k, l>>) = 2 /\ <<k, l>>[1] = k /\ <<k, l>>[2] = l
OBVIOUS

LEMMA Ranges == 1..1 = {1} /\ 1..2 = {1, 2} /\ 1..3 = {1, 2, 3}
OBVIOUS

LEMMA OwnOne ==
  ASSUME NEW s \in Scripts, NEW k \in OwnOf[s]
  PROVE  Ranked(s, Own(s, <<k>>), {RankOf[k]}) /\ Step("own", s, k, k) \in Steps(Own(s, <<k>>))
<1> DEFINE kinds == <<k>>
<1>1. kinds \in Seq(OwnOf[s]) /\ Len(kinds) = 1 /\ kinds[1] = k BY One
<1> HIDE DEF kinds
<1>2. \A i \in 1..Len(kinds) : i = 1 BY <1>1
<1>3. \A i \in 1..Len(kinds) : RankOf[kinds[i]] \in {RankOf[k]} BY <1>1, <1>2
<1>4. \A i, j \in 1..Len(kinds) : i < j => RankOf[kinds[i]] < RankOf[kinds[j]] BY <1>2
<1>5. /\ Ranked(s, Own(s, kinds), {RankOf[k]})
      /\ \A i \in 1..Len(kinds) : Step("own", s, kinds[i], kinds[i]) \in Steps(Own(s, kinds))
  BY <1>1, <1>3, <1>4, OwnRanked
<1>6. 1 \in 1..Len(kinds) BY <1>1
<1>7. Step("own", s, k, k) \in Steps(Own(s, kinds)) BY <1>1, <1>5, <1>6
<1> QED BY <1>5, <1>7 DEF kinds

LEMMA OwnPapers ==
  ASSUME NEW s \in {"hzb", "tuopai"}
  PROVE  /\ Ranked(s, Own(s, <<"cert", "permit">>), 13..14)
         /\ \A k \in {"cert", "permit"} : Step("own", s, k, k) \in Steps(Own(s, <<"cert", "permit">>))
<1> DEFINE kinds == <<"cert", "permit">>
<1>1. s \in Scripts /\ "cert" \in OwnOf[s] /\ "permit" \in OwnOf[s] BY DEF Scripts, ScriptOf, OwnOf
<1>2. kinds \in Seq(OwnOf[s]) BY <1>1, Two
<1>3. Len(kinds) = 2 /\ kinds[1] = "cert" /\ kinds[2] = "permit" OBVIOUS
<1> HIDE DEF kinds
<1>4. RankOf["cert"] = 13 /\ RankOf["permit"] = 14 BY DEF RankOf
<1>5. \A i \in 1..Len(kinds) : i \in {1, 2} BY <1>3, Ranges
<1>6. \A i \in 1..Len(kinds) : RankOf[kinds[i]] \in 13..14 BY <1>3, <1>4, <1>5
<1>7. \A i, j \in 1..Len(kinds) : i < j => i = 1 /\ j = 2 BY <1>5
<1>8. \A i, j \in 1..Len(kinds) : i < j => RankOf[kinds[i]] < RankOf[kinds[j]] BY <1>3, <1>4, <1>7
<1>9. /\ Ranked(s, Own(s, kinds), 13..14)
      /\ \A i \in 1..Len(kinds) : Step("own", s, kinds[i], kinds[i]) \in Steps(Own(s, kinds))
  BY <1>1, <1>2, <1>6, <1>8, OwnRanked
<1>10. 1 \in 1..Len(kinds) /\ 2 \in 1..Len(kinds) BY <1>3
<1>11. \A k \in {"cert", "permit"} : Step("own", s, k, k) \in Steps(Own(s, kinds)) BY <1>3, <1>9, <1>10
<1> QED BY <1>9, <1>11 DEF kinds

(* Three of one's own or of a group, in the order of their ranks.          *)
LEMMA Three ==
  ASSUME NEW K, NEW k \in K, NEW l \in K, NEW m \in K
  PROVE  /\ <<k, l, m>> \in Seq(K) /\ Len(<<k, l, m>>) = 3
         /\ <<k, l, m>>[1] = k /\ <<k, l, m>>[2] = l /\ <<k, l, m>>[3] = m
OBVIOUS

LEMMA OwnThree ==
  ASSUME NEW s \in Scripts, NEW k \in OwnOf[s], NEW l \in OwnOf[s], NEW m \in OwnOf[s], NEW R,
         RankOf[k] \in R, RankOf[l] \in R, RankOf[m] \in R,
         RankOf[k] < RankOf[l], RankOf[k] < RankOf[m], RankOf[l] < RankOf[m]
  PROVE  /\ Ranked(s, Own(s, <<k, l, m>>), R)
         /\ \A j \in {k, l, m} : Step("own", s, j, j) \in Steps(Own(s, <<k, l, m>>))
<1> DEFINE kinds == <<k, l, m>>
<1>1. /\ kinds \in Seq(OwnOf[s]) /\ Len(kinds) = 3
      /\ kinds[1] = k /\ kinds[2] = l /\ kinds[3] = m
  BY Three
<1> HIDE DEF kinds
<1>2. \A i \in 1..Len(kinds) : i \in {1, 2, 3} BY <1>1, Ranges
<1>3. \A i \in 1..Len(kinds) : RankOf[kinds[i]] \in R BY <1>1, <1>2
<1>4. \A i, j \in 1..Len(kinds) : i < j => <<i, j>> \in {<<1, 2>>, <<1, 3>>, <<2, 3>>}
  <2>1. \A i, j \in {1, 2, 3} : i < j => <<i, j>> \in {<<1, 2>>, <<1, 3>>, <<2, 3>>} OBVIOUS
  <2> QED BY <1>2, <2>1
<1>5. \A i, j \in 1..Len(kinds) : i < j => RankOf[kinds[i]] < RankOf[kinds[j]] BY <1>1, <1>4
<1>6. /\ Ranked(s, Own(s, kinds), R)
      /\ \A i \in 1..Len(kinds) : Step("own", s, kinds[i], kinds[i]) \in Steps(Own(s, kinds))
  BY <1>1, <1>3, <1>5, OwnRanked
<1>7. 1 \in 1..Len(kinds) /\ 2 \in 1..Len(kinds) /\ 3 \in 1..Len(kinds) BY <1>1
<1>8. \A j \in {k, l, m} : Step("own", s, j, j) \in Steps(Own(s, kinds)) BY <1>1, <1>6, <1>7
<1> QED BY <1>6, <1>8 DEF kinds

LEMMA GroupThree ==
  ASSUME NEW s \in Scripts, NEW g \in GatesOf[s],
         NEW k \in NewOf[s], NEW l \in NewOf[s], NEW m \in NewOf[s], NEW R,
         Under({GateRank[g]}, R),
         \A j \in {k, l, m} : GateOf(s, j) = g /\ RankOf[j] \in R,
         RankOf[k] < RankOf[l], RankOf[k] < RankOf[m],
         RankOf[l] < RankOf[m] \/ (l = m /\ l \in Repeated)
  PROVE  /\ Ranked(s, Group(s, g, <<k, l, m>>), {GateRank[g]} \cup R)
         /\ Step("gate", s, g, g) \in Steps(Group(s, g, <<k, l, m>>))
         /\ \A j \in {k, l, m} : Step("new", s, j, g) \in Steps(Group(s, g, <<k, l, m>>))
<1> DEFINE kinds == <<k, l, m>>
<1>1. /\ kinds \in Seq(NewOf[s]) /\ Len(kinds) = 3
      /\ kinds[1] = k /\ kinds[2] = l /\ kinds[3] = m
  BY Three
<1> HIDE DEF kinds
<1>2. \A i \in 1..Len(kinds) : i \in {1, 2, 3} BY <1>1, Ranges
<1>3. \A i \in 1..Len(kinds) : GateOf(s, kinds[i]) = g /\ RankOf[kinds[i]] \in R BY <1>1, <1>2
<1>4. \A i, j \in 1..Len(kinds) : i < j => <<i, j>> \in {<<1, 2>>, <<1, 3>>, <<2, 3>>}
  <2>1. \A i, j \in {1, 2, 3} : i < j => <<i, j>> \in {<<1, 2>>, <<1, 3>>, <<2, 3>>} OBVIOUS
  <2> QED BY <1>2, <2>1
<1>5. \A i, j \in 1..Len(kinds) : i < j =>
        \/ RankOf[kinds[i]] < RankOf[kinds[j]]
        \/ kinds[i] = kinds[j] /\ kinds[i] \in Repeated
  BY <1>1, <1>4
<1>6. /\ Ranked(s, Group(s, g, kinds), {GateRank[g]} \cup R)
      /\ Step("gate", s, g, g) \in Steps(Group(s, g, kinds))
      /\ \A i \in 1..Len(kinds) : Step("new", s, kinds[i], g) \in Steps(Group(s, g, kinds))
  BY <1>1, <1>3, <1>5, GroupRanked
<1>7. 1 \in 1..Len(kinds) /\ 2 \in 1..Len(kinds) /\ 3 \in 1..Len(kinds) BY <1>1
<1>8. \A j \in {k, l, m} : Step("new", s, j, g) \in Steps(Group(s, g, kinds)) BY <1>1, <1>6, <1>7
<1> QED BY <1>6, <1>8 DEF kinds

LEMMA BatchGroup ==
  ASSUME NEW s \in {"hzb", "demo"}
  PROVE  LET A == Group(s, "batch", <<"unit", "batch", "passed">>) IN
         /\ Ranked(s, A, 16..21) /\ Step("gate", s, "batch", "batch") \in Steps(A)
         /\ \A k \in {"unit", "batch", "passed"} : Step("new", s, k, "batch") \in Steps(A)
<1> DEFINE R == 18..21
<1>1. /\ s \in Scripts /\ "batch" \in GatesOf[s]
      /\ "unit" \in NewOf[s] /\ "batch" \in NewOf[s] /\ "passed" \in NewOf[s]
  BY DEF Scripts, ScriptOf, GatesOf, NewOf
<1>2. GateRank["batch"] = 16 /\ RankOf["unit"] = 18 /\ RankOf["batch"] = 19 /\ RankOf["passed"] = 21
  BY DEF GateRank, RankOf
<1>3. Under({GateRank["batch"]}, R) BY <1>2 DEF Under
<1>4. \A j \in {"unit", "batch", "passed"} : GateOf(s, j) = "batch" BY DEF GateOf
<1>5. \A j \in {"unit", "batch", "passed"} : RankOf[j] \in R BY <1>2
<1> HIDE DEF R
<1>6. /\ Ranked(s, Group(s, "batch", <<"unit", "batch", "passed">>), {GateRank["batch"]} \cup R)
      /\ Step("gate", s, "batch", "batch") \in Steps(Group(s, "batch", <<"unit", "batch", "passed">>))
      /\ \A j \in {"unit", "batch", "passed"} :
           Step("new", s, j, "batch") \in Steps(Group(s, "batch", <<"unit", "batch", "passed">>))
  <2>1. /\ RankOf["unit"] < RankOf["batch"] /\ RankOf["unit"] < RankOf["passed"]
        /\ RankOf["batch"] < RankOf["passed"]
    BY <1>2
  <2>2. \A j \in {"unit", "batch", "passed"} : GateOf(s, j) = "batch" /\ RankOf[j] \in R
    BY <1>4, <1>5
  <2>3. RankOf["batch"] < RankOf["passed"] \/ ("batch" = "passed" /\ "batch" \in Repeated)
    BY <1>2
  <2> QED BY <1>1, <1>3, <2>1, <2>2, <2>3, GroupThree, Zenon
<1>7. \A r \in {GateRank["batch"]} \cup R : r \in 16..21 BY <1>2 DEF R
<1> QED BY <1>6, <1>7, Widened

(* A group of one kind, as often as it may be.                             *)
LEMMA GroupOfOne ==
  ASSUME NEW s \in Scripts, NEW g \in GatesOf[s] \cap NewOf[s], NEW kinds \in Seq({g}),
         Len(kinds) = 1 \/ g \in Repeated, GateOf(s, g) = g, GateRank[g] < RankOf[g]
  PROVE  /\ Ranked(s, Group(s, g, kinds), {GateRank[g]} \cup {RankOf[g]})
         /\ Step("gate", s, g, g) \in Steps(Group(s, g, kinds))
         /\ Len(kinds) > 0 => Step("new", s, g, g) \in Steps(Group(s, g, kinds))
<1>1. kinds \in Seq(NewOf[s]) /\ Len(kinds) \in Nat /\ \A i \in 1..Len(kinds) : kinds[i] = g
  OBVIOUS
<1>2. \A i \in 1..Len(kinds) : GateOf(s, kinds[i]) = g /\ RankOf[kinds[i]] \in {RankOf[g]} BY <1>1
<1>3. \A i, j \in 1..Len(kinds) : i < j => kinds[i] = kinds[j] /\ kinds[i] \in Repeated
  BY <1>1
<1>4. Under({GateRank[g]}, {RankOf[g]}) BY DEF Under
<1>5. \A i, j \in 1..Len(kinds) : i < j =>
        \/ RankOf[kinds[i]] < RankOf[kinds[j]]
        \/ kinds[i] = kinds[j] /\ kinds[i] \in Repeated
  BY <1>3
<1>6. /\ Ranked(s, Group(s, g, kinds), {GateRank[g]} \cup {RankOf[g]})
      /\ Step("gate", s, g, g) \in Steps(Group(s, g, kinds))
      /\ \A i \in 1..Len(kinds) : Step("new", s, kinds[i], g) \in Steps(Group(s, g, kinds))
  BY <1>1, <1>2, <1>4, <1>5, GroupRanked
<1> QED BY <1>1, <1>6


LEMMA ProductGroup ==
  ASSUME NEW s \in Traders
  PROVE  /\ Ranked(s, Group(s, "product", <<"product">>), 24..25)
         /\ Step("gate", s, "product", "product") \in Steps(Group(s, "product", <<"product">>))
         /\ Step("new", s, "product", "product") \in Steps(Group(s, "product", <<"product">>))
         /\ Ranked(s, <<Step("new", s, "live", "product")>>, {27})
         /\ Step("new", s, "live", "product") \in Steps(<<Step("new", s, "live", "product")>>)
<1> DEFINE kinds == <<"product">>
           live == Step("new", s, "live", "product")
<1>1. /\ s \in Scripts /\ "product" \in GatesOf[s] \cap NewOf[s] /\ "live" \in NewOf[s]
      /\ GateOf(s, "product") = "product" /\ GateOf(s, "live") = "product"
      /\ GateRank["product"] = 24 /\ RankOf["product"] = 25 /\ RankOf["live"] = 27
  BY DEF Traders, Scripts, ScriptOf, GatesOf, NewOf, GateOf, GateRank, RankOf
<1>2. kinds \in Seq({"product"}) /\ Len(kinds) = 1 OBVIOUS
<1>3. live \in StepsOf(s) /\ Rank(live) = 27 BY <1>1, RanksOf
<1> HIDE DEF kinds, live
<1>4. /\ Ranked(s, Group(s, "product", kinds), {GateRank["product"]} \cup {RankOf["product"]})
      /\ Step("gate", s, "product", "product") \in Steps(Group(s, "product", kinds))
      /\ Step("new", s, "product", "product") \in Steps(Group(s, "product", kinds))
  <2>1. GateRank["product"] < RankOf["product"] /\ Len(kinds) > 0 BY <1>1, <1>2
  <2> QED BY <1>1, <1>2, <2>1, GroupOfOne
<1>5. Ranked(s, Group(s, "product", kinds), 24..25) BY <1>1, <1>4, Widened
<1>6. Ranked(s, <<live>>, {27}) /\ live \in Steps(<<live>>) BY <1>3, OneStep
<1> QED BY <1>4, <1>5, <1>6 DEF kinds, live

LEMMA PaidRanked ==
  ASSUME NEW s \in {"hzb", "tuopai"}
  PROVE  /\ Ranked(s, Paid(s), 32..36) /\ Step("pay", s, "pay", "pay") \in Steps(Paid(s))
         /\ \A k \in AlwaysOf[s] : Step("always", s, k, k) \in Steps(Paid(s))
<1> DEFINE A == Lone("pay", s)
           B == Always(s, Papers)
<1>1. /\ s \in Scripts /\ "pay" \in LonelyOf[s] /\ Whose(s, "pay") = s /\ RankOf["pay"] = 32
      /\ AlwaysOf[s] = {"confirmed", "shipment", "document", "declaration"}
  BY DEF Scripts, ScriptOf, LonelyOf, Whose, AlwaysOf, RankOf
<1>2. Ranked(s, A, {32}) /\ Steps(A) = {Step("pay", s, "pay", "pay")} BY <1>1, LoneRanked
<1>3. /\ Papers \in Seq(AlwaysOf[s]) /\ Len(Papers) = 4 /\ 1..4 = {1, 2, 3, 4}
      /\ Papers[1] = "confirmed" /\ Papers[2] = "shipment"
      /\ Papers[3] = "document" /\ Papers[4] = "declaration"
  BY <1>1 DEF Papers
<1>4. \A i \in 1..4 : AlwaysRank(Papers[i]) = 32 + i
  <2>1. /\ AlwaysRank("confirmed") = 33 /\ AlwaysRank("shipment") = 34
        /\ AlwaysRank("document") = 35 /\ AlwaysRank("declaration") = 36
    BY DEF AlwaysRank, RankOf
  <2> QED BY <1>3, <2>1
<1>5. /\ Ranked(s, B, 33..36)
      /\ \A i \in 1..4 : Step("always", s, Papers[i], Papers[i]) \in Steps(B)
  <2>1. \A i \in 1..Len(Papers) : AlwaysRank(Papers[i]) \in 33..36 BY <1>3, <1>4
  <2>2. \A i, j \in 1..Len(Papers) : i < j => AlwaysRank(Papers[i]) < AlwaysRank(Papers[j])
    BY <1>3, <1>4
  <2>3. \A i \in 1..4 : i \in 1..Len(Papers) BY <1>3
  <2> QED BY <1>1, <1>3, <2>1, <2>2, <2>3, AlwaysRanked
<1>6. \A k \in AlwaysOf[s] : Step("always", s, k, k) \in Steps(B) BY <1>1, <1>3, <1>5
<1>7. Paid(s) = A \o B BY DEF Paid
<1> HIDE DEF A, B
<1>8. (\A r \in {32}, q \in 33..36 : r < q) /\ \A r \in {32} \cup (33..36) : r \in 32..36 OBVIOUS
<1>9. Ranked(s, A \o B, 32..36) /\ Adds(A, B) BY <1>2, <1>5, <1>8, Goes
<1> QED BY <1>2, <1>6, <1>7, <1>9 DEF Adds

(* All of it happens, but the farms of somebody who has none.              *)
Made(s, A) ==
  /\ Ranked(s, A, 1..39)
  /\ \A t \in StepsOf(s) : (t.op = "new" /\ t.row[2] = "farm") \/ t \in Steps(A)

LEMMA FrenchIsMade == Made("french", French)
<1> DEFINE s == "french"
           kinds == <<"org", "profile", "contact", "address">>
           A == Lone("enrich", "Jinglin")
           B == Group(s, "org", kinds)
<1>1. /\ s \in Scripts /\ "org" \in GatesOf[s] /\ kinds \in Seq(NewOf[s]) /\ Len(kinds) = 4
      /\ "enrich" \in LonelyOf[s] /\ Whose(s, "enrich") = "Jinglin"
  BY DEF Scripts, ScriptOf, GatesOf, NewOf, LonelyOf, Whose
<1>2. Ranked(s, B, {6} \cup (7..11)) /\ \A t \in
        {Step("gate", s, "org", "org"), Step("new", s, "org", "org"), Step("new", s, "profile", "org"),
         Step("new", s, "contact", "org"), Step("new", s, "address", "org")} : t \in Steps(B)
  <2>1. GateRank["org"] = 6 /\ Under({6}, 7..11) BY DEF GateRank, Under
  <2>2. \A i \in 1..4 : GateOf(s, kinds[i]) = "org" /\ RankOf[kinds[i]] \in 7..11 BY DEF GateOf, RankOf
  <2>3. \A i, j \in 1..4 : i < j => RankOf[kinds[i]] < RankOf[kinds[j]] BY DEF RankOf
  <2>4. kinds[1] = "org" /\ kinds[2] = "profile" /\ kinds[3] = "contact" /\ kinds[4] = "address" OBVIOUS
  <2> HIDE DEF kinds, s
  <2>5. /\ Ranked(s, B, {6} \cup (7..11)) /\ Step("gate", s, "org", "org") \in Steps(B)
        /\ \A i \in 1..4 : Step("new", s, kinds[i], "org") \in Steps(B)
    BY <1>1, <2>1, <2>2, <2>3, GroupRanked
  <2> QED BY <2>4, <2>5
<1>3. Ranked(s, A, {5}) /\ Steps(A) = {Step("enrich", "Jinglin", "enrich", "enrich")}
  <2>1. RankOf["enrich"] = 5 BY DEF RankOf
  <2> QED BY <1>1, <2>1, LoneRanked
<1> HIDE DEF A, B
<1>4. Ranked(s, A \o B, 1..39) /\ Adds(A, B)
  <2> DEFINE R == {5}
             Q == {6} \cup (7..11)
             T == 1..39
  <2>1. (\A r \in R, q \in Q : r < q) /\ \A r \in R \cup Q : r \in T OBVIOUS
  <2>2. Ranked(s, A, R) /\ Ranked(s, B, Q) BY <1>2, <1>3
  <2> HIDE DEF R, Q, T
  <2>3. Ranked(s, A \o B, T) /\ Adds(A, B) BY <2>1, <2>2, Goes
  <2> QED BY <2>3 DEF T
<1>6. ASSUME NEW t \in StepsOf(s) PROVE t \in Steps(A \o B)
  BY <1>2, <1>3, <1>4, <1>6 DEF Adds, StepsOf, PartiesOf, GatesOf, NewOf, OwnOf, AlwaysOf, LonelyOf, GateOf, Whose
<1> QED BY <1>4, <1>6 DEF Made, French, A, B

LEMMA ContactGroup ==
  LET A == Group("tuopai", "contact", <<"contact", "contact", "contact">>) IN
  /\ Ranked("tuopai", A, 9..10) /\ Step("gate", "tuopai", "contact", "contact") \in Steps(A)
  /\ Step("new", "tuopai", "contact", "contact") \in Steps(A)
<1> DEFINE s == "tuopai"
           kinds == <<"contact", "contact", "contact">>
<1>1. /\ s \in Scripts /\ "contact" \in GatesOf[s] \cap NewOf[s] /\ GateOf(s, "contact") = "contact"
      /\ GateRank["contact"] = 9 /\ RankOf["contact"] = 10 /\ "contact" \in Repeated
  BY DEF Scripts, ScriptOf, GatesOf, NewOf, GateOf, GateRank, RankOf, Repeated
<1>2. kinds \in Seq({"contact"}) /\ Len(kinds) = 3 BY Three
<1> HIDE DEF kinds, s
<1>3. GateRank["contact"] < RankOf["contact"] /\ Len(kinds) > 0 BY <1>1, <1>2
<1>4. /\ Ranked(s, Group(s, "contact", kinds), {GateRank["contact"]} \cup {RankOf["contact"]})
      /\ Step("gate", s, "contact", "contact") \in Steps(Group(s, "contact", kinds))
      /\ Step("new", s, "contact", "contact") \in Steps(Group(s, "contact", kinds))
  BY <1>1, <1>2, <1>3, GroupOfOne
<1>5. Ranked(s, Group(s, "contact", kinds), 9..10) BY <1>1, <1>4, Widened
<1> QED BY <1>4, <1>5 DEF kinds, s

(* The farms follow each other.                                            *)
Farm == Step("new", "tuopai", "farm", "farm")
Farms(A) == \E n \in Nat : \A i \in 1..FARMS : n + i \in 1..Len(A) /\ A[n + i] = Farm

LEMMA Farming ==
  ASSUME NEW s, NEW A, NEW B, NEW R, NEW Q, Ranked(s, A, R), Ranked(s, B, Q), Farms(A) \/ Farms(B)
  PROVE  Farms(A \o B)
<1> DEFINE C == A \o B
<1>1. /\ Len(A) \in Nat /\ Len(B) \in Nat /\ Len(C) = Len(A) + Len(B)
      /\ \A i \in 1..Len(A) : i \in 1..Len(C) /\ C[i] = A[i]
      /\ \A i \in 1..Len(B) : Len(A) + i \in 1..Len(C) /\ C[Len(A) + i] = B[i]
  BY DEF Ranked
<1> HIDE DEF C
<1>2. CASE Farms(A)
  <2>1. PICK n \in Nat : \A i \in 1..FARMS : n + i \in 1..Len(A) /\ A[n + i] = Farm BY <1>2 DEF Farms
  <2>2. \A i \in 1..FARMS : n + i \in 1..Len(C) /\ C[n + i] = Farm BY <1>1, <2>1
  <2> QED BY <2>2 DEF Farms, C
<1>3. CASE Farms(B)
  <2>1. PICK n \in Nat : \A i \in 1..FARMS : n + i \in 1..Len(B) /\ B[n + i] = Farm BY <1>3 DEF Farms
  <2> DEFINE m == Len(A) + n
  <2>2. m \in Nat BY <1>1
  <2>3. \A i \in 1..FARMS : Len(A) + (n + i) = m + i BY <1>1
  <2>4. \A i \in 1..FARMS : Len(A) + (n + i) \in 1..Len(C) /\ C[Len(A) + (n + i)] = Farm BY <1>1, <2>1
  <2> HIDE DEF m
  <2>5. \A i \in 1..FARMS : m + i \in 1..Len(C) /\ C[m + i] = Farm BY <2>3, <2>4
  <2> QED BY <2>2, <2>5 DEF Farms, C
<1> QED BY <1>2, <1>3

LEMMA FarmGroup ==
  LET A == Group("tuopai", "farm", [i \in 1..FARMS |-> "farm"]) IN
  /\ Ranked("tuopai", A, 22..23) /\ Step("gate", "tuopai", "farm", "farm") \in Steps(A) /\ Farms(A)
<1> DEFINE s == "tuopai"
           kinds == [i \in 1..FARMS |-> "farm"]
<1>0. Farms(Group(s, "farm", kinds))
  <2> DEFINE T == {"farm"}
             B == [i \in 1..FARMS |-> Farm]
             C == <<Step("gate", s, "farm", "farm")>> \o B
  <2>1. FARMS \in Nat BY ImportsAssumption DEF ImportsAssumption
  <2>2. Len(kinds) = FARMS /\ \A i \in 1..FARMS : kinds[i] = "farm" BY <2>1
  <2>3. Group(s, "farm", kinds) = C BY <2>2 DEF Group, Farm
  <2>4. B \in Seq({Farm}) /\ Len(B) = FARMS /\ \A i \in 1..FARMS : B[i] = Farm BY <2>1
  <2>5. \A i \in 1..FARMS : 1 + i \in 1..Len(C) /\ C[1 + i] = Farm
    <3> HIDE DEF B
    <3> QED BY <2>1, <2>4
  <2> HIDE DEF B, C, kinds
  <2>6. Farms(C) BY <2>5 DEF Farms
  <2> QED BY <2>3, <2>6
<1>1. /\ s \in Scripts /\ "farm" \in GatesOf[s] \cap NewOf[s] /\ GateOf(s, "farm") = "farm"
      /\ GateRank["farm"] = 22 /\ RankOf["farm"] = 23 /\ "farm" \in Repeated
  BY DEF Scripts, ScriptOf, GatesOf, NewOf, GateOf, GateRank, RankOf, Repeated
<1>2. kinds \in Seq({"farm"}) BY ImportsAssumption DEF ImportsAssumption
<1> HIDE DEF kinds, s
<1>3. GateRank["farm"] < RankOf["farm"] BY <1>1
<1>4. /\ Ranked(s, Group(s, "farm", kinds), {GateRank["farm"]} \cup {RankOf["farm"]})
      /\ Step("gate", s, "farm", "farm") \in Steps(Group(s, "farm", kinds))
  BY <1>1, <1>2, <1>3, GroupOfOne
<1>5. Ranked(s, Group(s, "farm", kinds), 22..23) BY <1>1, <1>4, Widened
<1> QED BY <1>0, <1>4, <1>5 DEF kinds, s

LEMMA UnitGroup ==
  LET A == Group("liangmei", "unit", <<"unit", "subunit", "subunit">>) IN
  /\ Ranked("liangmei", A, 17..20) /\ Step("gate", "liangmei", "unit", "unit") \in Steps(A)
  /\ \A k \in {"unit", "subunit"} : Step("new", "liangmei", k, "unit") \in Steps(A)
<1> DEFINE s == "liangmei"
           A == Group("liangmei", "unit", <<"unit", "subunit", "subunit">>)
           R == 18..20
<1>1. /\ s \in Scripts /\ "unit" \in GatesOf[s] /\ "unit" \in NewOf[s] /\ "subunit" \in NewOf[s]
      /\ GateOf(s, "unit") = "unit" /\ GateOf(s, "subunit") = "unit"
      /\ GateRank["unit"] = 17 /\ RankOf["unit"] = 18 /\ RankOf["subunit"] = 20
      /\ "subunit" \in Repeated
  BY DEF Scripts, ScriptOf, GatesOf, NewOf, GateOf, GateRank, RankOf, Repeated
<1>2. Under({GateRank["unit"]}, R) BY <1>1 DEF Under
<1>3. \A j \in {"unit", "subunit"} : RankOf[j] \in R BY <1>1
<1>4. RankOf["unit"] < RankOf["subunit"] BY <1>1
<1>5. \A r \in {GateRank["unit"]} \cup R : r \in 17..20 BY <1>1
<1> HIDE DEF R
<1>6. /\ Ranked(s, A, {GateRank["unit"]} \cup R) /\ Step("gate", s, "unit", "unit") \in Steps(A)
      /\ \A j \in {"unit", "subunit", "subunit"} : Step("new", s, j, "unit") \in Steps(A)
  <2>1. \A j \in {"unit", "subunit", "subunit"} : GateOf(s, j) = "unit" /\ RankOf[j] \in R
    BY <1>1, <1>3
  <2> HIDE DEF s
  <2>2. /\ Ranked(s, Group(s, "unit", <<"unit", "subunit", "subunit">>), {GateRank["unit"]} \cup R)
        /\ Step("gate", s, "unit", "unit") \in Steps(Group(s, "unit", <<"unit", "subunit", "subunit">>))
        /\ \A j \in {"unit", "subunit", "subunit"} :
             Step("new", s, j, "unit") \in Steps(Group(s, "unit", <<"unit", "subunit", "subunit">>))
    BY <1>1, <1>2, <1>4, <2>1, GroupThree, Zenon
  <2> QED BY <2>2 DEF s
<1> QED BY <1>5, <1>6, Widened

LEMMA GoodsGroup ==
  LET A == Group("demo", "product", <<"product", "sku", "live">>) IN
  /\ Ranked("demo", A, 24..27) /\ Step("gate", "demo", "product", "product") \in Steps(A)
  /\ \A k \in {"product", "sku", "live"} : Step("new", "demo", k, "product") \in Steps(A)
<1> DEFINE s == "demo"
           R == 25..27
<1>1. /\ s \in Scripts /\ "product" \in GatesOf[s]
      /\ "product" \in NewOf[s] /\ "sku" \in NewOf[s] /\ "live" \in NewOf[s]
      /\ GateRank["product"] = 24 /\ RankOf["product"] = 25 /\ RankOf["sku"] = 26 /\ RankOf["live"] = 27
  BY DEF Scripts, ScriptOf, GatesOf, NewOf, GateRank, RankOf
<1>2. \A j \in {"product", "sku", "live"} : GateOf(s, j) = "product" BY DEF GateOf
<1>3. Under({GateRank["product"]}, R) BY <1>1 DEF Under
<1>4. \A j \in {"product", "sku", "live"} : RankOf[j] \in R BY <1>1
<1>5. RankOf["product"] < RankOf["sku"] /\ RankOf["product"] < RankOf["live"] /\ RankOf["sku"] < RankOf["live"]
  BY <1>1
<1>6. \A r \in {GateRank["product"]} \cup R : r \in 24..27 BY <1>1
<1> HIDE DEF R, s
<1>7. \A j \in {"product", "sku", "live"} : GateOf(s, j) = "product" /\ RankOf[j] \in R BY <1>2, <1>4
<1>8. /\ Ranked(s, Group(s, "product", <<"product", "sku", "live">>), {GateRank["product"]} \cup R)
      /\ Step("gate", s, "product", "product") \in Steps(Group(s, "product", <<"product", "sku", "live">>))
      /\ \A j \in {"product", "sku", "live"} :
           Step("new", s, j, "product") \in Steps(Group(s, "product", <<"product", "sku", "live">>))
  <2>1. RankOf["sku"] < RankOf["live"] \/ ("sku" = "live" /\ "sku" \in Repeated) BY <1>1
  <2> QED BY <1>1, <1>3, <1>5, <1>7, <2>1, GroupThree, Zenon
<1> QED BY <1>6, <1>8, Widened DEF s

LEMMA HzbIsMade == Made("hzb", Hzb)
<1> DEFINE s == "hzb"
           P1 == EnsureParty("HZB")
           P2 == EnsureParty("Jinglin")
           P3 == Own("hzb", <<"cert", "permit">>)
           P4 == Group("hzb", "batch", <<"unit", "batch", "passed">>)
           P5 == Group("hzb", "product", <<"product">>)
           P6 == Own("hzb", <<"sku">>)
           P7 == <<Step("new", "hzb", "live", "product")>>
           P8 == Lone("lot", "hzb")
           P9 == Lone("place", "hzb")
           P10 == Paid("hzb")
           P11 == Own("hzb", <<"used">>)
           P12 == Lone("deliver", "hzb")
           P13 == Lone("expire", "hzb")
           A2 == P1 \o P2
           A3 == A2 \o P3
           A4 == A3 \o P4
           A5 == A4 \o P5
           A6 == A5 \o P6
           A7 == A6 \o P7
           A8 == A7 \o P8
           A9 == A8 \o P9
           A10 == A9 \o P10
           A11 == A10 \o P11
           A12 == A11 \o P12
           A13 == A12 \o P13
<1>1. /\ s \in Scripts
      /\ "HZB" \in PartiesOf[s]
      /\ "Jinglin" \in PartiesOf[s]
      /\ s \in Traders
      /\ "sku" \in OwnOf[s] /\ RankOf["sku"] = 26
      /\ "lot" \in LonelyOf[s] /\ Whose(s, "lot") = "hzb" /\ RankOf["lot"] = 28
      /\ "place" \in LonelyOf[s] /\ Whose(s, "place") = "hzb" /\ RankOf["place"] = 29
      /\ "used" \in OwnOf[s] /\ RankOf["used"] = 37
      /\ "deliver" \in LonelyOf[s] /\ Whose(s, "deliver") = "hzb" /\ RankOf["deliver"] = 38
      /\ "expire" \in LonelyOf[s] /\ Whose(s, "expire") = "hzb" /\ RankOf["expire"] = 39
  BY DEF Scripts, ScriptOf, Traders, PartiesOf, OwnOf, AlwaysOf, LonelyOf, Whose, RankOf
<1>2. Ranked(s, P1, 1..2) /\ \A t \in {Step("register", "HZB", "org", "org"),
        Step("new", "HZB", "approved", "org")} : t \in Steps(P1)
  BY <1>1, PartyRanked, Widened
<1>3. Ranked(s, P2, 3..4) /\ \A t \in {Step("register", "Jinglin", "org", "org"),
        Step("new", "Jinglin", "approved", "org")} : t \in Steps(P2)
  BY <1>1, PartyRanked, Widened
<1>4. Ranked(s, P3, 13..14) /\ \A t \in {Step("own", s, "cert", "cert"),
        Step("own", s, "permit", "permit")} : t \in Steps(P3)
  BY <1>1, OwnPapers
<1>5. Ranked(s, P4, 16..21) /\ \A t \in {Step("gate", s, "batch", "batch"),
        Step("new", s, "unit", "batch"),
        Step("new", s, "batch", "batch"),
        Step("new", s, "passed", "batch")} : t \in Steps(P4)
  BY <1>1, BatchGroup
<1>6. Ranked(s, P5, 24..25) /\ \A t \in {Step("gate", s, "product", "product"),
        Step("new", s, "product", "product")} : t \in Steps(P5)
  BY <1>1, ProductGroup
<1>7. Ranked(s, P6, {26}) /\ \A t \in {Step("own", s, "sku", "sku")} : t \in Steps(P6)
  BY <1>1, OwnOne
<1>8. Ranked(s, P7, {27}) /\ \A t \in {Step("new", s, "live", "product")} : t \in Steps(P7)
  BY <1>1, ProductGroup
<1>9. Ranked(s, P8, {28}) /\ \A t \in {Step("lot", "hzb", "lot", "lot")} : t \in Steps(P8)
  BY <1>1, LoneRanked
<1>10. Ranked(s, P9, {29}) /\ \A t \in {Step("place", "hzb", "place", "place")} : t \in Steps(P9)
  BY <1>1, LoneRanked
<1>11. /\ Ranked(s, P10, 32..36) /\ Step("pay", s, "pay", "pay") \in Steps(P10)
       /\ \A k \in AlwaysOf[s] : Step("always", s, k, k) \in Steps(P10)
  BY <1>1, PaidRanked
<1>12. Ranked(s, P11, {37}) /\ \A t \in {Step("own", s, "used", "used")} : t \in Steps(P11)
  BY <1>1, OwnOne
<1>13. Ranked(s, P12, {38}) /\ \A t \in {Step("deliver", "hzb", "deliver", "deliver")} : t \in Steps(P12)
  BY <1>1, LoneRanked
<1>14. Ranked(s, P13, {39}) /\ \A t \in {Step("expire", "hzb", "expire", "expire")} : t \in Steps(P13)
  BY <1>1, LoneRanked
<1>15. Hzb = A13 BY DEF Hzb
<1> HIDE DEF P1, P2, P3, P4, P5, P6, P7, P8, P9, P10, P11, P12, P13
<1>16. Ranked(s, A2, 1..4) /\ Adds(P1, P2)
  <2> DEFINE R == 1..2
             Q == 3..4
             T == 1..4
  <2>1. (\A r \in R, q \in Q : r < q) /\ \A r \in R \cup Q : r \in T OBVIOUS
  <2>2. Ranked(s, P1, R) /\ Ranked(s, P2, Q) BY <1>2, <1>3
  <2> HIDE DEF R, Q, T
  <2>3. Ranked(s, A2, T) /\ Adds(P1, P2) BY <2>1, <2>2, Goes
  <2> QED BY <2>3 DEF T
<1>17. Ranked(s, A3, 1..14) /\ Adds(A2, P3)
  <2> DEFINE R == 1..4
             Q == 13..14
             T == 1..14
  <2>1. (\A r \in R, q \in Q : r < q) /\ \A r \in R \cup Q : r \in T OBVIOUS
  <2>2. Ranked(s, A2, R) /\ Ranked(s, P3, Q) BY <1>16, <1>4
  <2> HIDE DEF R, Q, T, A2
  <2>3. Ranked(s, A3, T) /\ Adds(A2, P3) BY <2>1, <2>2, Goes
  <2> QED BY <2>3 DEF T
<1>18. Ranked(s, A4, 1..21) /\ Adds(A3, P4)
  <2> DEFINE R == 1..14
             Q == 16..21
             T == 1..21
  <2>1. (\A r \in R, q \in Q : r < q) /\ \A r \in R \cup Q : r \in T OBVIOUS
  <2>2. Ranked(s, A3, R) /\ Ranked(s, P4, Q) BY <1>17, <1>5
  <2> HIDE DEF R, Q, T, A3
  <2>3. Ranked(s, A4, T) /\ Adds(A3, P4) BY <2>1, <2>2, Goes
  <2> QED BY <2>3 DEF T
<1>19. Ranked(s, A5, 1..25) /\ Adds(A4, P5)
  <2> DEFINE R == 1..21
             Q == 24..25
             T == 1..25
  <2>1. (\A r \in R, q \in Q : r < q) /\ \A r \in R \cup Q : r \in T OBVIOUS
  <2>2. Ranked(s, A4, R) /\ Ranked(s, P5, Q) BY <1>18, <1>6
  <2> HIDE DEF R, Q, T, A4
  <2>3. Ranked(s, A5, T) /\ Adds(A4, P5) BY <2>1, <2>2, Goes
  <2> QED BY <2>3 DEF T
<1>20. Ranked(s, A6, 1..26) /\ Adds(A5, P6)
  <2> DEFINE R == 1..25
             Q == {26}
             T == 1..26
  <2>1. (\A r \in R, q \in Q : r < q) /\ \A r \in R \cup Q : r \in T OBVIOUS
  <2>2. Ranked(s, A5, R) /\ Ranked(s, P6, Q) BY <1>19, <1>7
  <2> HIDE DEF R, Q, T, A5
  <2>3. Ranked(s, A6, T) /\ Adds(A5, P6) BY <2>1, <2>2, Goes
  <2> QED BY <2>3 DEF T
<1>21. Ranked(s, A7, 1..27) /\ Adds(A6, P7)
  <2> DEFINE R == 1..26
             Q == {27}
             T == 1..27
  <2>1. (\A r \in R, q \in Q : r < q) /\ \A r \in R \cup Q : r \in T OBVIOUS
  <2>2. Ranked(s, A6, R) /\ Ranked(s, P7, Q) BY <1>20, <1>8
  <2> HIDE DEF R, Q, T, A6
  <2>3. Ranked(s, A7, T) /\ Adds(A6, P7) BY <2>1, <2>2, Goes
  <2> QED BY <2>3 DEF T
<1>22. Ranked(s, A8, 1..28) /\ Adds(A7, P8)
  <2> DEFINE R == 1..27
             Q == {28}
             T == 1..28
  <2>1. (\A r \in R, q \in Q : r < q) /\ \A r \in R \cup Q : r \in T OBVIOUS
  <2>2. Ranked(s, A7, R) /\ Ranked(s, P8, Q) BY <1>21, <1>9
  <2> HIDE DEF R, Q, T, A7
  <2>3. Ranked(s, A8, T) /\ Adds(A7, P8) BY <2>1, <2>2, Goes
  <2> QED BY <2>3 DEF T
<1>23. Ranked(s, A9, 1..29) /\ Adds(A8, P9)
  <2> DEFINE R == 1..28
             Q == {29}
             T == 1..29
  <2>1. (\A r \in R, q \in Q : r < q) /\ \A r \in R \cup Q : r \in T OBVIOUS
  <2>2. Ranked(s, A8, R) /\ Ranked(s, P9, Q) BY <1>22, <1>10
  <2> HIDE DEF R, Q, T, A8
  <2>3. Ranked(s, A9, T) /\ Adds(A8, P9) BY <2>1, <2>2, Goes
  <2> QED BY <2>3 DEF T
<1>24. Ranked(s, A10, 1..36) /\ Adds(A9, P10)
  <2> DEFINE R == 1..29
             Q == 32..36
             T == 1..36
  <2>1. (\A r \in R, q \in Q : r < q) /\ \A r \in R \cup Q : r \in T OBVIOUS
  <2>2. Ranked(s, A9, R) /\ Ranked(s, P10, Q) BY <1>23, <1>11
  <2> HIDE DEF R, Q, T, A9
  <2>3. Ranked(s, A10, T) /\ Adds(A9, P10) BY <2>1, <2>2, Goes
  <2> QED BY <2>3 DEF T
<1>25. Ranked(s, A11, 1..37) /\ Adds(A10, P11)
  <2> DEFINE R == 1..36
             Q == {37}
             T == 1..37
  <2>1. (\A r \in R, q \in Q : r < q) /\ \A r \in R \cup Q : r \in T OBVIOUS
  <2>2. Ranked(s, A10, R) /\ Ranked(s, P11, Q) BY <1>24, <1>12
  <2> HIDE DEF R, Q, T, A10
  <2>3. Ranked(s, A11, T) /\ Adds(A10, P11) BY <2>1, <2>2, Goes
  <2> QED BY <2>3 DEF T
<1>26. Ranked(s, A12, 1..38) /\ Adds(A11, P12)
  <2> DEFINE R == 1..37
             Q == {38}
             T == 1..38
  <2>1. (\A r \in R, q \in Q : r < q) /\ \A r \in R \cup Q : r \in T OBVIOUS
  <2>2. Ranked(s, A11, R) /\ Ranked(s, P12, Q) BY <1>25, <1>13
  <2> HIDE DEF R, Q, T, A11
  <2>3. Ranked(s, A12, T) /\ Adds(A11, P12) BY <2>1, <2>2, Goes
  <2> QED BY <2>3 DEF T
<1>27. Ranked(s, A13, 1..39) /\ Adds(A12, P13)
  <2> DEFINE R == 1..38
             Q == {39}
             T == 1..39
  <2>1. (\A r \in R, q \in Q : r < q) /\ \A r \in R \cup Q : r \in T OBVIOUS
  <2>2. Ranked(s, A12, R) /\ Ranked(s, P13, Q) BY <1>26, <1>14
  <2> HIDE DEF R, Q, T, A12
  <2>3. Ranked(s, A13, T) /\ Adds(A12, P13) BY <2>1, <2>2, Goes
  <2> QED BY <2>3 DEF T
<1>28. ASSUME NEW t, t \in Steps(P1)
               \/ t \in Steps(P2)
               \/ t \in Steps(P3)
               \/ t \in Steps(P4)
               \/ t \in Steps(P5)
               \/ t \in Steps(P6)
               \/ t \in Steps(P7)
               \/ t \in Steps(P8)
               \/ t \in Steps(P9)
               \/ t \in Steps(P10)
               \/ t \in Steps(P11)
               \/ t \in Steps(P12)
               \/ t \in Steps(P13)
      PROVE  t \in Steps(A13)
  BY <1>28, <1>16, <1>17, <1>18, <1>19, <1>20, <1>21, <1>22, <1>23, <1>24, <1>25, <1>26, <1>27, Zenon DEF Adds
<1> HIDE DEF A13
<1>29. \A o \in PartiesOf[s] : /\ Step("register", o, "org", "org") \in Steps(A13)
                                /\ Step("new", o, "approved", "org") \in Steps(A13)
  BY <1>2, <1>3, <1>28 DEF PartiesOf
<1>30. \A k \in GatesOf[s] : Step("gate", s, k, k) \in Steps(A13)
  BY <1>5, <1>6, <1>28 DEF GatesOf
<1>31. \A k \in NewOf[s] \ {"farm"} : Step("new", s, k, GateOf(s, k)) \in Steps(A13)
  BY <1>5, <1>6, <1>8, <1>28 DEF NewOf, GateOf
<1>32. \A k \in OwnOf[s] : Step("own", s, k, k) \in Steps(A13)
  BY <1>4, <1>7, <1>12, <1>28 DEF OwnOf
<1>33. \A k \in AlwaysOf[s] : Step("always", s, k, k) \in Steps(A13)
  BY <1>11, <1>28
<1>34. \A op \in LonelyOf[s] : Step(op, Whose(s, op), op, op) \in Steps(A13)
  BY <1>9, <1>10, <1>11, <1>13, <1>14, <1>28 DEF LonelyOf, Whose
<1> HIDE DEF s
<1>35. ASSUME NEW t \in StepsOf(s), ~(t.op = "new" /\ t.row[2] = "farm") PROVE t \in Steps(A13)
  <2>1. \/ \E o \in PartiesOf[s] : t \in {Step("register", o, "org", "org"), Step("new", o, "approved", "org")}
        \/ \E g \in GatesOf[s] : t = Step("gate", s, g, g)
        \/ \E j \in NewOf[s] : t = Step("new", s, j, GateOf(s, j))
        \/ \E j \in OwnOf[s] : t = Step("own", s, j, j)
        \/ \E j \in AlwaysOf[s] : t = Step("always", s, j, j)
        \/ \E op \in LonelyOf[s] : t = Step(op, Whose(s, op), op, op)
    BY DEF StepsOf
  <2>2. ASSUME NEW j \in NewOf[s], t = Step("new", s, j, GateOf(s, j)) PROVE t \in Steps(A13)
    <3>1. j # "farm" BY <1>35, <2>2 DEF Step
    <3> QED BY <2>2, <3>1, <1>31
  <2> QED BY <2>1, <2>2, <1>29, <1>30, <1>32, <1>33, <1>34
<1>36. Ranked(s, A13, 1..39) BY <1>27, Widened
<1> QED BY <1>15, <1>35, <1>36 DEF Made, s

LEMMA TuopaiIsMade == Made("tuopai", Tuopai) /\ Farms(Tuopai)
<1> DEFINE s == "tuopai"
           P1 == EnsureParty("Tuopai")
           P2 == EnsureParty("Jinglin")
           P3 == Own("tuopai", <<"profile">>)
           P4 == Group("tuopai", "contact", <<"contact", "contact", "contact">>)
           P5 == Lone("sales", "HZB")
           P6 == Own("tuopai", <<"cert", "permit">>)
           P7 == Lone("overdue", "hzb")
           P8 == Group("tuopai", "farm", [i \in 1..FARMS |-> "farm"])
           P9 == Group("tuopai", "product", <<"product">>)
           P10 == Own("tuopai", <<"sku">>)
           P11 == <<Step("new", "tuopai", "live", "product")>>
           P12 == Lone("lot", "tuopai")
           P13 == Lone("place", "tuopai")
           P14 == Paid("tuopai")
           A2 == P1 \o P2
           A3 == A2 \o P3
           A4 == A3 \o P4
           A5 == A4 \o P5
           A6 == A5 \o P6
           A7 == A6 \o P7
           A8 == A7 \o P8
           A9 == A8 \o P9
           A10 == A9 \o P10
           A11 == A10 \o P11
           A12 == A11 \o P12
           A13 == A12 \o P13
           A14 == A13 \o P14
<1>1. /\ s \in Scripts
      /\ "Tuopai" \in PartiesOf[s]
      /\ "Jinglin" \in PartiesOf[s]
      /\ "profile" \in OwnOf[s] /\ RankOf["profile"] = 8
      /\ "sales" \in LonelyOf[s] /\ Whose(s, "sales") = "HZB" /\ RankOf["sales"] = 12
      /\ "overdue" \in LonelyOf[s] /\ Whose(s, "overdue") = "hzb" /\ RankOf["overdue"] = 15
      /\ s \in Traders
      /\ "sku" \in OwnOf[s] /\ RankOf["sku"] = 26
      /\ "lot" \in LonelyOf[s] /\ Whose(s, "lot") = "tuopai" /\ RankOf["lot"] = 28
      /\ "place" \in LonelyOf[s] /\ Whose(s, "place") = "tuopai" /\ RankOf["place"] = 29
  BY DEF Scripts, ScriptOf, Traders, PartiesOf, OwnOf, AlwaysOf, LonelyOf, Whose, RankOf
<1>2. Ranked(s, P1, 1..2) /\ \A t \in {Step("register", "Tuopai", "org", "org"),
        Step("new", "Tuopai", "approved", "org")} : t \in Steps(P1)
  BY <1>1, PartyRanked, Widened
<1>3. Ranked(s, P2, 3..4) /\ \A t \in {Step("register", "Jinglin", "org", "org"),
        Step("new", "Jinglin", "approved", "org")} : t \in Steps(P2)
  BY <1>1, PartyRanked, Widened
<1>4. Ranked(s, P3, {8}) /\ \A t \in {Step("own", s, "profile", "profile")} : t \in Steps(P3)
  BY <1>1, OwnOne
<1>5. Ranked(s, P4, 9..10) /\ \A t \in {Step("gate", s, "contact", "contact"),
        Step("new", s, "contact", "contact")} : t \in Steps(P4)
  BY <1>1, ContactGroup
<1>6. Ranked(s, P5, {12}) /\ \A t \in {Step("sales", "HZB", "sales", "sales")} : t \in Steps(P5)
  BY <1>1, LoneRanked
<1>7. Ranked(s, P6, 13..14) /\ \A t \in {Step("own", s, "cert", "cert"),
        Step("own", s, "permit", "permit")} : t \in Steps(P6)
  BY <1>1, OwnPapers
<1>8. Ranked(s, P7, {15}) /\ \A t \in {Step("overdue", "hzb", "overdue", "overdue")} : t \in Steps(P7)
  BY <1>1, LoneRanked
<1>9. Ranked(s, P8, 22..23) /\ Farms(P8) /\ \A t \in {Step("gate", s, "farm", "farm")} : t \in Steps(P8)
  BY <1>1, FarmGroup
<1>10. Ranked(s, P9, 24..25) /\ \A t \in {Step("gate", s, "product", "product"),
        Step("new", s, "product", "product")} : t \in Steps(P9)
  BY <1>1, ProductGroup
<1>11. Ranked(s, P10, {26}) /\ \A t \in {Step("own", s, "sku", "sku")} : t \in Steps(P10)
  BY <1>1, OwnOne
<1>12. Ranked(s, P11, {27}) /\ \A t \in {Step("new", s, "live", "product")} : t \in Steps(P11)
  BY <1>1, ProductGroup
<1>13. Ranked(s, P12, {28}) /\ \A t \in {Step("lot", "tuopai", "lot", "lot")} : t \in Steps(P12)
  BY <1>1, LoneRanked
<1>14. Ranked(s, P13, {29}) /\ \A t \in {Step("place", "tuopai", "place", "place")} : t \in Steps(P13)
  BY <1>1, LoneRanked
<1>15. /\ Ranked(s, P14, 32..36) /\ Step("pay", s, "pay", "pay") \in Steps(P14)
       /\ \A k \in AlwaysOf[s] : Step("always", s, k, k) \in Steps(P14)
  BY <1>1, PaidRanked
<1>16. Tuopai = A14 BY DEF Tuopai
<1> HIDE DEF P1, P2, P3, P4, P5, P6, P7, P8, P9, P10, P11, P12, P13, P14
<1>17. Ranked(s, A2, 1..4) /\ Adds(P1, P2)
  <2> DEFINE R == 1..2
             Q == 3..4
             T == 1..4
  <2>1. (\A r \in R, q \in Q : r < q) /\ \A r \in R \cup Q : r \in T OBVIOUS
  <2>2. Ranked(s, P1, R) /\ Ranked(s, P2, Q) BY <1>2, <1>3
  <2> HIDE DEF R, Q, T
  <2>3. Ranked(s, A2, T) /\ Adds(P1, P2) BY <2>1, <2>2, Goes
  <2> QED BY <2>3 DEF T
<1>18. Ranked(s, A3, 1..8) /\ Adds(A2, P3)
  <2> DEFINE R == 1..4
             Q == {8}
             T == 1..8
  <2>1. (\A r \in R, q \in Q : r < q) /\ \A r \in R \cup Q : r \in T OBVIOUS
  <2>2. Ranked(s, A2, R) /\ Ranked(s, P3, Q) BY <1>17, <1>4
  <2> HIDE DEF R, Q, T, A2
  <2>3. Ranked(s, A3, T) /\ Adds(A2, P3) BY <2>1, <2>2, Goes
  <2> QED BY <2>3 DEF T
<1>19. Ranked(s, A4, 1..10) /\ Adds(A3, P4)
  <2> DEFINE R == 1..8
             Q == 9..10
             T == 1..10
  <2>1. (\A r \in R, q \in Q : r < q) /\ \A r \in R \cup Q : r \in T OBVIOUS
  <2>2. Ranked(s, A3, R) /\ Ranked(s, P4, Q) BY <1>18, <1>5
  <2> HIDE DEF R, Q, T, A3
  <2>3. Ranked(s, A4, T) /\ Adds(A3, P4) BY <2>1, <2>2, Goes
  <2> QED BY <2>3 DEF T
<1>20. Ranked(s, A5, 1..12) /\ Adds(A4, P5)
  <2> DEFINE R == 1..10
             Q == {12}
             T == 1..12
  <2>1. (\A r \in R, q \in Q : r < q) /\ \A r \in R \cup Q : r \in T OBVIOUS
  <2>2. Ranked(s, A4, R) /\ Ranked(s, P5, Q) BY <1>19, <1>6
  <2> HIDE DEF R, Q, T, A4
  <2>3. Ranked(s, A5, T) /\ Adds(A4, P5) BY <2>1, <2>2, Goes
  <2> QED BY <2>3 DEF T
<1>21. Ranked(s, A6, 1..14) /\ Adds(A5, P6)
  <2> DEFINE R == 1..12
             Q == 13..14
             T == 1..14
  <2>1. (\A r \in R, q \in Q : r < q) /\ \A r \in R \cup Q : r \in T OBVIOUS
  <2>2. Ranked(s, A5, R) /\ Ranked(s, P6, Q) BY <1>20, <1>7
  <2> HIDE DEF R, Q, T, A5
  <2>3. Ranked(s, A6, T) /\ Adds(A5, P6) BY <2>1, <2>2, Goes
  <2> QED BY <2>3 DEF T
<1>22. Ranked(s, A7, 1..15) /\ Adds(A6, P7)
  <2> DEFINE R == 1..14
             Q == {15}
             T == 1..15
  <2>1. (\A r \in R, q \in Q : r < q) /\ \A r \in R \cup Q : r \in T OBVIOUS
  <2>2. Ranked(s, A6, R) /\ Ranked(s, P7, Q) BY <1>21, <1>8
  <2> HIDE DEF R, Q, T, A6
  <2>3. Ranked(s, A7, T) /\ Adds(A6, P7) BY <2>1, <2>2, Goes
  <2> QED BY <2>3 DEF T
<1>23. Ranked(s, A8, 1..23) /\ Adds(A7, P8)
  <2> DEFINE R == 1..15
             Q == 22..23
             T == 1..23
  <2>1. (\A r \in R, q \in Q : r < q) /\ \A r \in R \cup Q : r \in T OBVIOUS
  <2>2. Ranked(s, A7, R) /\ Ranked(s, P8, Q) BY <1>22, <1>9
  <2> HIDE DEF R, Q, T, A7
  <2>3. Ranked(s, A8, T) /\ Adds(A7, P8) BY <2>1, <2>2, Goes
  <2> QED BY <2>3 DEF T
<1>24. Ranked(s, A9, 1..25) /\ Adds(A8, P9)
  <2> DEFINE R == 1..23
             Q == 24..25
             T == 1..25
  <2>1. (\A r \in R, q \in Q : r < q) /\ \A r \in R \cup Q : r \in T OBVIOUS
  <2>2. Ranked(s, A8, R) /\ Ranked(s, P9, Q) BY <1>23, <1>10
  <2> HIDE DEF R, Q, T, A8
  <2>3. Ranked(s, A9, T) /\ Adds(A8, P9) BY <2>1, <2>2, Goes
  <2> QED BY <2>3 DEF T
<1>25. Ranked(s, A10, 1..26) /\ Adds(A9, P10)
  <2> DEFINE R == 1..25
             Q == {26}
             T == 1..26
  <2>1. (\A r \in R, q \in Q : r < q) /\ \A r \in R \cup Q : r \in T OBVIOUS
  <2>2. Ranked(s, A9, R) /\ Ranked(s, P10, Q) BY <1>24, <1>11
  <2> HIDE DEF R, Q, T, A9
  <2>3. Ranked(s, A10, T) /\ Adds(A9, P10) BY <2>1, <2>2, Goes
  <2> QED BY <2>3 DEF T
<1>26. Ranked(s, A11, 1..27) /\ Adds(A10, P11)
  <2> DEFINE R == 1..26
             Q == {27}
             T == 1..27
  <2>1. (\A r \in R, q \in Q : r < q) /\ \A r \in R \cup Q : r \in T OBVIOUS
  <2>2. Ranked(s, A10, R) /\ Ranked(s, P11, Q) BY <1>25, <1>12
  <2> HIDE DEF R, Q, T, A10
  <2>3. Ranked(s, A11, T) /\ Adds(A10, P11) BY <2>1, <2>2, Goes
  <2> QED BY <2>3 DEF T
<1>27. Ranked(s, A12, 1..28) /\ Adds(A11, P12)
  <2> DEFINE R == 1..27
             Q == {28}
             T == 1..28
  <2>1. (\A r \in R, q \in Q : r < q) /\ \A r \in R \cup Q : r \in T OBVIOUS
  <2>2. Ranked(s, A11, R) /\ Ranked(s, P12, Q) BY <1>26, <1>13
  <2> HIDE DEF R, Q, T, A11
  <2>3. Ranked(s, A12, T) /\ Adds(A11, P12) BY <2>1, <2>2, Goes
  <2> QED BY <2>3 DEF T
<1>28. Ranked(s, A13, 1..29) /\ Adds(A12, P13)
  <2> DEFINE R == 1..28
             Q == {29}
             T == 1..29
  <2>1. (\A r \in R, q \in Q : r < q) /\ \A r \in R \cup Q : r \in T OBVIOUS
  <2>2. Ranked(s, A12, R) /\ Ranked(s, P13, Q) BY <1>27, <1>14
  <2> HIDE DEF R, Q, T, A12
  <2>3. Ranked(s, A13, T) /\ Adds(A12, P13) BY <2>1, <2>2, Goes
  <2> QED BY <2>3 DEF T
<1>29. Ranked(s, A14, 1..36) /\ Adds(A13, P14)
  <2> DEFINE R == 1..29
             Q == 32..36
             T == 1..36
  <2>1. (\A r \in R, q \in Q : r < q) /\ \A r \in R \cup Q : r \in T OBVIOUS
  <2>2. Ranked(s, A13, R) /\ Ranked(s, P14, Q) BY <1>28, <1>15
  <2> HIDE DEF R, Q, T, A13
  <2>3. Ranked(s, A14, T) /\ Adds(A13, P14) BY <2>1, <2>2, Goes
  <2> QED BY <2>3 DEF T
<1>30. ASSUME NEW t, t \in Steps(P1)
               \/ t \in Steps(P2)
               \/ t \in Steps(P3)
               \/ t \in Steps(P4)
               \/ t \in Steps(P5)
               \/ t \in Steps(P6)
               \/ t \in Steps(P7)
               \/ t \in Steps(P8)
               \/ t \in Steps(P9)
               \/ t \in Steps(P10)
               \/ t \in Steps(P11)
               \/ t \in Steps(P12)
               \/ t \in Steps(P13)
               \/ t \in Steps(P14)
      PROVE  t \in Steps(A14)
  BY <1>30, <1>17, <1>18, <1>19, <1>20, <1>21, <1>22, <1>23, <1>24, <1>25, <1>26, <1>27, <1>28, <1>29, Zenon DEF Adds
<1>40. Farms(A14)
  <2> HIDE DEF A7
  <2>8. Farms(A8) BY <1>22, <1>9, Farming
  <2> HIDE DEF A8
  <2>9. Farms(A9) BY <2>8, <1>23, <1>10, Farming
  <2> HIDE DEF A9
  <2>10. Farms(A10) BY <2>9, <1>24, <1>11, Farming
  <2> HIDE DEF A10
  <2>11. Farms(A11) BY <2>10, <1>25, <1>12, Farming
  <2> HIDE DEF A11
  <2>12. Farms(A12) BY <2>11, <1>26, <1>13, Farming
  <2> HIDE DEF A12
  <2>13. Farms(A13) BY <2>12, <1>27, <1>14, Farming
  <2> HIDE DEF A13
  <2>14. Farms(A14) BY <2>13, <1>28, <1>15, Farming
  <2> QED BY <2>14
<1> HIDE DEF A14
<1>31. \A o \in PartiesOf[s] : /\ Step("register", o, "org", "org") \in Steps(A14)
                                /\ Step("new", o, "approved", "org") \in Steps(A14)
  BY <1>2, <1>3, <1>30 DEF PartiesOf
<1>32. \A k \in GatesOf[s] : Step("gate", s, k, k) \in Steps(A14)
  BY <1>5, <1>9, <1>10, <1>30 DEF GatesOf
<1>33. \A k \in NewOf[s] \ {"farm"} : Step("new", s, k, GateOf(s, k)) \in Steps(A14)
  BY <1>5, <1>10, <1>12, <1>30 DEF NewOf, GateOf
<1>34. \A k \in OwnOf[s] : Step("own", s, k, k) \in Steps(A14)
  BY <1>4, <1>7, <1>11, <1>30 DEF OwnOf
<1>35. \A k \in AlwaysOf[s] : Step("always", s, k, k) \in Steps(A14)
  BY <1>15, <1>30
<1>36. \A op \in LonelyOf[s] : Step(op, Whose(s, op), op, op) \in Steps(A14)
  BY <1>6, <1>8, <1>13, <1>14, <1>15, <1>30 DEF LonelyOf, Whose
<1> HIDE DEF s
<1>37. ASSUME NEW t \in StepsOf(s), ~(t.op = "new" /\ t.row[2] = "farm") PROVE t \in Steps(A14)
  <2>1. \/ \E o \in PartiesOf[s] : t \in {Step("register", o, "org", "org"), Step("new", o, "approved", "org")}
        \/ \E g \in GatesOf[s] : t = Step("gate", s, g, g)
        \/ \E j \in NewOf[s] : t = Step("new", s, j, GateOf(s, j))
        \/ \E j \in OwnOf[s] : t = Step("own", s, j, j)
        \/ \E j \in AlwaysOf[s] : t = Step("always", s, j, j)
        \/ \E op \in LonelyOf[s] : t = Step(op, Whose(s, op), op, op)
    BY DEF StepsOf
  <2>2. ASSUME NEW j \in NewOf[s], t = Step("new", s, j, GateOf(s, j)) PROVE t \in Steps(A14)
    <3>1. j # "farm" BY <1>37, <2>2 DEF Step
    <3> QED BY <2>2, <3>1, <1>33
  <2> QED BY <2>1, <2>2, <1>31, <1>32, <1>34, <1>35, <1>36
<1>38. Ranked(s, A14, 1..39) BY <1>29, Widened
<1> QED BY <1>16, <1>37, <1>38, <1>40 DEF Made, s

LEMMA LiangmeiIsMade == Made("liangmei", Liangmei)
<1> DEFINE s == "liangmei"
           P1 == EnsureParty("Liangmei")
           P2 == EnsureParty("Jinglin")
           P3 == Own("liangmei", <<"profile", "contact", "cert">>)
           P4 == Group("liangmei", "unit", <<"unit", "subunit", "subunit">>)
           P5 == Group("liangmei", "product", <<"product">>)
           P6 == Own("liangmei", <<"sku">>)
           P7 == <<Step("new", "liangmei", "live", "product")>>
           P8 == Lone("lot", "liangmei")
           P9 == Lone("place", "liangmei")
           P10 == Always("liangmei", <<"document">>)
           A2 == P1 \o P2
           A3 == A2 \o P3
           A4 == A3 \o P4
           A5 == A4 \o P5
           A6 == A5 \o P6
           A7 == A6 \o P7
           A8 == A7 \o P8
           A9 == A8 \o P9
           A10 == A9 \o P10
<1>1. /\ s \in Scripts
      /\ "Liangmei" \in PartiesOf[s]
      /\ "Jinglin" \in PartiesOf[s]
      /\ {"profile", "contact", "cert"} \subseteq OwnOf[s]
      /\ RankOf["profile"] = 8 /\ RankOf["contact"] = 10 /\ RankOf["cert"] = 13
      /\ s \in Traders
      /\ "sku" \in OwnOf[s] /\ RankOf["sku"] = 26
      /\ "lot" \in LonelyOf[s] /\ Whose(s, "lot") = "liangmei" /\ RankOf["lot"] = 28
      /\ AlwaysOf[s] = {"document"} /\ AlwaysRank("document") = 35
      /\ "place" \in LonelyOf[s] /\ Whose(s, "place") = "liangmei" /\ RankOf["place"] = 29
  BY DEF Scripts, ScriptOf, Traders, PartiesOf, OwnOf, AlwaysOf, LonelyOf, Whose, RankOf, AlwaysRank
<1>2. Ranked(s, P1, 1..2) /\ \A t \in {Step("register", "Liangmei", "org", "org"),
        Step("new", "Liangmei", "approved", "org")} : t \in Steps(P1)
  BY <1>1, PartyRanked, Widened
<1>3. Ranked(s, P2, 3..4) /\ \A t \in {Step("register", "Jinglin", "org", "org"),
        Step("new", "Jinglin", "approved", "org")} : t \in Steps(P2)
  BY <1>1, PartyRanked, Widened
<1>4. Ranked(s, P3, 8..13) /\ \A t \in {Step("own", s, "profile", "profile"),
        Step("own", s, "contact", "contact"),
        Step("own", s, "cert", "cert")} : t \in Steps(P3)
  BY <1>1, OwnThree
<1>5. Ranked(s, P4, 17..20) /\ \A t \in {Step("gate", s, "unit", "unit"),
        Step("new", s, "unit", "unit"),
        Step("new", s, "subunit", "unit")} : t \in Steps(P4)
  BY <1>1, UnitGroup
<1>6. Ranked(s, P5, 24..25) /\ \A t \in {Step("gate", s, "product", "product"),
        Step("new", s, "product", "product")} : t \in Steps(P5)
  BY <1>1, ProductGroup
<1>7. Ranked(s, P6, {26}) /\ \A t \in {Step("own", s, "sku", "sku")} : t \in Steps(P6)
  BY <1>1, OwnOne
<1>8. Ranked(s, P7, {27}) /\ \A t \in {Step("new", s, "live", "product")} : t \in Steps(P7)
  BY <1>1, ProductGroup
<1>9. Ranked(s, P8, {28}) /\ \A t \in {Step("lot", "liangmei", "lot", "lot")} : t \in Steps(P8)
  BY <1>1, LoneRanked
<1>10. Ranked(s, P9, {29}) /\ \A t \in {Step("place", "liangmei", "place", "place")} : t \in Steps(P9)
  BY <1>1, LoneRanked
<1>11. Ranked(s, P10, 35..35) /\ Step("always", s, "document", "document") \in Steps(P10)
  <2> DEFINE kinds == <<"document">>
  <2>1. kinds \in Seq(AlwaysOf[s]) /\ Len(kinds) = 1 /\ kinds[1] = "document" BY <1>1
  <2> HIDE DEF kinds
  <2>2. 1..1 = {1} OBVIOUS
  <2>3. /\ \A i \in 1..Len(kinds) : AlwaysRank(kinds[i]) \in 35..35
        /\ \A i, j \in 1..Len(kinds) : i < j => AlwaysRank(kinds[i]) < AlwaysRank(kinds[j])
    BY <1>1, <2>1, <2>2
  <2>4. /\ Ranked(s, Always(s, kinds), 35..35)
        /\ \A i \in 1..1 : Step("always", s, kinds[i], kinds[i]) \in Steps(Always(s, kinds))
    BY <1>1, <2>1, <2>3, AlwaysRanked
  <2> QED BY <2>1, <2>2, <2>4 DEF kinds
<1>12. Liangmei = A10 BY DEF Liangmei
<1> HIDE DEF P1, P2, P3, P4, P5, P6, P7, P8, P9, P10
<1>13. Ranked(s, A2, 1..4) /\ Adds(P1, P2)
  <2> DEFINE R == 1..2
             Q == 3..4
             T == 1..4
  <2>1. (\A r \in R, q \in Q : r < q) /\ \A r \in R \cup Q : r \in T OBVIOUS
  <2>2. Ranked(s, P1, R) /\ Ranked(s, P2, Q) BY <1>2, <1>3
  <2> HIDE DEF R, Q, T
  <2>3. Ranked(s, A2, T) /\ Adds(P1, P2) BY <2>1, <2>2, Goes
  <2> QED BY <2>3 DEF T
<1>14. Ranked(s, A3, 1..13) /\ Adds(A2, P3)
  <2> DEFINE R == 1..4
             Q == 8..13
             T == 1..13
  <2>1. (\A r \in R, q \in Q : r < q) /\ \A r \in R \cup Q : r \in T OBVIOUS
  <2>2. Ranked(s, A2, R) /\ Ranked(s, P3, Q) BY <1>13, <1>4
  <2> HIDE DEF R, Q, T, A2
  <2>3. Ranked(s, A3, T) /\ Adds(A2, P3) BY <2>1, <2>2, Goes
  <2> QED BY <2>3 DEF T
<1>15. Ranked(s, A4, 1..20) /\ Adds(A3, P4)
  <2> DEFINE R == 1..13
             Q == 17..20
             T == 1..20
  <2>1. (\A r \in R, q \in Q : r < q) /\ \A r \in R \cup Q : r \in T OBVIOUS
  <2>2. Ranked(s, A3, R) /\ Ranked(s, P4, Q) BY <1>14, <1>5
  <2> HIDE DEF R, Q, T, A3
  <2>3. Ranked(s, A4, T) /\ Adds(A3, P4) BY <2>1, <2>2, Goes
  <2> QED BY <2>3 DEF T
<1>16. Ranked(s, A5, 1..25) /\ Adds(A4, P5)
  <2> DEFINE R == 1..20
             Q == 24..25
             T == 1..25
  <2>1. (\A r \in R, q \in Q : r < q) /\ \A r \in R \cup Q : r \in T OBVIOUS
  <2>2. Ranked(s, A4, R) /\ Ranked(s, P5, Q) BY <1>15, <1>6
  <2> HIDE DEF R, Q, T, A4
  <2>3. Ranked(s, A5, T) /\ Adds(A4, P5) BY <2>1, <2>2, Goes
  <2> QED BY <2>3 DEF T
<1>17. Ranked(s, A6, 1..26) /\ Adds(A5, P6)
  <2> DEFINE R == 1..25
             Q == {26}
             T == 1..26
  <2>1. (\A r \in R, q \in Q : r < q) /\ \A r \in R \cup Q : r \in T OBVIOUS
  <2>2. Ranked(s, A5, R) /\ Ranked(s, P6, Q) BY <1>16, <1>7
  <2> HIDE DEF R, Q, T, A5
  <2>3. Ranked(s, A6, T) /\ Adds(A5, P6) BY <2>1, <2>2, Goes
  <2> QED BY <2>3 DEF T
<1>18. Ranked(s, A7, 1..27) /\ Adds(A6, P7)
  <2> DEFINE R == 1..26
             Q == {27}
             T == 1..27
  <2>1. (\A r \in R, q \in Q : r < q) /\ \A r \in R \cup Q : r \in T OBVIOUS
  <2>2. Ranked(s, A6, R) /\ Ranked(s, P7, Q) BY <1>17, <1>8
  <2> HIDE DEF R, Q, T, A6
  <2>3. Ranked(s, A7, T) /\ Adds(A6, P7) BY <2>1, <2>2, Goes
  <2> QED BY <2>3 DEF T
<1>19. Ranked(s, A8, 1..28) /\ Adds(A7, P8)
  <2> DEFINE R == 1..27
             Q == {28}
             T == 1..28
  <2>1. (\A r \in R, q \in Q : r < q) /\ \A r \in R \cup Q : r \in T OBVIOUS
  <2>2. Ranked(s, A7, R) /\ Ranked(s, P8, Q) BY <1>18, <1>9
  <2> HIDE DEF R, Q, T, A7
  <2>3. Ranked(s, A8, T) /\ Adds(A7, P8) BY <2>1, <2>2, Goes
  <2> QED BY <2>3 DEF T
<1>20. Ranked(s, A9, 1..29) /\ Adds(A8, P9)
  <2> DEFINE R == 1..28
             Q == {29}
             T == 1..29
  <2>1. (\A r \in R, q \in Q : r < q) /\ \A r \in R \cup Q : r \in T OBVIOUS
  <2>2. Ranked(s, A8, R) /\ Ranked(s, P9, Q) BY <1>19, <1>10
  <2> HIDE DEF R, Q, T, A8
  <2>3. Ranked(s, A9, T) /\ Adds(A8, P9) BY <2>1, <2>2, Goes
  <2> QED BY <2>3 DEF T
<1>21. Ranked(s, A10, 1..36) /\ Adds(A9, P10)
  <2> DEFINE R == 1..29
             Q == 35..35
             T == 1..36
  <2>1. (\A r \in R, q \in Q : r < q) /\ \A r \in R \cup Q : r \in T OBVIOUS
  <2>2. Ranked(s, A9, R) /\ Ranked(s, P10, Q) BY <1>20, <1>11
  <2> HIDE DEF R, Q, T, A9
  <2>3. Ranked(s, A10, T) /\ Adds(A9, P10) BY <2>1, <2>2, Goes
  <2> QED BY <2>3 DEF T
<1>22. ASSUME NEW t, t \in Steps(P1)
               \/ t \in Steps(P2)
               \/ t \in Steps(P3)
               \/ t \in Steps(P4)
               \/ t \in Steps(P5)
               \/ t \in Steps(P6)
               \/ t \in Steps(P7)
               \/ t \in Steps(P8)
               \/ t \in Steps(P9)
               \/ t \in Steps(P10)
      PROVE  t \in Steps(A10)
  BY <1>22, <1>13, <1>14, <1>15, <1>16, <1>17, <1>18, <1>19, <1>20, <1>21, Zenon DEF Adds
<1> HIDE DEF A10
<1>23. \A o \in PartiesOf[s] : /\ Step("register", o, "org", "org") \in Steps(A10)
                                /\ Step("new", o, "approved", "org") \in Steps(A10)
  BY <1>2, <1>3, <1>22 DEF PartiesOf
<1>24. \A k \in GatesOf[s] : Step("gate", s, k, k) \in Steps(A10)
  BY <1>5, <1>6, <1>22 DEF GatesOf
<1>25. \A k \in NewOf[s] \ {"farm"} : Step("new", s, k, GateOf(s, k)) \in Steps(A10)
  BY <1>5, <1>6, <1>8, <1>22 DEF NewOf, GateOf
<1>26. \A k \in OwnOf[s] : Step("own", s, k, k) \in Steps(A10)
  BY <1>4, <1>7, <1>22 DEF OwnOf
<1>27. \A k \in AlwaysOf[s] : Step("always", s, k, k) \in Steps(A10)
  BY <1>1, <1>22, <1>11
<1>28. \A op \in LonelyOf[s] : Step(op, Whose(s, op), op, op) \in Steps(A10)
  BY <1>9, <1>10, <1>22 DEF LonelyOf, Whose
<1> HIDE DEF s
<1>29. ASSUME NEW t \in StepsOf(s), ~(t.op = "new" /\ t.row[2] = "farm") PROVE t \in Steps(A10)
  <2>1. \/ \E o \in PartiesOf[s] : t \in {Step("register", o, "org", "org"), Step("new", o, "approved", "org")}
        \/ \E g \in GatesOf[s] : t = Step("gate", s, g, g)
        \/ \E j \in NewOf[s] : t = Step("new", s, j, GateOf(s, j))
        \/ \E j \in OwnOf[s] : t = Step("own", s, j, j)
        \/ \E j \in AlwaysOf[s] : t = Step("always", s, j, j)
        \/ \E op \in LonelyOf[s] : t = Step(op, Whose(s, op), op, op)
    BY DEF StepsOf
  <2>2. ASSUME NEW j \in NewOf[s], t = Step("new", s, j, GateOf(s, j)) PROVE t \in Steps(A10)
    <3>1. j # "farm" BY <1>29, <2>2 DEF Step
    <3> QED BY <2>2, <3>1, <1>25
  <2> QED BY <2>1, <2>2, <1>23, <1>24, <1>26, <1>27, <1>28
<1>30. Ranked(s, A10, 1..39) BY <1>21, Widened
<1> QED BY <1>12, <1>29, <1>30 DEF Made, s

LEMMA DemoIsMade == Made("demo", Demo)
<1> DEFINE s == "demo"
           P1 == EnsureParty("HZB")
           P2 == EnsureParty("Jinglin")
           P3 == Group("demo", "batch", <<"unit", "batch", "passed">>)
           P4 == Group("demo", "product", <<"product", "sku", "live">>)
           P5 == Lone("lot", "demo")
           P6 == Lone("some", "demo")
           P7 == Own("demo", <<"rfq">>)
           P8 == Always("demo", <<"contact", "talk">>)
           A2 == P1 \o P2
           A3 == A2 \o P3
           A4 == A3 \o P4
           A5 == A4 \o P5
           A6 == A5 \o P6
           A7 == A6 \o P7
           A8 == A7 \o P8
<1>1. /\ s \in Scripts
      /\ "HZB" \in PartiesOf[s]
      /\ "Jinglin" \in PartiesOf[s]
      /\ "lot" \in LonelyOf[s] /\ Whose(s, "lot") = "demo" /\ RankOf["lot"] = 28
      /\ "some" \in LonelyOf[s] /\ Whose(s, "some") = "demo" /\ RankOf["some"] = 30
      /\ "rfq" \in OwnOf[s] /\ RankOf["rfq"] = 31
      /\ AlwaysOf[s] = {"contact", "talk"}
  BY DEF Scripts, ScriptOf, Traders, PartiesOf, OwnOf, AlwaysOf, LonelyOf, Whose, RankOf
<1>2. Ranked(s, P1, 1..2) /\ \A t \in {Step("register", "HZB", "org", "org"),
        Step("new", "HZB", "approved", "org")} : t \in Steps(P1)
  BY <1>1, PartyRanked, Widened
<1>3. Ranked(s, P2, 3..4) /\ \A t \in {Step("register", "Jinglin", "org", "org"),
        Step("new", "Jinglin", "approved", "org")} : t \in Steps(P2)
  BY <1>1, PartyRanked, Widened
<1>4. Ranked(s, P3, 16..21) /\ \A t \in {Step("gate", s, "batch", "batch"),
        Step("new", s, "unit", "batch"),
        Step("new", s, "batch", "batch"),
        Step("new", s, "passed", "batch")} : t \in Steps(P3)
  BY <1>1, BatchGroup
<1>5. Ranked(s, P4, 24..27) /\ \A t \in {Step("gate", s, "product", "product"),
        Step("new", s, "product", "product"),
        Step("new", s, "sku", "product"),
        Step("new", s, "live", "product")} : t \in Steps(P4)
  BY <1>1, GoodsGroup
<1>6. Ranked(s, P5, {28}) /\ \A t \in {Step("lot", "demo", "lot", "lot")} : t \in Steps(P5)
  BY <1>1, LoneRanked
<1>7. Ranked(s, P6, {30}) /\ \A t \in {Step("some", "demo", "some", "some")} : t \in Steps(P6)
  BY <1>1, LoneRanked
<1>8. Ranked(s, P7, {31}) /\ \A t \in {Step("own", s, "rfq", "rfq")} : t \in Steps(P7)
  BY <1>1, OwnOne
<1>9. Ranked(s, P8, 33..36) /\ \A t \in {Step("always", s, "contact", "contact"),
        Step("always", s, "talk", "talk")} : t \in Steps(P8)
  <2> DEFINE kinds == <<"contact", "talk">>
  <2>1. kinds \in Seq(AlwaysOf[s]) /\ Len(kinds) = 2 /\ kinds[1] = "contact" /\ kinds[2] = "talk"
    BY <1>1
  <2> HIDE DEF kinds
  <2>2. 1..2 = {1, 2} /\ AlwaysRank("contact") = 33 /\ AlwaysRank("talk") = 34
    BY DEF AlwaysRank, RankOf
  <2>3. /\ \A i \in 1..Len(kinds) : AlwaysRank(kinds[i]) \in 33..36
        /\ \A i, j \in 1..Len(kinds) : i < j => AlwaysRank(kinds[i]) < AlwaysRank(kinds[j])
    BY <2>1, <2>2
  <2>4. /\ Ranked(s, Always(s, kinds), 33..36)
        /\ \A i \in 1..2 : Step("always", s, kinds[i], kinds[i]) \in Steps(Always(s, kinds))
    BY <1>1, <2>1, <2>3, AlwaysRanked
  <2>5. /\ Step("always", s, "contact", "contact") \in Steps(Always(s, kinds))
        /\ Step("always", s, "talk", "talk") \in Steps(Always(s, kinds))
    BY <2>1, <2>2, <2>4
  <2> QED BY <2>4, <2>5 DEF kinds
<1>10. Demo = A8 BY DEF Demo
<1> HIDE DEF P1, P2, P3, P4, P5, P6, P7, P8
<1>11. Ranked(s, A2, 1..4) /\ Adds(P1, P2)
  <2> DEFINE R == 1..2
             Q == 3..4
             T == 1..4
  <2>1. (\A r \in R, q \in Q : r < q) /\ \A r \in R \cup Q : r \in T OBVIOUS
  <2>2. Ranked(s, P1, R) /\ Ranked(s, P2, Q) BY <1>2, <1>3
  <2> HIDE DEF R, Q, T
  <2>3. Ranked(s, A2, T) /\ Adds(P1, P2) BY <2>1, <2>2, Goes
  <2> QED BY <2>3 DEF T
<1>12. Ranked(s, A3, 1..21) /\ Adds(A2, P3)
  <2> DEFINE R == 1..4
             Q == 16..21
             T == 1..21
  <2>1. (\A r \in R, q \in Q : r < q) /\ \A r \in R \cup Q : r \in T OBVIOUS
  <2>2. Ranked(s, A2, R) /\ Ranked(s, P3, Q) BY <1>11, <1>4
  <2> HIDE DEF R, Q, T, A2
  <2>3. Ranked(s, A3, T) /\ Adds(A2, P3) BY <2>1, <2>2, Goes
  <2> QED BY <2>3 DEF T
<1>13. Ranked(s, A4, 1..27) /\ Adds(A3, P4)
  <2> DEFINE R == 1..21
             Q == 24..27
             T == 1..27
  <2>1. (\A r \in R, q \in Q : r < q) /\ \A r \in R \cup Q : r \in T OBVIOUS
  <2>2. Ranked(s, A3, R) /\ Ranked(s, P4, Q) BY <1>12, <1>5
  <2> HIDE DEF R, Q, T, A3
  <2>3. Ranked(s, A4, T) /\ Adds(A3, P4) BY <2>1, <2>2, Goes
  <2> QED BY <2>3 DEF T
<1>14. Ranked(s, A5, 1..28) /\ Adds(A4, P5)
  <2> DEFINE R == 1..27
             Q == {28}
             T == 1..28
  <2>1. (\A r \in R, q \in Q : r < q) /\ \A r \in R \cup Q : r \in T OBVIOUS
  <2>2. Ranked(s, A4, R) /\ Ranked(s, P5, Q) BY <1>13, <1>6
  <2> HIDE DEF R, Q, T, A4
  <2>3. Ranked(s, A5, T) /\ Adds(A4, P5) BY <2>1, <2>2, Goes
  <2> QED BY <2>3 DEF T
<1>15. Ranked(s, A6, 1..30) /\ Adds(A5, P6)
  <2> DEFINE R == 1..28
             Q == {30}
             T == 1..30
  <2>1. (\A r \in R, q \in Q : r < q) /\ \A r \in R \cup Q : r \in T OBVIOUS
  <2>2. Ranked(s, A5, R) /\ Ranked(s, P6, Q) BY <1>14, <1>7
  <2> HIDE DEF R, Q, T, A5
  <2>3. Ranked(s, A6, T) /\ Adds(A5, P6) BY <2>1, <2>2, Goes
  <2> QED BY <2>3 DEF T
<1>16. Ranked(s, A7, 1..31) /\ Adds(A6, P7)
  <2> DEFINE R == 1..30
             Q == {31}
             T == 1..31
  <2>1. (\A r \in R, q \in Q : r < q) /\ \A r \in R \cup Q : r \in T OBVIOUS
  <2>2. Ranked(s, A6, R) /\ Ranked(s, P7, Q) BY <1>15, <1>8
  <2> HIDE DEF R, Q, T, A6
  <2>3. Ranked(s, A7, T) /\ Adds(A6, P7) BY <2>1, <2>2, Goes
  <2> QED BY <2>3 DEF T
<1>17. Ranked(s, A8, 1..36) /\ Adds(A7, P8)
  <2> DEFINE R == 1..31
             Q == 33..36
             T == 1..36
  <2>1. (\A r \in R, q \in Q : r < q) /\ \A r \in R \cup Q : r \in T OBVIOUS
  <2>2. Ranked(s, A7, R) /\ Ranked(s, P8, Q) BY <1>16, <1>9
  <2> HIDE DEF R, Q, T, A7
  <2>3. Ranked(s, A8, T) /\ Adds(A7, P8) BY <2>1, <2>2, Goes
  <2> QED BY <2>3 DEF T
<1>18. ASSUME NEW t, t \in Steps(P1)
               \/ t \in Steps(P2)
               \/ t \in Steps(P3)
               \/ t \in Steps(P4)
               \/ t \in Steps(P5)
               \/ t \in Steps(P6)
               \/ t \in Steps(P7)
               \/ t \in Steps(P8)
      PROVE  t \in Steps(A8)
  BY <1>18, <1>11, <1>12, <1>13, <1>14, <1>15, <1>16, <1>17, Zenon DEF Adds
<1> HIDE DEF A8
<1>19. \A o \in PartiesOf[s] : /\ Step("register", o, "org", "org") \in Steps(A8)
                                /\ Step("new", o, "approved", "org") \in Steps(A8)
  BY <1>2, <1>3, <1>18 DEF PartiesOf
<1>20. \A k \in GatesOf[s] : Step("gate", s, k, k) \in Steps(A8)
  BY <1>4, <1>5, <1>18 DEF GatesOf
<1>21. \A k \in NewOf[s] \ {"farm"} : Step("new", s, k, GateOf(s, k)) \in Steps(A8)
  BY <1>4, <1>5, <1>18 DEF NewOf, GateOf
<1>22. \A k \in OwnOf[s] : Step("own", s, k, k) \in Steps(A8)
  BY <1>8, <1>18 DEF OwnOf
<1>23. \A k \in AlwaysOf[s] : Step("always", s, k, k) \in Steps(A8)
  BY <1>9, <1>18 DEF AlwaysOf
<1>24. \A op \in LonelyOf[s] : Step(op, Whose(s, op), op, op) \in Steps(A8)
  BY <1>6, <1>7, <1>18 DEF LonelyOf, Whose
<1> HIDE DEF s
<1>25. ASSUME NEW t \in StepsOf(s), ~(t.op = "new" /\ t.row[2] = "farm") PROVE t \in Steps(A8)
  <2>1. \/ \E o \in PartiesOf[s] : t \in {Step("register", o, "org", "org"), Step("new", o, "approved", "org")}
        \/ \E g \in GatesOf[s] : t = Step("gate", s, g, g)
        \/ \E j \in NewOf[s] : t = Step("new", s, j, GateOf(s, j))
        \/ \E j \in OwnOf[s] : t = Step("own", s, j, j)
        \/ \E j \in AlwaysOf[s] : t = Step("always", s, j, j)
        \/ \E op \in LonelyOf[s] : t = Step(op, Whose(s, op), op, op)
    BY DEF StepsOf
  <2>2. ASSUME NEW j \in NewOf[s], t = Step("new", s, j, GateOf(s, j)) PROVE t \in Steps(A8)
    <3>1. j # "farm" BY <1>25, <2>2 DEF Step
    <3> QED BY <2>2, <3>1, <1>21
  <2> QED BY <2>1, <2>2, <1>19, <1>20, <1>22, <1>23, <1>24
<1>26. Ranked(s, A8, 1..39) BY <1>17, Widened
<1> QED BY <1>10, <1>25, <1>26 DEF Made, s

(* Every script is made like this.                                         *)
LEMMA ScriptsAreMade ==
  ASSUME NEW s \in Scripts
  PROVE  Made(s, ScriptOf[s])
BY HzbIsMade, TuopaiIsMade, LiangmeiIsMade, DemoIsMade, FrenchIsMade DEF Scripts, ScriptOf

LEMMA NotEmpty ==
  ASSUME NEW s \in Scripts
  PROVE  ScriptOf[s] \in Seq(StepsOf(s)) /\ Len(ScriptOf[s]) \in Nat \ {0}
<1> DEFINE A == ScriptOf[s]
           t == IF s = "french" THEN Step("enrich", "Jinglin", "enrich", "enrich")
                ELSE Step("register", "Jinglin", "org", "org")
<1>1. A \in Seq(StepsOf(s)) /\ Made(s, A) BY ScriptsAreMade DEF Made, Ranked
<1>2. t \in StepsOf(s)
  <2>1. CASE s = "french"
    <3>1. "enrich" \in LonelyOf[s] /\ Whose(s, "enrich") = "Jinglin" BY <2>1 DEF LonelyOf, Whose
    <3> QED BY <2>1, <3>1, RanksOf
  <2>2. CASE s # "french"
    <3>1. "Jinglin" \in PartiesOf[s] BY <2>2 DEF PartiesOf, Scripts, ScriptOf
    <3> QED BY <2>2, <3>1, RanksOf
  <2> QED BY <2>1, <2>2
<1>3. t.op # "new" BY DEF Step
<1>4. t \in Steps(A) BY <1>1, <1>2, <1>3 DEF Made
<1> HIDE DEF A, t
<1>5. Len(A) \in Nat /\ 1..Len(A) # {} BY <1>1, <1>4 DEF Steps
<1> QED BY <1>1, <1>5 DEF A

-----------------------------------------------------------------------------
(* The scripts are sequences of steps with names; what a step registers is *)
(* one of the four companies.                                              *)
Lonely == {"lot", "place", "some", "pay", "deliver", "expire", "overdue", "sales", "enrich"}
Entities ==
  {"org", "approved", "cert", "permit", "batch", "unit", "subunit", "passed", "product", "sku",
   "live", "used", "profile", "contact", "farm", "rfq", "talk", "address", "confirmed", "shipment",
   "document", "declaration"}
Owners == Registered \cup {"hzb", "tuopai", "liangmei", "demo", "french"}
Labels == Owners \X (Entities \cup Lonely)
ProperStep ==
  {t \in [op : Lonely \cup {"register", "new", "own", "gate", "always"}, row : Labels, gate : Labels] :
     t.op = "register" => t.row[1] \in Registered}

(* A run is under way in one script at most, and is not yet counted.       *)
Gates == UNION {{ScriptOf[s][i].gate : i \in DOMAIN ScriptOf[s]} : s \in Scripts}
RunRow == [at : Nat, fresh : SUBSET Gates, runs : Nat, crashes : Nat, done : Nat]
RunsCounted ==
  \A s \in Scripts :
    /\ runs[s].at <= Len(ScriptOf[s]) /\ runs[s].done <= runs[s].runs
    /\ Running(s) => runs[s].done < runs[s].runs
OneRun == \A s, t \in Scripts : Running(s) /\ Running(t) => s = t

OrderStates == Live \cup {"CANCELLED"}
RunsInv == runs \in [Scripts -> RunRow] /\ RunsCounted /\ OneRun
ImportsInv ==
  /\ cast \in Casts /\ orgs \subseteq Orgs
  /\ DOMAIN rows \subseteq Rows /\ stock \in [Scripts -> Nat]
  /\ orders \in [Scripts -> Seq(OrderStates)] /\ enriched \subseteq Orgs
  /\ RunsInv

(* The rows the purges work on.                                            *)
DealRow == [id : 1..MaxDeals, buyer : Orgs, supplier : Orgs]
PurgeRow ==
  [at : {"find", "protect", "orders", "stock", "holds", "lots", "orgs", "done"},
   found : SUBSET Orgs, orders : SUBSET DealRow, lots : SUBSET Orgs,
   goneHolds : SUBSET DealRow, aborts : Nat]
Known(d) == d \in DealRow /\ d.id <= dealt
PurgeTypes ==
  /\ lots \subseteq Orgs /\ checked \subseteq Orgs /\ dealt \in 0..MaxDeals
  /\ \A d \in deals \cup holds : Known(d)
  /\ \A l \in late : l[1] \in DealRow
  /\ purges \in [Purges -> PurgeRow]
  /\ \A p \in Purges : \A d \in purges[p].orders \cup purges[p].goneHolds : Known(d)

(* What a purge is about to clear is not real, for what is real is there   *)
(* when the purge looks for it, ...                                        *)
SparesReal ==
  \A p \in Purges :
    IF purges[p].at \in {"find", "protect"} THEN purges[p].at = "protect" => purges[p].found \cap Real \subseteq orgs
    ELSE purges[p].found \cap Real = {}

(* ... includes each order of the companies but the late ones, ...         *)
Late(d) == \E l \in late : l[1] = d
OrdersCollected ==
  \A p \in Purges : Collected(p) =>
    \A d \in deals : Concerns(p, d) => d \in purges[p].orders \/ Late(d)

(* ... and each hold of its orders and of its lots, but those made when it *)
(* had looked for holds and not yet deleted the lots.                      *)
HoldsCollected ==
  \A p \in Purges :
    /\ purges[p].lots \subseteq purges[p].found
    /\ purges[p].at \in {"lots", "orgs"} =>
         \A h \in holds :
           /\ h \in purges[p].orders => h \in purges[p].goneHolds
           /\ h.supplier \in purges[p].lots =>
                h \in purges[p].goneHolds \/ <<h, "lots">> \in late

PurgesInv == PurgeTypes /\ SparesReal /\ OrdersCollected /\ HoldsCollected /\ PurgedClean

UpkeepInv == ImportsInv /\ PurgesInv

-----------------------------------------------------------------------------
(* The scripts.                                                            *)

LEMMA StepsAreProper ==
  ASSUME NEW s \in Scripts
  PROVE  StepsOf(s) \subseteq ProperStep
<1> DEFINE kinds == Entities \cup Lonely
<1>1. s \in Owners /\ PartiesOf[s] \subseteq Registered
  BY DEF Scripts, ScriptOf, Owners, PartiesOf, Registered
<1>2. /\ GatesOf[s] \subseteq Entities /\ NewOf[s] \subseteq Entities /\ OwnOf[s] \subseteq Entities
      /\ AlwaysOf[s] \subseteq Entities /\ LonelyOf[s] \subseteq Lonely
  BY DEF Scripts, ScriptOf, GatesOf, NewOf, OwnOf, AlwaysOf, LonelyOf, Entities, Lonely
<1>3. /\ \A k \in NewOf[s] : GateOf(s, k) \in Entities
      /\ \A op \in LonelyOf[s] : Whose(s, op) \in Owners
  BY <1>1, <1>2 DEF GateOf, Entities, Whose, Owners, Registered
<1>4. "org" \in Entities /\ "approved" \in Entities BY DEF Entities
<1>5. \A of \in Owners, k \in kinds, g \in kinds, op \in Lonely \cup {"new", "own", "gate", "always"} :
        Step(op, of, k, g) \in ProperStep
  BY DEF Step, ProperStep, Labels, Lonely
<1>6. \A o \in PartiesOf[s] : Step("register", o, "org", "org") \in ProperStep
  BY <1>1, <1>4 DEF Step, ProperStep, Labels, Owners
<1>7. \A o \in PartiesOf[s] : o \in Owners BY <1>1 DEF Owners
<1> QED BY <1>1, <1>2, <1>3, <1>4, <1>5, <1>6, <1>7 DEF StepsOf

(* Whatever step a run has come to is proper, and a row of Rows.           *)
LEMMA ScriptsAreProper ==
  ASSUME NEW s \in Scripts
  PROVE  ScriptOf[s] \in Seq(ProperStep) /\ Len(ScriptOf[s]) \in Nat \ {0}
BY NotEmpty, StepsAreProper

LEMMA NowIsProper ==
  ASSUME NEW s \in Scripts, runs[s].at \in 1..Len(ScriptOf[s])
  PROVE  Now(s) \in ProperStep /\ Now(s).row \in Rows /\ Now(s).gate \in Gates
<1>1. Now(s) \in ProperStep /\ runs[s].at \in DOMAIN ScriptOf[s] BY ScriptsAreProper DEF Now
<1> QED BY <1>1 DEF Now, Rows, Gates

LEMMA ApprovalIsRow == <<"Jinglin", "approved">> \in Rows
<1> DEFINE t == Step("new", "Jinglin", "approved", "org")
           s == "liangmei"
<1>1. s \in Scripts /\ "Jinglin" \in PartiesOf[s] BY DEF Scripts, ScriptOf, PartiesOf
<1> HIDE DEF s
<1>2. t \in StepsOf(s) BY <1>1, RanksOf
<1>3. t.row = <<"Jinglin", "approved">> BY DEF Step
<1>4. t.row[2] # "farm" BY <1>3
<1> HIDE DEF t
<1>5. t \in Steps(ScriptOf[s]) BY <1>1, <1>2, <1>4, ScriptsAreMade DEF Made
<1>6. PICK i \in 1..Len(ScriptOf[s]) : ScriptOf[s][i] = t BY <1>5 DEF Steps
<1>7. i \in DOMAIN ScriptOf[s] BY <1>1, <1>6, NotEmpty
<1> QED BY <1>1, <1>3, <1>6, <1>7 DEF Rows

-----------------------------------------------------------------------------
(* Runs.                                                                   *)

LEMMA AtStep ==
  ASSUME RunsInv, NEW s \in Scripts, Running(s)
  PROVE  /\ runs[s].at \in 1..Len(ScriptOf[s]) /\ runs[s].fresh \subseteq Gates
         /\ Now(s) \in ProperStep /\ Now(s).row \in Rows /\ Now(s).gate \in Gates
<1>1. runs[s] \in RunRow /\ runs[s].at <= Len(ScriptOf[s]) /\ runs[s].at # 0
  BY DEF RunsInv, RunsCounted, Running
<1>2. runs[s].at \in 1..Len(ScriptOf[s]) BY <1>1, ScriptsAreProper DEF RunRow
<1> QED BY <1>1, <1>2, NowIsProper DEF RunRow

(* One run moves, and no other is under way if this one is.                *)
LEMMA RunMoves ==
  ASSUME RunsInv, NEW s \in Scripts, NEW new \in RunRow, runs' = [runs EXCEPT ![s] = new],
         new.at <= Len(ScriptOf[s]), new.done <= new.runs,
         new.at # 0 => new.done < new.runs /\ \A t \in Scripts \ {s} : ~Running(t)
  PROVE  RunsInv'
<1>1. /\ \A t \in Scripts \ {s} : runs'[t] = runs[t]
      /\ runs'[s] = new /\ runs' \in [Scripts -> RunRow]
  BY DEF RunsInv
<1>2. ASSUME NEW t \in Scripts
      PROVE  /\ runs'[t].at <= Len(ScriptOf[t]) /\ runs'[t].done <= runs'[t].runs
             /\ runs'[t].at # 0 => runs'[t].done < runs'[t].runs
  <2>1. CASE t = s BY <1>1, <2>1
  <2>2. CASE t # s
    <3>1. runs'[t] = runs[t] BY <1>1, <2>2
    <3> QED BY <3>1 DEF RunsInv, RunsCounted, Running
  <2> QED BY <2>1, <2>2
<1>3. RunsCounted' BY <1>2 DEF RunsCounted, Running
<1>4. OneRun' BY <1>1 DEF RunsInv, OneRun, Running
<1> QED BY <1>1, <1>3, <1>4 DEF RunsInv

(* Fields of a run that change alone.                                      *)
LEMMA RunSet ==
  ASSUME NEW r \in RunRow, NEW n \in Nat, NEW fresh \in SUBSET Gates
  PROVE  /\ [r EXCEPT !.at = n] \in RunRow /\ [r EXCEPT !.at = n].at = n
         /\ \A f \in {"fresh", "runs", "crashes", "done"} : [r EXCEPT !.at = n][f] = r[f]
         /\ [r EXCEPT !.fresh = fresh] \in RunRow
         /\ \A f \in {"at", "runs", "crashes", "done"} : [r EXCEPT !.fresh = fresh][f] = r[f]
BY DEF RunRow

LEMMA RunCount ==
  ASSUME NEW r \in RunRow, NEW n \in Nat
  PROVE  /\ [r EXCEPT !.runs = n] \in RunRow /\ [r EXCEPT !.runs = n].runs = n
         /\ \A f \in {"at", "done"} : [r EXCEPT !.runs = n][f] = r[f]
         /\ [r EXCEPT !.crashes = n] \in RunRow
         /\ \A f \in {"at", "runs", "done"} : [r EXCEPT !.crashes = n][f] = r[f]
         /\ [r EXCEPT !.done = n] \in RunRow /\ [r EXCEPT !.done = n].done = n
         /\ \A f \in {"at", "runs"} : [r EXCEPT !.done = n][f] = r[f]
BY DEF RunRow

LEMMA RunFields ==
  ASSUME NEW r \in RunRow
  PROVE  /\ r.at \in Nat /\ r.fresh \in SUBSET Gates
         /\ r.runs \in Nat /\ r.crashes \in Nat /\ r.done \in Nat
         /\ r.at + 1 \in Nat /\ r.runs + 1 \in Nat /\ r.crashes + 1 \in Nat /\ r.done + 1 \in Nat
BY DEF RunRow

(* What a run becomes.                                                     *)
LEMMA RunBecomes ==
  ASSUME NEW r \in RunRow, NEW fresh \in SUBSET Gates
  PROVE  /\ LET new == [r EXCEPT !.at = 0, !.fresh = {}, !.done = @ + 1] IN
              new \in RunRow /\ new.at = 0 /\ new.done = r.done + 1 /\ new.runs = r.runs
         /\ LET new == [r EXCEPT !.at = @ + 1, !.fresh = fresh] IN
              new \in RunRow /\ new.at = r.at + 1 /\ new.done = r.done /\ new.runs = r.runs
         /\ LET new == [r EXCEPT !.at = 1, !.runs = @ + 1] IN
              new \in RunRow /\ new.at = 1 /\ new.done = r.done /\ new.runs = r.runs + 1
         /\ LET new == [r EXCEPT !.at = 0, !.fresh = {}] IN
              new \in RunRow /\ new.at = 0 /\ new.done = r.done /\ new.runs = r.runs
         /\ LET new == [r EXCEPT !.at = 0, !.fresh = {}, !.crashes = @ + 1] IN
              new \in RunRow /\ new.at = 0 /\ new.done = r.done /\ new.runs = r.runs
<1> DEFINE halted == [r EXCEPT !.at = 0]
           cut == [halted EXCEPT !.fresh = {}]
           next == [r EXCEPT !.at = r.at + 1]
           first == [r EXCEPT !.at = 1]
<1>1. {} \in SUBSET Gates /\ 0 \in Nat /\ 1 \in Nat OBVIOUS
<1>2. halted \in RunRow /\ halted.at = 0 /\ halted.done = r.done /\ halted.runs = r.runs
       /\ halted.crashes = r.crashes
  BY <1>1, RunSet
<1>3. next \in RunRow /\ next.at = r.at + 1 /\ next.done = r.done /\ next.runs = r.runs
  BY <1>1, RunSet, RunFields
<1>4. first \in RunRow /\ first.at = 1 /\ first.done = r.done /\ first.runs = r.runs
  BY <1>1, RunSet
<1> HIDE DEF halted, next, first
<1>5. cut \in RunRow /\ cut.at = 0 /\ cut.done = r.done /\ cut.runs = r.runs /\ cut.crashes = r.crashes
  <2>1. cut \in RunRow /\ \A f \in {"at", "runs", "crashes", "done"} : cut[f] = halted[f]
    BY <1>1, <1>2, RunSet, Zenon
  <2> QED BY <1>2, <2>1
<1>6. LET new == [next EXCEPT !.fresh = fresh] IN
        new \in RunRow /\ new.at = r.at + 1 /\ new.done = r.done /\ new.runs = r.runs
  BY <1>3, RunSet
<1>7. LET new == [first EXCEPT !.runs = r.runs + 1] IN
        new \in RunRow /\ new.at = 1 /\ new.done = r.done /\ new.runs = r.runs + 1
  BY <1>4, RunCount, RunFields
<1> HIDE DEF cut
<1>8. LET new == [cut EXCEPT !.done = r.done + 1] IN
        new \in RunRow /\ new.at = 0 /\ new.done = r.done + 1 /\ new.runs = r.runs
  BY <1>5, RunCount, RunFields
<1>9. LET new == [cut EXCEPT !.crashes = r.crashes + 1] IN
        new \in RunRow /\ new.at = 0 /\ new.done = r.done /\ new.runs = r.runs
  BY <1>5, RunCount, RunFields
<1> QED BY <1>2, <1>3, <1>4, <1>5, <1>6, <1>7, <1>8, <1>9, Zenon DEF cut, halted, next, first

LEMMA OnwardKeeps ==
  ASSUME RunsInv, NEW s \in Scripts, Running(s), NEW fresh \in SUBSET Gates, Onward(s, fresh)
  PROVE  RunsInv'
<1>1. /\ runs[s].at \in 1..Len(ScriptOf[s]) /\ Len(ScriptOf[s]) \in Nat
      /\ runs \in [Scripts -> RunRow] /\ runs[s] \in RunRow
  BY AtStep, ScriptsAreProper DEF RunsInv
<1>2. runs[s].done < runs[s].runs /\ \A t \in Scripts \ {s} : ~Running(t)
  BY DEF RunsInv, RunsCounted, OneRun
<1>3. CASE runs[s].at = Len(ScriptOf[s])
  <2> DEFINE new == [runs[s] EXCEPT !.at = 0, !.fresh = {}, !.done = @ + 1]
  <2>1. runs' = [runs EXCEPT ![s] = new] BY <1>1, <1>3 DEF Onward
  <2>2. new \in RunRow /\ new.at = 0 /\ new.done = runs[s].done + 1 /\ new.runs = runs[s].runs
    BY <1>1, RunBecomes DEF RunRow
  <2> HIDE DEF new
  <2>3. new.done <= new.runs BY <1>1, <1>2, <2>2, RunFields
  <2>4. new.at <= Len(ScriptOf[s]) BY <1>1, <2>2
  <2> QED BY <2>1, <2>2, <2>3, <2>4, RunMoves
<1>4. CASE runs[s].at # Len(ScriptOf[s])
  <2> DEFINE new == [runs[s] EXCEPT !.at = @ + 1, !.fresh = fresh]
  <2>1. runs' = [runs EXCEPT ![s] = new] BY <1>1, <1>4 DEF Onward
  <2>2. new \in RunRow /\ new.at = runs[s].at + 1 /\ new.done = runs[s].done /\ new.runs = runs[s].runs
    BY <1>1, RunBecomes DEF RunRow
  <2>3. new.at <= Len(ScriptOf[s]) /\ new.done < new.runs BY <1>1, <1>2, <1>4, <2>2
  <2> HIDE DEF new
  <2>4. new.done <= new.runs BY <1>1, <2>2, <2>3, RunFields
  <2> QED BY <1>2, <2>1, <2>2, <2>3, <2>4, RunMoves
<1> QED BY <1>3, <1>4

LEMMA ContinueKeeps ==
  ASSUME RunsInv, NEW s \in Scripts, Running(s), Continue(s)
  PROVE  RunsInv'
<1>1. runs[s].fresh \in SUBSET Gates BY AtStep
<1> QED BY <1>1, OnwardKeeps DEF Continue

LEMMA StartKeeps ==
  ASSUME RunsInv, NEW s \in Scripts, Start(s)
  PROVE  RunsInv'
<1> DEFINE new == [runs[s] EXCEPT !.at = 1, !.runs = @ + 1]
<1>1. runs \in [Scripts -> RunRow] /\ runs[s] \in RunRow /\ runs[s].done <= runs[s].runs
  BY DEF RunsInv, RunsCounted
<1>2. runs' = [runs EXCEPT ![s] = new] BY <1>1 DEF Start
<1>3. new \in RunRow /\ new.at = 1 /\ new.done = runs[s].done /\ new.runs = runs[s].runs + 1
  BY <1>1, RunBecomes DEF RunRow
<1>4. new.at <= Len(ScriptOf[s]) BY <1>3, ScriptsAreProper
<1> HIDE DEF new
<1>5. new.done < new.runs /\ new.done <= new.runs BY <1>1, <1>3, RunFields
<1>6. \A t \in Scripts \ {s} : ~Running(t) BY DEF Start
<1> QED BY <1>2, <1>3, <1>4, <1>5, <1>6, RunMoves

(* A run that is cut off, or that throws.                                  *)
LEMMA StopKeeps ==
  ASSUME RunsInv, NEW s \in Scripts,
         \/ runs' = [runs EXCEPT ![s].at = 0, ![s].fresh = {}]
         \/ runs' = [runs EXCEPT ![s].at = 0, ![s].fresh = {}, ![s].crashes = @ + 1]
  PROVE  RunsInv'
<1> DEFINE cut == [runs[s] EXCEPT !.at = 0, !.fresh = {}]
           killed == [runs[s] EXCEPT !.at = 0, !.fresh = {}, !.crashes = @ + 1]
<1>1. runs \in [Scripts -> RunRow] /\ runs[s] \in RunRow /\ runs[s].done <= runs[s].runs
  BY DEF RunsInv, RunsCounted
<1>2. runs' = [runs EXCEPT ![s] = cut] \/ runs' = [runs EXCEPT ![s] = killed] BY <1>1
<1>3. cut \in RunRow /\ cut.at = 0 /\ cut.done = runs[s].done /\ cut.runs = runs[s].runs
  BY <1>1 DEF RunRow
<1>4. killed \in RunRow /\ killed.at = 0 /\ killed.done = runs[s].done /\ killed.runs = runs[s].runs
  BY <1>1, RunBecomes DEF RunRow
<1>5. 0 <= Len(ScriptOf[s]) BY ScriptsAreProper
<1> HIDE DEF cut, killed
<1> QED BY <1>1, <1>2, <1>3, <1>4, <1>5, RunMoves

-----------------------------------------------------------------------------
(* A step of an import.                                                    *)

LEMMA RowsGrow ==
  ASSUME DOMAIN rows \subseteq Rows, NEW r \in Rows
  PROVE  /\ DOMAIN BagAdd(rows, r) \subseteq Rows
         /\ Add(r) => DOMAIN rows' \subseteq Rows
<1>1. DOMAIN BagAdd(rows, r) = DOMAIN rows \cup {r} BY DEF BagAdd
<1> QED BY <1>1 DEF Add

LEMMA OrderedTypes ==
  ASSUME ImportsInv, NEW s \in Scripts,
         \/ Orderable(s) /\ Placed(s)
         \/ \E state \in OrderStates : Move(s, state)
         \/ Sweep(s)
  PROVE  stock' \in [Scripts -> Nat] /\ orders' \in [Scripts -> Seq(OrderStates)]
<1>1. /\ stock \in [Scripts -> Nat] /\ orders \in [Scripts -> Seq(OrderStates)]
      /\ OrderQty[s] \in Nat
  BY ImportsAssumption DEF ImportsInv, ImportsAssumption
<1>2. CASE Orderable(s) /\ Placed(s)
  <2>1. stock[s] - OrderQty[s] \in Nat BY <1>1, <1>2 DEF Orderable
  <2>2. Append(orders[s], "PLACED") \in Seq(OrderStates) BY <1>1 DEF OrderStates, Live
  <2> QED BY <1>1, <1>2, <2>1, <2>2 DEF Placed
<1>3. CASE \E state \in OrderStates : Move(s, state)
  <2>1. PICK state \in OrderStates : Move(s, state) BY <1>3
  <2>2. [orders[s] EXCEPT ![Len(orders[s])] = state] \in Seq(OrderStates)
    <3> DEFINE q == orders[s]
    <3>1. q \in [1..Len(q) -> OrderStates] /\ Len(q) \in Nat BY <1>1
    <3>2. [q EXCEPT ![Len(q)] = state] \in [1..Len(q) -> OrderStates] BY <3>1
    <3> HIDE DEF q
    <3>3. [q EXCEPT ![Len(q)] = state] \in Seq(OrderStates) BY <3>1, <3>2
    <3> QED BY <3>3 DEF q
  <2> QED BY <1>1, <2>1, <2>2 DEF Move
<1>4. CASE Sweep(s)
  <2>1. PICK i \in DOMAIN orders[s] :
          /\ orders' = [orders EXCEPT ![s][i] = "CANCELLED"]
          /\ stock' = [stock EXCEPT ![s] = @ + OrderQty[s]]
    BY <1>4 DEF Sweep
  <2>2. "CANCELLED" \in OrderStates BY DEF OrderStates
  <2>3. [orders[s] EXCEPT ![i] = "CANCELLED"] \in Seq(OrderStates) BY <1>1, <2>2
  <2> QED BY <1>1, <2>1, <2>3
<1> QED BY <1>2, <1>3, <1>4

LEMMA ImportKeeps ==
  ASSUME ImportsInv, Import
  PROVE  ImportsInv'
<1>1. cast' = cast BY DEF Import
<1>2. CASE \E s \in Scripts : Start(s)
  <2>1. PICK s \in Scripts : Start(s) BY <1>2
  <2>2. RunsInv' BY <2>1, StartKeeps DEF ImportsInv
  <2> QED BY <1>1, <2>1, <2>2 DEF ImportsInv, Start
<1>3. CASE \E s \in Scripts : Crash(s)
  <2>1. PICK s \in Scripts : Crash(s) BY <1>3
  <2>2. RunsInv' BY <2>1, StopKeeps DEF ImportsInv, Crash
  <2> QED BY <1>1, <2>1, <2>2 DEF ImportsInv, Crash
<1>4. CASE \E s \in Scripts : Sweep(s)
  <2>1. PICK s \in Scripts : Sweep(s) BY <1>4
  <2>2. stock' \in [Scripts -> Nat] /\ orders' \in [Scripts -> Seq(OrderStates)]
    BY <2>1, OrderedTypes
  <2>3. RunsInv' BY <2>1 DEF ImportsInv, Sweep, RunsInv, RunsCounted, OneRun, Running
  <2> QED BY <1>1, <2>1, <2>2, <2>3 DEF ImportsInv, Sweep
<1>5. CASE ApproveByHand("Jinglin")
  <2>1. DOMAIN rows' \subseteq Rows BY <1>5, ApprovalIsRow, RowsGrow DEF ApproveByHand, ImportsInv
  <2>2. RunsInv' BY <1>5 DEF ImportsInv, ApproveByHand, RunsInv, RunsCounted, OneRun, Running
  <2> QED BY <1>1, <1>5, <2>1, <2>2 DEF ImportsInv, ApproveByHand
<1>6. CASE \E s \in Scripts : Do(s)
  <2>1. PICK s \in Scripts : Do(s) BY <1>6
  <2>2. Running(s) /\ RunsInv BY <2>1 DEF Do, ImportsInv
  <2>3. /\ runs[s].fresh \in SUBSET Gates /\ runs[s].fresh \cup {Now(s).gate} \in SUBSET Gates
        /\ Now(s) \in ProperStep /\ Now(s).row \in Rows
    BY <2>2, AtStep
  <2>4. Continue(s) => RunsInv' BY <2>2, ContinueKeeps
  <2>5. CASE DoRegister(s)
    <3>1. RunsInv'
      <4>1. CASE Now(s).row[1] \in orgs BY <2>2, <2>3, <2>5, <4>1, OnwardKeeps DEF DoRegister
      <4>2. CASE Now(s).row[1] \notin orgs BY <2>2, <2>3, <2>5, <4>2, OnwardKeeps DEF DoRegister
      <4> QED BY <4>1, <4>2
    <3>2. Now(s).row[1] \in Orgs
      BY <2>3, <2>5, ImportsAssumption DEF DoRegister, ProperStep, ImportsAssumption
    <3> QED BY <1>1, <2>5, <3>1, <3>2 DEF ImportsInv, DoRegister
  <2>6. CASE DoGate(s)
    <3>1. RunsInv'
      <4>1. CASE Enough(Now(s).row) BY <2>2, <2>3, <2>6, <4>1, OnwardKeeps DEF DoGate
      <4>2. CASE ~Enough(Now(s).row) BY <2>2, <2>3, <2>6, <4>2, OnwardKeeps DEF DoGate
      <4> QED BY <4>1, <4>2
    <3> QED BY <1>1, <2>6, <3>1 DEF ImportsInv, DoGate
  <2>7. CASE DoRow(s)
    <3>1. DOMAIN rows' \subseteq Rows BY <2>3, <2>7, RowsGrow DEF DoRow, ImportsInv
    <3> QED BY <1>1, <2>4, <2>7, <3>1 DEF ImportsInv, DoRow
  <2>8. ASSUME Throw(s) PROVE ImportsInv'
    <3>1. RunsInv' BY <2>2, <2>8, StopKeeps DEF Throw
    <3> QED BY <1>1, <2>8, <3>1 DEF ImportsInv, Throw
  <2>9. CASE DoLot(s)
    <3>1. CASE There(Now(s).row) \/ There(<<s, "sku">>)
      <4>1. DOMAIN rows' \subseteq Rows BY <2>3, <2>9, <3>1, RowsGrow DEF DoLot, ImportsInv
      <4>2. LotQty[s] \in Nat BY ImportsAssumption DEF ImportsAssumption
      <4>3. stock' \in [Scripts -> Nat] BY <2>9, <3>1, <4>2 DEF DoLot, ImportsInv
      <4>4. Continue(s) /\ UNCHANGED <<orgs, orders, enriched>> BY <2>9, <3>1 DEF DoLot
      <4> QED BY <1>1, <2>4, <4>1, <4>3, <4>4 DEF ImportsInv
    <3>2. CASE ~(There(Now(s).row) \/ There(<<s, "sku">>))
      <4>1. \/ Throw(s)
            \/ Continue(s) /\ UNCHANGED <<orgs, rows, stock, orders, enriched>>
        BY <2>9, <3>2 DEF DoLot
      <4> QED BY <1>1, <2>4, <2>8, <4>1 DEF ImportsInv
    <3> QED BY <3>1, <3>2
  <2>10. ASSUME Orderable(s) /\ Placed(s) /\ rows' \in {rows, BagAdd(rows, Now(s).row)} PROVE ImportsInv'
    <3>1. stock' \in [Scripts -> Nat] /\ orders' \in [Scripts -> Seq(OrderStates)]
      BY <2>10, OrderedTypes
    <3>2. DOMAIN rows' \subseteq Rows BY <2>3, <2>10, RowsGrow DEF ImportsInv
    <3> QED BY <1>1, <2>4, <2>10, <3>1, <3>2 DEF ImportsInv, Placed
  <2>11. CASE DoPlace(s)
    BY <2>8, <2>10, <2>11 DEF DoPlace, Recognised
  <2>12. CASE DoSome(s)
    <3>1. CASE OfBuyer < 4 /\ Orderable(s) BY <2>10, <2>12, <3>1 DEF DoSome
    <3>2. CASE ~(OfBuyer < 4 /\ Orderable(s))
      BY <1>1, <2>4, <2>12, <3>2 DEF DoSome, ImportsInv
    <3> QED BY <3>1, <3>2
  <2>13. CASE DoPay(s) \/ DoDeliver(s)
    <3>1. PICK state \in {"PAID", "COMPLETED"} : Move(s, state) BY <2>13 DEF DoPay, DoDeliver
    <3>2. state \in OrderStates BY DEF OrderStates, Live
    <3>3. stock' \in [Scripts -> Nat] /\ orders' \in [Scripts -> Seq(OrderStates)]
      BY <3>1, <3>2, OrderedTypes
    <3> QED BY <1>1, <2>4, <3>1, <3>3 DEF ImportsInv, Move
  <2>14. CASE DoDate(s)
    <3>1. Add(Now(s).row) \/ UNCHANGED rows BY <2>14 DEF DoDate
    <3>2. DOMAIN rows' \subseteq Rows BY <2>3, <3>1, RowsGrow DEF ImportsInv
    <3> QED BY <1>1, <2>4, <2>14, <3>2 DEF ImportsInv, DoDate
  <2>15. CASE DoEnrich(s)
    <3>1. Found(s) \subseteq orgs BY DEF Found, FindReal, Namesakes
    <3>2. enriched' \subseteq Orgs BY <2>15, <3>1 DEF DoEnrich, ImportsInv
    <3> QED BY <1>1, <2>4, <2>15, <3>2 DEF ImportsInv, DoEnrich
  <2> QED BY <2>1, <2>5, <2>6, <2>7, <2>9, <2>11, <2>12, <2>13, <2>14, <2>15 DEF Do
<1> QED BY <1>2, <1>3, <1>4, <1>5, <1>6 DEF Import, ImportsNext

-----------------------------------------------------------------------------
(* The purges.  What the API and the purges do beside each other.          *)

LEMMA ClearKeepsImports ==
  ASSUME ImportsInv, Clear
  PROVE  ImportsInv'
<1>1. UNCHANGED <<cast, rows, stock, orders, enriched, runs>> BY DEF Clear, importVars
<1>2. orgs' \subseteq Orgs
  BY DEF ImportsInv, Clear, PurgeNext, Join, StockUp, DealChecks, Deal, FindOrgs, Protect, CollectOrders,
         CollectLots, TxHolds, TxLots, Commit, Abort
<1>3. RunsInv' BY <1>1 DEF ImportsInv, RunsInv, RunsCounted, OneRun, Running
<1> QED BY <1>1, <1>2, <1>3 DEF ImportsInv

LEMMA PurgeFields ==
  ASSUME PurgeTypes, NEW p \in Purges
  PROVE  /\ purges[p] \in PurgeRow
         /\ purges[p].found \subseteq Orgs /\ purges[p].lots \subseteq Orgs
         /\ purges[p].orders \subseteq DealRow /\ purges[p].goneHolds \subseteq DealRow
         /\ purges[p].aborts \in Nat
BY DEF PurgeTypes, PurgeRow

(* A deal has a number no deal had before.                                 *)
LEMMA DealIsNew ==
  ASSUME PurgeTypes, NEW b \in Orgs, NEW o \in Orgs, Deal(b, o)
  PROVE  LET d == [id |-> dealt + 1, buyer |-> b, supplier |-> o] IN
         /\ d \in DealRow /\ dealt' = dealt + 1 /\ dealt' \in 0..MaxDeals
         /\ deals' = deals \cup {d} /\ holds' = holds \cup {d}
         /\ \A e : Known(e) => e # d /\ Known(e)'
         /\ \A e : e = d => Known(e)'
<1>1. dealt \in Nat /\ dealt < MaxDeals /\ MaxDeals \in Nat
  BY UpkeepAssumption DEF PurgeTypes, Deal, UpkeepAssumption
<1> DEFINE d == [id |-> dealt + 1, buyer |-> b, supplier |-> o]
<1>2. /\ dealt' = dealt + 1 /\ deals' = deals \cup {d} /\ holds' = holds \cup {d} BY DEF Deal
<1>3. d \in DealRow /\ d.id = dealt + 1 BY <1>1 DEF DealRow
<1>4. dealt' \in 0..MaxDeals BY <1>1, <1>2
<1> HIDE DEF d
<1>5. \A e \in DealRow : e.id \in Nat BY DEF DealRow
<1>6. \A e : Known(e) => e # d /\ Known(e)' BY <1>1, <1>2, <1>3, <1>5 DEF Known
<1>7. \A e : e = d => Known(e)' BY <1>1, <1>2, <1>3 DEF Known
<1> QED BY <1>2, <1>3, <1>4, <1>6, <1>7 DEF d

(* One purge moves, and what is in the database does not grow.             *)
Shrinks ==
  /\ lots' \subseteq lots /\ checked' = checked /\ dealt' = dealt
  /\ deals' \subseteq deals /\ holds' \subseteq holds /\ late' \subseteq late

LEMMA PurgeMoves ==
  ASSUME PurgeTypes, NEW p \in Purges, NEW row \in PurgeRow, purges' = [purges EXCEPT ![p] = row],
         \A e \in row.orders \cup row.goneHolds : Known(e), Shrinks
  PROVE  PurgeTypes' /\ purges'[p] = row /\ \A q \in Purges \ {p} : purges'[q] = purges[q]
<1>1. /\ purges'[p] = row /\ purges' \in [Purges -> PurgeRow]
      /\ \A q \in Purges \ {p} : purges'[q] = purges[q]
  BY DEF PurgeTypes
<1>2. \A q \in Purges : \A e \in purges'[q].orders \cup purges'[q].goneHolds : Known(e)
  BY <1>1 DEF PurgeTypes
<1>3. \A e : Known(e) => Known(e)' BY DEF Known, Shrinks
<1> QED BY <1>1, <1>2, <1>3 DEF PurgeTypes, Shrinks

(* The steps of a purge: where it gets to and what it then has.            *)
Gets(p, row) ==
  purges' = [purges EXCEPT ![p] = row] /\ row \in PurgeRow
  /\ \A e \in row.orders \cup row.goneHolds : Known(e)

LEMMA Advances ==
  ASSUME PurgeTypes, NEW p \in Purges,
         NEW at \in {"find", "protect", "orders", "stock", "holds", "lots", "orgs", "done"},
         NEW found \in SUBSET Orgs, NEW os, NEW ls \in SUBSET Orgs, NEW gone,
         \A e \in os \cup gone : Known(e),
         Advance(p, at, found, os, ls, gone)
  PROVE  Gets(p, [at |-> at, found |-> found, orders |-> os, lots |-> ls,
                  goneHolds |-> gone, aborts |-> purges[p].aborts])
<1> DEFINE row == [at |-> at, found |-> found, orders |-> os, lots |-> ls,
                   goneHolds |-> gone, aborts |-> purges[p].aborts]
<1>1. os \subseteq DealRow /\ gone \subseteq DealRow BY DEF Known
<1>2. row \in PurgeRow BY <1>1, PurgeFields DEF PurgeRow
<1>3. purges' = [purges EXCEPT ![p] = row] BY DEF Advance, PurgeTypes
<1>4. row.orders = os /\ row.goneHolds = gone OBVIOUS
<1> HIDE DEF row
<1>5. Gets(p, row) BY <1>2, <1>3, <1>4 DEF Gets
<1> QED BY <1>5 DEF row

At(p, at, found, os, ls, gone) ==
  Gets(p, [at |-> at, found |-> found, orders |-> os, lots |-> ls,
           goneHolds |-> gone, aborts |-> purges[p].aborts])

LEMMA PurgeSteps ==
  ASSUME ImportsInv, PurgesInv, NEW p \in Purges
  PROVE  /\ FindOrgs(p) => At(p, "protect", {o \in orgs : NameOf[o] \in TestNames[p]}, {}, {}, {})
         /\ Protect(p) => \E at \in {"find", "orders"} : At(p, at, purges[p].found \ Protected, {}, {}, {})
         /\ CollectOrders(p) => At(p, "stock", purges[p].found, OrdersOf(purges[p].found), {}, {})
         /\ CollectLots(p) =>
              At(p, "holds", purges[p].found, purges[p].orders, lots \cap purges[p].found, {})
         /\ TxHolds(p) => At(p, "lots", purges[p].found, purges[p].orders, purges[p].lots, HoldsOf(p))
         /\ TxLots(p) => At(p, "orgs", purges[p].found, purges[p].orders, purges[p].lots, purges[p].goneHolds)
         /\ Commit(p) => At(p, "done", {}, {}, {}, {})
<1>1. PurgeTypes BY DEF PurgesInv
<1>2. /\ purges[p].found \in SUBSET Orgs /\ purges[p].lots \in SUBSET Orgs
      /\ \A e \in purges[p].orders \cup purges[p].goneHolds : Known(e)
  BY <1>1, PurgeFields DEF PurgeTypes
<1>3. \A e \in deals \cup holds : Known(e) BY <1>1 DEF PurgeTypes
<1>4. ASSUME FindOrgs(p) PROVE At(p, "protect", {o \in orgs : NameOf[o] \in TestNames[p]}, {}, {}, {})
  <2>1. {o \in orgs : NameOf[o] \in TestNames[p]} \in SUBSET Orgs BY DEF ImportsInv
  <2> QED BY <1>1, <1>4, <2>1, Advances DEF FindOrgs, At
<1>5. ASSUME Protect(p)
      PROVE  \E at \in {"find", "orders"} : At(p, at, purges[p].found \ Protected, {}, {}, {})
  <2>1. purges[p].found \ Protected \in SUBSET Orgs BY <1>2
  <2>2. PICK at \in {"find", "orders"} : Advance(p, at, purges[p].found \ Protected, {}, {}, {})
    BY <1>5 DEF Protect
  <2> QED BY <1>1, <2>1, <2>2, Advances DEF At
<1>6. ASSUME CollectOrders(p) PROVE At(p, "stock", purges[p].found, OrdersOf(purges[p].found), {}, {})
  <2>1. \A e \in OrdersOf(purges[p].found) \cup {} : Known(e) BY <1>3 DEF OrdersOf
  <2> QED BY <1>1, <1>2, <1>6, <2>1, Advances DEF CollectOrders, At
<1>7. ASSUME CollectLots(p)
      PROVE  At(p, "holds", purges[p].found, purges[p].orders, lots \cap purges[p].found, {})
  <2>1. lots \cap purges[p].found \in SUBSET Orgs BY <1>2
  <2> QED BY <1>1, <1>2, <1>7, <2>1, Advances DEF CollectLots, At
<1>8. ASSUME TxHolds(p)
      PROVE  At(p, "lots", purges[p].found, purges[p].orders, purges[p].lots, HoldsOf(p))
  <2>1. \A e \in purges[p].orders \cup HoldsOf(p) : Known(e) BY <1>2, <1>3 DEF HoldsOf
  <2> QED BY <1>1, <1>2, <1>8, <2>1, Advances DEF TxHolds, At
<1>9. ASSUME TxLots(p)
      PROVE  At(p, "orgs", purges[p].found, purges[p].orders, purges[p].lots, purges[p].goneHolds)
  BY <1>1, <1>2, <1>9, Advances DEF TxLots, At
<1>10. ASSUME Commit(p) PROVE At(p, "done", {}, {}, {}, {})
  BY <1>1, <1>10, Advances DEF Commit, At
<1> QED BY <1>4, <1>5, <1>6, <1>7, <1>8, <1>9, <1>10

(* Any step of a purge, seen from the others.                              *)
PurgeStep(p) ==
  FindOrgs(p) \/ Protect(p) \/ CollectOrders(p) \/ CollectLots(p) \/ TxHolds(p) \/ TxLots(p)
    \/ Commit(p) \/ Abort(p)

(* What is real stays, and what stays keeps its entries.                   *)
LEMMA PurgeShrinks ==
  ASSUME PurgesInv, NEW p \in Purges, PurgeStep(p)
  PROVE  /\ Shrinks /\ orgs' \subseteq orgs /\ orgs \cap Real \subseteq orgs'
         /\ \A l \in late : l[1] \in deals' \cup holds' => l \in late'
<1>1. CASE Commit(p)
  <2>1. purges[p].found \cap Real = {} BY <1>1 DEF Commit, PurgesInv, SparesReal
  <2> QED BY <1>1, <2>1 DEF Commit, Shrinks
<1>2. CASE ~Commit(p)
  <2>1. UNCHANGED <<orgs, lots, checked, dealt, deals, holds, late>>
    BY <1>2 DEF PurgeStep, FindOrgs, Protect, CollectOrders, CollectLots, TxHolds, TxLots, Abort
  <2> QED BY <2>1 DEF Shrinks
<1> QED BY <1>1, <1>2

LEMMA PurgeGets ==
  ASSUME ImportsInv, PurgesInv, NEW p \in Purges, PurgeStep(p)
  PROVE  \E row : Gets(p, row)
<1>1. CASE Abort(p)
  <2> DEFINE row == [Idle EXCEPT !.aborts = purges[p].aborts + 1]
  <2>1. purges[p].aborts \in Nat BY PurgeFields DEF PurgesInv
  <2>2. row = [at |-> "find", found |-> {}, orders |-> {}, lots |-> {}, goneHolds |-> {},
               aborts |-> purges[p].aborts + 1]
    BY DEF Idle
  <2>3. row \in PurgeRow /\ row.orders = {} /\ row.goneHolds = {} BY <2>1, <2>2 DEF PurgeRow
  <2>4. purges' = [purges EXCEPT ![p] = row] BY <1>1 DEF Abort
  <2> HIDE DEF row
  <2>5. Gets(p, row) BY <2>3, <2>4 DEF Gets
  <2> QED BY <2>5
<1> QED BY <1>1, PurgeSteps DEF PurgeStep, At

LEMMA PurgeTypesKept ==
  ASSUME ImportsInv, PurgesInv, NEW p \in Purges, PurgeStep(p)
  PROVE  PurgeTypes' /\ \A q \in Purges \ {p} : purges'[q] = purges[q]
<1>1. PICK row : Gets(p, row) BY PurgeGets
<1> QED BY <1>1, PurgeMoves, PurgeShrinks DEF Gets, PurgesInv

(* The others keep what they rest on while a purge takes a step.           *)
LEMMA OthersKept ==
  ASSUME ImportsInv, PurgesInv, NEW p \in Purges, PurgeStep(p), NEW q \in Purges \ {p}
  PROVE  /\ IF purges'[q].at \in {"find", "protect"}
              THEN purges'[q].at = "protect" => purges'[q].found \cap Real \subseteq orgs'
              ELSE purges'[q].found \cap Real = {}
         /\ Collected(q)' => \A d \in deals' : Concerns(q, d)' => d \in purges'[q].orders \/ Late(d)'
         /\ purges'[q].lots \subseteq purges'[q].found
         /\ purges'[q].at \in {"lots", "orgs"} =>
              \A h \in holds' :
                /\ h \in purges'[q].orders => h \in purges'[q].goneHolds
                /\ h.supplier \in purges'[q].lots =>
                     h \in purges'[q].goneHolds \/ <<h, "lots">> \in late'
<1>1. purges'[q] = purges[q] BY PurgeTypesKept
<1>2. /\ Shrinks /\ orgs \cap Real \subseteq orgs'
      /\ \A l \in late : l[1] \in deals' \cup holds' => l \in late'
  BY PurgeShrinks
<1>3. IF purges'[q].at \in {"find", "protect"}
        THEN purges'[q].at = "protect" => purges'[q].found \cap Real \subseteq orgs'
        ELSE purges'[q].found \cap Real = {}
  BY <1>1, <1>2 DEF PurgesInv, SparesReal
<1>4. ASSUME Collected(q)', NEW d \in deals', Concerns(q, d)'
      PROVE  d \in purges'[q].orders \/ Late(d)'
  <2>1. Collected(q) /\ d \in deals /\ Concerns(q, d)
    BY <1>1, <1>2, <1>4 DEF Collected, Concerns, Shrinks
  <2>2. d \in purges[q].orders \/ Late(d) BY <2>1 DEF PurgesInv, OrdersCollected
  <2>3. Late(d) => Late(d)' BY <1>2 DEF Late
  <2> QED BY <1>1, <2>2, <2>3
<1>5. purges'[q].lots \subseteq purges'[q].found BY <1>1 DEF PurgesInv, HoldsCollected
<1>6. ASSUME purges'[q].at \in {"lots", "orgs"}, NEW h \in holds'
      PROVE  /\ h \in purges'[q].orders => h \in purges'[q].goneHolds
             /\ h.supplier \in purges'[q].lots =>
                     h \in purges'[q].goneHolds \/ <<h, "lots">> \in late'
  <2>1. h \in holds BY <1>2 DEF Shrinks
  <2>2. /\ h \in purges[q].orders => h \in purges[q].goneHolds
        /\ h.supplier \in purges[q].lots => h \in purges[q].goneHolds \/ <<h, "lots">> \in late
    BY <1>1, <1>6, <2>1 DEF PurgesInv, HoldsCollected
  <2>3. <<h, "lots">> \in late => <<h, "lots">> \in late' BY <1>2
  <2> QED BY <1>1, <2>2, <2>3
<1> QED BY <1>3, <1>4, <1>5, <1>6

(* A purge itself, by phases.                                              *)
LEMMA OwnKept ==
  ASSUME ImportsInv, PurgesInv, NEW p \in Purges, PurgeStep(p)
  PROVE  /\ IF purges'[p].at \in {"find", "protect"}
              THEN purges'[p].at = "protect" => purges'[p].found \cap Real \subseteq orgs'
              ELSE purges'[p].found \cap Real = {}
         /\ Collected(p)' => \A d \in deals' : Concerns(p, d)' => d \in purges'[p].orders \/ Late(d)'
         /\ purges'[p].lots \subseteq purges'[p].found
         /\ purges'[p].at \in {"lots", "orgs"} =>
              \A h \in holds' :
                /\ h \in purges'[p].orders => h \in purges'[p].goneHolds
                /\ h.supplier \in purges'[p].lots =>
                     h \in purges'[p].goneHolds \/ <<h, "lots">> \in late'
<1> DEFINE r == purges'[p]
<1>1. ASSUME NEW at, NEW found, NEW os, NEW ls, NEW gone, At(p, at, found, os, ls, gone)
      PROVE  r.at = at /\ r.found = found /\ r.orders = os /\ r.lots = ls /\ r.goneHolds = gone
  BY <1>1 DEF At, Gets, PurgesInv, PurgeTypes
<1> HIDE DEF r
<1>2. /\ purges[p].at \notin {"find", "protect"} => purges[p].found \cap Real = {}
      /\ purges[p].at = "protect" => purges[p].found \cap Real \subseteq orgs
      /\ purges[p].lots \subseteq purges[p].found
  BY DEF PurgesInv, SparesReal, HoldsCollected
<1>3. ASSUME r.at \in {"find", "done", "protect", "orders"}, r.lots = {},
             r.at = "protect" => r.found \cap Real \subseteq orgs',
             r.at \notin {"find", "protect"} => r.found \cap Real = {}
      PROVE  /\ IF r.at \in {"find", "protect"}
                  THEN r.at = "protect" => r.found \cap Real \subseteq orgs'
                  ELSE r.found \cap Real = {}
             /\ ~Collected(p)' /\ r.lots \subseteq r.found /\ r.at \notin {"lots", "orgs"}
  BY <1>3 DEF Collected, r
<1>4. CASE FindOrgs(p)
  <2>1. /\ r.at = "protect" /\ r.found = {o \in orgs : NameOf[o] \in TestNames[p]}
        /\ r.lots = {} /\ orgs' = orgs
    BY <1>1, <1>4, PurgeSteps DEF FindOrgs
  <2> QED BY <1>3, <2>1 DEF r
<1>5. CASE Protect(p)
  <2>1. PICK at \in {"find", "orders"} : At(p, at, purges[p].found \ Protected, {}, {}, {})
    BY <1>5, PurgeSteps
  <2>2. r.at \in {"find", "orders"} /\ r.found = purges[p].found \ Protected /\ r.lots = {}
    BY <1>1, <2>1
  <2>3. r.found \cap Real = {} BY <1>2, <1>5, <2>2 DEF Protect, Protected
  <2> QED BY <1>3, <2>2, <2>3 DEF r
<1>6. CASE Commit(p)
  <2>1. At(p, "done", {}, {}, {}, {}) BY <1>6, PurgeSteps
  <2>2. r.at = "done" /\ r.found = {} /\ r.lots = {} BY <1>1, <2>1
  <2> QED BY <1>3, <2>2 DEF r
<1>7. CASE Abort(p)
  <2>1. r = [Idle EXCEPT !.aborts = purges[p].aborts + 1] BY <1>7 DEF Abort, PurgesInv, PurgeTypes, r
  <2>2. r.at = "find" /\ r.lots = {} BY <2>1 DEF Idle
  <2> QED BY <1>3, <2>2 DEF r
<1>8. CASE CollectOrders(p)
  <2>1. At(p, "stock", purges[p].found, OrdersOf(purges[p].found), {}, {}) BY <1>8, PurgeSteps
  <2>2. /\ r.at = "stock" /\ r.found = purges[p].found /\ r.orders = OrdersOf(purges[p].found)
        /\ r.lots = {}
    BY <1>1, <2>1
  <2>3. purges[p].at = "orders" /\ deals' = deals BY <1>8 DEF CollectOrders
  <2>4. \A d \in deals : Concerns(p, d)' => d \in r.orders BY <2>2 DEF Concerns, OrdersOf, r
  <2> QED BY <1>2, <2>2, <2>3, <2>4 DEF Collected, r
<1>9. ASSUME purges[p].at \in {"stock", "holds", "lots"}, r.found = purges[p].found,
             r.orders = purges[p].orders, deals' = deals, late' = late
      PROVE  \A d \in deals' : Concerns(p, d)' => d \in r.orders \/ Late(d)'
  BY <1>9 DEF PurgesInv, OrdersCollected, Collected, Concerns, Late, r
<1>10. CASE CollectLots(p)
  <2>1. At(p, "holds", purges[p].found, purges[p].orders, lots \cap purges[p].found, {})
    BY <1>10, PurgeSteps
  <2>2. /\ r.at = "holds" /\ r.found = purges[p].found /\ r.orders = purges[p].orders
        /\ r.lots = lots \cap purges[p].found
    BY <1>1, <2>1
  <2>3. purges[p].at = "stock" /\ deals' = deals /\ late' = late BY <1>10 DEF CollectLots
  <2>4. \A d \in deals' : Concerns(p, d)' => d \in r.orders \/ Late(d)' BY <1>9, <2>2, <2>3
  <2> QED BY <1>2, <2>2, <2>3, <2>4 DEF r
<1>11. CASE TxHolds(p)
  <2>1. At(p, "lots", purges[p].found, purges[p].orders, purges[p].lots, HoldsOf(p))
    BY <1>11, PurgeSteps
  <2>2. /\ r.at = "lots" /\ r.found = purges[p].found /\ r.orders = purges[p].orders
        /\ r.lots = purges[p].lots /\ r.goneHolds = HoldsOf(p)
    BY <1>1, <2>1
  <2>3. purges[p].at = "holds" /\ deals' = deals /\ late' = late /\ holds' = holds
    BY <1>11 DEF TxHolds
  <2>4. \A d \in deals' : Concerns(p, d)' => d \in r.orders \/ Late(d)' BY <1>9, <2>2, <2>3
  <2>5. \A h \in holds : h \in r.orders \/ h.supplier \in r.lots => h \in r.goneHolds
    BY <2>2 DEF HoldsOf
  <2> QED BY <1>2, <2>2, <2>3, <2>4, <2>5 DEF r
<1>12. CASE TxLots(p)
  <2>1. At(p, "orgs", purges[p].found, purges[p].orders, purges[p].lots, purges[p].goneHolds)
    BY <1>12, PurgeSteps
  <2>2. /\ r.at = "orgs" /\ r.found = purges[p].found /\ r.orders = purges[p].orders
        /\ r.lots = purges[p].lots /\ r.goneHolds = purges[p].goneHolds
    BY <1>1, <2>1
  <2>3. purges[p].at = "lots" /\ deals' = deals /\ late' = late /\ holds' = holds
    BY <1>12 DEF TxLots
  <2>4. \A d \in deals' : Concerns(p, d)' => d \in r.orders \/ Late(d)' BY <1>9, <2>2, <2>3
  <2>5. \A h \in holds' :
          /\ h \in r.orders => h \in r.goneHolds
          /\ h.supplier \in r.lots => h \in r.goneHolds \/ <<h, "lots">> \in late'
    BY <2>2, <2>3 DEF PurgesInv, HoldsCollected
  <2> QED BY <1>2, <2>2, <2>3, <2>4, <2>5 DEF r
<1> QED BY <1>4, <1>5, <1>6, <1>7, <1>8, <1>10, <1>11, <1>12 DEF PurgeStep, r

(* Nothing is left behind, for what a purge clears it has all collected.   *)
LEMMA CleanKept ==
  ASSUME PurgesInv, NEW p \in Purges, PurgeStep(p)
  PROVE  PurgedClean'
<1>1. CASE ~Commit(p)
  <2>1. UNCHANGED <<orgs, lots, deals, holds, late>>
    BY <1>1 DEF PurgeStep, FindOrgs, Protect, CollectOrders, CollectLots, TxHolds, TxLots, Abort
  <2> QED BY <2>1 DEF PurgesInv, PurgedClean, LeavesNothing, NoOrphanHold
<1>2. CASE Commit(p)
  <2>1. /\ purges[p].at = "orgs" /\ orgs' = orgs \ purges[p].found
        /\ deals' = deals \ purges[p].orders /\ holds' = holds \ purges[p].goneHolds
        /\ lots' = lots \ purges[p].lots
    BY <1>2 DEF Commit
  <2>2. \A l \in late : l[1] \in deals' \cup holds' => l \in late' BY PurgeShrinks
  <2>3. LeavesNothing'
    <3>1. SUFFICES ASSUME NEW d \in deals', ~({d.buyer, d.supplier} \subseteq orgs')
                   PROVE  \E l \in late' : l[1] = d
      BY DEF LeavesNothing
    <3>2. d \in deals /\ d \notin purges[p].orders BY <2>1
    <3>3. CASE {d.buyer, d.supplier} \subseteq orgs
      <4>1. Concerns(p, d) BY <2>1, <3>1, <3>3 DEF Concerns
      <4>2. Late(d) BY <2>1, <3>2, <4>1 DEF PurgesInv, OrdersCollected, Collected
      <4> QED BY <2>2, <4>2 DEF Late
    <3>4. CASE ~({d.buyer, d.supplier} \subseteq orgs)
      <4>1. PICK l \in late : l[1] = d BY <3>2, <3>4 DEF PurgesInv, PurgedClean, LeavesNothing
      <4> QED BY <2>2, <4>1
    <3> QED BY <3>3, <3>4
  <2>4. holds' \subseteq deals'
    BY <2>1 DEF PurgesInv, HoldsCollected, PurgedClean, NoOrphanHold
  <2>5. ASSUME NEW h \in holds', h.supplier \notin lots'
        PROVE  <<h, "lots">> \in late'
    <3>1. h \in holds /\ h \notin purges[p].goneHolds BY <2>1
    <3>2. <<h, "lots">> \in late
      BY <2>1, <2>5, <3>1 DEF PurgesInv, HoldsCollected, PurgedClean, NoOrphanHold
    <3> QED BY <2>2, <3>2
  <2> QED BY <2>3, <2>4, <2>5 DEF PurgedClean, NoOrphanHold
<1> QED BY <1>1, <1>2

LEMMA PurgeKeeps ==
  ASSUME ImportsInv, PurgesInv, NEW p \in Purges, PurgeStep(p)
  PROVE  PurgesInv'
<1>1. PurgeTypes' BY PurgeTypesKept
<1>2. \A q \in Purges :
         /\ IF purges'[q].at \in {"find", "protect"}
              THEN purges'[q].at = "protect" => purges'[q].found \cap Real \subseteq orgs'
              ELSE purges'[q].found \cap Real = {}
         /\ Collected(q)' => \A d \in deals' : Concerns(q, d)' => d \in purges'[q].orders \/ Late(d)'
         /\ purges'[q].lots \subseteq purges'[q].found
         /\ purges'[q].at \in {"lots", "orgs"} =>
              \A h \in holds' :
                /\ h \in purges'[q].orders => h \in purges'[q].goneHolds
                /\ h.supplier \in purges'[q].lots =>
                     h \in purges'[q].goneHolds \/ <<h, "lots">> \in late'
  <2> TAKE q \in Purges
  <2>1. CASE q = p BY <2>1, OwnKept, Zenon
  <2>2. CASE q # p BY <2>2, OthersKept, Zenon
  <2> QED BY <2>1, <2>2
<1>3. SparesReal' BY <1>2 DEF SparesReal
<1>4. OrdersCollected' BY <1>2 DEF OrdersCollected
<1>5. HoldsCollected' BY <1>2 DEF HoldsCollected
<1>6. PurgedClean' BY CleanKept
<1> QED BY <1>1, <1>3, <1>4, <1>5, <1>6 DEF PurgesInv

(* Companies that join, lots that are stocked and placements that pass     *)
(* their check, by hand or by an import.                                   *)
LEMMA GrowthKeeps ==
  ASSUME PurgesInv, orgs \subseteq orgs', lots \subseteq lots', lots' \subseteq Orgs,
         checked' \subseteq Orgs,
         UNCHANGED <<dealt, deals, holds, late, purges>>
  PROVE  PurgesInv'
<1>1. PurgeTypes' BY DEF PurgesInv, PurgeTypes, Known
<1>2. SparesReal' BY DEF PurgesInv, SparesReal
<1>3. OrdersCollected' BY DEF PurgesInv, OrdersCollected, Collected, Concerns, Late
<1>4. HoldsCollected' BY DEF PurgesInv, HoldsCollected
<1>5. PurgedClean' BY DEF PurgesInv, PurgedClean, LeavesNothing, NoOrphanHold
<1> QED BY <1>1, <1>2, <1>3, <1>4, <1>5 DEF PurgesInv

LEMMA DealKeeps ==
  ASSUME PurgesInv, NEW b \in Orgs, NEW o \in Orgs, Deal(b, o)
  PROVE  PurgesInv'
<1> DEFINE d == [id |-> dealt + 1, buyer |-> b, supplier |-> o]
<1>1. /\ d \in DealRow /\ dealt' \in 0..MaxDeals
      /\ deals' = deals \cup {d} /\ holds' = holds \cup {d}
      /\ \A e : Known(e) => e # d /\ Known(e)'
      /\ \A e : e = d => Known(e)'
  BY DealIsNew DEF PurgesInv
<1>2. /\ orgs' = orgs /\ lots' = lots /\ purges' = purges
      /\ late' = late \cup Unknown(d) /\ checked' \subseteq checked
      /\ o \in orgs /\ o \in lots /\ \A p \in Purges : ~Deleting(p, o)
  BY DEF Deal
<1>3. d.buyer = b /\ d.supplier = o OBVIOUS
<1> HIDE DEF d
<1>4. late \subseteq late' BY <1>2
<1>5. ASSUME NEW p \in Purges, Concerns(p, d), Collected(p)
      PROVE  <<d, purges[p].at>> \in late'
  BY <1>2, <1>5 DEF Unknown
<1>11. b \notin orgs => <<d, "cleared">> \in late' BY <1>2, <1>3 DEF Unknown
<1>12. \A l \in Unknown(d) : l[1] = d BY DEF Unknown
<1>6. PurgeTypes'
  <2>1. \A l \in late' : l[1] \in DealRow BY <1>1, <1>2, <1>12 DEF PurgesInv, PurgeTypes
  <2>2. \A e \in deals' \cup holds' : Known(e)' BY <1>1 DEF PurgesInv, PurgeTypes
  <2>3. \A p \in Purges : \A e \in purges[p].orders \cup purges[p].goneHolds : Known(e)'
    BY <1>1 DEF PurgesInv, PurgeTypes
  <2> QED BY <1>1, <1>2, <2>1, <2>2, <2>3 DEF PurgesInv, PurgeTypes
<1>7. SparesReal' BY <1>2 DEF PurgesInv, SparesReal
<1>8. OrdersCollected'
  <2>1. SUFFICES ASSUME NEW p \in Purges, Collected(p), NEW e \in deals', Concerns(p, e)
                 PROVE  e \in purges[p].orders \/ Late(e)'
    BY <1>2 DEF OrdersCollected, Collected, Concerns
  <2>2. CASE e = d
    <3>1. <<d, purges[p].at>> \in late' BY <1>5, <2>1, <2>2
    <3> QED BY <2>2, <3>1 DEF Late
  <2>3. CASE e # d
    <3>1. e \in purges[p].orders \/ Late(e) BY <1>1, <2>1, <2>3 DEF PurgesInv, OrdersCollected
    <3> QED BY <1>4, <3>1 DEF Late
  <2> QED BY <2>2, <2>3
<1>9. HoldsCollected'
  <2>1. \A p \in Purges : purges[p].lots \subseteq purges[p].found
    BY DEF PurgesInv, HoldsCollected
  <2>2. SUFFICES ASSUME NEW p \in Purges, purges[p].at \in {"lots", "orgs"}, NEW h \in holds'
                 PROVE  /\ h \in purges[p].orders => h \in purges[p].goneHolds
                        /\ h.supplier \in purges[p].lots =>
                             h \in purges[p].goneHolds \/ <<h, "lots">> \in late'
    BY <1>2, <2>1 DEF HoldsCollected
  <2>3. CASE h = d
    <3>1. h \notin purges[p].orders BY <1>1, <2>3 DEF PurgesInv, PurgeTypes
    <3>2. ASSUME h.supplier \in purges[p].lots PROVE <<h, "lots">> \in late'
      <4>1. o \in purges[p].lots BY <1>3, <2>3, <3>2
      <4>2. purges[p].at = "lots" BY <1>2, <2>2, <4>1 DEF Deleting
      <4>3. Concerns(p, d) BY <1>3, <2>1, <4>1 DEF Concerns
      <4>4. Collected(p) BY <4>2 DEF Collected
      <4> QED BY <1>5, <2>3, <4>2, <4>3, <4>4
    <3> QED BY <3>1, <3>2
  <2>4. CASE h # d
    <3>1. h \in holds BY <1>1, <2>4
    <3> QED BY <1>4, <2>2, <3>1 DEF PurgesInv, HoldsCollected
  <2> QED BY <2>3, <2>4
<1>10. PurgedClean'
  <2>1. LeavesNothing'
    <3>1. \A e \in deals : {e.buyer, e.supplier} \subseteq orgs' \/ \E l \in late' : l[1] = e
      BY <1>2, <1>4 DEF PurgesInv, PurgedClean, LeavesNothing
    <3>2. {d.buyer, d.supplier} \subseteq orgs' \/ \E l \in late' : l[1] = d
      BY <1>2, <1>3, <1>11
    <3> QED BY <1>1, <3>1, <3>2 DEF LeavesNothing
  <2>2. NoOrphanHold'
    BY <1>1, <1>2, <1>3, <1>4 DEF PurgesInv, PurgedClean, NoOrphanHold
  <2> QED BY <2>1, <2>2 DEF PurgedClean
<1> QED BY <1>6, <1>7, <1>8, <1>9, <1>10 DEF PurgesInv

LEMMA ClearKeeps ==
  ASSUME ImportsInv, PurgesInv, Clear
  PROVE  PurgesInv'
<1>1. CASE \E o \in Orgs : Join(o) \/ StockUp(o) \/ DealChecks(o)
  <2>1. /\ orgs \subseteq orgs' /\ lots \subseteq lots' /\ lots' \subseteq Orgs
        /\ checked' \subseteq Orgs /\ UNCHANGED <<dealt, deals, holds, late, purges>>
    BY <1>1 DEF Join, StockUp, DealChecks, purgeVars, PurgesInv, PurgeTypes
  <2> QED BY <2>1, GrowthKeeps
<1>2. CASE \E b, o \in Orgs : Deal(b, o) BY <1>2, DealKeeps
<1>3. CASE \E p \in Purges : PurgeStep(p) BY <1>3, PurgeKeeps
<1> QED BY <1>1, <1>2, <1>3 DEF Clear, PurgeNext, PurgeStep

LEMMA ImportGrows ==
  ASSUME Import
  PROVE  orgs \subseteq orgs' /\ UNCHANGED purgeVars
BY DEF Import, ImportsNext, Start, Crash, Sweep, ApproveByHand, Do, DoRegister, DoGate, DoRow,
       DoLot, DoPlace, DoSome, DoPay, DoDeliver, DoDate, DoEnrich, Throw, Placed, Move

-----------------------------------------------------------------------------
(* The invariant.                                                          *)

LEMMA UpkeepInit == Init => UpkeepInv
<1> SUFFICES ASSUME Init PROVE UpkeepInv OBVIOUS
<1>1. /\ cast \in Casts /\ orgs = {} /\ DOMAIN rows = {} /\ stock \in [Scripts -> Nat]
      /\ enriched = {}
  BY DEF Init, ImportsInit, EmptyBag, SetToBag
<1>2. orders \in [Scripts -> Seq(OrderStates)] BY DEF Init, ImportsInit
<1>3. /\ runs \in [Scripts -> RunRow]
      /\ \A s \in Scripts : runs[s].at = 0 /\ runs[s].runs = 0 /\ runs[s].done = 0
  BY DEF Init, ImportsInit, RunRow
<1>4. RunsInv BY <1>3, ScriptsAreProper DEF RunsInv, RunsCounted, OneRun, Running
<1>5. /\ lots = {} /\ dealt = 0 /\ deals = {} /\ holds = {} /\ late = {}
      /\ \A p \in Purges : purges[p] = Idle
      /\ purges = [p \in Purges |-> Idle]
  BY DEF Init, PurgeInit
<1>10. checked = {} BY DEF Init, PurgeInit
<1>6. Idle \in PurgeRow /\ Idle.at = "find" /\ Idle.orders = {} /\ Idle.goneHolds = {} /\ Idle.lots = {}
  BY DEF Idle, PurgeRow
<1>7. PurgeTypes BY <1>5, <1>6, <1>10, UpkeepAssumption DEF PurgeTypes, UpkeepAssumption
<1>8. SparesReal /\ OrdersCollected /\ HoldsCollected
  BY <1>5, <1>6 DEF SparesReal, OrdersCollected, HoldsCollected, Collected
<1>9. PurgedClean BY <1>5 DEF PurgedClean, LeavesNothing, NoOrphanHold
<1> QED BY <1>1, <1>2, <1>4, <1>7, <1>8, <1>9 DEF UpkeepInv, ImportsInv, PurgesInv

LEMMA UpkeepStep ==
  ASSUME UpkeepInv, [Next]_vars
  PROVE  UpkeepInv'
<1> USE DEF UpkeepInv
<1>1. CASE Import
  <2>1. ImportsInv' BY <1>1, ImportKeeps
  <2>2. orgs \subseteq orgs' /\ UNCHANGED purgeVars BY <1>1, ImportGrows
  <2>3. PurgesInv' BY <2>2, GrowthKeeps DEF purgeVars, PurgesInv, PurgeTypes
  <2> QED BY <2>1, <2>3
<1>2. CASE Clear BY <1>2, ClearKeepsImports, ClearKeeps
<1>3. CASE UNCHANGED vars
  <2>1. UNCHANGED <<cast, orgs, rows, stock, orders, enriched, runs>> /\ UNCHANGED purgeVars
    BY <1>3 DEF vars, importVars
  <2>2. RunsInv' BY <2>1 DEF ImportsInv, RunsInv, RunsCounted, OneRun, Running
  <2>3. ImportsInv' BY <2>1, <2>2 DEF ImportsInv
  <2>4. PurgesInv' BY <2>1, GrowthKeeps DEF purgeVars, PurgesInv, PurgeTypes
  <2> QED BY <2>3, <2>4
<1> QED BY <1>1, <1>2, <1>3 DEF Next

(* The invariant holds of every behaviour of the scripts.                  *)
THEOREM UpkeepInvariance == Spec => []UpkeepInv
<1>1. Init => UpkeepInv BY UpkeepInit
<1>2. UpkeepInv /\ [Next]_vars => UpkeepInv' BY UpkeepStep
<1> QED BY <1>1, <1>2, PTL DEF Spec

LEMMA UpkeepIsTyped == UpkeepInv => TypeOK
<1> SUFFICES ASSUME UpkeepInv PROVE TypeOK OBVIOUS
<1>1. ImportsInv /\ PurgeTypes BY DEF UpkeepInv, PurgesInv
<1>2. BagToSet(rows) \subseteq Rows BY <1>1 DEF ImportsInv, BagToSet
<1>3. orders \in [Scripts -> Seq(Live \cup {"CANCELLED"})] BY <1>1 DEF ImportsInv, OrderStates
<1>4. \A s \in Scripts : runs[s].at \in 0..Len(ScriptOf[s]) /\ runs[s].done <= runs[s].runs
  BY <1>1, ScriptsAreProper, RunFields DEF ImportsInv, RunsInv, RunsCounted
<1>5. {d[1] : d \in late} \cup holds \cup deals \subseteq
        [id : 1..MaxDeals, buyer : Orgs, supplier : Orgs]
  BY <1>1 DEF PurgeTypes, Known, DealRow
<1>6. \A p \in Purges : purges[p].found \cup purges[p].lots \subseteq Orgs
  BY <1>1, PurgeFields
<1> QED BY <1>1, <1>2, <1>3, <1>4, <1>5, <1>6 DEF TypeOK, ImportsInv, PurgeTypes

(* The rows of imports and purges have their types, whatever the scripts   *)
(* of apps/api/scripts and the API do beside each other.                   *)
THEOREM UpkeepTypes == Spec => []TypeOK
BY UpkeepIsTyped, UpkeepInvariance, PTL

(* A purge (deleteTestOrgs of scripts/lib/test-data.ts) leaves no order of *)
(* a company it has cleared and no hold without its order or its lot, but  *)
(* those the API wrote after the purge had looked for them, or for a buyer *)
(* it had read before he was cleared.                                      *)
THEOREM PurgesAreClean == Spec => []PurgedClean
<1>1. UpkeepInv => PurgedClean BY DEF UpkeepInv, PurgesInv
<1> QED BY <1>1, UpkeepInvariance, PTL

(* The French archive goes to the account: an import is one script's step, *)
(* and only the step that enriches touches a file.                         *)
LEMMA EnrichesTheReal ==
  ASSUME UpkeepInv, [Next]_vars, NEW s \in Scripts,
         Running(s), Now(s).op = "enrich", "Jinglin" \in orgs
  PROVE  enriched' \ enriched \subseteq Real
<1>1. CASE UNCHANGED enriched BY <1>1
<1>2. CASE \E t \in Scripts : Do(t)
  <2>1. PICK t \in Scripts : Do(t) BY <1>2
  <2>2. t = s BY <2>1 DEF Do, UpkeepInv, ImportsInv, RunsInv, OneRun
  <2>3. CASE DoEnrich(s)
    <3>1. Found(s) = {"Jinglin"} BY DEF Found, FindReal
    <3>2. "Jinglin" \in Real BY ImportsAssumption DEF ImportsAssumption, Registered
    <3> QED BY <2>3, <3>1, <3>2 DEF DoEnrich
  <2>4. CASE ~DoEnrich(s)
    <3>1. UNCHANGED enriched
      BY <2>1, <2>2, <2>4 DEF Do, DoRegister, DoGate, DoRow, DoLot, DoPlace, DoSome, DoPay, DoDeliver,
         DoDate, Throw, Placed, Move
    <3> QED BY <3>1
  <2> QED BY <2>3, <2>4
<1> QED BY <1>1, <1>2 DEF Next, Import, Clear, vars, importVars, ImportsNext, Start, Crash, Sweep,
           ApproveByHand

LEMMA KeepsTheReal ==
  ASSUME UpkeepInv, [Next]_vars
  PROVE  orgs \cap Real \subseteq orgs'
<1>1. CASE Import BY <1>1, ImportGrows
<1>2. CASE \E p \in Purges : PurgeStep(p)
  BY <1>2, PurgeShrinks DEF UpkeepInv
<1>3. CASE \E o \in Orgs : Join(o) \/ StockUp(o) BY <1>3 DEF Join, StockUp
<1>4. CASE \E b, o \in Orgs : DealChecks(b) \/ Deal(b, o) BY <1>4 DEF DealChecks, Deal
<1>5. CASE UNCHANGED vars BY <1>5 DEF vars
<1> QED BY <1>1, <1>2, <1>3, <1>4, <1>5 DEF Next, Clear, PurgeNext, PurgeStep

(* No step of a script or of a purge touches what is real: the archive is  *)
(* added to the account itself once it exists (seed-french-partners.ts,    *)
(* findRealJinglin), and no purge clears a company with a protected        *)
(* address (protectedOrgIds of scripts/lib/test-data.ts), whoever          *)
(* registers meanwhile.                                                    *)
THEOREM RealIsUntouched == Spec => RealUntouched
<1>1. UpkeepInv /\ [Next]_vars =>
        \A s \in Scripts : Running(s) /\ Now(s).op = "enrich" /\ "Jinglin" \in orgs
          => enriched' \ enriched \subseteq Real
  BY EnrichesTheReal
<1>2. UpkeepInv /\ [Next]_vars => orgs \cap Real \subseteq orgs' BY KeepsTheReal
<1>3. Spec => EnrichedIsReal BY <1>1, UpkeepInvariance, PTL DEF Spec, EnrichedIsReal
<1>4. Spec => RealKept BY <1>2, UpkeepInvariance, PTL DEF Spec, RealKept
<1> QED BY <1>3, <1>4 DEF RealUntouched
-----------------------------------------------------------------------------
(* What imports leave.  A row is written by one kind of step of a script;  *)
(* how often it was written in the steps before the n-th:                  *)
Writes(s, r, n) == {i \in Writers(s) : i < n /\ ScriptOf[s][i].row = r}
Before(s, r, n) == Cardinality(Writes(s, r, n))
All(s, r) == Before(s, r, Len(ScriptOf[s]) + 1)
NowRank(s) == Rank(Now(s))
Fresh(s, g) == Running(s) /\ g \in runs[s].fresh

(* What is looked up comes once, ...                                       *)
RowsCounted == \A r \in DOMAIN rows : rows[r] \in Nat \ {0}
OwnOnce == \A s \in Scripts : \A t \in StepsOf(s) : t.op \in {"own", "lot"} => Copies(t.row) <= 1

(* ... and what is written behind a gate is not there when the gate is     *)
(* not, and is written once in the run that found the gate missing.        *)
Numbered(s) == {t \in StepsOf(s) : t.op = "new" /\ t.row[2] \notin Doubled}
Passed(t) == IF t.row[2] = "approved" THEN t.row[1] \in orgs ELSE There(t.gate)
Gated == \A s \in Scripts : \A t \in Numbered(s) : There(t.row) => Passed(t)
NewInTurn ==
  \A s \in Scripts : \A t \in Numbered(s) :
    Copies(t.row) <= IF Fresh(s, t.gate) THEN Before(s, t.row, runs[s].at) ELSE All(s, t.row)
GateFirst ==
  \A s \in Scripts : \A t \in StepsOf(s) :
    t.op = "new" /\ t.row = t.gate /\ t.row[2] # "farm" /\ Fresh(s, t.gate) /\ NowRank(s) > Rank(t)
      => There(t.row)
PartyJoined ==
  \A s \in Scripts : Running(s) =>
    \A o \in PartiesOf[s] : NowRank(s) > Rank(Step("register", o, "org", "org")) => o \in orgs

NothingFresh == \A s \in Scripts : ~Running(s) => runs[s].fresh = {}

OnceInv == NothingFresh /\ RowsCounted /\ OwnOnce /\ Gated /\ NewInTurn /\ GateFirst /\ PartyJoined

(* The stock of a lot is what the orders that live have left of it; the    *)
(* order a run works on lives.                                             *)
Stocked ==
  \A s \in Scripts :
    IF There(<<s, "lot">>) THEN stock[s] + OrderQty[s] * LiveOrders(s) = LotQty[s]
    ELSE stock[s] = 0 /\ orders[s] = << >>
LastIsLive ==
  \A s \in Scripts : Running(s) /\ "place" \in LonelyOf[s] /\ NowRank(s) > 29 =>
    orders[s] # << >> /\ orders[s][Len(orders[s])] \in Live

(* Where nothing crashed, nothing that an order needs is missing: a run    *)
(* places one, and only a run of HZB's that ended takes its lots away.     *)
SomeCrash == \E s \in Scripts : runs[s].crashes > 0
Selling(s) == Running(s) /\ NowRank(s) > 29
OrderPerRun ==
  \A s \in Traders : SomeCrash \/ Len(orders[s]) <= runs[s].done + (IF Selling(s) THEN 1 ELSE 0)
Expired == \A s \in Traders : There(<<s, "expire">>) => s = "hzb" /\ runs[s].done > 0
Stepped ==
  \A s \in Traders : Running(s) =>
    /\ NowRank(s) > 26 => There(<<s, "sku">>)
    /\ NowRank(s) > 28 => There(<<s, "lot">>)
Approving ==
  \/ SomeCrash \/ "Jinglin" \in cast \/ "Jinglin" \notin orgs \/ There(<<"Jinglin", "approved">>)
  \/ \E s \in Scripts : Fresh(s, <<"Jinglin", "org">>) /\ "Jinglin" \in PartiesOf[s] /\ NowRank(s) <= 4
Refusals == refused \subseteq Traders \cap cast /\ (\A s \in Scripts : Running(s) => s \in cast)

SuccessInv ==
  OrderPerRun /\ Expired /\ Stepped /\ Approving /\ Refusals /\ FirstRunSucceeds

(* An order that was sold leaves no stock for a second: until it is paid,  *)
(* none was sold, none of the papers written and no run has ended.         *)
Single == {"hzb", "tuopai"}
Sold(s) == \E i \in DOMAIN orders[s] : orders[s][i] \in {"PAID", "COMPLETED"}
PaidFor(s) == Running(s) /\ NowRank(s) > 32
Repeats(s) == {t \in StepsOf(s) : t.op = "always"}
SellsOnce(s) ==
  /\ runs[s].done \in 0..1
  /\ runs[s].done = 1 => Sold(s) /\ ~Selling(s)
  /\ PaidFor(s) => Sold(s)
  /\ Selling(s) /\ ~PaidFor(s) => ~Sold(s)
  /\ \A t \in Repeats(s) :
       Copies(t.row) <= IF PaidFor(s) THEN Before(s, t.row, runs[s].at)
                        ELSE IF Sold(s) THEN All(s, t.row) ELSE 0
SoldOnce == \A s \in Single : SellsOnce(s)

(* A script that was never killed has done its steps up to one of three    *)
(* places and, in its run, further.                                        *)
Halts(s) ==
  {1, Len(ScriptOf[s]) + 1} \cup {i \in 1..Len(ScriptOf[s]) : ScriptOf[s][i].op = "place"}
Reach(s, h) == IF Running(s) /\ runs[s].at > h THEN runs[s].at ELSE h
Once(s) == {t \in StepsOf(s) : t.op \in {"new", "own", "lot"} /\ t.row[1] = s}
GatesSeen(s, h) ==
  \A g \in GatesOf[s] : Running(s) =>
    IF h > 1 THEN <<s, g>> \notin runs[s].fresh
    ELSE NowRank(s) > GateRank[g] => <<s, g>> \in runs[s].fresh
WholeTo(s, h) ==
  /\ \A t \in Once(s) : Copies(t.row) = Before(s, t.row, Reach(s, h))
  /\ \A t \in Repeats(s) : Copies(t.row) = runs[s].done + Before(s, t.row, runs[s].at)
  /\ runs[s].done > 0 => h = Len(ScriptOf[s]) + 1
  /\ GatesSeen(s, h)
Whole == \A s \in Scripts : runs[s].crashes = 0 => \E h \in Halts(s) : WholeTo(s, h)
-----------------------------------------------------------------------------
(* The steps of a script, by what they do.                                 *)

LEMMA Forms ==
  ASSUME NEW s \in Scripts, NEW t \in StepsOf(s)
  PROVE  /\ t.op = "register" => \E o \in PartiesOf[s] : t = Step("register", o, "org", "org")
         /\ t.op = "gate" => \E g \in GatesOf[s] : t = Step("gate", s, g, g)
         /\ t.op = "new" =>
              \/ \E o \in PartiesOf[s] : t = Step("new", o, "approved", "org")
              \/ \E k \in NewOf[s] : t = Step("new", s, k, GateOf(s, k))
         /\ t.op = "own" => \E k \in OwnOf[s] : t = Step("own", s, k, k)
         /\ t.op = "always" => \E k \in AlwaysOf[s] : t = Step("always", s, k, k)
         /\ t.op \notin {"register", "gate", "new", "own", "always"} =>
              t.op \in LonelyOf[s] /\ t = Step(t.op, Whose(s, t.op), t.op, t.op)
<1>1. \A op, of, k, g : Step(op, of, k, g).op = op BY DEF Step
<1>2. \A op \in LonelyOf[s] : op \notin {"register", "gate", "always", "new", "own"} BY KindsKnown
<1>3. \/ \E o \in PartiesOf[s] : t \in {Step("register", o, "org", "org"), Step("new", o, "approved", "org")}
      \/ \E g \in GatesOf[s] : t = Step("gate", s, g, g)
      \/ \E k \in NewOf[s] : t = Step("new", s, k, GateOf(s, k))
      \/ \E k \in OwnOf[s] : t = Step("own", s, k, k)
      \/ \E k \in AlwaysOf[s] : t = Step("always", s, k, k)
      \/ \E op \in LonelyOf[s] : t = Step(op, Whose(s, op), op, op)
  BY DEF StepsOf
<1> QED BY <1>1, <1>2, <1>3

LEMMA StepIs ==
  ASSUME NEW op, NEW of, NEW k, NEW g
  PROVE  LET t == Step(op, of, k, g) IN
         t.op = op /\ t.row = <<of, k>> /\ t.row[1] = of /\ t.row[2] = k /\ t.gate = <<of, g>>
BY DEF Step

LEMMA KindsApart ==
  ASSUME NEW s \in Scripts
  PROVE  /\ s \notin PartiesOf[s] /\ PartiesOf[s] \subseteq Registered /\ s \notin Registered
         /\ \A k \in NewOf[s] : k \notin OwnOf[s] \cup AlwaysOf[s] \cup LonelyOf[s] \cup {"approved"}
         /\ \A k \in OwnOf[s] : k \notin AlwaysOf[s] \cup LonelyOf[s] \cup {"approved"}
         /\ \A k \in AlwaysOf[s] : k \notin LonelyOf[s] \cup {"approved"}
         /\ \A op \in LonelyOf[s] : Whose(s, op) # s => op \notin {"lot", "place", "some", "pay", "deliver", "expire"}
         /\ \A op \in {"lot", "place", "some", "pay", "deliver", "expire"} : Whose(s, op) = s
         /\ \A k \in NewOf[s] \cup OwnOf[s] \cup AlwaysOf[s] :
              k \notin {"lot", "place", "some", "pay", "deliver", "expire", "overdue", "sales", "enrich"}
BY DEF Scripts, ScriptOf, PartiesOf, Registered, NewOf, OwnOf, AlwaysOf, LonelyOf, Whose

(* A row is written by one step.                                           *)
Writing == {"new", "own", "lot", "always"}
Marks == {"expire", "overdue", "some"}
LEMMA OneWriter ==
  ASSUME NEW s \in Scripts, NEW t \in StepsOf(s), NEW u \in StepsOf(s),
         t.op \in Writing, u.op \in Writing, t.row = u.row
  PROVE  t = u
<1>1. ASSUME NEW v \in StepsOf(s), v.op \in Writing
      PROVE  \/ \E o \in PartiesOf[s] : v = Step("new", o, "approved", "org") /\ v.row = <<o, "approved">>
             \/ \E k \in NewOf[s] : v = Step("new", s, k, GateOf(s, k)) /\ v.row = <<s, k>>
             \/ \E k \in OwnOf[s] : v = Step("own", s, k, k) /\ v.row = <<s, k>>
             \/ \E k \in AlwaysOf[s] : v = Step("always", s, k, k) /\ v.row = <<s, k>>
             \/ "lot" \in LonelyOf[s] /\ v = Step("lot", s, "lot", "lot") /\ v.row = <<s, "lot">>
  <2>1. v.op = "lot" => "lot" \in LonelyOf[s] /\ v = Step("lot", s, "lot", "lot")
    BY Forms, KindsApart
  <2> QED BY <1>1, <2>1, Forms, StepIs DEF Writing
<1>2. \A a, b, c, d : <<a, b>> = <<c, d>> => a = c /\ b = d OBVIOUS
<1> HIDE DEF Writing
<1> QED BY <1>1, <1>2, KindsApart

(* The order of the steps.                                                 *)
Spots(s) == 1..Len(ScriptOf[s])
LEMMA SpotsAre ==
  ASSUME NEW s \in Scripts
  PROVE  /\ Spots(s) \subseteq Nat /\ 1 \in Spots(s) /\ Len(ScriptOf[s]) \in Spots(s)
         /\ \A i \in Spots(s) : 1 <= i /\ i <= Len(ScriptOf[s])
         /\ \A i \in Nat : 1 <= i /\ i <= Len(ScriptOf[s]) => i \in Spots(s)
         /\ Spots(s) = DOMAIN ScriptOf[s]
<1> DEFINE n == Len(ScriptOf[s])
<1>1. n \in Nat /\ n # 0 /\ DOMAIN ScriptOf[s] = 1..n BY NotEmpty
<1>2. Spots(s) = 1..n BY DEF Spots
<1> HIDE DEF n
<1>3. /\ 1..n \subseteq Nat /\ 1 \in 1..n /\ n \in 1..n
      /\ \A i \in 1..n : 1 <= i /\ i <= n
      /\ \A i \in Nat : 1 <= i /\ i <= n => i \in 1..n
  BY <1>1
<1> QED BY <1>1, <1>2, <1>3 DEF n

LEMMA InOrder ==
  ASSUME NEW s \in Scripts
  PROVE  LET A == ScriptOf[s] IN
         /\ \A i \in Spots(s) : A[i] \in StepsOf(s) /\ Rank(A[i]) \in 1..39
         /\ \A i, j \in Spots(s) : i < j => Rank(A[i]) < Rank(A[j]) \/ Again(A[i], A[j])
<1> DEFINE A == ScriptOf[s]
<1>1. Ranked(s, A, 1..39) BY ScriptsAreMade DEF Made
<1> HIDE DEF A
<1>2. A \in Seq(StepsOf(s)) /\ \A i \in 1..Len(A) : Rank(A[i]) \in 1..39 BY <1>1 DEF Ranked
<1>3. \A i \in 1..Len(A) : A[i] \in StepsOf(s) BY <1>2
<1>4. \A i, j \in 1..Len(A) : i < j => Rank(A[i]) < Rank(A[j]) \/ Again(A[i], A[j])
  BY <1>1 DEF Ranked
<1> QED BY <1>2, <1>3, <1>4 DEF Spots, A

LEMMA Happens ==
  ASSUME NEW s \in Scripts, NEW t \in StepsOf(s), ~(t.op = "new" /\ t.row[2] = "farm")
  PROVE  /\ \E i \in Spots(s) : ScriptOf[s][i] = t
         /\ Rank(t) \in 1..39
<1>1. t \in Steps(ScriptOf[s]) BY ScriptsAreMade DEF Made
<1> QED BY <1>1, InOrder DEF Steps, Spots

LEMMA Earlier ==
  ASSUME NEW s \in Scripts, NEW i \in Spots(s), NEW j \in Spots(s)
  PROVE  /\ i <= j => Rank(ScriptOf[s][i]) <= Rank(ScriptOf[s][j])
         /\ Rank(ScriptOf[s][i]) < Rank(ScriptOf[s][j]) => i < j
         /\ Rank(ScriptOf[s][i]) = Rank(ScriptOf[s][j]) => ScriptOf[s][i] = ScriptOf[s][j]
         /\ ScriptOf[s][i] = ScriptOf[s][j]
              /\ ~(ScriptOf[s][i].op = "new" /\ ScriptOf[s][i].row[2] \in Repeated) => i = j
<1> DEFINE A == ScriptOf[s]
<1>1. /\ Rank(A[i]) \in 1..39 /\ Rank(A[j]) \in 1..39
      /\ i < j => Rank(A[i]) < Rank(A[j]) \/ Again(A[i], A[j])
      /\ j < i => Rank(A[j]) < Rank(A[i]) \/ Again(A[j], A[i])
  BY InOrder
<1>2. \A t, u : Again(t, u) => t = u /\ t.op = "new" /\ t.row[2] \in Repeated BY DEF Again
<1> HIDE DEF A
<1>3. i \in Nat /\ j \in Nat BY SpotsAre
<1>4. i < j \/ i = j \/ j < i BY <1>3
<1>5. i < j => Rank(A[i]) <= Rank(A[j]) BY <1>1, <1>2
<1>6. j < i => Rank(A[j]) <= Rank(A[i]) BY <1>1, <1>2
<1>7. i <= j => Rank(A[i]) <= Rank(A[j])
  <2>1. i <= j => i < j \/ i = j BY <1>3
  <2>2. i = j => Rank(A[i]) <= Rank(A[j]) BY <1>1
  <2> QED BY <1>5, <2>1, <2>2
<1>8. Rank(A[i]) < Rank(A[j]) => i < j
  <2>1. j < i => ~(Rank(A[i]) < Rank(A[j])) BY <1>1, <1>6
  <2>2. i = j => ~(Rank(A[i]) < Rank(A[j])) BY <1>1
  <2> QED BY <1>4, <2>1, <2>2
<1>9. Rank(A[i]) = Rank(A[j]) => A[i] = A[j] BY <1>1, <1>2, <1>4
<1>10. A[i] = A[j] /\ ~(A[i].op = "new" /\ A[i].row[2] \in Repeated) => i = j BY <1>1, <1>2, <1>4
<1> QED BY <1>7, <1>8, <1>9, <1>10 DEF A

(* A script begins with its first step and comes by every step.            *)
LEMMA Begins ==
  ASSUME NEW s \in Scripts, NEW t \in StepsOf(s), ~(t.op = "new" /\ t.row[2] = "farm")
  PROVE  ~(Rank(ScriptOf[s][1]) > Rank(t))
<1>1. PICK j \in Spots(s) : ScriptOf[s][j] = t BY Happens
<1>2. 1 \in Spots(s) /\ 1 <= j BY SpotsAre
<1>3. Rank(ScriptOf[s][1]) <= Rank(ScriptOf[s][j]) BY <1>2, Earlier
<1>4. Rank(ScriptOf[s][1]) \in 1..39 /\ Rank(t) \in 1..39 BY <1>2, Happens, InOrder
<1> QED BY <1>1, <1>3, <1>4

LEMMA ComesBy ==
  ASSUME NEW s \in Scripts, NEW t \in StepsOf(s), ~(t.op = "new" /\ t.row[2] = "farm"),
         NEW i \in Spots(s), ~(Rank(ScriptOf[s][i]) > Rank(t)),
         i + 1 \in Spots(s) => Rank(ScriptOf[s][i + 1]) > Rank(t)
  PROVE  ScriptOf[s][i] = t
<1> DEFINE A == ScriptOf[s]
<1>1. PICK j \in Spots(s) : A[j] = t BY Happens
<1>2. Rank(A[i]) \in 1..39 /\ Rank(A[j]) \in 1..39 BY InOrder
<1> HIDE DEF A
<1>3. i \in Nat /\ j \in Nat /\ Len(A) \in Nat /\ i <= Len(A) /\ j <= Len(A) BY SpotsAre DEF A
<1>4. j <= i
  <2>1. CASE i = Len(A) BY <1>3, <2>1
  <2>2. CASE i # Len(A)
    <3>1. i + 1 \in Nat /\ 1 <= i + 1 /\ i + 1 <= Len(A) BY <1>3, <2>2
    <3>2. i + 1 \in Spots(s) BY <3>1, SpotsAre DEF A
    <3>3. Rank(A[i + 1]) > Rank(A[j]) /\ Rank(A[i + 1]) \in 1..39 BY <1>1, <3>2, InOrder DEF A
    <3>4. Rank(A[j]) < Rank(A[i + 1]) BY <1>2, <3>3
    <3>5. j < i + 1 BY <3>2, <3>4, Earlier DEF A
    <3> QED BY <1>3, <3>5
  <2> QED BY <2>1, <2>2
<1>5. Rank(A[j]) <= Rank(A[i]) BY <1>4, Earlier DEF A
<1>6. ~(Rank(A[i]) > Rank(A[j])) BY <1>1 DEF A
<1>7. Rank(A[j]) = Rank(A[i]) BY <1>2, <1>5, <1>6
<1> QED BY <1>1, <1>7, Earlier DEF A
-----------------------------------------------------------------------------
(* How often a row was written in the steps before the n-th.               *)

LEMMA WritersAre ==
  ASSUME NEW s \in Scripts
  PROVE  /\ \A i \in Writers(s) : i \in Spots(s) /\ i \in Nat /\ ScriptOf[s][i].op \in Writing
         /\ \A i \in Spots(s) : ScriptOf[s][i].op \in Writing => i \in Writers(s)
         /\ IsFiniteSet(Writers(s))
<1>1. /\ \A i \in Writers(s) : i \in Spots(s) /\ i \in Nat /\ ScriptOf[s][i].op \in Writing
      /\ \A i \in Spots(s) : ScriptOf[s][i].op \in Writing => i \in Writers(s)
  BY SpotsAre DEF Writers, Writing
<1>2. IsFiniteSet(1..Len(ScriptOf[s]))
  <2> DEFINE n == Len(ScriptOf[s])
  <2>1. n \in Int /\ 1 \in Int BY NotEmpty
  <2> HIDE DEF n
  <2>2. IsFiniteSet(1..n) BY <2>1, FS_Interval, Zenon
  <2> QED BY <2>2 DEF n
<1>3. Writers(s) \in SUBSET (1..Len(ScriptOf[s])) BY <1>1 DEF Spots
<1>4. IsFiniteSet(Writers(s)) BY <1>2, <1>3, FS_Subset, Zenon
<1> QED BY <1>1, <1>4

LEMMA WritesAre ==
  ASSUME NEW s \in Scripts, NEW r, NEW n
  PROVE  /\ IsFiniteSet(Writes(s, r, n)) /\ Before(s, r, n) \in Nat
         /\ Writes(s, r, n) = {} <=> Before(s, r, n) = 0
         /\ \A T \in SUBSET Writes(s, r, n) : IsFiniteSet(T) /\ Cardinality(T) <= Before(s, r, n)
<1>1. Writes(s, r, n) \in SUBSET Writers(s) BY DEF Writes
<1>2. IsFiniteSet(Writers(s)) BY WritersAre
<1>3. IsFiniteSet(Writes(s, r, n)) BY <1>1, <1>2, FS_Subset, Zenon
<1>4. Cardinality(Writes(s, r, n)) \in Nat BY <1>3, FS_CardinalityType, Zenon
<1>5. Writes(s, r, n) = {} <=> Cardinality(Writes(s, r, n)) = 0 BY <1>3, FS_EmptySet, Zenon
<1>6. \A T \in SUBSET Writes(s, r, n) :
        IsFiniteSet(T) /\ Cardinality(T) <= Cardinality(Writes(s, r, n))
  BY <1>3, FS_Subset, Zenon
<1> QED BY <1>3, <1>4, <1>5, <1>6 DEF Before

LEMMA BeforeGrows ==
  ASSUME NEW s \in Scripts, NEW r, NEW m \in Nat, NEW n \in Nat, m <= n
  PROVE  Before(s, r, m) <= Before(s, r, n)
<1>1. Writes(s, r, m) \in SUBSET Writes(s, r, n) BY WritersAre DEF Writes
<1> QED BY <1>1, WritesAre DEF Before

LEMMA BeforeAny ==
  ASSUME NEW s \in Scripts, NEW r
  PROVE  Before(s, r, 0) = 0 /\ Before(s, r, 1) = 0
<1>1. \A i \in Writers(s) : ~(i < 0) /\ ~(i < 1)
  <2>1. \A i \in Writers(s) : 1 <= i /\ i \in Nat BY WritersAre, SpotsAre
  <2> QED BY <2>1
<1>2. Writes(s, r, 0) = {} /\ Writes(s, r, 1) = {} BY <1>1 DEF Writes
<1> QED BY <1>2, WritesAre

LEMMA BeforeNext ==
  ASSUME NEW s \in Scripts, NEW r, NEW i \in Spots(s)
  PROVE  Before(s, r, i + 1) =
           IF ScriptOf[s][i].op \in Writing /\ ScriptOf[s][i].row = r
           THEN Before(s, r, i) + 1 ELSE Before(s, r, i)
<1> DEFINE W == Writes(s, r, i)
           V == Writes(s, r, i + 1)
           now == ScriptOf[s][i].op \in Writing /\ ScriptOf[s][i].row = r
<1>1. i \in Nat BY SpotsAre
<1>2. \A j \in Writers(s) : j \in Nat /\ (j < i + 1 <=> j < i \/ j = i) BY <1>1, WritersAre
<1>3. i \in Writers(s) <=> ScriptOf[s][i].op \in Writing BY WritersAre
<1>4. CASE now
  <2>1. V = W \cup {i} /\ i \notin W BY <1>1, <1>2, <1>3, <1>4 DEF Writes
  <2>2. IsFiniteSet(W) BY WritesAre
  <2> HIDE DEF W, V
  <2>3. Cardinality(W \cup {i}) = IF i \in W THEN Cardinality(W) ELSE Cardinality(W) + 1
    BY <2>2, FS_AddElement, Zenon
  <2>4. Cardinality(V) = Cardinality(W) + 1 BY <2>1, <2>3
  <2> QED BY <1>4, <2>4 DEF Before, W, V
<1>5. CASE ~now
  <2>1. V = W BY <1>1, <1>2, <1>3, <1>5 DEF Writes
  <2> QED BY <1>5, <2>1 DEF Before
<1> QED BY <1>4, <1>5

(* All of them.                                                            *)
LEMMA AllOf ==
  ASSUME NEW s \in Scripts, NEW r
  PROVE  /\ All(s, r) \in Nat
         /\ Before(s, r, Len(ScriptOf[s]) + 1) = All(s, r)
         /\ \A i \in Spots(s) : Before(s, r, i) <= All(s, r) /\ Before(s, r, i + 1) <= All(s, r)
         /\ All(s, r) = Cardinality({i \in Writers(s) : ScriptOf[s][i].row = r})
         /\ r \in RowsOf[s] => Times[s][r] = All(s, r)
<1> DEFINE n == Len(ScriptOf[s])
<1>1. n \in Nat BY NotEmpty
<1>2. All(s, r) \in Nat /\ Before(s, r, n + 1) = All(s, r) BY WritesAre DEF All
<1>3. \A i \in Spots(s) : i \in Nat /\ i <= n BY SpotsAre
<1> HIDE DEF n
<1>4. \A i \in Spots(s) : i \in Nat /\ i + 1 \in Nat /\ n + 1 \in Nat /\ i <= n + 1 /\ i + 1 <= n + 1
  BY <1>1, <1>3
<1>5. \A i \in Spots(s) : Before(s, r, i) <= All(s, r) /\ Before(s, r, i + 1) <= All(s, r)
  BY <1>2, <1>4, BeforeGrows
<1>6. \A i \in Writers(s) : i < n + 1
  <2>1. \A i \in Writers(s) : i \in Nat /\ i <= n BY <1>3, WritersAre
  <2> QED BY <1>1, <2>1
<1>7. Writes(s, r, n + 1) = {i \in Writers(s) : ScriptOf[s][i].row = r} BY <1>6 DEF Writes
<1>8. All(s, r) = Cardinality({i \in Writers(s) : ScriptOf[s][i].row = r})
  BY <1>7 DEF All, Before, n
<1> QED BY <1>2, <1>5, <1>8 DEF Times, n

(* A row that was written is in what was written.                          *)
LEMMA WrittenIs ==
  ASSUME NEW s \in Scripts, NEW i \in Spots(s), NEW n \in Nat, i < n, ScriptOf[s][i].op \in Writing
  PROVE  1 <= Before(s, ScriptOf[s][i].row, n)
<1>1. i \in Writes(s, ScriptOf[s][i].row, n) BY WritersAre DEF Writes
<1>2. Before(s, ScriptOf[s][i].row, n) # 0 /\ Before(s, ScriptOf[s][i].row, n) \in Nat BY <1>1, WritesAre
<1> QED BY <1>2
-----------------------------------------------------------------------------
(* What one step of a script does.                                         *)

LEMMA CopiesAre ==
  ASSUME RowsCounted
  PROVE  \A r : Copies(r) \in Nat /\ (There(r) <=> Copies(r) # 0)
<1>1. \A r : There(r) => rows[r] \in Nat \ {0} BY DEF RowsCounted, There, BagIn, BagToSet
<1>2. ASSUME NEW r PROVE Copies(r) \in Nat /\ (There(r) <=> Copies(r) # 0) BY <1>1 DEF Copies
<1> QED BY <1>2

LEMMA AddsRow ==
  ASSUME RowsCounted, NEW r, rows' = BagAdd(rows, r)
  PROVE  /\ RowsCounted' /\ There(r)' /\ Copies(r)' = Copies(r) + 1
         /\ \A q : q # r => (There(q)' <=> There(q)) /\ Copies(q)' = Copies(q)
<1>1. \A q \in DOMAIN rows : rows[q] \in Nat \ {0} BY DEF RowsCounted
<1>2. \A q : There(q) <=> q \in DOMAIN rows BY DEF There, BagIn, BagToSet
<1>3. \A q : There(q)' <=> q \in DOMAIN rows' BY DEF There, BagIn, BagToSet
<1>4. /\ DOMAIN rows' = DOMAIN rows \cup {r}
      /\ rows'[r] = IF r \in DOMAIN rows THEN rows[r] + 1 ELSE 1
      /\ \A q \in DOMAIN rows : q # r => rows'[q] = rows[q]
  BY DEF BagAdd
<1>5. \A q \in DOMAIN rows' : rows'[q] \in Nat \ {0} BY <1>1, <1>4
<1>6. RowsCounted' BY <1>5 DEF RowsCounted
<1>7. There(r)' /\ Copies(r)' = rows'[r] BY <1>3, <1>4 DEF Copies
<1>8. Copies(r)' = Copies(r) + 1 BY <1>1, <1>2, <1>4, <1>7 DEF Copies
<1>9. ASSUME NEW q, q # r
      PROVE  (There(q)' <=> There(q)) /\ Copies(q)' = Copies(q)
  <2>1. There(q)' <=> There(q) BY <1>2, <1>3, <1>4, <1>9
  <2>2. There(q) => rows'[q] = rows[q] BY <1>2, <1>4, <1>9
  <2> QED BY <2>1, <2>2 DEF Copies
<1> QED BY <1>6, <1>7, <1>8, <1>9

LEMMA SameRows ==
  ASSUME rows' = rows
  PROVE  /\ RowsCounted' <=> RowsCounted
         /\ \A q : (There(q)' <=> There(q)) /\ Copies(q)' = Copies(q)
BY DEF RowsCounted, There, Copies

(* The row of the step is written, or none is.                             *)
Writable(s) ==
  \/ Now(s).op \in {"new", "own", "always"} /\ Write(s)
  \/ Now(s).op = "lot" /\ There(<<s, "sku">>) /\ ~There(Now(s).row)
  \/ Now(s).op \in {"expire", "overdue"} /\ ~There(Now(s).row)
  \/ Now(s).op = "some" /\ OfBuyer < 4 /\ Orderable(s)

LEMMA DoRows ==
  ASSUME NEW s \in Scripts, Do(s)
  PROVE  /\ rows' \in {rows, BagAdd(rows, Now(s).row)}
         /\ ~Writable(s) => rows' = rows
         /\ Now(s).op # "overdue" /\ Writable(s) => rows' = BagAdd(rows, Now(s).row)
<1> DEFINE r == Now(s).row
<1>1. CASE DoRow(s) BY <1>1 DEF DoRow, Writable
<1>2. CASE DoLot(s)
  <2>1. CASE There(r) \/ There(<<s, "sku">>)
    <3>1. Add(r) BY <1>2, <2>1 DEF DoLot
    <3>2. Now(s).op = "lot" BY <1>2 DEF DoLot
    <3> QED BY <2>1, <3>1, <3>2 DEF Add, Writable
  <2>2. CASE ~(There(r) \/ There(<<s, "sku">>))
    <3>1. rows' = rows BY <1>2, <2>2 DEF DoLot, Throw
    <3>2. Now(s).op = "lot" BY <1>2 DEF DoLot
    <3> QED BY <2>2, <3>1, <3>2 DEF Writable
  <2> QED BY <2>1, <2>2
<1>3. CASE DoDate(s)
  <2>1. Now(s).op \in {"expire", "overdue"} BY <1>3 DEF DoDate
  <2>2. Add(r) \/ rows' = rows BY <1>3 DEF DoDate
  <2>3. Now(s).op = "expire" => Add(r) BY <1>3 DEF DoDate
  <2> QED BY <2>1, <2>2, <2>3 DEF Add, Writable
<1>4. CASE DoSome(s)
  <2>1. Now(s).op = "some" BY <1>4 DEF DoSome
  <2>2. IF OfBuyer < 4 /\ Orderable(s) THEN rows' = BagAdd(rows, r) ELSE rows' = rows BY <1>4 DEF DoSome
  <2> QED BY <2>1, <2>2 DEF Writable
<1>5. CASE ~DoRow(s) /\ ~DoLot(s) /\ ~DoDate(s) /\ ~DoSome(s)
  <2>1. rows' = rows /\ Now(s).op \notin {"new", "own", "always", "lot", "expire", "overdue", "some"}
    BY <1>5 DEF Do, DoRegister, DoGate, DoPlace, DoPay, DoDeliver, DoEnrich, Throw, Placed, Move
  <2> QED BY <2>1 DEF Writable
<1> QED BY <1>1, <1>2, <1>3, <1>4, <1>5

(* The run goes on, ends, or throws.                                       *)
NextFresh(s) ==
  IF \/ Now(s).op = "register" /\ Now(s).row[1] \notin orgs
     \/ Now(s).op = "gate" /\ ~Enough(Now(s).row)
  THEN runs[s].fresh \cup {Now(s).gate} ELSE runs[s].fresh
Moved(s) ==
  /\ runs[s].at + 1 \in Spots(s) /\ runs'[s].at = runs[s].at + 1
  /\ runs'[s].fresh = NextFresh(s) /\ runs'[s].done = runs[s].done
Ended(s) ==
  /\ runs[s].at = Len(ScriptOf[s]) /\ runs'[s].at = 0
  /\ runs'[s].fresh = {} /\ runs'[s].done = runs[s].done + 1
Threw(s) ==
  /\ runs'[s].at = 0 /\ runs'[s].fresh = {} /\ runs'[s].done = runs[s].done
  /\ Now(s).op \in {"lot", "place"} /\ Throw(s)

LEMMA OnwardIs ==
  ASSUME RunsInv, NEW s \in Scripts, Running(s), Onward(s, NextFresh(s))
  PROVE  /\ Moved(s) \/ Ended(s)
         /\ runs'[s].crashes = runs[s].crashes
         /\ \A z \in Scripts \ {s} : runs'[z] = runs[z]
<1>1. /\ runs \in [Scripts -> RunRow] /\ runs[s] \in RunRow
      /\ runs[s].at \in 1..Len(ScriptOf[s]) /\ Len(ScriptOf[s]) \in Nat
  BY AtStep, NotEmpty DEF RunsInv
<1>2. CASE runs[s].at = Len(ScriptOf[s])
  <2>1. runs' = [runs EXCEPT ![s] = [runs[s] EXCEPT !.at = 0, !.fresh = {}, !.done = @ + 1]]
    BY <1>1, <1>2 DEF Onward
  <2>2. runs'[s] = [runs[s] EXCEPT !.at = 0, !.fresh = {}, !.done = @ + 1]
        /\ \A z \in Scripts \ {s} : runs'[z] = runs[z]
    BY <1>1, <2>1
  <2>3. Ended(s) /\ runs'[s].crashes = runs[s].crashes BY <1>1, <1>2, <2>2 DEF Ended, RunRow
  <2> QED BY <2>2, <2>3
<1>3. CASE runs[s].at # Len(ScriptOf[s])
  <2>1. runs' = [runs EXCEPT ![s] = [runs[s] EXCEPT !.at = @ + 1, !.fresh = NextFresh(s)]]
    BY <1>1, <1>3 DEF Onward
  <2>2. runs'[s] = [runs[s] EXCEPT !.at = @ + 1, !.fresh = NextFresh(s)]
        /\ \A z \in Scripts \ {s} : runs'[z] = runs[z]
    BY <1>1, <2>1
  <2>3. runs[s].at + 1 \in 1..Len(ScriptOf[s]) BY <1>1, <1>3
  <2>4. Moved(s) /\ runs'[s].crashes = runs[s].crashes BY <1>1, <2>2, <2>3 DEF Moved, RunRow, Spots
  <2> QED BY <2>2, <2>4
<1> QED BY <1>2, <1>3

LEMMA ThrowIs ==
  ASSUME RunsInv, NEW s \in Scripts, Throw(s)
  PROVE  /\ runs'[s].at = 0 /\ runs'[s].fresh = {} /\ runs'[s].done = runs[s].done
         /\ runs'[s].crashes = runs[s].crashes
         /\ \A z \in Scripts \ {s} : runs'[z] = runs[z]
<1>1. runs \in [Scripts -> RunRow] /\ runs[s] \in RunRow BY DEF RunsInv
<1>2. runs' = [runs EXCEPT ![s] = [runs[s] EXCEPT !.at = 0, !.fresh = {}]] BY <1>1 DEF Throw
<1>3. runs'[s] = [runs[s] EXCEPT !.at = 0, !.fresh = {}]
      /\ \A z \in Scripts \ {s} : runs'[z] = runs[z]
  BY <1>1, <1>2
<1> QED BY <1>1, <1>3 DEF RunRow

LEMMA DoRuns ==
  ASSUME RunsInv, NEW s \in Scripts, Do(s)
  PROVE  /\ ((Moved(s) \/ Ended(s)) /\ refused' = refused) \/ Threw(s)
         /\ Running(s) /\ Now(s) \in StepsOf(s) /\ runs[s].at \in Spots(s)
         /\ runs'[s].crashes = runs[s].crashes
         /\ \A z \in Scripts \ {s} : runs'[z] = runs[z] /\ ~Running(z) /\ ~Running(z)'
<1>1. Running(s) BY DEF Do
<1>2. runs[s].at \in Spots(s) BY <1>1, AtStep DEF Spots
<1>3. Now(s) \in StepsOf(s) BY <1>2, InOrder DEF Now
<1>4. \A z \in Scripts \ {s} : ~Running(z) BY <1>1 DEF RunsInv, OneRun
<1>5. \/ Onward(s, NextFresh(s)) /\ refused' = refused
      \/ Throw(s) /\ Now(s).op \in {"lot", "place"}
  <2>1. CASE DoRegister(s) BY <2>1 DEF DoRegister, NextFresh
  <2>2. CASE DoGate(s) BY <2>2 DEF DoGate, NextFresh
  <2>3. Now(s).op \notin {"register", "gate"} => runs[s].fresh = NextFresh(s) BY DEF NextFresh
  <2>4. CASE DoRow(s) BY <2>3, <2>4 DEF DoRow, Continue
  <2>5. CASE DoLot(s) BY <2>3, <2>5 DEF DoLot, Continue
  <2>6. CASE DoPlace(s) BY <2>3, <2>6 DEF DoPlace, Placed, Continue, Recognised
  <2>7. CASE DoSome(s) BY <2>3, <2>7 DEF DoSome, Placed, Continue
  <2>8. CASE DoPay(s) \/ DoDeliver(s) BY <2>3, <2>8 DEF DoPay, DoDeliver, Move, Continue
  <2>9. CASE DoDate(s) \/ DoEnrich(s) BY <2>3, <2>9 DEF DoDate, DoEnrich, Continue
  <2> QED BY <2>1, <2>2, <2>4, <2>5, <2>6, <2>7, <2>8, <2>9 DEF Do
<1>6. \/ (Moved(s) \/ Ended(s)) /\ refused' = refused
      \/ Threw(s)
  BY <1>1, <1>5, OnwardIs, ThrowIs DEF Threw
<1>7. runs'[s].crashes = runs[s].crashes /\ \A z \in Scripts \ {s} : runs'[z] = runs[z]
  BY <1>1, <1>5, OnwardIs, ThrowIs
<1> QED BY <1>1, <1>2, <1>3, <1>4, <1>6, <1>7 DEF Running

(* Whoever is past a step that was not passed has just done it.            *)
LEMMA PassesBy ==
  ASSUME RunsInv, NEW s \in Scripts, Do(s), NEW t \in StepsOf(s), ~(t.op = "new" /\ t.row[2] = "farm"),
         Running(s)', NowRank(s)' > Rank(t)
  PROVE  NowRank(s) > Rank(t) \/ Now(s) = t
<1>1. Moved(s) /\ runs[s].at \in Spots(s) BY DoRuns DEF Ended, Threw, Running
<1>2. NowRank(s)' = Rank(ScriptOf[s][runs[s].at + 1]) BY <1>1 DEF NowRank, Now, Moved
<1>3. NowRank(s) = Rank(ScriptOf[s][runs[s].at]) /\ Now(s) = ScriptOf[s][runs[s].at]
  BY DEF NowRank, Now
<1> QED BY <1>1, <1>2, <1>3, ComesBy DEF Moved
-----------------------------------------------------------------------------
(* What is looked up comes once.                                           *)

LEMMA GatesAre ==
  ASSUME NEW s \in Scripts
  PROVE  /\ \A g \in GatesOf[s] : g # "approved" /\ (s # "french" => g # "org")
         /\ \A g \in GatesOf[s] \ {"farm"} : g \in NewOf[s] /\ GateOf(s, g) = g /\ GateRank[g] < RankOf[g]
         /\ \A k \in NewOf[s] : GateOf(s, k) \in GatesOf[s] /\ (GateOf(s, k) = "farm" => k = "farm")
         /\ \A k \in NewOf[s] : k \notin Doubled => k = GateOf(s, k) \/ RankOf[GateOf(s, k)] < RankOf[k]
         /\ "farm" \in GatesOf[s] => s = "tuopai"
BY DEF Scripts, ScriptOf, GatesOf, NewOf, GateOf, GateRank, RankOf, Doubled

(* What is written behind a gate, and the row that the gate looks for.     *)
LEMMA NewIs ==
  ASSUME NEW s \in Scripts, NEW t \in StepsOf(s), t.op = "new"
  PROVE  \/ /\ t.row[2] = "approved" /\ t.row[1] \in PartiesOf[s] /\ t.gate = <<t.row[1], "org">>
            /\ t = Step("new", t.row[1], "approved", "org") /\ t.row # t.gate
            /\ Rank(Step("register", t.row[1], "org", "org")) < Rank(t)
         \/ \E k \in NewOf[s] :
              /\ t = Step("new", s, k, GateOf(s, k)) /\ t.row = <<s, k>> /\ t.gate = <<s, GateOf(s, k)>>
              /\ k # "approved" /\ Rank(t) = RankOf[k]
<1>1. CASE \E o \in PartiesOf[s] : t = Step("new", o, "approved", "org")
  <2>1. PICK o \in PartiesOf[s] : t = Step("new", o, "approved", "org") BY <1>1
  <2>2. t.row = <<o, "approved">> /\ t.row[1] = o /\ t.row[2] = "approved" /\ t.gate = <<o, "org">>
    BY <2>1, StepIs
  <2>3. Rank(Step("register", o, "org", "org")) < Rank(t) BY <2>1, RanksOf
  <2> QED BY <2>1, <2>2, <2>3
<1>2. CASE \E k \in NewOf[s] : t = Step("new", s, k, GateOf(s, k))
  <2>1. PICK k \in NewOf[s] : t = Step("new", s, k, GateOf(s, k)) BY <1>2
  <2>2. t.row = <<s, k>> /\ t.gate = <<s, GateOf(s, k)>> BY <2>1, StepIs
  <2>3. k # "approved" /\ Rank(t) = RankOf[k] BY <2>1, KindsKnown, RanksOf
  <2> QED BY <2>1, <2>2, <2>3
<1> QED BY <1>1, <1>2, Forms

LEMMA NumberedAre ==
  ASSUME NEW s \in Scripts, NEW t \in Numbered(s)
  PROVE  /\ t \in StepsOf(s) /\ t.op = "new" /\ t.row[2] # "farm"
         /\ \/ /\ t.row[2] = "approved" /\ t.row[1] \in PartiesOf[s] /\ t.gate = <<t.row[1], "org">>
               /\ Rank(Step("register", t.row[1], "org", "org")) < Rank(t)
            \/ \E g \in GatesOf[s] \ {"farm"} :
                 LET w == Step("new", s, g, g) IN
                 /\ w \in StepsOf(s) /\ w.op = "new" /\ w.row = <<s, g>> /\ w.gate = <<s, g>>
                 /\ w.row[2] = g
                 /\ t.gate = <<s, g>> /\ t.row[2] # "approved" /\ (t = w \/ Rank(w) < Rank(t))
<1>1. t \in StepsOf(s) /\ t.op = "new" /\ t.row[2] \notin Doubled BY DEF Numbered
<1>2. "farm" \in Doubled BY DEF Doubled
<1>3. ASSUME NEW k \in NewOf[s], t = Step("new", s, k, GateOf(s, k)), t.row = <<s, k>>,
             t.gate = <<s, GateOf(s, k)>>, k # "approved", Rank(t) = RankOf[k]
      PROVE  \E g \in GatesOf[s] \ {"farm"} :
               LET w == Step("new", s, g, g) IN
               /\ w \in StepsOf(s) /\ w.op = "new" /\ w.row = <<s, g>> /\ w.gate = <<s, g>>
               /\ w.row[2] = g
               /\ t.gate = <<s, g>> /\ t.row[2] # "approved" /\ (t = w \/ Rank(w) < Rank(t))
  <2> DEFINE g == GateOf(s, k)
             w == Step("new", s, g, g)
  <2>1. t.row[2] = k BY <1>3
  <2>2. k \notin Doubled /\ k # "farm" BY <1>1, <1>2, <2>1
  <2>3. g \in GatesOf[s] \ {"farm"} BY <2>2, GatesAre
  <2>4. g \in NewOf[s] /\ GateOf(s, g) = g BY <2>3, GatesAre
  <2> HIDE DEF g
  <2>5. w \in StepsOf(s) /\ Rank(w) = RankOf[g] BY <2>4, RanksOf
  <2>6. w.op = "new" /\ w.row = <<s, g>> /\ w.gate = <<s, g>> /\ w.row[2] = g BY StepIs
  <2>7. k = g \/ RankOf[g] < RankOf[k] BY <2>2, GatesAre DEF g
  <2>8. k = g => t = w BY <1>3 DEF g
  <2>9. RankOf[g] < RankOf[k] => Rank(w) < Rank(t) BY <1>3, <2>5
  <2>10. t.gate = <<s, g>> BY <1>3 DEF g
  <2> HIDE DEF w
  <2>11. t = w \/ Rank(w) < Rank(t) BY <2>7, <2>8, <2>9
  <2> QED BY <1>3, <2>1, <2>3, <2>5, <2>6, <2>10, <2>11 DEF w
<1> QED BY <1>1, <1>2, <1>3, NewIs

LEMMA GateRows ==
  ASSUME NEW s \in Scripts, NEW t \in StepsOf(s), t.op = "new", t.row = t.gate, t.row[2] # "farm"
  PROVE  \E g \in GatesOf[s] :
           t.gate = <<s, g>> /\ Step("gate", s, g, g) \in StepsOf(s) /\ Rank(Step("gate", s, g, g)) < Rank(t)
<1>1. PICK k \in NewOf[s] :
        /\ t = Step("new", s, k, GateOf(s, k)) /\ t.row = <<s, k>> /\ t.gate = <<s, GateOf(s, k)>>
        /\ Rank(t) = RankOf[k]
  BY NewIs
<1>2. k = GateOf(s, k) /\ k # "farm" BY <1>1
<1>3. k \in GatesOf[s] \ {"farm"} BY <1>2, GatesAre
<1>4. GateRank[k] < RankOf[k] BY <1>3, GatesAre
<1>5. Step("gate", s, k, k) \in StepsOf(s) /\ Rank(Step("gate", s, k, k)) = GateRank[k] BY <1>3, RanksOf
<1>6. t.gate = <<s, k>> BY <1>1, <1>2
<1> QED BY <1>1, <1>3, <1>4, <1>5, <1>6

(* The rows of a script are its own, but for the approvals.                *)
LEMMA WriterIs ==
  ASSUME NEW s \in Scripts, NEW z \in Scripts, NEW t \in StepsOf(s), NEW u \in StepsOf(z),
         t.op \in Writing, u.op \in Writing \cup Marks, t.row = u.row
  PROVE  t = u /\ (s = z \/ (t.op = "new" /\ t.row[2] = "approved"))
<1>1. ASSUME NEW y \in Scripts, NEW v \in StepsOf(y), v.op \in Writing \cup Marks
      PROVE  \/ \E o \in PartiesOf[y] : v = Step("new", o, "approved", "org") /\ v.row = <<o, "approved">>
             \/ v.op \in Writing /\ \E k : v.row = <<y, k>> /\ k \notin {"approved"} \cup Marks
             \/ v.op \in Marks /\ \E o : v.row = <<o, v.op>>
  <2>1. CASE v.op = "new"
    <3>1. CASE v.row[2] = "approved" BY <1>1, <2>1, <3>1, NewIs, StepIs
    <3>2. CASE v.row[2] # "approved"
      <4>1. PICK k \in NewOf[y] : v.row = <<y, k>> /\ k # "approved" BY <1>1, <2>1, <3>2, NewIs
      <4>2. k \notin Marks BY <4>1, KindsApart DEF Marks
      <4> QED BY <2>1, <4>1, <4>2 DEF Writing
    <3> QED BY <3>1, <3>2
  <2>2. CASE v.op = "own"
    <3>1. PICK k \in OwnOf[y] : v = Step("own", y, k, k) BY <1>1, <2>2, Forms
    <3>2. v.row = <<y, k>> BY <3>1, StepIs
    <3>3. k \notin {"approved"} \cup Marks BY <3>1, KindsApart DEF Marks
    <3> QED BY <2>2, <3>2, <3>3 DEF Writing
  <2>3. CASE v.op = "always"
    <3>1. PICK k \in AlwaysOf[y] : v = Step("always", y, k, k) BY <1>1, <2>3, Forms
    <3>2. v.row = <<y, k>> BY <3>1, StepIs
    <3>3. k \notin {"approved"} \cup Marks BY <3>1, KindsApart DEF Marks
    <3> QED BY <2>3, <3>2, <3>3 DEF Writing
  <2>4. CASE v.op = "lot"
    <3>1. v = Step("lot", y, "lot", "lot") BY <1>1, <2>4, Forms, KindsApart
    <3>2. v.row = <<y, "lot">> BY <3>1, StepIs
    <3> QED BY <2>4, <3>2 DEF Writing
  <2>5. CASE v.op \in Marks
    <3>1. v = Step(v.op, Whose(y, v.op), v.op, v.op) BY <1>1, <2>5, Forms DEF Marks
    <3>2. v.row = <<Whose(y, v.op), v.op>> BY <3>1, StepIs
    <3> QED BY <2>5, <3>2
  <2> QED BY <1>1, <2>1, <2>2, <2>3, <2>4, <2>5 DEF Writing
<1>2. \A a, b, c, d : <<a, b>> = <<c, d>> => a = c /\ b = d OBVIOUS
<1>3. Writing \cap Marks = {} BY DEF Writing, Marks
<1>4. CASE \E o \in PartiesOf[s] : t = Step("new", o, "approved", "org") /\ t.row = <<o, "approved">>
  <2>1. PICK o \in PartiesOf[s] : t = Step("new", o, "approved", "org") /\ t.row = <<o, "approved">>
    BY <1>4
  <2>2. \E p \in PartiesOf[z] : u = Step("new", p, "approved", "org") /\ u.row = <<p, "approved">>
    BY <1>1, <1>2, <2>1 DEF Marks
  <2>3. u = t BY <1>2, <2>1, <2>2
  <2>4. t.op = "new" /\ t.row[2] = "approved" BY <2>1, StepIs
  <2> QED BY <2>3, <2>4
<1>5. CASE \E k : t.row = <<s, k>> /\ k \notin {"approved"} \cup Marks
  <2>1. PICK k : t.row = <<s, k>> /\ k \notin {"approved"} \cup Marks BY <1>5
  <2>2. \A o : u.row # <<o, "approved">> /\ \A op \in Marks : u.row # <<o, op>> BY <1>2, <2>1
  <2>3. u.op \in Writing /\ \E c : u.row = <<z, c>> BY <1>1, <2>2
  <2>4. s = z BY <1>2, <2>1, <2>3
  <2>5. t = u BY <2>3, <2>4, OneWriter, Zenon
  <2> QED BY <2>4, <2>5, Zenon
<1> QED BY <1>1, <1>3, <1>4, <1>5

-----------------------------------------------------------------------------
LEMMA DoOrgs ==
  ASSUME NEW s \in Scripts, Do(s)
  PROVE  orgs \subseteq orgs' /\ (Now(s).op = "register" => Now(s).row[1] \in orgs')
BY DEF Do, DoRegister, DoGate, DoRow, DoLot, DoPlace, DoSome, DoPay, DoDeliver, DoDate, DoEnrich,
       Throw, Placed, Move

(* What a step writes, and what it finds missing.                          *)
LEMMA RowsAfter ==
  ASSUME RowsCounted, NEW s \in Scripts, Do(s)
  PROVE  /\ RowsCounted' /\ \A q : There(q) => There(q)'
         /\ \A q : \/ Copies(q)' = Copies(q) /\ (There(q)' <=> There(q))
                   \/ Copies(q)' = Copies(q) + 1 /\ q = Now(s).row /\ Writable(s)
<1>1. CASE rows' = rows
  <2>1. RowsCounted' /\ \A q : Copies(q)' = Copies(q) /\ (There(q)' <=> There(q)) BY <1>1, SameRows
  <2> QED BY <2>1, Zenon
<1>2. CASE rows' = BagAdd(rows, Now(s).row) /\ Writable(s)
  <2>1. PICK r : r = Now(s).row OBVIOUS
  <2>2. /\ RowsCounted' /\ There(r)' /\ Copies(r)' = Copies(r) + 1
        /\ \A q : q # r => (There(q)' <=> There(q)) /\ Copies(q)' = Copies(q)
    BY <1>2, <2>1, AddsRow
  <2> QED BY <1>2, <2>1, <2>2, Zenon
<1> QED BY <1>1, <1>2, DoRows

LEMMA NewlyFresh ==
  ASSUME NEW s \in Scripts, Now(s) \in StepsOf(s), NEW g \in NextFresh(s), g \notin runs[s].fresh
  PROVE  /\ g = Now(s).gate
         /\ \/ Now(s).op = "register" /\ Now(s).row[1] \notin orgs /\ g = <<Now(s).row[1], "org">>
               /\ Now(s).row[1] \in PartiesOf[s]
            \/ \E k \in GatesOf[s] :
                 /\ Now(s) = Step("gate", s, k, k) /\ g = <<s, k>> /\ Now(s).row = <<s, k>>
                 /\ ~Enough(<<s, k>>)
<1>1. /\ g = Now(s).gate
      /\ \/ Now(s).op = "register" /\ Now(s).row[1] \notin orgs
         \/ Now(s).op = "gate" /\ ~Enough(Now(s).row)
  BY DEF NextFresh
<1>2. CASE Now(s).op = "register" /\ Now(s).row[1] \notin orgs
  <2>1. PICK o \in PartiesOf[s] : Now(s) = Step("register", o, "org", "org") BY <1>2, Forms
  <2>2. Now(s).row[1] = o /\ Now(s).gate = <<o, "org">> BY <2>1, StepIs
  <2> QED BY <1>1, <1>2, <2>1, <2>2
<1>3. CASE Now(s).op = "gate" /\ ~Enough(Now(s).row)
  <2>1. PICK k \in GatesOf[s] : Now(s) = Step("gate", s, k, k) BY <1>3, Forms
  <2>2. Now(s).row = <<s, k>> /\ Now(s).gate = <<s, k>> BY <2>1, StepIs
  <2> QED BY <1>1, <1>3, <2>1, <2>2
<1> QED BY <1>1, <1>2, <1>3

LEMMA StepOwnOnce ==
  ASSUME OnceInv, NEW s \in Scripts, Do(s), Now(s) \in StepsOf(s)
  PROVE  OwnOnce'
<1>1. ASSUME NEW z \in Scripts, NEW t \in StepsOf(z), t.op \in {"own", "lot"}
      PROVE  Copies(t.row)' <= 1
  <2>1. Copies(t.row) \in Nat /\ Copies(t.row) <= 1 BY <1>1, CopiesAre DEF OnceInv, OwnOnce
  <2>2. CASE Copies(t.row)' = Copies(t.row) BY <2>1, <2>2
  <2>3. CASE Copies(t.row)' = Copies(t.row) + 1 /\ t.row = Now(s).row /\ Writable(s)
    <3>1. Now(s).op \in Writing \cup Marks /\ t.op \in Writing
      BY <1>1, <2>3 DEF Writable, Writing, Marks
    <3>2. t = Now(s) BY <2>3, <3>1, WriterIs
    <3>3. ~There(t.row) BY <1>1, <2>3, <3>2 DEF Writable, Write
    <3>4. Copies(t.row) = 0 BY <3>3 DEF Copies
    <3> QED BY <2>3, <3>4
  <2> QED BY <2>2, <2>3, RowsAfter DEF OnceInv
<1> QED BY <1>1 DEF OwnOnce

(* What a party or a gate that was passed looks for stays.                 *)
LEMMA PassedStays ==
  ASSUME NEW z \in Scripts, NEW t \in Numbered(z), Passed(t),
         orgs \cap Real \subseteq orgs', \A q : There(q) => There(q)'
  PROVE  Passed(t)'
<1>1. CASE t.row[2] = "approved"
  <2>1. t.row[1] \in PartiesOf[z] BY <1>1, NumberedAre
  <2>2. t.row[1] \in Real BY <2>1, KindsApart, ImportsAssumption DEF ImportsAssumption
  <2> QED BY <1>1, <2>2 DEF Passed
<1>2. CASE t.row[2] # "approved" BY <1>2 DEF Passed
<1> QED BY <1>1, <1>2

LEMMA StepGated ==
  ASSUME OnceInv, NEW s \in Scripts, Do(s), Now(s) \in StepsOf(s), Running(s),
         orgs \cap Real \subseteq orgs'
  PROVE  Gated'
<1>1. ASSUME NEW z \in Scripts, NEW t \in Numbered(z), There(t.row)'
      PROVE  Passed(t)'
  <2>1. \A q : There(q) => There(q)' BY RowsAfter DEF OnceInv
  <2>2. CASE There(t.row)
    <3>1. Passed(t) BY <2>2 DEF OnceInv, Gated
    <3> QED BY <2>1, <3>1, PassedStays
  <2>3. CASE ~There(t.row)
    <3>1. t.row = Now(s).row /\ Writable(s) BY <1>1, <2>3, RowsAfter DEF OnceInv
    <3>2. Now(s).op \in Writing \cup Marks /\ t \in StepsOf(z) /\ t.op = "new"
      BY <3>1, NumberedAre DEF Writable, Writing, Marks
    <3>3. t = Now(s) BY <3>1, <3>2, WriterIs DEF Writing
    <3>4. t.gate \in runs[s].fresh BY <3>1, <3>2, <3>3 DEF Writable, Write
    <3>5. NowRank(s) = Rank(t) BY <3>3 DEF NowRank
    <3>6. t \in Numbered(s) BY <3>2, <3>3 DEF Numbered
    <3>7. CASE t.row[2] = "approved"
      <4>1. t.row[1] \in PartiesOf[s] /\ Rank(Step("register", t.row[1], "org", "org")) < Rank(t)
        BY <3>6, <3>7, NumberedAre
      <4>2. Rank(Step("register", t.row[1], "org", "org")) \in Nat /\ Rank(t) \in Nat
        BY <4>1, <3>3, <3>7, RanksOf, Happens
      <4>3. t.row[1] \in orgs BY <3>5, <4>1, <4>2 DEF OnceInv, PartyJoined
      <4> QED BY <2>1, <3>7, <4>3, DoOrgs DEF Passed
    <3>8. CASE t.row[2] # "approved"
      <4>1. PICK g \in GatesOf[s] \ {"farm"} :
              LET w == Step("new", s, g, g) IN
              /\ w \in StepsOf(s) /\ w.op = "new" /\ w.row = <<s, g>> /\ w.gate = <<s, g>>
              /\ w.row[2] = g /\ t.gate = <<s, g>> /\ (t = w \/ Rank(w) < Rank(t))
        BY <3>6, <3>8, NumberedAre
      <4> DEFINE w == Step("new", s, g, g)
      <4>2. CASE t = w
        <5>1. t.gate = t.row BY <4>1, <4>2
        <5> QED BY <1>1, <3>8, <5>1 DEF Passed
      <4>3. CASE Rank(w) < Rank(t)
        <5>1. w \in StepsOf(s) /\ w.op = "new" /\ w.row = w.gate /\ w.row[2] # "farm" /\ w.gate = t.gate
          BY <4>1
        <5> HIDE DEF w
        <5>2. Rank(w) \in Nat /\ Rank(t) \in Nat BY <3>3, <5>1, Happens, NumberedAre
        <5>3. NowRank(s) > Rank(w) BY <3>5, <4>3, <5>2
        <5>4. There(w.row) BY <3>4, <5>1, <5>3 DEF OnceInv, GateFirst, Fresh
        <5>5. There(t.gate)' BY <2>1, <5>1, <5>4
        <5> QED BY <3>8, <5>5 DEF Passed
      <4> QED BY <4>1, <4>2, <4>3
    <3> QED BY <3>7, <3>8
  <2> QED BY <2>2, <2>3
<1>2. \A z \in Scripts : Numbered(z)' = Numbered(z) OBVIOUS
<1> QED BY <1>1 DEF Gated

-----------------------------------------------------------------------------
LEMMA StepNewInTurn ==
  ASSUME RunsInv, OnceInv, NEW s \in Scripts, Do(s)
  PROVE  NewInTurn'
<1>0. \A a, b, c, d : <<a, b>> = <<c, d>> => a = c /\ b = d OBVIOUS
<1>1. ASSUME NEW z \in Scripts, NEW t \in Numbered(z), NEW n, n = runs[z].at, NEW m, m = runs'[z].at
      PROVE  Copies(t.row)' <= IF Fresh(z, t.gate)' THEN Before(z, t.row, m) ELSE All(z, t.row)
  <2> DEFINE r == t.row
  <2>1. /\ Copies(r) \in Nat /\ All(z, r) \in Nat
        /\ Copies(r) <= IF Fresh(z, t.gate) THEN Before(z, r, n) ELSE All(z, r)
    BY <1>1, CopiesAre, AllOf DEF OnceInv, NewInTurn
  <2>2. t \in StepsOf(z) /\ t.op = "new" /\ t.op \in Writing /\ t.row[2] # "farm" BY NumberedAre DEF Writing
  <2>3. Before(z, r, n) \in Nat /\ Before(z, r, m) \in Nat BY WritesAre
  <2>4. Now(s) \in StepsOf(s) /\ Running(s) /\ runs[s].at \in Spots(s) BY DoRuns
  <2>5. CASE z # s
    <3>1. ~Running(z) /\ ~Running(z)' BY <2>5, DoRuns
    <3>2. ~Fresh(z, t.gate) /\ ~Fresh(z, t.gate)' BY <3>1 DEF Fresh
    <3>3. CASE Copies(r)' = Copies(r) BY <2>1, <3>2, <3>3
    <3>4. CASE Copies(r)' = Copies(r) + 1 /\ r = Now(s).row /\ Writable(s)
      <4>1. Now(s).op \in Writing \cup Marks BY <3>4 DEF Writable, Writing, Marks
      <4>2. t = Now(s) BY <2>2, <2>4, <3>4, <4>1, WriterIs
      <4>3. t.gate \in runs[s].fresh BY <2>2, <3>4, <4>2 DEF Writable, Write
      <4>4. t \in Numbered(s) BY <2>4, <4>2 DEF Numbered
      <4>5. PICK i \in Spots(s) : i = runs[s].at BY <2>4
      <4>6. Copies(r) <= Before(s, r, i) BY <2>4, <4>3, <4>4, <4>5 DEF OnceInv, NewInTurn, Fresh
      <4>7. ScriptOf[s][i] = t BY <4>2, <4>5 DEF Now
      <4>8. Before(s, r, i) = 0
        <5>1. r[2] = "approved" BY <2>2, <2>4, <2>5, <3>4, <4>1, WriterIs
        <5>2. ASSUME NEW j \in Writes(s, r, i) PROVE FALSE
          <6>1. j \in Writers(s) /\ j < i /\ ScriptOf[s][j].row = r BY <5>2 DEF Writes
          <6>2. j \in Spots(s) /\ ScriptOf[s][j].op \in Writing BY <6>1, WritersAre
          <6>3. ScriptOf[s][j] \in StepsOf(s) BY <6>2, InOrder
          <6>4. ScriptOf[s][j] = t BY <2>2, <2>4, <4>2, <6>1, <6>2, <6>3, OneWriter
          <6>5. r[2] \notin Repeated BY <5>1 DEF Repeated
          <6>6. j = i BY <4>7, <6>2, <6>4, <6>5, Earlier
          <6>7. j \in Nat BY <6>2, SpotsAre
          <6> QED BY <6>1, <6>6, <6>7
        <5>3. Writes(s, r, i) = {} BY <5>2
        <5> QED BY <5>3, WritesAre
      <4>9. Copies(r) = 0 BY <2>1, <4>6, <4>8
      <4>10. 1 <= All(z, r)
        <5>1. PICK j \in Spots(z) : ScriptOf[z][j] = t BY <2>2, Happens
        <5>2. j \in Nat /\ j + 1 \in Nat /\ j < j + 1 BY SpotsAre
        <5>3. 1 <= Before(z, r, j + 1) BY <2>2, <5>1, <5>2, WrittenIs
        <5>4. Before(z, r, j + 1) <= All(z, r) /\ Before(z, r, j + 1) \in Nat BY AllOf, WritesAre
        <5> QED BY <2>1, <5>3, <5>4
      <4> QED BY <3>2, <3>4, <4>9, <4>10
    <3> QED BY <3>3, <3>4, RowsAfter DEF OnceInv
  <2>6. CASE z = s
    <3>1. n \in Spots(s) /\ ScriptOf[s][n] = Now(s) BY <1>1, <2>4, <2>6 DEF Now
    <3>2. /\ Before(s, r, n + 1) = IF Now(s).op \in Writing /\ Now(s).row = r
                                   THEN Before(s, r, n) + 1 ELSE Before(s, r, n)
          /\ Before(s, r, n) <= All(s, r) /\ Before(s, r, n + 1) <= All(s, r)
          /\ Before(s, r, n + 1) \in Nat
      <4>1. Before(s, r, n + 1) = IF ScriptOf[s][n].op \in Writing /\ ScriptOf[s][n].row = r
                                  THEN Before(s, r, n) + 1 ELSE Before(s, r, n)
        BY <3>1, BeforeNext, Zenon
      <4>2. Before(s, r, n) <= All(s, r) /\ Before(s, r, n + 1) <= All(s, r) BY <3>1, AllOf, Zenon
      <4>3. Before(s, r, n + 1) \in Nat BY WritesAre, Zenon
      <4> QED BY <3>1, <4>1, <4>2, <4>3
    <3>3. Fresh(z, t.gate)' => m = n + 1 /\ t.gate \in NextFresh(s)
      BY <1>1, <2>6, DoRuns DEF Fresh, Moved, Ended, Threw
    <3>4. CASE Copies(r)' = Copies(r)
      <4>1. CASE Fresh(z, t.gate)' /\ t.gate \notin runs[s].fresh
        <5>1. ~Passed(t)
          <6>1. /\ t.gate = Now(s).gate
                /\ \/ Now(s).row[1] \notin orgs /\ t.gate = <<Now(s).row[1], "org">>
                      /\ Now(s).row[1] \in PartiesOf[s]
                   \/ \E k \in GatesOf[s] : t.gate = <<s, k>> /\ ~Enough(<<s, k>>)
            BY <2>4, <3>3, <4>1, NewlyFresh
          <6>2. CASE t.row[2] = "approved"
            <7>1. t.row[1] \in PartiesOf[s] /\ t.gate = <<t.row[1], "org">> BY <2>6, <6>2, NumberedAre
            <7>2. t.row[1] # s BY <2>6, <7>1, KindsApart
            <7>3. \A k : t.gate # <<s, k>> BY <1>0, <7>1, <7>2
            <7>4. t.gate = <<Now(s).row[1], "org">> /\ Now(s).row[1] \notin orgs BY <6>1, <7>3, Zenon
            <7>5. PICK a, b : a = t.row[1] /\ b = Now(s).row[1] OBVIOUS
            <7>6. <<a, "org">> = <<b, "org">> BY <7>1, <7>4, <7>5, Zenon
            <7>7. a = b BY <7>6
            <7>8. t.row[1] \notin orgs BY <7>4, <7>5, <7>7, Zenon
            <7> QED BY <6>2, <7>8 DEF Passed
          <6>3. CASE t.row[2] # "approved"
            <7>1. PICK g \in GatesOf[s] \ {"farm"} : t.gate = <<s, g>> BY <2>6, <6>3, NumberedAre
            <7>2. s \notin PartiesOf[s] BY KindsApart
            <7>3. \E k \in GatesOf[s] : t.gate = <<s, k>> /\ ~Enough(<<s, k>>)
              <8>1. ASSUME t.gate = <<Now(s).row[1], "org">>, Now(s).row[1] \in PartiesOf[s] PROVE FALSE
                <9>1. PICK a : a = Now(s).row[1] OBVIOUS
                <9>2. <<a, "org">> = <<s, g>> BY <7>1, <8>1, <9>1, Zenon
                <9>3. a = s BY <9>2
                <9> QED BY <7>2, <8>1, <9>1, <9>3, Zenon
              <8> QED BY <6>1, <8>1, Zenon
            <7>4. ~Enough(<<s, g>>) BY <7>1, <7>3, Zenon
            <7>5. ~There(<<s, g>>) BY <7>1, <7>4 DEF Enough
            <7> QED BY <6>3, <7>1, <7>5 DEF Passed
          <6> QED BY <6>2, <6>3
        <5>2. ~There(r) BY <5>1 DEF OnceInv, Gated
        <5>3. Copies(r) = 0 BY <5>2 DEF Copies
        <5> QED BY <2>3, <3>4, <4>1, <5>3
      <4>2. CASE Fresh(z, t.gate)' /\ t.gate \in runs[s].fresh
        <5>1. Fresh(z, t.gate) BY <2>4, <2>6, <4>2 DEF Fresh
        <5> QED BY <2>1, <2>3, <2>6, <3>2, <3>3, <3>4, <4>2, <5>1
      <4>3. CASE ~Fresh(z, t.gate)' BY <2>1, <2>3, <2>6, <3>2, <3>4, <4>3
      <4> QED BY <4>1, <4>2, <4>3
    <3>5. CASE Copies(r)' = Copies(r) + 1 /\ r = Now(s).row /\ Writable(s)
      <4>1. Now(s).op \in Writing \cup Marks BY <3>5 DEF Writable, Writing, Marks
      <4>2. t = Now(s) BY <2>2, <2>4, <3>5, <4>1, WriterIs
      <4>3. Fresh(z, t.gate) BY <2>2, <2>4, <2>6, <3>5, <4>2 DEF Writable, Write, Fresh
      <4>4. Before(s, r, n + 1) = Before(s, r, n) + 1 BY <2>2, <3>2, <4>2
      <4>5. Copies(r)' <= Before(s, r, n + 1) BY <2>1, <2>3, <2>6, <3>5, <4>3, <4>4
      <4> QED BY <2>1, <2>3, <2>6, <3>2, <3>3, <3>5, <4>5
    <3> QED BY <3>4, <3>5, RowsAfter DEF OnceInv
  <2> QED BY <2>5, <2>6
<1>2. ASSUME NEW z \in Scripts, NEW t \in Numbered(z)
      PROVE  Copies(t.row)' <= IF Fresh(z, t.gate)' THEN Before(z, t.row, runs'[z].at) ELSE All(z, t.row)
  <2>1. PICK n : n = runs[z].at OBVIOUS
  <2>2. PICK m : m = runs'[z].at OBVIOUS
  <2> QED BY <1>1, <2>1, <2>2
<1> QED BY <1>2 DEF NewInTurn

-----------------------------------------------------------------------------
LEMMA StepGateFirst ==
  ASSUME RunsInv, OnceInv, NEW s \in Scripts, Do(s)
  PROVE  GateFirst'
<1>1. ASSUME NEW z \in Scripts, NEW t \in StepsOf(z), t.op = "new", t.row = t.gate, t.row[2] # "farm",
             Fresh(z, t.gate)', NowRank(z)' > Rank(t)
      PROVE  There(t.row)'
  <2>1. z = s BY <1>1, DoRuns DEF Fresh
  <2>2. Running(s)' /\ NowRank(s)' > Rank(t) /\ t \in StepsOf(s) BY <1>1, <2>1 DEF Fresh
  <2>3. NowRank(s) > Rank(t) \/ Now(s) = t BY <1>1, <2>2, PassesBy
  <2>4. t.gate \in NextFresh(s) BY <1>1, <2>1, DoRuns DEF Fresh, Moved, Ended, Threw, Running
  <2>5. Running(s) /\ Now(s) \in StepsOf(s) BY DoRuns
  <2>6. t.gate \in runs[s].fresh
    <3>1. SUFFICES ASSUME t.gate \notin runs[s].fresh PROVE FALSE OBVIOUS
    <3>2. PICK g \in GatesOf[s] :
            /\ t.gate = <<s, g>> /\ Step("gate", s, g, g) \in StepsOf(s)
            /\ Rank(Step("gate", s, g, g)) < Rank(t)
      BY <1>1, <2>2, GateRows
    <3>3. \/ Now(s).op = "register" /\ t.gate = <<Now(s).row[1], "org">> /\ Now(s).row[1] \in PartiesOf[s]
          \/ \E k \in GatesOf[s] : Now(s) = Step("gate", s, k, k) /\ t.gate = <<s, k>>
      BY <2>4, <2>5, <3>1, NewlyFresh
    <3>4. PICK a : a = Now(s).row[1] OBVIOUS
    <3>5. t.gate # <<a, "org">> \/ a \notin PartiesOf[s]
      <4>1. t.gate = <<a, "org">> => a = s BY <3>2
      <4> QED BY <4>1, KindsApart
    <3>6. \E k \in GatesOf[s] : Now(s) = Step("gate", s, k, k) /\ t.gate = <<s, k>> BY <3>3, <3>4, <3>5, Zenon
    <3>7. Now(s) = Step("gate", s, g, g)
      <4>1. PICK k \in GatesOf[s] : Now(s) = Step("gate", s, k, k) /\ t.gate = <<s, k>> BY <3>6
      <4>2. k = g BY <3>2, <4>1
      <4> QED BY <4>1, <4>2
    <3>8. NowRank(s) < Rank(t) BY <3>2, <3>7 DEF NowRank
    <3>9. NowRank(s) \in Nat /\ Rank(t) \in Nat
      <4>1. Rank(t) \in 1..39 BY <1>1, <2>2, Happens
      <4>2. Rank(Now(s)) \in 1..39 BY DoRuns, InOrder DEF Now
      <4> QED BY <4>1, <4>2 DEF NowRank
    <3>10. Now(s) = t BY <2>3, <3>8, <3>9
    <3> QED BY <3>8, <3>9, <3>10 DEF NowRank
  <2>7. CASE NowRank(s) > Rank(t)
    <3>1. There(t.row) BY <1>1, <2>2, <2>5, <2>6, <2>7 DEF OnceInv, GateFirst, Fresh
    <3> QED BY <3>1, RowsAfter DEF OnceInv
  <2>8. CASE Now(s) = t
    <3>1. rows' = BagAdd(rows, t.row) BY <1>1, <2>6, <2>8, DoRows DEF Writable, Write
    <3> QED BY <3>1, AddsRow DEF OnceInv
  <2> QED BY <2>3, <2>7, <2>8
<1> QED BY <1>1 DEF GateFirst

LEMMA StepPartyJoined ==
  ASSUME RunsInv, OnceInv, NEW s \in Scripts, Do(s)
  PROVE  PartyJoined'
<1>1. ASSUME NEW z \in Scripts, NEW o \in PartiesOf[z], Running(z)',
             NowRank(z)' > Rank(Step("register", o, "org", "org"))
      PROVE  o \in orgs'
  <2> DEFINE t == Step("register", o, "org", "org")
  <2>1. z = s BY <1>1, DoRuns
  <2>2. t \in StepsOf(s) /\ t.op = "register" /\ t.row[1] = o BY <2>1, RanksOf, StepIs
  <2>3. Running(s)' /\ NowRank(s)' > Rank(t) BY <1>1, <2>1
  <2> HIDE DEF t
  <2>4. NowRank(s) > Rank(t) \/ Now(s) = t BY <2>2, <2>3, PassesBy
  <2>5. CASE NowRank(s) > Rank(t)
    <3>1. Running(s) BY DoRuns
    <3>2. o \in orgs BY <1>1, <2>1, <2>5, <3>1 DEF OnceInv, PartyJoined, t
    <3> QED BY <3>2, DoOrgs
  <2>6. CASE Now(s) = t BY <2>2, <2>6, DoOrgs
  <2> QED BY <2>4, <2>5, <2>6
<1>2. \A z \in Scripts : PartiesOf[z]' = PartiesOf[z] OBVIOUS
<1> QED BY <1>1 DEF PartyJoined

LEMMA OnceDo ==
  ASSUME RunsInv, OnceInv, NEW s \in Scripts, Do(s), orgs \cap Real \subseteq orgs'
  PROVE  OnceInv'
<1>1. RowsCounted' BY RowsAfter DEF OnceInv
<1>2. NothingFresh'
  <2>1. ASSUME NEW z \in Scripts, ~Running(z)' PROVE runs'[z].fresh = {}
    <3>1. CASE z = s
      <4>2. Moved(s) => Running(s)'
        <5>1. \A i \in Spots(s) : i # 0
          <6>1. \A i \in Spots(s) : 1 <= i BY SpotsAre
          <6> QED BY <6>1
        <5> QED BY <5>1 DEF Moved, Running
      <4> QED BY <2>1, <3>1, <4>2, DoRuns DEF Ended, Threw
    <3>2. CASE z # s
      <4>1. runs'[z] = runs[z] /\ ~Running(z) BY <3>2, DoRuns
      <4> QED BY <4>1 DEF OnceInv, NothingFresh
    <3> QED BY <3>1, <3>2
  <2> QED BY <2>1 DEF NothingFresh
<1>3. Now(s) \in StepsOf(s) /\ Running(s) BY DoRuns
<1> QED BY <1>1, <1>2, <1>3, StepOwnOnce, StepGated, StepNewInTurn, StepGateFirst, StepPartyJoined
        DEF OnceInv

-----------------------------------------------------------------------------
(* Steps that are not a script's: a run begins or is killed, the sweeper,  *)
(* an approval by hand, the API and the purges.                            *)
Buyer == <<"Jinglin", "approved">>
Begun(s) ==
  /\ \A z \in Scripts : ~Running(z)
  /\ s \in cast /\ runs'[s].at = 1 /\ runs'[s].fresh = {}
  /\ runs'[s].done = runs[s].done /\ runs'[s].crashes = runs[s].crashes
  /\ \A z \in Scripts \ {s} : runs'[z] = runs[z]
Killed(s) ==
  /\ Running(s) /\ runs'[s].at = 0 /\ runs'[s].fresh = {}
  /\ runs'[s].done = runs[s].done /\ runs'[s].crashes = runs[s].crashes + 1
  /\ \A z \in Scripts \ {s} : runs'[z] = runs[z]
Quiet ==
  /\ cast' = cast /\ refused' = refused /\ orgs \cap Real \subseteq orgs'
  /\ "Jinglin" \in orgs' => "Jinglin" \in orgs \/ "Jinglin" \in cast
  /\ runs' = runs \/ \E s \in Scripts : Begun(s) \/ Killed(s)
  /\ \/ rows' = rows
     \/ /\ rows' = BagAdd(rows, Buyer) /\ ~There(Buyer) /\ "Jinglin" \in orgs
        /\ \A z \in Scripts : ~Running(z)
        /\ runs' = runs
  /\ UNCHANGED <<stock, orders>> \/ \E s \in Scripts : Sweep(s)

LEMMA BeginsOrIsKilled ==
  ASSUME RunsInv, NothingFresh, NEW s \in Scripts
  PROVE  (Start(s) => Begun(s)) /\ (Crash(s) => Killed(s))
<1>1. runs \in [Scripts -> RunRow] /\ runs[s] \in RunRow BY DEF RunsInv
<1>2. CASE Start(s)
  <2>1. ~Running(s) /\ runs[s].fresh = {} BY <1>2 DEF Start, NothingFresh
  <2>2. runs' = [runs EXCEPT ![s] = [runs[s] EXCEPT !.at = 1, !.runs = @ + 1]] BY <1>1, <1>2 DEF Start
  <2>3. runs'[s] = [runs[s] EXCEPT !.at = 1, !.runs = @ + 1]
        /\ \A z \in Scripts \ {s} : runs'[z] = runs[z]
    BY <1>1, <2>2
  <2> QED BY <1>1, <1>2, <2>1, <2>3 DEF Start, Begun, Crash, RunRow
<1>3. CASE Crash(s)
  <2>1. runs' = [runs EXCEPT ![s] = [runs[s] EXCEPT !.at = 0, !.fresh = {}, !.crashes = @ + 1]]
    BY <1>1, <1>3 DEF Crash
  <2>2. runs'[s] = [runs[s] EXCEPT !.at = 0, !.fresh = {}, !.crashes = @ + 1]
        /\ \A z \in Scripts \ {s} : runs'[z] = runs[z]
    BY <1>1, <2>1
  <2> QED BY <1>1, <1>3, <2>2 DEF Start, Killed, Crash, RunRow
<1> QED BY <1>2, <1>3

LEMMA StepIsQuiet ==
  ASSUME UpkeepInv, NothingFresh, [Next]_vars
  PROVE  Quiet \/ \E s \in Scripts : Do(s)
<1>1. orgs \cap Real \subseteq orgs' BY KeepsTheReal
<1>2. CASE Clear
  <2>1. UNCHANGED <<cast, rows, stock, orders, runs, refused>> BY <1>2 DEF Clear, importVars
  <2>2. "Jinglin" \in orgs' => "Jinglin" \in orgs \/ "Jinglin" \in cast
    BY <1>2 DEF Clear, PurgeNext, Join, StockUp, DealChecks, Deal, FindOrgs, Protect, CollectOrders, CollectLots,
       TxHolds, TxLots, Commit, Abort
  <2> QED BY <1>1, <2>1, <2>2 DEF Quiet
<1>3. CASE UNCHANGED vars BY <1>1, <1>3 DEF vars, importVars, Quiet
<1>4. CASE Import
  <2>1. cast' = cast BY <1>4 DEF Import
  <2>2. RunsInv BY DEF UpkeepInv, ImportsInv
  <2>3. ASSUME NEW s \in Scripts, Start(s) \/ Crash(s) PROVE Quiet
    <3>1. UNCHANGED <<orgs, rows, stock, orders, refused>> BY <2>3 DEF Start, Crash
    <3> QED BY <1>1, <2>1, <2>2, <2>3, <3>1, BeginsOrIsKilled DEF Quiet
  <2>4. ASSUME NEW s \in Scripts, Sweep(s) PROVE Quiet
    <3>1. UNCHANGED <<orgs, rows, runs, refused>> BY <2>4 DEF Sweep
    <3> QED BY <1>1, <2>1, <2>4, <3>1 DEF Quiet
  <2>5. ASSUME ApproveByHand("Jinglin") PROVE Quiet
    <3>1. UNCHANGED <<orgs, stock, orders, runs, refused>> BY <2>5 DEF ApproveByHand
    <3>2. rows' = BagAdd(rows, Buyer) /\ ~There(Buyer) /\ "Jinglin" \in orgs
          /\ \A z \in Scripts : ~Running(z)
      BY <2>5 DEF ApproveByHand, Add, Buyer
    <3> QED BY <1>1, <2>1, <3>1, <3>2 DEF Quiet
  <2> QED BY <1>4, <2>3, <2>4, <2>5 DEF Import, ImportsNext
<1> QED BY <1>2, <1>3, <1>4 DEF Next

-----------------------------------------------------------------------------
LEMMA QuietRuns ==
  ASSUME RunsInv, NothingFresh, Quiet, NEW z \in Scripts
  PROVE  /\ Running(z)' => (runs'[z] = runs[z] /\ Running(z)) \/ Begun(z)
         /\ ~Running(z)' => runs'[z].fresh = {}
         /\ \A g : Fresh(z, g)' => runs'[z] = runs[z] /\ Fresh(z, g)
<1>1. CASE runs' = runs BY <1>1 DEF Running, NothingFresh, Fresh
<1>2. CASE \E s \in Scripts : Begun(s)
  <2>1. PICK s \in Scripts : Begun(s) BY <1>2
  <2>2. CASE z = s BY <2>1, <2>2 DEF Begun, Running, Fresh
  <2>3. CASE z # s BY <2>1, <2>3 DEF Begun, Running, Fresh, NothingFresh
  <2> QED BY <2>2, <2>3
<1>3. CASE \E s \in Scripts : Killed(s)
  <2>1. PICK s \in Scripts : Killed(s) BY <1>3
  <2>2. CASE z = s BY <2>1, <2>2 DEF Killed, Running, Fresh
  <2>3. CASE z # s BY <2>1, <2>3 DEF Killed, Running, Fresh, NothingFresh
  <2> QED BY <2>2, <2>3
<1> QED BY <1>1, <1>2, <1>3 DEF Quiet

LEMMA QuietRows ==
  ASSUME RowsCounted, Quiet
  PROVE  /\ RowsCounted' /\ \A q : There(q) => There(q)'
         /\ \A q : q # Buyer => Copies(q)' = Copies(q) /\ (There(q)' <=> There(q))
         /\ \/ Copies(Buyer)' = Copies(Buyer) /\ (There(Buyer)' <=> There(Buyer))
            \/ /\ Copies(Buyer) = 0 /\ Copies(Buyer)' = 1 /\ There(Buyer)' /\ "Jinglin" \in orgs'
               /\ \A z \in Scripts : ~Running(z) /\ ~Running(z)'
<1>1. CASE rows' = rows BY <1>1, SameRows
<1>2. CASE ~(rows' = rows)
  <2>1. /\ rows' = BagAdd(rows, Buyer) /\ ~There(Buyer) /\ "Jinglin" \in orgs
        /\ \A z \in Scripts : ~Running(z) /\ ~Running(z)'
    BY <1>2 DEF Quiet, Running
  <2>2. "Jinglin" \in orgs'
    <3>1. "Jinglin" \in Real BY ImportsAssumption DEF ImportsAssumption, Registered
    <3> QED BY <2>1, <3>1 DEF Quiet
  <2>3. Copies(Buyer) = 0 BY <2>1 DEF Copies
  <2> HIDE DEF Buyer
  <2>4. /\ RowsCounted' /\ There(Buyer)' /\ Copies(Buyer)' = Copies(Buyer) + 1
        /\ \A q : q # Buyer => (There(q)' <=> There(q)) /\ Copies(q)' = Copies(q)
    BY <2>1, AddsRow
  <2>5. Copies(Buyer)' = 1 BY <2>3, <2>4
  <2> QED BY <2>1, <2>2, <2>3, <2>4, <2>5
<1> QED BY <1>1, <1>2

LEMMA NotBuyer ==
  ASSUME NEW s \in Scripts, NEW t \in StepsOf(s), t.op \in Writing \cup Marks
  PROVE  t.row = Buyer => t.op = "new" /\ t.row[2] = "approved"
<1>1. Buyer[2] = "approved" BY DEF Buyer
<1>2. CASE t.op = "own"
  <2>1. PICK k \in OwnOf[s] : t = Step("own", s, k, k) BY <1>2, Forms
  <2> QED BY <1>1, <2>1, StepIs, KindsKnown
<1>3. CASE t.op = "always"
  <2>1. PICK k \in AlwaysOf[s] : t = Step("always", s, k, k) BY <1>3, Forms
  <2> QED BY <1>1, <2>1, StepIs, KindsKnown
<1>4. CASE t.op \in {"lot"} \cup Marks
  <2>1. t = Step(t.op, Whose(s, t.op), t.op, t.op) BY <1>4, Forms DEF Marks
  <2>2. t.row[2] = t.op BY <2>1, StepIs
  <2> QED BY <1>1, <1>4, <2>2 DEF Marks
<1> QED BY <1>1, <1>2, <1>3, <1>4 DEF Writing, Marks

LEMMA AllSome ==
  ASSUME NEW z \in Scripts, NEW t \in StepsOf(z), t.op \in Writing, ~(t.op = "new" /\ t.row[2] = "farm")
  PROVE  1 <= All(z, t.row)
<1>1. PICK j \in Spots(z) : ScriptOf[z][j] = t BY Happens
<1>2. j \in Nat /\ j + 1 \in Nat /\ j < j + 1 BY SpotsAre
<1>3. 1 <= Before(z, t.row, j + 1) BY <1>1, <1>2, WrittenIs
<1>4. Before(z, t.row, j + 1) <= All(z, t.row) /\ Before(z, t.row, j + 1) \in Nat /\ All(z, t.row) \in Nat
  BY AllOf, WritesAre
<1> QED BY <1>3, <1>4

LEMMA BeforeAll ==
  ASSUME RunsInv, NEW s \in Scripts, NEW r
  PROVE  Before(s, r, runs[s].at) <= All(s, r)
<1>1. CASE Running(s)
  <2>1. PICK i \in Spots(s) : i = runs[s].at BY <1>1, AtStep DEF Spots
  <2> QED BY <2>1, AllOf
<1>2. CASE ~Running(s)
  <2>1. runs[s].at = 0 BY <1>2 DEF Running
  <2>2. Before(s, r, 0) = 0 /\ All(s, r) \in Nat BY BeforeAny, AllOf
  <2>3. Before(s, r, runs[s].at) = 0 BY <2>1, <2>2
  <2> QED BY <2>2, <2>3
<1> QED BY <1>1, <1>2

LEMMA OnceQuiet ==
  ASSUME RunsInv, OnceInv, Quiet
  PROVE  OnceInv'
<1>1. RowsCounted' BY QuietRows DEF OnceInv
<1>2. NothingFresh' BY QuietRuns DEF OnceInv, NothingFresh
<1>3. OwnOnce'
  <2>1. ASSUME NEW s \in Scripts, NEW t \in StepsOf(s), t.op \in {"own", "lot"}
        PROVE  Copies(t.row)' <= 1
    <3>1. t.row # Buyer BY <2>1, NotBuyer DEF Writing
    <3>2. Copies(t.row) <= 1 BY <2>1 DEF OnceInv, OwnOnce
    <3> QED BY <3>1, <3>2, QuietRows DEF OnceInv
  <2> QED BY <2>1 DEF OwnOnce
<1>4. Gated'
  <2>1. ASSUME NEW s \in Scripts, NEW t \in Numbered(s), There(t.row)'
        PROVE  Passed(t)'
    <3>1. CASE There(t.row)
      <4>1. Passed(t) BY <3>1 DEF OnceInv, Gated
      <4> QED BY <4>1, PassedStays, QuietRows DEF OnceInv, Quiet
    <3>2. CASE ~There(t.row)
      <4>1. t.row = Buyer /\ "Jinglin" \in orgs' BY <2>1, <3>2, QuietRows DEF OnceInv
      <4>2. t.row[1] = "Jinglin" /\ t.row[2] = "approved" BY <4>1 DEF Buyer
      <4> QED BY <4>1, <4>2 DEF Passed
    <3> QED BY <3>1, <3>2
  <2> QED BY <2>1 DEF Gated
<1>5. NewInTurn'
  <2>1. ASSUME NEW s \in Scripts, NEW t \in Numbered(s)
        PROVE  Copies(t.row)' <= IF Fresh(s, t.gate)' THEN Before(s, t.row, runs'[s].at) ELSE All(s, t.row)
    <3> DEFINE r == t.row
    <3>1. Copies(r) \in Nat /\ All(s, r) \in Nat /\ Before(s, r, runs[s].at) \in Nat
      BY CopiesAre, AllOf, WritesAre DEF OnceInv
    <3>2. Copies(r) <= IF Fresh(s, t.gate) THEN Before(s, r, runs[s].at) ELSE All(s, r)
      BY DEF OnceInv, NewInTurn
    <3>3. Before(s, r, runs[s].at) <= All(s, r) BY BeforeAll
    <3>4. CASE Copies(r)' = Copies(r)
      <4>1. CASE Fresh(s, t.gate)'
        <5>1. runs'[s] = runs[s] /\ Fresh(s, t.gate) BY <4>1, QuietRuns DEF OnceInv
        <5> QED BY <3>2, <3>4, <4>1, <5>1
      <4>2. CASE ~Fresh(s, t.gate)' BY <3>1, <3>2, <3>3, <3>4, <4>2
      <4> QED BY <4>1, <4>2
    <3>5. CASE Copies(r)' = 1 /\ ~Running(s)'
      <4>1. ~Fresh(s, t.gate)' BY <3>5 DEF Fresh
      <4>2. 1 <= All(s, r) BY AllSome, NumberedAre DEF Writing
      <4> QED BY <3>5, <4>1, <4>2
    <3>6. CASE r = Buyer BY <3>4, <3>5, <3>6, QuietRows DEF OnceInv
    <3>7. CASE r # Buyer BY <3>4, <3>7, QuietRows DEF OnceInv
    <3> QED BY <3>6, <3>7
  <2> QED BY <2>1 DEF NewInTurn
<1>6. GateFirst'
  <2>1. ASSUME NEW s \in Scripts, NEW t \in StepsOf(s), t.op = "new", t.row = t.gate,
               t.row[2] # "farm", Fresh(s, t.gate)', NowRank(s)' > Rank(t)
        PROVE  There(t.row)'
    <3>1. runs'[s] = runs[s] /\ Fresh(s, t.gate) BY <2>1, QuietRuns DEF OnceInv
    <3>2. NowRank(s)' = NowRank(s) BY <3>1 DEF NowRank, Now
    <3>3. There(t.row) BY <2>1, <3>1, <3>2 DEF OnceInv, GateFirst
    <3> QED BY <3>3, QuietRows DEF OnceInv
  <2> QED BY <2>1 DEF GateFirst
<1>7. PartyJoined'
  <2>1. ASSUME NEW s \in Scripts, NEW o \in PartiesOf[s], Running(s)',
               NowRank(s)' > Rank(Step("register", o, "org", "org"))
        PROVE  o \in orgs'
    <3>1. CASE runs'[s] = runs[s] /\ Running(s)
      <4>1. NowRank(s)' = NowRank(s) BY <3>1 DEF NowRank, Now
      <4>2. o \in orgs BY <2>1, <3>1, <4>1 DEF OnceInv, PartyJoined
      <4>3. o \in Real BY KindsApart, ImportsAssumption DEF ImportsAssumption
      <4> QED BY <4>2, <4>3 DEF Quiet
    <3>2. CASE Begun(s)
      <4> DEFINE t == Step("register", o, "org", "org")
      <4>1. NowRank(s)' = Rank(ScriptOf[s][1]) BY <3>2 DEF Begun, NowRank, Now
      <4>2. t \in StepsOf(s) /\ t.op = "register" BY RanksOf, StepIs
      <4> HIDE DEF t
      <4>3. ~(Rank(ScriptOf[s][1]) > Rank(t)) BY <4>2, Begins
      <4> QED BY <2>1, <4>1, <4>3 DEF t
    <3> QED BY <2>1, <3>1, <3>2, QuietRuns DEF OnceInv
  <2> QED BY <2>1 DEF PartyJoined
<1> QED BY <1>1, <1>2, <1>3, <1>4, <1>5, <1>6, <1>7 DEF OnceInv

LEMMA OnceInit == Init => OnceInv
<1> SUFFICES ASSUME Init PROVE OnceInv OBVIOUS
<1>1. \A s \in Scripts : runs[s].at = 0 /\ runs[s].fresh = {} BY DEF Init, ImportsInit
<1>2. DOMAIN rows = {} BY DEF Init, ImportsInit, EmptyBag, SetToBag
<1>3. \A r : ~There(r) /\ Copies(r) = 0 BY <1>2 DEF There, BagIn, BagToSet, Copies
<1>4. \A s \in Scripts : ~Running(s) /\ \A g : ~Fresh(s, g) BY <1>1 DEF Running, Fresh
<1>5. \A s \in Scripts : \A r : All(s, r) \in Nat BY AllOf
<1> QED BY <1>1, <1>2, <1>3, <1>4, <1>5 DEF OnceInv, NothingFresh, RowsCounted, OwnOnce, Gated, NewInTurn,
        GateFirst, PartyJoined

LEMMA OnceStep ==
  ASSUME UpkeepInv, OnceInv, [Next]_vars
  PROVE  OnceInv'
<1>1. RunsInv BY DEF UpkeepInv, ImportsInv
<1>2. CASE \E s \in Scripts : Do(s) BY <1>1, <1>2, OnceDo, KeepsTheReal
<1>3. CASE Quiet BY <1>1, <1>3, OnceQuiet
<1> QED BY <1>2, <1>3, StepIsQuiet DEF OnceInv

-----------------------------------------------------------------------------
(* Orders and stock.                                                       *)

LEMMA KindOfRow ==
  ASSUME NEW s \in Scripts, NEW t \in StepsOf(s), t.op \in Writing \cup Marks,
         NEW op \in {"lot"} \cup Marks, t.row[2] = op
  PROVE  t.op = op /\ t = Step(op, Whose(s, op), op, op) /\ op \in LonelyOf[s] /\ t.row = <<Whose(s, op), op>>
<1>1. CASE t.op = "new"
  <2>1. t.row[2] # "approved" BY DEF Writing, Marks
  <2>2. PICK k \in NewOf[s] : t.row = <<s, k>> BY <1>1, <2>1, NewIs
  <2>3. k = op BY <2>2
  <2> QED BY <2>2, <2>3, KindsApart DEF Marks
<1>2. CASE t.op = "own"
  <2>1. PICK k \in OwnOf[s] : t = Step("own", s, k, k) BY <1>2, Forms
  <2>2. k = op BY <2>1, StepIs
  <2> QED BY <2>1, <2>2, KindsApart DEF Marks
<1>3. CASE t.op = "always"
  <2>1. PICK k \in AlwaysOf[s] : t = Step("always", s, k, k) BY <1>3, Forms
  <2>2. k = op BY <2>1, StepIs
  <2> QED BY <2>1, <2>2, KindsApart DEF Marks
<1>4. CASE t.op \in {"lot"} \cup Marks
  <2>1. t.op \in LonelyOf[s] /\ t = Step(t.op, Whose(s, t.op), t.op, t.op) BY <1>4, Forms DEF Marks
  <2>2. t.row = <<Whose(s, t.op), t.op>> /\ t.row[2] = t.op BY <2>1, StepIs
  <2> QED BY <2>1, <2>2
<1> QED BY <1>1, <1>2, <1>3, <1>4 DEF Writing, Marks

LEMMA DoStock ==
  ASSUME ImportsInv, NEW s \in Scripts, Do(s)
  PROVE  /\ \A z \in Scripts \ {s} : orders'[z] = orders[z] /\ stock'[z] = stock[z]
         /\ \/ /\ orders' = orders /\ stock' = stock /\ ~(Now(s).op = "lot" /\ Writable(s))
               /\ (Now(s).op = "place" => Throw(s) /\ ~Orderable(s))
               /\ Now(s).op \notin {"pay", "deliver"}
            \/ /\ Now(s).op \in {"place", "some"} /\ Orderable(s) /\ Continue(s)
               /\ rows' \in {rows, BagAdd(rows, Now(s).row)}
               /\ orders'[s] = Append(orders[s], "PLACED") /\ stock'[s] = stock[s] - OrderQty[s]
            \/ /\ Now(s).op \in {"pay", "deliver"} /\ rows' = rows /\ stock' = stock
               /\ \E state \in {"PAID", "COMPLETED"} :
                    orders'[s] = [orders[s] EXCEPT ![Len(orders[s])] = state]
            \/ /\ Now(s).op = "lot" /\ Writable(s) /\ orders' = orders /\ stock'[s] = LotQty[s]
<1>1. stock \in [Scripts -> Nat] /\ orders \in [Scripts -> Seq(OrderStates)] BY DEF ImportsInv
<1>2. CASE /\ Orderable(s) /\ Placed(s) /\ Now(s).op \in {"place", "some"}
           /\ rows' \in {rows, BagAdd(rows, Now(s).row)}
  <2>1. Continue(s) BY <1>2 DEF Placed
  <2>2. orders'[s] = Append(orders[s], "PLACED") /\ stock'[s] = stock[s] - OrderQty[s]
        /\ \A z \in Scripts \ {s} : orders'[z] = orders[z] /\ stock'[z] = stock[z]
    BY <1>1, <1>2 DEF Placed
  <2> QED BY <1>2, <2>1, <2>2
<1>3. CASE DoPay(s) \/ DoDeliver(s)
  <2>1. PICK state \in {"PAID", "COMPLETED"} : Move(s, state) BY <1>3 DEF DoPay, DoDeliver
  <2>2. rows' = rows /\ stock' = stock BY <2>1 DEF Move
  <2>3. orders'[s] = [orders[s] EXCEPT ![Len(orders[s])] = state]
        /\ \A z \in Scripts \ {s} : orders'[z] = orders[z]
    BY <1>1, <2>1 DEF Move
  <2> QED BY <1>3, <2>2, <2>3 DEF DoPay, DoDeliver
<1>4. CASE DoLot(s)
  <2>1. Now(s).op = "lot" BY <1>4 DEF DoLot
  <2>2. orders' = orders BY <1>4 DEF DoLot, Throw
  <2>3. CASE Writable(s)
    <3>1. ~There(Now(s).row) /\ There(<<s, "sku">>) BY <2>1, <2>3 DEF Writable
    <3>2. stock' = [stock EXCEPT ![s] = LotQty[s]] BY <1>4, <3>1 DEF DoLot
    <3>3. stock'[s] = LotQty[s] /\ \A z \in Scripts \ {s} : stock'[z] = stock[z] BY <1>1, <3>2
    <3> QED BY <2>1, <2>2, <2>3, <3>3
  <2>4. CASE ~Writable(s)
    <3>1. stock' = stock BY <1>4, <2>1, <2>4 DEF DoLot, Writable, Throw
    <3> QED BY <2>1, <2>2, <2>4, <3>1
  <2> QED BY <2>3, <2>4
<1>5. CASE DoPlace(s) \/ DoSome(s)
  <2>1. Now(s).op \in {"place", "some"} BY <1>5 DEF DoPlace, DoSome
  <2>2. CASE ~(Orderable(s) /\ Placed(s) /\ rows' \in {rows, BagAdd(rows, Now(s).row)})
    <3>1. CASE DoPlace(s)
      <4>1. ~Orderable(s) /\ Throw(s) /\ Now(s).op = "place" BY <2>2, <3>1 DEF DoPlace, Recognised
      <4> QED BY <4>1 DEF Throw
    <3>2. CASE DoSome(s)
      <4>1. stock' = stock /\ orders' = orders /\ Now(s).op = "some" BY <2>2, <3>2 DEF DoSome
      <4> QED BY <4>1
    <3> QED BY <1>5, <3>1, <3>2
  <2> QED BY <1>2, <2>1, <2>2
<1>6. CASE DoRegister(s) \/ DoGate(s) \/ DoRow(s) \/ DoDate(s) \/ DoEnrich(s)
  <2>1. stock' = stock /\ orders' = orders /\ Now(s).op \notin {"place", "lot", "pay", "deliver"}
    BY <1>6 DEF DoRegister, DoGate, DoRow, DoDate, DoEnrich
  <2> QED BY <2>1
<1> QED BY <1>3, <1>4, <1>5, <1>6 DEF Do

(* How many orders live.                                                   *)
LiveSpots(q) == {i \in DOMAIN q : q[i] \in Live}
LEMMA LiveIs ==
  ASSUME NEW q \in Seq(OrderStates)
  PROVE  /\ IsFiniteSet(LiveSpots(q)) /\ Cardinality(LiveSpots(q)) \in Nat
         /\ Len(q) \in Nat /\ DOMAIN q = 1..Len(q)
<1>1. Len(q) \in Nat /\ DOMAIN q = 1..Len(q) OBVIOUS
<1> DEFINE n == Len(q)
<1>2. n \in Int /\ 1 \in Int BY <1>1
<1> HIDE DEF n
<1>3. IsFiniteSet(1..n) BY <1>2, FS_Interval, Zenon
<1>4. LiveSpots(q) \in SUBSET (1..n) BY <1>1 DEF LiveSpots, n
<1>5. IsFiniteSet(LiveSpots(q)) BY <1>3, <1>4, FS_Subset, Zenon
<1>6. Cardinality(LiveSpots(q)) \in Nat BY <1>5, FS_CardinalityType, Zenon
<1> QED BY <1>1, <1>5, <1>6

LEMMA LiveAppended ==
  ASSUME NEW q \in Seq(OrderStates), NEW p, p = Append(q, "PLACED")
  PROVE  /\ Cardinality(LiveSpots(p)) = Cardinality(LiveSpots(q)) + 1
         /\ p # << >> /\ p[Len(p)] \in Live /\ p \in Seq(OrderStates)
<1>1. "PLACED" \in OrderStates /\ "PLACED" \in Live BY DEF OrderStates, Live
<1>2. /\ Len(q) \in Nat /\ Len(p) = Len(q) + 1 /\ p \in Seq(OrderStates) /\ p[Len(p)] = "PLACED"
      /\ DOMAIN q = 1..Len(q) /\ DOMAIN p = 1..Len(p)
      /\ \A i \in 1..Len(q) : p[i] = q[i]
  BY <1>1
<1>3. \A i : i \in 1..Len(p) <=> i \in 1..Len(q) \/ i = Len(q) + 1 BY <1>2
<1>4. LiveSpots(p) = LiveSpots(q) \cup {Len(q) + 1} BY <1>1, <1>2, <1>3 DEF LiveSpots
<1>5. Len(q) + 1 \notin LiveSpots(q)
  <2>1. Len(q) + 1 \notin 1..Len(q) BY <1>2
  <2> QED BY <1>2, <2>1 DEF LiveSpots
<1> DEFINE S == LiveSpots(q)
           x == Len(q) + 1
<1>6. IsFiniteSet(S) BY LiveIs
<1>7. x \notin S /\ LiveSpots(p) = S \cup {x} BY <1>4, <1>5
<1> HIDE DEF S, x
<1>8. Cardinality(S \cup {x}) = IF x \in S THEN Cardinality(S) ELSE Cardinality(S) + 1
  BY <1>6, FS_AddElement, Zenon
<1>9. Cardinality(LiveSpots(p)) = Cardinality(S) + 1 BY <1>7, <1>8
<1>10. p # << >> BY <1>2
<1> QED BY <1>1, <1>2, <1>9, <1>10 DEF S

LEMMA LiveMoved ==
  ASSUME NEW q \in Seq(OrderStates), q # << >>, q[Len(q)] \in Live, NEW state \in {"PAID", "COMPLETED"},
         NEW p, p = [q EXCEPT ![Len(q)] = state]
  PROVE  LiveSpots(p) = LiveSpots(q) /\ p # << >> /\ p[Len(p)] \in Live
<1>1. state \in Live /\ state \in OrderStates BY DEF Live, OrderStates
<1>2. q \in [1..Len(q) -> OrderStates] /\ Len(q) \in 1..Len(q) /\ Len(q) \in Nat OBVIOUS
<1>3. p \in [1..Len(q) -> OrderStates] /\ p[Len(q)] = state /\ \A i \in 1..Len(q) : i # Len(q) => p[i] = q[i]
  BY <1>1, <1>2
<1>4. Len(p) = Len(q) /\ p # << >>
  <2> DEFINE n == Len(q)
  <2>0. Len(q) # 0 /\ Len(q) \in Nat BY <1>2
  <2>1. n \in Nat /\ n # 0 /\ p \in [1..n -> OrderStates] BY <1>3, <2>0, Zenon
  <2> HIDE DEF n
  <2>2. p \in Seq(OrderStates) BY <2>1
  <2>3. Len(p) = n
    <3>1. Len(p) \in Nat /\ DOMAIN p = 1..Len(p) BY <2>2
    <3> QED BY <2>1, <3>1
  <2>4. p # << >> BY <2>1, <2>3
  <2> QED BY <2>3, <2>4 DEF n
<1>5. LiveSpots(p) = LiveSpots(q) BY <1>1, <1>2, <1>3 DEF LiveSpots
<1> QED BY <1>1, <1>3, <1>4, <1>5

LEMMA LiveSwept ==
  ASSUME NEW q \in Seq(OrderStates), NEW i \in DOMAIN q, q[i] = "PLACED",
         NEW p, p = [q EXCEPT ![i] = "CANCELLED"]
  PROVE  Cardinality(LiveSpots(p)) = Cardinality(LiveSpots(q)) - 1
<1>1. "PLACED" \in Live /\ "CANCELLED" \notin Live BY DEF Live
<1>2. DOMAIN p = DOMAIN q /\ p[i] = "CANCELLED" /\ \A j \in DOMAIN q : j # i => p[j] = q[j] OBVIOUS
<1> DEFINE S == LiveSpots(q)
<1>3. i \in S /\ LiveSpots(p) = S \ {i} BY <1>1, <1>2 DEF LiveSpots
<1>4. IsFiniteSet(S) BY LiveIs
<1> HIDE DEF S
<1>5. Cardinality(S \ {i}) = IF i \in S THEN Cardinality(S) - 1 ELSE Cardinality(S)
  BY <1>4, FS_RemoveElement, Zenon
<1>6. Cardinality(LiveSpots(p)) = Cardinality(S) - 1 BY <1>3, <1>5
<1> QED BY <1>6 DEF S

-----------------------------------------------------------------------------
LEMMA LotIsOwn ==
  ASSUME RowsCounted, NEW s \in Scripts, Do(s), Now(s) \in StepsOf(s), NEW z \in Scripts
  PROVE  /\ There(<<z, "lot">>) => There(<<z, "lot">>)'
         /\ There(<<z, "lot">>)' => There(<<z, "lot">>) \/ (z = s /\ Now(s).op = "lot" /\ Writable(s))
         /\ Now(s).op = "lot" => Now(s).row = <<s, "lot">>
         /\ Now(s).op = "lot" /\ Writable(s) => There(<<s, "lot">>)'
<1> DEFINE r == <<z, "lot">>
<1>1. Now(s).op = "lot" => Now(s).row = <<s, "lot">>
  <2>1. Now(s).op = "lot" => Now(s) = Step("lot", Whose(s, "lot"), "lot", "lot") BY Forms
  <2>2. Whose(s, "lot") = s BY KindsApart
  <2> QED BY <2>1, <2>2, StepIs
<1>2. ASSUME r = Now(s).row, Writable(s)
      PROVE  z = s /\ Now(s).op = "lot"
  <2>1. Now(s).op \in Writing \cup Marks BY <1>2 DEF Writable, Writing, Marks
  <2>2. Now(s).row[2] = "lot" BY <1>2
  <2>3. Now(s).op = "lot" BY <2>1, <2>2, KindOfRow
  <2> QED BY <1>1, <1>2, <2>3
<1>3. Now(s).op = "lot" /\ Writable(s) => There(<<s, "lot">>)'
  <2>1. SUFFICES ASSUME Now(s).op = "lot", Writable(s) PROVE There(<<s, "lot">>)' OBVIOUS
  <2>2. PICK q : q = <<s, "lot">> OBVIOUS
  <2>3. rows' = BagAdd(rows, q) BY <1>1, <2>1, <2>2, DoRows
  <2>4. There(q)' BY <2>3, AddsRow
  <2> QED BY <2>2, <2>4
<1> HIDE DEF r
<1>4. There(r) => There(r)' BY RowsAfter
<1>5. There(r)' => There(r) \/ (r = Now(s).row /\ Writable(s)) BY RowsAfter
<1> QED BY <1>1, <1>2, <1>3, <1>4, <1>5 DEF r

LEMMA Placing ==
  ASSUME NEW s \in Scripts
  PROVE  /\ "pay" \in LonelyOf[s] \/ "deliver" \in LonelyOf[s] => "place" \in LonelyOf[s]
         /\ RankOf["place"] = 29 /\ RankOf["pay"] = 32 /\ RankOf["deliver"] = 38 /\ RankOf["some"] = 30
         /\ ~("place" \in LonelyOf[s] /\ "some" \in LonelyOf[s])
         /\ "place" \in LonelyOf[s] => s \in {"hzb", "tuopai", "liangmei"}
         /\ "expire" \in LonelyOf[s] => s = "hzb"
BY DEF LonelyOf, Scripts, ScriptOf, RankOf

LEMMA LonelyNow ==
  ASSUME NEW s \in Scripts, Now(s) \in StepsOf(s), NEW op \in {"lot", "place", "some", "pay", "deliver", "expire"},
         Now(s).op = op
  PROVE  /\ op \in LonelyOf[s] /\ Now(s) = Step(op, s, op, op) /\ Now(s).row = <<s, op>>
         /\ NowRank(s) = RankOf[op]
<1>1. op \in LonelyOf[s] /\ Now(s) = Step(op, Whose(s, op), op, op) BY Forms
<1>2. Whose(s, op) = s BY KindsApart
<1>3. Rank(Step(op, Whose(s, op), op, op)) = RankOf[op] BY <1>1, RanksOf
<1>4. Step(op, s, op, op).row = <<s, op>> BY StepIs
<1> QED BY <1>1, <1>2, <1>3, <1>4 DEF NowRank

(* What is paid or delivered is there.                                     *)
LEMMA WhatIsPaid ==
  ASSUME LastIsLive, NEW s \in Scripts, Running(s), Now(s) \in StepsOf(s), Now(s).op \in {"pay", "deliver"}
  PROVE  orders[s] # << >> /\ orders[s][Len(orders[s])] \in Live
<1>1. PICK op \in {"pay", "deliver"} : Now(s).op = op OBVIOUS
<1>2. op \in LonelyOf[s] /\ NowRank(s) = RankOf[op] BY <1>1, LonelyNow
<1>3. NowRank(s) > 29 /\ "place" \in LonelyOf[s] BY <1>1, <1>2, Placing
<1> QED BY <1>3 DEF LastIsLive

LEMMA StockDo ==
  ASSUME ImportsInv, OnceInv, Stocked, LastIsLive, NEW s \in Scripts, Do(s)
  PROVE  Stocked' /\ LastIsLive'
<1>1. stock \in [Scripts -> Nat] /\ orders \in [Scripts -> Seq(OrderStates)] /\ RunsInv BY DEF ImportsInv
<1>2. Now(s) \in StepsOf(s) /\ Running(s) BY <1>1, DoRuns
<1>3. RowsCounted BY DEF OnceInv
<1>4. OrderQty[s] \in Nat /\ LotQty[s] \in Nat BY ImportsAssumption DEF ImportsAssumption
<1>5. Now(s).op \in {"pay", "deliver"} => orders[s] # << >> /\ orders[s][Len(orders[s])] \in Live
  BY <1>2, WhatIsPaid
<1>6. Stocked'
  <2>1. ASSUME NEW z \in Scripts
        PROVE  IF There(<<z, "lot">>)'
               THEN stock'[z] + OrderQty[z] * Cardinality(LiveSpots(orders'[z])) = LotQty[z]
               ELSE stock'[z] = 0 /\ orders'[z] = << >>
    <3> DEFINE n == Cardinality(LiveSpots(orders[z]))
               m == Cardinality(LiveSpots(orders'[z]))
    <3>1. IF There(<<z, "lot">>) THEN stock[z] + OrderQty[z] * n = LotQty[z]
          ELSE stock[z] = 0 /\ orders[z] = << >>
      BY DEF Stocked, LiveOrders, LiveSpots
    <3>2. n \in Nat /\ stock[z] \in Nat BY <1>1, LiveIs
    <3>3. CASE orders'[z] = orders[z] /\ stock'[z] = stock[z]
               /\ ~(z = s /\ Now(s).op = "lot" /\ Writable(s))
      BY <1>2, <1>3, <3>1, <3>3, LotIsOwn
    <3>4. CASE z = s /\ Now(s).op \in {"place", "some"} /\ Orderable(s)
               /\ orders'[s] = Append(orders[s], "PLACED") /\ stock'[s] = stock[s] - OrderQty[s]
      <4>1. There(<<z, "lot">>) /\ There(<<z, "lot">>)' BY <1>2, <1>3, <3>4, LotIsOwn DEF Orderable
      <4>2. PICK p : p = orders'[s] OBVIOUS
      <4>3. m = n + 1 BY <1>1, <3>4, <4>2, LiveAppended
      <4> HIDE DEF n, m
      <4>7. OrderQty[z] \in Nat BY <1>4, <3>4
      <4>4. OrderQty[z] * m = OrderQty[z] * n + OrderQty[z] BY <3>2, <4>3, <4>7
      <4>5. OrderQty[z] * n \in Nat BY <3>2, <4>7
      <4>6. stock'[z] + OrderQty[z] * m = LotQty[z] BY <1>4, <3>1, <3>2, <3>4, <4>1, <4>4, <4>5
      <4> QED BY <4>1, <4>6 DEF m
    <3>5. CASE z = s /\ Now(s).op \in {"pay", "deliver"} /\ rows' = rows /\ stock' = stock
               /\ \E state \in {"PAID", "COMPLETED"} :
                    orders'[s] = [orders[s] EXCEPT ![Len(orders[s])] = state]
      <4>1. There(<<z, "lot">>)' <=> There(<<z, "lot">>) BY <3>5, SameRows
      <4>2. PICK state \in {"PAID", "COMPLETED"} : orders'[s] = [orders[s] EXCEPT ![Len(orders[s])] = state]
        BY <3>5
      <4>3. PICK p : p = orders'[s] OBVIOUS
      <4>4. LiveSpots(p) = LiveSpots(orders[s]) BY <1>1, <1>5, <3>5, <4>2, <4>3, LiveMoved
      <4>5. There(<<z, "lot">>) BY <1>5, <3>1, <3>5
      <4> QED BY <3>1, <3>5, <4>1, <4>3, <4>4, <4>5
    <3>6. CASE z = s /\ Now(s).op = "lot" /\ Writable(s) /\ orders' = orders /\ stock'[s] = LotQty[s]
      <4>1. There(<<z, "lot">>)' BY <1>2, <1>3, <3>6, LotIsOwn
      <4>2. ~There(<<z, "lot">>) BY <1>2, <1>3, <3>6, LotIsOwn DEF Writable
      <4>3. orders'[z] = << >> BY <3>1, <3>6, <4>2
      <4>4. LiveSpots(<< >>) = {} BY DEF LiveSpots
      <4>5. m = 0 BY <4>3, <4>4, FS_EmptySet
      <4> HIDE DEF m
      <4>6. stock'[z] + OrderQty[z] * m = LotQty[z] BY <1>4, <3>6, <4>5
      <4> QED BY <4>1, <4>6 DEF m
    <3>7. z # s => orders'[z] = orders[z] /\ stock'[z] = stock[z] BY DoStock
    <3>8. CASE z = s
      <4>1. \/ orders' = orders /\ stock' = stock /\ ~(Now(s).op = "lot" /\ Writable(s))
            \/ /\ Now(s).op \in {"place", "some"} /\ Orderable(s)
               /\ orders'[s] = Append(orders[s], "PLACED") /\ stock'[s] = stock[s] - OrderQty[s]
            \/ /\ Now(s).op \in {"pay", "deliver"} /\ rows' = rows /\ stock' = stock
               /\ \E state \in {"PAID", "COMPLETED"} :
                    orders'[s] = [orders[s] EXCEPT ![Len(orders[s])] = state]
            \/ Now(s).op = "lot" /\ Writable(s) /\ orders' = orders /\ stock'[s] = LotQty[s]
        BY DoStock
      <4> HIDE DEF n, m
      <4> QED BY <3>3, <3>4, <3>5, <3>6, <3>8, <4>1
    <3> QED BY <3>3, <3>7, <3>8
  <2> QED BY <2>1 DEF Stocked, LiveOrders, LiveSpots
<1>7. LastIsLive'
  <2>1. ASSUME NEW z \in Scripts, Running(z)', "place" \in LonelyOf[z], NowRank(z)' > 29
        PROVE  orders'[z] # << >> /\ orders'[z][Len(orders'[z])] \in Live
    <3>1. z = s BY <1>1, <2>1, DoRuns
    <3> DEFINE t == Step("place", s, "place", "place")
    <3>2. t \in StepsOf(s) /\ Rank(t) = 29 /\ t.op = "place"
      <4>1. Whose(s, "place") = s BY KindsApart
      <4> QED BY <2>1, <3>1, <4>1, RanksOf, StepIs, Placing
    <3> HIDE DEF t
    <3>3. Running(s)' /\ NowRank(s)' > Rank(t) BY <2>1, <3>1, <3>2
    <3>4. NowRank(s) > Rank(t) \/ Now(s) = t BY <1>1, <3>2, <3>3, PassesBy
    <3>5. Moved(s) BY <1>1, <3>3, DoRuns DEF Ended, Threw, Running
    <3>6. runs'[s].at # 0 BY <3>3 DEF Running
    <3>7. ~Throw(s) BY <1>1, <3>6, ThrowIs
    <3>8. PICK p : p = orders'[s] OBVIOUS
    <3>9. CASE p = Append(orders[s], "PLACED")
      <4>1. p # << >> /\ p[Len(p)] \in Live BY <1>1, <3>9, LiveAppended
      <4> QED BY <3>1, <3>8, <4>1
    <3>10. CASE Now(s).op \in {"pay", "deliver"}
      <4>1. PICK state \in {"PAID", "COMPLETED"} : p = [orders[s] EXCEPT ![Len(orders[s])] = state]
        BY <3>8, <3>10, DoStock
      <4>2. p # << >> /\ p[Len(p)] \in Live BY <1>1, <1>5, <3>10, <4>1, LiveMoved
      <4> QED BY <3>1, <3>8, <4>2
    <3>11. CASE orders' = orders /\ Now(s).op # "place"
      <4>1. NowRank(s) > 29 BY <3>2, <3>4, <3>11
      <4>2. orders[s] # << >> /\ orders[s][Len(orders[s])] \in Live BY <1>2, <2>1, <3>1, <4>1 DEF LastIsLive
      <4> QED BY <3>1, <3>11, <4>2
    <3> QED BY <3>7, <3>8, <3>9, <3>10, <3>11, DoStock
  <2> QED BY <2>1 DEF LastIsLive
<1> QED BY <1>6, <1>7

LEMMA StockQuiet ==
  ASSUME ImportsInv, OnceInv, Stocked, LastIsLive, Quiet
  PROVE  Stocked' /\ LastIsLive'
<1>1. stock \in [Scripts -> Nat] /\ orders \in [Scripts -> Seq(OrderStates)] /\ RunsInv BY DEF ImportsInv
<1>2. \A z \in Scripts : There(<<z, "lot">>)' <=> There(<<z, "lot">>)
  <2>1. \A z : <<z, "lot">> # Buyer BY DEF Buyer
  <2> QED BY <2>1, QuietRows DEF OnceInv
<1>3. Stocked'
  <2>1. CASE UNCHANGED <<stock, orders>> BY <1>2, <2>1 DEF Stocked, LiveOrders
  <2>2. CASE \E s \in Scripts : Sweep(s)
    <3>1. PICK s \in Scripts : Sweep(s) BY <2>2
    <3>2. PICK i \in DOMAIN orders[s] :
            /\ orders[s][i] = "PLACED"
            /\ orders' = [orders EXCEPT ![s][i] = "CANCELLED"]
            /\ stock' = [stock EXCEPT ![s] = @ + OrderQty[s]]
      BY <3>1 DEF Sweep
    <3>3. /\ orders'[s] = [orders[s] EXCEPT ![i] = "CANCELLED"] /\ stock'[s] = stock[s] + OrderQty[s]
          /\ \A z \in Scripts \ {s} : orders'[z] = orders[z] /\ stock'[z] = stock[z]
      BY <1>1, <3>2
    <3> DEFINE n == Cardinality(LiveSpots(orders[s]))
               m == Cardinality(LiveSpots(orders'[s]))
    <3>4. There(<<s, "lot">>) /\ stock[s] + OrderQty[s] * n = LotQty[s]
      <4>1. orders[s] # << >> BY <3>2
      <4> QED BY <4>1 DEF Stocked, LiveOrders, LiveSpots
    <3>5. OrderQty[s] \in Nat /\ LotQty[s] \in Nat /\ n \in Nat /\ stock[s] \in Nat
      BY <1>1, ImportsAssumption, LiveIs DEF ImportsAssumption
    <3>6. m = n - 1
      <4>1. PICK p : p = orders'[s] OBVIOUS
      <4>2. PICK q : q = orders[s] OBVIOUS
      <4> QED BY <1>1, <3>2, <3>3, <4>1, <4>2, LiveSwept
    <3> HIDE DEF n, m
    <3>7. OrderQty[s] * m = OrderQty[s] * n - OrderQty[s] BY <3>5, <3>6
    <3>8. OrderQty[s] * n \in Nat BY <3>5
    <3>9. stock'[s] + OrderQty[s] * m = LotQty[s] BY <3>3, <3>4, <3>5, <3>7, <3>8
    <3>10. ASSUME NEW z \in Scripts
           PROVE  IF There(<<z, "lot">>)'
                  THEN stock'[z] + OrderQty[z] * Cardinality(LiveSpots(orders'[z])) = LotQty[z]
                  ELSE stock'[z] = 0 /\ orders'[z] = << >>
      <4>1. CASE z = s BY <1>2, <3>4, <3>9, <4>1 DEF m
      <4>2. CASE z # s
        <5>1. orders'[z] = orders[z] /\ stock'[z] = stock[z] BY <3>3, <4>2
        <5>2. IF There(<<z, "lot">>) THEN stock[z] + OrderQty[z] * Cardinality(LiveSpots(orders[z])) = LotQty[z]
              ELSE stock[z] = 0 /\ orders[z] = << >>
          BY DEF Stocked, LiveOrders, LiveSpots
        <5> QED BY <1>2, <5>1, <5>2
      <4> QED BY <4>1, <4>2
    <3> QED BY <3>10 DEF Stocked, LiveOrders, LiveSpots
  <2> QED BY <2>1, <2>2 DEF Quiet
<1>4. LastIsLive'
  <2>1. ASSUME NEW z \in Scripts, Running(z)', "place" \in LonelyOf[z], NowRank(z)' > 29
        PROVE  orders'[z] # << >> /\ orders'[z][Len(orders'[z])] \in Live
    <3>1. CASE runs'[z] = runs[z] /\ Running(z)
      <4>1. orders' = orders BY <3>1 DEF Quiet, Sweep
      <4>2. NowRank(z)' = NowRank(z) BY <3>1 DEF NowRank, Now
      <4> QED BY <2>1, <3>1, <4>1, <4>2 DEF LastIsLive
    <3>2. CASE Begun(z)
      <4> DEFINE t == Step("place", z, "place", "place")
      <4>1. NowRank(z)' = Rank(ScriptOf[z][1]) BY <3>2 DEF Begun, NowRank, Now
      <4>2. t \in StepsOf(z) /\ Rank(t) = 29 /\ t.op = "place"
        <5>1. Whose(z, "place") = z BY KindsApart
        <5> QED BY <2>1, <5>1, RanksOf, StepIs, Placing
      <4> HIDE DEF t
      <4>3. ~(Rank(ScriptOf[z][1]) > Rank(t)) BY <4>2, Begins
      <4> QED BY <2>1, <4>1, <4>2, <4>3
    <3> QED BY <1>1, <2>1, <3>1, <3>2, QuietRuns DEF OnceInv
  <2> QED BY <2>1 DEF LastIsLive
<1> QED BY <1>3, <1>4
-----------------------------------------------------------------------------
(* A first run succeeds.                                                   *)

(* At the end of a script, nothing is left to pass.                        *)
LEMMA PassesAll ==
  ASSUME RunsInv, NEW s \in Scripts, Do(s), NEW t \in StepsOf(s), ~(t.op = "new" /\ t.row[2] = "farm"), Ended(s)
  PROVE  NowRank(s) > Rank(t) \/ Now(s) = t
<1>1. PICK i \in Spots(s) : i = runs[s].at BY DoRuns
<1>2. i = Len(ScriptOf[s]) /\ i \in Nat BY <1>1, SpotsAre DEF Ended
<1>3. i + 1 \notin Spots(s)
  <2>1. SUFFICES ASSUME i + 1 \in Spots(s) PROVE FALSE OBVIOUS
  <2>2. i + 1 <= Len(ScriptOf[s]) BY <2>1, SpotsAre
  <2> QED BY <1>2, <2>2
<1>4. NowRank(s) = Rank(ScriptOf[s][i]) /\ Now(s) = ScriptOf[s][i] BY <1>1 DEF NowRank, Now
<1> QED BY <1>3, <1>4, ComesBy

LEMMA NextRank ==
  ASSUME RunsInv, NEW s \in Scripts, Do(s), Moved(s)
  PROVE  /\ NowRank(s) \in 1..39 /\ NowRank(s)' \in 1..39 /\ NowRank(s) <= NowRank(s)'
         /\ Now(s).op # "new" => NowRank(s) < NowRank(s)'
<1>1. PICK i \in Spots(s) : i = runs[s].at BY DoRuns
<1>2. i + 1 \in Spots(s) /\ runs'[s].at = i + 1 /\ i \in Nat BY <1>1, SpotsAre DEF Moved
<1>3. PICK j \in Spots(s) : j = i + 1 BY <1>2
<1>4. i < j BY <1>2, <1>3
<1>5. NowRank(s) = Rank(ScriptOf[s][i]) /\ Now(s) = ScriptOf[s][i] /\ NowRank(s)' = Rank(ScriptOf[s][j])
  BY <1>1, <1>2, <1>3 DEF NowRank, Now
<1>6. Rank(ScriptOf[s][i]) \in 1..39 /\ Rank(ScriptOf[s][j]) \in 1..39 BY InOrder
<1>7. Rank(ScriptOf[s][i]) < Rank(ScriptOf[s][j]) \/ Again(ScriptOf[s][i], ScriptOf[s][j]) BY <1>4, InOrder
<1> QED BY <1>5, <1>6, <1>7 DEF Again

LEMMA ExpireIsLast ==
  ASSUME RunsInv, NEW s \in Scripts, Do(s), Now(s).op = "expire"
  PROVE  Ended(s)
<1>1. Now(s) \in StepsOf(s) BY DoRuns
<1>2. NowRank(s) = 39 BY <1>1, LonelyNow DEF RankOf
<1>3. ~Moved(s) BY <1>2, NextRank
<1> QED BY <1>3, DoRuns DEF Threw

LEMMA Goods ==
  ASSUME NEW s \in Traders
  PROVE  /\ s \in Scripts /\ s # "demo" /\ "sku" \in OwnOf[s] /\ {"lot", "place"} \subseteq LonelyOf[s]
         /\ "Jinglin" \in PartiesOf[s] /\ "some" \notin LonelyOf[s]
         /\ RankOf["sku"] = 26 /\ RankOf["lot"] = 28 /\ RankOf["place"] = 29
         /\ s \in {"hzb", "tuopai", "liangmei"}
BY DEF Traders, Scripts, ScriptOf, OwnOf, LonelyOf, PartiesOf, RankOf

LEMMA Trade ==
  ASSUME NEW s \in Scripts
  PROVE  "place" \in LonelyOf[s] \/ ("lot" \in LonelyOf[s] /\ s # "demo") => s \in Traders
BY DEF Traders, Scripts, ScriptOf, LonelyOf

LEMMA StepStepped ==
  ASSUME RunsInv, OnceInv, Stepped, NEW s \in Scripts, Do(s)
  PROVE  Stepped'
<1>1. ASSUME NEW z \in Traders, Running(z)'
      PROVE  (NowRank(z)' > 26 => There(<<z, "sku">>)') /\ (NowRank(z)' > 28 => There(<<z, "lot">>)')
  <2>1. z = s /\ z \in Scripts BY <1>1, DoRuns, Goods
  <2>2. Running(s) /\ Now(s) \in StepsOf(s) /\ s \in Traders BY <1>1, <2>1, DoRuns
  <2>3. RowsCounted BY DEF OnceInv
  <2> DEFINE t == Step("own", s, "sku", "sku")
             u == Step("lot", s, "lot", "lot")
  <2>4. /\ t \in StepsOf(s) /\ t.op = "own" /\ Rank(t) = 26 /\ t.row = <<s, "sku">>
        /\ u \in StepsOf(s) /\ u.op = "lot" /\ Rank(u) = 28 /\ u.row = <<s, "lot">>
    <3>1. Whose(s, "lot") = s BY KindsApart
    <3> QED BY <2>2, <3>1, Goods, RanksOf, StepIs
  <2> HIDE DEF t, u
  <2>5. ASSUME NowRank(s)' > 26 PROVE There(<<s, "sku">>)'
    <3>1. NowRank(s) > 26 \/ Now(s) = t BY <1>1, <2>1, <2>4, <2>5, PassesBy
    <3>2. CASE NowRank(s) > 26
      <4>1. There(<<s, "sku">>) BY <2>2, <3>2 DEF Stepped
      <4> QED BY <2>3, <4>1, RowsAfter
    <3>3. CASE Now(s) = t
      <4>1. PICK q : q = <<s, "sku">> OBVIOUS
      <4>2. CASE There(q) BY <2>3, <4>1, <4>2, RowsAfter
      <4>3. CASE ~There(q)
        <5>1. Writable(s) /\ Now(s).row = q /\ Now(s).op = "own"
          BY <2>4, <3>3, <4>1, <4>3 DEF Writable, Write
        <5>2. rows' = BagAdd(rows, q) BY <5>1, DoRows
        <5>3. There(q)' BY <2>3, <5>2, AddsRow
        <5> QED BY <4>1, <5>3
      <4> QED BY <4>2, <4>3
    <3> QED BY <3>1, <3>2, <3>3
  <2>6. ASSUME NowRank(s)' > 28 PROVE There(<<s, "lot">>)'
    <3>1. NowRank(s) > 28 \/ Now(s) = u BY <1>1, <2>1, <2>4, <2>6, PassesBy
    <3>2. There(<<s, "lot">>) => There(<<s, "lot">>)' BY <2>2, <2>3, LotIsOwn
    <3>3. CASE NowRank(s) > 28
      <4>1. There(<<s, "lot">>) BY <2>2, <3>3 DEF Stepped
      <4> QED BY <3>2, <4>1
    <3>4. CASE Now(s) = u
      <4>1. NowRank(s) > 26 BY <2>4, <3>4 DEF NowRank
      <4>2. There(<<s, "sku">>) BY <2>2, <4>1 DEF Stepped
      <4>3. CASE ~There(<<s, "lot">>)
        <5>1. Writable(s) /\ Now(s).op = "lot" BY <2>4, <3>4, <4>2, <4>3 DEF Writable
        <5> QED BY <2>2, <2>3, <5>1, LotIsOwn
      <4> QED BY <3>2, <4>3
    <3> QED BY <3>1, <3>3, <3>4
  <2> QED BY <2>1, <2>5, <2>6
<1> QED BY <1>1 DEF Stepped

LEMMA StepExpired ==
  ASSUME RunsInv, OnceInv, Expired, NEW s \in Scripts, Do(s)
  PROVE  Expired'
<1>1. ASSUME NEW z \in Traders, There(<<z, "expire">>)'
      PROVE  z = "hzb" /\ runs'[z].done > 0
  <2>1. z \in Scripts BY Goods
  <2>2. runs[z].done \in Nat /\ runs[s].done \in Nat BY <2>1, RunFields DEF RunsInv
  <2>3. CASE There(<<z, "expire">>)
    <3>1. z = "hzb" /\ runs[z].done > 0 BY <2>3 DEF Expired
    <3>2. CASE z # s
      <4>1. runs'[z] = runs[z] BY <2>1, <3>2, DoRuns
      <4> QED BY <3>1, <4>1
    <3>3. CASE z = s
      <4>1. runs'[s].done = runs[s].done \/ runs'[s].done = runs[s].done + 1
        BY DoRuns DEF Moved, Ended, Threw
      <4> QED BY <2>2, <3>1, <3>3, <4>1
    <3> QED BY <3>2, <3>3
  <2>4. CASE ~There(<<z, "expire">>)
    <3>1. <<z, "expire">> = Now(s).row /\ Writable(s) BY <1>1, <2>4, RowsAfter DEF OnceInv
    <3>2. Now(s).op \in Writing \cup Marks /\ Now(s).row[2] = "expire"
      BY <3>1 DEF Writable, Writing, Marks
    <3>3. Now(s) \in StepsOf(s) BY DoRuns
    <3>4. Now(s).op = "expire" /\ Now(s).row = <<Whose(s, "expire"), "expire">>
      BY <3>2, <3>3, KindOfRow DEF Marks
    <3>5. z = s /\ s = "hzb"
      <4>1. Whose(s, "expire") = s BY KindsApart
      <4>2. "expire" \in LonelyOf[s] BY <3>3, <3>4, Forms
      <4>3. s = "hzb" BY <4>2, Placing
      <4> QED BY <3>1, <3>4, <4>1, <4>3
    <3>6. runs'[s].done = runs[s].done + 1 BY <3>4, ExpireIsLast DEF Ended
    <3> QED BY <2>2, <3>5, <3>6
  <2> QED BY <2>3, <2>4
<1> QED BY <1>1 DEF Expired

-----------------------------------------------------------------------------
LEMMA CrashesStay ==
  ASSUME RunsInv, NEW s \in Scripts, Do(s)
  PROVE  SomeCrash => SomeCrash'
<1>1. \A z \in Scripts : runs'[z].crashes = runs[z].crashes BY DoRuns
<1> QED BY <1>1 DEF SomeCrash

LEMMA LenKept ==
  ASSUME NEW q \in Seq(OrderStates), NEW k, NEW state \in OrderStates, NEW p, p = [q EXCEPT ![k] = state]
  PROVE  Len(p) = Len(q)
<1> DEFINE n == Len(q)
<1>1. n \in Nat /\ p \in [1..n -> OrderStates]
  <2>1. n \in Nat /\ q \in [1..n -> OrderStates] OBVIOUS
  <2> HIDE DEF n
  <2> QED BY <2>1
<1> HIDE DEF n
<1>2. p \in Seq(OrderStates) BY <1>1
<1>3. PICK m \in Nat : m = Len(p) /\ DOMAIN p = 1..m BY <1>2
<1>4. 1..m = 1..n BY <1>1, <1>3
<1>5. m = n BY <1>1, <1>4
<1>6. Len(p) = n BY <1>3, <1>5
<1> QED BY <1>6 DEF n

(* A step adds an order at most, and then it places one.                   *)
LEMMA DoLen ==
  ASSUME ImportsInv, NEW s \in Scripts, Do(s)
  PROVE  /\ Len(orders[s]) \in Nat
         /\ \/ Len(orders'[s]) = Len(orders[s])
            \/ Now(s).op \in {"place", "some"} /\ Len(orders'[s]) = Len(orders[s]) + 1
<1>1. PICK q \in Seq(OrderStates) : q = orders[s] BY DEF ImportsInv
<1>2. Len(q) \in Nat BY <1>1
<1>3. CASE orders' = orders BY <1>1, <1>2, <1>3
<1>4. CASE Now(s).op \in {"place", "some"} /\ orders'[s] = Append(orders[s], "PLACED")
  <2>1. PICK p : p = Append(q, "PLACED") OBVIOUS
  <2>2. Len(p) = Len(q) + 1 BY <2>1
  <2> QED BY <1>1, <1>2, <1>4, <2>1, <2>2
<1>5. CASE \E state \in {"PAID", "COMPLETED"} : orders'[s] = [orders[s] EXCEPT ![Len(orders[s])] = state]
  <2>1. PICK state \in {"PAID", "COMPLETED"} : orders'[s] = [orders[s] EXCEPT ![Len(orders[s])] = state]
    BY <1>5
  <2>2. PICK p : p = [q EXCEPT ![Len(q)] = state] OBVIOUS
  <2>3. state \in OrderStates BY DEF OrderStates, Live
  <2>4. Len(p) = Len(q) BY <2>2, <2>3, LenKept
  <2> QED BY <1>1, <1>2, <2>1, <2>2, <2>4
<1> QED BY <1>3, <1>4, <1>5, DoStock

LEMMA StepOrdered ==
  ASSUME ImportsInv, OrderPerRun, NEW s \in Scripts, Do(s)
  PROVE  OrderPerRun'
<1>1. RunsInv BY DEF ImportsInv
<1>2. ASSUME NEW z \in Traders, ~SomeCrash'
      PROVE  Len(orders'[z]) <= runs'[z].done + (IF Selling(z)' THEN 1 ELSE 0)
  <2>1. z \in Scripts /\ ~SomeCrash BY <1>1, <1>2, CrashesStay, Goods
  <2>2. runs[z].done \in Nat /\ Len(orders[z]) <= runs[z].done + (IF Selling(z) THEN 1 ELSE 0)
    BY <1>1, <2>1, RunFields DEF RunsInv, OrderPerRun
  <2>3. CASE z # s
    <3>1. orders'[z] = orders[z] /\ runs'[z] = runs[z] /\ ~Running(z) /\ ~Running(z)'
      BY <1>1, <2>1, <2>3, DoRuns, DoStock
    <3> QED BY <2>2, <3>1 DEF Selling
  <2>4. CASE z = s
    <3>1. Running(s) /\ Now(s) \in StepsOf(s) BY <1>1, DoRuns
    <3>2. PICK n \in Nat : n = Len(orders[s]) BY DoLen
    <3>3. PICK m : m = Len(orders'[s]) OBVIOUS
    <3>4. n <= runs[s].done + (IF Selling(s) THEN 1 ELSE 0) BY <2>2, <2>4, <3>2
    <3>5. m = n \/ (Now(s).op = "place" /\ m = n + 1 /\ ~Selling(s))
      <4>1. Now(s).op # "some"
        <5>1. "some" \notin LonelyOf[s] BY <2>4, Goods
        <5> QED BY <3>1, <5>1, LonelyNow
      <4>2. Now(s).op = "place" => ~Selling(s)
        <5>1. Now(s).op = "place" => NowRank(s) = RankOf["place"] BY <3>1, LonelyNow
        <5> QED BY <5>1, Placing DEF Selling
      <4> QED BY <3>2, <3>3, <4>1, <4>2, DoLen
    <3>6. m <= runs'[s].done + (IF Selling(s)' THEN 1 ELSE 0)
      <4>1. CASE Ended(s)
        <5>1. runs'[s].done = runs[s].done + 1 /\ ~Selling(s)' BY <4>1 DEF Ended, Selling, Running
        <5> QED BY <2>2, <2>4, <3>4, <3>5, <5>1
      <4>2. CASE Moved(s)
        <5>1. Running(s)'
          <6>1. \A i \in Spots(s) : 1 <= i BY SpotsAre
          <6> QED BY <4>2, <6>1 DEF Moved, Running
        <5>2. /\ NowRank(s) \in 1..39 /\ NowRank(s)' \in 1..39 /\ NowRank(s) <= NowRank(s)'
              /\ Now(s).op # "new" => NowRank(s) < NowRank(s)'
          BY <1>1, <4>2, NextRank
        <5>3. runs'[s].done = runs[s].done BY <4>2 DEF Moved
        <5>4. Selling(s) => Selling(s)' BY <5>1, <5>2 DEF Selling
        <5>5. Now(s).op = "place" => Selling(s)'
          <6>1. Now(s).op = "place" => NowRank(s) = 29 BY <3>1, LonelyNow, Placing
          <6> QED BY <5>1, <5>2, <6>1 DEF Selling
        <5> QED BY <2>2, <2>4, <3>4, <3>5, <5>3, <5>4, <5>5
      <4>3. CASE Threw(s)
        <5>1. orders' = orders BY <4>3 DEF Threw, Throw
        <5>2. PICK op \in {"lot", "place"} : Now(s).op = op BY <4>3 DEF Threw
        <5>3. NowRank(s) = RankOf[op] BY <3>1, <5>2, LonelyNow
        <5>4. ~Selling(s) BY <5>2, <5>3 DEF Selling, RankOf
        <5>5. runs'[s].done = runs[s].done /\ ~Selling(s)' BY <4>3 DEF Threw, Selling, Running
        <5> QED BY <3>2, <3>3, <3>4, <5>1, <5>4, <5>5
      <4> QED BY <1>1, <4>1, <4>2, <4>3, DoRuns
    <3> QED BY <2>4, <3>3, <3>6
  <2> QED BY <2>3, <2>4
<1> QED BY <1>2 DEF OrderPerRun

(* Only who registers is new.                                              *)
LEMMA Registers ==
  ASSUME NEW s \in Scripts, Do(s), NEW o, o \in orgs', o \notin orgs
  PROVE  Now(s).op = "register" /\ Now(s).row[1] = o
BY DEF Do, DoRegister, DoGate, DoRow, DoLot, DoPlace, DoSome, DoPay, DoDeliver, DoDate, DoEnrich,
       Throw, Placed, Move

LEMMA StepApproving ==
  ASSUME ImportsInv, OnceInv, Approving, NEW s \in Scripts, Do(s), cast' = cast
  PROVE  Approving'
<1>1. RunsInv /\ RowsCounted BY DEF ImportsInv, OnceInv
<1> DEFINE g == <<"Jinglin", "org">>
           t == Step("new", "Jinglin", "approved", "org")
<1>2. SUFFICES ASSUME ~SomeCrash, ~("Jinglin" \in cast), "Jinglin" \in orgs', ~There(Buyer)'
               PROVE  Running(s)' /\ g \in runs'[s].fresh /\ "Jinglin" \in PartiesOf[s] /\ NowRank(s)' <= 4
  BY <1>1, CrashesStay DEF Approving, Buyer, Fresh
<1>3. ~There(Buyer)
  <2>1. PICK q : q = Buyer OBVIOUS
  <2> QED BY <1>1, <1>2, <2>1, RowsAfter
<1>4. Running(s) /\ Now(s) \in StepsOf(s) /\ NowRank(s) \in 1..39
  <2>1. Rank(Now(s)) \in 1..39 BY <1>1, DoRuns, InOrder DEF Now
  <2> QED BY <1>1, <2>1, DoRuns DEF NowRank
<1>5. "Jinglin" \in PartiesOf[s] /\ g \in NextFresh(s) /\ NowRank(s) <= 4 /\ Now(s) # t
  <2>1. CASE "Jinglin" \notin orgs
    <3>1. Now(s).op = "register" /\ Now(s).row[1] = "Jinglin" BY <1>2, <2>1, Registers
    <3>2. PICK o \in PartiesOf[s] : Now(s) = Step("register", o, "org", "org") BY <1>4, <3>1, Forms
    <3>3. o = "Jinglin" /\ Now(s).gate = <<o, "org">> BY <3>1, <3>2, StepIs
    <3>4. NowRank(s) = 3 BY <3>2, <3>3, RanksOf DEF NowRank
    <3>5. g \in NextFresh(s) BY <2>1, <3>1, <3>3 DEF NextFresh
    <3>6. Now(s) # t BY <3>1, StepIs
    <3> HIDE DEF g, t
    <3> QED BY <3>2, <3>3, <3>4, <3>5, <3>6
  <2>2. CASE "Jinglin" \in orgs
    <3>1. PICK z \in Scripts : Fresh(z, g) /\ "Jinglin" \in PartiesOf[z] /\ NowRank(z) <= 4
      BY <1>2, <1>3, <2>2 DEF Approving, Buyer
    <3>2. z = s BY <1>1, <3>1, DoRuns DEF Fresh
    <3>3. g \in NextFresh(s) BY <3>1, <3>2 DEF Fresh, NextFresh
    <3>4. Now(s) # t
      <4>1. SUFFICES ASSUME Now(s) = t PROVE FALSE OBVIOUS
      <4>2. Now(s).op = "new" /\ Now(s).gate = g /\ Now(s).row = Buyer BY <4>1, StepIs DEF Buyer
      <4>3. Writable(s) BY <3>1, <3>2, <4>2 DEF Writable, Write, Fresh
      <4>4. PICK q : q = Buyer OBVIOUS
      <4>5. rows' = BagAdd(rows, q) BY <4>2, <4>3, <4>4, DoRows
      <4>6. There(q)' BY <1>1, <4>5, AddsRow
      <4> QED BY <1>2, <4>4, <4>6
    <3> QED BY <3>1, <3>2, <3>3, <3>4
  <2> QED BY <2>1, <2>2
<1>6. t \in StepsOf(s) /\ Rank(t) = 4 /\ ~(t.op = "new" /\ t.row[2] = "farm")
  <2>1. t \in StepsOf(s) /\ Rank(t) = 4 BY <1>5, RanksOf
  <2>2. t.row[2] = "approved" BY StepIs
  <2> QED BY <2>1, <2>2
<1> HIDE DEF g, t
<1>7. ~Ended(s)
  <2>1. ~(NowRank(s) > Rank(t)) BY <1>4, <1>5, <1>6
  <2> QED BY <1>1, <1>5, <1>6, <2>1, PassesAll
<1>8. ~Threw(s)
  <2>1. SUFFICES ASSUME Threw(s) PROVE FALSE OBVIOUS
  <2>2. PICK op \in {"lot", "place"} : Now(s).op = op BY <2>1 DEF Threw
  <2>3. NowRank(s) = RankOf[op] BY <1>4, <2>2, LonelyNow
  <2>4. RankOf[op] \in {28, 29} BY <2>2 DEF RankOf
  <2>5. ~(NowRank(s) <= 4) BY <2>3, <2>4
  <2> QED BY <1>5, <2>5
<1>9. Moved(s) BY <1>1, <1>7, <1>8, DoRuns
<1>10. Running(s)'
  <2>1. \A i \in Spots(s) : 1 <= i BY SpotsAre
  <2> QED BY <1>9, <2>1 DEF Moved, Running
<1>11. NowRank(s)' <= 4
  <2>1. SUFFICES ASSUME NowRank(s)' > 4 PROVE FALSE BY <1>1, <1>9, NextRank
  <2>2. NowRank(s)' > Rank(t) BY <1>6, <2>1
  <2>3. NowRank(s) > Rank(t) \/ Now(s) = t BY <1>1, <1>6, <1>10, <2>2, PassesBy
  <2> QED BY <1>4, <1>5, <1>6, <2>3
<1> QED BY <1>5, <1>9, <1>10, <1>11 DEF Moved

(* Lots that were used up stay so, and without a crash only the orders of  *)
(* runs that ended use them up.                                            *)
LEMMA Multiples ==
  ASSUME NEW q \in Nat, NEW a \in Nat, NEW b \in Nat, a <= b
  PROVE  a * q <= b * q
<1>1. PICK k \in Nat : b = a + k
  <2>1. b - a \in Nat /\ b = a + (b - a) OBVIOUS
  <2> QED BY <2>1
<1>2. b * q = a * q + k * q BY <1>1
<1>3. k * q \in Nat /\ a * q \in Nat OBVIOUS
<1> QED BY <1>2, <1>3

LEMMA UsedUpStays ==
  ASSUME NEW s \in Scripts, runs[s].done \in Nat, runs'[s].done \in Nat, runs[s].done <= runs'[s].done, UsedUp(s)
  PROVE  UsedUp(s)'
<1>1. LotQty[s] \in Nat /\ OrderQty[s] \in Nat BY ImportsAssumption DEF ImportsAssumption
<1> DEFINE a == runs[s].done + 1
           b == runs'[s].done + 1
<1>2. a \in Nat /\ b \in Nat /\ a <= b OBVIOUS
<1>3. LotQty[s] < a * OrderQty[s] BY DEF UsedUp
<1> HIDE DEF a, b
<1>4. a * OrderQty[s] <= b * OrderQty[s] BY <1>1, <1>2, Multiples
<1>5. a * OrderQty[s] \in Nat /\ b * OrderQty[s] \in Nat BY <1>1, <1>2
<1>6. LotQty[s] < b * OrderQty[s] BY <1>1, <1>3, <1>4, <1>5
<1> QED BY <1>6 DEF UsedUp, b

LEMMA LiveAtMost ==
  ASSUME NEW q \in Seq(OrderStates)
  PROVE  Cardinality(LiveSpots(q)) <= Len(q)
<1> DEFINE n == Len(q)
<1>1. n \in Nat /\ n \in Int /\ 1 \in Int /\ 1 <= n + 1 OBVIOUS
<1>2. LiveSpots(q) \in SUBSET (1..n) BY DEF LiveSpots
<1> HIDE DEF n
<1>3. IsFiniteSet(1..n) /\ Cardinality(1..n) = IF 1 > n THEN 0 ELSE n - 1 + 1 BY <1>1, FS_Interval, Zenon
<1>4. Cardinality(1..n) = n BY <1>1, <1>3
<1>5. Cardinality(LiveSpots(q)) <= Cardinality(1..n) BY <1>2, <1>3, FS_Subset, Zenon
<1> QED BY <1>4, <1>5 DEF n

LEMMA SellsOut ==
  ASSUME ImportsInv, Stocked, NEW s \in Scripts, There(<<s, "lot">>), stock[s] < OrderQty[s],
         Len(orders[s]) <= runs[s].done
  PROVE  UsedUp(s)
<1>1. LotQty[s] \in Nat /\ OrderQty[s] \in Nat /\ stock[s] \in Nat
  BY ImportsAssumption DEF ImportsAssumption, ImportsInv
<1>2. PICK d \in Nat : d = runs[s].done BY RunFields DEF ImportsInv, RunsInv
<1>3. PICK q \in Seq(OrderStates) : q = orders[s] BY DEF ImportsInv
<1>4. PICK n \in Nat : n = LiveOrders(s) /\ n <= d
  <2>1. Cardinality(LiveSpots(q)) <= Len(q) /\ Cardinality(LiveSpots(q)) \in Nat /\ Len(q) \in Nat
    BY LiveIs, LiveAtMost
  <2>2. LiveOrders(s) = Cardinality(LiveSpots(q)) BY <1>3 DEF LiveOrders, LiveSpots
  <2>3. Len(q) <= d BY <1>2, <1>3
  <2> QED BY <1>2, <2>1, <2>2, <2>3
<1>5. stock[s] + OrderQty[s] * n = LotQty[s] BY <1>4 DEF Stocked
<1>6. n * OrderQty[s] <= d * OrderQty[s] BY <1>1, <1>4, Multiples
<1>7. OrderQty[s] * n = n * OrderQty[s] /\ n * OrderQty[s] \in Nat /\ d * OrderQty[s] \in Nat
      /\ (d + 1) * OrderQty[s] = d * OrderQty[s] + OrderQty[s]
  BY <1>1
<1>8. LotQty[s] < (d + 1) * OrderQty[s] BY <1>1, <1>5, <1>6, <1>7
<1> QED BY <1>2, <1>8 DEF UsedUp

LEMMA OnceIsEnough ==
  ASSUME ImportsInv, NEW s \in {"hzb", "tuopai"}, runs[s].done > 0
  PROVE  UsedUp(s)
<1>1. s \in Scripts /\ s \in Traders BY DEF Scripts, ScriptOf, Traders
<1>2. LotQty[s] \in Nat /\ OrderQty[s] \in Nat /\ LotQty[s] < 2 * OrderQty[s]
  BY <1>1, ImportsAssumption, QuantitiesAssumption DEF ImportsAssumption, QuantitiesAssumption
<1>3. PICK d \in Nat : d = runs[s].done + 1 /\ 2 <= d
  <2>1. runs[s].done \in Nat BY <1>1, RunFields DEF ImportsInv, RunsInv
  <2>2. runs[s].done + 1 \in Nat /\ 2 <= runs[s].done + 1 BY <2>1
  <2> QED BY <2>2
<1>4. 2 * OrderQty[s] <= d * OrderQty[s] BY <1>2, <1>3, Multiples
<1>5. d * OrderQty[s] \in Nat BY <1>2
<1>6. LotQty[s] < d * OrderQty[s] BY <1>2, <1>4, <1>5
<1> QED BY <1>3, <1>6 DEF UsedUp

(* When a run throws.                                                      *)
LEMMA StepSucceeds ==
  ASSUME ImportsInv, OnceInv, Stocked, SuccessInv, NEW s \in Scripts, Do(s), cast' = cast
  PROVE  FirstRunSucceeds' /\ Refusals'
<1>1. RunsInv /\ RowsCounted BY DEF ImportsInv, OnceInv
<1>2. \A z \in Scripts : runs[z].done \in Nat /\ (UsedUp(z) => UsedUp(z)')
  <2>1. ASSUME NEW z \in Scripts PROVE runs[z].done \in Nat /\ (UsedUp(z) => UsedUp(z)')
    <3>1. runs[z].done \in Nat BY <1>1, RunFields DEF RunsInv
    <3>2. runs'[z].done = runs[z].done \/ runs'[z].done = runs[z].done + 1
      <4>1. CASE z = s BY <1>1, <4>1, DoRuns DEF Moved, Ended, Threw
      <4>2. CASE z # s
        <5>1. runs'[z] = runs[z] BY <1>1, <4>2, DoRuns
        <5> QED BY <5>1
      <4> QED BY <4>1, <4>2
    <3>3. runs'[z].done \in Nat /\ runs[z].done <= runs'[z].done BY <3>1, <3>2
    <3> QED BY <3>1, <3>3, UsedUpStays
  <2> QED BY <2>1
<1>3. Running(s) /\ Now(s) \in StepsOf(s) /\ s \in cast BY <1>1, DoRuns DEF SuccessInv, Refusals
<1>4. \A z \in Scripts : Running(z)' => z \in cast
  <2>1. \A z \in Scripts \ {s} : ~Running(z)' BY <1>1, DoRuns
  <2> QED BY <1>3, <2>1
<1>5. refused \subseteq Scripts BY DEF SuccessInv, Refusals, Traders, Scripts, ScriptOf
<1>6. \A z \in refused : UsedUp(z)' \/ "Jinglin" \in cast' \/ SomeCrash'
  <2>1. \A z \in refused : UsedUp(z) \/ "Jinglin" \in cast \/ SomeCrash
    BY DEF SuccessInv, FirstRunSucceeds, SomeCrash
  <2> QED BY <1>1, <1>2, <1>5, <2>1, CrashesStay
<1>7. CASE refused' = refused BY <1>4, <1>6, <1>7 DEF FirstRunSucceeds, Refusals, SomeCrash, SuccessInv
<1>8. CASE Threw(s)
  <2>1. refused' = refused \cup {s} BY <1>8 DEF Threw, Throw
  <2>2. PICK op \in {"lot", "place"} : Now(s).op = op BY <1>8 DEF Threw
  <2>3. op \in LonelyOf[s] /\ NowRank(s) = RankOf[op] /\ Now(s).row = <<s, op>> BY <1>3, <2>2, LonelyNow
  <2>4. RankOf["lot"] = 28 /\ RankOf["place"] = 29 BY DEF RankOf
  <2>5. s # "demo" \/ op = "place"
    <3>1. CASE s = "demo" /\ op = "lot"
      <4>1. DoLot(s)
        BY <2>2, <3>1 DEF Do, DoRegister, DoGate, DoRow, DoPlace, DoSome, DoPay, DoDeliver, DoDate, DoEnrich
      <4>2. Continue(s) BY <3>1, <4>1 DEF DoLot
      <4>3. Now(s).op \notin {"register", "gate"} BY <2>2
      <4>4. Onward(s, NextFresh(s)) BY <4>2, <4>3 DEF Continue, NextFresh
      <4>5. Moved(s) \/ Ended(s) BY <1>1, <1>3, <4>4, OnwardIs
      <4>6. runs[s].done \in Nat /\ runs'[s].done = runs[s].done /\ runs'[s].at = 0 BY <1>2, <1>8 DEF Threw
      <4>7. ~Ended(s) BY <4>6 DEF Ended
      <4>8. ~Moved(s)
        <5>1. \A i \in Spots(s) : 1 <= i BY SpotsAre
        <5> QED BY <4>6, <5>1 DEF Moved
      <4> QED BY <4>5, <4>7, <4>8
    <3> QED BY <2>2, <3>1
  <2>6. s \in Traders BY <2>2, <2>3, <2>5, Trade
  <2>7. op = "place"
    <3>1. SUFFICES ASSUME op = "lot" PROVE FALSE BY <2>2
    <3>2. There(<<s, "sku">>) BY <1>3, <2>3, <2>4, <2>6, <3>1 DEF SuccessInv, Stepped
    <3>3. DoLot(s)
      BY <2>2, <3>1 DEF Do, DoRegister, DoGate, DoRow, DoPlace, DoSome, DoPay, DoDeliver, DoDate, DoEnrich
    <3>4. Continue(s) BY <3>2, <3>3 DEF DoLot
    <3>5. Now(s).op \notin {"register", "gate"} BY <2>2
    <3>6. Onward(s, NextFresh(s)) BY <3>4, <3>5 DEF Continue, NextFresh
    <3>7. Moved(s) \/ Ended(s) BY <1>1, <1>3, <3>6, OnwardIs
    <3>8. runs[s].done \in Nat /\ runs'[s].done = runs[s].done /\ runs'[s].at = 0 BY <1>2, <1>8 DEF Threw
    <3>9. ~Ended(s) BY <3>8 DEF Ended
    <3>10. ~Moved(s)
      <4>1. \A i \in Spots(s) : 1 <= i BY SpotsAre
      <4> QED BY <3>8, <4>1 DEF Moved
    <3> QED BY <3>7, <3>9, <3>10
  <2>8. ~Orderable(s)
    <3>1. SUFFICES ASSUME Orderable(s) PROVE FALSE OBVIOUS
    <3>2. DoPlace(s)
      BY <2>2, <2>7 DEF Do, DoRegister, DoGate, DoRow, DoLot, DoSome, DoPay, DoDeliver, DoDate, DoEnrich
    <3>3. Continue(s) BY <3>1, <3>2 DEF DoPlace, Placed, Recognised
    <3>5. Now(s).op \notin {"register", "gate"} BY <2>2
    <3>6. Onward(s, NextFresh(s)) BY <3>3, <3>5 DEF Continue, NextFresh
    <3>7. Moved(s) \/ Ended(s) BY <1>1, <1>3, <3>6, OnwardIs
    <3>8. runs[s].done \in Nat /\ runs'[s].done = runs[s].done /\ runs'[s].at = 0 BY <1>2, <1>8 DEF Threw
    <3>9. ~Ended(s) BY <3>8 DEF Ended
    <3>10. ~Moved(s)
      <4>1. \A i \in Spots(s) : 1 <= i BY SpotsAre
      <4> QED BY <3>8, <4>1 DEF Moved
    <3> QED BY <3>7, <3>9, <3>10
  <2>9. NowRank(s) = 29 BY <2>3, <2>4, <2>7
  <2>10. There(<<s, "lot">>)
    <3>1. NowRank(s) > 28 BY <2>9
    <3> QED BY <1>3, <2>6, <3>1 DEF SuccessInv, Stepped
  <2>11. UsedUp(s) \/ "Jinglin" \in cast \/ SomeCrash
    <3>1. CASE ~There(Buyer)
      <4>1. "Jinglin" \in PartiesOf[s] /\ s \in Scripts BY <2>6, Goods
      <4>2. Rank(Step("register", "Jinglin", "org", "org")) = 3 BY <4>1, RanksOf
      <4>3. "Jinglin" \in orgs BY <1>3, <2>9, <4>1, <4>2 DEF OnceInv, PartyJoined
      <4>4. \A z \in Scripts : Fresh(z, <<"Jinglin", "org">>) => ~(NowRank(z) <= 4)
        <5>1. \A z \in Scripts : Running(z) => z = s BY <1>1, <1>3 DEF RunsInv, OneRun
        <5> QED BY <2>9, <5>1 DEF Fresh
      <4> QED BY <3>1, <4>3, <4>4 DEF SuccessInv, Approving, Buyer
    <3>2. CASE There(<<s, "expire">>)
      <4>1. s = "hzb" /\ runs[s].done > 0 BY <2>6, <3>2 DEF SuccessInv, Expired
      <4> QED BY <4>1, OnceIsEnough
    <3>3. CASE ~(stock[s] >= OrderQty[s]) /\ ~SomeCrash
      <4>1. ~Selling(s) BY <2>9 DEF Selling
      <4>2. runs[s].done \in Nat BY <1>2
      <4>3. Len(orders[s]) <= runs[s].done BY <2>6, <3>3, <4>1, <4>2 DEF SuccessInv, OrderPerRun
      <4>4. OrderQty[s] \in Nat /\ stock[s] \in Nat
        BY ImportsAssumption DEF ImportsAssumption, ImportsInv
      <4>5. stock[s] < OrderQty[s] BY <3>3, <4>4
      <4> QED BY <2>10, <4>3, <4>5, SellsOut
    <3> QED BY <2>8, <2>10, <3>1, <3>2, <3>3 DEF Orderable, Buyer
  <2>12. UsedUp(s)' \/ "Jinglin" \in cast' \/ SomeCrash' BY <1>1, <1>2, <2>11, CrashesStay
  <2>13. FirstRunSucceeds' BY <1>6, <2>1, <2>12 DEF FirstRunSucceeds, SomeCrash
  <2>14. Refusals' BY <1>3, <1>4, <2>1, <2>6 DEF Refusals, SuccessInv
  <2> QED BY <2>13, <2>14
<1> QED BY <1>1, <1>7, <1>8, DoRuns

-----------------------------------------------------------------------------
(* A run that is killed or begins has completed none.                      *)
LEMMA QuietDone ==
  ASSUME RunsInv, Quiet
  PROVE  /\ \A z \in Scripts : runs'[z].done = runs[z].done /\ runs[z].done \in Nat
         /\ SomeCrash => SomeCrash'
         /\ \A s \in Scripts : Killed(s) => SomeCrash'
<1>1. \A z \in Scripts : runs[z].done \in Nat /\ runs[z].crashes \in Nat BY RunFields DEF RunsInv
<1>2. ASSUME NEW z \in Scripts PROVE runs'[z].done = runs[z].done
  <2>1. ASSUME NEW s \in Scripts, Begun(s) \/ Killed(s) PROVE runs'[z].done = runs[z].done
    <3>1. CASE z = s BY <2>1, <3>1 DEF Begun, Killed
    <3>2. CASE z # s
      <4>1. runs'[z] = runs[z] BY <2>1, <3>2 DEF Begun, Killed
      <4> QED BY <4>1
    <3> QED BY <3>1, <3>2
  <2> QED BY <2>1 DEF Quiet
<1>3. ASSUME NEW s \in Scripts, Killed(s) PROVE SomeCrash'
  <2>1. runs'[s].crashes = runs[s].crashes + 1 BY <1>3 DEF Killed
  <2>2. runs'[s].crashes > 0 BY <1>1, <2>1
  <2> QED BY <2>2 DEF SomeCrash
<1>4. SomeCrash => SomeCrash'
  <2>1. ASSUME NEW z \in Scripts, runs[z].crashes > 0, ~SomeCrash' PROVE FALSE
    <3>1. CASE runs' = runs BY <2>1, <3>1 DEF SomeCrash
    <3>2. ASSUME NEW s \in Scripts, Begun(s) PROVE FALSE
      <4>1. runs'[z].crashes = runs[z].crashes
        <5>1. CASE z = s BY <3>2, <5>1 DEF Begun
        <5>2. CASE z # s
          <6>1. runs'[z] = runs[z] BY <3>2, <5>2 DEF Begun
          <6> QED BY <6>1
        <5> QED BY <5>1, <5>2
      <4>2. runs'[z].crashes > 0 BY <2>1, <4>1
      <4> QED BY <2>1, <4>2 DEF SomeCrash
    <3> QED BY <1>3, <2>1, <3>1, <3>2 DEF Quiet
  <2> QED BY <2>1 DEF SomeCrash
<1> QED BY <1>1, <1>2, <1>3, <1>4

LEMMA BegunRank ==
  ASSUME NEW z \in Scripts, Begun(z), NEW t \in StepsOf(z), ~(t.op = "new" /\ t.row[2] = "farm")
  PROVE  ~(NowRank(z)' > Rank(t))
<1>1. NowRank(z)' = Rank(ScriptOf[z][1]) BY DEF Begun, NowRank, Now
<1> QED BY <1>1, Begins

LEMMA QuietOrders ==
  ASSUME ImportsInv, Quiet, NEW z \in Scripts
  PROVE  Len(orders'[z]) = Len(orders[z])
<1>1. orders \in [Scripts -> Seq(OrderStates)] BY DEF ImportsInv
<1>2. CASE orders' = orders BY <1>2
<1>3. ASSUME NEW s \in Scripts, Sweep(s) PROVE Len(orders'[z]) = Len(orders[z])
  <2>1. PICK i \in DOMAIN orders[s] : orders' = [orders EXCEPT ![s][i] = "CANCELLED"] BY <1>3 DEF Sweep
  <2>2. CASE z = s
    <3>1. PICK q \in Seq(OrderStates) : q = orders[s] BY <1>1
    <3>2. PICK p : p = [q EXCEPT ![i] = "CANCELLED"] OBVIOUS
    <3>3. orders'[s] = p BY <1>1, <2>1, <3>1, <3>2
    <3>4. "CANCELLED" \in OrderStates BY DEF OrderStates
    <3>5. Len(p) = Len(q) BY <3>2, <3>4, LenKept
    <3> QED BY <2>2, <3>1, <3>3, <3>5
  <2>3. CASE z # s BY <1>1, <2>1, <2>3
  <2> QED BY <2>2, <2>3
<1> QED BY <1>2, <1>3 DEF Quiet

LEMMA SuccessQuiet ==
  ASSUME ImportsInv, OnceInv, SuccessInv, Quiet
  PROVE  SuccessInv'
<1>1. RunsInv /\ RowsCounted /\ NothingFresh BY DEF ImportsInv, OnceInv
<1>2. OrderPerRun'
  <2>1. ASSUME NEW z \in Traders, ~SomeCrash'
        PROVE  Len(orders'[z]) <= runs'[z].done + (IF Selling(z)' THEN 1 ELSE 0)
    <3>1. z \in Scripts /\ ~SomeCrash /\ runs'[z].done = runs[z].done /\ runs[z].done \in Nat
      BY <1>1, <2>1, Goods, QuietDone
    <3>2. Len(orders'[z]) = Len(orders[z]) BY <3>1, QuietOrders
    <3>3. Len(orders[z]) <= runs[z].done + (IF Selling(z) THEN 1 ELSE 0) BY <3>1 DEF SuccessInv, OrderPerRun
    <3>4. Len(orders[z]) \in Nat
      <4>1. PICK q \in Seq(OrderStates) : q = orders[z] BY <3>1 DEF ImportsInv
      <4> QED BY <4>1
    <3>5. CASE ~Selling(z) BY <3>1, <3>2, <3>3, <3>4, <3>5
    <3>6. CASE Selling(z)
      <4>1. \A s \in Scripts : ~Begun(s) BY <3>1, <3>6 DEF Begun, Selling
      <4>2. runs' = runs BY <1>1, <2>1, <4>1, QuietDone DEF Quiet
      <4>3. Selling(z)' BY <3>6, <4>2 DEF Selling, Running, NowRank, Now
      <4> QED BY <3>1, <3>2, <3>3, <3>6, <4>3
    <3> QED BY <3>5, <3>6
  <2> QED BY <2>1 DEF OrderPerRun
<1>3. Expired'
  <2>1. ASSUME NEW z \in Traders, There(<<z, "expire">>)' PROVE z = "hzb" /\ runs'[z].done > 0
    <3>1. z \in Scripts BY Goods
    <3>2. <<z, "expire">> # Buyer BY DEF Buyer
    <3>3. There(<<z, "expire">>) BY <1>1, <2>1, <3>2, QuietRows
    <3>4. z = "hzb" /\ runs[z].done > 0 BY <3>3 DEF SuccessInv, Expired
    <3> QED BY <1>1, <3>1, <3>4, QuietDone
  <2> QED BY <2>1 DEF Expired
<1>4. Stepped'
  <2>1. ASSUME NEW z \in Traders, Running(z)'
        PROVE  /\ NowRank(z)' > 26 => There(<<z, "sku">>)'
               /\ NowRank(z)' > 28 => There(<<z, "lot">>)'
    <3>1. z \in Scripts BY Goods
    <3>2. CASE runs'[z] = runs[z] /\ Running(z)
      <4>1. NowRank(z)' = NowRank(z) BY <3>2 DEF NowRank, Now
      <4>2. /\ NowRank(z) > 26 => There(<<z, "sku">>)
            /\ NowRank(z) > 28 => There(<<z, "lot">>)
        BY <3>2 DEF SuccessInv, Stepped
      <4> QED BY <1>1, <4>1, <4>2, QuietRows
    <3>3. CASE Begun(z)
      <4> DEFINE t == Step("own", z, "sku", "sku")
                 u == Step("lot", z, "lot", "lot")
      <4>1. /\ t \in StepsOf(z) /\ t.op = "own" /\ Rank(t) = 26
            /\ u \in StepsOf(z) /\ u.op = "lot" /\ Rank(u) = 28
        <5>1. Whose(z, "lot") = z BY <3>1, KindsApart
        <5> QED BY <3>1, <5>1, Goods, RanksOf, StepIs
      <4> HIDE DEF t, u
      <4>2. ~(NowRank(z)' > Rank(t)) /\ ~(NowRank(z)' > Rank(u)) BY <3>1, <3>3, <4>1, BegunRank
      <4> QED BY <4>1, <4>2
    <3> QED BY <1>1, <2>1, <3>1, <3>2, <3>3, QuietRuns
  <2> QED BY <2>1 DEF Stepped
<1>5. Approving'
  <2>1. SUFFICES ASSUME ~SomeCrash', ~("Jinglin" \in cast), "Jinglin" \in orgs', ~There(Buyer)'
                 PROVE  \E s \in Scripts : /\ Fresh(s, <<"Jinglin", "org">>)' /\ "Jinglin" \in PartiesOf[s]
                                           /\ NowRank(s)' <= 4
    BY DEF Approving, Buyer, Quiet
  <2>2. ~SomeCrash /\ "Jinglin" \in orgs /\ ~There(Buyer) BY <1>1, <2>1, QuietDone, QuietRows DEF Quiet
  <2>3. PICK s \in Scripts : Fresh(s, <<"Jinglin", "org">>) /\ "Jinglin" \in PartiesOf[s] /\ NowRank(s) <= 4
    BY <2>1, <2>2 DEF SuccessInv, Approving, Buyer
  <2>4. \A z \in Scripts : ~Begun(z) BY <2>3 DEF Begun, Fresh
  <2>5. runs' = runs BY <1>1, <2>1, <2>4, QuietDone DEF Quiet
  <2>6. Fresh(s, <<"Jinglin", "org">>)' /\ NowRank(s)' = NowRank(s) BY <2>3, <2>5 DEF Fresh, Running, NowRank, Now
  <2> QED BY <2>3, <2>6
<1>6. Refusals'
  <2>1. ASSUME NEW z \in Scripts, Running(z)' PROVE z \in cast
    <3>1. CASE Running(z) BY <3>1 DEF SuccessInv, Refusals
    <3>2. CASE Begun(z) BY <3>2 DEF Begun
    <3> QED BY <1>1, <2>1, <3>1, <3>2, QuietRuns
  <2>2. refused \subseteq Traders \cap cast BY DEF SuccessInv, Refusals
  <2> QED BY <2>1, <2>2 DEF Quiet, Refusals
<1>7. FirstRunSucceeds'
  <2>1. \A z \in refused : UsedUp(z) \/ "Jinglin" \in cast \/ SomeCrash
    BY DEF SuccessInv, FirstRunSucceeds, SomeCrash
  <2>2. \A z \in refused : z \in Scripts BY Goods DEF SuccessInv, Refusals
  <2>3. cast' = cast BY <1>1 DEF Quiet
  <2>4. \A z \in Scripts : UsedUp(z) => UsedUp(z)' BY <1>1, QuietDone, UsedUpStays
  <2>5. \A z \in refused : UsedUp(z)' \/ "Jinglin" \in cast' \/ SomeCrash'
    BY <1>1, <2>1, <2>2, <2>3, <2>4, QuietDone
  <2> QED BY <2>5 DEF Quiet, FirstRunSucceeds, SomeCrash
<1> QED BY <1>2, <1>3, <1>4, <1>5, <1>6, <1>7 DEF SuccessInv

LEMMA SuccessInit == Init => Stocked /\ LastIsLive /\ SuccessInv
<1> SUFFICES ASSUME Init PROVE Stocked /\ LastIsLive /\ SuccessInv OBVIOUS
<1>1. \A s \in Scripts : runs[s].at = 0 BY DEF Init, ImportsInit
<1>2. \A r : ~There(r)
  <2>1. DOMAIN rows = {} BY DEF Init, ImportsInit, EmptyBag, SetToBag
  <2> QED BY <2>1 DEF There, BagIn, BagToSet
<1>3. \A s \in Scripts : ~Running(s) BY <1>1 DEF Running
<1>4. \A s \in Scripts : stock[s] = 0 /\ orders[s] = << >> BY DEF Init, ImportsInit
<1>5. refused = {} /\ orgs = {} BY DEF Init, ImportsInit
<1>6. Stocked /\ LastIsLive BY <1>2, <1>3, <1>4 DEF Stocked, LastIsLive
<1>7. \A z \in Traders : z \in Scripts BY Goods
<1>8. \A z \in Traders : Len(orders[z]) = 0 /\ runs[z].done = 0 BY <1>4, <1>7 DEF Init, ImportsInit
<1>9. \A z \in Traders : ~Selling(z) BY <1>3, <1>7 DEF Selling
<1>10. OrderPerRun BY <1>8, <1>9 DEF OrderPerRun
<1> QED BY <1>2, <1>3, <1>5, <1>6, <1>7, <1>10 DEF SuccessInv, Expired, Stepped, Approving,
        Refusals, FirstRunSucceeds

SalesInv == OnceInv /\ Stocked /\ LastIsLive /\ SuccessInv
LEMMA SalesStep ==
  ASSUME UpkeepInv, SalesInv, [Next]_vars
  PROVE  SalesInv'
<1>1. OnceInv' BY OnceStep DEF SalesInv
<1>2. ImportsInv /\ RunsInv BY DEF UpkeepInv, ImportsInv
<1>3. CASE Quiet BY <1>1, <1>2, <1>3, StockQuiet, SuccessQuiet DEF SalesInv
<1>4. ASSUME NEW s \in Scripts, Do(s), cast' = cast PROVE SalesInv'
  <2>1. Stocked' /\ LastIsLive' BY <1>2, <1>4, StockDo DEF SalesInv
  <2>2. OrderPerRun' BY <1>2, <1>4, StepOrdered DEF SalesInv, SuccessInv
  <2>3. Expired' /\ Stepped' BY <1>2, <1>4, StepExpired, StepStepped DEF SalesInv, SuccessInv
  <2>4. Approving' BY <1>2, <1>4, StepApproving DEF SalesInv, SuccessInv
  <2>5. FirstRunSucceeds' /\ Refusals' BY <1>2, <1>4, StepSucceeds DEF SalesInv
  <2> QED BY <1>1, <2>1, <2>2, <2>3, <2>4, <2>5 DEF SalesInv, SuccessInv
<1>5. cast' = cast BY DEF Next, Import, Clear, vars
<1>6. NothingFresh BY DEF SalesInv, OnceInv
<1> QED BY <1>3, <1>4, <1>5, <1>6, StepIsQuiet

LEMMA OneOrderLives == ImportsInv /\ Stocked => OneLiveOrder
<1> SUFFICES ASSUME ImportsInv, Stocked, NEW s \in {"hzb", "tuopai"} PROVE LiveOrders(s) <= 1
  BY DEF OneLiveOrder
<1>1. s \in Scripts BY DEF Scripts, ScriptOf
<1>2. /\ stock[s] \in Nat /\ OrderQty[s] \in Nat /\ LotQty[s] \in Nat /\ orders[s] \in Seq(OrderStates)
      /\ LotQty[s] < 2 * OrderQty[s]
  BY <1>1, ImportsAssumption, QuantitiesAssumption DEF ImportsInv, ImportsAssumption, QuantitiesAssumption
<1>3. CASE There(<<s, "lot">>)
  <2>1. stock[s] + OrderQty[s] * LiveOrders(s) = LotQty[s] BY <1>1, <1>3 DEF Stocked
  <2>2. LiveOrders(s) \in Nat
    <3>1. PICK q \in Seq(OrderStates) : q = orders[s] BY <1>2
    <3>2. Cardinality(LiveSpots(q)) \in Nat BY LiveIs
    <3> QED BY <3>1, <3>2 DEF LiveOrders, LiveSpots
  <2>3. ASSUME NEW x \in Nat, NEW q \in Nat, NEW n \in Nat, NEW l \in Nat, x + q * n = l, l < 2 * q
        PROVE  n <= 1
    <3>1. SUFFICES ASSUME n >= 2 PROVE FALSE OBVIOUS
    <3>2. PICK k \in Nat : n = k + 2
      <4>1. n - 2 \in Nat BY <3>1
      <4>2. n = (n - 2) + 2 OBVIOUS
      <4> QED BY <4>1, <4>2
    <3>3. q * n = q * k + q * 2 BY <3>2
    <3>4. q * k \in Nat OBVIOUS
    <3> QED BY <2>3, <3>3, <3>4
  <2> QED BY <1>2, <2>1, <2>2, <2>3
<1>4. CASE ~There(<<s, "lot">>)
  <2>1. orders[s] = << >> BY <1>1, <1>4 DEF Stocked
  <2>2. {i \in DOMAIN orders[s] : orders[s][i] \in Live} = {} BY <2>1
  <2>3. LiveOrders(s) = 0 BY <2>2, FS_EmptySet DEF LiveOrders
  <2> QED BY <2>3
<1> QED BY <1>3, <1>4

LEMMA SalesInvariance == Spec => [](UpkeepInv /\ SalesInv)
<1>1. Init => UpkeepInv /\ SalesInv BY UpkeepInit, OnceInit, SuccessInit DEF SalesInv
<1>2. UpkeepInv /\ SalesInv /\ [Next]_vars => UpkeepInv' /\ SalesInv' BY UpkeepStep, SalesStep
<1> QED BY <1>1, <1>2, PTL DEF Spec

(* HZB and Tuopai have one live order at most, though a rerun does not     *)
(* recognise the order there is: the lots, stocked once                    *)
(* (seed-hzb-case.ts:262, seed-tuopai-supplier.ts:132), suffice for one.   *)
THEOREM OneOrderEach == Spec => []OneLiveOrder
<1>1. UpkeepInv /\ SalesInv => OneLiveOrder BY OneOrderLives DEF UpkeepInv, SalesInv
<1> QED BY <1>1, SalesInvariance, PTL

(* A script exits with an error (place, a lot without its SKU) only after  *)
(* a crash, where the lots do not suffice for one more order than it has   *)
(* brought to an end, or where the buyer has an account that he registered *)
(* himself and that waits for approval.                                    *)
THEOREM FirstRunsSucceed == Spec => []FirstRunSucceeds
<1>1. UpkeepInv /\ SalesInv => FirstRunSucceeds BY DEF SalesInv, SuccessInv
<1> QED BY <1>1, SalesInvariance, PTL
-----------------------------------------------------------------------------
(* Whole imports: how often a row was written before a step.               *)

LEMMA Counted ==
  ASSUME NEW s \in Scripts, NEW t \in StepsOf(s), t.op \in Writing, NEW a \in Spots(s)
  PROVE  Before(s, t.row, a + 1) = IF ScriptOf[s][a] = t THEN Before(s, t.row, a) + 1 ELSE Before(s, t.row, a)
<1>1. ScriptOf[s][a] \in StepsOf(s) BY InOrder
<1>2. ScriptOf[s][a].op \in Writing /\ ScriptOf[s][a].row = t.row <=> ScriptOf[s][a] = t BY <1>1, OneWriter
<1> QED BY <1>2, BeforeNext

LEMMA NotYet ==
  ASSUME NEW s \in Scripts, NEW t \in StepsOf(s), t.op \in Writing, NEW a \in Spots(s),
         ~(Rank(t) < Rank(ScriptOf[s][a])), ~(t = ScriptOf[s][a] /\ t.op = "new")
  PROVE  Before(s, t.row, a) = 0
<1>1. SUFFICES ASSUME NEW j \in Writes(s, t.row, a) PROVE FALSE BY WritesAre
<1>2. j \in Spots(s) /\ j < a /\ ScriptOf[s][j].op \in Writing /\ ScriptOf[s][j].row = t.row
  BY WritersAre DEF Writes
<1>3. ScriptOf[s][j] \in StepsOf(s) BY <1>2, InOrder
<1>4. ScriptOf[s][j] = t BY <1>2, <1>3, OneWriter
<1>5. Rank(t) < Rank(ScriptOf[s][a]) \/ Again(t, ScriptOf[s][a]) BY <1>2, <1>4, InOrder
<1> QED BY <1>5 DEF Again

LEMMA Already ==
  ASSUME NEW s \in Scripts, NEW t \in StepsOf(s), t.op \in Writing, ~(t.op = "new" /\ t.row[2] = "farm"),
         NEW a \in Spots(s), Rank(t) < Rank(ScriptOf[s][a])
  PROVE  1 <= Before(s, t.row, a)
<1>1. PICK j \in Spots(s) : ScriptOf[s][j] = t BY Happens
<1>2. j < a BY <1>1, Earlier
<1>3. a \in Nat BY SpotsAre
<1> QED BY <1>1, <1>2, <1>3, WrittenIs

LEMMA OnceInAll ==
  ASSUME NEW s \in Scripts, NEW t \in StepsOf(s), t.op \in Writing, t.op # "new"
  PROVE  All(s, t.row) = 1
<1>1. PICK j \in Spots(s) : ScriptOf[s][j] = t BY Happens
<1> DEFINE W == {i \in Writers(s) : ScriptOf[s][i].row = t.row}
<1>2. j \in W BY <1>1, WritersAre
<1>3. ASSUME NEW i \in W PROVE i = j
  <2>1. i \in Spots(s) /\ ScriptOf[s][i].op \in Writing /\ ScriptOf[s][i].row = t.row BY WritersAre
  <2>2. ScriptOf[s][i] = t BY <2>1, InOrder, OneWriter
  <2> QED BY <1>1, <2>1, <2>2, Earlier
<1> HIDE DEF W
<1>4. W = {j} BY <1>2, <1>3
<1>5. Cardinality(W) = 1 BY <1>4, FS_Singleton, Zenon
<1> QED BY <1>5, AllOf DEF W

(* All the farms are written.                                              *)
FarmRow == <<"tuopai", "farm">>
LEMMA FarmsAll == FARMS <= All("tuopai", FarmRow)
<1> DEFINE s == "tuopai"
           A == ScriptOf[s]
<1>1. s \in Scripts /\ A = Tuopai BY DEF Scripts, ScriptOf
<1>2. FARMS \in Nat BY ImportsAssumption DEF ImportsAssumption
<1>3. PICK n \in Nat : \A i \in 1..FARMS : n + i \in 1..Len(A) /\ A[n + i] = Farm
  BY <1>1, TuopaiIsMade DEF Farms
<1>4. Farm.op \in Writing /\ Farm.row = FarmRow BY StepIs DEF Farm, Writing, FarmRow
<1> HIDE DEF A, s
<1> DEFINE T == (n + 1)..(n + FARMS)
           W == {j \in Writers(s) : ScriptOf[s][j].row = FarmRow}
<1>5. ASSUME NEW j \in T PROVE j \in W
  <2>1. j - n \in 1..FARMS /\ n + (j - n) = j BY <1>2
  <2>2. j \in 1..Len(A) /\ A[j] = Farm BY <1>3, <2>1
  <2>3. j \in Writers(s) BY <1>1, <1>4, <2>2, WritersAre DEF Spots, A
  <2> QED BY <1>4, <2>2, <2>3 DEF A
<1>6. IsFiniteSet(W) /\ All(s, FarmRow) = Cardinality(W)
  <2>1. IsFiniteSet(Writers(s)) /\ W \in SUBSET Writers(s) BY <1>1, WritersAre
  <2>2. All(s, FarmRow) = Cardinality(W) BY <1>1, AllOf
  <2> HIDE DEF W
  <2> QED BY <2>1, <2>2, FS_Subset, Zenon
<1>7. T \in SUBSET W BY <1>5
<1>8. Cardinality(T) = IF n + 1 > n + FARMS THEN 0 ELSE (n + FARMS) - (n + 1) + 1
  BY <1>2, FS_Interval
<1>9. Cardinality(T) = FARMS BY <1>2, <1>8
<1> HIDE DEF T, W
<1>10. Cardinality(T) <= Cardinality(W) BY <1>6, <1>7, FS_Subset, Zenon
<1> QED BY <1>6, <1>9, <1>10 DEF s

(* What lies before a halt.                                                *)
LEMMA HaltsAre ==
  ASSUME NEW s \in Scripts, NEW h \in Halts(s)
  PROVE  /\ h \in Nat /\ 1 <= h /\ h <= Len(ScriptOf[s]) + 1 /\ Len(ScriptOf[s]) \in Nat
         /\ h # 1 /\ h # Len(ScriptOf[s]) + 1 => h \in Spots(s) /\ Rank(ScriptOf[s][h]) = 29
<1>1. Len(ScriptOf[s]) \in Nat /\ 1 <= Len(ScriptOf[s]) BY NotEmpty
<1>2. CASE h \in {i \in 1..Len(ScriptOf[s]) : ScriptOf[s][i].op = "place"}
  <2>1. h \in Spots(s) /\ ScriptOf[s][h].op = "place" BY <1>2 DEF Spots
  <2>2. ScriptOf[s][h] \in StepsOf(s) BY <2>1, InOrder
  <2>3. "place" \in LonelyOf[s] /\ ScriptOf[s][h] = Step("place", Whose(s, "place"), "place", "place")
    BY <2>1, <2>2, Forms
  <2>4. Rank(ScriptOf[s][h]) = 29 BY <2>3, RanksOf, Placing
  <2>5. h \in Nat /\ 1 <= h /\ h <= Len(ScriptOf[s]) BY <2>1, SpotsAre
  <2> QED BY <1>1, <2>1, <2>4, <2>5
<1>3. CASE h = 1 \/ h = Len(ScriptOf[s]) + 1 BY <1>1, <1>3
<1> QED BY <1>2, <1>3 DEF Halts

LEMMA PastHalt ==
  ASSUME NEW s \in Scripts, NEW h \in Halts(s), h > 1, NEW a \in Spots(s), a >= h
  PROVE  Rank(ScriptOf[s][a]) >= 29 /\ Rank(ScriptOf[s][a]) \in 1..39
<1>1. h \in Nat /\ Len(ScriptOf[s]) \in Nat BY HaltsAre
<1>2. a \in Nat /\ a <= Len(ScriptOf[s]) BY SpotsAre
<1>3. h # 1 /\ h # Len(ScriptOf[s]) + 1 /\ h <= a BY <1>1, <1>2
<1>4. h \in Spots(s) /\ Rank(ScriptOf[s][h]) = 29 BY <1>3, HaltsAre
<1>5. Rank(ScriptOf[s][h]) <= Rank(ScriptOf[s][a]) /\ Rank(ScriptOf[s][a]) \in 1..39
  BY <1>3, <1>4, Earlier, InOrder
<1> QED BY <1>4, <1>5

LEMMA BeforeHalt ==
  ASSUME NEW s \in Scripts, NEW h \in Halts(s), h > 1, NEW t \in StepsOf(s), t.op \in Writing, Rank(t) < 29
  PROVE  /\ ~(t.op = "new" /\ t.row[2] = "farm") => 1 <= Before(s, t.row, h)
         /\ All(s, t.row) <= Before(s, t.row, h)
<1>1. /\ h \in Nat /\ Len(ScriptOf[s]) \in Nat
      /\ h # Len(ScriptOf[s]) + 1 => h \in Spots(s) /\ Rank(ScriptOf[s][h]) = 29
  BY HaltsAre
<1>2. ASSUME NEW j \in Spots(s), ScriptOf[s][j] = t PROVE j < h
  <2>1. j \in Nat /\ j <= Len(ScriptOf[s]) BY SpotsAre
  <2>2. CASE h = Len(ScriptOf[s]) + 1 BY <1>1, <2>1, <2>2
  <2>3. CASE h # Len(ScriptOf[s]) + 1
    <3>1. Rank(ScriptOf[s][j]) < Rank(ScriptOf[s][h]) BY <1>1, <1>2, <2>3
    <3> QED BY <1>1, <2>3, <3>1, Earlier
  <2> QED BY <2>2, <2>3
<1>3. ~(t.op = "new" /\ t.row[2] = "farm") => 1 <= Before(s, t.row, h)
  <2>1. SUFFICES ASSUME ~(t.op = "new" /\ t.row[2] = "farm") PROVE 1 <= Before(s, t.row, h) OBVIOUS
  <2>2. PICK j \in Spots(s) : ScriptOf[s][j] = t BY <2>1, Happens
  <2> QED BY <1>1, <1>2, <2>2, WrittenIs
<1>4. All(s, t.row) <= Before(s, t.row, h)
  <2> DEFINE W == {i \in Writers(s) : ScriptOf[s][i].row = t.row}
  <2>1. ASSUME NEW j \in W PROVE j \in Writes(s, t.row, h)
    <3>1. j \in Spots(s) /\ ScriptOf[s][j].op \in Writing /\ ScriptOf[s][j].row = t.row BY WritersAre
    <3>2. ScriptOf[s][j] = t BY <3>1, InOrder, OneWriter
    <3> QED BY <1>2, <3>1, <3>2 DEF Writes
  <2>2. W \in SUBSET Writes(s, t.row, h) BY <2>1
  <2>3. Cardinality(W) = All(s, t.row) BY AllOf
  <2> HIDE DEF W
  <2>4. Cardinality(W) <= Before(s, t.row, h) BY <2>2, WritesAre
  <2> QED BY <2>3, <2>4
<1> QED BY <1>3, <1>4

LEMMA SmallRanks ==
  ASSUME NEW s \in Scripts
  PROVE  /\ \A k \in NewOf[s] : RankOf[k] \in 1..28 /\ GateOf(s, k) \in GatesOf[s]
                                /\ GateRank[GateOf(s, k)] < RankOf[k]
         /\ \A g \in GatesOf[s] : /\ GateRank[g] \in 1..28 /\ g \in NewOf[s] /\ GateOf(s, g) = g
                                  /\ GateRank[g] < RankOf[g]
         /\ "lot" \in LonelyOf[s] => "sku" \in NewOf[s] \cup OwnOf[s]
         /\ \A k \in AlwaysOf[s] : (IF k = "contact" THEN 33 ELSE RankOf[k]) \in 30..39
         /\ RankOf["sku"] = 26 /\ RankOf["lot"] = 28 /\ RankOf["place"] = 29
BY DEF Scripts, ScriptOf, NewOf, GatesOf, GateOf, GateRank, RankOf, LonelyOf, OwnOf, AlwaysOf
-----------------------------------------------------------------------------
(* A step leaves an import as whole as it was.                             *)

LEMMA OnceIs ==
  ASSUME NEW z \in Scripts, NEW t \in StepsOf(z), t \in Once(z) \cup Repeats(z)
  PROVE  t.op \in Writing /\ t.row[1] = z /\ ~(t.op = "new" /\ t.row[2] = "approved")
<1>1. CASE t.op = "always"
  <2>1. PICK k \in AlwaysOf[z] : t = Step("always", z, k, k) BY <1>1, Forms
  <2> QED BY <1>1, <2>1, StepIs DEF Writing
<1>2. CASE t.op # "always"
  <2>1. t.op \in {"new", "own", "lot"} /\ t.row[1] = z BY <1>2 DEF Once, Repeats
  <2>2. ~(t.op = "new" /\ t.row[2] = "approved")
    <3>1. SUFFICES ASSUME t.op = "new", t.row[2] = "approved" PROVE FALSE OBVIOUS
    <3>2. CASE t.row[1] \in PartiesOf[z] BY <2>1, <3>2, KindsApart
    <3>3. CASE \E k \in NewOf[z] : t.row = <<z, k>> /\ k # "approved" BY <3>1, <3>3
    <3> QED BY <3>1, <3>2, <3>3, NewIs
  <2> QED BY <2>1, <2>2 DEF Writing
<1> QED BY <1>1, <1>2

LEMMA CopiesAfter ==
  ASSUME RowsCounted, NEW s \in Scripts, Do(s), Now(s) \in StepsOf(s), NEW z \in Scripts,
         NEW t \in StepsOf(z), t \in Once(z) \cup Repeats(z)
  PROVE  Copies(t.row)' = IF z = s /\ t = Now(s) /\ Writable(s) THEN Copies(t.row) + 1 ELSE Copies(t.row)
<1>1. t.op \in Writing /\ ~(t.op = "new" /\ t.row[2] = "approved") BY OnceIs
<1>2. CASE z = s /\ t = Now(s) /\ Writable(s)
  <2>1. Now(s).op # "overdue" BY <1>1, <1>2 DEF Writing
  <2>2. rows' = BagAdd(rows, t.row) BY <1>2, <2>1, DoRows
  <2> QED BY <1>2, <2>2, AddsRow
<1>3. CASE ~(z = s /\ t = Now(s) /\ Writable(s))
  <2>1. SUFFICES ASSUME t.row = Now(s).row, Writable(s) PROVE FALSE BY <1>3, RowsAfter
  <2>2. Now(s).op \in Writing \cup Marks BY <2>1 DEF Writable, Writing, Marks
  <2>3. t = Now(s) /\ z = s BY <1>1, <2>1, <2>2, WriterIs
  <2> QED BY <1>3, <2>1, <2>3
<1> QED BY <1>2, <1>3

(* A run throws where an order is placed.                                  *)
LEMMA ThrowsAt ==
  ASSUME RunsInv, Stepped, NEW s \in Scripts, Do(s), Threw(s)
  PROVE  Now(s).op = "place"
<1>1. Running(s) /\ Now(s) \in StepsOf(s) /\ runs[s].done \in Nat BY DoRuns, RunFields DEF RunsInv
<1>2. SUFFICES ASSUME Now(s).op = "lot" PROVE FALSE BY DEF Threw
<1>3. DoLot(s)
  BY <1>2 DEF Do, DoRegister, DoGate, DoRow, DoPlace, DoSome, DoPay, DoDeliver, DoDate, DoEnrich
<1>4. Continue(s)
  <2>1. CASE s = "demo" BY <1>3, <2>1 DEF DoLot
  <2>2. CASE s # "demo"
    <3>1. "lot" \in LonelyOf[s] /\ NowRank(s) = RankOf["lot"] BY <1>1, <1>2, LonelyNow
    <3>2. s \in Traders BY <2>2, <3>1, Trade
    <3>3. NowRank(s) > 26 BY <3>1, SmallRanks
    <3>4. There(<<s, "sku">>) BY <1>1, <3>2, <3>3 DEF Stepped
    <3> QED BY <1>3, <3>4 DEF DoLot
  <2> QED BY <2>1, <2>2
<1>5. Now(s).op \notin {"register", "gate"} BY <1>2
<1>6. Onward(s, NextFresh(s)) BY <1>4, <1>5 DEF Continue, NextFresh
<1>7. Moved(s) \/ Ended(s) BY <1>1, <1>6, OnwardIs
<1>8. ~Ended(s) BY <1>1 DEF Ended, Threw
<1>9. ~Moved(s)
  <2>1. \A i \in Spots(s) : 1 <= i BY SpotsAre
  <2> QED BY <2>1 DEF Moved, Threw
<1> QED BY <1>7, <1>8, <1>9

(* What is to be there once is written where the import has not been.      *)
LEMMA WrittenWhere ==
  ASSUME ImportsInv, RowsCounted, NEW s \in Scripts, Do(s), NEW h \in Halts(s), WholeTo(s, h),
         NEW a \in Spots(s), a = runs[s].at, Now(s) \in Once(s)
  PROVE  Writable(s) <=> a >= h
<1>1. Running(s) /\ Now(s) \in StepsOf(s) /\ Now(s) = ScriptOf[s][a] /\ RunsInv
  BY DoRuns DEF Now, ImportsInv
<1>2. a \in Nat /\ h \in Nat /\ 1 <= a /\ 1 <= h /\ a <= Len(ScriptOf[s]) BY SpotsAre, HaltsAre
<1>3. Reach(s, h) = IF a >= h THEN a ELSE h BY <1>1, <1>2 DEF Reach
<1>4. PICK t \in StepsOf(s) : t = Now(s) BY <1>1
<1>5. t \in Once(s) /\ t.op \in Writing BY <1>4, OnceIs
<1>6. Copies(t.row) = Before(s, t.row, Reach(s, h)) BY <1>5 DEF WholeTo
<1>7. There(t.row) <=> Before(s, t.row, Reach(s, h)) # 0 BY <1>6, CopiesAre
<1>8. a < h => 1 <= Before(s, t.row, h) /\ Before(s, t.row, h) \in Nat BY <1>1, <1>2, <1>4, <1>5, WrittenIs, WritesAre
<1>9. t.op # "new" => Before(s, t.row, a) = 0
  <2>1. ~(Rank(t) < Rank(ScriptOf[s][a])) /\ t = ScriptOf[s][a]
    <3>1. Rank(ScriptOf[s][a]) \in 1..39 BY InOrder
    <3> QED BY <1>1, <1>4, <3>1
  <2> QED BY <1>5, <2>1, NotYet
<1>10. t.op # "new" => (There(t.row) <=> a < h)
  <2>1. CASE a < h
    <3>1. Reach(s, h) = h BY <1>2, <1>3, <2>1
    <3> QED BY <1>7, <1>8, <2>1, <3>1
  <2>2. CASE a >= h BY <1>2, <1>3, <1>7, <1>9, <2>2
  <2> QED BY <1>2, <2>1, <2>2
<1>11. CASE t.op = "own" BY <1>2, <1>4, <1>10, <1>11 DEF Writable, Write
<1>12. CASE t.op = "lot"
  <2>1. "lot" \in LonelyOf[s] /\ NowRank(s) = RankOf["lot"] BY <1>1, <1>4, <1>12, LonelyNow
  <2>2. There(<<s, "sku">>)
    <3> DEFINE u == IF "sku" \in OwnOf[s] THEN Step("own", s, "sku", "sku")
                    ELSE Step("new", s, "sku", GateOf(s, "sku"))
    <3>1. u \in StepsOf(s) /\ Rank(u) = 26 BY <2>1, SmallRanks, RanksOf
    <3>2. u.op \in {"new", "own"} /\ u.row = <<s, "sku">> /\ u.row[1] = s /\ u.row[2] = "sku" BY StepIs
    <3> HIDE DEF u
    <3>3. u \in Once(s) BY <3>1, <3>2 DEF Once
    <3>4. u.op \in Writing /\ ~(u.op = "new" /\ u.row[2] = "farm") BY <3>2 DEF Writing
    <3>5. Rank(ScriptOf[s][a]) = 28 BY <1>1, <2>1, SmallRanks DEF NowRank
    <3>6. 1 <= Before(s, u.row, a) BY <3>1, <3>4, <3>5, Already
    <3>7. Before(s, u.row, a) <= Before(s, u.row, Reach(s, h))
      <4>1. a <= Reach(s, h) /\ Reach(s, h) \in Nat BY <1>2, <1>3
      <4>2. PICK n \in Nat : n = Reach(s, h) BY <4>1
      <4> QED BY <1>2, <4>1, <4>2, BeforeGrows
    <3>8. Copies(u.row) = Before(s, u.row, Reach(s, h)) BY <3>3 DEF WholeTo
    <3>9. Before(s, u.row, a) \in Nat /\ Copies(u.row) \in Nat BY WritesAre, CopiesAre
    <3>10. Copies(u.row) # 0 BY <3>6, <3>7, <3>8, <3>9
    <3> QED BY <3>2, <3>10, CopiesAre
  <2> QED BY <1>2, <1>4, <1>10, <1>12, <2>2 DEF Writable
<1>13. CASE t.op = "new"
  <2>1. PICK k \in NewOf[s] : t = Step("new", s, k, GateOf(s, k)) /\ t.row = <<s, k>>
                              /\ t.gate = <<s, GateOf(s, k)>> /\ Rank(t) = RankOf[k]
    <3>1. ~(t.row[2] = "approved") BY <1>5, <1>13, OnceIs
    <3> QED BY <1>13, <3>1, NewIs
  <2>2. PICK g \in GatesOf[s] : g = GateOf(s, k) BY SmallRanks
  <2>3. RankOf[k] \in 1..28 /\ GateRank[g] < RankOf[k] /\ NowRank(s) = RankOf[k]
    BY <1>4, <2>1, <2>2, SmallRanks DEF NowRank
  <2>4. Writable(s) <=> <<s, g>> \in runs[s].fresh BY <1>4, <1>13, <2>1, <2>2 DEF Writable, Write
  <2>5. GatesSeen(s, h) BY DEF WholeTo
  <2>6. CASE a < h
    <3>1. h > 1 BY <1>2, <2>6
    <3>2. <<s, g>> \notin runs[s].fresh BY <1>1, <2>5, <3>1 DEF GatesSeen
    <3> QED BY <1>2, <2>4, <2>6, <3>2
  <2>7. CASE a >= h /\ h > 1
    <3>1. Rank(ScriptOf[s][a]) >= 29 BY <2>7, PastHalt
    <3> QED BY <1>1, <2>3, <3>1 DEF NowRank
  <2>8. CASE h = 1
    <3>1. GateRank[g] \in 1..28 BY SmallRanks
    <3>2. NowRank(s) > GateRank[g] BY <2>3, <3>1
    <3>3. <<s, g>> \in runs[s].fresh BY <1>1, <2>5, <2>8, <3>2 DEF GatesSeen
    <3> QED BY <1>2, <2>4, <2>8, <3>3
  <2> QED BY <1>2, <2>6, <2>7, <2>8
<1> QED BY <1>5, <1>11, <1>12, <1>13 DEF Once

-----------------------------------------------------------------------------
(* What the gates of a run find does not change with what it goes on to.   *)
LEMMA StepGates ==
  ASSUME ImportsInv, RowsCounted, NEW s \in Scripts, Do(s), NEW h \in Halts(s), WholeTo(s, h), Moved(s)
  PROVE  GatesSeen(s, h)'
<1>1. RunsInv /\ Running(s) /\ Now(s) \in StepsOf(s) /\ runs'[s].fresh = NextFresh(s)
  BY DoRuns DEF ImportsInv, Moved
<1>2. PICK a \in Spots(s) : a = runs[s].at BY <1>1, DoRuns
<1>3. a \in Nat /\ h \in Nat /\ 1 <= h /\ 1 <= a /\ Now(s) = ScriptOf[s][a] /\ NowRank(s) = Rank(ScriptOf[s][a])
  BY <1>2, SpotsAre, HaltsAre DEF Now, NowRank
<1>4. Reach(s, h) = IF a >= h THEN a ELSE h BY <1>1, <1>2, <1>3 DEF Reach
<1>5. GatesSeen(s, h) /\ \A t \in Once(s) : Copies(t.row) = Before(s, t.row, Reach(s, h)) BY DEF WholeTo
<1>6. Running(s)' BY <1>2, <1>3 DEF Moved, Running
<1>7. ASSUME NEW g \in GatesOf[s], h > 1 PROVE <<s, g>> \notin runs'[s].fresh
  <2>1. SUFFICES ASSUME <<s, g>> \in NextFresh(s) PROVE FALSE BY <1>1
  <2>2. <<s, g>> \notin runs[s].fresh BY <1>1, <1>5, <1>7 DEF GatesSeen
  <2>3. PICK c : c = <<s, g>> OBVIOUS
  <2>4. \/ c = <<Now(s).row[1], "org">> /\ Now(s).row[1] \in PartiesOf[s]
        \/ \E k \in GatesOf[s] : Now(s) = Step("gate", s, k, k) /\ c = <<s, k>> /\ ~Enough(<<s, k>>)
    BY <1>1, <2>1, <2>2, <2>3, NewlyFresh
  <2>5. \A o : <<o, "org">> = <<s, g>> => o = s OBVIOUS
  <2>6. PICK k \in GatesOf[s] : Now(s) = Step("gate", s, k, k) /\ c = <<s, k>> /\ ~Enough(<<s, k>>)
    BY <2>3, <2>4, <2>5, KindsApart
  <2>7. k = g BY <2>3, <2>6
  <2>8. NowRank(s) = GateRank[g] /\ GateRank[g] \in 1..28 BY <2>6, <2>7, RanksOf, SmallRanks DEF NowRank
  <2>9. a < h
    <3>1. SUFFICES ASSUME a >= h PROVE FALSE BY <1>3
    <3>2. Rank(ScriptOf[s][a]) >= 29 BY <1>7, <3>1, PastHalt
    <3> QED BY <1>3, <2>8, <3>2
  <2>10. Reach(s, h) = h BY <1>3, <1>4, <2>9
  <2> DEFINE t == Step("new", s, g, g)
  <2>11. /\ t \in StepsOf(s) /\ t.op = "new" /\ t.row = <<s, g>> /\ t.row[1] = s /\ t.row[2] = g
         /\ Rank(t) = RankOf[g] /\ RankOf[g] \in 1..28
    BY RanksOf, SmallRanks, StepIs
  <2> HIDE DEF t
  <2>12. t \in Once(s) /\ t.op \in Writing /\ Rank(t) < 29 BY <2>11 DEF Once, Writing
  <2>13. Copies(<<s, g>>) = Before(s, <<s, g>>, h) /\ Before(s, <<s, g>>, h) \in Nat
    BY <1>5, <2>10, <2>11, <2>12, WritesAre
  <2>14. CASE g # "farm"
    <3>1. 1 <= Before(s, t.row, h) BY <1>7, <2>11, <2>12, <2>14, BeforeHalt
    <3>2. Copies(<<s, g>>) # 0 BY <2>11, <2>13, <3>1
    <3>3. There(<<s, g>>) BY <3>2, CopiesAre
    <3>4. <<s, g>> # <<"tuopai", "farm">> BY <2>14
    <3> QED BY <2>6, <2>7, <3>3, <3>4 DEF Enough
  <2>15. CASE g = "farm"
    <3>1. s = "tuopai" BY <2>15, GatesAre
    <3>2. t.row = FarmRow BY <2>11, <2>15, <3>1 DEF FarmRow
    <3>3. All(s, t.row) <= Before(s, t.row, h) /\ All(s, t.row) \in Nat BY <1>7, <2>11, <2>12, BeforeHalt, AllOf
    <3>4. FARMS <= All(s, t.row) /\ FARMS \in Nat
      BY <3>1, <3>2, FarmsAll, ImportsAssumption DEF ImportsAssumption
    <3>5. Copies(<<s, g>>) >= FARMS BY <2>11, <2>13, <3>3, <3>4
    <3> QED BY <2>6, <2>7, <2>15, <3>1, <3>5 DEF Enough
  <2> QED BY <2>14, <2>15
<1>8. ASSUME NEW g \in GatesOf[s], h = 1, NowRank(s)' > GateRank[g] PROVE <<s, g>> \in runs'[s].fresh
  <2> DEFINE w == Step("gate", s, g, g)
             t == Step("new", s, g, g)
  <2>1. w \in StepsOf(s) /\ Rank(w) = GateRank[g] /\ w.op = "gate" /\ w.row = <<s, g>> /\ w.gate = <<s, g>>
    BY RanksOf, StepIs
  <2>2. /\ t \in StepsOf(s) /\ t.op = "new" /\ t.row = <<s, g>> /\ t.row[1] = s
        /\ Rank(t) = RankOf[g] /\ RankOf[g] \in 1..28 /\ GateRank[g] \in 1..28 /\ GateRank[g] < RankOf[g]
    BY RanksOf, SmallRanks, StepIs
  <2> HIDE DEF t, w
  <2>3. NowRank(s) > Rank(w) \/ Now(s) = w BY <1>1, <1>6, <1>8, <2>1, PassesBy
  <2>4. CASE NowRank(s) > Rank(w)
    <3>1. <<s, g>> \in runs[s].fresh BY <1>1, <1>5, <1>8, <2>1, <2>4 DEF GatesSeen
    <3> QED BY <1>1, <3>1 DEF NextFresh
  <2>5. CASE Now(s) = w
    <3>1. t \in Once(s) /\ t.op \in Writing BY <2>2 DEF Once, Writing
    <3>2. ~(Rank(t) < Rank(ScriptOf[s][a])) /\ t # ScriptOf[s][a] BY <1>3, <2>1, <2>2, <2>5
    <3>3. Before(s, t.row, a) = 0 BY <2>2, <3>1, <3>2, NotYet
    <3>4. Reach(s, h) = a BY <1>3, <1>4, <1>8
    <3>5. Copies(<<s, g>>) = 0 BY <1>5, <2>2, <3>1, <3>3, <3>4
    <3>6. ~There(<<s, g>>) BY <3>5, CopiesAre
    <3>7. FARMS \in Nat \ {0} BY ImportsAssumption DEF ImportsAssumption
    <3>8. ~(0 >= FARMS) BY <3>7
    <3>9. ~Enough(<<s, g>>) BY <3>5, <3>6, <3>8 DEF Enough
    <3> QED BY <1>1, <2>1, <2>5, <3>9 DEF NextFresh
  <2> QED BY <2>3, <2>4, <2>5
<1> QED BY <1>3, <1>7, <1>8 DEF GatesSeen

(* The step itself, with the place up to which the import is whole.        *)
LEMMA StepWholeTo ==
  ASSUME ImportsInv, RowsCounted, Stepped, NEW s \in Scripts, Do(s), NEW h \in Halts(s), WholeTo(s, h)
  PROVE  \E k \in Halts(s) : WholeTo(s, k)'
<1>1. RunsInv /\ Running(s) /\ Now(s) \in StepsOf(s) BY DoRuns DEF ImportsInv
<1>2. PICK a \in Spots(s) : a = runs[s].at BY <1>1, DoRuns
<1> DEFINE n == Len(ScriptOf[s])
<1>3. /\ a \in Nat /\ h \in Nat /\ 1 <= h /\ 1 <= a /\ a <= n /\ h <= n + 1 /\ n \in Nat
      /\ Now(s) = ScriptOf[s][a]
  BY <1>2, SpotsAre, HaltsAre DEF Now
<1> HIDE DEF n
<1>4. Reach(s, h) = IF a >= h THEN a ELSE h BY <1>1, <1>2, <1>3 DEF Reach
<1>5. runs[s].done \in Nat /\ (runs[s].done > 0 => h = n + 1) BY <1>1, RunFields DEF RunsInv, WholeTo, n
(* What is there once, up to m, where a run is or was.                     *)
<1>6. ASSUME NEW t \in Once(s), NEW m \in Nat,
             m = (IF a < h THEN h ELSE IF Threw(s) THEN a ELSE a + 1)
      PROVE  Copies(t.row)' = Before(s, t.row, m)
  <2>1. t \in StepsOf(s) /\ t.op \in Writing BY OnceIs DEF Once
  <2>2. Copies(t.row) = Before(s, t.row, IF a >= h THEN a ELSE h) BY <1>4 DEF WholeTo
  <2>3. Before(s, t.row, a) \in Nat BY WritesAre
  <2>4. Copies(t.row)' = IF t = Now(s) /\ Writable(s) THEN Copies(t.row) + 1 ELSE Copies(t.row)
    BY <1>1, <2>1, CopiesAfter
  <2>5. t = Now(s) => (Writable(s) <=> a >= h) BY <1>2, WrittenWhere
  <2>6. CASE a < h BY <1>3, <1>6, <2>2, <2>4, <2>5, <2>6
  <2>7. CASE a >= h /\ Threw(s)
    <3>1. Now(s).op = "place" BY <1>1, <2>7, ThrowsAt
    <3>2. t # Now(s) BY <2>1, <3>1 DEF Writing
    <3> QED BY <1>3, <1>6, <2>2, <2>4, <2>7, <3>2
  <2>8. CASE a >= h /\ ~Threw(s)
    <3>1. Before(s, t.row, a + 1) = IF Now(s) = t THEN Before(s, t.row, a) + 1 ELSE Before(s, t.row, a)
      BY <1>3, <2>1, Counted
    <3> QED BY <1>3, <1>6, <2>2, <2>4, <2>5, <2>8, <3>1
  <2> QED BY <1>3, <2>6, <2>7, <2>8
<1>7. ASSUME NEW t \in Repeats(s)
      PROVE  /\ Copies(t.row)' = runs[s].done + Before(s, t.row, a + 1)
             /\ Before(s, t.row, a + 1) \in Nat /\ Before(s, t.row, n + 1) = 1 /\ Before(s, t.row, 0) = 0
             /\ Threw(s) => Before(s, t.row, a + 1) = 0
  <2>1. t \in StepsOf(s) /\ t.op \in Writing /\ t.op = "always" BY OnceIs DEF Repeats
  <2>2. Copies(t.row) = runs[s].done + Before(s, t.row, a) BY <1>2 DEF WholeTo
  <2>3. Before(s, t.row, a) \in Nat /\ Before(s, t.row, a + 1) \in Nat BY WritesAre
  <2>4. Copies(t.row)' = IF t = Now(s) /\ Writable(s) THEN Copies(t.row) + 1 ELSE Copies(t.row)
    BY <1>1, <2>1, CopiesAfter
  <2>5. t = Now(s) => Writable(s) BY <2>1 DEF Writable, Write
  <2>6. Before(s, t.row, a + 1) = IF Now(s) = t THEN Before(s, t.row, a) + 1 ELSE Before(s, t.row, a)
    BY <1>3, <2>1, Counted
  <2>7. Copies(t.row)' = runs[s].done + Before(s, t.row, a + 1) BY <1>5, <2>2, <2>3, <2>4, <2>5, <2>6
  <2>8. Before(s, t.row, n + 1) = 1 /\ Before(s, t.row, 0) = 0
    <3>1. All(s, t.row) = 1 BY <2>1, OnceInAll
    <3> QED BY <3>1, AllOf, BeforeAny DEF n
  <2>9. ASSUME Threw(s) PROVE Before(s, t.row, a + 1) = 0
    <3>1. Now(s).op = "place" BY <1>1, <2>9, ThrowsAt
    <3>2. Rank(ScriptOf[s][a]) = 29 BY <1>1, <1>3, <3>1, LonelyNow, SmallRanks DEF NowRank
    <3>3. PICK k \in AlwaysOf[s] : t = Step("always", s, k, k) BY <2>1, Forms
    <3>4. Rank(t) \in 30..39 BY <3>3, RanksOf, SmallRanks DEF AlwaysRank
    <3>5. ~(Rank(t) < Rank(ScriptOf[s][a])) BY <3>2, <3>4
    <3>6. Before(s, t.row, a) = 0 BY <2>1, <3>5, NotYet
    <3> QED BY <1>3, <2>1, <2>6, <3>1, <3>6
  <2> QED BY <2>3, <2>7, <2>8, <2>9
<1>8. CASE Moved(s)
  <2>1. runs'[s].at = a + 1 /\ runs'[s].done = runs[s].done BY <1>2, <1>8 DEF Moved
  <2>2. Running(s)' /\ Reach(s, h)' = IF a >= h THEN a + 1 ELSE h BY <1>3, <2>1 DEF Running, Reach
  <2>3. ~Threw(s) BY <1>3, <2>1 DEF Threw
  <2>4. PICK m \in Nat : m = IF a >= h THEN a + 1 ELSE h BY <1>3
  <2>5. m = IF a < h THEN h ELSE IF Threw(s) THEN a ELSE a + 1 BY <1>3, <2>3, <2>4
  <2>6. \A t \in Once(s) : Copies(t.row)' = Before(s, t.row, m) BY <1>6, <2>5
  <2>7. \A t \in Repeats(s) : Copies(t.row)' = runs'[s].done + Before(s, t.row, runs'[s].at) BY <1>7, <2>1
  <2>8. GatesSeen(s, h)' BY <1>8, StepGates
  <2>9. runs'[s].done > 0 => h = Len(ScriptOf[s]) + 1 BY <1>5, <2>1 DEF n
  <2>10. Reach(s, h)' = m BY <2>2, <2>4
  <2>11. WholeTo(s, h)' BY <2>6, <2>7, <2>8, <2>9, <2>10 DEF WholeTo
  <2> QED BY <2>11
<1>9. CASE Ended(s)
  <2>1. a = n /\ runs'[s].at = 0 /\ runs'[s].done = runs[s].done + 1 BY <1>2, <1>9 DEF Ended, n
  <2>2. PICK m \in Nat : m = n + 1 BY <1>3
  <2>3. m \in Halts(s) BY <2>2 DEF Halts, n
  <2>4. ~Running(s)' /\ Reach(s, m)' = m BY <2>1 DEF Running, Reach
  <2>5. ~Threw(s) BY <1>5, <2>1 DEF Threw
  <2>6. m = IF a < h THEN h ELSE IF Threw(s) THEN a ELSE a + 1 BY <1>3, <2>1, <2>2, <2>5
  <2>7. \A t \in Once(s) : Copies(t.row)' = Before(s, t.row, m) BY <1>6, <2>6
  <2>8. \A t \in Repeats(s) : Copies(t.row)' = runs'[s].done + Before(s, t.row, runs'[s].at)
    BY <1>5, <1>7, <2>1
  <2>9. GatesSeen(s, m)' BY <2>4 DEF GatesSeen
  <2>10. WholeTo(s, m)' BY <2>2, <2>4, <2>7, <2>8, <2>9 DEF WholeTo, n
  <2> QED BY <2>3, <2>10
<1>10. CASE Threw(s)
  <2>1. runs'[s].at = 0 /\ runs'[s].done = runs[s].done /\ Now(s).op = "place"
    BY <1>1, <1>10, ThrowsAt DEF Threw
  <2>2. PICK m \in Nat : m = IF a >= h THEN a ELSE h BY <1>3
  <2>3. m \in Halts(s) BY <1>3, <2>1, <2>2 DEF Halts, Spots
  <2>4. ~Running(s)' /\ Reach(s, m)' = m BY <2>1 DEF Running, Reach
  <2>5. m = IF a < h THEN h ELSE IF Threw(s) THEN a ELSE a + 1 BY <1>3, <1>10, <2>2
  <2>6. \A t \in Once(s) : Copies(t.row)' = Before(s, t.row, m) BY <1>6, <2>5
  <2>7. \A t \in Repeats(s) : Copies(t.row)' = runs'[s].done + Before(s, t.row, runs'[s].at)
    BY <1>7, <1>10, <2>1
  <2>8. runs'[s].done > 0 => m = Len(ScriptOf[s]) + 1 BY <1>3, <1>5, <2>1, <2>2 DEF n
  <2>9. GatesSeen(s, m)' BY <2>4 DEF GatesSeen
  <2>10. WholeTo(s, m)' BY <2>4, <2>6, <2>7, <2>8, <2>9 DEF WholeTo
  <2> QED BY <2>3, <2>10
<1> QED BY <1>1, <1>8, <1>9, <1>10, DoRuns

-----------------------------------------------------------------------------
(* An import whose run and rows are let alone is as whole as it was.       *)
LEMMA StaysWhole ==
  ASSUME NEW z \in Scripts, runs'[z] = runs[z], NEW h \in Halts(z), WholeTo(z, h),
         \A t \in Once(z) \cup Repeats(z) : Copies(t.row)' = Copies(t.row)
  PROVE  WholeTo(z, h)'
<1>1. Reach(z, h)' = Reach(z, h) /\ (Running(z)' <=> Running(z)) /\ NowRank(z)' = NowRank(z)
  BY DEF Reach, Running, NowRank, Now
<1>2. GatesSeen(z, h)' BY <1>1 DEF WholeTo, GatesSeen
<1>3. PICK m : m = Reach(z, h) OBVIOUS
<1>4. \A t \in Once(z) : Copies(t.row)' = Before(z, t.row, m) BY <1>3 DEF WholeTo
<1>5. \A t \in Once(z) : Copies(t.row)' = Before(z, t.row, Reach(z, h)') BY <1>1, <1>3, <1>4
<1>6. \A t \in Repeats(z) : Copies(t.row)' = runs'[z].done + Before(z, t.row, runs'[z].at) BY DEF WholeTo
<1>7. runs'[z].done > 0 => h = Len(ScriptOf[z]) + 1 BY DEF WholeTo
<1> QED BY <1>2, <1>5, <1>6, <1>7 DEF WholeTo

LEMMA StepWhole ==
  ASSUME ImportsInv, RowsCounted, Stepped, Whole, NEW s \in Scripts, Do(s)
  PROVE  Whole'
<1>1. RunsInv /\ Now(s) \in StepsOf(s) BY DoRuns DEF ImportsInv
<1>2. ASSUME NEW z \in Scripts, runs'[z].crashes = 0 PROVE \E k \in Halts(z) : WholeTo(z, k)'
  <2>1. CASE z = s
    <3>1. runs[s].crashes = 0 BY <1>1, <1>2, <2>1, DoRuns
    <3>2. PICK h \in Halts(s) : WholeTo(s, h) BY <3>1 DEF Whole
    <3> QED BY <2>1, <3>2, StepWholeTo
  <2>2. CASE z # s
    <3>1. runs'[z] = runs[z] BY <1>1, <2>2, DoRuns
    <3>2. PICK h \in Halts(z) : WholeTo(z, h) BY <1>2, <3>1 DEF Whole
    <3>3. ASSUME NEW t \in Once(z) \cup Repeats(z) PROVE Copies(t.row)' = Copies(t.row)
      <4>1. t \in StepsOf(z) BY DEF Once, Repeats
      <4> QED BY <1>1, <2>2, <4>1, CopiesAfter
    <3>4. WholeTo(z, h)' BY <3>1, <3>2, <3>3, StaysWhole
    <3> QED BY <3>4
  <2> QED BY <2>1, <2>2
<1> QED BY <1>2 DEF Whole

LEMMA QuietWhole ==
  ASSUME RunsInv, RowsCounted, Whole, Quiet
  PROVE  Whole'
<1>1. ASSUME NEW z \in Scripts, NEW t \in Once(z) \cup Repeats(z) PROVE Copies(t.row)' = Copies(t.row)
  <2>1. t \in StepsOf(z) BY DEF Once, Repeats
  <2>2. t.op \in Writing /\ ~(t.op = "new" /\ t.row[2] = "approved") BY <2>1, OnceIs
  <2>3. t.row # Buyer BY <2>1, <2>2, NotBuyer
  <2> QED BY <2>3, QuietRows
<1>2. ASSUME NEW z \in Scripts, runs'[z].crashes = 0 PROVE \E k \in Halts(z) : WholeTo(z, k)'
  <2>0. runs[z].crashes \in Nat BY RunFields DEF RunsInv
  <2>1. CASE runs'[z] = runs[z]
    <3>1. PICK h \in Halts(z) : WholeTo(z, h) BY <1>2, <2>1 DEF Whole
    <3>2. WholeTo(z, h)' BY <1>1, <2>1, <3>1, StaysWhole
    <3> QED BY <3>2
  <2>2. CASE Begun(z)
    <3>1. runs[z].at = 0 /\ runs'[z].at = 1 /\ runs'[z].fresh = {} /\ runs'[z].done = runs[z].done
          /\ runs[z].crashes = 0
      BY <1>2, <2>2 DEF Begun, Running
    <3>2. PICK h \in Halts(z) : WholeTo(z, h) BY <3>1 DEF Whole
    <3>3. h \in Nat /\ 1 <= h BY HaltsAre
    <3>4. Reach(z, h) = h /\ Reach(z, h)' = h BY <3>1, <3>3 DEF Reach, Running
    <3>5. GatesSeen(z, h)'
      <4>1. ASSUME NEW g \in GatesOf[z] PROVE ~(NowRank(z)' > GateRank[g])
        <5> DEFINE w == Step("gate", z, g, g)
        <5>1. w \in StepsOf(z) /\ Rank(w) = GateRank[g] /\ w.op = "gate" BY RanksOf, StepIs
        <5> HIDE DEF w
        <5> QED BY <2>2, <5>1, BegunRank
      <4> QED BY <3>1, <4>1 DEF GatesSeen
    <3>6. \A t \in Once(z) : Copies(t.row)' = Before(z, t.row, h) BY <1>1, <3>2, <3>4 DEF WholeTo
    <3>7. ASSUME NEW t \in Repeats(z) PROVE Copies(t.row)' = runs'[z].done + Before(z, t.row, runs'[z].at)
      <4>1. Before(z, t.row, 0) = 0 /\ Before(z, t.row, 1) = 0 BY BeforeAny
      <4>2. Copies(t.row) = runs[z].done + Before(z, t.row, 0) BY <3>1, <3>2 DEF WholeTo
      <4> QED BY <1>1, <3>1, <4>1, <4>2
    <3>8. runs'[z].done > 0 => h = Len(ScriptOf[z]) + 1 BY <3>1, <3>2 DEF WholeTo
    <3>9. WholeTo(z, h)' BY <3>4, <3>5, <3>6, <3>7, <3>8 DEF WholeTo
    <3> QED BY <3>9
  <2>3. CASE Killed(z)
    <3>1. runs'[z].crashes = runs[z].crashes + 1 BY <2>3 DEF Killed
    <3> QED BY <1>2, <2>0, <3>1
  <2>4. runs'[z] = runs[z] \/ Begun(z) \/ Killed(z)
    <3>1. ASSUME NEW s \in Scripts, Begun(s) \/ Killed(s) PROVE runs'[z] = runs[z] \/ Begun(z) \/ Killed(z)
      BY <3>1 DEF Begun, Killed
    <3> QED BY <3>1 DEF Quiet
  <2> QED BY <2>1, <2>2, <2>3, <2>4
<1> QED BY <1>2 DEF Whole

LEMMA WholeInit == Init => Whole
<1> SUFFICES ASSUME Init, NEW s \in Scripts PROVE WholeTo(s, 1) BY DEF Whole, Halts
<1>1. runs[s].at = 0 /\ runs[s].done = 0 BY DEF Init, ImportsInit
<1>2. \A r : Copies(r) = 0
  <2>1. DOMAIN rows = {} BY DEF Init, ImportsInit, EmptyBag, SetToBag
  <2> QED BY <2>1 DEF There, BagIn, BagToSet, Copies
<1>3. \A r : Before(s, r, 0) = 0 /\ Before(s, r, 1) = 0 BY BeforeAny
<1>4. ~Running(s) /\ Reach(s, 1) = 1 BY <1>1 DEF Running, Reach
<1>5. GatesSeen(s, 1) BY <1>4 DEF GatesSeen
<1> QED BY <1>1, <1>2, <1>3, <1>4, <1>5 DEF WholeTo

LEMMA WholeMeans == RunsInv /\ Whole => UninterruptedIsWhole
<1> SUFFICES ASSUME RunsInv, Whole, NEW s \in Scripts, ~Running(s), runs[s].done > 0, runs[s].crashes = 0,
                    NEW r \in RowsOf[s], r[1] = s
             PROVE  Copies(r) = Wanted(s, r)
  BY DEF UninterruptedIsWhole
<1>1. PICK i \in Writers(s) : ScriptOf[s][i].row = r BY DEF RowsOf
<1>2. PICK t \in StepsOf(s) : t = ScriptOf[s][i] /\ t.op \in Writing /\ t.row = r
  BY <1>1, WritersAre, InOrder
<1>3. PICK h \in Halts(s) : WholeTo(s, h) BY DEF Whole
<1>4. h = Len(ScriptOf[s]) + 1 /\ Reach(s, h) = h /\ runs[s].at = 0 /\ runs[s].done \in Nat
  BY <1>3, RunFields DEF WholeTo, Reach, Running, RunsInv
<1>5. Times[s][r] = All(s, r) /\ Before(s, r, h) = All(s, r) /\ All(s, r) \in Nat /\ Before(s, r, 0) = 0
  BY <1>4, AllOf, BeforeAny
<1> DEFINE always == \E j \in Writers(s) : ScriptOf[s][j].op = "always" /\ ScriptOf[s][j].row = r
<1>6. always <=> t.op = "always"
  <2>1. t.op = "always" => always BY <1>1, <1>2
  <2>2. ASSUME NEW j \in Writers(s), ScriptOf[s][j].op = "always", ScriptOf[s][j].row = r PROVE t.op = "always"
    <3>1. ScriptOf[s][j] \in StepsOf(s) /\ ScriptOf[s][j].op \in Writing BY WritersAre, InOrder
    <3>2. ScriptOf[s][j] = t BY <1>2, <2>2, <3>1, OneWriter
    <3> QED BY <2>2, <3>2
  <2> QED BY <2>1, <2>2
<1>7. Wanted(s, r) = IF always THEN Times[s][r] * runs[s].done ELSE Times[s][r] BY DEF Wanted
<1> HIDE DEF always
<1>8. CASE t.op = "always"
  <2>1. t \in Repeats(s) BY <1>8 DEF Repeats
  <2>2. Copies(r) = runs[s].done + 0 BY <1>2, <1>3, <1>4, <1>5, <2>1 DEF WholeTo
  <2>3. All(s, r) = 1 BY <1>2, <1>8, OnceInAll
  <2> QED BY <1>4, <1>5, <1>6, <1>7, <1>8, <2>2, <2>3
<1>9. CASE t.op # "always"
  <2>1. t \in Once(s) BY <1>2, <1>9 DEF Once, Writing
  <2>2. Copies(r) = Before(s, r, h) BY <1>2, <1>3, <1>4, <2>1 DEF WholeTo
  <2> QED BY <1>5, <1>6, <1>7, <1>9, <2>2
<1> QED BY <1>8, <1>9

-----------------------------------------------------------------------------
(* HZB and Tuopai sell once.                                               *)

LEMMA SoldOut ==
  ASSUME ImportsInv, Stocked, NEW s \in Single, Sold(s)
  PROVE  ~Orderable(s)
<1>1. s \in Scripts /\ s \in Traders BY DEF Single, Scripts, ScriptOf, Traders
<1>2. LotQty[s] \in Nat /\ OrderQty[s] \in Nat /\ LotQty[s] < 2 * OrderQty[s] /\ stock[s] \in Nat
  BY <1>1, ImportsAssumption, QuantitiesAssumption
     DEF ImportsAssumption, QuantitiesAssumption, ImportsInv, Single
<1>3. SUFFICES ASSUME There(<<s, "lot">>), stock[s] >= OrderQty[s] PROVE FALSE BY DEF Orderable
<1>4. PICK q \in Seq(OrderStates) : q = orders[s] BY <1>1 DEF ImportsInv
<1>5. PICK n \in Nat : n = LiveOrders(s) /\ 1 <= n
  <2>1. LiveOrders(s) = Cardinality(LiveSpots(q)) BY <1>4 DEF LiveOrders, LiveSpots
  <2>2. LiveSpots(q) # {} BY <1>4 DEF Sold, LiveSpots, Live
  <2>3. IsFiniteSet(LiveSpots(q)) /\ Cardinality(LiveSpots(q)) \in Nat BY LiveIs
  <2>4. Cardinality(LiveSpots(q)) # 0 BY <2>2, <2>3, FS_EmptySet, Zenon
  <2> QED BY <2>1, <2>3, <2>4
<1>6. stock[s] + OrderQty[s] * n = LotQty[s] BY <1>1, <1>3, <1>5 DEF Stocked
<1>7. 1 * OrderQty[s] <= n * OrderQty[s] BY <1>2, <1>5, Multiples
<1>8. OrderQty[s] * n = n * OrderQty[s] /\ n * OrderQty[s] \in Nat BY <1>2
<1> QED BY <1>2, <1>3, <1>6, <1>7, <1>8

(* Who has sold has; a sale is what pays or delivers.                      *)
LEMMA DoSold ==
  ASSUME ImportsInv, LastIsLive, NEW s \in Scripts, Do(s)
  PROVE  /\ Sold(s) => Sold(s)'
         /\ Now(s).op \in {"pay", "deliver"} => Sold(s)'
         /\ Now(s).op \notin {"pay", "deliver"} => (Sold(s)' <=> Sold(s))
<1>1. PICK q \in Seq(OrderStates) : q = orders[s] BY DEF ImportsInv
<1>2. PICK p : p = orders'[s] OBVIOUS
<1>3. Sold(s) <=> \E i \in DOMAIN q : q[i] \in {"PAID", "COMPLETED"} BY <1>1 DEF Sold
<1>4. Sold(s)' <=> \E i \in DOMAIN p : p[i] \in {"PAID", "COMPLETED"} BY <1>2 DEF Sold
<1>5. DOMAIN q = 1..Len(q) /\ Len(q) \in Nat BY <1>1
<1>6. CASE p = q /\ Now(s).op \notin {"pay", "deliver"} BY <1>3, <1>4, <1>6
<1>7. CASE p = Append(q, "PLACED") /\ Now(s).op \notin {"pay", "deliver"}
  <2>1. /\ DOMAIN p = 1..(Len(q) + 1) /\ p[Len(q) + 1] = "PLACED"
        /\ \A i \in 1..Len(q) : p[i] = q[i]
    BY <1>7
  <2>2. \A i : i \in 1..(Len(q) + 1) <=> i \in 1..Len(q) \/ i = Len(q) + 1 BY <1>5
  <2> QED BY <1>3, <1>4, <1>5, <1>7, <2>1, <2>2
<1>8. CASE Now(s).op \in {"pay", "deliver"}
  <2>1. PICK state \in {"PAID", "COMPLETED"} : p = [q EXCEPT ![Len(q)] = state]
    BY <1>1, <1>2, <1>8, DoStock
  <2>2. Running(s) /\ Now(s) \in StepsOf(s) BY DoRuns DEF ImportsInv
  <2>3. q # << >> BY <1>1, <1>8, <2>2, WhatIsPaid
  <2>4. Len(q) \in DOMAIN q BY <1>5, <2>3
  <2>5. p[Len(q)] = state /\ Len(q) \in DOMAIN p BY <2>1, <2>4
  <2> QED BY <1>4, <1>8, <2>5
<1> QED BY <1>1, <1>2, <1>6, <1>7, <1>8, DoStock

LEMMA SingleIs ==
  ASSUME NEW s \in Single
  PROVE  /\ s \in Scripts /\ s \in Traders /\ "place" \in LonelyOf[s] /\ "pay" \in LonelyOf[s]
         /\ "some" \notin LonelyOf[s] /\ "declaration" \in AlwaysOf[s]
         /\ \A k \in AlwaysOf[s] : AlwaysRank(k) \in 33..36
         /\ AlwaysRank("declaration") = 36
BY DEF Single, Scripts, ScriptOf, Traders, LonelyOf, AlwaysOf, AlwaysRank, RankOf

(* Where a run stands with its order.                                      *)
LEMMA Standing ==
  ASSUME RunsInv, NEW s \in Single, Do(s)
  PROVE  /\ Now(s).op = "place" => NowRank(s) = 29 /\ ~Selling(s) /\ ~PaidFor(s)
         /\ Now(s).op = "pay" => NowRank(s) = 32 /\ Selling(s) /\ ~PaidFor(s)
         /\ Now(s).op = "deliver" => PaidFor(s)
         /\ Now(s).op = "always" => PaidFor(s)
         /\ PaidFor(s) => Selling(s)
         /\ Ended(s) => PaidFor(s)
<1>1. s \in Scripts BY SingleIs
<1>2. Running(s) /\ Now(s) \in StepsOf(s) /\ NowRank(s) \in Nat
  <2>1. Rank(Now(s)) \in 1..39 BY <1>1, DoRuns, InOrder DEF Now
  <2> QED BY <1>1, <2>1, DoRuns DEF NowRank
<1>3. /\ Now(s).op = "place" => NowRank(s) = 29
      /\ Now(s).op = "pay" => NowRank(s) = 32
      /\ Now(s).op = "deliver" => NowRank(s) = 38
  BY <1>1, <1>2, LonelyNow, Placing
<1>4. Now(s).op = "always" => NowRank(s) \in 33..36
  <2>1. SUFFICES ASSUME Now(s).op = "always" PROVE NowRank(s) \in 33..36 OBVIOUS
  <2>2. PICK k \in AlwaysOf[s] : Now(s) = Step("always", s, k, k) BY <1>1, <1>2, <2>1, Forms
  <2> QED BY <1>1, <2>2, RanksOf, SingleIs DEF NowRank
<1>5. Ended(s) => NowRank(s) >= 36
  <2>1. SUFFICES ASSUME Ended(s) PROVE NowRank(s) >= 36 OBVIOUS
  <2> DEFINE u == Step("always", s, "declaration", "declaration")
  <2>2. u \in StepsOf(s) /\ Rank(u) = 36 /\ u.op = "always" BY <1>1, SingleIs, RanksOf, StepIs
  <2> HIDE DEF u
  <2>3. NowRank(s) > Rank(u) \/ Now(s) = u BY <1>1, <2>1, <2>2, PassesAll
  <2> QED BY <1>2, <2>2, <2>3 DEF NowRank
<1> QED BY <1>2, <1>3, <1>4, <1>5 DEF Selling, PaidFor

(* How a run gets further.                                                 *)
LEMMA Furthers ==
  ASSUME ImportsInv, Stocked, LastIsLive, NEW s \in Single, Do(s), Moved(s)
  PROVE  /\ Running(s)' /\ (Selling(s) => Selling(s)') /\ (PaidFor(s) => PaidFor(s)')
         /\ Selling(s)' => Selling(s) \/ (Now(s).op = "place" /\ ~Sold(s))
         /\ PaidFor(s)' => PaidFor(s) \/ Now(s).op = "pay"
         /\ Now(s).op = "pay" => PaidFor(s)'
<1>1. s \in Scripts /\ RunsInv BY SingleIs DEF ImportsInv
<1>2. Running(s)'
  <2>1. \A i \in Spots(s) : 1 <= i BY <1>1, SpotsAre
  <2> QED BY <2>1 DEF Moved, Running
<1>3. /\ NowRank(s) \in 1..39 /\ NowRank(s)' \in 1..39 /\ NowRank(s) <= NowRank(s)'
      /\ Now(s).op # "new" => NowRank(s) < NowRank(s)'
  BY <1>1, NextRank
<1>4. Running(s) BY <1>1, DoRuns
<1> DEFINE t == Step("place", s, "place", "place")
           u == Step("pay", s, "pay", "pay")
<1>5. /\ t \in StepsOf(s) /\ Rank(t) = 29 /\ t.op = "place"
      /\ u \in StepsOf(s) /\ Rank(u) = 32 /\ u.op = "pay"
  <2>1. Whose(s, "place") = s /\ Whose(s, "pay") = s BY <1>1, KindsApart
  <2>2. "place" \in LonelyOf[s] /\ "pay" \in LonelyOf[s] BY SingleIs
  <2> QED BY <1>1, <2>1, <2>2, RanksOf, StepIs, Placing
<1> HIDE DEF t, u
<1>6. Selling(s)' => Selling(s) \/ (Now(s).op = "place" /\ ~Sold(s))
  <2>1. Selling(s)' => NowRank(s) > 29 \/ Now(s) = t BY <1>1, <1>2, <1>5, PassesBy DEF Selling
  <2>2. Now(s) = t => ~Sold(s)
    <3>1. SUFFICES ASSUME Now(s).op = "place", Sold(s) PROVE FALSE BY <1>5
    <3>2. ~Orderable(s) BY <3>1, SoldOut
    <3>3. Throw(s) BY <1>1, <3>1, <3>2, DoStock
    <3>4. runs'[s].at = 0 BY <1>1, <3>3, ThrowIs
    <3> QED BY <1>2, <3>4 DEF Running
  <2> QED BY <1>4, <1>5, <2>1, <2>2 DEF Selling
<1>7. PaidFor(s)' => PaidFor(s) \/ Now(s).op = "pay"
  <2>1. PaidFor(s)' => NowRank(s) > 32 \/ Now(s) = u BY <1>1, <1>2, <1>5, PassesBy DEF PaidFor
  <2> QED BY <1>4, <1>5, <2>1 DEF PaidFor
<1>8. Now(s).op = "pay" => PaidFor(s)'
  <2>1. Now(s).op = "pay" => NowRank(s) = 32 BY <1>1, Standing
  <2> QED BY <1>2, <1>3, <2>1 DEF PaidFor
<1> QED BY <1>2, <1>3, <1>6, <1>7, <1>8 DEF Selling, PaidFor

(* The papers that a step leaves.                                          *)
LEMMA PapersAfter ==
  ASSUME ImportsInv, RowsCounted, NEW s \in Single, SellsOnce(s), Do(s), NEW t \in Repeats(s)
  PROVE  /\ Copies(t.row)' = IF t = Now(s) THEN Copies(t.row) + 1 ELSE Copies(t.row)
         /\ Before(s, t.row, runs[s].at + 1) =
              IF t = Now(s) THEN Before(s, t.row, runs[s].at) + 1 ELSE Before(s, t.row, runs[s].at)
         /\ Before(s, t.row, runs[s].at) \in Nat /\ Copies(t.row) \in Nat /\ All(s, t.row) \in Nat
         /\ Before(s, t.row, runs[s].at + 1) <= All(s, t.row)
<1>1. s \in Scripts /\ RunsInv BY SingleIs DEF ImportsInv
<1>2. t \in StepsOf(s) /\ t.op = "always" /\ t.op \in Writing BY DEF Repeats, Writing
<1>3. Now(s) \in StepsOf(s) /\ runs[s].at \in Spots(s) /\ Now(s) = ScriptOf[s][runs[s].at]
  BY <1>1, DoRuns DEF Now
<1>4. t = Now(s) => Writable(s) BY <1>2 DEF Writable, Write
<1>5. Copies(t.row)' = IF t = Now(s) THEN Copies(t.row) + 1 ELSE Copies(t.row)
  BY <1>1, <1>2, <1>3, <1>4, CopiesAfter
<1>6. PICK i \in Spots(s) : i = runs[s].at /\ ScriptOf[s][i] = Now(s) BY <1>3
<1>7. Before(s, t.row, i + 1) = IF Now(s) = t THEN Before(s, t.row, i) + 1 ELSE Before(s, t.row, i)
  BY <1>1, <1>2, <1>6, Counted
<1>8. Before(s, t.row, i + 1) <= All(s, t.row) /\ All(s, t.row) \in Nat BY <1>1, <1>6, AllOf
<1>9. Before(s, t.row, i) \in Nat /\ Copies(t.row) \in Nat BY <1>1, WritesAre, CopiesAre
<1> QED BY <1>5, <1>6, <1>7, <1>8, <1>9

LEMMA StepSells ==
  ASSUME ImportsInv, RowsCounted, Stocked, LastIsLive, NEW s \in Single, SellsOnce(s), Do(s)
  PROVE  SellsOnce(s)'
<1>1. s \in Scripts /\ RunsInv BY SingleIs DEF ImportsInv
<1>2. runs[s].done \in 0..1 BY DEF SellsOnce
<1>3. Repeats(s)' = Repeats(s) OBVIOUS
<1>4. Sold(s) => Sold(s)' BY <1>1, DoSold
<1>5. CASE Ended(s)
  <2>1. PaidFor(s) /\ Selling(s) /\ Sold(s) BY <1>1, <1>5, Standing DEF SellsOnce
  <2>2. runs[s].done = 0 /\ runs'[s].done = 1
    <3>1. runs[s].done # 1 BY <2>1 DEF SellsOnce
    <3>2. runs[s].done = 0 BY <1>2, <3>1
    <3> QED BY <1>5, <3>2 DEF Ended
  <2>3. ~Selling(s)' /\ ~PaidFor(s)' BY <1>5 DEF Ended, Selling, PaidFor, Running
  <2>4. ASSUME NEW t \in Repeats(s) PROVE Copies(t.row)' <= All(s, t.row)
    <3>1. Copies(t.row) <= Before(s, t.row, runs[s].at) BY <2>1 DEF SellsOnce
    <3> QED BY <3>1, PapersAfter
  <2> QED BY <1>3, <1>4, <2>1, <2>2, <2>3, <2>4 DEF SellsOnce
<1>6. CASE Moved(s)
  <2>1. runs'[s].done = runs[s].done /\ runs'[s].at = runs[s].at + 1 BY <1>6 DEF Moved
  <2>2. /\ Running(s)' /\ (Selling(s) => Selling(s)') /\ (PaidFor(s) => PaidFor(s)')
        /\ Selling(s)' => Selling(s) \/ (Now(s).op = "place" /\ ~Sold(s))
        /\ PaidFor(s)' => PaidFor(s) \/ Now(s).op = "pay"
        /\ Now(s).op = "pay" => PaidFor(s)'
    BY <1>6, Furthers
  <2>3. runs'[s].done = 1 => Sold(s)' /\ ~Selling(s)' BY <1>4, <2>1, <2>2 DEF SellsOnce
  <2>4. PaidFor(s)' => Sold(s)' BY <1>1, <1>4, <2>2, DoSold DEF SellsOnce
  <2>5. Selling(s)' /\ ~PaidFor(s)' => ~Sold(s)'
    <3>1. SUFFICES ASSUME Selling(s)', ~PaidFor(s)' PROVE ~Sold(s)' OBVIOUS
    <3>2. ~Sold(s) BY <2>2, <3>1 DEF SellsOnce
    <3>3. Now(s).op \notin {"pay", "deliver"} BY <1>1, <2>2, <3>1, Standing
    <3> QED BY <1>1, <3>2, <3>3, DoSold
  <2>6. ASSUME NEW t \in Repeats(s)
        PROVE  Copies(t.row)' <= IF PaidFor(s)' THEN Before(s, t.row, runs[s].at + 1)
                                 ELSE IF Sold(s)' THEN All(s, t.row) ELSE 0
    <3>1. CASE PaidFor(s)
      <4>1. Copies(t.row) <= Before(s, t.row, runs[s].at) BY <3>1 DEF SellsOnce
      <4> QED BY <2>2, <3>1, <4>1, PapersAfter
    <3>2. CASE ~PaidFor(s)
      <4>1. t # Now(s) BY <1>1, <3>2, Standing DEF Repeats
      <4>2. Copies(t.row) <= IF Sold(s) THEN All(s, t.row) ELSE 0 BY <3>2 DEF SellsOnce
      <4>3. PaidFor(s)' => ~Sold(s) BY <1>1, <2>2, <3>2, Standing DEF SellsOnce
      <4> QED BY <1>4, <4>1, <4>2, <4>3, PapersAfter
    <3> QED BY <3>1, <3>2
  <2> QED BY <1>2, <1>3, <2>1, <2>3, <2>4, <2>5, <2>6 DEF SellsOnce
<1>7. CASE Threw(s)
  <2>1. runs'[s].done = runs[s].done /\ ~Selling(s)' /\ ~PaidFor(s)' /\ orders' = orders
    BY <1>7 DEF Threw, Throw, Selling, PaidFor, Running
  <2>2. Sold(s)' <=> Sold(s) BY <2>1 DEF Sold
  <2>3. Now(s).op \in {"lot", "place"} BY <1>7 DEF Threw
  <2>4. ~PaidFor(s)
    <3>1. Now(s) \in StepsOf(s) BY <1>1, DoRuns
    <3>2. NowRank(s) \in {28, 29}
      <4>1. PICK op \in {"lot", "place"} : Now(s).op = op BY <2>3
      <4>2. NowRank(s) = RankOf[op] BY <1>1, <3>1, <4>1, LonelyNow
      <4> QED BY <4>1, <4>2 DEF RankOf
    <3> QED BY <3>2 DEF PaidFor
  <2>5. ASSUME NEW t \in Repeats(s) PROVE Copies(t.row)' <= IF Sold(s) THEN All(s, t.row) ELSE 0
    <3>1. t # Now(s) BY <2>3 DEF Repeats
    <3>2. Copies(t.row) <= IF Sold(s) THEN All(s, t.row) ELSE 0 BY <2>4 DEF SellsOnce
    <3> QED BY <3>1, <3>2, PapersAfter
  <2> QED BY <1>2, <1>3, <1>4, <2>1, <2>2, <2>5 DEF SellsOnce
<1> QED BY <1>1, <1>5, <1>6, <1>7, DoRuns

LEMMA OthersSell ==
  ASSUME ImportsInv, RowsCounted, NEW s \in Scripts, Do(s), NEW z \in Single \ {s}, SellsOnce(z)
  PROVE  SellsOnce(z)'
<1>1. z \in Scripts /\ RunsInv BY SingleIs DEF ImportsInv
<1>2. runs'[z] = runs[z] /\ orders'[z] = orders[z] /\ Now(s) \in StepsOf(s) BY <1>1, DoRuns, DoStock
<1>3. (Selling(z)' <=> Selling(z)) /\ (PaidFor(z)' <=> PaidFor(z)) /\ (Sold(z)' <=> Sold(z))
  BY <1>2 DEF Selling, PaidFor, Sold, Running, NowRank, Now
<1>4. ASSUME NEW t \in Repeats(z) PROVE Copies(t.row)' = Copies(t.row)
  <2>1. t \in StepsOf(z) BY DEF Repeats
  <2> QED BY <1>1, <1>2, <2>1, CopiesAfter
<1>5. Repeats(z)' = Repeats(z) OBVIOUS
<1> QED BY <1>2, <1>3, <1>4, <1>5 DEF SellsOnce

LEMMA QuietSells ==
  ASSUME ImportsInv, OnceInv, Quiet, NEW z \in Single, SellsOnce(z)
  PROVE  SellsOnce(z)'
<1>1. z \in Scripts /\ RunsInv /\ RowsCounted /\ NothingFresh BY SingleIs DEF ImportsInv, OnceInv
<1>2. Sold(z)' <=> Sold(z)
  <2>1. orders \in [Scripts -> Seq(OrderStates)] BY DEF ImportsInv
  <2>2. ASSUME NEW s \in Scripts, Sweep(s) PROVE Sold(z)' <=> Sold(z)
    <3>1. PICK i \in DOMAIN orders[s] :
            orders[s][i] = "PLACED" /\ orders' = [orders EXCEPT ![s][i] = "CANCELLED"]
      BY <2>2 DEF Sweep
    <3>2. CASE z = s
      <4>1. PICK q \in Seq(OrderStates) : q = orders[s] BY <2>1
      <4>2. PICK p : p = [q EXCEPT ![i] = "CANCELLED"] OBVIOUS
      <4>3. orders'[s] = p BY <2>1, <3>1, <4>1, <4>2
      <4>4. DOMAIN p = DOMAIN q /\ p[i] = "CANCELLED" /\ \A j \in DOMAIN q : j # i => p[j] = q[j]
        BY <3>1, <4>1, <4>2
      <4>5. q[i] = "PLACED" BY <3>1, <4>1
      <4>6. (\E j \in DOMAIN p : p[j] \in {"PAID", "COMPLETED"})
              <=> \E j \in DOMAIN q : q[j] \in {"PAID", "COMPLETED"}
        BY <4>4, <4>5
      <4> QED BY <3>2, <4>1, <4>3, <4>6 DEF Sold
    <3>3. CASE z # s
      <4>1. orders'[z] = orders[z] BY <1>1, <2>1, <3>1, <3>3
      <4> QED BY <4>1 DEF Sold
    <3> QED BY <3>2, <3>3
  <2>3. CASE UNCHANGED <<stock, orders>> BY <2>3 DEF Sold
  <2> QED BY <2>2, <2>3 DEF Quiet
<1>3. ASSUME NEW t \in Repeats(z) PROVE Copies(t.row)' = Copies(t.row)
  <2>1. t \in StepsOf(z) BY DEF Repeats
  <2>2. t.op \in Writing /\ ~(t.op = "new" /\ t.row[2] = "approved") BY <1>1, <2>1, OnceIs
  <2>3. t.row # Buyer BY <1>1, <2>1, <2>2, NotBuyer
  <2> QED BY <1>1, <2>3, QuietRows
<1>4. Repeats(z)' = Repeats(z) OBVIOUS
<1>5. runs'[z].done = runs[z].done BY <1>1, QuietDone
<1>6. CASE runs'[z] = runs[z]
  <2>1. (Selling(z)' <=> Selling(z)) /\ (PaidFor(z)' <=> PaidFor(z))
    BY <1>6 DEF Selling, PaidFor, Running, NowRank, Now
  <2> QED BY <1>2, <1>3, <1>4, <1>6, <2>1 DEF SellsOnce
<1>7. CASE ~Selling(z)' /\ ~PaidFor(z)'
  <2>1. ASSUME NEW t \in Repeats(z) PROVE Copies(t.row)' <= IF Sold(z)' THEN All(z, t.row) ELSE 0
    <3>1. PaidFor(z) => Sold(z) BY DEF SellsOnce
    <3>2. Copies(t.row) <= IF PaidFor(z) THEN Before(z, t.row, runs[z].at)
                           ELSE IF Sold(z) THEN All(z, t.row) ELSE 0
      BY DEF SellsOnce
    <3>3. /\ Before(z, t.row, runs[z].at) <= All(z, t.row) /\ Before(z, t.row, runs[z].at) \in Nat
          /\ All(z, t.row) \in Nat /\ Copies(t.row) \in Nat
      BY <1>1, BeforeAll, WritesAre, AllOf, CopiesAre
    <3> QED BY <1>2, <1>3, <3>1, <3>2, <3>3
  <2> QED BY <1>2, <1>4, <1>5, <1>7, <2>1 DEF SellsOnce
<1>8. CASE Begun(z)
  <2> DEFINE t == Step("place", z, "place", "place")
  <2>1. t \in StepsOf(z) /\ Rank(t) = 29 /\ t.op = "place"
    <3>1. Whose(z, "place") = z BY <1>1, KindsApart
    <3>2. "place" \in LonelyOf[z] BY SingleIs
    <3> QED BY <1>1, <3>1, <3>2, RanksOf, StepIs, Placing
  <2> HIDE DEF t
  <2>2. ~(NowRank(z)' > 29) BY <1>1, <1>8, <2>1, BegunRank
  <2>3. ~(NowRank(z)' > 32)
    <3>1. NowRank(z)' \in 1..39
      <4>1. runs'[z].at = 1 BY <1>8 DEF Begun
      <4>2. 1 \in Spots(z) BY <1>1, NotEmpty DEF Spots
      <4>3. Rank(ScriptOf[z][1]) \in 1..39 BY <1>1, <4>2, InOrder
      <4> QED BY <4>1, <4>3 DEF NowRank, Now
    <3> QED BY <2>2, <3>1
  <2> QED BY <1>7, <2>2, <2>3 DEF Selling, PaidFor
<1>9. CASE ~Running(z)' BY <1>7, <1>9 DEF Selling, PaidFor
<1> QED BY <1>1, <1>6, <1>8, <1>9, QuietRuns

LEMMA SoldInit == Init => SoldOnce
<1> SUFFICES ASSUME Init, NEW s \in Single PROVE SellsOnce(s) BY DEF SoldOnce
<1>1. s \in Scripts BY SingleIs
<1>2. runs[s].at = 0 /\ runs[s].done = 0 /\ orders[s] = << >> BY <1>1 DEF Init, ImportsInit
<1>3. \A r : Copies(r) = 0
  <2>1. DOMAIN rows = {} BY DEF Init, ImportsInit, EmptyBag, SetToBag
  <2> QED BY <2>1 DEF There, BagIn, BagToSet, Copies
<1>4. ~Running(s) /\ ~Sold(s) BY <1>2 DEF Running, Sold
<1> QED BY <1>2, <1>3, <1>4 DEF SellsOnce, Selling, PaidFor

LEMMA SoldStep ==
  ASSUME UpkeepInv, SalesInv, SoldOnce, [Next]_vars
  PROVE  SoldOnce'
<1>1. ImportsInv /\ OnceInv /\ RowsCounted /\ NothingFresh /\ Stocked /\ LastIsLive
  BY DEF UpkeepInv, SalesInv, OnceInv
<1>2. CASE Quiet BY <1>1, <1>2, QuietSells DEF SoldOnce
<1>3. ASSUME NEW s \in Scripts, Do(s), NEW z \in Single PROVE SellsOnce(z)'
  <2>1. SellsOnce(z) BY DEF SoldOnce
  <2>2. CASE z = s BY <1>1, <1>3, <2>1, <2>2, StepSells
  <2>3. CASE z # s BY <1>1, <1>3, <2>1, <2>3, OthersSell
  <2> QED BY <2>2, <2>3
<1> QED BY <1>1, <1>2, <1>3, StepIsQuiet DEF SoldOnce

LEMMA SoldInvariance == Spec => [](UpkeepInv /\ SalesInv /\ SoldOnce)
<1>1. Init => UpkeepInv /\ SalesInv /\ SoldOnce BY UpkeepInit, OnceInit, SuccessInit, SoldInit DEF SalesInv
<1>2. UpkeepInv /\ SalesInv /\ SoldOnce /\ [Next]_vars => UpkeepInv' /\ SalesInv' /\ SoldOnce'
  BY UpkeepStep, SalesStep, SoldStep
<1> QED BY <1>1, <1>2, PTL DEF Spec

-----------------------------------------------------------------------------
LEMMA OnceMeans == RunsInv /\ OnceInv /\ SoldOnce => OnceEach
<1> SUFFICES ASSUME RunsInv, OnceInv, SoldOnce, NEW s \in Scripts, NEW r \in RowsOf[s],
                    r[2] \notin Doubled, r \notin Anew
             PROVE  Copies(r) <= Times[s][r]
  BY DEF OnceEach
<1>1. PICK i \in Writers(s) : ScriptOf[s][i].row = r BY DEF RowsOf
<1> DEFINE t == ScriptOf[s][i]
<1>2. i \in Spots(s) /\ t.op \in Writing /\ t \in StepsOf(s) /\ t.row = r BY <1>1, WritersAre, InOrder
<1> HIDE DEF t
<1>3. Times[s][r] = All(s, r) /\ All(s, r) \in Nat BY AllOf
<1>4. Copies(r) \in Nat BY CopiesAre DEF OnceInv
<1>5. CASE t.op \in {"own", "lot"}
  <2>1. Copies(r) <= 1 BY <1>2, <1>5 DEF OnceInv, OwnOnce
  <2>2. 1 <= All(s, r) BY <1>2, <1>5, AllSome
  <2> QED BY <1>3, <1>4, <2>1, <2>2
<1>6. CASE t.op = "new"
  <2>1. t \in Numbered(s) BY <1>2, <1>6 DEF Numbered
  <2>2. Copies(r) <= IF Fresh(s, t.gate) THEN Before(s, r, runs[s].at) ELSE All(s, r)
    BY <1>2, <2>1 DEF OnceInv, NewInTurn
  <2>3. Fresh(s, t.gate) => Before(s, r, runs[s].at) <= All(s, r) BY BeforeAll
  <2> QED BY <1>3, <1>4, <2>2, <2>3, WritesAre
<1>7. CASE t.op = "always"
  <2>1. PICK k \in AlwaysOf[s] : t = Step("always", s, k, k) BY <1>2, <1>7, Forms
  <2>2. t.row = <<s, k>> /\ t.row[2] = k BY <2>1, StepIs
  <2>3. r = <<s, k>> /\ r[2] = k BY <1>2, <2>2
  <2>4. s \in Single
    <3>1. k \in Doubled \/ <<s, k>> \in Anew \/ s \in Single
      BY DEF AlwaysOf, Doubled, Anew, Single, Scripts, ScriptOf
    <3> QED BY <2>3, <3>1
  <2>5. t \in Repeats(s) BY <1>2, <1>7 DEF Repeats
  <2>6. Copies(r) <= IF PaidFor(s) THEN Before(s, r, runs[s].at) ELSE IF Sold(s) THEN All(s, r) ELSE 0
    BY <1>2, <2>4, <2>5 DEF SoldOnce, SellsOnce
  <2>7. Before(s, r, runs[s].at) <= All(s, r) BY BeforeAll
  <2> QED BY <1>3, <1>4, <2>6, <2>7, WritesAre
<1> QED BY <1>2, <1>5, <1>6, <1>7 DEF Writing

(* Whatever is killed and run again, no import leaves a row more often     *)
(* than one run of it writes the row, but for what has no number (Doubled, *)
(* and the demo's contacts) and the contract that Liangmei's registers     *)
(* anew with each order: what a script looks for (ensureParty, the lists   *)
(* and counts before each POST) is there once it was written, and the      *)
(* papers of an order are written once because HZB and Tuopai sell once.   *)
THEOREM NothingComesTwice == Spec => []OnceEach
<1>1. UpkeepInv /\ SalesInv /\ SoldOnce => OnceEach BY OnceMeans DEF UpkeepInv, ImportsInv, SalesInv
<1> QED BY <1>1, SoldInvariance, PTL

LEMMA SellersEndOnce == SoldOnce => EndsOnce
<1> SUFFICES ASSUME SoldOnce, NEW s \in {"hzb", "tuopai"} PROVE runs[s].done <= 1 BY DEF EndsOnce
<1>1. runs[s].done \in 0..1 BY DEF SoldOnce, SellsOnce, Single
<1> QED BY <1>1

(* The imports of apps/api/scripts can be killed at any step and run       *)
(* again, in any order and beside all that Upkeep does: nothing is there   *)
(* twice but what Doubled and Anew name, what was not interrupted is       *)
(* whole, HZB and Tuopai have one live order at most and end once, and an  *)
(* import throws only where it was cut off before, where the lots are used *)
(* up, or where the buyer waits for his approval.                          *)
THEOREM ImportsRepeat == Spec => []ImportsRepeatable
<1> DEFINE Inv == UpkeepInv /\ SalesInv /\ SoldOnce /\ Whole
<1>1. Init => Inv BY UpkeepInit, OnceInit, SuccessInit, SoldInit, WholeInit DEF SalesInv
<1>2. Inv /\ [Next]_vars => Inv'
  <2> SUFFICES ASSUME Inv, [Next]_vars PROVE Inv' OBVIOUS
  <2>1. ImportsInv /\ RunsInv /\ OnceInv /\ RowsCounted /\ NothingFresh /\ Stepped
    BY DEF UpkeepInv, ImportsInv, SalesInv, OnceInv, SuccessInv
  <2>2. CASE Quiet BY <2>1, <2>2, QuietWhole, UpkeepStep, SalesStep, SoldStep
  <2>3. CASE \E s \in Scripts : Do(s) BY <2>1, <2>3, StepWhole, UpkeepStep, SalesStep, SoldStep
  <2> QED BY <2>1, <2>2, <2>3, StepIsQuiet
<1>3. Inv => TypeOK BY UpkeepIsTyped
<1>4. Inv => OnceEach /\ UninterruptedIsWhole /\ OneLiveOrder /\ EndsOnce /\ FirstRunSucceeds
  BY OnceMeans, WholeMeans, OneOrderLives, SellersEndOnce DEF UpkeepInv, ImportsInv, SalesInv, SuccessInv
<1>5. Inv => ImportsRepeatable BY <1>3, <1>4 DEF ImportsRepeatable
<1> QED BY <1>1, <1>2, <1>5, PTL DEF Spec
=============================================================================
