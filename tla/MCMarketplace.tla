--------------------------- MODULE MCMarketplace ---------------------------
(***************************************************************************)
(* Instances of Marketplace for TLC.                                       *)
(***************************************************************************)
EXTENDS Marketplace, TLC

(* No instalments: the whole price is paid at once.                        *)
OneShot == [o \in Orders |-> << >>]

(* A deposit that does not hold the shipment up, and a balance that does.  *)
DepositAndBalance ==
  [o \in Orders |-> << [amount |-> 40, blocks |-> FALSE], [amount |-> 60, blocks |-> TRUE] >>]

(* Clients are interchangeable.                                            *)
ClientSymmetry == Permutations(Clients)
=============================================================================
