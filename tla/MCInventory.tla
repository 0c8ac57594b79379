---------------------------- MODULE MCInventory ----------------------------
(***************************************************************************)
(* Instances of Inventory for TLC.                                         *)
(***************************************************************************)
EXTENDS Inventory, TLC

CONSTANTS r1, r2, r3

(* One order needs two units, so that it can be split over two lots.       *)
Wanted == [r \in Refs |-> IF r = r1 THEN 2 ELSE 1]

(* Orders that ask for the same are interchangeable.                       *)
LastTwo == Permutations(Refs \ {r1})
=============================================================================
