--------------------------- MODULE MCFulfillment ---------------------------
(***************************************************************************)
(* Instances of Fulfillment for TLC.                                       *)
(***************************************************************************)
EXTENDS Fulfillment, TLC

CONSTANTS t1, x1, x2, m1, m2,
          s1, s2, f1, u1, k1, r1, r2, p1, p2, g1, i1, i2, y1

(* Two permits of one number.                                              *)
Ages == x1 :> 1 @@ x2 :> 2
Bases == x1 :> "A" @@ x2 :> "A"

(* A scan that may crash, or two scans, or one of documents; uploads and   *)
(* copies; registrations that race, on to the shipment and its log;        *)
(* deductions that race; the migration, and deductions in between.         *)
Teamwork ==
  {{s1, "crash"}, {s1, s2}, {f1, s1}, {f1, u1, k1}, {f1, r1, r2, p1, p2},
   {f1, r1, g1}, {r1, g1, "crash"}, {i1}, {i1, i2}, {y1}, {i1, y1}}

Interchangeable == Permutations({m1, m2})
=============================================================================
