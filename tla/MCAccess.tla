----------------------------- MODULE MCAccess -----------------------------
(***************************************************************************)
(* Instances of Access for TLC.                                            *)
(***************************************************************************)
EXTENDS Access, TLC

CONSTANTS u1, u2, b1, b2, t1, t2, t3, k1, k2, k3, k4, a1, a2, d1, d2, e1, o1

(* Two browsers of u1, the first with two tabs.                            *)
Owners == b1 :> u1 @@ b2 :> u1
Tabbed == t1 :> b1 @@ t2 :> b1 @@ t3 :> b2
Calling == k1 :> t1 @@ k2 :> t1 @@ k3 :> t2 @@ k4 :> t3
Trade == o1 :> {u1, u2}
Asked == d1 :> <<u1, "DELETE">> @@ d2 :> <<u1, "DELETE">> @@ e1 :> <<u1, "EXPORT">>

(* Calls of two tabs and of two browsers; a call and the forms of its own  *)
(* or of the other browser; forms of both; a refresh that crashes; one     *)
(* clerk with forms, calls, a crash or orders in between; two of a kind.   *)
Teamwork ==
  {{k1, k2, k3}, {k1, k4}, {k1, b1}, {k1, b2}, {b1, b2, "mfa"}, {k4, "crash"},
   {d1, d2, a1}, {d1, e1, a1}, {d1, e1, a1, a2}, {d1, a1, b1}, {d1, a1, k1},
   {e1, a1, "crash"}, {d1, a1, "order"}}

=============================================================================
