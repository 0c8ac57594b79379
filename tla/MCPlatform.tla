----------------------------- MODULE MCPlatform -----------------------------
(***************************************************************************)
(* Instances of Platform for TLC.                                          *)
(***************************************************************************)
EXTENDS Platform, TLC

CONSTANTS t1, t2, s1, s2, s3, z1, w1, w2, c1, c2, a1, a2, b1, r1, r2, r3, m1, m2,
          k1, q1, x1, e1, e2, v1, v2, g1, h1, u1, i1, y1, d1, d2, o1

(* w1 is a trader, w2 one of the staff.                                    *)
Authors == s1 :> w1 @@ s2 :> w1 @@ s3 :> w1 @@ z1 :> w2
Themes == s1 :> c1 @@ s2 :> c1 @@ s3 :> c2 @@ z1 :> c1
Bellman == b1 :> a1
Addresses == r1 :> m1 @@ r2 :> m2 @@ r3 :> m1
Owned == e1 :> 1 @@ e2 :> 1
Allowed == d1 :> {"BUYER"} @@ d2 :> {}

(* Escalations told with failures; their bell; grants; messages of one     *)
(* user and of the staff; registrations and reviews; contacts; the         *)
(* catalog; translations with two firings; the trace; the policies.        *)
Teamwork ==
  {{q1, r1, t1, t2}, {q1, t1, "fail"}, {q1, t1, b1}, {q1, a1}, {s1, s2, s3, z1},
   {r1, r2, r3}, {r1, x1}, {k1}, {e1, e2, v1, v2}, {e1, v1, v2, "cross"},
   {e1, v1, t1, t2, y1}, {g1, h1, "cross"}, {g1, h1, u1, i1}, {d1, d2, o1}}

(* An edit while a reviewer looks.                                         *)
Crossing == {{e1, v1, "cross"}}
=============================================================================
