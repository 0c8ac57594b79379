------------------------------ MODULE MCUpkeep ------------------------------
(***************************************************************************)
(* Instances of Upkeep for TLC.                                            *)
(***************************************************************************)
EXTENDS Upkeep, TLC

(* A copy of Jinglin, one of HZB, and the companies of two smoke tests.    *)
Names ==
  [o \in {"HZB", "Jinglin", "Tuopai", "Liangmei"} |-> o]
  @@ "copyJ" :> "Jinglin" @@ "copyH" :> "HZB" @@ "x1" :> "X1" @@ "y1" :> "X1"
Companies == DOMAIN Names
TestedBy == "clean" :> {"Jinglin", "HZB", "X1"} @@ "smoke1" :> {"X1"}

Suppliers == {"HZB", "Tuopai", "Liangmei", "x1", "copyH"}

Kilos == "hzb" :> 50 @@ "tuopai" :> 15 @@ "liangmei" :> 20 @@ "demo" :> 200 @@ "french" :> 0
Ordered == "hzb" :> 50 @@ "tuopai" :> 11 @@ "liangmei" :> 5 @@ "demo" :> 50 @@ "french" :> 0

(* Imports after one another; the archive beside a copy and its clearing;  *)
(* an import beside a copy; two purges beside traffic.                     *)
Scenes ==
  {{"hzb", "tuopai"}, {"liangmei", "hzb"}, {"demo", "hzb"}, {"Jinglin", "french", "copyJ", "clean"},
   {"tuopai", "copyH", "HZB"}, {"x1", "y1", "Jinglin", "clean", "smoke1"}}
=============================================================================
