--------------------------- MODULE MCPurchases ---------------------------
(* A small instance of Purchases for TLC: two players and two houses, two  *)
(* tiers, so that a whole price is five shares of the first.               *)
EXTENDS Purchases, TLC

Houses == (1 :> "xayatf1") @@ (2 :> "xayatf2")
Listing == (1 :> "c1") @@ (2 :> "c2")
Costs == ("T1" :> 11)
Quantities == ("T1" :> 1)
Owners == (1 :> "ann")
Prices == ("sweet" :> 1) @@ ("press" :> 1) @@ ("box" :> 2)
Inside == ("sweet" :> ("sugar" :> 1)) @@ ("press" :> ("sugar" :> 1)) @@ ("box" :> ("sugar" :> 2))
=============================================================================
