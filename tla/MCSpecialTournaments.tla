----------------------- MODULE MCSpecialTournaments -----------------------
(* Small instances of SpecialTournaments for TLC: players 1, 2 and 3, the  *)
(* houses 8 and 9, treats 1 and 2 of the houses.                           *)
EXTENDS SpecialTournaments, TLC

Houses == (1 :> 8) @@ (2 :> 9)
OneHouse == (1 :> 8)

Pairs == [f \in 1..10 |-> CASE f <= 2 -> 8 [] f <= 4 -> 9 [] f <= 6 -> 1 [] f <= 8 -> 2 [] OTHER -> 3]
Trio == (1 :> 8) @@ (2 :> 8) @@ (3 :> 1) @@ (4 :> 1) @@ (5 :> 2) @@ (6 :> 2)
=============================================================================
