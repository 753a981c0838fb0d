--------------------------- MODULE MCTreatFighter ---------------------------
(* Small instances of TreatFighter for TLC. *)
EXTENDS TreatFighter, TLC

CONSTANTS a, b,           \* players
          f1, f2, f3, f4, \* treats
          r1, r2, r3      \* recipes

OneEach == (f1 :> a) @@ (f2 :> b) @@ [f \in Fighters |-> Nobody]
TwoForB == (f1 :> a) @@ (f2 :> b) @@ (f3 :> b) @@ [f \in Fighters |-> Nobody]
TwoForA == (f1 :> a) @@ (f2 :> a) @@ [f \in Fighters |-> Nobody]
RecipeForA == (r1 :> a) @@ [r \in Recipes |-> Nobody]

OneOfAll == [p \in Players |-> [i \in Items |-> 1]]
(* a candy each, and one of the two players has a sweetener *)
MarketItems ==
  [p \in Players |-> [i \in Items |-> IF i = "candy" \/ (i = "sweetener" /\ p = a) THEN 1 ELSE 0]]
Cash(n) == [p \in Players |-> n]
Three == Cash(3)

TwoBlocks == [t \in OngoingType |-> 2]
(* an espresso would make the expedition take no block at all *)
ShortTrips == [TwoBlocks EXCEPT !["EXPEDITION"] = 1]
OneBlock == [t \in OngoingType |-> 1]

NewTreats == Permutations(Fighters \ {f1, f2})
=============================================================================
