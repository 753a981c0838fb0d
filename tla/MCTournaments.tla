--------------------------- MODULE MCTournaments ---------------------------
(* Small instances of Tournaments for TLC. *)
EXTENDS Tournaments, TLC

CONSTANTS f1, f2, f3, f4, f5, \* treats
          t1, t2, t3, t4,     \* tournaments
          duel, match         \* blueprints: of two treats, of two pairs

OneEach == (f1 :> 1) @@ (f2 :> 2) @@ [f \in Fighters |-> 3]
TwoEach == (f1 :> 1) @@ (f2 :> 1) @@ [f \in Fighters |-> 2]

Single == [b \in Blueprints |-> 1]
Double == [b \in Blueprints |-> 2]
Triple == [b \in Blueprints |-> 3]
Free == [b \in Blueprints |-> 0]
PairsInMatches == [b \in Blueprints |-> IF b = match THEN 2 ELSE 1]
SweetForMatches == PairsInMatches
Broke == [p \in Players |-> 0]

Instances == Permutations(Tournaments)
=============================================================================
