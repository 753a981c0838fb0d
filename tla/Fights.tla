------------------------------- MODULE Fights -------------------------------
(***************************************************************************)
(* The fights of treats in tournaments: who wins by the types of the moves *)
(* both make, in random order; what that does to their ratings; and how    *)
(* sweet they get of it when the tournament is over.                       *)
(*                                                                         *)
(* Ratings are computed in fixed-point numbers of 24.8 bits.  A number     *)
(* here is the one the code holds, 256 times the value.                    *)
(***************************************************************************)
EXTENDS Integers, Sequences, FiniteSets, FiniteSetsExt, SequencesExt

CONSTANTS
  Fighters, Owner,       \* treats, and the rank of their owners by name
  Moves, TypeOf,         \* blueprints of moves
  InitialMoves,
  Careers,               \* bound: ratings the treats come with
  Students,              \* bound: the treats whose moves change
  KFACTOR, ALMS,         \* elok_factor; alms as a fixed-point number
  MaxMoves, MaxPlayed    \* bounds

MoveType == {"Heavy", "Speedy", "Tricky", "Distance", "Blocking"}
SuperSweet == 10

ASSUME FightsAssumption ==
  /\ Owner \in [Fighters -> Int]
  /\ TypeOf \in [Moves -> MoveType]
  /\ InitialMoves \in [Fighters -> Seq(Moves)]
  /\ Careers \subseteq {r \in Nat : r >= 1000}
  /\ Students \subseteq Fighters
  /\ KFACTOR \in Nat /\ ALMS \in Nat
  /\ MaxMoves \in Nat /\ MaxPlayed \in Nat

VARIABLES
  rating, sweetness, moves, \* of the treats
  todo,    \* the pairs whose fight is left in the tournament under way
  here,    \* the treats in it
  played   \* how many there were

vars == <<rating, sweetness, moves, todo, here, played>>
-----------------------------------------------------------------------------
(***************************************************************************)
(* The fight.                                                              *)
(***************************************************************************)
Beats ==
  {<<"Heavy", "Tricky">>, <<"Heavy", "Distance">>,
   <<"Speedy", "Heavy">>, <<"Speedy", "Blocking">>,
   <<"Tricky", "Speedy">>, <<"Tricky", "Distance">>,
   <<"Distance", "Speedy">>, <<"Distance", "Blocking">>,
   <<"Blocking", "Heavy">>, <<"Blocking", "Tricky">>}

(* as if the types were not swapped *)
ResultUnswapped(lmv, rmv) ==
  IF TypeOf[lmv] = TypeOf[rmv] THEN 1
  ELSE IF <<TypeOf[lmv], TypeOf[rmv]>> \in Beats THEN 2 ELSE 0

(* What the right side gets, in half points; the left gets the rest of 2. *)
ExecuteOneMoveAgainstAnother(lmv, rmv) ==
  IF TypeOf[lmv] = TypeOf[rmv] THEN 1
  ELSE IF <<TypeOf[rmv], TypeOf[lmv]>> \in Beats THEN 2 ELSE 0

(* A move a treat has twice is made once.                                  *)
Shuffles(f) == SetToSeqs(ToSet(moves[f]))

LongerBy(s, t) == IF Len(s) > Len(t) THEN Len(s) - Len(t) ELSE 0

(* The moves one side has more than the other are points.                  *)
Exchange(l, r) ==
  [i \in DOMAIN l \cap DOMAIN r |-> ExecuteOneMoveAgainstAnother(l[i], r[i])]
SumOf(f) == MapThenSumSet(LAMBDA x : f[x], DOMAIN f)
RightScore(l, r) == 2 * LongerBy(r, l) + SumOf(Exchange(l, r))
FullScore(l, r) == 2 * (Len(l) + LongerBy(r, l))

(* Of the left side against the right one, 256 for a fight won.            *)
Score(l, r) ==
  IF 2 * RightScore(l, r) = FullScore(l, r) THEN 128
  ELSE IF 2 * RightScore(l, r) > FullScore(l, r) THEN 0 ELSE 256
-----------------------------------------------------------------------------
(***************************************************************************)
(* Fixed-point numbers: what is left of a product or a quotient is rounded *)
(* to the nearest, half of it away from zero; integer divisors truncate.   *)
(***************************************************************************)
Signed(negative, n) == IF negative THEN -n ELSE n
Abs(n) == IF n < 0 THEN -n ELSE n
Rounded(n) == (n + 1) \div 2
Times(a, b) == Signed((a < 0) # (b < 0), Rounded((Abs(a) * Abs(b)) \div 128))
Over(a, b) == Signed((a < 0) # (b < 0), Rounded((Abs(a) * 512) \div Abs(b)))
Truncated(a, n) == Signed(a < 0, Abs(a) \div n)

(* Horner's rule. *)
Polynomial(coefficients, x) ==
  FoldLeft(LAMBDA sum, c : Times(sum, x) + c, 0, coefficients)

(* A whole power of a whole number. *)
Power(b, n) == FoldLeft(LAMBDA product, factor : product * factor, 1, [i \in 1..n |-> b])

(* of a number that is not negative *)
Exp2(x) == Times(Power(2, x \div 256) * 256, Polynomial(<<0, 2, 14, 61, 177, 256>>, x % 256))

(* The logarithm of a number from 8 to less than 16. *)
Log2(x) == 3 * 256 + Polynomial(<<11, -107, 418, -909, 1303, -717>>, x \div 8)

PowerOf10(y) ==
  LET positive(x) == IF x % 256 = 0 THEN Power(10, x \div 256) * 256
                                    ELSE Exp2(Times(Log2(2560), x))
  IN IF y < 0 THEN Over(256, positive(-y)) ELSE positive(y)
-----------------------------------------------------------------------------
(***************************************************************************)
(* Ratings.                                                                *)
(***************************************************************************)

(* CreateEloRating, of one side: what it is expected to score, and what    *)
(* its rating changes.  One who scored nothing pays less.                  *)
Expected(own, other) == Over(256, 256 + PowerOf10(Truncated((other - own) * 256, 400)))
Change(own, other, score) ==
  LET change == KFACTOR * (score - Expected(own, other))
  IN IF score = 0 THEN Times(ALMS, change) ELSE change

(* Fractions are dropped, and nobody falls below zero.                     *)
NewRating(own, other, score) ==
  LET new == Truncated(own * 256 + Change(own, other, score), 256)
  IN IF new < 0 THEN 0 ELSE new

(* UpdateSweetness, as it was before a fork *)
SweetnessBeforeFork(f) ==
  IF rating[f] > 2000 THEN SuperSweet
  ELSE IF rating[f] >= sweetness[f] * 100 + 1000 THEN (rating[f] - 1000) \div 100 + 1
  ELSE sweetness[f]

UpdateSweetness(f) ==
  IF rating[f] >= 2000 THEN SuperSweet
  ELSE IF rating[f] >= sweetness[f] * 100 + 1000 THEN (rating[f] - 1000) \div 100 + 1
  ELSE sweetness[f]
-----------------------------------------------------------------------------
(***************************************************************************)
(* The steps.  A tournament is processed in one block; its fights are      *)
(* steps here.                                                             *)
(***************************************************************************)

(* A new treat is as sweet as its quality and gets the rating this is      *)
(* worth; with older treats here a rating got them as sweet as they are.   *)
Init ==
  /\ rating \in [Fighters -> Careers]
  /\ sweetness = [f \in Fighters |-> IF rating[f] >= 2000 THEN SuperSweet
                                     ELSE (rating[f] - 1000) \div 100 + 1]
  /\ moves = InitialMoves
  /\ todo = {}
  /\ here = {}
  /\ played = 0

(* A sweetener teaches a treat a move, when its reward is claimed. *)
Learn(f, m) ==
  /\ here = {}
  /\ Len(moves[f]) < MaxMoves
  /\ moves' = [moves EXCEPT ![f] = Append(@, m)]
  /\ UNCHANGED <<rating, sweetness, todo, here, played>>

(* One who is transfigured gets another move for one of those known.       *)
Relearn(f, i, m) ==
  /\ here = {}
  /\ i \in DOMAIN moves[f] /\ moves[f][i] # m
  /\ moves' = [moves EXCEPT ![f][i] = m]
  /\ UNCHANGED <<rating, sweetness, todo, here, played>>

(* ProcessTournaments, when the countdown of an instance has ended. *)
Begin(S) ==
  /\ here = {} /\ Cardinality(S) >= 2
  /\ \A f, g \in S : f # g => Owner[f] # Owner[g]
  /\ played < MaxPlayed
  /\ here' = S
  /\ todo' = {p \in S \X S : Owner[p[1]] < Owner[p[2]]}
  /\ played' = played + 1
  /\ UNCHANGED <<rating, sweetness, moves>>

(* ProcessFighterPair: the first of the pair is the right side. *)
Fight(f, g) ==
  /\ <<f, g>> \in todo
  /\ todo' = todo \ {<<f, g>>}
  /\ \E r \in Shuffles(f), l \in Shuffles(g) :
       rating' = [rating EXCEPT ![f] = NewRating(rating[f], rating[g], 256 - Score(l, r)),
                                ![g] = NewRating(rating[g], rating[f], Score(l, r))]
  /\ UNCHANGED <<sweetness, moves, here, played>>

Complete ==
  /\ here # {} /\ todo = {}
  /\ sweetness' = [f \in Fighters |-> IF f \in here THEN UpdateSweetness(f) ELSE sweetness[f]]
  /\ here' = {}
  /\ UNCHANGED <<rating, moves, todo, played>>

Next ==
  \/ \E f \in Students, m \in Moves : Learn(f, m) \/ \E i \in 1..MaxMoves : Relearn(f, i, m)
  \/ \E S \in SUBSET Fighters : Begin(S)
  \/ \E f, g \in Fighters : Fight(f, g)
  \/ Complete

Spec == Init /\ [][Next]_vars
-----------------------------------------------------------------------------
(* Types; no treat gets sweeter than the sweetest, by whatever way its     *)
(* rating got there.                                                       *)
TypeOK ==
  /\ rating \in [Fighters -> Nat]
  /\ sweetness \in [Fighters -> 1..SuperSweet]
  /\ moves \in [Fighters -> Seq(Moves)]
  /\ todo \subseteq Fighters \X Fighters
  /\ here \subseteq Fighters
  /\ played \in 0..MaxPlayed

Made(f) == ToSet(moves[f])

(* A treat that makes as many moves as another, each of which beats all of *)
(* the other's, wins in whatever order they are made.                      *)
Dominates(f, g) ==
  /\ Made(g) # {} /\ Cardinality(Made(f)) >= Cardinality(Made(g))
  /\ \A m \in Made(f), n \in Made(g) : <<TypeOf[m], TypeOf[n]>> \in Beats

(* The side of a treat, the order of the moves, rounding and the gap of    *)
(* the ratings never turn a fight against who is better: the rating of one *)
(* who dominates does not fall and that of the other does not rise, and no *)
(* fight makes both ratings rise.                                          *)
BetterMovesPay ==
  [][\A f, g \in Fighters :
       {<<f, g>>, <<g, f>>} \cap (todo \ todo') # {} =>
         /\ Dominates(f, g) => rating'[f] >= rating[f] /\ rating'[g] <= rating[g]
         /\ rating'[f] > rating[f] => rating'[g] <= rating[g]]_vars
=============================================================================
