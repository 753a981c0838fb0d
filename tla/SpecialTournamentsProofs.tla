---------------------- MODULE SpecialTournamentsProofs ----------------------
(***************************************************************************)
(* Theorems about SpecialTournaments, for all values of its constants.     *)
(***************************************************************************)
EXTENDS SpecialTournaments, Counting

-----------------------------------------------------------------------------
(* Tiers.                                                                  *)

LEMMA PrestigeBounds ==
  /\ BasePrestige \in Nat /\ BasePrestige >= TierCount /\ MinStep \in Nat \ {0}
  /\ Prestiges \subseteq Nat /\ IsFiniteSet(Prestiges)
<1> DEFINE top == 8388607
<1>1. top \in Nat /\ \A x \in Prestiges : x <= top
  BY PrestigeAssumption, SMT
<1> HIDE DEF top
<1>2. Prestiges \subseteq Nat
  BY PrestigeAssumption, SMT
<1>3. IsFiniteSet(Prestiges)
  BY <1>1, <1>2, FS_BoundedSetOfNaturals
<1>4. BasePrestige \in Nat /\ BasePrestige >= TierCount /\ MinStep \in Nat \ {0}
  BY PrestigeAssumption, SMT
<1> QED
  BY <1>2, <1>3, <1>4

LEMMA GreaterOfTwo ==
  ASSUME NEW a \in Int, NEW b \in Int
  PROVE  Max({a, b}) = IF a >= b THEN a ELSE b
<1> DEFINE g == IF a >= b THEN a ELSE b
<1>1. g \in {a, b} /\ \A y \in {a, b} : g >= y
  OBVIOUS
<1>2. \A x \in {a, b} : (\A y \in {a, b} : x >= y) => x = g
  OBVIOUS
<1> QED
  BY <1>1, <1>2, Zenon DEF Max

LEMMA LessOfTwo ==
  ASSUME NEW a \in Int, NEW b \in Int
  PROVE  Min({a, b}) = IF a <= b THEN a ELSE b
<1> DEFINE g == IF a <= b THEN a ELSE b
<1>1. g \in {a, b} /\ \A y \in {a, b} : g <= y
  OBVIOUS
<1>2. \A x \in {a, b} : (\A y \in {a, b} : x <= y) => x = g
  OBVIOUS
<1> QED
  BY <1>1, <1>2, Zenon DEF Min

(* Quotients of natural numbers. *)
LEMMA Quotient ==
  ASSUME NEW n \in Nat, NEW d \in Nat \ {0}
  PROVE  n \div d \in Nat /\ d * (n \div d) <= n /\ n < d * (n \div d) + d
BY SMT

(* A quotient is less than k if the dividend is less than k divisors.      *)
LEMMA QuotientBounded ==
  ASSUME NEW n \in Nat, NEW d \in Nat \ {0}, NEW k \in Nat, n < k * d
  PROVE  n \div d < k
<1>1. n \div d \in Nat /\ d * (n \div d) <= n
  BY Quotient
<1>2. SUFFICES ASSUME k <= n \div d PROVE FALSE
  BY <1>1
<1>3. PICK e \in Nat : n \div d = k + e
  BY <1>1, <1>2
<1>4. d * (k + e) = k * d + d * e /\ d * e \in Nat
  BY SMT
<1> QED
  BY <1>1, <1>3, <1>4

(* Nobody is more tiers above the base than there are.                     *)
LEMMA AboveBase ==
  ASSUME NEW p \in Nat, NEW highest \in Nat, p <= highest, p >= BasePrestige
  PROVE  /\ TierStep(highest) \in Nat \ {0}
         /\ p - BasePrestige \in Nat
         /\ p - BasePrestige < TierCount * TierStep(highest)
<1> DEFINE q == highest \div TierCount
<1>1. q \in Nat /\ highest < TierCount * q + TierCount
  BY Quotient, SpecialAssumption
<1>2. TierStep(highest) = IF q >= MinStep THEN q ELSE MinStep
  BY <1>1, GreaterOfTwo, PrestigeBounds DEF TierStep
<1>3. TierStep(highest) \in Nat \ {0} /\ TierStep(highest) >= q
  BY <1>1, <1>2, PrestigeBounds
<1> HIDE DEF q
<1>4. TierCount * q <= TierCount * TierStep(highest)
  <2>1. PICK e \in Nat : TierStep(highest) = q + e
    BY <1>1, <1>3
  <2>2. TierCount * (q + e) = TierCount * q + TierCount * e /\ TierCount * e \in Nat
    BY <1>1, SpecialAssumption, SMT
  <2> QED
    BY <1>1, <2>1, <2>2, SpecialAssumption
<1>5. p < TierCount * q + BasePrestige
  BY <1>1, PrestigeBounds, SpecialAssumption
<1>6. TierCount * q \in Nat /\ TierCount * TierStep(highest) \in Nat
  BY <1>1, <1>3, SpecialAssumption
<1> QED
  BY <1>3, <1>4, <1>5, <1>6, PrestigeBounds

LEMMA RoundedBounded ==
  ASSUME NEW n \in Nat, NEW d \in Nat \ {0}, NEW k \in Nat, n < k * d
  PROVE  Rounded(n, d) \in 0..k
<1>1. 512 * n < (512 * k) * d
  <2>1. (512 * k) * d = 512 * (k * d) /\ k * d \in Nat
    BY SMT
  <2> QED
    BY <2>1
<1>2. (512 * n) \div d \in Nat /\ (512 * n) \div d < 512 * k
  BY <1>1, QuotientBounded, Quotient
<1> DEFINE x == (512 * n) \div d
<1>3. x \in Nat /\ x < 512 * k
  BY <1>2
<1>4. Rounded(n, d) = ((x + 1) \div 2 + 128) \div 256
  BY DEF Rounded, FixedRound, FixedDivide
<1> HIDE DEF x
<1>5. (x + 1) \div 2 \in 0..256 * k
  BY <1>3
<1> QED
  BY <1>4, <1>5

LEMMA TierOfBounded ==
  ASSUME NEW p \in Nat, NEW highest \in Nat, p <= highest, NEW rounded
  PROVE  TierOf(p, highest, rounded) \in Tiers
<1> DEFINE over == p - BasePrestige
           steps == IF rounded THEN Rounded(over, TierStep(highest))
                    ELSE Truncated(over, TierStep(highest))
<1>1. 1 \in Tiers
  BY SpecialAssumption DEF Tiers
<1>2. CASE over < 0
  BY <1>1, <1>2 DEF TierOf
<1>3. CASE ~(over < 0)
  <2>1. p >= BasePrestige
    BY <1>3, PrestigeBounds
  <2>2. /\ TierStep(highest) \in Nat \ {0} /\ over \in Nat
        /\ over < TierCount * TierStep(highest)
    BY <2>1, AboveBase
  <2>3. Rounded(over, TierStep(highest)) \in 0..TierCount
    BY <2>2, RoundedBounded, SpecialAssumption
  <2>4. Truncated(over, TierStep(highest)) \in 0..TierCount
    BY <2>2, QuotientBounded, Quotient, SpecialAssumption DEF Truncated
  <2>5. steps \in 0..TierCount
    BY <2>3, <2>4
  <2>6. TierOf(p, highest, rounded) = Max({1, steps})
    BY <1>3 DEF TierOf
  <2> HIDE DEF steps
  <2>7. Max({1, steps}) = IF 1 >= steps THEN 1 ELSE steps
    BY <2>5, GreaterOfTwo, SpecialAssumption
  <2> QED
    BY <2>5, <2>6, <2>7, SpecialAssumption DEF Tiers
<1> QED
  BY <1>2, <1>3

(* The greatest prestige of all is one of them. *)
LEMMA TiersOfType ==
  ASSUME NEW pr \in [Names -> Prestiges], NEW rounded
  PROVE  TiersOf(pr, rounded) \in [Names -> Tiers]
<1> DEFINE all == {pr[q] : q \in Names}
<1>1. all \subseteq Prestiges
  OBVIOUS
<1>2. IsFiniteSet(all) /\ all \subseteq Nat
  BY <1>1, PrestigeBounds, FS_Subset
<1>3. all # {}
  <2>1. 1 \in Tiers
    BY SpecialAssumption DEF Tiers
  <2>2. House[1] \in Names
    BY <2>1 DEF Names
  <2> QED
    BY <2>2
<1>4. \E x \in all : \A y \in all : y <= x
  BY <1>2, <1>3, GreatestExists
<1>5. \E x \in all : \A y \in all : x >= y
  BY <1>2, <1>4
<1>6. Max(all) \in all /\ \A y \in all : Max(all) >= y
  <2> HIDE DEF all
  <2> QED
    BY <1>5, Zenon DEF Max
<1>7. \A p \in Names : pr[p] \in Nat /\ Max(all) \in Nat /\ pr[p] <= Max(all)
  BY <1>2, <1>6
<1> HIDE DEF all
<1>8. \A p \in Names : TierOf(pr[p], Max(all), rounded) \in Tiers
  BY <1>7, TierOfBounded
<1> QED
  BY <1>8 DEF TiersOf, all
-----------------------------------------------------------------------------
(* Types.                                                                  *)

LEMMA SomeNames ==
  /\ Players \subseteq Names /\ \A t \in Tiers : House[t] \in Names
  /\ \A p \in Names \ Players : \E t \in Tiers : p = House[t]
  /\ \A t \in Tiers : House[t] \notin Players
  /\ Names \subseteq Nat /\ Nobody \notin Names
  /\ 0 \notin Tiers /\ 1 \in Tiers /\ Tiers # {}
<1>1. House \in [Tiers -> Nat \ Players] /\ Players \subseteq Nat /\ Nobody \notin Names
  BY SpecialAssumption
<1>2. 0 \notin Tiers /\ 1 \in Tiers
  BY SpecialAssumption DEF Tiers
<1> QED
  BY <1>1, <1>2 DEF Names

LEMMA InitType == Init => TypeOK
<1> SUFFICES ASSUME Init PROVE TypeOK
  OBVIOUS
<1>1. BasePrestige \in Prestiges
  BY PrestigeAssumption, SMT
<1>2. \A t \in Tiers : state[t] \in TournamentState
  BY DEF Init, TournamentState
<1>3. status \in [Fighters -> FighterStatus] /\ mark \in [Fighters -> Mark]
  BY DEF Init, FighterStatus, Mark
<1>4. /\ owner \in [Fighters -> Names] /\ balance \in [Players -> 0..MaxBalance]
      /\ elapsed \in 0..Cooldown
  BY SpecialAssumption DEF Init
<1> QED
  BY <1>1, <1>2, <1>3, <1>4, SomeNames DEF Init, TypeOK

LEMMA EnterType ==
  ASSUME TypeOK, NEW p \in Players, NEW t \in Tiers, NEW T \in SUBSET Fighters,
         EnterSpecialTournament(p, t, T)
  PROVE  TypeOK'
<1>1. balance[p] \in 0..MaxBalance /\ balance[p] >= EntryFee
  BY DEF EnterSpecialTournament, MayEnter, TypeOK
<1>2. balance[p] - EntryFee \in 0..MaxBalance
  BY <1>1, SpecialAssumption
<1>3. balance' \in [Players -> 0..MaxBalance]
  BY <1>2 DEF EnterSpecialTournament, TypeOK
<1>4. status' \in [Fighters -> FighterStatus] /\ mark' \in [Fighters -> Mark]
  BY DEF EnterSpecialTournament, TypeOK, FighterStatus, Mark
<1>5. entered' \in [Fighters -> {0} \cup Tiers]
  BY DEF EnterSpecialTournament, TypeOK
<1> QED
  BY <1>3, <1>4, <1>5 DEF EnterSpecialTournament, TypeOK

LEMMA RearrangeType ==
  ASSUME TypeOK, NEW T, NEW H, NEW t \in Tiers, Rearrange(T, H, t),
         holder' \in [Tiers -> Names \cup {Nobody}], state' \in [Tiers -> TournamentState]
  PROVE  TypeOK'
<1>1. status' \in [Fighters -> FighterStatus] /\ mark' \in [Fighters -> Mark]
  BY DEF Rearrange, TypeOK, FighterStatus, Mark
<1>2. entered' \in [Fighters -> {0} \cup Tiers]
  BY DEF Rearrange, TypeOK
<1> QED
  BY <1>1, <1>2 DEF Rearrange, TypeOK, playerVars

LEMMA OtherType ==
  ASSUME TypeOK, OtherMoves
  PROVE  TypeOK'
<1>1. ASSUME NEW f \in Wandering, Wander(f)
      PROVE  TypeOK'
  <2>1. status' \in [Fighters -> FighterStatus]
    BY <1>1 DEF Wander, TypeOK, FighterStatus
  <2> QED
    BY <1>1, <2>1 DEF Wander, TypeOK, playerVars
<1>2. ASSUME NEW f \in Wandering, NEW p \in Players, Sell(f, p)
      PROVE  TypeOK'
  <2>1. owner' \in [Fighters -> Names] /\ status' \in [Fighters -> FighterStatus]
    BY <1>2, SomeNames DEF Sell, TypeOK, FighterStatus
  <2>2. prestige' \in [Names -> Prestiges]
    BY <1>2 DEF Sell
  <2>3. tier' \in [Names -> Tiers]
    BY <1>2, <2>2, TiersOfType DEF Sell, SaleTiers
  <2> QED
    BY <1>2, <2>1, <2>2, <2>3 DEF Sell, TypeOK
<1>3. ASSUME NEW p \in Rising, NEW v \in Prestiges, NEW b \in 0..MaxBalance, Prosper(p, v, b)
      PROVE  TypeOK'
  BY <1>3 DEF Prosper, TypeOK, treatVars
<1> QED
  BY <1>1, <1>2, <1>3 DEF OtherMoves

LEMMA CreateTiersType ==
  ASSUME TypeOK, CreateTiers
  PROVE  TypeOK'
<1>1. \A f \in Fighters : owner[f] \notin Players =>
        (CHOOSE u \in Tiers : House[u] = owner[f]) \in Tiers
  BY SomeNames DEF TypeOK
<1>2. entered' \in [Fighters -> {0} \cup Tiers]
  BY <1>1 DEF CreateTiers, TypeOK
<1>3. status' \in [Fighters -> FighterStatus] /\ mark' \in [Fighters -> Mark]
  BY DEF CreateTiers, TypeOK, FighterStatus, Mark
<1>4. holder' \in [Tiers -> Names \cup {Nobody}] /\ state' \in [Tiers -> TournamentState]
  BY SomeNames, SpecialAssumption DEF CreateTiers, TournamentState
<1>5. tier' \in [Names -> Tiers]
  BY TiersOfType DEF CreateTiers, TypeOK, BlockTiers
<1>6. elapsed' \in 0..Cooldown
  BY LessOfTwo, SpecialAssumption DEF CreateTiers, TypeOK
<1> QED
  BY <1>2, <1>3, <1>4, <1>5, <1>6 DEF CreateTiers, TypeOK

LEMMA JudgingType ==
  ASSUME TypeOK, NEW score \in Outcomes
  PROVE  Marks(score) \in [Fighters -> Mark] /\ Points(score) \in [Fighters -> Nat]
<1>1. \A f \in Judged(score) : score[FightOf(f)] \in Nat
  <2>1. score \in [Resolved -> {0} \cup Scores]
    BY DEF Outcomes
  <2>2. \A c \in DOMAIN score : score[c] \in {0} \cup Scores
    BY <2>1
  <2>3. {0} \cup Scores \subseteq Nat
    BY SpecialAssumption
  <2> TAKE f \in Judged(score)
  <2>4. FightOf(f) \in DOMAIN score
    BY DEF Judged
  <2>5. score[FightOf(f)] \in {0} \cup Scores
    BY <2>2, <2>4
  <2> QED
    BY <2>3, <2>5, Zenon
<1>2. Marks(score) \in [Fighters -> Mark]
  BY DEF Marks, TypeOK, Mark
<1> QED
  BY <1>1, <1>2 DEF Points, TypeOK

LEMMA PlayFightsType ==
  ASSUME TypeOK, PlayFights
  PROVE  TypeOK'
<1>1. PICK score \in Outcomes : CalculateResults(score) \/ ConcludeDay(score)
  BY DEF PlayFights
<1>2. Marks(score) \in [Fighters -> Mark] /\ Points(score) \in [Fighters -> Nat]
  BY JudgingType
<1>3. CASE CalculateResults(score)
  <2>1. state' \in [Tiers -> TournamentState]
    BY <1>3 DEF CalculateResults, TypeOK, TournamentState
  <2> QED
    BY <1>2, <1>3, <2>1 DEF CalculateResults, PlayFights, TypeOK
<1>4. CASE ConcludeDay(score)
  <2>1. holder' \in [Tiers -> Names]
    BY <1>4 DEF ConcludeDay
  <2>2. status' \in [Fighters -> FighterStatus] /\ entered' \in [Fighters -> {0} \cup Tiers]
    BY <1>4 DEF ConcludeDay, TypeOK, FighterStatus
  <2>3. mark' \in [Fighters -> Mark] /\ points' \in [Fighters -> Nat]
    BY <1>2, <1>4 DEF ConcludeDay, Mark
  <2>4. state' \in [Tiers -> TournamentState] /\ elapsed' \in 0..Cooldown
    BY <1>4, SpecialAssumption DEF ConcludeDay, TournamentState
  <2>5. tier' \in [Names -> Tiers]
    BY <1>4, TiersOfType DEF ConcludeDay, TypeOK, BlockTiers
  <2> QED
    BY <2>1, <2>2, <2>3, <2>4, <2>5 DEF PlayFights, TypeOK
<1> QED
  BY <1>1, <1>3, <1>4

LEMMA TypeStep ==
  ASSUME TypeOK, [Next]_vars
  PROVE  TypeOK'
<1>1. ASSUME NEW p \in Players, NEW t \in Tiers, LeaveSpecialTournament(p, t)
      PROVE  TypeOK'
  BY <1>1, RearrangeType DEF LeaveSpecialTournament, TypeOK
<1>2. ASSUME NEW p \in Players, NEW t \in Tiers, AbdicateCrown(p, t)
      PROVE  TypeOK'
  <2>1. holder' \in [Tiers -> Names \cup {Nobody}] /\ state' \in [Tiers -> TournamentState]
    BY <1>2, SomeNames DEF AbdicateCrown, TypeOK, TournamentState
  <2> QED
    BY <1>2, <2>1, RearrangeType DEF AbdicateCrown
<1>3. ASSUME NEW p \in Players, NEW t \in Tiers,
             NEW T \in SUBSET {f \in Fighters : owner[f] = p},
             EnterSpecialTournament(p, t, T)
      PROVE  TypeOK'
  BY <1>3, EnterType
<1>4. CASE PassTime
  BY <1>4, SpecialAssumption DEF PassTime, Due, TypeOK, treatVars, playerVars
<1>5. CASE UNCHANGED vars
  BY <1>5 DEF vars, TypeOK, treatVars, playerVars
<1> QED
  BY <1>1, <1>2, <1>3, <1>4, <1>5, OtherType, CreateTiersType, PlayFightsType
     DEF Next, Move, ProcessSpecialTournaments

(* Players, treats and tournaments keep their types, and no tier is below  *)
(* the lowest or above the highest, whatever the prestige of the players.  *)
THEOREM TypeCorrect == Spec => []TypeOK
<1>1. TypeOK /\ [Next]_vars => TypeOK'
  BY TypeStep
<1> QED
  BY InitType, <1>1, PTL DEF Spec

-----------------------------------------------------------------------------
(***************************************************************************)
(* The inductive invariant.  The rows of all tiers are made in one block,  *)
(* and no treat is entered before.  The treats of the houses stay theirs,  *)
(* and are busy in the own tier of the house alone, and while it has the   *)
(* crown.  A verdict waits for the end of the day in a tier that is closed.*)
(***************************************************************************)
HousesKeepTreats ==
  \A f \in Fighters : IF InitialOwner[f] \in Players THEN owner[f] \in Players
                      ELSE owner[f] = InitialOwner[f]

RowsComeTogether ==
  /\ \A t, u \in Tiers : Exists(t) => Exists(u)
  /\ \A t \in Tiers : ~Exists(t) => \A f \in Fighters : entered[f] = 0

HousesStayHome ==
  \A t \in Tiers, f \in Fighters :
    owner[f] = House[t] /\ entered[f] # 0 => entered[f] = t /\ holder[t] = House[t]

JudgedIsClosed ==
  \A f \in Fighters :
    entered[f] # 0 /\ mark[f] # "Listed" => state[entered[f]] = "Calculating"

IndInv ==
  /\ TypeOK
  /\ HousesKeepTreats /\ RowsComeTogether /\ HousesStayHome /\ JudgedIsClosed
  /\ TeamsStayTogether /\ CrownsDefended

(* What is left to show of TeamsStayTogether for one player.               *)
WholeTeam(p) ==
  /\ TreatsOf(p) # {} => Cardinality(TreatsOf(p)) = TeamSize
  /\ \A f, g \in TreatsOf(p) : entered[f] = entered[g] /\ mark[f] = mark[g]

BusyIfEntered == \A f \in Fighters : status[f] = "SpecialTournament" <=> entered[f] # 0

LEMMA TeamsAreWhole ==
  TeamsStayTogether <=> BusyIfEntered /\ \A p \in Names : WholeTeam(p)
BY DEF TeamsStayTogether, WholeTeam, BusyIfEntered, TreatsOf

LEMMA SomeMember ==
  ASSUME NEW S \in SUBSET Fighters, Cardinality(S) = TeamSize
  PROVE  S # {}
<1>1. IsFiniteSet(S)
  BY FS_Subset, SpecialAssumption
<1> QED
  BY <1>1, FS_EmptySet, SpecialAssumption

(* The team of a crown holder. *)
LEMMA HolderTeam ==
  ASSUME IndInv, NEW t \in Tiers, Exists(t)
  PROVE  \E f \in Fighters : /\ owner[f] = holder[t] /\ entered[f] = t
                             /\ mark[f] = "Listed" /\ status[f] = "SpecialTournament"
<1>1. Team(holder[t], t) \in SUBSET Fighters
  BY DEF Team, Listed
<1>2. Team(holder[t], t) # {}
  BY <1>1, SomeMember DEF IndInv, CrownsDefended
<1> QED
  BY <1>2 DEF Team, Listed

LEMMA OneTeam ==
  ASSUME IndInv, NEW f \in Fighters, NEW g \in Fighters, owner[f] = owner[g],
         entered[f] # 0, entered[g] # 0
  PROVE  entered[f] = entered[g] /\ mark[f] = mark[g]
BY DEF IndInv, TypeOK, TeamsStayTogether

(* A holder of one crown is in no other tournament, and holds no other.    *)
LEMMA HolderStays ==
  ASSUME IndInv, NEW t \in Tiers, Exists(t), NEW f \in Fighters, owner[f] = holder[t],
         entered[f] # 0
  PROVE  entered[f] = t /\ mark[f] = "Listed"
<1>1. PICK g \in Fighters : owner[g] = holder[t] /\ entered[g] = t /\ mark[g] = "Listed"
  BY HolderTeam
<1> QED
  BY <1>1, OneTeam, SomeNames

LEMMA HomeTreats ==
  ASSUME TypeOK, HousesKeepTreats, NEW t \in Tiers
  PROVE  Cardinality({f \in Fighters : owner[f] = House[t]}) = TeamSize
<1>1. \A f \in Fighters : owner[f] = House[t] <=> InitialOwner[f] = House[t]
  BY SomeNames DEF HousesKeepTreats
<1>2. {f \in Fighters : owner[f] = House[t]} = {f \in Fighters : InitialOwner[f] = House[t]}
  BY <1>1
<1> QED
  BY <1>2, SpecialAssumption

LEMMA InitInd == Init => IndInv
<1> SUFFICES ASSUME Init PROVE IndInv
  OBVIOUS
<1>1. \A t \in Tiers : ~Exists(t)
  BY DEF Init, Exists
<1>2. \A p : TreatsOf(p) = {}
  BY DEF Init, TreatsOf
<1>3. BusyIfEntered
  BY DEF Init, BusyIfEntered
<1>4. TeamsStayTogether
  BY <1>2, <1>3, TeamsAreWhole DEF WholeTeam
<1>5. CrownsDefended
  BY <1>1 DEF CrownsDefended
<1>6. HousesKeepTreats
  BY DEF Init, HousesKeepTreats
<1>7. RowsComeTogether
  BY <1>1 DEF Init, RowsComeTogether
<1>8. HousesStayHome /\ JudgedIsClosed
  BY DEF Init, HousesStayHome, JudgedIsClosed
<1> QED
  BY <1>4, <1>5, <1>6, <1>7, <1>8, InitType DEF IndInv

LEMMA EnterStep ==
  ASSUME IndInv, NEW p \in Players, NEW t \in Tiers, NEW T \in SUBSET Fighters,
         EnterSpecialTournament(p, t, T), TypeOK'
  PROVE  IndInv'
<1> USE DEF EnterSpecialTournament, MayEnter
<1>1. TypeOK /\ BusyIfEntered /\ p \in Names /\ t # 0
  BY TeamsAreWhole, SomeNames DEF IndInv
<1>2. \A f \in Fighters : owner[f] = p => entered[f] = 0
  BY <1>1 DEF BusyIfEntered
<1>3. /\ \A f \in Fighters : /\ f \in T => owner[f] = p /\ entered'[f] = t /\ mark'[f] = "Listed"
                             /\ f \notin T => entered'[f] = entered[f] /\ mark'[f] = mark[f]
      /\ owner' = owner
  BY DEF TypeOK
<1>4. TreatsOf(p)' = T
  BY <1>1, <1>2, <1>3 DEF TreatsOf
<1>5. \A q \in Names \ {p} : TreatsOf(q)' = TreatsOf(q)
  BY <1>3 DEF TreatsOf
<1>6. BusyIfEntered'
  BY <1>1, <1>3 DEF BusyIfEntered, TypeOK
<1>7. \A q \in Names : WholeTeam(q)'
  <2>1. WholeTeam(p)'
    BY <1>3, <1>4 DEF WholeTeam
  <2>2. ASSUME NEW q \in Names \ {p}
        PROVE  WholeTeam(q)'
    <3>1. WholeTeam(q)
      BY TeamsAreWhole DEF IndInv
    <3>2. \A f \in TreatsOf(q) : f \in Fighters \ T
      BY <1>3 DEF TreatsOf
    <3> QED
      BY <1>3, <1>5, <3>1, <3>2 DEF WholeTeam
  <2> QED
    BY <2>1, <2>2
<1>8. TeamsStayTogether'
  BY <1>6, <1>7 DEF TeamsStayTogether, WholeTeam, BusyIfEntered, TreatsOf
<1>9. CrownsDefended'
  <2>1. ASSUME NEW u \in Tiers, Exists(u)
        PROVE  holder[u] # p /\ Team(holder[u], u)' = Team(holder[u], u)
    <3>1. holder[u] # p
      BY <1>2, <2>1, HolderTeam, SomeNames
    <3> QED
      BY <1>3, <3>1 DEF Team, Listed, TypeOK
  <2> QED
    BY <2>1 DEF CrownsDefended, IndInv, Exists
<1>10. HousesKeepTreats' /\ RowsComeTogether'
  BY DEF IndInv, HousesKeepTreats, RowsComeTogether, Exists
<1>11. HousesStayHome'
  BY <1>3, SomeNames DEF IndInv, HousesStayHome
<1>12. JudgedIsClosed'
  BY <1>3 DEF IndInv, JudgedIsClosed
<1> QED
  BY <1>8, <1>9, <1>10, <1>11, <1>12 DEF IndInv

LEMMA LeaveStep ==
  ASSUME IndInv, NEW p \in Players, NEW t \in Tiers, LeaveSpecialTournament(p, t), TypeOK'
  PROVE  IndInv'
<1> DEFINE T == TeamOf(p, t)
<1> USE DEF LeaveSpecialTournament, Rearrange
<1>1. /\ TypeOK /\ BusyIfEntered /\ p \in Names /\ t # 0
      /\ T \in SUBSET Fighters /\ \A f \in T : owner[f] = p /\ entered[f] = t
  BY TeamsAreWhole, SomeNames DEF IndInv, TeamOf
<1>2. T # {} /\ holder[t] # p
  BY <1>1, SomeMember DEF MayLeave
<1>3. \A f \in Fighters : owner[f] = p /\ entered[f] # 0 => f \in T
  BY <1>1, <1>2, OneTeam DEF TeamOf
<1>4. /\ \A f \in Fighters :
           /\ f \in T => /\ entered'[f] = 0 /\ mark'[f] = "Listed"
                         /\ status'[f] = "Available"
           /\ f \notin T => /\ entered'[f] = entered[f] /\ mark'[f] = mark[f]
                            /\ status'[f] = status[f]
      /\ owner' = owner /\ holder' = holder /\ state' = state
  BY DEF TypeOK
<1> HIDE DEF T
<1>5. TreatsOf(p)' = {}
  BY <1>3, <1>4 DEF TreatsOf
<1>6. BusyIfEntered'
  BY <1>1, <1>4 DEF BusyIfEntered
<1>7. \A q \in Names : WholeTeam(q)'
  <2>1. WholeTeam(p)'
    BY <1>5 DEF WholeTeam
  <2>2. ASSUME NEW q \in Names \ {p}
        PROVE  WholeTeam(q)'
    <3>1. WholeTeam(q)
      BY TeamsAreWhole DEF IndInv
    <3>2. TreatsOf(q)' = TreatsOf(q) /\ \A f \in TreatsOf(q) : f \in Fighters \ T
      BY <1>1, <1>4 DEF TreatsOf
    <3> QED
      BY <1>4, <3>1, <3>2 DEF WholeTeam
  <2> QED
    BY <2>1, <2>2
<1>8. TeamsStayTogether'
  BY <1>6, <1>7 DEF TeamsStayTogether, WholeTeam, BusyIfEntered, TreatsOf
<1>9. CrownsDefended'
  <2>1. ASSUME NEW u \in Tiers, Exists(u)
        PROVE  Team(holder[u], u)' = Team(holder[u], u)
    <3>1. holder[u] # p
      BY <1>1, <1>2, <2>1, HolderStays
    <3> QED
      BY <1>1, <1>4, <3>1 DEF Team, Listed
  <2> QED
    BY <1>4, <2>1 DEF CrownsDefended, IndInv, Exists
<1>10. HousesKeepTreats' /\ RowsComeTogether'
  BY <1>4 DEF IndInv, HousesKeepTreats, RowsComeTogether, Exists
<1>11. HousesStayHome'
  BY <1>4 DEF IndInv, HousesStayHome
<1>12. JudgedIsClosed'
  BY <1>4 DEF IndInv, JudgedIsClosed
<1> QED
  BY <1>8, <1>9, <1>10, <1>11, <1>12 DEF IndInv

(* The house takes back a crown with all of its treats, none of which was  *)
(* busy.                                                                   *)
LEMMA FirstTreatsOfHouse ==
  ASSUME IndInv, NEW t \in Tiers
  PROVE  FirstTreats(House[t]) = {f \in Fighters : owner[f] = House[t]}
<1> DEFINE home == {f \in Fighters : owner[f] = House[t]}
<1>1. IsFiniteSet(home) /\ Cardinality(home) = TeamSize /\ Fighters \subseteq Nat
  BY HomeTreats, FS_Subset, SpecialAssumption DEF IndInv
<1>2. ASSUME NEW f \in home
      PROVE  Cardinality({g \in Fighters : owner[g] = House[t] /\ g < f}) < TeamSize
  <2> DEFINE before == {g \in Fighters : owner[g] = House[t] /\ g < f}
  <2>1. before \subseteq home \ {f}
    BY <1>1
  <2>2. IsFiniteSet(home \ {f}) /\ Cardinality(home \ {f}) = TeamSize - 1
    BY <1>1, <1>2, FS_RemoveElement
  <2>3. Cardinality(before) <= TeamSize - 1 /\ Cardinality(before) \in Nat
    BY <2>1, <2>2, FS_Subset, FS_CardinalityType
  <2> QED
    BY <2>3, SpecialAssumption
<1> QED
  BY <1>2 DEF FirstTreats

LEMMA AbdicateStep ==
  ASSUME IndInv, NEW p \in Players, NEW t \in Tiers, AbdicateCrown(p, t), TypeOK'
  PROVE  IndInv'
<1> DEFINE T == TeamOf(p, t)
           H == {f \in Fighters : owner[f] = House[t]}
<1> USE DEF AbdicateCrown, Rearrange
<1>1. /\ TypeOK /\ BusyIfEntered /\ p \in Names /\ t # 0 /\ p # House[t] /\ House[t] \in Names
      /\ T \in SUBSET Fighters /\ \A f \in T : owner[f] = p /\ entered[f] = t
      /\ holder[t] = p /\ Exists(t)
  BY TeamsAreWhole, SomeNames DEF IndInv, TeamOf, MayLeave
<1>2. T # {}
  BY <1>1, SomeMember DEF MayLeave
<1>3. \A f \in Fighters : owner[f] = p /\ entered[f] # 0 => f \in T
  BY <1>1, <1>2, OneTeam DEF TeamOf
<1>4. \A f \in H : entered[f] = 0
  BY <1>1 DEF IndInv, HousesStayHome
<1>5. /\ \A f \in Fighters :
           /\ f \in H => /\ entered'[f] = t /\ mark'[f] = "Listed"
                         /\ status'[f] = "SpecialTournament"
           /\ f \in T => /\ entered'[f] = 0 /\ mark'[f] = "Listed"
                         /\ status'[f] = "Available"
           /\ f \notin T \cup H => /\ entered'[f] = entered[f] /\ mark'[f] = mark[f]
                                   /\ status'[f] = status[f]
      /\ owner' = owner
      /\ holder'[t] = House[t] /\ \A u \in Tiers \ {t} : holder'[u] = holder[u]
      /\ \A u \in Tiers : state'[u] = state[u]
  <2>1. FirstTreats(House[t]) = H
    BY FirstTreatsOfHouse
  <2>2. T \cap H = {}
    BY <1>1
  <2>3. state[t] = "Listed"
    BY DEF MayLeave
  <2> HIDE DEF T, H
  <2>4. Rearrange(T, H, t)
    BY <2>1 DEF T
  <2> QED
    BY <1>1, <2>2, <2>3, <2>4 DEF TypeOK
<1>6. Cardinality(H) = TeamSize
  BY HomeTreats DEF IndInv
<1>7. H \subseteq Fighters /\ \A f \in Fighters : f \in H <=> owner[f] = House[t]
  OBVIOUS
<1> HIDE DEF T, H
<1>8. TreatsOf(p)' = {} /\ TreatsOf(House[t])' = H
  <2>1. TreatsOf(p)' = {}
    BY <1>1, <1>3, <1>5, <1>7 DEF TreatsOf
  <2>2. TreatsOf(House[t])' = H
    BY <1>1, <1>5, <1>7 DEF TreatsOf
  <2> QED
    BY <2>1, <2>2
<1>9. BusyIfEntered'
  BY <1>1, <1>5 DEF BusyIfEntered
<1>10. \A q \in Names : WholeTeam(q)'
  <2>1. WholeTeam(p)'
    BY <1>8 DEF WholeTeam
  <2>2. WholeTeam(House[t])'
    BY <1>5, <1>6, <1>7, <1>8 DEF WholeTeam
  <2>3. ASSUME NEW q \in Names \ {p, House[t]}
        PROVE  WholeTeam(q)'
    <3>1. WholeTeam(q)
      BY TeamsAreWhole DEF IndInv
    <3>2. TreatsOf(q)' = TreatsOf(q) /\ \A f \in TreatsOf(q) : f \in Fighters \ (T \cup H)
      BY <1>1, <1>5, <1>7 DEF TreatsOf
    <3> QED
      BY <1>5, <3>1, <3>2 DEF WholeTeam
  <2> QED
    BY <2>1, <2>2, <2>3
<1>11. TeamsStayTogether'
  BY <1>9, <1>10 DEF TeamsStayTogether, WholeTeam, BusyIfEntered, TreatsOf
<1>12. \A u \in Tiers \ {t} : Exists(u) => holder[u] # p /\ holder[u] # House[t]
  <2> SUFFICES ASSUME NEW u \in Tiers \ {t}, Exists(u)
               PROVE  holder[u] # p /\ holder[u] # House[t]
    OBVIOUS
  <2>1. holder[u] # p
    BY <1>1 DEF IndInv, CrownsDefended
  <2>2. u # 0
    BY SomeNames
  <2> QED
    BY <1>4, <1>7, <2>1, <2>2, HolderTeam
<1>13. CrownsDefended'
  <2>1. Team(holder[t], t)' = H
    BY <1>5, <1>7 DEF Team, Listed
  <2>2. ASSUME NEW u \in Tiers \ {t}, Exists(u)
        PROVE  Team(holder[u], u)' = Team(holder[u], u)
    BY <1>1, <1>5, <1>7, <1>12, <2>2 DEF Team, Listed
  <2>3. \A u \in Tiers : Exists(u)
    BY <1>1 DEF IndInv, RowsComeTogether
  <2>4. ASSUME NEW u \in Tiers
        PROVE  Cardinality(Team(holder[u], u)') = TeamSize
    <3>1. CASE u = t
      BY <1>6, <2>1, <3>1
    <3>2. CASE u # t
      BY <2>2, <2>3, <3>2 DEF IndInv, CrownsDefended
    <3> QED
      BY <3>1, <3>2
  <2>5. \A u, v \in Tiers : holder'[u] = holder'[v] => u = v
    BY <1>5, <1>12, <2>3 DEF IndInv, CrownsDefended
  <2> QED
    BY <2>4, <2>5 DEF CrownsDefended
<1>14. HousesKeepTreats' /\ RowsComeTogether'
  <2>1. \A u \in Tiers : Exists(u) /\ Exists(u)'
    BY <1>1, <1>5, SomeNames DEF IndInv, RowsComeTogether, Exists
  <2> QED
    BY <1>5, <2>1 DEF IndInv, HousesKeepTreats, RowsComeTogether
<1>15. HousesStayHome'
  <2> SUFFICES ASSUME NEW u \in Tiers, NEW f \in Fighters, owner[f] = House[u], entered'[f] # 0
               PROVE  entered'[f] = u /\ holder'[u] = House[u]
    BY <1>5 DEF HousesStayHome
  <2>1. CASE f \in H
    BY <1>5, <1>7, <2>1, SpecialAssumption
  <2>2. CASE f \notin H
    BY <1>1, <1>5, <1>7, <2>2 DEF IndInv, HousesStayHome
  <2> QED
    BY <2>1, <2>2
<1>16. JudgedIsClosed'
  BY <1>1, <1>5 DEF IndInv, JudgedIsClosed, TypeOK
<1> QED
  BY <1>11, <1>13, <1>14, <1>15, <1>16 DEF IndInv

(* What happens to a treat without a tournament, and to fortunes, leaves   *)
(* the tournaments alone.                                                  *)
LEMMA OtherStep ==
  ASSUME IndInv, OtherMoves, TypeOK'
  PROVE  IndInv'
<1>1. TypeOK /\ BusyIfEntered
  BY TeamsAreWhole DEF IndInv
<1>2. /\ holder' = holder /\ state' = state /\ entered' = entered /\ mark' = mark
      /\ \A f \in Fighters : entered[f] # 0 => owner'[f] = owner[f] /\ status'[f] = status[f]
      /\ \A f \in Fighters : entered[f] = 0 => status'[f] # "SpecialTournament"
      /\ \A f \in Fighters : owner'[f] = owner[f]
                             \/ (InitialOwner[f] \in Players /\ owner'[f] \in Players)
  <2>1. ASSUME NEW f \in Wandering, Wander(f)
        PROVE  <1>2
    <3>1. f \in Fighters /\ entered[f] = 0
      BY <1>1, <2>1, SpecialAssumption DEF Wander, BusyIfEntered
    <3>2. /\ UNCHANGED <<holder, state, owner, entered, mark>>
          /\ status'[f] # "SpecialTournament" /\ \A g \in Fighters \ {f} : status'[g] = status[g]
      BY <2>1, <3>1, <1>1 DEF Wander, TypeOK
    <3> QED
      BY <1>1, <3>1, <3>2 DEF BusyIfEntered
  <2>2. ASSUME NEW f \in Wandering, NEW p \in Players, Sell(f, p)
        PROVE  <1>2
    <3>1. f \in Fighters /\ InitialOwner[f] \in Players /\ entered[f] = 0
      BY <1>1, <2>2, SpecialAssumption DEF Sell, BusyIfEntered
    <3>2. /\ UNCHANGED <<holder, state, entered, mark>>
          /\ status'[f] = "Available" /\ owner'[f] = p
          /\ \A g \in Fighters \ {f} : status'[g] = status[g] /\ owner'[g] = owner[g]
      BY <2>2, <3>1, <1>1 DEF Sell, TypeOK
    <3> QED
      BY <1>1, <3>1, <3>2 DEF BusyIfEntered
  <2>3. ASSUME NEW p \in Rising, NEW v \in Prestiges, NEW b \in 0..MaxBalance, Prosper(p, v, b)
        PROVE  <1>2
    <3>1. UNCHANGED <<holder, state, treatVars>>
      BY <2>3 DEF Prosper
    <3> QED
      BY <1>1, <3>1 DEF BusyIfEntered, treatVars
  <2> QED
    BY <2>1, <2>2, <2>3 DEF OtherMoves
<1>3. BusyIfEntered'
  BY <1>1, <1>2 DEF BusyIfEntered
<1>4. \A p \in Names : TreatsOf(p)' = TreatsOf(p)
  BY <1>2 DEF TreatsOf
<1>5. \A p \in Names : WholeTeam(p)'
  BY <1>2, <1>4, TeamsAreWhole DEF IndInv, WholeTeam
<1>6. TeamsStayTogether'
  BY <1>3, <1>5 DEF TeamsStayTogether, WholeTeam, BusyIfEntered, TreatsOf
<1>7. \A p \in Names, t \in Tiers : Team(p, t)' = Team(p, t)
  BY <1>1, <1>2, SomeNames DEF Team, Listed, BusyIfEntered
<1>8. CrownsDefended'
  BY <1>1, <1>2, <1>7 DEF IndInv, CrownsDefended, Exists, TypeOK
<1>9. HousesKeepTreats'
  BY <1>2 DEF IndInv, HousesKeepTreats
<1>10. RowsComeTogether' /\ JudgedIsClosed'
  BY <1>2 DEF IndInv, RowsComeTogether, JudgedIsClosed, Exists
<1>11. HousesStayHome'
  BY <1>2 DEF IndInv, HousesStayHome
<1> QED
  BY <1>6, <1>8, <1>9, <1>10, <1>11 DEF IndInv

(* The first day begins: no treat is listed, so there is no row yet.       *)
LEMMA NoRowYet ==
  ASSUME IndInv, Listed = {}
  PROVE  (\A t \in Tiers : ~Exists(t)) /\ (\A f \in Fighters : entered[f] = 0)
<1>1. \A t \in Tiers : ~Exists(t)
  BY HolderTeam DEF Listed
<1> QED
  BY <1>1, SomeNames DEF IndInv, RowsComeTogether

LEMMA CreateTiersStep ==
  ASSUME IndInv, CreateTiers, TypeOK'
  PROVE  IndInv'
<1> DEFINE home(t) == {f \in Fighters : owner[f] = House[t]}
<1>1. TypeOK /\ BusyIfEntered /\ \A f \in Fighters : entered[f] = 0
  BY TeamsAreWhole, NoRowYet DEF IndInv, CreateTiers
<1>2. /\ \A t \in Tiers : \A f \in home(t) :
           entered'[f] = t /\ mark'[f] = "Listed" /\ status'[f] = "SpecialTournament"
      /\ \A f \in Fighters : owner[f] \in Players =>
           entered'[f] = 0 /\ status'[f] = status[f]
      /\ owner' = owner /\ holder' = House
  <2>1. ASSUME NEW t \in Tiers, NEW f \in home(t)
        PROVE  owner[f] \notin Players /\ (CHOOSE u \in Tiers : House[u] = owner[f]) = t
    BY SpecialAssumption, SomeNames
  <2>2. \A f \in Fighters : owner[f] \notin Players =>
          /\ entered'[f] = CHOOSE u \in Tiers : House[u] = owner[f]
          /\ mark'[f] = "Listed" /\ status'[f] = "SpecialTournament"
    BY <1>1 DEF CreateTiers, TypeOK
  <2>3. \A f \in Fighters : owner[f] \in Players => entered'[f] = 0 /\ status'[f] = status[f]
    BY <1>1 DEF CreateTiers, TypeOK
  <2> QED
    BY <2>1, <2>2, <2>3 DEF CreateTiers
<1>3. \A f \in Fighters : owner[f] \in Players \/ \E t \in Tiers : f \in home(t)
  BY <1>1, SomeNames DEF TypeOK
<1>4. \A t \in Tiers : Cardinality(home(t)) = TeamSize
  BY HomeTreats DEF IndInv
<1>5. BusyIfEntered'
  <2>1. ASSUME NEW f \in Fighters
        PROVE  status'[f] = "SpecialTournament" <=> entered'[f] # 0
    <3>1. CASE owner[f] \in Players
      BY <1>1, <1>2, <3>1 DEF BusyIfEntered
    <3>2. CASE \E t \in Tiers : f \in home(t)
      BY <1>2, <3>2, SomeNames
    <3> QED
      BY <1>3, <3>1, <3>2
  <2> QED
    BY <2>1 DEF BusyIfEntered
<1>6. \A t \in Tiers : TreatsOf(House[t])' = home(t)
  BY <1>2, SomeNames DEF TreatsOf
<1>7. \A p \in Players : TreatsOf(p)' = {}
  BY <1>2 DEF TreatsOf
<1>8. \A p \in Names : WholeTeam(p)'
  <2> TAKE p \in Names
  <2>1. CASE p \in Players
    BY <1>7, <2>1 DEF WholeTeam
  <2>2. CASE p \notin Players
    <3>1. PICK t \in Tiers : p = House[t]
      BY <2>2, SomeNames
    <3>2. TreatsOf(p)' = home(t) /\ Cardinality(home(t)) = TeamSize
      BY <1>4, <1>6, <3>1
    <3>3. \A f \in home(t) : entered'[f] = t /\ mark'[f] = "Listed"
      BY <1>2
    <3> HIDE DEF home
    <3> QED
      BY <3>2, <3>3 DEF WholeTeam
  <2> QED
    BY <2>1, <2>2
<1>9. TeamsStayTogether'
  BY <1>5, <1>8 DEF TeamsStayTogether, WholeTeam, BusyIfEntered, TreatsOf
<1>10. CrownsDefended'
  <2>1. \A t \in Tiers : Team(holder[t], t)' = home(t)
    BY <1>2 DEF Team, Listed
  <2>2. \A t, u \in Tiers : holder'[u] = holder'[t] => u = t
    BY <1>2, SpecialAssumption
  <2> QED
    BY <1>4, <2>1, <2>2 DEF CrownsDefended
<1>11. HousesKeepTreats'
  BY <1>2 DEF IndInv, HousesKeepTreats
<1>12. RowsComeTogether'
  BY <1>2, SomeNames DEF RowsComeTogether, Exists
<1>13. HousesStayHome'
  BY <1>2 DEF HousesStayHome
<1>14. JudgedIsClosed'
  BY <1>2, <1>3 DEF JudgedIsClosed
<1> QED
  BY <1>9, <1>10, <1>11, <1>12, <1>13, <1>14 DEF IndInv

-----------------------------------------------------------------------------
(* Fights.                                                                 *)

LEMMA LeftIsFinite ==
  IsFiniteSet(Names) /\ IsFiniteSet(Left)
<1>1. IsFiniteSet(Tiers) /\ IsFiniteSet(Players)
  BY FS_Interval, SpecialAssumption DEF Tiers
<1>2. IsFiniteSet({House[t] : t \in Tiers})
  <2>1. House \in Surjection(Tiers, {House[t] : t \in Tiers})
    BY SpecialAssumption DEF Surjection
  <2> QED
    BY <1>1, <2>1, FS_Surjection
<1>3. IsFiniteSet(Names)
  BY <1>1, <1>2, FS_Union DEF Names
<1>4. IsFiniteSet(Tiers \X Names)
  BY <1>1, <1>3, FS_Product
<1> QED
  BY <1>3, <1>4, FS_Subset DEF Left

(* A tier is closed before one of its fights is fought. *)
LEMMA FoughtIsReached ==
  ASSUME NEW c \in Fought
  PROVE  c \in Left /\ c[1] \in Tiers /\ c[1] \in Reached
<1>1. c \in Left /\ c[1] \in Tiers
  BY DEF Fought, Left
<1>2. {d \in Left : d[1] < c[1]} \subseteq Before(c)
  BY DEF Before
<1>3. IsFiniteSet(Before(c))
  BY LeftIsFinite, FS_Subset DEF Before
<1>4. /\ Cardinality({d \in Left : d[1] < c[1]}) \in Nat
      /\ Cardinality({d \in Left : d[1] < c[1]}) <= Cardinality(Before(c))
      /\ Cardinality(Before(c)) \in Nat
  BY <1>2, <1>3, FS_Subset, FS_CardinalityType
<1>5. Pace \in Int
  <2>1. Cardinality(Listed) \in Nat
    BY SpecialAssumption, FS_Subset, FS_CardinalityType DEF Listed
  <2>2. FightsToProcess \in Int
    BY <2>1, SpecialAssumption DEF FightsToProcess
  <2> QED
    BY <2>2, SpecialAssumption DEF Pace, PaceOf
<1>6. Cardinality(Before(c)) <= Pace
  BY DEF Fought
<1>7. Cardinality({d \in Left : d[1] < c[1]}) <= Pace
  BY <1>4, <1>5, <1>6
<1> QED
  BY <1>1, <1>7, Zenon DEF Reached

(* Whole teams are judged, in closed tiers, and no crown holder's.         *)
LEMMA JudgedTeams ==
  ASSUME IndInv, NEW score \in Outcomes
  PROVE  /\ \A f \in Judged(score) :
              /\ f \in Fighters /\ status[f] = "SpecialTournament" /\ mark[f] = "Listed"
              /\ entered[f] \in Tiers \cap Reached /\ owner[f] # holder[entered[f]]
         /\ \A f, g \in Fighters :
              owner[f] = owner[g] /\ entered[f] # 0 /\ entered[g] # 0
              => /\ f \in Judged(score) <=> g \in Judged(score)
                 /\ Marks(score)[f] = Marks(score)[g]
         /\ \A f \in Fighters : IF f \in Judged(score) THEN Marks(score)[f] \in {"Won", "Lost"}
                                ELSE Marks(score)[f] = mark[f]
<1>1. DOMAIN score = Resolved
  BY DEF Outcomes
<1>2. ASSUME NEW f \in Judged(score)
      PROVE  /\ f \in Fighters /\ status[f] = "SpecialTournament" /\ mark[f] = "Listed"
             /\ entered[f] \in Tiers \cap Reached /\ owner[f] # holder[entered[f]]
  <2>1. f \in Listed /\ FightOf(f) \in Fought
    BY <1>1 DEF Judged, Resolved
  <2>2. FightOf(f) \in Left /\ FightOf(f)[1] \in Tiers \cap Reached
    BY <2>1, FoughtIsReached
  <2> QED
    BY <2>1, <2>2 DEF FightOf, Listed, Left
<1>3. ASSUME NEW f \in Fighters, NEW g \in Fighters, owner[f] = owner[g],
             entered[f] # 0, entered[g] # 0
      PROVE  /\ f \in Judged(score) <=> g \in Judged(score)
             /\ Marks(score)[f] = Marks(score)[g]
  <2>1. FightOf(f) = FightOf(g) /\ mark[f] = mark[g]
    BY <1>3, OneTeam DEF FightOf
  <2>2. status[f] = "SpecialTournament" /\ status[g] = "SpecialTournament"
    BY <1>3 DEF IndInv, TeamsStayTogether
  <2>3. f \in Judged(score) <=> g \in Judged(score)
    BY <2>1, <2>2 DEF Judged, Listed
  <2> QED
    BY <2>1, <2>3 DEF Marks
<1>4. \A f \in Fighters : IF f \in Judged(score) THEN Marks(score)[f] \in {"Won", "Lost"}
                          ELSE Marks(score)[f] = mark[f]
  BY DEF Marks
<1> QED
  BY <1>2, <1>3, <1>4

LEMMA CalculateResultsStep ==
  ASSUME IndInv, NEW score \in Outcomes, CalculateResults(score), owner' = owner, TypeOK'
  PROVE  IndInv'
<1>1. /\ TypeOK /\ BusyIfEntered
      /\ holder' = holder /\ status' = status /\ entered' = entered /\ mark' = Marks(score)
  BY TeamsAreWhole DEF IndInv, CalculateResults
<1>2. TeamsStayTogether'
  <2>1. BusyIfEntered'
    BY <1>1 DEF BusyIfEntered
  <2>2. \A p \in Names : TreatsOf(p)' = TreatsOf(p)
    BY <1>1 DEF TreatsOf
  <2>3. \A p \in Names : WholeTeam(p)
    BY TeamsAreWhole DEF IndInv
  <2>4. \A p \in Names : \A f, g \in TreatsOf(p) : mark'[f] = mark'[g]
    BY <1>1, JudgedTeams DEF TreatsOf
  <2>5. \A p \in Names : WholeTeam(p)'
    BY <1>1, <2>2, <2>3, <2>4 DEF WholeTeam
  <2> QED
    BY <2>1, <2>5 DEF TeamsStayTogether, WholeTeam, BusyIfEntered, TreatsOf
<1>3. CrownsDefended'
  <2>1. \A t \in Tiers : Team(holder[t], t)' = Team(holder[t], t)
    BY <1>1, JudgedTeams DEF Team, Listed
  <2> QED
    BY <1>1, <2>1 DEF IndInv, CrownsDefended, Exists
<1>4. HousesKeepTreats' /\ RowsComeTogether' /\ HousesStayHome'
  BY <1>1 DEF IndInv, HousesKeepTreats, RowsComeTogether, HousesStayHome, Exists
<1>5. JudgedIsClosed'
  <2> SUFFICES ASSUME NEW f \in Fighters, entered[f] # 0, mark'[f] # "Listed"
               PROVE  state'[entered[f]] = "Calculating"
    BY <1>1 DEF JudgedIsClosed
  <2>1. entered[f] \in Tiers
    BY <1>1 DEF TypeOK
  <2>2. CASE f \in Judged(score)
    BY <2>1, <2>2, JudgedTeams DEF CalculateResults
  <2>3. CASE f \notin Judged(score)
    <3>1. state[entered[f]] = "Calculating"
      BY <1>1, <2>3, JudgedTeams DEF IndInv, JudgedIsClosed
    <3> QED
      BY <2>1, <3>1 DEF CalculateResults
  <2> QED
    BY <2>2, <2>3
<1> QED
  BY <1>2, <1>3, <1>4, <1>5 DEF IndInv

(* A day of fights is a day of tiers that have their rows.                 *)
LEMMA ListedAfterRows ==
  ASSUME IndInv, Listed # {}
  PROVE  \A t \in Tiers : Exists(t)
<1>1. PICK f \in Fighters : entered[f] # 0
  BY DEF Listed, IndInv, TeamsStayTogether
<1> QED
  BY <1>1 DEF IndInv, RowsComeTogether

(* Who has a crown after the day had it before, or won a fight for it.     *)
LEMMA NewHolders ==
  ASSUME IndInv, Listed # {}, NEW score \in Outcomes, ConcludeDay(score), NEW t \in Tiers
  PROVE  /\ holder'[t] \in Names
         /\ \/ holder'[t] = holder[t]
            \/ holder'[t] # holder[t]
               /\ \E f \in Fighters : /\ owner[f] = holder'[t] /\ entered[f] = t
                                      /\ Marks(score)[f] = "Won"
         /\ \E f \in Fighters : owner[f] = holder'[t] /\ entered[f] = t
<1> DEFINE m == Marks(score)
           pts == Points(score)
<1>1. holder'[t] \in Names /\ holder'[t] \in NewHolder(t, m, pts)
  BY DEF ConcludeDay
<1> HIDE DEF m, pts
<1>2. CASE Winners(t, m) = {}
  <2>1. holder'[t] = holder[t]
    BY <1>1, <1>2 DEF NewHolder
  <2>2. Exists(t)
    BY ListedAfterRows
  <2> QED
    BY <1>1, <2>1, <2>2, HolderTeam
<1>3. CASE Winners(t, m) # {}
  <2>1. holder'[t] \in Winners(t, m)
    BY <1>1, <1>3 DEF NewHolder, Candidates
  <2>2. holder'[t] # holder[t] /\ WinningTreats(holder'[t], t, m) # {}
    BY <2>1 DEF Winners
  <2>3. \E f \in Fighters : owner[f] = holder'[t] /\ entered[f] = t /\ m[f] = "Won"
    BY <2>2 DEF WinningTreats
  <2> QED
    BY <1>1, <2>2, <2>3 DEF m
<1> QED
  BY <1>2, <1>3

(* The teams of the new holders stay, the others are free.                 *)
LEMMA TeamsAfterDay ==
  ASSUME IndInv, Listed # {}, NEW score \in Outcomes, ConcludeDay(score), owner' = owner
  PROVE  /\ \A f \in Fighters :
              IF entered[f] # 0 /\ owner[f] = holder'[entered[f]]
              THEN entered'[f] = entered[f] /\ mark'[f] = "Listed"
                   /\ status'[f] = "SpecialTournament"
              ELSE entered'[f] = 0 /\ status'[f] # "SpecialTournament"
         /\ \A t \in Tiers, p \in Names : p = holder'[t] => TreatsOf(p)' = TreatsOf(p)
         /\ \A p \in Names : (\A t \in Tiers : p # holder'[t]) => TreatsOf(p)' = {}
         /\ \A t, u \in Tiers : holder'[t] = holder'[u] => t = u
         /\ \A t \in Tiers, f \in Fighters :
              owner[f] = holder'[t] /\ entered[f] # 0 => entered[f] = t
<1>1. TypeOK /\ BusyIfEntered
  BY TeamsAreWhole DEF IndInv
<1>2. \A f \in Fighters :
        IF entered[f] # 0 /\ owner[f] = holder'[entered[f]]
        THEN entered'[f] = entered[f] /\ mark'[f] = "Listed"
             /\ status'[f] = "SpecialTournament"
        ELSE entered'[f] = 0 /\ status'[f] # "SpecialTournament"
  <2> TAKE f \in Fighters
  <2>1. CASE status[f] = "SpecialTournament" /\ owner[f] = holder'[entered[f]]
    BY <1>1, <2>1 DEF ConcludeDay, BusyIfEntered, TypeOK
  <2>2. CASE status[f] = "SpecialTournament" /\ owner[f] # holder'[entered[f]]
    BY <1>1, <2>2 DEF ConcludeDay, BusyIfEntered, TypeOK
  <2>3. CASE status[f] # "SpecialTournament"
    BY <1>1, <2>3 DEF ConcludeDay, BusyIfEntered, TypeOK
  <2> QED
    BY <2>1, <2>2, <2>3
<1>3. \A t \in Tiers : \E g \in Fighters : owner[g] = holder'[t] /\ entered[g] = t
  BY NewHolders
<1>4. \A t \in Tiers, f \in Fighters :
        owner[f] = holder'[t] /\ entered[f] # 0 => entered[f] = t
  BY <1>3, OneTeam, SomeNames
<1>5. \A t, u \in Tiers : holder'[t] = holder'[u] => t = u
  BY <1>3, <1>4, SomeNames
<1>6. ASSUME NEW t \in Tiers, NEW p \in Names, p = holder'[t]
      PROVE  TreatsOf(p)' = TreatsOf(p)
  <2>1. \A f \in Fighters : owner[f] = p => (entered'[f] # 0 <=> entered[f] # 0)
    BY <1>2, <1>4, <1>6
  <2> QED
    BY <2>1 DEF TreatsOf
<1>7. ASSUME NEW p \in Names, \A t \in Tiers : p # holder'[t]
      PROVE  TreatsOf(p)' = {}
  <2>1. \A f \in Fighters : entered[f] # 0 => entered[f] \in Tiers
    BY <1>1 DEF TypeOK
  <2> QED
    BY <1>2, <1>7, <2>1 DEF TreatsOf
<1> QED
  BY <1>2, <1>4, <1>5, <1>6, <1>7

LEMMA ConcludeDayStep ==
  ASSUME IndInv, Listed # {}, NEW score \in Outcomes, ConcludeDay(score), owner' = owner, TypeOK'
  PROVE  IndInv'
<1>1. /\ TypeOK /\ BusyIfEntered /\ \A t \in Tiers : holder'[t] \in Names
      /\ \A p \in Names : WholeTeam(p)
  BY TeamsAreWhole, NewHolders DEF IndInv
<1>2. \A f \in Fighters :
        IF entered[f] # 0 /\ owner[f] = holder'[entered[f]]
        THEN entered'[f] = entered[f] /\ mark'[f] = "Listed"
             /\ status'[f] = "SpecialTournament"
        ELSE entered'[f] = 0 /\ status'[f] # "SpecialTournament"
  BY TeamsAfterDay
<1>3. ASSUME NEW t \in Tiers, NEW p \in Names, p = holder'[t]
      PROVE  /\ TreatsOf(p)' = TreatsOf(p)
             /\ \A f \in TreatsOf(p) : /\ f \in Fighters /\ owner[f] = p /\ entered[f] = t
                                       /\ entered'[f] = t /\ mark'[f] = "Listed"
                                       /\ status'[f] = "SpecialTournament"
             /\ Cardinality(TreatsOf(p)) = TeamSize
  <2>1. TreatsOf(p)' = TreatsOf(p)
    BY <1>3, TeamsAfterDay
  <2>2. \A f \in Fighters : owner[f] = p /\ entered[f] # 0 => entered[f] = t
    BY <1>3, TeamsAfterDay
  <2>3. \E f \in Fighters : owner[f] = p /\ entered[f] = t
    BY <1>3, NewHolders
  <2>4. TreatsOf(p) # {}
    BY <2>3, SomeNames DEF TreatsOf
  <2>5. Cardinality(TreatsOf(p)) = TeamSize
    BY <1>1, <2>4 DEF WholeTeam
  <2>6. \A f \in TreatsOf(p) : f \in Fighters /\ owner[f] = p /\ entered[f] # 0
    BY DEF TreatsOf
  <2> QED
    BY <1>2, <1>3, <2>1, <2>2, <2>5, <2>6
<1>4. BusyIfEntered'
  BY <1>2 DEF BusyIfEntered
<1>5. \A p \in Names : WholeTeam(p)'
  <2> TAKE p \in Names
  <2>1. CASE \E t \in Tiers : p = holder'[t]
    BY <1>3, <2>1 DEF WholeTeam
  <2>2. CASE \A t \in Tiers : p # holder'[t]
    <3>1. TreatsOf(p)' = {}
      BY <2>2, TeamsAfterDay
    <3> QED
      BY <3>1 DEF WholeTeam
  <2> QED
    BY <2>1, <2>2
<1>6. TeamsStayTogether'
  BY <1>4, <1>5 DEF TeamsStayTogether, WholeTeam, BusyIfEntered, TreatsOf
<1>7. CrownsDefended'
  <2>1. ASSUME NEW t \in Tiers, NEW p \in Names, p = holder'[t]
        PROVE  Cardinality(Team(p, t)') = TeamSize
    <3>1. Team(p, t)' = {f \in Fighters : /\ status'[f] = "SpecialTournament"
                                          /\ mark'[f] = "Listed"
                                          /\ owner[f] = p /\ entered'[f] = t}
      BY DEF Team, Listed
    <3>2. \A f \in Fighters : owner[f] = p /\ entered'[f] = t => f \in TreatsOf(p)
      BY <1>2, SomeNames DEF TreatsOf
    <3>3. Team(p, t)' = TreatsOf(p)
      BY <1>3, <2>1, <3>1, <3>2
    <3> QED
      BY <1>3, <2>1, <3>3
  <2>2. \A t \in Tiers : Cardinality(Team(holder[t], t)') = TeamSize
    BY <1>1, <2>1 DEF Team
  <2> QED
    BY <2>2, TeamsAfterDay DEF CrownsDefended
<1>8. HousesKeepTreats'
  BY DEF IndInv, HousesKeepTreats
<1>9. RowsComeTogether'
  BY <1>1, SomeNames DEF RowsComeTogether, Exists
<1>10. HousesStayHome'
  BY <1>2 DEF IndInv, HousesStayHome
<1>11. JudgedIsClosed'
  BY <1>2 DEF JudgedIsClosed
<1> QED
  BY <1>6, <1>7, <1>8, <1>9, <1>10, <1>11 DEF IndInv

LEMMA IndStep ==
  ASSUME IndInv, [Next]_vars
  PROVE  IndInv'
<1>1. TypeOK'
  BY TypeStep DEF IndInv
<1>2. ASSUME UNCHANGED <<holder, state, treatVars>>
      PROVE  IndInv'
  BY <1>1, <1>2 DEF IndInv, treatVars, HousesKeepTreats, RowsComeTogether, Exists,
                    HousesStayHome, JudgedIsClosed, TeamsStayTogether, CrownsDefended,
                    Team, Listed
<1>3. CASE Move
  BY <1>1, <1>3, EnterStep, LeaveStep, AbdicateStep, OtherStep DEF Move
<1>4. CASE PlayFights
  BY <1>1, <1>4, CalculateResultsStep, ConcludeDayStep DEF PlayFights
<1>5. CASE PassTime
  BY <1>2, <1>5 DEF PassTime
<1>6. CASE UNCHANGED vars
  BY <1>2, <1>6 DEF vars
<1> QED
  BY <1>1, <1>3, <1>4, <1>5, <1>6, CreateTiersStep DEF Next, ProcessSpecialTournaments

LEMMA IndCorrect == Spec => []IndInv
BY InitInd, IndStep, PTL DEF Spec

(* A treat is busy with a special tournament exactly while it is entered   *)
(* in one, and every team is a whole one, in one tournament, with one      *)
(* verdict: entering, leaving, abdicating and the end of a day move teams  *)
(* as a whole.                                                             *)
THEOREM TeamsTogether == Spec => []TeamsStayTogether
<1>1. IndInv => TeamsStayTogether
  BY DEF IndInv
<1> QED
  BY IndCorrect, <1>1, PTL

(* No block and no abdication leaves a crown without a whole listed team   *)
(* that defends it, and nobody holds two crowns.                           *)
THEOREM CrownsAreDefended == Spec => []CrownsDefended
<1>1. IndInv => CrownsDefended
  BY DEF IndInv
<1> QED
  BY IndCorrect, <1>1, PTL

-----------------------------------------------------------------------------
(***************************************************************************)
(* The count of fights: the listed treats, team by team, are those of the  *)
(* crown holders and of the fights that are left.                          *)
(***************************************************************************)
Teams == {c \in Tiers \X Names : Team(c[2], c[1]) # {}}

LEMMA ListedTeamIsWhole ==
  ASSUME IndInv, NEW p \in Names, NEW t \in Tiers, Team(p, t) # {}
  PROVE  Team(p, t) = TreatsOf(p) /\ Cardinality(Team(p, t)) = TeamSize
<1>1. PICK f \in Fighters : /\ owner[f] = p /\ entered[f] = t
                            /\ status[f] = "SpecialTournament" /\ mark[f] = "Listed"
  BY DEF Team, Listed
<1>2. \A g \in Fighters : owner[g] = p /\ entered[g] # 0 => entered[g] = t /\ mark[g] = "Listed"
  BY <1>1, OneTeam, SomeNames
<1>3. BusyIfEntered /\ WholeTeam(p)
  BY TeamsAreWhole DEF IndInv
<1>4. Team(p, t) = TreatsOf(p)
  BY <1>2, <1>3, SomeNames DEF Team, Listed, TreatsOf, BusyIfEntered
<1> QED
  BY <1>3, <1>4 DEF WholeTeam

LEMMA ListedByTeams ==
  ASSUME IndInv
  PROVE  /\ IsFiniteSet(Teams) /\ Cardinality(Teams) \in Nat
         /\ Cardinality(Listed) = Cardinality(Teams) * TeamSize
<1> DEFINE fight == [f \in Listed |-> FightOf(f)]
<1>1. IsFiniteSet(Listed)
  BY SpecialAssumption, FS_Subset DEF Listed
<1>2. ASSUME NEW f \in Listed
      PROVE  FightOf(f) \in Teams
  <2>1. owner[f] \in Names /\ entered[f] \in Tiers
    BY TeamsAreWhole DEF IndInv, TypeOK, BusyIfEntered, Listed
  <2>2. f \in Team(owner[f], entered[f])
    BY DEF Team, Listed
  <2> QED
    BY <2>1, <2>2 DEF Teams, FightOf
<1>3. fight \in [Listed -> Teams]
  BY <1>2
<1>4. ASSUME NEW c \in Teams
      PROVE  Cardinality({f \in Listed : fight[f] = c}) = TeamSize
  <2>1. c = <<c[1], c[2]>> /\ c[1] \in Tiers /\ c[2] \in Names /\ Team(c[2], c[1]) # {}
    BY DEF Teams
  <2>2. {f \in Listed : fight[f] = c} = Team(c[2], c[1])
    BY <2>1 DEF Team, FightOf
  <2> QED
    BY <2>1, <2>2, ListedTeamIsWhole
<1> HIDE DEF fight
<1> QED
  BY <1>1, <1>3, <1>4, EqualClasses, SpecialAssumption

LEMMA TeamsOfCrownsAndFights ==
  ASSUME IndInv, \A t \in Tiers : Exists(t)
  PROVE  IsFiniteSet(Left) /\ Cardinality(Teams) = Cardinality(Left) + TierCount
<1> DEFINE defence == [t \in Tiers |-> <<t, holder[t]>>]
           Defences == {c \in Teams : c[2] = holder[c[1]]}
<1>1. IsFiniteSet(Tiers) /\ Cardinality(Tiers) = TierCount
  BY FS_Interval, SpecialAssumption DEF Tiers
<1>2. \A t \in Tiers : <<t, holder[t]>> \in Defences
  <2> TAKE t \in Tiers
  <2>1. PICK f \in Fighters : /\ owner[f] = holder[t] /\ entered[f] = t
                              /\ mark[f] = "Listed" /\ status[f] = "SpecialTournament"
    BY HolderTeam
  <2>2. f \in Team(holder[t], t) /\ holder[t] \in Names
    BY <2>1 DEF Team, Listed, IndInv, TypeOK
  <2> QED
    BY <2>2 DEF Teams
<1>3. defence \in Bijection(Tiers, Defences)
  <2>1. \A c \in Defences : c[1] \in Tiers /\ c = <<c[1], holder[c[1]]>>
    BY DEF Teams
  <2> QED
    BY <1>2, <2>1 DEF Bijection, Injection, IsInjective, Surjection
<1>4. IsFiniteSet(Defences) /\ Cardinality(Defences) = TierCount
  <2> HIDE DEF defence, Defences
  <2> QED
    BY <1>1, <1>3, FS_Bijection DEF ExistsBijection
<1>5. Teams = Left \cup Defences /\ Left \cap Defences = {}
  BY DEF Teams, Left
<1>6. Cardinality(Teams) = Cardinality(Left) + Cardinality(Defences) - Cardinality({})
  <2> HIDE DEF Defences
  <2> QED
    BY <1>4, <1>5, LeftIsFinite, FS_Union
<1> HIDE DEF Defences
<1> QED
  BY <1>4, <1>6, LeftIsFinite, FS_EmptySet, FS_CardinalityType, SpecialAssumption

LEMMA CountIsRight == IndInv => FightsCounted
<1> SUFFICES ASSUME IndInv, \E t \in Tiers : Exists(t)
             PROVE  FightsToProcess = Cardinality(Left)
  BY DEF FightsCounted
<1> DEFINE n == Cardinality(Left)
<1>1. \A t \in Tiers : Exists(t)
  BY DEF IndInv, RowsComeTogether
<1>2. n \in Nat /\ Cardinality(Listed) = (n + TierCount) * TeamSize
  BY <1>1, ListedByTeams, TeamsOfCrownsAndFights, FS_CardinalityType
<1> HIDE DEF n
<1>3. (n + TierCount) * TeamSize - TierCount * TeamSize = n * TeamSize
  BY <1>2, SpecialAssumption, SMT
<1>4. (n * TeamSize) \div TeamSize = n
  BY <1>2, SpecialAssumption, SMT
<1> QED
  BY <1>2, <1>3, <1>4 DEF FightsToProcess, n

(* The division that counts the fights has no remainder and the count is   *)
(* the number of teams that wait for their fight, in every state: what the *)
(* end of the day is recognised by is neither missed nor met early.        *)
THEOREM FightsAreCounted == Spec => []FightsCounted
BY IndCorrect, CountIsRight, PTL

-----------------------------------------------------------------------------
(***************************************************************************)
(* SpecialTournaments implements CrownRace.                                *)
(***************************************************************************)
RaceWith(S, e) == IF S = {} THEN 0 ELSE e[CHOOSE f \in S : TRUE]
VerdictWith(S, m) ==
  IF \E f \in S : m[f] = "Won" THEN "won" ELSE IF \E f \in S : m[f] = "Lost" THEN "lost" ELSE "none"

(* The challenge and the verdict of a player, before and after a step. *)
LEMMA RaceNow ==
  \A p \in Players :
    /\ challenges[p] = IF Holds(p) THEN 0 ELSE RaceWith(TreatsOf(p), entered)
    /\ verdicts[p] = IF Holds(p) THEN "none" ELSE VerdictWith(TreatsOf(p), mark)
BY DEF challenges, verdicts, RaceOf, VerdictOn, RaceWith, VerdictWith

LEMMA RaceNext ==
  \A p \in Players :
    /\ challenges'[p] = IF Holds(p)' THEN 0 ELSE RaceWith(TreatsOf(p)', entered')
    /\ verdicts'[p] = IF Holds(p)' THEN "none" ELSE VerdictWith(TreatsOf(p)', mark')
BY DEF challenges, verdicts, RaceOf, VerdictOn, RaceWith, VerdictWith

LEMMA RaceTypes ==
  /\ challenges = [p \in Players |-> challenges[p]]
  /\ verdicts = [p \in Players |-> verdicts[p]]
  /\ verdicts \in [Players -> {"none", "won", "lost"}]
BY DEF challenges, verdicts, VerdictOn

LEMMA RaceTypesNext ==
  /\ challenges' = [p \in Players |-> challenges'[p]]
  /\ verdicts' = [p \in Players |-> verdicts'[p]]
  /\ verdicts' \in [Players -> {"none", "won", "lost"}]
BY DEF challenges, verdicts, VerdictOn

(* A player whose crowns and treats are what they were is where he was.    *)
LEMMA SameRace ==
  ASSUME NEW p \in Players, Holds(p)' <=> Holds(p), TreatsOf(p)' = TreatsOf(p),
         \A f \in TreatsOf(p) : entered'[f] = entered[f]
  PROVE  /\ challenges'[p] = challenges[p]
         /\ (\A f \in TreatsOf(p) : mark'[f] = mark[f]) => verdicts'[p] = verdicts[p]
<1>1. RaceWith(TreatsOf(p), entered') = RaceWith(TreatsOf(p), entered)
  BY DEF RaceWith
<1>2. (\A f \in TreatsOf(p) : mark'[f] = mark[f])
      => VerdictWith(TreatsOf(p), mark') = VerdictWith(TreatsOf(p), mark)
  BY DEF VerdictWith
<1> QED
  BY <1>1, <1>2, RaceNow, RaceNext

LEMMA Unentered ==
  ASSUME NEW p \in Players
  PROVE  /\ TreatsOf(p) = {} => challenges[p] = 0 /\ verdicts[p] = "none"
         /\ TreatsOf(p)' = {} => challenges'[p] = 0 /\ verdicts'[p] = "none"
BY RaceNow, RaceNext DEF RaceWith, VerdictWith

(* A player in a tournament is its holder, or a challenger of the holder.  *)
LEMMA InRace ==
  ASSUME IndInv, NEW p \in Players, NEW f \in Fighters, owner[f] = p, entered[f] # 0
  PROVE  /\ Holds(p) <=> holder[entered[f]] = p
         /\ ~Holds(p) => challenges[p] = entered[f]
         /\ TreatsOf(p) # {} /\ \A g \in TreatsOf(p) : entered[g] = entered[f] /\ mark[g] = mark[f]
<1>1. entered[f] \in Tiers
  BY DEF IndInv, TypeOK
<1>2. \A t \in Tiers : holder[t] = p => Exists(t)
  BY SomeNames DEF Exists
<1>3. Holds(p) <=> holder[entered[f]] = p
  BY <1>1, <1>2, HolderStays DEF Holds
<1>4. \A g \in TreatsOf(p) : entered[g] = entered[f] /\ mark[g] = mark[f]
  BY OneTeam DEF TreatsOf
<1>5. TreatsOf(p) # {}
  BY DEF TreatsOf
<1>6. RaceWith(TreatsOf(p), entered) = entered[f]
  <2>1. \A g \in TreatsOf(p) : entered[g] = entered[f]
    BY <1>4
  <2> QED
    BY <1>5, <2>1, Zenon DEF RaceWith
<1> QED
  BY <1>3, <1>4, <1>5, <1>6, RaceNow

SameAsBefore == holder' = holder /\ openRaces' = openRaces /\ challenges' = challenges /\ verdicts' = verdicts

LEMMA RaceInit == Init => Race!Init
<1> SUFFICES ASSUME Init PROVE Race!Init
  OBVIOUS
<1>1. \A p \in Players : TreatsOf(p) = {}
  BY DEF Init, TreatsOf
<1>2. \A p \in Players : challenges[p] = 0 /\ verdicts[p] = "none"
  BY <1>1, Unentered
<1>3. challenges = [p \in Players |-> 0] /\ verdicts = [p \in Players |-> "none"]
  BY <1>2, RaceTypes
<1>4. openRaces = Tiers
  BY DEF Init, openRaces
<1> QED
  BY <1>3, <1>4 DEF Init, Race!Init

LEMMA RaceBegin ==
  ASSUME IndInv, CreateTiers
  PROVE  Race!Begin
<1>1. TypeOK /\ (\A t \in Tiers : ~Exists(t)) /\ \A f \in Fighters : entered[f] = 0
  BY NoRowYet DEF IndInv, CreateTiers
<1>2. \A f \in Fighters : owner[f] \in Players => entered'[f] = 0
  BY <1>1 DEF CreateTiers, TypeOK
<1>3. \A p \in Players : TreatsOf(p) = {} /\ TreatsOf(p)' = {}
  BY <1>1, <1>2 DEF TreatsOf, CreateTiers
<1>4. \A p \in Players : challenges'[p] = challenges[p] /\ verdicts'[p] = verdicts[p]
  BY <1>3, Unentered
<1>5. challenges' = challenges /\ verdicts' = verdicts
  BY <1>4, RaceTypes, RaceTypesNext
<1>6. openRaces' \in {Tiers, {}}
  BY DEF CreateTiers, openRaces
<1> QED
  BY <1>1, <1>5, <1>6 DEF CreateTiers, Exists, Race!Begin

LEMMA RaceEnter ==
  ASSUME IndInv, NEW p \in Players, NEW t \in Tiers, NEW T \in SUBSET Fighters,
         EnterSpecialTournament(p, t, T)
  PROVE  Race!Challenge(p, t)
<1> USE DEF EnterSpecialTournament, MayEnter
<1>1. /\ TypeOK /\ t \in openRaces /\ Exists(t)
      /\ UNCHANGED <<holder, state, owner>> /\ openRaces' = openRaces
  BY DEF IndInv, openRaces
<1>2. \A f \in Fighters : owner[f] = p => entered[f] = 0
  BY DEF IndInv, TeamsStayTogether
<1>3. ~Holds(p)
  BY <1>2, HolderTeam, SomeNames DEF Holds, Exists
<1>4. \A q \in Players : Holds(q)' <=> Holds(q)
  BY <1>1 DEF Holds
<1>5. \A f \in Fighters : IF f \in T THEN owner[f] = p /\ entered'[f] = t /\ mark'[f] = "Listed"
                          ELSE entered'[f] = entered[f] /\ mark'[f] = mark[f]
  BY <1>1 DEF TypeOK
<1>6. TreatsOf(p) = {} /\ TreatsOf(p)' = T /\ T # {}
  BY <1>1, <1>2, <1>5, SomeNames, SomeMember DEF TreatsOf
<1>7. challenges[p] = 0 /\ verdicts[p] = "none"
  BY <1>6, Unentered
<1>8. challenges'[p] = t /\ verdicts'[p] = "none"
  <2>1. RaceWith(T, entered') = t
    BY <1>5, <1>6 DEF RaceWith
  <2>2. VerdictWith(T, mark') = "none"
    BY <1>5 DEF VerdictWith
  <2> QED
    BY <1>3, <1>4, <1>6, <2>1, <2>2, RaceNext
<1>9. ASSUME NEW q \in Players \ {p}
      PROVE  challenges'[q] = challenges[q] /\ verdicts'[q] = verdicts[q]
  <2>1. TreatsOf(q)' = TreatsOf(q) /\ \A f \in TreatsOf(q) : f \in Fighters \ T
    BY <1>1, <1>5 DEF TreatsOf
  <2> QED
    BY <1>4, <1>5, <2>1, SameRace
<1>10. challenges' = [challenges EXCEPT ![p] = t] /\ verdicts' = verdicts
  BY <1>7, <1>8, <1>9, RaceTypes, RaceTypesNext
<1> QED
  BY <1>1, <1>3, <1>7, <1>10 DEF Race!Challenge, Holds, Exists

LEMMA RaceLeave ==
  ASSUME IndInv, NEW p \in Players, NEW t \in Tiers, LeaveSpecialTournament(p, t)
  PROVE  Race!Withdraw(p)
<1> DEFINE T == TeamOf(p, t)
<1> USE DEF LeaveSpecialTournament, Rearrange, MayLeave
<1>1. /\ TypeOK /\ t \in openRaces /\ holder[t] # p
      /\ UNCHANGED <<holder, state, owner>> /\ openRaces' = openRaces
  BY DEF IndInv, openRaces
<1>2. T \in SUBSET Fighters /\ T # {} /\ \A f \in T : owner[f] = p /\ entered[f] = t
  BY SomeMember DEF TeamOf
<1>3. ~Holds(p) /\ challenges[p] = t /\ \A f \in TreatsOf(p) : entered[f] = t
  BY <1>1, <1>2, InRace, SomeNames
<1>4. \A q \in Players : Holds(q)' <=> Holds(q)
  BY <1>1 DEF Holds
<1>5. \A f \in Fighters : IF f \in T THEN entered'[f] = 0
                          ELSE entered'[f] = entered[f] /\ mark'[f] = mark[f]
  BY <1>1 DEF TypeOK
<1>6. TreatsOf(p)' = {}
  BY <1>1, <1>3, <1>5 DEF TreatsOf, TeamOf
<1>7. challenges'[p] = 0 /\ verdicts'[p] = "none"
  BY <1>6, Unentered
<1>8. ASSUME NEW q \in Players \ {p}
      PROVE  challenges'[q] = challenges[q] /\ verdicts'[q] = verdicts[q]
  <2> HIDE DEF T
  <2>1. TreatsOf(q)' = TreatsOf(q) /\ \A f \in TreatsOf(q) : f \in Fighters \ T
    BY <1>1, <1>2, <1>5 DEF TreatsOf
  <2> QED
    BY <1>4, <1>5, <2>1, SameRace
<1>9. /\ challenges' = [challenges EXCEPT ![p] = 0]
      /\ verdicts' = [verdicts EXCEPT ![p] = "none"]
  BY <1>7, <1>8, RaceTypes, RaceTypesNext
<1> QED
  BY <1>1, <1>3, <1>9 DEF Race!Withdraw

LEMMA RaceAbdicate ==
  ASSUME IndInv, NEW p \in Players, NEW t \in Tiers, AbdicateCrown(p, t)
  PROVE  Race!Abdicate(p, t)
<1> DEFINE T == TeamOf(p, t)
           H == {f \in Fighters : owner[f] = House[t]}
<1> USE DEF AbdicateCrown, Rearrange, MayLeave
<1>1. /\ TypeOK /\ t \in openRaces /\ holder[t] = p /\ Exists(t)
      /\ holder' = [holder EXCEPT ![t] = House[t]] /\ owner' = owner
  BY DEF IndInv, openRaces
<1>2. openRaces' = openRaces
  BY <1>1 DEF openRaces, TypeOK
<1>3. T \in SUBSET Fighters /\ T # {} /\ \A f \in T : owner[f] = p /\ entered[f] = t
  BY SomeMember DEF TeamOf
<1>4. \A f \in TreatsOf(p) : f \in T
  BY <1>3, InRace, SomeNames DEF TreatsOf, TeamOf
<1>5. \A f \in Fighters :
        /\ f \in T /\ f \notin H => entered'[f] = 0
        /\ f \notin T \cup H => entered'[f] = entered[f] /\ mark'[f] = mark[f]
  <2>1. FirstTreats(House[t]) = H
    BY FirstTreatsOfHouse
  <2> QED
    BY <1>1, <2>1 DEF TypeOK
<1>6. Holds(p) /\ p # House[t]
  BY <1>1, SomeNames DEF Holds
<1>7. TreatsOf(p)' = {}
  BY <1>1, <1>4, <1>5, <1>6 DEF TreatsOf
<1>8. challenges'[p] = challenges[p] /\ verdicts'[p] = verdicts[p]
  BY <1>6, <1>7, Unentered, RaceNow
<1>9. ASSUME NEW q \in Players \ {p}
      PROVE  challenges'[q] = challenges[q] /\ verdicts'[q] = verdicts[q]
  <2>1. q # House[t]
    BY SomeNames
  <2>2. Holds(q)' <=> Holds(q)
    BY <1>1, <2>1 DEF Holds, TypeOK
  <2>3. \A f \in Fighters : owner[f] = q => f \notin T \cup H
    BY <1>3, <2>1
  <2> HIDE DEF T, H
  <2>4. TreatsOf(q)' = TreatsOf(q)
    BY <1>1, <1>5, <2>3 DEF TreatsOf
  <2>5. \A f \in TreatsOf(q) : entered'[f] = entered[f] /\ mark'[f] = mark[f]
    BY <1>5, <2>3 DEF TreatsOf
  <2> QED
    BY <2>2, <2>4, <2>5, SameRace
<1>10. challenges' = challenges /\ verdicts' = verdicts
  BY <1>8, <1>9, RaceTypes, RaceTypesNext
<1> QED
  BY <1>1, <1>2, <1>10 DEF Race!Abdicate

LEMMA RaceQuiet ==
  ASSUME IndInv, UNCHANGED <<holder, state, entered, mark>>,
         \A f \in Fighters : entered[f] # 0 => owner'[f] = owner[f]
  PROVE  SameAsBefore
<1>1. \A q \in Players : Holds(q)' <=> Holds(q)
  BY DEF Holds
<1>2. \A q \in Players : TreatsOf(q)' = TreatsOf(q)
  BY DEF TreatsOf
<1>3. \A q \in Players : challenges'[q] = challenges[q] /\ verdicts'[q] = verdicts[q]
  BY <1>1, <1>2, SameRace
<1>4. openRaces' = openRaces
  BY DEF openRaces
<1> QED
  BY <1>3, <1>4, RaceTypes, RaceTypesNext DEF SameAsBefore

LEMMA RaceOther ==
  ASSUME IndInv, OtherMoves
  PROVE  SameAsBefore
<1>1. ASSUME NEW f \in Wandering, Wander(f)
      PROVE  SameAsBefore
  BY <1>1, RaceQuiet DEF Wander
<1>2. ASSUME NEW f \in Wandering, NEW p \in Players, Sell(f, p)
      PROVE  SameAsBefore
  <2>1. f \in Fighters /\ entered[f] = 0
    BY <1>2, SpecialAssumption DEF Sell, IndInv, TeamsStayTogether
  <2>2. \A g \in Fighters : entered[g] # 0 => owner'[g] = owner[g]
    BY <1>2, <2>1 DEF Sell, IndInv, TypeOK
  <2> QED
    BY <1>2, <2>2, RaceQuiet DEF Sell
<1>3. ASSUME NEW p \in Rising, NEW v \in Prestiges, NEW b \in 0..MaxBalance, Prosper(p, v, b)
      PROVE  SameAsBefore
  BY <1>3, RaceQuiet DEF Prosper, treatVars
<1> QED
  BY <1>1, <1>2, <1>3 DEF OtherMoves

(* Verdicts after some fights: those there were stay, and the others are   *)
(* on challengers.                                                         *)
LEMMA Verdicts ==
  ASSUME IndInv, NEW score \in Outcomes, NEW p \in Players, NEW v,
         v = IF Holds(p) THEN "none" ELSE VerdictWith(TreatsOf(p), Marks(score))
  PROVE  /\ verdicts[p] # "none" => v = verdicts[p]
         /\ v # "none" => challenges[p] # 0
         /\ \A f \in Fighters :
              owner[f] = p /\ entered[f] # 0 /\ ~Holds(p)
              => v = IF Marks(score)[f] = "Won" THEN "won"
                     ELSE IF Marks(score)[f] = "Lost" THEN "lost" ELSE "none"
<1> DEFINE m == Marks(score)
<1>1. \A f, g \in TreatsOf(p) : m[f] = m[g] /\ f \in Fighters /\ entered[f] # 0
  BY JudgedTeams DEF TreatsOf
<1>2. ASSUME NEW f \in Fighters, owner[f] = p, entered[f] # 0, ~Holds(p)
      PROVE  v = IF m[f] = "Won" THEN "won" ELSE IF m[f] = "Lost" THEN "lost" ELSE "none"
  <2>1. f \in TreatsOf(p)
    BY <1>2 DEF TreatsOf
  <2>2. v = VerdictWith(TreatsOf(p), m)
    BY <1>2
  <2> HIDE DEF m
  <2> QED
    BY <1>1, <2>1, <2>2 DEF VerdictWith
<1>3. ASSUME verdicts[p] # "none"
      PROVE  v = verdicts[p]
  <2>1. ~Holds(p) /\ verdicts[p] = VerdictWith(TreatsOf(p), mark)
    BY <1>3, RaceNow
  <2>2. PICK f \in TreatsOf(p) : mark[f] = "Won" \/ mark[f] = "Lost"
    BY <1>3, <2>1 DEF VerdictWith
  <2>3. \A g \in TreatsOf(p) : mark[g] = mark[f] /\ g \in Fighters
    BY InRace DEF TreatsOf
  <2>4. \A g \in TreatsOf(p) : m[g] = mark[g]
    BY <2>2, <2>3, JudgedTeams
  <2>5. VerdictWith(TreatsOf(p), m) = VerdictWith(TreatsOf(p), mark)
    BY <2>4, Zenon DEF VerdictWith
  <2> QED
    BY <2>1, <2>5
<1>4. ASSUME v # "none"
      PROVE  challenges[p] # 0
  <2>1. ~Holds(p) /\ TreatsOf(p) # {}
    BY <1>4 DEF VerdictWith
  <2>2. PICK f \in Fighters : owner[f] = p /\ entered[f] # 0
    BY <2>1 DEF TreatsOf
  <2> QED
    BY <2>1, <2>2, InRace
<1> QED
  BY <1>2, <1>3, <1>4

LEMMA RaceFight ==
  ASSUME IndInv, IndInv', Listed # {}, NEW score \in Outcomes, CalculateResults(score),
         owner' = owner
  PROVE  Race!Fight(verdicts', {t \in Tiers : state'[t] = "Calculating"})
<1> DEFINE shut == {t \in Tiers : state'[t] = "Calculating"}
<1>1. /\ TypeOK /\ TypeOK' /\ holder' = holder /\ entered' = entered
      /\ mark' = Marks(score) /\ \A t \in Tiers : Exists(t)
  BY ListedAfterRows DEF CalculateResults, IndInv
<1>2. \A q \in Players : (Holds(q)' <=> Holds(q)) /\ TreatsOf(q)' = TreatsOf(q)
  BY <1>1 DEF Holds, TreatsOf
<1>3. challenges' = challenges
  <2>1. \A q \in Players : challenges'[q] = challenges[q]
    BY <1>1, <1>2, SameRace
  <2> QED
    BY <2>1, RaceTypes, RaceTypesNext
<1>4. \A q \in Players : verdicts'[q] = IF Holds(q) THEN "none"
                                        ELSE VerdictWith(TreatsOf(q), Marks(score))
  BY <1>1, <1>2, RaceNext
<1>5. Race!Judge(verdicts')
  BY <1>4, Verdicts DEF Race!Judge, Race!Challengers
<1>6. ASSUME NEW q \in Players, verdicts'[q] # "none"
      PROVE  challenges[q] \in shut
  <2>1. ~Holds(q) /\ TreatsOf(q) # {} /\ \E f \in TreatsOf(q) : mark'[f] # "Listed"
    BY <1>1, <1>4, <1>6 DEF VerdictWith
  <2>2. PICK f \in Fighters : owner[f] = q /\ entered[f] # 0 /\ mark'[f] # "Listed"
    BY <2>1 DEF TreatsOf
  <2>3. challenges[q] = entered[f] /\ entered[f] \in Tiers
    BY <1>1, <2>1, <2>2, InRace DEF TypeOK
  <2>4. state'[entered[f]] = "Calculating"
    BY <1>1, <2>2 DEF IndInv, JudgedIsClosed
  <2> QED
    BY <2>3, <2>4
<1>7. openRaces' = openRaces \ shut
  <2>1. \A t \in Tiers : state'[t] = "Listed" => state[t] = "Listed"
    BY DEF CalculateResults
  <2>2. \A t \in Tiers : state'[t] \in {"Listed", "Calculating"}
    BY <1>1 DEF TypeOK, TournamentState
  <2>3. \A t \in Tiers : state[t] = "Listed" /\ state'[t] # "Calculating" => state'[t] = "Listed"
    BY <2>2
  <2> QED
    BY <2>1, <2>3 DEF openRaces
<1> QED
  BY <1>1, <1>3, <1>5, <1>6, <1>7 DEF Race!Fight, Exists

(* On the last block of a day every challenger has a verdict. *)
LEMMA AllAreJudged ==
  ASSUME IndInv, Listed # {}, NEW score \in Outcomes, ConcludeDay(score),
         NEW f \in Fighters, entered[f] # 0, owner[f] # holder[entered[f]]
  PROVE  Marks(score)[f] \in {"Won", "Lost"}
<1> DEFINE t == entered[f]
           p == owner[f]
<1>1. t \in Tiers /\ p \in Names /\ mark[f] \in Mark /\ status[f] = "SpecialTournament"
  BY DEF IndInv, TypeOK, TeamsStayTogether
<1>2. \A u \in Tiers : Exists(u)
  BY ListedAfterRows
<1>3. CASE mark[f] # "Listed"
  <2>1. f \notin Judged(score)
    BY <1>3, JudgedTeams
  <2>2. Marks(score)[f] = mark[f]
    BY <2>1, JudgedTeams
  <2> QED
    BY <1>1, <1>3, <2>2 DEF Mark
<1>4. CASE mark[f] = "Listed"
  <2>1. f \in Team(p, t)
    BY <1>1, <1>4 DEF Team, Listed
  <2>2. <<t, p>> \in Left
    BY <1>1, <2>1 DEF Left
  <2>3. Fought = Left
    <3>1. Fought \subseteq Left
      BY DEF Fought
    <3>2. Cardinality(Fought) = Cardinality(Left)
      BY <1>2, <1>1, CountIsRight DEF FightsCounted, ConcludeDay
    <3> QED
      BY <3>1, <3>2, LeftIsFinite, FS_Subset
  <2>4. Whole(p, t) /\ Whole(holder[t], t)
    BY <1>1, <1>2, <2>1, ListedTeamIsWhole DEF Whole, IndInv, CrownsDefended
  <2>5. FightOf(f) \in Resolved
    BY <2>2, <2>3, <2>4 DEF Resolved, FightOf
  <2>6. f \in Judged(score)
    BY <1>1, <1>4, <2>5 DEF Judged, Outcomes, Listed
  <2> QED
    BY <2>6, JudgedTeams
<1> QED
  BY <1>3, <1>4

(* Who wins a fight for a crown is a challenger of its holder.             *)
LEMMA WinnersChallenge ==
  ASSUME IndInv, \A t \in Tiers : Exists(t), NEW t \in Tiers, NEW m, NEW p \in Winners(t, m)
  PROVE  /\ p \in Players /\ ~Holds(p) /\ challenges[p] = t
         /\ \E f \in Fighters : owner[f] = p /\ entered[f] = t /\ m[f] = "Won"
<1>1. p \in Names /\ p # holder[t] /\ WinningTreats(p, t, m) # {}
  BY DEF Winners
<1>2. PICK f \in Fighters : owner[f] = p /\ entered[f] = t /\ m[f] = "Won"
  BY <1>1 DEF WinningTreats
<1>3. p \in Players
  <2>1. SUFFICES ASSUME NEW u \in Tiers, p = House[u] PROVE FALSE
    BY <1>1, SomeNames
  <2> QED
    BY <1>1, <1>2, <2>1, SomeNames DEF IndInv, HousesStayHome
<1>4. ~Holds(p) /\ challenges[p] = t
  BY <1>1, <1>2, <1>3, InRace, SomeNames
<1> QED
  BY <1>2, <1>3, <1>4

LEMMA RaceConclude ==
  ASSUME IndInv, Listed # {}, NEW score \in Outcomes, ConcludeDay(score), owner' = owner
  PROVE  \E v \in [Players -> {"none", "won", "lost"}] : Race!Conclude(v)
<1> DEFINE m == Marks(score)
           v == [p \in Players |-> IF Holds(p) THEN "none"
                                   ELSE VerdictWith(TreatsOf(p), Marks(score))]
<1>1. TypeOK /\ \A t \in Tiers : Exists(t)
  BY ListedAfterRows DEF IndInv
<1>2. v \in [Players -> {"none", "won", "lost"}]
  BY DEF VerdictWith
<1>3. \A p \in Players : v[p] = IF Holds(p) THEN "none"
                                ELSE VerdictWith(TreatsOf(p), Marks(score))
  OBVIOUS
<1> HIDE DEF v
<1>4. Race!Judge(v)
  BY <1>3, Verdicts DEF Race!Judge, Race!Challengers
<1>5. ASSUME NEW p \in Players, challenges[p] # 0
      PROVE  v[p] # "none"
  <2>1. ~Holds(p) /\ TreatsOf(p) # {}
    BY <1>5, RaceNow, Unentered
  <2>2. PICK f \in Fighters : owner[f] = p /\ entered[f] # 0
    BY <2>1 DEF TreatsOf
  <2>3. owner[f] # holder[entered[f]]
    BY <2>1, <2>2, InRace
  <2>4. m[f] \in {"Won", "Lost"}
    BY <2>2, <2>3, AllAreJudged
  <2> QED
    BY <1>3, <2>1, <2>2, <2>4, Verdicts
<1>6. ASSUME NEW t \in Tiers
      PROVE  LET winners == {p \in Race!Challengers : challenges[p] = t /\ v[p] = "won"}
             IN IF winners = {} THEN holder'[t] = holder[t] ELSE holder'[t] \in winners
  <2> DEFINE winners == {p \in Race!Challengers : challenges[p] = t /\ v[p] = "won"}
  <2>1. ASSUME NEW p \in Winners(t, m)
        PROVE  p \in winners
    <3>1. p \in Players /\ ~Holds(p) /\ challenges[p] = t /\ t # 0
      BY <1>1, WinnersChallenge, SomeNames
    <3>2. PICK f \in Fighters : owner[f] = p /\ entered[f] = t /\ m[f] = "Won"
      BY <1>1, WinnersChallenge
    <3>3. v[p] = "won"
      BY <1>3, <3>1, <3>2, Verdicts
    <3> QED
      BY <3>1, <3>3 DEF Race!Challengers
  <2>2. ASSUME NEW p \in winners
        PROVE  p \in Winners(t, m)
    <3>1. p \in Players /\ challenges[p] = t /\ v[p] = "won" /\ t # 0
      BY SomeNames DEF Race!Challengers
    <3>2. ~Holds(p) /\ TreatsOf(p) # {}
      BY <1>3, <3>1, Unentered
    <3>3. PICK f \in Fighters : owner[f] = p /\ entered[f] # 0
      BY <3>2 DEF TreatsOf
    <3>4. entered[f] = t /\ status[f] = "SpecialTournament"
      BY <3>1, <3>2, <3>3, InRace DEF IndInv, TeamsStayTogether
    <3>5. m[f] = "Won"
      BY <1>3, <3>1, <3>2, <3>3, Verdicts
    <3>6. p # holder[t] /\ p \in Names
      BY <3>1, <3>2, SomeNames DEF Holds
    <3>7. f \in WinningTreats(p, t, m)
      BY <3>3, <3>4, <3>5 DEF WinningTreats
    <3> QED
      BY <3>6, <3>7 DEF Winners
  <2>3. winners = Winners(t, m)
    BY <2>1, <2>2
  <2>4. holder'[t] \in NewHolder(t, m, Points(score))
    BY DEF ConcludeDay
  <2> HIDE DEF m
  <2>5. IF Winners(t, m) = {} THEN holder'[t] = holder[t] ELSE holder'[t] \in Winners(t, m)
    BY <2>4 DEF NewHolder, Candidates
  <2> QED
    BY <2>3, <2>5
<1>7. \A p \in Players : challenges'[p] = 0 /\ verdicts'[p] = "none"
  <2> TAKE p \in Players
  <2>1. CASE \E t \in Tiers : p = holder'[t]
    BY <2>1, RaceNext DEF Holds
  <2>2. CASE \A t \in Tiers : p # holder'[t]
    <3>1. TreatsOf(p)' = {}
      BY <2>2, TeamsAfterDay, SomeNames
    <3> QED
      BY <3>1, Unentered
  <2> QED
    BY <2>1, <2>2
<1>8. challenges' = [p \in Players |-> 0] /\ verdicts' = [p \in Players |-> "none"]
  BY <1>7, RaceTypesNext
<1>9. openRaces' = Tiers
  BY DEF ConcludeDay, openRaces
<1>10. holder' \in [Tiers -> Players \cup {House[t] : t \in Tiers}]
  BY DEF ConcludeDay, Names
<1>11. Race!Conclude(v)
  BY <1>1, <1>4, <1>5, <1>6, <1>8, <1>9, <1>10 DEF Race!Conclude, Race!Challengers, Exists
<1> QED
  BY <1>2, <1>11

LEMMA RaceStep ==
  ASSUME IndInv, [Next]_vars
  PROVE  [Race!Next]_(Race!vars)
<1> SUFFICES Race!Next \/ SameAsBefore
  BY DEF SameAsBefore, Race!vars
<1>1. CASE Move
  <2>1. ASSUME NEW p \in Players, NEW t \in Tiers,
               NEW T \in SUBSET {f \in Fighters : owner[f] = p},
               EnterSpecialTournament(p, t, T)
        PROVE  Race!Next
    <3>1. Race!Challenge(p, t)
      BY <2>1, RaceEnter
    <3> QED
      BY <3>1 DEF Race!Next
  <2>2. ASSUME NEW p \in Players, NEW t \in Tiers, LeaveSpecialTournament(p, t)
        PROVE  Race!Next
    <3>1. Race!Withdraw(p)
      BY <2>2, RaceLeave
    <3> QED
      BY <3>1 DEF Race!Next
  <2>3. ASSUME NEW p \in Players, NEW t \in Tiers, AbdicateCrown(p, t)
        PROVE  Race!Next
    <3>1. Race!Abdicate(p, t)
      BY <2>3, RaceAbdicate
    <3> QED
      BY <3>1 DEF Race!Next
  <2> QED
    BY <1>1, <2>1, <2>2, <2>3, RaceOther DEF Move
<1>2. CASE CreateTiers
  <2>1. Race!Begin
    BY <1>2, RaceBegin
  <2> QED
    BY <2>1 DEF Race!Next
<1>3. CASE PassTime \/ UNCHANGED vars
  BY <1>3, RaceQuiet DEF PassTime, vars, treatVars
<1>4. CASE PlayFights
  <2>1. /\ Listed # {} /\ owner' = owner
        /\ \E score \in Outcomes : CalculateResults(score) \/ ConcludeDay(score)
    BY <1>4 DEF PlayFights
  <2>2. ASSUME NEW score \in Outcomes, CalculateResults(score)
        PROVE  Race!Next
    <3>1. Race!Fight(verdicts', {t \in Tiers : state'[t] = "Calculating"})
      BY <2>1, <2>2, RaceFight, IndStep
    <3>2. verdicts' \in [Players -> {"none", "won", "lost"}]
      BY RaceTypesNext
    <3> QED
      BY <3>1, <3>2 DEF Race!Next
  <2>3. ASSUME NEW score \in Outcomes, ConcludeDay(score)
        PROVE  Race!Next
    <3>1. \E v \in [Players -> {"none", "won", "lost"}] : Race!Conclude(v)
      BY <2>1, <2>3, RaceConclude
    <3> QED
      BY <3>1 DEF Race!Next
  <2> QED
    BY <2>1, <2>2, <2>3
<1> QED
  BY <1>1, <1>2, <1>3, <1>4 DEF Next, ProcessSpecialTournaments

(* SpecialTournaments implements CrownRace: with any number of players,    *)
(* tiers and treats and at any pace of the fights, moves and blocks are    *)
(* nothing but a race for crowns.  A judged team cannot escape its         *)
(* verdict, nobody enters a race whose fights have begun, every challenger *)
(* has a verdict when a day ends, and a crown goes to one who won it or,   *)
(* abdicated, to the house.                                                *)
THEOREM ImplementsCrownRace == Spec => CrownRaceSpec
<1>1. IndInv /\ [Next]_vars => IndInv'
  BY IndStep
<1>2. IndInv /\ [Next]_vars => [Race!Next]_(Race!vars)
  BY RaceStep
<1> QED
  BY InitInd, RaceInit, <1>1, <1>2, PTL DEF Spec, CrownRaceSpec, Race!Spec
=============================================================================
