------------------------ MODULE TreatFighterProofs ------------------------
(***************************************************************************)
(* Theorems about TreatFighter, for all values of its constants.           *)
(***************************************************************************)
EXTENDS TreatFighter, FiniteSetTheorems, TLAPS

-----------------------------------------------------------------------------
(* The operators the handlers are built from.                              *)

(* The share of a duration that a goody leaves is no longer than it.       *)
LEMMA ShareBounded ==
  ASSUME NEW b \in Nat, NEW g \in 0..100
  PROVE  (b * g) \div 100 \in 0..b
<1>1. b * g \in Nat /\ b * g <= b * 100
  BY SMT
<1>2. \A x \in Nat : x <= b * 100 => x \div 100 \in 0..b
  BY SMT
<1> QED
  BY <1>1, <1>2

(* An operation is always started with at least one block left, and with   *)
(* a number of blocks a uint32 holds.                                      *)
LEMMA DurationType ==
  ASSUME NEW t \in OngoingType, NEW g
  PROVE  Duration(t, g) \in 1..UintMax
<1>1. Blocks[t] \in 0..UintMax /\ UintMax \in Nat /\ UintMax > 0 /\ Blocks[t] \in Nat
  BY NumbersAssumption
<1>2. (Blocks[t] * GoodyPercent) \div 100 \in 0..Blocks[t]
  BY <1>1, ShareBounded, NumbersAssumption
<1> QED
  BY <1>1, <1>2 DEF Duration

LEMMA TickType ==
  ASSUME NEW o \in Ongoing
  PROVE  Tick(o) \in Ongoing
BY NumbersAssumption DEF Tick, Ongoing

LEMMA NewOngoingType ==
  ASSUME NEW p \in Players, NEW t \in OngoingType, NEW n \in 0..UintMax
  PROVE  NewOngoing(p, t, n) \in Ongoing
BY NumbersAssumption DEF NewOngoing, Ongoing

(* Deleting treats, changing their status and delisting keep the columns   *)
(* of the table fighters well-typed.                                       *)
FightersOK ==
  /\ owner \in [Fighters -> Players \cup {Nobody}]
  /\ status \in [Fighters -> Status]
  /\ applied \in [Fighters -> Nat]
  /\ bound \in [Fighters -> BOOLEAN]
  /\ price \in [Fighters -> Nat]
  /\ expire \in [Fighters -> Int]

LEMMA SetStatusType ==
  ASSUME FightersOK, NEW S, NEW s \in Status, SetStatus(S, s)
  PROVE  status' \in [Fighters -> Status]
BY DEF FightersOK, SetStatus

LEMMA DeleteTreatsType ==
  ASSUME FightersOK, NEW S, DeleteTreats(S)
  PROVE  FightersOK'
<1>1. status' \in [Fighters -> Status]
  BY SetStatusType DEF DeleteTreats, Status
<1>2. bound' \in [Fighters -> BOOLEAN]
  BY DEF DeleteTreats, FightersOK
<1> QED
  BY <1>1, <1>2 DEF DeleteTreats, FightersOK

LEMMA DelistType ==
  ASSUME FightersOK, NEW S, Delist(S)
  PROVE  /\ status' \in [Fighters -> Status]
         /\ price' \in [Fighters -> Nat]
         /\ expire' \in [Fighters -> Int]
<1>1. status' \in [Fighters -> Status]
  BY SetStatusType DEF Delist, Status
<1> QED
  BY <1>1 DEF Delist, FightersOK

LEMMA PrestigeType ==
  ASSUME TypeOK, NEW p \in Players, NEW m \in BOOLEAN
  PROVE  Prestige(p, m) \in SUBSET Fighters
BY DEF Prestige, Roster, TypeOK

(***************************************************************************)
(* Type correctness.  A claim counts candies, so the rewards have to be     *)
(* finitely many: TypeInv says so.                                         *)
(***************************************************************************)
TypeInv == TypeOK /\ IsFiniteSet(rewards)

LEMMA ClaimRewardsType ==
  ASSUME TypeInv, NEW p \in Players, NEW W \in SUBSET rewards, ClaimRewards(p, W)
  PROVE  /\ inv' \in [Players -> [Items -> Int]]
         /\ \A q \in Players, i \in Items : inv'[q][i] >= inv[q][i]
         /\ recipeOwner' \in [Recipes -> Players \cup {Nobody} \cup Absent]
         /\ rewards' \subseteq rewards
         /\ IsFiniteSet(rewards')
<1> DEFINE C == {w \in W : w.grant = "candy"}
<1>1. IsFiniteSet(W) /\ IsFiniteSet(C)
  BY FS_Subset DEF TypeInv
<1>2. Cardinality(C) \in Nat
  BY <1>1, FS_CardinalityType
<1>3. inv' = [inv EXCEPT ![p]["candy"] = @ + Cardinality(C)]
  BY DEF ClaimRewards
<1>4. "candy" \in Items
  BY DEF Items
<1> HIDE DEF C
<1>5. /\ inv' \in [Players -> [Items -> Int]]
      /\ \A q \in Players, i \in Items : inv'[q][i] >= inv[q][i]
  BY <1>2, <1>3, <1>4 DEF TypeInv, TypeOK
<1>6. recipeOwner' \in [Recipes -> Players \cup {Nobody} \cup Absent]
  BY DEF ClaimRewards, TypeInv, TypeOK
<1>7. rewards' \subseteq rewards /\ IsFiniteSet(rewards')
  BY FS_Subset DEF ClaimRewards, TypeInv
<1> QED
  BY <1>5, <1>6, <1>7

LEMMA InitType == Init => TypeInv
<1> SUFFICES ASSUME Init PROVE TypeInv
  OBVIOUS
<1>1. /\ owner \in [Fighters -> Players \cup {Nobody}]
      /\ status \in [Fighters -> Status]
  BY InitialAssumption DEF Init, Status
<1>2. bound \in [Fighters -> BOOLEAN]
  BY DEF Init
<1>3. recipeOwner \in [Recipes -> Players \cup {Nobody} \cup Absent]
  BY InitialAssumption DEF Init, Absent
<1>4. /\ balance \in [Players -> Int]
      /\ inv \in [Players -> [Items -> Int]]
  BY InitialAssumption DEF Init
<1>5. IsFiniteSet(rewards)
  BY FS_EmptySet DEF Init
<1> QED
  BY <1>1, <1>2, <1>3, <1>4, <1>5 DEF Init, TypeInv, TypeOK, Phases, Roster

LEMMA CookRecipeType ==
  ASSUME TypeInv, NEW p \in Players, NEW r \in RecipesOf(p), NEW f, CookRecipe(p, r, f)
  PROVE  TypeInv'
<1> DEFINE quick == inv[p]["cooker"] > 0
           d == Duration("COOK_RECIPE", quick)
           o == [NewOngoing(p, "COOK_RECIPE", d) EXCEPT !.recipe = r]
<1>1. r \in Recipes
  BY DEF RecipesOf
<1> HIDE DEF quick
<1>2. d \in 0..UintMax
  BY DurationType, NumbersAssumption DEF OngoingType
<1> USE DEF quick
<1>3. NewOngoing(p, "COOK_RECIPE", d) \in Ongoing
  BY <1>2, NewOngoingType DEF OngoingType
<1>4. o \in Ongoing
  BY <1>1, <1>3 DEF Ongoing
<1>5. ongoings' \subseteq Ongoing
  BY <1>4 DEF CookRecipe, TypeInv, TypeOK
<1>6. FightersOK'
  BY DeleteTreatsType DEF CookRecipe, TypeInv, TypeOK, FightersOK
<1>7. inv' \in [Players -> [Items -> Int]]
  BY NumbersAssumption DEF CookRecipe, TypeInv, TypeOK, Items
<1>8. balance' \in [Players -> Int]
  BY NumbersAssumption DEF CookRecipe, Pay, TypeInv, TypeOK
<1>9. recipeOwner' \in [Recipes -> Players \cup {Nobody} \cup Absent]
  BY DEF CookRecipe, TypeInv, TypeOK
<1>10. prestige' \in [Players -> SUBSET Fighters]
  BY PrestigeType DEF CookRecipe, TypeInv, TypeOK
<1> QED
  BY <1>5, <1>6, <1>7, <1>8, <1>9, <1>10 DEF CookRecipe, TypeInv, TypeOK, FightersOK

LEMMA DestroyRecipesType ==
  ASSUME TypeInv, NEW p \in Players, NEW R, DestroyRecipes(p, R)
  PROVE  TypeInv'
<1>1. recipeOwner' \in [Recipes -> Players \cup {Nobody} \cup Absent]
  BY DEF DestroyRecipes, TypeInv, TypeOK
<1>2. prestige' \in [Players -> SUBSET Fighters]
  BY PrestigeType DEF DestroyRecipes, TypeInv, TypeOK
<1> QED
  BY <1>1, <1>2 DEF DestroyRecipes, fighterVars, TypeInv, TypeOK

LEMMA CollectCookedType ==
  ASSUME TypeInv, NEW p \in Players, NEW f, CollectCooked(p, f)
  PROVE  TypeInv'
<1>1. status' \in [Fighters -> Status]
  BY SetStatusType DEF CollectCooked, TypeInv, TypeOK, FightersOK, Status
<1> QED
  BY <1>1 DEF CollectCooked, TypeInv, TypeOK

LEMMA CookSweetenerType ==
  ASSUME TypeInv, NEW p \in Players, NEW f \in Fighters, CookSweetener(p, f)
  PROVE  TypeInv'
<1> DEFINE d == Duration("COOK_SWEETENER", FALSE)
           o == [NewOngoing(p, "COOK_SWEETENER", d)
                  EXCEPT !.fighter = f, !.level = applied[f] + 1]
<1>1. d \in 0..UintMax
  BY NumbersAssumption DEF OngoingType, Duration
<1>2. NewOngoing(p, "COOK_SWEETENER", d) \in Ongoing
  BY <1>1, NewOngoingType DEF OngoingType
<1>3. applied[f] + 1 \in 0..MaxSweetness
  BY NumbersAssumption DEF CookSweetener, ParseSweetener, TypeInv, TypeOK
<1>4. o \in Ongoing
  BY <1>2, <1>3 DEF Ongoing
<1>5. ongoings' \subseteq Ongoing
  BY <1>4 DEF CookSweetener, TypeInv, TypeOK
<1>6. status' \in [Fighters -> Status]
  BY SetStatusType DEF CookSweetener, TypeInv, TypeOK, FightersOK, Status, Busy
<1>7. inv' \in [Players -> [Items -> Int]]
  BY NumbersAssumption DEF CookSweetener, TypeInv, TypeOK, Items
<1>8. balance' \in [Players -> Int]
  BY NumbersAssumption DEF CookSweetener, Pay, TypeInv, TypeOK
<1> QED
  BY <1>5, <1>6, <1>7, <1>8 DEF CookSweetener, TypeInv, TypeOK

LEMMA ClaimSweetenerType ==
  ASSUME TypeInv, NEW p \in Players, NEW f, ClaimSweetener(p, f)
  PROVE  TypeInv'
<1> DEFINE W == {w \in RewardsOf(p) : w.fighter = f /\ w.source = "COOK_SWEETENER"}
<1>1. W \in SUBSET rewards
  BY DEF RewardsOf
<1>2. ClaimRewards(p, W)
  BY DEF ClaimSweetener, SweetenerRewards
<1> HIDE DEF W
<1> QED
  BY <1>1, <1>2, ClaimRewardsType DEF ClaimSweetener, fighterVars, TypeInv, TypeOK

LEMMA GoExpeditionType ==
  ASSUME TypeInv, NEW p \in Players, NEW e \in Expeditions, NEW S \in SUBSET Fighters,
         GoExpedition(p, e, S)
  PROVE  TypeInv'
<1> DEFINE quick == inv[p]["espresso"] > 0
           d == Duration("EXPEDITION", quick)
           o(f) == [NewOngoing(p, "EXPEDITION", d) EXCEPT !.fighter = f, !.expedition = e]
<1>1. d \in 0..UintMax
  BY DurationType, NumbersAssumption DEF OngoingType
<1>2. NewOngoing(p, "EXPEDITION", d) \in Ongoing
  BY <1>1, NewOngoingType DEF OngoingType
<1>3. \A f \in S : o(f) \in Ongoing
  BY <1>2 DEF Ongoing
<1>4. ongoings' \subseteq Ongoing
  BY <1>3 DEF GoExpedition, TypeInv, TypeOK
<1>5. status' \in [Fighters -> Status]
  BY SetStatusType DEF GoExpedition, TypeInv, TypeOK, FightersOK, Status, Busy
<1>6. inv' \in [Players -> [Items -> Int]]
  <2>1. inv \in [Players -> [Items -> Int]] /\ "espresso" \in Items
    BY DEF TypeInv, TypeOK, Items
  <2>2. (IF quick THEN inv[p]["espresso"] - 1 ELSE inv[p]["espresso"]) \in Int
    BY <2>1
  <2> QED
    BY <2>1, <2>2 DEF GoExpedition
<1> QED
  BY <1>4, <1>5, <1>6 DEF GoExpedition, TypeInv, TypeOK

LEMMA ClaimExpeditionsType ==
  ASSUME TypeInv, NEW p \in Players, NEW E, ClaimExpeditions(p, E)
  PROVE  TypeInv'
<1> DEFINE W == {w \in RewardsOf(p) : w.expedition \in E}
<1>1. W \in SUBSET rewards
  BY DEF RewardsOf
<1>2. ClaimRewards(p, W)
  BY DEF ClaimExpeditions
<1> HIDE DEF W
<1> QED
  BY <1>1, <1>2, ClaimRewardsType DEF ClaimExpeditions, fighterVars, TypeInv, TypeOK

LEMMA DeconstructType ==
  ASSUME TypeInv, NEW p \in Players, NEW f \in Fighters, Deconstruct(p, f)
  PROVE  TypeInv'
<1> DEFINE n == NewOngoing(p, "DECONSTRUCTION", Blocks["DECONSTRUCTION"])
<1>1. n \in Ongoing
  BY NewOngoingType, NumbersAssumption DEF OngoingType
<1>2. [n EXCEPT !.fighter = f] \in Ongoing
  BY <1>1 DEF Ongoing
<1>3. ongoings' \subseteq Ongoing
  BY <1>2 DEF Deconstruct, TypeInv, TypeOK
<1>4. status' \in [Fighters -> Status]
  BY SetStatusType DEF Deconstruct, TypeInv, TypeOK, FightersOK, Status, Busy
<1> QED
  BY <1>3, <1>4 DEF Deconstruct, TypeInv, TypeOK

LEMMA ClaimDeconstructionType ==
  ASSUME TypeInv, NEW p \in Players, NEW f \in Fighters, ClaimDeconstruction(p, f)
  PROVE  TypeInv' /\ \A q \in Players, i \in Items : inv'[q][i] >= inv[q][i]
<1> DEFINE W == {w \in RewardsOf(p) : w.fighter = f}
           D == {w \in W : w.source = "DECONSTRUCTION"}
           candy == IF bound[f] THEN 0 ELSE RecoveredCandy * Cardinality(D)
<1>1. W \subseteq rewards /\ D \subseteq rewards
  BY DEF RewardsOf
<1>2. Cardinality(D) \in Nat
  BY <1>1, FS_Subset, FS_CardinalityType DEF TypeInv
<1>3. candy \in Nat
  BY <1>2, NumbersAssumption
<1>4. inv' = [inv EXCEPT ![p]["candy"] = @ + candy]
  BY DEF ClaimDeconstruction
<1>5. rewards' \subseteq rewards /\ IsFiniteSet(rewards')
  BY FS_Subset DEF ClaimDeconstruction, TypeInv
<1>6. FightersOK'
  BY DeleteTreatsType DEF ClaimDeconstruction, TypeInv, TypeOK, FightersOK
<1>7. prestige' \in [Players -> SUBSET Fighters]
  <2>1. prestige' = [prestige EXCEPT ![p] = Prestige(p, candy > 0)]
    BY DEF ClaimDeconstruction
  <2>2. Prestige(p, candy > 0) \in SUBSET Fighters
    BY DEF Prestige, Roster, TypeInv, TypeOK
  <2> QED
    BY <2>1, <2>2 DEF TypeInv, TypeOK
<1> HIDE DEF candy
<1>8. /\ inv' \in [Players -> [Items -> Int]]
      /\ \A q \in Players, i \in Items : inv'[q][i] >= inv[q][i]
  BY <1>3, <1>4 DEF TypeInv, TypeOK, Items
<1> QED
  BY <1>5, <1>6, <1>7, <1>8 DEF ClaimDeconstruction, TypeInv, TypeOK, FightersOK

LEMMA SellType ==
  ASSUME TypeInv, NEW p \in Players, NEW f \in Fighters, NEW x \in Prices,
         NEW d \in SaleDays, Sell(p, f, x, d)
  PROVE  TypeInv'
<1>1. status' \in [Fighters -> Status]
  BY SetStatusType DEF Sell, TypeInv, TypeOK, FightersOK, Status
<1>2. balance' \in [Players -> Int]
  BY NumbersAssumption DEF Sell, Pay, TypeInv, TypeOK
<1>3. price' \in [Fighters -> Nat]
  BY NumbersAssumption DEF Sell, TypeInv, TypeOK
<1>4. d * BlocksInOneDay \in Int
  BY NumbersAssumption
<1>5. expire' \in [Fighters -> Int]
  BY <1>4 DEF Sell, TypeInv, TypeOK
<1> QED
  BY <1>1, <1>2, <1>3, <1>5 DEF Sell, TypeInv, TypeOK

LEMMA UnlistType ==
  ASSUME TypeInv, NEW p \in Players, NEW f \in Fighters, Unlist(p, f)
  PROVE  TypeInv'
BY DelistType DEF Unlist, TypeInv, TypeOK, FightersOK

(* A price split between seller and burnt crystals gives the seller a      *)
(* whole number of crystals, and less than the buyer pays.                 *)
LEMMA SaleProceedsBounded ==
  ASSUME NEW x \in Nat, x > 0
  PROVE  SaleProceeds(x) \in Nat /\ SaleProceeds(x) < x
<1>1. CASE SalePercent256 = 256
  BY <1>1 DEF SaleProceeds
<1>2. CASE SalePercent256 # 256
  <2>1. SalePercent256 \in 0..255
    BY <1>2, NumbersAssumption
  <2>2. x * SalePercent256 \in Nat /\ x * SalePercent256 <= x * 255
    BY <2>1
  <2>3. \A y \in Nat : y <= x * 255 => y \div 256 \in Nat /\ y \div 256 < x
    BY SMT
  <2> QED
    BY <1>2, <2>2, <2>3 DEF SaleProceeds
<1> QED
  BY <1>1, <1>2

LEMMA BuyType ==
  ASSUME TypeInv, NEW p \in Players, NEW f \in Fighters, Buy(p, f)
  PROVE  TypeInv'
<1>1. SaleProceeds(price[f]) \in Int /\ price[f] \in Int
  <2>1. price[f] \in Nat /\ SalePercent256 \in Nat
    BY NumbersAssumption DEF TypeInv, TypeOK
  <2>2. price[f] * SalePercent256 \in Nat
    BY <2>1
  <2>3. \A y \in Nat : y \div 256 \in Int
    BY SMT
  <2> QED
    BY <2>1, <2>2, <2>3 DEF SaleProceeds
<1>2. balance' \in [Players -> Int]
  <2> DEFINE paid == [balance EXCEPT ![p] = @ - price[f]]
  <2>1. paid \in [Players -> Int]
    BY <1>1 DEF TypeInv, TypeOK
  <2>2. balance' = [paid EXCEPT ![owner[f]] = @ + SaleProceeds(price[f])]
    BY DEF Buy, ParseBuyData
  <2> DEFINE q == owner[f]
             x == SaleProceeds(price[f])
  <2> HIDE DEF paid, q, x
  <2>3. CASE q \in Players
    <3>1. paid[q] + x \in Int
      BY <1>1, <2>1, <2>3 DEF x
    <3> QED
      BY <2>1, <2>2, <3>1 DEF q, x
  <2>4. CASE q \notin Players
    BY <2>1, <2>2, <2>4 DEF q, x
  <2> QED
    BY <2>3, <2>4
<1>3. owner' \in [Fighters -> Players \cup {Nobody}]
  BY DEF Buy, TypeInv, TypeOK
<1>4. prestige' \in [Players -> SUBSET Fighters]
  BY DEF Buy, Prestige, Roster, TypeInv, TypeOK
<1> QED
  BY <1>2, <1>3, <1>4, DelistType DEF Buy, TypeInv, TypeOK, FightersOK

LEMMA TransfigureType ==
  ASSUME TypeInv, NEW p \in Players, NEW f \in Fighters, NEW S, NEW R,
         NEW c \in {0, FuelCandy}, Transfigure(p, f, S, R, c)
  PROVE  TypeInv'
<1>1. c \in Nat
  BY NumbersAssumption
<1>2. inv' \in [Players -> [Items -> Int]]
  BY <1>1 DEF Transfigure, DestroyUsedElements, TypeInv, TypeOK, Items
<1>3. status' \in [Fighters -> Status]
  BY DEF Transfigure, DestroyUsedElements, TypeInv, TypeOK, Status
<1>4. /\ owner' \in [Fighters -> Players \cup {Nobody}]
      /\ applied' \in [Fighters -> Nat]
  BY DEF Transfigure, DestroyUsedElements, TypeInv, TypeOK
<1>5. bound' \in [Fighters -> BOOLEAN]
  BY DEF Transfigure, DestroyUsedElements, TypeInv, TypeOK
<1>6. recipeOwner' \in [Recipes -> Players \cup {Nobody} \cup Absent]
  BY DEF Transfigure, DestroyUsedElements, TypeInv, TypeOK, Absent
<1>7. prestige' \in [Players -> SUBSET Fighters]
  <2>1. prestige' = [prestige EXCEPT ![p] = Prestige(p, c > 0)]
    BY DEF Transfigure, DestroyUsedElements
  <2>2. Prestige(p, c > 0) \in SUBSET Fighters
    BY DEF Prestige, Roster, TypeInv, TypeOK
  <2> QED
    BY <2>1, <2>2 DEF TypeInv, TypeOK
<1> QED
  BY <1>2, <1>3, <1>4, <1>5, <1>6, <1>7 DEF Transfigure, DestroyUsedElements, TypeInv, TypeOK

LEMMA BeginBlockType ==
  ASSUME TypeInv, BeginBlock
  PROVE  TypeInv'
<1>1. status' \in [Fighters -> Status]
  BY DEF BeginBlock, TypeInv, TypeOK, Status
<1>2. expire' \in [Fighters -> Int]
  BY DEF BeginBlock, TypeInv, TypeOK
<1> QED
  BY <1>1, <1>2 DEF BeginBlock, TypeInv, TypeOK, Phases

LEMMA TickOngoingsType ==
  ASSUME TypeInv, TickOngoings
  PROVE  TypeInv'
<1>1. ongoings' \subseteq Ongoing
  BY TickType DEF TickOngoings, TypeInv, TypeOK
<1> QED
  BY <1>1 DEF TickOngoings, fighterVars, TypeInv, TypeOK, Phases

(* The rolls on a reward table add finitely many rewards.                  *)
LEMMA RewardsForType ==
  ASSUME NEW o \in Ongoing, o.fighter \in Fighters, NEW T,
         T \subseteq {"none", "candy", "upgrade"} \cup Recipes,
         NEW grants \in [1..Rolls -> T]
  PROVE  RewardsFor(o, grants) \subseteq Reward /\ IsFiniteSet(RewardsFor(o, grants))
<1> DEFINE J == {j \in 1..Rolls : grants[j] # "none"}
           g(i) == [owner |-> o.player, source |-> o.type, fighter |-> o.fighter,
                    expedition |-> o.expedition, roll |-> i, grant |-> grants[i]]
<1>1. J \subseteq 1..Rolls /\ Rolls \in Nat
  BY NumbersAssumption
<1>2. IsFiniteSet(J)
  <2>1. IsFiniteSet(1..Rolls)
    BY <1>1, FS_Interval
  <2> QED
    BY <1>1, <2>1, FS_Subset
<1>3. ASSUME NEW i \in J PROVE g(i) \in Reward
  <2>1. i \in 0..Rolls
    BY <1>1
  <2>2. grants[i] \in Recipes \cup {"candy", "upgrade"}
    OBVIOUS
  <2>3. /\ o.player \in Players /\ o.type \in OngoingType
        /\ o.expedition \in Expeditions \cup {NoExpedition}
    BY DEF Ongoing
  <2> QED
    BY <2>1, <2>2, <2>3 DEF Reward
<1>4. RewardsFor(o, grants) = {g(i) : i \in J}
  BY DEF RewardsFor
<1>5. IsFiniteSet({g(i) : i \in J})
  <2> DEFINE h == [i \in J |-> g(i)]
             R == {g(i) : i \in J}
  <2>1. h \in Surjection(J, R)
    BY DEF Surjection
  <2> HIDE DEF h
  <2> QED
    BY <1>2, <2>1, FS_Surjection
<1> QED
  BY <1>3, <1>4, <1>5

LEMMA AddRewardsType ==
  ASSUME TypeInv, NEW R, R \subseteq Reward, IsFiniteSet(R), rewards' = rewards \cup R
  PROVE  rewards' \subseteq Reward /\ IsFiniteSet(rewards')
BY FS_Union DEF TypeInv, TypeOK

LEMMA ResolveType ==
  ASSUME TypeInv, NEW o, Resolve(o)
  PROVE  ongoings' \subseteq Ongoing /\ phase' \in Phases
BY DEF Resolve, TypeInv, TypeOK, Phases

LEMMA ResolveExpeditionType ==
  ASSUME TypeInv, NEW o \in ongoings, o.fighter \in Fighters, ResolveExpedition(o)
  PROVE  TypeInv'
<1>1. ongoings' \subseteq Ongoing /\ phase' \in Phases
  BY ResolveType DEF ResolveExpedition
<1>2. CASE status[o.fighter] \in Absent
  BY <1>1, <1>2 DEF ResolveExpedition, TypeInv, TypeOK
<1>3. CASE status[o.fighter] \notin Absent
  <2> DEFINE T == {"none", "candy"} \cup FreshRecipes
  <2>1. PICK grants \in [1..Rolls -> T] :
          /\ rewards' = rewards \cup RewardsFor(o, grants)
          /\ recipeOwner' = [r \in Recipes |->
                 IF \E i \in {j \in 1..Rolls : grants[j] \in FreshRecipes} : grants[i] = r
                 THEN Nobody ELSE recipeOwner[r]]
    BY <1>3 DEF ResolveExpedition
  <2>2. T \subseteq {"none", "candy", "upgrade"} \cup Recipes
    BY DEF FreshRecipes
  <2>3. RewardsFor(o, grants) \subseteq Reward /\ IsFiniteSet(RewardsFor(o, grants))
    <3> HIDE DEF T
    <3> QED
      BY <2>2, RewardsForType DEF TypeInv, TypeOK
  <2>4. rewards' \subseteq Reward /\ IsFiniteSet(rewards')
    BY <2>1, <2>3, AddRewardsType
  <2>5. recipeOwner' \in [Recipes -> Players \cup {Nobody} \cup Absent]
    BY <2>1 DEF TypeInv, TypeOK
  <2>6. status' \in [Fighters -> Status]
    BY <1>3, SetStatusType DEF ResolveExpedition, TypeInv, TypeOK, FightersOK, Status
  <2> QED
    BY <1>1, <2>4, <2>5, <2>6 DEF ResolveExpedition, TypeInv, TypeOK
<1> QED
  BY <1>2, <1>3

LEMMA FailCookingType ==
  ASSUME TypeInv, NEW o \in ongoings, FailCooking(o)
  PROVE  TypeInv'
<1>1. ongoings' \subseteq Ongoing /\ phase' \in Phases
  BY ResolveType DEF FailCooking
<1>2. o.player \in Players
  BY DEF TypeInv, TypeOK, Ongoing
<1>3. inv' \in [Players -> [Items -> Int]]
  BY <1>2, NumbersAssumption DEF FailCooking, TypeInv, TypeOK, Items
<1>4. balance' \in [Players -> Int]
  BY <1>2, NumbersAssumption DEF FailCooking, Pay, TypeInv, TypeOK
<1>5. recipeOwner' \in [Recipes -> Players \cup {Nobody} \cup Absent]
  BY <1>2 DEF FailCooking, TypeInv, TypeOK
<1> QED
  BY <1>1, <1>3, <1>4, <1>5 DEF FailCooking, fighterVars, TypeInv, TypeOK

LEMMA CookTreatType ==
  ASSUME TypeInv, NEW o \in ongoings, NEW f \in Fresh, CookTreat(o, f)
  PROVE  TypeInv'
<1>1. ongoings' \subseteq Ongoing /\ phase' \in Phases
  BY ResolveType DEF CookTreat
<1>2. o.player \in Players
  BY DEF TypeInv, TypeOK, Ongoing
<1>3. status' \in [Fighters -> Status]
  BY SetStatusType DEF CookTreat, TypeInv, TypeOK, FightersOK, Status
<1>4. owner' \in [Fighters -> Players \cup {Nobody}]
  BY <1>2 DEF CookTreat, TypeInv, TypeOK
<1>5. bound' \in [Fighters -> BOOLEAN]
  <2> DEFINE b == o.recipe \in BoundRecipes
  <2>1. b \in BOOLEAN /\ bound' = [bound EXCEPT ![f] = b]
    BY DEF CookTreat
  <2> HIDE DEF b
  <2> QED
    BY <2>1, Zenon DEF TypeInv, TypeOK
<1>6. prestige' \in [Players -> SUBSET Fighters]
  BY <1>2 DEF CookTreat, Roster, TypeInv, TypeOK
<1> QED
  BY <1>1, <1>3, <1>4, <1>5, <1>6 DEF CookTreat, TypeInv, TypeOK

LEMMA ResolveSweetenerType ==
  ASSUME TypeInv, NEW o \in ongoings, o.fighter \in Fighters, ResolveSweetener(o)
  PROVE  TypeInv'
<1>1. ongoings' \subseteq Ongoing /\ phase' \in Phases
  BY ResolveType DEF ResolveSweetener
<1>2. o.player \in Players /\ o.level \in Nat /\ o \in Ongoing
  BY NumbersAssumption DEF TypeInv, TypeOK, Ongoing
<1>3. status' \in [Fighters -> Status]
  BY SetStatusType DEF ResolveSweetener, TypeInv, TypeOK, FightersOK, Status
<1>4. CASE o.level <= applied[o.fighter]
  BY <1>1, <1>3, <1>4 DEF ResolveSweetener, TypeInv, TypeOK
<1>5. CASE ~(o.level <= applied[o.fighter])
  <2>1. PICK grants \in [1..Rolls -> {"none", "upgrade"}] :
          rewards' = rewards \cup RewardsFor(o, grants)
    BY <1>5 DEF ResolveSweetener
  <2>2. RewardsFor(o, grants) \subseteq Reward /\ IsFiniteSet(RewardsFor(o, grants))
    BY <1>2, RewardsForType
  <2>3. rewards' \subseteq Reward /\ IsFiniteSet(rewards')
    BY <2>1, <2>2, AddRewardsType
  <2>4. applied' \in [Fighters -> Nat]
    BY <1>2, <1>5 DEF ResolveSweetener, TypeInv, TypeOK
  <2>5. prestige' \in [Players -> SUBSET Fighters]
    <3> DEFINE P == Prestige(o.player, TRUE)
    <3>1. P \in SUBSET Fighters
      BY DEF Prestige, Roster, TypeInv, TypeOK
    <3>2. prestige' = [prestige EXCEPT ![o.player] = P]
      BY <1>5 DEF ResolveSweetener
    <3> HIDE DEF P
    <3> QED
      BY <1>2, <3>1, <3>2 DEF TypeInv, TypeOK
  <2> QED
    BY <1>1, <1>3, <2>3, <2>4, <2>5 DEF ResolveSweetener, TypeInv, TypeOK
<1> QED
  BY <1>4, <1>5

LEMMA ResolveDeconstructionType ==
  ASSUME TypeInv, NEW o \in ongoings, o.fighter \in Fighters, ResolveDeconstruction(o)
  PROVE  TypeInv'
<1>1. ongoings' \subseteq Ongoing /\ phase' \in Phases
  BY ResolveType DEF ResolveDeconstruction
<1>2. CASE status[o.fighter] \in Absent
  BY <1>1, <1>2 DEF ResolveDeconstruction, fighterVars, TypeInv, TypeOK
<1>3. CASE status[o.fighter] \notin Absent
  <2> DEFINE w == [owner |-> o.player, source |-> o.type, fighter |-> o.fighter,
                   expedition |-> NoExpedition, roll |-> 0, grant |-> "candy"]
  <2>1. w \in Reward
    BY NumbersAssumption DEF TypeInv, TypeOK, Ongoing, Reward
  <2>2. rewards' = rewards \cup {w}
    BY <1>3 DEF ResolveDeconstruction
  <2> HIDE DEF w
  <2>3. rewards' \subseteq Reward /\ IsFiniteSet(rewards')
    BY <2>1, <2>2, FS_AddElement DEF TypeInv, TypeOK
  <2> QED
    BY <1>1, <2>3 DEF ResolveDeconstruction, fighterVars, TypeInv, TypeOK
<1> QED
  BY <1>2, <1>3

LEMMA CheckFightersForSaleType ==
  ASSUME TypeInv, CheckFightersForSale
  PROVE  TypeInv'
BY DelistType DEF CheckFightersForSale, TypeInv, TypeOK, FightersOK, Phases

(* Every operation but cooking a recipe names a treat.                     *)
OngoingNames == \A o \in ongoings : o.type # "COOK_RECIPE" => o.fighter \in Fighters

IndType == TypeInv /\ OngoingNames

LEMMA MoveType ==
  ASSUME IndType, NEW p \in Players, CookMove(p) \/ ExpeditionMove(p) \/ FighterMove(p)
  PROVE  TypeInv'
<1> USE DEF IndType
<1>1. CASE CookMove(p)
  BY <1>1, CookRecipeType, DestroyRecipesType, CollectCookedType, CookSweetenerType,
     ClaimSweetenerType DEF CookMove
<1>2. CASE ExpeditionMove(p)
  BY <1>2, GoExpeditionType, ClaimExpeditionsType DEF ExpeditionMove, Roster
<1>3. CASE FighterMove(p)
  BY <1>3, DeconstructType, ClaimDeconstructionType, SellType, UnlistType, BuyType,
     TransfigureType DEF FighterMove
<1> QED
  BY <1>1, <1>2, <1>3

LEMMA BlockStepType ==
  ASSUME IndType, BlockStep
  PROVE  TypeInv'
<1> USE DEF IndType
<1>1. CASE ResolveStep
  <2>1. ASSUME NEW o \in Due("EXPEDITION"), ResolveExpedition(o) PROVE TypeInv'
    BY <2>1, ResolveExpeditionType DEF Due, OngoingNames
  <2>2. ASSUME NEW o \in Due("COOK_RECIPE"), FailCooking(o) PROVE TypeInv'
    BY <2>2, FailCookingType DEF Due
  <2>3. ASSUME NEW o \in Due("COOK_RECIPE"), NEW f \in Fresh, CookTreat(o, f)
        PROVE  TypeInv'
    BY <2>3, CookTreatType DEF Due
  <2>4. ASSUME NEW o \in Due("COOK_SWEETENER"), ResolveSweetener(o) PROVE TypeInv'
    BY <2>4, ResolveSweetenerType DEF Due, OngoingNames
  <2>5. ASSUME NEW o \in Due("DECONSTRUCTION"), ResolveDeconstruction(o) PROVE TypeInv'
    BY <2>5, ResolveDeconstructionType DEF Due, OngoingNames
  <2> QED
    BY <1>1, <2>1, <2>2, <2>3, <2>4, <2>5 DEF ResolveStep
<1> QED
  BY <1>1, BeginBlockType, TickOngoingsType, CheckFightersForSaleType DEF BlockStep

(* Operations are only added by moves that name a treat of the player.     *)
LEMMA OngoingNamesStep ==
  ASSUME IndType, Next
  PROVE  OngoingNames'
<1> DEFINE Good(o) == o.type # "COOK_RECIPE" => o.fighter \in Fighters
<1> SUFFICES ASSUME NEW o \in ongoings' PROVE Good(o)
  BY DEF OngoingNames
<1>1. o \in ongoings => Good(o)
  BY DEF IndType, OngoingNames
<1> USE DEF NewOngoing
<1>2. CASE Move
  <2> PICK p \in Players : CookMove(p) \/ ExpeditionMove(p) \/ FighterMove(p)
    BY <1>2 DEF Move
  <2>1. CASE CookMove(p)
    <3>1. ASSUME NEW r, NEW f, CookRecipe(p, r, f) PROVE Good(o)
      BY <1>1, <3>1 DEF CookRecipe
    <3>2. ASSUME NEW f \in Fighters, CookSweetener(p, f) PROVE Good(o)
      BY <1>1, <3>2 DEF CookSweetener
    <3>3. ASSUME NEW R, DestroyRecipes(p, R) PROVE Good(o)
      BY <1>1, <3>3 DEF DestroyRecipes
    <3>4. ASSUME NEW f, CollectCooked(p, f) \/ ClaimSweetener(p, f) PROVE Good(o)
      BY <1>1, <3>4 DEF CollectCooked, ClaimSweetener
    <3> QED
      BY <2>1, <3>1, <3>2, <3>3, <3>4 DEF CookMove
  <2>2. CASE ExpeditionMove(p)
    <3>1. ASSUME NEW e, NEW S \in SUBSET Roster(p), GoExpedition(p, e, S) PROVE Good(o)
      <4> DEFINE n(f) == [NewOngoing(p, "EXPEDITION",
                                     Duration("EXPEDITION", inv[p]["espresso"] > 0))
                          EXCEPT !.fighter = f, !.expedition = e]
      <4>1. ongoings' = ongoings \cup {n(f) : f \in S}
        BY <3>1 DEF GoExpedition
      <4>2. \A f \in S : n(f).fighter = f /\ f \in Fighters
        BY DEF Roster
      <4> HIDE DEF n
      <4> QED
        BY <1>1, <4>1, <4>2
    <3>2. ASSUME NEW E, ClaimExpeditions(p, E) PROVE Good(o)
      BY <1>1, <3>2 DEF ClaimExpeditions
    <3> QED
      BY <2>2, <3>1, <3>2 DEF ExpeditionMove
  <2>3. CASE FighterMove(p)
    <3>1. ASSUME NEW f \in Fighters, Deconstruct(p, f) PROVE Good(o)
      BY <1>1, <3>1 DEF Deconstruct
    <3>2. ASSUME NEW f, ClaimDeconstruction(p, f) \/ Unlist(p, f) \/ Buy(p, f)
          PROVE  Good(o)
      BY <1>1, <3>2 DEF ClaimDeconstruction, Unlist, Buy
    <3>3. ASSUME NEW f, NEW x, NEW d, Sell(p, f, x, d) PROVE Good(o)
      BY <1>1, <3>3 DEF Sell
    <3>4. ASSUME NEW f, NEW S, NEW R, NEW c, Transfigure(p, f, S, R, c) PROVE Good(o)
      BY <1>1, <3>4 DEF Transfigure, DestroyUsedElements
    <3> QED
      BY <2>3, <3>1, <3>2, <3>3, <3>4 DEF FighterMove
  <2> QED
    BY <2>1, <2>2, <2>3
<1>3. CASE BlockStep
  <2>1. CASE TickOngoings
    <3>1. PICK o0 \in ongoings : o = Tick(o0)
      BY <2>1 DEF TickOngoings
    <3>2. o0 \in Ongoing
      BY DEF IndType, TypeInv, TypeOK
    <3>3. o.type = o0.type /\ o.fighter = o0.fighter
      BY <3>1, <3>2 DEF Tick, Ongoing
    <3> QED
      BY <3>3 DEF IndType, OngoingNames
  <2>2. CASE ResolveStep
    BY <1>1, <2>2 DEF ResolveStep, ResolveExpedition, FailCooking, CookTreat,
                      ResolveSweetener, ResolveDeconstruction, Resolve
  <2>3. CASE BeginBlock \/ CheckFightersForSale
    BY <1>1, <2>3 DEF BeginBlock, CheckFightersForSale
  <2> QED
    BY <1>3, <2>1, <2>2, <2>3 DEF BlockStep
<1> QED
  BY <1>2, <1>3 DEF Next

LEMMA IndTypeStep == IndType /\ [Next]_vars => IndType'
<1> SUFFICES ASSUME IndType, [Next]_vars PROVE IndType'
  OBVIOUS
<1>1. CASE Next
  BY <1>1, MoveType, BlockStepType, OngoingNamesStep DEF Next, Move, IndType
<1>2. CASE UNCHANGED vars
  BY <1>2 DEF vars, fighterVars, IndType, TypeInv, TypeOK, OngoingNames
<1> QED
  BY <1>1, <1>2

THEOREM IndTypeInvariant == Spec => []IndType
<1>1. Init => IndType
  BY InitType DEF Init, IndType, OngoingNames
<1> QED
  BY <1>1, IndTypeStep, PTL DEF Spec

(* Every column of every table, and every field of the players' operations, *)
(* keeps its type, whatever moves a block holds.                           *)
THEOREM TypeCorrect == Spec => []TypeOK
<1>1. IndType => TypeOK
  BY DEF IndType, TypeInv
<1> QED
  BY <1>1, IndTypeInvariant, PTL

(***************************************************************************)
(* Nobody is ever in debt.  The seller's share is computed from the price  *)
(* of a listing, so a listed treat must have one.                          *)
(***************************************************************************)
ListedHasPrice == \A f \in Fighters : status[f] = "Exchange" => price[f] > 1

LEMMA ListedHasPriceStep ==
  ASSUME IndType, ListedHasPrice, Next
  PROVE  ListedHasPrice'
<1> USE DEF IndType, TypeInv, TypeOK, ListedHasPrice
<1> DEFINE Kept(f) == /\ status'[f] = "Exchange" => status[f] = "Exchange"
                      /\ status'[f] = "Exchange" => price'[f] = price[f]
<1>1. CASE Move
  <2> PICK p \in Players : CookMove(p) \/ ExpeditionMove(p) \/ FighterMove(p)
    BY <1>1 DEF Move
  <2>1. CASE CookMove(p)
    <3>1. ASSUME NEW r, NEW f, CookRecipe(p, r, f) PROVE \A g \in Fighters : Kept(g)
      BY <3>1 DEF CookRecipe, DeleteTreats, SetStatus
    <3>2. ASSUME NEW R, DestroyRecipes(p, R) PROVE \A g \in Fighters : Kept(g)
      BY <3>2 DEF DestroyRecipes, fighterVars
    <3>3. ASSUME NEW f, CollectCooked(p, f) \/ CookSweetener(p, f) \/ ClaimSweetener(p, f)
          PROVE  \A g \in Fighters : Kept(g)
      BY <3>3 DEF CollectCooked, CookSweetener, ClaimSweetener, SetStatus, fighterVars
    <3>4. \A g \in Fighters : Kept(g)
      BY <2>1, <3>1, <3>2, <3>3 DEF CookMove
    <3> QED
      BY <3>4
  <2>2. CASE ExpeditionMove(p)
    BY <2>2 DEF ExpeditionMove, GoExpedition, ClaimExpeditions, SetStatus, fighterVars
  <2>3. CASE FighterMove(p)
    <3>1. ASSUME NEW f, Deconstruct(p, f) \/ ClaimDeconstruction(p, f)
          PROVE  \A g \in Fighters : Kept(g)
      BY <3>1 DEF Deconstruct, ClaimDeconstruction, DeleteTreats, SetStatus
    <3>2. ASSUME NEW f \in Fighters, Unlist(p, f) \/ Buy(p, f) PROVE ListedHasPrice'
      BY <3>2 DEF Unlist, Buy, Delist, SetStatus
    <3>3. ASSUME NEW f \in Fighters, NEW x \in Prices, NEW d, Sell(p, f, x, d)
          PROVE  ListedHasPrice'
      BY <3>3, NumbersAssumption DEF Sell, SetStatus
    <3>4. ASSUME NEW f, NEW S, NEW R, NEW c, Transfigure(p, f, S, R, c)
          PROVE  \A g \in Fighters : Kept(g)
      BY <3>4 DEF Transfigure, DestroyUsedElements
    <3> QED
      BY <2>3, <3>1, <3>2, <3>3, <3>4 DEF FighterMove
  <2> QED
    BY <2>1, <2>2, <2>3
<1>2. CASE BlockStep
  <2>1. CASE ResolveStep
    <3>1. ASSUME NEW o, ResolveExpedition(o) PROVE \A g \in Fighters : Kept(g)
      BY <3>1 DEF ResolveExpedition, SetStatus
    <3>2. ASSUME NEW o, FailCooking(o) PROVE \A g \in Fighters : Kept(g)
      BY <3>2 DEF FailCooking, fighterVars
    <3>3. ASSUME NEW o, NEW f, CookTreat(o, f) PROVE \A g \in Fighters : Kept(g)
      BY <3>3 DEF CookTreat, SetStatus
    <3>4. ASSUME NEW o, ResolveSweetener(o) PROVE \A g \in Fighters : Kept(g)
      BY <3>4 DEF ResolveSweetener, SetStatus
    <3>5. ASSUME NEW o, ResolveDeconstruction(o) PROVE \A g \in Fighters : Kept(g)
      BY <3>5 DEF ResolveDeconstruction, fighterVars
    <3> QED
      BY <2>1, <3>1, <3>2, <3>3, <3>4, <3>5 DEF ResolveStep
  <2>2. CASE BeginBlock
    BY <2>2 DEF BeginBlock
  <2>3. CASE TickOngoings
    BY <2>3 DEF TickOngoings, fighterVars
  <2>4. CASE CheckFightersForSale
    BY <2>4 DEF CheckFightersForSale, Delist, SetStatus
  <2> QED
    BY <1>2, <2>1, <2>2, <2>3, <2>4 DEF BlockStep
<1> QED
  BY <1>1, <1>2 DEF Next

LEMMA NoDebtMove ==
  ASSUME IndType, NoDebt, ListedHasPrice, Move
  PROVE  NoDebt'
<1> USE DEF IndType, TypeInv, TypeOK, NoDebt, Items
<1> PICK p \in Players : CookMove(p) \/ ExpeditionMove(p) \/ FighterMove(p)
  BY DEF Move
<1>1. ASSUME NEW r, NEW f, CookRecipe(p, r, f) PROVE NoDebt'
  BY <1>1, NumbersAssumption DEF CookRecipe, ParseCookRecepie, Pay, CanPay
<1>2. ASSUME NEW R, DestroyRecipes(p, R) PROVE NoDebt'
  BY <1>2 DEF DestroyRecipes
<1>3. ASSUME NEW f, CollectCooked(p, f) PROVE NoDebt'
  BY <1>3 DEF CollectCooked
<1>4. ASSUME NEW f, CookSweetener(p, f) PROVE NoDebt'
  BY <1>4, NumbersAssumption, SMTT(30) DEF CookSweetener, Pay, CanPay
<1>5. ASSUME NEW W \in SUBSET rewards, ClaimRewards(p, W), UNCHANGED balance PROVE NoDebt'
  <2>1. \A q \in Players, i \in Items : inv'[q][i] >= inv[q][i] /\ inv'[q][i] \in Int
    BY <1>5, ClaimRewardsType
  <2>2. \A q \in Players, i \in Items : inv[q][i] \in Int
    OBVIOUS
  <2> QED
    BY <1>5, <2>1, <2>2
<1>6. ASSUME NEW f, ClaimSweetener(p, f) PROVE NoDebt'
  BY <1>5, <1>6 DEF ClaimSweetener, SweetenerRewards, RewardsOf
<1>7. ASSUME NEW e, NEW S, GoExpedition(p, e, S) PROVE NoDebt'
  <2> DEFINE n == IF inv[p]["espresso"] > 0 THEN inv[p]["espresso"] - 1
                                            ELSE inv[p]["espresso"]
  <2>1. n \in Int /\ n >= 0
    OBVIOUS
  <2>2. inv' = [inv EXCEPT ![p]["espresso"] = n] /\ UNCHANGED balance
    BY <1>7 DEF GoExpedition
  <2> HIDE DEF n
  <2> QED
    BY <2>1, <2>2
<1>8. ASSUME NEW E, ClaimExpeditions(p, E) PROVE NoDebt'
  BY <1>5, <1>8 DEF ClaimExpeditions, RewardsOf
<1>9. ASSUME NEW f, Deconstruct(p, f) \/ Unlist(p, f) PROVE NoDebt'
  BY <1>9 DEF Deconstruct, Unlist
<1>10. ASSUME NEW f \in Fighters, ClaimDeconstruction(p, f) PROVE NoDebt'
  <2>1. \A q \in Players, i \in Items : inv'[q][i] >= inv[q][i] /\ inv'[q][i] \in Int
    BY <1>10, ClaimDeconstructionType
  <2>2. UNCHANGED balance
    BY <1>10 DEF ClaimDeconstruction
  <2>3. \A q \in Players, i \in Items : inv[q][i] \in Int
    OBVIOUS
  <2> QED
    BY <2>1, <2>2, <2>3
<1>11. ASSUME NEW f, NEW x, NEW d, Sell(p, f, x, d) PROVE NoDebt'
  BY <1>11, NumbersAssumption DEF Sell, ParseFighterForSaleData, Pay, CanPay
<1>12. ASSUME NEW f \in Fighters, Buy(p, f) PROVE NoDebt'
  <2>1. price[f] \in Nat /\ price[f] > 0
    BY <1>12 DEF Buy, ParseBuyData, ListedHasPrice
  <2>2. SaleProceeds(price[f]) \in Nat
    BY <2>1, SaleProceedsBounded
  <2>3. UNCHANGED inv /\ balance[p] >= price[f]
    BY <1>12 DEF Buy, ParseBuyData, CanPay
  <2>4. balance' = [balance EXCEPT ![p] = @ - price[f],
                                  ![owner[f]] = @ + SaleProceeds(price[f])]
    BY <1>12 DEF Buy
  <2> DEFINE x == SaleProceeds(price[f])
  <2> HIDE DEF x
  <2>5. ASSUME NEW q \in Players PROVE balance'[q] >= 0
    BY <2>1, <2>2, <2>3, <2>4 DEF x
  <2> QED
    BY <2>3, <2>5
<1>13. ASSUME NEW f, NEW S, NEW R, NEW c \in {0, FuelCandy}, Transfigure(p, f, S, R, c)
       PROVE  NoDebt'
  BY <1>13, NumbersAssumption DEF Transfigure, DestroyUsedElements, ParseTransfigureData, MayBurn
<1> QED
  BY <1>1, <1>2, <1>3, <1>4, <1>6, <1>7, <1>8, <1>9, <1>10, <1>11, <1>12, <1>13
     DEF CookMove, ExpeditionMove, FighterMove

LEMMA NoDebtBlockStep ==
  ASSUME IndType, NoDebt, BlockStep
  PROVE  NoDebt'
<1> USE DEF IndType, TypeInv, TypeOK, NoDebt, Items
<1>1. ASSUME NEW o \in ongoings, FailCooking(o) PROVE NoDebt'
  <2>1. o.player \in Players
    BY DEF Ongoing
  <2> QED
    BY <1>1, <2>1, NumbersAssumption DEF FailCooking, Pay
<1>2. ASSUME NEW o, ResolveExpedition(o) \/ ResolveSweetener(o) \/ ResolveDeconstruction(o)
      PROVE  NoDebt'
  BY <1>2 DEF ResolveExpedition, ResolveSweetener, ResolveDeconstruction
<1>3. ASSUME NEW o, NEW f, CookTreat(o, f) PROVE NoDebt'
  BY <1>3 DEF CookTreat
<1>4. CASE BeginBlock \/ TickOngoings \/ CheckFightersForSale
  BY <1>4 DEF BeginBlock, TickOngoings, CheckFightersForSale
<1> QED
  BY <1>1, <1>2, <1>3, <1>4 DEF BlockStep, ResolveStep, Due

IndDebt == IndType /\ NoDebt /\ ListedHasPrice

LEMMA DebtInvariant == Spec => []IndDebt
<1>1. Init => IndDebt
  <2> SUFFICES ASSUME Init PROVE IndDebt
    OBVIOUS
  <2>1. IndType
    BY InitType DEF Init, IndType, OngoingNames
  <2>2. NoDebt
    BY InitialAssumption DEF Init, NoDebt
  <2>3. ListedHasPrice
    BY DEF Init, ListedHasPrice
  <2> QED
    BY <2>1, <2>2, <2>3 DEF IndDebt
<1>2. IndDebt /\ [Next]_vars => IndDebt'
  <2> SUFFICES ASSUME IndDebt, [Next]_vars PROVE IndDebt'
    OBVIOUS
  <2>1. IndType'
    BY IndTypeStep DEF IndDebt
  <2>2. CASE Next
    BY <2>1, <2>2, NoDebtMove, NoDebtBlockStep, ListedHasPriceStep
       DEF Next, IndDebt
  <2>3. CASE UNCHANGED vars
    BY <2>1, <2>3 DEF vars, fighterVars, NoDebt, ListedHasPrice, IndDebt
  <2> QED
    BY <2>2, <2>3
<1> QED
  BY <1>1, <1>2, PTL DEF Spec

(* ~XayaPlayer CHECKs that no player is stored with a negative balance: the *)
(* guards of the moves see to it, whatever the costs, fees and prices are,  *)
(* and no item is used that is not there.                                  *)
THEOREM NobodyInDebt == Spec => []NoDebt
<1>1. IndDebt => NoDebt
  BY DEF IndDebt
<1> QED
  BY <1>1, DebtInvariant, PTL

(***************************************************************************)
(* Operations and treats never come apart.  The invariant also has to know *)
(* that recipes in the oven name no treat, and whom the reward for a treat *)
(* that was taken apart belongs to.                                        *)
(***************************************************************************)
CookingNamesNone == \A o \in ongoings : o.type = "COOK_RECIPE" => o.fighter = NoFighter

PartsHaveTreat ==
  \A w \in rewards : w.source = "DECONSTRUCTION" =>
    /\ w.expedition = NoExpedition
    /\ w.owner = owner[w.fighter]
    /\ status[w.fighter] = "Deconstructing"

IndTreat == /\ IndType /\ CookingNamesNone /\ PartsHaveTreat
            /\ OngoingHasTreat /\ OneOngoingPerTreat /\ BusyTreatIsFreed

TreatOps == {o \in ongoings : o.type # "COOK_RECIPE"}
Parts == {w \in rewards : w.source = "DECONSTRUCTION"}

TreatFacts == /\ CookingNamesNone /\ PartsHaveTreat
              /\ OngoingHasTreat /\ OneOngoingPerTreat /\ BusyTreatIsFreed

(* A step that leaves alone what is busy, before it and after it.          *)
LEMMA QuietStep ==
  ASSUME IndTreat, IndType', CookingNamesNone', TreatOps' = TreatOps, Parts' = Parts,
         \A f \in Fighters : status[f] \in Busy \/ status'[f] \in Busy =>
            status'[f] = status[f] /\ owner'[f] = owner[f]
  PROVE  TreatFacts'
<1> USE DEF IndTreat
<1>1. \A o \in ongoings' : o.type # "COOK_RECIPE" => o \in ongoings
  BY DEF TreatOps
<1>2. \A o \in ongoings : o.type # "COOK_RECIPE" => o \in ongoings'
  BY DEF TreatOps
<1>3. \A w \in rewards' : w.source = "DECONSTRUCTION" => w \in rewards
  BY DEF Parts
<1>4. \A w \in rewards : w.source = "DECONSTRUCTION" => w \in rewards'
  BY DEF Parts
<1>5. \A o \in ongoings : o \in Ongoing
  BY DEF IndType, TypeInv, TypeOK
<1>6. \A w \in rewards : w.fighter \in Fighters
  BY DEF IndType, TypeInv, TypeOK, Reward
<1>7. OngoingHasTreat'
  BY <1>1, <1>5 DEF OngoingHasTreat, StatusIn, Busy, Ongoing, OngoingType
<1>8. OneOngoingPerTreat'
  BY <1>1, CookingNamesNone' DEF OneOngoingPerTreat, CookingNamesNone
<1>9. PartsHaveTreat'
  BY <1>3, <1>6 DEF PartsHaveTreat, Busy
<1>10. BusyTreatIsFreed'
  <2> SUFFICES ASSUME NEW f \in Fighters
               PROVE  LET working == \E o \in ongoings' : o.fighter = f
                          reward == \E w \in rewards' :
                             /\ w.fighter = f /\ w.source = "DECONSTRUCTION"
                             /\ w.owner = owner'[f]
                      IN /\ status'[f] \in {"Expedition", "Cooking"} => working
                         /\ status'[f] = "Deconstructing" => working \/ reward
                         /\ ~(working /\ reward)
    BY DEF BusyTreatIsFreed
  <2>1. f # NoFighter
    BY SetsAssumption
  <2>2. (\E o \in ongoings' : o.fighter = f) <=> (\E o \in ongoings : o.fighter = f)
    BY <1>1, <1>2, <2>1 DEF CookingNamesNone
  <2>3. CASE status'[f] \in Busy
    BY <1>3, <1>4, <2>2, <2>3 DEF BusyTreatIsFreed, Busy
  <2>4. CASE status'[f] \notin Busy
    <3>1. status[f] \notin Busy
      BY <2>4
    <3>2. ~ \E o \in ongoings : o.fighter = f
      BY <1>5, <2>1, <3>1 DEF OngoingHasTreat, CookingNamesNone, StatusIn, Busy, Ongoing,
                              OngoingType
    <3> QED
      BY <2>2, <2>4, <3>2 DEF Busy
  <2> QED
    BY <2>3, <2>4
<1> QED
  BY <1>7, <1>8, <1>9, <1>10 DEF TreatFacts

(* No operation and no reward for parts is about a treat that is not busy. *)
LEMMA IdleTreat ==
  ASSUME IndTreat, NEW f \in Fighters, status[f] \notin Busy
  PROVE  /\ \A o \in ongoings : o.fighter # f
         /\ \A w \in rewards : w.source = "DECONSTRUCTION" => w.fighter # f
<1> USE DEF IndTreat
<1>1. f # NoFighter
  BY SetsAssumption
<1>2. \A o \in ongoings : o \in Ongoing
  BY DEF IndType, TypeInv, TypeOK
<1>3. \A o \in ongoings : o.fighter # f
  BY <1>1, <1>2 DEF OngoingHasTreat, CookingNamesNone, StatusIn, Busy, Ongoing, OngoingType
<1>4. \A w \in rewards : w.source = "DECONSTRUCTION" => w.fighter # f
  BY DEF PartsHaveTreat, Busy
<1> QED
  BY <1>3, <1>4

(* A step that puts the free treats S of p to work, one operation each.    *)
Started(p, S, t, N) ==
  /\ \A f \in S : status[f] = "Available" /\ owner[f] = p
  /\ ongoings' = ongoings \cup N
  /\ \A o \in N : o.fighter \in S /\ o.player = p /\ o.type = t
  /\ \A f \in S : \E o \in N : o.fighter = f
  /\ \A o1, o2 \in N : o1.fighter = o2.fighter => o1 = o2
  /\ status' = [f \in Fighters |-> IF f \in S THEN StatusIn[t] ELSE status[f]]
  /\ owner' = owner
  /\ rewards' = rewards

LEMMA StartStep ==
  ASSUME IndTreat, NEW p, NEW S \in SUBSET Fighters,
         NEW t \in OngoingType, t # "COOK_RECIPE", NEW N, Started(p, S, t, N)
  PROVE  TreatFacts'
<1> USE DEF IndTreat, Started
<1>1. \A f \in S : /\ \A o \in ongoings : o.fighter # f
                   /\ \A w \in rewards : w.source = "DECONSTRUCTION" => w.fighter # f
  BY IdleTreat DEF Busy
<1>2. \A w \in rewards : w.fighter \in Fighters
  BY DEF IndType, TypeInv, TypeOK, Reward
<1>3. CookingNamesNone'
  BY DEF CookingNamesNone
<1>4. PartsHaveTreat'
  BY <1>1, <1>2 DEF PartsHaveTreat
<1>5. OngoingHasTreat'
  BY <1>1 DEF OngoingHasTreat
<1>6. OneOngoingPerTreat'
  BY <1>1 DEF OneOngoingPerTreat
<1>7. BusyTreatIsFreed'
  <2> SUFFICES ASSUME NEW f \in Fighters
               PROVE  LET working == \E o \in ongoings' : o.fighter = f
                          reward == \E w \in rewards' :
                             /\ w.fighter = f /\ w.source = "DECONSTRUCTION"
                             /\ w.owner = owner'[f]
                      IN /\ status'[f] \in {"Expedition", "Cooking"} => working
                         /\ status'[f] = "Deconstructing" => working \/ reward
                         /\ ~(working /\ reward)
    BY DEF BusyTreatIsFreed
  <2>1. CASE f \in S
    BY <1>1, <2>1
  <2>2. CASE f \notin S
    <3>1. (\E o \in ongoings' : o.fighter = f) <=> (\E o \in ongoings : o.fighter = f)
      BY <2>2
    <3>2. status'[f] = status[f]
      BY <2>2
    <3> QED
      BY <3>1, <3>2 DEF BusyTreatIsFreed
  <2> QED
    BY <2>1, <2>2
<1> QED
  BY <1>3, <1>4, <1>5, <1>6, <1>7 DEF TreatFacts

(* A step that ends an operation: its treat is free, the other treats and  *)
(* operations stay as they are.                                            *)
LEMMA FinishStep ==
  ASSUME IndTreat, NEW o \in ongoings, o.type # "COOK_RECIPE", o.type # "DECONSTRUCTION",
         ongoings' = ongoings \ {o},
         status' = [f \in Fighters |-> IF f \in {o.fighter} THEN "Available" ELSE status[f]],
         owner' = owner, Parts' = Parts
  PROVE  TreatFacts'
<1> USE DEF IndTreat
<1>1. o.fighter \in Fighters /\ o.fighter # NoFighter
  BY SetsAssumption DEF OngoingHasTreat
<1>2. status[o.fighter] \in {"Expedition", "Cooking"}
  BY DEF OngoingHasTreat, StatusIn, IndType, TypeInv, TypeOK, Ongoing, OngoingType
<1>3. \A o2 \in ongoings' : o2 \in ongoings /\ o2.fighter # o.fighter
  BY <1>1 DEF OneOngoingPerTreat
<1>4. \A w \in rewards' : w.source = "DECONSTRUCTION" => w \in rewards
  BY DEF Parts
<1>5. \A w \in rewards : w.source = "DECONSTRUCTION" => w \in rewards'
  BY DEF Parts
<1>6. \A w \in rewards : w.fighter \in Fighters
  BY DEF IndType, TypeInv, TypeOK, Reward
<1>7. \A w \in rewards : w.source = "DECONSTRUCTION" => w.fighter # o.fighter
  BY <1>2 DEF PartsHaveTreat
<1>8. CookingNamesNone' /\ OngoingHasTreat' /\ OneOngoingPerTreat'
  BY <1>3 DEF CookingNamesNone, OngoingHasTreat, OneOngoingPerTreat
<1>9. PartsHaveTreat'
  BY <1>4, <1>6, <1>7 DEF PartsHaveTreat
<1>10. BusyTreatIsFreed'
  <2> SUFFICES ASSUME NEW f \in Fighters
               PROVE  LET working == \E o2 \in ongoings' : o2.fighter = f
                          reward == \E w \in rewards' :
                             /\ w.fighter = f /\ w.source = "DECONSTRUCTION"
                             /\ w.owner = owner'[f]
                      IN /\ status'[f] \in {"Expedition", "Cooking"} => working
                         /\ status'[f] = "Deconstructing" => working \/ reward
                         /\ ~(working /\ reward)
    BY DEF BusyTreatIsFreed
  <2>1. CASE f = o.fighter
    BY <1>3, <2>1
  <2>2. CASE f # o.fighter
    <3>1. (\E o2 \in ongoings' : o2.fighter = f) <=> (\E o2 \in ongoings : o2.fighter = f)
      BY <2>2
    <3>2. status'[f] = status[f]
      BY <2>2
    <3> QED
      BY <1>4, <1>5, <3>1, <3>2 DEF BusyTreatIsFreed
  <2> QED
    BY <2>1, <2>2
<1> QED
  BY <1>8, <1>9, <1>10 DEF TreatFacts

LEMMA TreatCookMove ==
  ASSUME StrayTreats = FALSE, IndTreat, IndType', NEW p \in Players, CookMove(p)
  PROVE  TreatFacts'
<1> USE DEF IndTreat, IndType, TypeInv, TypeOK
<1>1. ASSUME NEW r \in RecipesOf(p), NEW f \in CookInput(r), CookRecipe(p, r, f)
      PROVE  TreatFacts'
  <2> DEFINE quick == inv[p]["cooker"] > 0
             n == [NewOngoing(p, "COOK_RECIPE", Duration("COOK_RECIPE", quick))
                   EXCEPT !.recipe = r]
             named == IF f # NoFighter /\ f \in Fighters \ Fresh THEN {f} ELSE {}
  <2>1. n.type = "COOK_RECIPE" /\ n.fighter = NoFighter
    BY DEF NewOngoing
  <2>2. ongoings' = ongoings \cup {n} /\ rewards' = rewards /\ DeleteTreats(named)
    BY <1>1 DEF CookRecipe
  <2>3. \A g \in named : status[g] = "Available"
    BY <1>1 DEF CookRecipe, ParseCookRecepie, CookInput, Free
  <2> HIDE DEF n, named
  <2>4. CookingNamesNone' /\ TreatOps' = TreatOps /\ Parts' = Parts
    BY <2>1, <2>2 DEF CookingNamesNone, TreatOps, Parts
  <2>5. \A g \in Fighters : status[g] \in Busy \/ status'[g] \in Busy =>
           status'[g] = status[g] /\ owner'[g] = owner[g]
    BY <2>2, <2>3 DEF DeleteTreats, SetStatus, Busy
  <2> QED
    BY <2>4, <2>5, QuietStep
<1>2. ASSUME NEW R, DestroyRecipes(p, R) PROVE TreatFacts'
  BY <1>2, QuietStep DEF DestroyRecipes, fighterVars, CookingNamesNone, TreatOps, Parts
<1>3. ASSUME NEW f \in Fighters, CollectCooked(p, f) PROVE TreatFacts'
  <2>1. CookingNamesNone' /\ TreatOps' = TreatOps /\ Parts' = Parts
    BY <1>3 DEF CollectCooked, CookingNamesNone, TreatOps, Parts
  <2>2. \A g \in Fighters : status[g] \in Busy \/ status'[g] \in Busy =>
           status'[g] = status[g] /\ owner'[g] = owner[g]
    BY <1>3 DEF CollectCooked, ParseCollectCookRecepie, SetStatus, Busy
  <2> QED
    BY <2>1, <2>2, QuietStep
<1>4. ASSUME NEW f \in Fighters, CookSweetener(p, f) PROVE TreatFacts'
  <2> DEFINE n == [NewOngoing(p, "COOK_SWEETENER", Duration("COOK_SWEETENER", FALSE))
                   EXCEPT !.fighter = f, !.level = applied[f] + 1]
  <2>1. n.type = "COOK_SWEETENER" /\ n.fighter = f /\ n.player = p
    BY DEF NewOngoing
  <2>2. ongoings' = ongoings \cup {n} /\ rewards' = rewards /\ owner' = owner
    BY <1>4 DEF CookSweetener
  <2>3. status[f] = "Available" /\ owner[f] = p
    BY <1>4 DEF CookSweetener, Free, Mine
  <2>4. status' = [g \in Fighters |-> IF g \in {f} THEN StatusIn["COOK_SWEETENER"]
                                     ELSE status[g]]
    BY <1>4 DEF CookSweetener, SetStatus, StatusIn
  <2> HIDE DEF n
  <2> DEFINE S == {f}
             N == {n}
             t == "COOK_SWEETENER"
  <2>5. /\ S \in SUBSET Fighters /\ t \in OngoingType /\ t # "COOK_RECIPE"
        /\ \A g \in S : status[g] = "Available" /\ owner[g] = p
        /\ \A o \in N : o.fighter \in S /\ o.player = p /\ o.type = t
        /\ \A g \in S : \E o \in N : o.fighter = g
        /\ \A o1, o2 \in N : o1.fighter = o2.fighter => o1 = o2
    BY <2>1, <2>3 DEF OngoingType
  <2>6. /\ ongoings' = ongoings \cup N
        /\ status' = [g \in Fighters |-> IF g \in S THEN StatusIn[t] ELSE status[g]]
    BY <2>2, <2>4
  <2> HIDE DEF S, N, t, IndTreat, IndType, TypeInv, TypeOK
  <2>7. Started(p, S, t, N)
    BY <2>2, <2>5, <2>6 DEF Started
  <2> QED
    BY <2>5, <2>7, StartStep
<1>5. ASSUME NEW f, ClaimSweetener(p, f) PROVE TreatFacts'
  <2>1. CookingNamesNone' /\ TreatOps' = TreatOps
    BY <1>5 DEF ClaimSweetener, CookingNamesNone, TreatOps
  <2>2. Parts' = Parts
    BY <1>5 DEF ClaimSweetener, SweetenerRewards, ClaimRewards, Parts
  <2> QED
    BY <1>5, <2>1, <2>2, QuietStep DEF ClaimSweetener, fighterVars
<1> QED
  BY <1>1, <1>2, <1>3, <1>4, <1>5 DEF CookMove

LEMMA TreatExpeditionMove ==
  ASSUME IndTreat, IndType', NEW p \in Players, ExpeditionMove(p)
  PROVE  TreatFacts'
<1> USE DEF IndTreat, IndType, TypeInv, TypeOK
<1>1. ASSUME NEW e \in Expeditions, NEW S \in SUBSET Roster(p), GoExpedition(p, e, S)
      PROVE  TreatFacts'
  <2> DEFINE t == "EXPEDITION"
             n(f) == [NewOngoing(p, t, Duration(t, inv[p]["espresso"] > 0))
                      EXCEPT !.fighter = f, !.expedition = e]
             N == {n(f) : f \in S}
  <2>1. \A f \in S : n(f).type = t /\ n(f).fighter = f /\ n(f).player = p
    BY DEF NewOngoing
  <2>2. ongoings' = ongoings \cup N /\ rewards' = rewards /\ owner' = owner
    BY <1>1 DEF GoExpedition
  <2>3. \A f \in S : status[f] = "Available" /\ owner[f] = p
    BY <1>1 DEF GoExpedition, ParseExpeditionData, Free, Mine
  <2>4. status' = [g \in Fighters |-> IF g \in S THEN StatusIn[t] ELSE status[g]]
    BY <1>1 DEF GoExpedition, SetStatus, StatusIn
  <2>5. S \in SUBSET Fighters /\ t \in OngoingType /\ t # "COOK_RECIPE"
    BY DEF OngoingType, Roster
  <2> HIDE DEF n, t
  <2>6. /\ \A o \in N : o.fighter \in S /\ o.player = p /\ o.type = t
        /\ \A g \in S : \E o \in N : o.fighter = g
        /\ \A o1, o2 \in N : o1.fighter = o2.fighter => o1 = o2
    BY <2>1
  <2> HIDE DEF N, IndTreat, IndType, TypeInv, TypeOK
  <2> QED
    <3>1. Started(p, S, t, N)
      BY <2>2, <2>3, <2>4, <2>6 DEF Started
    <3> QED
      BY <2>5, <3>1, StartStep
<1>2. ASSUME NEW E \in SUBSET Expeditions, ClaimExpeditions(p, E) PROVE TreatFacts'
  <2>1. CookingNamesNone' /\ TreatOps' = TreatOps
    BY <1>2 DEF ClaimExpeditions, CookingNamesNone, TreatOps
  <2>2. Parts' = Parts
    BY <1>2, SetsAssumption DEF ClaimExpeditions, ClaimRewards, Parts, PartsHaveTreat
  <2> QED
    BY <1>2, <2>1, <2>2, QuietStep DEF ClaimExpeditions, fighterVars
<1> QED
  BY <1>1, <1>2 DEF ExpeditionMove

(* A treat that was taken apart goes together with the reward for it.      *)
LEMMA TreatClaimDeconstruction ==
  ASSUME IndTreat, IndType', NEW p \in Players, NEW f \in Fighters, ClaimDeconstruction(p, f)
  PROVE  TreatFacts'
<1> USE DEF IndTreat
<1>1. /\ ongoings' = ongoings /\ rewards' = rewards \ {w \in RewardsOf(p) : w.fighter = f}
      /\ owner[f] = p /\ status[f] = "Deconstructing"
      /\ \A o \in ongoings : ~(o.player = p /\ o.fighter = f /\ o.type = "DECONSTRUCTION")
      /\ DeleteTreats({f})
  BY DEF ClaimDeconstruction, ParseDeconstructRewardData, Mine
<1>2. f # NoFighter /\ \A o \in ongoings : o \in Ongoing
  BY SetsAssumption DEF IndType, TypeInv, TypeOK
<1>3. \A o \in ongoings : o.fighter # f
  BY <1>1, <1>2 DEF OngoingHasTreat, CookingNamesNone, StatusIn, Ongoing, OngoingType
<1>4. \A w \in rewards' : w \in rewards /\ w.fighter \in Fighters
  BY <1>1 DEF IndType, TypeInv, TypeOK, Reward
<1>5. \A w \in rewards' : w.source = "DECONSTRUCTION" => w.fighter # f
  BY <1>1, <1>4 DEF PartsHaveTreat, RewardsOf
<1>6. \A w \in rewards : w.fighter # f => w \in rewards'
  BY <1>1
<1>7. \A g \in Fighters : g # f => status'[g] = status[g] /\ owner'[g] = owner[g]
  BY <1>1 DEF DeleteTreats, SetStatus, IndType, TypeInv, TypeOK
<1>8. status'[f] = "Deleted"
  BY <1>1 DEF DeleteTreats, SetStatus
<1>9. CookingNamesNone' /\ OngoingHasTreat' /\ OneOngoingPerTreat'
  BY <1>1, <1>3, <1>7 DEF CookingNamesNone, OngoingHasTreat, OneOngoingPerTreat
<1>10. PartsHaveTreat'
  BY <1>4, <1>5, <1>7 DEF PartsHaveTreat
<1>11. BusyTreatIsFreed'
  <2> SUFFICES ASSUME NEW g \in Fighters
               PROVE  LET working == \E o \in ongoings' : o.fighter = g
                          reward == \E w \in rewards' :
                             /\ w.fighter = g /\ w.source = "DECONSTRUCTION"
                             /\ w.owner = owner'[g]
                      IN /\ status'[g] \in {"Expedition", "Cooking"} => working
                         /\ status'[g] = "Deconstructing" => working \/ reward
                         /\ ~(working /\ reward)
    BY DEF BusyTreatIsFreed
  <2>1. CASE g = f
    BY <1>5, <1>8, <2>1
  <2>2. CASE g # f
    BY <1>1, <1>4, <1>6, <1>7, <2>2 DEF BusyTreatIsFreed
  <2> QED
    BY <2>1, <2>2
<1> QED
  BY <1>9, <1>10, <1>11 DEF TreatFacts

LEMMA TreatFighterMove ==
  ASSUME IndTreat, IndType', NEW p \in Players, FighterMove(p)
  PROVE  TreatFacts'
<1> USE DEF IndTreat, IndType, TypeInv, TypeOK
<1>1. ASSUME NEW f \in Fighters, Deconstruct(p, f) PROVE TreatFacts'
  <2> DEFINE t == "DECONSTRUCTION"
             n == [NewOngoing(p, t, Blocks[t]) EXCEPT !.fighter = f]
             N == {n}
             S == {f}
  <2>1. n.type = t /\ n.fighter = f /\ n.player = p
    BY DEF NewOngoing
  <2>2. ongoings' = ongoings \cup N /\ rewards' = rewards /\ owner' = owner
    BY <1>1 DEF Deconstruct
  <2>3. \A g \in S : status[g] = "Available" /\ owner[g] = p
    BY <1>1 DEF Deconstruct, ParseDeconstructData, Free, Mine
  <2>4. status' = [g \in Fighters |-> IF g \in S THEN StatusIn[t] ELSE status[g]]
    BY <1>1 DEF Deconstruct, SetStatus, StatusIn
  <2>5. S \in SUBSET Fighters /\ t \in OngoingType /\ t # "COOK_RECIPE"
    BY DEF OngoingType
  <2> HIDE DEF n, t
  <2>6. /\ \A o \in N : o.fighter \in S /\ o.player = p /\ o.type = t
        /\ \A g \in S : \E o \in N : o.fighter = g
        /\ \A o1, o2 \in N : o1.fighter = o2.fighter => o1 = o2
    BY <2>1
  <2> HIDE DEF N, S, IndTreat, IndType, TypeInv, TypeOK
  <2>7. Started(p, S, t, N)
    BY <2>2, <2>3, <2>4, <2>6 DEF Started
  <2> QED
    BY <2>5, <2>7, StartStep
<1>2. ASSUME NEW f \in Fighters, ClaimDeconstruction(p, f) PROVE TreatFacts'
  <2> HIDE DEF IndTreat, IndType, TypeInv, TypeOK
  <2> QED
    BY <1>2, TreatClaimDeconstruction
<1>3. ASSUME NEW f \in Fighters, NEW x, NEW d, Sell(p, f, x, d) PROVE TreatFacts'
  <2>1. CookingNamesNone' /\ TreatOps' = TreatOps /\ Parts' = Parts
    BY <1>3 DEF Sell, CookingNamesNone, TreatOps, Parts
  <2>2. \A g \in Fighters : status[g] \in Busy \/ status'[g] \in Busy =>
           status'[g] = status[g] /\ owner'[g] = owner[g]
    BY <1>3 DEF Sell, ParseFighterForSaleData, MayList, Free, SetStatus, Busy
  <2> QED
    BY <2>1, <2>2, QuietStep
<1>4. ASSUME NEW f \in Fighters, Unlist(p, f) PROVE TreatFacts'
  <2>1. CookingNamesNone' /\ TreatOps' = TreatOps /\ Parts' = Parts
    BY <1>4 DEF Unlist, CookingNamesNone, TreatOps, Parts
  <2>2. \A g \in Fighters : status[g] \in Busy \/ status'[g] \in Busy =>
           status'[g] = status[g] /\ owner'[g] = owner[g]
    BY <1>4 DEF Unlist, ParseRemoveBuyData, Delist, SetStatus, Busy
  <2> QED
    BY <2>1, <2>2, QuietStep
<1>5. ASSUME NEW f \in Fighters, Buy(p, f) PROVE TreatFacts'
  <2>1. CookingNamesNone' /\ TreatOps' = TreatOps /\ Parts' = Parts
    BY <1>5 DEF Buy, CookingNamesNone, TreatOps, Parts
  <2>2. \A g \in Fighters : status[g] \in Busy \/ status'[g] \in Busy =>
           status'[g] = status[g] /\ owner'[g] = owner[g]
    BY <1>5 DEF Buy, ParseBuyData, Delist, SetStatus, Busy
  <2> QED
    BY <2>1, <2>2, QuietStep
<1>6. ASSUME NEW f \in Fighters, NEW S \in SUBSET Roster(p), NEW R, NEW c,
             Transfigure(p, f, S, R, c)
      PROVE  TreatFacts'
  <2>1. CookingNamesNone' /\ TreatOps' = TreatOps /\ Parts' = Parts
    BY <1>6 DEF Transfigure, DestroyUsedElements, CookingNamesNone, TreatOps, Parts
  <2>2. \A g \in Fighters : status[g] \in Busy \/ status'[g] \in Busy =>
           status'[g] = status[g] /\ owner'[g] = owner[g]
    BY <1>6 DEF Transfigure, DestroyUsedElements, ParseTransfigureData, MayBurn, Free, Mine, Busy
  <2> QED
    BY <2>1, <2>2, QuietStep
<1> QED
  BY <1>1, <1>2, <1>3, <1>4, <1>5, <1>6 DEF FighterMove

LEMMA TreatTick ==
  ASSUME IndTreat, IndType', TickOngoings
  PROVE  TreatFacts'
<1> USE DEF IndTreat
<1>1. /\ rewards' = rewards /\ owner' = owner /\ status' = status
      /\ ongoings' = {Tick(o) : o \in ongoings}
  BY DEF TickOngoings, fighterVars
<1>2. ASSUME NEW o \in ongoings
      PROVE  /\ Tick(o).fighter = o.fighter /\ Tick(o).player = o.player
             /\ Tick(o).type = o.type
  BY DEF Tick, IndType, TypeInv, TypeOK, Ongoing
<1> HIDE DEF IndTreat
<1>3. CookingNamesNone' /\ OngoingHasTreat'
  BY <1>1, <1>2 DEF IndTreat, CookingNamesNone, OngoingHasTreat
<1>4. OneOngoingPerTreat'
  <2> SUFFICES ASSUME NEW o1 \in ongoings', NEW o2 \in ongoings',
                      o1.fighter = o2.fighter, o1.fighter # NoFighter
               PROVE  o1 = o2
    BY DEF OneOngoingPerTreat
  <2>1. PICK a \in ongoings : o1 = Tick(a)
    BY <1>1
  <2>2. PICK b \in ongoings : o2 = Tick(b)
    BY <1>1
  <2>3. a = b
    BY <1>2, <2>1, <2>2 DEF IndTreat, OneOngoingPerTreat
  <2> QED
    BY <2>1, <2>2, <2>3
<1>5. PartsHaveTreat'
  BY <1>1 DEF IndTreat, PartsHaveTreat
<1>6. \A f \in Fighters :
         (\E o \in ongoings' : o.fighter = f) <=> (\E o \in ongoings : o.fighter = f)
  BY <1>1, <1>2
<1>7. BusyTreatIsFreed'
  BY <1>1, <1>6 DEF IndTreat, BusyTreatIsFreed
<1> QED
  BY <1>3, <1>4, <1>5, <1>7 DEF TreatFacts

(* The treat stays as it is; the reward takes the place of the operation.  *)
LEMMA TreatResolveDeconstruction ==
  ASSUME IndTreat, IndType', NEW o \in Due("DECONSTRUCTION"), ResolveDeconstruction(o)
  PROVE  TreatFacts'
<1> DEFINE w0 == [owner |-> o.player, source |-> o.type, fighter |-> o.fighter,
                  expedition |-> NoExpedition, roll |-> 0, grant |-> "candy"]
<1> USE DEF IndTreat
<1>1. o \in ongoings /\ o.type = "DECONSTRUCTION"
  BY DEF Due
<1>2. /\ o.fighter \in Fighters /\ o.fighter # NoFighter
      /\ owner[o.fighter] = o.player /\ status[o.fighter] = "Deconstructing"
  BY <1>1, SetsAssumption DEF OngoingHasTreat, StatusIn
<1>3. /\ ongoings' = ongoings \ {o} /\ owner' = owner /\ status' = status
      /\ rewards' = rewards \cup {w0}
  BY <1>2 DEF ResolveDeconstruction, Resolve, fighterVars, Absent
<1>4. /\ w0.owner = o.player /\ w0.source = "DECONSTRUCTION" /\ w0.fighter = o.fighter
      /\ w0.expedition = NoExpedition
  BY <1>1
<1> HIDE DEF w0
<1>5. \A o2 \in ongoings' : o2 \in ongoings /\ o2.fighter # o.fighter
  BY <1>1, <1>2, <1>3 DEF OneOngoingPerTreat
<1>6. CookingNamesNone' /\ OngoingHasTreat' /\ OneOngoingPerTreat'
  BY <1>3, <1>5 DEF CookingNamesNone, OngoingHasTreat, OneOngoingPerTreat
<1>7. PartsHaveTreat'
  BY <1>2, <1>3, <1>4 DEF PartsHaveTreat
<1>8. BusyTreatIsFreed'
  <2> SUFFICES ASSUME NEW f \in Fighters
               PROVE  LET working == \E o2 \in ongoings' : o2.fighter = f
                          reward == \E w \in rewards' :
                             /\ w.fighter = f /\ w.source = "DECONSTRUCTION"
                             /\ w.owner = owner'[f]
                      IN /\ status'[f] \in {"Expedition", "Cooking"} => working
                         /\ status'[f] = "Deconstructing" => working \/ reward
                         /\ ~(working /\ reward)
    BY DEF BusyTreatIsFreed
  <2>1. CASE f = o.fighter
    BY <1>2, <1>3, <1>4, <1>5, <2>1
  <2>2. CASE f # o.fighter
    <3>1. (\E o2 \in ongoings' : o2.fighter = f) <=> (\E o2 \in ongoings : o2.fighter = f)
      BY <1>3, <2>2
    <3>2. \A w \in rewards' : w.fighter = f => w \in rewards
      BY <1>3, <1>4, <2>2
    <3>3. \A w \in rewards : w \in rewards'
      BY <1>3
    <3> QED
      BY <1>3, <3>1, <3>2, <3>3 DEF BusyTreatIsFreed
  <2> QED
    BY <2>1, <2>2
<1> QED
  BY <1>6, <1>7, <1>8 DEF TreatFacts

LEMMA RewardsForSource ==
  ASSUME NEW o, NEW grants, NEW w \in RewardsFor(o, grants)
  PROVE  w.source = o.type
BY DEF RewardsFor

LEMMA TreatResolve ==
  ASSUME IndTreat, IndType', ResolveStep
  PROVE  TreatFacts'
<1> USE DEF IndTreat
<1>1. ASSUME NEW o \in Due("EXPEDITION"), ResolveExpedition(o) PROVE TreatFacts'
  <2>1. o \in ongoings /\ o.type = "EXPEDITION"
    BY DEF Due
  <2>2. status[o.fighter] \notin Absent
    BY <2>1 DEF OngoingHasTreat, StatusIn, Absent
  <2>3. PICK grants : rewards' = rewards \cup RewardsFor(o, grants)
    BY <1>1, <2>2 DEF ResolveExpedition
  <2>4. Parts' = Parts
    BY <2>1, <2>3, RewardsForSource DEF Parts
  <2>5. /\ ongoings' = ongoings \ {o} /\ owner' = owner
        /\ status' = [f \in Fighters |-> IF f \in {o.fighter} THEN "Available"
                                         ELSE status[f]]
    BY <1>1, <2>2 DEF ResolveExpedition, Resolve, SetStatus
  <2> HIDE DEF IndTreat
  <2> QED
    BY <2>1, <2>4, <2>5, FinishStep
<1>2. ASSUME NEW o \in Due("COOK_SWEETENER"), ResolveSweetener(o) PROVE TreatFacts'
  <2>1. o \in ongoings /\ o.type = "COOK_SWEETENER"
    BY DEF Due
  <2>2. rewards' = rewards \/ \E grants : rewards' = rewards \cup RewardsFor(o, grants)
    BY <1>2 DEF ResolveSweetener
  <2>3. Parts' = Parts
    BY <2>1, <2>2, RewardsForSource DEF Parts
  <2>4. /\ ongoings' = ongoings \ {o} /\ owner' = owner
        /\ status' = [f \in Fighters |-> IF f \in {o.fighter} THEN "Available"
                                         ELSE status[f]]
    BY <1>2 DEF ResolveSweetener, Resolve, SetStatus
  <2> HIDE DEF IndTreat
  <2> QED
    BY <2>1, <2>3, <2>4, FinishStep
<1>3. ASSUME NEW o \in Due("DECONSTRUCTION"), ResolveDeconstruction(o) PROVE TreatFacts'
  <2> HIDE DEF IndTreat
  <2> QED
    BY <1>3, TreatResolveDeconstruction
<1>4. ASSUME NEW o \in Due("COOK_RECIPE"), FailCooking(o) PROVE TreatFacts'
  <2>1. ongoings' = ongoings \ {o} /\ o.type = "COOK_RECIPE"
    BY <1>4 DEF FailCooking, Resolve, Due
  <2>2. rewards' = rewards /\ owner' = owner /\ status' = status
    BY <1>4 DEF FailCooking, fighterVars
  <2>3. CookingNamesNone' /\ TreatOps' = TreatOps /\ Parts' = Parts
    BY <2>1, <2>2 DEF CookingNamesNone, TreatOps, Parts
  <2> QED
    BY <2>2, <2>3, QuietStep
<1>5. ASSUME NEW o \in Due("COOK_RECIPE"), NEW f \in Fresh, CookTreat(o, f)
      PROVE  TreatFacts'
  <2>1. ongoings' = ongoings \ {o} /\ o.type = "COOK_RECIPE"
    BY <1>5 DEF CookTreat, Resolve, Due
  <2>2. rewards' = rewards
    BY <1>5 DEF CookTreat
  <2>3. CookingNamesNone' /\ TreatOps' = TreatOps /\ Parts' = Parts
    BY <2>1, <2>2 DEF CookingNamesNone, TreatOps, Parts
  <2>4. \A g \in Fighters : status[g] \in Busy \/ status'[g] \in Busy =>
           status'[g] = status[g] /\ owner'[g] = owner[g]
    BY <1>5 DEF CookTreat, SetStatus, Fresh, Busy, IndType, TypeInv, TypeOK
  <2> QED
    BY <2>3, <2>4, QuietStep
<1> QED
  BY <1>1, <1>2, <1>3, <1>4, <1>5 DEF ResolveStep

LEMMA TreatBlockStep ==
  ASSUME IndTreat, IndType', BlockStep
  PROVE  TreatFacts'
<1>1. CASE BeginBlock
  <2>1. CookingNamesNone' /\ TreatOps' = TreatOps /\ Parts' = Parts
    BY <1>1 DEF BeginBlock, IndTreat, CookingNamesNone, TreatOps, Parts
  <2>2. \A g \in Fighters : status[g] \in Busy \/ status'[g] \in Busy =>
           status'[g] = status[g] /\ owner'[g] = owner[g]
    BY <1>1 DEF BeginBlock, Busy
  <2> QED
    BY <2>1, <2>2, QuietStep
<1>2. CASE CheckFightersForSale
  <2>1. CookingNamesNone' /\ TreatOps' = TreatOps /\ Parts' = Parts
    BY <1>2 DEF CheckFightersForSale, IndTreat, CookingNamesNone, TreatOps, Parts
  <2>2. \A g \in Fighters : status[g] \in Busy \/ status'[g] \in Busy =>
           status'[g] = status[g] /\ owner'[g] = owner[g]
    BY <1>2 DEF CheckFightersForSale, Delist, SetStatus, Expired, Busy
  <2> QED
    BY <2>1, <2>2, QuietStep
<1>3. CASE TickOngoings
  BY <1>3, TreatTick
<1>4. CASE ResolveStep
  BY <1>4, TreatResolve
<1> QED
  BY <1>1, <1>2, <1>3, <1>4 DEF BlockStep

LEMMA IndTreatInvariant ==
  ASSUME StrayTreats = FALSE
  PROVE  Spec => []IndTreat
<1>1. Init => IndTreat
  <2> SUFFICES ASSUME Init PROVE IndTreat
    OBVIOUS
  <2>1. IndType
    BY InitType DEF Init, IndType, OngoingNames
  <2>2. CookingNamesNone /\ PartsHaveTreat /\ OngoingHasTreat /\ OneOngoingPerTreat
    BY DEF Init, CookingNamesNone, PartsHaveTreat, OngoingHasTreat, OneOngoingPerTreat
  <2>3. BusyTreatIsFreed
    BY DEF Init, BusyTreatIsFreed
  <2> QED
    BY <2>1, <2>2, <2>3 DEF IndTreat
<1>2. IndTreat /\ [Next]_vars => IndTreat'
  <2> SUFFICES ASSUME IndTreat, [Next]_vars PROVE IndTreat'
    OBVIOUS
  <2>1. IndType'
    BY IndTypeStep DEF IndTreat
  <2>2. CASE Move
    <3>1. PICK p \in Players : CookMove(p) \/ ExpeditionMove(p) \/ FighterMove(p)
      BY <2>2 DEF Move
    <3> QED
      BY <2>1, <3>1, TreatCookMove, TreatExpeditionMove, TreatFighterMove
         DEF IndTreat, TreatFacts
  <2>3. CASE BlockStep
    BY <2>1, <2>3, TreatBlockStep DEF IndTreat, TreatFacts
  <2>4. CASE UNCHANGED vars
    BY <2>1, <2>4 DEF vars, fighterVars, IndTreat, CookingNamesNone, PartsHaveTreat,
                      OngoingHasTreat, OneOngoingPerTreat, BusyTreatIsFreed
  <2> QED
    BY <2>2, <2>3, <2>4 DEF Next
<1> QED
  BY <1>1, <1>2, PTL DEF Spec

(* As long as cook moves name no treat but for recipes that ask for one, an *)
(* operation has its treat, with the owner and the status it was started   *)
(* with: the handlers of a later block write to the treat they were        *)
(* started for.                                                            *)
THEOREM OngoingsAndTreatsTogether ==
  ASSUME StrayTreats = FALSE
  PROVE  Spec => []OngoingHasTreat
<1>1. IndTreat => OngoingHasTreat
  BY DEF IndTreat
<1> QED
  BY <1>1, IndTreatInvariant, PTL

(* With the same moves, no treat is in two operations.                     *)
THEOREM TreatsDoOneThing ==
  ASSUME StrayTreats = FALSE
  PROVE  Spec => []OneOngoingPerTreat
<1>1. IndTreat => OneOngoingPerTreat
  BY DEF IndTreat
<1> QED
  BY <1>1, IndTreatInvariant, PTL

(* With the same moves, a busy treat has the operation that frees it, or   *)
(* its owner the reward that does, and never both.                         *)
THEOREM BusyTreatsAreFreed ==
  ASSUME StrayTreats = FALSE
  PROVE  Spec => []BusyTreatIsFreed
<1>1. IndTreat => BusyTreatIsFreed
  BY DEF IndTreat
<1> QED
  BY <1>1, IndTreatInvariant, PTL

-----------------------------------------------------------------------------
(***************************************************************************)
(* The rounds of operations.  Only an expedition names an expedition, so   *)
(* only its rewards do.                                                    *)
(***************************************************************************)
ExpeditionNamed ==
  \A o \in ongoings : IF o.type = "EXPEDITION" THEN o.expedition \in Expeditions
                      ELSE o.expedition = NoExpedition

SameRound(o, o2) == /\ o.type = "EXPEDITION" /\ o2.type = "EXPEDITION"
                    /\ o2.player = o.player /\ o2.expedition = o.expedition
NoneWaits(o) == \A w \in rewards : ~(w.owner = o.player /\ w.expedition = o.expedition)

IndRounds == IndType /\ ExpeditionNamed /\ CountdownBounded /\ ExpeditionRounds

LEMMA RoundsIn ==
  ExpeditionRounds <=>
    \A o \in ongoings : o.type = "EXPEDITION" =>
      /\ \A o2 \in ongoings : SameRound(o, o2) => o2.blocksleft = o.blocksleft
      /\ o.blocksleft > 0 => NoneWaits(o)
BY DEF ExpeditionRounds, SameRound, NoneWaits

Longest(type) == Duration(type, FALSE)

LEMMA CountdownIn ==
  CountdownBounded <=> \A o \in ongoings : /\ o.blocksleft <= Longest(o.type)
                                           /\ phase # "resolve" => o.blocksleft > 0
BY DEF CountdownBounded, Longest

LEMMA CountdownNext ==
  ASSUME \A o \in ongoings' : /\ o.blocksleft <= Longest(o.type)
                              /\ phase' # "resolve" => o.blocksleft > 0
  PROVE  CountdownBounded'
BY DEF CountdownBounded, Longest

(* A goody does not make an operation longer. *)
LEMMA ShortenedDuration ==
  ASSUME NEW t \in OngoingType, NEW goody
  PROVE  /\ Duration(t, goody) \in 1..Longest(t)
         /\ Duration(t, goody) \in 0..UintMax
         /\ Longest("DECONSTRUCTION") = Blocks["DECONSTRUCTION"]
<1>1. /\ Blocks[t] \in Nat /\ Blocks["DECONSTRUCTION"] \in Nat /\ Blocks["DECONSTRUCTION"] > 0
      /\ GoodyPercent \in 0..100
  BY NumbersAssumption DEF OngoingType
<1>2. (Blocks[t] * GoodyPercent) \div 100 \in 0..Blocks[t]
  BY <1>1, ShareBounded
<1>3. Duration(t, goody) \in 0..UintMax
  BY DurationType, NumbersAssumption
<1> QED
  BY <1>1, <1>2, <1>3 DEF Duration, Longest

LEMMA DurationIsNat ==
  ASSUME NEW o \in Ongoing
  PROVE  Longest(o.type) \in Nat /\ o.blocksleft \in Nat
<1>1. o.type \in OngoingType /\ o.blocksleft \in 0..UintMax
  BY DEF Ongoing
<1>2. UintMax \in Nat
  BY NumbersAssumption
<1> DEFINE d == Duration(o.type, FALSE)
<1>3. d \in 1..UintMax
  BY <1>1, DurationType
<1> HIDE DEF d
<1>4. d \in Nat /\ o.blocksleft \in Nat
  BY <1>1, <1>2, <1>3
<1> QED
  BY <1>4 DEF d, Longest

(* What a move starts. *)
Begun(o) ==
  /\ o \in Ongoing /\ o.blocksleft \in 1..Longest(o.type)
  /\ IF o.type = "EXPEDITION" THEN o.expedition \in Expeditions /\ NoneWaits(o)
     ELSE o.expedition = NoExpedition
  /\ \A o2 \in ongoings : ~SameRound(o, o2)

LEMMA MovesBegin ==
  ASSUME IndType, Move
  PROVE  /\ phase = "moves" /\ phase' = phase /\ rewards' \subseteq rewards
         /\ ongoings \subseteq ongoings'
         /\ \A o \in ongoings' \ ongoings :
              /\ Begun(o)
              /\ \A o2 \in ongoings' \ ongoings : SameRound(o, o2) => o2.blocksleft = o.blocksleft
<1> DEFINE Goal == /\ phase = "moves" /\ phase' = phase /\ rewards' \subseteq rewards
                   /\ ongoings \subseteq ongoings'
                   /\ \A o \in ongoings' \ ongoings :
                        /\ Begun(o)
                        /\ \A o2 \in ongoings' \ ongoings :
                             SameRound(o, o2) => o2.blocksleft = o.blocksleft
<1> PICK p \in Players : CookMove(p) \/ ExpeditionMove(p) \/ FighterMove(p)
  BY DEF Move
<1>1. ASSUME NEW o \in Ongoing, phase = "moves", phase' = phase, rewards' \subseteq rewards,
             ongoings' = ongoings \cup {o}, o.type # "EXPEDITION", o.expedition = NoExpedition,
             o.blocksleft \in 1..Longest(o.type)
      PROVE  Goal
  BY <1>1 DEF Begun, SameRound
<1>2. ASSUME phase = "moves", phase' = phase, rewards' \subseteq rewards, ongoings' = ongoings
      PROVE  Goal
  BY <1>2
<1>3. CASE CookMove(p)
  <2>1. ASSUME NEW r \in RecipesOf(p), NEW f, CookRecipe(p, r, f)
        PROVE  Goal
    <3> DEFINE t == "COOK_RECIPE"
               d == Duration(t, inv[p]["cooker"] > 0)
               o == [NewOngoing(p, t, d) EXCEPT !.recipe = r]
    <3>1. /\ phase = "moves" /\ phase' = phase /\ rewards' = rewards
          /\ ongoings' = ongoings \cup {o}
      BY <2>1 DEF CookRecipe
    <3>2. d \in 1..Longest(t) /\ d \in 0..UintMax
      BY ShortenedDuration DEF OngoingType
    <3>3. r \in Recipes /\ t \in OngoingType
      BY DEF RecipesOf, OngoingType
    <3>4. /\ o \in Ongoing /\ o.type = t /\ o.expedition = NoExpedition
          /\ o.blocksleft = d
      <4> HIDE DEF d
      <4>1. NewOngoing(p, t, d) \in Ongoing
        BY <3>2, <3>3, NewOngoingType
      <4> QED
        BY <3>3, <4>1 DEF NewOngoing, Ongoing
    <3> HIDE DEF o, d
    <3> QED
      BY <1>1, <3>1, <3>2, <3>4
  <2>2. ASSUME NEW R, DestroyRecipes(p, R)
        PROVE  Goal
    BY <1>2, <2>2 DEF DestroyRecipes
  <2>3. ASSUME NEW f, CollectCooked(p, f)
        PROVE  Goal
    BY <1>2, <2>3 DEF CollectCooked
  <2>4. ASSUME NEW f \in Fighters, CookSweetener(p, f)
        PROVE  Goal
    <3> DEFINE t == "COOK_SWEETENER"
               d == Duration(t, FALSE)
               o == [NewOngoing(p, t, d) EXCEPT !.fighter = f, !.level = applied[f] + 1]
    <3>1. /\ phase = "moves" /\ phase' = phase /\ rewards' = rewards
          /\ ongoings' = ongoings \cup {o}
          /\ applied[f] + 1 \in 0..MaxSweetness
      BY <2>4, NumbersAssumption DEF CookSweetener, ParseSweetener, IndType, TypeInv, TypeOK
    <3>2. d \in 1..Longest(t) /\ d \in 0..UintMax /\ t \in OngoingType
      BY ShortenedDuration DEF OngoingType
    <3>3. /\ o \in Ongoing /\ o.type = t /\ o.expedition = NoExpedition
          /\ o.blocksleft = d
      <4> HIDE DEF d
      <4>1. NewOngoing(p, t, d) \in Ongoing
        BY <3>2, NewOngoingType
      <4> QED
        BY <3>1, <4>1 DEF NewOngoing, Ongoing
    <3> HIDE DEF o, d
    <3> QED
      BY <1>1, <3>1, <3>2, <3>3 DEF d
  <2>5. ASSUME NEW f, ClaimSweetener(p, f)
        PROVE  Goal
    BY <1>2, <2>5 DEF ClaimSweetener, ClaimRewards
  <2> QED
    BY <1>3, <2>1, <2>2, <2>3, <2>4, <2>5 DEF CookMove
<1>4. CASE ExpeditionMove(p)
  <2>1. ASSUME NEW e \in Expeditions, NEW S \in SUBSET Roster(p), GoExpedition(p, e, S)
        PROVE  Goal
    <3> DEFINE t == "EXPEDITION"
               d == Duration(t, inv[p]["espresso"] > 0)
               o(f) == [NewOngoing(p, t, d) EXCEPT !.fighter = f, !.expedition = e]
    <3>1. /\ phase = "moves" /\ phase' = phase /\ rewards' = rewards
          /\ ongoings' = ongoings \cup {o(f) : f \in S}
          /\ S # {} => OnExpedition(p, e) = {}
          /\ \A w \in RewardsOf(p) : w.expedition # e
      BY <2>1 DEF GoExpedition, ParseExpeditionData
    <3>2. d \in 1..Longest(t) /\ d \in 0..UintMax /\ t \in OngoingType
      BY ShortenedDuration DEF OngoingType
    <3>3. \A f \in S : /\ o(f) \in Ongoing /\ o(f).type = t /\ o(f).expedition = e
                       /\ o(f).blocksleft = d /\ o(f).player = p
      <4> HIDE DEF d
      <4>1. NewOngoing(p, t, d) \in Ongoing
        BY <3>2, NewOngoingType
      <4>2. S \subseteq Fighters
        BY DEF Roster
      <4> QED
        BY <4>1, <4>2 DEF NewOngoing, Ongoing
    <3>4. \A n \in ongoings' \ ongoings :
            /\ n \in Ongoing /\ n.type = t /\ n.expedition = e /\ n.blocksleft = d /\ n.player = p
            /\ OnExpedition(p, e) = {}
      <4> HIDE DEF o, d
      <4> QED
        BY <3>1, <3>3
    <3> HIDE DEF o, d
    <3>5. \A n \in ongoings' \ ongoings : Begun(n)
      <4> TAKE n \in ongoings' \ ongoings
      <4>1. \A o2 \in ongoings : ~SameRound(n, o2)
        BY <3>4 DEF OnExpedition, SameRound
      <4>2. NoneWaits(n)
        BY <3>1, <3>4 DEF NoneWaits, RewardsOf
      <4> QED
        BY <3>2, <3>4, <4>1, <4>2 DEF Begun
    <3> QED
      BY <3>1, <3>4, <3>5
  <2>2. ASSUME NEW E, ClaimExpeditions(p, E)
        PROVE  Goal
    BY <1>2, <2>2 DEF ClaimExpeditions, ClaimRewards
  <2> QED
    BY <1>4, <2>1, <2>2 DEF ExpeditionMove
<1>5. CASE FighterMove(p)
  <2>1. ASSUME NEW f \in Fighters, Deconstruct(p, f)
        PROVE  Goal
    <3> DEFINE t == "DECONSTRUCTION"
               d == Blocks[t]
               o == [NewOngoing(p, t, d) EXCEPT !.fighter = f]
    <3>1. /\ phase = "moves" /\ phase' = phase /\ rewards' = rewards
          /\ ongoings' = ongoings \cup {o}
      BY <2>1 DEF Deconstruct
    <3>2. t \in OngoingType /\ d = Longest(t)
      BY ShortenedDuration DEF OngoingType
    <3>3. d \in 1..Longest(t) /\ d \in 0..UintMax
      BY <3>2, ShortenedDuration, NumbersAssumption
    <3>4. /\ o \in Ongoing /\ o.type = t /\ o.expedition = NoExpedition
          /\ o.blocksleft = d
      <4> HIDE DEF d
      <4>1. NewOngoing(p, t, d) \in Ongoing
        BY <3>2, <3>3, NewOngoingType
      <4> QED
        BY <4>1 DEF NewOngoing, Ongoing
    <3> HIDE DEF o, d
    <3> QED
      BY <1>1, <3>1, <3>3, <3>4
  <2>2. ASSUME NEW f, ClaimDeconstruction(p, f)
        PROVE  Goal
    BY <1>2, <2>2 DEF ClaimDeconstruction
  <2>3. ASSUME NEW f, NEW x, NEW d, Unlist(p, f) \/ Buy(p, f) \/ Sell(p, f, x, d)
        PROVE  Goal
    BY <1>2, <2>3 DEF Unlist, Buy, Sell
  <2>4. ASSUME NEW f, NEW S, NEW R, NEW c, Transfigure(p, f, S, R, c)
        PROVE  Goal
    BY <1>2, <2>4 DEF Transfigure
  <2> QED
    BY <1>5, <2>1, <2>2, <2>3, <2>4 DEF FighterMove
<1> QED
  BY <1>3, <1>4, <1>5

LEMMA RoundsMove ==
  ASSUME IndRounds, IndType', Move
  PROVE  IndRounds'
<1>1. /\ phase = "moves" /\ phase' = phase /\ rewards' \subseteq rewards
      /\ ongoings \subseteq ongoings'
      /\ \A o \in ongoings' \ ongoings :
           /\ Begun(o)
           /\ \A o2 \in ongoings' \ ongoings : SameRound(o, o2) => o2.blocksleft = o.blocksleft
  BY MovesBegin DEF IndRounds
<1>2. ExpeditionNamed'
  BY <1>1 DEF IndRounds, ExpeditionNamed, Begun
<1>3. CountdownBounded'
  <2>1. \A o \in ongoings' \ ongoings : o.blocksleft <= Longest(o.type) /\ o.blocksleft > 0
    BY <1>1, DurationIsNat DEF Begun
  <2> QED
    BY <1>1, <2>1, CountdownIn, CountdownNext DEF IndRounds
<1>4. ASSUME NEW o \in ongoings', o.type = "EXPEDITION"
      PROVE  /\ \A o2 \in ongoings' : SameRound(o, o2) => o2.blocksleft = o.blocksleft
             /\ o.blocksleft > 0 => NoneWaits(o)'
  <2>1. NoneWaits(o) => NoneWaits(o)'
    BY <1>1 DEF NoneWaits
  <2>2. CASE o \in ongoings
    <3>1. \A o2 \in ongoings' \ ongoings : ~SameRound(o, o2)
      BY <1>1, <2>2 DEF Begun, SameRound
    <3> QED
      BY <1>1, <1>4, <2>1, <2>2, <3>1, RoundsIn DEF IndRounds
  <2>3. CASE o \notin ongoings
    <3>1. Begun(o) /\ \A o2 \in ongoings : ~SameRound(o, o2)
      BY <1>1, <1>4, <2>3 DEF Begun
    <3>2. NoneWaits(o)
      BY <1>4, <3>1 DEF Begun
    <3> QED
      BY <1>1, <1>4, <2>1, <2>3, <3>1, <3>2
  <2> QED
    BY <2>2, <2>3
<1>5. ExpeditionRounds'
  BY <1>4 DEF ExpeditionRounds, SameRound, NoneWaits
<1> QED
  BY <1>2, <1>3, <1>5 DEF IndRounds

LEMMA RoundsTick ==
  ASSUME IndRounds, IndType', TickOngoings
  PROVE  IndRounds'
<1>1. /\ phase = "moves" /\ phase' = "resolve" /\ rewards' = rewards
      /\ ongoings' = {Tick(o) : o \in ongoings}
  BY DEF TickOngoings
<1>2. ASSUME NEW o \in ongoings
      PROVE  /\ Tick(o).blocksleft = o.blocksleft - 1 /\ o.blocksleft \in Nat \ {0}
             /\ Tick(o).type = o.type /\ Tick(o).player = o.player
             /\ Tick(o).expedition = o.expedition
             /\ o.type \in OngoingType
  <2>1. o \in Ongoing
    BY DEF IndRounds, IndType, TypeInv, TypeOK
  <2>2. o.blocksleft \in Nat /\ o.blocksleft > 0
    BY <1>1, <2>1, DurationIsNat, CountdownIn DEF IndRounds
  <2> QED
    BY <2>1, <2>2 DEF Tick, Ongoing
<1>3. ExpeditionNamed'
  BY <1>1, <1>2 DEF IndRounds, ExpeditionNamed
<1>4. CountdownBounded'
  <2>1. ASSUME NEW o \in ongoings
        PROVE  Tick(o).blocksleft <= Longest(Tick(o).type)
    <3>1. o \in Ongoing
      BY DEF IndRounds, IndType, TypeInv, TypeOK
    <3>2. o.blocksleft <= Longest(o.type) /\ Longest(o.type) \in Nat
      BY <3>1, DurationIsNat, CountdownIn DEF IndRounds
    <3> QED
      BY <1>2, <3>2
  <2>2. \A o \in ongoings' : o.blocksleft <= Longest(o.type)
    BY <1>1, <2>1
  <2> QED
    BY <1>1, <2>2, CountdownNext
<1>5. ASSUME NEW o \in ongoings, o.type = "EXPEDITION"
      PROVE  /\ \A o2 \in ongoings : SameRound(Tick(o), Tick(o2))
                                     => Tick(o2).blocksleft = Tick(o).blocksleft
             /\ Tick(o).blocksleft > 0 => NoneWaits(Tick(o))'
  <2>1. \A o2 \in ongoings : SameRound(Tick(o), Tick(o2)) => SameRound(o, o2)
    BY <1>2 DEF SameRound
  <2>2. /\ \A o2 \in ongoings : SameRound(o, o2) => o2.blocksleft = o.blocksleft
        /\ o.blocksleft > 0 => NoneWaits(o)
    BY <1>5, RoundsIn DEF IndRounds
  <2>3. NoneWaits(o) => NoneWaits(Tick(o))'
    BY <1>1, <1>2 DEF NoneWaits
  <2> QED
    BY <1>2, <2>1, <2>2, <2>3
<1>6. ExpeditionRounds'
  <2>1. \A o \in ongoings' : o.type = "EXPEDITION" =>
          /\ \A o2 \in ongoings' : SameRound(o, o2) => o2.blocksleft = o.blocksleft
          /\ o.blocksleft > 0 => NoneWaits(o)'
    BY <1>1, <1>2, <1>5
  <2> QED
    BY <2>1 DEF ExpeditionRounds, SameRound, NoneWaits
<1> QED
  BY <1>3, <1>4, <1>6 DEF IndRounds

(* The rewards of an operation name its player and its expedition. *)
LEMMA RoundsResolve ==
  ASSUME IndRounds, IndType', NEW o \in ongoings, Resolve(o), o.blocksleft = 0,
         \A w \in rewards' \ rewards : w.owner = o.player /\ w.expedition = o.expedition
  PROVE  IndRounds'
<1>1. phase = "resolve" /\ phase' = phase /\ ongoings' \subseteq ongoings
  BY DEF Resolve
<1>2. ExpeditionNamed' /\ CountdownBounded'
  BY <1>1, CountdownIn, CountdownNext DEF IndRounds, ExpeditionNamed
<1>3. ASSUME NEW n \in ongoings, n.type = "EXPEDITION", n.blocksleft > 0
      PROVE  NoneWaits(n)'
  <2>1. NoneWaits(n) /\ n.expedition \in Expeditions
    BY <1>3, RoundsIn DEF IndRounds, ExpeditionNamed
  <2>2. ~SameRound(o, n)
    BY <1>3, RoundsIn DEF IndRounds, SameRound
  <2>3. ~(o.player = n.player /\ o.expedition = n.expedition)
    BY <1>3, <2>1, <2>2, SetsAssumption DEF SameRound, IndRounds, ExpeditionNamed
  <2> QED
    BY <2>1, <2>3 DEF NoneWaits
<1>4. ExpeditionRounds'
  <2>1. \A n \in ongoings' : n.type = "EXPEDITION" =>
          /\ \A n2 \in ongoings' : SameRound(n, n2) => n2.blocksleft = n.blocksleft
          /\ n.blocksleft > 0 => NoneWaits(n)'
    BY <1>1, <1>3, RoundsIn DEF IndRounds
  <2> QED
    BY <2>1 DEF ExpeditionRounds, SameRound, NoneWaits
<1> QED
  BY <1>2, <1>4 DEF IndRounds

LEMMA RewardsForRound ==
  ASSUME NEW o, NEW grants, NEW w \in RewardsFor(o, grants)
  PROVE  w.owner = o.player /\ w.expedition = o.expedition
BY DEF RewardsFor

LEMMA RoundsResolveStep ==
  ASSUME IndRounds, IndType', ResolveStep
  PROVE  IndRounds'
<1>1. ASSUME NEW o \in Due("EXPEDITION"), ResolveExpedition(o)
      PROVE  IndRounds'
  <2>1. \A w \in rewards' \ rewards : w.owner = o.player /\ w.expedition = o.expedition
    BY <1>1, RewardsForRound DEF ResolveExpedition
  <2> QED
    BY <1>1, <2>1, RoundsResolve DEF ResolveExpedition, Due
<1>2. ASSUME NEW o \in Due("COOK_RECIPE"), NEW f, FailCooking(o) \/ CookTreat(o, f)
      PROVE  IndRounds'
  BY <1>2, RoundsResolve DEF FailCooking, CookTreat, Due
<1>3. ASSUME NEW o \in Due("COOK_SWEETENER"), ResolveSweetener(o)
      PROVE  IndRounds'
  <2>1. \A w \in rewards' \ rewards : w.owner = o.player /\ w.expedition = o.expedition
    BY <1>3, RewardsForRound DEF ResolveSweetener
  <2> QED
    BY <1>3, <2>1, RoundsResolve DEF ResolveSweetener, Due
<1>4. ASSUME NEW o \in Due("DECONSTRUCTION"), ResolveDeconstruction(o)
      PROVE  IndRounds'
  <2>1. o \in ongoings /\ o.blocksleft = 0 /\ o.expedition = NoExpedition
    BY DEF Due, IndRounds, ExpeditionNamed
  <2>2. \A w \in rewards' \ rewards : w.owner = o.player /\ w.expedition = o.expedition
    BY <1>4, <2>1 DEF ResolveDeconstruction
  <2> QED
    BY <1>4, <2>1, <2>2, RoundsResolve DEF ResolveDeconstruction
<1> QED
  BY <1>1, <1>2, <1>3, <1>4 DEF ResolveStep

LEMMA RoundsInvariant == Spec => []IndRounds
<1>1. Init => IndRounds
  BY InitType DEF Init, IndRounds, IndType, OngoingNames, ExpeditionNamed, CountdownBounded,
                  ExpeditionRounds
<1>2. IndRounds /\ [Next]_vars => IndRounds'
  <2> SUFFICES ASSUME IndRounds, [Next]_vars PROVE IndRounds'
    OBVIOUS
  <2>1. IndType'
    BY IndTypeStep DEF IndRounds
  <2>2. ASSUME UNCHANGED <<ongoings, rewards>>,
               phase' # "resolve" => phase # "resolve" \/ \A o \in ongoings : o.blocksleft # 0
        PROVE  IndRounds'
    <3>1. \A o \in ongoings : o.blocksleft \in Nat
      BY DurationIsNat DEF IndRounds, IndType, TypeInv, TypeOK
    <3>2. \A o \in ongoings : /\ o.blocksleft <= Longest(o.type)
                              /\ phase' # "resolve" => o.blocksleft > 0
      BY <2>2, <3>1, CountdownIn DEF IndRounds
    <3>3. CountdownBounded'
      BY <2>2, <3>2, CountdownNext
    <3> QED
      BY <2>1, <2>2, <3>3 DEF IndRounds, ExpeditionNamed, ExpeditionRounds
  <2>3. CASE BeginBlock \/ CheckFightersForSale \/ UNCHANGED vars
    BY <2>2, <2>3 DEF BeginBlock, CheckFightersForSale, vars
  <2> QED
    BY <2>1, <2>3, RoundsMove, RoundsTick, RoundsResolveStep DEF Next, BlockStep
<1> QED
  BY <1>1, <1>2, PTL DEF Spec

(* The unsigned countdown of an operation never wraps: nothing is started  *)
(* without a block to go, whatever goody shortens it, and what is due is   *)
(* gone before the next block counts.                                      *)
THEOREM CountdownsStayBounded == Spec => []CountdownBounded
<1>1. IndRounds => CountdownBounded
  BY DEF IndRounds
<1> QED
  BY <1>1, RoundsInvariant, PTL

(* The treats on one expedition of a player come back in one block, and    *)
(* rewards of the last round never wait when the next one is under way.    *)
THEOREM RoundsStayApart == Spec => []ExpeditionRounds
<1>1. IndRounds => ExpeditionRounds
  BY DEF IndRounds
<1> QED
  BY <1>1, RoundsInvariant, PTL
=============================================================================
