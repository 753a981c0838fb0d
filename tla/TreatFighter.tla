---------------------------- MODULE TreatFighter ----------------------------
(***************************************************************************)
(* The life of a treat (a "fighter") in the game state: cooking recipes,   *)
(* sweetening, expeditions, deconstruction, transfiguration, the exchange, *)
(* and the rewards these leave behind.  One behaviour is a run of blocks:  *)
(* the moves of a block in any number and order, then what                 *)
(* PXLogic::UpdateState does after and before the moves.  The steps of a   *)
(* block run in one database transaction, nothing interleaves with them;   *)
(* each is an action of its own here, kept in sequence by "phase".         *)
(*                                                                         *)
(* Tournaments, and the purchases that bring crystals and items in, belong *)
(* to other modules: a behaviour starts with what players have bought.     *)
(***************************************************************************)
EXTENDS Integers, FiniteSets, FiniteSetsExt

CONSTANTS
  Players, Nobody,       \* Xaya names, and the empty owner ""
  Fighters, NoFighter,   \* ids of treats, ever; the id 0
  Recipes, NoRecipe,     \* ids of recipe instances, ever
  Expeditions, NoExpedition,
  FighterRecipes,        \* the recipes with requiredfighterquality > 0
  BoundRecipes,          \* the recipes that make account-bound treats
  InitialOwner, InitialRecipeOwner, InitialBalance, InitialItems,
  BoundFighters,         \* the account-bound ones among the starting treats
  MaxFighters, MaxRecipes,          \* max_{fighter,recipe}_inventory_amount
  CookCost, SweetenerCost, CandyNeed, RecoveredCandy, FuelCandy,
  Blocks,                \* duration in blocks of every type of operation
  GoodyPercent,          \* reductionpercent of espresso and pressure cooker
  Rolls,                 \* the rewards of one operation, at most
  MaxSweetness,
  Prices, ListingFee, SalePercent256, SaleDays, BlocksInOneDay,
  StrayTreats,           \* do cook moves name treats their recipe needs not?
  UintMax, MaxCandy      \* bounds: the wrap of uint32, the candies a player holds

Items == {"candy", "sweetener", "espresso", "cooker"}
OngoingType == {"COOK_RECIPE", "EXPEDITION", "DECONSTRUCTION", "COOK_SWEETENER"}
Busy == {"Expedition", "Cooking", "Deconstructing"}
Status == Busy \cup {"Available", "Exchange", "Cooked", "Transfiguring",
                     "Unborn", "Deleted"}
Absent == {"Unborn", "Deleted"}     \* no row in the table fighters
Phases == {"moves", "resolve", "start"}

ASSUME SetsAssumption ==
  /\ Nobody \notin Players
  /\ (Players \cup {Nobody}) \cap Absent = {}
  /\ NoFighter \notin Fighters
  /\ NoRecipe \notin Recipes
  /\ {"none", "candy", "upgrade"} \cap Recipes = {}
  /\ NoExpedition \notin Expeditions
  /\ FighterRecipes \subseteq Recipes /\ BoundRecipes \subseteq Recipes
  /\ IsFiniteSet(Players) /\ IsFiniteSet(Fighters) /\ IsFiniteSet(Recipes)

ASSUME InitialAssumption ==
  /\ InitialOwner \in [Fighters -> Players \cup {Nobody}]
  /\ InitialRecipeOwner \in [Recipes -> Players \cup {Nobody}]
  /\ InitialBalance \in [Players -> Nat]
  /\ InitialItems \in [Players -> [Items -> Nat]]
  /\ BoundFighters \subseteq Fighters
  /\ \A p \in Players :
       Cardinality({f \in Fighters : InitialOwner[f] = p}) <= MaxFighters + 1

ASSUME NumbersAssumption ==
  /\ MaxFighters \in Nat /\ MaxRecipes \in Nat
  /\ CookCost \in Nat /\ SweetenerCost \in Nat /\ ListingFee \in Nat
  /\ CandyNeed \in Nat /\ RecoveredCandy \in Nat /\ FuelCandy \in Nat \ {0}
  /\ GoodyPercent \in 0..100 /\ SalePercent256 \in 0..256
  /\ Rolls \in Nat /\ MaxSweetness \in Nat
  /\ UintMax \in Nat /\ MaxCandy \in Nat
  /\ Blocks \in [OngoingType -> 0..UintMax] /\ Blocks["DECONSTRUCTION"] > 0
  /\ UintMax > 0
  /\ Prices \subseteq Nat /\ \A x \in Prices : x > 1
  /\ SaleDays \subseteq 1..14 /\ BlocksInOneDay \in Nat \ {0}
  /\ StrayTreats \in BOOLEAN

VARIABLES
  phase,        \* which part of the block is running
  owner,        \* fighters.owner, Nobody for an id without a row
  status,       \* fighters.status
  applied,      \* proto.highestappliedsweetener
  bound,        \* proto.isaccountbound
  price,        \* proto.exchangeprice
  expire,       \* proto.exchangeexpire, less the height of the running block
  recipeOwner,  \* recipepreviews.owner: Nobody for "", "Unborn"/"Deleted" for no row
  ongoings,     \* the players' repeated field "ongoings"
  rewards,      \* the table rewards
  balance,      \* proto.balance
  inv,          \* the fungible inventory
  prestige      \* xayaplayers.prestige: the treats it was computed from

fighterVars == <<owner, status, applied, bound, price, expire>>
vars == <<phase, fighterVars, recipeOwner, ongoings, rewards, balance, inv,
          prestige>>

Ongoing == [player : Players, type : OngoingType,
            fighter : Fighters \cup {NoFighter}, recipe : Recipes \cup {NoRecipe},
            expedition : Expeditions \cup {NoExpedition}, level : 0..MaxSweetness,
            blocksleft : 0..UintMax]
Reward == [owner : Players, source : OngoingType, fighter : Fighters,
           expedition : Expeditions \cup {NoExpedition}, roll : 0..Rolls,
           grant : Recipes \cup {"candy", "upgrade"}]

TypeOK ==
  /\ phase \in Phases
  /\ owner \in [Fighters -> Players \cup {Nobody}]
  /\ status \in [Fighters -> Status]
  /\ applied \in [Fighters -> Nat]
  /\ bound \in [Fighters -> BOOLEAN]
  /\ price \in [Fighters -> Nat]
  /\ expire \in [Fighters -> Int]
  /\ recipeOwner \in [Recipes -> Players \cup {Nobody} \cup Absent]
  /\ ongoings \subseteq Ongoing
  /\ rewards \subseteq Reward
  /\ balance \in [Players -> Int]
  /\ inv \in [Players -> [Items -> Int]]
  /\ prestige \in [Players -> SUBSET Fighters]

(***************************************************************************)
(* What the handlers read.                                                 *)
(***************************************************************************)
Roster(p) == {f \in Fighters : owner[f] = p}
RecipesOf(p) == {r \in Recipes : recipeOwner[r] = p}
(* as if a claim or a departure only looked at sweetener rewards *)
RewardsOfSweeteners(p) == {w \in rewards : w.owner = p /\ w.expedition = NoExpedition}
RewardsOf(p) == {w \in rewards : w.owner = p}
Mine(p, f) == f \in Fighters /\ status[f] \notin Absent /\ owner[f] = p
(* as if handlers forgot the status of a treat *)
FreeWhateverItDoes(p, f) == Mine(p, f)
Free(p, f) == Mine(p, f) /\ status[f] = "Available"
Cooking == {o \in ongoings : o.type = "COOK_RECIPE"}
CookingOf(p) == {o \in Cooking : o.player = p}
OnExpedition(p, e) == {o \in ongoings : /\ o.player = p /\ o.type = "EXPEDITION"
                                        /\ o.expedition = e}
Fresh == {f \in Fighters : status[f] = "Unborn"}
FreshRecipes == {r \in Recipes : recipeOwner[r] = "Unborn"}

(* as if a payment could be short by one crystal *)
CanPayOffByOne(p, amount) == balance[p] >= amount - 1
CanPay(p, amount) == balance[p] >= amount

(* The slot checks of the moves compare with > where ResolveCookingRecepie  *)
(* compares with >=: a full roster passes them.                            *)
(* as if the limit were one off once more *)
HasSlotsOneMore(n) == n <= MaxFighters + 1
HasSlots(n) == n <= MaxFighters

(* as if the flag were not looked at *)
MayListBound(p, f) == Free(p, f)

(* An account-bound treat is not for sale. *)
MayList(p, f) == Free(p, f) /\ ~bound[f]

(* as if nothing kept a duration above zero *)
DurationUnclamped(type, goody) ==
  IF goody THEN (Blocks[type] * GoodyPercent) \div 100 ELSE Blocks[type]

(* A goody shortens an operation; none takes less than a block. *)
Duration(type, goody) ==
  LET d == IF goody THEN (Blocks[type] * GoodyPercent) \div 100 ELSE Blocks[type]
  IN IF d < 1 THEN 1 ELSE d

(* A recipe that needs no treat: the move may still name one. *)
CookInput(r) == IF r \in FighterRecipes \/ StrayTreats
                THEN Fighters \cup {NoFighter} ELSE {NoFighter}

(* as if a new value alone never got a player stored *)
PrestigeIfModified(p, modified) == IF modified THEN Roster(p)' ELSE prestige[p]

(* CalculatePrestige counts the treats of p as they are in the database.   *)
(* With none left it returns before it marks the player as modified, so    *)
(* the new value is only stored when something else of p changed.          *)
Prestige(p, modified) ==
  IF Roster(p)' = {} /\ ~modified THEN prestige[p] ELSE Roster(p)'

(* The share of the price that reaches the seller, in fixed_24_8, and at   *)
(* least one crystal less than the price.                                  *)
SaleProceeds(x) == IF SalePercent256 = 256 THEN x - 1
                   ELSE (x * SalePercent256) \div 256

(***************************************************************************)
(* What the handlers write.                                                *)
(***************************************************************************)
NewOngoing(p, type, blocks) ==
  [player |-> p, type |-> type, fighter |-> NoFighter, recipe |-> NoRecipe,
   expedition |-> NoExpedition, level |-> 0, blocksleft |-> blocks]

SetStatus(S, s) == status' = [f \in Fighters |-> IF f \in S THEN s ELSE status[f]]

(* FighterTable::DeleteById; nothing of a row that is gone is kept. *)
DeleteTreats(S) ==
  /\ owner' = [f \in Fighters |-> IF f \in S THEN Nobody ELSE owner[f]]
  /\ SetStatus(S, "Deleted")
  /\ applied' = [f \in Fighters |-> IF f \in S THEN 0 ELSE applied[f]]
  /\ bound' = [f \in Fighters |-> bound[f] /\ f \notin S]
  /\ price' = [f \in Fighters |-> IF f \in S THEN 0 ELSE price[f]]
  /\ expire' = [f \in Fighters |-> IF f \in S THEN 0 ELSE expire[f]]

Pay(p, amount) == balance' = [balance EXCEPT ![p] = @ - amount]

(* as if the price went and the status stayed *)
DelistKeepsStatus(S) ==
  /\ UNCHANGED status
  /\ price' = [f \in Fighters |-> IF f \in S THEN 0 ELSE price[f]]
  /\ expire' = [f \in Fighters |-> IF f \in S THEN 0 ELSE expire[f]]

(* The price and the expiry of a treat are only read while it is listed:   *)
(* they are 0 here when it is not.                                         *)
Delist(S) ==
  /\ SetStatus(S, "Available")
  /\ price' = [f \in Fighters |-> IF f \in S THEN 0 ELSE price[f]]
  /\ expire' = [f \in Fighters |-> IF f \in S THEN 0 ELSE expire[f]]

(***************************************************************************)
(* Rewards are granted in id order while the recipe inventory has room; a  *)
(* recipe that does not fit is dropped with its reward.  Every order is    *)
(* allowed.                                                                *)
(***************************************************************************)
ClaimRewards(p, W) ==
  LET room == IF Cardinality(RecipesOf(p)) >= MaxRecipes THEN 0
              ELSE MaxRecipes - Cardinality(RecipesOf(p))
      wanted == {w \in W : w.grant \in Recipes}
      candy == Cardinality({w \in W : w.grant = "candy"})
      fitting == IF Cardinality(wanted) < room THEN Cardinality(wanted) ELSE room
  IN /\ inv[p]["candy"] + candy <= MaxCandy
     /\ \E granted \in SUBSET wanted :
          /\ Cardinality(granted) = fitting
          /\ recipeOwner' = [r \in Recipes |->
                               IF \E w \in granted : w.grant = r THEN p
                               ELSE recipeOwner[r]]
     /\ inv' = [inv EXCEPT ![p]["candy"] = @ + candy]
     /\ rewards' = rewards \ W
-----------------------------------------------------------------------------
(***************************************************************************)
(* Cooking: the sub-moves of "ca".  What a recipe or an expedition asks of *)
(* the quality and the sweetness of a treat is taken as met.               *)
(***************************************************************************)

(* Treats in the oven take no slot yet.  The treat a move names is looked  *)
(* at only for a recipe that needs one.                                    *)
ParseCookRecepie(p, r, f) ==
  /\ recipeOwner[r] = p
  /\ CanPay(p, CookCost)
  /\ inv[p]["candy"] >= CandyNeed
  /\ HasSlots(Cardinality(Roster(p)))
  /\ r \in FighterRecipes => Free(p, f)

(* MaybeCookRecepie: the treat the move names is deleted.                  *)
(* Bound: enough fresh ids are left for all treats in the oven.            *)
CookRecipe(p, r, f) ==
  LET quick == inv[p]["cooker"] > 0
      named == IF f # NoFighter /\ f \in Fighters \ Fresh THEN {f} ELSE {}
  IN /\ phase = "moves"
     /\ ParseCookRecepie(p, r, f)
     /\ Cardinality(Cooking) < Cardinality(Fresh)
     /\ inv' = [inv EXCEPT ![p]["candy"] = @ - CandyNeed,
                           ![p]["cooker"] = IF quick THEN @ - 1 ELSE @]
     /\ Pay(p, CookCost)
     /\ DeleteTreats(named)
     /\ recipeOwner' = [recipeOwner EXCEPT ![r] = Nobody]
     /\ ongoings' = ongoings \cup
          {[NewOngoing(p, "COOK_RECIPE", Duration("COOK_RECIPE", quick))
            EXCEPT !.recipe = r]}
     /\ prestige' = [prestige EXCEPT ![p] = Prestige(p, TRUE)]
     /\ UNCHANGED <<phase, rewards>>

ParseDestroyRecepie(p, R) == R \subseteq RecipesOf(p)

(* MaybeDestroyRecepie: a used or destroyed recipe keeps its row. *)
DestroyRecipes(p, R) ==
  /\ phase = "moves"
  /\ ParseDestroyRecepie(p, R)
  /\ recipeOwner' = [r \in Recipes |-> IF r \in R THEN Nobody ELSE recipeOwner[r]]
  /\ UNCHANGED <<phase, fighterVars, ongoings, rewards, balance, inv>>
  /\ prestige' = [prestige EXCEPT ![p] = Prestige(p, FALSE)]

ParseCollectCookRecepie(p, f) ==
  /\ Mine(p, f) /\ status[f] = "Cooked"
  /\ HasSlots(Cardinality(Roster(p)))

(* MaybeCollectCookedRecepie *)
CollectCooked(p, f) ==
  /\ phase = "moves"
  /\ ParseCollectCookRecepie(p, f)
  /\ SetStatus({f}, "Available")
  /\ UNCHANGED <<phase, owner, applied, bound, price, expire, recipeOwner,
                 ongoings, rewards, balance, inv, prestige>>

(* The sweetener for the next level of the treat. *)
ParseSweetener(p, f) ==
  /\ Free(p, f)
  /\ inv[p]["sweetener"] > 0
  /\ CanPay(p, SweetenerCost)
  /\ inv[p]["candy"] >= CandyNeed
  /\ applied[f] + 1 <= MaxSweetness
  /\ \A w \in RewardsOf(p) : ~(w.fighter = f /\ w.source = "COOK_SWEETENER")

(* MaybeCookSweetener *)
CookSweetener(p, f) ==
  /\ phase = "moves"
  /\ ParseSweetener(p, f)
  /\ inv' = [inv EXCEPT ![p]["candy"] = @ - CandyNeed, ![p]["sweetener"] = @ - 1]
  /\ Pay(p, SweetenerCost)
  /\ SetStatus({f}, "Cooking")
  /\ ongoings' = ongoings \cup
       {[NewOngoing(p, "COOK_SWEETENER", Duration("COOK_SWEETENER", FALSE))
         EXCEPT !.fighter = f, !.level = applied[f] + 1]}
  /\ UNCHANGED <<phase, owner, applied, bound, price, expire, recipeOwner,
                 rewards, prestige>>

SweetenerRewards(p, f) ==
  {w \in RewardsOf(p) : w.fighter = f /\ w.source = "COOK_SWEETENER"}

ParseClaimSweetener(p, f) == Free(p, f) /\ SweetenerRewards(p, f) # {}

(* MaybeClaimSweetenerReward *)
ClaimSweetener(p, f) ==
  /\ phase = "moves"
  /\ ParseClaimSweetener(p, f)
  /\ ClaimRewards(p, SweetenerRewards(p, f))
  /\ UNCHANGED <<phase, fighterVars, ongoings, balance, prestige>>

(***************************************************************************)
(* Expeditions: the sub-moves of "exp".                                    *)
(***************************************************************************)

(* The check for a running expedition is made once per treat, so not at    *)
(* all for an empty party.                                                 *)
ParseExpeditionData(p, e, S) ==
  /\ \A f \in S : Free(p, f)
  /\ S # {} => OnExpedition(p, e) = {}
  /\ \A w \in RewardsOf(p) : w.expedition # e

(* MaybeGoForExpedition: one espresso serves all the treats of a party; an *)
(* empty one only drinks it.                                               *)
GoExpedition(p, e, S) ==
  LET quick == inv[p]["espresso"] > 0
  IN /\ phase = "moves"
     /\ ParseExpeditionData(p, e, S)
     /\ ongoings' = ongoings \cup
          {[NewOngoing(p, "EXPEDITION", Duration("EXPEDITION", quick))
            EXCEPT !.fighter = f, !.expedition = e] : f \in S}
     /\ SetStatus(S, "Expedition")
     /\ inv' = [inv EXCEPT ![p]["espresso"] = IF quick THEN @ - 1 ELSE @]
     /\ UNCHANGED <<phase, owner, applied, bound, price, expire, recipeOwner,
                    rewards, balance, prestige>>

(* Each of the expeditions is over, and has rewards. *)
ParseRewardData(p, E) ==
  /\ E # {}
  /\ \A e \in E : /\ OnExpedition(p, e) = {}
                  /\ \E w \in RewardsOf(p) : w.expedition = e

(* MaybeClaimReward *)
ClaimExpeditions(p, E) ==
  /\ phase = "moves"
  /\ ParseRewardData(p, E)
  /\ ClaimRewards(p, {w \in RewardsOf(p) : w.expedition \in E})
  /\ UNCHANGED <<phase, fighterVars, ongoings, balance, prestige>>

(***************************************************************************)
(* The sub-moves of "f".                                                   *)
(***************************************************************************)

(* Not with a roster of exactly one. *)
ParseDeconstructData(p, f) == Free(p, f) /\ Cardinality(Roster(p)) # 1

(* MaybeDeconstructFighter *)
Deconstruct(p, f) ==
  /\ phase = "moves"
  /\ ParseDeconstructData(p, f)
  /\ SetStatus({f}, "Deconstructing")
  /\ ongoings' = ongoings \cup
       {[NewOngoing(p, "DECONSTRUCTION", Blocks["DECONSTRUCTION"])
         EXCEPT !.fighter = f]}
  /\ UNCHANGED <<phase, owner, applied, bound, price, expire, recipeOwner,
                 rewards, balance, inv, prestige>>

ParseDeconstructRewardData(p, f) ==
  /\ Mine(p, f) /\ status[f] = "Deconstructing"
  /\ \A o \in ongoings :
       ~(o.player = p /\ o.fighter = f /\ o.type = "DECONSTRUCTION")

(* MaybeClaimDeconstructionReward: deletes the treat, and all rewards of p  *)
(* that name it, whatever they are for.                                    *)
ClaimDeconstruction(p, f) ==
  LET W == {w \in RewardsOf(p) : w.fighter = f}
      candy == IF bound[f] THEN 0
               ELSE RecoveredCandy
                    * Cardinality({w \in W : w.source = "DECONSTRUCTION"})
  IN /\ phase = "moves"
     /\ ParseDeconstructRewardData(p, f)
     /\ inv[p]["candy"] + candy <= MaxCandy
     /\ inv' = [inv EXCEPT ![p]["candy"] = @ + candy]
     /\ rewards' = rewards \ W
     /\ DeleteTreats({f})
     /\ prestige' = [prestige EXCEPT ![p] = Prestige(p, candy > 0)]
     /\ UNCHANGED <<phase, recipeOwner, ongoings, balance>>

ParseFighterForSaleData(p, f) == MayList(p, f) /\ CanPay(p, ListingFee)

(* MaybePutFighterForSale *)
Sell(p, f, x, d) ==
  /\ phase = "moves"
  /\ ParseFighterForSaleData(p, f)
  /\ SetStatus({f}, "Exchange")
  /\ Pay(p, ListingFee)
  /\ price' = [price EXCEPT ![f] = x]
  /\ expire' = [expire EXCEPT ![f] = d * BlocksInOneDay]
  /\ UNCHANGED <<phase, owner, applied, bound, recipeOwner, ongoings, rewards,
                 inv, prestige>>

ParseRemoveBuyData(p, f) == Mine(p, f) /\ status[f] = "Exchange"

(* MaybeRemoveFighterFromExchange *)
Unlist(p, f) ==
  /\ phase = "moves"
  /\ ParseRemoveBuyData(p, f)
  /\ Delist({f})
  /\ UNCHANGED <<phase, owner, applied, bound, recipeOwner, ongoings, rewards,
                 balance, inv, prestige>>

(* Here the treats in the oven count. *)
ParseBuyData(p, f) ==
  /\ status[f] = "Exchange" /\ owner[f] # p
  /\ CanPay(p, price[f])
  /\ expire[f] > 0
  /\ HasSlots(Cardinality(Roster(p)) + Cardinality(CookingOf(p)))

(* MaybeBuyFighterFromExchange *)
Buy(p, f) ==
  LET q == owner[f]
  IN /\ phase = "moves"
     /\ ParseBuyData(p, f)
     /\ owner' = [owner EXCEPT ![f] = p]
     /\ Delist({f})
     /\ balance' = [balance EXCEPT ![p] = @ - price[f],
                                   ![q] = @ + SaleProceeds(price[f])]
     /\ prestige' = [prestige EXCEPT ![p] = Prestige(p, TRUE),
                                     ![q] = Prestige(q, TRUE)]
     /\ UNCHANGED <<phase, applied, bound, recipeOwner, ongoings, rewards, inv>>

MayBurn(p, S, R, c) ==
  /\ S # {} /\ \A g \in S : Free(p, g)
  /\ R \subseteq RecipesOf(p)
  /\ inv[p]["candy"] >= c

(* The treats S, the recipes R and c candies are burnt on f.  Nothing      *)
(* keeps f out of S.                                                       *)
ParseTransfigureData(p, f, S, R, c) == Free(p, f) /\ MayBurn(p, S, R, c)

DestroyUsedElements(p, S, R, c) ==
  /\ owner' = [g \in Fighters |-> IF g \in S THEN Nobody ELSE owner[g]]
  /\ applied' = [g \in Fighters |-> IF g \in S THEN 0 ELSE applied[g]]
  /\ bound' = [g \in Fighters |-> bound[g] /\ g \notin S]
  /\ recipeOwner' = [r \in Recipes |-> IF r \in R THEN "Deleted" ELSE recipeOwner[r]]
  /\ inv' = [inv EXCEPT ![p]["candy"] = @ - c]

(* MaybeTransfigureFighter.  What f turns into is not modelled, but for    *)
(* its moves in Fights.                                                    *)
Transfigure(p, f, S, R, c) ==
  /\ phase = "moves"
  /\ ParseTransfigureData(p, f, S, R, c)
  /\ DestroyUsedElements(p, S, R, c)
  /\ status' = [g \in Fighters |-> IF g \in S THEN "Deleted"
                                   ELSE IF g = f THEN "Transfiguring" ELSE status[g]]
  /\ prestige' = [prestige EXCEPT ![p] = Prestige(p, c > 0)]
  /\ UNCHANGED <<phase, price, expire, ongoings, rewards, balance>>

(***************************************************************************)
(* The steps of PXLogic::UpdateState around the moves.                     *)
(***************************************************************************)

(* SetFreeTransfiguringFighters, when a block is attached. *)
BeginBlock ==
  /\ phase = "start"
  /\ phase' = "moves"
  /\ status' = [f \in Fighters |-> IF status[f] = "Transfiguring" THEN "Available"
                                   ELSE status[f]]
  /\ expire' = [f \in Fighters |-> IF status[f] = "Exchange" THEN expire[f] - 1
                                   ELSE expire[f]]
  /\ UNCHANGED <<owner, applied, bound, price, recipeOwner, ongoings, rewards,
                 balance, inv, prestige>>

(* as if a countdown stopped at one *)
TickHalts(o) == [o EXCEPT !.blocksleft = IF @ <= 1 THEN 1 ELSE @ - 1]

(* TickAndResolveOngoings: blocksleft is a uint32. *)
Tick(o) == [o EXCEPT !.blocksleft = IF @ = 0 THEN UintMax ELSE @ - 1]

TickOngoings ==
  /\ phase = "moves"
  /\ phase' = "resolve"
  /\ ongoings' = {Tick(o) : o \in ongoings}
  /\ UNCHANGED <<fighterVars, recipeOwner, rewards, balance, inv, prestige>>

Due(type) == {o \in ongoings : o.blocksleft = 0 /\ o.type = type}

(* as if the loop erased all that is due with the first *)
ResolveErasesAllDue(o) ==
  /\ phase = "resolve"
  /\ ongoings' = {o2 \in ongoings : o2.blocksleft # o.blocksleft}
  /\ UNCHANGED phase

(* as if it forgot to erase *)
ResolveKeepsOngoing(o) ==
  /\ phase = "resolve"
  /\ UNCHANGED <<phase, ongoings>>

(* The operations that are due are resolved one at a time and erased; the  *)
(* order is that of the players' lists, any order here.                    *)
Resolve(o) ==
  /\ phase = "resolve"
  /\ ongoings' = ongoings \ {o}
  /\ UNCHANGED phase

(* as if a roll that wins nothing left a reward *)
RewardsForBlanks(o, grants) ==
  {[owner |-> o.player, source |-> o.type, fighter |-> o.fighter,
    expedition |-> o.expedition, roll |-> i, grant |-> grants[i]] : i \in 1..Rolls}

(* What the rolls on a reward table add.  A roll wins one grant, or none,  *)
(* or a list of them: Rolls is how many there are at most.                 *)
RewardsFor(o, grants) ==
  {[owner |-> o.player, source |-> o.type, fighter |-> o.fighter,
    expedition |-> o.expedition, roll |-> i, grant |-> grants[i]] :
      i \in {j \in 1..Rolls : grants[j] # "none"}}

(* ResolveExpedition: each recipe granted is a new row without an owner. *)
ResolveExpedition(o) ==
  /\ Resolve(o)
  /\ IF status[o.fighter] \in Absent
     THEN UNCHANGED <<status, rewards, recipeOwner>>
     ELSE /\ SetStatus({o.fighter}, "Available")
          /\ \E grants \in [1..Rolls -> {"none", "candy"} \cup FreshRecipes] :
               LET made == {i \in 1..Rolls : grants[i] \in FreshRecipes}
               IN /\ \A i, j \in made : i # j => grants[i] # grants[j]
                  /\ rewards' = rewards \cup RewardsFor(o, grants)
                  /\ recipeOwner' = [r \in Recipes |->
                        IF \E i \in made : grants[i] = r THEN Nobody
                        ELSE recipeOwner[r]]
  /\ UNCHANGED <<owner, applied, bound, price, expire, balance, inv, prestige>>

(* ResolveCookingRecepie, with a full roster: everything goes back but the *)
(* goody and the treat that went in.                                       *)
FailCooking(o) ==
  /\ Resolve(o)
  /\ Cardinality(Roster(o.player)) >= MaxFighters
  /\ inv' = [inv EXCEPT ![o.player]["candy"] = @ + CandyNeed]
  /\ Pay(o.player, -CookCost)
  /\ recipeOwner' = [recipeOwner EXCEPT ![o.recipe] = o.player]
  /\ UNCHANGED <<fighterVars, rewards, prestige>>

(* ResolveCookingRecepie: prestige is calculated while the new treat is    *)
(* still only in memory, its row comes with the destructor.                *)
CookTreat(o, f) ==
  /\ Resolve(o)
  /\ Cardinality(Roster(o.player)) < MaxFighters
  /\ f \in Fresh
  /\ prestige' = [prestige EXCEPT ![o.player] = Roster(o.player)]
  /\ owner' = [owner EXCEPT ![f] = o.player]
  /\ SetStatus({f}, "Cooked")
  /\ bound' = [bound EXCEPT ![f] = o.recipe \in BoundRecipes]
  /\ UNCHANGED <<applied, price, expire, recipeOwner, rewards, balance, inv>>

(* ResolveSweetener *)
ResolveSweetener(o) ==
  /\ Resolve(o)
  /\ status[o.fighter] \notin Absent
  /\ UNCHANGED <<owner, bound, price, expire, recipeOwner, balance, inv>>
  /\ SetStatus({o.fighter}, "Available")
  /\ IF o.level <= applied[o.fighter]
     THEN UNCHANGED <<applied, rewards, prestige>>
     ELSE /\ applied' = [applied EXCEPT ![o.fighter] = o.level]
          /\ \E grants \in [1..Rolls -> {"none", "upgrade"}] :
               rewards' = rewards \cup RewardsFor(o, grants)
          /\ prestige' = [prestige EXCEPT ![o.player] = Prestige(o.player, TRUE)]

(* ResolveDeconstruction: the treat stays "Deconstructing" until its owner *)
(* claims the reward.                                                      *)
ResolveDeconstruction(o) ==
  /\ Resolve(o)
  /\ rewards' = IF status[o.fighter] \in Absent THEN rewards
                ELSE rewards \cup
       {[owner |-> o.player, source |-> o.type, fighter |-> o.fighter,
         expedition |-> NoExpedition, roll |-> 0, grant |-> "candy"]}
  /\ UNCHANGED <<fighterVars, recipeOwner, balance, inv, prestige>>

(* CheckFightersForSale, when no operation is due any more. *)
Expired == {f \in Fighters : status[f] = "Exchange" /\ expire[f] < 0}

CheckFightersForSale ==
  /\ phase = "resolve"
  /\ \A o \in ongoings : o.blocksleft # 0
  /\ phase' = "start"
  /\ Delist(Expired)
  /\ UNCHANGED <<owner, applied, bound, recipeOwner, ongoings, rewards, balance,
                 inv, prestige>>
-----------------------------------------------------------------------------
(* What players own before the first block: the treats and recipes of new  *)
(* accounts, and what they bought.                                         *)
Init ==
  /\ phase = "start"
  /\ owner = InitialOwner
  /\ status = [f \in Fighters |-> IF owner[f] \in Players THEN "Available"
                                  ELSE "Unborn"]
  /\ applied = [f \in Fighters |-> 0]
  /\ bound = [f \in Fighters |-> f \in BoundFighters /\ owner[f] \in Players]
  /\ price = [f \in Fighters |-> 0]
  /\ expire = [f \in Fighters |-> 0]
  /\ recipeOwner = [r \in Recipes |-> IF InitialRecipeOwner[r] \in Players
                                      THEN InitialRecipeOwner[r] ELSE "Unborn"]
  /\ ongoings = {}
  /\ rewards = {}
  /\ balance = InitialBalance
  /\ inv = InitialItems
  /\ prestige = [p \in Players |-> Roster(p)]

CookMove(p) ==
  \/ \E r \in RecipesOf(p) : \E f \in CookInput(r) : CookRecipe(p, r, f)
  \/ \E R \in SUBSET RecipesOf(p) : DestroyRecipes(p, R)
  \/ \E f \in Fighters : CollectCooked(p, f) \/ CookSweetener(p, f)
                         \/ ClaimSweetener(p, f)

ExpeditionMove(p) ==
  \/ \E e \in Expeditions, S \in SUBSET Roster(p) : GoExpedition(p, e, S)
  \/ \E E \in SUBSET Expeditions : ClaimExpeditions(p, E)

FighterMove(p) ==
  \E f \in Fighters :
    \/ Deconstruct(p, f) \/ ClaimDeconstruction(p, f) \/ Unlist(p, f) \/ Buy(p, f)
    \/ \E x \in Prices, d \in SaleDays : Sell(p, f, x, d)
    \/ \E S \in SUBSET Roster(p), R \in SUBSET RecipesOf(p), c \in {0, FuelCandy} :
          Transfigure(p, f, S, R, c)

Move == \E p \in Players : CookMove(p) \/ ExpeditionMove(p) \/ FighterMove(p)

ResolveStep ==
  \/ \E o \in Due("EXPEDITION") : ResolveExpedition(o)
  \/ \E o \in Due("COOK_RECIPE") : FailCooking(o) \/ \E f \in Fresh : CookTreat(o, f)
  \/ \E o \in Due("COOK_SWEETENER") : ResolveSweetener(o)
  \/ \E o \in Due("DECONSTRUCTION") : ResolveDeconstruction(o)

BlockStep == BeginBlock \/ TickOngoings \/ ResolveStep \/ CheckFightersForSale

Next == Move \/ BlockStep

Spec == Init /\ [][Next]_vars

(* Blocks keep coming and the state processor finishes each of them; no    *)
(* player has to move.                                                     *)
FairSpec == Spec /\ WF_vars(BlockStep)
-----------------------------------------------------------------------------
(***************************************************************************)
(* What the code promises of treats, operations and recipes.               *)
(***************************************************************************)
StatusIn == [EXPEDITION |-> "Expedition", COOK_SWEETENER |-> "Cooking",
             DECONSTRUCTION |-> "Deconstructing"]

(* An operation and its treat never come apart: the handlers that resolve  *)
(* operations look the treat up by its id, in a later block, and write to  *)
(* what they find.                                                         *)
OngoingHasTreat ==
  \A o \in ongoings : o.type # "COOK_RECIPE" =>
    /\ o.fighter \in Fighters
    /\ owner[o.fighter] = o.player
    /\ status[o.fighter] = StatusIn[o.type]

(* A treat does one thing at a time. *)
OneOngoingPerTreat ==
  \A o1, o2 \in ongoings : o1.fighter = o2.fighter /\ o1.fighter # NoFighter => o1 = o2

(* A treat that is busy has an operation that will free it, or, once it is *)
(* taken apart, the reward its owner needs to be rid of it.                *)
BusyTreatIsFreed ==
  \A f \in Fighters :
    LET working == \E o \in ongoings : o.fighter = f
        reward == \E w \in rewards : /\ w.fighter = f /\ w.source = "DECONSTRUCTION"
                                     /\ w.owner = owner[f]
    IN /\ status[f] \in {"Expedition", "Cooking"} => working
       /\ status[f] = "Deconstructing" => working \/ reward
       /\ ~(working /\ reward)

(* A recipe is in one hand, in one oven, or in one reward, and nowhere     *)
(* twice: cooking, refunds, rewards and their claims only pass it on.      *)
RecipeInOnePlace ==
  \A r \in Recipes :
    LET ovens == {o \in ongoings : o.recipe = r}
        prizes == {w \in rewards : w.grant = r}
        hands == {p \in Players : recipeOwner[r] = p}
    IN Cardinality(ovens) + Cardinality(prizes) + Cardinality(hands) <= 1

(* The slot checks let a roster overshoot, by one treat and no more,       *)
(* whatever is bought and whatever comes out of the oven.                  *)
RosterBounded == \A p \in Players : Cardinality(Roster(p)) <= MaxFighters + 1

(* The unsigned countdown of an operation never wraps: it stays within the *)
(* duration of its kind.                                                   *)
CountdownBounded ==
  \A o \in ongoings : /\ o.blocksleft <= Duration(o.type, FALSE)
                      /\ phase # "resolve" => o.blocksleft > 0

(* Prestige is never counted over treats a player does not own any more,   *)
(* except that it may stay behind when the last one goes.                  *)
PrestigeCountsOwned ==
  \A p \in Players : Roster(p) = {} \/ prestige[p] \subseteq Roster(p)

(* The treats a player sent on one expedition travel together, and none    *)
(* leaves while rewards of the last round wait: a claim for an expedition  *)
(* is never mixed of two rounds.                                           *)
ExpeditionRounds ==
  \A o \in ongoings : o.type = "EXPEDITION" =>
    /\ \A o2 \in ongoings :
         o2.type = "EXPEDITION" /\ o2.player = o.player /\ o2.expedition = o.expedition
           => o2.blocksleft = o.blocksleft
    /\ o.blocksleft > 0 =>
         \A w \in rewards : ~(w.owner = o.player /\ w.expedition = o.expedition)

(* AddBalance and ~XayaPlayer CHECK that a balance is not negative: no      *)
(* sequence of payments, fees and refunds brings the node down.            *)
NoDebt == \A p \in Players : balance[p] >= 0 /\ \A i \in Items : inv[p][i] >= 0

(* Moves and blocks make no crystals: what players hold and what waits as  *)
(* the refund of a recipe in the oven only goes down.                      *)
Crystals == MapThenSumSet(LAMBDA p : balance[p], Players)
            + CookCost * Cardinality(Cooking)
CrystalsOnlySpent == [][Crystals' <= Crystals]_vars

(* An account-bound treat stays with its account until it is gone.         *)
BoundStaysHome ==
  [][\A f \in Fighters : bound[f] => owner'[f] \in {owner[f], Nobody}]_vars

(* What takes blocks ends: a treat sent off, or sweetened, comes back, and *)
(* a recipe in the oven comes out of it, as a treat or as itself.          *)
TreatsComeBack ==
  /\ \A f \in Fighters : status[f] \in {"Expedition", "Cooking"}
                         ~> status[f] \notin {"Expedition", "Cooking"}
  /\ \A r \in Recipes : (\E o \in Cooking : o.recipe = r)
                        ~> ~(\E o \in Cooking : o.recipe = r)

(* A listing ends, sold or not.                                            *)
ListingsEnd == \A f \in Fighters : status[f] = "Exchange" ~> status[f] # "Exchange"

-----------------------------------------------------------------------------
(***************************************************************************)
(* What the schema says, and the code does not do.                         *)
(***************************************************************************)

(* schema.sql: the owner of a fighter "is thus allowed to send moves for   *)
(* it".  A treat that goes when a recipe is put in the oven is the cook's. *)
OnlyOwnerConsumes ==
  [][\A o \in Cooking' \ Cooking, f \in Fighters :
       phase = "moves" /\ phase' = "moves" /\ owner[f] \in Players /\ owner'[f] = Nobody
         => owner[f] = o.player]_vars
=============================================================================
