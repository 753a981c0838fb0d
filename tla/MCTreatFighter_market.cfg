SPECIFICATION FairSpec
CONSTANTS
  a = a
  b = b
  f1 = f1
  f2 = f2
  f3 = f3
  f4 = f4
  r1 = r1
  r2 = r2
  r3 = r3
  Players = {a, b}
  Nobody = Nobody
  Fighters = {f1, f2, f3, f4}
  NoFighter = NoFighter
  Recipes = {r1}
  NoRecipe = NoRecipe
  Expeditions = {e1}
  NoExpedition = NoExpedition
  FighterRecipes = {}
  BoundRecipes = {r1}
  InitialOwner <- TwoForB
  InitialRecipeOwner <- RecipeForA
  InitialBalance <- Three
  InitialItems <- MarketItems
  BoundFighters = {}
  MaxFighters = 1
  MaxRecipes = 1
  CookCost = 1
  SweetenerCost = 1
  CandyNeed = 1
  RecoveredCandy = 1
  FuelCandy = 2
  Blocks <- OneBlock
  GoodyPercent = 50
  Rolls = 0
  MaxSweetness = 1
  Prices = {2}
  ListingFee = 1
  SalePercent256 = 246
  SaleDays = {1}
  BlocksInOneDay = 1
  StrayTreats = FALSE
  UintMax = 3
  MaxCandy = 1
INVARIANTS
  RosterBounded
  NoDebt
PROPERTIES
  CrystalsOnlySpent
  BoundStaysHome
  TreatsComeBack
  ListingsEnd
