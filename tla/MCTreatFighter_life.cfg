SPECIFICATION Spec
CONSTANTS
  a = a
  b = b
  f1 = f1
  f2 = f2
  f3 = f3
  f4 = f4
  r1 = r1
  r2 = r2
  r3 = r3
  Players = {a}
  Nobody = Nobody
  Fighters = {f1, f2, f3, f4}
  NoFighter = NoFighter
  Recipes = {r1, r2}
  NoRecipe = NoRecipe
  Expeditions = {e1}
  NoExpedition = NoExpedition
  FighterRecipes = {r2}
  BoundRecipes = {r1}
  InitialOwner <- TwoForA
  InitialRecipeOwner <- RecipeForA
  InitialBalance <- Three
  InitialItems <- OneOfAll
  BoundFighters = {f1}
  MaxFighters = 3
  MaxRecipes = 1
  CookCost = 1
  SweetenerCost = 1
  CandyNeed = 1
  RecoveredCandy = 1
  FuelCandy = 1
  Blocks <- ShortTrips
  GoodyPercent = 50
  Rolls = 1
  MaxSweetness = 1
  Prices = {}
  ListingFee = 1
  SalePercent256 = 246
  SaleDays = {1}
  BlocksInOneDay = 1
  StrayTreats = FALSE
  UintMax = 3
  MaxCandy = 1
SYMMETRY NewTreats
INVARIANTS
  TypeOK
  
  OneOngoingPerTreat
  BusyTreatIsFreed
  RecipeInOnePlace
  CountdownBounded
  
  ExpeditionRounds
