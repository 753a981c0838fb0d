SPECIFICATION FairSpec
CONSTANTS
  Players = {1, 2, 3}
  House <- Houses
  Fighters = {1, 2, 3, 4, 5, 6, 7, 8, 9, 10}
  InitialOwner <- Pairs
  Wandering = {10}
  TierCount = 2
  TeamSize = 2
  EntryFee = 1
  MaxBalance = 1
  FightsPerBlock = 1
  MaxBlocks = 2
  Cooldown = 1
  Scores = {1}
  BasePrestige = 4
  MinStep = 2
  Prestiges = {4, 20}
  Rising = {3}
  LeaveFork = TRUE
  TierFork = TRUE
  Nobody = 0
INVARIANTS
  TypeOK
  
  
  

  
  
