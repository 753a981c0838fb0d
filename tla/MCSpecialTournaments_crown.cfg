SPECIFICATION Spec
CONSTANTS
  Players = {1, 2}
  House <- OneHouse
  Fighters = {1, 2, 3, 4, 5, 6}
  InitialOwner <- Trio
  Wandering = {}
  TierCount = 1
  TeamSize = 2
  EntryFee = 1
  MaxBalance = 1
  FightsPerBlock = 1
  MaxBlocks = 2
  Cooldown = 1
  Scores = {1, 2}
  BasePrestige = 4
  MinStep = 2
  Prestiges = {4, 20}
  Rising = {}
  LeaveFork = FALSE
  TierFork = FALSE
  Nobody = 0
PROPERTIES
  MostPointsWin
