SPECIFICATION Spec
CONSTANTS
  f1 = f1
  f2 = f2
  f3 = f3
  f4 = f4
  f5 = f5
  t1 = t1
  t2 = t2
  t3 = t3
  t4 = t4
  duel = duel
  match = match
  Players = {1, 2, 3}
  Nobody = Nobody
  Fighters = {f1, f2, f3}
  InitialOwner <- OneEach
  Wandering = {}
  Tournaments = {t1, t2, t3}
  NoTournament = NoTournament
  Blueprints = {duel}
  NoBlueprint = NoBlueprint
  Closed = {}
  TeamSize <- Single
  TeamCount <- Double
  TournamentDuration <- Single
  MinSweetness <- Single
  MaxSweetness <- Single
  JoinCost <- Free
  BaseRewards = 0
  WinnerRewards = 1
  Sweetness = {1}
  InitialBalance <- Broke
  FirstWin = 2
SYMMETRY Instances
INVARIANTS
  DemandCountsPlayers
