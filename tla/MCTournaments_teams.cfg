SPECIFICATION Spec
CONSTANTS
  f1 = f1
  f2 = f2
  f3 = f3
  f4 = f4
  f5 = f5
  t1 = t1
  t2 = t2
  t3 = t3
  t4 = t4
  duel = duel
  match = match
  Players = {1, 2}
  Nobody = Nobody
  Fighters = {f1, f2, f3, f4}
  InitialOwner <- TwoEach
  Wandering = {f3}
  Tournaments = {t1, t2, t3}
  NoTournament = NoTournament
  Blueprints = {duel, match}
  NoBlueprint = NoBlueprint
  Closed = {}
  TeamSize <- PairsInMatches
  TeamCount <- Double
  TournamentDuration <- Single
  MinSweetness <- Single
  MaxSweetness <- SweetForMatches
  JoinCost <- Free
  BaseRewards = 0
  WinnerRewards = 0
  Sweetness = {1, 2}
  InitialBalance <- Broke
  FirstWin = 1
SYMMETRY Instances
INVARIANTS
  RosterMatches
  TeamsWhole
  TeamsCounted
  SweetInRange
