------------------------- MODULE TournamentsProofs -------------------------
(***************************************************************************)
(* Theorems about Tournaments, for all values of its constants.            *)
(***************************************************************************)
EXTENDS Tournaments, Counting

-----------------------------------------------------------------------------
(* Types.                                                                  *)

(* An instance that exists is one of a blueprint.                          *)
KindKnown == \A t \in Tournaments : state[t] # "Unborn" => kind[t] \in Blueprints

IndType == TypeOK /\ KindKnown

(* Every set of fights is finite, so that counting them gives a number.    *)
LEMMA PairsFinite ==
  ASSUME TypeOK, NEW t \in Tournaments, NEW P \in SUBSET Pairs(t)
  PROVE  IsFiniteSet(P) /\ Cardinality(P) \in Nat
<1>1. IsFiniteSet(roster[t])
  BY FS_Subset, SetsAssumption DEF TypeOK
<1>2. IsFiniteSet(roster[t] \X roster[t])
  BY <1>1, FS_Product
<1>3. P \subseteq roster[t] \X roster[t]
  BY DEF Pairs
<1> QED
  BY <1>2, <1>3, FS_Subset, FS_CardinalityType

LEMMA ResultsType ==
  ASSUME TypeOK, NEW t \in Tournaments, NEW out
  PROVE  ResultsOf(t, out) \subseteq Result
<1>1. \A f : /\ Cardinality(Wins(t, out, f)) \in Nat
             /\ Cardinality(Draws(t, out, f)) \in Nat
             /\ Cardinality(Losses(t, out, f)) \in Nat
  <2> TAKE f
  <2>1. /\ Wins(t, out, f) \in SUBSET Pairs(t)
        /\ Draws(t, out, f) \in SUBSET Pairs(t)
        /\ Losses(t, out, f) \in SUBSET Pairs(t)
    BY DEF Wins, Draws, Losses
  <2> QED
    BY <2>1, PairsFinite
<1>2. roster[t] \subseteq Fighters
  BY DEF TypeOK
<1> QED
  BY <1>1, <1>2 DEF ResultsOf, Result

(* Lists and teams are finite. *)
LEMMA RosterFinite ==
  ASSUME TypeOK, NEW u \in Tournaments
  PROVE  /\ IsFiniteSet(roster[u]) /\ Cardinality(roster[u]) \in Nat
         /\ IsFiniteSet(Teams(u)) /\ Cardinality(Teams(u)) \in Nat
         /\ \A p : IsFiniteSet(TeamOf(u, p))
<1>1. IsFiniteSet(roster[u])
  BY FS_Subset, SetsAssumption DEF TypeOK
<1> DEFINE ownerIn == [f \in roster[u] |-> owner[f]]
<1>2. ownerIn \in Surjection(roster[u], Teams(u))
  BY DEF Teams, Surjection
<1>3. IsFiniteSet(Teams(u))
  <2> HIDE DEF ownerIn
  <2> QED
    BY <1>1, <1>2, FS_Surjection
<1>4. \A p : IsFiniteSet(TeamOf(u, p))
  <2> TAKE p
  <2>1. TeamOf(u, p) \in SUBSET roster[u]
    BY DEF TeamOf
  <2> QED
    BY <1>1, <2>1, FS_Subset
<1> QED
  BY <1>1, <1>3, <1>4, FS_CardinalityType

(* What an instance that is processed has done to it in every case.        *)
LEMMA ProcessType ==
  ASSUME IndType, NEW t \in Tournaments, Process(t)
  PROVE  /\ phase' \in Phases /\ todo' \subseteq Tournaments
         /\ teamsjoined' \in [Tournaments -> Nat]
         /\ owner' = owner /\ kind' = kind /\ queue' = queue /\ balance' = balance
BY RosterFinite DEF Process, IndType, TypeOK

LEMMA CreateNewType ==
  ASSUME IndType, NEW T \in SUBSET Tournaments, NEW as \in [T -> Blueprints],
         CreateNew(T, as)
  PROVE  /\ kind' \in [Tournaments -> Blueprints \cup {NoBlueprint}]
         /\ state' \in [Tournaments -> TournamentState]
         /\ blocksleft' \in [Tournaments -> Nat]
         /\ KindKnown'
         /\ UNCHANGED <<roster, teamsjoined, results, winner>>
BY BlueprintAssumption DEF CreateNew, IndType, TypeOK, KindKnown, TournamentState

LEMMA TypeStep ==
  ASSUME IndType, [Next]_vars
  PROVE  IndType'
<1> USE DEF IndType
<1>1. ASSUME NEW p \in Players, NEW t \in Tournaments, NEW S \in SUBSET Fighters,
             EnterTournament(p, t, S)
      PROVE  IndType'
  <2>1. JoinCost[kind[t]] \in Nat /\ balance[p] \in Int
    BY <1>1, BlueprintAssumption
       DEF EnterTournament, ParseTournamentEntryData, Open, TypeOK, KindKnown
  <2>2. roster'[t] \subseteq Fighters
    BY <1>1 DEF EnterTournament, TypeOK
  <2>3. /\ instance' \in [Fighters -> Tournaments \cup {NoTournament}]
        /\ status' \in [Fighters -> FighterStatus]
        /\ roster' \in [Tournaments -> SUBSET Fighters] /\ balance' \in [Players -> Int]
    BY <1>1, <2>1, <2>2 DEF EnterTournament, TypeOK, FighterStatus
  <2> QED
    BY <1>1, <2>3 DEF EnterTournament, TypeOK, KindKnown
<1>2. ASSUME NEW p \in Players, NEW t \in Tournaments, DemandTournament(p, t)
      PROVE  IndType'
  <2>1. [player |-> p, kind |-> kind[t]] \in Demand
    BY <1>2 DEF DemandTournament, KindKnown, Demand
  <2>2. queue' \in Seq(Demand)
    BY <1>2, <2>1 DEF DemandTournament, TypeOK
  <2> QED
    BY <1>2, <2>2 DEF DemandTournament, TypeOK, KindKnown, fighterVars,
                      tournamentVars, playerVars
<1>3. ASSUME NEW p \in Players, NEW t \in Tournaments, LeaveTournament(p, t)
      PROVE  IndType'
  <2>1. JoinCost[kind[t]] \in Nat /\ balance[p] \in Int
    BY <1>3, BlueprintAssumption
       DEF LeaveTournament, ParseTournamentLeaveData, TypeOK, KindKnown
  <2>2. /\ instance' \in [Fighters -> Tournaments \cup {NoTournament}]
        /\ status' \in [Fighters -> FighterStatus]
        /\ roster' \in [Tournaments -> SUBSET Fighters] /\ balance' \in [Players -> Int]
    BY <1>3, <2>1 DEF LeaveTournament, TypeOK, FighterStatus
  <2> QED
    BY <1>3, <2>2 DEF LeaveTournament, TypeOK, KindKnown
<1>4. ASSUME NEW p \in Players, NEW t \in Tournaments, ClaimTournamentReward(p, t)
      PROVE  IndType'
  BY <1>4 DEF ClaimTournamentReward, TypeOK, KindKnown, fighterVars, tournamentVars,
              playerVars
<1>5. ASSUME NEW f \in Fighters, NEW s \in {"Available", "Elsewhere", "Deleted"},
             NEW p \in Players, NEW w \in Sweetness, OtherMoves(f, s, p, w)
      PROVE  IndType'
  BY <1>5 DEF OtherMoves, TypeOK, KindKnown, FighterStatus, tournamentVars, playerVars
<1>6. CASE ReopenMissingTournaments
  <2>1. PICK T \in SUBSET Unborn : \E as \in [T -> Missing] : CreateNew(T, as)
    BY <1>6 DEF ReopenMissingTournaments
  <2>2. PICK as \in [T -> Missing] : CreateNew(T, as)
    BY <2>1
  <2>3. T \in SUBSET Tournaments /\ as \in [T -> Blueprints]
    BY DEF Unborn, Missing
  <2> QED
    BY <1>6, <2>2, <2>3, CreateNewType
       DEF ReopenMissingTournaments, TypeOK, Phases, fighterVars, playerVars
<1>7. CASE EndMoves
  BY <1>7 DEF EndMoves, TypeOK, KindKnown, Phases, fighterVars, tournamentVars, playerVars
<1>8. ASSUME NEW t \in todo, StartTournament(t)
      PROVE  IndType'
  <2>1. t \in Tournaments /\ Process(t)
    BY <1>8 DEF TypeOK, StartTournament
  <2>2. TournamentDuration[kind[t]] \in Nat
    BY <1>8, <2>1, BlueprintAssumption DEF StartTournament, ReadyToRun, KindKnown
  <2> QED
    BY <1>8, <2>1, <2>2, ProcessType
       DEF StartTournament, ReadyToRun, TypeOK, KindKnown, TournamentState
<1>9. ASSUME NEW t \in todo, SkipTournament(t)
      PROVE  IndType'
  <2>1. t \in Tournaments /\ Process(t)
    BY <1>9 DEF TypeOK, SkipTournament
  <2> QED
    BY <1>9, <2>1, ProcessType DEF SkipTournament, TypeOK, KindKnown
<1>10. ASSUME NEW t \in todo, RunTournament(t)
       PROVE  IndType'
  <2>1. t \in Tournaments /\ Process(t)
    BY <1>10 DEF TypeOK, RunTournament
  <2>2. Countdown(t) \in Nat
    BY <2>1 DEF Countdown, TypeOK
  <2> QED
    BY <1>10, <2>1, <2>2, ProcessType DEF RunTournament, TypeOK, KindKnown
<1>11. ASSUME NEW t \in todo, NEW out \in [Pairs(t) -> Outcome],
              NEW champ \in Players \cup {Nobody}, CompleteTournament(t, out, champ)
       PROVE  IndType'
  <2>1. t \in Tournaments /\ Process(t)
    BY <1>11 DEF TypeOK, CompleteTournament
  <2>2. ResultsOf(t, out) \subseteq Result
    BY <2>1, ResultsType
  <2>3. matches' \in [Fighters -> Nat]
    <3>1. \A f : Cardinality(Fought(t, f)) \in Nat
      BY <2>1, PairsFinite DEF Fought
    <3> QED
      BY <1>11, <3>1 DEF CompleteTournament, TypeOK
  <2>4. rewards' \subseteq Reward
    <3>1. PICK rolls \in [Scored(t) -> SUBSET (1..(BaseRewards + WinnerRewards))] :
            rewards' = rewards \cup RewardsFor(t, rolls)
      BY <1>11 DEF CompleteTournament
    <3>2. \A p \in Scored(t) : \A i \in rolls[p] :
            [owner |-> p, tournament |-> t, roll |-> i] \in Reward
      BY <2>1, BlueprintAssumption DEF Scored, Reward
    <3> QED
      BY <3>1, <3>2 DEF RewardsFor, TypeOK
  <2>5. completed' \in [Players -> Nat] /\ won' \in [Players -> Nat]
    BY <1>11 DEF CompleteTournament, TypeOK
  <2>6. status' \in [Fighters -> FighterStatus]
        /\ instance' \in [Fighters -> Tournaments \cup {NoTournament}]
        /\ sweetness' \in [Fighters -> Sweetness]
    BY <1>11 DEF CompleteTournament, TypeOK, FighterStatus
  <2>7. /\ state' \in [Tournaments -> TournamentState]
        /\ blocksleft' \in [Tournaments -> Nat] /\ roster' = roster
        /\ results' \in [Tournaments -> SUBSET Result]
        /\ winner' \in [Tournaments -> Players \cup {Nobody}]
    BY <1>11, <2>1, <2>2 DEF CompleteTournament, TypeOK, TournamentState, Over
  <2>8. KindKnown'
    BY <1>11, <2>1, ProcessType DEF CompleteTournament, KindKnown, Over, TypeOK
  <2> QED
    BY <2>1, <2>3, <2>4, <2>5, <2>6, <2>7, <2>8, ProcessType DEF TypeOK
<1>12. CASE ResolveDemand
  <2>1. PICK T \in SUBSET Unborn : \E as \in [T -> Blueprints] : CreateNew(T, as)
    BY <1>12 DEF ResolveDemand
  <2>2. PICK as \in [T -> Blueprints] : CreateNew(T, as)
    BY <2>1
  <2>3. T \in SUBSET Tournaments
    BY DEF Unborn
  <2>4. queue' \in Seq(Demand)
    BY <1>12 DEF ResolveDemand
  <2> QED
    BY <1>12, <2>2, <2>3, <2>4, CreateNewType
       DEF ResolveDemand, TypeOK, Phases, fighterVars, playerVars
<1>13. CASE UNCHANGED vars
  BY <1>13 DEF vars, TypeOK, KindKnown, fighterVars, tournamentVars, playerVars
<1>14. Wandering \subseteq Fighters
  BY SetsAssumption
<1> QED
  BY <1>1, <1>2, <1>3, <1>4, <1>5, <1>6, <1>7, <1>8, <1>9, <1>10, <1>11, <1>12,
     <1>13, <1>14 DEF Next, Move, BlockStep, ProcessStep

(* TypeOK holds of every state: among others, countdowns never go below    *)
(* zero and whatever is stored in an instance names players and treats.    *)
THEOREM TypeCorrect == Spec => []TypeOK
<1>1. Init => IndType
  BY SetsAssumption, BlueprintAssumption
     DEF Init, IndType, TypeOK, KindKnown, Phases, FighterStatus, TournamentState
<1>2. IndType /\ [Next]_vars => IndType'
  BY TypeStep
<1>3. IndType => TypeOK
  BY DEF IndType
<1> QED
  BY <1>1, <1>2, <1>3, PTL DEF Spec
-----------------------------------------------------------------------------
(* A treat is in one tournament.                                           *)

UnbornEmpty == \A t \in Tournaments : state[t] = "Unborn" => roster[t] = {}

IndRoster == IndType /\ RosterMatches /\ UnbornEmpty

LEMMA RosterStep ==
  ASSUME IndRoster, [Next]_vars
  PROVE  IndRoster'
<1>0. IndType'
  BY TypeStep DEF IndRoster
<1> USE DEF RosterMatches, UnbornEmpty, Unfinished
<1> SUFFICES RosterMatches' /\ UnbornEmpty'
  BY <1>0 DEF IndRoster
<1>a. /\ \A t \in Unfinished, f \in Fighters :
           f \in roster[t] <=> status[f] = "Tournament" /\ instance[f] = t
      /\ \A f \in Fighters : IF status[f] = "Tournament" THEN instance[f] \in Unfinished
                             ELSE instance[f] = NoTournament
      /\ UnbornEmpty
      /\ NoTournament \notin Tournaments
      /\ TypeOK
  BY SetsAssumption DEF IndRoster, IndType
<1>1. ASSUME NEW p \in Players, NEW t \in Tournaments, NEW S \in SUBSET Fighters,
             EnterTournament(p, t, S)
      PROVE  RosterMatches' /\ UnbornEmpty'
  <2>1. state[t] = "Listed" /\ \A f \in S : status[f] = "Available"
    BY <1>1 DEF EnterTournament, ParseTournamentEntryData, Open, Qualifies
  <2>2. roster' = [roster EXCEPT ![t] = roster[t] \cup S] /\ state' = state
    BY <1>1 DEF EnterTournament
  <2>3. \A f \in Fighters : /\ instance'[f] = IF f \in S THEN t ELSE instance[f]
                            /\ status'[f] = IF f \in S THEN "Tournament" ELSE status[f]
    BY <1>1 DEF EnterTournament
  <2> QED
    BY <1>a, <2>1, <2>2, <2>3 DEF TypeOK
<1>2. ASSUME NEW p \in Players, NEW t \in Tournaments, LeaveTournament(p, t)
      PROVE  RosterMatches' /\ UnbornEmpty'
  <2>1. state[t] = "Listed" /\ TeamOf(t, p) \subseteq roster[t]
    BY <1>2 DEF LeaveTournament, ParseTournamentLeaveData, TeamOf
  <2>2. roster' = [roster EXCEPT ![t] = roster[t] \ TeamOf(t, p)] /\ state' = state
    BY <1>2 DEF LeaveTournament
  <2>3. \A f \in Fighters :
          /\ instance'[f] = IF f \in TeamOf(t, p) THEN NoTournament ELSE instance[f]
          /\ status'[f] = IF f \in TeamOf(t, p) THEN "Available" ELSE status[f]
    BY <1>2 DEF LeaveTournament
  <2> QED
    BY <1>a, <2>1, <2>2, <2>3 DEF TypeOK
<1>3. ASSUME NEW f \in Fighters, NEW s \in {"Available", "Elsewhere", "Deleted"},
             NEW p \in Players, NEW w \in Sweetness, OtherMoves(f, s, p, w)
      PROVE  RosterMatches' /\ UnbornEmpty'
  <2>1. status[f] # "Tournament" /\ s # "Tournament"
    BY <1>3 DEF OtherMoves
  <2>2. roster' = roster /\ state' = state /\ instance' = instance
        /\ status' = [status EXCEPT ![f] = s]
    BY <1>3 DEF OtherMoves, tournamentVars
  <2> QED
    BY <1>a, <2>1, <2>2 DEF TypeOK
<1>4. ASSUME NEW T \in SUBSET Unborn, NEW as, CreateNew(T, as),
             instance' = instance, status' = status
      PROVE  RosterMatches' /\ UnbornEmpty'
  <2>1. \A t \in Tournaments : state'[t] = IF t \in T THEN "Listed" ELSE state[t]
    BY <1>4 DEF CreateNew
  <2>2. roster' = roster /\ \A t \in T : state[t] = "Unborn" /\ roster[t] = {}
    BY <1>4, <1>a DEF CreateNew, Unborn
  <2>3. Unfinished' = Unfinished \cup T /\ \A t \in T : t \notin Unfinished
    BY <2>1, <2>2, <1>4 DEF Unborn
  <2>4. \A t \in T, f \in Fighters :
          f \notin roster[t] /\ ~(status[f] = "Tournament" /\ instance[f] = t)
    BY <1>a, <2>2, <2>3
  <2>5. RosterMatches'
    <3> HIDE DEF Unfinished
    <3> QED
      BY <1>a, <1>4, <2>2, <2>3, <2>4
  <2> QED
    BY <1>a, <2>1, <2>2, <2>5
<1>5. ASSUME NEW t \in Tournaments, state[t] = "Listed", state' = [state EXCEPT ![t] = "Running"],
             UNCHANGED <<roster, instance, status>>
      PROVE  RosterMatches' /\ UnbornEmpty'
  BY <1>a, <1>5 DEF TypeOK
<1>6. ASSUME NEW t \in todo, NEW out \in [Pairs(t) -> Outcome],
             NEW champ \in Players \cup {Nobody}, CompleteTournament(t, out, champ)
      PROVE  RosterMatches' /\ UnbornEmpty'
  <2>1. t \in Tournaments /\ state[t] = "Running" /\ roster' = roster
        /\ state' = [state EXCEPT ![t] = "Completed"]
    BY <1>6, <1>a DEF CompleteTournament, Over, TypeOK
  <2>2. \A f \in Fighters :
          /\ instance'[f] = IF f \in roster[t] THEN NoTournament ELSE instance[f]
          /\ status'[f] = IF f \in roster[t] THEN "Available" ELSE status[f]
    BY <1>6 DEF CompleteTournament
  <2>3. t \in Unfinished /\ \A u \in Unfinished' : u \in Unfinished /\ u # t
    BY <1>a, <2>1 DEF TypeOK
  <2>4. Unfinished' = Unfinished \ {t} /\ UnbornEmpty'
    BY <1>a, <2>1 DEF TypeOK
  <2>5. RosterMatches'
    <3> HIDE DEF Unfinished
    <3>1. \A f \in Fighters : f \in roster[t] <=> status[f] = "Tournament" /\ instance[f] = t
      BY <1>a, <2>3
    <3>2. ASSUME NEW u \in Unfinished', NEW f \in Fighters
          PROVE  f \in roster'[u] <=> status'[f] = "Tournament" /\ instance'[f] = u
      BY <1>a, <2>1, <2>2, <2>3, <3>1, <3>2
    <3>3. ASSUME NEW f \in Fighters
          PROVE  IF status'[f] = "Tournament" THEN instance'[f] \in Unfinished'
                 ELSE instance'[f] = NoTournament
      BY <1>a, <2>2, <2>4, <3>1, <3>3
    <3> QED
      BY <3>2, <3>3
  <2> QED
    BY <2>4, <2>5
<1>7. ASSUME UNCHANGED <<state, roster, instance, status>>
      PROVE  RosterMatches' /\ UnbornEmpty'
  BY <1>a, <1>7
<1>8. ASSUME NEW p \in Players, NEW t \in Tournaments,
             DemandTournament(p, t) \/ ClaimTournamentReward(p, t)
      PROVE  RosterMatches' /\ UnbornEmpty'
  BY <1>7, <1>8 DEF DemandTournament, ClaimTournamentReward, fighterVars, tournamentVars
<1>9. CASE ReopenMissingTournaments
  <2>1. PICK T \in SUBSET Unborn : \E as \in [T -> Missing] : CreateNew(T, as)
    BY <1>9 DEF ReopenMissingTournaments
  <2> QED
    BY <1>4, <1>9, <2>1 DEF ReopenMissingTournaments, fighterVars
<1>10. CASE ResolveDemand
  <2>1. PICK T \in SUBSET Unborn : \E as \in [T -> Blueprints] : CreateNew(T, as)
    BY <1>10 DEF ResolveDemand
  <2> QED
    BY <1>4, <1>10, <2>1 DEF ResolveDemand, fighterVars
<1>11. CASE EndMoves \/ UNCHANGED vars
  BY <1>7, <1>11 DEF EndMoves, vars, fighterVars, tournamentVars
<1>12. ASSUME NEW t \in todo, StartTournament(t) \/ SkipTournament(t) \/ RunTournament(t)
       PROVE  RosterMatches' /\ UnbornEmpty'
  <2>1. t \in Tournaments
    BY <1>a DEF TypeOK
  <2> QED
    BY <1>5, <1>7, <1>12, <2>1 DEF StartTournament, SkipTournament, RunTournament, ReadyToRun
<1>13. Wandering \subseteq Fighters
  BY SetsAssumption
<1> QED
  BY <1>1, <1>2, <1>3, <1>6, <1>8, <1>9, <1>10, <1>11, <1>12, <1>13
     DEF IndRoster, Next, Move, BlockStep, ProcessStep

LEMMA RosterInit == Init => IndRoster
<1>1. Init => IndType
  BY SetsAssumption, BlueprintAssumption
     DEF Init, IndType, TypeOK, KindKnown, Phases, FighterStatus, TournamentState
<1> QED
  BY <1>1 DEF Init, IndRoster, RosterMatches, UnbornEmpty, Unfinished

(* The treats in the list of an unfinished tournament are those whose rows *)
(* say so: entries, departures, the start and the end of a tournament, and *)
(* whatever else treats do, keep the two tables in step, so that a treat   *)
(* is never in two tournaments and never stuck in none.                    *)
THEOREM OneTournamentPerTreat == Spec => []RosterMatches
<1>1. IndRoster /\ [Next]_vars => IndRoster'
  BY RosterStep
<1>2. IndRoster => RosterMatches
  BY DEF IndRoster
<1> QED
  BY RosterInit, <1>1, <1>2, PTL DEF Spec
-----------------------------------------------------------------------------
(* Teams are whole.                                                        *)

TeamInv(u) ==
  /\ \A p \in Players : Cardinality(TeamOf(u, p)) \in {0, TeamSize[kind[u]]}
  /\ Cardinality(roster[u]) <= Seats(u)
  /\ state[u] = "Running" => /\ Cardinality(roster[u]) = Seats(u)
                             /\ teamsjoined[u] = TeamCount[kind[u]]
                             /\ Cardinality(Teams(u)) = TeamCount[kind[u]]

IndTeams == IndRoster /\ \A u \in Unfinished : TeamInv(u)

(* Whole teams of n treats make a list of n times as many treats as teams. *)
LEMMA WholeTeamsCount ==
  ASSUME TypeOK, NEW u \in Tournaments, NEW n \in Nat \ {0},
         \A p \in Players : Cardinality(TeamOf(u, p)) \in {0, n}
  PROVE  Cardinality(roster[u]) = Cardinality(Teams(u)) * n
<1> DEFINE Numbering(p) == Bijection(1..n, TeamOf(u, p))
           num == [p \in Teams(u) |-> CHOOSE g : g \in Numbering(p)]
           seat == [x \in Teams(u) \X (1..n) |-> num[x[1]][x[2]]]
<1>1. \A p \in Teams(u) : num[p] \in Numbering(p)
  <2> TAKE p \in Teams(u)
  <2>1. p \in Players /\ TeamOf(u, p) # {}
    BY DEF Teams, TeamOf, TypeOK
  <2>2. Cardinality(TeamOf(u, p)) = n /\ IsFiniteSet(TeamOf(u, p))
    BY <2>1, RosterFinite, FS_EmptySet
  <2>3. ExistsBijection(1..n, TeamOf(u, p))
    BY <2>2, FS_CardinalityType
  <2>4. \E g : g \in Numbering(p)
    BY <2>3 DEF ExistsBijection
  <2> QED
    BY <2>4
<1>2. \A p \in Teams(u) :
        /\ \A i \in 1..n : num[p][i] \in TeamOf(u, p)
        /\ \A i, j \in 1..n : num[p][i] = num[p][j] => i = j
        /\ \A f \in TeamOf(u, p) : \E i \in 1..n : num[p][i] = f
  <2> TAKE p \in Teams(u)
  <2>1. num[p] \in Bijection(1..n, TeamOf(u, p))
    BY <1>1
  <2> HIDE DEF num
  <2> QED
    BY <2>1 DEF Bijection, Injection, IsInjective, Surjection
<1> HIDE DEF num
<1>3. seat \in Injection(Teams(u) \X (1..n), roster[u])
  <2>1. seat \in [Teams(u) \X (1..n) -> roster[u]]
    BY <1>2 DEF TeamOf
  <2>2. ASSUME NEW x \in Teams(u) \X (1..n), NEW y \in Teams(u) \X (1..n),
               seat[x] = seat[y]
        PROVE  x = y
    <3>1. num[x[1]][x[2]] \in TeamOf(u, x[1]) /\ num[y[1]][y[2]] \in TeamOf(u, y[1])
      BY <1>2
    <3>2. x[1] = y[1]
      BY <2>2, <3>1 DEF TeamOf
    <3>3. x[2] = y[2]
      BY <1>2, <2>2, <3>2
    <3> QED
      BY <3>2, <3>3
  <2> QED
    BY <2>1, <2>2 DEF Injection, IsInjective
<1>4. seat \in Surjection(Teams(u) \X (1..n), roster[u])
  <2>1. ASSUME NEW f \in roster[u]
        PROVE  \E x \in Teams(u) \X (1..n) : seat[x] = f
    <3>1. owner[f] \in Teams(u) /\ f \in TeamOf(u, owner[f])
      BY DEF Teams, TeamOf
    <3>2. PICK i \in 1..n : num[owner[f]][i] = f
      BY <1>2, <3>1
    <3>3. <<owner[f], i>> \in Teams(u) \X (1..n) /\ seat[<<owner[f], i>>] = f
      BY <3>1, <3>2
    <3> QED
      BY <3>3
  <2>2. seat \in [Teams(u) \X (1..n) -> roster[u]]
    BY <1>3 DEF Injection
  <2> QED
    BY <2>1, <2>2 DEF Surjection
<1>5. ExistsBijection(Teams(u) \X (1..n), roster[u])
  <2> HIDE DEF seat
  <2> QED
    BY <1>3, <1>4 DEF ExistsBijection, Bijection
<1>6. IsFiniteSet(1..n) /\ Cardinality(1..n) = n
  BY FS_Interval
<1>7. /\ IsFiniteSet(Teams(u) \X (1..n))
      /\ Cardinality(Teams(u) \X (1..n)) = Cardinality(Teams(u)) * n
  BY <1>6, RosterFinite, FS_Product
<1> QED
  BY <1>5, <1>7, FS_Bijection

(* A list that is not full has room for one more whole team.               *)
LEMMA RoomForTeam ==
  ASSUME NEW k \in Nat, NEW n \in Nat \ {0}, NEW m \in Nat, k * n < n * m
  PROVE  k * n + n <= n * m
<1>1. k < m
  <2>1. SUFFICES ASSUME m <= k PROVE FALSE
    OBVIOUS
  <2>2. m * n <= k * n
    BY <2>1, SMT
  <2>3. m * n = n * m
    BY SMT
  <2> QED
    BY <2>2, <2>3
<1>2. PICK d \in Nat : m = k + 1 + d
  <2>1. m - k - 1 \in Nat /\ m = k + 1 + (m - k - 1)
    BY <1>1
  <2> QED
    BY <2>1
<1>3. n * m = n * k + n + n * d /\ n * d \in Nat /\ n * k = k * n
  BY <1>2, SMT
<1> QED
  BY <1>3

LEMMA SameMultiple ==
  ASSUME NEW k \in Nat, NEW n \in Nat \ {0}, NEW m \in Nat, k * n = n * m
  PROVE  k = m
<1>1. n * k = n * m
  BY SMT
<1>2. n * (k - m) = 0
  BY <1>1, SMT
<1> QED
  BY <1>2, SMT

(* An instance that keeps its state, its list and its teams keeps TeamInv. *)
LEMMA TeamsKept ==
  ASSUME TypeOK, NEW u \in Tournaments, TeamInv(u),
         state'[u] = state[u], kind'[u] = kind[u], roster'[u] = roster[u],
         \A f \in roster[u] : owner'[f] = owner[f],
         teamsjoined'[u] \in {teamsjoined[u], Cardinality(Teams(u))}
  PROVE  TeamInv(u)'
<1>1. \A p : TeamOf(u, p)' = TeamOf(u, p)
  BY DEF TeamOf
<1>2. Teams(u)' = Teams(u)
  BY DEF Teams
<1>3. Seats(u)' = Seats(u)
  BY DEF Seats
<1> QED
  BY <1>1, <1>2, <1>3 DEF TeamInv

(* The treats of an instance are owned by those who entered it: none of    *)
(* them is free to do anything else.                                       *)
LEMMA InsideIsBusy ==
  ASSUME IndRoster, NEW u \in Unfinished, NEW f \in roster[u]
  PROVE  u \in Tournaments /\ f \in Fighters /\ status[f] = "Tournament" /\ instance[f] = u
<1>1. u \in Tournaments /\ f \in Fighters
  BY DEF Unfinished, IndRoster, IndType, TypeOK
<1> QED
  BY <1>1 DEF IndRoster, RosterMatches

LEMMA TeamStepQuiet ==
  ASSUME IndTeams, NEW u \in Unfinished,
         state' = state, kind' = kind, roster' = roster, owner' = owner,
         teamsjoined'[u] \in {teamsjoined[u], Cardinality(Teams(u))}
  PROVE  TeamInv(u)'
<1>1. u \in Tournaments /\ TeamInv(u) /\ TypeOK
  BY DEF IndTeams, Unfinished, IndRoster, IndType
<1> QED
  BY <1>1, TeamsKept

LEMMA TeamStepEnter ==
  ASSUME IndTeams, NEW p \in Players, NEW t \in Tournaments, NEW S \in SUBSET Fighters,
         EnterTournament(p, t, S), NEW u \in Unfinished
  PROVE  TeamInv(u)'
<1>1. u \in Tournaments /\ TeamInv(u) /\ TypeOK /\ KindKnown
  BY DEF IndTeams, Unfinished, IndRoster, IndType
<1>2. state' = state /\ kind' = kind /\ owner' = owner /\ teamsjoined' = teamsjoined
      /\ roster' = [roster EXCEPT ![t] = roster[t] \cup S]
  BY DEF EnterTournament
<1>3. CASE u # t
  BY <1>1, <1>2, <1>3, TeamsKept DEF TypeOK
<1>4. CASE u = t
  <2> DEFINE n == TeamSize[kind[t]]
             m == TeamCount[kind[t]]
  <2>1. /\ state[t] = "Listed" /\ ~Full(t) /\ TeamOf(t, p) = {} /\ Cardinality(S) = n
        /\ \A f \in S : owner[f] = p /\ status[f] = "Available"
    BY DEF EnterTournament, ParseTournamentEntryData, Open, Qualifies
  <2>2. n \in Nat \ {0} /\ m \in Nat
    BY <1>1, <2>1, BlueprintAssumption DEF KindKnown
  <2>3. roster'[t] = roster[t] \cup S /\ roster[t] \cap S = {}
    <3>1. \A f \in roster[t] : status[f] = "Tournament"
      BY <1>4, InsideIsBusy DEF IndTeams
    <3> QED
      BY <1>1, <1>2, <2>1, <3>1 DEF TypeOK
  <2>4. TeamOf(t, p)' = S
    BY <1>2, <2>1, <2>3 DEF TeamOf
  <2>5. \A q \in Players : q # p => TeamOf(t, q)' = TeamOf(t, q)
    BY <1>2, <2>1, <2>3 DEF TeamOf
  <2>6. \A q \in Players : Cardinality(TeamOf(t, q)) \in {0, n}
    BY <1>1, <1>4 DEF TeamInv
  <2>7. \A q \in Players : Cardinality(TeamOf(t, q)') \in {0, n}
    BY <2>1, <2>4, <2>5, <2>6
  <2>8. IsFiniteSet(S) /\ IsFiniteSet(roster[t]) /\ Cardinality(roster[t]) \in Nat
    BY <1>1, FS_Subset, SetsAssumption, RosterFinite
  <2>9. Cardinality(roster[t] \cup S) = Cardinality(roster[t]) + n
    <3>1. Cardinality(roster[t] \cup S)
            = Cardinality(roster[t]) + Cardinality(S) - Cardinality(roster[t] \cap S)
      BY <2>8, FS_Union
    <3>2. Cardinality(roster[t] \cap S) = 0
      BY <2>3, FS_EmptySet
    <3> QED
      BY <2>1, <2>2, <2>8, <3>1, <3>2
  <2>10. Cardinality(roster[t]) = Cardinality(Teams(t)) * n /\ Cardinality(Teams(t)) \in Nat
    <3> HIDE DEF n
    <3> QED
      BY <1>1, <2>2, <2>6, WholeTeamsCount, RosterFinite
  <2>11. Cardinality(Teams(t)) * n < n * m
    <3>1. ~(Cardinality(roster[t]) >= n * m)
      BY <2>1 DEF Full, Seats
    <3>2. n * m \in Nat
      BY <2>2
    <3> QED
      BY <2>8, <2>10, <3>1, <3>2
  <2>12. Cardinality(roster'[t]) <= n * m
    <3> HIDE DEF n, m
    <3>1. Cardinality(Teams(t)) * n + n <= n * m
      BY <2>2, <2>10, <2>11, RoomForTeam
    <3> QED
      BY <2>3, <2>9, <2>10, <3>1
  <2> QED
    BY <1>2, <1>4, <2>1, <2>7, <2>12 DEF TeamInv, Seats
<1> QED
  BY <1>3, <1>4

LEMMA TeamStepLeave ==
  ASSUME IndTeams, NEW p \in Players, NEW t \in Tournaments, LeaveTournament(p, t),
         NEW u \in Unfinished
  PROVE  TeamInv(u)'
<1>1. u \in Tournaments /\ TeamInv(u) /\ TypeOK /\ KindKnown
  BY DEF IndTeams, Unfinished, IndRoster, IndType
<1>2. state' = state /\ kind' = kind /\ owner' = owner /\ teamsjoined' = teamsjoined
      /\ roster' = [roster EXCEPT ![t] = roster[t] \ TeamOf(t, p)] /\ state[t] = "Listed"
  BY DEF LeaveTournament, ParseTournamentLeaveData
<1>3. CASE u # t
  BY <1>1, <1>2, <1>3, TeamsKept DEF TypeOK
<1>4. CASE u = t
  <2>1. roster'[t] = roster[t] \ TeamOf(t, p)
    BY <1>1, <1>2 DEF TypeOK
  <2>2. TeamOf(t, p)' = {}
    BY <1>2, <2>1 DEF TeamOf
  <2>3. \A q \in Players : q # p => TeamOf(t, q)' = TeamOf(t, q)
    BY <1>2, <2>1 DEF TeamOf
  <2>4. \A q \in Players : Cardinality(TeamOf(t, q)') \in {0, TeamSize[kind[t]]}
    BY <1>1, <1>4, <2>2, <2>3, FS_EmptySet DEF TeamInv
  <2>5. Cardinality(roster'[t]) \in Nat /\ Cardinality(roster'[t]) <= Cardinality(roster[t])
    <3>1. roster'[t] \in SUBSET roster[t]
      BY <2>1
    <3> QED
      BY <1>1, <3>1, RosterFinite, FS_Subset, FS_CardinalityType
  <2>6. Seats(t) \in Nat /\ Cardinality(roster[t]) \in Nat
    BY <1>1, <1>2, RosterFinite, BlueprintAssumption DEF Seats, KindKnown
  <2>7. Seats(t)' = Seats(t)
    BY <1>2 DEF Seats
  <2>8. Cardinality(roster'[t]) <= Seats(t)
    BY <1>1, <1>4, <2>5, <2>6 DEF TeamInv
  <2> QED
    BY <1>2, <1>4, <2>4, <2>7, <2>8 DEF TeamInv
<1> QED
  BY <1>3, <1>4

(* New instances are empty; the others are not touched. *)
LEMMA TeamStepCreate ==
  ASSUME IndTeams, NEW T \in SUBSET Unborn, NEW as \in [T -> Blueprints], CreateNew(T, as),
         owner' = owner, NEW u \in Unfinished'
  PROVE  TeamInv(u)'
<1>1. u \in Tournaments /\ TypeOK /\ IndRoster /\ UnbornEmpty
  BY DEF IndTeams, Unfinished, IndRoster, IndType
<1>2. /\ state'[u] = IF u \in T THEN "Listed" ELSE state[u]
      /\ kind'[u] = IF u \in T THEN as[u] ELSE kind[u]
      /\ roster' = roster /\ teamsjoined' = teamsjoined
  BY <1>1 DEF CreateNew
<1>3. CASE u \notin T
  <2>1. TeamInv(u)
    BY <1>2, <1>3 DEF IndTeams, Unfinished
  <2> QED
    BY <1>1, <1>2, <1>3, <2>1, TeamsKept
<1>4. CASE u \in T
  <2>1. roster'[u] = {} /\ state'[u] = "Listed" /\ kind'[u] \in Blueprints
    BY <1>1, <1>2, <1>4 DEF Unborn, UnbornEmpty
  <2>2. \A p \in Players : TeamOf(u, p)' = {}
    BY <2>1 DEF TeamOf
  <2>3. Seats(u)' \in Nat
    BY <2>1, BlueprintAssumption DEF Seats
  <2> QED
    BY <2>1, <2>2, <2>3, FS_EmptySet DEF TeamInv
<1> QED
  BY <1>3, <1>4

(* With all seats taken by whole teams, their number is the one asked for. *)
LEMMA TeamStepStart ==
  ASSUME IndTeams, NEW t \in Tournaments, StartTournament(t), NEW u \in Unfinished
  PROVE  TeamInv(u)'
<1>1. u \in Tournaments /\ TeamInv(u) /\ TypeOK /\ KindKnown
  BY DEF IndTeams, Unfinished, IndRoster, IndType
<1>2. /\ kind' = kind /\ owner' = owner /\ roster' = roster
      /\ state[t] = "Listed" /\ state' = [state EXCEPT ![t] = "Running"]
      /\ Cardinality(roster[t]) = Seats(t)
      /\ teamsjoined' = [teamsjoined EXCEPT ![t] = Cardinality(Teams(t))]
  BY DEF StartTournament, ReadyToRun, Process
<1>3. CASE u # t
  BY <1>1, <1>2, <1>3, TeamsKept DEF TypeOK
<1>4. CASE u = t
  <2> DEFINE n == TeamSize[kind[t]]
             m == TeamCount[kind[t]]
  <2>1. n \in Nat \ {0} /\ m \in Nat
    BY <1>1, <1>2, BlueprintAssumption DEF KindKnown
  <2>2. Cardinality(roster[t]) = Cardinality(Teams(t)) * n /\ Cardinality(Teams(t)) \in Nat
    <3>1. \A q \in Players : Cardinality(TeamOf(t, q)) \in {0, n}
      BY <1>1, <1>4 DEF TeamInv
    <3> HIDE DEF n
    <3> QED
      BY <1>1, <2>1, <3>1, WholeTeamsCount, RosterFinite
  <2>3. Cardinality(Teams(t)) = m
    <3>1. Cardinality(Teams(t)) * n = n * m
      BY <1>2, <2>2 DEF Seats
    <3> HIDE DEF n, m
    <3> QED
      BY <2>1, <2>2, <3>1, SameMultiple
  <2>4. /\ \A p : TeamOf(t, p)' = TeamOf(t, p)
        /\ Teams(t)' = Teams(t) /\ Seats(t)' = Seats(t)
    BY <1>2 DEF TeamOf, Teams, Seats
  <2>5. teamsjoined'[t] = Cardinality(Teams(t))
    BY <1>1, <1>2 DEF TypeOK
  <2> QED
    BY <1>1, <1>2, <1>4, <2>3, <2>4, <2>5 DEF TeamInv
<1> QED
  BY <1>3, <1>4

LEMMA TeamStep ==
  ASSUME IndTeams, [Next]_vars
  PROVE  IndTeams'
<1>1. IndRoster'
  BY RosterStep DEF IndTeams
<1> SUFFICES ASSUME NEW u \in Unfinished'
             PROVE  TeamInv(u)'
  BY <1>1 DEF IndTeams
<1>2. TypeOK /\ IndRoster /\ u \in Tournaments
  BY DEF IndTeams, IndRoster, IndType, Unfinished
<1>3. ASSUME state' = state, kind' = kind, roster' = roster, owner' = owner,
             teamsjoined'[u] \in {teamsjoined[u], Cardinality(Teams(u))}
      PROVE  TeamInv(u)'
  BY <1>3, TeamStepQuiet DEF Unfinished
<1>4. ASSUME NEW p \in Players, NEW t \in Tournaments, NEW S \in SUBSET Fighters,
             EnterTournament(p, t, S)
      PROVE  TeamInv(u)'
  BY <1>4, TeamStepEnter DEF EnterTournament, Unfinished
<1>5. ASSUME NEW p \in Players, NEW t \in Tournaments, LeaveTournament(p, t)
      PROVE  TeamInv(u)'
  BY <1>5, TeamStepLeave DEF LeaveTournament, Unfinished
<1>6. ASSUME NEW p \in Players, NEW t \in Tournaments,
             DemandTournament(p, t) \/ ClaimTournamentReward(p, t)
      PROVE  TeamInv(u)'
  BY <1>3, <1>6 DEF DemandTournament, ClaimTournamentReward, fighterVars, tournamentVars
<1>7. ASSUME NEW f \in Fighters, NEW s \in {"Available", "Elsewhere", "Deleted"},
             NEW p \in Players, NEW w \in Sweetness, OtherMoves(f, s, p, w)
      PROVE  TeamInv(u)'
  <2>1. state' = state /\ kind' = kind /\ roster' = roster /\ teamsjoined' = teamsjoined
        /\ owner' = [owner EXCEPT ![f] = p] /\ status[f] # "Tournament"
    BY <1>7 DEF OtherMoves, tournamentVars
  <2>2. u \in Unfinished
    BY <2>1 DEF Unfinished
  <2>3. f \notin roster[u]
    BY <1>2, <2>1, <2>2, InsideIsBusy
  <2>4. \A g \in roster[u] : owner'[g] = owner[g]
    BY <1>2, <2>1, <2>3 DEF TypeOK
  <2> QED
    BY <1>2, <2>1, <2>2, <2>4, TeamsKept DEF IndTeams
<1>8. CASE ReopenMissingTournaments
  <2>1. PICK T \in SUBSET Unborn : \E as \in [T -> Missing] : CreateNew(T, as)
    BY <1>8 DEF ReopenMissingTournaments
  <2>2. PICK as \in [T -> Missing] : CreateNew(T, as)
    BY <2>1
  <2>3. as \in [T -> Blueprints]
    BY DEF Missing
  <2> QED
    BY <1>8, <2>2, <2>3, TeamStepCreate DEF ReopenMissingTournaments, fighterVars
<1>9. CASE EndMoves \/ UNCHANGED vars
  BY <1>3, <1>9 DEF EndMoves, vars, fighterVars, tournamentVars
<1>10. ASSUME NEW t \in todo, StartTournament(t)
       PROVE  TeamInv(u)'
  <2>1. t \in Tournaments
    BY <1>2 DEF TypeOK
  <2>2. u \in Unfinished
    BY <1>2, <1>10, <2>1 DEF StartTournament, ReadyToRun, Unfinished, TypeOK
  <2> QED
    BY <1>10, <2>1, <2>2, TeamStepStart
<1>11. ASSUME NEW t \in todo, SkipTournament(t) \/ RunTournament(t)
       PROVE  TeamInv(u)'
  <2>1. t \in Tournaments /\ Process(t)
    BY <1>2, <1>11 DEF TypeOK, SkipTournament, RunTournament
  <2>2. teamsjoined'[u] \in {teamsjoined[u], Cardinality(Teams(u))}
    BY <1>2, <2>1 DEF Process, TypeOK
  <2> QED
    BY <1>3, <1>11, <2>1, <2>2 DEF SkipTournament, RunTournament, Process
<1>12. ASSUME NEW t \in todo, NEW out \in [Pairs(t) -> Outcome],
              NEW champ \in Players \cup {Nobody}, CompleteTournament(t, out, champ)
       PROVE  TeamInv(u)'
  <2>1. t \in Tournaments /\ Process(t)
    BY <1>2, <1>12 DEF TypeOK, CompleteTournament
  <2>2. roster' = roster /\ kind' = kind /\ owner' = owner
        /\ state' = [state EXCEPT ![t] = "Completed"]
    BY <1>12, <2>1 DEF CompleteTournament, Over, Process
  <2>3. u # t /\ state'[u] = state[u] /\ u \in Unfinished
    BY <1>2, <2>1, <2>2 DEF TypeOK, Unfinished
  <2>4. teamsjoined'[u] \in {teamsjoined[u], Cardinality(Teams(u))}
    BY <1>2, <2>1 DEF Process, TypeOK
  <2> QED
    BY <1>2, <2>2, <2>3, <2>4, TeamsKept DEF IndTeams
<1>13. CASE ResolveDemand
  <2>1. PICK T \in SUBSET Unborn : \E as \in [T -> Blueprints] : CreateNew(T, as)
    BY <1>13 DEF ResolveDemand
  <2>2. PICK as \in [T -> Blueprints] : CreateNew(T, as)
    BY <2>1
  <2> QED
    BY <1>13, <2>2, TeamStepCreate DEF ResolveDemand, fighterVars
<1>14. Wandering \subseteq Fighters
  BY SetsAssumption
<1> QED
  BY <1>4, <1>5, <1>6, <1>7, <1>8, <1>9, <1>10, <1>11, <1>12, <1>13, <1>14
     DEF Next, Move, BlockStep, ProcessStep

LEMMA TeamInit == Init => IndTeams
BY RosterInit DEF Init, IndTeams, Unfinished

(* Entries and departures are of whole teams, the seats of an instance are *)
(* never overbooked, and it starts only when the last one is taken: the    *)
(* check of ParseTournamentEntryData for a free seat is enough, because    *)
(* all that came before came in whole teams and brought nothing else.      *)
THEOREM TeamsStayWhole == Spec => []TeamsWhole
<1>1. IndTeams /\ [Next]_vars => IndTeams'
  BY TeamStep
<1>2. IndTeams => TeamsWhole
  BY DEF IndTeams, TeamInv, TeamsWhole
<1> QED
  BY TeamInit, <1>1, <1>2, PTL DEF Spec

(* The number of teams counted at the start of an instance is the number   *)
(* its blueprint asks for, and stays right while it runs.                  *)
THEOREM TeamsCountedRight == Spec => []TeamsCounted
<1>1. IndTeams /\ [Next]_vars => IndTeams'
  BY TeamStep
<1>2. IndTeams => TeamsCounted
  BY DEF IndTeams, TeamInv, TeamsCounted, Unfinished
<1> QED
  BY TeamInit, <1>1, <1>2, PTL DEF Spec
-----------------------------------------------------------------------------
(* Treats stay within the range of sweetness of their tournament.          *)

IndSweet == IndRoster /\ SweetInRange

LEMMA SweetStep ==
  ASSUME IndSweet, [Next]_vars
  PROVE  IndSweet'
<1>1. IndRoster'
  BY RosterStep DEF IndSweet
<1>2. TypeOK /\ IndRoster /\ UnbornEmpty
  BY DEF IndSweet, IndRoster, IndType
<1> SUFFICES ASSUME NEW u \in Unfinished', NEW f \in Fighters, f \in roster'[u]
             PROVE  sweetness'[f] \in MinSweetness[kind'[u]]..MaxSweetness[kind'[u]]
  BY <1>1 DEF IndSweet, SweetInRange
<1> DEFINE Fits == sweetness'[f] \in MinSweetness[kind'[u]]..MaxSweetness[kind'[u]]
<1>3. u \in Tournaments
  BY DEF Unfinished
<1>4. ASSUME u \in Unfinished, f \in roster[u], kind'[u] = kind[u], sweetness'[f] = sweetness[f]
      PROVE  Fits
  BY <1>4 DEF IndSweet, SweetInRange
<1>5. ASSUME NEW p \in Players, NEW t \in Tournaments, NEW S \in SUBSET Fighters,
             EnterTournament(p, t, S)
      PROVE  Fits
  <2>1. /\ \A g \in S : sweetness[g] \in MinSweetness[kind[t]]..MaxSweetness[kind[t]]
        /\ state' = state /\ kind' = kind /\ sweetness' = sweetness
        /\ roster' = [roster EXCEPT ![t] = roster[t] \cup S]
    BY <1>5 DEF EnterTournament, ParseTournamentEntryData, Qualifies
  <2>2. (u = t /\ f \in S) \/ f \in roster[u]
    BY <1>2, <1>3, <2>1 DEF TypeOK
  <2> QED
    BY <1>4, <2>1, <2>2 DEF Unfinished
<1>6. ASSUME NEW p \in Players, NEW t \in Tournaments, LeaveTournament(p, t)
      PROVE  Fits
  <2>1. f \in roster[u]
    BY <1>2, <1>3, <1>6 DEF LeaveTournament, TypeOK
  <2> QED
    BY <1>4, <1>6, <2>1 DEF LeaveTournament, Unfinished
<1>7. ASSUME NEW g \in Fighters, NEW s \in {"Available", "Elsewhere", "Deleted"},
             NEW p \in Players, NEW w \in Sweetness, OtherMoves(g, s, p, w)
      PROVE  Fits
  <2>1. u \in Unfinished /\ f \in roster[u] /\ kind' = kind
    BY <1>7 DEF OtherMoves, tournamentVars, Unfinished
  <2>2. status[f] = "Tournament" /\ status[g] # "Tournament"
    BY <1>2, <1>7, <2>1, InsideIsBusy DEF OtherMoves
  <2>3. sweetness'[f] = sweetness[f]
    BY <1>2, <1>7, <2>2 DEF OtherMoves, TypeOK
  <2> QED
    BY <1>4, <2>1, <2>3
<1>8. ASSUME NEW T \in SUBSET Unborn, NEW as, CreateNew(T, as), sweetness' = sweetness
      PROVE  Fits
  <2>1. roster' = roster /\ u \notin T
    BY <1>2, <1>8 DEF CreateNew, Unborn, UnbornEmpty
  <2> QED
    BY <1>3, <1>4, <1>8, <2>1 DEF CreateNew, Unfinished
<1>9. CASE ReopenMissingTournaments
  <2>1. PICK T \in SUBSET Unborn : \E as \in [T -> Missing] : CreateNew(T, as)
    BY <1>9 DEF ReopenMissingTournaments
  <2> QED
    BY <1>8, <1>9, <2>1 DEF ReopenMissingTournaments, fighterVars
<1>10. CASE ResolveDemand
  <2>1. PICK T \in SUBSET Unborn : \E as \in [T -> Blueprints] : CreateNew(T, as)
    BY <1>10 DEF ResolveDemand
  <2> QED
    BY <1>8, <1>10, <2>1 DEF ResolveDemand, fighterVars
<1>11. ASSUME UNCHANGED <<state, kind, roster, sweetness>>
       PROVE  Fits
  BY <1>4, <1>11 DEF Unfinished
<1>12. CASE EndMoves \/ UNCHANGED vars
  BY <1>11, <1>12 DEF EndMoves, vars, fighterVars, tournamentVars
<1>13. ASSUME NEW p \in Players, NEW t \in Tournaments,
              DemandTournament(p, t) \/ ClaimTournamentReward(p, t)
       PROVE  Fits
  BY <1>11, <1>13 DEF DemandTournament, ClaimTournamentReward, fighterVars, tournamentVars
<1>14. ASSUME NEW t \in todo, SkipTournament(t) \/ RunTournament(t)
       PROVE  Fits
  BY <1>11, <1>14 DEF SkipTournament, RunTournament, Process
<1>15. ASSUME NEW t \in todo, StartTournament(t)
       PROVE  Fits
  <2>1. u \in Unfinished
    BY <1>2, <1>3, <1>15 DEF StartTournament, ReadyToRun, Unfinished, TypeOK
  <2> QED
    BY <1>4, <1>15, <2>1 DEF StartTournament, Process
<1>16. ASSUME NEW t \in todo, NEW out \in [Pairs(t) -> Outcome],
              NEW champ \in Players \cup {Nobody}, CompleteTournament(t, out, champ)
       PROVE  Fits
  <2>1. /\ t \in Tournaments /\ state[t] = "Running" /\ roster' = roster /\ kind' = kind
        /\ state' = [state EXCEPT ![t] = "Completed"]
        /\ f \notin roster[t] => sweetness'[f] = sweetness[f]
    BY <1>2, <1>16 DEF CompleteTournament, Over, Process, TypeOK
  <2>2. u # t /\ u \in Unfinished /\ t \in Unfinished
    BY <1>2, <1>3, <2>1 DEF Unfinished, TypeOK
  <2>3. f \notin roster[t]
    BY <1>2, <2>1, <2>2, InsideIsBusy
  <2> QED
    BY <1>4, <2>1, <2>2, <2>3
<1>17. Wandering \subseteq Fighters
  BY SetsAssumption
<1> QED
  BY <1>5, <1>6, <1>7, <1>9, <1>10, <1>12, <1>13, <1>14, <1>15, <1>16, <1>17
     DEF IndSweet, Next, Move, BlockStep, ProcessStep

(* Sweetness is checked when a treat enters; no move and no other          *)
(* tournament makes it sweeter until the one it is in is over.             *)
THEOREM SweetnessHolds == Spec => []SweetInRange
<1>1. Init => IndSweet
  BY RosterInit DEF Init, IndSweet, SweetInRange, Unfinished
<1>2. IndSweet /\ [Next]_vars => IndSweet'
  BY SweetStep
<1>3. IndSweet => SweetInRange
  BY DEF IndSweet
<1> QED
  BY <1>1, <1>2, <1>3, PTL DEF Spec
-----------------------------------------------------------------------------
(* Every blueprint can be found on the list; rewards come once.            *)

IndListed == IndType /\ AlwaysListed

LEMMA ListedStep ==
  ASSUME IndListed, [Next]_vars
  PROVE  IndListed'
<1>1. IndType' /\ TypeOK
  BY TypeStep DEF IndListed, IndType
<1>2. CASE ReopenMissingTournaments
  <2>1. PICK T \in SUBSET Unborn : \E as \in [T -> Missing] :
          /\ \A b \in Missing : \E t \in T : as[t] = b
          /\ CreateNew(T, as)
    BY <1>2 DEF ReopenMissingTournaments
  <2>2. PICK as \in [T -> Missing] :
          /\ \A b \in Missing : \E t \in T : as[t] = b
          /\ CreateNew(T, as)
    BY <2>1
  <2>3. \A t \in Tournaments : /\ state'[t] = IF t \in T THEN "Listed" ELSE state[t]
                               /\ kind'[t] = IF t \in T THEN as[t] ELSE kind[t]
    BY <2>2 DEF CreateNew
  <2>4. ASSUME NEW b \in Blueprints
        PROVE  \E t \in Tournaments : kind'[t] = b /\ state'[t] = "Listed"
    <3>1. CASE b \in Missing
      <4>1. PICK t \in T : as[t] = b
        BY <2>2, <3>1
      <4>2. t \in Tournaments
        BY DEF Unborn
      <4> QED
        BY <2>3, <4>1, <4>2
    <3>2. CASE b \notin Missing
      <4>1. PICK t \in Tournaments : kind[t] = b /\ Open(t)
        BY <3>2 DEF Missing
      <4>2. state[t] = "Listed" /\ t \notin T
        BY <4>1 DEF Open, Unborn
      <4> QED
        BY <2>3, <4>1, <4>2
    <3> QED
      BY <3>1, <3>2
  <2> QED
    BY <1>1, <2>4 DEF IndListed, AlwaysListed
<1>3. ASSUME phase' = phase, state' = state, kind' = kind
      PROVE  IndListed'
  BY <1>1, <1>3 DEF IndListed, AlwaysListed
<1>4. ASSUME phase' # "moves"
      PROVE  IndListed'
  BY <1>1, <1>4 DEF IndListed, AlwaysListed
<1>5. CASE Move
  <2>1. phase' = phase /\ state' = state /\ kind' = kind
    BY <1>5 DEF Move, EnterTournament, DemandTournament, LeaveTournament,
                ClaimTournamentReward, OtherMoves, tournamentVars
  <2> QED
    BY <1>3, <2>1
<1>6. CASE EndMoves \/ ResolveDemand
  BY <1>4, <1>6 DEF EndMoves, ResolveDemand
<1>7. CASE ProcessStep
  <2>1. phase' # "moves"
    BY <1>7 DEF ProcessStep, StartTournament, SkipTournament, RunTournament,
                CompleteTournament, Process
  <2> QED
    BY <1>4, <2>1
<1>8. CASE UNCHANGED vars
  BY <1>3, <1>8 DEF vars, tournamentVars
<1> QED
  BY <1>2, <1>5, <1>6, <1>7, <1>8 DEF Next, BlockStep

(* Whenever moves are handled there is an instance of every blueprint on   *)
(* the list, whatever ran, filled up or was completed in blocks before.    *)
THEOREM NoneMissing == Spec => []AlwaysListed
<1>1. Init => IndListed
  <2>1. Init => IndType
    BY RosterInit DEF IndRoster
  <2> QED
    BY <2>1 DEF Init, IndListed, AlwaysListed
<1>2. IndListed /\ [Next]_vars => IndListed'
  BY ListedStep
<1>3. IndListed => AlwaysListed
  BY DEF IndListed
<1> QED
  BY <1>1, <1>2, <1>3, PTL DEF Spec

(* What is new among the rewards was earned in this very step.             *)
Earned(w) ==
  /\ state[w.tournament] = "Running" /\ state'[w.tournament] = "Completed"
  /\ TeamOf(w.tournament, w.owner) # {}

LEMMA RewardStep ==
  ASSUME IndType, [Next]_vars, NEW w \in rewards' \ rewards
  PROVE  Earned(w)
<1>1. CASE rewards' \subseteq rewards
  BY <1>1
<1>2. ASSUME NEW t \in todo, NEW out \in [Pairs(t) -> Outcome],
             NEW champ \in Players \cup {Nobody}, CompleteTournament(t, out, champ)
      PROVE  Earned(w)
  <2>1. t \in Tournaments /\ state[t] = "Running" /\ state'[t] = "Completed"
    BY <1>2 DEF CompleteTournament, Over, IndType, TypeOK
  <2>2. PICK rolls \in [Scored(t) -> SUBSET (1..(BaseRewards + WinnerRewards))] :
          rewards' = rewards \cup RewardsFor(t, rolls)
    BY <1>2 DEF CompleteTournament
  <2>3. w.tournament = t /\ w.owner \in Scored(t)
    BY <2>2 DEF RewardsFor
  <2>4. TeamOf(t, w.owner) # {}
    BY <2>3 DEF Scored, Pairs, TeamOf
  <2> QED
    BY <2>1, <2>3, <2>4 DEF Earned
<1>3. CASE Move
  BY <1>1, <1>3 DEF Move, EnterTournament, DemandTournament, LeaveTournament,
                    ClaimTournamentReward, OtherMoves
<1>4. CASE ReopenMissingTournaments \/ EndMoves \/ ResolveDemand \/ UNCHANGED vars
  BY <1>1, <1>4 DEF ReopenMissingTournaments, EndMoves, ResolveDemand, vars
<1>5. ASSUME NEW t \in todo, StartTournament(t) \/ SkipTournament(t) \/ RunTournament(t)
      PROVE  Earned(w)
  BY <1>1, <1>5 DEF StartTournament, SkipTournament, RunTournament
<1> QED
  BY <1>2, <1>3, <1>4, <1>5 DEF Next, BlockStep, ProcessStep

(* A reward appears in the step that completes its tournament and goes to  *)
(* a player whose team took part: never earlier, never twice.              *)
THEOREM RewardsComeOnce == Spec => RewardedOnce
<1>1. Init => IndType
  BY RosterInit DEF IndRoster
<1>2. IndType /\ [Next]_vars => IndType'
  BY TypeStep
<1>3. IndType /\ [Next]_vars
        => [\A w \in rewards' \ rewards :
              /\ state[w.tournament] = "Running" /\ state'[w.tournament] = "Completed"
              /\ TeamOf(w.tournament, w.owner) # {}]_vars
  BY RewardStep DEF Earned
<1> QED
  BY <1>1, <1>2, <1>3, PTL DEF Spec, RewardedOnce
-----------------------------------------------------------------------------
(* Tournaments implements TournamentBoard.                                 *)

SameBoard == boardStage' = boardStage /\ boardTeam' = boardTeam /\ winner' = winner

LEMMA StageOf ==
  ASSUME NEW t \in Tournaments
  PROVE  /\ boardStage[t] = "unknown" <=> state[t] = "Unborn"
         /\ boardStage[t] = "open" <=> state[t] = "Listed"
         /\ boardStage[t] = "playing" <=> state[t] = "Running"
         /\ state[t] = "Completed" => boardStage[t] = "over"
BY DEF boardStage

LEMMA TeamOnBoard ==
  ASSUME NEW t \in Tournaments, NEW p \in Players
  PROVE  boardTeam[t][p] = IF t \in Unfinished THEN TeamOf(t, p) ELSE {}
BY DEF boardTeam

(* Steps that change no state, list or owner in an instance are not seen.  *)
LEMMA BoardQuiet ==
  ASSUME state' = state, winner' = winner, roster' = roster,
         \A t \in Unfinished : \A f \in roster[t] : owner'[f] = owner[f]
  PROVE  SameBoard
<1>1. boardStage' = boardStage
  BY DEF boardStage
<1>2. Unfinished' = Unfinished
  BY DEF Unfinished
<1>3. \A t \in Unfinished : \A p : TeamOf(t, p)' = TeamOf(t, p)
  BY DEF TeamOf
<1>4. boardTeam' = boardTeam
  BY <1>2, <1>3 DEF boardTeam
<1> QED
  BY <1>1, <1>4 DEF SameBoard

LEMMA BoardEnter ==
  ASSUME IndTeams, NEW p \in Players, NEW t \in Tournaments, NEW S \in SUBSET Fighters,
         EnterTournament(p, t, S)
  PROVE  Board!Join(t, p, S)
<1>1. TypeOK /\ KindKnown /\ IndRoster
  BY DEF IndTeams, IndRoster, IndType
<1>2. /\ state[t] = "Listed" /\ TeamOf(t, p) = {}
      /\ \A f \in S : owner[f] = p /\ status[f] = "Available"
      /\ Cardinality(S) = TeamSize[kind[t]]
  BY DEF EnterTournament, ParseTournamentEntryData, Open, Qualifies
<1>3. state' = state /\ owner' = owner /\ winner' = winner
      /\ roster' = [roster EXCEPT ![t] = roster[t] \cup S]
  BY DEF EnterTournament
<1>4. S # {}
  <2>1. Cardinality(S) \in Nat \ {0}
    BY <1>1, <1>2, BlueprintAssumption DEF KindKnown
  <2> QED
    BY <2>1, FS_EmptySet
<1>5. t \in Unfinished /\ Unfinished' = Unfinished
  BY <1>2, <1>3 DEF Unfinished
<1>6. Board!Unclaimed(S)
  <2> SUFFICES ASSUME NEW u \in Tournaments, NEW q \in Players
               PROVE  S \cap boardTeam[u][q] = {}
    BY DEF Board!Unclaimed
  <2>1. boardTeam[u][q] = IF u \in Unfinished THEN TeamOf(u, q) ELSE {}
    BY TeamOnBoard
  <2>2. u \in Unfinished => \A f \in TeamOf(u, q) : status[f] = "Tournament"
    BY <1>1, InsideIsBusy DEF TeamOf
  <2> QED
    BY <1>2, <2>1, <2>2
<1>7. boardTeam' = [boardTeam EXCEPT ![t] = [boardTeam[t] EXCEPT ![p] = S]]
  <2>1. roster'[t] = roster[t] \cup S /\ \A u \in Tournaments : u # t => roster'[u] = roster[u]
    BY <1>1, <1>3 DEF TypeOK
  <2>2. \A u \in Tournaments, q \in Players :
          TeamOf(u, q)' = IF u = t /\ q = p THEN S ELSE TeamOf(u, q)
    BY <1>2, <1>3, <2>1 DEF TeamOf
  <2> QED
    BY <1>5, <2>2 DEF boardTeam
<1>8. boardStage' = boardStage
  BY <1>3 DEF boardStage
<1>9. boardStage[t] = "open" /\ boardTeam[t][p] = {}
  BY <1>2, StageOf, TeamOnBoard
<1> QED
  BY <1>3, <1>4, <1>6, <1>7, <1>8, <1>9 DEF Board!Join

LEMMA BoardLeave ==
  ASSUME IndTeams, NEW p \in Players, NEW t \in Tournaments, LeaveTournament(p, t)
  PROVE  Board!Leave(t, p)
<1>1. TypeOK
  BY DEF IndTeams, IndRoster, IndType
<1>2. /\ state[t] = "Listed" /\ TeamOf(t, p) # {}
      /\ state' = state /\ owner' = owner /\ winner' = winner
      /\ roster' = [roster EXCEPT ![t] = roster[t] \ TeamOf(t, p)]
  BY DEF LeaveTournament, ParseTournamentLeaveData
<1>3. t \in Unfinished /\ Unfinished' = Unfinished
  BY <1>2 DEF Unfinished
<1>4. boardTeam' = [boardTeam EXCEPT ![t] = [boardTeam[t] EXCEPT ![p] = {}]]
  <2>1. /\ roster'[t] = roster[t] \ TeamOf(t, p)
        /\ \A u \in Tournaments : u # t => roster'[u] = roster[u]
    BY <1>1, <1>2 DEF TypeOK
  <2>2. \A u \in Tournaments, q \in Players :
          TeamOf(u, q)' = IF u = t /\ q = p THEN {} ELSE TeamOf(u, q)
    BY <1>2, <2>1 DEF TeamOf
  <2> QED
    BY <1>3, <2>2 DEF boardTeam
<1>5. boardStage' = boardStage
  BY <1>2 DEF boardStage
<1>6. boardStage[t] = "open" /\ boardTeam[t][p] # {}
  BY <1>2, <1>3, StageOf, TeamOnBoard
<1> QED
  BY <1>2, <1>4, <1>5, <1>6 DEF Board!Leave

LEMMA BoardCreate ==
  ASSUME IndTeams, NEW T \in SUBSET Unborn, NEW as, CreateNew(T, as), owner' = owner
  PROVE  SameBoard \/ Board!Open(T)
<1>1. UnbornEmpty /\ T \subseteq Tournaments /\ \A t \in T : state[t] = "Unborn"
  BY DEF IndTeams, IndRoster, Unborn
<1>2. /\ \A t \in Tournaments : state'[t] = IF t \in T THEN "Listed" ELSE state[t]
      /\ roster' = roster /\ winner' = winner
  BY DEF CreateNew
<1>3. boardStage' = [t \in Tournaments |-> IF t \in T THEN "open" ELSE boardStage[t]]
  <2>1. \A t \in Tournaments : boardStage'[t] = IF t \in T THEN "open" ELSE boardStage[t]
    BY <1>2 DEF boardStage
  <2> QED
    BY <2>1 DEF boardStage
<1>4. boardTeam' = boardTeam
  <2>1. Unfinished' = Unfinished \cup T
    BY <1>1, <1>2 DEF Unfinished
  <2>2. \A t \in Tournaments, p \in Players :
          /\ TeamOf(t, p)' = TeamOf(t, p)
          /\ t \in T => TeamOf(t, p) = {}
    BY <1>1, <1>2 DEF TeamOf, UnbornEmpty
  <2> QED
    BY <2>1, <2>2 DEF boardTeam
<1>5. CASE T = {}
  BY <1>2, <1>3, <1>4, <1>5 DEF SameBoard, boardStage
<1>6. CASE T # {}
  <2>1. \A t \in T : boardStage[t] = "unknown"
    BY <1>1, StageOf
  <2> QED
    BY <1>2, <1>3, <1>4, <1>6, <2>1 DEF Board!Open
<1> QED
  BY <1>5, <1>6

LEMMA TwoTeams ==
  ASSUME TypeOK, NEW u \in Tournaments, Cardinality(Teams(u)) \in Nat \ {0, 1}
  PROVE  \E p, q \in Players : p # q /\ TeamOf(u, p) # {} /\ TeamOf(u, q) # {}
<1>1. Teams(u) # {}
  BY FS_EmptySet
<1>2. PICK p \in Teams(u) : TRUE
  BY <1>1
<1>3. Teams(u) # {p}
  BY FS_Singleton
<1>4. PICK q \in Teams(u) : q # p
  BY <1>2, <1>3
<1>5. \A r \in Teams(u) : r \in Players /\ TeamOf(u, r) # {}
  BY DEF Teams, TeamOf, TypeOK
<1> QED
  BY <1>4, <1>5

LEMMA BoardStart ==
  ASSUME IndTeams, NEW t \in Tournaments, StartTournament(t)
  PROVE  Board!Start(t)
<1>1. TypeOK /\ KindKnown
  BY DEF IndTeams, IndRoster, IndType
<1>2. /\ kind' = kind /\ owner' = owner /\ roster' = roster /\ winner' = winner
      /\ state[t] = "Listed" /\ state' = [state EXCEPT ![t] = "Running"]
  BY DEF StartTournament, ReadyToRun, Process
<1>3. t \in Unfinished /\ Unfinished' = Unfinished
  BY <1>1, <1>2 DEF Unfinished, TypeOK
<1>4. Cardinality(Teams(t)) = TeamCount[kind[t]]
  <2>1. TeamInv(t)' /\ state'[t] = "Running"
    BY <1>1, <1>2, <1>3, TeamStepStart DEF TypeOK
  <2>2. Teams(t)' = Teams(t)
    BY <1>2 DEF Teams
  <2> QED
    BY <1>2, <2>1, <2>2 DEF TeamInv
<1>5. Cardinality(Teams(t)) \in Nat \ {0, 1}
  BY <1>1, <1>2, <1>4, BlueprintAssumption DEF KindKnown
<1>6. \E p, q \in Players : p # q /\ boardTeam[t][p] # {} /\ boardTeam[t][q] # {}
  BY <1>1, <1>3, <1>5, TwoTeams, TeamOnBoard
<1>7. boardStage' = [boardStage EXCEPT ![t] = "playing"]
  BY <1>1, <1>2 DEF boardStage, TypeOK
<1>8. boardTeam' = boardTeam
  <2>1. \A u \in Tournaments, p \in Players : TeamOf(u, p)' = TeamOf(u, p)
    BY <1>2 DEF TeamOf
  <2> QED
    BY <1>3, <2>1 DEF boardTeam
<1>9. boardStage[t] = "open"
  BY <1>2, StageOf
<1> QED
  BY <1>2, <1>6, <1>7, <1>8, <1>9 DEF Board!Start

(* With two teams there is a fight, and a fight leaves half a point or     *)
(* more to somebody.                                                       *)
LEMMA SomebodyScores ==
  ASSUME TypeOK, NEW t \in Tournaments, NEW out \in [Pairs(t) -> Outcome],
         Cardinality(Teams(t)) \in Nat \ {0, 1}
  PROVE  \E r \in Scored(t) : Score(t, out, r) # 0
<1> DEFINE First(r) == {pair \in Pairs(t) : owner[pair[1]] = r /\ out[pair] = "first"}
           Second(r) == {pair \in Pairs(t) : owner[pair[2]] = r /\ out[pair] = "second"}
           Drawn(r) == {pair \in Pairs(t) : r \in {owner[pair[1]], owner[pair[2]]}
                                            /\ out[pair] = "draw"}
<1>1. PICK p \in Players, q \in Players :
        p < q /\ TeamOf(t, p) # {} /\ TeamOf(t, q) # {}
  <2>1. PICK p \in Players, q \in Players :
          p # q /\ TeamOf(t, p) # {} /\ TeamOf(t, q) # {}
    BY TwoTeams
  <2>2. p \in Nat /\ q \in Nat
    BY SetsAssumption
  <2> QED
    BY <2>1, <2>2
<1>2. PICK f \in TeamOf(t, p), g \in TeamOf(t, q) : TRUE
  BY <1>1
<1> DEFINE x == <<f, g>>
<1>3. x \in Pairs(t) /\ owner[x[1]] = p /\ owner[x[2]] = q
  BY <1>1, <1>2 DEF Pairs, TeamOf
<1>4. p \in Scored(t) /\ q \in Scored(t)
  BY <1>3 DEF Scored
<1>5. out[x] \in {"first", "draw", "second"}
  BY <1>3 DEF Outcome
<1>6. \A r : /\ Cardinality(First(r)) \in Nat /\ (x \in First(r) => Cardinality(First(r)) # 0)
             /\ Cardinality(Second(r)) \in Nat /\ (x \in Second(r) => Cardinality(Second(r)) # 0)
             /\ Cardinality(Drawn(r)) \in Nat /\ (x \in Drawn(r) => Cardinality(Drawn(r)) # 0)
  <2> TAKE r
  <2>1. First(r) \in SUBSET Pairs(t) /\ Second(r) \in SUBSET Pairs(t)
        /\ Drawn(r) \in SUBSET Pairs(t)
    OBVIOUS
  <2>2. /\ IsFiniteSet(First(r)) /\ Cardinality(First(r)) \in Nat
        /\ IsFiniteSet(Second(r)) /\ Cardinality(Second(r)) \in Nat
        /\ IsFiniteSet(Drawn(r)) /\ Cardinality(Drawn(r)) \in Nat
    <3> HIDE DEF First, Second, Drawn
    <3> QED
      BY <2>1, PairsFinite
  <2> HIDE DEF First, Second, Drawn, x
  <2> QED
    BY <2>2, FS_EmptySet
<1>7. (x \in First(p)) \/ (x \in Drawn(p)) \/ (x \in Second(q))
  BY <1>3, <1>5
<1>8. \A r : Score(t, out, r) = FirstWin * Cardinality(First(r)) + 2 * Cardinality(Second(r))
                                + Cardinality(Drawn(r))
  BY DEF Score
<1>9. FirstWin \in {1, 2}
  BY BlueprintAssumption
<1> HIDE DEF First, Second, Drawn, x
<1>10. \A r : (x \in First(r) \/ x \in Drawn(r) \/ x \in Second(r)) => Score(t, out, r) # 0
  <2> TAKE r
  <2>1. \A a, b, c \in Nat : a # 0 \/ b # 0 \/ c # 0 => FirstWin * a + 2 * b + c # 0
    BY <1>9
  <2>2. /\ Cardinality(First(r)) \in Nat /\ Cardinality(Second(r)) \in Nat
        /\ Cardinality(Drawn(r)) \in Nat
    BY <1>6
  <2>3. Score(t, out, r) = FirstWin * Cardinality(First(r)) + 2 * Cardinality(Second(r))
                           + Cardinality(Drawn(r))
    BY <1>8
  <2> QED
    BY <1>6, <2>1, <2>2, <2>3
<1> QED
  BY <1>4, <1>7, <1>10

LEMMA BoardComplete ==
  ASSUME IndTeams, NEW t \in Tournaments, NEW out \in [Pairs(t) -> Outcome],
         NEW champ \in Players \cup {Nobody}, CompleteTournament(t, out, champ)
  PROVE  champ \in Players /\ Board!Finish(t, champ)
<1>1. TypeOK /\ KindKnown
  BY DEF IndTeams, IndRoster, IndType
<1>2. /\ owner' = owner /\ roster' = roster /\ winner' = [winner EXCEPT ![t] = champ]
      /\ state[t] = "Running" /\ state' = [state EXCEPT ![t] = "Completed"]
      /\ IsWinner(t, out, champ)
  BY DEF CompleteTournament, Process, Over
<1>3. t \in Unfinished /\ Unfinished' = Unfinished \ {t}
  BY <1>1, <1>2 DEF Unfinished, TypeOK
<1>4. Cardinality(Teams(t)) \in Nat \ {0, 1}
  BY <1>1, <1>2, <1>3, BlueprintAssumption DEF IndTeams, TeamInv, KindKnown
<1>5. champ \in Scored(t)
  BY <1>1, <1>2, <1>4, SomebodyScores DEF IsWinner
<1>6. champ \in Players /\ TeamOf(t, champ) # {}
  BY <1>5 DEF Scored, Pairs, TeamOf
<1>7. boardStage' = [boardStage EXCEPT ![t] = "over"]
  BY <1>1, <1>2 DEF boardStage, TypeOK
<1>8. boardTeam' = [boardTeam EXCEPT ![t] = [p \in Players |-> {}]]
  <2>1. \A u \in Tournaments, p \in Players : TeamOf(u, p)' = TeamOf(u, p)
    BY <1>2 DEF TeamOf
  <2> QED
    BY <1>3, <2>1 DEF boardTeam
<1>9. boardStage[t] = "playing" /\ boardTeam[t][champ] # {}
  BY <1>2, <1>3, <1>6, StageOf, TeamOnBoard
<1> QED
  BY <1>2, <1>6, <1>7, <1>8, <1>9 DEF Board!Finish, Board!NoTeams

LEMMA BoardInit ==
  ASSUME Init
  PROVE  Board!Init
<1>1. boardStage = [t \in Tournaments |-> "unknown"]
  BY DEF Init, boardStage
<1>2. boardTeam = [t \in Tournaments |-> [p \in Players |-> {}]]
  BY DEF Init, boardTeam, Unfinished
<1> QED
  BY <1>1, <1>2 DEF Init, Board!Init, Board!NoTeams

LEMMA BoardStep ==
  ASSUME IndTeams, [Next]_vars
  PROVE  [Board!Next]_(Board!vars)
<1>1. TypeOK /\ IndRoster
  BY DEF IndTeams, IndRoster, IndType
<1>2. SUFFICES Board!Next \/ SameBoard
  BY DEF SameBoard, Board!vars
<1>3. CASE Move
  <2>1. ASSUME NEW p \in Players, NEW t \in Tournaments, NEW S \in SUBSET Fighters,
               EnterTournament(p, t, S)
        PROVE  Board!Next
    BY <2>1, BoardEnter DEF Board!Next
  <2>2. ASSUME NEW p \in Players, NEW t \in Tournaments, LeaveTournament(p, t)
        PROVE  Board!Next
    BY <2>2, BoardLeave DEF Board!Next
  <2>3. ASSUME NEW p \in Players, NEW t \in Tournaments,
               DemandTournament(p, t) \/ ClaimTournamentReward(p, t)
        PROVE  SameBoard
    BY <2>3, BoardQuiet DEF DemandTournament, ClaimTournamentReward, fighterVars,
                            tournamentVars
  <2>4. ASSUME NEW f \in Fighters, NEW s \in {"Available", "Elsewhere", "Deleted"},
               NEW p \in Players, NEW w \in Sweetness, OtherMoves(f, s, p, w)
        PROVE  SameBoard
    <3>1. /\ state' = state /\ winner' = winner /\ roster' = roster
          /\ owner' = [owner EXCEPT ![f] = p] /\ status[f] # "Tournament"
      BY <2>4 DEF OtherMoves, tournamentVars
    <3>2. \A t \in Unfinished : \A g \in roster[t] : owner'[g] = owner[g]
      BY <1>1, <3>1, InsideIsBusy DEF TypeOK
    <3> QED
      BY <3>1, <3>2, BoardQuiet
  <2>5. Wandering \subseteq Fighters
    BY SetsAssumption
  <2> QED
    BY <1>3, <2>1, <2>2, <2>3, <2>4, <2>5 DEF Move
<1>4. CASE ReopenMissingTournaments
  <2>1. PICK T \in SUBSET Unborn : \E as \in [T -> Missing] : CreateNew(T, as)
    BY <1>4 DEF ReopenMissingTournaments
  <2>2. T \in SUBSET Tournaments
    BY DEF Unborn
  <2> QED
    BY <1>4, <2>1, <2>2, BoardCreate DEF ReopenMissingTournaments, fighterVars, Board!Next
<1>5. CASE ResolveDemand
  <2>1. PICK T \in SUBSET Unborn : \E as \in [T -> Blueprints] : CreateNew(T, as)
    BY <1>5 DEF ResolveDemand
  <2>2. T \in SUBSET Tournaments
    BY DEF Unborn
  <2> QED
    BY <1>5, <2>1, <2>2, BoardCreate DEF ResolveDemand, fighterVars, Board!Next
<1>6. CASE EndMoves \/ UNCHANGED vars
  BY <1>6, BoardQuiet DEF EndMoves, vars, fighterVars, tournamentVars
<1>7. CASE ProcessStep
  <2>1. todo \subseteq Tournaments
    BY <1>1 DEF TypeOK
  <2>2. ASSUME NEW t \in todo, StartTournament(t)
        PROVE  Board!Next
    BY <2>1, <2>2, BoardStart DEF Board!Next
  <2>3. ASSUME NEW t \in todo, SkipTournament(t) \/ RunTournament(t)
        PROVE  SameBoard
    BY <2>3, BoardQuiet DEF SkipTournament, RunTournament, Process
  <2>4. ASSUME NEW t \in todo, NEW out \in [Pairs(t) -> Outcome],
               NEW champ \in Players \cup {Nobody}, CompleteTournament(t, out, champ)
        PROVE  Board!Next
    BY <2>1, <2>4, BoardComplete DEF Board!Next
  <2> QED
    BY <1>7, <2>2, <2>3, <2>4 DEF ProcessStep
<1> QED
  BY <1>3, <1>4, <1>5, <1>6, <1>7 DEF Next, BlockStep

(* Tournaments implements TournamentBoard: whatever blocks, moves and      *)
(* fights do, players see tournaments open, teams join and leave while     *)
(* they are open, no treat in two teams, play between two teams or more,   *)
(* and a champion who took part.                                           *)
THEOREM ImplementsBoard == Spec => BoardSpec
<1>1. IndTeams /\ [Next]_vars => IndTeams'
  BY TeamStep
<1>2. IndTeams /\ [Next]_vars => [Board!Next]_(Board!vars)
  BY BoardStep
<1>3. Init => Board!Init
  BY BoardInit
<1> QED
  BY TeamInit, <1>1, <1>2, <1>3, PTL DEF Spec, BoardSpec, Board!Spec
-----------------------------------------------------------------------------
(***************************************************************************)
(* Sums: what is counted of players, treats and instances adds up.         *)
(***************************************************************************)
(* The sum of the property is the one of Counting.                         *)
LEMMA SumOfIsTotal ==
  ASSUME NEW f, IsFiniteSet(DOMAIN f), \A x \in DOMAIN f : f[x] \in Nat
  PROVE  SumOf(f) = Total(f, DOMAIN f)
<1> DEFINE places == DOMAIN f
<1> HIDE DEF places
<1>1. IsFiniteSet(places) /\ \A x \in places : f[x] \in Nat
  BY DEF places
<1>2. MapThenSumSet(LAMBDA x : f[x], places) = Total(f, places)
  BY <1>1, SumIsTotal, Zenon
<1> QED
  BY <1>2, Zenon DEF SumOf, places

-----------------------------------------------------------------------------
(***************************************************************************)
(* The fights of an instance.                                              *)
(***************************************************************************)

(* With two teams everybody inside has fought.                             *)
LEMMA ScoredIsTeams ==
  ASSUME TypeOK, NEW t \in Tournaments, Cardinality(Teams(t)) \in Nat \ {0, 1}
  PROVE  Scored(t) = Teams(t)
<1>1. \A f \in roster[t] : f \in Fighters /\ owner[f] \in Players /\ owner[f] \in Nat
  BY SetsAssumption DEF TypeOK
<1>2. ASSUME NEW p \in Scored(t) PROVE p \in Teams(t)
  <2>1. PICK pair \in Pairs(t) : p \in {owner[pair[1]], owner[pair[2]]}
    BY DEF Scored
  <2> QED
    BY <2>1 DEF Pairs, Teams
<1>3. ASSUME NEW p \in Teams(t) PROVE p \in Scored(t)
  <2>1. PICK f \in roster[t] : owner[f] = p
    BY DEF Teams
  <2>2. PICK q \in Teams(t) : q # p
    <3>1. Teams(t) # {p}
      BY FS_Singleton
    <3> QED
      BY <3>1
  <2>3. PICK g \in roster[t] : owner[g] = q
    BY DEF Teams
  <2>4. p \in Nat /\ q \in Nat /\ p \in Players
    BY <1>1, <2>1, <2>3
  <2>5. CASE p < q
    <3>1. <<f, g>> \in Pairs(t)
      BY <2>1, <2>3, <2>5 DEF Pairs
    <3> QED
      BY <2>1, <2>4, <3>1 DEF Scored
  <2>6. CASE q < p
    <3>1. <<g, f>> \in Pairs(t)
      BY <2>1, <2>3, <2>6 DEF Pairs
    <3> QED
      BY <2>1, <2>4, <3>1 DEF Scored
  <2> QED
    BY <2>2, <2>4, <2>5, <2>6
<1> QED
  BY <1>2, <1>3

(* A treat of an instance that runs meets all treats of the other teams.   *)
LEMMA MeetsAllOthers ==
  ASSUME TypeOK, KindKnown, NEW t \in Tournaments, state[t] = "Running", TeamInv(t),
         NEW f \in roster[t]
  PROVE  Cardinality(Fought(t, f)) = TeamSize[kind[t]] * (TeamCount[kind[t]] - 1)
<1> DEFINE mates == TeamOf(t, owner[f])
           others == roster[t] \ mates
           meeting == [g \in others |-> IF owner[f] < owner[g] THEN <<f, g>> ELSE <<g, f>>]
<1>1. \A g \in roster[t] : g \in Fighters /\ owner[g] \in Players /\ owner[g] \in Nat
  BY SetsAssumption DEF TypeOK
<1>2. /\ kind[t] \in Blueprints
      /\ TeamSize[kind[t]] \in Nat \ {0} /\ TeamCount[kind[t]] \in Nat
  BY BlueprintAssumption DEF KindKnown
<1>3. IsFiniteSet(roster[t]) /\ IsFiniteSet(mates)
  BY RosterFinite
<1>4. Cardinality(mates) = TeamSize[kind[t]]
  <2>1. f \in mates /\ owner[f] \in Players
    BY <1>1 DEF TeamOf
  <2>2. Cardinality(mates) # 0
    BY <1>3, <2>1, FS_EmptySet
  <2>3. Cardinality(mates) \in {0, TeamSize[kind[t]]}
    BY <2>1 DEF TeamInv
  <2> QED
    BY <2>2, <2>3
<1>5. Cardinality(roster[t]) = TeamSize[kind[t]] * TeamCount[kind[t]]
  BY DEF TeamInv, Seats
<1>6. /\ IsFiniteSet(others)
      /\ Cardinality(others) = Cardinality(roster[t]) - Cardinality(mates)
  <2>1. roster[t] \cap mates = mates
    BY DEF TeamOf
  <2> HIDE DEF mates
  <2> QED
    BY <1>3, <2>1, FS_Difference
<1>7. \A g \in others : /\ g \in roster[t] /\ owner[g] # owner[f] /\ g # f
                        /\ owner[f] < owner[g] \/ owner[g] < owner[f]
  <2> TAKE g \in others
  <2>1. g \in roster[t] /\ owner[g] # owner[f]
    BY DEF TeamOf
  <2> QED
    BY <1>1, <2>1
<1>8. \A g \in others : meeting[g] \in Fought(t, f)
  BY <1>7 DEF Fought, Pairs
<1>9. \A g, h \in others : meeting[g] = meeting[h] => g = h
  <2> SUFFICES ASSUME NEW g \in others, NEW h \in others, meeting[g] = meeting[h] PROVE g = h
    OBVIOUS
  <2>1. g # f /\ h # f
    BY <1>7
  <2>2. meeting[g] \in {<<f, g>>, <<g, f>>} /\ meeting[h] \in {<<f, h>>, <<h, f>>}
    OBVIOUS
  <2> HIDE DEF meeting, others
  <2> QED
    BY <2>1, <2>2
<1>10. ASSUME NEW pair \in Fought(t, f) PROVE \E g \in others : meeting[g] = pair
  <2>1. /\ pair \in roster[t] \X roster[t] /\ pair = <<pair[1], pair[2]>>
        /\ owner[pair[1]] < owner[pair[2]] /\ f \in {pair[1], pair[2]}
    BY DEF Fought, Pairs
  <2>2. CASE f = pair[1]
    <3>1. pair[2] \in others
      BY <1>1, <2>1, <2>2 DEF TeamOf
    <3>2. meeting[pair[2]] = pair
      BY <2>1, <2>2, <3>1
    <3> QED
      BY <3>1, <3>2
  <2>3. CASE f = pair[2]
    <3>1. pair[1] \in others /\ ~(owner[f] < owner[pair[1]])
      BY <1>1, <2>1, <2>3 DEF TeamOf
    <3>2. meeting[pair[1]] = pair
      BY <2>1, <2>3, <3>1
    <3> QED
      BY <3>1, <3>2
  <2> QED
    BY <2>1, <2>2, <2>3
<1>11. meeting \in Bijection(others, Fought(t, f))
  <2>1. meeting \in [others -> Fought(t, f)]
    BY <1>8
  <2> HIDE DEF meeting, others
  <2> QED
    BY <1>9, <1>10, <2>1 DEF Bijection, Injection, IsInjective, Surjection
<1> HIDE DEF meeting, others, mates
<1>12. Cardinality(Fought(t, f)) = Cardinality(others)
  BY <1>6, <1>11, FS_Bijection DEF ExistsBijection
<1>13. \A a, b \in Nat : a * b - a = a * (b - 1)
  OBVIOUS
<1> QED
  BY <1>2, <1>4, <1>5, <1>6, <1>12, <1>13

(* Each of its fights is won, drawn or lost.                               *)
LEMMA FoughtIsScored ==
  ASSUME TypeOK, NEW t \in Tournaments, NEW out \in [Pairs(t) -> Outcome], NEW f \in Fighters
  PROVE  /\ Cardinality(Wins(t, out, f)) \in Nat /\ Cardinality(Draws(t, out, f)) \in Nat
         /\ Cardinality(Losses(t, out, f)) \in Nat
         /\ Cardinality(Fought(t, f)) = Cardinality(Wins(t, out, f))
              + Cardinality(Draws(t, out, f)) + Cardinality(Losses(t, out, f))
<1> DEFINE w == Wins(t, out, f)
           d == Draws(t, out, f)
           l == Losses(t, out, f)
           wd == w \cup d
<1>1. /\ w \in SUBSET Pairs(t) /\ d \in SUBSET Pairs(t) /\ l \in SUBSET Pairs(t)
  BY DEF Wins, Draws, Losses
<1>2. /\ IsFiniteSet(w) /\ IsFiniteSet(d) /\ IsFiniteSet(l)
      /\ Cardinality(w) \in Nat /\ Cardinality(d) \in Nat /\ Cardinality(l) \in Nat
  <2> HIDE DEF w, d, l
  <2> QED
    BY <1>1, PairsFinite
<1>3. \A pair \in Pairs(t) : pair[1] # pair[2] /\ out[pair] \in {"first", "draw", "second"}
  <2> TAKE pair \in Pairs(t)
  <2>1. pair[1] # pair[2]
    <3>1. owner[pair[1]] < owner[pair[2]] /\ owner[pair[1]] \in Nat /\ owner[pair[2]] \in Nat
      BY SetsAssumption DEF Pairs, TypeOK
    <3> QED
      BY <3>1
  <2> QED
    BY <2>1 DEF Outcome
<1>4. Fought(t, f) = (w \cup d) \cup l /\ w \cap d = {} /\ (w \cup d) \cap l = {}
  <2>1. Fought(t, f) = (w \cup d) \cup l
    BY <1>3 DEF Fought, Wins, Draws, Losses
  <2>2. w \cap d = {}
    BY <1>3 DEF Wins, Draws
  <2>3. (w \cup d) \cap l = {}
    BY <1>3 DEF Wins, Draws, Losses
  <2> QED
    BY <2>1, <2>2, <2>3
<1> HIDE DEF w, d, l
<1>5. Cardinality(wd) = Cardinality(w) + Cardinality(d) - Cardinality({}) /\ IsFiniteSet(wd)
  BY <1>2, <1>4, FS_Union
<1>6. Fought(t, f) = wd \cup l /\ wd \cap l = {}
  BY <1>4
<1> HIDE DEF wd
<1>7. Cardinality(wd \cup l) = Cardinality(wd) + Cardinality(l) - Cardinality({})
  BY <1>2, <1>5, <1>6, FS_Union
<1>8. Cardinality({}) = 0
  BY FS_EmptySet
<1>9. Cardinality(Fought(t, f)) = Cardinality(w) + Cardinality(d) + Cardinality(l)
  BY <1>2, <1>5, <1>6, <1>8, <1>7
<1> QED
  BY <1>2, <1>9 DEF w, d, l

(* What one treat wins another loses: both are as often as a fight was not *)
(* a draw.                                                                 *)
LEMMA WinsAreLosses ==
  ASSUME TypeOK, NEW t \in Tournaments, NEW out \in [Pairs(t) -> Outcome],
         NEW gained, NEW lost, \A f \in roster[t] : /\ gained[f] = Cardinality(Wins(t, out, f))
                                                /\ lost[f] = Cardinality(Losses(t, out, f))
  PROVE  Total(gained, roster[t]) = Total(lost, roster[t])
<1> DEFINE decided == {pair \in Pairs(t) : out[pair] # "draw"}
           winnerOf == [pair \in decided |-> IF out[pair] = "first" THEN pair[1] ELSE pair[2]]
           loserOf == [pair \in decided |-> IF out[pair] = "first" THEN pair[2] ELSE pair[1]]
<1>1. IsFiniteSet(decided) /\ IsFiniteSet(roster[t])
  BY PairsFinite, RosterFinite
<1>2. \A pair \in Pairs(t) : /\ pair[1] \in roster[t] /\ pair[2] \in roster[t]
                             /\ out[pair] \in {"first", "draw", "second"}
  BY DEF Pairs, Outcome
<1>3. winnerOf \in [decided -> roster[t]] /\ loserOf \in [decided -> roster[t]]
  BY <1>2
<1>4. ASSUME NEW f \in roster[t]
      PROVE  /\ Wins(t, out, f) = {pair \in decided : winnerOf[pair] = f}
             /\ Losses(t, out, f) = {pair \in decided : loserOf[pair] = f}
  <2>1. Wins(t, out, f) = {pair \in decided : winnerOf[pair] = f}
    BY <1>2 DEF Wins
  <2>2. Losses(t, out, f) = {pair \in decided : loserOf[pair] = f}
    BY <1>2 DEF Losses
  <2> QED
    BY <2>1, <2>2
<1> HIDE DEF winnerOf, loserOf, decided
<1>5. Total(gained, roster[t]) = Cardinality(decided)
  <2>1. \A f \in roster[t] : gained[f] = Cardinality({pair \in decided : winnerOf[pair] = f})
    BY <1>4
  <2> QED
    BY <1>1, <1>3, <2>1, TotalOfClasses
<1>6. Total(lost, roster[t]) = Cardinality(decided)
  <2>1. \A f \in roster[t] : lost[f] = Cardinality({pair \in decided : loserOf[pair] = f})
    BY <1>4
  <2> QED
    BY <1>1, <1>3, <2>1, TotalOfClasses
<1> QED
  BY <1>5, <1>6

-----------------------------------------------------------------------------
(***************************************************************************)
(* Nothing is counted but when an instance is completed, and what is       *)
(* completed stays as it is.                                               *)
(***************************************************************************)
NothingCounted ==
  /\ Done' = Done /\ results' = results /\ winner' = winner
  /\ matches' = matches /\ completed' = completed /\ won' = won
  /\ \A t \in Done : kind'[t] = kind[t] /\ roster'[t] = roster[t]

LEMMA CreatedNotDone ==
  ASSUME TypeOK, NEW T \in SUBSET Unborn, NEW as, CreateNew(T, as),
         matches' = matches, completed' = completed, won' = won
  PROVE  NothingCounted
<1>1. \A t \in Tournaments : t \in T => state[t] = "Unborn"
  BY DEF Unborn
<1>2. /\ state' = [t \in Tournaments |-> IF t \in T THEN "Listed" ELSE state[t]]
      /\ kind' = [t \in Tournaments |-> IF t \in T THEN as[t] ELSE kind[t]]
      /\ roster' = roster /\ results' = results /\ winner' = winner
  BY DEF CreateNew
<1>3. Done' = Done
  BY <1>1, <1>2 DEF Done
<1>4. \A t \in Done : kind'[t] = kind[t] /\ roster'[t] = roster[t]
  BY <1>1, <1>2 DEF Done
<1> QED
  BY <1>2, <1>3, <1>4 DEF NothingCounted

LEMMA CountingStep ==
  ASSUME TypeOK, [Next]_vars
  PROVE  \/ NothingCounted
         \/ \E t \in Tournaments : \E out \in [Pairs(t) -> Outcome] :
              \E champ \in Players \cup {Nobody} : CompleteTournament(t, out, champ)
<1>1. CASE Move
  <2>1. ASSUME NEW p \in Players, NEW t \in Tournaments, NEW S \in SUBSET Fighters,
               EnterTournament(p, t, S)
        PROVE  NothingCounted
    BY <2>1 DEF EnterTournament, ParseTournamentEntryData, Open, NothingCounted, Done, TypeOK
  <2>2. ASSUME NEW p \in Players, NEW t \in Tournaments, LeaveTournament(p, t)
        PROVE  NothingCounted
    BY <2>2 DEF LeaveTournament, ParseTournamentLeaveData, NothingCounted, Done, TypeOK
  <2>3. ASSUME NEW p \in Players, NEW t \in Tournaments,
               DemandTournament(p, t) \/ ClaimTournamentReward(p, t)
        PROVE  NothingCounted
    BY <2>3 DEF DemandTournament, ClaimTournamentReward, NothingCounted, Done, fighterVars,
                tournamentVars, playerVars
  <2>4. ASSUME NEW f, NEW s, NEW p, NEW w, OtherMoves(f, s, p, w)
        PROVE  NothingCounted
    BY <2>4 DEF OtherMoves, NothingCounted, Done, tournamentVars, playerVars
  <2> QED
    BY <1>1, <2>1, <2>2, <2>3, <2>4 DEF Move
<1>2. CASE ReopenMissingTournaments
  <2>1. PICK T \in SUBSET Unborn : \E as \in [T -> Missing] : CreateNew(T, as)
    BY <1>2 DEF ReopenMissingTournaments
  <2> QED
    BY <1>2, <2>1, CreatedNotDone DEF ReopenMissingTournaments, fighterVars, playerVars
<1>3. CASE ResolveDemand
  <2>1. PICK T \in SUBSET Unborn : \E as \in [T -> Blueprints] : CreateNew(T, as)
    BY <1>3 DEF ResolveDemand
  <2> QED
    BY <1>3, <2>1, CreatedNotDone DEF ResolveDemand, fighterVars, playerVars
<1>4. CASE EndMoves \/ UNCHANGED vars
  BY <1>4 DEF EndMoves, vars, fighterVars, tournamentVars, playerVars, NothingCounted, Done
<1>5. CASE ProcessStep
  <2>1. todo \subseteq Tournaments
    BY DEF TypeOK
  <2>2. ASSUME NEW t \in todo, StartTournament(t) \/ SkipTournament(t) \/ RunTournament(t)
        PROVE  NothingCounted
    BY <2>1, <2>2 DEF StartTournament, SkipTournament, RunTournament, Process, ReadyToRun,
                      NothingCounted, Done, TypeOK
  <2> QED
    BY <1>5, <2>1, <2>2 DEF ProcessStep
<1> QED
  BY <1>1, <1>2, <1>3, <1>4, <1>5 DEF Next, BlockStep

(* What a completion finds and leaves.                                     *)
LEMMA CompletionStep ==
  ASSUME IndTeams, NEW t \in Tournaments, NEW out \in [Pairs(t) -> Outcome],
         NEW champ \in Players \cup {Nobody}, CompleteTournament(t, out, champ)
  PROVE  /\ state[t] = "Running" /\ TeamInv(t) /\ t \notin Done /\ Done' = Done \cup {t}
         /\ TeamCount[kind[t]] \in Nat /\ Scored(t) = Teams(t)
         /\ Cardinality(Scored(t)) = TeamCount[kind[t]]
         /\ champ \in Scored(t) /\ champ \in Players
         /\ kind' = kind /\ roster' = roster /\ owner' = owner
         /\ winner' = [winner EXCEPT ![t] = champ]
<1>1. TypeOK /\ KindKnown
  BY DEF IndTeams, IndRoster, IndType
<1>2. /\ kind' = kind /\ owner' = owner /\ roster' = roster
      /\ winner' = [winner EXCEPT ![t] = champ]
      /\ state[t] = "Running" /\ state' = [state EXCEPT ![t] = "Completed"]
      /\ IsWinner(t, out, champ)
  BY DEF CompleteTournament, Process, Over
<1>3. TeamInv(t)
  BY <1>2 DEF IndTeams, Unfinished
<1>4. /\ TeamCount[kind[t]] \in Nat \ {0, 1}
      /\ Cardinality(Teams(t)) = TeamCount[kind[t]]
  BY <1>1, <1>2, <1>3, BlueprintAssumption DEF TeamInv, KindKnown
<1>5. Scored(t) = Teams(t)
  BY <1>1, <1>4, ScoredIsTeams
<1>6. champ \in Scored(t)
  BY <1>1, <1>2, <1>4, SomebodyScores DEF IsWinner
<1>7. champ \in Players
  BY <1>6 DEF Scored
<1>8. t \notin Done /\ Done' = Done \cup {t}
  BY <1>1, <1>2 DEF Done, TypeOK
<1> QED
  BY <1>2, <1>3, <1>4, <1>5, <1>6, <1>7, <1>8
-----------------------------------------------------------------------------
(***************************************************************************)
(* The counters of the players.                                            *)
(***************************************************************************)
TeamsOf == [t \in Done |-> TeamCount[kind[t]]]
WonBy(p) == {t \in Done : winner[t] = p}

Counters ==
  /\ Total(completed, Players) = Total(TeamsOf, Done)
  /\ \A p \in Players : won[p] = Cardinality(WonBy(p)) /\ won[p] <= completed[p]

IndCounters == IndTeams /\ Counters

(* What is done is finite, and of blueprints that are known.               *)
LEMMA DoneFinite ==
  ASSUME IndType
  PROVE  /\ IsFiniteSet(Done) /\ \A t \in Done : TeamsOf[t] \in Nat
         /\ \A p : IsFiniteSet(WonBy(p))
<1>1. IsFiniteSet(Done)
  BY SetsAssumption, FS_Subset DEF Done
<1>2. \A t \in Done : TeamsOf[t] \in Nat
  BY BlueprintAssumption DEF Done, TeamsOf, IndType, KindKnown
<1>3. \A p : WonBy(p) \in SUBSET Done
  BY DEF WonBy
<1> QED
  BY <1>1, <1>2, <1>3, FS_Subset

LEMMA CountersInit == Init => IndCounters
<1> SUFFICES ASSUME Init PROVE IndCounters
  OBVIOUS
<1>1. IndTeams
  BY TeamInit
<1>2. Done = {}
  BY DEF Init, Done
<1>3. \A p \in Players : completed[p] = 0 /\ won[p] = 0
  BY DEF Init
<1>4. Total(completed, Players) = 0
  <2>1. {} \in SUBSET Players /\ \A p \in Players : completed[p] = IF p \in {} THEN 1 ELSE 0
    BY <1>3
  <2> QED
    BY <2>1, SetsAssumption, TotalOfOnes, FS_EmptySet
<1>5. Total(TeamsOf, Done) = 0
  BY <1>2, TotalEmpty
<1>6. \A p : WonBy(p) = {}
  BY <1>2 DEF WonBy
<1> QED
  BY <1>1, <1>3, <1>4, <1>5, <1>6, FS_EmptySet DEF IndCounters, Counters

LEMMA CountersComplete ==
  ASSUME IndCounters, NEW t \in Tournaments, NEW out \in [Pairs(t) -> Outcome],
         NEW champ \in Players \cup {Nobody}, CompleteTournament(t, out, champ)
  PROVE  Counters'
<1>1. /\ t \notin Done /\ Done' = Done \cup {t} /\ Cardinality(Scored(t)) = TeamCount[kind[t]]
      /\ TeamCount[kind[t]] \in Nat
      /\ champ \in Scored(t) /\ champ \in Players /\ kind' = kind
      /\ winner' = [winner EXCEPT ![t] = champ]
  BY CompletionStep DEF IndCounters
<1>2. IndType /\ Counters
  BY DEF IndCounters, IndTeams, IndRoster
<1>3. /\ completed \in [Players -> Nat] /\ won \in [Players -> Nat]
      /\ winner \in [Tournaments -> Players \cup {Nobody}]
  BY <1>2 DEF IndType, TypeOK
<1>4. /\ \A p \in Players : completed'[p] = completed[p] + IF p \in Scored(t) THEN 1 ELSE 0
      /\ \A p \in Players : won'[p] = won[p] + IF p = champ THEN 1 ELSE 0
  BY DEF CompleteTournament
<1>5. Total(completed', Players) = Total(completed, Players) + TeamCount[kind[t]]
  <2> DEFINE ones == [p \in Players |-> IF p \in Scored(t) THEN 1 ELSE 0]
             after == completed'
  <2>1. \A p \in Players : /\ completed[p] \in Nat /\ ones[p] \in Nat
                           /\ after[p] = completed[p] + ones[p]
    BY <1>3, <1>4
  <2>2. Scored(t) \in SUBSET Players /\ \A p \in Players : ones[p] = IF p \in Scored(t) THEN 1 ELSE 0
    BY DEF Scored
  <2> HIDE DEF ones, after
  <2>3. Total(ones, Players) = Cardinality(Scored(t))
    BY <2>2, SetsAssumption, TotalOfOnes
  <2>4. Total(after, Players) = Total(completed, Players) + Total(ones, Players)
    BY <2>1, SetsAssumption, TotalSum
  <2> QED
    BY <1>1, <2>3, <2>4 DEF after
<1>6. Total(TeamsOf', Done') = Total(TeamsOf, Done) + TeamCount[kind[t]]
  <2> DEFINE counted == TeamsOf'
             done == Done \cup {t}
  <2>1. Done' = done /\ TeamsOf' = counted
    BY <1>1
  <2>2. counted[t] = TeamCount[kind[t]] /\ \A u \in Done : counted[u] = TeamsOf[u]
    BY <1>1 DEF TeamsOf
  <2>3. t \in done /\ done \ {t} = Done
    BY <1>1
  <2> HIDE DEF counted
  <2>4. IsFiniteSet(Done) /\ \A u \in Done : counted[u] \in Nat
    BY <1>2, <2>2, DoneFinite
  <2>5. IsFiniteSet(done) /\ \A u \in done : counted[u] \in Nat
    BY <1>1, <2>2, <2>4, FS_AddElement
  <2> HIDE DEF done
  <2>6. Total(counted, done) = counted[t] + Total(counted, Done)
    <3>1. Total(counted, done) = counted[t] + Total(counted, done \ {t})
      BY <2>3, <2>5, TotalAdd
    <3> QED
      BY <2>3, <3>1
  <2>7. Total(counted, Done) = Total(TeamsOf, Done)
    BY <2>2, TotalAgree
  <2>8. Total(TeamsOf, Done) \in Nat
    BY <1>2, DoneFinite, TotalIsNat
  <2>9. Total(counted, done) = Total(TeamsOf, Done) + TeamCount[kind[t]]
    BY <1>1, <2>2, <2>6, <2>7, <2>8
  <2> QED
    BY <2>1, <2>9
<1>7. ASSUME NEW p \in Players
      PROVE  won'[p] = Cardinality(WonBy(p)') /\ won'[p] <= completed'[p]
  <2>1. /\ won[p] = Cardinality(WonBy(p)) /\ won[p] <= completed[p]
        /\ won[p] \in Nat /\ completed[p] \in Nat /\ IsFiniteSet(WonBy(p))
    BY <1>2, <1>3, DoneFinite DEF Counters
  <2>2. CASE p = champ
    <3>1. WonBy(p)' = WonBy(p) \cup {t} /\ t \notin WonBy(p)
      BY <1>1, <1>3, <2>2 DEF WonBy, Done
    <3>2. Cardinality(WonBy(p) \cup {t}) = Cardinality(WonBy(p)) + 1
      BY <2>1, <3>1, FS_AddElement
    <3>3. won'[p] = won[p] + 1 /\ completed'[p] = completed[p] + 1
      BY <1>1, <1>4, <2>2
    <3> QED
      BY <2>1, <3>1, <3>2, <3>3
  <2>3. CASE p # champ
    <3>1. WonBy(p)' = WonBy(p)
      BY <1>1, <1>3, <2>3 DEF WonBy, Done
    <3>2. won'[p] = won[p] /\ completed'[p] \in {completed[p], completed[p] + 1}
      BY <1>4, <2>1, <2>3
    <3> QED
      BY <2>1, <3>1, <3>2
  <2> QED
    BY <2>2, <2>3
<1> QED
  BY <1>2, <1>5, <1>6, <1>7 DEF Counters

LEMMA CountersStep ==
  ASSUME IndCounters, [Next]_vars
  PROVE  IndCounters'
<1>1. IndTeams'
  BY TeamStep DEF IndCounters
<1>2. IndType /\ Counters
  BY DEF IndCounters, IndTeams, IndRoster
<1>3. CASE NothingCounted
  <2>1. Done' = Done /\ winner' = winner /\ completed' = completed /\ won' = won
    BY <1>3 DEF NothingCounted
  <2>2. TeamsOf' = TeamsOf
    BY <1>3 DEF NothingCounted, TeamsOf
  <2>3. \A p : WonBy(p)' = WonBy(p)
    BY <2>1 DEF WonBy
  <2>4. Counters'
    BY <1>2, <2>1, <2>2, <2>3 DEF Counters
  <2> QED
    BY <1>1, <2>4 DEF IndCounters
<1>4. ASSUME NEW t \in Tournaments, NEW out \in [Pairs(t) -> Outcome],
             NEW champ \in Players \cup {Nobody}, CompleteTournament(t, out, champ)
      PROVE  IndCounters'
  BY <1>1, <1>2, <1>4, CountersComplete DEF IndCounters
<1>5. TypeOK
  BY <1>2 DEF IndType
<1> QED
  BY <1>3, <1>4, <1>5, CountingStep

LEMMA CountersMeant ==
  ASSUME IndCounters
  PROVE  CountersAgree
<1>1. IndType /\ Counters
  BY DEF IndCounters, IndTeams, IndRoster
<1>2. DOMAIN completed = Players /\ \A p \in Players : completed[p] \in Nat
  BY <1>1 DEF IndType, TypeOK
<1>3. SumOf(completed) = Total(completed, Players)
  BY <1>2, SetsAssumption, SumOfIsTotal
<1>4. DOMAIN TeamsOf = Done
  BY DEF TeamsOf
<1>5. SumOf(TeamsOf) = Total(TeamsOf, Done)
  BY <1>1, <1>4, DoneFinite, SumOfIsTotal
<1>6. SumOf(completed) = SumOf(TeamsOf)
  BY <1>1, <1>3, <1>5 DEF Counters
<1> QED
  BY <1>1, <1>6 DEF Counters, CountersAgree, TeamsOf, WonBy

(* However many instances are completed, in whatever order, each has       *)
(* counted for as many players as it has teams, and for one winner, who    *)
(* took part: the counters of the players agree with the table.            *)
THEOREM CountersStayRight == Spec => []CountersAgree
<1>1. IndCounters /\ [Next]_vars => IndCounters'
  BY CountersStep
<1>2. IndCounters => CountersAgree
  BY CountersMeant
<1> QED
  BY CountersInit, <1>1, <1>2, PTL DEF Spec

-----------------------------------------------------------------------------
(***************************************************************************)
(* The results.                                                            *)
(***************************************************************************)
WinsIn(t) == [r \in results[t] |-> r.wins]
LossesIn(t) == [r \in results[t] |-> r.losses]
FightsOf(f) == [x \in Record(f) |-> FightsIn(x[2])]

(* An instance has no results until it is completed.                       *)
NoneBefore == \A t \in Tournaments : t \notin Done => results[t] = {}

ResultsOfDone ==
  \A t \in Done :
    /\ IsFiniteSet(results[t])
    /\ \A f \in roster[t] : \E r \in results[t] :
         /\ r.fighter = f
         /\ FightsIn(r) = TeamSize[kind[t]] * (TeamCount[kind[t]] - 1)
    /\ Total(WinsIn(t), results[t]) = Total(LossesIn(t), results[t])
    /\ winner[t] # Nobody

Records ==
  \A f \in Fighters : IsFiniteSet(Record(f)) /\ matches[f] = Total(FightsOf(f), Record(f))

IndResults == IndTeams /\ NoneBefore /\ ResultsOfDone /\ Records

(* The result that a treat gets in an instance.                            *)
ResultOf(t, out, f) ==
  [fighter |-> f, wins |-> Cardinality(Wins(t, out, f)),
   draws |-> Cardinality(Draws(t, out, f)), losses |-> Cardinality(Losses(t, out, f))]

LEMMA RecordOf ==
  ASSUME NEW f
  PROVE  \A x : x \in Record(f) <=> \E t \in Tournaments : \E r \in results[t] :
                                       x = <<t, r>> /\ r.fighter = f
<1>1. \A x : x \in Record(f) <=> /\ \E t \in Tournaments : \E r \in results[t] : x = <<t, r>>
                                 /\ x[2].fighter = f
  BY DEF Record
<1>2. \A t, r : <<t, r>>[2] = r
  OBVIOUS
<1> QED
  BY <1>1, <1>2

LEMMA ResultsInit == Init => IndResults
<1> SUFFICES ASSUME Init PROVE IndResults
  OBVIOUS
<1>1. \A t \in Tournaments : results[t] = {} /\ t \notin Done
  BY DEF Init, Done
<1>2. NoneBefore /\ ResultsOfDone
  BY <1>1 DEF NoneBefore, ResultsOfDone, Done
<1>3. ASSUME NEW f \in Fighters
      PROVE  IsFiniteSet(Record(f)) /\ matches[f] = Total(FightsOf(f), Record(f))
  <2>1. Record(f) = {}
    BY <1>1, RecordOf
  <2>2. matches[f] = 0
    BY DEF Init
  <2> QED
    BY <2>1, <2>2, TotalEmpty, FS_EmptySet
<1> QED
  BY <1>2, <1>3, TeamInit DEF IndResults, Records

(* Every treat inside has one result, and those of the instance are even.  *)
LEMMA OneResultEach ==
  ASSUME TypeOK, KindKnown, NEW t \in Tournaments, state[t] = "Running", TeamInv(t),
         NEW out \in [Pairs(t) -> Outcome], NEW R, R = ResultsOf(t, out)
  PROVE  /\ IsFiniteSet(R)
         /\ \A f \in roster[t] : ResultOf(t, out, f) \in R
         /\ \A r \in R : r.fighter \in roster[t] /\ r = ResultOf(t, out, r.fighter)
         /\ \A f \in roster[t] :
              /\ ResultOf(t, out, f).fighter = f
              /\ FightsIn(ResultOf(t, out, f)) = Cardinality(Fought(t, f))
              /\ Cardinality(Fought(t, f)) = TeamSize[kind[t]] * (TeamCount[kind[t]] - 1)
              /\ Cardinality(Fought(t, f)) \in Nat
         /\ Total([r \in R |-> r.wins], R) = Total([r \in R |-> r.losses], R)
<1> DEFINE of == [f \in roster[t] |-> ResultOf(t, out, f)]
           gained == [f \in roster[t] |-> Cardinality(Wins(t, out, f))]
           lost == [f \in roster[t] |-> Cardinality(Losses(t, out, f))]
           w == [r \in R |-> r.wins]
           l == [r \in R |-> r.losses]
<1>1. IsFiniteSet(roster[t])
  BY RosterFinite
<1>2. /\ \A f \in roster[t] : ResultOf(t, out, f) \in R
      /\ \A r \in R : \E f \in roster[t] : r = ResultOf(t, out, f)
  BY DEF ResultsOf, ResultOf
<1>3. \A f : /\ ResultOf(t, out, f).fighter = f
             /\ ResultOf(t, out, f).wins = Cardinality(Wins(t, out, f))
             /\ ResultOf(t, out, f).draws = Cardinality(Draws(t, out, f))
             /\ ResultOf(t, out, f).losses = Cardinality(Losses(t, out, f))
  BY DEF ResultOf
<1>4. ASSUME NEW f \in roster[t]
      PROVE  /\ gained[f] \in Nat /\ lost[f] \in Nat
             /\ FightsIn(ResultOf(t, out, f)) = Cardinality(Fought(t, f))
             /\ Cardinality(Fought(t, f)) \in Nat
  <2>1. f \in Fighters
    BY DEF TypeOK
  <2>2. /\ Cardinality(Wins(t, out, f)) \in Nat /\ Cardinality(Draws(t, out, f)) \in Nat
        /\ Cardinality(Losses(t, out, f)) \in Nat
        /\ Cardinality(Fought(t, f)) = Cardinality(Wins(t, out, f))
             + Cardinality(Draws(t, out, f)) + Cardinality(Losses(t, out, f))
    BY <2>1, FoughtIsScored
  <2> QED
    BY <1>3, <2>2 DEF FightsIn
<1>5. of \in Bijection(roster[t], R)
  <2>1. \A f \in roster[t] : of[f] \in R
    BY <1>2
  <2>2. \A f, g \in roster[t] : of[f] = of[g] => f = g
    <3>1. \A f \in roster[t] : of[f].fighter = f
      BY <1>3
    <3> HIDE DEF of
    <3> QED
      BY <3>1
  <2>3. \A r \in R : \E f \in roster[t] : of[f] = r
    BY <1>2
  <2>4. of \in [roster[t] -> R]
    BY <2>1
  <2> HIDE DEF of
  <2> QED
    BY <2>2, <2>3, <2>4 DEF Bijection, Injection, IsInjective, Surjection
<1>6. \A f \in roster[t] : w[of[f]] = gained[f] /\ l[of[f]] = lost[f]
  BY <1>2, <1>3
<1>7. Total(gained, roster[t]) = Total(lost, roster[t])
  <2>1. \A f \in roster[t] : /\ gained[f] = Cardinality(Wins(t, out, f))
                             /\ lost[f] = Cardinality(Losses(t, out, f))
    OBVIOUS
  <2> HIDE DEF gained, lost
  <2> QED
    BY <2>1, WinsAreLosses
<1> HIDE DEF of, gained, lost
<1>8. IsFiniteSet(R) /\ Total(w, R) = Total(gained, roster[t])
  <2>1. \A f \in roster[t] : gained[f] \in Nat /\ w[of[f]] = gained[f]
    BY <1>4, <1>6
  <2> HIDE DEF w
  <2> QED
    BY <1>1, <1>5, <2>1, TotalBijection
<1>9. Total(l, R) = Total(lost, roster[t])
  <2>1. \A f \in roster[t] : lost[f] \in Nat /\ l[of[f]] = lost[f]
    BY <1>4, <1>6
  <2> HIDE DEF l
  <2> QED
    BY <1>1, <1>5, <2>1, TotalBijection
<1>10. \A f \in roster[t] :
         Cardinality(Fought(t, f)) = TeamSize[kind[t]] * (TeamCount[kind[t]] - 1)
  BY MeetsAllOthers
<1>11. \A r \in R : r.fighter \in roster[t] /\ r = ResultOf(t, out, r.fighter)
  BY <1>2, <1>3
<1> QED
  BY <1>2, <1>3, <1>4, <1>7, <1>8, <1>9, <1>10, <1>11

(* The record of a treat gets one entry longer when it has fought.         *)
LEMMA RecordGrows ==
  ASSUME TypeOK, NoneBefore, NEW t \in Tournaments, t \notin Done,
         NEW out \in [Pairs(t) -> Outcome], NEW f \in Fighters,
         results' = [results EXCEPT ![t] = @ \cup ResultsOf(t, out)]
  PROVE  /\ f \in roster[t] => /\ Record(f)' = Record(f) \cup {<<t, ResultOf(t, out, f)>>}
                               /\ <<t, ResultOf(t, out, f)>> \notin Record(f)
         /\ f \notin roster[t] => Record(f)' = Record(f)
<1>1. results[t] = {}
  BY DEF NoneBefore
<1>2. /\ results'[t] = ResultsOf(t, out)
      /\ \A u \in Tournaments : u # t => results'[u] = results[u]
  BY <1>1 DEF TypeOK
<1>3. \A x : x \in Record(f)' <=> \E u \in Tournaments : \E r \in results'[u] :
                                      x = <<u, r>> /\ r.fighter = f
  <2>1. \A x : x \in Record(f)' <=> /\ \E u \in Tournaments : \E r \in results'[u] : x = <<u, r>>
                                    /\ x[2].fighter = f
    BY DEF Record
  <2>2. \A u, r : <<u, r>>[2] = r
    OBVIOUS
  <2> QED
    BY <2>1, <2>2
<1>4. \A g : ResultOf(t, out, g).fighter = g
  BY DEF ResultOf
<1>5. /\ \A g \in roster[t] : ResultOf(t, out, g) \in ResultsOf(t, out)
      /\ \A r \in ResultsOf(t, out) : \E g \in roster[t] : r = ResultOf(t, out, g)
  BY DEF ResultsOf, ResultOf
<1>6. \A r : r \in ResultsOf(t, out) /\ r.fighter = f
               <=> f \in roster[t] /\ r = ResultOf(t, out, f)
  BY <1>4, <1>5
<1>7. \A x : x \in Record(f)' <=> \/ x \in Record(f)
                                  \/ f \in roster[t] /\ x = <<t, ResultOf(t, out, f)>>
  <2> TAKE x
  <2>1. x \in Record(f)' <=>
          \/ \E u \in Tournaments : u # t /\ \E r \in results[u] : x = <<u, r>> /\ r.fighter = f
          \/ \E r \in ResultsOf(t, out) : x = <<t, r>> /\ r.fighter = f
    BY <1>2, <1>3
  <2>2. x \in Record(f) <=>
          \E u \in Tournaments : u # t /\ \E r \in results[u] : x = <<u, r>> /\ r.fighter = f
    BY <1>1, RecordOf
  <2>3. (\E r \in ResultsOf(t, out) : x = <<t, r>> /\ r.fighter = f)
          <=> f \in roster[t] /\ x = <<t, ResultOf(t, out, f)>>
    BY <1>6
  <2> QED
    BY <2>1, <2>2, <2>3
<1>8. \A r : <<t, r>> \notin Record(f)
  <2>1. ASSUME NEW r, <<t, r>> \in Record(f) PROVE FALSE
    <3>1. PICK u \in Tournaments : \E s \in results[u] : <<t, r>> = <<u, s>>
      BY <2>1, RecordOf
    <3>2. u = t
      BY <3>1
    <3> QED
      BY <1>1, <3>1, <3>2
  <2> QED
    BY <2>1
<1> QED
  BY <1>7, <1>8

(* Results are records of numbers. *)
LEMMA ResultsAreNumbers ==
  ASSUME TypeOK
  PROVE  /\ \A t \in Tournaments : \A r \in results[t] :
              r.wins \in Nat /\ r.losses \in Nat /\ FightsIn(r) \in Nat
         /\ \A f : \A x \in Record(f) : FightsOf(f)[x] = FightsIn(x[2]) /\ FightsOf(f)[x] \in Nat
<1>1. \A t \in Tournaments : \A r \in results[t] :
        r.wins \in Nat /\ r.losses \in Nat /\ FightsIn(r) \in Nat
  <2> TAKE t \in Tournaments
  <2> TAKE r \in results[t]
  <2>1. r \in Result
    BY DEF TypeOK
  <2>2. r.wins \in Nat /\ r.draws \in Nat /\ r.losses \in Nat
    BY <2>1 DEF Result
  <2> QED
    BY <2>2 DEF FightsIn
<1>2. ASSUME NEW f, NEW x \in Record(f)
      PROVE  FightsOf(f)[x] = FightsIn(x[2]) /\ FightsOf(f)[x] \in Nat
  <2>1. PICK t \in Tournaments : \E r \in results[t] : x = <<t, r>>
    BY RecordOf
  <2>2. x[2] \in results[t]
    BY <2>1
  <2>3. FightsOf(f)[x] = FightsIn(x[2])
    BY DEF FightsOf
  <2> QED
    BY <1>1, <2>2, <2>3
<1> QED
  BY <1>1, <1>2

LEMMA RecordsComplete ==
  ASSUME IndResults, NEW t \in Tournaments, NEW out \in [Pairs(t) -> Outcome],
         NEW champ \in Players \cup {Nobody}, CompleteTournament(t, out, champ),
         NEW f \in Fighters
  PROVE  IsFiniteSet(Record(f)') /\ matches'[f] = Total(FightsOf(f)', Record(f)')
<1>1. /\ TypeOK /\ KindKnown /\ NoneBefore
      /\ IsFiniteSet(Record(f)) /\ matches[f] = Total(FightsOf(f), Record(f))
  BY DEF IndResults, IndTeams, IndRoster, IndType, Records
<1>2. state[t] = "Running" /\ TeamInv(t) /\ t \notin Done
  BY CompletionStep DEF IndResults
<1>3. /\ results' = [results EXCEPT ![t] = @ \cup ResultsOf(t, out)]
      /\ matches'[f] = matches[f] + Cardinality(Fought(t, f))
  BY DEF CompleteTournament
<1>4. \A x \in Record(f) : FightsOf(f)[x] = FightsIn(x[2]) /\ FightsOf(f)[x] \in Nat
  BY <1>1, ResultsAreNumbers
<1> DEFINE entry == <<t, ResultOf(t, out, f)>>
           longer == Record(f) \cup {entry}
           counted == FightsOf(f)'
<1>5. \A x \in Record(f)' : counted[x] = FightsIn(x[2])
  BY DEF FightsOf, FightsIn
<1>6. CASE f \in roster[t]
  <2>1. Record(f)' = longer /\ entry \notin Record(f)
    BY <1>1, <1>2, <1>3, <1>6, RecordGrows
  <2>2. /\ FightsIn(ResultOf(t, out, f)) = Cardinality(Fought(t, f))
        /\ Cardinality(Fought(t, f)) \in Nat
    BY <1>1, <1>2, <1>6, OneResultEach
  <2>3. counted[entry] = Cardinality(Fought(t, f))
    <3>1. entry \in Record(f)' /\ entry[2] = ResultOf(t, out, f)
      BY <2>1
    <3> HIDE DEF entry, counted
    <3> QED
      BY <1>5, <2>2, <3>1
  <2>4. \A x \in Record(f) : counted[x] = FightsOf(f)[x]
    BY <1>4, <1>5, <2>1
  <2> HIDE DEF entry, counted
  <2>5. IsFiniteSet(longer) /\ \A x \in longer : counted[x] \in Nat
    BY <1>1, <1>4, <2>2, <2>3, <2>4, FS_AddElement
  <2>6. entry \in longer /\ longer \ {entry} = Record(f)
    BY <2>1
  <2> HIDE DEF longer
  <2>7. Total(counted, longer) = counted[entry] + Total(counted, Record(f))
    <3>1. Total(counted, longer) = counted[entry] + Total(counted, longer \ {entry})
      BY <2>5, <2>6, TotalAdd
    <3> QED
      BY <2>6, <3>1
  <2>8. Total(counted, Record(f)) = Total(FightsOf(f), Record(f))
    BY <2>4, TotalAgree
  <2>9. Total(FightsOf(f), Record(f)) \in Nat
    BY <1>1, <1>4, TotalIsNat
  <2>10. matches'[f] = Total(counted, longer)
    BY <1>1, <1>3, <2>2, <2>3, <2>7, <2>8, <2>9
  <2> QED
    BY <2>1, <2>5, <2>10 DEF counted
<1>7. CASE f \notin roster[t]
  <2>1. Record(f)' = Record(f)
    BY <1>1, <1>2, <1>3, <1>7, RecordGrows
  <2>2. Fought(t, f) = {}
    BY <1>7 DEF Fought, Pairs
  <2>3. matches'[f] = matches[f]
    <3>1. matches[f] \in Nat
      BY <1>1 DEF TypeOK
    <3> QED
      BY <1>3, <2>2, <3>1, FS_EmptySet
  <2>4. \A x \in Record(f) : counted[x] = FightsOf(f)[x]
    BY <1>4, <1>5, <2>1
  <2> HIDE DEF counted
  <2>5. Total(counted, Record(f)) = Total(FightsOf(f), Record(f))
    BY <2>4, TotalAgree
  <2> QED
    BY <1>1, <2>1, <2>3, <2>5 DEF counted
<1> QED
  BY <1>6, <1>7

LEMMA ResultsComplete ==
  ASSUME IndResults, NEW t \in Tournaments, NEW out \in [Pairs(t) -> Outcome],
         NEW champ \in Players \cup {Nobody}, CompleteTournament(t, out, champ)
  PROVE  NoneBefore' /\ ResultsOfDone' /\ Records'
<1>1. TypeOK /\ KindKnown /\ NoneBefore /\ ResultsOfDone
  BY DEF IndResults, IndTeams, IndRoster, IndType
<1>2. /\ state[t] = "Running" /\ TeamInv(t) /\ t \notin Done /\ Done' = Done \cup {t}
      /\ champ \in Players /\ kind' = kind /\ roster' = roster
      /\ winner' = [winner EXCEPT ![t] = champ]
  BY CompletionStep DEF IndResults
<1>3. results' = [results EXCEPT ![t] = @ \cup ResultsOf(t, out)] /\ results[t] = {}
  BY <1>1, <1>2 DEF CompleteTournament, NoneBefore
<1>4. /\ results'[t] = ResultsOf(t, out)
      /\ \A u \in Tournaments : u # t => results'[u] = results[u] /\ winner'[u] = winner[u]
      /\ winner'[t] = champ
  BY <1>1, <1>2, <1>3 DEF TypeOK
<1>5. NoneBefore'
  BY <1>1, <1>2, <1>4 DEF NoneBefore
<1>6. /\ Done' = Done \cup {t} /\ Done \subseteq Tournaments
  BY <1>2 DEF Done
<1>7. ASSUME NEW u \in Done
      PROVE  /\ IsFiniteSet(results'[u])
             /\ \A f \in roster'[u] : \E r \in results'[u] :
                  /\ r.fighter = f
                  /\ FightsIn(r) = TeamSize[kind'[u]] * (TeamCount[kind'[u]] - 1)
             /\ Total(WinsIn(u)', results'[u]) = Total(LossesIn(u)', results'[u])
             /\ winner'[u] # Nobody
  <2>1. u # t /\ u \in Tournaments
    BY <1>2, <1>6
  <2>2. /\ results'[u] = results[u] /\ winner'[u] = winner[u]
        /\ WinsIn(u)' = WinsIn(u) /\ LossesIn(u)' = LossesIn(u)
    BY <1>4, <2>1 DEF WinsIn, LossesIn
  <2> QED
    BY <1>1, <1>2, <2>2 DEF ResultsOfDone
<1>8. /\ IsFiniteSet(results'[t])
      /\ \A f \in roster'[t] : \E r \in results'[t] :
           /\ r.fighter = f
           /\ FightsIn(r) = TeamSize[kind'[t]] * (TeamCount[kind'[t]] - 1)
      /\ Total(WinsIn(t)', results'[t]) = Total(LossesIn(t)', results'[t])
      /\ winner'[t] # Nobody
  <2> DEFINE R == ResultsOf(t, out)
  <2>1. WinsIn(t)' = [r \in R |-> r.wins] /\ LossesIn(t)' = [r \in R |-> r.losses]
    BY <1>4 DEF WinsIn, LossesIn
  <2>2. results'[t] = R
    BY <1>4
  <2> HIDE DEF R
  <2>3. /\ IsFiniteSet(R)
        /\ \A f \in roster[t] : ResultOf(t, out, f) \in R
        /\ \A f \in roster[t] :
             /\ ResultOf(t, out, f).fighter = f
             /\ FightsIn(ResultOf(t, out, f)) = Cardinality(Fought(t, f))
             /\ Cardinality(Fought(t, f)) = TeamSize[kind[t]] * (TeamCount[kind[t]] - 1)
        /\ Total([r \in R |-> r.wins], R) = Total([r \in R |-> r.losses], R)
    BY <1>1, <1>2, OneResultEach DEF R
  <2>4. \A f \in roster[t] : \E r \in R :
          /\ r.fighter = f
          /\ FightsIn(r) = TeamSize[kind[t]] * (TeamCount[kind[t]] - 1)
    BY <2>3
  <2>5. winner'[t] # Nobody
    BY <1>2, <1>4, SetsAssumption
  <2>6. Total(WinsIn(t)', results'[t]) = Total(LossesIn(t)', results'[t])
    BY <2>1, <2>2, <2>3
  <2> QED
    BY <1>2, <2>2, <2>3, <2>4, <2>5, <2>6
<1>9. ResultsOfDone'
  BY <1>6, <1>7, <1>8 DEF ResultsOfDone, FightsIn
<1>10. Records'
  BY RecordsComplete DEF Records
<1> QED
  BY <1>5, <1>9, <1>10

LEMMA ResultsStep ==
  ASSUME IndResults, [Next]_vars
  PROVE  IndResults'
<1>1. IndTeams'
  BY TeamStep DEF IndResults
<1>2. CASE NothingCounted
  <2>1. /\ Done' = Done /\ results' = results /\ winner' = winner /\ matches' = matches
        /\ \A t \in Done : kind'[t] = kind[t] /\ roster'[t] = roster[t]
    BY <1>2 DEF NothingCounted
  <2>2. NoneBefore'
    BY <2>1 DEF IndResults, NoneBefore
  <2>3. \A t : WinsIn(t)' = WinsIn(t) /\ LossesIn(t)' = LossesIn(t)
    BY <2>1 DEF WinsIn, LossesIn
  <2>4. ResultsOfDone'
    BY <2>1, <2>3 DEF IndResults, ResultsOfDone, FightsIn
  <2>5. \A f : Record(f)' = Record(f)
    BY <2>1 DEF Record
  <2>6. \A f : FightsOf(f)' = FightsOf(f)
    BY <2>5 DEF FightsOf, FightsIn
  <2>7. Records'
    BY <2>1, <2>5, <2>6 DEF IndResults, Records
  <2> QED
    BY <1>1, <2>2, <2>4, <2>7 DEF IndResults
<1>3. ASSUME NEW t \in Tournaments, NEW out \in [Pairs(t) -> Outcome],
             NEW champ \in Players \cup {Nobody}, CompleteTournament(t, out, champ)
      PROVE  IndResults'
  BY <1>1, <1>3, ResultsComplete DEF IndResults
<1>4. TypeOK
  BY DEF IndResults, IndTeams, IndRoster, IndType
<1> QED
  BY <1>2, <1>3, <1>4, CountingStep

LEMMA ResultsMeant ==
  ASSUME IndResults
  PROVE  ResultsAddUp
<1>1. TypeOK /\ ResultsOfDone /\ Records
  BY DEF IndResults, IndTeams, IndRoster, IndType
<1>2. ASSUME NEW t \in Done
      PROVE  SumOf([r \in results[t] |-> r.wins]) = SumOf([r \in results[t] |-> r.losses])
  <2>1. DOMAIN WinsIn(t) = results[t] /\ DOMAIN LossesIn(t) = results[t]
    BY DEF WinsIn, LossesIn
  <2>2. \A r \in results[t] : WinsIn(t)[r] \in Nat /\ LossesIn(t)[r] \in Nat
    BY <1>1, ResultsAreNumbers DEF WinsIn, LossesIn, Done
  <2>3. IsFiniteSet(results[t]) /\ Total(WinsIn(t), results[t]) = Total(LossesIn(t), results[t])
    BY <1>1 DEF ResultsOfDone
  <2>4. SumOf(WinsIn(t)) = Total(WinsIn(t), results[t])
    BY <2>1, <2>2, <2>3, SumOfIsTotal
  <2>5. SumOf(LossesIn(t)) = Total(LossesIn(t), results[t])
    BY <2>1, <2>2, <2>3, SumOfIsTotal
  <2>6. SumOf(WinsIn(t)) = SumOf(LossesIn(t))
    BY <2>3, <2>4, <2>5
  <2> QED
    BY <2>6 DEF WinsIn, LossesIn
<1>3. ASSUME NEW f \in Fighters
      PROVE  matches[f] = SumOf([x \in Record(f) |-> FightsIn(x[2])])
  <2>1. DOMAIN FightsOf(f) = Record(f)
    BY DEF FightsOf
  <2>2. SumOf(FightsOf(f)) = Total(FightsOf(f), Record(f))
    BY <1>1, <2>1, ResultsAreNumbers, SumOfIsTotal DEF Records
  <2>3. matches[f] = SumOf(FightsOf(f))
    BY <1>1, <2>2 DEF Records
  <2> QED
    BY <2>3 DEF FightsOf
<1>4. \A t \in Tournaments : state[t] = "Completed" => t \in Done
  BY DEF Done
<1> QED
  BY <1>1, <1>2, <1>3, <1>4 DEF ResultsAddUp, ResultsOfDone

(* In every completed instance each treat met all treats of the other      *)
(* teams, wins are as many as losses and somebody won; and what the        *)
(* records of the treats count is the sum of all of their results, over    *)
(* however many instances they played in.                                  *)
THEOREM ResultsStayRight == Spec => []ResultsAddUp
<1>1. IndResults /\ [Next]_vars => IndResults'
  BY ResultsStep
<1>2. IndResults => ResultsAddUp
  BY ResultsMeant
<1> QED
  BY ResultsInit, <1>1, <1>2, PTL DEF Spec
=============================================================================
