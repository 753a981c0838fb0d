---------------------------- MODULE Tournaments ----------------------------
(***************************************************************************)
(* The tournaments of the game: instances of blueprints that players enter *)
(* with a team of treats and may leave while they are listed, that run for *)
(* some blocks once they are full, and then have every two treats of       *)
(* different players fight.  A behaviour is a run of blocks as in          *)
(* TreatFighter: instances are reopened, the moves of the block follow,    *)
(* then every instance is processed, then the demand queue.                *)
(*                                                                         *)
(* What else happens to treats and players is the action OtherMoves.       *)
(***************************************************************************)
EXTENDS Integers, Sequences, FiniteSets, FiniteSetsExt

CONSTANTS
  Players, Nobody,        \* Xaya names, numbered in their order; the empty name
  Fighters, InitialOwner,
  Wandering,              \* bound: the treats that ever have other business
  Tournaments, NoTournament,  \* ids of instances, ever; the id 0
  Blueprints, NoBlueprint,
  Closed,                 \* the blueprints shut on the main chain
  TeamSize, TeamCount, TournamentDuration, MinSweetness, MaxSweetness,
  JoinCost,               \* of each blueprint
  BaseRewards, WinnerRewards, \* what the rolls of a participant leave, at most
  Sweetness,              \* the levels of sweetness treats may have
  InitialBalance,
  FirstWin                \* half points of the first of a pair for a win: 1
                          \* before the fork at height 5097362, 2 after it

ASSUME SetsAssumption ==
  /\ Players \subseteq Nat /\ IsFiniteSet(Players) /\ Nobody \notin Players
  /\ InitialOwner \in [Fighters -> Players] /\ IsFiniteSet(Fighters)
  /\ Wandering \subseteq Fighters
  /\ NoTournament \notin Tournaments /\ IsFiniteSet(Tournaments)
  /\ NoBlueprint \notin Blueprints /\ Closed \subseteq Blueprints
  /\ IsFiniteSet(Blueprints) /\ Cardinality(Blueprints) <= Cardinality(Tournaments)

(* Every blueprint of tournamentblueprint.pb.text is for two teams or more *)
(* (and names reward tables that exist, and roll on them at least once).   *)
ASSUME BlueprintAssumption ==
  /\ TeamSize \in [Blueprints -> Nat \ {0}]
  /\ TeamCount \in [Blueprints -> Nat \ {0, 1}]
  /\ TournamentDuration \in [Blueprints -> Nat]
  /\ MinSweetness \in [Blueprints -> Nat] /\ MaxSweetness \in [Blueprints -> Nat]
  /\ JoinCost \in [Blueprints -> Nat]
  /\ BaseRewards \in Nat /\ WinnerRewards \in Nat
  /\ Sweetness \subseteq Nat /\ Sweetness # {}
  /\ InitialBalance \in [Players -> Nat]
  /\ FirstWin \in {1, 2}

TournamentState == {"Unborn", "Listed", "Running", "Completed"}
FighterStatus == {"Available", "Tournament", "Elsewhere", "Deleted"}
Phases == {"start", "moves", "tournaments"}

VARIABLES
  phase,      \* which part of the block is running
  todo,       \* the instances ProcessTournaments has still to look at
  owner, status, sweetness,  \* of the treats; "Elsewhere" is any other business
  instance,   \* proto.tournamentinstanceid of the treats
  matches,    \* proto.totalmatches of the treats
  kind,       \* proto.authoredid of the instances
  state, blocksleft, roster, teamsjoined,  \* of the instances
  results, winner,                         \* of the instances
  queue,      \* globaldata.queuedata
  rewards,    \* the rewards with a tournamentid
  balance, completed, won    \* of the players

fighterVars == <<owner, status, sweetness, instance, matches>>
tournamentVars == <<kind, state, blocksleft, roster, teamsjoined, results, winner>>
playerVars == <<balance, completed, won>>
vars == <<phase, todo, fighterVars, tournamentVars, queue, rewards, playerVars>>

Result == [fighter : Fighters, wins : Nat, draws : Nat, losses : Nat]
Reward == [owner : Players, tournament : Tournaments, roll : Nat \ {0}]
Demand == [player : Players, kind : Blueprints]

TypeOK ==
  /\ phase \in Phases
  /\ todo \subseteq Tournaments
  /\ owner \in [Fighters -> Players]
  /\ status \in [Fighters -> FighterStatus]
  /\ sweetness \in [Fighters -> Sweetness]
  /\ instance \in [Fighters -> Tournaments \cup {NoTournament}]
  /\ matches \in [Fighters -> Nat]
  /\ kind \in [Tournaments -> Blueprints \cup {NoBlueprint}]
  /\ state \in [Tournaments -> TournamentState]
  /\ blocksleft \in [Tournaments -> Nat]
  /\ roster \in [Tournaments -> SUBSET Fighters]
  /\ teamsjoined \in [Tournaments -> Nat]
  /\ results \in [Tournaments -> SUBSET Result]
  /\ winner \in [Tournaments -> Players \cup {Nobody}]
  /\ queue \in Seq(Demand)
  /\ rewards \subseteq Reward
  /\ balance \in [Players -> Int]
  /\ completed \in [Players -> Nat]
  /\ won \in [Players -> Nat]

(***************************************************************************)
(* What the code reads of an instance.                                     *)
(***************************************************************************)
Unborn == {t \in Tournaments : state[t] = "Unborn"}

(* fighters_size() against teamsize * teamcount *)
Seats(t) == TeamSize[kind[t]] * TeamCount[kind[t]]
Full(t) == Cardinality(roster[t]) >= Seats(t)

TeamOf(t, p) == {f \in roster[t] : owner[f] = p}

(* as if every treat were a team *)
TeamPerTreat(t) == roster[t]
Teams(t) == {owner[f] : f \in roster[t]}

Open(t) == state[t] = "Listed" /\ ~Full(t)

(* as if an instance that runs counted *)
MissingUnlessRunning ==
  {b \in Blueprints : \A t \in Tournaments : kind[t] = b => ~Open(t) /\ state[t] # "Running"}

(* ReopenMissingTournaments: the blueprints nobody can enter. *)
Missing == {b \in Blueprints : \A t \in Tournaments : kind[t] = b => ~Open(t)}

(* What the demand queue makes of its entries: an instance for two. *)
Entries(b) == {i \in DOMAIN queue : queue[i].kind = b}
Demanded(b) == IF Cardinality(Entries(b)) >= 2 THEN Cardinality(Entries(b)) \div 2 ELSE 0

(* Bound: ids are left for all instances the next blocks have to create. *)
EnoughIds ==
  Cardinality(Unborn) >= Cardinality(Missing) + MapThenSumSet(Demanded, Blueprints)
-----------------------------------------------------------------------------
(***************************************************************************)
(* The sub-moves of "tm".                                                  *)
(***************************************************************************)

(* as if the status of the treats were not looked at *)
QualifiesBusy(p, t, f) ==
  /\ owner[f] = p /\ status[f] # "Deleted"
  /\ sweetness[f] \in MinSweetness[kind[t]]..MaxSweetness[kind[t]]

(* as if any sweetness would do *)
QualifiesUnchecked(p, t, f) == owner[f] = p /\ status[f] = "Available"

(* What ParseTournamentEntryData asks of each treat. *)
Qualifies(p, t, f) ==
  /\ owner[f] = p /\ status[f] = "Available"
  /\ sweetness[f] \in MinSweetness[kind[t]]..MaxSweetness[kind[t]]

(* as if a player could enter twice *)
EntryOfSecondTeam(p, t, S) ==
  /\ Open(t)
  /\ \A f \in S : Qualifies(p, t, f)
  /\ Cardinality(S) = TeamSize[kind[t]]
  /\ kind[t] \notin Closed
  /\ balance[p] >= JoinCost[kind[t]]

(* A full team of one player who has none inside yet. *)
ParseTournamentEntryData(p, t, S) ==
  /\ Open(t)
  /\ \A f \in S : Qualifies(p, t, f)
  /\ TeamOf(t, p) = {}
  /\ Cardinality(S) = TeamSize[kind[t]]
  /\ kind[t] \notin Closed
  /\ balance[p] >= JoinCost[kind[t]]

(* MaybeEnterTournament *)
EnterTournament(p, t, S) ==
  /\ phase = "moves"
  /\ ParseTournamentEntryData(p, t, S)
  /\ instance' = [f \in Fighters |-> IF f \in S THEN t ELSE instance[f]]
  /\ status' = [f \in Fighters |-> IF f \in S THEN "Tournament" ELSE status[f]]
  /\ roster' = [roster EXCEPT ![t] = @ \cup S]
  /\ balance' = [balance EXCEPT ![p] = @ - JoinCost[kind[t]]]
  /\ UNCHANGED <<phase, todo, owner, sweetness, matches, kind, state, blocksleft,
                 teamsjoined, results, winner, queue, rewards, completed, won>>
  /\ EnoughIds'

Queued(p) == \E i \in DOMAIN queue : queue[i].player = p

(* ParseTournamentEntryData, for an instance that filled up in this block: *)
(* the entry is refused, whatever it names, and the player is put in the   *)
(* demand queue unless there already, for this or another blueprint.  The  *)
(* first in the queue is put there once, every other one twice.            *)
DemandTournament(p, t) ==
  LET entry == [player |-> p, kind |-> kind[t]]
  IN /\ phase = "moves"
     /\ state[t] = "Listed" /\ Full(t)
     /\ ~Queued(p)
     /\ queue' = IF queue = <<>> THEN <<entry>> ELSE queue \o <<entry, entry>>
     /\ UNCHANGED <<phase, todo, fighterVars, tournamentVars, rewards, playerVars>>
     /\ EnoughIds'

(* as if one could leave what already runs *)
LeaveOfRunning(p, t) ==
  /\ state[t] \in {"Listed", "Running"}
  /\ kind[t] \notin Closed
  /\ TeamOf(t, p) # {}

ParseTournamentLeaveData(p, t) ==
  /\ state[t] = "Listed"
  /\ kind[t] \notin Closed
  /\ TeamOf(t, p) # {}

(* MaybeLeaveTournament: the join cost is taken once more. *)
LeaveTournament(p, t) ==
  /\ phase = "moves"
  /\ ParseTournamentLeaveData(p, t)
  /\ instance' = [f \in Fighters |-> IF f \in TeamOf(t, p) THEN NoTournament
                                     ELSE instance[f]]
  /\ status' = [f \in Fighters |-> IF f \in TeamOf(t, p) THEN "Available" ELSE status[f]]
  /\ roster' = [roster EXCEPT ![t] = @ \ TeamOf(t, p)]
  /\ balance' = [balance EXCEPT ![p] = @ - JoinCost[kind[t]]]
  /\ UNCHANGED <<phase, todo, owner, sweetness, matches, kind, state, blocksleft,
                 teamsjoined, results, winner, queue, rewards, completed, won>>

RewardsOf(p, t) == {w \in rewards : w.owner = p /\ w.tournament = t}

ParseTournamentRewardData(p, t) == RewardsOf(p, t) # {}

(* MaybeClaimTournamentReward; what the rewards hold is in TreatFighter. *)
ClaimTournamentReward(p, t) ==
  /\ phase = "moves"
  /\ ParseTournamentRewardData(p, t)
  /\ rewards' = rewards \ RewardsOf(p, t)
  /\ UNCHANGED <<phase, todo, fighterVars, tournamentVars, queue, playerVars>>

(* The moves of TreatFighter, as far as tournaments see them: a treat that *)
(* is free, or busy with something else, may become free or busy, change   *)
(* hands, get sweeter or be deleted.  No handler takes one whose status is *)
(* "Tournament", but for the stray treats of cook moves.                   *)
OtherMoves(f, s, p, w) ==
  /\ phase = "moves"
  /\ status[f] \in {"Available", "Elsewhere"}
  /\ s = "Deleted" => p = owner[f] /\ w = sweetness[f]
  /\ status' = [status EXCEPT ![f] = s]
  /\ owner' = [owner EXCEPT ![f] = p]
  /\ sweetness' = [sweetness EXCEPT ![f] = w]
  /\ UNCHANGED <<phase, todo, instance, matches, tournamentVars, queue, rewards,
                 playerVars>>
-----------------------------------------------------------------------------
(***************************************************************************)
(* The steps of PXLogic::UpdateState around the moves.                     *)
(***************************************************************************)

(* TournamentTable::CreateNew for each t in T, of the blueprint as[t]. *)
CreateNew(T, as) ==
  /\ kind' = [t \in Tournaments |-> IF t \in T THEN as[t] ELSE kind[t]]
  /\ state' = [t \in Tournaments |-> IF t \in T THEN "Listed" ELSE state[t]]
  /\ blocksleft' = [t \in Tournaments |-> IF t \in T THEN TournamentDuration[as[t]]
                                          ELSE blocksleft[t]]
  /\ UNCHANGED <<roster, teamsjoined, results, winner>>

(* ReopenMissingTournaments, before the moves: one each. *)
ReopenMissingTournaments ==
  /\ phase = "start"
  /\ phase' = "moves"
  /\ \E T \in SUBSET Unborn : \E as \in [T -> Missing] :
       /\ \A b \in Missing : \E t \in T : as[t] = b
       /\ \A t, u \in T : as[t] = as[u] => t = u
       /\ CreateNew(T, as)
  /\ UNCHANGED <<todo, fighterVars, queue, rewards, playerVars>>

(* ProcessTournaments starts to go through the table.  Instances share no  *)
(* treats, so any order will do.                                           *)
EndMoves ==
  /\ phase = "moves"
  /\ phase' = "tournaments"
  /\ todo' = Tournaments \ Unborn
  /\ UNCHANGED <<fighterVars, tournamentVars, queue, rewards, playerVars>>

Process(t) ==
  /\ phase = "tournaments"
  /\ t \in todo
  /\ todo' = todo \ {t}
  /\ teamsjoined' = IF state[t] = "Completed" THEN teamsjoined
                    ELSE [teamsjoined EXCEPT ![t] = Cardinality(Teams(t))]
  /\ UNCHANGED <<phase, owner, kind, queue, balance>>

ReadyToRun(t) == state[t] = "Listed" /\ Cardinality(roster[t]) = Seats(t)

StartTournament(t) ==
  /\ Process(t)
  /\ ReadyToRun(t)
  /\ state' = [state EXCEPT ![t] = "Running"]
  /\ blocksleft' = [blocksleft EXCEPT ![t] = TournamentDuration[kind[t]]]
  /\ UNCHANGED <<status, sweetness, instance, matches, roster, results, winner,
                 rewards, completed, won>>

(* A listed instance with free seats, or one that is completed. *)
SkipTournament(t) ==
  /\ Process(t)
  /\ state[t] = "Completed" \/ (state[t] = "Listed" /\ ~ReadyToRun(t))
  /\ UNCHANGED <<status, sweetness, instance, matches, state, blocksleft, roster,
                 results, winner, rewards, completed, won>>

(* as if the countdown were only looked at *)
NotCounted(t) == blocksleft[t]

Countdown(t) == IF blocksleft[t] > 0 THEN blocksleft[t] - 1 ELSE 0

RunTournament(t) ==
  /\ Process(t)
  /\ state[t] = "Running"
  /\ Countdown(t) > 0
  /\ blocksleft' = [blocksleft EXCEPT ![t] = Countdown(t)]
  /\ UNCHANGED <<status, sweetness, instance, matches, state, roster, results,
                 winner, rewards, completed, won>>

(***************************************************************************)
(* The fights of an instance whose time is up.  Who wins a fight is free.  *)
(***************************************************************************)

(* Every treat meets every treat of the other teams once; the first of a   *)
(* pair is the one whose owner comes first by name.                        *)
Pairs(t) == {pair \in roster[t] \X roster[t] : owner[pair[1]] < owner[pair[2]]}
Outcome == {"first", "draw", "second"}

(* as if only a point made a participant *)
ScoredByFirst(t) == {p \in Players : \E pair \in Pairs(t) : p = owner[pair[1]]}

Scored(t) == {p \in Players : \E pair \in Pairs(t) : p \in {owner[pair[1]], owner[pair[2]]}}

Wins(t, out, f) == {pair \in Pairs(t) : \/ pair[1] = f /\ out[pair] = "first"
                                        \/ pair[2] = f /\ out[pair] = "second"}
Losses(t, out, f) == {pair \in Pairs(t) : \/ pair[1] = f /\ out[pair] = "second"
                                          \/ pair[2] = f /\ out[pair] = "first"}
(* as if a draw only counted for the first *)
DrawsOfFirst(t, out, f) == {pair \in Pairs(t) : f = pair[1] /\ out[pair] = "draw"}

Draws(t, out, f) == {pair \in Pairs(t) : f \in {pair[1], pair[2]} /\ out[pair] = "draw"}

(* ProcessFighterPair: the score of a player, in half points.              *)
Score(t, out, p) ==
  FirstWin * Cardinality({pair \in Pairs(t) : owner[pair[1]] = p /\ out[pair] = "first"})
  + 2 * Cardinality({pair \in Pairs(t) : owner[pair[2]] = p /\ out[pair] = "second"})
  + Cardinality({pair \in Pairs(t) : p \in {owner[pair[1]], owner[pair[2]]}
                                     /\ out[pair] = "draw"})

(* The first by name of those with the most points, if they have any. *)
IsWinner(t, out, p) ==
  \/ /\ p \in Scored(t) /\ Score(t, out, p) > 0
     /\ \A q \in Scored(t) : Score(t, out, q) <= Score(t, out, p)
     /\ \A q \in Scored(t) : Score(t, out, q) = Score(t, out, p) => p <= q
  \/ p = Nobody /\ \A q \in Scored(t) : Score(t, out, q) = 0

ResultsOf(t, out) ==
  {[fighter |-> f, wins |-> Cardinality(Wins(t, out, f)),
    draws |-> Cardinality(Draws(t, out, f)),
    losses |-> Cardinality(Losses(t, out, f))] : f \in roster[t]}

Fought(t, f) == {pair \in Pairs(t) : f \in {pair[1], pair[2]}}

(* as if the unused state Pending were set *)
NowPending(t) == [state EXCEPT ![t] = "Pending"]

(* as if an instance that is over ran on *)
StillRunning(t) == [state EXCEPT ![t] = "Running"]

Over(t) == [state EXCEPT ![t] = "Completed"]

(* The rolls on the reward tables, the winner's on one of his own. *)
RewardsUpTo(p, champ) == 1..(IF p = champ THEN WinnerRewards ELSE BaseRewards)
RewardsFor(t, rolls) ==
  UNION {{[owner |-> p, tournament |-> t, roll |-> i] : i \in rolls[p]} : p \in Scored(t)}

(* ProcessTournaments, at the end of the countdown.  Ratings are not       *)
(* modelled: UpdateSweetness makes a treat sweeter when they have risen.   *)
CompleteTournament(t, out, champ) ==
  /\ Process(t)
  /\ state[t] = "Running"
  /\ Countdown(t) = 0
  /\ IsWinner(t, out, champ)
  /\ blocksleft' = [blocksleft EXCEPT ![t] = 0]
  /\ results' = [results EXCEPT ![t] = @ \cup ResultsOf(t, out)]
  /\ winner' = [winner EXCEPT ![t] = champ]
  /\ matches' = [f \in Fighters |-> matches[f] + Cardinality(Fought(t, f))]
  /\ \E rolls \in [Scored(t) -> SUBSET (1..(BaseRewards + WinnerRewards))] :
       /\ \A p \in Scored(t) : rolls[p] \subseteq RewardsUpTo(p, champ)
       /\ rewards' = rewards \cup RewardsFor(t, rolls)
  /\ completed' = [p \in Players |-> completed[p] + IF p \in Scored(t) THEN 1 ELSE 0]
  /\ won' = [p \in Players |-> won[p] + IF p = champ THEN 1 ELSE 0]
  /\ status' = [f \in Fighters |-> IF f \in roster[t] THEN "Available" ELSE status[f]]
  /\ instance' = [f \in Fighters |-> IF f \in roster[t] THEN NoTournament ELSE instance[f]]
  /\ sweetness' \in [Fighters -> Sweetness]
  /\ \A f \in Fighters : IF f \in roster[t] THEN sweetness'[f] >= sweetness[f]
                         ELSE sweetness'[f] = sweetness[f]
  /\ state' = Over(t)
  /\ UNCHANGED roster

(* ProcessTournaments, after the last instance: the demand queue. *)
ResolveDemand ==
  /\ phase = "tournaments"
  /\ todo = {}
  /\ phase' = "start"
  /\ queue' = <<>>
  /\ \E T \in SUBSET Unborn : \E as \in [T -> Blueprints] :
       /\ \A b \in Blueprints : Cardinality({t \in T : as[t] = b}) = Demanded(b)
       /\ CreateNew(T, as)
  /\ UNCHANGED <<todo, fighterVars, rewards, playerVars>>
-----------------------------------------------------------------------------
Init ==
  /\ phase = "start"
  /\ todo = {}
  /\ owner = InitialOwner
  /\ status = [f \in Fighters |-> "Available"]
  /\ sweetness \in [Fighters -> Sweetness]
  /\ instance = [f \in Fighters |-> NoTournament]
  /\ matches = [f \in Fighters |-> 0]
  /\ kind = [t \in Tournaments |-> NoBlueprint]
  /\ state = [t \in Tournaments |-> "Unborn"]
  /\ blocksleft = [t \in Tournaments |-> 0]
  /\ roster = [t \in Tournaments |-> {}]
  /\ teamsjoined = [t \in Tournaments |-> 0]
  /\ results = [t \in Tournaments |-> {}]
  /\ winner = [t \in Tournaments |-> Nobody]
  /\ queue = <<>>
  /\ rewards = {}
  /\ balance = InitialBalance
  /\ completed = [p \in Players |-> 0]
  /\ won = [p \in Players |-> 0]

Move ==
  \/ \E p \in Players, t \in Tournaments :
       \/ \E S \in SUBSET Fighters : EnterTournament(p, t, S)
       \/ DemandTournament(p, t)
       \/ LeaveTournament(p, t)
       \/ ClaimTournamentReward(p, t)
  \/ \E f \in Wandering, s \in {"Available", "Elsewhere", "Deleted"}, p \in Players,
        w \in Sweetness : OtherMoves(f, s, p, w)

ProcessStep ==
  \E t \in todo :
    \/ StartTournament(t) \/ SkipTournament(t) \/ RunTournament(t)
    \/ \E out \in [Pairs(t) -> Outcome], champ \in Players \cup {Nobody} :
         CompleteTournament(t, out, champ)

BlockStep == ReopenMissingTournaments \/ EndMoves \/ ProcessStep \/ ResolveDemand

Next == Move \/ BlockStep

Spec == Init /\ [][Next]_vars

(* Blocks keep coming; no player has to move. *)
FairSpec == Spec /\ WF_vars(BlockStep)
-----------------------------------------------------------------------------
(***************************************************************************)
(* What the code promises of tournaments.                                  *)
(***************************************************************************)
Unfinished == {t \in Tournaments : state[t] \in {"Listed", "Running"}}

(* The list of an instance and the rows of its treats never come apart:    *)
(* one treat is in one unfinished instance at most, and knows which.       *)
RosterMatches ==
  /\ \A t \in Unfinished, f \in Fighters :
       f \in roster[t] <=> status[f] = "Tournament" /\ instance[f] = t
  /\ \A f \in Fighters : IF status[f] = "Tournament" THEN instance[f] \in Unfinished
                         ELSE instance[f] = NoTournament

(* Whoever is inside is there with a whole team, no instance is overbooked, *)
(* and one that runs has all of its seats taken.                           *)
TeamsWhole ==
  \A t \in Unfinished :
    /\ \A p \in Players : Cardinality(TeamOf(t, p)) \in {0, TeamSize[kind[t]]}
    /\ Cardinality(roster[t]) <= Seats(t)
    /\ state[t] = "Running" => Cardinality(roster[t]) = Seats(t)

(* The count of teams that is stored when an instance starts is right as   *)
(* long as it runs: nobody comes, goes or changes hands.                   *)
TeamsCounted ==
  \A t \in Tournaments :
    state[t] = "Running" => /\ teamsjoined[t] = TeamCount[kind[t]]
                            /\ Cardinality(Teams(t)) = TeamCount[kind[t]]

(* Treats do not outgrow the tournament they wait for. *)
SweetInRange ==
  \A t \in Unfinished, f \in Fighters :
    f \in roster[t] => sweetness[f] \in MinSweetness[kind[t]]..MaxSweetness[kind[t]]

(* Between two blocks, and as the moves of one begin, each blueprint has   *)
(* an instance on the list: ReopenMissingTournaments leaves none out, and  *)
(* no move takes one off.                                                  *)
AlwaysListed ==
  phase = "moves" => \A b \in Blueprints :
                       \E t \in Tournaments : kind[t] = b /\ state[t] = "Listed"

SumOf(f) == MapThenSumSet(LAMBDA x : f[x], DOMAIN f)
FightsIn(r) == r.wins + r.draws + r.losses
Record(f) == {x \in UNION {{<<t, r>> : r \in results[t]} : t \in Tournaments} : x[2].fighter = f}
Done == {t \in Tournaments : state[t] = "Completed"}

(* Every treat of a completed instance met all treats of the other teams   *)
(* once, what one wins another loses, somebody won, and the records of the *)
(* treats are the sum of all results.                                      *)
ResultsAddUp ==
  /\ \A t \in Tournaments : state[t] = "Completed" =>
       /\ \A f \in roster[t] : \E r \in results[t] :
            /\ r.fighter = f
            /\ FightsIn(r) = TeamSize[kind[t]] * (TeamCount[kind[t]] - 1)
       /\ SumOf([r \in results[t] |-> r.wins]) = SumOf([r \in results[t] |-> r.losses])
       /\ winner[t] # Nobody
  /\ \A f \in Fighters : matches[f] = SumOf([x \in Record(f) |-> FightsIn(x[2])])

(* The counters of the players agree with the completed instances: each    *)
(* counts for as many players as it has teams, and for one winner.         *)
CountersAgree ==
  /\ SumOf(completed) = SumOf([t \in Done |-> TeamCount[kind[t]]])
  /\ \A p \in Players : /\ won[p] = Cardinality({t \in Done : winner[t] = p})
                         /\ won[p] <= completed[p]

(* Rewards come once, with the end of the tournament and for those who     *)
(* played in it: neither a later block nor a claim brings any back.        *)
RewardedOnce ==
  [][\A w \in rewards' \ rewards :
       /\ state[w.tournament] = "Running" /\ state'[w.tournament] = "Completed"
       /\ TeamOf(w.tournament, w.owner) # {}]_vars

(* An instance that is full when the moves are over is played to its end,  *)
(* and all its treats are released.                                        *)
FullOnesEnd ==
  \A t \in Tournaments :
    phase = "tournaments" /\ ReadyToRun(t)
      ~> state[t] = "Completed" /\ \A f \in Fighters : instance[f] # t

(* What players see of it is what TournamentBoard allows. *)
boardStage ==
  [t \in Tournaments |->
     CASE state[t] = "Unborn" -> "unknown" [] state[t] = "Listed" -> "open"
       [] state[t] = "Running" -> "playing" [] OTHER -> "over"]

boardTeam ==
  [t \in Tournaments |-> [p \in Players |-> IF t \in Unfinished THEN TeamOf(t, p) ELSE {}]]

Board == INSTANCE TournamentBoard WITH
  stage <- boardStage, team <- boardTeam, champion <- winner

BoardSpec == Board!Spec
-----------------------------------------------------------------------------
(* logic_tests.cpp: two players who find an instance full make a "demand   *)
(* of 2".  The demand for a blueprint is the number of players who want it. *)
DemandCountsPlayers ==
  \A b \in Blueprints :
    Cardinality(Entries(b)) = Cardinality({queue[i].player : i \in Entries(b)})
=============================================================================
