------------------------ MODULE SpecialTournaments ------------------------
(***************************************************************************)
(* The special tournaments: one for every tier of prestige, with a crown   *)
(* holder whose team defends it once a day against the teams of the        *)
(* players of the tier.  The fights of a day are spread over as many       *)
(* blocks as it takes, with moves in between; when the last one is fought  *)
(* the crowns change hands and the other teams are free again.             *)
(*                                                                         *)
(* A behaviour is a run of blocks: some moves, then one step of            *)
(* ProcessSpecialTournaments.  A tier and its row share one number.        *)
(***************************************************************************)
EXTENDS Integers, FiniteSets, FiniteSetsExt

CONSTANTS
  Players, House,         \* Xaya names, numbered in their order; xayatf<tier>
  Fighters, InitialOwner, \* treats, numbered by id
  Wandering,              \* bound: the treats that ever have other business
  TierCount,              \* 7
  TeamSize,               \* 6
  EntryFee,               \* 10 crystals
  MaxBalance,             \* bound: what a player has at most
  FightsPerBlock, MaxBlocks, \* 100 and 120
  Cooldown,               \* 25 hours, in blocks
  Scores,                 \* ten times what an attacker may win a fight with
  BasePrestige, MinStep,  \* 1000 and 500
  Prestiges, Rising,      \* bounds: prestige players have; whose fortunes change
  LeaveFork,              \* from height 5097362 a crown holder may leave
  TierFork,               \* from height 5155363 tiers are rounded
  Nobody

Tiers == 1..TierCount
Names == Players \cup {House[t] : t \in Tiers}

ASSUME SpecialAssumption ==
  /\ TierCount \in Nat \ {0} /\ TeamSize \in Nat \ {0}
  /\ Players \subseteq Nat /\ IsFiniteSet(Players)
  /\ House \in [Tiers -> Nat \ Players] /\ Nobody \notin Names
  /\ \A t, u \in Tiers : House[t] = House[u] => t = u
  /\ Fighters \subseteq Nat /\ IsFiniteSet(Fighters)
  /\ InitialOwner \in [Fighters -> Names]
  /\ \A t \in Tiers : Cardinality({f \in Fighters : InitialOwner[f] = House[t]}) = TeamSize
  /\ Wandering \subseteq {f \in Fighters : InitialOwner[f] \in Players}
  /\ EntryFee \in Nat /\ MaxBalance \in Nat
  /\ FightsPerBlock \in Nat \ {0} /\ MaxBlocks \in Nat \ {0}
  /\ Cooldown \in Nat
  /\ Scores \subseteq Nat \ {0} /\ Scores # {}
  /\ Rising \subseteq Players
  /\ LeaveFork \in BOOLEAN /\ TierFork \in BOOLEAN

(* Prestige fits a 24.8 fixed-point number, and starts above the number of *)
(* tiers.                                                                  *)
ASSUME PrestigeAssumption ==
  /\ BasePrestige \in Nat /\ BasePrestige >= TierCount
  /\ MinStep \in Nat \ {0}
  /\ Prestiges \subseteq Nat /\ \A x \in Prestiges : x <= 8388607
  /\ BasePrestige \in Prestiges

TournamentState == {"Listed", "Calculating"}
FighterStatus == {"Available", "SpecialTournament", "Elsewhere"}
Mark == {"Listed", "Won", "Lost"}

VARIABLES
  holder,     \* crownholder of each tier; Nobody before the row exists
  state,
  owner, status,  \* of the treats; "Elsewhere" is any other business, being born too
  entered,    \* specialtournamentinstanceid; 0 is none
  mark, points,   \* specialtournamentstatus and tournamentpoints
  prestige, tier, \* of the players; specialtournamentprestigetier
  balance,
  elapsed     \* blocks since the day was concluded last, up to Cooldown

treatVars == <<owner, status, entered, mark, points>>
playerVars == <<prestige, tier, balance>>
vars == <<holder, state, treatVars, playerVars, elapsed>>

Exists(t) == holder[t] # Nobody

Init ==
  /\ holder = [t \in Tiers |-> Nobody]
  /\ state = [t \in Tiers |-> "Listed"]
  /\ owner = InitialOwner
  /\ status = [f \in Fighters |-> IF InitialOwner[f] \in Players THEN "Available"
                                  ELSE "Elsewhere"]
  /\ entered = [f \in Fighters |-> 0]
  /\ mark = [f \in Fighters |-> "Listed"]
  /\ points = [f \in Fighters |-> 0]
  /\ prestige = [p \in Names |-> BasePrestige]
  /\ tier = [p \in Names |-> 1]
  /\ balance = [p \in Players |-> MaxBalance]
  /\ elapsed = Cooldown
-----------------------------------------------------------------------------
(***************************************************************************)
(* Tiers.                                                                  *)
(***************************************************************************)

(* std::round of an integer division. *)
Truncated(n, d) == n \div d

(* Division and round of fpm::fixed_24_8, of what is not negative. *)
FixedDivide(n, d) == ((512 * n) \div d + 1) \div 2
FixedRound(raw) == (raw + 128) \div 256
Rounded(n, d) == FixedRound(FixedDivide(n, d))

TierStep(highest) == Max({highest \div TierCount, MinStep})

(* as if the lowest tier were not made 1 *)
TierUnclamped(p, highest, rounded) ==
  IF p < BasePrestige THEN 0 ELSE Truncated(p - BasePrestige, TierStep(highest))

TierOf(p, highest, rounded) ==
  LET over == p - BasePrestige
  IN IF over < 0 THEN 1
     ELSE Max({1, IF rounded THEN Rounded(over, TierStep(highest))
                  ELSE Truncated(over, TierStep(highest))})

TiersOf(pr, rounded) ==
  [p \in Names |-> TierOf(pr[p], Max({pr[q] : q \in Names}), rounded)]

(* PXLogic::RecalculatePlayerTiers after a block, and the copy of it the   *)
(* move processor has for sales.                                           *)
BlockTiers(pr) == TiersOf(pr, TierFork)
SaleTiers(pr) == TiersOf(pr, FALSE)
-----------------------------------------------------------------------------
(***************************************************************************)
(* Moves.                                                                  *)
(***************************************************************************)

(* ParseSpecialTournamentEntryData. *)
MayEnter(p, t, T) ==
  /\ Exists(t)
  /\ t = tier[p]
  /\ state[t] = "Listed"
  /\ Cardinality(T) = TeamSize
  /\ \A f \in T : owner[f] = p /\ status[f] = "Available"
  /\ holder[t] # p
  /\ \A f \in Fighters : owner[f] = p => status[f] # "SpecialTournament"
  /\ balance[p] >= EntryFee

EnterSpecialTournament(p, t, T) ==
  /\ MayEnter(p, t, T)
  /\ status' = [f \in Fighters |-> IF f \in T THEN "SpecialTournament" ELSE status[f]]
  /\ entered' = [f \in Fighters |-> IF f \in T THEN t ELSE entered[f]]
  /\ mark' = [f \in Fighters |-> IF f \in T THEN "Listed" ELSE mark[f]]
  /\ balance' = [balance EXCEPT ![p] = @ - EntryFee]
  /\ UNCHANGED <<holder, state, owner, points, prestige, tier, elapsed>>

(* The team ParseSpecialTournamentLeaveData collects, and its checks. *)
TeamOf(p, t) == {f \in Fighters : owner[f] = p /\ entered[f] = t}

(* as if teams could leave in the middle of the calculation *)
MayLeaveAnytime(p, t) ==
  /\ Exists(t) /\ (holder[t] = p => LeaveFork)
  /\ Cardinality(TeamOf(p, t)) = TeamSize

MayLeave(p, t) ==
  /\ Exists(t)
  /\ holder[t] = p => LeaveFork
  /\ state[t] = "Listed"
  /\ Cardinality(TeamOf(p, t)) = TeamSize

(* as if the scan for the treats of the house stopped one short *)
FirstTreatsButOne(p) ==
  {f \in Fighters : owner[f] = p
     /\ Cardinality({g \in Fighters : owner[g] = p /\ g < f}) < TeamSize - 1}

(* The first treats of a player, by id. *)
FirstTreats(p) ==
  {f \in Fighters : owner[f] = p
     /\ Cardinality({g \in Fighters : owner[g] = p /\ g < f}) < TeamSize}

(* as if a team that leaves kept the number of the tournament *)
RearrangeButStay(T, H, t) ==
  /\ status' = [f \in Fighters |-> IF f \in H THEN "SpecialTournament"
                                   ELSE IF f \in T THEN "Available" ELSE status[f]]
  /\ entered' = [f \in Fighters |-> IF f \in H THEN t ELSE entered[f]]
  /\ mark' = [f \in Fighters |-> IF f \in T \cup H THEN "Listed" ELSE mark[f]]
  /\ UNCHANGED <<owner, points, playerVars, elapsed>>

(* Treats in T are free; treats in H hold the crown of t. *)
Rearrange(T, H, t) ==
  /\ status' = [f \in Fighters |-> IF f \in H THEN "SpecialTournament"
                                   ELSE IF f \in T THEN "Available" ELSE status[f]]
  /\ entered' = [f \in Fighters |-> IF f \in H THEN t ELSE IF f \in T THEN 0 ELSE entered[f]]
  /\ mark' = [f \in Fighters |-> IF f \in T \cup H THEN "Listed" ELSE mark[f]]
  /\ UNCHANGED <<owner, points, playerVars, elapsed>>

LeaveSpecialTournament(p, t) ==
  /\ MayLeave(p, t) /\ holder[t] # p
  /\ Rearrange(TeamOf(p, t), {}, t)
  /\ UNCHANGED <<holder, state>>

(* The crown of one who leaves goes back to the house. *)
AbdicateCrown(p, t) ==
  /\ MayLeave(p, t) /\ holder[t] = p
  /\ Rearrange(TeamOf(p, t), FirstTreats(House[t]), t)
  /\ holder' = [holder EXCEPT ![t] = House[t]]
  /\ state' = [state EXCEPT ![t] = "Listed"]

(* Expeditions, ovens, tournaments and what else keeps a treat busy. *)
Wander(f) ==
  /\ status[f] # "SpecialTournament"
  /\ status' = [status EXCEPT ![f] = IF @ = "Available" THEN "Elsewhere" ELSE "Available"]
  /\ UNCHANGED <<holder, state, owner, entered, mark, points, playerVars, elapsed>>

(* A treat on the exchange is sold: prestige and tiers follow. *)
Sell(f, p) ==
  /\ status[f] = "Elsewhere"
  /\ owner' = [owner EXCEPT ![f] = p]
  /\ status' = [status EXCEPT ![f] = "Available"]
  /\ prestige' \in {pr \in [Names -> Prestiges] :
       \A q \in Names \ (Rising \cap {p, owner[f]}) : pr[q] = prestige[q]}
  /\ tier' = SaleTiers(prestige')
  /\ UNCHANGED <<holder, state, entered, mark, points, balance, elapsed>>

(* Ratings and crystals come and go. *)
Prosper(p, v, b) ==
  /\ prestige' = [prestige EXCEPT ![p] = v]
  /\ balance' = [balance EXCEPT ![p] = b]
  /\ UNCHANGED <<holder, state, treatVars, tier, elapsed>>

OtherMoves ==
  \/ \E f \in Wandering : Wander(f) \/ \E p \in Players : Sell(f, p)
  \/ \E p \in Rising, v \in Prestiges, b \in 0..MaxBalance : Prosper(p, v, b)
-----------------------------------------------------------------------------
(***************************************************************************)
(* ProcessSpecialTournaments, at the end of every block.                   *)
(***************************************************************************)
Listed == {f \in Fighters : status[f] = "SpecialTournament" /\ mark[f] = "Listed"}
Due == elapsed >= Cooldown

(* Without a single listed treat the rows and the house teams are made. *)
CreateTiers ==
  /\ Listed = {}
  /\ holder' = House
  /\ state' = [t \in Tiers |-> IF Due THEN "Calculating" ELSE "Listed"]
  /\ LET t(f) == CHOOSE u \in Tiers : House[u] = owner[f]
         home == {f \in Fighters : owner[f] \notin Players}
     IN /\ status' = [f \in Fighters |-> IF f \in home THEN "SpecialTournament" ELSE status[f]]
        /\ entered' = [f \in Fighters |-> IF f \in home THEN t(f) ELSE entered[f]]
        /\ mark' = [f \in Fighters |-> IF f \in home THEN "Listed" ELSE mark[f]]
  /\ tier' = BlockTiers(prestige)
  /\ elapsed' = Min({elapsed + 1, Cooldown})
  /\ UNCHANGED <<owner, points, prestige, balance>>

PassTime ==
  /\ Listed # {} /\ ~Due
  /\ elapsed' = elapsed + 1
  /\ UNCHANGED <<holder, state, treatVars, playerVars>>

(* A fight is a tier and the name of an attacker: those left, how many     *)
(* that makes by the count of treats, and how many of them a block takes.  *)
Team(p, t) == {f \in Listed : owner[f] = p /\ entered[f] = t}
(* as if the holder's own team had to fight as well *)
LeftWithDefenders == {c \in Tiers \X Names : Team(c[2], c[1]) # {}}
(* as if the loop over the tiers stopped one short *)
LeftButLastTier == {c \in (1..TierCount - 1) \X Names : c[2] # holder[c[1]] /\ Team(c[2], c[1]) # {}}
Left == {c \in Tiers \X Names : c[2] # holder[c[1]] /\ Team(c[2], c[1]) # {}}
FightsToProcess == (Cardinality(Listed) - TierCount * TeamSize) \div TeamSize
PaceOf(n) == IF n \div FightsPerBlock > MaxBlocks THEN n \div MaxBlocks ELSE FightsPerBlock
Pace == PaceOf(FightsToProcess)

(* The loops over tiers and names stop at the first fight beyond the pace. *)
Before(c) == {d \in Left : d[1] < c[1] \/ (d[1] = c[1] /\ d[2] < c[2])}
Fought == {c \in Left : Cardinality(Before(c)) <= Pace}
Reached == {t \in Tiers : Cardinality({c \in Left : c[1] < t}) <= Pace}

(* ResolveSpecialTournamentFight looks at nothing but whole teams.  A won  *)
(* fight has a score, a lost one or a draw has none.                       *)
FightOf(f) == <<entered[f], owner[f]>>
Whole(p, t) == Cardinality(Team(p, t)) = TeamSize
Resolved == {c \in Fought : Whole(c[2], c[1]) /\ Whole(holder[c[1]], c[1])}
Outcomes == [Resolved -> {0} \cup Scores]

Judged(score) == {f \in Listed : FightOf(f) \in DOMAIN score}
Marks(score) ==
  [f \in Fighters |-> IF f \notin Judged(score) THEN mark[f]
                      ELSE IF score[FightOf(f)] > 0 THEN "Won" ELSE "Lost"]
Points(score) ==
  [f \in Fighters |-> IF f \in Judged(score) THEN score[FightOf(f)] ELSE points[f]]

(* There are fights left for the next block. *)
CalculateResults(score) ==
  /\ FightsToProcess # Cardinality(Fought)
  /\ state' = [t \in Tiers |-> IF t \in Reached THEN "Calculating" ELSE state[t]]
  /\ mark' = Marks(score)
  /\ points' = Points(score)
  /\ UNCHANGED <<holder, status, entered, tier, elapsed>>

(* The winners of a tier with the marks m, the points of one, and those a  *)
(* scan in the order of names keeps: every one not behind an earlier one.  *)
WinningTreats(p, t, m) ==
  {f \in Fighters : /\ owner[f] = p /\ entered[f] = t
                    /\ status[f] = "SpecialTournament" /\ m[f] = "Won"}
Winners(t, m) == {p \in Names \ {holder[t]} : WinningTreats(p, t, m) # {}}
TotalPoints(p, t, m, pts) == MapThenSumSet(LAMBDA f : pts[f], WinningTreats(p, t, m))
Candidates(t, m, pts) ==
  {p \in Winners(t, m) : \A q \in Winners(t, m) :
     q < p => TotalPoints(q, t, m, pts) <= TotalPoints(p, t, m, pts)}

NewHolder(t, m, pts) ==
  IF Winners(t, m) = {} THEN {holder[t]} ELSE Candidates(t, m, pts)

(* The last fights are fought: new holders, and the others are free. *)
ConcludeDay(score) ==
  /\ FightsToProcess = Cardinality(Fought)
  /\ LET m == Marks(score) pts == Points(score)
     IN /\ holder' \in {h \in [Tiers -> Names] : \A t \in Tiers : h[t] \in NewHolder(t, m, pts)}
        /\ LET stays(f) == status[f] = "SpecialTournament" /\ owner[f] = holder'[entered[f]]
               goes(f) == status[f] = "SpecialTournament" /\ owner[f] # holder'[entered[f]]
           IN /\ status' = [f \in Fighters |-> IF goes(f) THEN "Available" ELSE status[f]]
              /\ entered' = [f \in Fighters |-> IF goes(f) THEN 0 ELSE entered[f]]
              /\ mark' = [f \in Fighters |-> IF stays(f) THEN "Listed" ELSE m[f]]
        /\ points' = pts
  /\ state' = [t \in Tiers |-> "Listed"]
  /\ tier' = BlockTiers(prestige)
  /\ elapsed' = 0

PlayFights ==
  /\ Listed # {} /\ Due
  /\ UNCHANGED <<owner, prestige, balance>>
  /\ \E score \in Outcomes : CalculateResults(score) \/ ConcludeDay(score)

ProcessSpecialTournaments == CreateTiers \/ PassTime \/ PlayFights
-----------------------------------------------------------------------------
Move ==
  \/ \E p \in Players, t \in Tiers :
       \/ \E T \in SUBSET {f \in Fighters : owner[f] = p} : EnterSpecialTournament(p, t, T)
       \/ LeaveSpecialTournament(p, t) \/ AbdicateCrown(p, t)
  \/ OtherMoves

Next == Move \/ ProcessSpecialTournaments

Spec == Init /\ [][Next]_vars

(* Blocks keep coming; no player has to move. *)
FairSpec == Spec /\ WF_vars(ProcessSpecialTournaments)
-----------------------------------------------------------------------------
(***************************************************************************)
(* What the code promises of special tournaments.                          *)
(***************************************************************************)

(* Types; a player is never in a tier that has no tournament.              *)
TypeOK ==
  /\ holder \in [Tiers -> Names \cup {Nobody}]
  /\ state \in [Tiers -> TournamentState]
  /\ owner \in [Fighters -> Names] /\ status \in [Fighters -> FighterStatus]
  /\ entered \in [Fighters -> {0} \cup Tiers]
  /\ mark \in [Fighters -> Mark] /\ points \in [Fighters -> Nat]
  /\ prestige \in [Names -> Prestiges] /\ tier \in [Names -> Tiers]
  /\ balance \in [Players -> 0..MaxBalance]
  /\ elapsed \in 0..Cooldown

(* A team is a whole one, in one tournament and with one verdict, and the  *)
(* treats in it are those that are busy with a special tournament: nothing *)
(* tears a team apart from its entry to the end of the day.                *)
TeamsStayTogether ==
  /\ \A f \in Fighters : status[f] = "SpecialTournament" <=> entered[f] # 0
  /\ \A p \in Names :
       LET T == {f \in Fighters : owner[f] = p /\ entered[f] # 0}
       IN /\ T # {} => Cardinality(T) = TeamSize
          /\ \A f, g \in T : entered[f] = entered[g] /\ mark[f] = mark[g]

(* Every crown has a holder with a whole listed team to defend it, at any  *)
(* moment of the day, and nobody holds two.                                *)
CrownsDefended ==
  \A t \in Tiers : Exists(t) =>
    /\ Cardinality(Team(holder[t], t)) = TeamSize
    /\ \A u \in Tiers : holder[u] = holder[t] => u = t

(* The number of fights, which the code gets from a count of treats and a  *)
(* division, is the number of teams that wait for one: the day can end.    *)
FightsCounted ==
  (\E t \in Tiers : Exists(t)) => FightsToProcess = Cardinality(Left)

(* The race a player is in, and the verdict on the team.                   *)
TreatsOf(p) == {f \in Fighters : owner[f] = p /\ entered[f] # 0}
RaceOf(p) == IF TreatsOf(p) = {} THEN 0 ELSE entered[CHOOSE f \in TreatsOf(p) : TRUE]
VerdictOn(p) ==
  IF \E f \in TreatsOf(p) : mark[f] = "Won" THEN "won"
  ELSE IF \E f \in TreatsOf(p) : mark[f] = "Lost" THEN "lost" ELSE "none"

(* The race the players see: holders of rows, teams and marks.             *)
Holds(p) == \E t \in Tiers : holder[t] = p
openRaces == {t \in Tiers : state[t] = "Listed"}
challenges == [p \in Players |-> IF Holds(p) THEN 0 ELSE RaceOf(p)]
verdicts == [p \in Players |-> IF Holds(p) THEN "none" ELSE VerdictOn(p)]

Race == INSTANCE CrownRace WITH
  crown <- holder, open <- openRaces, challenge <- challenges, verdict <- verdicts

(* Moves and blocks are nothing but a crown race: a judged team cannot     *)
(* escape its verdict, nobody enters a race whose fights have begun, and a *)
(* crown changes hands at the end of the day or by abdication alone.       *)
CrownRaceSpec == Race!Spec

(* Whoever enters is answered: again and again a day ends with every team  *)
(* free or holding the crown, however many blocks its fights take and      *)
(* whoever enters meanwhile.                                               *)
Challenges(p) == \E f \in TreatsOf(p) : holder[entered[f]] # p
ChallengersAnswered == []<>(\A p \in Players : ~Challenges(p))

(* logic.cpp:992: of several winners the one with more points is the new   *)
(* crown holder.                                                           *)
MostPointsWin ==
  [][\A p \in Players, q \in Names, t \in Tiers :
       /\ holder[t] # p /\ holder'[t] = p
       /\ q # holder[t]
       => \A f, g \in Fighters :
            /\ owner[f] = p /\ entered[f] = t
            /\ owner[g] = q /\ entered[g] = t /\ mark'[g] = "Won"
            => points'[g] <= points'[f]]_vars
=============================================================================
