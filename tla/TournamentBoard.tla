-------------------------- MODULE TournamentBoard --------------------------
(***************************************************************************)
(* What players see of the tournaments, whatever happens inside a block:   *)
(* tournaments open, teams join and leave while they are open, a full one  *)
(* is played with the teams it has, and when it is over it has a champion, *)
(* who played in it, and all its treats are free.  A treat is in one team. *)
(***************************************************************************)
CONSTANTS Players, Nobody, Fighters, Tournaments

VARIABLES
  stage,      \* "unknown", "open", "playing" or "over"
  team,       \* the treats each player has in each tournament
  champion    \* Nobody as long as there is none

vars == <<stage, team, champion>>

NoTeams == [p \in Players |-> {}]

(* No treat plays for two teams. *)
Unclaimed(S) == \A t \in Tournaments, p \in Players : S \cap team[t][p] = {}

Init ==
  /\ stage = [t \in Tournaments |-> "unknown"]
  /\ team = [t \in Tournaments |-> NoTeams]
  /\ champion = [t \in Tournaments |-> Nobody]

Open(T) ==
  /\ T # {} /\ \A t \in T : stage[t] = "unknown"
  /\ stage' = [t \in Tournaments |-> IF t \in T THEN "open" ELSE stage[t]]
  /\ UNCHANGED <<team, champion>>

Join(t, p, S) ==
  /\ stage[t] = "open"
  /\ team[t][p] = {} /\ S # {} /\ Unclaimed(S)
  /\ team' = [team EXCEPT ![t] = [@ EXCEPT ![p] = S]]
  /\ UNCHANGED <<stage, champion>>

Leave(t, p) ==
  /\ stage[t] = "open"
  /\ team[t][p] # {}
  /\ team' = [team EXCEPT ![t] = [@ EXCEPT ![p] = {}]]
  /\ UNCHANGED <<stage, champion>>

(* Nobody plays alone. *)
Start(t) ==
  /\ stage[t] = "open"
  /\ \E p, q \in Players : p # q /\ team[t][p] # {} /\ team[t][q] # {}
  /\ stage' = [stage EXCEPT ![t] = "playing"]
  /\ UNCHANGED <<team, champion>>

Finish(t, p) ==
  /\ stage[t] = "playing"
  /\ team[t][p] # {}
  /\ stage' = [stage EXCEPT ![t] = "over"]
  /\ champion' = [champion EXCEPT ![t] = p]
  /\ team' = [team EXCEPT ![t] = NoTeams]

Next ==
  \/ \E T \in SUBSET Tournaments : Open(T)
  \/ \E t \in Tournaments, p \in Players :
       \/ \E S \in SUBSET Fighters : Join(t, p, S)
       \/ Leave(t, p) \/ Finish(t, p)
  \/ \E t \in Tournaments : Start(t)

Spec == Init /\ [][Next]_vars
=============================================================================
