----------------------------- MODULE CrownRace -----------------------------
(***************************************************************************)
(* What players see of the special tournaments: challengers of a crown     *)
(* come and go while its race is open; once it is closed each of them gets *)
(* a verdict and nobody comes or goes; when every challenger of every race *)
(* has one the day is over: a crown goes to a challenger who won, stays    *)
(* where it is if nobody did, and the races are open again.                *)
(***************************************************************************)
EXTENDS Naturals

CONSTANTS Players, Tiers, House, Nobody

VARIABLES
  crown,      \* the holder of each tier; Nobody before the first day
  open,       \* the tiers with an open race
  challenge,  \* the tier a player challenges the holder of, 0 if none
  verdict     \* "none", "won" or "lost"

vars == <<crown, open, challenge, verdict>>

Init ==
  /\ crown = [t \in Tiers |-> Nobody]
  /\ open = Tiers
  /\ challenge = [p \in Players |-> 0]
  /\ verdict = [p \in Players |-> "none"]

Challengers == {p \in Players : challenge[p] # 0}

(* The first day begins, with the houses in place. *)
Begin ==
  /\ \A t \in Tiers : crown[t] = Nobody
  /\ crown' = House
  /\ open' \in {Tiers, {}}
  /\ UNCHANGED <<challenge, verdict>>

(* Nobody is in two races, as a holder or as a challenger. *)
Challenge(p, t) ==
  /\ t \in open /\ crown[t] # Nobody
  /\ challenge[p] = 0 /\ \A u \in Tiers : crown[u] # p
  /\ challenge' = [challenge EXCEPT ![p] = t]
  /\ UNCHANGED <<crown, open, verdict>>

Withdraw(p) ==
  /\ challenge[p] \in open
  /\ challenge' = [challenge EXCEPT ![p] = 0]
  /\ verdict' = [verdict EXCEPT ![p] = "none"]
  /\ UNCHANGED <<crown, open>>

Abdicate(p, t) ==
  /\ crown[t] = p /\ t \in open
  /\ crown' = [crown EXCEPT ![t] = House[t]]
  /\ UNCHANGED <<open, challenge, verdict>>

(* Some more challengers, all of closed races, have a verdict that stays. *)
Judge(v) ==
  /\ \A p \in Players : verdict[p] # "none" => v[p] = verdict[p]
  /\ \A p \in Players : v[p] # "none" => p \in Challengers

Fight(v, shut) ==
  /\ \A t \in Tiers : crown[t] # Nobody
  /\ Judge(v)
  /\ \A p \in Players : v[p] # "none" => challenge[p] \in shut
  /\ open' = open \ shut
  /\ verdict' = v
  /\ UNCHANGED <<crown, challenge>>

Conclude(v) ==
  /\ \A t \in Tiers : crown[t] # Nobody
  /\ Judge(v)
  /\ \A p \in Challengers : v[p] # "none"
  /\ \A t \in Tiers :
       LET winners == {p \in Challengers : challenge[p] = t /\ v[p] = "won"}
       IN IF winners = {} THEN crown'[t] = crown[t] ELSE crown'[t] \in winners
  /\ crown' \in [Tiers -> Players \cup {House[t] : t \in Tiers}]
  /\ open' = Tiers
  /\ challenge' = [p \in Players |-> 0]
  /\ verdict' = [p \in Players |-> "none"]

Next ==
  \/ Begin
  \/ \E p \in Players, t \in Tiers : Challenge(p, t) \/ Withdraw(p) \/ Abdicate(p, t)
  \/ \E v \in [Players -> {"none", "won", "lost"}] :
       \/ \E shut \in SUBSET Tiers : Fight(v, shut)
       \/ Conclude(v)

Spec == Init /\ [][Next]_vars
=============================================================================
