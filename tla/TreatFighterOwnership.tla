----------------------- MODULE TreatFighterOwnership -----------------------
(***************************************************************************)
(* Theorems about TreatFighter: what players own, for all values of the    *)
(* constants.                                                              *)
(***************************************************************************)
EXTENDS TreatFighterProofs, Counting

(***************************************************************************)
(* A row that is not there belongs to nobody and is not bound to anybody,  *)
(* and what is bound is not listed.                                        *)
(***************************************************************************)
Rows ==
  \A f \in Fighters : /\ status[f] \in Absent => owner[f] = Nobody /\ ~bound[f]
                      /\ status[f] = "Exchange" => ~bound[f]

IndRows == IndType /\ Rows

LEMMA RowsStep ==
  ASSUME IndRows, Next
  PROVE  Rows'
<1> USE DEF IndRows, IndType, TypeInv, TypeOK, Rows, Absent
<1> DEFINE Kept(f) == \/ owner'[f] = Nobody /\ ~bound'[f] /\ status'[f] # "Exchange"
                      \/ /\ owner'[f] = owner[f] /\ bound'[f] = bound[f]
                         /\ status'[f] \in Absent => status[f] \in Absent
                         /\ status'[f] = "Exchange" => status[f] = "Exchange"
                      \/ status'[f] \notin Absent \cup {"Exchange"}
                      \/ status'[f] \notin Absent /\ ~bound'[f]
<1>1. CASE Move
  <2> PICK p \in Players : CookMove(p) \/ ExpeditionMove(p) \/ FighterMove(p)
    BY <1>1 DEF Move
  <2>1. CASE CookMove(p)
    <3>1. ASSUME NEW r, NEW f, CookRecipe(p, r, f) PROVE \A g \in Fighters : Kept(g)
      BY <3>1 DEF CookRecipe, DeleteTreats, SetStatus
    <3>2. ASSUME NEW R, DestroyRecipes(p, R) PROVE \A g \in Fighters : Kept(g)
      BY <3>2 DEF DestroyRecipes, fighterVars
    <3>3. ASSUME NEW f, CollectCooked(p, f) \/ CookSweetener(p, f) \/ ClaimSweetener(p, f)
          PROVE  \A g \in Fighters : Kept(g)
      BY <3>3 DEF CollectCooked, CookSweetener, ClaimSweetener, SetStatus, fighterVars
    <3>4. \A g \in Fighters : Kept(g)
      BY <2>1, <3>1, <3>2, <3>3 DEF CookMove
    <3> QED
      BY <3>4
  <2>2. CASE ExpeditionMove(p)
    BY <2>2 DEF ExpeditionMove, GoExpedition, ClaimExpeditions, SetStatus, fighterVars
  <2>3. CASE FighterMove(p)
    <3>1. ASSUME NEW f, Deconstruct(p, f) \/ ClaimDeconstruction(p, f)
          PROVE  \A g \in Fighters : Kept(g)
      <4>1. CASE Deconstruct(p, f)
        BY <4>1 DEF Deconstruct, SetStatus
      <4>2. CASE ClaimDeconstruction(p, f)
        <5>1. /\ \A g \in Fighters : bound'[g] = (bound[g] /\ g \notin {f})
              /\ \A g \in Fighters : owner'[g] = IF g \in {f} THEN Nobody ELSE owner[g]
              /\ \A g \in Fighters : status'[g] = IF g \in {f} THEN "Deleted" ELSE status[g]
          BY <4>2 DEF ClaimDeconstruction, DeleteTreats, SetStatus
        <5>2. \A g \in Fighters : g # f => Kept(g)
          BY <5>1
        <5>3. f \in Fighters => Kept(f)
          BY <5>1
        <5> QED
          BY <5>2, <5>3
      <4> QED
        BY <3>1, <4>1, <4>2
    <3>2. ASSUME NEW f \in Fighters, Unlist(p, f) \/ Buy(p, f) PROVE \A g \in Fighters : Kept(g)
      <4>1. \A g \in Fighters : /\ status'[g] = IF g = f THEN "Available" ELSE status[g]
                                /\ g # f => owner'[g] = owner[g]
                                /\ bound'[g] = bound[g]
        BY <3>2 DEF Unlist, Buy, Delist, SetStatus
      <4> QED
        BY <4>1
    <3>3. ASSUME NEW f, NEW x, NEW d, Sell(p, f, x, d) PROVE \A g \in Fighters : Kept(g)
      <4>1. \A g \in Fighters : status'[g] = IF g = f THEN "Exchange" ELSE status[g]
        BY <3>3 DEF Sell, SetStatus
      <4>2. owner' = owner /\ bound' = bound /\ ~bound[f]
        BY <3>3 DEF Sell, ParseFighterForSaleData, MayList
      <4> QED
        BY <4>1, <4>2
    <3>4. ASSUME NEW f, NEW S, NEW R, NEW c, Transfigure(p, f, S, R, c)
          PROVE  \A g \in Fighters : Kept(g)
      BY <3>4 DEF Transfigure, DestroyUsedElements
    <3>5. \A g \in Fighters : Kept(g)
      BY <2>3, <3>1, <3>2, <3>3, <3>4 DEF FighterMove
    <3> QED
      BY <3>5
  <2> QED
    BY <2>1, <2>2, <2>3
<1>2. CASE BlockStep
  <2>1. CASE ResolveStep
    <3>1. ASSUME NEW o, ResolveExpedition(o) PROVE \A g \in Fighters : Kept(g)
      BY <3>1 DEF ResolveExpedition, SetStatus
    <3>2. ASSUME NEW o, FailCooking(o) PROVE \A g \in Fighters : Kept(g)
      BY <3>2 DEF FailCooking, fighterVars
    <3>3. ASSUME NEW o, NEW f, CookTreat(o, f) PROVE \A g \in Fighters : Kept(g)
      BY <3>3 DEF CookTreat, SetStatus
    <3>4. ASSUME NEW o, ResolveSweetener(o) PROVE \A g \in Fighters : Kept(g)
      BY <3>4 DEF ResolveSweetener, SetStatus
    <3>5. ASSUME NEW o, ResolveDeconstruction(o) PROVE \A g \in Fighters : Kept(g)
      BY <3>5 DEF ResolveDeconstruction, fighterVars
    <3>6. \A g \in Fighters : Kept(g)
      BY <2>1, <3>1, <3>2, <3>3, <3>4, <3>5 DEF ResolveStep
    <3> QED
      BY <3>6
  <2>2. CASE BeginBlock
    BY <2>2 DEF BeginBlock
  <2>3. CASE TickOngoings
    BY <2>3 DEF TickOngoings, fighterVars
  <2>4. CASE CheckFightersForSale
    BY <2>4 DEF CheckFightersForSale, Delist, SetStatus
  <2> QED
    BY <1>2, <2>1, <2>2, <2>3, <2>4 DEF BlockStep
<1> QED
  BY <1>1, <1>2 DEF Next

(***************************************************************************)
(* Who a treat passes to: it goes away, or one treat that is not bound     *)
(* passes to a player whose roster is not over its limit yet.  The slot     *)
(* check of a purchase counts what is in the oven, so operations have to   *)
(* be finitely many.                                                       *)
(***************************************************************************)
Leaves == \A g \in Fighters : owner'[g] \in {owner[g], Nobody}
Passes(f, p) == /\ f \in Fighters /\ p \in Players /\ ~bound[f]
                /\ Cardinality(Roster(p)) <= MaxFighters
                /\ owner' = [owner EXCEPT ![f] = p]

LEMMA OwnerStep ==
  ASSUME IndRows, IsFiniteSet(ongoings), Next
  PROVE  Leaves \/ \E f \in Fighters, p \in Players : Passes(f, p)
<1> USE DEF IndRows, IndType, TypeInv, TypeOK
<1> USE DEF Leaves
<1>1. CASE Move
  <2> PICK p \in Players : CookMove(p) \/ ExpeditionMove(p) \/ FighterMove(p)
    BY <1>1 DEF Move
  <2>1. CASE CookMove(p)
    <3>1. ASSUME NEW r, NEW f, CookRecipe(p, r, f) PROVE Leaves
      BY <3>1 DEF CookRecipe, DeleteTreats
    <3>2. ASSUME NEW R, DestroyRecipes(p, R) PROVE owner' = owner
      BY <3>2 DEF DestroyRecipes, fighterVars
    <3>3. ASSUME NEW f, CollectCooked(p, f) \/ CookSweetener(p, f) \/ ClaimSweetener(p, f)
          PROVE  owner' = owner
      BY <3>3 DEF CollectCooked, CookSweetener, ClaimSweetener, fighterVars
    <3>4. Leaves
      BY <2>1, <3>1, <3>2, <3>3 DEF CookMove
    <3> QED
      BY <3>4
  <2>2. CASE ExpeditionMove(p)
    BY <2>2 DEF ExpeditionMove, GoExpedition, ClaimExpeditions, fighterVars
  <2>3. CASE FighterMove(p)
    <3>1. ASSUME NEW f, Deconstruct(p, f) \/ ClaimDeconstruction(p, f) \/ Unlist(p, f)
          PROVE  Leaves
      BY <3>1 DEF Deconstruct, ClaimDeconstruction, DeleteTreats, Unlist
    <3>2. ASSUME NEW f, NEW x, NEW d, Sell(p, f, x, d) PROVE Leaves
      BY <3>2 DEF Sell
    <3>3. ASSUME NEW f, NEW S, NEW R, NEW c, Transfigure(p, f, S, R, c) PROVE Leaves
      BY <3>3 DEF Transfigure, DestroyUsedElements
    <3>4. ASSUME NEW f \in Fighters, Buy(p, f) PROVE Passes(f, p)
      <4>1. IsFiniteSet(CookingOf(p)) /\ IsFiniteSet(Roster(p))
        <5>1. CookingOf(p) \in SUBSET ongoings /\ Roster(p) \in SUBSET Fighters
          BY DEF CookingOf, Cooking, Roster
        <5> QED
          BY <5>1, FS_Subset, SetsAssumption
      <4>2. Cardinality(CookingOf(p)) \in Nat /\ Cardinality(Roster(p)) \in Nat
        BY <4>1, FS_CardinalityType
      <4>3. Cardinality(Roster(p)) + Cardinality(CookingOf(p)) <= MaxFighters
        BY <3>4 DEF Buy, ParseBuyData, HasSlots
      <4>4. Cardinality(Roster(p)) <= MaxFighters
        BY <4>2, <4>3, NumbersAssumption
      <4>5. ~bound[f]
        BY <3>4 DEF Buy, ParseBuyData, Rows
      <4> QED
        BY <3>4, <4>4, <4>5 DEF Buy, Passes
    <3> QED
      BY <2>3, <3>1, <3>2, <3>3, <3>4 DEF FighterMove
  <2> QED
    BY <2>1, <2>2, <2>3
<1>2. CASE BlockStep
  <2>1. CASE ResolveStep
    <3>1. ASSUME NEW o, \/ ResolveExpedition(o) \/ FailCooking(o)
                        \/ ResolveSweetener(o) \/ ResolveDeconstruction(o)
          PROVE  Leaves
      <4>1. owner' = owner
        BY <3>1 DEF ResolveExpedition, FailCooking, ResolveSweetener,
                    ResolveDeconstruction, fighterVars
      <4> QED
        BY <4>1
    <3>2. ASSUME NEW o \in Due("COOK_RECIPE"), NEW f \in Fresh, CookTreat(o, f)
          PROVE  f \in Fighters /\ o.player \in Players /\ Passes(f, o.player)
      <4>1. o.player \in Players
        BY DEF Due, Ongoing
      <4>2. IsFiniteSet(Roster(o.player))
        <5>1. Roster(o.player) \in SUBSET Fighters
          BY DEF Roster
        <5> QED
          BY <5>1, FS_Subset, SetsAssumption
      <4>3. Cardinality(Roster(o.player)) <= MaxFighters
        BY <3>2, <4>2, FS_CardinalityType, NumbersAssumption DEF CookTreat
      <4>4. f \in Fighters /\ ~bound[f]
        BY DEF Fresh, Rows, Absent
      <4> QED
        BY <3>2, <4>1, <4>3, <4>4 DEF CookTreat, Passes
    <3> QED
      BY <2>1, <3>1, <3>2 DEF ResolveStep
  <2>2. CASE BeginBlock \/ TickOngoings \/ CheckFightersForSale
    BY <2>2 DEF BeginBlock, TickOngoings, CheckFightersForSale, fighterVars
  <2> QED
    BY <1>2, <2>1, <2>2 DEF BlockStep
<1> QED
  BY <1>1, <1>2 DEF Next

LEMMA FiniteOngoingsStep ==
  ASSUME IndType, IsFiniteSet(ongoings), Next
  PROVE  IsFiniteSet(ongoings')
<1>1. \A o : IsFiniteSet(ongoings \cup {o}) /\ IsFiniteSet(ongoings \ {o})
  BY FS_AddElement, FS_RemoveElement
<1>2. CASE Move
  <2> PICK p \in Players : CookMove(p) \/ ExpeditionMove(p) \/ FighterMove(p)
    BY <1>2 DEF Move
  <2>1. CASE CookMove(p)
    BY <1>1, <2>1 DEF CookMove, CookRecipe, DestroyRecipes, CollectCooked, CookSweetener,
                      ClaimSweetener
  <2>2. CASE ExpeditionMove(p)
    <3>1. ASSUME NEW e, NEW S \in SUBSET Roster(p), GoExpedition(p, e, S)
          PROVE  IsFiniteSet(ongoings')
      <4> DEFINE n == [f \in S |-> [NewOngoing(p, "EXPEDITION",
                                      Duration("EXPEDITION", inv[p]["espresso"] > 0))
                                    EXCEPT !.fighter = f, !.expedition = e]]
                 N == {n[f] : f \in S}
      <4>1. ongoings' = ongoings \cup N
        BY <3>1 DEF GoExpedition
      <4> HIDE DEF n
      <4>2. S \in SUBSET Fighters /\ IsFiniteSet(Fighters)
        BY SetsAssumption DEF Roster
      <4>3. IsFiniteSet(S)
        BY <4>2, FS_Subset
      <4>4. n \in Surjection(S, N)
        BY DEF Surjection, n
      <4>5. IsFiniteSet(N)
        BY <4>3, <4>4, FS_Surjection
      <4> QED
        BY <4>1, <4>5, FS_Union
    <3>2. ASSUME NEW E, ClaimExpeditions(p, E) PROVE IsFiniteSet(ongoings')
      BY <3>2 DEF ClaimExpeditions
    <3> QED
      BY <2>2, <3>1, <3>2 DEF ExpeditionMove
  <2>3. CASE FighterMove(p)
    BY <1>1, <2>3 DEF FighterMove, Deconstruct, ClaimDeconstruction, Unlist, Buy, Sell,
                      Transfigure
  <2> QED
    BY <2>1, <2>2, <2>3
<1>3. CASE BlockStep
  <2>1. CASE TickOngoings
    <3> DEFINE tick == [o \in ongoings |-> Tick(o)]
               T == {Tick(o) : o \in ongoings}
    <3>1. tick \in Surjection(ongoings, T)
      BY DEF Surjection
    <3>2. IsFiniteSet(T)
      <4> HIDE DEF tick, T
      <4> QED
        BY <3>1, FS_Surjection
    <3> QED
      BY <2>1, <3>2 DEF TickOngoings
  <2>2. CASE ResolveStep
    BY <1>1, <2>2 DEF ResolveStep, ResolveExpedition, FailCooking, CookTreat,
                      ResolveSweetener, ResolveDeconstruction, Resolve
  <2>3. CASE BeginBlock \/ CheckFightersForSale
    BY <2>3 DEF BeginBlock, CheckFightersForSale
  <2> QED
    BY <1>3, <2>1, <2>2, <2>3 DEF BlockStep
<1> QED
  BY <1>2, <1>3 DEF Next

(***************************************************************************)
(* The invariant of ownership, and what it implies.                        *)
(***************************************************************************)
IndOwners == IndRows /\ IsFiniteSet(ongoings) /\ RosterBounded

LEMMA RosterStep ==
  ASSUME IndOwners, IndType', Next
  PROVE  RosterBounded'
<1> SUFFICES ASSUME NEW q \in Players
             PROVE  Cardinality(Roster(q)') <= MaxFighters + 1
  BY DEF RosterBounded
<1> USE DEF IndOwners, IndRows, IndType, TypeInv, TypeOK
<1>1. /\ Roster(q) \in SUBSET Fighters /\ Roster(q)' \in SUBSET Fighters
      /\ IsFiniteSet(Fighters)
  BY SetsAssumption DEF Roster
<1>2. /\ IsFiniteSet(Roster(q)) /\ IsFiniteSet(Roster(q)')
      /\ Cardinality(Roster(q)) \in Nat /\ Cardinality(Roster(q)') \in Nat
  BY <1>1, FS_Subset, FS_CardinalityType
<1>3. Cardinality(Roster(q)) <= MaxFighters + 1 /\ MaxFighters \in Nat
  BY NumbersAssumption DEF RosterBounded
<1>4. CASE Roster(q)' \subseteq Roster(q)
  <2>1. Cardinality(Roster(q)') <= Cardinality(Roster(q))
    BY <1>2, <1>4, FS_Subset
  <2> QED
    BY <1>2, <1>3, <2>1
<1>5. CASE Leaves
  <2>1. q # Nobody
    BY SetsAssumption
  <2>2. \A g \in Fighters : owner'[g] = q => owner[g] = q
    BY <1>5, <2>1 DEF Leaves
  <2> QED
    BY <1>4, <2>2 DEF Roster
<1>6. ASSUME NEW f \in Fighters, NEW p \in Players, Passes(f, p)
      PROVE  Cardinality(Roster(q)') <= MaxFighters + 1
  <2>1. \A g \in Fighters : owner'[g] = IF g = f THEN p ELSE owner[g]
    BY <1>6 DEF Passes
  <2>2. CASE p # q
    BY <1>4, <2>1, <2>2 DEF Roster
  <2>3. CASE p = q
    <3>1. Roster(q)' = Roster(q) \cup {f}
      BY <2>1, <2>3 DEF Roster
    <3>2. Cardinality(Roster(q) \cup {f}) <= Cardinality(Roster(q)) + 1
      <4> DEFINE R == Roster(q)
      <4> HIDE DEF R
      <4>1. Cardinality(R \cup {f}) = IF f \in R THEN Cardinality(R) ELSE Cardinality(R) + 1
        BY <1>2, FS_AddElement DEF R
      <4> QED
        BY <1>2, <4>1 DEF R
    <3>3. Cardinality(Roster(q)) <= MaxFighters
      BY <1>6, <2>3 DEF Passes
    <3> QED
      BY <1>2, <1>3, <3>1, <3>2, <3>3
  <2> QED
    BY <2>2, <2>3
<1> QED
  BY <1>5, <1>6, OwnerStep

LEMMA OwnersInvariant == Spec => []IndOwners
<1>1. Init => IndOwners
  <2> SUFFICES ASSUME Init PROVE IndOwners
    OBVIOUS
  <2>1. IndType
    BY InitType DEF Init, IndType, OngoingNames
  <2>2. Rows
    BY InitialAssumption, SetsAssumption DEF Init, Rows, Absent
  <2>3. IsFiniteSet(ongoings)
    BY FS_EmptySet DEF Init
  <2>4. RosterBounded
    BY InitialAssumption DEF Init, RosterBounded, Roster
  <2> QED
    BY <2>1, <2>2, <2>3, <2>4 DEF IndOwners, IndRows
<1>2. IndOwners /\ [Next]_vars => IndOwners'
  <2> SUFFICES ASSUME IndOwners, [Next]_vars PROVE IndOwners'
    OBVIOUS
  <2>1. IndType'
    BY IndTypeStep DEF IndOwners, IndRows
  <2>2. CASE Next
    BY <2>1, <2>2, RowsStep, FiniteOngoingsStep, RosterStep DEF IndOwners, IndRows
  <2>3. CASE UNCHANGED vars
    BY <2>1, <2>3 DEF vars, fighterVars, IndOwners, IndRows, Rows, RosterBounded, Roster
  <2> QED
    BY <2>2, <2>3
<1> QED
  BY <1>1, <1>2, PTL DEF Spec

(* The slot checks of the moves and of the oven together let a roster      *)
(* exceed the limit by one treat, never by more, although they compare     *)
(* differently and count different things.                                 *)
THEOREM RostersStayBounded == Spec => []RosterBounded
<1>1. IndOwners => RosterBounded
  BY DEF IndOwners
<1> QED
  BY <1>1, OwnersInvariant, PTL

(* An account-bound treat passes to nobody else: not through the exchange, *)
(* which looks at the flag when the treat is listed and not when it is     *)
(* sold, and not as an id that is taken again.                             *)
THEOREM BoundTreatsStayHome == Spec => BoundStaysHome
<1> DEFINE Stays == \A f \in Fighters : bound[f] => owner'[f] \in {owner[f], Nobody}
<1>1. IndOwners /\ [Next]_vars => [Stays]_vars
  <2> SUFFICES ASSUME IndOwners, Next PROVE Stays
    OBVIOUS
  <2> SUFFICES ASSUME NEW f \in Fighters, bound[f]
               PROVE  owner'[f] \in {owner[f], Nobody}
    OBVIOUS
  <2>1. CASE Leaves
    BY <2>1 DEF Leaves
  <2>2. ASSUME NEW g \in Fighters, NEW p \in Players, Passes(g, p)
        PROVE  owner'[f] = owner[f]
    BY <2>2 DEF Passes, IndOwners, IndRows, IndType, TypeInv, TypeOK
  <2> QED
    BY <2>1, <2>2, OwnerStep DEF IndOwners
<1> QED
  BY <1>1, OwnersInvariant, PTL DEF Spec, BoundStaysHome

-----------------------------------------------------------------------------
(***************************************************************************)
(* Prestige.  A step recounts the treats of every player whose roster it    *)
(* changes, or gives a player a treat on top of those it counts.           *)
(***************************************************************************)
Settled(q) == \/ Roster(q)' = {}
              \/ prestige'[q] = Roster(q)'
              \/ Roster(q)' = Roster(q) /\ prestige'[q] = prestige[q]
              \/ Roster(q) \subseteq Roster(q)' /\ prestige'[q] = Roster(q)

LEMMA SettledStep ==
  ASSUME PrestigeCountsOwned, \A q \in Players : Settled(q)
  PROVE  PrestigeCountsOwned'
BY DEF PrestigeCountsOwned, Settled

LEMMA SettledByPrestige ==
  ASSUME NEW q, NEW m, prestige'[q] = Prestige(q, m)
  PROVE  Settled(q)
BY DEF Prestige, Settled

(* What happens to the treats of p is only seen by p. *)
LEMMA OneRecounted ==
  ASSUME IndOwners, NEW p \in Players, NEW m,
         prestige' = [prestige EXCEPT ![p] = Prestige(p, m)],
         \A g \in Fighters : owner'[g] = owner[g] \/ (owner[g] = p /\ owner'[g] = Nobody)
  PROVE  \A q \in Players : Settled(q)
<1> SUFFICES ASSUME NEW q \in Players PROVE Settled(q)
  OBVIOUS
<1>1. prestige \in [Players -> SUBSET Fighters] /\ q # Nobody /\ p # Nobody
  BY SetsAssumption DEF IndOwners, IndRows, IndType, TypeInv, TypeOK
<1>2. CASE q = p
  BY <1>1, <1>2, SettledByPrestige
<1>3. CASE q # p
  <2>1. \A g \in Fighters : owner'[g] = q <=> owner[g] = q
    BY <1>1, <1>3
  <2>2. prestige'[q] = prestige[q]
    BY <1>1, <1>3
  <2> QED
    BY <2>1, <2>2 DEF Settled, Roster
<1> QED
  BY <1>2, <1>3

LEMMA NoneRecounted ==
  ASSUME owner' = owner, prestige' = prestige
  PROVE  \A q \in Players : Settled(q)
BY DEF Settled, Roster

LEMMA PrestigeMove ==
  ASSUME IndOwners, StrayTreats = FALSE, Move
  PROVE  \A q \in Players : Settled(q)
<1> DEFINE Goal == \A q \in Players : Settled(q)
<1> USE DEF IndOwners, IndRows, IndType, TypeInv, TypeOK
<1> PICK p \in Players : CookMove(p) \/ ExpeditionMove(p) \/ FighterMove(p)
  BY DEF Move
<1>1. CASE CookMove(p)
  <2>1. ASSUME NEW r \in RecipesOf(p), NEW f \in CookInput(r), CookRecipe(p, r, f)
        PROVE  Goal
    <3>1. \A g \in Fighters : g = f => owner[g] = p
      <4>1. CASE r \in FighterRecipes
        BY <2>1, <4>1 DEF CookRecipe, ParseCookRecepie, Free, Mine
      <4>2. CASE r \notin FighterRecipes
        BY <4>2, StrayTreats = FALSE, SetsAssumption DEF CookInput
      <4> QED
        BY <4>1, <4>2
    <3>2. \A g \in Fighters : owner'[g] = owner[g] \/ (owner[g] = p /\ owner'[g] = Nobody)
      BY <2>1, <3>1 DEF CookRecipe, DeleteTreats
    <3>3. PICK m : prestige' = [prestige EXCEPT ![p] = Prestige(p, m)]
      BY <2>1, Zenon DEF CookRecipe
    <3> QED
      BY <3>2, <3>3, OneRecounted
  <2>2. ASSUME NEW R, DestroyRecipes(p, R) PROVE Goal
    <3>1. owner' = owner
      BY <2>2 DEF DestroyRecipes, fighterVars
    <3>2. PICK m : prestige' = [prestige EXCEPT ![p] = Prestige(p, m)]
      BY <2>2, Zenon DEF DestroyRecipes
    <3> QED
      BY <3>1, <3>2, OneRecounted
  <2>3. ASSUME NEW f, CollectCooked(p, f) \/ CookSweetener(p, f) \/ ClaimSweetener(p, f)
        PROVE  Goal
    <3>1. owner' = owner /\ prestige' = prestige
      BY <2>3 DEF CollectCooked, CookSweetener, ClaimSweetener, fighterVars
    <3> QED
      BY <3>1, NoneRecounted
  <2>4. Goal
    <3> HIDE DEF Goal
    <3> QED
      BY <1>1, <2>1, <2>2, <2>3 DEF CookMove
  <2> QED
    BY <2>4
<1>2. CASE ExpeditionMove(p)
  <2>1. owner' = owner /\ prestige' = prestige
    BY <1>2 DEF ExpeditionMove, GoExpedition, ClaimExpeditions, fighterVars
  <2> QED
    BY <2>1, NoneRecounted
<1>3. CASE FighterMove(p)
  <2>1. ASSUME NEW f, \/ Deconstruct(p, f) \/ Unlist(p, f)
                      \/ \E x \in Prices, d \in SaleDays : Sell(p, f, x, d)
        PROVE  Goal
    <3>1. owner' = owner /\ prestige' = prestige
      BY <2>1 DEF Deconstruct, Unlist, Sell
    <3> QED
      BY <3>1, NoneRecounted
  <2>2. ASSUME NEW f, ClaimDeconstruction(p, f) PROVE Goal
    <3>1. \A g \in Fighters : owner'[g] = owner[g] \/ (owner[g] = p /\ owner'[g] = Nobody)
      BY <2>2 DEF ClaimDeconstruction, ParseDeconstructRewardData, Mine, DeleteTreats
    <3>2. PICK m : prestige' = [prestige EXCEPT ![p] = Prestige(p, m)]
      BY <2>2, Zenon DEF ClaimDeconstruction
    <3> QED
      BY <3>1, <3>2, OneRecounted
  <2>3. ASSUME NEW f, NEW S, NEW R, NEW c, Transfigure(p, f, S, R, c) PROVE Goal
    <3>1. \A g \in Fighters : owner'[g] = owner[g] \/ (owner[g] = p /\ owner'[g] = Nobody)
      BY <2>3 DEF Transfigure, ParseTransfigureData, MayBurn, Free, Mine, DestroyUsedElements
    <3>2. PICK m : prestige' = [prestige EXCEPT ![p] = Prestige(p, m)]
      BY <2>3, Zenon DEF Transfigure
    <3> QED
      BY <3>1, <3>2, OneRecounted
  <2>4. ASSUME NEW f \in Fighters, Buy(p, f) PROVE Goal
    <3> SUFFICES ASSUME NEW q \in Players PROVE Settled(q)
      OBVIOUS
    <3>1. PICK m : prestige' = [prestige EXCEPT ![p] = Prestige(p, m),
                                                ![owner[f]] = Prestige(owner[f], m)]
      BY <2>4, Zenon DEF Buy
    <3>2. owner' = [owner EXCEPT ![f] = p]
      BY <2>4 DEF Buy
    <3>3. CASE q \in {p, owner[f]}
      <4>1. prestige'[q] = Prestige(q, m)
        BY <3>1, <3>3
      <4> QED
        BY <4>1, SettledByPrestige
    <3>4. CASE q \notin {p, owner[f]}
      <4>1. prestige'[q] = prestige[q]
        BY <3>1, <3>4
      <4>2. \A g \in Fighters : owner'[g] = q <=> owner[g] = q
        BY <3>2, <3>4
      <4> QED
        BY <4>1, <4>2 DEF Settled, Roster
    <3> QED
      BY <3>3, <3>4
  <2>5. Goal
    <3> HIDE DEF Goal
    <3> QED
      BY <1>3, <2>1, <2>2, <2>3, <2>4 DEF FighterMove
  <2> QED
    BY <2>5
<1> QED
  BY <1>1, <1>2, <1>3

LEMMA PrestigeBlockStep ==
  ASSUME IndOwners, BlockStep
  PROVE  \A q \in Players : Settled(q)
<1> DEFINE Goal == \A q \in Players : Settled(q)
<1> USE DEF IndOwners, IndRows, IndType, TypeInv, TypeOK
<1>1. ASSUME NEW o, ResolveExpedition(o) \/ FailCooking(o) \/ ResolveDeconstruction(o)
      PROVE  Goal
  <2>1. owner' = owner /\ prestige' = prestige
    BY <1>1 DEF ResolveExpedition, FailCooking, ResolveDeconstruction, fighterVars
  <2> QED
    BY <2>1, NoneRecounted
<1>2. ASSUME NEW o \in ongoings, ResolveSweetener(o) PROVE Goal
  <2>1. owner' = owner /\ o.player \in Players
    BY <1>2 DEF ResolveSweetener, Ongoing
  <2>2. CASE prestige' = prestige
    BY <2>1, <2>2, NoneRecounted
  <2>3. CASE prestige' # prestige
    <3>1. PICK m : prestige' = [prestige EXCEPT ![o.player] = Prestige(o.player, m)]
      BY <1>2, <2>3, Zenon DEF ResolveSweetener
    <3> QED
      BY <2>1, <3>1, OneRecounted
  <2> QED
    BY <2>2, <2>3
<1>3. ASSUME NEW o \in ongoings, NEW f \in Fresh, CookTreat(o, f) PROVE Goal
  <2> SUFFICES ASSUME NEW q \in Players PROVE Settled(q)
    OBVIOUS
  <2>1. f \in Fighters /\ owner[f] = Nobody /\ o.player \in Players /\ q # Nobody
    BY SetsAssumption DEF Fresh, Rows, Absent, Ongoing
  <2>2. /\ owner' = [owner EXCEPT ![f] = o.player]
        /\ prestige' = [prestige EXCEPT ![o.player] = Roster(o.player)]
    BY <1>3 DEF CookTreat
  <2>3. \A g \in Fighters : owner'[g] = IF g = f THEN o.player ELSE owner[g]
    BY <2>2
  <2>4. CASE q = o.player
    <3>1. prestige'[q] = Roster(q)
      BY <2>1, <2>2, <2>4
    <3>2. Roster(q) \subseteq Roster(q)'
      BY <2>3, <2>4 DEF Roster
    <3> QED
      BY <3>1, <3>2 DEF Settled
  <2>5. CASE q # o.player
    <3>1. prestige'[q] = prestige[q]
      BY <2>2, <2>5
    <3>2. Roster(q)' = Roster(q)
      BY <2>1, <2>3, <2>5 DEF Roster
    <3> QED
      BY <3>1, <3>2 DEF Settled
  <2> QED
    BY <2>4, <2>5
<1>4. CASE ResolveStep
  <2>1. Goal
    <3> HIDE DEF Goal
    <3> QED
      BY <1>1, <1>2, <1>3, <1>4 DEF ResolveStep, Due
  <2> QED
    BY <2>1
<1>5. CASE BeginBlock \/ TickOngoings \/ CheckFightersForSale
  <2>1. owner' = owner /\ prestige' = prestige
    BY <1>5 DEF BeginBlock, TickOngoings, CheckFightersForSale, fighterVars
  <2> QED
    BY <2>1, NoneRecounted
<1> QED
  BY <1>4, <1>5 DEF BlockStep

(* As long as cook moves name no treat but for recipes that ask for one,   *)
(* the prestige of a player who owns a treat is counted over treats it      *)
(* still owns: every handler recounts both sides of what it moves.         *)
THEOREM PrestigeIsCounted ==
  ASSUME StrayTreats = FALSE
  PROVE  Spec => []PrestigeCountsOwned
<1>1. Init => PrestigeCountsOwned
  BY DEF Init, PrestigeCountsOwned
<1>2. IndOwners /\ PrestigeCountsOwned /\ [Next]_vars => PrestigeCountsOwned'
  <2> SUFFICES ASSUME IndOwners, PrestigeCountsOwned, [Next]_vars
               PROVE  PrestigeCountsOwned'
    OBVIOUS
  <2>1. CASE Next
    BY <2>1, PrestigeMove, PrestigeBlockStep, SettledStep DEF Next
  <2>2. CASE UNCHANGED vars
    BY <2>2 DEF vars, fighterVars, PrestigeCountsOwned, Roster
  <2> QED
    BY <2>1, <2>2
<1> QED
  BY <1>1, <1>2, OwnersInvariant, PTL DEF Spec

-----------------------------------------------------------------------------
(***************************************************************************)
(* Recipes.  A recipe in the oven or in a reward has a row without an      *)
(* owner, and is there once; a row that is not there yet, or not any more, *)
(* never has that owner.                                                   *)
(***************************************************************************)
Placed ==
  /\ \A o1, o2 \in ongoings : o1.recipe \in Recipes /\ o1.recipe = o2.recipe => o1 = o2
  /\ \A w1, w2 \in rewards : w1.grant \in Recipes /\ w1.grant = w2.grant => w1 = w2
  /\ \A o \in ongoings, w \in rewards : o.recipe \in Recipes => w.grant # o.recipe
  /\ \A o \in ongoings : o.recipe \in Recipes => recipeOwner[o.recipe] = Nobody
  /\ \A w \in rewards : w.grant \in Recipes => recipeOwner[w.grant] = Nobody

(* A step that adds no recipe to an oven or a reward, and hands out none.  *)
LEMMA KeepRecipes ==
  ASSUME Placed,
         \A o \in ongoings' : o.recipe \in Recipes => o \in ongoings,
         \A w \in rewards' : w.grant \in Recipes => w \in rewards,
         \A r \in Recipes : recipeOwner[r] = Nobody => recipeOwner'[r] = Nobody
  PROVE  Placed'
BY DEF Placed

(* A claim takes the rewards it grants recipes of. *)
LEMMA ClaimRecipes ==
  ASSUME Placed, NEW p, NEW W \in SUBSET rewards, ClaimRewards(p, W), ongoings' = ongoings
  PROVE  Placed'
<1>1. PICK granted \in SUBSET W :
        recipeOwner' = [r \in Recipes |-> IF \E w \in granted : w.grant = r THEN p
                                          ELSE recipeOwner[r]]
  BY DEF ClaimRewards
<1>2. rewards' = rewards \ W
  BY DEF ClaimRewards
<1>3. \A r \in Recipes : (~ \E w \in granted : w.grant = r) => recipeOwner'[r] = recipeOwner[r]
  BY <1>1
<1>4. \A o \in ongoings : o.recipe \in Recipes => recipeOwner'[o.recipe] = Nobody
  BY <1>3 DEF Placed
<1>5. \A w \in rewards' : w.grant \in Recipes => recipeOwner'[w.grant] = Nobody
  BY <1>2, <1>3 DEF Placed
<1> QED
  BY <1>2, <1>4, <1>5 DEF Placed

(* A recipe that goes from a hand into the oven. *)
LEMMA CookPlaces ==
  ASSUME Placed, NEW o, ongoings' = ongoings \cup {o}, rewards' = rewards,
         o.recipe \in Recipes, recipeOwner[o.recipe] # Nobody,
         \A r \in Recipes : recipeOwner'[r] = IF r = o.recipe THEN Nobody ELSE recipeOwner[r]
  PROVE  Placed'
<1>1. /\ \A o1 \in ongoings : o1.recipe \in Recipes => o1.recipe # o.recipe
      /\ \A w \in rewards : w.grant \in Recipes => w.grant # o.recipe
  BY DEF Placed
<1>2. \A o1, o2 \in ongoings' : o1.recipe \in Recipes /\ o1.recipe = o2.recipe => o1 = o2
  BY <1>1 DEF Placed
<1>3. \A o1 \in ongoings', w \in rewards' : o1.recipe \in Recipes => w.grant # o1.recipe
  BY <1>1 DEF Placed
<1> QED
  BY <1>1, <1>2, <1>3 DEF Placed

LEMMA PlacedMove ==
  ASSUME IndType, Placed, Move
  PROVE  Placed'
<1> USE DEF IndType, TypeInv, TypeOK
<1> PICK p \in Players : CookMove(p) \/ ExpeditionMove(p) \/ FighterMove(p)
  BY DEF Move
<1>1. p # Nobody /\ NoRecipe \notin Recipes /\ p \notin Absent /\ Nobody \notin Absent
  BY SetsAssumption
<1>2. CASE CookMove(p)
  <2>1. ASSUME NEW r \in RecipesOf(p), NEW f, CookRecipe(p, r, f) PROVE Placed'
    <3> DEFINE o == [NewOngoing(p, "COOK_RECIPE",
                                Duration("COOK_RECIPE", inv[p]["cooker"] > 0))
                     EXCEPT !.recipe = r]
    <3>1. /\ ongoings' = ongoings \cup {o}
          /\ rewards' = rewards
          /\ recipeOwner' = [recipeOwner EXCEPT ![r] = Nobody]
      BY <2>1 DEF CookRecipe
    <3>2. o.recipe = r
      BY DEF NewOngoing
    <3>3. r \in Recipes /\ recipeOwner[r] = p
      BY DEF RecipesOf
    <3> HIDE DEF o
    <3>4. \A q \in Recipes : recipeOwner'[q] = IF q = o.recipe THEN Nobody ELSE recipeOwner[q]
      BY <3>1, <3>2
    <3> QED
      BY <1>1, <3>1, <3>2, <3>3, <3>4, CookPlaces
  <2>2. ASSUME NEW R, DestroyRecipes(p, R) PROVE Placed'
    <3>1. \A r \in Recipes : recipeOwner[r] = Nobody => recipeOwner'[r] = Nobody
      BY <2>2 DEF DestroyRecipes
    <3> QED
      BY <2>2, <3>1, KeepRecipes DEF DestroyRecipes
  <2>3. ASSUME NEW f, CollectCooked(p, f) PROVE Placed'
    BY <2>3, KeepRecipes DEF CollectCooked
  <2>4. ASSUME NEW f, CookSweetener(p, f) PROVE Placed'
    <3>1. PICK o : ongoings' = ongoings \cup {o} /\ o.recipe = NoRecipe
      <4> DEFINE n == [NewOngoing(p, "COOK_SWEETENER", Duration("COOK_SWEETENER", FALSE))
                       EXCEPT !.fighter = f, !.level = applied[f] + 1]
      <4>1. n.recipe = NoRecipe
        BY DEF NewOngoing
      <4> QED
        BY <2>4, <4>1, Zenon DEF CookSweetener
    <3> QED
      BY <1>1, <2>4, <3>1, KeepRecipes DEF CookSweetener
  <2>5. ASSUME NEW f, ClaimSweetener(p, f) PROVE Placed'
    <3>1. SweetenerRewards(p, f) \in SUBSET rewards
      BY DEF SweetenerRewards, RewardsOf
    <3> QED
      BY <2>5, <3>1, ClaimRecipes DEF ClaimSweetener
  <2> QED
    BY <1>2, <2>1, <2>2, <2>3, <2>4, <2>5 DEF CookMove
<1>3. CASE ExpeditionMove(p)
  <2>1. ASSUME NEW e, NEW S, GoExpedition(p, e, S) PROVE Placed'
    <3> DEFINE n(f) == [NewOngoing(p, "EXPEDITION",
                                   Duration("EXPEDITION", inv[p]["espresso"] > 0))
                        EXCEPT !.fighter = f, !.expedition = e]
    <3>1. ongoings' = ongoings \cup {n(f) : f \in S}
      BY <2>1 DEF GoExpedition
    <3>2. \A f \in S : n(f).recipe = NoRecipe
      BY DEF NewOngoing
    <3> HIDE DEF n
    <3>3. \A o \in ongoings' : o.recipe \in Recipes => o \in ongoings
      BY <1>1, <3>1, <3>2
    <3> QED
      BY <2>1, <3>3, KeepRecipes DEF GoExpedition
  <2>2. ASSUME NEW E, ClaimExpeditions(p, E) PROVE Placed'
    <3> DEFINE W == {w \in RewardsOf(p) : w.expedition \in E}
    <3>1. W \in SUBSET rewards
      BY DEF RewardsOf
    <3> QED
      BY <2>2, <3>1, ClaimRecipes DEF ClaimExpeditions
  <2> QED
    BY <1>3, <2>1, <2>2 DEF ExpeditionMove
<1>4. CASE FighterMove(p)
  <2>1. ASSUME NEW f, Deconstruct(p, f) PROVE Placed'
    <3>1. PICK o : ongoings' = ongoings \cup {o} /\ o.recipe = NoRecipe
      <4> DEFINE n == [NewOngoing(p, "DECONSTRUCTION", Blocks["DECONSTRUCTION"])
                       EXCEPT !.fighter = f]
      <4>1. n.recipe = NoRecipe
        BY DEF NewOngoing
      <4> QED
        BY <2>1, <4>1, Zenon DEF Deconstruct
    <3> QED
      BY <1>1, <2>1, <3>1, KeepRecipes DEF Deconstruct
  <2>2. ASSUME NEW f, ClaimDeconstruction(p, f) PROVE Placed'
    <3>1. rewards' \subseteq rewards /\ ongoings' = ongoings /\ recipeOwner' = recipeOwner
      BY <2>2 DEF ClaimDeconstruction
    <3> QED
      BY <3>1, KeepRecipes
  <2>3. ASSUME NEW f, \/ Unlist(p, f) \/ Buy(p, f)
                      \/ \E x \in Prices, d \in SaleDays : Sell(p, f, x, d)
        PROVE  Placed'
    <3>1. rewards' = rewards /\ ongoings' = ongoings /\ recipeOwner' = recipeOwner
      BY <2>3 DEF Unlist, Buy, Sell
    <3> QED
      BY <3>1, KeepRecipes
  <2>4. ASSUME NEW f, NEW S, NEW R, NEW c, Transfigure(p, f, S, R, c) PROVE Placed'
    <3>1. R \subseteq RecipesOf(p) /\ rewards' = rewards /\ ongoings' = ongoings
      BY <2>4 DEF Transfigure, ParseTransfigureData, MayBurn
    <3>2. recipeOwner' = [r \in Recipes |-> IF r \in R THEN "Deleted" ELSE recipeOwner[r]]
      BY <2>4 DEF Transfigure, DestroyUsedElements
    <3>3. \A r \in Recipes : recipeOwner[r] = Nobody => recipeOwner'[r] = Nobody
      BY <1>1, <3>1, <3>2 DEF RecipesOf
    <3> QED
      BY <3>1, <3>3, KeepRecipes
  <2> QED
    BY <1>4, <2>1, <2>2, <2>3, <2>4 DEF FighterMove
<1> QED
  BY <1>2, <1>3, <1>4

LEMMA PlacedGrant ==
  ASSUME IndType, Placed, NEW o \in ongoings, ResolveExpedition(o),
         status[o.fighter] \notin Absent
  PROVE  Placed'
<1> PICK grants \in [1..Rolls -> {"none", "candy"} \cup FreshRecipes] :
      LET made == {i \in 1..Rolls : grants[i] \in FreshRecipes}
      IN /\ \A i, j \in made : i # j => grants[i] # grants[j]
         /\ rewards' = rewards \cup RewardsFor(o, grants)
         /\ recipeOwner' = [r \in Recipes |-> IF \E i \in made : grants[i] = r THEN Nobody
                                              ELSE recipeOwner[r]]
  BY DEF ResolveExpedition
<1> DEFINE made == {i \in 1..Rolls : grants[i] \in FreshRecipes}
           g(i) == [owner |-> o.player, source |-> o.type, fighter |-> o.fighter,
                    expedition |-> o.expedition, roll |-> i, grant |-> grants[i]]
           J == {j \in 1..Rolls : grants[j] # "none"}
           W == {w \in RewardsFor(o, grants) : w.grant \in Recipes}
           kept == {w \in rewards' : w \in rewards \cup W}
<1>1. ongoings' \subseteq ongoings
  BY DEF ResolveExpedition, Resolve
<1>2. \A r \in FreshRecipes : r \in Recipes /\ recipeOwner[r] # Nobody
  BY SetsAssumption DEF FreshRecipes, Absent
<1>3. RewardsFor(o, grants) = {g(i) : i \in J}
  BY DEF RewardsFor
<1>4. \A i \in J : g(i).grant = grants[i]
  OBVIOUS
<1>5. \A i \in J : grants[i] \in Recipes => i \in made
  BY SetsAssumption
<1>6. \A w \in W : \E i \in made : w = g(i) /\ w.grant = grants[i]
  <2> HIDE DEF g, made
  <2> QED
    BY <1>3, <1>4, <1>5
<1>7. \A w1, w2 \in W : w1.grant = w2.grant => w1 = w2
  <2> SUFFICES ASSUME NEW w1 \in W, NEW w2 \in W, w1.grant = w2.grant PROVE w1 = w2
    OBVIOUS
  <2> HIDE DEF g, W
  <2>1. PICK i \in made : w1 = g(i) /\ w1.grant = grants[i]
    BY <1>6
  <2>2. PICK j \in made : w2 = g(j) /\ w2.grant = grants[j]
    BY <1>6
  <2>3. i = j
    BY <2>1, <2>2
  <2> QED
    BY <2>1, <2>2, <2>3
<1>8. \A i \in made : recipeOwner'[grants[i]] = Nobody /\ recipeOwner[grants[i]] # Nobody
  BY <1>2
<1>9. \A w \in W : recipeOwner'[w.grant] = Nobody /\ recipeOwner[w.grant] # Nobody
  <2> HIDE DEF W, made
  <2> QED
    BY <1>6, <1>8
<1>10. \A r \in Recipes : recipeOwner[r] = Nobody => recipeOwner'[r] = Nobody
  OBVIOUS
<1>11. \A w \in rewards' : w.grant \in Recipes => w \in rewards \/ w \in W
  OBVIOUS
<1>12. \A w1, w2 \in rewards' : w1.grant \in Recipes /\ w1.grant = w2.grant => w1 = w2
  <2> HIDE DEF W
  <2> QED
    BY <1>7, <1>9, <1>11 DEF Placed
<1>13. \A o1 \in ongoings' : o1.recipe \in Recipes =>
         recipeOwner[o1.recipe] = Nobody /\ recipeOwner'[o1.recipe] = Nobody
  BY <1>1, <1>10 DEF Placed
<1>14. \A w \in rewards' : w.grant \in Recipes => recipeOwner'[w.grant] = Nobody
  <2> HIDE DEF W
  <2> QED
    BY <1>9, <1>10, <1>11 DEF Placed
<1>15. \A o1 \in ongoings', w \in rewards' : o1.recipe \in Recipes => w.grant # o1.recipe
  <2> HIDE DEF W
  <2> QED
    BY <1>1, <1>9, <1>11, <1>13 DEF Placed
<1>16. \A o1, o2 \in ongoings' : o1.recipe \in Recipes /\ o1.recipe = o2.recipe => o1 = o2
  BY <1>1 DEF Placed
<1> QED
  BY <1>12, <1>13, <1>14, <1>15, <1>16 DEF Placed

LEMMA PlacedBlockStep ==
  ASSUME IndType, Placed, BlockStep
  PROVE  Placed'
<1> USE DEF IndType, TypeInv, TypeOK
<1>0. {"none", "candy", "upgrade"} \cap Recipes = {} /\ NoRecipe \notin Recipes
  BY SetsAssumption
<1>1. CASE TickOngoings
  <2>1. \A o \in ongoings : Tick(o).recipe = o.recipe
    BY DEF Tick, Ongoing
  <2>2. \A o \in ongoings' : \E o0 \in ongoings : o = Tick(o0) /\ o.recipe = o0.recipe
    BY <1>1, <2>1 DEF TickOngoings
  <2>3. rewards' = rewards /\ recipeOwner' = recipeOwner
    BY <1>1 DEF TickOngoings
  <2>4. \A o1, o2 \in ongoings' : o1.recipe \in Recipes /\ o1.recipe = o2.recipe => o1 = o2
    <3> SUFFICES ASSUME NEW o1 \in ongoings', NEW o2 \in ongoings',
                        o1.recipe \in Recipes, o1.recipe = o2.recipe
                 PROVE  o1 = o2
      OBVIOUS
    <3>1. PICK a \in ongoings : o1 = Tick(a) /\ o1.recipe = a.recipe
      BY <2>2
    <3>2. PICK b \in ongoings : o2 = Tick(b) /\ o2.recipe = b.recipe
      BY <2>2
    <3>3. a = b
      BY <3>1, <3>2 DEF Placed
    <3> QED
      BY <3>1, <3>2, <3>3
  <2>5. \A o \in ongoings', w \in rewards' : o.recipe \in Recipes => w.grant # o.recipe
    <3> SUFFICES ASSUME NEW o \in ongoings', NEW w \in rewards', o.recipe \in Recipes
                 PROVE  w.grant # o.recipe
      OBVIOUS
    <3>1. PICK a \in ongoings : o.recipe = a.recipe
      BY <2>2
    <3> QED
      BY <2>3, <3>1 DEF Placed
  <2>6. \A o \in ongoings' : o.recipe \in Recipes => recipeOwner'[o.recipe] = Nobody
    <3> SUFFICES ASSUME NEW o \in ongoings', o.recipe \in Recipes
                 PROVE  recipeOwner'[o.recipe] = Nobody
      OBVIOUS
    <3>1. PICK a \in ongoings : o.recipe = a.recipe
      BY <2>2
    <3> QED
      BY <2>3, <3>1 DEF Placed
  <2> QED
    BY <2>3, <2>4, <2>5, <2>6 DEF Placed
<1>2. ASSUME NEW o \in ongoings, ResolveExpedition(o) PROVE Placed'
  <2>1. CASE status[o.fighter] \in Absent
    BY <1>2, <2>1, KeepRecipes DEF ResolveExpedition, Resolve
  <2>2. CASE status[o.fighter] \notin Absent
    BY <1>2, <2>2, PlacedGrant
  <2> QED
    BY <2>1, <2>2
<1>3. ASSUME NEW o \in ongoings, FailCooking(o) PROVE Placed'
  <2>1. /\ ongoings' = ongoings \ {o} /\ rewards' = rewards
        /\ recipeOwner' = [recipeOwner EXCEPT ![o.recipe] = o.player]
    BY <1>3 DEF FailCooking, Resolve
  <2>2. \A r \in Recipes : r # o.recipe => recipeOwner'[r] = recipeOwner[r]
    BY <2>1
  <2>3. \A o1 \in ongoings' : o1.recipe \in Recipes => o1.recipe # o.recipe
    BY <2>1 DEF Placed
  <2>4. \A w \in rewards' : w.grant \in Recipes => w.grant # o.recipe
    BY <2>1 DEF Placed
  <2>5. \A o1 \in ongoings' : o1.recipe \in Recipes => recipeOwner'[o1.recipe] = Nobody
    BY <2>1, <2>2, <2>3 DEF Placed
  <2>6. \A w \in rewards' : w.grant \in Recipes => recipeOwner'[w.grant] = Nobody
    BY <2>1, <2>2, <2>4 DEF Placed
  <2> QED
    BY <2>1, <2>5, <2>6 DEF Placed
<1>4. ASSUME NEW o, NEW f, CookTreat(o, f) PROVE Placed'
  BY <1>4, KeepRecipes DEF CookTreat, Resolve
<1>5. ASSUME NEW o, ResolveSweetener(o) PROVE Placed'
  <2>1. /\ \A o1 \in ongoings' : o1 \in ongoings
        /\ recipeOwner' = recipeOwner
    BY <1>5 DEF ResolveSweetener, Resolve
  <2>2. \A w \in rewards' : w.grant \in Recipes => w \in rewards
    <3>1. CASE rewards' = rewards
      BY <3>1
    <3>2. CASE rewards' # rewards
      <4>1. PICK grants \in [1..Rolls -> {"none", "upgrade"}] :
              rewards' = rewards \cup RewardsFor(o, grants)
        BY <1>5, <3>2 DEF ResolveSweetener
      <4>2. \A w \in RewardsFor(o, grants) : \E i \in 1..Rolls : w.grant = grants[i]
        BY DEF RewardsFor
      <4> QED
        BY <1>0, <4>1, <4>2
    <3> QED
      BY <3>1, <3>2
  <2> QED
    BY <2>1, <2>2, KeepRecipes
<1>6. ASSUME NEW o, ResolveDeconstruction(o) PROVE Placed'
  <2> DEFINE part == [owner |-> o.player, source |-> o.type, fighter |-> o.fighter,
                      expedition |-> NoExpedition, roll |-> 0, grant |-> "candy"]
  <2>1. /\ \A o1 \in ongoings' : o1 \in ongoings
        /\ recipeOwner' = recipeOwner
        /\ rewards' \subseteq rewards \cup {part}
    BY <1>6 DEF ResolveDeconstruction, Resolve
  <2>2. \A w \in rewards' : w.grant \in Recipes => w \in rewards
    BY <1>0, <2>1
  <2> QED
    BY <2>1, <2>2, KeepRecipes
<1>7. CASE BeginBlock \/ CheckFightersForSale
  BY <1>7, KeepRecipes DEF BeginBlock, CheckFightersForSale
<1> QED
  BY <1>1, <1>2, <1>3, <1>4, <1>5, <1>6, <1>7 DEF BlockStep, ResolveStep, Due

(* A recipe is in one hand, in one oven or in one reward, and never in two *)
(* places: starting to cook, the refund of a full roster, the prizes of an *)
(* expedition and their claims pass it on without a copy.                  *)
THEOREM RecipesStayInOnePlace == Spec => []RecipeInOnePlace
<1>1. Init => Placed
  BY DEF Init, Placed
<1>2. IndType /\ Placed /\ [Next]_vars => Placed'
  <2> SUFFICES ASSUME IndType, Placed, [Next]_vars PROVE Placed'
    OBVIOUS
  <2>1. CASE UNCHANGED vars
    BY <2>1, KeepRecipes DEF vars
  <2> QED
    BY <2>1, PlacedMove, PlacedBlockStep DEF Next
<1>3. Placed => RecipeInOnePlace
  <2> SUFFICES ASSUME Placed, NEW r \in Recipes
               PROVE  Cardinality({o \in ongoings : o.recipe = r})
                      + Cardinality({w \in rewards : w.grant = r})
                      + Cardinality({p \in Players : recipeOwner[r] = p}) <= 1
    BY DEF RecipeInOnePlace
  <2> DEFINE ovens == {o \in ongoings : o.recipe = r}
             prizes == {w \in rewards : w.grant = r}
             hands == {p \in Players : recipeOwner[r] = p}
  <2>1. Cardinality({}) = 0 /\ \A x : Cardinality({x}) = 1
    BY FS_EmptySet, FS_Singleton
  <2>2. CASE \E o \in ongoings : o.recipe = r
    <3>1. (\E o : ovens = {o}) /\ prizes = {} /\ hands = {}
      BY <2>2, SetsAssumption DEF Placed
    <3> HIDE DEF ovens, prizes, hands
    <3>2. Cardinality(ovens) = 1 /\ Cardinality(prizes) = 0 /\ Cardinality(hands) \in {0}
      BY <2>1, <3>1
    <3>3. Cardinality(ovens) + Cardinality(prizes) + Cardinality(hands) <= 1
      BY <3>2
    <3> QED
      BY <3>3 DEF ovens, prizes, hands
  <2>3. CASE ovens = {} /\ \E w \in rewards : w.grant = r
    <3>1. ovens = {} /\ (\E w : prizes = {w}) /\ hands = {}
      BY <2>3, SetsAssumption DEF Placed
    <3> HIDE DEF ovens, prizes, hands
    <3>2. Cardinality(ovens) = 0 /\ Cardinality(prizes) = 1 /\ Cardinality(hands) \in {0}
      BY <2>1, <3>1
    <3>3. Cardinality(ovens) + Cardinality(prizes) + Cardinality(hands) <= 1
      BY <3>2
    <3> QED
      BY <3>3 DEF ovens, prizes, hands
  <2>4. CASE ovens = {} /\ prizes = {}
    <3>1. ovens = {} /\ prizes = {} /\ (hands = {} \/ hands = {recipeOwner[r]})
      BY <2>4
    <3> HIDE DEF ovens, prizes, hands
    <3>2. Cardinality(ovens) = 0 /\ Cardinality(prizes) = 0 /\ Cardinality(hands) \in {0, 1}
      BY <2>1, <3>1
    <3>3. Cardinality(ovens) + Cardinality(prizes) + Cardinality(hands) <= 1
      BY <3>2
    <3> QED
      BY <3>3 DEF ovens, prizes, hands
  <2> QED
    BY <2>2, <2>3, <2>4
<1> QED
  BY <1>1, <1>2, <1>3, IndTypeInvariant, PTL DEF Spec

-----------------------------------------------------------------------------
(***************************************************************************)
(* Crystals.  What is paid for a recipe in the oven counts until it is     *)
(* refunded or the treat is done.                                          *)
(***************************************************************************)
CrystalsCounted ==
  /\ Total(balance, Players) \in Nat
  /\ Crystals = Total(balance, Players) + CookCost * Cardinality(Cooking)

LEMMA CrystalsTotal ==
  ASSUME IndType, NoDebt
  PROVE  CrystalsCounted
<1>1. IsFiniteSet(Players) /\ \A p \in Players : balance[p] \in Nat
  BY SetsAssumption DEF IndType, TypeInv, TypeOK, NoDebt
<1>2. Total(balance, Players) \in Nat
  BY <1>1, TotalIsNat
<1>3. MapThenSumSet(LAMBDA p : balance[p], Players) = Total(balance, Players)
  BY <1>1, SumIsTotal, Zenon
<1>4. Crystals = Total(balance, Players) + CookCost * Cardinality(Cooking)
  BY <1>3, Zenon DEF Crystals
<1> QED
  BY <1>2, <1>4 DEF CrystalsCounted

(* One account changes by n. *)
LEMMA AccountChanges ==
  ASSUME IndType, NoDebt, IndType', NoDebt', NEW p \in Players, NEW n \in Int,
         balance'[p] = balance[p] + n,
         \A q \in Players : q # p => balance'[q] = balance[q]
  PROVE  Total(balance', Players) = Total(balance, Players) + n
<1>1. /\ IsFiniteSet(Players)
      /\ \A q \in Players : balance[q] \in Nat /\ balance'[q] \in Nat
  BY SetsAssumption DEF IndType, TypeInv, TypeOK, NoDebt
<1>2. /\ Total(balance, Players) \in Nat /\ Total(balance', Players) \in Nat
      /\ Total(balance', Players) - balance'[p] = Total(balance, Players) - balance[p]
  BY <1>1, TotalChange
<1> QED
  BY <1>1, <1>2

LEMMA PaymentChanges ==
  ASSUME IndType, NoDebt, IndType', NoDebt', NEW p \in Players, NEW n \in Int, Pay(p, n)
  PROVE  Total(balance', Players) = Total(balance, Players) - n
<1> DEFINE m == -n
<1>1. m \in Int /\ balance'[p] = balance[p] + m
  BY DEF Pay, IndType, TypeInv, TypeOK
<1>2. \A q \in Players : q # p => balance'[q] = balance[q]
  BY DEF Pay, IndType, TypeInv, TypeOK
<1> HIDE DEF m
<1>3. Total(balance', Players) = Total(balance, Players) + m
  BY <1>1, <1>2, AccountChanges
<1>4. Total(balance, Players) \in Nat
  BY CrystalsTotal DEF CrystalsCounted
<1> QED
  BY <1>3, <1>4 DEF m

(* A buyer pays more than the seller gets, and nobody else anything. *)
LEMMA SaleChanges ==
  ASSUME IndType, NoDebt, IndType', NoDebt', ListedHasPrice,
         NEW p \in Players, NEW f \in Fighters, Buy(p, f)
  PROVE  Total(balance', Players) <= Total(balance, Players)
<1> DEFINE q == owner[f]
           n == price[f]
           m == SaleProceeds(price[f])
           paid == [balance EXCEPT ![p] = @ - n]
<1>1. /\ IsFiniteSet(Players) /\ balance \in [Players -> Int]
      /\ \A x \in Players : balance[x] \in Nat /\ balance'[x] \in Nat
  BY SetsAssumption DEF IndType, TypeInv, TypeOK, NoDebt
<1>2. n \in Nat /\ n > 0 /\ m \in Nat /\ m < n /\ n <= balance[p] /\ q # p
  <2>1. price[f] \in Nat /\ price[f] > 0
    BY DEF Buy, ParseBuyData, ListedHasPrice, IndType, TypeInv, TypeOK
  <2> QED
    BY <2>1, SaleProceedsBounded DEF Buy, ParseBuyData, CanPay
<1>3. balance' = [paid EXCEPT ![q] = @ + m]
  BY DEF Buy, ParseBuyData
<1> HIDE DEF q, n, m
<1>4. paid[p] = balance[p] - n /\ \A x \in Players : x # p => paid[x] = balance[x]
  BY <1>1
<1>5. /\ paid \in [Players -> Int]
      /\ \A x \in Players : paid[x] \in Nat
  BY <1>1, <1>2, <1>4
<1> HIDE DEF paid
<1>6. /\ Total(balance, Players) \in Nat /\ Total(paid, Players) \in Nat
      /\ Total(paid, Players) - paid[p] = Total(balance, Players) - balance[p]
  <2>1. \A x \in Players : balance[x] \in Nat /\ paid[x] \in Nat
    BY <1>1, <1>5
  <2> QED
    BY <1>1, <1>4, <2>1, TotalChange
<1>7. Total(paid, Players) = Total(balance, Players) - n
  BY <1>1, <1>2, <1>4, <1>6
<1>8. CASE q \in Players
  <2>1. balance'[q] = paid[q] + m /\ \A x \in Players : x # q => balance'[x] = paid[x]
    BY <1>3, <1>5, <1>8
  <2>2. /\ Total(balance', Players) \in Nat
        /\ Total(balance', Players) - balance'[q] = Total(paid, Players) - paid[q]
    BY <1>1, <1>5, <1>8, <2>1, TotalChange
  <2> QED
    BY <1>2, <1>5, <1>6, <1>7, <1>8, <2>1, <2>2
<1>9. CASE q \notin Players
  <2>1. balance' = paid
    BY <1>3, <1>5, <1>9
  <2> QED
    BY <1>2, <1>6, <1>7, <2>1
<1> QED
  BY <1>8, <1>9

(* What the sum does, step by step.  B is what the accounts change by.     *)
Spends == /\ Total(balance', Players) <= Total(balance, Players)
          /\ Cooking' \subseteq Cooking
StartsToCook == /\ Total(balance', Players) = Total(balance, Players) - CookCost
                /\ \E o : Cooking' = Cooking \cup {o}
Refunds == /\ Total(balance', Players) = Total(balance, Players) + CookCost
           /\ \E o \in Cooking : Cooking' = Cooking \ {o}

LEMMA SpendingStep ==
  ASSUME CrystalsCounted, CrystalsCounted', IsFiniteSet(ongoings), IsFiniteSet(ongoings'),
         \/ Spends \/ StartsToCook \/ Refunds
         \/ /\ Total(balance', Players) = Total(balance, Players)
            /\ Cardinality(Cooking') <= Cardinality(Cooking)
  PROVE  Crystals' <= Crystals
<1> DEFINE b == Total(balance, Players)
           bb == Total(balance', Players)
           c == Cardinality(Cooking)
           cc == Cardinality(Cooking')
<1>1. b \in Nat /\ Crystals = b + CookCost * c
  BY DEF CrystalsCounted
<1>2. bb \in Nat /\ Crystals' = bb + CookCost * cc
  BY DEF CrystalsCounted
<1>3. /\ IsFiniteSet(Cooking) /\ IsFiniteSet(Cooking')
      /\ c \in Nat /\ cc \in Nat
  <2>1. Cooking \in SUBSET ongoings /\ Cooking' \in SUBSET ongoings'
    BY DEF Cooking
  <2> QED
    BY <2>1, FS_Subset, FS_CardinalityType
<1>4. CookCost \in Nat
  BY NumbersAssumption
<1>5. ASSUME bb <= b, cc <= c PROVE Crystals' <= Crystals
  <2>1. CookCost * cc <= CookCost * c
    BY <1>3, <1>4, <1>5
  <2> HIDE DEF b, bb, c, cc
  <2>2. CookCost * cc \in Int /\ CookCost * c \in Int
    BY <1>3, <1>4
  <2> QED
    BY <1>1, <1>2, <1>5, <2>1, <2>2
<1>6. CASE Spends
  <2>1. cc <= c
    BY <1>3, <1>6, FS_Subset DEF Spends
  <2> QED
    BY <1>5, <1>6, <2>1 DEF Spends
<1>7. CASE StartsToCook
  <2>1. PICK o : Cooking' = Cooking \cup {o}
    BY <1>7 DEF StartsToCook
  <2>2. cc \in {c, c + 1}
    BY <1>3, <2>1, FS_AddElement
  <2>3. bb = b - CookCost
    BY <1>7 DEF StartsToCook
  <2> HIDE DEF b, bb, c, cc
  <2>4. CookCost * cc \in {CookCost * c, CookCost * c + CookCost}
    BY <1>3, <1>4, <2>2
  <2>5. CookCost * c \in Int
    BY <1>3, <1>4
  <2> QED
    BY <1>1, <1>2, <1>4, <2>3, <2>4, <2>5
<1>8. CASE Refunds
  <2>1. PICK o \in Cooking : Cooking' = Cooking \ {o}
    BY <1>8 DEF Refunds
  <2>2. cc = c - 1
    BY <1>3, <2>1, FS_RemoveElement
  <2>3. bb = b + CookCost
    BY <1>8 DEF Refunds
  <2> HIDE DEF b, bb, c, cc
  <2>4. CookCost * cc = CookCost * c - CookCost
    BY <1>3, <1>4, <2>2
  <2>5. CookCost * c \in Int
    BY <1>3, <1>4
  <2> QED
    BY <1>1, <1>2, <1>4, <2>3, <2>4, <2>5
<1>9. CASE bb = b /\ cc <= c
  BY <1>1, <1>5, <1>9
<1> QED
  BY <1>6, <1>7, <1>8, <1>9

LEMMA SpendingMove ==
  ASSUME IndType, NoDebt, IndType', NoDebt', ListedHasPrice, Move
  PROVE  Spends \/ StartsToCook
<1> PICK p \in Players : CookMove(p) \/ ExpeditionMove(p) \/ FighterMove(p)
  BY DEF Move
<1>1. Total(balance, Players) \in Nat
  BY CrystalsTotal DEF CrystalsCounted
<1>2. ASSUME balance' = balance, Cooking' \subseteq Cooking PROVE Spends
  BY <1>1, <1>2 DEF Spends
<1>3. CASE CookMove(p)
  <2>1. ASSUME NEW r, NEW f, CookRecipe(p, r, f) PROVE StartsToCook
    <3> DEFINE o == [NewOngoing(p, "COOK_RECIPE",
                                Duration("COOK_RECIPE", inv[p]["cooker"] > 0))
                     EXCEPT !.recipe = r]
    <3>1. ongoings' = ongoings \cup {o}
      BY <2>1 DEF CookRecipe
    <3>2. o.type = "COOK_RECIPE"
      BY DEF NewOngoing
    <3> HIDE DEF o
    <3>3. Cooking' = Cooking \cup {o}
      BY <3>1, <3>2 DEF Cooking
    <3>4. Total(balance', Players) = Total(balance, Players) - CookCost
      BY <2>1, PaymentChanges, NumbersAssumption DEF CookRecipe
    <3> QED
      BY <3>3, <3>4 DEF StartsToCook
  <2>2. ASSUME NEW R, DestroyRecipes(p, R) PROVE Spends
    BY <1>2, <2>2 DEF DestroyRecipes, Cooking
  <2>3. ASSUME NEW f, CollectCooked(p, f) \/ ClaimSweetener(p, f) PROVE Spends
    BY <1>2, <2>3 DEF CollectCooked, ClaimSweetener, Cooking
  <2>4. ASSUME NEW f, CookSweetener(p, f) PROVE Spends
    <3> DEFINE o == [NewOngoing(p, "COOK_SWEETENER", Duration("COOK_SWEETENER", FALSE))
                     EXCEPT !.fighter = f, !.level = applied[f] + 1]
    <3>1. \E x : ongoings' = ongoings \cup {x} /\ x.type = "COOK_SWEETENER"
      <4>1. o.type = "COOK_SWEETENER"
        BY DEF NewOngoing
      <4> QED
        BY <2>4, <4>1, Zenon DEF CookSweetener
    <3>2. Cooking' \subseteq Cooking
      BY <3>1 DEF Cooking
    <3>3. Total(balance', Players) = Total(balance, Players) - SweetenerCost
      BY <2>4, PaymentChanges, NumbersAssumption DEF CookSweetener
    <3> QED
      BY <1>1, <3>2, <3>3, NumbersAssumption DEF Spends
  <2> QED
    BY <1>3, <2>1, <2>2, <2>3, <2>4 DEF CookMove
<1>4. CASE ExpeditionMove(p)
  <2>1. ASSUME NEW e, NEW S, GoExpedition(p, e, S) PROVE Spends
    <3> DEFINE n(f) == [NewOngoing(p, "EXPEDITION",
                                   Duration("EXPEDITION", inv[p]["espresso"] > 0))
                        EXCEPT !.fighter = f, !.expedition = e]
    <3>1. ongoings' = ongoings \cup {n(f) : f \in S} /\ balance' = balance
      BY <2>1 DEF GoExpedition
    <3>2. \A f \in S : n(f).type = "EXPEDITION"
      BY DEF NewOngoing
    <3> HIDE DEF n
    <3>3. Cooking' \subseteq Cooking
      BY <3>1, <3>2 DEF Cooking
    <3> QED
      BY <1>2, <3>1, <3>3
  <2>2. ASSUME NEW E, ClaimExpeditions(p, E) PROVE Spends
    BY <1>2, <2>2 DEF ClaimExpeditions, Cooking
  <2> QED
    BY <1>4, <2>1, <2>2 DEF ExpeditionMove
<1>5. CASE FighterMove(p)
  <2>1. ASSUME NEW f, Deconstruct(p, f) PROVE Spends
    <3> DEFINE o == [NewOngoing(p, "DECONSTRUCTION", Blocks["DECONSTRUCTION"])
                     EXCEPT !.fighter = f]
    <3>1. \E x : ongoings' = ongoings \cup {x} /\ x.type = "DECONSTRUCTION"
      <4>1. o.type = "DECONSTRUCTION"
        BY DEF NewOngoing
      <4> QED
        BY <2>1, <4>1, Zenon DEF Deconstruct
    <3>2. Cooking' \subseteq Cooking
      BY <3>1 DEF Cooking
    <3> QED
      BY <1>2, <2>1, <3>2 DEF Deconstruct
  <2>2. ASSUME NEW f, ClaimDeconstruction(p, f) \/ Unlist(p, f) PROVE Spends
    BY <1>2, <2>2 DEF ClaimDeconstruction, Unlist, Cooking
  <2>3. ASSUME NEW f \in Fighters, Buy(p, f) PROVE Spends
    <3>1. Cooking' \subseteq Cooking
      BY <2>3 DEF Buy, Cooking
    <3> QED
      BY <2>3, <3>1, SaleChanges DEF Spends
  <2>4. ASSUME NEW f, NEW x, NEW d, Sell(p, f, x, d) PROVE Spends
    <3>1. Total(balance', Players) = Total(balance, Players) - ListingFee
      BY <2>4, PaymentChanges, NumbersAssumption DEF Sell
    <3>2. Cooking' \subseteq Cooking
      BY <2>4 DEF Sell, Cooking
    <3> QED
      BY <1>1, <3>1, <3>2, NumbersAssumption DEF Spends
  <2>5. ASSUME NEW f, NEW S, NEW R, NEW c, Transfigure(p, f, S, R, c) PROVE Spends
    BY <1>2, <2>5 DEF Transfigure, Cooking
  <2> QED
    BY <1>5, <2>1, <2>2, <2>3, <2>4, <2>5 DEF FighterMove
<1> QED
  BY <1>3, <1>4, <1>5

LEMMA SpendingBlockStep ==
  ASSUME IndType, NoDebt, IndType', NoDebt', IsFiniteSet(ongoings), BlockStep
  PROVE  \/ Spends \/ Refunds
         \/ /\ Total(balance', Players) = Total(balance, Players)
            /\ Cardinality(Cooking') <= Cardinality(Cooking)
<1>1. Total(balance, Players) \in Nat
  BY CrystalsTotal DEF CrystalsCounted
<1>2. ASSUME balance' = balance, Cooking' \subseteq Cooking PROVE Spends
  BY <1>1, <1>2 DEF Spends
<1>3. CASE TickOngoings
  <2> DEFINE tick == [o \in Cooking |-> Tick(o)]
  <2>1. \A o \in ongoings : Tick(o).type = o.type
    BY DEF Tick, Ongoing, IndType, TypeInv, TypeOK
  <2>2. ongoings' = {Tick(o) : o \in ongoings} /\ balance' = balance
    BY <1>3 DEF TickOngoings
  <2>3. tick \in Surjection(Cooking, Cooking')
    <3>1. \A o \in Cooking : Tick(o) \in Cooking'
      BY <2>1, <2>2 DEF Cooking
    <3>2. \A x \in Cooking' : \E o \in Cooking : x = Tick(o)
      BY <2>1, <2>2 DEF Cooking
    <3> QED
      BY <3>1, <3>2 DEF Surjection
  <2>4. IsFiniteSet(Cooking)
    <3>1. Cooking \in SUBSET ongoings
      BY DEF Cooking
    <3> QED
      BY <3>1, FS_Subset
  <2>5. Cardinality(Cooking') <= Cardinality(Cooking)
    <3> HIDE DEF tick
    <3> QED
      BY <2>3, <2>4, FS_Surjection
  <2> QED
    BY <2>2, <2>5
<1>4. CASE ResolveStep
  <2>1. ASSUME NEW o, \/ ResolveExpedition(o) \/ ResolveSweetener(o)
                      \/ ResolveDeconstruction(o)
        PROVE  Spends
    <3>1. balance' = balance /\ ongoings' = ongoings \ {o}
      BY <2>1 DEF ResolveExpedition, ResolveSweetener, ResolveDeconstruction, Resolve
    <3> QED
      BY <1>2, <3>1 DEF Cooking
  <2>2. ASSUME NEW o, NEW f, CookTreat(o, f) PROVE Spends
    BY <1>2, <2>2 DEF CookTreat, Resolve, Cooking
  <2>3. ASSUME NEW o \in Due("COOK_RECIPE"), FailCooking(o) PROVE Refunds
    <3>1. o \in Cooking /\ o.player \in Players
      BY DEF Due, Cooking, Ongoing, IndType, TypeInv, TypeOK
    <3>2. Cooking' = Cooking \ {o}
      BY <2>3 DEF FailCooking, Resolve, Cooking
    <3>3. Total(balance', Players) = Total(balance, Players) - (-CookCost)
      <4>1. -CookCost \in Int /\ Pay(o.player, -CookCost)
        BY <2>3, NumbersAssumption DEF FailCooking
      <4> QED
        BY <3>1, <4>1, PaymentChanges
    <3> QED
      BY <1>1, <3>1, <3>2, <3>3, NumbersAssumption DEF Refunds
  <2> QED
    BY <1>4, <2>1, <2>2, <2>3 DEF ResolveStep
<1>5. CASE BeginBlock \/ CheckFightersForSale
  BY <1>2, <1>5 DEF BeginBlock, CheckFightersForSale, Cooking
<1> QED
  BY <1>3, <1>4, <1>5 DEF BlockStep

(* Whatever players and blocks do, the crystals that accounts hold, with   *)
(* what the oven may have to give back, never become more: a refund gives  *)
(* back what was paid, once, and a sale less to the seller than it takes.  *)
THEOREM CrystalsAreOnlySpent == Spec => CrystalsOnlySpent
<1> DEFINE Known == /\ IndType /\ NoDebt /\ ListedHasPrice /\ IsFiniteSet(ongoings)
                    /\ CrystalsCounted
<1>1. IndOwners /\ IndDebt => Known
  BY CrystalsTotal DEF IndOwners, IndRows, IndDebt
<1>2. Known /\ Known' /\ [Next]_vars => [Crystals' <= Crystals]_vars
  <2> SUFFICES ASSUME Known, Known', Next PROVE Crystals' <= Crystals
    OBVIOUS
  <2>1. CASE Move
    BY <2>1, SpendingMove, SpendingStep
  <2>2. CASE BlockStep
    BY <2>2, SpendingBlockStep, SpendingStep
  <2> QED
    BY <2>1, <2>2 DEF Next
<1> HIDE DEF Known
<1> QED
  BY <1>1, <1>2, OwnersInvariant, DebtInvariant, PTL DEF Spec, CrystalsOnlySpent
=============================================================================
