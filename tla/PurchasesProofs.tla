-------------------------- MODULE PurchasesProofs --------------------------
(***************************************************************************)
(* Theorems about Purchases, for all values of the constants.              *)
(***************************************************************************)
EXTENDS Purchases, Counting

(* What a move has paid is paid to finitely many.                          *)
IndType == TypeOK /\ IsFiniteSet(DOMAIN paid)

-----------------------------------------------------------------------------
(***************************************************************************)
(* The operators.                                                          *)
(***************************************************************************)
LEMMA TiersFinite ==
  /\ IsFiniteSet(Tiers) /\ Cardinality(Tiers) = TierCount
  /\ Tiers \in SUBSET Int
<1>1. TierCount \in Nat \ {0}
  BY PurchasesAssumption
<1> QED
  BY <1>1, FS_Interval DEF Tiers

(* A whole price is at least one share.                                    *)
LEMMA WeightsArePositive == TotalWeight \in Nat \ {0}
<1>1. TierCount \in Nat \ {0}
  BY PurchasesAssumption
<1> DEFINE n == TierCount * (TierCount + 1)
<1>2. n \in Nat
  BY <1>1
<1> HIDE DEF n
<1>3. n \div 2 \in Nat
  BY <1>2
<1> QED
  BY <1>1, <1>3 DEF TotalWeight, n

LEMMA ShareAddressType ==
  ASSUME TypeOK, NEW p \in Players, NEW t \in Tiers, Exists(t)
  PROVE  holder[t] \in Names /\ ShareAddress(p, t) \in Addresses \cup {NoAddress}
<1>1. holder[t] \in Names
  BY DEF TypeOK, Exists
<1>2. Burn \in Addresses
  BY DEF Addresses
<1> QED
  BY <1>1, <1>2 DEF TypeOK, ShareAddress

LEMMA PayeesType ==
  ASSUME TypeOK, NEW p \in Players
  PROVE  Payees(p) \in SUBSET Addresses /\ IsFiniteSet(Payees(p))
<1> DEFINE there == {u \in Tiers : Exists(u)}
           all == {ShareAddress(p, t) : t \in there}
           share == [t \in there |-> ShareAddress(p, t)]
<1>1. IsFiniteSet(there)
  BY TiersFinite, FS_Subset
<1>2. share \in Surjection(there, all)
  BY DEF Surjection
<1>3. IsFiniteSet(all)
  <2> HIDE DEF all, share, there
  <2> QED
    BY <1>1, <1>2, FS_Surjection
<1>4. \A t \in there : ShareAddress(p, t) \in Addresses \cup {NoAddress}
  BY ShareAddressType
<1>5. Listed(p) \in SUBSET all /\ Listed(p) \in SUBSET Addresses
  BY <1>4 DEF Listed
<1> HIDE DEF all
<1>6. IsFiniteSet(Listed(p)) /\ IsFiniteSet({Dev})
  BY <1>3, <1>5, FS_Subset, FS_Singleton
<1>7. IsFiniteSet({Dev} \cup Listed(p))
  BY <1>6, FS_Union
<1>8. Dev \in Addresses
  BY DEF Addresses
<1> QED
  BY <1>5, <1>7, <1>8 DEF Payees

(* A payment has a sum, and one of nothing sums up to nothing.             *)
LEMMA TotalPaidIsInt ==
  ASSUME NEW pd, IsFiniteSet(DOMAIN pd), \A a \in DOMAIN pd : pd[a] \in Int
  PROVE  TotalPaid(pd) \in Int
<1>1. Sum(pd, DOMAIN pd) \in Int
  BY SumIsInt
<1>2. TotalPaid(pd) = Sum(pd, DOMAIN pd)
  BY Zenon DEF TotalPaid, Sum
<1> QED
  BY <1>1, <1>2

LEMMA TotalOfNothing ==
  ASSUME NEW pd, IsFiniteSet(DOMAIN pd), \A a \in DOMAIN pd : pd[a] = 0
  PROVE  TotalPaid(pd) = 0
<1> DEFINE payees == DOMAIN pd
<1> HIDE DEF payees
<1>1. IsFiniteSet(payees) /\ \A a \in payees : pd[a] \in Nat
  BY DEF payees
<1>2. MapThenSumSet(LAMBDA a : pd[a], payees) = Total(pd, payees)
  BY <1>1, SumIsTotal, Zenon
<1>3. {} \in SUBSET payees /\ \A a \in payees : pd[a] = IF a \in {} THEN 1 ELSE 0
  BY DEF payees
<1>4. Total(pd, payees) = Cardinality({})
  BY <1>1, <1>3, TotalOfOnes
<1>5. TotalPaid(pd) = Total(pd, payees)
  BY <1>2, Zenon DEF TotalPaid, payees
<1> QED
  BY <1>4, <1>5, FS_EmptySet

LEMMA DeductedType ==
  ASSUME IndType, NEW cost \in Int
  PROVE  /\ DOMAIN Deducted(cost) = DOMAIN paid
         /\ \A a \in DOMAIN paid : Deducted(cost)[a] \in Int
<1>1. cost % TotalWeight \in Int
  BY WeightsArePositive
<1> QED
  BY <1>1 DEF Deducted, IndType, TypeOK
-----------------------------------------------------------------------------
(***************************************************************************)
(* Types.                                                                  *)
(***************************************************************************)
LEMMA TypeInit == Init => IndType
<1> SUFFICES ASSUME Init PROVE IndType
  OBVIOUS
<1>1. IsFiniteSet(DOMAIN paid) /\ DOMAIN paid = {}
  BY FS_EmptySet DEF Init, Nothing
<1>2. 0 \in 0..MaxBalance /\ 0 \in 0..MaxStock /\ 0 \in 0..MaxPrizes
  BY PurchasesAssumption
<1>3. /\ balance \in [Players -> 0..MaxBalance]
      /\ stock \in [Players -> [Items -> 0..MaxStock]]
      /\ prizes \in [Early -> 0..MaxPrizes]
  BY <1>2 DEF Init
<1>4. /\ holder \in [Tiers -> Names \cup {Nobody}]
      /\ address \in [Names -> Addresses \cup {NoAddress}]
      /\ accounts \subseteq Players /\ rerolled \subseteq Treats /\ free \subseteq Treats
      /\ multiplier \in Multipliers \cup {1000} /\ launched \in BOOLEAN
      /\ mover \in Players \cup {Nobody}
  BY DEF Init
<1> QED
  BY <1>1, <1>3, <1>4 DEF IndType, TypeOK

LEMMA IssueType ==
  ASSUME IndType, NEW p \in Players, IssueAddress(p)
  PROVE  IndType'
<1>1. Missing \in SUBSET Int /\ Missing \in SUBSET Tiers /\ IsFiniteSet(Missing)
  BY TiersFinite, FS_Subset DEF Missing
<1>2. FreeCandidates(p) \in SUBSET Int /\ FreeCandidates(p) \in SUBSET Tiers
      /\ IsFiniteSet(FreeCandidates(p))
  BY TiersFinite, FS_Subset DEF FreeCandidates
<1>3. Max(Missing) \in Missing /\ Min(FreeCandidates(p)) \in FreeCandidates(p)
  BY <1>1, <1>2, MaxIsGreatest, MinIsLeast DEF IssueAddress
<1>4. holder[Max(Missing)] \in Names /\ Candidate[Min(FreeCandidates(p))] \in Addresses
  BY <1>1, <1>2, <1>3 DEF Missing, IndType, TypeOK, Exists, Addresses
<1>5. address' \in [Names -> Addresses \cup {NoAddress}]
  BY <1>4 DEF IssueAddress, IndType, TypeOK
<1> QED
  BY <1>5 DEF IssueAddress, IndType, TypeOK, world, purse

LEMMA BeginType ==
  ASSUME IndType, NEW p \in Players, NEW out \in [Payees(p) -> Amounts], BeginMove(p, out)
  PROVE  IndType'
<1>1. DOMAIN paid' = Payees(p) /\ Payees(p) \in SUBSET Addresses /\ IsFiniteSet(Payees(p))
  BY PayeesType DEF BeginMove, IndType
<1>2. \A a \in Payees(p) : out[a] \in Int
  <2>1. \A n \in Amounts : n \in Int
    BY PurchasesAssumption
  <2>2. \A a \in Payees(p) : out[a] \in Amounts
    OBVIOUS
  <2> QED
    BY <2>1, <2>2
<1>3. \A a \in DOMAIN paid' : paid'[a] \in Int
  BY <1>1, <1>2 DEF BeginMove
<1> QED
  BY <1>1, <1>3 DEF BeginMove, IndType, TypeOK, world, purse

LEMMA TakeType ==
  ASSUME IndType, mover # Nobody, NEW w \in Wares, NEW n \in Nat, MayBuy(w, n), Take(w, n)
  PROVE  IndType'
<1>1. mover \in Players
  BY DEF IndType, TypeOK
<1>2. Price[w] \in Nat /\ \A i \in Items : Contents[w][i] \in Nat
  BY PurchasesAssumption
<1>3. Price[w] * n \in Nat /\ \A i \in Items : Contents[w][i] * n \in Nat
  BY <1>2
<1>4. balance[mover] \in Nat /\ balance[mover] <= MaxBalance /\ MaxBalance \in Nat
  BY <1>1, PurchasesAssumption DEF IndType, TypeOK
<1>5. balance[mover] - Price[w] * n \in 0..MaxBalance
  BY <1>3, <1>4 DEF MayBuy
<1>6. balance' \in [Players -> 0..MaxBalance]
  BY <1>1, <1>5 DEF Take, IndType, TypeOK
<1>7. \A i \in Items : stock[mover][i] + Contents[w][i] * n \in 0..MaxStock
  <2> TAKE i \in Items
  <2>1. stock[mover][i] \in 0..MaxStock /\ MaxStock \in Nat
    BY <1>1, PurchasesAssumption DEF IndType, TypeOK
  <2>2. Contents[w][i] * n \in Nat /\ stock[mover][i] + Contents[w][i] * n <= MaxStock
    BY <1>3 DEF Take
  <2> QED
    BY <2>1, <2>2
<1>8. stock' \in [Players -> [Items -> 0..MaxStock]]
  BY <1>1, <1>7 DEF Take, IndType, TypeOK
<1> QED
  BY <1>6, <1>8 DEF Take, IndType, TypeOK, world

LEMMA SubMoveType ==
  ASSUME IndType, SubMove
  PROVE  IndType'
<1>1. ASSUME NEW a \in OwnAddresses, SetAddress(a) PROVE IndType'
  <2>1. mover \in Players /\ mover \in Names /\ a \in Addresses
    BY <1>1 DEF SetAddress, IndType, TypeOK, Names, Addresses
  <2>2. address' \in [Names -> Addresses \cup {NoAddress}]
    BY <1>1, <2>1 DEF SetAddress, IndType, TypeOK
  <2>3. prizes' \in [Early -> 0..MaxPrizes]
    BY <1>1, PurchasesAssumption DEF SetAddress, IndType, TypeOK
  <2> QED
    BY <1>1, <2>2, <2>3 DEF SetAddress, IndType, TypeOK, world, purse
<1>2. ASSUME NEW b \in Bundles, BuyCrystals(b) PROVE IndType'
  <2>1. mover \in Players /\ multiplier \in Nat
    BY <1>2, PurchasesAssumption DEF BuyCrystals, IndType, TypeOK
  <2>2. CrystalCost(b) \in Int
    <3>1. BundleCost[b] \in Nat /\ multiplier \div 1000 \in Nat
      BY <2>1, PurchasesAssumption
    <3> QED
      BY <3>1 DEF CrystalCost
  <2>3. balance' \in [Players -> 0..MaxBalance]
    <3>1. /\ balance[mover] \in 0..MaxBalance /\ Quantity[b] \in Nat /\ MaxBalance \in Nat
          /\ balance[mover] + Quantity[b] <= MaxBalance
      BY <1>2, <2>1, PurchasesAssumption DEF BuyCrystals, IndType, TypeOK
    <3>2. balance[mover] + Quantity[b] \in 0..MaxBalance
      BY <3>1
    <3> QED
      BY <1>2, <2>1, <3>2 DEF BuyCrystals, IndType, TypeOK
  <2>4. paid' = Deducted(CrystalCost(b))
    BY <1>2 DEF BuyCrystals
  <2>5. DOMAIN paid' = DOMAIN paid /\ \A a \in DOMAIN paid : paid'[a] \in Int
    BY <2>2, <2>4, DeductedType
  <2> QED
    BY <1>2, <2>3, <2>5 DEF BuyCrystals, IndType, TypeOK, world
<1>3. ASSUME NEW f \in Treats, RerollName(f) PROVE IndType'
  <2>1. TotalPaid(paid) \in Int
    BY TotalPaidIsInt DEF IndType, TypeOK
  <2>2. paid' = Deducted(TotalPaid(paid))
    BY <1>3 DEF RerollName
  <2>3. DOMAIN paid' = DOMAIN paid /\ \A a \in DOMAIN paid : paid'[a] \in Int
    BY <2>1, <2>2, DeductedType
  <2> QED
    BY <1>3, <2>3 DEF RerollName, IndType, TypeOK, world, purse
<1>4. ASSUME NEW w \in Wares, BuyGoody(w) \/ BuyGoodyBundle(w) PROVE IndType'
  <2>1. mover # Nobody /\ MayBuy(w, 1) /\ Take(w, 1)
    BY <1>4 DEF BuyGoody, BuyGoodyBundle, ParseGoodyPurchase, ParseGoodyBundlePurchase
  <2> QED
    BY <2>1, TakeType
<1>5. ASSUME NEW w \in Wares, NEW n \in 1..MaxTotal, BuySweetener(w, n) PROVE IndType'
  <2>1. mover # Nobody /\ MayBuy(w, n) /\ Take(w, n)
    BY <1>5 DEF BuySweetener, ParseSweetenerPurchase
  <2>2. n \in Nat
    BY PurchasesAssumption
  <2> QED
    BY <2>1, <2>2, TakeType
<1> QED
  BY <1>1, <1>2, <1>3, <1>4, <1>5 DEF SubMove

LEMMA ElsewhereType ==
  ASSUME IndType, Elsewhere
  PROVE  IndType'
<1>1. CASE CreateTiers
  <2>1. holder' \in [Tiers -> Names \cup {Nobody}]
    BY <1>1, PurchasesAssumption DEF CreateTiers
  <2>2. ASSUME NEW p \in Names
        PROVE  address'[p] \in Addresses \cup {NoAddress}
    <3>1. CASE \E t \in Tiers : p = House[t]
      <4> DEFINE t == CHOOSE t \in Tiers : p = House[t]
      <4>1. t \in Tiers
        BY <3>1
      <4>2. address'[p] = Candidate[t]
        BY <1>1, <3>1 DEF CreateTiers
      <4> HIDE DEF t
      <4> QED
        BY <4>1, <4>2 DEF Addresses
    <3>2. CASE ~ \E t \in Tiers : p = House[t]
      BY <1>1, <3>2 DEF CreateTiers, IndType, TypeOK
    <3> QED
      BY <3>1, <3>2
  <2>3. address' \in [Names -> Addresses \cup {NoAddress}]
    BY <1>1, <2>2 DEF CreateTiers
  <2> QED
    BY <1>1, <2>1, <2>3 DEF CreateTiers, IndType, TypeOK, purse
<1>2. CASE Launch
  BY <1>2 DEF Launch, IndType, TypeOK, purse
<1>3. ASSUME NEW t \in Tiers, Abdicate(t) PROVE IndType'
  <2>1. House[t] \in Names
    BY PurchasesAssumption
  <2> QED
    BY <1>3, <2>1 DEF Abdicate, IndType, TypeOK, purse
<1>4. ASSUME NEW t \in Tiers, NEW p \in Players, PassCrown(t, p) PROVE IndType'
  BY <1>4 DEF PassCrown, IndType, TypeOK, purse, Names
<1>5. ASSUME NEW f \in Treats, Occupy(f) PROVE IndType'
  BY <1>5 DEF Occupy, IndType, TypeOK, purse
<1>6. ASSUME NEW m \in Multipliers, MaybeSetNewCostMultiplier(m) PROVE IndType'
  BY <1>6 DEF MaybeSetNewCostMultiplier, IndType, TypeOK, purse
<1> QED
  BY <1>1, <1>2, <1>3, <1>4, <1>5, <1>6 DEF Elsewhere

LEMMA TypeStep == IndType /\ [Next]_vars => IndType'
<1> SUFFICES ASSUME IndType, [Next]_vars PROVE IndType'
  OBVIOUS
<1>1. CASE \E p \in Players : \/ IssueAddress(p)
                              \/ \E out \in [Payees(p) -> Amounts] : BeginMove(p, out)
  BY <1>1, IssueType, BeginType
<1>2. CASE SubMove
  BY <1>2, SubMoveType
<1>3. CASE EndMove
  <2>1. DOMAIN paid' = {} /\ IsFiniteSet(DOMAIN paid')
    BY <1>3, FS_EmptySet DEF EndMove, Nothing
  <2> QED
    BY <1>3, <2>1 DEF EndMove, IndType, TypeOK, world, purse
<1>4. CASE Elsewhere
  BY <1>4, ElsewhereType
<1>5. CASE UNCHANGED vars
  BY <1>5 DEF vars, world, purse, IndType, TypeOK
<1> QED
  BY <1>1, <1>2, <1>3, <1>4, <1>5 DEF Next

LEMMA TypeInvariant == Spec => []IndType
<1> QED
  BY TypeInit, TypeStep, PTL DEF Spec

(* Every state has the types of the schema, whatever crowns, addresses,    *)
(* payments and prices there are: no purchase makes a balance negative or  *)
(* ends the process, and what is deducted from a payment is a number.      *)
THEOREM TypeCorrect == Spec => []TypeOK
<1>1. IndType => TypeOK
  BY DEF IndType
<1> QED
  BY <1>1, TypeInvariant, PTL

-----------------------------------------------------------------------------
(***************************************************************************)
(* Addresses.  A holder without one leaves at most one tier less for the   *)
(* listed addresses than there are candidates.                             *)
(***************************************************************************)
LEMMA CandidateLeft ==
  ASSUME TypeOK, NEW p \in Players, Missing # {}
  PROVE  FreeCandidates(p) # {}
<1> SUFFICES ASSUME FreeCandidates(p) = {} PROVE FALSE
  OBVIOUS
<1>1. PICK m \in Tiers : Exists(m) /\ address[holder[m]] = NoAddress
  BY DEF Missing
<1>2. \A t \in Tiers : Candidate[t] \in Listed(p)
  BY DEF FreeCandidates
<1>3. \A t \in Tiers : Candidate[t] # Burn /\ Candidate[t] # NoAddress
  BY PurchasesAssumption DEF Addresses
<1>4. ShareAddress(p, m) \in {Burn, NoAddress}
  BY <1>1 DEF ShareAddress
<1> DEFINE Pays(t, u) == ShareAddress(p, u) = Candidate[t]
           payer == [t \in Tiers |-> CHOOSE u \in Tiers \ {m} : Pays(t, u)]
<1>5. \A t \in Tiers : \E u \in Tiers \ {m} : Pays(t, u)
  <2> TAKE t \in Tiers
  <2>1. PICK u \in Tiers : ShareAddress(p, u) = Candidate[t]
    BY <1>2 DEF Listed
  <2>2. u # m
    BY <1>3, <1>4, <2>1
  <2> QED
    BY <2>1, <2>2
<1>6. \A t \in Tiers : payer[t] \in Tiers \ {m} /\ ShareAddress(p, payer[t]) = Candidate[t]
  <2> TAKE t \in Tiers
  <2> DEFINE u == CHOOSE u \in Tiers \ {m} : Pays(t, u)
  <2>1. u \in Tiers \ {m} /\ Pays(t, u)
    BY <1>5
  <2> QED
    BY <2>1
<1> HIDE DEF payer
<1>7. \A t, u \in Tiers : payer[t] = payer[u] => t = u
  <2> SUFFICES ASSUME NEW t \in Tiers, NEW u \in Tiers, payer[t] = payer[u] PROVE t = u
    OBVIOUS
  <2>1. Candidate[t] = Candidate[u]
    BY <1>6
  <2> QED
    BY <2>1, PurchasesAssumption
<1>8. payer \in [Tiers -> Tiers \ {m}]
  BY <1>6 DEF payer
<1>9. payer \in Injection(Tiers, Tiers \ {m})
  BY <1>7, <1>8 DEF Injection, IsInjective
<1>10. IsFiniteSet(Tiers \ {m}) /\ Cardinality(Tiers \ {m}) = TierCount - 1
  BY TiersFinite, FS_RemoveElement
<1>11. Cardinality(Tiers) <= TierCount - 1
  BY <1>9, <1>10, FS_Injection
<1>12. Cardinality(Tiers) = TierCount /\ TierCount \in Nat
  BY TiersFinite, PurchasesAssumption
<1> QED
  BY <1>11, <1>12

(* A crown holder without an address can always be given one, whoever      *)
(* moves and whatever addresses players set: there are as many candidates  *)
(* as tiers, so one of them is not listed.                                 *)
THEOREM AddressesCanBeIssued == Spec => []AddressCanBeIssued
<1>1. IndType => AddressCanBeIssued
  BY CandidateLeft DEF IndType, AddressCanBeIssued
<1> QED
  BY <1>1, TypeInvariant, PTL
-----------------------------------------------------------------------------
(***************************************************************************)
(* Who is paid.                                                            *)
(***************************************************************************)

(* Nothing but BeginMove makes a player the one who moves.                 *)
LEMMA OnlyBeginMove ==
  ASSUME Next, mover = Nobody, mover' # Nobody
  PROVE  \E out \in [Payees(mover') -> Amounts] : mover' \in Players /\ BeginMove(mover', out)
<1>1. ASSUME NEW p \in Players, NEW out \in [Payees(p) -> Amounts], BeginMove(p, out)
      PROVE  \E o \in [Payees(mover') -> Amounts] : mover' \in Players /\ BeginMove(mover', o)
  <2>1. mover' = p
    BY <1>1 DEF BeginMove
  <2> QED
    BY <1>1, <2>1
<1>2. ASSUME NEW p \in Players, IssueAddress(p) PROVE FALSE
  BY <1>2 DEF IssueAddress
<1>3. ~SubMove
  BY DEF SubMove, SetAddress, BuyCrystals, RerollName, BuyGoody, BuyGoodyBundle, BuySweetener
<1>4. ~EndMove
  BY DEF EndMove
<1>5. ~Elsewhere
  BY DEF Elsewhere, CreateTiers, Launch, Abdicate, PassCrown, Occupy, MaybeSetNewCostMultiplier
<1> QED
  BY <1>1, <1>2, <1>3, <1>4, <1>5 DEF Next

LEMMA BeginMovePays ==
  ASSUME IndType, NEW p \in Players, NEW out \in [Payees(p) -> Amounts], BeginMove(p, out),
         TotalPaid(paid') > 0
  PROVE  /\ Exists(1) /\ paid' = [a \in Payees(p) |-> out[a]]
         /\ \A a \in Payees(p) : out[a] >= Weight(p, a) * Filtered(FirstShare(p, out))
<1>1. FirstShare(p, out) # 0
  <2> SUFFICES ASSUME FirstShare(p, out) = 0 PROVE FALSE
    OBVIOUS
  <2>1. DOMAIN paid' = Payees(p) /\ \A a \in Payees(p) : paid'[a] = 0
    BY DEF BeginMove
  <2>2. IsFiniteSet(Payees(p))
    BY PayeesType DEF IndType
  <2>3. TotalPaid(paid') = 0
    BY <2>1, <2>2, TotalOfNothing
  <2> QED
    BY <2>3
<1>2. Exists(1)
  BY <1>1 DEF FirstShare
<1>3. paid' = [a \in Payees(p) |-> out[a]]
  BY <1>1 DEF BeginMove
<1>4. \A a \in Payees(p) : out[a] >= Weight(p, a) * Filtered(FirstShare(p, out))
  BY <1>1 DEF BeginMove, SharesPaid
<1> QED
  BY <1>2, <1>3, <1>4

(* The share of a holder whose address is nobody else's is the own one.    *)
LEMMA OwnWeight ==
  ASSUME TypeOK, NEW p \in Players, NEW t \in Tiers, Exists(t), holder[t] # p,
         address[holder[t]] # Burn,
         \A u \in Tiers : u # t => address[holder[u]] # address[holder[t]]
  PROVE  Weight(p, address[holder[t]]) = t
<1> DEFINE ts == {u \in Tiers : Exists(u) /\ ShareAddress(p, u) = address[holder[t]]}
<1>1. t \in ts
  BY DEF ShareAddress
<1>2. \A u \in ts : u = t
  BY DEF ShareAddress
<1>3. ts = {t}
  BY <1>1, <1>2
<1>4. {t} \in SUBSET Int /\ IsFiniteSet({t}) /\ {t} # {}
  BY TiersFinite, FS_Singleton
<1>5. Min({t}) = t
  BY <1>4, MinIsLeast
<1> QED
  BY <1>3, <1>5 DEF Weight

(* A crown holder with an address of its own gets from every payment that  *)
(* buys its tier times the share of the first tier, however crowns and     *)
(* addresses have changed hands before.                                    *)
THEOREM SharesArePaid == Spec => SharesByTier
<1> DEFINE a(u) == address[holder[u]]
<1>1. ASSUME IndType, [Next]_vars, NEW t \in Tiers,
             mover = Nobody, mover' # Nobody, TotalPaid(paid') > 0,
             Exists(t), holder[t] # mover', holder[1] # mover',
             \A u \in Tiers : u # t => a(u) # a(t),
             a(t) # Burn
      PROVE  paid'[a(t)] >= t * Filtered(paid'[a(1)])
  <2> DEFINE p == mover'
  <2>1. Next
    BY <1>1 DEF vars
  <2>2. PICK out \in [Payees(p) -> Amounts] : p \in Players /\ BeginMove(p, out)
    BY <1>1, <2>1, OnlyBeginMove
  <2> HIDE DEF p
  <2>3. /\ Exists(1) /\ paid' = [x \in Payees(p) |-> out[x]]
        /\ \A x \in Payees(p) : out[x] >= Weight(p, x) * Filtered(FirstShare(p, out))
    BY <1>1, <2>2, BeginMovePays
  <2>4. 1 \in Tiers
    BY PurchasesAssumption DEF Tiers
  <2>5. Missing = {}
    BY <2>2 DEF BeginMove
  <2>6. ShareAddress(p, t) = a(t) /\ ShareAddress(p, 1) = a(1)
    BY <1>1 DEF ShareAddress, p
  <2>7. a(t) \in Payees(p) /\ a(1) \in Payees(p)
    <3>1. a(t) # NoAddress /\ a(1) # NoAddress
      BY <1>1, <2>3, <2>4, <2>5 DEF Missing
    <3> QED
      BY <1>1, <2>3, <2>4, <2>6, <3>1 DEF Payees, Listed
  <2>8. Weight(p, a(t)) = t
    <3>1. TypeOK /\ holder[t] # p
      BY <1>1 DEF IndType, p
    <3> QED
      BY <1>1, <2>2, <3>1, OwnWeight
  <2>9. FirstShare(p, out) = out[a(1)]
    BY <2>3, <2>6 DEF FirstShare
  <2>10. out[a(t)] >= t * Filtered(out[a(1)])
    BY <2>3, <2>7, <2>8, <2>9
  <2>11. paid'[a(t)] = out[a(t)] /\ paid'[a(1)] = out[a(1)]
    BY <2>3, <2>7
  <2> QED
    BY <2>10, <2>11
<1>2. IndType /\ [Next]_vars =>
        \A t \in Tiers :
          /\ mover = Nobody /\ mover' # Nobody /\ TotalPaid(paid') > 0
          /\ Exists(t) /\ holder[t] # mover' /\ holder[1] # mover'
          /\ \A u \in Tiers : u # t => a(u) # a(t)
          /\ a(t) # Burn
          => paid'[a(t)] >= t * Filtered(paid'[a(1)])
  BY <1>1
<1> QED
  BY <1>2, TypeInvariant, PTL DEF Spec, SharesByTier

(* Coins that a crown holder sends to its own address buy nothing: that    *)
(* address is not among those whose payments are counted.                  *)
THEOREM NobodyIsPaidByThemselves == Spec => NobodyPaysThemselves
<1>1. ASSUME IndType, [Next]_vars, NEW p \in Players,
             mover = Nobody, mover' = p,
             \A q \in Names \ {p} : address[q] # address[p],
             address[p] \notin {Dev, Burn}
      PROVE  address[p] \notin DOMAIN paid'
  <2>1. p # Nobody
    BY PurchasesAssumption DEF Names
  <2>2. Next
    BY <1>1, <2>1 DEF vars
  <2>3. PICK out \in [Payees(mover') -> Amounts] : BeginMove(mover', out)
    BY <1>1, <2>1, <2>2, OnlyBeginMove
  <2>4. DOMAIN paid' = Payees(p)
    BY <1>1, <2>3 DEF BeginMove
  <2>5. ASSUME NEW t \in Tiers, Exists(t) PROVE ShareAddress(p, t) # address[p]
    <3>1. holder[t] \in Names
      BY <1>1, <2>5, ShareAddressType DEF IndType
    <3> QED
      BY <1>1, <3>1 DEF ShareAddress
  <2>6. address[p] \notin Payees(p)
    BY <1>1, <2>5 DEF Payees, Listed
  <2> QED
    BY <2>4, <2>6
<1>2. IndType /\ [Next]_vars =>
        \A p \in Players :
          /\ mover = Nobody /\ mover' = p
          /\ \E t \in Tiers : holder[t] = p
          /\ \A q \in Names \ {p} : address[q] # address[p]
          /\ address[p] \notin {Dev, Burn}
          => address[p] \notin DOMAIN paid'
  BY <1>1
<1> QED
  BY <1>2, TypeInvariant, PTL DEF Spec, NobodyPaysThemselves
=============================================================================
