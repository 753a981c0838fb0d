----------------------------- MODULE Purchases -----------------------------
(***************************************************************************)
(* What players buy.  Crystals and new names are paid in coins, by outputs *)
(* of the transaction that carries the move: one to every crown holder and *)
(* one to the developers.  Sweeteners, goodies and bundles of them are     *)
(* paid in crystals.                                                       *)
(*                                                                         *)
(* A move is one or more sub-moves that share the payment: BeginMove takes *)
(* in the payment, every purchase is a step, EndMove is the end of         *)
(* ProcessOne.  An address that is empty is none: NoAddress.               *)
(***************************************************************************)
EXTENDS Integers, FiniteSets, FiniteSetsExt

CONSTANTS
  Players, House,         \* Xaya names; xayatf<tier>
  TierCount,              \* 7
  Candidate,              \* the addresses of the houses, by tier
  Dev, Burn,              \* the address of the developers; one nobody owns
  OwnAddresses,           \* what players may set for themselves
  FilterUnit,             \* 1000: shares are rounded down to a multiple of it
  Amounts,                \* bound: outputs of a transaction, in satoshi
  Bundles, BundleCost, Quantity,  \* crystal bundles: coins for crystals
  RerollCost,             \* 0.14 CHI
  Treats, TreatOwner,
  Sweeteners, Goodies, GoodyBundles, Price, Contents, \* wares for crystals
  Items, MaxTotal,        \* bound: sweeteners asked for at once
  Multipliers,            \* bound: what the administrator sets; 1000 at first
  Early,                  \* the names that were promised a recipe
  MaxBalance, MaxStock, MaxPrizes, \* bounds
  Nobody

Tiers == 1..TierCount
Names == Players \cup {House[t] : t \in Tiers}
Wares == Sweeteners \cup Goodies \cup GoodyBundles
NoAddress == ""
Addresses == {Candidate[t] : t \in Tiers} \cup {Dev, Burn} \cup OwnAddresses

ASSUME PurchasesAssumption ==
  /\ TierCount \in Nat \ {0}
  /\ IsFiniteSet(Players) /\ Nobody \notin Names
  /\ House \in [Tiers -> Names \ Players]
  /\ \A t, u \in Tiers : t # u => House[t] # House[u] /\ Candidate[t] # Candidate[u]
  /\ NoAddress \notin Addresses
  /\ \A t \in Tiers : Candidate[t] \notin {Dev, Burn}
  /\ Dev # Burn
  /\ FilterUnit \in Nat \ {0}
  /\ Amounts \subseteq Nat /\ 0 \in Amounts
  /\ BundleCost \in [Bundles -> Nat] /\ Quantity \in [Bundles -> Nat]
  /\ RerollCost \in Nat /\ TreatOwner \in [Treats -> Players]
  /\ Price \in [Wares -> Nat] /\ Contents \in [Wares -> [Items -> Nat]]
  /\ MaxTotal \in Nat /\ Multipliers \subseteq Nat
  /\ MaxBalance \in Nat /\ MaxStock \in Nat /\ MaxPrizes \in Nat
  /\ Early \subseteq Players

VARIABLES
  holder,     \* crown holders; Nobody before the rows exist
  accounts,   \* rows of the players
  address,
  balance, stock, prizes,
  rerolled,   \* isnamererolled
  free,       \* treats that are Available
  multiplier, \* chimultiplier
  launched,   \* height 5008228 is reached
  mover, paid \* of the move under way; paidToCrownHolders

purse == <<balance, stock>>
world == <<holder, free, multiplier, launched>>
vars == <<world, accounts, address, purse, prizes, rerolled, mover, paid>>

Nothing == [a \in {} |-> 0]
Exists(t) == holder[t] # Nobody

Init ==
  /\ holder = [t \in Tiers |-> Nobody]
  /\ accounts = {}
  /\ address = [p \in Names |-> NoAddress]
  /\ balance = [p \in Players |-> 0]
  /\ stock = [p \in Players |-> [i \in Items |-> 0]]
  /\ prizes = [p \in Early |-> 0]
  /\ rerolled = {}
  /\ free = {}
  /\ multiplier = 1000
  /\ launched = FALSE
  /\ mover = Nobody
  /\ paid = Nothing
-----------------------------------------------------------------------------
(***************************************************************************)
(* ExtractMoveBasics.                                                      *)
(***************************************************************************)

(* as if the holder of a crown were paid like anyone else *)
OwnShareAddress(p, t) == address[holder[t]]

(* A holder who buys pays that share to nobody, unless it is the           *)
(* developers who hold the crown.                                          *)
ShareAddress(p, t) ==
  IF holder[t] = p /\ address[p] # Dev THEN Burn ELSE address[holder[t]]

Missing == {t \in Tiers : Exists(t) /\ address[holder[t]] = NoAddress}

Listed(p) == {ShareAddress(p, t) : t \in {u \in Tiers : Exists(u)}} \ {NoAddress}
Payees(p) == {Dev} \cup Listed(p)

(* A holder's own share, by tier; 8, the tier of the developers, counts as *)
(* 7.  Of two holders with one address the lower one counts.               *)
Weight(p, a) ==
  LET ts == {t \in Tiers : Exists(t) /\ ShareAddress(p, t) = a}
  IN IF ts = {} THEN TierCount ELSE Min(ts)

(* The share of the first tier, less what the unit filters out of it.      *)
FirstShare(p, out) == IF Exists(1) THEN out[ShareAddress(p, 1)] ELSE 0
Filtered(n) == (n \div FilterUnit) * FilterUnit

(* as if only the share of the developers were looked at *)
DeveloperPaid(p, out) ==
  \/ FirstShare(p, out) = 0
  \/ out[Dev] >= Weight(p, Dev) * Filtered(FirstShare(p, out))

SharesPaid(p, out) ==
  \/ FirstShare(p, out) = 0
  \/ \A a \in Payees(p) :
       out[a] > 0 /\ out[a] >= Weight(p, a) * Filtered(FirstShare(p, out))

(* as if an address were taken once any player has it *)
FreeOfAll(p) == {t \in Tiers : \A q \in Names : address[q] # Candidate[t]}

(* The temporary addresses that no other crown holder has.                 *)
FreeCandidates(p) == {t \in Tiers : Candidate[t] \notin Listed(p)}

(* A move that meets a holder without an address is lost, and gives the    *)
(* last such holder a temporary one.                                       *)
IssueAddress(p) ==
  /\ mover = Nobody
  /\ Missing # {} /\ FreeCandidates(p) # {}
  /\ address' = [address EXCEPT ![holder[Max(Missing)]] = Candidate[Min(FreeCandidates(p))]]
  /\ UNCHANGED <<world, accounts, purse, prizes, rerolled, mover, paid>>

(* A move with wrong shares is lost.  One with none for the first tier is  *)
(* processed, with no payment.                                             *)
BeginMove(p, out) ==
  /\ mover = Nobody
  /\ Missing = {} /\ SharesPaid(p, out)
  /\ mover' = p
  /\ paid' = [a \in Payees(p) |-> IF FirstShare(p, out) # 0 THEN out[a] ELSE 0]
  /\ accounts' = accounts \cup {p}
  /\ UNCHANGED <<world, address, purse, prizes, rerolled>>
-----------------------------------------------------------------------------
(***************************************************************************)
(* Sub-moves, in any order: a move may have several.                       *)
(***************************************************************************)

(* MaybeInitXayaPlayer. *)
SetAddress(a) ==
  /\ mover # Nobody
  /\ mover \in Early => prizes[mover] < MaxPrizes
  /\ address' = [address EXCEPT ![mover] = a]
  /\ prizes' = [p \in Early |-> IF p = mover THEN prizes[p] + 1 ELSE prizes[p]]
  /\ UNCHANGED <<world, accounts, purse, rerolled, mover, paid>>

TotalPaid(pd) == MapThenSumSet(LAMBDA a : pd[a], DOMAIN pd)
TotalWeight == TierCount + (TierCount * (TierCount + 1)) \div 2

(* What a purchase takes off the payment.  The share of each holder is     *)
(* computed before the payment is added up, so it is nothing; what is left *)
(* is what the cost leaves over when divided, from the highest tier alone. *)
(* Crowns and addresses are those of the moment.                           *)
TopTier(a) ==
  /\ Exists(TierCount) /\ a = address[holder[TierCount]]
  /\ \A t \in 1..TierCount - 1 : address[holder[t]] # a
Deducted(cost) ==
  [a \in DOMAIN paid |-> paid[a] - (IF TopTier(a) THEN cost % TotalWeight ELSE 0)]

CrystalCost(b) == BundleCost[b] * (multiplier \div 1000)

BuyCrystals(b) ==
  /\ mover # Nobody /\ launched
  /\ TotalPaid(paid) >= CrystalCost(b)
  /\ balance[mover] + Quantity[b] <= MaxBalance
  /\ balance' = [balance EXCEPT ![mover] = @ + Quantity[b]]
  /\ paid' = Deducted(CrystalCost(b))
  /\ UNCHANGED <<world, accounts, address, stock, prizes, rerolled, mover>>

ParseNameRerollPurchase(f) ==
  /\ TreatOwner[f] = mover /\ f \in free /\ f \notin rerolled
  /\ TotalPaid(paid) >= RerollCost

(* The cost of a name is all that was paid. *)
RerollName(f) ==
  /\ mover # Nobody /\ launched
  /\ ParseNameRerollPurchase(f)
  /\ rerolled' = rerolled \cup {f}
  /\ paid' = Deducted(TotalPaid(paid))
  /\ UNCHANGED <<world, accounts, address, purse, prizes, mover>>

(* as if the price of one were asked for any number *)
MayBuyOne(w, n) == balance[mover] >= Price[w]

MayBuy(w, n) == balance[mover] >= Price[w] * n

ParseSweetenerPurchase(w, n) == w \in Sweeteners /\ MayBuy(w, n)
ParseGoodyPurchase(w) == w \in Goodies /\ MayBuy(w, 1)
ParseGoodyBundlePurchase(w) == w \in GoodyBundles /\ MayBuy(w, 1)

(* AddBalance and AddFungibleCount. *)
Take(w, n) ==
  /\ \A i \in Items : stock[mover][i] + Contents[w][i] * n <= MaxStock
  /\ balance' = [balance EXCEPT ![mover] = @ - Price[w] * n]
  /\ stock' = [stock EXCEPT ![mover] = [i \in Items |-> @[i] + Contents[w][i] * n]]
  /\ UNCHANGED <<world, accounts, address, prizes, rerolled, mover, paid>>

BuySweetener(w, n) ==
  /\ mover # Nobody /\ launched
  /\ ParseSweetenerPurchase(w, n)
  /\ Take(w, n)

BuyGoody(w) ==
  /\ mover # Nobody /\ launched
  /\ ParseGoodyPurchase(w)
  /\ Take(w, 1)

BuyGoodyBundle(w) ==
  /\ mover # Nobody /\ launched
  /\ ParseGoodyBundlePurchase(w)
  /\ Take(w, 1)

(* What is left of the payment is logged and lost. *)
EndMove ==
  /\ mover # Nobody
  /\ mover' = Nobody
  /\ paid' = Nothing
  /\ UNCHANGED <<world, accounts, address, purse, prizes, rerolled>>
-----------------------------------------------------------------------------
(***************************************************************************)
(* The rest of the system.                                                 *)
(***************************************************************************)

(* At the end of the first block the houses get their rows and addresses.  *)
CreateTiers ==
  /\ mover = Nobody /\ ~Exists(1)
  /\ holder' = House
  /\ address' = [p \in Names |-> IF \E t \in Tiers : p = House[t]
                                 THEN Candidate[CHOOSE t \in Tiers : p = House[t]]
                                 ELSE address[p]]
  /\ UNCHANGED <<free, multiplier, launched, accounts, purse, prizes, rerolled, mover, paid>>

(* A day ends with a new holder; a holder gives the crown back in a move.  *)
PassCrown(t, p) ==
  /\ mover = Nobody /\ Exists(t)
  /\ p \in accounts /\ \A u \in Tiers : holder[u] # p
  /\ holder' = [holder EXCEPT ![t] = p]
  /\ UNCHANGED <<free, multiplier, launched, accounts, address, purse, prizes, rerolled, mover, paid>>

Abdicate(t) ==
  /\ mover # Nobody /\ launched /\ holder[t] = mover
  /\ holder' = [holder EXCEPT ![t] = House[t]]
  /\ UNCHANGED <<free, multiplier, launched, accounts, address, purse, prizes, rerolled, mover, paid>>

(* Cooking, expeditions and the rest make treats busy and free. *)
Occupy(f) ==
  /\ mover = Nobody /\ launched
  /\ free' = IF f \in free THEN free \ {f} ELSE free \cup {f}
  /\ UNCHANGED <<holder, multiplier, launched, accounts, address, purse, prizes, rerolled, mover, paid>>

(* HandleGodMode, before the moves of a block. *)
MaybeSetNewCostMultiplier(m) ==
  /\ mover = Nobody
  /\ multiplier' = m
  /\ UNCHANGED <<holder, free, launched, accounts, address, purse, prizes, rerolled, mover, paid>>

Launch ==
  /\ mover = Nobody /\ ~launched
  /\ launched' = TRUE
  /\ UNCHANGED <<holder, free, multiplier, accounts, address, purse, prizes, rerolled, mover, paid>>

Elsewhere ==
  \/ CreateTiers \/ Launch
  \/ \E t \in Tiers : Abdicate(t) \/ \E p \in Players : PassCrown(t, p)
  \/ \E f \in Treats : Occupy(f)
  \/ \E m \in Multipliers : MaybeSetNewCostMultiplier(m)

SubMove ==
  \/ \E a \in OwnAddresses : SetAddress(a)
  \/ \E b \in Bundles : BuyCrystals(b)
  \/ \E f \in Treats : RerollName(f)
  \/ \E w \in Wares : BuyGoody(w) \/ BuyGoodyBundle(w) \/ \E n \in 1..MaxTotal : BuySweetener(w, n)

Next ==
  \/ \E p \in Players :
       \/ IssueAddress(p)
       \/ \E out \in [Payees(p) -> Amounts] : BeginMove(p, out)
  \/ SubMove
  \/ EndMove
  \/ Elsewhere

Spec == Init /\ [][Next]_vars
-----------------------------------------------------------------------------
(***************************************************************************)
(* What the code promises of purchases.                                    *)
(***************************************************************************)

(* Types; crystals are never spent that are not there: AddBalance CHECKs   *)
(* that a balance is not negative, and ends the process if it is.          *)
TypeOK ==
  /\ holder \in [Tiers -> Names \cup {Nobody}]
  /\ accounts \subseteq Players
  /\ address \in [Names -> Addresses \cup {NoAddress}]
  /\ balance \in [Players -> 0..MaxBalance]
  /\ stock \in [Players -> [Items -> 0..MaxStock]]
  /\ prizes \in [Early -> 0..MaxPrizes]
  /\ rerolled \subseteq Treats /\ free \subseteq Treats
  /\ multiplier \in Multipliers \cup {1000} /\ launched \in BOOLEAN
  /\ mover \in Players \cup {Nobody}
  /\ DOMAIN paid \subseteq Addresses /\ \A a \in DOMAIN paid : paid[a] \in Int

(* A crown holder without an address can always be given one, whoever      *)
(* moves: not every address of the list is another holder's.  Without it   *)
(* all moves would be lost forever, since every move is lost until then.   *)
AddressCanBeIssued == \A p \in Players : Missing # {} => FreeCandidates(p) # {}

(* Every crown holder with an address of its own, which is not the one     *)
(* nobody owns, gets, from every payment that buys, tier times the share   *)
(* of the first tier.                                                      *)
SharesByTier ==
  [][\A t \in Tiers :
       LET a(u) == address[holder[u]]
       IN /\ mover = Nobody /\ mover' # Nobody /\ TotalPaid(paid') > 0
          /\ Exists(t) /\ holder[t] # mover' /\ holder[1] # mover'
          /\ \A u \in Tiers : u # t => a(u) # a(t)
          /\ a(t) # Burn
          => paid'[a(t)] >= t * Filtered(paid'[a(1)])]_vars

(* A crown holder cannot buy with coins that go back to the own address.   *)
NobodyPaysThemselves ==
  [][\A p \in Players :
       /\ mover = Nobody /\ mover' = p
       /\ \E t \in Tiers : holder[t] = p
       /\ \A q \in Names \ {p} : address[q] # address[p]
       /\ address[p] \notin {Dev, Burn}
       => address[p] \notin DOMAIN paid']_vars
=============================================================================
