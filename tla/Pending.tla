------------------------------ MODULE Pending ------------------------------
(***************************************************************************)
(* The pending state: what the game shows of moves that are not in a block *)
(* yet.  Every pending move is parsed against the confirmed state, and its *)
(* effects are added to a preview of its player.  When the chain changes   *)
(* the preview is cleared and the moves still pending are added again.     *)
(*                                                                         *)
(* What the parsers ask is in TreatFighter, Tournaments and the others;    *)
(* here the confirmed state holds their verdict on every request.          *)
(***************************************************************************)
EXTENDS Integers, FiniteSets, SequencesExt

CONSTANTS
  Players,
  Requests, By, Kind, \* what a player may ask for, and under which key
  Cost,             \* crystals a request takes; of a ware, its price
  Units,            \* of a sweetener that is bought, how many
  Gain,             \* crystals a bundle brings
  Candies, Needs,   \* of a recipe or sweetener that is cooked
  Ids,              \* rewards a claim finds
  Moves,            \* bound: pending moves [by, shares, entries]
  MaxPending,       \* bound: moves pending at once
  Holdings,         \* bound: what players own, [balance, candy]
  Verdicts,         \* bound: verdicts on the requests
  MaxMissing,       \* bound: crown holders without an address
  Modulus           \* 2^64

Cooking == {"r", "s"}
Claims == {"sc", "c", "tc"}
Wares == {"pg", "ps", "pgb"}
(* The keys of a sub-move in the order ProcessMove looks at them. *)
Keys == <<"vc", "cl", "d", "r", "s", "sc", "f", "c", "e", "l", "tc", "se", "sl",
          "fd", "fc", "fs", "fb", "fr", "ft", "pc", "pg", "ps", "pgb">>

(* The list of the pending state that shows a request. *)
ListOf ==
  [vc |-> "coinops", cl |-> "cookedFightersToCollect", d |-> "recipedestroy",
   r |-> "ongoings", s |-> "ongoings", f |-> "ongoings",
   sc |-> "sweetclm", c |-> "claimingrewards", tc |-> "claimingrewardstournament",
   e |-> "tournamententries", l |-> "tournamentleaves",
   se |-> "specialtournamententries", sl |-> "specialtournamentleaves",
   fd |-> "deconstruction", fc |-> "deconstructionClaiming",
   fs |-> "forsale", fb |-> "forbuy", fr |-> "forremove", ft |-> "transfigurers",
   pc |-> "crystalbundles", pg |-> "purchasing", ps |-> "purchasing", pgb |-> "purchasing"]

Before(r, q) == \E i, j \in 1..Len(Keys) : i < j /\ Keys[i] = Kind[r] /\ Keys[j] = Kind[q]

ASSUME PendingAssumption ==
  /\ By \in [Requests -> Players]
  /\ Kind \in [Requests -> {Keys[i] : i \in 1..Len(Keys)}]
  /\ Cost \in [Requests -> Nat] /\ Gain \in [Requests -> Nat]
  /\ Units \in [Requests -> Nat \ {0}]
  /\ \A r \in Requests : Kind[r] # "ps" => Units[r] = 1
  /\ Needs \in [Requests -> [Candies -> Nat]]
  /\ Modulus \in Nat \ {0}
  /\ \A h \in Holdings : h.balance \in [Players -> Nat]
                        /\ h.candy \in [Players -> [Candies -> 0..Modulus - 1]]
  /\ Verdicts \subseteq [Requests -> {"no", "late", "yes"}]
  /\ \A r \in Requests : Ids[r] \cap Requests = {}
  /\ MaxPending \in Nat /\ MaxMissing \in Nat

ASSUME MovesAssumption ==
  \A m \in Moves :
    /\ m.by \in Players /\ m.shares \in {"none", "right", "wrong"}
    /\ m.entries \in Seq(Seq(Requests))
    /\ \A i \in 1..Len(m.entries) : \A j \in 1..Len(m.entries[i]) :
         /\ By[m.entries[i][j]] = m.by
         /\ \A k \in 1..j - 1 : Before(m.entries[i][k], m.entries[i][j])

(* "late" is a request that is refused after its parser has filled in the  *)
(* candies, or the rewards, or has queued the player for a full tournament.*)
Consistent(c) ==
  \A r \in Requests :
    c.verdict[r] = "yes" /\ Kind[r] \notin Wares =>
      /\ By[r] \in c.known
      /\ c.owns.balance[By[r]] >= Cost[r]
      /\ \A k \in Candies : c.owns.candy[By[r]][k] >= Needs[r][k]

ChainStates ==
  {c \in [known : SUBSET Players, owns : Holdings, verdict : Verdicts,
          missing : 0..MaxMissing, queue : {{}}] : Consistent(c)}

VARIABLES
  chain,    \* the confirmed state
  mempool,  \* the pending moves, in the order they are added
  view      \* PendingState::xayaplayers

vars == <<chain, mempool, view>>

NoViews == [p \in {} |-> 0]

Init ==
  /\ chain \in {c \in ChainStates : c.known = {}}
  /\ mempool = <<>>
  /\ view = NoViews
-----------------------------------------------------------------------------
(***************************************************************************)
(* The preview of one player.                                              *)
(***************************************************************************)

(* GetXayaPlayerState: the first pending move takes a snapshot. *)
Snapshot(c, p) ==
  [balance |-> c.owns.balance[p], onChainBalance |-> c.owns.balance[p],
   candy |-> c.owns.candy[p], onChainCandy |-> c.owns.candy[p], entries |-> {}]

Put(v, r) == [v EXCEPT !.entries = @ \cup {<<ListOf[Kind[r]], r>>}]
Debit(v, n) == [v EXCEPT !.balance = @ - n]

(* as if counts were signed *)
AddCookingSigned(v, r, used) ==
  [Debit(Put(v, r), Cost[r]) EXCEPT !.candy = [k \in Candies |-> @[k] - used[k]]]

(* AddRecepieCookingInstance, AddSweetenerCookingInstance: counts are      *)
(* unsigned.                                                               *)
AddCooking(v, r, used) ==
  [Debit(Put(v, r), Cost[r]) EXCEPT !.candy = [k \in Candies |-> (@[k] - used[k]) % Modulus]]

(* The claims list the rewards, and that of a sweetener its treat. *)
AddClaim(v, r, ids) ==
  [v EXCEPT !.entries = @ \cup (IF Kind[r] = "sc" THEN {<<"sweetclm", r>>}
                                ELSE {ListOf[Kind[r]]} \X ids)]

AddCrystalPurchase(v, r) == [Put(v, r) EXCEPT !.balance = @ + Gain[r]]

(* Any number of sweeteners is charged as one. *)
AddPurchasing(v, r) == Debit(Put(v, r), Cost[r])

(* The special tournament, a listing and a purchase on the exchange take   *)
(* their crystals at once; what joining a tournament costs is not shown.   *)
AddTournament(v, r) == IF Kind[r] = "se" THEN Debit(Put(v, r), Cost[r]) ELSE Put(v, r)
AddFighter(v, r) == IF Kind[r] \in {"fs", "fb"} THEN Debit(Put(v, r), Cost[r]) ELSE Put(v, r)

Add(v, r, used, ids) ==
  CASE Kind[r] \in Cooking -> AddCooking(v, r, used)
    [] Kind[r] \in Claims -> AddClaim(v, r, ids)
    [] Kind[r] = "pc" -> AddCrystalPurchase(v, r)
    [] Kind[r] \in Wares -> AddPurchasing(v, r)
    [] Kind[r] \in {"e", "l", "se", "sl"} -> AddTournament(v, r)
    [] Kind[r] \in {"fd", "fc", "fs", "fb", "fr", "ft"} -> AddFighter(v, r)
    [] OTHER -> Put(v, r)
-----------------------------------------------------------------------------
(***************************************************************************)
(* ProcessMove.                                                            *)
(***************************************************************************)

(* as if wares were paid from the confirmed balance *)
AffordableOnChain(v, r) == v.onChainBalance >= Cost[r] * Units[r]

Affordable(v, r) == v.balance >= Cost[r] * Units[r]

(* A parser passes on the confirmed state; the ones for wares look at the  *)
(* preview.  That for crystals compares the price with a payment that is   *)
(* not initialised: lucky are the bundles it is not too small for.         *)
Passes(c, v, r, lucky) ==
  CASE Kind[r] \in Wares -> Affordable(v, r)
    [] Kind[r] = "pc" -> r \in lucky
    [] OTHER -> c.verdict[r] = "yes"

(* One request of a sub-move.  The candies and the rewards that parsers    *)
(* collect are shared by the whole sub-move; of two amounts of one candy   *)
(* the first one stays.                                                    *)
Request(c, acc, r, lucky) ==
  LET heard == c.verdict[r] # "no"
      used == IF Kind[r] \in Cooking /\ heard
              THEN [k \in Candies |-> IF acc.used[k] = 0 THEN Needs[r][k] ELSE acc.used[k]]
              ELSE acc.used
      ids == IF Kind[r] \in Claims /\ heard THEN acc.ids \cup Ids[r] ELSE acc.ids
  IN [used |-> used, ids |-> ids,
      view |-> IF Passes(c, acc.view, r, lucky) THEN Add(acc.view, r, used, ids)
               ELSE acc.view]

SubMove(c, v, entry, lucky) ==
  FoldLeft(LAMBDA acc, r : Request(c, acc, r, lucky),
           [view |-> v, used |-> [k \in Candies |-> 0], ids |-> {}], entry).view

SubMoves(c, v, entries, lucky) ==
  FoldLeft(LAMBDA w, entry : SubMove(c, w, entry, lucky), v, entries)

(* The moves of unknown accounts are ignored. *)
Rejected(c, m) == c.missing > 0 \/ m.shares = "wrong"
Ignored(c, m) == Rejected(c, m) \/ m.by \notin c.known

StateOf(c, views, p) == IF p \in DOMAIN views THEN views[p] ELSE Snapshot(c, p)

ProcessMove(c, views, m, lucky) ==
  IF Ignored(c, m) \/ m.entries = <<>> THEN views
  ELSE LET v == SubMoves(c, StateOf(c, views, m.by), m.entries, lucky)
       IN [p \in DOMAIN views \cup {m.by} |-> IF p = m.by THEN v ELSE views[p]]

(* What parsing alone writes to the confirmed state: an address for a      *)
(* crown holder without one, and the queue for full tournaments.           *)
Queues(c, m) ==
  /\ ~Ignored(c, m)
  /\ \E i \in 1..Len(m.entries) : \E j \in 1..Len(m.entries[i]) :
       LET r == m.entries[i][j] IN Kind[r] = "e" /\ c.verdict[r] = "late"
Parsed(c, m) ==
  [c EXCEPT !.missing = IF @ > 0 THEN @ - 1 ELSE 0,
            !.queue = IF Queues(c, m) THEN @ \cup {m.by} ELSE @]

AddPendingMove(m, lucky) ==
  /\ Len(mempool) < MaxPending
  /\ \A i \in 1..Len(mempool) : mempool[i] # m
  /\ mempool' = Append(mempool, m)
  /\ view' = ProcessMove(chain, view, m, lucky)
  /\ chain' = Parsed(chain, m)
-----------------------------------------------------------------------------
(***************************************************************************)
(* A block is attached or detached: the confirmed state is another one,    *)
(* and some moves are no longer pending.  Those of a detached block come   *)
(* back as new ones.                                                       *)
(***************************************************************************)
Pools == UNION {SetToSeqs(S) : S \in SUBSET ToSet(mempool)}

(* as if the preview were not cleared *)
Kept(views) == views

Cleared(views) == NoViews

(* The moves of a pool are added one by one, each to what the others left. *)
AddAll(c, views, pool, lucky) ==
  FoldLeft(LAMBDA s, m : [chain |-> Parsed(s.chain, m),
                          view |-> ProcessMove(s.chain, s.view, m, lucky)],
           [chain |-> c, view |-> views], pool)

ChangeChain(c, pool, lucky) ==
  /\ c.known # {} /\ chain.known \subseteq c.known
  /\ LET s == AddAll(c, Cleared(view), pool, lucky)
     IN chain' = s.chain /\ view' = s.view
  /\ mempool' = pool

Bundles == {r \in Requests : Kind[r] = "pc"}
BundlesIn(moves) ==
  {r \in Bundles : \E m \in moves : \E i \in 1..Len(m.entries) : Contains(m.entries[i], r)}

Next ==
  \/ \E m \in Moves : \E lucky \in SUBSET BundlesIn({m}) : AddPendingMove(m, lucky)
  \/ \E c \in ChainStates : \E pool \in Pools : \E lucky \in SUBSET BundlesIn(ToSet(pool)) :
       ChangeChain(c, pool, lucky)

Spec == Init /\ [][Next]_vars
-----------------------------------------------------------------------------
(***************************************************************************)
(* What the code promises of the pending state.                            *)
(***************************************************************************)

(* Types; a count of candies that is taken twice wraps around.             *)
TypeOK ==
  /\ chain \in [known : SUBSET Players, owns : Holdings, verdict : Verdicts,
                missing : 0..MaxMissing, queue : SUBSET Players]
  /\ mempool \in Seq(Moves) /\ Len(mempool) <= MaxPending
  /\ DOMAIN view \subseteq Players
  /\ \A p \in DOMAIN view :
       /\ view[p].balance \in Int
       /\ view[p].candy \in [Candies -> 0..Modulus - 1]

(* Nothing in the preview is stale: it starts from the balance and candies *)
(* of the confirmed state, whatever blocks come, go and come back, belongs *)
(* to known players with pending moves, and every treat, recipe, reward or *)
(* tournament it names is one that the confirmed state lets them name.     *)
NothingStale ==
  \A p \in DOMAIN view :
    /\ p \in chain.known
    /\ \E i \in 1..Len(mempool) : mempool[i].by = p
    /\ view[p].onChainBalance = chain.owns.balance[p]
    /\ view[p].onChainCandy = chain.owns.candy[p]
    /\ \A e \in view[p].entries :
         \/ e[1] \in {"crystalbundles", "purchasing"}
         \/ e[2] \in Requests /\ By[e[2]] = p /\ chain.verdict[e[2]] = "yes"
         \/ \E r \in Requests : e[2] \in Ids[r] /\ By[r] = p /\ chain.verdict[r] # "no"

(* What a block would charge for the wares of a move: MoveProcessor takes  *)
(* the sub-moves one by one, and the price of every unit.                  *)
Charged(n, r) == IF n >= Cost[r] * Units[r] THEN n - Cost[r] * Units[r] ELSE n
SettledEntry(b, entry) == FoldLeft(LAMBDA n, r : Charged(n, r), b, entry)
Settled(b, m) == FoldLeft(LAMBDA n, entry : SettledEntry(n, entry), b, m.entries)

WaresOnly(m) ==
  \A i \in 1..Len(m.entries) : \A j \in 1..Len(m.entries[i]) :
    Kind[m.entries[i][j]] \in Wares /\ Units[m.entries[i][j]] = 1

(* The preview of a move that buys wares, one of each, is exact: the       *)
(* balance is what it would be if the moves before it and then this one    *)
(* were in the next block.                                                 *)
WaresSettle ==
  [][\A m \in Moves :
       /\ mempool' = Append(mempool, m) /\ WaresOnly(m) /\ m.entries # <<>>
       /\ ~Ignored(chain, m)
       => view'[m.by].balance = Settled(StateOf(chain, view, m.by).balance, m)]_vars

(* moveprocessor.hpp:170: ParseCrystalPurchase is there to "validate       *)
(* everything properly" for pending moves too, so that no bundle is shown  *)
(* that nothing was paid for.                                              *)
CrystalsShownArePaid ==
  \A p \in DOMAIN view :
    (\E r \in Bundles : <<"crystalbundles", r>> \in view[p].entries)
    => \E i \in 1..Len(mempool) : mempool[i].by = p /\ mempool[i].shares = "right"
=============================================================================
