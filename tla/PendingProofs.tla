--------------------------- MODULE PendingProofs ---------------------------
(***************************************************************************)
(* Theorems about Pending, for all values of the constants.                *)
(***************************************************************************)
EXTENDS Pending, Counting

(* The confirmed states, and those that say the same of all requests: what *)
(* parsing writes to one does not show in the previews.                    *)
Chains ==
  [known : SUBSET Players, owns : Holdings, verdict : Verdicts,
   missing : 0..MaxMissing, queue : SUBSET Players]
Like(c) == {d \in Chains : d.known = c.known /\ d.owns = c.owns /\ d.verdict = c.verdict}

Lists == {ListOf[Kind[r]] : r \in Requests} \cup {"sweetclm"}
Named == Requests \cup UNION {Ids[r] : r \in Requests}

(* The requests of p, and the rewards its claims may find.                 *)
Asked(p) == {r \in Requests : By[r] = p}
Found(c, p) == {i \in Named : \E r \in Asked(p) : i \in Ids[r] /\ c.verdict[r] # "no"}

(* What may be shown of p.                                                 *)
Shown(c, p) ==
  {e \in Lists \X Named :
     \/ e[1] \in {"crystalbundles", "purchasing"}
     \/ e[2] \in Asked(p) /\ c.verdict[e[2]] = "yes"
     \/ e[2] \in Found(c, p)}

Counts == [Candies -> 0..Modulus - 1]
Previews(c, p) ==
  [balance : Int, onChainBalance : {c.owns.balance[p]},
   candy : Counts, onChainCandy : {c.owns.candy[p]}, entries : SUBSET Shown(c, p)]
Accs(c, p) ==
  [view : Previews(c, p), used : [Candies -> Nat], ids : SUBSET Found(c, p)]

(* The previews of known players among those who have moves.               *)
Views(c, who) ==
  {f \in UNION {[D -> UNION {Previews(c, p) : p \in D}] : D \in SUBSET (c.known \cap who)} :
     \A p \in DOMAIN f : f[p] \in Previews(c, p)}

Movers(pool) == {pool[i].by : i \in 1..Len(pool)}

(* The preview is of the players with pending moves, and shows only what   *)
(* the confirmed state lets them name.                                     *)
IndPending ==
  /\ chain \in Chains
  /\ mempool \in Seq(Moves) /\ Len(mempool) <= MaxPending
  /\ view \in Views(chain, Movers(mempool))

-----------------------------------------------------------------------------
(***************************************************************************)
(* One request.                                                            *)
(***************************************************************************)
LEMMA KindsAreKeys ==
  ASSUME NEW r \in Requests
  PROVE  /\ By[r] \in Players /\ Cost[r] \in Nat /\ Gain[r] \in Nat
         /\ Needs[r] \in [Candies -> Nat]
BY PendingAssumption

LEMMA ListsOfSales ==
  ASSUME NEW r \in Requests
  PROVE  /\ Kind[r] = "pc" => ListOf[Kind[r]] = "crystalbundles"
         /\ Kind[r] \in Wares => ListOf[Kind[r]] = "purchasing"
<1>1. ListOf["pc"] = "crystalbundles"
  BY DEF ListOf
<1>2. ListOf["pg"] = "purchasing" /\ ListOf["ps"] = "purchasing" /\ ListOf["pgb"] = "purchasing"
  BY DEF ListOf
<1> QED
  BY <1>1, <1>2 DEF Wares

LEMMA PutIsShown ==
  ASSUME NEW c \in Chains, NEW p \in Players, NEW v \in Previews(c, p), NEW r \in Asked(p),
         Kind[r] \in Wares \/ Kind[r] = "pc" \/ c.verdict[r] = "yes"
  PROVE  Put(v, r) \in Previews(c, p)
<1> DEFINE e == <<ListOf[Kind[r]], r>>
<1>1. r \in Requests
  BY DEF Asked
<1>2. e[1] \in Lists /\ e[2] \in Named
  BY <1>1 DEF Lists, Named
<1>3. e \in Shown(c, p)
  BY <1>1, <1>2, ListsOfSales DEF Shown
<1>4. v.entries \cup {e} \in SUBSET Shown(c, p)
  BY <1>3 DEF Previews
<1> HIDE DEF e
<1>5. Put(v, r) = [v EXCEPT !.entries = @ \cup {e}]
  BY DEF Put, e
<1> QED
  BY <1>4, <1>5 DEF Previews

LEMMA DebitIsShown ==
  ASSUME NEW c, NEW p, NEW v \in Previews(c, p), NEW n \in Int
  PROVE  Debit(v, n) \in Previews(c, p)
BY DEF Debit, Previews

LEMMA CountWraps ==
  ASSUME NEW a \in Int PROVE a % Modulus \in 0..Modulus - 1
BY PendingAssumption

LEMMA AddCookingIsShown ==
  ASSUME NEW c \in Chains, NEW p \in Players, NEW v \in Previews(c, p), NEW r \in Asked(p),
         NEW used \in [Candies -> Nat], c.verdict[r] = "yes"
  PROVE  AddCooking(v, r, used) \in Previews(c, p)
<1> DEFINE w == Debit(Put(v, r), Cost[r])
           left == [k \in Candies |-> (w.candy[k] - used[k]) % Modulus]
<1>1. Cost[r] \in Int
  BY KindsAreKeys DEF Asked
<1>2. w \in Previews(c, p)
  BY <1>1, PutIsShown, DebitIsShown
<1> HIDE DEF w
<1>3. \A k \in Candies : w.candy[k] - used[k] \in Int
  BY <1>2, PendingAssumption DEF Previews, Counts
<1>4. left \in Counts
  BY <1>3, CountWraps DEF Counts
<1> HIDE DEF left
<1>5. AddCooking(v, r, used) = [w EXCEPT !.candy = left]
  BY DEF AddCooking, w, left
<1> QED
  BY <1>2, <1>4, <1>5 DEF Previews

LEMMA AddClaimIsShown ==
  ASSUME NEW c \in Chains, NEW p \in Players, NEW v \in Previews(c, p), NEW r \in Asked(p),
         NEW ids \in SUBSET Found(c, p), c.verdict[r] = "yes"
  PROVE  AddClaim(v, r, ids) \in Previews(c, p)
<1> DEFINE new == IF Kind[r] = "sc" THEN {<<"sweetclm", r>>} ELSE {ListOf[Kind[r]]} \X ids
<1>1. r \in Requests
  BY DEF Asked
<1>2. "sweetclm" \in Lists /\ ListOf[Kind[r]] \in Lists /\ r \in Named
  BY <1>1 DEF Lists, Named
<1>3. <<"sweetclm", r>> \in Shown(c, p)
  BY <1>2 DEF Shown
<1>4. ASSUME NEW e \in {ListOf[Kind[r]]} \X ids PROVE e \in Shown(c, p)
  <2>1. e \in Lists \X Named /\ e[2] \in Found(c, p)
    BY <1>2 DEF Found
  <2> QED
    BY <2>1 DEF Shown
<1>5. v.entries \cup new \in SUBSET Shown(c, p)
  BY <1>3, <1>4 DEF Previews
<1> HIDE DEF new
<1>6. AddClaim(v, r, ids) = [v EXCEPT !.entries = @ \cup new]
  BY DEF AddClaim, new
<1> QED
  BY <1>5, <1>6 DEF Previews

(* What a parser has passed is shown of its player, and nothing else. *)
LEMMA AddIsShown ==
  ASSUME NEW c \in Chains, NEW p \in Players, NEW v \in Previews(c, p), NEW r \in Asked(p),
         NEW used \in [Candies -> Nat], NEW ids \in SUBSET Found(c, p),
         Kind[r] \in Wares \/ Kind[r] = "pc" \/ c.verdict[r] = "yes"
  PROVE  Add(v, r, used, ids) \in Previews(c, p)
<1>1. r \in Requests /\ Cost[r] \in Int /\ Gain[r] \in Int
  BY KindsAreKeys DEF Asked
<1>2. Put(v, r) \in Previews(c, p) /\ Debit(Put(v, r), Cost[r]) \in Previews(c, p)
  BY <1>1, PutIsShown, DebitIsShown
<1>3. CASE Kind[r] \in Cooking
  <2>1. c.verdict[r] = "yes"
    BY <1>3 DEF Cooking, Wares
  <2> QED
    BY <1>3, <2>1, AddCookingIsShown DEF Add, Cooking, Claims, Wares
<1>4. CASE Kind[r] \in Claims
  <2>1. c.verdict[r] = "yes" /\ Kind[r] \notin Cooking
    BY <1>4 DEF Cooking, Claims, Wares
  <2> QED
    BY <1>4, <2>1, AddClaimIsShown DEF Add, Cooking, Claims, Wares
<1>5. CASE Kind[r] = "pc"
  <2>1. AddCrystalPurchase(v, r) = Debit(Put(v, r), -Gain[r])
    BY <1>1, <1>2 DEF AddCrystalPurchase, Debit, Previews
  <2>2. AddCrystalPurchase(v, r) \in Previews(c, p)
    BY <1>1, <1>2, <2>1, DebitIsShown
  <2>3. Add(v, r, used, ids) = AddCrystalPurchase(v, r)
    BY <1>5 DEF Add, Cooking, Claims, Wares
  <2> QED
    BY <2>2, <2>3
<1>6. CASE Kind[r] \in Wares
  <2>1. Add(v, r, used, ids) = AddPurchasing(v, r)
    BY <1>6 DEF Add, Cooking, Claims, Wares
  <2> QED
    BY <1>2, <2>1 DEF AddPurchasing
<1>7. CASE /\ Kind[r] \notin Cooking /\ Kind[r] \notin Claims
           /\ Kind[r] # "pc" /\ Kind[r] \notin Wares
  <2>1. Add(v, r, used, ids) \in {AddTournament(v, r), AddFighter(v, r), Put(v, r)}
    <3>1. CASE Kind[r] \in {"e", "l", "se", "sl"}
      BY <1>7, <3>1 DEF Add
    <3>2. CASE /\ Kind[r] \in {"fd", "fc", "fs", "fb", "fr", "ft"}
               /\ Kind[r] \notin {"e", "l", "se", "sl"}
      BY <1>7, <3>2 DEF Add
    <3>3. CASE /\ Kind[r] \notin {"fd", "fc", "fs", "fb", "fr", "ft"}
               /\ Kind[r] \notin {"e", "l", "se", "sl"}
      BY <1>7, <3>3 DEF Add
    <3> QED
      BY <3>1, <3>2, <3>3
  <2>2. AddTournament(v, r) \in Previews(c, p) /\ AddFighter(v, r) \in Previews(c, p)
    BY <1>2 DEF AddTournament, AddFighter
  <2> QED
    BY <1>2, <2>1, <2>2
<1> QED
  BY <1>3, <1>4, <1>5, <1>6, <1>7

LEMMA RequestKeeps ==
  ASSUME NEW c \in Chains, NEW p \in Players, NEW acc \in Accs(c, p), NEW r \in Asked(p),
         NEW lucky
  PROVE  Request(c, acc, r, lucky) \in Accs(c, p)
<1> DEFINE heard == c.verdict[r] # "no"
           used == IF Kind[r] \in Cooking /\ heard
                   THEN [k \in Candies |-> IF acc.used[k] = 0 THEN Needs[r][k]
                                           ELSE acc.used[k]]
                   ELSE acc.used
           ids == IF Kind[r] \in Claims /\ heard THEN acc.ids \cup Ids[r] ELSE acc.ids
           shown == IF Passes(c, acc.view, r, lucky) THEN Add(acc.view, r, used, ids)
                    ELSE acc.view
<1>1. r \in Requests /\ Needs[r] \in [Candies -> Nat]
  BY KindsAreKeys DEF Asked
<1>2. /\ acc.view \in Previews(c, p) /\ acc.used \in [Candies -> Nat]
      /\ acc.ids \in SUBSET Found(c, p)
  BY DEF Accs
<1>3. used \in [Candies -> Nat]
  BY <1>1, <1>2
<1>4. heard => Ids[r] \in SUBSET Found(c, p)
  BY <1>1 DEF Found, Named
<1>5. ids \in SUBSET Found(c, p)
  BY <1>2, <1>4
<1> HIDE DEF used, ids
<1>6. shown \in Previews(c, p)
  <2>1. CASE Passes(c, acc.view, r, lucky)
    <3>1. Kind[r] \in Wares \/ Kind[r] = "pc" \/ c.verdict[r] = "yes"
      BY <2>1 DEF Passes
    <3>2. Add(acc.view, r, used, ids) \in Previews(c, p)
      BY <1>2, <1>3, <1>5, <3>1, AddIsShown
    <3> QED
      BY <2>1, <3>2
  <2> QED
    BY <1>2, <2>1
<1> HIDE DEF shown
<1>7. Request(c, acc, r, lucky) = [used |-> used, ids |-> ids, view |-> shown]
  BY DEF Request, used, ids, shown
<1> QED
  BY <1>3, <1>5, <1>6, <1>7 DEF Accs

(* A sub-move shows its requests one by one. *)
SubMoveFold(F, c, v, entry, lucky) ==
  F = [s \in SUBSET (DOMAIN entry) |->
         IF s = {} THEN [view |-> v, used |-> [k \in Candies |-> 0], ids |-> {}]
         ELSE Request(c, F[s \ {Max(s)}], entry[Max(s)], lucky)]

LEMMA SubMoveFolds ==
  ASSUME NEW c \in Chains, NEW p \in Players, NEW v \in Previews(c, p),
         NEW entry \in Seq(Asked(p)), NEW lucky
  PROVE  \E F : /\ SubMoveFold(F, c, v, entry, lucky)
                 /\ F[DOMAIN entry] \in Accs(c, p)
                 /\ SubMove(c, v, entry, lucky) = F[DOMAIN entry].view
<1> DEFINE A == Accs(c, p)
           D == Asked(p)
           base == [view |-> v, used |-> [k \in Candies |-> 0], ids |-> {}]
           step == [x \in A \X D |-> Request(c, x[1], x[2], lucky)]
           Adds(F) == F = [s \in SUBSET (DOMAIN entry) |->
                             IF s = {} THEN base
                             ELSE Request(c, F[s \ {Max(s)}], entry[Max(s)], lucky)]
           it == CHOOSE F : Adds(F)
<1>1. base \in A
  BY DEF Accs
<1>2. \A a \in A, r \in D : Request(c, a, r, lucky) \in A
  BY RequestKeeps
<1>3. step \in [A \X D -> A]
  BY <1>2
<1>4. \A s \in SUBSET (DOMAIN entry) : s # {} => Max(s) \in DOMAIN entry /\ entry[Max(s)] \in D
  <2> TAKE s \in SUBSET (DOMAIN entry)
  <2>1. IsFiniteSet(s) /\ s \in SUBSET Int
    BY FS_Interval, FS_Subset
  <2>2. s # {} => Max(s) \in s
    BY <2>1, MaxIsGreatest
  <2> QED
    BY <2>2
<1> HIDE DEF base, A, D
<1>5. PICK F \in [SUBSET (DOMAIN entry) -> A] : InOrder(F, entry, base, step)
  <2> entry \in Seq(D)
    BY DEF D
  <2> HIDE DEF step
  <2> QED
    BY <1>1, <1>3, SequenceFoldExists
<1>6. Adds(F)
  <2>1. \A s \in SUBSET (DOMAIN entry) : s # {} =>
          step[<<F[s \ {Max(s)}], entry[Max(s)]>>]
            = Request(c, F[s \ {Max(s)}], entry[Max(s)], lucky)
    BY <1>4, <1>5
  <2> QED
    BY <1>5, <2>1 DEF InOrder
<1>7. Adds(it)
  BY <1>6
<1> HIDE DEF it
<1>8. it[{}] \in A
  BY <1>1, <1>7
<1>9. \A s \in SUBSET (DOMAIN entry) : s # {} /\ it[s \ {Max(s)}] \in A => it[s] \in A
  BY <1>2, <1>4, <1>7
<1>10. it[DOMAIN entry] \in A
  <2> entry \in Seq(D)
    BY DEF D
  <2> HIDE DEF Adds
  <2> QED
    BY <1>8, <1>9, SequenceFoldKeeps
<1>11. SubMove(c, v, entry, lucky) = it[DOMAIN entry].view
  BY Zenon DEF SubMove, FoldLeft, MapThenFoldSet, it, base
<1>12. SubMoveFold(it, c, v, entry, lucky)
  BY <1>7 DEF SubMoveFold, base
<1> QED
  BY <1>10, <1>11, <1>12 DEF A

LEMMA SubMoveKeeps ==
  ASSUME NEW c \in Chains, NEW p \in Players, NEW v \in Previews(c, p),
         NEW entry \in Seq(Asked(p)), NEW lucky
  PROVE  SubMove(c, v, entry, lucky) \in Previews(c, p)
BY SubMoveFolds DEF Accs


-----------------------------------------------------------------------------
(***************************************************************************)
(* A move.                                                                 *)
(***************************************************************************)
LEMMA MovesAskForTheirs ==
  ASSUME NEW m \in Moves
  PROVE  m.by \in Players /\ m.entries \in Seq(Seq(Asked(m.by)))
<1>1. m.by \in Players /\ m.entries \in Seq(Seq(Requests))
  BY MovesAssumption
<1>0. \A i \in 1..Len(m.entries) : \A j \in 1..Len(m.entries[i]) :
        By[m.entries[i][j]] = m.by
  BY MovesAssumption
<1>2. \A i \in 1..Len(m.entries) : m.entries[i] \in Seq(Asked(m.by))
  <2> TAKE i \in 1..Len(m.entries)
  <2> DEFINE entry == m.entries[i]
  <2>1. entry \in Seq(Requests)
    BY <1>1
  <2>2. \A j \in 1..Len(entry) : By[entry[j]] = m.by
    BY <1>0
  <2> HIDE DEF entry
  <2>3. \A j \in 1..Len(entry) : entry[j] \in Asked(m.by)
    BY <2>1, <2>2 DEF Asked
  <2>4. entry \in Seq(Asked(m.by))
    BY <2>1, <2>3
  <2> QED
    BY <2>4 DEF entry
<1> DEFINE D == Seq(Asked(m.by))
           E == Seq(Requests)
           all == m.entries
<1>a. all \in Seq(E) /\ \A i \in 1..Len(all) : all[i] \in D
  BY <1>1, <1>2
<1> HIDE DEF D, E, all
<1>b. all \in Seq(D)
  BY <1>a
<1>3. m.entries \in Seq(D)
  BY <1>b DEF all
<1> QED
  BY <1>1, <1>3 DEF D

LEMMA StateIsShown ==
  ASSUME NEW c \in Chains, NEW who, NEW f \in Views(c, who), NEW p \in Players
  PROVE  StateOf(c, f, p) \in Previews(c, p)
<1>1. CASE p \in DOMAIN f
  BY <1>1 DEF StateOf, Views
<1>2. CASE p \notin DOMAIN f
  <2>1. c.owns \in Holdings
    BY DEF Chains
  <2>2. c.owns.balance[p] \in Nat /\ c.owns.candy[p] \in Counts
    BY <2>1, PendingAssumption DEF Counts
  <2> QED
    BY <1>2, <2>2 DEF StateOf, Snapshot, Previews
<1> QED
  BY <1>1, <1>2

(* The sub-moves of a move are shown one by one. *)
SubMovesFold(F, c, v, entries, lucky) ==
  F = [s \in SUBSET (DOMAIN entries) |->
         IF s = {} THEN v ELSE SubMove(c, F[s \ {Max(s)}], entries[Max(s)], lucky)]

LEMMA SubMovesFolds ==
  ASSUME NEW c \in Chains, NEW p \in Players, NEW v \in Previews(c, p),
         NEW entries \in Seq(Seq(Asked(p))), NEW lucky
  PROVE  \E F : /\ SubMovesFold(F, c, v, entries, lucky)
                 /\ F[DOMAIN entries] \in Previews(c, p)
                 /\ SubMoves(c, v, entries, lucky) = F[DOMAIN entries]
<1> DEFINE A == Previews(c, p)
           D == Seq(Asked(p))
           step == [x \in A \X D |-> SubMove(c, x[1], x[2], lucky)]
           Adds(F) == F = [s \in SUBSET (DOMAIN entries) |->
                             IF s = {} THEN v
                             ELSE SubMove(c, F[s \ {Max(s)}], entries[Max(s)], lucky)]
           it == CHOOSE F : Adds(F)
<1>1. SubMoves(c, v, entries, lucky) = it[DOMAIN entries]
  BY Zenon DEF SubMoves, FoldLeft, MapThenFoldSet
<1>2. \A a \in A, r \in D : SubMove(c, a, r, lucky) \in A
  BY SubMoveKeeps
<1>3. step \in [A \X D -> A]
  BY <1>2
<1>4. v \in A /\ entries \in Seq(D)
  OBVIOUS
<1> HIDE DEF A, D
<1>5. \A s \in SUBSET (DOMAIN entries) :
        s # {} => Max(s) \in DOMAIN entries /\ entries[Max(s)] \in D
  <2> TAKE s \in SUBSET (DOMAIN entries)
  <2>1. IsFiniteSet(s) /\ s \in SUBSET Int
    BY <1>4, FS_Interval, FS_Subset
  <2>2. s # {} => Max(s) \in s
    BY <2>1, MaxIsGreatest
  <2> QED
    BY <1>4, <2>2
<1>6. PICK F \in [SUBSET (DOMAIN entries) -> A] : InOrder(F, entries, v, step)
  <2> HIDE DEF step
  <2> QED
    BY <1>3, <1>4, SequenceFoldExists
<1>7. Adds(F)
  <2>1. \A s \in SUBSET (DOMAIN entries) : s # {} =>
          step[<<F[s \ {Max(s)}], entries[Max(s)]>>]
            = SubMove(c, F[s \ {Max(s)}], entries[Max(s)], lucky)
    BY <1>5, <1>6
  <2> QED
    BY <1>6, <2>1 DEF InOrder
<1>8. Adds(it)
  BY <1>7
<1> HIDE DEF it
<1>9. it[{}] \in A
  BY <1>4, <1>8
<1>10. \A s \in SUBSET (DOMAIN entries) : s # {} /\ it[s \ {Max(s)}] \in A => it[s] \in A
  BY <1>2, <1>5, <1>8
<1>11. it[DOMAIN entries] \in A
  <2> HIDE DEF Adds
  <2> QED
    BY <1>4, <1>9, <1>10, SequenceFoldKeeps
<1>12. SubMovesFold(it, c, v, entries, lucky)
  BY <1>8 DEF SubMovesFold
<1> QED
  BY <1>1, <1>11, <1>12 DEF A

LEMMA SubMovesKeep ==
  ASSUME NEW c \in Chains, NEW p \in Players, NEW v \in Previews(c, p),
         NEW entries \in Seq(Seq(Asked(p))), NEW lucky
  PROVE  SubMoves(c, v, entries, lucky) \in Previews(c, p)
BY SubMovesFolds


(* The moves of unknown accounts, and those with wrong payments, show nothing. *)
LEMMA ProcessMoveKeeps ==
  ASSUME NEW c \in Chains, NEW who, NEW f \in Views(c, who), NEW m \in Moves, m.by \in who,
         NEW lucky
  PROVE  ProcessMove(c, f, m, lucky) \in Views(c, who)
<1>1. CASE Ignored(c, m) \/ m.entries = <<>>
  BY <1>1 DEF ProcessMove
<1>2. CASE ~(Ignored(c, m) \/ m.entries = <<>>)
  <2> DEFINE p == m.by
             v == SubMoves(c, StateOf(c, f, p), m.entries, lucky)
             D == DOMAIN f \cup {p}
             g == [q \in D |-> IF q = p THEN v ELSE f[q]]
  <2>1. p \in c.known \cap who /\ p \in Players
    BY <1>2, MovesAskForTheirs DEF Ignored
  <2>2. v \in Previews(c, p)
    <3>1. StateOf(c, f, p) \in Previews(c, p) /\ m.entries \in Seq(Seq(Asked(p)))
      BY <2>1, MovesAskForTheirs, StateIsShown
    <3> QED
      BY <2>1, <3>1, SubMovesKeep
  <2>3. ProcessMove(c, f, m, lucky) = g
    BY <1>2 DEF ProcessMove
  <2> HIDE DEF v
  <2>4. D \in SUBSET (c.known \cap who)
    BY <2>1 DEF Views
  <2>5. \A q \in D : g[q] \in Previews(c, q)
    <3> TAKE q \in D
    <3>1. CASE q = p
      BY <2>2, <3>1
    <3>2. CASE q # p
      BY <3>2 DEF Views
    <3> QED
      BY <3>1, <3>2
  <2>6. g \in [D -> UNION {Previews(c, q) : q \in D}]
    BY <2>5
  <2>7. DOMAIN g = D
    OBVIOUS
  <2> HIDE DEF g, D, p
  <2>8. g \in Views(c, who)
    BY <2>4, <2>5, <2>6, <2>7 DEF Views
  <2> QED
    BY <2>3, <2>8
<1> QED
  BY <1>1, <1>2

(* Parsing does not change what the confirmed state says of requests. *)
LEMMA ParsedIsLike ==
  ASSUME NEW c \in Chains, NEW d \in Like(c), NEW m \in Moves
  PROVE  Parsed(d, m) \in Like(c)
<1>1. m.by \in Players /\ MaxMissing \in Nat
  BY PendingAssumption, MovesAssumption
<1>2. d \in Chains /\ d.missing \in 0..MaxMissing
  BY DEF Like, Chains
<1>3. (IF d.missing > 0 THEN d.missing - 1 ELSE 0) \in 0..MaxMissing
  BY <1>1, <1>2
<1>4. (IF Queues(d, m) THEN d.queue \cup {m.by} ELSE d.queue) \in SUBSET Players
  BY <1>1, <1>2 DEF Chains
<1> QED
  BY <1>2, <1>3, <1>4 DEF Parsed, Like, Chains

LEMMA LikeShowsTheSame ==
  ASSUME NEW c \in Chains, NEW d \in Like(c), NEW who
  PROVE  Views(d, who) = Views(c, who)
<1>1. d.known = c.known /\ d.owns = c.owns /\ d.verdict = c.verdict
  BY DEF Like
<1>2. \A p : Found(d, p) = Found(c, p)
  BY <1>1 DEF Found
<1>3. \A p : Shown(d, p) = Shown(c, p)
  BY <1>1, <1>2 DEF Shown
<1>4. \A p : Previews(d, p) = Previews(c, p)
  BY <1>1, <1>3 DEF Previews
<1> QED
  BY <1>1, <1>4 DEF Views

-----------------------------------------------------------------------------
(***************************************************************************)
(* The pending moves.                                                      *)
(***************************************************************************)

(* More players with pending moves: no preview has to go. *)
LEMMA MoreMovers ==
  ASSUME NEW c \in Chains, NEW who, NEW more, who \subseteq more
  PROVE  Views(c, who) \subseteq Views(c, more)
BY DEF Views

LEMMA NothingShown ==
  ASSUME NEW c \in Chains, NEW who
  PROVE  NoViews \in Views(c, who)
<1>1. DOMAIN NoViews = {}
  BY DEF NoViews
<1>2. NoViews \in [{} -> UNION {Previews(c, p) : p \in {}}]
  BY DEF NoViews
<1>3. {} \in SUBSET (c.known \cap who)
  OBVIOUS
<1> HIDE DEF NoViews
<1> QED
  BY <1>1, <1>2, <1>3 DEF Views

(* A pool holds each of its moves once, so that it is no longer than the   *)
(* pending moves it is chosen from.                                        *)
LEMMA PoolsAreSmall ==
  ASSUME NEW pending \in Seq(Moves), NEW S \in SUBSET ToSet(pending),
         NEW pool \in SetToSeqs(S)
  PROVE  pool \in Seq(Moves) /\ Len(pool) <= Len(pending)
<1> DEFINE all == 1..Len(pending)
           n == Cardinality(S)
<1>0. Len(pending) \in Nat
  OBVIOUS
<1>1. Len(pending) \in Nat /\ IsFiniteSet(all) /\ Cardinality(all) = Len(pending)
  BY <1>0, FS_Interval
<1>2. ToSet(pending) = {pending[i] : i \in all}
  BY DEF ToSet
<1> DEFINE at == [i \in all |-> pending[i]]
<1>3. at \in Surjection(all, ToSet(pending))
  BY <1>2 DEF Surjection
<1>4. IsFiniteSet(ToSet(pending)) /\ Cardinality(ToSet(pending)) <= Len(pending)
  <2> HIDE DEF at, all
  <2> QED
    BY <1>1, <1>3, FS_Surjection
<1>5. IsFiniteSet(S) /\ n <= Cardinality(ToSet(pending)) /\ n \in Nat
  BY <1>4, FS_Subset, FS_CardinalityType
<1>6. Cardinality(ToSet(pending)) \in Nat
  BY <1>4, FS_CardinalityType
<1>7. pool \in [1..n -> S]
  BY DEF SetToSeqs
<1>8. S \subseteq Moves
  BY <1>2
<1> HIDE DEF n, all
<1>9. pool \in Seq(S) /\ Len(pool) = n
  BY <1>5, <1>7
<1>10. pool \in Seq(Moves)
  BY <1>8, <1>9
<1> QED
  BY <1>1, <1>4, <1>5, <1>6, <1>9, <1>10

LEMMA AddStepKeeps ==
  ASSUME NEW c \in Chains, NEW who, NEW m \in Moves, m.by \in who, NEW lucky,
         NEW s \in [chain : Like(c), view : Views(c, who)]
  PROVE  [chain |-> Parsed(s.chain, m), view |-> ProcessMove(s.chain, s.view, m, lucky)]
           \in [chain : Like(c), view : Views(c, who)]
<1>1. s.chain \in Like(c) /\ s.chain \in Chains /\ s.view \in Views(c, who)
  BY DEF Like
<1>2. s.view \in Views(s.chain, who)
  BY <1>1, LikeShowsTheSame
<1>3. ProcessMove(s.chain, s.view, m, lucky) \in Views(c, who)
  BY <1>1, <1>2, ProcessMoveKeeps, LikeShowsTheSame
<1> QED
  BY <1>1, <1>3, ParsedIsLike

(* The moves of a pool are added to an empty preview. *)
LEMMA AddAllKeeps ==
  ASSUME NEW c \in Chains, NEW pool \in Seq(Moves), NEW lucky
  PROVE  AddAll(c, NoViews, pool, lucky) \in [chain : Like(c), view : Views(c, Movers(pool))]
<1> DEFINE who == Movers(pool)
           A == [chain : Like(c), view : Views(c, who)]
           D == {m \in Moves : m.by \in who}
           base == [chain |-> c, view |-> NoViews]
           Op(s, m) == [chain |-> Parsed(s.chain, m),
                        view |-> ProcessMove(s.chain, s.view, m, lucky)]
           step == [x \in A \X D |-> Op(x[1], x[2])]
           Adds(F) == F = [s \in SUBSET (DOMAIN pool) |->
                             IF s = {} THEN base
                             ELSE Op(F[s \ {Max(s)}], pool[Max(s)])]
           it == CHOOSE F : Adds(F)
<1>1. AddAll(c, NoViews, pool, lucky) = it[DOMAIN pool]
  BY Zenon DEF AddAll, FoldLeft, MapThenFoldSet
<1>2. base \in A
  <2>1. c \in Like(c)
    BY DEF Like
  <2> QED
    BY <2>1, NothingShown
<1>3. \A a \in A, m \in D : Op(a, m) \in A
  BY AddStepKeeps
<1> HIDE DEF Op, base
<1>4. step \in [A \X D -> A]
  BY <1>3
<1>5. pool \in Seq(D)
  BY DEF Movers
<1> HIDE DEF A, D
<1>6. \A s \in SUBSET (DOMAIN pool) : s # {} => Max(s) \in DOMAIN pool /\ pool[Max(s)] \in D
  <2> TAKE s \in SUBSET (DOMAIN pool)
  <2>1. IsFiniteSet(s) /\ s \in SUBSET Int
    BY <1>5, FS_Interval, FS_Subset
  <2>2. s # {} => Max(s) \in s
    BY <2>1, MaxIsGreatest
  <2> QED
    BY <1>5, <2>2
<1>7. PICK F \in [SUBSET (DOMAIN pool) -> A] : InOrder(F, pool, base, step)
  <2> HIDE DEF step
  <2> QED
    BY <1>2, <1>4, <1>5, SequenceFoldExists
<1>8. Adds(F)
  <2>1. \A s \in SUBSET (DOMAIN pool) : s # {} =>
          step[<<F[s \ {Max(s)}], pool[Max(s)]>>] = Op(F[s \ {Max(s)}], pool[Max(s)])
    BY <1>6, <1>7
  <2> QED
    BY <1>7, <2>1 DEF InOrder
<1>9. Adds(it)
  BY <1>8
<1> HIDE DEF it
<1>10. it[{}] \in A
  BY <1>2, <1>9
<1>11. \A s \in SUBSET (DOMAIN pool) : s # {} /\ it[s \ {Max(s)}] \in A => it[s] \in A
  BY <1>3, <1>6, <1>9
<1>12. it[DOMAIN pool] \in A
  <2> HIDE DEF Adds
  <2> QED
    BY <1>5, <1>10, <1>11, SequenceFoldKeeps
<1> QED
  BY <1>1, <1>12 DEF A, who
-----------------------------------------------------------------------------
(***************************************************************************)
(* The invariant.                                                          *)
(***************************************************************************)
LEMMA InitIsTyped == ASSUME Init PROVE IndPending
<1>1. chain \in Chains
  BY DEF Init, ChainStates, Chains
<1>2. mempool \in Seq(Moves) /\ Len(mempool) <= MaxPending
  BY PendingAssumption DEF Init
<1>3. view \in Views(chain, Movers(mempool))
  BY <1>1, NothingShown DEF Init
<1> QED
  BY <1>1, <1>2, <1>3 DEF IndPending

LEMMA AddPendingMoveKeeps ==
  ASSUME IndPending, NEW m \in Moves, NEW lucky, AddPendingMove(m, lucky)
  PROVE  IndPending'
<1> DEFINE who == Movers(Append(mempool, m))
<1>1. chain \in Chains /\ mempool \in Seq(Moves) /\ view \in Views(chain, Movers(mempool))
  BY DEF IndPending
<1>2. Movers(mempool) \subseteq who /\ m.by \in who
  <2>1. /\ Len(Append(mempool, m)) = Len(mempool) + 1 /\ Len(mempool) \in Nat
        /\ Append(mempool, m)[Len(mempool) + 1] = m
        /\ \A i \in 1..Len(mempool) : Append(mempool, m)[i] = mempool[i]
    BY <1>1
  <2> QED
    BY <2>1 DEF Movers
<1> HIDE DEF who
<1>3. chain \in Like(chain)
  BY <1>1 DEF Like
<1>4. Parsed(chain, m) \in Like(chain) /\ Parsed(chain, m) \in Chains
  BY <1>1, <1>3, ParsedIsLike DEF Like
<1>5. ProcessMove(chain, view, m, lucky) \in Views(chain, who)
  BY <1>1, <1>2, MoreMovers, ProcessMoveKeeps
<1>6. ProcessMove(chain, view, m, lucky) \in Views(Parsed(chain, m), who)
  BY <1>1, <1>4, <1>5, LikeShowsTheSame
<1>7. Append(mempool, m) \in Seq(Moves) /\ Len(Append(mempool, m)) <= MaxPending
  BY <1>1, PendingAssumption DEF AddPendingMove
<1>8. /\ chain' = Parsed(chain, m) /\ mempool' = Append(mempool, m)
      /\ view' = ProcessMove(chain, view, m, lucky)
  BY DEF AddPendingMove
<1> QED
  BY <1>4, <1>6, <1>7, <1>8 DEF IndPending, who

LEMMA ChangeChainKeeps ==
  ASSUME IndPending, NEW c \in ChainStates, NEW pool \in Pools, NEW lucky,
         ChangeChain(c, pool, lucky)
  PROVE  IndPending'
<1> DEFINE s == AddAll(c, NoViews, pool, lucky)
<1>1. mempool \in Seq(Moves) /\ Len(mempool) <= MaxPending
  BY DEF IndPending
<1>2. c \in Chains
  BY DEF ChainStates, Chains
<1>3. PICK S \in SUBSET ToSet(mempool) : pool \in SetToSeqs(S)
  BY DEF Pools
<1>4. pool \in Seq(Moves) /\ Len(pool) <= Len(mempool)
  BY <1>1, <1>3, PoolsAreSmall
<1>5. s.chain \in Like(c) /\ s.view \in Views(c, Movers(pool))
  BY <1>2, <1>4, AddAllKeeps
<1>6. chain' = s.chain /\ view' = s.view /\ mempool' = pool
  BY DEF ChangeChain, Cleared
<1> HIDE DEF s
<1>7. s.chain \in Chains /\ s.view \in Views(s.chain, Movers(pool))
  BY <1>2, <1>5, LikeShowsTheSame DEF Like
<1>8. Len(pool) <= MaxPending
  BY <1>1, <1>4, PendingAssumption
<1> QED
  BY <1>4, <1>6, <1>7, <1>8 DEF IndPending

LEMMA NextKeepsIndPending == ASSUME IndPending, [Next]_vars PROVE IndPending'
<1>1. CASE UNCHANGED vars
  BY <1>1 DEF IndPending, vars
<1>2. ASSUME NEW m \in Moves, NEW lucky, AddPendingMove(m, lucky) PROVE IndPending'
  BY <1>2, AddPendingMoveKeeps
<1>3. ASSUME NEW c \in ChainStates, NEW pool \in Pools, NEW lucky, ChangeChain(c, pool, lucky)
      PROVE  IndPending'
  BY <1>3, ChangeChainKeeps
<1> QED
  BY <1>1, <1>2, <1>3 DEF Next

LEMMA IndPendingIsTyped == ASSUME IndPending PROVE TypeOK
<1>1. chain.known \subseteq Players
  BY DEF IndPending, Chains
<1>2. DOMAIN view \subseteq chain.known /\ \A p \in DOMAIN view : view[p] \in Previews(chain, p)
  BY DEF IndPending, Views
<1>3. \A p \in DOMAIN view :
        view[p].balance \in Int /\ view[p].candy \in [Candies -> 0..Modulus - 1]
  BY <1>2 DEF Previews, Counts
<1> QED
  BY <1>1, <1>2, <1>3 DEF IndPending, TypeOK, Chains

LEMMA IndPendingIsFresh == ASSUME IndPending PROVE NothingStale
<1> SUFFICES ASSUME NEW p \in DOMAIN view
             PROVE  /\ p \in chain.known
                    /\ \E i \in 1..Len(mempool) : mempool[i].by = p
                    /\ view[p].onChainBalance = chain.owns.balance[p]
                    /\ view[p].onChainCandy = chain.owns.candy[p]
                    /\ \A e \in view[p].entries :
                         \/ e[1] \in {"crystalbundles", "purchasing"}
                         \/ e[2] \in Requests /\ By[e[2]] = p /\ chain.verdict[e[2]] = "yes"
                         \/ \E r \in Requests :
                              e[2] \in Ids[r] /\ By[r] = p /\ chain.verdict[r] # "no"
  BY DEF NothingStale
<1>1. p \in chain.known /\ p \in Movers(mempool) /\ view[p] \in Previews(chain, p)
  BY DEF IndPending, Views
<1>2. ASSUME NEW e \in view[p].entries
      PROVE  \/ e[1] \in {"crystalbundles", "purchasing"}
             \/ e[2] \in Requests /\ By[e[2]] = p /\ chain.verdict[e[2]] = "yes"
             \/ \E r \in Requests : e[2] \in Ids[r] /\ By[r] = p /\ chain.verdict[r] # "no"
  <2>1. e \in Shown(chain, p)
    BY <1>1 DEF Previews
  <2> QED
    BY <2>1 DEF Shown, Asked, Found
<1>3. \E i \in 1..Len(mempool) : mempool[i].by = p
  BY <1>1 DEF Movers
<1>4. view[p].onChainBalance = chain.owns.balance[p] /\ view[p].onChainCandy = chain.owns.candy[p]
  BY <1>1 DEF Previews
<1> QED
  BY <1>1, <1>2, <1>3, <1>4

(* The pending state and the moves in it keep their types: balances shown  *)
(* may be below zero, counts of candies wrap around, and there are never   *)
(* more pending moves than allowed.                                        *)
THEOREM TypeCorrect == Spec => []TypeOK
<1>1. Init => IndPending
  BY InitIsTyped
<1>2. IndPending /\ [Next]_vars => IndPending'
  BY NextKeepsIndPending
<1>3. IndPending => TypeOK
  BY IndPendingIsTyped
<1> QED
  BY <1>1, <1>2, <1>3, PTL DEF Spec

(* Nothing in the preview is stale, whatever blocks are attached and       *)
(* detached and whatever moves come back: it starts from what the          *)
(* confirmed state says each player owns, belongs to known players that    *)
(* have a pending move, and names what the confirmed state lets them name. *)
THEOREM PreviewsAreFresh == Spec => []NothingStale
<1>1. Init => IndPending
  BY InitIsTyped
<1>2. IndPending /\ [Next]_vars => IndPending'
  BY NextKeepsIndPending
<1>3. IndPending => NothingStale
  BY IndPendingIsFresh
<1> QED
  BY <1>1, <1>2, <1>3, PTL DEF Spec

-----------------------------------------------------------------------------
(***************************************************************************)
(* Wares.                                                                  *)
(***************************************************************************)

(* One of each.                                                            *)
Single == {r \in Requests : Kind[r] \in Wares /\ Units[r] = 1}

LEMMA RequestSettles ==
  ASSUME NEW c \in Chains, NEW p \in Players, NEW acc \in Accs(c, p),
         NEW r \in Asked(p) \cap Single, NEW lucky
  PROVE  Request(c, acc, r, lucky).view.balance = Charged(acc.view.balance, r)
<1> DEFINE v == acc.view
<1>1. /\ Kind[r] \in Wares /\ Kind[r] \notin Cooking /\ Kind[r] \notin Claims
      /\ Kind[r] # "pc" /\ Kind[r] \notin {"e", "l", "se", "sl"}
      /\ Kind[r] \notin {"fd", "fc", "fs", "fb", "fr", "ft"}
  BY DEF Single, Wares, Cooking, Claims
<1>2. Request(c, acc, r, lucky).view
        = IF Passes(c, v, r, lucky) THEN Add(v, r, acc.used, acc.ids) ELSE v
  BY <1>1 DEF Request
<1>3. Passes(c, v, r, lucky) <=> Affordable(v, r)
  BY <1>1 DEF Passes
<1>4. Add(v, r, acc.used, acc.ids) = Debit(Put(v, r), Cost[r])
  BY <1>1 DEF Add, AddPurchasing
<1>5. v \in Previews(c, p)
  BY DEF Accs
<1>6. Debit(Put(v, r), Cost[r]).balance = v.balance - Cost[r]
  BY <1>5 DEF Debit, Put, Previews
<1>7. Units[r] = 1 /\ Cost[r] \in Nat /\ Cost[r] * Units[r] = Cost[r]
  BY KindsAreKeys DEF Single
<1> QED
  BY <1>2, <1>3, <1>4, <1>6, <1>7 DEF Affordable, Charged

LEMMA ChargedIsInt ==
  ASSUME NEW n \in Int, NEW r \in Requests
  PROVE  Charged(n, r) \in Int
<1>1. Cost[r] \in Nat /\ Units[r] \in Nat
  BY PendingAssumption
<1>2. Cost[r] * Units[r] \in Int
  BY <1>1
<1> QED
  BY <1>2 DEF Charged

(* What a block charges for a sub-move, and for a move, is a fold, too. *)
ChargeFold(F, b, entry) ==
  F = [s \in SUBSET (DOMAIN entry) |->
         IF s = {} THEN b ELSE Charged(F[s \ {Max(s)}], entry[Max(s)])]

LEMMA ChargeFolds ==
  ASSUME NEW b \in Int, NEW entry \in Seq(Requests)
  PROVE  \E F : ChargeFold(F, b, entry) /\ SettledEntry(b, entry) = F[DOMAIN entry] /\ F[DOMAIN entry] \in Int
<1> DEFINE D == Requests
           step == [x \in Int \X D |-> Charged(x[1], x[2])]
           Pays(F) == F = [s \in SUBSET (DOMAIN entry) |->
                             IF s = {} THEN b ELSE Charged(F[s \ {Max(s)}], entry[Max(s)])]
           it == CHOOSE F : Pays(F)
<1>1. SettledEntry(b, entry) = it[DOMAIN entry]
  BY Zenon DEF SettledEntry, FoldLeft, MapThenFoldSet
<1>2. \A n \in Int, r \in D : Charged(n, r) \in Int
  BY ChargedIsInt
<1>3. step \in [Int \X D -> Int]
  BY <1>2
<1>4. entry \in Seq(D)
  OBVIOUS
<1> HIDE DEF D
<1>5. \A s \in SUBSET (DOMAIN entry) : s # {} => Max(s) \in DOMAIN entry /\ entry[Max(s)] \in D
  <2> TAKE s \in SUBSET (DOMAIN entry)
  <2>1. IsFiniteSet(s) /\ s \in SUBSET Int
    BY <1>4, FS_Interval, FS_Subset
  <2>2. s # {} => Max(s) \in s
    BY <2>1, MaxIsGreatest
  <2> QED
    BY <1>4, <2>2
<1>6. PICK F \in [SUBSET (DOMAIN entry) -> Int] : InOrder(F, entry, b, step)
  <2> HIDE DEF step
  <2> QED
    BY <1>3, <1>4, SequenceFoldExists
<1>7. Pays(F)
  <2>1. \A s \in SUBSET (DOMAIN entry) : s # {} =>
          step[<<F[s \ {Max(s)}], entry[Max(s)]>>] = Charged(F[s \ {Max(s)}], entry[Max(s)])
    BY <1>5, <1>6
  <2> QED
    BY <1>6, <2>1 DEF InOrder
<1>8. Pays(it)
  BY <1>7
<1> HIDE DEF it
<1>9. it[{}] \in Int
  BY <1>8
<1>10. \A s \in SUBSET (DOMAIN entry) : s # {} /\ it[s \ {Max(s)}] \in Int => it[s] \in Int
  BY <1>2, <1>5, <1>8
<1>11. it[DOMAIN entry] \in Int
  <2> HIDE DEF Pays
  <2> QED
    BY <1>4, <1>9, <1>10, SequenceFoldKeeps
<1>12. ChargeFold(it, b, entry)
  BY <1>8 DEF ChargeFold
<1> QED
  BY <1>1, <1>11, <1>12

LEMMA SettledEntryIsInt ==
  ASSUME NEW n \in Int, NEW entry \in Seq(Requests)
  PROVE  SettledEntry(n, entry) \in Int
BY ChargeFolds

SettleFold(F, b, entries) ==
  F = [s \in SUBSET (DOMAIN entries) |->
         IF s = {} THEN b ELSE SettledEntry(F[s \ {Max(s)}], entries[Max(s)])]

LEMMA SettleFolds ==
  ASSUME NEW b \in Int, NEW m, NEW entries \in Seq(Seq(Requests)), entries = m.entries
  PROVE  \E F : SettleFold(F, b, entries) /\ Settled(b, m) = F[DOMAIN entries] /\ F[DOMAIN entries] \in Int
<1> DEFINE D == Seq(Requests)
           step == [x \in Int \X D |-> SettledEntry(x[1], x[2])]
           Pays(F) == F = [s \in SUBSET (DOMAIN entries) |->
                             IF s = {} THEN b ELSE SettledEntry(F[s \ {Max(s)}], entries[Max(s)])]
           it == CHOOSE F : Pays(F)
<1>1. Settled(b, m) = it[DOMAIN entries]
  BY Zenon DEF Settled, FoldLeft, MapThenFoldSet
<1>2. \A n \in Int, r \in D : SettledEntry(n, r) \in Int
  BY SettledEntryIsInt
<1>3. step \in [Int \X D -> Int]
  BY <1>2
<1>4. entries \in Seq(D)
  OBVIOUS
<1> HIDE DEF D
<1>5. \A s \in SUBSET (DOMAIN entries) : s # {} => Max(s) \in DOMAIN entries /\ entries[Max(s)] \in D
  <2> TAKE s \in SUBSET (DOMAIN entries)
  <2>1. IsFiniteSet(s) /\ s \in SUBSET Int
    BY <1>4, FS_Interval, FS_Subset
  <2>2. s # {} => Max(s) \in s
    BY <2>1, MaxIsGreatest
  <2> QED
    BY <1>4, <2>2
<1>6. PICK F \in [SUBSET (DOMAIN entries) -> Int] : InOrder(F, entries, b, step)
  <2> HIDE DEF step
  <2> QED
    BY <1>3, <1>4, SequenceFoldExists
<1>7. Pays(F)
  <2>1. \A s \in SUBSET (DOMAIN entries) : s # {} =>
          step[<<F[s \ {Max(s)}], entries[Max(s)]>>] = SettledEntry(F[s \ {Max(s)}], entries[Max(s)])
    BY <1>5, <1>6
  <2> QED
    BY <1>6, <2>1 DEF InOrder
<1>8. Pays(it)
  BY <1>7
<1> HIDE DEF it
<1>9. it[{}] \in Int
  BY <1>8
<1>10. \A s \in SUBSET (DOMAIN entries) : s # {} /\ it[s \ {Max(s)}] \in Int => it[s] \in Int
  BY <1>2, <1>5, <1>8
<1>11. it[DOMAIN entries] \in Int
  <2> HIDE DEF Pays
  <2> QED
    BY <1>4, <1>9, <1>10, SequenceFoldKeeps
<1>12. SettleFold(it, b, entries)
  BY <1>8 DEF SettleFold
<1> QED
  BY <1>1, <1>11, <1>12

(* A sub-move that asks for wares shows what the block will charge for it. *)
LEMMA SubMoveSettles ==
  ASSUME NEW c \in Chains, NEW p \in Players, NEW v \in Previews(c, p),
         NEW entry \in Seq(Asked(p) \cap Single), NEW lucky
  PROVE  SubMove(c, v, entry, lucky).balance = SettledEntry(v.balance, entry)
<1> DEFINE D == Asked(p) \cap Single
           A == {z \in Accs(c, p) \X Int : z[1].view.balance = z[2]}
<1>1. entry \in Seq(Asked(p)) /\ entry \in Seq(Requests)
  BY DEF Asked
<1>2. v.balance \in Int
  BY DEF Previews
<1>3. PICK F : /\ SubMoveFold(F, c, v, entry, lucky)
               /\ SubMove(c, v, entry, lucky) = F[DOMAIN entry].view
  BY <1>1, SubMoveFolds
<1>4. PICK G : /\ ChargeFold(G, v.balance, entry)
               /\ SettledEntry(v.balance, entry) = G[DOMAIN entry]
  BY <1>1, <1>2, ChargeFolds
<1> DEFINE both == [s \in SUBSET (DOMAIN entry) |-> <<F[s], G[s]>>]
<1>5. both[{}] \in A
  <2>1. F[{}] = [view |-> v, used |-> [k \in Candies |-> 0], ids |-> {}]
    BY <1>3 DEF SubMoveFold
  <2>2. G[{}] = v.balance
    BY <1>4 DEF ChargeFold
  <2>3. F[{}] \in Accs(c, p) /\ F[{}].view.balance = G[{}]
    BY <2>1, <2>2 DEF Accs
  <2> QED
    BY <1>2, <2>2, <2>3
<1>6. ASSUME NEW s \in SUBSET (DOMAIN entry), s # {}, both[s \ {Max(s)}] \in A
      PROVE  both[s] \in A
  <2> DEFINE a == F[s \ {Max(s)}] n == G[s \ {Max(s)}] r == entry[Max(s)]
  <2>1. Max(s) \in DOMAIN entry
    <3>1. IsFiniteSet(s) /\ s \in SUBSET Int
      BY FS_Interval, FS_Subset
    <3> QED
      BY <1>6, <3>1, MaxIsGreatest
  <2>2. r \in D
    BY <2>1
  <2>3. F[s] = Request(c, a, r, lucky)
    BY <1>3, <1>6 DEF SubMoveFold
  <2>4. G[s] = Charged(n, r)
    BY <1>4, <1>6 DEF ChargeFold
  <2>5. a \in Accs(c, p) /\ n \in Int /\ a.view.balance = n
    BY <1>6
  <2> HIDE DEF a, n, r
  <2>6. r \in Asked(p) /\ r \in Requests
    BY <2>2 DEF Asked
  <2>7. Request(c, a, r, lucky) \in Accs(c, p) /\ Charged(n, r) \in Int
    BY <2>5, <2>6, RequestKeeps, ChargedIsInt
  <2>8. Request(c, a, r, lucky).view.balance = Charged(n, r)
    BY <2>2, <2>5, RequestSettles
  <2> QED
    BY <2>3, <2>4, <2>7, <2>8
<1> HIDE DEF A, both
<1>7. both[DOMAIN entry] \in A
  BY <1>5, <1>6, SequenceFoldKeeps
<1>8. F[DOMAIN entry].view.balance = G[DOMAIN entry]
  BY <1>7 DEF A, both
<1> QED
  BY <1>3, <1>4, <1>8

(* The requests of a move for wares, one of each. *)
SinglesOf(p, entries) == entries \in Seq(Seq(Asked(p) \cap Single))

LEMMA SubMovesSettle ==
  ASSUME NEW c \in Chains, NEW p \in Players, NEW v \in Previews(c, p),
         NEW m, NEW entries, entries = m.entries, SinglesOf(p, entries), NEW lucky
  PROVE  SubMoves(c, v, entries, lucky).balance = Settled(v.balance, m)
<1> DEFINE D == Seq(Asked(p) \cap Single)
           A == {z \in Previews(c, p) \X Int : z[1].balance = z[2]}
<1>1. entries \in Seq(Seq(Asked(p))) /\ entries \in Seq(Seq(Requests))
  <2>1. D \subseteq Seq(Asked(p)) /\ D \subseteq Seq(Requests)
    BY DEF Asked
  <2> HIDE DEF D
  <2> DEFINE E == Seq(Asked(p)) R == Seq(Requests)
  <2> HIDE DEF E, R
  <2>2. entries \in Seq(D) /\ D \subseteq E /\ D \subseteq R
    BY <2>1 DEF D, E, R, SinglesOf
  <2>3. entries \in Seq(E) /\ entries \in Seq(R)
    BY <2>2
  <2> QED
    BY <2>3 DEF E, R
<1>2. v.balance \in Int
  BY DEF Previews
<1>3. PICK F : /\ SubMovesFold(F, c, v, entries, lucky)
               /\ SubMoves(c, v, entries, lucky) = F[DOMAIN entries]
  BY <1>1, SubMovesFolds
<1>4. PICK G : /\ SettleFold(G, v.balance, entries)
               /\ Settled(v.balance, m) = G[DOMAIN entries]
  BY <1>1, <1>2, SettleFolds
<1> DEFINE both == [s \in SUBSET (DOMAIN entries) |-> <<F[s], G[s]>>]
<1>5. both[{}] \in A
  <2>1. F[{}] = v
    BY <1>3 DEF SubMovesFold
  <2>2. G[{}] = v.balance
    BY <1>4 DEF SettleFold
  <2> QED
    BY <1>2, <2>1, <2>2
<1>6. ASSUME NEW s \in SUBSET (DOMAIN entries), s # {}, both[s \ {Max(s)}] \in A
      PROVE  both[s] \in A
  <2> DEFINE w == F[s \ {Max(s)}] n == G[s \ {Max(s)}] entry == entries[Max(s)]
  <2>1. Max(s) \in DOMAIN entries
    <3>1. IsFiniteSet(s) /\ s \in SUBSET Int
      BY <1>1, FS_Interval, FS_Subset
    <3> QED
      BY <1>6, <3>1, MaxIsGreatest
  <2>2. entry \in D
    BY <2>1 DEF SinglesOf
  <2>3. F[s] = SubMove(c, w, entry, lucky)
    BY <1>3, <1>6 DEF SubMovesFold
  <2>4. G[s] = SettledEntry(n, entry)
    BY <1>4, <1>6 DEF SettleFold
  <2>5. w \in Previews(c, p) /\ n \in Int /\ w.balance = n
    BY <1>6
  <2> HIDE DEF w, n, entry
  <2>6. entry \in Seq(Asked(p)) /\ entry \in Seq(Requests)
    BY <2>2 DEF Asked
  <2>7. SubMove(c, w, entry, lucky) \in Previews(c, p) /\ SettledEntry(n, entry) \in Int
    BY <2>5, <2>6, SubMoveKeeps, SettledEntryIsInt
  <2>8. SubMove(c, w, entry, lucky).balance = SettledEntry(n, entry)
    BY <2>2, <2>5, SubMoveSettles
  <2> QED
    BY <2>3, <2>4, <2>7, <2>8
<1> HIDE DEF A, both, D
<1>7. both[DOMAIN entries] \in A
  <2>1. entries \in Seq(D)
    BY DEF D, SinglesOf
  <2> QED
    BY <1>5, <1>6, <2>1, SequenceFoldKeeps
<1>8. F[DOMAIN entries].balance = G[DOMAIN entries]
  BY <1>7 DEF A, both
<1> QED
  BY <1>3, <1>4, <1>8

(* The moves a pool was chosen from are not followed by one more. *)
LEMMA AddedMoveSettles ==
  ASSUME IndPending, [Next]_vars, NEW m \in Moves,
         mempool' = Append(mempool, m), WaresOnly(m), m.entries # <<>>, ~Ignored(chain, m)
  PROVE  view'[m.by].balance = Settled(StateOf(chain, view, m.by).balance, m)
<1>1. mempool \in Seq(Moves) /\ Len(mempool) \in Nat /\ chain \in Chains
      /\ view \in Views(chain, Movers(mempool))
  BY DEF IndPending
<1>2. Len(mempool') = Len(mempool) + 1
  BY <1>1
<1>3. ASSUME NEW c \in ChainStates, NEW pool \in Pools, NEW lucky, ChangeChain(c, pool, lucky)
      PROVE  FALSE
  <2>1. PICK S \in SUBSET ToSet(mempool) : pool \in SetToSeqs(S)
    BY DEF Pools
  <2>2. pool \in Seq(Moves) /\ Len(pool) <= Len(mempool)
    BY <1>1, <2>1, PoolsAreSmall
  <2> QED
    BY <1>1, <1>2, <1>3, <2>2 DEF ChangeChain
<1>4. ~ UNCHANGED vars
  <2>1. Len(mempool) # Len(mempool) + 1
    BY <1>1
  <2> QED
    BY <1>2, <2>1 DEF vars
<1>5. PICK n \in Moves : \E lucky \in SUBSET BundlesIn({n}) : AddPendingMove(n, lucky)
  BY <1>3, <1>4 DEF Next
<1>0. PICK lucky \in SUBSET BundlesIn({n}) : AddPendingMove(n, lucky)
  BY <1>5
<1>6. n = m
  <2>1. Append(mempool, n) = Append(mempool, m)
    BY <1>0 DEF AddPendingMove
  <2> QED
    BY <1>1, <2>1
<1> DEFINE p == m.by
           v == StateOf(chain, view, p)
           w == SubMoves(chain, v, m.entries, lucky)
<1>7. view'[p] = w
  <2>1. view' = ProcessMove(chain, view, m, lucky)
    BY <1>0, <1>6 DEF AddPendingMove
  <2>2. ProcessMove(chain, view, m, lucky)
          = [q \in DOMAIN view \cup {p} |-> IF q = p THEN w ELSE view[q]]
    BY DEF ProcessMove
  <2> HIDE DEF w
  <2> QED
    BY <2>1, <2>2
<1>8. p \in Players /\ v \in Previews(chain, p)
  BY <1>1, MovesAskForTheirs, StateIsShown
<1>9. m.entries \in Seq(Seq(Asked(p) \cap Single))
  <2> DEFINE all == m.entries E == Seq(Asked(p)) D == Seq(Asked(p) \cap Single)
  <2>1. all \in Seq(E)
    BY MovesAskForTheirs
  <2>2. ASSUME NEW i \in 1..Len(all) PROVE all[i] \in D
    <3> DEFINE entry == all[i]
    <3>1. entry \in Seq(Asked(p))
      BY <2>1
    <3>2. \A j \in 1..Len(entry) : Kind[entry[j]] \in Wares /\ Units[entry[j]] = 1
      BY DEF WaresOnly
    <3> HIDE DEF entry
    <3>3. \A j \in 1..Len(entry) : entry[j] \in Asked(p) \cap Single
      BY <3>1, <3>2 DEF Asked, Single
    <3>4. entry \in Seq(Asked(p) \cap Single)
      BY <3>1, <3>3
    <3> QED
      BY <3>4 DEF entry
  <2> HIDE DEF all, D, E
  <2>3. all \in Seq(D)
    BY <2>1, <2>2
  <2> QED
    BY <2>3 DEF all, D
<1> HIDE DEF w, v, p
<1>10. SubMoves(chain, v, m.entries, lucky).balance = Settled(v.balance, m)
  <2>1. SinglesOf(p, m.entries) /\ chain \in Chains
    BY <1>1, <1>9 DEF SinglesOf
  <2>2. PICK entries : entries = m.entries
    OBVIOUS
  <2>3. SinglesOf(p, entries)
    BY <2>1, <2>2
  <2>4. SubMoves(chain, v, entries, lucky).balance = Settled(v.balance, m)
    BY <1>8, <2>1, <2>2, <2>3, SubMovesSettle
  <2> QED
    BY <2>2, <2>4
<1> QED
  BY <1>7, <1>10 DEF w, v, p

(* The preview of a move for wares is what the block will do: however many *)
(* sub-moves and requests, in whatever order, the balance shown goes down  *)
(* by what MoveProcessor would charge, which skips what it cannot charge.  *)
THEOREM WaresAlwaysSettle == Spec => WaresSettle
<1>1. IndPending /\ [Next]_vars =>
        [\A m \in Moves :
           /\ mempool' = Append(mempool, m) /\ WaresOnly(m) /\ m.entries # <<>>
           /\ ~Ignored(chain, m)
           => view'[m.by].balance = Settled(StateOf(chain, view, m.by).balance, m)]_vars
  BY AddedMoveSettles
<1>2. Init => IndPending
  BY InitIsTyped
<1>3. IndPending /\ [Next]_vars => IndPending'
  BY NextKeepsIndPending
<1> QED
  BY <1>1, <1>2, <1>3, PTL DEF Spec, WaresSettle
=============================================================================
