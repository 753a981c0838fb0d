---------------------------- MODULE MCPending ----------------------------
(* A small instance of Pending for TLC.  Requests are named for their      *)
(* keys, with a number where there are several of one key.                 *)
EXTENDS Pending

Names == {"pg1", "pgb1", "ps1", "ps2", "pc1", "r1", "s1", "sc1", "c1", "tc1", "e1", "se1",
          "f1", "fs1", "fb1", "sl1", "vc1", "bob1"}
Senders == [r \in Names |-> IF r = "bob1" THEN "bob" ELSE "ann"]
Kinds ==
  [r \in Names |->
     CASE r \in {"pg1", "bob1"} -> "pg" [] r = "pgb1" -> "pgb" [] r \in {"ps1", "ps2"} -> "ps"
       [] r = "pc1" -> "pc" [] r = "r1" -> "r" [] r = "s1" -> "s" [] r = "sc1" -> "sc"
       [] r = "c1" -> "c" [] r = "tc1" -> "tc" [] r = "e1" -> "e" [] r = "se1" -> "se"
       [] r = "f1" -> "f" [] r = "fs1" -> "fs" [] r = "fb1" -> "fb" [] r = "sl1" -> "sl"
       [] OTHER -> "vc"]
Costs == [r \in Names |-> CASE r \in {"pgb1", "se1"} -> 2
                            [] r \in {"c1", "tc1", "sc1", "f1", "vc1", "e1", "sl1", "pc1"} -> 0
                            [] OTHER -> 1]
UnitsOf == [r \in Names |-> IF r = "ps2" THEN 2 ELSE 1]
Gains == [r \in Names |-> IF r = "pc1" THEN 2 ELSE 0]
NeedsOf == [r \in Names |-> [k \in Candies |-> IF r \in {"r1", "s1"} THEN 1 ELSE 0]]
IdsOf == [r \in Names |-> CASE r = "sc1" -> {"id1"} [] r = "c1" -> {"id2", "id3"} [] r = "tc1" -> {"id4"} [] OTHER -> {}]

(* Ann has everything, or crystals for one ware and no candy, or nothing.  *)
Owns(ab, ac) ==
  [balance |-> [p \in Players |-> IF p = "ann" THEN ab ELSE 1],
   candy |-> [p \in Players |-> [k \in Candies |-> IF p = "ann" THEN ac ELSE 0]]]
Owned == {Owns(3, 1), Owns(1, 0), Owns(0, 1)}

(* What the confirmed state says of all requests, and of cooking alone. *)
Answers ==
  {[a \in Names |-> IF Kinds[a] \in {"r", "sc", "e"} THEN x ELSE y] :
     x \in {"no", "late", "yes"}, y \in {"no", "yes"}}

Move(p, s, es) == [by |-> p, shares |-> s, entries |-> es]
AnnMoves ==
  {Move("ann", "none", <<<<"pg1">>, <<"ps1", "pgb1">>>>),
   Move("ann", "none", <<<<"pg1", "ps2">>>>),
   Move("ann", "none", <<<<"r1", "s1">>, <<"r1", "f1">>>>),
   Move("ann", "none", <<<<"vc1", "sc1", "c1", "tc1">>>>),
   Move("ann", "right", <<<<"pc1">>>>),
   Move("ann", "wrong", <<<<"pc1">>>>),
   Move("ann", "none", <<<<"pc1", "pg1">>>>),
   Move("ann", "none", <<<<"e1", "se1", "sl1", "fs1", "fb1">>>>)}
BobMoves == {Move("bob", "none", <<<<"bob1">>>>)}
SomeMoves == AnnMoves \cup BobMoves
=============================================================================
