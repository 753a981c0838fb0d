------------------------------ MODULE MCFights ------------------------------
(* Three treats of three owners, two of whom have moves that beat each     *)
(* other in a circle; one move is known twice.                             *)
EXTENDS Fights

Ranks == [f \in Fighters |-> f]

Types == [slam |-> "Heavy", sprint |-> "Speedy", prank |-> "Tricky",
          throw |-> "Distance", wall |-> "Blocking"]

Known == <<<<"slam", "slam">>, <<"prank">>, <<"sprint", "wall">>>>
=============================================================================
