----------------------------- MODULE MCEngineAPI -----------------------------
(***************************************************************************)
(* Instance of EngineAPI for TLC: a chain of two valid blocks, a fork of   *)
(* one, and a fork of two bad ones.  A state is dropped from memory as     *)
(* soon as a block above it is executed.                                   *)
(***************************************************************************)
EXTENDS EngineAPI

CONSTANTS G, A1, A2, B1, X2, X3

MCBlocks == {G, A1, A2, B1, X2, X3}
MCparent == [b \in MCBlocks \ {G} |->
  CASE b \in {A1, B1} -> G [] b \in {A2, X2} -> A1 [] b = X3 -> X2]
MCnumber == [b \in MCBlocks |->
  CASE b = G -> 0 [] b \in {A1, B1} -> 1 [] b \in {A2, X2} -> 2 [] b = X3 -> 3]
MCline == [b \in MCBlocks |->
  CASE b = G -> {G} [] b = A1 -> {A1, G} [] b = A2 -> {A2, A1, G}
    [] b = B1 -> {B1, G}
    [] b = X2 -> {X2, A1, G} [] b = X3 -> {X3, X2, A1, G}]
MCBad == {X2, X3}
MCUntimely == {X3}
MCHeads == {A2, B1, X2}
MCFinals == {G, B1}

=============================================================================
