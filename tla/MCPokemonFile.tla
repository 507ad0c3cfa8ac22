---------------------------- MODULE MCPokemonFile ----------------------------
(* Two coordinates, one inside the text of the other ("1-1" and "11-1"),   *)
(* or one of them.                                                         *)
EXTENDS PokemonFile, TLC

CONSTANTS one_one, eleven_one

MCContains ==
  {<<c, c>> : c \in Coords} \cup ({<<one_one, eleven_one>>} \cap (Coords \X Coords))
Symmetric == Permutations(Threads)
=============================================================================
