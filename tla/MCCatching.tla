------------------------------ MODULE MCCatching ------------------------------
(* Two trainers that stand where the pokemons they want are.  GameCard has *)
(* one of each, and others may catch one of them first.                    *)
EXTENDS Catching

CONSTANTS pikachu, squirtle

Here == <<1, 1>>
BagOf(name) == [s \in Species |-> IF s = name THEN 1 ELSE 0]

MCObjectives == [t \in Trainers |-> BagOf(<<pikachu, squirtle>>[t + 1])]
MCStartHeld == [t \in Trainers |-> [s \in Species |-> 0]]
MCStartPos == [t \in Trainers |-> Here]
MCArrivals == {[name |-> s, pos |-> Here] : s \in Species}
MCWanted == <<pikachu, squirtle>>
MCStartStock ==
  << [pkm |-> [name |-> pikachu, pos |-> Here], amount |-> 1],
     [pkm |-> [name |-> squirtle, pos |-> Here], amount |-> 1] >>
=============================================================================
