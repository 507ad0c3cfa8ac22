------------------------------ MODULE MCExchange ------------------------------
(* Three trainers that stand together, each a pokemon short of its number, *)
(* two of which hold what another one wants.                               *)
EXTENDS Exchange

CONSTANTS pikachu, squirtle, gengar

BagOf(names) == [s \in Species |-> Cardinality({i \in DOMAIN names : names[i] = s})]
Team(bags) == [t \in Trainers |-> BagOf(bags[t + 1])]

MCObjectives == Team(<< <<pikachu, squirtle>>, <<pikachu, gengar>>, <<squirtle>> >>)
MCStartHeld == Team(<< <<>>, <<squirtle>>, <<>> >>)
MCStartPos == [t \in Trainers |-> << <<1, 1>>, <<1, 2>>, <<1, 1>> >>[t + 1]]
MCArrivals ==
  {[name |-> pikachu, pos |-> <<1, 1>>], [name |-> pikachu, pos |-> <<1, 2>>],
   [name |-> squirtle, pos |-> <<1, 1>>], [name |-> gengar, pos |-> <<1, 1>>]}
=============================================================================
