------------------------------ MODULE MCPlanner ------------------------------
(* Two trainers where the first two of Team/Team1.config stand, one name   *)
(* missing twice and one once, and one pokemon more than is missing.       *)
EXTENDS Planner

CONSTANTS pikachu, squirtle, gengar

BagOf(names) == [s \in Species |-> Cardinality({i \in DOMAIN names : names[i] = s})]
Team(bags) == [t \in Trainers |-> BagOf(bags[t + 1])]

MCObjectives == Team(<< <<pikachu, squirtle>>, <<gengar, gengar>> >>)
MCStartHeld == Team(<< <<pikachu>>, <<>> >>)
MCStartPos == [t \in Trainers |-> << <<1, 3>>, <<2, 3>> >>[t + 1]]
MCArrivals ==
  {[name |-> gengar, pos |-> <<2, 3>>], [name |-> squirtle, pos |-> <<1, 2>>],
   [name |-> gengar, pos |-> <<1, 3>>], [name |-> gengar, pos |-> <<3, 3>>]}
=============================================================================
