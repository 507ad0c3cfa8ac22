CONSTANTS
  pikachu = pikachu
  squirtle = squirtle
  Pokemons = {pikachu, squirtle}
  Blocks = 5
  CharBit = 2
  BlockSize = 2
  LineSize = 3
  MaxLines = 2
  MaxRestarts = 1
SPECIFICATION Spec
CHECK_DEADLOCK FALSE
SYMMETRY Symmetry
 
 
 
 
INVARIANT BlocksFitSize
