---------------------------- MODULE MCBlockBitmap ----------------------------
EXTENDS BlockBitmap, TLC

CONSTANTS pikachu, squirtle

Symmetry == Permutations(Pokemons)
=============================================================================
