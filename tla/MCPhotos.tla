------------------------------- MODULE MCPhotos --------------------------------
EXTENDS Photos, TLC

Symmetry == Permutations(Request)
===============================================================================
