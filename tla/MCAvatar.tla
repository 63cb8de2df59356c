-------------------------------- MODULE MCAvatar --------------------------------
(* Ten points make a level, four levels; arguments around the boundaries, one of  *)
(* them worth more than two levels.                                               *)
EXTENDS Avatar, TLC

MCArgument == {-1, 0, 1, 2, 3, 4, 9, 10, 11, 14, 20, 25}

Symmetry == Permutations(Observer)
================================================================================
