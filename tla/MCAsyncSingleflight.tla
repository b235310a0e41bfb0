------------------------ MODULE MCAsyncSingleflight ------------------------
(* Three requests of one key: an owner with two followers, or owners in     *)
(* turn when calls fail or are abandoned.                                   *)
EXTENDS AsyncSingleflight, TLC

CONSTANTS r1, r2, r3

MCSymmetry == Permutations(Requests)
=============================================================================
