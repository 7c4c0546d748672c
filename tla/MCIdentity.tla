----------------------------- MODULE MCIdentity -----------------------------
(* Instantiates Identity: three keys, so that a start can fail before and   *)
(* after it saved a key, and a third one still finds a fresh key.           *)
EXTENDS Identity, TLC

MCSymmetry == Permutations(Key)
=============================================================================
