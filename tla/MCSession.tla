------------------------------ MODULE MCSession ------------------------------
(* Sessions on one object.  With chunks of two bytes, payloads of one and    *)
(* three bytes make transfers of one and two chunks, and local files that    *)
(* shrink and grow between planning and reading; the run for liveness adds   *)
(* the empty file.                                                           *)
EXTENDS Session

MCRawPath == {<<"f">>}
MCEndsData == {<< >>, <<1, 2, 3>>}
MCTwoData == {<<1>>, <<1, 2, 3>>}
MCRaceData == {<<1, 1, 1>>, <<2, 2, 2>>}
MCSymmetry == Permutations(Client)
=============================================================================
