-------------------------- MODULE MCTokioFsStorage --------------------------
(* A directory, a file in it and a file beside it, with detours over "..",  *)
(* one of them out of the base directory and back, and payloads of two      *)
(* different bytes.                                                         *)
EXTENDS TokioFsStorage

MCBase == <<"s">>
MCOutside == {<< >>, <<"a">>}
MCRawPath == {<<"a">>, <<"a", "b">>, <<"a", "..", "b">>, << >>, <<"..">>, <<"..", "s", "a">>,
              <<"..", "a">>}
MCFewPaths == {<<"a", "b">>, <<"a", "..", "b">>, << >>, <<"..", "s", "a">>}
MCEmpty == {<< >>}
MCData == {<<1>>, <<2, 2>>}
MCPutData == {<< >>, <<1>>, <<2, 2>>}
MCSymmetry == Permutations(Caller)
=============================================================================
