-------------------------- MODULE MCRequestHandler --------------------------
(* Two clients on a store with two nested names, with arguments that reach  *)
(* the root, a child, a grandchild and the parent, and a detour over "..". *)
EXTENDS RequestHandler

MCRawPath == {<< >>, <<"..">>, <<"a">>, <<"a", "b">>, <<"a", "..">>}
MCData == {<< >>, <<1>>}
MCSymmetry == Permutations(Client)
=============================================================================
