--------------------------- MODULE MCFenrisClient ---------------------------
(* A keyboard of two keys, one of them a wide character, and command files  *)
(* of up to two commands.                                                   *)
EXTENDS FenrisClient

MCDir == {<< >>, <<"a">>}
MCEntry == {[name |-> "a", size |-> 0, is_namespace |-> TRUE]}

Single(command) == [kind |-> "single", command |-> command]
MCMeaning ==
    [text \in {<<"w">>, <<"d", "d">>, <<"w", "d">>, <<"d", "w">>, <<"d">>,
               <<"r">>, <<"l">>, <<"i">>, <<"m">>, <<"p">>} |->
        CASE text = <<"w">> -> [kind |-> "exit"]
          [] text = <<"d", "d">> -> [kind |-> "clear"]
          [] text = <<"w", "d">> -> [kind |-> "help"]
          [] text = <<"d", "w">> -> [kind |-> "transfer"]
          [] text = <<"d">> -> Single([type |-> "ChangeNamespace", path |-> <<"a">>])
          [] text = <<"r">> -> Single([type |-> "ChangeNamespace", path |-> << >>])
          [] text = <<"l">> -> Single([type |-> "ListNamespace", path |-> << >>])
          [] text = <<"i">> -> Single([type |-> "ObjectInfo", path |-> <<"a">>])
          [] text = <<"m">> -> Single([type |-> "CreateNamespace", path |-> <<"a">>])
          [] text = <<"p">> -> Single([type |-> "Ping"])]

MCLines == {<<a, b>> : a, b \in DOMAIN MCMeaning \cup {<< >>}}
=============================================================================
