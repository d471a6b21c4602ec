----------------------------- MODULE MCServices -----------------------------
EXTENDS Services

MCRunning == {{"i1"}, {"i1", "i2"}}
MCTranslated == {<<"openai", "anthropic">>}
MCAliasPool == [m \in {"m1"} |-> {1, 2}]
MCExactPool == [m \in {"m1"} |-> {1}]
MCTierPool == [t \in {"simple", "complex"} |-> IF t = "simple" THEN {1, 2} ELSE {2}]
MCContent ==
    {<<"setting", "s">>, <<"group", "g1">>, <<"group", "g2">>, <<"key", "g1", "k1">>,
     <<"key", "g1", "k2">>, <<"alias", "g1", "a">>, <<"link", "sys", "g1">>, <<"link", "g2", "g1">>}
MCUnreadable == {<<"key", "g1", "k2">>}
MCAliasTarget == {[group |-> 1, model |-> "m1"], [group |-> 1, model |-> "m2"]}
MCGroupLists == {[specified |-> TRUE, blocked |-> {"m1"}]}
=============================================================================
