------------------------- MODULE MCKselftestCatalog -------------------------
EXTENDS KselftestCatalog, TLC

MCDigits == ("0" :> 0) @@ ("1" :> 1)
MCLetters == {"a", "b"}

\* Parameter names that follow the "[<digits>__]<name>" convention of
\* spec section 6, with ties on 0 and on 1 and an unnumbered name.
WellFormed == {<<"1", "_", "_", "a">>, <<"1", "_", "_", "b">>,
               <<"0", "_", "_", "b">>, <<"1", "0", "_", "_", "a">>,
               <<"a">>, <<"a", "_", "b">>}

\* Names with digits not followed by "__".
Malformed == {<<"1", "_", "a">>, <<"1">>}

SelftestParam(b) == [key |-> "parmtype", pre |-> TRUE, body |-> b]

Others == {[key |-> "other", pre |-> TRUE, body |-> <<"a">>],
           [key |-> "parmtype", pre |-> FALSE, body |-> <<"a">>]}

MCInfos == SeqOf({SelftestParam(b) : b \in WellFormed} \cup Others, 3)

MCInfosMalformed ==
    SeqOf({SelftestParam(b) : b \in WellFormed \cup Malformed}, 2)

MCFilters == {[null |-> TRUE], [null |-> FALSE, str |-> <<"a">>],
              [null |-> FALSE, str |-> <<"b">>]}
=============================================================================
