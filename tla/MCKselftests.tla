----------------------------- MODULE MCKselftests -----------------------------
EXTENDS Kselftests, SequencesExt, TLC

MCEnvs == {[set |-> FALSE, str |-> <<>>]}
          \cup {[set |-> TRUE, str |-> s] : s \in SeqOf({"a", ":"}, 3)}

MCDigits == ("0" :> 0) @@ ("1" :> 1)
MCLetters == {"a", "b"}

\* Parameter names with ties on 0 and on 1 and an unnumbered name.
WellFormed == {<<"1", "_", "_", "a">>, <<"1", "_", "_", "b">>,
               <<"0", "_", "_", "b">>, <<"a">>}
SelftestParam(b) == [key |-> "parmtype", pre |-> TRUE, body |-> b]
Others == {[key |-> "other", pre |-> TRUE, body |-> <<"a">>]}
MCInfos == SeqOf({SelftestParam(b) : b \in WellFormed} \cup Others, 3)
MCFilters == {[null |-> TRUE], [null |-> FALSE, str |-> <<"a">>]}

\* A pass, the benign -ENOTTY and a failure (-EINVAL).
MCResults == {0, -25, -22}
=============================================================================
