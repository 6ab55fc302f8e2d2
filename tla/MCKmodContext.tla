---------------------------- MODULE MCKmodContext ----------------------------
EXTENDS KmodContext, TLC

\* Every value of up to four characters over two path letters and ':'.
MCEnvs == {[set |-> FALSE, str |-> <<>>]}
          \cup {[set |-> TRUE, str |-> s] : s \in SeqOf({"a", "b", Sep}, 4)}
=============================================================================
