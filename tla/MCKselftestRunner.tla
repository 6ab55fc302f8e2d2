--------------------------- MODULE MCKselftestRunner ---------------------------
EXTENDS KselftestRunner, TLC

\* A pass, the benign -ENOTTY and a failure (-EINVAL).
MCResults == {0, -ENOTTY, -22}

\* A list of three selftests, given to the batch as KselftestCatalog would.
MCLists == {<<1, 2, 3>>}
=============================================================================
