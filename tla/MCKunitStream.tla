---------------------------- MODULE MCKunitStream ----------------------------
(***************************************************************************)
(* Instantiates KunitStream for TLC: a module with up to three cases, and  *)
(* a log that still holds the report of an earlier run.                    *)
(***************************************************************************)
EXTENDS KunitStream, TLC

CONSTANTS o0, o1, o2, o3

\* A complete report of three cases, a report with no case, and reports
\* the parser rejects after one and after two results, so that several
\* results can wait in the list while the main thread drains it.
MCOutputs == {<<Result(o1), Result(o2), Result(o3), EndMark>>, <<EndMark>>,
              <<Result(o1), BadLine>>, <<Result(o1), Result(o2), BadLine>>}

\* An earlier run's complete report, still in /dev/kmsg.
MCStale == <<Result(o0), EndMark>>

\* The join of a thread never created may come back with either status.
MCStopStatus == {0, 1}

=============================================================================
