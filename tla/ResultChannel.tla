----------------------------- MODULE ResultChannel -----------------------------
(***************************************************************************)
(* What the KUnit result path promises (spec sections 3, 4.5 and 5), with  *)
(* threads, the mutex and the kernel log abstracted away: the results of   *)
(* the module's report are handed over in the order the module wrote them, *)
(* the consumer takes them in that order, the producer may stop at any     *)
(* time (end marker, bad line, read error), and every result handed over   *)
(* is eventually taken.                                                    *)
(***************************************************************************)
LOCAL INSTANCE Integers
LOCAL INSTANCE Sequences

CONSTANT Reports    \* the result sequences a module's report can carry

VARIABLES
    report,     \* the results the module wrote, once it has been loaded
    sent,       \* the results handed over so far
    taken,      \* the results the consumer has taken
    open        \* the producer may still hand over results

vars == <<report, sent, taken, open>>

Init ==
    /\ report = <<>>
    /\ sent = <<>>
    /\ taken = <<>>
    /\ open = TRUE

\* The module is loaded and writes its report.
Write ==
    /\ report = <<>>
    /\ report' \in Reports
    /\ UNCHANGED <<sent, taken, open>>

\* The producer hands over the next result of the report.
Produce ==
    /\ open
    /\ Len(sent) < Len(report)
    /\ sent' = Append(sent, report[Len(sent) + 1])
    /\ UNCHANGED <<report, taken, open>>

\* The producer stops; nothing more is handed over.
Close ==
    /\ open
    /\ open' = FALSE
    /\ UNCHANGED <<report, sent, taken>>

\* The consumer takes the oldest result not yet taken.
Take ==
    /\ Len(taken) < Len(sent)
    /\ taken' = Append(taken, sent[Len(taken) + 1])
    /\ UNCHANGED <<report, sent, open>>

Next == Write \/ Produce \/ Close \/ Take

Spec == Init /\ [][Next]_vars /\ WF_vars(Take)
================================================================================
