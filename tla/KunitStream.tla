------------------------------ MODULE KunitStream ----------------------------
(***************************************************************************)
(* One run of __igt_kunit() (src/lib/igt_kmod.c, lines 757-849): the main  *)
(* thread loads a KUnit test module and drains the result list that the   *)
(* KTAP parser thread fills from /dev/kmsg.                                *)
(*                                                                         *)
(* The parser thread (ktap_parser_start/ktap_parser_stop, lib/igt_ktap.c,  *)
(* outside src/) is modelled from the spec, section 4.5: it tails the log  *)
(* from the position the main thread seeked to, appends each result to the *)
(* list under the mutex, and clears still_running when it meets the end    *)
(* marker of the report, a malformed report or an unrecoverable read       *)
(* error.  ktap_parser_stop joins the thread and returns its status; it    *)
(* does not cancel it (spec, section 5).                                   *)
(*                                                                         *)
(* The kernel log is a sequence of records: a test result, the end marker  *)
(* of the report, or a line the parser cannot parse.  Loading the module   *)
(* runs its tests: the kernel appends the module's report to the log while *)
(* the load call is in progress.                                           *)
(***************************************************************************)
EXTENDS Integers, Sequences, SequencesExt

CONSTANTS
    Outputs,    \* the reports a module load can write (sequences of records)
    Stale,      \* records already in the log before the run (earlier runs)
    StopStatus  \* statuses ktap_parser_stop may return for a thread never started

\* IGT exit codes (igt_core.h).
IGT_EXIT_SUCCESS == 0
IGT_EXIT_SKIP == 77
IGT_EXIT_INVALID == 79
IGT_EXIT_FAILURE == 98
IGT_EXIT_ABORT == 112

ExitCodes == {IGT_EXIT_SUCCESS, IGT_EXIT_SKIP, IGT_EXIT_INVALID,
              IGT_EXIT_FAILURE, IGT_EXIT_ABORT}

Result(o) == [kind |-> "result", out |-> o]
EndMark == [kind |-> "end"]
BadLine == [kind |-> "bad"]

\* The outcomes a sequence of records carries, in order.
Results(recs) == [i \in 1..Len(SelectSeq(recs, LAMBDA r : r.kind = "result")) |->
                    SelectSeq(recs, LAMBDA r : r.kind = "result")[i].out]

VARIABLES
    klog,       \* /dev/kmsg contents
    emit,       \* records the module's init has still to write
    output,     \* the report chosen by this run's module load (history)
    rpos,       \* read offset of the kmsg FILE: records consumed so far
    queue,      \* results->head .. tail: outcomes not yet reported
    running,    \* results->still_running
    parser,     \* parser thread: "none", "run" or "exit"
    pstatus,    \* status the parser thread leaves for ktap_parser_stop
    pc,         \* main thread program point
    kmsgOpen,   \* tst.kmsg >= 0
    modLoaded,  \* the test module is loaded
    reported,   \* outcomes passed to igt_dynamic, in order (history)
    ret         \* the subtest's result: ret of __igt_kunit or the igt_fail/skip code

vars == <<klog, emit, output, rpos, queue, running, parser, pstatus, pc,
          kmsgOpen, modLoaded, reported, ret>>

logVars == <<klog, emit, output>>
parserVars == <<rpos, queue, running, parser, pstatus>>

-----------------------------------------------------------------------------
(* Main thread.                                                            *)

\* Lines 770-773: igt_ktest_init fails; return IGT_EXIT_INVALID.
InitFailed ==
    /\ pc = "init"
    /\ pc' = "done" /\ UNCHANGED ret
    /\ UNCHANGED <<logVars, parserVars, kmsgOpen, modLoaded, reported>>

\* Lines 775-780 and igt_ktest_begin (896-909): remove the module by force;
\* igt_require skips the subtest unless that worked or it was not loaded;
\* then open /dev/kmsg, which may fail.
KtestBegin ==
    /\ pc = "init"
    /\ \/ /\ pc' = "seek" /\ modLoaded' = FALSE
          /\ kmsgOpen' \in BOOLEAN
          /\ UNCHANGED ret
       \/ /\ modLoaded
          /\ pc' = "done" /\ ret' = IGT_EXIT_SKIP
          /\ UNCHANGED <<kmsgOpen, modLoaded>>
    /\ UNCHANGED <<logVars, parserVars, reported>>

\* Lines 782-797: without /dev/kmsg, or when lseek or fdopen fails, jump
\* to the unload label.
KmsgUnusable ==
    /\ pc = "seek"
    /\ pc' = "unload"
    /\ UNCHANGED <<logVars, parserVars, kmsgOpen, modLoaded, reported, ret>>

\* Mutant: the lseek of line 787 is left out.
SeekEndMissing ==
    /\ pc = "seek"
    /\ kmsgOpen
    /\ pc' = "kunit"
    /\ UNCHANGED <<logVars, parserVars, kmsgOpen, modLoaded, reported, ret>>

\* Line 787: seek to the end of the log, dropping what earlier runs wrote.
SeekEnd ==
    /\ pc = "seek"
    /\ kmsgOpen
    /\ rpos' = Len(klog)
    /\ pc' = "kunit"
    /\ UNCHANGED <<logVars, queue, running, parser, pstatus, kmsgOpen,
                   modLoaded, reported, ret>>

\* Lines 800-806: load kunit; igt_fail leaves the subtest at once.
LoadKunit ==
    /\ pc = "kunit"
    /\ \/ pc' = "start" /\ UNCHANGED ret
       \/ pc' = "done" /\ ret' = IGT_EXIT_FAILURE
    /\ UNCHANGED <<logVars, parserVars, kmsgOpen, modLoaded, reported>>

\* Line 808: ktap_parser_start creates the thread with still_running set.
StartParser ==
    /\ pc = "start"
    /\ parser' = "run" /\ running' = TRUE
    /\ pc' = "load"
    /\ UNCHANGED <<logVars, rpos, queue, pstatus, kmsgOpen, modLoaded,
                   reported, ret>>

\* Line 810: igt_kmod_load runs the module's init, which writes its report.
LoadModule ==
    /\ pc = "load"
    /\ \E o \in Outputs : emit' = o /\ output' = o
    /\ pc' = "loading"
    /\ UNCHANGED <<klog, parserVars, kmsgOpen, modLoaded, reported, ret>>

LoadReturns ==
    /\ pc = "loading"
    /\ emit = <<>>
    /\ modLoaded' = TRUE
    /\ pc' = "loop"
    /\ UNCHANGED <<logVars, parserVars, kmsgOpen, reported, ret>>

\* Lines 810-814: the load fails; stop the parser, then igt_fail.
LoadFails ==
    /\ pc = "load"
    /\ pc' = "stopfail"
    /\ UNCHANGED <<logVars, parserVars, kmsgOpen, modLoaded, reported, ret>>

StopAfterLoadFailure ==
    /\ pc = "stopfail"
    /\ parser = "exit"
    /\ pc' = "done" /\ ret' = IGT_EXIT_FAILURE
    /\ UNCHANGED <<logVars, parserVars, kmsgOpen, modLoaded, reported>>

\* Line 816, first operand: READ_ONCE(results->still_running).
CheckRunning ==
    /\ pc = "loop"
    /\ pc' = IF running THEN "peek" ELSE "checkhead"
    /\ UNCHANGED <<logVars, parserVars, kmsgOpen, modLoaded, reported, ret>>

\* Mutant: the loop runs "while (still_running)", without the head test.
CheckHeadSkipped ==
    /\ pc = "checkhead"
    /\ pc' = "unload"
    /\ UNCHANGED <<logVars, parserVars, kmsgOpen, modLoaded, reported, ret>>

\* Line 816, second operand: READ_ONCE(results->head) != NULL.
CheckHead ==
    /\ pc = "checkhead"
    /\ pc' = IF queue # <<>> THEN "peek" ELSE "unload"
    /\ UNCHANGED <<logVars, parserVars, kmsgOpen, modLoaded, reported, ret>>

\* Mutant: the loop waits for a head without going back to the test of
\* still_running.
PeekUntilHead ==
    /\ pc = "peek"
    /\ pc' = IF queue # <<>> THEN "pop" ELSE "peek"
    /\ UNCHANGED <<logVars, parserVars, kmsgOpen, modLoaded, reported, ret>>

\* Line 818: the unlocked look at the head inside the loop.
Peek ==
    /\ pc = "peek"
    /\ pc' = IF queue # <<>> THEN "pop" ELSE "loop"
    /\ UNCHANGED <<logVars, parserVars, kmsgOpen, modLoaded, reported, ret>>

\* Lines 819-832, under results->mutex: report the head as a dynamic
\* subtest, unlink it and free it.
Pop ==
    /\ pc = "pop"
    /\ reported' = Append(reported, Head(queue))
    /\ queue' = Tail(queue)
    /\ pc' = "loop"
    /\ UNCHANGED <<logVars, rpos, running, parser, pstatus, kmsgOpen,
                   modLoaded, ret>>

\* Lines 836-839: igt_ktest_end removes the module by force and closes
\* /dev/kmsg; igt_ktest_fini frees the name.
Unload ==
    /\ pc = "unload"
    /\ modLoaded' = FALSE /\ kmsgOpen' = FALSE
    /\ pc' = "stop"
    /\ UNCHANGED <<logVars, parserVars, reported, ret>>

\* Mutant: the parser status is returned as it is, not as IGT_EXIT_ABORT.
StopParserRawStatus ==
    /\ pc = "stop"
    /\ \/ parser = "exit"
       \/ parser = "none"
    /\ \E st \in IF parser = "exit" THEN {pstatus} ELSE StopStatus :
          ret' = IF st # 0 THEN st ELSE IGT_EXIT_SUCCESS
    /\ pc' = "done"
    /\ UNCHANGED <<logVars, parserVars, kmsgOpen, modLoaded, reported>>

\* Lines 841-848: ktap_parser_stop joins the parser; a non-zero status is
\* IGT_EXIT_ABORT, zero is igt_success.  The label is also reached before
\* the parser was started (lines 784-796); what the join of a thread never
\* created returns is not defined.
StopParser ==
    /\ pc = "stop"
    /\ \/ parser = "exit"
       \/ parser = "none"
    /\ \E st \in IF parser = "exit" THEN {pstatus} ELSE StopStatus :
          ret' = IF st # 0 THEN IGT_EXIT_ABORT ELSE IGT_EXIT_SUCCESS
    /\ pc' = "done"
    /\ UNCHANGED <<logVars, parserVars, kmsgOpen, modLoaded, reported>>

-----------------------------------------------------------------------------
(* Kernel and parser thread.                                               *)

\* The module's init writes the next record of its report.
KernelEmit ==
    /\ emit # <<>>
    /\ klog' = Append(klog, Head(emit))
    /\ emit' = Tail(emit)
    /\ UNCHANGED <<output, parserVars, pc, kmsgOpen, modLoaded, reported,
                   ret>>

\* The parser consumes the next record of the log.
ParserRead ==
    /\ parser = "run"
    /\ rpos < Len(klog)
    /\ LET rec == klog[rpos + 1]
       IN /\ rpos' = rpos + 1
          /\ queue' = IF rec.kind = "result" THEN Append(queue, rec.out)
                                             ELSE queue
          /\ running' = (rec.kind = "result")
          /\ parser' = IF rec.kind = "result" THEN "run" ELSE "exit"
          /\ pstatus' = IF rec.kind = "bad" THEN 1 ELSE 0
    /\ UNCHANGED <<logVars, pc, kmsgOpen, modLoaded, reported, ret>>

\* An unrecoverable read error of /dev/kmsg ends the parser with an error.
ParserReadError ==
    /\ parser = "run"
    /\ running' = FALSE /\ parser' = "exit" /\ pstatus' = 1
    /\ UNCHANGED <<logVars, rpos, queue, pc, kmsgOpen, modLoaded, reported,
                   ret>>

\* The subtest is over.
Done ==
    /\ pc = "done"
    /\ UNCHANGED vars

-----------------------------------------------------------------------------
Init ==
    /\ klog = Stale /\ emit = <<>> /\ output = <<>>
    /\ rpos = 0 /\ queue = <<>> /\ running = FALSE
    /\ parser = "none" /\ pstatus = 0
    /\ pc = "init"
    /\ kmsgOpen = FALSE
    /\ modLoaded \in BOOLEAN
    /\ reported = <<>>
    /\ ret = IGT_EXIT_INVALID

Main ==
    \/ InitFailed \/ KtestBegin \/ KmsgUnusable \/ SeekEnd \/ LoadKunit
    \/ StartParser \/ LoadModule \/ LoadReturns \/ LoadFails
    \/ StopAfterLoadFailure \/ CheckRunning \/ CheckHead \/ Peek \/ Pop
    \/ Unload \/ StopParser

Next ==
    \/ InitFailed \/ KtestBegin \/ KmsgUnusable \/ SeekEnd \/ LoadKunit
    \/ StartParser \/ LoadModule \/ LoadReturns \/ LoadFails
    \/ StopAfterLoadFailure \/ CheckRunning \/ CheckHead \/ Peek \/ Pop
    \/ Unload \/ StopParser
    \/ KernelEmit \/ ParserRead \/ ParserReadError
    \/ Done

\* Both threads are scheduled and the kernel finishes writing the report of
\* a module it is initialising.  A read error is not owed.
Spec == Init /\ [][Next]_vars
        /\ WF_vars(Main) /\ WF_vars(ParserRead) /\ WF_vars(KernelEmit)

-----------------------------------------------------------------------------
TypeOK ==
    /\ rpos \in 0..Len(klog)
    /\ running \in BOOLEAN
    /\ parser \in {"none", "run", "exit"}
    /\ pc \in {"init", "seek", "kunit", "start", "load", "loading", "stopfail",
              "loop", "checkhead", "peek", "pop", "unload", "stop", "done"}
    /\ kmsgOpen \in BOOLEAN /\ modLoaded \in BOOLEAN
    /\ ret \in ExitCodes

\* The result path seen as a ResultChannel: what was reported followed by
\* what is queued is what the parser handed over, what was reported is what
\* the main thread took, and the channel is open until the parser exits.
Channel == INSTANCE ResultChannel
               WITH Reports <- {Results(o) : o \in Outputs},
                    report <- Results(output),
                    sent <- reported \o queue,
                    taken <- reported,
                    open <- parser # "exit"

\* Spec 3, 4.5 and 5: __igt_kunit with its parser thread implements the
\* ResultChannel.  Every dynamic subtest reports the next result this run's
\* module wrote, in order, with no loss, reordering, duplicate or result of
\* an earlier run (the seek of line 787, the parser's appends and the pop
\* of lines 828-830 together), and every result the parser queued is
\* eventually reported by the drain loop of line 816.
ChannelRefinement == Channel!Spec

\* The main thread has left the drain loop of line 816.
LeftLoop ==
    \/ pc \in {"unload", "stop"}
    \/ pc = "done" /\ ret \in {IGT_EXIT_ABORT, IGT_EXIT_SUCCESS}

\* Spec 3, ResultQueue: once still_running is false and the list is empty
\* no outcome will arrive.  So when the loop of line 816 ends after the
\* parser ran, every outcome the parser queued has been reported: the
\* loop does not stop on a cleared still_running with results left.
NothingLost == (LeftLoop /\ parser # "none") => queue = <<>>

\* Once the module is loaded and the drain loop entered, the subtest ends:
\* the report of a module that loaded always ends with the end marker or a
\* line the parser rejects, and either stops the parser.
Finishes == (pc = "loop") ~> (pc = "done")

\* The comment of igt_kunit (line 748-750) and spec 4.5 (Init: "fail fast
\* if unavailable"): a KUnit subtest succeeds only after the test module
\* was loaded and all of its results were reported.
SuccessMeansComplete ==
    (pc = "done" /\ ret = IGT_EXIT_SUCCESS) => (output # <<>> /\ reported = Results(output))

=============================================================================
