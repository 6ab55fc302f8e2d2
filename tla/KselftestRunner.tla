---------------------------- MODULE KselftestRunner ----------------------------
(***************************************************************************)
(* igt_kselftests() of src/lib/igt_kmod.c (lines 973-1010) with            *)
(* igt_ktest_init/begin/end (876-909, 949-953) and igt_kselftest_execute   *)
(* (911-947): a batch of kernel selftests, each run by loading the test    *)
(* module with "<param>=1 <options>" and removing it again.                *)
(*                                                                         *)
(* The list of selftests is the one KselftestCatalog builds; here it is    *)
(* one of Lists (Kselftests composes the two).  The kernel decides what each run does: the module  *)
(* init returns the selftest's result (or, with a result parameter, loads  *)
(* and publishes it), the run may taint the kernel, and a removal of the   *)
(* module may fail while it is still in use.                               *)
(***************************************************************************)
EXTENDS Integers, Sequences, FiniteSets

CONSTANTS
    Lists,          \* the lists of selftests a batch may be given
    Results,        \* results a selftest can produce: 0, -ENOTTY, failures
    RemoveCanFail,  \* whether kmod_module_remove_module(kmod, 0) may fail
    ResultParams,   \* whether the caller passes a result parameter name
    ReadCanFail     \* whether reading the result attribute may fail

ENOTTY == 25
EEXIST == 17
ENOENT == 2

ASSUME Results \subseteq Int /\ 0 \in Results
ASSUME {RemoveCanFail, ReadCanFail} \subseteq BOOLEAN /\ ResultParams \subseteq BOOLEAN

VARIABLES
    loaded,     \* the test module is loaded
    tainted,    \* igt_kernel_tainted()
    useResult,  \* the result argument is not NULL
    pc,         \* program point of igt_kselftests
    tests,      \* the list of selftests
    verdict,    \* verdict[t]: how dynamic subtest t was reported
    expected    \* expected[t]: the verdict of t's own run, "none" if it did not run

vars == <<loaded, tainted, useResult, pc, tests, verdict, expected>>

\* The selftest the loop is at: one past those already reported.
k == Len(verdict) + 1

\* The verdict a selftest run earns: its result, 0 and -ENOTTY being
\* success, and no taint (spec 4.4 steps 5 and 8).
Earned(r, taints) == IF r \in {0, -ENOTTY} /\ ~taints THEN "pass" ELSE "fail"

\* Lines 927-929 with open_parameters (868-874): err after reading the
\* result attribute, which keeps modprobe's 0 when the parameters
\* directory cannot be opened or the attribute not parsed.
ResultRead(r, read) == IF read THEN r ELSE 0

-----------------------------------------------------------------------------
\* Lines 982-983: igt_ktest_init fails; nothing runs.
InitFailed ==
    /\ pc = "init"
    /\ pc' = "returned"
    /\ UNCHANGED <<loaded, tainted, useResult, tests, verdict, expected>>

\* Lines 985-986 and 896-909: the module is removed by force; unless that
\* worked or it was not loaded, igt_require skips the subtest and every
\* later fixture, igt_ktest_end's included.
Begin ==
    /\ pc = "init"
    /\ \/ /\ loaded' = FALSE
          /\ pc' = "loop"
       \/ /\ loaded
          /\ RemoveCanFail
          /\ pc' = "skipped"
          /\ UNCHANGED loaded
    /\ UNCHANGED <<tainted, useResult, tests, verdict, expected>>

\* Line 920: igt_skip_on(igt_kernel_tainted()); then lines 995-999 stop
\* the batch.
SkipTainted ==
    /\ pc = "loop" /\ k <= Len(tests)
    /\ tainted
    /\ verdict' = Append(verdict, "skip")
    /\ expected' = Append(expected, "none")
    /\ pc' = "end"
    /\ UNCHANGED <<loaded, tainted, useResult, tests>>

Execute ==
    /\ pc = "loop" /\ k <= Len(tests)
    /\ ~tainted
    /\ \E r \in Results, taints \in BOOLEAN, removed \in {TRUE, ~RemoveCanFail},
         read \in {TRUE, ~ReadCanFail} :
          LET probe   == IF loaded THEN -EEXIST
                         ELSE IF useResult THEN 0 ELSE r
              inMem   == loaded \/ probe = 0
              raw     == IF ~loaded /\ useResult THEN ResultRead(r, read) ELSE probe
              err     == IF raw = -ENOTTY THEN 0 ELSE raw
          IN  /\ tainted' = taints
              /\ loaded' = (inMem /\ ~removed)
              /\ verdict' = Append(verdict,
                                IF err # 0 \/ taints THEN "fail" ELSE "pass")
              /\ expected' = Append(expected,
                                IF loaded THEN "none" ELSE Earned(r, taints))
              /\ pc' = IF taints THEN "end" ELSE "loop"
    /\ UNCHANGED <<useResult, tests>>

LoopDone ==
    /\ pc = "loop" /\ k > Len(tests)
    /\ pc' = "end"
    /\ UNCHANGED <<loaded, tainted, useResult, tests, verdict, expected>>

\* Lines 1004-1009: igt_ktest_end removes the module by force, then
\* igt_require(!igt_list_empty(&tests)).
End ==
    /\ pc = "end"
    /\ loaded' = FALSE
    /\ pc' = "done"
    /\ UNCHANGED <<tainted, useResult, tests, verdict, expected>>

\* igt_kselftests has returned.
Finished ==
    /\ pc \in {"done", "skipped", "returned"}
    /\ UNCHANGED vars

\* A batch may start with the module left loaded, or the kernel tainted, by
\* an earlier test.
Init ==
    /\ loaded \in BOOLEAN
    /\ tainted \in BOOLEAN
    /\ useResult \in ResultParams
    /\ pc = "init"
    /\ tests \in Lists
    /\ verdict = <<>>
    /\ expected = <<>>

Next ==
    \/ InitFailed \/ Begin \/ SkipTainted \/ Execute \/ LoopDone \/ End
    \/ Finished

Spec == Init /\ [][Next]_vars

-----------------------------------------------------------------------------
\* Spec 4.4 steps 3-8: each dynamic subtest reports its own selftest's run:
\* pass exactly when that run returned 0 or -ENOTTY and left the kernel
\* untainted.
OwnVerdict ==
    \A t \in 1..Len(verdict) : verdict[t] \in {"pass", "fail"} => verdict[t] = expected[t]
=============================================================================
