------------------------------ MODULE Kselftests ------------------------------
(***************************************************************************)
(* igt_kselftests() of src/lib/igt_kmod.c (lines 973-1010) as the          *)
(* composition of the components it calls, in its order:                   *)
(*   igt_ktest_init        -> kmod_module_new_from_name(kmod_ctx(), ...),  *)
(*                            which builds the context on the first call;  *)
(*   igt_ktest_begin       -> the forced removal of the test module;       *)
(*   igt_kselftest_get_tests -> the catalog of the module's selftests;     *)
(*   the loop              -> one igt_kselftest_execute per selftest of    *)
(*                            that list, in its order.                     *)
(* Each component keeps its own variables; the catalog's list tests is the *)
(* one the runner iterates over.  After a failed begin the code still      *)
(* builds the list, but no subtest or fixture uses it, so the catalog only *)
(* runs on the path that reaches the loop.                                 *)
(***************************************************************************)
EXTENDS Integers, Sequences

CONSTANTS Envs, NewCanFail, Digits, Letters, Infos, Filters,
          Results, RemoveCanFail, ResultParams, ReadCanFail

VARIABLES
    given, config, ctx, ctxPc, count, ctxI, p, paths,   \* kmod_ctx
    info, filter, i, tests, dropped,                    \* the catalog
    loaded, tainted, useResult, pc, verdict, expected   \* the runner

ctxVars == <<given, config, ctx, ctxPc, count, ctxI, p, paths>>
catVars == <<info, filter, i, dropped>>
runVars == <<loaded, tainted, useResult, pc, verdict, expected>>
vars == <<ctxVars, catVars, tests, runVars>>

Ctx == INSTANCE KmodContext WITH pc <- ctxPc, i <- ctxI
Cat == INSTANCE KselftestCatalog
Run == INSTANCE KselftestRunner WITH Lists <- {<<>>}

-----------------------------------------------------------------------------
\* Lines 982 and 885: igt_ktest_init looks the module up in kmod_ctx(),
\* whose first call builds the context (or aborts the test).
CtxStep ==
    /\ pc = "init" /\ ~ctx.built
    /\ Ctx!Start \/ Ctx!SplitStep \/ Ctx!SplitDone \/ Ctx!KmodNew
    /\ UNCHANGED <<catVars, tests, runVars>>

\* Lines 982-986: the rest of igt_ktest_init, then igt_ktest_begin.
KtestStart ==
    /\ ctx.built /\ ctxPc = "idle"
    /\ Run!InitFailed \/ Run!Begin
    /\ UNCHANGED <<ctxVars, catVars>>

\* Line 988: igt_kselftest_get_tests, one modinfo entry per step.
Discover ==
    /\ pc = "loop"
    /\ Cat!SkipEntry \/ Cat!AllocFailed \/ Cat!ParseEntry
    /\ UNCHANGED <<ctxVars, runVars>>

\* Lines 989-1010: the loop over the complete list, igt_ktest_end, the
\* return.
Batch ==
    /\ pc # "loop" \/ Cat!Listed
    /\ Run!SkipTainted \/ Run!Execute \/ Run!LoopDone \/ Run!End \/ Run!Finished
    /\ UNCHANGED <<ctxVars, catVars>>

\* igt_assert in kmod_ctx failed: the test has stopped.
CtxAborted ==
    /\ Ctx!Aborted
    /\ UNCHANGED <<catVars, tests, runVars>>

Init == Ctx!Init /\ Cat!Init /\ Run!Init

Next == CtxStep \/ KtestStart \/ Discover \/ Batch \/ CtxAborted

Spec == Init /\ [][Next]_vars

-----------------------------------------------------------------------------
TypeOK == Ctx!TypeOK /\ Cat!TypeOK

\* The config paths the batch's context was built with are the segments of
\* IGT_KMOD_CONFIG_PATHS (KmodContext).
PathsAreSegments == Ctx!PathsAreSegments

\* The list the batch runs is the stable sort by number of the selected
\* selftest parameters (KselftestCatalog).
DiscoveryOrder == Cat!DiscoveryOrder

=============================================================================
