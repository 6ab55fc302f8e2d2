------------------------------ MODULE KmodContext ------------------------------
(***************************************************************************)
(* kmod_ctx() of src/lib/igt_kmod.c (lines 61-110): the process-wide       *)
(* libkmod context, built on the first call from IGT_KMOD_DIRNAME and      *)
(* IGT_KMOD_CONFIG_PATHS and returned as it is on every later call.        *)
(*                                                                         *)
(* The value of IGT_KMOD_CONFIG_PATHS is the buffer getenv() returns: a    *)
(* sequence of characters, Sep standing for ':' and NUL for the '\0' the   *)
(* split writes into it.  The split keeps pointers into that buffer, so a  *)
(* config path is the run of characters from its start to the next NUL or  *)
(* the end.                                                                *)
(***************************************************************************)
EXTENDS Integers, Sequences, SequencesExt

CONSTANTS
    Envs,       \* values of IGT_KMOD_CONFIG_PATHS: [set : BOOLEAN, str : Seq]
    NewCanFail  \* whether kmod_new() may return NULL

Sep == ":"
NUL == "nul"

\* The pointer value NULL, as a buffer index.
NULL == 0

ASSUME NewCanFail \in BOOLEAN

VARIABLES
    given,      \* the value the environment held when kmod_ctx read it
    config,     \* the IGT_KMOD_CONFIG_PATHS buffer, NULs written in place
    ctx,        \* the static ctx: whether built, and the config paths kmod_new got
    pc,         \* program point of kmod_ctx
    count,      \* the number of paths counted at lines 80-85
    i,          \* the index of the split loop (line 92)
    p,          \* the pointer p into the buffer, 1-based; NULL is 0
    paths       \* config_paths[0..i-1], as start indices into the buffer

vars == <<given, config, ctx, pc, count, i, p, paths>>

\* strchr(s + from - 1, c): the index of the first c at or after from,
\* NULL when a NUL or the end of the buffer comes first.
StrChr(s, from, c) ==
    LET stop == {j \in from..Len(s) : s[j] \in {c, NUL}}
        first == CHOOSE j \in stop : \A l \in stop : j <= l
    IN  IF stop # {} /\ s[first] = c THEN first ELSE NULL

\* The C string that starts at index from: the characters up to the next
\* NUL or the end of the buffer.
CString(s, from) ==
    LET ends == {j \in from..Len(s) : s[j] = NUL}
        stop == IF ends = {} THEN Len(s) + 1
                ELSE CHOOSE j \in ends : \A l \in ends : j <= l
    IN  SubSeq(s, from, stop - 1)

\* Mutant: the !!strlen() term is missing; only the colons are counted.
CountPathsColonsOnly(s) == Len(SelectSeq(s, LAMBDA c : c = Sep))

\* Lines 80-85: one path for a non-empty string, one more per ':'.
CountPaths(s) ==
    (IF s = <<>> THEN 0 ELSE 1) + Len(SelectSeq(s, LAMBDA c : c = Sep))

-----------------------------------------------------------------------------
\* Lines 68-69: a later call returns the context already built.
Cached ==
    /\ pc = "idle" /\ ctx.built
    /\ UNCHANGED vars

\* Lines 71-85: the first call reads the environment and counts the paths.
\* Without IGT_KMOD_CONFIG_PATHS, config_paths stays NULL.
Start ==
    /\ pc = "idle" /\ ~ctx.built
    /\ \E e \in Envs :
          /\ given' = e
          /\ config' = e
          /\ IF e.set
             THEN /\ count' = CountPaths(e.str)
                  /\ pc' = "split"
             ELSE /\ count' = 0
                  /\ pc' = "new"
    /\ i' = 0 /\ p' = 1 /\ paths' = <<>>
    /\ UNCHANGED ctx

\* Mutant: p is moved two past the separator it cut.
SplitStepPastSep ==
    /\ pc = "split" /\ i < count
    /\ IF p = NULL
       THEN pc' = "abort" /\ UNCHANGED <<given, config, i, p, paths>>
       ELSE LET c == StrChr(config.str, p, Sep)
            IN  /\ paths' = Append(paths, p)
                /\ i' = i + 1
                /\ IF c = NULL
                   THEN p' = NULL /\ UNCHANGED config
                   ELSE /\ config' = [config EXCEPT !.str[c] = NUL]
                        /\ p' = c + 2
                /\ UNCHANGED pc
    /\ UNCHANGED <<given, ctx, count>>

\* Lines 92-98: one iteration of the split; igt_assert(p != NULL) aborts
\* the test when the count was too large.
SplitStep ==
    /\ pc = "split" /\ i < count
    /\ IF p = NULL
       THEN pc' = "abort" /\ UNCHANGED <<given, config, i, p, paths>>
       ELSE LET c == StrChr(config.str, p, Sep)
            IN  /\ paths' = Append(paths, p)
                /\ i' = i + 1
                /\ IF c = NULL
                   THEN p' = NULL /\ UNCHANGED config
                   ELSE /\ config' = [config EXCEPT !.str[c] = NUL]
                        /\ p' = c + 1
                /\ UNCHANGED pc
    /\ UNCHANGED <<given, ctx, count>>

SplitDone ==
    /\ pc = "split" /\ i >= count
    /\ pc' = "new"
    /\ UNCHANGED <<given, config, ctx, count, i, p, paths>>

\* Lines 102-108: kmod_new gets the paths (or NULL), igt_assert aborts the
\* test when it fails, and the context is kept for later calls.
KmodNew ==
    /\ pc = "new"
    /\ \/ /\ ctx' = IF config.set
                     THEN [built |-> TRUE,
                           paths |-> [n \in 1..Len(paths) |->
                                        CString(config.str, paths[n])]]
                     ELSE [built |-> TRUE, paths |-> "default"]
          /\ pc' = "idle"
       \/ /\ NewCanFail
          /\ pc' = "abort"
          /\ UNCHANGED ctx
    /\ UNCHANGED <<given, config, count, i, p, paths>>

\* igt_assert failed: the test stops.
Aborted ==
    /\ pc = "abort"
    /\ UNCHANGED vars

Init ==
    /\ given = [set |-> FALSE, str |-> <<>>]
    /\ config = [set |-> FALSE, str |-> <<>>]
    /\ ctx = [built |-> FALSE, paths |-> <<>>]
    /\ pc = "idle"
    /\ count = 0 /\ i = 0 /\ p = NULL
    /\ paths = <<>>

Next == Cached \/ Start \/ SplitStep \/ SplitDone \/ KmodNew \/ Aborted

Spec == Init /\ [][Next]_vars

-----------------------------------------------------------------------------
TypeOK ==
    /\ pc \in {"idle", "split", "new", "abort"}
    /\ count \in Nat /\ i \in 0..count
    /\ p \in 0..(Len(config.str) + 1)
    /\ Len(config.str) = Len(given.str)

\* Reference: the colon-separated segments of s, in order.
Segments(s) ==
    LET cuts == <<0>> \o SelectSeq([j \in 1..Len(s) |-> IF s[j] = Sep THEN j ELSE 0],
                                   LAMBDA j : j > 0) \o <<Len(s) + 1>>
    IN  [n \in 1..(Len(cuts) - 1) |-> SubSeq(s, cuts[n] + 1, cuts[n + 1] - 1)]

\* Spec 4.1 and section 6: the config paths kmod_new gets are the segments
\* of IGT_KMOD_CONFIG_PATHS between its colons, in order.  The count of
\* lines 80-85 must match the pointers the loop of lines 92-98 finds, and
\* every ':' must end the path before it.
PathsAreSegments ==
    (ctx.built /\ given.set /\ given.str # <<>>)
        => ctx.paths = Segments(given.str)

\* Spec 4.1: empty segments in IGT_KMOD_CONFIG_PATHS are illegal and must
\* raise an error rather than be passed on; kmod_ctx must not build a
\* context from such a list.
EmptySegmentRejected ==
    (ctx.built /\ given.set) => \A n \in 1..Len(ctx.paths) : ctx.paths[n] # <<>>

====
