------------------------------ MODULE KmodUnload ------------------------------
(***************************************************************************)
(* igt_kmod_unload() and its recursive helper igt_kmod_unload_r() of       *)
(* src/lib/igt_kmod.c, run against a kernel whose module graph other       *)
(* subsystems change concurrently.                                         *)
(*                                                                         *)
(* The recursion is an explicit call stack of frames, one per active call  *)
(* of igt_kmod_unload_r.  A frame keeps the holder list it read on entry   *)
(* (kmod_module_get_holders, never re-read), the holders still to visit,   *)
(* the local err and the retry counters.  The kernel side keeps, per       *)
(* module, its init state and its count of in-flight references.           *)
(* delete_module() answers as the kernel does: -ENOENT for a module that   *)
(* is not loaded, -EAGAIN (EWOULDBLOCK) while another module holds it or a *)
(* reference is held, -EBUSY while it initialises or when it has no exit   *)
(* function.  Third parties may load, unload and reference modules at any  *)
(* point of the walk, within a bounded budget.                             *)
(***************************************************************************)
EXTENDS Integers, Sequences, SequencesExt, FiniteSets

CONSTANTS
    Modules,    \* kernel modules, loadable or builtin
    Deps,       \* Deps[h]: the modules h uses; a loaded h holds each of them
    Builtin,    \* modules compiled into the kernel (KMOD_MODULE_BUILTIN)
    NoExit,     \* modules without an exit function: delete_module -> -EBUSY
    MaxTries,   \* MAX_TRIES, line 257
    MaxPolls,   \* polls of igt_wait(..., 10000, 100) before it times out
    MaxRefs,    \* bound on in-flight references to one module
    EnvBudget,  \* bound on third-party loads, unloads and reference takes
    UninitErr   \* values the uninitialised err (line 260) can hold at line 275

ASSUME Deps \in [Modules -> SUBSET (Modules \ Builtin)]
ASSUME \A m \in Builtin : Deps[m] = {}
ASSUME NoExit \subseteq Modules \ Builtin
ASSUME MaxTries \in Nat \ {0} /\ MaxPolls \in Nat /\ MaxRefs \in Nat
ASSUME UninitErr \subseteq Int /\ UninitErr # {}

\* errno values returned negated by libkmod and igt_wait.
ENOENT == 2
EAGAIN == 11
EBUSY == 16
ETIMEDOUT == 110

InitStates == {"NotLoaded", "Coming", "Live", "Builtin"}

VARIABLES
    state,      \* state[m]: kmod_module_get_initstate as the kernel reports it
    refs,       \* refs[m]: in-flight references (open fds, pending work)
    stack,      \* active calls of igt_kmod_unload_r, innermost last
    target,     \* mod_name passed to igt_kmod_unload
    returned,   \* igt_kmod_unload has returned
    ret,        \* its return value, once returned
    budget,     \* third-party events left
    removed     \* history: the modules this call's removals took out

vars == <<state, refs, stack, target, returned, ret, budget, removed>>

Loaded(m) == state[m] \in {"Coming", "Live"}

\* kmod_module_get_holders (line 266): the loaded modules that use m.
Holders(m) == {h \in Modules : m \in Deps[h] /\ Loaded(h)}

\* A fresh activation of igt_kmod_unload_r(m).  errSet = FALSE is the
\* uninitialised err of line 260.
NewFrame(m) == [mod |-> m, pc |-> "enter", snap |-> <<>>, todo |-> <<>>,
                ok |-> {}, err |-> 0, errSet |-> FALSE,
                polls |-> 0, tries |-> 0, slept |-> 0]

Top == stack[Len(stack)]

SetTop(f) == stack' = [stack EXCEPT ![Len(stack)] = f]

\* The innermost active call is at program point pc.
At(pc) == stack # <<>> /\ Top.pc = pc

\* The frame leaves with return value e (the "return err" statements).
Finish(e) == SetTop([Top EXCEPT !.pc = "ret", !.err = e, !.errSet = TRUE])

(***************************************************************************)
(* What delete_module(2) answers to kmod_module_remove_module(kmod, 0) at  *)
(* line 289, in the kernel's order of checks.                              *)
(***************************************************************************)
RemoveResult(m) ==
    CASE ~Loaded(m)           -> -ENOENT
      [] Holders(m) # {}      -> -EAGAIN
      [] state[m] = "Coming"  -> -EBUSY
      [] m \in NoExit         -> -EBUSY
      [] refs[m] > 0          -> -EAGAIN
      [] OTHER                -> 0

-----------------------------------------------------------------------------
(* The walker: one action per step of igt_kmod_unload_r.                   *)

\* Line 263: a builtin module cannot be removed; report success.
EnterBuiltin ==
    /\ At("enter")
    /\ state[Top.mod] = "Builtin"
    /\ Finish(0)
    /\ UNCHANGED <<state, refs, target, returned, ret, budget, removed>>

\* Line 266: read the holder list once, in the order sysfs lists it.
GetHolders ==
    /\ At("enter")
    /\ state[Top.mod] # "Builtin"
    /\ \E order \in SetToSeqs(Holders(Top.mod)) :
          SetTop([Top EXCEPT !.pc = "holders", !.snap = order, !.todo = order])
    /\ UNCHANGED <<state, refs, target, returned, ret, budget, removed>>

\* Lines 267-269: unload the next holder of the snapshot first.
CallHolder ==
    /\ At("holders")
    /\ ~(Top.errSet /\ Top.err < 0)
    /\ Top.todo # <<>>
    /\ stack' = Append([stack EXCEPT ![Len(stack)].todo = Tail(@)],
                       NewFrame(Head(Top.todo)))
    /\ UNCHANGED <<state, refs, target, returned, ret, budget, removed>>

\* Lines 271-276: the first failing holder aborts the walk of this module.
HolderFailed ==
    /\ At("holders")
    /\ Top.errSet /\ Top.err < 0
    /\ Finish(Top.err)
    /\ UNCHANGED <<state, refs, target, returned, ret, budget, removed>>

\* Mutant: the err < 0 test after the holder loop is dropped, so a failed
\* holder does not stop the removal of the module it holds.
HoldersDoneIgnoringErr ==
    /\ At("holders")
    /\ Top.todo = <<>>
    /\ \E e \in IF Top.errSet THEN {Top.err} ELSE UninitErr :
          SetTop([Top EXCEPT !.pc = IF state[Top.mod] = "Coming"
                                  THEN "wait" ELSE "remove"])
    /\ UNCHANGED <<state, refs, target, returned, ret, budget, removed>>

\* Line 275 after the loop, then line 278.  With no holder visited, err is
\* the uninitialised value of line 260: any value the build leaves there.
HoldersDone ==
    /\ At("holders")
    /\ ~(Top.errSet /\ Top.err < 0)
    /\ Top.todo = <<>>
    /\ \E e \in IF Top.errSet THEN {Top.err} ELSE UninitErr :
          IF e < 0
          THEN Finish(e)
          ELSE SetTop([Top EXCEPT !.pc = IF state[Top.mod] = "Coming"
                                          THEN "wait" ELSE "remove"])
    /\ UNCHANGED <<state, refs, target, returned, ret, budget, removed>>

\* Mutant: a wait without a deadline; the poll leaves everything as it was.
WaitPollNoDeadline ==
    /\ At("wait")
    /\ state[Top.mod] = "Coming"
    /\ Top.polls < MaxPolls
    /\ SetTop(Top)
    /\ UNCHANGED <<state, refs, target, returned, ret, budget, removed>>

\* Line 280: igt_wait polls every 100ms while the module is COMING.
WaitPoll ==
    /\ At("wait")
    /\ state[Top.mod] = "Coming"
    /\ Top.polls < MaxPolls
    /\ SetTop([Top EXCEPT !.polls = @ + 1])
    /\ UNCHANGED <<state, refs, target, returned, ret, budget, removed>>

WaitDone ==
    /\ At("wait")
    /\ state[Top.mod] # "Coming"
    /\ SetTop([Top EXCEPT !.pc = "remove"])
    /\ UNCHANGED <<state, refs, target, returned, ret, budget, removed>>

\* Lines 281-285: the wait timed out.
WaitTimeout ==
    /\ At("wait")
    /\ state[Top.mod] = "Coming"
    /\ Top.polls = MaxPolls
    /\ Finish(-ETIMEDOUT)
    /\ UNCHANGED <<state, refs, target, returned, ret, budget, removed>>

\* Mutant: the loop runs tries <= MAX_TRIES, one attempt too many.
RemoveAttemptOffByOne ==
    /\ At("remove")
    /\ LET m    == Top.mod
           r    == RemoveResult(m)
           busy == r \in {-EBUSY, -EAGAIN}
           f    == [Top EXCEPT !.tries = @ + 1,
                               !.slept = IF busy /\ Top.tries < MaxTries
                                         THEN @ + 1 ELSE @]
       IN /\ state' = IF r = 0 THEN [state EXCEPT ![m] = "NotLoaded"]
                               ELSE state
          /\ removed' = IF r = 0 THEN removed \cup {m} ELSE removed
          /\ IF ~busy \/ f.tries = MaxTries + 1
             THEN SetTop([f EXCEPT !.pc = "ret", !.err = r, !.errSet = TRUE])
             ELSE SetTop(f)
    /\ UNCHANGED <<refs, target, returned, ret, budget>>

\* Mutant: the "if (tries < MAX_TRIES - 1)" guard of the sleep is dropped.
RemoveAttemptAlwaysSleeps ==
    /\ At("remove")
    /\ LET m    == Top.mod
           r    == RemoveResult(m)
           busy == r \in {-EBUSY, -EAGAIN}
           f    == [Top EXCEPT !.tries = @ + 1,
                               !.slept = IF busy THEN @ + 1 ELSE @]
       IN /\ state' = IF r = 0 THEN [state EXCEPT ![m] = "NotLoaded"]
                               ELSE state
          /\ removed' = IF r = 0 THEN removed \cup {m} ELSE removed
          /\ IF ~busy \/ f.tries = MaxTries
             THEN SetTop([f EXCEPT !.pc = "ret", !.err = r, !.errSet = TRUE])
             ELSE SetTop(f)
    /\ UNCHANGED <<refs, target, returned, ret, budget>>

\* Mutant: -ENOENT from the removal counts as success, as spec 4.2 reads.
RemoveAttemptEnoentOk ==
    /\ At("remove")
    /\ LET m    == Top.mod
           r    == IF RemoveResult(m) = -ENOENT THEN 0 ELSE RemoveResult(m)
           busy == r \in {-EBUSY, -EAGAIN}
           f    == [Top EXCEPT !.tries = @ + 1,
                               !.slept = IF busy /\ Top.tries < MaxTries - 1
                                         THEN @ + 1 ELSE @]
       IN /\ state' = IF r = 0 THEN [state EXCEPT ![m] = "NotLoaded"]
                               ELSE state
          /\ removed' = IF r = 0 THEN removed \cup {m} ELSE removed
          /\ IF ~busy \/ f.tries = MaxTries
             THEN SetTop([f EXCEPT !.pc = "ret", !.err = r, !.errSet = TRUE])
             ELSE SetTop(f)
    /\ UNCHANGED <<refs, target, returned, ret, budget>>

\* Lines 288-317: one iteration of the retry loop.  Only -EBUSY and
\* -EAGAIN loop; the sleep of line 299 is skipped after the last try.
RemoveAttempt ==
    /\ At("remove")
    /\ LET m    == Top.mod
           r    == RemoveResult(m)
           busy == r \in {-EBUSY, -EAGAIN}
           f    == [Top EXCEPT !.tries = @ + 1,
                               !.slept = IF busy /\ Top.tries < MaxTries - 1
                                         THEN @ + 1 ELSE @]
       IN /\ state' = IF r = 0 THEN [state EXCEPT ![m] = "NotLoaded"]
                               ELSE state
          /\ removed' = IF r = 0 THEN removed \cup {m} ELSE removed
          /\ IF ~busy \/ f.tries = MaxTries
             THEN SetTop([f EXCEPT !.pc = "ret", !.err = r, !.errSet = TRUE])
             ELSE SetTop(f)
    /\ UNCHANGED <<refs, target, returned, ret, budget>>

\* The call returns to its caller: the holder loop of the parent frame, or
\* igt_kmod_unload (lines 345-353), which maps any err >= 0 to 0.
Return ==
    /\ At("ret")
    /\ IF Len(stack) = 1
       THEN /\ returned' = TRUE
            /\ ret' = IF Top.err < 0 THEN Top.err ELSE 0
            /\ stack' = <<>>
       ELSE /\ stack' = LET p == stack[Len(stack) - 1]
                        IN  Append(SubSeq(stack, 1, Len(stack) - 2),
                                   [p EXCEPT !.err = Top.err, !.errSet = TRUE,
                                     !.ok = IF Top.err >= 0 THEN @ \cup {Top.mod}
                                                           ELSE @])
            /\ UNCHANGED <<returned, ret>>
    /\ UNCHANGED <<state, refs, target, budget, removed>>

Step ==
    \/ EnterBuiltin \/ GetHolders \/ CallHolder \/ HolderFailed
    \/ HoldersDone \/ WaitPoll \/ WaitDone \/ WaitTimeout
    \/ RemoveAttempt \/ Return

-----------------------------------------------------------------------------
(* Third parties: other processes and kernel subsystems.  Module loads,    *)
(* unloads and new references draw on a bounded budget; finishing an init  *)
(* and dropping a reference are bounded by what was started.  They act     *)
(* only while igt_kmod_unload runs: the model covers one call.             *)

EnvLoad(m) ==
    /\ ~returned
    /\ budget > 0
    /\ state[m] = "NotLoaded"
    /\ \A d \in Deps[m] : state[d] \in {"Live", "Builtin"}
    /\ state' = [state EXCEPT ![m] = "Coming"]
    /\ budget' = budget - 1
    /\ UNCHANGED <<refs, stack, target, returned, ret, removed>>

EnvFinishInit(m) ==
    /\ ~returned
    /\ state[m] = "Coming"
    /\ state' = [state EXCEPT ![m] = "Live"]
    /\ UNCHANGED <<refs, stack, target, returned, ret, budget, removed>>

EnvUnload(m) ==
    /\ ~returned
    /\ budget > 0
    /\ state[m] = "Live"
    /\ RemoveResult(m) = 0
    /\ state' = [state EXCEPT ![m] = "NotLoaded"]
    /\ budget' = budget - 1
    /\ UNCHANGED <<refs, stack, target, returned, ret, removed>>

EnvGet(m) ==
    /\ ~returned
    /\ budget > 0
    /\ Loaded(m)
    /\ refs[m] < MaxRefs
    /\ refs' = [refs EXCEPT ![m] = @ + 1]
    /\ budget' = budget - 1
    /\ UNCHANGED <<state, stack, target, returned, ret, removed>>

EnvPut(m) ==
    /\ ~returned
    /\ refs[m] > 0
    /\ refs' = [refs EXCEPT ![m] = @ - 1]
    /\ UNCHANGED <<state, stack, target, returned, ret, budget, removed>>

\* After igt_kmod_unload has returned nothing of interest happens.
Returned ==
    /\ returned
    /\ UNCHANGED vars

-----------------------------------------------------------------------------
\* Any kernel the call can meet: a loaded module's users are loaded and
\* live, builtins are builtin, references only to loaded modules.
KernelStates ==
    {s \in [Modules -> InitStates] :
        /\ \A m \in Modules : (s[m] = "Builtin") <=> (m \in Builtin)
        /\ \A h \in Modules : s[h] \in {"Coming", "Live"} =>
              \A d \in Deps[h] : s[d] = "Live"}

Init ==
    /\ state \in KernelStates
    /\ refs \in {r \in [Modules -> 0..MaxRefs] :
                  \A m \in Modules : r[m] > 0 => Loaded(m)}
    /\ target \in Modules
    /\ stack = <<NewFrame(target)>>
    /\ returned = FALSE
    /\ ret = 0
    /\ budget = EnvBudget
    /\ removed = {}

Next ==
    \/ EnterBuiltin \/ GetHolders \/ CallHolder \/ HolderFailed
    \/ HoldersDone \/ WaitPoll \/ WaitDone \/ WaitTimeout
    \/ RemoveAttempt \/ Return
    \/ \E m \in Modules :
          \/ EnvLoad(m) \/ EnvFinishInit(m) \/ EnvUnload(m)
          \/ EnvGet(m) \/ EnvPut(m)
    \/ Returned

\* The calling thread runs; its sleeps end.  Third parties owe nothing.
Spec == Init /\ [][Next]_vars /\ WF_vars(Step)

-----------------------------------------------------------------------------
TypeOK ==
    /\ state \in [Modules -> InitStates]
    /\ refs \in [Modules -> 0..MaxRefs]
    /\ \A i \in 1..Len(stack) :
          /\ stack[i].mod \in Modules
          /\ stack[i].pc \in {"enter", "holders", "wait", "remove", "ret"}
          /\ stack[i].ok \subseteq Modules
          /\ stack[i].tries \in 0..MaxTries
    /\ target \in Modules
    /\ returned \in BOOLEAN
    /\ budget \in 0..EnvBudget

\* Spec 4.2 step 2 and section 8: the removal of a module is attempted only
\* after every holder of its snapshot was unloaded without error; the first
\* failing holder aborts the call before the module itself is touched
\* (igt_kmod_unload_r lines 266-276 before the loop of line 288).
HoldersFirst ==
    \A i \in 1..Len(stack) :
        LET f == stack[i]
        IN  (f.pc \in {"wait", "remove"} \/ f.tries > 0)
                => ToSet(f.snap) \subseteq f.ok

\* Spec section 8: one call of igt_kmod_unload_r makes at most MAX_TRIES
\* removal attempts and sleeps at most MAX_TRIES - 1 times between them,
\* however long third parties keep the module busy (lines 288-300).
RetryBudget ==
    \A i \in 1..Len(stack) :
        stack[i].tries <= MaxTries /\ stack[i].slept <= MaxTries - 1

\* igt_kmod_unload always returns: the wait for a COMING module and the
\* retry loop are both bounded, even when the module never settles.
Terminates == <>returned

\* Spec 4.2 steps 2-5: a failing call reports the error of a holder, of the
\* wait for a COMING module, or of a removal it attempted.  At line 275 err
\* is uninitialised when the holder list was empty (line 260), so a call can
\* fail with a value nothing returned, without trying to remove the module.
ErrorHasCause ==
    \A i \in 1..Len(stack) :
        LET f == stack[i]
        IN  (f.pc = "ret" /\ f.err < 0)
                => \/ f.tries > 0
                   \/ f.err = -ETIMEDOUT
                   \/ ~(ToSet(f.snap) \subseteq f.ok)

\* The contract callers such as DriverUnload rely on (ModuleRemoval): the
\* loaded modules are the coming and live ones, and the removals of the
\* walk are the contract's Remove steps.
Removal == INSTANCE ModuleRemoval
               WITH live <- {m \in Modules : Loaded(m)},
                    Errors <- {-ENOENT, -EAGAIN, -EBUSY, -ETIMEDOUT}
                              \cup {e \in UninitErr : e < 0}

\* igt_kmod_unload implements ModuleRemoval: every removal of the walk takes
\* out the target or a user of it that no loaded module holds, and the call
\* returns 0 exactly when the target is builtin or its own removal succeeded
\* (lines 263, 288-317 and 353), never for a target it found absent, an
\* uninitialised err or a holder's result; and the call returns.
RemovalRefinement == Removal!Spec

\* Spec 4.2 step 4 and section 9: "not found" is an already-satisfied
\* removal, which callers treat as success.  So a call should report -ENOENT
\* only for its own module, found absent by its own removal attempt.  A
\* holder that vanished after the snapshot of line 266 answers -ENOENT, and
\* lines 271-276 pass that up as the failure of the module it held, which
\* was never tried.
NotFoundIsOwn ==
    \A i \in 1..Len(stack) :
        LET f == stack[i]
        IN  (f.pc = "ret" /\ f.err = -ENOENT) => f.tries > 0

=============================================================================
