------------------------------ MODULE DriverUnload ------------------------------
(***************************************************************************)
(* The driver load and unload sequences of src/lib/igt_kmod.c (lines       *)
(* 417-644): igt_intel_driver_load, igt_always_unload_audio_driver,        *)
(* __igt_intel_driver_unload, igt_intel_driver_unload,                     *)
(* igt_amdgpu_driver_load and igt_amdgpu_driver_unload.                    *)
(*                                                                         *)
(* Each call of igt_kmod_unload or igt_kmod_load is one step with the      *)
(* outcomes KmodUnload shows it can have: an unload removes the module     *)
(* after all of its (transitive) holders and returns 0, or fails leaving   *)
(* the module loaded with some holders, taken users first, removed.  Other *)
(* processes (udev autoloading a driver, audio servers) may load modules   *)
(* between the calls.                                                      *)
(***************************************************************************)
EXTENDS Integers, Sequences, SequencesExt, FiniteSets

CONSTANTS
    Modules,    \* loadable modules
    Deps,       \* Deps[m]: modules m uses (modprobe loads them first)
    Builtin,    \* modules built into the kernel: never in the loaded list
    Sound,      \* the sound[] list of line 440
    Aux,        \* the aux[] list of line 507
    Driver,     \* the driver argument (i915, xe, amdgpu)
    Gtt,        \* "intel-gtt"
    KmsHelper,  \* "drm_kms_helper"
    Drm,        \* "drm"
    Literal,    \* the name "driver" that line 579 tests
    Calls,      \* which entry points run
    EnvBudget   \* bound on third-party loads

ASSUME Deps \in [Modules \cup Builtin -> SUBSET Modules \cup Builtin]
ASSUME Literal \notin Modules \cup Builtin
\* Deps lists every module a module needs, directly or not.
ASSUME \A m \in DOMAIN Deps : \A d \in Deps[m] : Deps[d] \subseteq Deps[m]

ENOENT == 2
EBUSY == 16
EEXIST == 17
IGT_EXIT_SUCCESS == 0
IGT_EXIT_SKIP == 77
IGT_EXIT_FAILURE == 98

VARIABLES
    loaded,     \* modules listed in /proc/modules
    call,       \* the entry point running
    pc,         \* its program point
    idx,        \* position in the sound[] or aux[] loop
    who,        \* *who, the module named in the warning of line 564
    ret,        \* the return value, once pc = "done"
    budget      \* third-party loads left

vars == <<loaded, call, pc, idx, who, ret, budget>>

\* The entry points: [fn, opts], opts being whether options are passed.
Entries == [fn : {"intel_load", "intel_unload", "amdgpu_load",
                  "amdgpu_unload"}, opts : BOOLEAN]

ASSUME Calls \subseteq Entries

NoName == "none"

\* igt_kmod_is_loaded (lines 123-146): a name in the loaded-modules list.
IsLoaded(m) == m \in loaded

\* h uses m, directly or through other modules.
RECURSIVE UsersOf(_, _)
UsersOf(m, seen) ==
    LET direct == {h \in loaded : m \in Deps[h]} \ seen
    IN  direct \cup UNION {UsersOf(h, seen \cup direct) : h \in direct}

\* A set of users that can be removed users first: whoever uses one of
\* them is in it too.
Closed(S) == \A h \in S : UsersOf(h, {}) \subseteq S

(***************************************************************************)
(* igt_kmod_unload(m, 0) (lines 331-354) as one step: builtin -> 0; not    *)
(* loaded -> -ENOENT; else all users then m removed and 0, or a failure    *)
(* with m still loaded and a users-first closed set of its users removed.  *)
(* Each outcome is [left, err].                                            *)
(***************************************************************************)
UnloadOutcomes(m) ==
    IF m \in Builtin THEN {[left |-> loaded, err |-> 0]}
    ELSE IF ~IsLoaded(m) THEN {[left |-> loaded, err |-> -ENOENT]}
    ELSE {[left |-> loaded \ ({m} \cup UsersOf(m, {})), err |-> 0]}
         \cup {[left |-> loaded \ S, err |-> -EBUSY] :
                 S \in {S \in SUBSET UsersOf(m, {}) : Closed(S)}}

\* igt_kmod_load(m, opts) (lines 221-253) through modprobe (154-164):
\* with options a loaded module fails with -EEXIST; the load brings the
\* module's dependencies in, or fails.
LoadOutcomes(m, opts) ==
    IF m \in Builtin \/ (IsLoaded(m) /\ ~opts)
    THEN {[left |-> loaded, err |-> 0]}
    ELSE IF IsLoaded(m) THEN {[left |-> loaded, err |-> -EEXIST]}
    ELSE {[left |-> (loaded \cup {m} \cup Deps[m]) \ Builtin, err |-> 0],
          [left |-> loaded, err |-> -EBUSY]}

Return(r) == pc' = "done" /\ ret' = r

-----------------------------------------------------------------------------
(* igt_intel_driver_load, lines 417-435.                                   *)

IntelLoadDriver ==
    /\ pc = "start" /\ call.fn = "intel_load"
    /\ \E o \in LoadOutcomes(Driver, call.opts) :
          /\ loaded' = o.left
          /\ IF o.err # 0 THEN Return(o.err)
             ELSE pc' = "load_sound" /\ UNCHANGED ret
    /\ UNCHANGED <<call, idx, who, budget>>

\* Line 432: snd_hda_intel is loaded after the driver; the result is
\* not looked at.
IntelLoadSound ==
    /\ pc = "load_sound"
    /\ \E o \in LoadOutcomes(Head(Sound), FALSE) : loaded' = o.left
    /\ Return(0)
    /\ UNCHANGED <<call, idx, who, budget>>

-----------------------------------------------------------------------------
(* igt_always_unload_audio_driver, lines 437-481.                          *)

AudioSkip ==
    /\ pc = "audio" /\ idx <= Len(Sound)
    /\ ~IsLoaded(Sound[idx])
    /\ idx' = idx + 1
    /\ UNCHANGED <<loaded, call, pc, who, ret, budget>>

\* Lines 455-464: who names the module; igt_lsof_kill_audio_processes
\* fails: the function returns 0 without unloading anything.
AudioKillFailed ==
    /\ pc = "audio" /\ idx <= Len(Sound)
    /\ IsLoaded(Sound[idx])
    /\ who' = Sound[idx]
    /\ pc' = "aux" /\ idx' = 1
    /\ UNCHANGED <<loaded, call, ret, budget>>

\* Lines 466-477: unload it; a failure also returns 0.
AudioUnload ==
    /\ pc = "audio" /\ idx <= Len(Sound)
    /\ IsLoaded(Sound[idx])
    /\ who' = Sound[idx]
    /\ \E o \in UnloadOutcomes(Sound[idx]) :
          /\ loaded' = o.left
          /\ IF o.err # 0 THEN pc' = "aux" /\ idx' = 1
             ELSE idx' = idx + 1 /\ UNCHANGED pc
    /\ UNCHANGED <<call, ret, budget>>

AudioDone ==
    /\ pc = "audio" /\ idx > Len(Sound)
    /\ pc' = "aux" /\ idx' = 1
    /\ UNCHANGED <<loaded, call, who, ret, budget>>

-----------------------------------------------------------------------------
(* __igt_intel_driver_unload, lines 503-548, after the audio driver (the   *)
(* return of line 522 is never taken: line 480 always returns 0).          *)

AuxSkip ==
    /\ pc = "aux" /\ idx <= Len(Aux)
    /\ ~IsLoaded(Aux[idx])
    /\ idx' = idx + 1
    /\ UNCHANGED <<loaded, call, pc, who, ret, budget>>

\* Mutant: the failing aux module is not recorded in *who.
AuxUnloadNoWho ==
    /\ pc = "aux" /\ idx <= Len(Aux)
    /\ IsLoaded(Aux[idx])
    /\ \E o \in UnloadOutcomes(Aux[idx]) :
          /\ loaded' = o.left
          /\ IF o.err # 0 THEN pc' = "failed" /\ ret' = o.err /\ UNCHANGED <<idx, who>>
             ELSE idx' = idx + 1 /\ UNCHANGED <<pc, ret, who>>
    /\ UNCHANGED <<call, budget>>

\* Lines 528-534: the first aux module that fails to unload ends the call.
AuxUnload ==
    /\ pc = "aux" /\ idx <= Len(Aux)
    /\ IsLoaded(Aux[idx])
    /\ \E o \in UnloadOutcomes(Aux[idx]) :
          /\ loaded' = o.left
          /\ IF o.err # 0
             THEN pc' = "failed" /\ ret' = o.err /\ who' = Aux[idx] /\ UNCHANGED idx
             ELSE idx' = idx + 1 /\ UNCHANGED <<pc, ret, who>>
    /\ UNCHANGED <<call, budget>>

AuxDone ==
    /\ pc = "aux" /\ idx > Len(Aux)
    /\ pc' = "driver"
    /\ UNCHANGED <<loaded, call, idx, who, ret, budget>>

\* Lines 537-547.
DriverUnload ==
    /\ pc = "driver"
    /\ IF ~IsLoaded(Driver)
       THEN pc' = "tail" /\ UNCHANGED <<loaded, who, ret>>
       ELSE \E o \in UnloadOutcomes(Driver) :
              /\ loaded' = o.left
              /\ IF o.err # 0
                 THEN pc' = "failed" /\ ret' = o.err /\ who' = Driver
                 ELSE pc' = "tail" /\ UNCHANGED <<who, ret>>
    /\ UNCHANGED <<call, idx, budget>>

\* An igt_kmod_unload whose result is not looked at (lines 574, 576, 577,
\* 635, 636).
IgnoredUnload(m, from, to) ==
    /\ pc = from
    /\ \E o \in UnloadOutcomes(m) : loaded' = o.left
    /\ pc' = to
    /\ UNCHANGED <<call, idx, who, ret, budget>>

\* igt_intel_driver_unload, lines 562-570: a failure is returned as it is.
IntelUnloadFailed ==
    /\ pc = "failed"
    /\ Return(ret)
    /\ UNCHANGED <<loaded, call, idx, who, budget>>

\* Lines 573-574: intel-gtt only if it is listed.
GttSkip ==
    /\ pc = "tail" /\ ~IsLoaded(Gtt)
    /\ pc' = "kms"
    /\ UNCHANGED <<loaded, call, idx, who, ret, budget>>

\* Lines 579-584: the module named "driver" is looked up, not the driver.
IntelCheck ==
    /\ pc = "check"
    /\ Return(IF IsLoaded(Literal) THEN -EBUSY ELSE 0)
    /\ UNCHANGED <<loaded, call, idx, who, budget>>

-----------------------------------------------------------------------------
(* amdgpu, lines 596-644.                                                  *)

AmdgpuLoad ==
    /\ pc = "start" /\ call.fn = "amdgpu_load"
    /\ \E o \in LoadOutcomes(Driver, call.opts) :
          /\ loaded' = o.left
          /\ Return(IF o.err # 0 THEN IGT_EXIT_FAILURE ELSE IGT_EXIT_SUCCESS)
    /\ UNCHANGED <<call, idx, who, budget>>

\* Mutant: the error of igt_kmod_unload is returned as it is.
AmdgpuUnloadRawError ==
    /\ pc = "start" /\ call.fn = "amdgpu_unload"
    /\ IF ~IsLoaded(Driver)
       THEN pc' = "amd_kms" /\ UNCHANGED <<loaded, ret>>
       ELSE \E o \in UnloadOutcomes(Driver) :
              /\ loaded' = o.left
              /\ IF o.err # 0 THEN Return(o.err)
                 ELSE pc' = "amd_kms" /\ UNCHANGED ret
    /\ UNCHANGED <<call, idx, who, budget>>

\* Lines 626-633: a failed unload of amdgpu is a skip.
AmdgpuUnload ==
    /\ pc = "start" /\ call.fn = "amdgpu_unload"
    /\ IF ~IsLoaded(Driver)
       THEN pc' = "amd_kms" /\ UNCHANGED <<loaded, ret>>
       ELSE \E o \in UnloadOutcomes(Driver) :
              /\ loaded' = o.left
              /\ IF o.err # 0 THEN Return(IGT_EXIT_SKIP)
                 ELSE pc' = "amd_kms" /\ UNCHANGED ret
    /\ UNCHANGED <<call, idx, who, budget>>

\* Lines 638-643.
AmdgpuCheck ==
    /\ pc = "amd_check"
    /\ Return(IF IsLoaded(Driver) THEN IGT_EXIT_FAILURE ELSE IGT_EXIT_SUCCESS)
    /\ UNCHANGED <<loaded, call, idx, who, budget>>

\* __igt_intel_driver_unload starts with the audio drivers (line 520).
IntelUnloadStart ==
    /\ pc = "start" /\ call.fn = "intel_unload"
    /\ pc' = "audio" /\ idx' = 1
    /\ UNCHANGED <<loaded, call, who, ret, budget>>

-----------------------------------------------------------------------------
\* udev, audio servers or other tests load a module whose dependencies are
\* loaded, while the call runs.
EnvLoad(m) ==
    /\ pc # "done"
    /\ budget > 0
    /\ ~IsLoaded(m)
    /\ Deps[m] \subseteq loaded \cup Builtin
    /\ loaded' = loaded \cup {m}
    /\ budget' = budget - 1
    /\ UNCHANGED <<call, pc, idx, who, ret>>

Finished ==
    /\ pc = "done"
    /\ UNCHANGED vars

\* A consistent set of loaded modules: every dependency is loaded.
LoadedSets ==
    {L \in SUBSET Modules : \A m \in L : Deps[m] \subseteq L \cup Builtin}

Init ==
    /\ loaded \in LoadedSets
    /\ call \in Calls
    /\ pc = "start"
    /\ idx = 1
    /\ who = NoName
    /\ ret = 0
    /\ budget = EnvBudget

Next ==
    \/ IntelLoadDriver \/ IntelLoadSound
    \/ IntelUnloadStart \/ AudioSkip \/ AudioKillFailed \/ AudioUnload
    \/ AudioDone \/ AuxSkip \/ AuxUnload \/ AuxDone \/ DriverUnload
    \/ IntelUnloadFailed
    \/ GttSkip \/ IgnoredUnload(Gtt, "tail", "kms")
    \/ IgnoredUnload(KmsHelper, "kms", "drm")
    \/ IgnoredUnload(Drm, "drm", "check") \/ IntelCheck
    \/ AmdgpuLoad \/ AmdgpuUnload
    \/ IgnoredUnload(KmsHelper, "amd_kms", "amd_drm")
    \/ IgnoredUnload(Drm, "amd_drm", "amd_check") \/ AmdgpuCheck
    \/ \E m \in Modules : EnvLoad(m)
    \/ Finished

Spec == Init /\ [][Next]_vars

-----------------------------------------------------------------------------
IsAmdgpu(c) == c.fn \in {"amdgpu_load", "amdgpu_unload"}

\* The amdgpu helpers return IGT exit codes (comments of lines 591, 615),
\* the Intel ones 0 or a negative errno.
TypeOK ==
    /\ loaded \subseteq Modules
    /\ call \in Calls
    /\ who \in Modules \cup {NoName}
    /\ budget \in 0..EnvBudget
    /\ pc = "done" =>
          IF IsAmdgpu(call)
          THEN ret \in {IGT_EXIT_SUCCESS, IGT_EXIT_SKIP, IGT_EXIT_FAILURE}
          ELSE ret \in {0, -ENOENT, -EBUSY, -EEXIST}

\* igt_intel_driver_unload reports success only with the driver unloaded,
\* which is what the check of lines 579-582 is for: udev may load the
\* driver again between its unload at line 538 and the return.
IntelGoneOnSuccess ==
    (pc = "done" /\ call.fn = "intel_unload" /\ ret = 0) => ~IsLoaded(Driver)

\* A failing igt_intel_driver_unload warns about the module that failed
\* (line 564): *who names an aux module or the driver that is still
\* loaded, not an audio module it went past (lines 456, 531, 541).
WhoNamesFailure ==
    (pc = "done" /\ call.fn = "intel_unload" /\ ret # 0)
        => /\ who \in Range(Aux) \cup {Driver}
           /\ IsLoaded(who)

=============================================================================
