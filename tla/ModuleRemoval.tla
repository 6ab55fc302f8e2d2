---------------------------- MODULE ModuleRemoval ----------------------------
(***************************************************************************)
(* What one call igt_kmod_unload(target, 0) promises its callers (spec     *)
(* 4.2), with the recursion, the holder snapshot, the wait and the retry   *)
(* loop abstracted away.  While the call runs it removes the target and    *)
(* modules that use it, each one only when no loaded module holds it;      *)
(* third parties load and unload modules meanwhile.  The call returns, and *)
(* it returns 0 exactly when the target is builtin or the call itself      *)
(* removed it; every other outcome is a negative error.                    *)
(*                                                                         *)
(* DriverUnload takes each igt_kmod_unload as one atomic step with the     *)
(* outcomes UnloadOutcomes; that is this contract with no third party      *)
(* acting during the call.                                                 *)
(***************************************************************************)
LOCAL INSTANCE Integers

CONSTANTS
    Modules,    \* kernel modules
    Deps,       \* Deps[h]: the modules h uses
    Builtin,    \* modules compiled into the kernel
    Errors      \* the negative values a failing call may return

ASSUME \A e \in Errors : e < 0

VARIABLES
    live,       \* the loaded (coming or live) modules
    target,     \* the module the call unloads
    removed,    \* the modules the call has removed
    returned,   \* the call has returned
    ret         \* its return value

vars == <<live, target, removed, returned, ret>>

\* The modules that use m, directly or through other modules.
RECURSIVE UsersOf(_)
UsersOf(m) ==
    LET direct == {h \in Modules : m \in Deps[h]}
    IN  direct \cup UNION {UsersOf(h) : h \in direct}

\* No loaded module holds m.
Free(m) == \A h \in live : m \notin Deps[h]

\* A loaded set is closed under the dependency relation.
Consistent(S) == \A h \in S : Deps[h] \subseteq S \cup Builtin

Init ==
    /\ live \in {S \in SUBSET (Modules \ Builtin) : Consistent(S)}
    /\ target \in Modules
    /\ removed = {}
    /\ returned = FALSE
    /\ ret = 0

\* The call removes the target or one of its users that nothing holds.
Remove(m) ==
    /\ ~returned
    /\ m \in ({target} \cup UsersOf(target)) \cap live
    /\ Free(m)
    /\ live' = live \ {m}
    /\ removed' = removed \cup {m}
    /\ UNCHANGED <<target, returned, ret>>

\* A third party loads a module whose dependencies are loaded.
Load(m) ==
    /\ ~returned
    /\ m \notin live \cup Builtin
    /\ Deps[m] \subseteq live \cup Builtin
    /\ live' = live \cup {m}
    /\ UNCHANGED <<target, removed, returned, ret>>

\* A third party unloads a module that nothing holds.
Unload(m) ==
    /\ ~returned
    /\ m \in live /\ Free(m)
    /\ live' = live \ {m}
    /\ UNCHANGED <<target, removed, returned, ret>>

\* The call returns: success exactly for a builtin target or one it removed.
Return ==
    /\ ~returned
    /\ returned' = TRUE
    /\ IF target \in Builtin \/ target \in removed
       THEN ret' = 0
       ELSE ret' \in Errors
    /\ UNCHANGED <<live, target, removed>>

Next ==
    \/ \E m \in Modules : Remove(m) \/ Load(m) \/ Unload(m)
    \/ Return

\* The call does return.
Spec == Init /\ [][Next]_vars /\ WF_vars(Return)
================================================================================
