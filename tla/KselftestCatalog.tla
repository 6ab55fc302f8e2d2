--------------------------- MODULE KselftestCatalog ---------------------------
(***************************************************************************)
(* igt_kselftest_get_tests() and tests_add() of src/lib/igt_kmod.c (lines  *)
(* 686-746), and unfilter() (lines 961-971), which names each selftest's   *)
(* dynamic subtest.                                                        *)
(*                                                                         *)
(* The module's modinfo is a sequence of entries.  An entry keeps what the *)
(* loop tests of it: whether its key is "parmtype", whether its value      *)
(* starts with "igt__", and the characters of the parameter name between   *)
(* that prefix and the ':' that line 730 cuts off.  Names are sequences    *)
(* over a small alphabet of digits, '_' and letters, because the sscanf    *)
(* of line 734 and the skip of lines 966-968 work character by character.  *)
(* A pointer moved past the end of the name buffer is the value Beyond.    *)
(***************************************************************************)
EXTENDS Integers, Sequences, SequencesExt, FiniteSets

CONSTANTS
    Digits,     \* digit characters, as a function to their values
    Letters,    \* characters isalpha() accepts
    Infos,      \* the modinfo lists a module can have
    Filters     \* filter arguments: [null |-> TRUE] or [null |-> FALSE, str |-> s]

Chars == DOMAIN Digits \cup Letters \cup {"_"}

ASSUME "_" \notin DOMAIN Digits \cup Letters
ASSUME Infos \subseteq Seq([key : {"parmtype", "other"}, pre : BOOLEAN,
                            body : Seq(Chars)])

\* The pointer tl->name after it was moved past the end of its buffer.
Beyond == "beyond"

VARIABLES
    info,       \* the list kmod_module_get_info returned (line 707)
    filter,     \* the filter argument
    i,          \* kmod_list_foreach position (line 710)
    tests,      \* the list being built: records [idx, number, name]
    dropped     \* entries lost to a failed malloc (lines 724-726)

vars == <<info, filter, i, tests, dropped>>

(***************************************************************************)
(* sscanf(tl->name, "%u__%n", &tl->number, &offset) at line 734.  %u reads *)
(* the leading digits; the conversion counts when there is at least one.   *)
(* %n is stored only when the literal "__" follows.  When it does not,     *)
(* offset keeps strlen(val) + 1 from line 723 and line 736 moves the name  *)
(* beyond its buffer.                                                      *)
(***************************************************************************)
RECURSIVE LeadingDigits(_)
LeadingDigits(s) ==
    IF s # <<>> /\ Head(s) \in DOMAIN Digits
    THEN 1 + LeadingDigits(Tail(s)) ELSE 0

Value(s) == FoldLeft(LAMBDA acc, c : 10 * acc + Digits[c], 0, s)

\* Mutant: the count sscanf returns is not tested; the name moves by offset
\* even when no number was read.
ScanIgnoringCount(body) ==
    LET d == LeadingDigits(body)
    IN  IF Len(body) >= d + 2 /\ body[d + 1] = "_" /\ body[d + 2] = "_"
        THEN [number |-> Value(SubSeq(body, 1, d)),
              name |-> SubSeq(body, d + 3, Len(body))]
        ELSE [number |-> Value(SubSeq(body, 1, d)), name |-> Beyond]

Scan(body) ==
    LET d == LeadingDigits(body)
    IN  CASE d = 0 -> [number |-> 0, name |-> body]
          [] Len(body) >= d + 2 /\ body[d + 1] = "_" /\ body[d + 2] = "_"
               -> [number |-> Value(SubSeq(body, 1, d)),
                   name |-> SubSeq(body, d + 3, Len(body))]
          [] OTHER -> [number |-> Value(SubSeq(body, 1, d)), name |-> Beyond]

\* Line 738: strncmp(tl->name, filter, strlen(filter)).  A name beyond its
\* buffer compares with whatever lies there: either outcome.
Passes(f, name) ==
    IF f.null THEN {TRUE}
    ELSE IF name = Beyond THEN BOOLEAN
    ELSE {IsPrefix(f.str, name)}

\* Lines 686-695: insert before the first entry with a greater number.
TestsAddNotStable(tl, list) ==
    LET after == {k \in 1..Len(list) : list[k].number >= tl.number}
    IN  IF after = {} THEN Append(list, tl)
        ELSE InsertAt(list, CHOOSE k \in after : \A j \in after : k <= j, tl)

tests_add(tl, list) ==
    LET after == {k \in 1..Len(list) : list[k].number > tl.number}
    IN  IF after = {} THEN Append(list, tl)
        ELSE InsertAt(list, CHOOSE k \in after : \A j \in after : k <= j, tl)

\* Lines 961-971: skip the filter, then one more character unless it is a
\* letter.  The terminating NUL is not a letter.
unfilter(f, name) ==
    IF f.null THEN name
    ELSE LET rest == SubSeq(name, Len(f.str) + 1, Len(name))
         IN  CASE rest = <<>>          -> Beyond
               [] Head(rest) \in Letters -> rest
               [] OTHER                -> Tail(rest)

-----------------------------------------------------------------------------
Entry == info[i]

\* Lines 716-721: not a parameter type, or not a selftest parameter.
SkipEntry ==
    /\ i <= Len(info)
    /\ Entry.key # "parmtype" \/ ~Entry.pre
    /\ i' = i + 1
    /\ UNCHANGED <<info, filter, tests, dropped>>

\* Lines 723-726: the allocation of the list element fails.
AllocFailed ==
    /\ i <= Len(info)
    /\ Entry.key = "parmtype" /\ Entry.pre
    /\ dropped' = dropped \cup {i}
    /\ i' = i + 1
    /\ UNCHANGED <<info, filter, tests>>

\* Lines 728-743: parse number and name, apply the filter, insert.
ParseEntry ==
    /\ i <= Len(info)
    /\ Entry.key = "parmtype" /\ Entry.pre
    /\ LET s == Scan(Entry.body)
           tl == [idx |-> i, number |-> s.number, name |-> s.name]
       IN  \E keep \in Passes(filter, s.name) :
              tests' = IF keep THEN tests_add(tl, tests) ELSE tests
    /\ i' = i + 1
    /\ UNCHANGED <<info, filter, dropped>>

\* Line 745: the list is complete; igt_kselftests goes on with it.
Listed ==
    /\ i > Len(info)
    /\ UNCHANGED vars

Init ==
    /\ info \in Infos
    /\ filter \in Filters
    /\ i = 1
    /\ tests = <<>>
    /\ dropped = {}

Next == SkipEntry \/ AllocFailed \/ ParseEntry \/ Listed

Spec == Init /\ [][Next]_vars

-----------------------------------------------------------------------------
TypeOK ==
    /\ i \in 1..(Len(info) + 1)
    /\ dropped \subseteq 1..Len(info)
    /\ tests \in Seq([idx : 1..Len(info), number : Nat, name : Seq(Chars)])

(***************************************************************************)
(* Reference: the selftest parameters among the entries read so far, that  *)
(* were allocated and pass the filter as a prefix of the name, grouped by  *)
(* ascending number, each group in discovery order.                        *)
(***************************************************************************)
Selected ==
    LET ks == {k \in 1..(i - 1) :
                 /\ info[k].key = "parmtype" /\ info[k].pre
                 /\ k \notin dropped
                 /\ LET s == Scan(info[k].body)
                    IN  filter.null \/ IsPrefix(filter.str, s.name)}
    IN  [n \in 1..Cardinality(ks) |->
           LET k == CHOOSE k \in ks :
                      Cardinality({j \in ks : j < k}) = n - 1
               s == Scan(info[k].body)
           IN  [idx |-> k, number |-> s.number, name |-> s.name]]

StableSorted(seq) ==
    LET ns == SetToSortSeq({seq[k].number : k \in 1..Len(seq)},
                             LAMBDA a, b : a < b)
    IN  FlattenSeq([g \in 1..Len(ns) |->
                      SelectSeq(seq, LAMBDA t : t.number = ns[g])])

\* Spec 4.3 and section 8: after each entry the list is the stable sort by
\* number of the selected parameters: ascending numbers, ties in discovery
\* order, since later selftests may rely on state left by earlier ones.
\* This is what the insertion of tests_add (line 691) must keep.
DiscoveryOrder == tests = StableSorted(Selected)

\* Spec 3 and 6: the human-facing name is what follows the "igt__" prefix
\* and the optional "<digits>__" infix, so it lies within the parameter
\* name (lines 733-736).
NameWithinParam ==
    \A k \in 1..Len(tests) : tests[k].name # Beyond

\* igt_kselftests (line 993) names each dynamic subtest unfilter(filter,
\* name); that name must lie within the test's name.  When the name equals
\* the filter, lines 966-968 step past its terminating NUL.
DynamicNameWithinName ==
    i > Len(info) =>
        \A k \in 1..Len(tests) :
            tests[k].name # Beyond => unfilter(filter, tests[k].name) # Beyond

=============================================================================
