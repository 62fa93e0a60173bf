----------------------------- MODULE AddrSearch -----------------------------
(***************************************************************************)
(* The binary search of ksyms__map_addr and dso__find_sym in               *)
(* plugin/libbpf-test/trace_helpers.c: "find largest sym_addr <= addr" in  *)
(* an array sorted by address, in which several symbols may share one.     *)
(* (array is ksyms->syms or dso->syms, reduced to the addresses.)  The     *)
(* module KsymsLookup runs it on the tables that ksyms__load builds.       *)
(***************************************************************************)
EXTENDS Integers

CONSTANT Addresses      \* addresses to look up

ASSUME AddrsAssumption == Addresses \subseteq Nat

VARIABLES
    array_sz,           \* length of the array
    array,              \* array[i]: address of the i-th symbol, from 0
    addr,               \* the address looked up
    start, end,         \* the window of the search
    at,                 \* "loop" or "done"
    found               \* index of the symbol returned, or NULL

searchVars == <<array_sz, array, addr, start, end, at, found>>

NULL == -1

Ordered(s, n) == \A i, j \in 0 .. n - 1 : i <= j => s[i] <= s[j]

(* Nothing was looked up yet.                                              *)
SearchInit ==
    /\ array_sz = 0 /\ array = [i \in 0 .. -1 |-> 0]
    /\ addr = 0
    /\ start = 0 /\ end = -1
    /\ at = "done" /\ found = NULL

(* The call: an address is looked up in an array of n symbols.             *)
Begin(table, n, a) ==
    /\ at = "done"
    /\ array_sz' = n /\ array' = table /\ addr' = a
    /\ start' = 0 /\ end' = n - 1
    /\ at' = "loop" /\ found' = NULL

(* The upper middle: never start itself, so that start = mid makes         *)
(* progress.                                                               *)
Mid == start + (end - start + 1) \div 2

\* Fault: one symbol too many is given up on the right.
HalveSkips ==
    /\ at = "loop" /\ start < end
    /\ IF array[Mid] <= addr THEN start' = Mid /\ UNCHANGED end
                             ELSE end' = Mid - 2 /\ UNCHANGED start
    /\ UNCHANGED <<array_sz, array, addr, at, found>>

\* Fault: the right end is put on the wrong side of the middle.
HalveWidens ==
    /\ at = "loop" /\ start < end
    /\ IF array[Mid] <= addr THEN start' = Mid /\ UNCHANGED end
                             ELSE end' = Mid + 1 /\ UNCHANGED start
    /\ UNCHANGED <<array_sz, array, addr, at, found>>

\* Fault: an equal address sends the search to the left.
HalveStrict ==
    /\ at = "loop" /\ start < end
    /\ IF array[Mid] < addr THEN start' = Mid /\ UNCHANGED end
                            ELSE end' = Mid - 1 /\ UNCHANGED start
    /\ UNCHANGED <<array_sz, array, addr, at, found>>

(* One turn of the while loop.                                             *)
Halve ==
    /\ at = "loop" /\ start < end
    /\ IF array[Mid] <= addr THEN start' = Mid /\ UNCHANGED end
                             ELSE end' = Mid - 1 /\ UNCHANGED start
    /\ UNCHANGED <<array_sz, array, addr, at, found>>

(* The loop is over: one candidate is left, or the array was empty.        *)
Finish ==
    /\ at = "loop" /\ start >= end
    /\ found' = IF start = end /\ array[start] <= addr THEN start ELSE NULL
    /\ at' = "done"
    /\ UNCHANGED <<array_sz, array, addr, start, end>>

SearchNext == Halve \/ Finish

-----------------------------------------------------------------------------
(* Properties.                                                             *)

(* What holds of the window at every turn: it lies in the array, nothing   *)
(* to its right can be the answer, and its left end can, unless it is      *)
(* still the first symbol.                                                 *)
Window ==
    /\ array_sz \in Nat
    /\ array \in [0 .. array_sz - 1 -> Nat] /\ Ordered(array, array_sz)
    /\ addr \in Nat /\ start \in Nat /\ end \in Int
    /\ at \in {"loop", "done"}
    /\ end < array_sz
    /\ array_sz = 0 => start = 0 /\ end = -1
    /\ array_sz > 0 => start <= end
    /\ start = 0 \/ array[start] <= addr
    /\ \A j \in end + 1 .. array_sz - 1 : addr < array[j]

(* "find largest sym_addr <= addr": the symbol returned is at or below the *)
(* address and every later one is above it; NULL only when none is.        *)
LargestBelow ==
    at = "done" =>
        IF found = NULL
           THEN \A i \in 0 .. array_sz - 1 : addr < array[i]
           ELSE /\ found \in 0 .. array_sz - 1
                /\ array[found] <= addr
                /\ \A j \in found + 1 .. array_sz - 1 : addr < array[j]

(* Every turn reads inside the array and shrinks the window.               *)
Shrinks == [][Halve => /\ Mid \in 0 .. array_sz - 1
                       /\ end' - start' < end - start]_searchVars
=============================================================================
