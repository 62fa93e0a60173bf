---------------------------- MODULE KsymsLookup -----------------------------
(***************************************************************************)
(* The kernel symbols as the tools use them: /proc/kallsyms is loaded,     *)
(* addresses are looked up one after the other in the table that gave,     *)
(* and the table is freed.                                                 *)
(***************************************************************************)
EXTENDS Ksyms, AddrSearch

allVars == <<vars, searchVars>>

(* The addresses of the table, numbered from 0 as in the code.             *)
LoadedAddrs == [i \in 0 .. Len(syms) - 1 |-> syms[i + 1].addr]

LookupInit == Init /\ SearchInit

(* Loading and freeing, by the one thread, which is in no search then.     *)
Manage == at = "done" /\ Next /\ UNCHANGED searchVars

ksyms__map_addr(a) ==
    /\ pc = "ready" /\ Begin(LoadedAddrs, Len(syms), a)
    /\ UNCHANGED vars

Search == SearchNext /\ UNCHANGED vars

LookupNext == Manage \/ (\E a \in Addresses : ksyms__map_addr(a)) \/ Search

LookupSpec == LookupInit /\ [][LookupNext]_allVars
=============================================================================
