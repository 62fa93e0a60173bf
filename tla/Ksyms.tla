------------------------------- MODULE Ksyms --------------------------------
(***************************************************************************)
(* The kernel symbol table of plugin/libbpf-test/trace_helpers.c:          *)
(* ksyms__load reads /proc/kallsyms line by line into two arrays that grow *)
(* by realloc, keeps names as offsets while the string buffer can still    *)
(* move, turns them into pointers at the end and sorts by address;         *)
(* ksyms__get_symbol scans the result by name.  (ksyms__map_addr is the    *)
(* module AddrSearch, and KsymsLookup the two together.)                   *)
(***************************************************************************)
EXTENDS Naturals, Sequences, FiniteSets, Functions, TLC

CONSTANTS
    Names,          \* names, ordered as strcmp orders them (numbers)
    nameLen,        \* nameLen[x]: strlen(x) + 1
    Addrs,
    MaxLines,       \* bound: lines of /proc/kallsyms
    MinCap          \* 1024 in the code: the least capacity of either array

ASSUME ConstantsAssumption ==
    /\ Names \subseteq Nat /\ Addrs \subseteq Nat
    /\ nameLen \in [Names -> Nat \ {0}]
    /\ MaxLines \in Nat
    /\ MinCap \in Nat /\ MinCap >= 3    \* below 3, cap * 4 / 3 = cap

Line == [name : Names, addr : Addrs]
Malformed == [name |-> 0, addr |-> 0]   \* fscanf does not return 3

VARIABLES
    all,            \* history: the whole file
    file,           \* the lines not read yet
    syms,           \* syms[i]: its address and its name, an offset or a pointer
    syms_cap,
    strs,           \* contents of the string buffer: offset -> name
    strs_sz, strs_cap,
    base,           \* where the buffer is; realloc may move it
    pc

vars == <<all, file, syms, syms_cap, strs, strs_sz, strs_cap, base, pc>>

Offset(o) == [base |-> 0, off |-> o]    \* "re-use pointer as just a plain offset"

Init ==
    /\ all \in UNION {[1 .. n -> Line \cup {Malformed}] : n \in 0 .. MaxLines}
    /\ file = all
    /\ syms = <<>> /\ syms_cap = 0
    /\ strs = <<>> /\ strs_sz = 0 /\ strs_cap = 0
    /\ base = 1
    /\ pc = "load"

-----------------------------------------------------------------------------
AtLeast(x, y) == IF x < y THEN y ELSE x

(* ksyms__add_symbol's two tests for room and the sizes asked for.         *)
StrsFull(x) == strs_sz + nameLen[x] > strs_cap

\* Fault: a name longer than a third of the buffer is not allowed for.
NewStrsCapThird(x) == AtLeast((strs_cap * 4) \div 3, MinCap)

NewStrsCap(x) == AtLeast(AtLeast((strs_cap * 4) \div 3, strs_sz + nameLen[x]), MinCap)

SymsFull == Len(syms) + 1 > syms_cap
NewSymsCap == AtLeast((syms_cap * 4) \div 3, MinCap)

\* Fault: the name is stored as a pointer into a buffer that may still move.
StoredNamePointer(o) == [base |-> base, off |-> o]

(* While loading, a name is its offset.                                    *)
StoredName(o) == Offset(o)

(* ksyms__add_symbol succeeds for the next line.                           *)
AddSymbol ==
    /\ pc = "load" /\ file # <<>> /\ Head(file) # Malformed
    /\ LET x == Head(file).name IN
          /\ strs_cap' = IF StrsFull(x) THEN NewStrsCap(x) ELSE strs_cap
          /\ base' \in IF StrsFull(x) THEN {base, base + 1} ELSE {base}
          /\ strs' = Append(strs, [off |-> strs_sz, name |-> x])
          /\ strs_sz' = strs_sz + nameLen[x]
    /\ syms_cap' = IF SymsFull THEN NewSymsCap ELSE syms_cap
    /\ syms' = Append(syms, [addr |-> Head(file).addr, name |-> StoredName(strs_sz)])
    /\ file' = Tail(file)
    /\ UNCHANGED <<all, pc>>

(* The file cannot be opened, a line is malformed or an allocation fails:  *)
(* everything is freed.                                                    *)
LoadFails ==
    /\ pc = "load"
    /\ \/ file = all
       \/ /\ file # <<>>
          /\ Head(file) # Malformed => StrsFull(Head(file).name) \/ SymsFull
    /\ pc' = "freed"
    /\ syms' = <<>> /\ strs' = <<>>
    /\ UNCHANGED <<all, file, syms_cap, strs_sz, strs_cap, base>>

(* What a name pointer refers to: a string of the buffer it points into,   *)
(* or nothing when that buffer has moved away.                             *)
Deref(p) == {strs[i].name : i \in {j \in DOMAIN strs : p.base = base /\ strs[j].off = p.off}}

(* ksym_cmp: by address, then by name.                                     *)
ksym_cmp(a, b) == \/ a.addr < b.addr
                  \/ /\ a.addr = b.addr
                     /\ \E x \in Deref(a.name), y \in Deref(b.name) : x < y

(* "adjust": the offset of a symbol's name becomes a pointer.              *)
Adjust(s) == [addr |-> s.addr, name |-> [base |-> s.name.base + base, off |-> s.name.off]]

(* qsort, which is not stable, gives any order of the symbols that         *)
(* ksym_cmp does not object to.                                            *)
Orders == [n \in 0 .. MaxLines |-> Bijection(1 .. n, 1 .. n)]

Sorted(s) == \A i, j \in DOMAIN s : i < j => ~ksym_cmp(s[j], s[i])

(* End of file: offsets become pointers, then qsort.                       *)
FinishLoad ==
    /\ pc = "load" /\ file = <<>>
    /\ \E p \in Orders[Len(syms)] :
          LET adjusted == [i \in DOMAIN syms |-> Adjust(syms[p[i]])]
          IN  Sorted(adjusted) /\ syms' = adjusted
    /\ pc' = "ready"
    /\ UNCHANGED <<all, file, syms_cap, strs, strs_sz, strs_cap, base>>

(* ksyms__get_symbol: the index of the first symbol of that name, or 0.    *)
get_symbol(x) ==
    LET hits == {i \in DOMAIN syms : x \in Deref(syms[i].name)}
    IN  IF hits = {} THEN 0 ELSE CHOOSE i \in hits : \A j \in hits : i <= j

(* The caller is done with the table.                                      *)
ksyms__free ==
    /\ pc = "ready"
    /\ pc' = "freed"
    /\ syms' = <<>> /\ strs' = <<>>
    /\ UNCHANGED <<all, file, syms_cap, strs_sz, strs_cap, base>>

Next == AddSymbol \/ LoadFails \/ FinishLoad \/ ksyms__free

-----------------------------------------------------------------------------
(* Properties.                                                             *)

(* The arrays never hold more than was allocated for them.                 *)
FitsCapacity == /\ pc # "freed" => Len(syms) <= syms_cap
                /\ strs_sz <= strs_cap

(* Every name pointer of a loaded table points into the buffer that is     *)
(* live, at the name its line had, however often the buffer moved: the     *)
(* table holds exactly the lines of the file, in the order the binary      *)
(* search needs, names breaking ties, so that a name found is its symbol   *)
(* at the lowest address.                                                  *)
TableIsFile ==
    pc = "ready" =>
        /\ Len(syms) = Len(all)
        /\ \A ln \in Line :
              Cardinality({i \in DOMAIN syms : syms[i].addr = ln.addr
                                               /\ Deref(syms[i].name) = {ln.name}})
              = Cardinality({i \in DOMAIN all : all[i] = ln})
        /\ Sorted(syms)
        /\ \A x \in Names :
              IF get_symbol(x) = 0 THEN \A i \in DOMAIN all : all[i].name # x
              ELSE \A i \in DOMAIN all :
                      all[i].name = x => syms[get_symbol(x)].addr <= all[i].addr
=============================================================================
