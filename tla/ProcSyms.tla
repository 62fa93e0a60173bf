------------------------------ MODULE ProcSyms ------------------------------
(***************************************************************************)
(* Symbols of user processes: struct syms, struct dso and struct           *)
(* syms_cache of plugin/libbpf-test/trace_helpers.c.  The executable       *)
(* mappings of a process are read once, when its tgid is first asked for;  *)
(* the symbol table of a mapped file is read later, at the first address   *)
(* that falls into it.  Meanwhile processes exec, exit and lend their      *)
(* tgid to others, files are replaced and memory runs out.                 *)
(*                                                                         *)
(* A file's symbols are pairs of a value (an address within the ELF file)  *)
(* and a name, a number here: only its order matters, 0 is the empty name. *)
(***************************************************************************)
EXTENDS Integers, Sequences, FiniteSets, SequencesExt

CONSTANTS
    Tgids,
    Images,         \* what /proc/<tgid>/maps may hold: sequences of lines
    NULL,
    VDSO,           \* the mapping named [vdso]
    elfAsMapped,    \* elfAsMapped[n]: the file n when processes mapped it
    elfReplaced,    \* elfReplaced[n]: what an upgrade puts in its place
    Addrs,          \* addresses to translate
    AddrMod,        \* 2^64: addresses and offsets are uint64_t
    MaxChanges      \* bound: changes of processes and files

Names == DOMAIN elfAsMapped

ASSUME ConstantsAssumption ==
    /\ NULL \notin Images /\ NULL \notin Nat
    /\ AddrMod \in Nat \ {0} /\ Addrs \subseteq 0 .. AddrMod - 1
    /\ VDSO \in Names /\ DOMAIN elfReplaced = Names
    /\ MaxChanges \in Nat

(* The lines of a maps file, and that mappings do not overlap.             *)
ASSUME ImagesAssumption ==
    \A lines \in Images :
        /\ Len(lines) \in Nat /\ DOMAIN lines = 1 .. Len(lines)
        /\ \A i \in DOMAIN lines : {lines[i].start, lines[i].end, lines[i].off} \subseteq Nat
        /\ \A i, j \in DOMAIN lines : i = j \/ lines[i].end <= lines[j].start
                                           \/ lines[j].end <= lines[i].start

Files == Range(elfAsMapped) \cup Range(elfReplaced)

ASSUME FilesAssumption ==
    \A f \in Files : f.delta \in Int /\ f.syms \in Seq([value : Nat, name : Nat])

VARIABLES
    image,          \* image[t]: the mappings of process t now, NULL if gone
    replaced,       \* the files that were replaced on disk
    data,           \* syms_cache->data
    tables,         \* dso->syms of dso i of entry e, under <<e, i>>, where
                    \* it is not NULL; the rest of a dso never changes
    freed,          \* the dsos <<e, i>> whose fields were freed
    ptr,            \* a struct sym * the caller has kept, or NULL
    phase,          \* "live", "freed", or "undefined" once freed memory or an
                    \* unchecked NULL is used
    changes

vars == <<image, replaced, data, tables, freed, ptr, phase, changes>>

elf(n) == IF n \in replaced THEN elfReplaced[n] ELSE elfAsMapped[n]

Init == /\ image \in [Tgids -> Images]
        /\ replaced = {}
        /\ data = <<>> /\ tables = <<>> /\ freed = {}      \* syms_cache__new
        /\ ptr = NULL
        /\ phase = "live"
        /\ changes = 0

-----------------------------------------------------------------------------
(* Reading the mappings.                                                   *)

(* syms__add_dso: what the file at path n is taken for.                    *)
get_elf_type(n) ==
    IF n = VDSO THEN "VDSO"
    ELSE IF elf(n).type \in {"EXEC", "DYN"} THEN elf(n).type ELSE "UNKNOWN"

NewDso(n) == [name |-> n, ranges |-> <<>>, type |-> get_elf_type(n),
              delta |-> IF get_elf_type(n) = "DYN" THEN elf(n).delta ELSE 0]

RangeOf(line) == [start |-> line.start, end |-> line.end, off |-> line.off]

(* A mapping is added to the dso of its file, which is created first if    *)
(* need be.                                                                *)
syms__add_dso(dsos, line) ==
    LET i   == SelectInSeq(dsos, LAMBDA d : d.name = line.name)
        all == IF i = 0 THEN Append(dsos, NewDso(line.name)) ELSE dsos
        at  == IF i = 0 THEN Len(all) ELSE i
    IN  [all EXCEPT ![at].ranges = Append(@, RangeOf(line))]

(* Executable and backed by a file; other mappings are passed over.        *)
Wanted(line) == line.x /\ line.name \in Names

ReadLine(dsos, line) == IF Wanted(line) THEN syms__add_dso(dsos, line) ELSE dsos

(* The loop over the lines.                                                *)
ReadLines(lines) ==
    LET dsos[k \in 0 .. Len(lines)] ==
            IF k = 0 THEN <<>> ELSE ReadLine(dsos[k - 1], lines[k])
    IN  dsos[Len(lines)]

(* A line fscanf cannot read, or a DYN file without .text, ends in err_out *)
(* and the whole table is freed.                                           *)
LoadFails(lines) ==
    \/ \E l \in Range(lines) : ~l.readable
    \/ \E l \in Range(lines) : Wanted(l) /\ get_elf_type(l.name) = "DYN" /\ ~elf(l.name).text

(* syms__load_pid: the table, with the mappings it was read from (history), *)
(* or NULL.                                                                *)
syms__load_file(lines) ==
    IF lines = NULL \/ LoadFails(lines) THEN NULL
    ELSE [dsos |-> ReadLines(lines), from |-> lines]

-----------------------------------------------------------------------------
(* syms_cache__get_syms.                                                   *)

Cached(t) == \E i \in DOMAIN data : data[i].tgid = t

(* A tgid that is not cached is loaded, and the result kept whatever it    *)
(* is; memory may run out on the way.  (A cached one changes nothing.)     *)
syms_cache__get_syms(t) ==
    /\ phase = "live" /\ ~Cached(t)
    /\ \E syms \in {syms__load_file(image[t]), NULL} :
          data' = Append(data, [tgid |-> t, syms |-> syms])
    /\ UNCHANGED <<image, replaced, tables, freed, ptr, phase, changes>>

(* The strdup and btf__new_empty of a new dso are not checked: strcmp or   *)
(* btf__add_str reads through the NULL later.                              *)
NameOrBtfMissing(t) ==
    /\ phase = "live" /\ ~Cached(t)
    /\ image[t] # NULL /\ \E line \in Range(image[t]) : Wanted(line)
    /\ phase' = "undefined"
    /\ UNCHANGED <<image, replaced, data, tables, freed, ptr, changes>>

-----------------------------------------------------------------------------
(* syms__map_addr.                                                         *)

Inside(r, addr) == r.start < addr /\ addr < r.end

(* syms__find_dso goes through the dsos, and the ranges of each, in order: *)
(* the first hit, or NULL.                                                 *)
Hits(dsos, addr) == {i \in DOMAIN dsos : \E r \in Range(dsos[i].ranges) : Inside(r, addr)}

syms__find_dso(dsos, addr) ==
    IF Hits(dsos, addr) = {} THEN NULL ELSE Min(Hits(dsos, addr))

HitRange(dso, addr) ==
    dso.ranges[SelectInSeq(dso.ranges, LAMBDA r : Inside(r, addr))]

\* Fault: the offset of the mapping within its file is left out.
OffsetInMapping(dso, addr) ==
    LET r == HitRange(dso, addr)
    IN  IF dso.type \in {"DYN", "VDSO"} THEN (addr - r.start + dso.delta) % AddrMod
        ELSE addr

(* In unsigned arithmetic: a place before the file's first wraps around.   *)
Offset(dso, addr) ==
    LET r == HitRange(dso, addr)
    IN  IF dso.type \in {"DYN", "VDSO"} THEN (addr - r.start + r.off + dso.delta) % AddrMod
        ELSE addr

(* The dsos whose ranges the walk reads.                                   *)
Visited(dsos, addr) ==
    LET hit == syms__find_dso(dsos, addr)
    IN  IF hit = NULL THEN DOMAIN dsos ELSE {hit} \cup {i \in DOMAIN dsos : i < hit}

sym_cmp(s1, s2) == s1.value < s2.value \/ (s1.value = s2.value /\ s1.name < s2.name)

(* dso__load_sym_table_from_elf: every section's named symbols but those   *)
(* of value 0, in an order that sym_cmp does not object to.                *)
Kept(syms) == {k \in DOMAIN syms : syms[k].value # 0 /\ syms[k].name # 0}

Sorted(t) == \A i, j \in DOMAIN t : i < j => ~sym_cmp(t[j], t[i])

Arrangements(syms) ==
    LET places == 1 .. Cardinality(Kept(syms))
    IN  {t \in {[k \in places |-> syms[p[k]]] : p \in Bijection(places, Kept(syms))} : Sorted(t)}

SymTables == [f \in Files |-> Arrangements(f.syms)]

\* Fault: the table is read again at every lookup.
NeedsLoadAlways(p) == p[1] \in DOMAIN data

NeedsLoad(p) == p \notin DOMAIN tables

(* The outcomes of dso__load_sym_table: type UNKNOWN has none to load; the *)
(* file, or the copy of the vdso, cannot be opened; a bad section or a     *)
(* lack of memory half way frees the fields of the dso, and the pointers   *)
(* to them stay; or the table is read.                                     *)
LoadOutcomes(dso) ==
    {[table |-> <<>>, frees |-> FALSE]}
    \cup (IF dso.type = "UNKNOWN" THEN {}
          ELSE {[table |-> <<>>, frees |-> TRUE]}
               \cup {[table |-> t, frees |-> FALSE] : t \in SymTables[elf(dso.name)]})

(* The binary search, by what AddrSearch shows of it: the last symbol at   *)
(* or below the offset, or 0.                                              *)
FindSym(syms, off) == Max({k \in DOMAIN syms : syms[k].value <= off} \cup {0})

Target(e, addr) == syms__find_dso(data[e].syms.dsos, addr)

(* A lookup that meets no freed memory, in a table already loaded or       *)
(* loaded now (one without symbols leaves dso->syms NULL); the caller may  *)
(* keep the pointer it gets.                                               *)
syms__map_addr(e, addr) ==
    /\ phase = "live" /\ data[e].syms # NULL
    /\ \A i \in Visited(data[e].syms.dsos, addr) : <<e, i>> \notin freed
    /\ Target(e, addr) # NULL
    /\ LET p   == <<e, Target(e, addr)>>
           dso == data[e].syms.dsos[Target(e, addr)]
       IN  \E o \in IF NeedsLoad(p) THEN LoadOutcomes(dso)
                    ELSE {[table |-> tables[p], frees |-> FALSE]} :
             LET k == IF o.frees THEN 0 ELSE FindSym(o.table, Offset(dso, addr)) IN
             /\ tables' = IF o.table = <<>> THEN tables
                          ELSE [q \in DOMAIN tables \cup {p} |->
                                  IF q = p THEN o.table ELSE tables[q]]
             /\ freed' = IF o.frees THEN freed \cup {p} ELSE freed
             /\ ptr' \in {ptr} \cup IF k = 0 THEN {}
                                   ELSE {[dso |-> p, k |-> k, sym |-> o.table[k]]}
    /\ UNCHANGED <<image, replaced, data, phase, changes>>

(* The walk reads the ranges, or the search the symbols, of a dso whose    *)
(* fields were freed: anything may happen from here on.                    *)
UseFreed(e, addr) ==
    /\ phase = "live" /\ data[e].syms # NULL
    /\ \E i \in Visited(data[e].syms.dsos, addr) : <<e, i>> \in freed
    /\ phase' = "undefined"
    /\ UNCHANGED <<image, replaced, data, tables, freed, ptr, changes>>

(* syms_cache__free and syms__free: every field of every dso, once; fields *)
(* freed already are freed twice.                                          *)
syms_cache__free ==
    /\ phase = "live"
    /\ phase' = IF freed # {} THEN "undefined" ELSE "freed"
    /\ data' = <<>> /\ tables' = <<>> /\ freed' = {} /\ ptr' = NULL
    /\ UNCHANGED <<image, replaced, changes>>

-----------------------------------------------------------------------------
(* The rest of the system: exec, dlopen, exit and reuse of the tgid; and   *)
(* the upgrade of a file.                                                  *)
ProcessChanges(t, lines) ==
    /\ changes < MaxChanges /\ image[t] # lines
    /\ image' = [image EXCEPT ![t] = lines]
    /\ changes' = changes + 1
    /\ UNCHANGED <<replaced, data, tables, freed, ptr, phase>>

FileReplaced(n) ==
    /\ changes < MaxChanges /\ n \notin replaced /\ n # VDSO
    /\ replaced' = replaced \cup {n}
    /\ changes' = changes + 1
    /\ UNCHANGED <<image, data, tables, freed, ptr, phase>>

-----------------------------------------------------------------------------
Lookup == \E e \in DOMAIN data, addr \in Addrs : syms__map_addr(e, addr) \/ UseFreed(e, addr)

World == \/ \E t \in Tgids, lines \in Images \cup {NULL} : ProcessChanges(t, lines)
         \/ \E n \in Names : FileReplaced(n)

Next == \/ \E t \in Tgids : syms_cache__get_syms(t) \/ NameOrBtfMissing(t)
        \/ Lookup
        \/ syms_cache__free
        \/ World

Spec == Init /\ [][Next]_vars

-----------------------------------------------------------------------------
(* Properties.                                                             *)

(* A symbol handed out stays what it was until the cache is freed: no      *)
(* later lookup reads its table again, moves it or, though a failing load  *)
(* frees the fields of a dso and leaves the pointers, frees it.            *)
HandedOutStays ==
    phase = "live" /\ ptr # NULL =>
        ptr.dso \notin freed /\ tables[ptr.dso][ptr.k] = ptr.sym

(* Where in its ELF file an address of the mapping lies, not cut to 64     *)
(* bits.                                                                   *)
Place(line, addr) ==
    LET f == elfAsMapped[line.name]
    IN  IF line.name # VDSO /\ f.type = "EXEC" THEN addr
        ELSE addr - line.start + line.off + IF line.name = VDSO THEN 0 ELSE f.delta

(* What is at an address, worked out forwards from the mappings: a symbol  *)
(* of a position-dependent file is at its value, of any other file where   *)
(* the mapping puts its place in the file.                                 *)
RuntimeAddr(line, f, s) == IF line.name # VDSO /\ f.type = "EXEC" THEN s.value
                           ELSE line.start - line.off + s.value
                                - IF line.name = VDSO THEN 0 ELSE f.delta

SymbolAt(line, addr) ==
    LET f == elfAsMapped[line.name]
        below == {s \in Range(f.syms) : s.value # 0 /\ s.name # 0
                                        /\ RuntimeAddr(line, f, s) <= addr}
    IN  IF below = {} THEN NULL
        ELSE CHOOSE s \in below : \A u \in below : u = s \/ sym_cmp(u, s)

(* Every address inside a mapping finds its file, and if that still is the *)
(* file the process runs, the nearest symbol below it; as of the time the  *)
(* mappings were read, whatever the process has done since.  Two kinds of  *)
(* address are excepted: the first byte of a mapping is outside it for     *)
(* syms__find_dso, and a place before the first of the ELF file, where     *)
(* sh_offset exceeds sh_addr, wraps and finds the last symbol.             *)
TranslationRight ==
    phase = "live" => \A e \in DOMAIN data : data[e].syms # NULL =>
        LET dsos == data[e].syms.dsos IN
        \A line \in Range(data[e].syms.from), addr \in Addrs :
            Wanted(line) /\ Inside(line, addr) =>
                LET i == syms__find_dso(dsos, addr)
                    k == FindSym(tables[<<e, i>>], Offset(dsos[i], addr))
                IN  /\ i # NULL /\ dsos[i].name = line.name
                    /\ (/\ <<e, i>> \in DOMAIN tables /\ line.name \notin replaced
                        /\ Place(line, addr) \in 0 .. AddrMod - 1) =>
                          SymbolAt(line, addr) = IF k = 0 THEN NULL ELSE tables[<<e, i>>][k]
=============================================================================
