--------------------------- MODULE ProcSymsProofs ---------------------------
(***************************************************************************)
(* Proofs about ProcSyms, for any processes, mappings, files and addresses *)
(* and any number of changes to them.  They rest on two facts about tables *)
(* and freed dsos: a loaded table is never loaded again, and the walk to a *)
(* dso stops at one that was freed.                                        *)
(***************************************************************************)
EXTENDS ProcSyms, FiniteSetTheorems, TLAPS

CacheInv ==
  /\ freed \cap DOMAIN tables = {}
  /\ ptr # NULL => /\ ptr.dso \in DOMAIN tables
                   /\ tables[ptr.dso][ptr.k] = ptr.sym

LEMMA NothingInNoTable == ASSUME NEW off PROVE FindSym(<<>>, off) = 0
<1>1. {k \in DOMAIN <<>> : <<>>[k].value <= off} \cup {0} = {0}
  OBVIOUS
<1>2. Max({0}) = 0
  BY DEF Max
<1> QED BY <1>1, <1>2 DEF FindSym

(* What a load can do: free without a table, or give a table.              *)
LEMMA Outcomes ==
  ASSUME NEW dso, NEW o \in LoadOutcomes(dso)
  PROVE  o.frees \in BOOLEAN /\ (o.frees => o.table = <<>>)
<1>1. \/ o = [table |-> <<>>, frees |-> TRUE]
      \/ \E t : o = [table |-> t, frees |-> FALSE]
  BY DEF LoadOutcomes
<1>2. CASE o = [table |-> <<>>, frees |-> TRUE]
  BY <1>2, Zenon
<1>3. ASSUME NEW t, o = [table |-> t, frees |-> FALSE]
      PROVE  o.frees \in BOOLEAN /\ (o.frees => o.table = <<>>)
  BY <1>3, Zenon
<1> QED BY <1>1, <1>2, <1>3

LEMMA MapAddrStep ==
  ASSUME CacheInv, NEW e, NEW addr, syms__map_addr(e, addr)
  PROVE  CacheInv'
<1> DEFINE p   == <<e, Target(e, addr)>>
           dso == data[e].syms.dsos[Target(e, addr)]
<1>1. p \notin freed
  BY DEF syms__map_addr, Visited, Target
<1>2. PICK o \in IF NeedsLoad(p) THEN LoadOutcomes(dso)
                 ELSE {[table |-> tables[p], frees |-> FALSE]} :
         LET k == IF o.frees THEN 0 ELSE FindSym(o.table, Offset(dso, addr)) IN
             /\ tables' = IF o.table = <<>> THEN tables
                          ELSE [q \in DOMAIN tables \cup {p} |->
                                  IF q = p THEN o.table ELSE tables[q]]
             /\ freed' = IF o.frees THEN freed \cup {p} ELSE freed
             /\ ptr' \in {ptr} \cup IF k = 0 THEN {}
                                   ELSE {[dso |-> p, k |-> k, sym |-> o.table[k]]}
  BY DEF syms__map_addr
<1> DEFINE k == IF o.frees THEN 0 ELSE FindSym(o.table, Offset(dso, addr))
<1>3. /\ o.frees \in BOOLEAN
      /\ o.frees => o.table = <<>> /\ p \notin DOMAIN tables
      /\ p \in DOMAIN tables => o.table = tables[p]
  <2>1. CASE NeedsLoad(p)
    BY <2>1, <1>2, Outcomes DEF NeedsLoad
  <2>2. CASE ~NeedsLoad(p)
    <3>1. o = [table |-> tables[p], frees |-> FALSE]
      BY <2>2, <1>2
    <3>2. o.table = tables[p] /\ o.frees = FALSE
      BY <3>1, Zenon
    <3> QED BY <3>2, Zenon
  <2> QED BY <2>1, <2>2
<1>4. /\ tables' = IF o.table = <<>> THEN tables
                   ELSE [q \in DOMAIN tables \cup {p} |-> IF q = p THEN o.table ELSE tables[q]]
      /\ freed' = IF o.frees THEN freed \cup {p} ELSE freed
      /\ ptr' = ptr \/ (k # 0 /\ ptr' = [dso |-> p, k |-> k, sym |-> o.table[k]])
  BY <1>2
<1>5. k # 0 => ~o.frees /\ o.table # <<>>
  BY NothingInNoTable
<1> HIDE DEF p, dso, k
<1>6. \A q \in DOMAIN tables : q \in DOMAIN tables' /\ tables'[q] = tables[q]
  BY <1>3, <1>4
<1>7. freed' \cap DOMAIN tables' = {}
  BY <1>1, <1>3, <1>4 DEF CacheInv
<1>8. ptr' # NULL => ptr'.dso \in DOMAIN tables' /\ tables'[ptr'.dso][ptr'.k] = ptr'.sym
  <2>1. CASE ptr' = ptr
    BY <2>1, <1>6 DEF CacheInv
  <2>2. CASE k # 0 /\ ptr' = [dso |-> p, k |-> k, sym |-> o.table[k]]
    <3>1. p \in DOMAIN tables' /\ tables'[p] = o.table
      BY <2>2, <1>4, <1>5
    <3> QED BY <2>2, <3>1
  <2> QED BY <1>4, <2>1, <2>2
<1> QED BY <1>7, <1>8 DEF CacheInv

(* CacheInv is inductive.                                                  *)
LEMMA CacheStep == CacheInv /\ [Next]_vars => CacheInv'
<1> SUFFICES ASSUME CacheInv, [Next]_vars PROVE CacheInv'
  OBVIOUS
<1>1. CASE UNCHANGED <<tables, freed, ptr>>
  BY <1>1 DEF CacheInv
<1>2. ASSUME NEW e, NEW addr, UseFreed(e, addr) PROVE CacheInv'
  BY <1>2 DEF UseFreed, CacheInv
<1>3. CASE syms_cache__free
  BY <1>3 DEF syms_cache__free, CacheInv
<1>4. CASE \E t \in Tgids : syms_cache__get_syms(t) \/ NameOrBtfMissing(t)
  BY <1>1, <1>4 DEF syms_cache__get_syms, NameOrBtfMissing
<1>5. CASE World
  BY <1>1, <1>5 DEF World, ProcessChanges, FileReplaced
<1>6. CASE UNCHANGED vars
  BY <1>1, <1>6 DEF vars
<1> QED BY <1>2, <1>3, <1>4, <1>5, <1>6, MapAddrStep DEF Next, Lookup

LEMMA CacheInit == Init => CacheInv
  BY DEF Init, CacheInv

(* A struct sym * handed out stays good until syms_cache__free: no lookup, *)
(* load or failing load touches its table again.                           *)
THEOREM PointersStay == Spec => []HandedOutStays
<1>1. CacheInv => HandedOutStays
  BY DEF CacheInv, HandedOutStays
<1> QED BY <1>1, CacheInit, CacheStep, PTL DEF Spec

-----------------------------------------------------------------------------
(* Facts about numbers, sequences and finite sets.                         *)

LEMMA Least ==
  ASSUME NEW T, T \subseteq Nat, T # {}
  PROVE  \E m \in T : \A n \in T : m <= n
<1>1. PICK m \in T : \A n \in T : <<n, m>> \notin OpToRel(<, Nat)
  BY NatLessThanWellFounded, WFMin
<1>2. \A n \in T : ~(n < m)
  BY <1>1 DEF OpToRel
<1> QED BY <1>2

LEMMA Induction ==
  ASSUME NEW S, 0 \in S, \A n \in Nat : n \in S => n + 1 \in S
  PROVE  Nat \subseteq S
<1> SUFFICES ASSUME Nat \ S # {} PROVE FALSE
  OBVIOUS
<1>1. PICK m \in Nat \ S : \A n \in Nat \ S : m <= n
  <2>1. Nat \ S \subseteq Nat
    OBVIOUS
  <2> QED BY <2>1, Least
<1>2. m # 0 /\ m - 1 \in Nat /\ m - 1 \in S
  BY <1>1
<1>3. (m - 1) + 1 \in S
  BY <1>2
<1> QED BY <1>1, <1>3

LEMMA MinIs ==
  ASSUME NEW T, T \subseteq Nat, T # {}
  PROVE  Min(T) \in T /\ \A y \in T : Min(T) <= y
<1>1. \E x \in T : \A y \in T : x <= y
  BY Least
<1> QED BY <1>1 DEF Min

(* A finite set has an upper bound that it reaches.                        *)
LEMMA MaxIs ==
  ASSUME NEW T, NEW n \in Nat, T \subseteq 0 .. n, T # {}
  PROVE  Max(T) \in T /\ \A y \in T : Max(T) >= y
<1> DEFINE U == {x \in Nat : \A y \in T : y <= x}
<1>1. n \in U
  OBVIOUS
<1>2. PICK m \in U : \A x \in U : m <= x
  BY <1>1, Least
<1>3. m \in T
  <2> SUFFICES ASSUME m \notin T PROVE FALSE
    OBVIOUS
  <2>1. PICK y \in T : TRUE
    OBVIOUS
  <2>2. \A z \in T : z \in Nat /\ z <= m /\ z # m
    BY <1>2
  <2>3. m \in Nat /\ m - 1 \in Nat
    BY <1>2, <2>1, <2>2
  <2>4. \A z \in T : z <= m - 1
    BY <2>2, <2>3
  <2>5. m - 1 \in U
    BY <2>3, <2>4
  <2> QED BY <1>2, <2>3, <2>5
<1>4. \A y \in T : m >= y
  BY <1>2
<1>5. \E x \in T : \A y \in T : x >= y
  BY <1>3, <1>4
<1> QED BY <1>5 DEF Max

LEMMA Element == ASSUME NEW S, NEW s \in Seq(S), NEW i \in 1 .. Len(s) PROVE s[i] \in S
  OBVIOUS

LEMMA RangeAppend ==
  ASSUME NEW S, NEW s \in Seq(S), NEW x \in S
  PROVE  Range(Append(s, x)) = Range(s) \cup {x}
<1> DEFINE t == Append(s, x)
<1>1. /\ Len(s) \in Nat /\ DOMAIN s = 1 .. Len(s) /\ DOMAIN t = 1 .. Len(s) + 1
      /\ t[Len(s) + 1] = x /\ \A i \in 1 .. Len(s) : t[i] = s[i]
  OBVIOUS
<1> HIDE DEF t
<1>2. \A i \in DOMAIN t : t[i] \in Range(s) \cup {x}
  BY <1>1 DEF Range
<1>3. \A i \in DOMAIN s : s[i] \in Range(t)
  BY <1>1 DEF Range
<1>4. x \in Range(t)
  BY <1>1 DEF Range
<1>5. Range(t) = Range(s) \cup {x}
  BY <1>2, <1>3, <1>4 DEF Range
<1> QED BY <1>5 DEF t

-----------------------------------------------------------------------------
(* Reading the mappings: which ranges and which types the dsos get.        *)

Rng == [start : Nat, end : Nat, off : Nat]

Dso == [name : Names, ranges : Seq(Rng), type : {"EXEC", "DYN", "VDSO", "UNKNOWN"},
        delta : Int]

(* A dso was typed as its file is, if that is the file that was mapped.    *)
AsMapped(d) ==
  d.name \notin replaced =>
    LET f == elfAsMapped[d.name] IN
    /\ d.type = IF d.name = VDSO THEN "VDSO"
                ELSE IF f.type \in {"EXEC", "DYN"} THEN f.type ELSE "UNKNOWN"
    /\ d.delta = IF d.type = "DYN" THEN f.delta ELSE 0

LEMMA ElfFiles ==
  ASSUME NEW n \in Names
  PROVE  elf(n) \in Files /\ (n \notin replaced => elf(n) = elfAsMapped[n])
  BY ConstantsAssumption DEF elf, Files, Names, Range

LEMMA NewDsoIs ==
  ASSUME NEW n \in Names
  PROVE  NewDso(n) \in Dso /\ NewDso(n).name = n /\ NewDso(n).ranges = <<>> /\ AsMapped(NewDso(n))
<1> DEFINE ty == get_elf_type(n)
           de == IF ty = "DYN" THEN elf(n).delta ELSE 0
<1>1. ty \in {"EXEC", "DYN", "VDSO", "UNKNOWN"}
  BY DEF get_elf_type
<1>2. elf(n) \in Files /\ elf(n).delta \in Int /\ (n \notin replaced => elf(n) = elfAsMapped[n])
  BY ElfFiles, FilesAssumption
<1>3. n \notin replaced => ty = IF n = VDSO THEN "VDSO"
                                ELSE IF elfAsMapped[n].type \in {"EXEC", "DYN"}
                                     THEN elfAsMapped[n].type ELSE "UNKNOWN"
  BY <1>2 DEF get_elf_type
<1>4. NewDso(n) = [name |-> n, ranges |-> <<>>, type |-> ty, delta |-> de]
  BY DEF NewDso
<1> HIDE DEF ty
<1>5. de \in Int /\ (n \notin replaced => de = IF ty = "DYN" THEN elfAsMapped[n].delta ELSE 0)
  BY <1>2
<1> HIDE DEF de
<1>6. <<>> \in Seq(Rng)
  OBVIOUS
<1>7. NewDso(n) \in Dso
  BY <1>1, <1>4, <1>5, <1>6 DEF Dso
<1>8. /\ NewDso(n).name = n /\ NewDso(n).ranges = <<>> /\ NewDso(n).type = ty
      /\ NewDso(n).delta = de
  BY <1>4
<1>9. AsMapped(NewDso(n))
  <2> HIDE DEF NewDso
  <2> QED BY <1>3, <1>5, <1>8 DEF AsMapped
<1> QED BY <1>7, <1>8, <1>9

LEMMA DsoOfName ==
  ASSUME NEW dsos \in Seq(Dso), NEW n
  PROVE  LET i == SelectInSeq(dsos, LAMBDA d : d.name = n)
         IN  i = 0 \/ (i \in 1 .. Len(dsos) /\ dsos[i].name = n)
<1> DEFINE I == {j \in 1 .. Len(dsos) : dsos[j].name = n}
<1>1. SelectInSeq(dsos, LAMBDA d : d.name = n) = IF I # {} THEN Min(I) ELSE 0
  BY DEF SelectInSeq
<1>2. I # {} => Min(I) \in I
  <2>1. I \subseteq Nat
    OBVIOUS
  <2> HIDE DEF I
  <2> QED BY <2>1, MinIs
<1>3. CASE I # {}
  BY <1>1, <1>2, <1>3
<1>4. CASE I = {}
  BY <1>1, <1>4
<1> QED BY <1>3, <1>4

(* What syms__add_dso changes: one dso, that of the line's file, which     *)
(* gets one more range.                                                    *)
Added(old, new, at, line) ==
  /\ new \in Seq(Dso) /\ Len(old) <= Len(new)
  /\ at \in 1 .. Len(new) /\ new[at].name = line.name
  /\ \A i \in 1 .. Len(new) : i # at => i \in 1 .. Len(old) /\ new[i] = old[i]
  /\ at \in 1 .. Len(old) =>
       /\ new[at].name = old[at].name
       /\ Range(new[at].ranges) = Range(old[at].ranges) \cup {RangeOf(line)}
  /\ at \notin 1 .. Len(old) => Range(new[at].ranges) = {RangeOf(line)}
  /\ (\A i \in 1 .. Len(old) : AsMapped(old[i])) => AsMapped(new[at])

Grown(d, r) == [d EXCEPT !.ranges = Append(@, r)]

LEMMA GrowDso ==
  ASSUME NEW d \in Dso, NEW r \in Rng
  PROVE  /\ Grown(d, r) \in Dso /\ Grown(d, r).name = d.name
         /\ Range(Grown(d, r).ranges) = Range(d.ranges) \cup {r}
         /\ AsMapped(d) => AsMapped(Grown(d, r))
<1> DEFINE e == Grown(d, r)
<1>1. d.ranges \in Seq(Rng) /\ Append(d.ranges, r) \in Seq(Rng)
  BY DEF Dso
<1>2. /\ e \in Dso /\ e.name = d.name /\ e.type = d.type /\ e.delta = d.delta
      /\ e.ranges = Append(d.ranges, r)
  BY <1>1 DEF Dso, Grown
<1>3. Range(e.ranges) = Range(d.ranges) \cup {r}
  BY <1>1, <1>2, RangeAppend
<1> HIDE DEF e
<1>4. AsMapped(d) => AsMapped(e)
  BY <1>2 DEF AsMapped
<1> QED BY <1>2, <1>3, <1>4 DEF e

LEMMA AddDso ==
  ASSUME NEW dsos \in Seq(Dso), NEW line, line.name \in Names, RangeOf(line) \in Rng
  PROVE  \E at : Added(dsos, syms__add_dso(dsos, line), at, line)
<1> DEFINE i   == SelectInSeq(dsos, LAMBDA d : d.name = line.name)
           all == IF i = 0 THEN Append(dsos, NewDso(line.name)) ELSE dsos
           at  == IF i = 0 THEN Len(all) ELSE i
           new == [all EXCEPT ![at].ranges = Append(@, RangeOf(line))]
           r == RangeOf(line)
           grown == Grown(all[at], r)
<1>1. syms__add_dso(dsos, line) = new
  BY DEF syms__add_dso
<1>2. i = 0 \/ (i \in 1 .. Len(dsos) /\ dsos[i].name = line.name)
  BY DsoOfName
<1> HIDE DEF i
<1>3. Len(dsos) \in Nat /\ r \in Rng
  OBVIOUS
<1>4. /\ NewDso(line.name) \in Dso /\ NewDso(line.name).name = line.name
      /\ NewDso(line.name).ranges = <<>> /\ AsMapped(NewDso(line.name))
  BY NewDsoIs
<1>5. /\ all \in Seq(Dso) /\ at \in 1 .. Len(all) /\ all[at] \in Dso /\ all[at].name = line.name
      /\ Len(dsos) <= Len(all) /\ Len(all) \in Nat
      /\ \A j \in 1 .. Len(all) : j # at => j \in 1 .. Len(dsos) /\ all[j] = dsos[j]
      /\ at \in 1 .. Len(dsos) => all[at] = dsos[at]
      /\ at \notin 1 .. Len(dsos) => all[at] = NewDso(line.name)
  <2>1. CASE i = 0
    BY <1>3, <1>4, <2>1
  <2>2. CASE i # 0
    <3>1. all = dsos /\ at = i /\ i \in 1 .. Len(dsos)
      BY <1>2, <2>2
    <3>2. dsos[i] \in Dso
      BY <3>1, Element
    <3> QED BY <1>2, <1>3, <2>2, <3>1, <3>2
  <2> QED BY <2>1, <2>2
<1>6. new = [all EXCEPT ![at] = grown]
  BY DEF Grown
<1>7. /\ grown \in Dso /\ grown.name = all[at].name
      /\ Range(grown.ranges) = Range(all[at].ranges) \cup {r}
      /\ AsMapped(all[at]) => AsMapped(grown)
  BY <1>3, <1>5, GrowDso
<1> HIDE DEF all, at, grown, new
<1>8. /\ new \in Seq(Dso) /\ Len(new) = Len(all) /\ new[at] = grown
      /\ \A j \in 1 .. Len(all) : j # at => new[j] = all[j]
  BY <1>5, <1>6, <1>7
<1>9. (\A j \in 1 .. Len(dsos) : AsMapped(dsos[j])) => AsMapped(new[at])
  <2>1. CASE at \in 1 .. Len(dsos)
    BY <1>5, <1>7, <1>8, <2>1
  <2>2. CASE at \notin 1 .. Len(dsos)
    BY <1>4, <1>5, <1>7, <1>8, <2>2
  <2> QED BY <2>1, <2>2
<1>10. Range(<<>>) = {}
  BY DEF Range
<1>11. at \notin 1 .. Len(dsos) => Range(new[at].ranges) = {r}
  <2> SUFFICES ASSUME at \notin 1 .. Len(dsos) PROVE Range(new[at].ranges) = {r}
    OBVIOUS
  <2>1. all[at].ranges = <<>>
    BY <1>4, <1>5
  <2> HIDE DEF r
  <2> QED BY <1>7, <1>8, <1>10, <2>1
<1>12. Added(dsos, new, at, line)
  BY <1>5, <1>7, <1>8, <1>9, <1>11 DEF Added
<1> QED BY <1>1, <1>12

(* After k lines: every wanted mapping is a range of a dso of its file,    *)
(* and every range is a mapping of its dso's file.                         *)
Read(dsos, lines, k) ==
  /\ dsos \in Seq(Dso)
  /\ \A m \in 1 .. k : Wanted(lines[m]) =>
       \E i \in 1 .. Len(dsos) : /\ dsos[i].name = lines[m].name
                                 /\ RangeOf(lines[m]) \in Range(dsos[i].ranges)
  /\ \A i \in 1 .. Len(dsos) : \A r \in Range(dsos[i].ranges) :
       \E m \in 1 .. k : lines[m].name = dsos[i].name /\ r = RangeOf(lines[m])
  /\ \A i \in 1 .. Len(dsos) : AsMapped(dsos[i])

LEMMA ReadOne ==
  ASSUME NEW lines, NEW k \in Nat, NEW dsos, Read(dsos, lines, k),
         RangeOf(lines[k + 1]) \in Rng
  PROVE  Read(ReadLine(dsos, lines[k + 1]), lines, k + 1)
<1> DEFINE line == lines[k + 1]
           new == ReadLine(dsos, line)
<1>0. dsos \in Seq(Dso) /\ Len(dsos) \in Nat
  BY DEF Read
<1>1. CASE Wanted(line)
  <2>1. line.name \in Names
    BY <1>1 DEF Wanted
  <2>2. PICK at : Added(dsos, syms__add_dso(dsos, line), at, line)
    BY <1>0, <2>1, AddDso
  <2>3. Added(dsos, new, at, line)
    BY <1>1, <2>2 DEF ReadLine
  <2> HIDE DEF new
  <2>4. Len(new) \in Nat
    BY <2>3 DEF Added
  <2>5. ASSUME NEW m \in 1 .. k + 1, Wanted(lines[m])
        PROVE  \E i \in 1 .. Len(new) : /\ new[i].name = lines[m].name
                                        /\ RangeOf(lines[m]) \in Range(new[i].ranges)
    <3>1. CASE m = k + 1
      BY <2>3, <3>1 DEF Added
    <3>2. CASE m \in 1 .. k
      <4>1. PICK i \in 1 .. Len(dsos) : /\ dsos[i].name = lines[m].name
                                        /\ RangeOf(lines[m]) \in Range(dsos[i].ranges)
        BY <2>5, <3>2 DEF Read
      <4>2. i \in 1 .. Len(new)
        BY <1>0, <2>3, <2>4 DEF Added
      <4>3. new[i].name = dsos[i].name /\ Range(dsos[i].ranges) \subseteq Range(new[i].ranges)
        BY <2>3, <4>2 DEF Added
      <4> QED BY <4>1, <4>2, <4>3
    <3> QED BY <3>1, <3>2
  <2>6. ASSUME NEW i \in 1 .. Len(new), NEW r \in Range(new[i].ranges)
        PROVE  \E m \in 1 .. k + 1 : lines[m].name = new[i].name /\ r = RangeOf(lines[m])
    <3>1. CASE r = RangeOf(line) /\ i = at
      <4>1. k + 1 \in 1 .. k + 1
        OBVIOUS
      <4> QED BY <2>3, <3>1, <4>1 DEF Added
    <3>2. CASE i \in 1 .. Len(dsos) /\ new[i].name = dsos[i].name /\ r \in Range(dsos[i].ranges)
      <4>1. PICK m \in 1 .. k : lines[m].name = dsos[i].name /\ r = RangeOf(lines[m])
        BY <3>2 DEF Read
      <4>2. m \in 1 .. k + 1
        OBVIOUS
      <4> QED BY <3>2, <4>1, <4>2
    <3>3. \/ r = RangeOf(line) /\ i = at
          \/ i \in 1 .. Len(dsos) /\ new[i].name = dsos[i].name /\ r \in Range(dsos[i].ranges)
      BY <2>3, <2>6 DEF Added
    <3> QED BY <3>1, <3>2, <3>3
  <2>7. ASSUME NEW i \in 1 .. Len(new) PROVE AsMapped(new[i])
    <3>1. \A j \in 1 .. Len(dsos) : AsMapped(dsos[j])
      BY DEF Read
    <3> QED BY <2>3, <3>1 DEF Added
  <2>8. new \in Seq(Dso)
    BY <2>3 DEF Added
  <2> QED BY <2>5, <2>6, <2>7, <2>8 DEF Read, new
<1>2. CASE ~Wanted(line)
  <2>1. new = dsos
    BY <1>2 DEF ReadLine
  <2>2. \A m \in 1 .. k + 1 : m \in 1 .. k \/ m = k + 1
    OBVIOUS
  <2>3. \A m \in 1 .. k : m \in 1 .. k + 1
    OBVIOUS
  <2>4. ASSUME NEW m \in 1 .. k + 1, Wanted(lines[m])
        PROVE  \E i \in 1 .. Len(dsos) : /\ dsos[i].name = lines[m].name
                                         /\ RangeOf(lines[m]) \in Range(dsos[i].ranges)
    BY <1>2, <2>2, <2>4 DEF Read
  <2>5. ASSUME NEW i \in 1 .. Len(dsos), NEW r \in Range(dsos[i].ranges)
        PROVE  \E m \in 1 .. k + 1 : lines[m].name = dsos[i].name /\ r = RangeOf(lines[m])
    BY <2>3 DEF Read
  <2>6. Read(dsos, lines, k + 1)
    BY <2>4, <2>5 DEF Read
  <2> QED BY <2>1, <2>6
<1> QED BY <1>1, <1>2

(* The loop, as a table of what it has read after each line.               *)
Rounds(lines, g, n) == /\ g \in [0 .. n -> Seq(Dso)] /\ g[0] = <<>>
                       /\ \A k \in 0 .. n : Read(g[k], lines, k)
                       /\ \A k \in 0 .. n : k > 0 => g[k] = ReadLine(g[k - 1], lines[k])

LEMMA RangesOfLines ==
  ASSUME NEW lines \in Images, NEW k \in 1 .. Len(lines)
  PROVE  RangeOf(lines[k]) \in Rng
  BY ImagesAssumption DEF RangeOf, Rng

LEMMA RoundsExist ==
  ASSUME NEW lines \in Images
  PROVE  \E g : Rounds(lines, g, Len(lines))
<1> DEFINE S == {n \in Nat : n <= Len(lines) => \E g : Rounds(lines, g, n)}
<1>0. Len(lines) \in Nat
  BY ImagesAssumption
<1>1. 0 \in S
  <2> DEFINE g == [k \in 0 .. 0 |-> <<>>]
  <2>1. <<>> \in Seq(Dso) /\ g \in [0 .. 0 -> Seq(Dso)] /\ g[0] = <<>>
    OBVIOUS
  <2>2. \A k \in 0 .. 0 : k = 0 /\ ~(k > 0)
    OBVIOUS
  <2>3. Read(<<>>, lines, 0)
    BY DEF Read
  <2> HIDE DEF g
  <2>4. Rounds(lines, g, 0)
    BY <2>1, <2>2, <2>3 DEF Rounds
  <2> QED BY <2>4
<1>2. ASSUME NEW n \in Nat, n \in S PROVE n + 1 \in S
  <2> SUFFICES ASSUME n + 1 <= Len(lines) PROVE \E g : Rounds(lines, g, n + 1)
    OBVIOUS
  <2>1. PICK g : Rounds(lines, g, n)
    BY <1>0, <1>2
  <2> DEFINE next == ReadLine(g[n], lines[n + 1])
             h == [k \in 0 .. n + 1 |-> IF k <= n THEN g[k] ELSE next]
  <2>2. n \in 0 .. n /\ n + 1 \in 1 .. Len(lines)
    BY <1>0
  <2>3. Read(g[n], lines, n)
    BY <2>1, <2>2 DEF Rounds
  <2>4. Read(next, lines, n + 1)
    BY <2>2, <2>3, RangesOfLines, ReadOne
  <2>5. next \in Seq(Dso)
    BY <2>4 DEF Read
  <2> HIDE DEF next
  <2>6. ASSUME NEW k \in 0 .. n + 1
        PROVE  \/ k \in 0 .. n /\ h[k] = g[k]
               \/ k = n + 1 /\ h[k] = next
    OBVIOUS
  <2>7. h \in [0 .. n + 1 -> Seq(Dso)]
    BY <2>1, <2>5 DEF Rounds
  <2>8. h[n] = g[n] /\ h[0] = g[0]
    OBVIOUS
  <2> HIDE DEF h
  <2>9. h[0] = <<>>
    BY <2>1, <2>8 DEF Rounds
  <2>10. \A k \in 0 .. n + 1 : Read(h[k], lines, k)
    BY <2>1, <2>4, <2>6 DEF Rounds
  <2>11. ASSUME NEW k \in 0 .. n + 1, k > 0 PROVE h[k] = ReadLine(h[k - 1], lines[k])
    <3>1. CASE k \in 0 .. n
      <4>1. k - 1 \in 0 .. n + 1 /\ k - 1 # n + 1
        BY <2>11, <3>1
      <4>2. h[k] = g[k] /\ h[k - 1] = g[k - 1]
        BY <2>6, <3>1, <4>1
      <4> QED BY <2>1, <2>11, <3>1, <4>2 DEF Rounds
    <3>2. CASE k = n + 1
      <4>1. k - 1 = n /\ h[k] = next
        BY <2>6, <3>2
      <4> QED BY <2>8, <3>2, <4>1 DEF next
    <3> QED BY <3>1, <3>2
  <2>12. Rounds(lines, h, n + 1)
    BY <2>7, <2>9, <2>10, <2>11 DEF Rounds
  <2> QED BY <2>12
<1> HIDE DEF S
<1>3. Nat \subseteq S
  BY <1>1, <1>2, Induction
<1> QED BY <1>0, <1>3 DEF S

LEMMA AllRead ==
  ASSUME NEW lines \in Images
  PROVE  Read(ReadLines(lines), lines, Len(lines))
<1> DEFINE n == Len(lines)
           B(g) == [k \in 0 .. n |-> IF k = 0 THEN <<>> ELSE ReadLine(g[k - 1], lines[k])]
           G == CHOOSE g : g = B(g)
<1>0. n \in Nat
  BY ImagesAssumption
<1>1. PICK f : Rounds(lines, f, n)
  BY RoundsExist
<1>2. ReadLines(lines) = G[n]
  BY DEF ReadLines
<1> HIDE DEF n
<1>3. f = B(f)
  <2>1. f \in [0 .. n -> Seq(Dso)]
    BY <1>1 DEF Rounds
  <2>2. ASSUME NEW k \in 0 .. n
        PROVE  f[k] = IF k = 0 THEN <<>> ELSE ReadLine(f[k - 1], lines[k])
    <3>1. k = 0 \/ k > 0
      BY <1>0
    <3> QED BY <1>1, <3>1 DEF Rounds
  <2> QED BY <2>1, <2>2
<1>4. G = B(G)
  BY <1>3
<1> HIDE DEF G
<1>5. \A k \in 0 .. n : G[k] = IF k = 0 THEN <<>> ELSE ReadLine(G[k - 1], lines[k])
  <2>1. \A k \in 0 .. n : B(G)[k] = IF k = 0 THEN <<>> ELSE ReadLine(G[k - 1], lines[k])
    OBVIOUS
  <2> HIDE DEF B
  <2> QED BY <1>4, <2>1
<1> DEFINE S == {k \in Nat : k <= n => Read(G[k], lines, k)}
<1>6. 0 \in S
  <2>1. G[0] = <<>>
    BY <1>0, <1>5
  <2>2. Read(<<>>, lines, 0)
    BY DEF Read
  <2> QED BY <2>1, <2>2
<1>7. ASSUME NEW k \in Nat, k \in S PROVE k + 1 \in S
  <2> SUFFICES ASSUME k + 1 <= n PROVE Read(G[k + 1], lines, k + 1)
    OBVIOUS
  <2>1. Read(G[k], lines, k)
    BY <1>0, <1>7
  <2>2. k + 1 \in 0 .. n /\ k + 1 # 0 /\ (k + 1) - 1 = k /\ k + 1 \in 1 .. n
    BY <1>0
  <2>3. G[k + 1] = ReadLine(G[k], lines[k + 1])
    BY <1>5, <2>2
  <2>4. RangeOf(lines[k + 1]) \in Rng
    BY <2>2, RangesOfLines DEF n
  <2> QED BY <2>1, <2>3, <2>4, ReadOne
<1> HIDE DEF S
<1>8. Nat \subseteq S
  BY <1>6, <1>7, Induction
<1>9. Read(G[n], lines, n)
  BY <1>0, <1>8 DEF S
<1> QED BY <1>2, <1>9 DEF n

-----------------------------------------------------------------------------
(* The search in a symbol table that was loaded.                           *)

Sym == [value : Nat, name : Nat]

NamedSyms(f) == {s \in Range(f.syms) : s.value # 0 /\ s.name # 0}

(* t holds the named symbols of f, sorted.                                 *)
TableOf(t, f, m) ==
  /\ m \in Nat /\ DOMAIN t = 1 .. m
  /\ \A i \in 1 .. m : t[i] \in Sym /\ t[i] \in NamedSyms(f)
  /\ \A s \in NamedSyms(f) : s \in Sym /\ \E i \in 1 .. m : t[i] = s
  /\ \A i, j \in 1 .. m : i < j => ~sym_cmp(t[j], t[i])

LEMMA LoadedTable ==
  ASSUME NEW f \in Files, NEW t \in SymTables[f]
  PROVE  \E m : TableOf(t, f, m)
<1> DEFINE syms == f.syms
           K == Kept(syms)
           m == Cardinality(K)
<1>1. syms \in Seq(Sym)
  BY FilesAssumption DEF Sym
<1>2. Len(syms) \in Nat /\ DOMAIN syms = 1 .. Len(syms) /\ \A i \in DOMAIN syms : syms[i] \in Sym
  BY <1>1
<1>3. K = {k \in DOMAIN syms : syms[k].value # 0 /\ syms[k].name # 0}
  BY DEF Kept
<1>4. t \in Arrangements(syms)
  BY DEF SymTables
<1> HIDE DEF syms, K
<1>5. m \in Nat
  <2>1. IsFiniteSet(1 .. Len(syms)) /\ K \subseteq 1 .. Len(syms)
    BY <1>2, <1>3, FS_Interval
  <2>2. IsFiniteSet(K)
    BY <2>1, FS_Subset
  <2> QED BY <2>2, FS_CardinalityType
<1>6. PICK p \in Bijection(1 .. m, K) : t = [k \in 1 .. m |-> syms[p[k]]]
  BY <1>4 DEF Arrangements, K
<1>7. \A i, j \in DOMAIN t : i < j => ~sym_cmp(t[j], t[i])
  BY <1>4 DEF Arrangements, Sorted
<1> HIDE DEF m
<1>8. p \in [1 .. m -> K] /\ \A k \in K : \E i \in 1 .. m : p[i] = k
  BY DEF Bijection, Injection, Surjection
<1>9. DOMAIN t = 1 .. m /\ \A i \in 1 .. m : t[i] = syms[p[i]]
  BY <1>6
<1>10. NamedSyms(f) = {s \in {syms[k] : k \in DOMAIN syms} : s.value # 0 /\ s.name # 0}
  BY DEF NamedSyms, Range, syms
<1>11. ASSUME NEW i \in 1 .. m PROVE t[i] \in Sym /\ t[i] \in NamedSyms(f)
  <2>1. p[i] \in K
    BY <1>8
  <2>2. p[i] \in DOMAIN syms /\ syms[p[i]].value # 0 /\ syms[p[i]].name # 0
    BY <1>3, <2>1
  <2> QED BY <1>2, <1>9, <1>10, <2>2
<1>12. ASSUME NEW s \in NamedSyms(f) PROVE s \in Sym /\ \E i \in 1 .. m : t[i] = s
  <2>1. PICK k \in DOMAIN syms : s = syms[k] /\ syms[k].value # 0 /\ syms[k].name # 0
    BY <1>10
  <2>2. k \in K
    BY <1>3, <2>1
  <2>3. PICK i \in 1 .. m : p[i] = k
    BY <1>8, <2>2
  <2> QED BY <1>2, <1>9, <2>1, <2>3
<1>13. TableOf(t, f, m)
  BY <1>5, <1>7, <1>9, <1>11, <1>12 DEF TableOf
<1> QED BY <1>13

LEMMA FindSymIs ==
  ASSUME NEW f, NEW t, NEW m, TableOf(t, f, m), NEW off \in Int
  PROVE  /\ FindSym(t, off) \in 0 .. m
         /\ FindSym(t, off) # 0 => t[FindSym(t, off)].value <= off
         /\ \A j \in 1 .. m : t[j].value <= off => j <= FindSym(t, off)
<1> DEFINE T == {k \in DOMAIN t : t[k].value <= off} \cup {0}
<1>1. m \in Nat /\ DOMAIN t = 1 .. m
  BY DEF TableOf
<1>2. T \subseteq 0 .. m /\ 0 \in T
  BY <1>1
<1>3. FindSym(t, off) = Max(T)
  BY DEF FindSym
<1>4. /\ \A k \in T : k # 0 => t[k].value <= off
      /\ \A j \in 1 .. m : t[j].value <= off => j \in T
  BY <1>1
<1> HIDE DEF T
<1>5. Max(T) \in T /\ \A y \in T : Max(T) >= y
  BY <1>1, <1>2, MaxIs
<1>6. Max(T) \in 0 .. m
  BY <1>2, <1>5
<1>7. \A j \in 1 .. m : t[j].value <= off => j <= Max(T)
  BY <1>1, <1>4, <1>5, <1>6
<1> QED BY <1>3, <1>4, <1>5, <1>6, <1>7

(* The offset within the file and the place in memory say the same.        *)
SamePlace(line, f, addr, off) ==
  \A s \in Sym : RuntimeAddr(line, f, s) <= addr <=> s.value <= off

LEMMA NearestSymbol ==
  ASSUME NEW line, NEW addr, NEW off \in Int, NEW t, NEW m,
         TableOf(t, elfAsMapped[line.name], m),
         SamePlace(line, elfAsMapped[line.name], addr, off)
  PROVE  SymbolAt(line, addr) = IF FindSym(t, off) = 0 THEN NULL ELSE t[FindSym(t, off)]
<1> DEFINE f == elfAsMapped[line.name]
           k == FindSym(t, off)
           below == {s \in Range(f.syms) : s.value # 0 /\ s.name # 0
                                            /\ RuntimeAddr(line, f, s) <= addr}
<1>1. SymbolAt(line, addr) =
        IF below = {} THEN NULL ELSE CHOOSE s \in below : \A u \in below : u = s \/ sym_cmp(u, s)
  BY DEF SymbolAt
<1>2. /\ k \in 0 .. m /\ (k # 0 => t[k].value <= off)
      /\ \A j \in 1 .. m : t[j].value <= off => j <= k
  BY FindSymIs
<1>3. /\ m \in Nat /\ \A i \in 1 .. m : t[i] \in Sym /\ t[i] \in NamedSyms(f)
      /\ \A s \in NamedSyms(f) : s \in Sym /\ \E i \in 1 .. m : t[i] = s
      /\ \A i, j \in 1 .. m : i < j => ~sym_cmp(t[j], t[i])
  BY DEF TableOf
<1>4. below = {s \in NamedSyms(f) : s.value <= off}
  BY <1>3 DEF NamedSyms, SamePlace
<1> HIDE DEF below, f, k
<1>5. CASE k = 0
  <2>1. \A j \in 1 .. m : ~(t[j].value <= off)
    BY <1>2, <1>5
  <2>2. below = {}
    BY <1>3, <1>4, <2>1
  <2> QED BY <1>1, <1>5, <2>2 DEF k
<1>6. CASE k # 0
  <2>1. k \in 1 .. m
    BY <1>2, <1>3, <1>6
  <2>2. t[k] \in below /\ t[k] \in Sym
    BY <1>2, <1>3, <1>4, <1>6, <2>1
  <2>3. ASSUME NEW u \in below PROVE u \in Sym /\ (u = t[k] \/ sym_cmp(u, t[k]))
    <3>1. u \in Sym /\ u.value <= off
      BY <1>3, <1>4
    <3>2. PICK j \in 1 .. m : t[j] = u
      BY <1>3, <1>4
    <3>3. j = k \/ j < k
      BY <1>2, <1>3, <2>1, <3>1, <3>2
    <3>4. j < k => ~sym_cmp(t[k], u)
      BY <1>3, <2>1, <3>2
    <3>5. u = t[k] \/ sym_cmp(u, t[k]) \/ sym_cmp(t[k], u)
      BY <2>2, <3>1 DEF sym_cmp, Sym
    <3> QED BY <3>1, <3>2, <3>3, <3>4, <3>5
  <2> DEFINE c == CHOOSE s \in below : \A u \in below : u = s \/ sym_cmp(u, s)
  <2>4. c \in below /\ \A u \in below : u = c \/ sym_cmp(u, c)
    BY <2>2, <2>3
  <2> HIDE DEF c
  <2>5. c \in Sym /\ (c = t[k] \/ sym_cmp(c, t[k])) /\ (t[k] = c \/ sym_cmp(t[k], c))
    BY <2>2, <2>3, <2>4
  <2>6. ~(sym_cmp(c, t[k]) /\ sym_cmp(t[k], c))
    BY <2>2, <2>5 DEF sym_cmp, Sym
  <2>7. c = t[k]
    BY <2>5, <2>6
  <2> QED BY <1>1, <1>6, <2>2, <2>7 DEF c, k
<1> QED BY <1>5, <1>6

LEMMA SmallMod == ASSUME NEW n \in Nat \ {0}, NEW x \in 0 .. n - 1 PROVE x % n = x
  OBVIOUS

(* Where the place is one of the address space nothing wraps.              *)
LEMMA OffsetIsPlace ==
  ASSUME NEW d \in Dso, AsMapped(d), d.name \notin replaced, d.type # "UNKNOWN",
         NEW line, line.name = d.name, RangeOf(line) \in Rng, NEW addr \in Nat,
         HitRange(d, addr) = RangeOf(line), Place(line, addr) \in 0 .. AddrMod - 1
  PROVE  /\ Offset(d, addr) \in Int
         /\ SamePlace(line, elfAsMapped[line.name], addr, Offset(d, addr))
<1> DEFINE f == elfAsMapped[line.name]
           off == Offset(d, addr)
<1>1. line.start \in Nat /\ line.end \in Nat /\ line.off \in Nat
  BY DEF RangeOf, Rng
<1>2. off = IF d.type \in {"DYN", "VDSO"} THEN (addr - line.start + line.off + d.delta) % AddrMod
            ELSE addr
  BY DEF Offset, RangeOf
<1>3. d.delta \in Int /\ d.name \in Names
  BY DEF Dso
<1>4. f.delta \in Int
  <2>1. f \in Files
    BY <1>3 DEF Files, Range, Names
  <2> QED BY <2>1, FilesAssumption
<1>5. /\ d.type = IF line.name = VDSO THEN "VDSO"
                  ELSE IF f.type \in {"EXEC", "DYN"} THEN f.type ELSE "UNKNOWN"
      /\ d.delta = IF d.type = "DYN" THEN f.delta ELSE 0
  BY DEF AsMapped
<1> HIDE DEF f, off
<1>6. off = Place(line, addr)
  <2> DEFINE x == addr - line.start + line.off + d.delta
  <2>1. d.type \in {"DYN", "VDSO"} => Place(line, addr) = x
    <3>1. CASE line.name = VDSO
      BY <1>1, <1>5, <3>1 DEF Place
    <3>2. CASE line.name # VDSO
      BY <1>1, <1>5, <3>2 DEF Place, f
    <3> QED BY <3>1, <3>2
  <2>2. d.type \notin {"DYN", "VDSO"} => Place(line, addr) = addr
    BY <1>5 DEF Place, f
  <2> HIDE DEF x
  <2>3. d.type \in {"DYN", "VDSO"} => x % AddrMod = x
    BY <2>1, SmallMod, ConstantsAssumption
  <2> QED BY <1>2, <2>1, <2>2, <2>3 DEF x
<1>7. ASSUME NEW s \in Sym PROVE RuntimeAddr(line, f, s) <= addr <=> s.value <= off
  <2>0. s.value \in Nat
    BY DEF Sym
  <2>1. CASE line.name = VDSO
    <3>1. off = addr - line.start + line.off
      BY <1>1, <1>6, <2>1 DEF Place
    <3>2. RuntimeAddr(line, f, s) = line.start - line.off + s.value - 0
      BY <2>1 DEF RuntimeAddr
    <3> QED BY <1>1, <2>0, <3>1, <3>2
  <2>2. CASE line.name # VDSO /\ f.type = "EXEC"
    <3>1. off = addr
      BY <1>6, <2>2 DEF Place, f
    <3>2. RuntimeAddr(line, f, s) = s.value
      BY <2>2 DEF RuntimeAddr
    <3> QED BY <3>1, <3>2
  <2>3. CASE line.name # VDSO /\ f.type = "DYN"
    <3>1. off = addr - line.start + line.off + f.delta
      BY <1>1, <1>6, <2>3 DEF Place, f
    <3>2. RuntimeAddr(line, f, s) = line.start - line.off + s.value - f.delta
      BY <2>3 DEF RuntimeAddr
    <3> QED BY <1>1, <1>4, <2>0, <3>1, <3>2
  <2> QED BY <1>5, <2>1, <2>2, <2>3
<1> QED BY <1>6, <1>7 DEF SamePlace, f, off

-----------------------------------------------------------------------------
(* From an address to its dso and range.                                   *)

(* The dsos hold the wanted mappings of lines and no others.               *)
Mapped(dsos, lines) ==
  /\ dsos \in Seq(Dso)
  /\ \A m \in 1 .. Len(lines) : Wanted(lines[m]) =>
       \E i \in 1 .. Len(dsos) : /\ dsos[i].name = lines[m].name
                                 /\ RangeOf(lines[m]) \in Range(dsos[i].ranges)
  /\ \A i \in 1 .. Len(dsos) : \A r \in Range(dsos[i].ranges) :
       \E m \in 1 .. Len(lines) : lines[m].name = dsos[i].name /\ r = RangeOf(lines[m])

(* Mappings do not overlap, so a range around addr is the mapping's own.   *)
LEMMA OneRange ==
  ASSUME NEW lines \in Images, NEW dsos, Mapped(dsos, lines), NEW line \in Range(lines),
         NEW addr \in Nat, Inside(line, addr),
         NEW i \in 1 .. Len(dsos), NEW r \in Range(dsos[i].ranges), Inside(r, addr)
  PROVE  r = RangeOf(line) /\ dsos[i].name = line.name
<1>1. PICK n \in 1 .. Len(lines) : line = lines[n]
  BY ImagesAssumption DEF Range
<1>2. PICK m \in 1 .. Len(lines) : lines[m].name = dsos[i].name /\ r = RangeOf(lines[m])
  BY DEF Mapped
<1>3. /\ n = m \/ lines[n].end <= lines[m].start \/ lines[m].end <= lines[n].start
      /\ lines[n].start \in Nat /\ lines[n].end \in Nat
      /\ lines[m].start \in Nat /\ lines[m].end \in Nat
  BY ImagesAssumption
<1>4. /\ lines[n].start < addr /\ addr < lines[n].end
      /\ lines[m].start < addr /\ addr < lines[m].end
  BY <1>1, <1>2 DEF Inside, RangeOf
<1>5. n = m
  BY <1>3, <1>4
<1> QED BY <1>1, <1>2, <1>5

LEMMA RangeIndex ==
  ASSUME NEW s \in Seq(Rng), NEW addr, NEW r \in Range(s), Inside(r, addr)
  PROVE  LET h == s[SelectInSeq(s, LAMBDA x : Inside(x, addr))]
         IN  h \in Range(s) /\ Inside(h, addr)
<1> DEFINE I == {j \in 1 .. Len(s) : Inside(s[j], addr)}
<1>1. SelectInSeq(s, LAMBDA x : Inside(x, addr)) = IF I # {} THEN Min(I) ELSE 0
  BY DEF SelectInSeq
<1>2. I # {} /\ I \subseteq Nat
  BY DEF Range
<1>3. Min(I) \in I
  <2> HIDE DEF I
  <2> QED BY <1>2, MinIs
<1>4. Min(I) \in 1 .. Len(s) /\ Inside(s[Min(I)], addr)
  BY <1>3
<1> HIDE DEF I
<1>5. s[Min(I)] \in Range(s)
  BY <1>4 DEF Range
<1> QED BY <1>1, <1>2, <1>4, <1>5

LEMMA DsoFound ==
  ASSUME NEW lines \in Images, NEW dsos, Mapped(dsos, lines), NEW line \in Range(lines),
         Wanted(line), NEW addr \in Nat, Inside(line, addr)
  PROVE  LET i == syms__find_dso(dsos, addr)
         IN  /\ i # NULL /\ i \in 1 .. Len(dsos) /\ dsos[i].name = line.name
             /\ HitRange(dsos[i], addr) = RangeOf(line)
<1> DEFINE H == Hits(dsos, addr)
           i == syms__find_dso(dsos, addr)
<1>1. dsos \in Seq(Dso) /\ Len(dsos) \in Nat /\ DOMAIN dsos = 1 .. Len(dsos)
  BY DEF Mapped
<1>2. H = {j \in 1 .. Len(dsos) : \E r \in Range(dsos[j].ranges) : Inside(r, addr)}
  BY <1>1 DEF Hits
<1>3. H # {} /\ H \subseteq Nat /\ H \subseteq 1 .. Len(dsos)
  <2>1. PICK n \in 1 .. Len(lines) : line = lines[n]
    BY ImagesAssumption DEF Range
  <2>2. PICK j \in 1 .. Len(dsos) : RangeOf(line) \in Range(dsos[j].ranges)
    BY <2>1 DEF Mapped
  <2>3. Inside(RangeOf(line), addr)
    BY DEF Inside, RangeOf
  <2> QED BY <1>2, <2>2, <2>3
<1>4. i = Min(H)
  BY <1>3 DEF syms__find_dso
<1> HIDE DEF H, i
<1>5. i \in H
  BY <1>3, <1>4, MinIs
<1>6. i \in 1 .. Len(dsos) /\ i \in Nat
  BY <1>3, <1>5
<1>7. i # NULL
  BY <1>6, ConstantsAssumption
<1>8. PICK r \in Range(dsos[i].ranges) : Inside(r, addr)
  BY <1>2, <1>5
<1>9. dsos[i].name = line.name
  BY <1>6, <1>8, OneRange
<1>10. dsos[i].ranges \in Seq(Rng)
  <2>1. dsos[i] \in Dso
    BY <1>1, <1>6, Element
  <2> QED BY <2>1 DEF Dso
<1>11. HitRange(dsos[i], addr) \in Range(dsos[i].ranges) /\ Inside(HitRange(dsos[i], addr), addr)
  BY <1>8, <1>10, RangeIndex DEF HitRange
<1>12. HitRange(dsos[i], addr) = RangeOf(line)
  BY <1>6, <1>11, OneRange
<1> QED BY <1>6, <1>7, <1>9, <1>12 DEF i

-----------------------------------------------------------------------------
(* What the cache holds, while it lives.                                   *)

(* Every table of symbols the cache holds was read from the mappings of    *)
(* its process; symbols are loaded for files that have some, and are those *)
(* of the file unless it was replaced.                                     *)
EntriesInv ==
  /\ \E S : data \in Seq(S)
  /\ \A e \in 1 .. Len(data) : data[e].syms # NULL =>
       /\ data[e].syms.from \in Images
       /\ Mapped(data[e].syms.dsos, data[e].syms.from)
       /\ \A i \in 1 .. Len(data[e].syms.dsos) : AsMapped(data[e].syms.dsos[i])

LoadedFor(t, d) == /\ d.type # "UNKNOWN"
                   /\ d.name \notin replaced => t \in SymTables[elfAsMapped[d.name]]

TablesInv ==
  \A e, i : <<e, i>> \in DOMAIN tables =>
     /\ e \in 1 .. Len(data) /\ data[e].syms # NULL /\ i \in 1 .. Len(data[e].syms.dsos)
     /\ LoadedFor(tables[<<e, i>>], data[e].syms.dsos[i])

TransInv == /\ image \in [Tgids -> Images \cup {NULL}]
            /\ phase = "live" => EntriesInv /\ TablesInv

LEMMA AppendIs ==
  ASSUME NEW s, \E S : s \in Seq(S), NEW x
  PROVE  /\ \E S : Append(s, x) \in Seq(S)
         /\ Len(s) \in Nat /\ DOMAIN s = 1 .. Len(s)
         /\ Len(Append(s, x)) = Len(s) + 1 /\ Append(s, x)[Len(s) + 1] = x
         /\ \A i \in 1 .. Len(s) : Append(s, x)[i] = s[i]
<1>1. PICK S : s \in Seq(S)
  OBVIOUS
<1> DEFINE T == S \cup {x}
<1>2. s \in Seq(T) /\ x \in T
  <2>1. Len(s) \in Nat /\ s = [i \in 1 .. Len(s) |-> s[i]] /\ \A i \in 1 .. Len(s) : s[i] \in S
    BY <1>1
  <2>2. s \in [1 .. Len(s) -> T]
    BY <2>1
  <2> QED BY <2>1, <2>2
<1> HIDE DEF T
<1>3. Append(s, x) \in Seq(T)
  BY <1>2
<1> QED BY <1>2, <1>3

LEMMA GetSymsKeeps ==
  ASSUME TransInv, phase = "live", NEW t \in Tgids, syms_cache__get_syms(t)
  PROVE  EntriesInv' /\ TablesInv'
<1> DEFINE n == Len(data)
<1>1. PICK syms \in {syms__load_file(image[t]), NULL} :
         data' = Append(data, [tgid |-> t, syms |-> syms])
  BY DEF syms_cache__get_syms
<1>2. UNCHANGED <<tables, replaced>>
  BY DEF syms_cache__get_syms
<1>3. /\ \E S : data' \in Seq(S)
      /\ n \in Nat /\ Len(data') = n + 1
      /\ data'[n + 1] = [tgid |-> t, syms |-> syms]
      /\ \A e \in 1 .. n : data'[e] = data[e]
  <2> DEFINE x == [tgid |-> t, syms |-> syms]
  <2>1. \E S : data \in Seq(S)
    BY DEF TransInv, EntriesInv
  <2> HIDE DEF x
  <2>2. /\ \E S : Append(data, x) \in Seq(S)
        /\ Len(data) \in Nat
        /\ Len(Append(data, x)) = Len(data) + 1 /\ Append(data, x)[Len(data) + 1] = x
        /\ \A i \in 1 .. Len(data) : Append(data, x)[i] = data[i]
    BY <2>1, AppendIs
  <2>3. data' = Append(data, x)
    BY <1>1 DEF x
  <2>4. data'[n + 1] = x
    BY <2>2, <2>3
  <2> QED BY <2>2, <2>3, <2>4 DEF x
<1>4. data'[n + 1].syms = syms
  BY <1>3
<1>5. syms # NULL => /\ syms.from \in Images /\ Mapped(syms.dsos, syms.from)
                     /\ \A i \in 1 .. Len(syms.dsos) : AsMapped(syms.dsos[i])
  <2> SUFFICES ASSUME syms # NULL
               PROVE  /\ syms.from \in Images /\ Mapped(syms.dsos, syms.from)
                      /\ \A i \in 1 .. Len(syms.dsos) : AsMapped(syms.dsos[i])
    OBVIOUS
  <2> DEFINE lines == image[t]
             all == ReadLines(lines)
  <2>1. lines # NULL /\ syms = [dsos |-> all, from |-> lines]
    BY <1>1 DEF syms__load_file
  <2>2. lines \in Images
    BY <2>1 DEF TransInv
  <2> HIDE DEF lines
  <2>3. Read(all, lines, Len(lines))
    BY <2>2, AllRead
  <2> HIDE DEF all
  <2>4. Mapped(all, lines) /\ \A i \in 1 .. Len(all) : AsMapped(all[i])
    BY <2>3 DEF Read, Mapped
  <2>5. syms.dsos = all /\ syms.from = lines
    BY <2>1
  <2> QED BY <2>2, <2>4, <2>5
<1> HIDE DEF n
<1>6. ASSUME NEW e \in 1 .. n + 1, data'[e].syms # NULL
      PROVE  /\ data'[e].syms.from \in Images
             /\ Mapped(data'[e].syms.dsos, data'[e].syms.from)
             /\ \A i \in 1 .. Len(data'[e].syms.dsos) : AsMapped(data'[e].syms.dsos[i])
  <2>1. CASE e = n + 1
    BY <1>4, <1>5, <1>6, <2>1
  <2>2. CASE e \in 1 .. n
    BY <1>3, <1>6, <2>2 DEF TransInv, EntriesInv, n
  <2> QED BY <1>3, <2>1, <2>2
<1>7. EntriesInv'
  BY <1>2, <1>3, <1>6 DEF EntriesInv, AsMapped
<1>8. ASSUME NEW e, NEW i, <<e, i>> \in DOMAIN tables
      PROVE  /\ e \in 1 .. n + 1 /\ data'[e].syms # NULL /\ i \in 1 .. Len(data'[e].syms.dsos)
             /\ LoadedFor(tables[<<e, i>>], data'[e].syms.dsos[i])
  <2>1. /\ e \in 1 .. n /\ data[e].syms # NULL /\ i \in 1 .. Len(data[e].syms.dsos)
        /\ LoadedFor(tables[<<e, i>>], data[e].syms.dsos[i])
    BY <1>8 DEF TransInv, TablesInv, n
  <2>2. e \in 1 .. n + 1 /\ data'[e] = data[e]
    BY <1>3, <2>1
  <2> QED BY <2>1, <2>2
<1>9. TablesInv'
  BY <1>2, <1>3, <1>8 DEF TablesInv, LoadedFor
<1> QED BY <1>7, <1>9

LEMMA LoadedWell ==
  ASSUME NEW d, d.name \in Names, NEW o \in LoadOutcomes(d), o.table # <<>>
  PROVE  LoadedFor(o.table, d)
<1>1. PICK u : /\ d.type # "UNKNOWN" /\ u \in SymTables[elf(d.name)]
               /\ o = [table |-> u, frees |-> FALSE]
  <2>1. o # [table |-> <<>>, frees |-> FALSE] /\ o # [table |-> <<>>, frees |-> TRUE]
    OBVIOUS
  <2> QED BY <2>1 DEF LoadOutcomes
<1>2. o.table = u
  BY <1>1, Zenon
<1> QED BY <1>1, <1>2, ElfFiles DEF LoadedFor

LEMMA MapAddrKeeps ==
  ASSUME TransInv, phase = "live", NEW e \in DOMAIN data, NEW addr, syms__map_addr(e, addr)
  PROVE  EntriesInv' /\ TablesInv'
<1> DEFINE j   == Target(e, addr)
           p   == <<e, j>>
           dso == data[e].syms.dsos[j]
<1>1. UNCHANGED <<data, replaced>> /\ data[e].syms # NULL /\ j # NULL
  BY DEF syms__map_addr
<1>2. EntriesInv'
  BY <1>1 DEF TransInv, EntriesInv, AsMapped
<1>3. e \in 1 .. Len(data) /\ Len(data) \in Nat
  BY AppendIs DEF TransInv, EntriesInv
<1>4. Mapped(data[e].syms.dsos, data[e].syms.from)
  BY <1>1, <1>3 DEF TransInv, EntriesInv
<1>5. j \in 1 .. Len(data[e].syms.dsos)
  <2> DEFINE ds == data[e].syms.dsos
             H == Hits(ds, addr)
  <2>1. ds \in Seq(Dso) /\ j = syms__find_dso(ds, addr)
    BY <1>4 DEF Mapped, Target
  <2> HIDE DEF ds, j
  <2>2. DOMAIN ds = 1 .. Len(ds) /\ Len(ds) \in Nat
    BY <2>1
  <2>3. H \subseteq 1 .. Len(ds) /\ H \subseteq Nat
    BY <2>2 DEF Hits
  <2>4. H # {} /\ j = Min(H)
    BY <1>1, <2>1 DEF syms__find_dso
  <2> HIDE DEF H
  <2>5. j \in H
    BY <2>3, <2>4, MinIs
  <2> QED BY <2>3, <2>5 DEF ds
<1>6. dso.name \in Names
  <2>1. data[e].syms.dsos \in Seq(Dso)
    BY <1>4 DEF Mapped
  <2>2. dso \in Dso
    BY <1>5, <2>1, Element
  <2> QED BY <2>2 DEF Dso
<1>7. PICK o \in IF NeedsLoad(p) THEN LoadOutcomes(dso)
                 ELSE {[table |-> tables[p], frees |-> FALSE]} :
         tables' = IF o.table = <<>> THEN tables
                   ELSE [q \in DOMAIN tables \cup {p} |-> IF q = p THEN o.table ELSE tables[q]]
  BY DEF syms__map_addr
<1> HIDE DEF j, dso
<1>8. o.table # <<>> => LoadedFor(o.table, dso)
  <2>1. CASE NeedsLoad(p)
    BY <1>6, <1>7, <2>1, LoadedWell
  <2>2. CASE ~NeedsLoad(p)
    <3>1. o = [table |-> tables[p], frees |-> FALSE]
      BY <1>7, <2>2
    <3>2. o.table = tables[p] /\ p \in DOMAIN tables
      BY <2>2, <3>1 DEF NeedsLoad
    <3>3. LoadedFor(tables[p], dso)
      BY <3>2 DEF TransInv, TablesInv, dso
    <3> QED BY <3>2, <3>3
  <2> QED BY <2>1, <2>2
<1>9. ASSUME NEW x, NEW i, <<x, i>> \in DOMAIN tables'
      PROVE  /\ x \in 1 .. Len(data) /\ data[x].syms # NULL /\ i \in 1 .. Len(data[x].syms.dsos)
             /\ LoadedFor(tables'[<<x, i>>], data[x].syms.dsos[i])
  <2>1. CASE <<x, i>> = p /\ o.table # <<>>
    <3>1. tables'[<<x, i>>] = o.table /\ x = e /\ i = j
      BY <1>7, <2>1
    <3> QED BY <1>1, <1>3, <1>5, <1>8, <2>1, <3>1 DEF dso
  <2>2. CASE ~(<<x, i>> = p /\ o.table # <<>>)
    <3> DEFINE q == <<x, i>>
    <3>0. q \in DOMAIN tables' /\ (q # p \/ o.table = <<>>)
      BY <1>9, <2>2
    <3> HIDE DEF q, p
    <3>1. q \in DOMAIN tables /\ tables'[q] = tables[q]
      BY <1>7, <3>0
    <3>2. <<x, i>> \in DOMAIN tables /\ tables'[<<x, i>>] = tables[<<x, i>>]
      BY <3>1 DEF q
    <3> QED BY <3>2 DEF TransInv, TablesInv
  <2> QED BY <2>1, <2>2
<1>10. TablesInv'
  BY <1>1, <1>9 DEF TablesInv, LoadedFor
<1> QED BY <1>2, <1>10

LEMMA TransStep == TransInv /\ [Next]_vars => TransInv'
<1> SUFFICES ASSUME TransInv, [Next]_vars PROVE TransInv'
  OBVIOUS
<1>0. ASSUME UNCHANGED <<data, tables, replaced>>
      PROVE  (EntriesInv => EntriesInv') /\ (TablesInv => TablesInv')
  <2>1. EntriesInv => EntriesInv'
    BY <1>0 DEF EntriesInv, AsMapped
  <2>2. TablesInv => TablesInv'
    BY <1>0 DEF TablesInv, LoadedFor
  <2> QED BY <2>1, <2>2
<1>1. ASSUME NEW t \in Tgids, syms_cache__get_syms(t) PROVE TransInv'
  <2>1. image' = image /\ phase = "live"
    BY <1>1 DEF syms_cache__get_syms
  <2> QED BY <1>1, <2>1, GetSymsKeeps DEF TransInv
<1>2. ASSUME NEW e \in DOMAIN data, NEW addr \in Addrs, syms__map_addr(e, addr) PROVE TransInv'
  <2>1. image' = image /\ phase = "live"
    BY <1>2 DEF syms__map_addr
  <2> QED BY <1>2, <2>1, MapAddrKeeps DEF TransInv
<1>3. ASSUME NEW e, NEW addr, UseFreed(e, addr) PROVE TransInv'
  BY <1>3 DEF UseFreed, TransInv
<1>4. CASE syms_cache__free
  <2>1. image' = image /\ phase' # "live"
    BY <1>4 DEF syms_cache__free
  <2> QED BY <2>1 DEF TransInv
<1>5. ASSUME NEW t \in Tgids, NEW lines \in Images \cup {NULL}, ProcessChanges(t, lines)
      PROVE  TransInv'
  <2>1. image' \in [Tgids -> Images \cup {NULL}] /\ UNCHANGED <<data, tables, replaced, phase>>
    BY <1>5 DEF ProcessChanges, TransInv
  <2> QED BY <1>0, <2>1 DEF TransInv
<1>6. ASSUME NEW n \in Names, FileReplaced(n) PROVE TransInv'
  <2>1. image' = image /\ UNCHANGED <<data, tables, phase>> /\ replaced \subseteq replaced'
    BY <1>6 DEF FileReplaced
  <2>2. EntriesInv => EntriesInv'
    BY <2>1 DEF EntriesInv, AsMapped
  <2>3. TablesInv => TablesInv'
    BY <2>1 DEF TablesInv, LoadedFor
  <2> QED BY <2>1, <2>2, <2>3 DEF TransInv
<1>7. CASE UNCHANGED vars
  BY <1>7, <1>0 DEF vars, TransInv
<1>8. ASSUME NEW t \in Tgids, NameOrBtfMissing(t) PROVE TransInv'
  BY <1>8 DEF NameOrBtfMissing, TransInv
<1> QED BY <1>1, <1>2, <1>3, <1>4, <1>5, <1>6, <1>7, <1>8 DEF Next, Lookup, World

LEMMA TransInit == Init => TransInv
<1> SUFFICES ASSUME Init PROVE TransInv
  OBVIOUS
<1>1. /\ image \in [Tgids -> Images] /\ data = <<>> /\ tables = <<>>
  BY DEF Init
<1>2. image \in [Tgids -> Images \cup {NULL}]
  BY <1>1
<1>3. data \in Seq({}) /\ Len(data) = 0
  BY <1>1
<1>4. EntriesInv
  BY <1>3 DEF EntriesInv
<1>5. \A q : q \notin DOMAIN tables
  BY <1>1
<1>6. TablesInv
  BY <1>5 DEF TablesInv
<1> QED BY <1>2, <1>4, <1>6 DEF TransInv

LEMMA Translates ==
  ASSUME EntriesInv, TablesInv, NEW e \in DOMAIN data, data[e].syms # NULL,
         NEW line \in Range(data[e].syms.from), NEW addr \in Addrs,
         Wanted(line), Inside(line, addr)
  PROVE  LET dsos == data[e].syms.dsos
             i == syms__find_dso(dsos, addr)
             k == FindSym(tables[<<e, i>>], Offset(dsos[i], addr))
         IN  /\ i # NULL /\ dsos[i].name = line.name
             /\ (/\ <<e, i>> \in DOMAIN tables /\ line.name \notin replaced
                 /\ Place(line, addr) \in 0 .. AddrMod - 1) =>
                   SymbolAt(line, addr) = IF k = 0 THEN NULL ELSE tables[<<e, i>>][k]
<1> DEFINE dsos == data[e].syms.dsos
           lines == data[e].syms.from
           i == syms__find_dso(dsos, addr)
           t == tables[<<e, i>>]
           off == Offset(dsos[i], addr)
<1>1. e \in 1 .. Len(data) /\ addr \in Nat
  BY AppendIs, ConstantsAssumption DEF EntriesInv
<1>2. /\ lines \in Images /\ Mapped(dsos, lines)
      /\ \A j \in 1 .. Len(dsos) : AsMapped(dsos[j])
  BY <1>1 DEF EntriesInv
<1>3. line \in Range(lines)
  OBVIOUS
<1> HIDE DEF lines, dsos
<1>4. /\ i # NULL /\ i \in 1 .. Len(dsos) /\ dsos[i].name = line.name
      /\ HitRange(dsos[i], addr) = RangeOf(line)
  BY <1>1, <1>2, <1>3, DsoFound
<1>5. dsos[i] \in Dso /\ line.name \in Names
  BY <1>2, <1>4, Element DEF Mapped, Wanted
<1>6. RangeOf(line) \in Rng
  <2>1. PICK n \in 1 .. Len(lines) : line = lines[n]
    BY <1>2, <1>3, ImagesAssumption DEF Range
  <2> QED BY <1>2, <2>1, RangesOfLines
<1>7. ASSUME <<e, i>> \in DOMAIN tables, line.name \notin replaced,
             Place(line, addr) \in 0 .. AddrMod - 1
      PROVE  SymbolAt(line, addr) = IF FindSym(t, off) = 0 THEN NULL ELSE t[FindSym(t, off)]
  <2>1. LoadedFor(t, dsos[i])
    BY <1>7 DEF TablesInv, dsos
  <2>2. dsos[i].type # "UNKNOWN" /\ t \in SymTables[elfAsMapped[line.name]]
    BY <1>4, <1>7, <2>1 DEF LoadedFor
  <2>3. elfAsMapped[line.name] \in Files
    BY <1>5 DEF Files, Range, Names
  <2>4. PICK m : TableOf(t, elfAsMapped[line.name], m)
    BY <2>2, <2>3, LoadedTable
  <2>5. off \in Int /\ SamePlace(line, elfAsMapped[line.name], addr, off)
    <3>1. AsMapped(dsos[i]) /\ dsos[i].name \notin replaced
      BY <1>2, <1>4, <1>7
    <3> QED BY <1>1, <1>4, <1>5, <1>6, <1>7, <2>2, <3>1, OffsetIsPlace
  <2> HIDE DEF off, t
  <2> QED BY <2>4, <2>5, NearestSymbol
<1> QED BY <1>4, <1>7 DEF dsos

(* For any processes, mappings that do not overlap, files and symbols:     *)
(* every address inside a mapping finds its file and the nearest symbol    *)
(* below it, as of the time the mappings were read, whatever has been      *)
(* loaded, has failed to load or has changed since, unless its place in    *)
(* the file wraps around.                                                  *)
THEOREM AddressesTranslated == Spec => []TranslationRight
<1>1. TransInv => TranslationRight
  BY Translates DEF TransInv, TranslationRight
<1> QED BY <1>1, TransInit, TransStep, PTL DEF Spec
=============================================================================
