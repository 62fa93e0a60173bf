---------------------------- MODULE KsymsProofs -----------------------------
(***************************************************************************)
(* Proofs about the kernel symbols: the binary search of ksyms__map_addr,  *)
(* for arrays of every length; and what ksyms__load leaves in the table,   *)
(* for files of any length, names of any lengths and any least capacity.   *)
(* The search needs a sorted array, which is what loading leaves behind:   *)
(* LookupInv puts the two together.                                        *)
(***************************************************************************)
EXTENDS KsymsLookup, FiniteSetTheorems, TLAPS

LEMMA MidBounds ==
  ASSUME start \in Nat, end \in Int, start < end
  PROVE  Mid \in Nat /\ start < Mid /\ Mid <= end
  BY DEF Mid

LEMMA WindowInit == SearchInit => Window /\ LargestBelow
<1> SUFFICES ASSUME SearchInit PROVE Window /\ LargestBelow
  OBVIOUS
<1>1. array_sz = 0 /\ addr = 0 /\ start = 0 /\ end = -1 /\ at = "done" /\ found = NULL
  BY DEF SearchInit
<1>2. array \in [0 .. array_sz - 1 -> Nat] /\ \A i \in 0 .. array_sz - 1 : FALSE
  BY DEF SearchInit
<1>3. Window
  BY <1>1, <1>2 DEF Window, Ordered
<1>4. LargestBelow
  BY <1>1, <1>2 DEF LargestBelow
<1> QED BY <1>3, <1>4

(* Halving keeps the window around the answer.                             *)
LEMMA WindowHalve == ASSUME Window, Halve PROVE Window'
<1>1. Mid \in Nat /\ start < Mid /\ Mid <= end
  BY MidBounds DEF Window, Halve
<1>2. CASE array[Mid] <= addr
  BY <1>1, <1>2 DEF Window, Halve, Ordered
<1>3. CASE ~(array[Mid] <= addr)
  <2>1. end' = Mid - 1 /\ start' = start
    BY <1>3 DEF Halve
  <2>2. Mid \in 0 .. array_sz - 1 /\ array[Mid] \in Nat /\ addr < array[Mid]
    BY <1>1, <1>3 DEF Window
  <2>3. \A j \in Mid .. array_sz - 1 : addr < array[j]
    <3> TAKE j \in Mid .. array_sz - 1
    <3>1. j \in 0 .. array_sz - 1 /\ array[Mid] <= array[j] /\ array[j] \in Nat
      BY <1>1, <2>2 DEF Window, Ordered
    <3> QED BY <2>2, <3>1 DEF Window
  <2> QED BY <1>1, <2>1, <2>3 DEF Window, Halve, Ordered
<1> QED BY <1>2, <1>3

LEMMA WindowStep == ASSUME Window, [SearchNext]_searchVars PROVE Window'
<1>1. CASE Finish
  BY <1>1 DEF Window, Finish, Ordered
<1>2. CASE UNCHANGED searchVars
  BY <1>2 DEF Window, searchVars, Ordered
<1> QED BY WindowHalve, <1>1, <1>2 DEF SearchNext

LEMMA FinishFinds == ASSUME Window, Finish PROVE LargestBelow'
<1>1. CASE array_sz = 0
  BY <1>1 DEF Window, Finish, LargestBelow, NULL
<1>2. CASE array_sz > 0
  <2>1. start = end /\ start \in 0 .. array_sz - 1 /\ array[start] \in Nat
    BY <1>2 DEF Window, Finish
  <2>2. CASE array[start] <= addr
    BY <1>2, <2>1, <2>2 DEF Window, Finish, LargestBelow, NULL
  <2>3. CASE ~(array[start] <= addr)
    <3>1. start = 0 /\ found' = NULL
      BY <2>1, <2>3 DEF Window, Finish
    <3>2. \A i \in 0 .. array_sz - 1 : addr < array[i]
      BY <2>1, <2>3, <3>1 DEF Window
    <3> QED BY <3>1, <3>2 DEF Finish, LargestBelow
  <2> QED BY <2>2, <2>3
<1> QED BY <1>1, <1>2 DEF Window

LEMMA FoundStep ==
  ASSUME Window, LargestBelow, [SearchNext]_searchVars
  PROVE  LargestBelow'
<1>1. CASE Halve
  BY <1>1 DEF Halve, LargestBelow
<1>2. CASE UNCHANGED searchVars
  BY <1>2 DEF searchVars, LargestBelow
<1> QED BY <1>1, <1>2, FinishFinds DEF SearchNext

-----------------------------------------------------------------------------
(* What ksyms__load has built.                                             *)

Lines == Line \cup {Malformed}
Symbol == [addr : Nat, name : [base : Nat, off : Nat]]

TypeInv ==
  /\ all \in Seq(Lines) /\ Len(all) <= MaxLines
  /\ strs_sz \in Nat /\ strs_cap \in Nat /\ syms_cap \in Nat /\ base \in Nat
  /\ pc \in {"load", "ready", "freed"}
  /\ syms \in Seq(Symbol)

(* A capacity is 0 or at least MinCap, from where a third more is at least *)
(* one more.                                                               *)
RoomInv ==
  /\ strs_sz <= strs_cap
  /\ syms_cap = 0 \/ syms_cap >= MinCap
  /\ Len(syms) <= syms_cap

(* The buffer holds the names of the first n lines, at increasing offsets. *)
Strings(n) ==
  /\ n <= Len(all)
  /\ strs \in Seq([off : Nat, name : Names]) /\ Len(strs) = n
  /\ \A i \in 1 .. n : /\ all[i] \in Line
                       /\ strs[i].name = all[i].name /\ strs[i].off < strs_sz
  /\ \A i, j \in 1 .. n : i < j => strs[i].off < strs[j].off

Symb(i, b) == [addr |-> all[i].addr, name |-> [base |-> b, off |-> strs[i].off]]

LoadingInv ==
  pc = "load" =>
    /\ Strings(Len(syms))
    /\ \A i \in 1 .. Len(syms) : syms[i] = Symb(i, 0)
    /\ file \in Seq(Lines) /\ Len(syms) + Len(file) = Len(all)
    /\ \A i \in 1 .. Len(file) : file[i] = all[Len(syms) + i]

(* The lines of the file in the order p, their names pointing into the     *)
(* buffer where it is now.                                                 *)
Arranged(p) == /\ Len(syms) = Len(all)
               /\ \A i \in 1 .. Len(all) : syms[i] = Symb(p[i], base)

ReadyInv ==
  pc = "ready" =>
    /\ Strings(Len(all))
    /\ \E p \in Bijection(1 .. Len(all), 1 .. Len(all)) : Arranged(p)
    /\ Sorted(syms)

LoadInv == TypeInv /\ RoomInv /\ LoadingInv /\ ReadyInv

LEMMA Element == ASSUME NEW S, NEW s \in Seq(S), NEW i \in 1 .. Len(s) PROVE s[i] \in S
  OBVIOUS

LEMMA LoadInit == Init => LoadInv
<1> SUFFICES ASSUME Init PROVE LoadInv
  OBVIOUS
<1>1. PICK n \in 0 .. MaxLines : all \in [1 .. n -> Lines]
  BY DEF Init, Lines
<1>2. all \in Seq(Lines) /\ Len(all) = n /\ n \in Nat /\ n <= MaxLines
  BY <1>1, ConstantsAssumption
<1>3. /\ file = all /\ syms = <<>> /\ strs = <<>> /\ pc = "load" /\ base = 1
      /\ syms_cap = 0 /\ strs_cap = 0 /\ strs_sz = 0
  BY DEF Init
<1>4. TypeInv
  BY <1>2, <1>3 DEF TypeInv
<1>5. RoomInv
  BY <1>3 DEF RoomInv
<1>6. LoadingInv
  BY <1>2, <1>3 DEF LoadingInv, Strings
<1>7. ReadyInv
  BY <1>3 DEF ReadyInv
<1> QED BY <1>4, <1>5, <1>6, <1>7 DEF LoadInv

(* The next line is the first that has no symbol yet.                      *)
LEMMA NextLine ==
  ASSUME TypeInv, LoadingInv, pc = "load", file # <<>>
  PROVE  /\ Len(syms) + 1 <= Len(all) /\ Head(file) = all[Len(syms) + 1]
         /\ Tail(file) \in Seq(Lines)
         /\ Len(syms) + 1 + Len(Tail(file)) = Len(all)
         /\ \A i \in 1 .. Len(Tail(file)) : Tail(file)[i] = all[Len(syms) + 1 + i]
<1>1. /\ file \in Seq(Lines) /\ Len(syms) + Len(file) = Len(all)
      /\ \A i \in 1 .. Len(file) : file[i] = all[Len(syms) + i]
      /\ Len(syms) \in Nat /\ Len(all) \in Nat
  BY DEF LoadingInv, TypeInv
<1>2. Len(file) \in Nat /\ Len(file) >= 1 /\ Head(file) = file[1] /\ Tail(file) \in Seq(Lines)
      /\ Len(Tail(file)) = Len(file) - 1
      /\ \A i \in 1 .. Len(Tail(file)) : Tail(file)[i] = file[i + 1]
  BY <1>1
<1>3. \A i \in 1 .. Len(Tail(file)) : Tail(file)[i] = all[Len(syms) + 1 + i]
  <2> TAKE i \in 1 .. Len(Tail(file))
  <2>1. i + 1 \in 1 .. Len(file) /\ Len(syms) + (i + 1) = Len(syms) + 1 + i
    BY <1>1, <1>2
  <2> QED BY <1>1, <1>2, <2>1
<1> QED BY <1>1, <1>2, <1>3

LEMMA AddKeepsRoom ==
  ASSUME TypeInv, RoomInv, LoadingInv, AddSymbol
  PROVE  /\ RoomInv'
         /\ strs_cap' \in Nat /\ syms_cap' \in Nat /\ strs_sz' \in Nat /\ base' \in Nat
<1> DEFINE x == Head(file).name
<1>1. x \in Names /\ nameLen[x] \in Nat
  <2>1. Head(file) \in Lines /\ Head(file) # Malformed
    BY NextLine DEF AddSymbol, TypeInv
  <2> QED BY <2>1, ConstantsAssumption DEF Lines, Line
<1>2. /\ strs_cap' = IF StrsFull(x) THEN NewStrsCap(x) ELSE strs_cap
      /\ base' \in {base, base + 1}
      /\ strs_sz' = strs_sz + nameLen[x]
      /\ syms_cap' = IF SymsFull THEN NewSymsCap ELSE syms_cap
      /\ syms' = Append(syms, [addr |-> Head(file).addr, name |-> StoredName(strs_sz)])
  BY DEF AddSymbol
<1>3. Len(syms') = Len(syms) + 1 /\ Len(syms) \in Nat
  BY <1>2 DEF TypeInv
<1> HIDE DEF x
<1>4. /\ strs_sz \in Nat /\ strs_cap \in Nat /\ syms_cap \in Nat /\ base \in Nat
      /\ MinCap \in Nat /\ MinCap >= 3
  BY ConstantsAssumption DEF TypeInv
<1>5. strs_cap' \in Nat /\ strs_sz' \in Nat /\ strs_sz' <= strs_cap'
  <2>1. CASE StrsFull(x)
    BY <2>1, <1>1, <1>2, <1>4 DEF NewStrsCap, AtLeast
  <2>2. CASE ~StrsFull(x)
    BY <2>2, <1>1, <1>2, <1>4 DEF StrsFull
  <2> QED BY <2>1, <2>2
<1>6. /\ syms_cap' \in Nat /\ (syms_cap' = 0 \/ syms_cap' >= MinCap)
      /\ Len(syms) + 1 <= syms_cap'
  <2>1. CASE SymsFull
    BY <2>1, <1>2, <1>3, <1>4 DEF NewSymsCap, AtLeast, SymsFull, RoomInv
  <2>2. CASE ~SymsFull
    BY <2>2, <1>2, <1>3, <1>4 DEF SymsFull, RoomInv
  <2> QED BY <2>1, <2>2
<1> QED BY <1>2, <1>3, <1>4, <1>5, <1>6 DEF RoomInv

LEMMA AddKeepsStrings ==
  ASSUME TypeInv, LoadingInv, AddSymbol
  PROVE  Strings(Len(syms))' /\ LoadingInv' /\ syms' \in Seq(Symbol) /\ pc' = "load"
<1> DEFINE x == Head(file).name
           n == Len(syms)
<1>1. /\ pc = "load" /\ file # <<>> /\ Head(file) # Malformed
      /\ strs' = Append(strs, [off |-> strs_sz, name |-> x])
      /\ strs_sz' = strs_sz + nameLen[x]
      /\ syms' = Append(syms, [addr |-> Head(file).addr, name |-> StoredName(strs_sz)])
      /\ file' = Tail(file) /\ all' = all /\ pc' = pc
  BY DEF AddSymbol
<1>2. /\ n + 1 <= Len(all) /\ Head(file) = all[n + 1] /\ n \in Nat /\ Len(all) \in Nat
      /\ Tail(file) \in Seq(Lines) /\ n + 1 + Len(Tail(file)) = Len(all)
      /\ \A i \in 1 .. Len(Tail(file)) : Tail(file)[i] = all[n + 1 + i]
  BY <1>1, NextLine DEF TypeInv
<1>3. /\ Head(file) \in Line /\ x \in Names /\ Head(file).addr \in Nat
      /\ nameLen[x] \in Nat /\ nameLen[x] > 0
  <2>1. Head(file) \in Line
    BY <1>1, <1>2 DEF TypeInv, Lines
  <2>2. x \in Names /\ Head(file).addr \in Addrs
    BY <2>1 DEF Line
  <2> HIDE DEF x
  <2>3. nameLen[x] \in Nat \ {0}
    BY <2>2, ConstantsAssumption
  <2>4. Head(file).addr \in Nat
    BY <2>2, ConstantsAssumption
  <2>5. nameLen[x] \in Nat /\ nameLen[x] > 0
    BY <2>3
  <2> QED BY <2>1, <2>2, <2>4, <2>5
<1>4. /\ strs \in Seq([off : Nat, name : Names]) /\ Len(strs) = n
      /\ \A i \in 1 .. n : /\ all[i] \in Line
                           /\ strs[i].name = all[i].name /\ strs[i].off < strs_sz
      /\ \A i, j \in 1 .. n : i < j => strs[i].off < strs[j].off
      /\ \A i \in 1 .. n : syms[i] = Symb(i, 0)
      /\ strs_sz \in Nat /\ syms \in Seq(Symbol)
  BY <1>1 DEF LoadingInv, Strings, TypeInv
<1> DEFINE str == [off |-> strs_sz, name |-> x]
           sym == [addr |-> Head(file).addr, name |-> StoredName(strs_sz)]
<1>5. str \in [off : Nat, name : Names] /\ str.off = strs_sz /\ str.name = x
  BY <1>3, <1>4
<1>6. sym \in Symbol /\ sym = [addr |-> Head(file).addr, name |-> [base |-> 0, off |-> strs_sz]]
  BY <1>3, <1>4 DEF Symbol, StoredName, Offset
<1>7. strs' = Append(strs, str) /\ syms' = Append(syms, sym)
  BY <1>1
<1> HIDE DEF str, sym
<1>8. /\ strs' \in Seq([off : Nat, name : Names]) /\ Len(strs') = n + 1
      /\ strs'[n + 1] = str /\ \A i \in 1 .. n : strs'[i] = strs[i]
  BY <1>2, <1>4, <1>5, <1>7
<1>9. /\ syms' \in Seq(Symbol) /\ Len(syms') = n + 1
      /\ syms'[n + 1] = sym /\ \A i \in 1 .. n : syms'[i] = syms[i]
  BY <1>4, <1>6, <1>7
<1> HIDE DEF n
<1>10. ASSUME NEW i \in 1 .. n + 1
       PROVE  /\ all[i] \in Line /\ strs'[i].name = all[i].name
              /\ strs'[i].off \in Nat /\ strs'[i].off < strs_sz'
              /\ syms'[i] = [addr |-> all[i].addr, name |-> [base |-> 0, off |-> strs'[i].off]]
  <2>1. CASE i = n + 1
    <3>1. strs'[i] = str /\ syms'[i] = sym /\ all[i] = Head(file)
      BY ONLY <2>1, <1>2, <1>8, <1>9
    <3>2. strs'[i].off = strs_sz /\ strs'[i].name = all[i].name /\ all[i] \in Line
      BY ONLY <3>1, <1>3, <1>5
    <3>3. strs_sz < strs_sz'
      BY ONLY <1>1, <1>3, <1>4
    <3>4. syms'[i] = [addr |-> all[i].addr, name |-> [base |-> 0, off |-> strs'[i].off]]
      BY ONLY <3>1, <3>2, <1>6
    <3> QED BY ONLY <3>2, <3>3, <3>4, <1>4
  <2>2. CASE i \in 1 .. n
    <3>1. strs'[i] = strs[i] /\ syms'[i] = Symb(i, 0)
      BY <2>2, <1>4, <1>8, <1>9
    <3>2. strs[i].off \in Nat
      <4>1. strs[i] \in [off : Nat, name : Names]
        <5>1. strs \in Seq([off : Nat, name : Names]) /\ i \in 1 .. Len(strs)
          BY <2>2, <1>4
        <5> QED BY <5>1, Element
      <4> QED BY <4>1
    <3>3. strs[i].off < strs_sz
      BY <2>2, <1>4
    <3>4. strs[i].off < strs_sz'
      <4>1. strs_sz' = strs_sz + nameLen[x]
        BY ONLY <1>1
      <4>2. nameLen[x] \in Nat /\ strs_sz \in Nat
        BY ONLY <1>3, <1>4
      <4> DEFINE o == strs[i].off
                 l == nameLen[x]
      <4>3. o \in Nat /\ l \in Nat /\ o < strs_sz /\ strs_sz' = strs_sz + l
        BY ONLY <3>2, <3>3, <4>1, <4>2
      <4> HIDE DEF o, l
      <4>4. o < strs_sz'
        BY ONLY <4>2, <4>3
      <4> QED BY ONLY <4>4 DEF o
    <3> QED BY <2>2, <1>4, <3>1, <3>2, <3>4 DEF Symb
  <2> QED BY <1>2, <2>1, <2>2
<1>11. ASSUME NEW i \in 1 .. n + 1, NEW j \in 1 .. n + 1, i < j
       PROVE  strs'[i].off < strs'[j].off
  <2>1. i \in 1 .. n /\ (j \in 1 .. n \/ j = n + 1)
    BY <1>2, <1>11
  <2> QED BY <2>1, <1>4, <1>5, <1>8, <1>11
<1>12. Strings(Len(syms))'
  BY <1>1, <1>2, <1>8, <1>9, <1>10, <1>11 DEF Strings
<1>13. LoadingInv'
  BY <1>1, <1>2, <1>9, <1>10, <1>12 DEF LoadingInv, Symb
<1> QED BY <1>1, <1>9, <1>12, <1>13

(* Sorting arranges the symbols of all lines, with pointers into the       *)
(* buffer, which no longer moves.                                          *)
LEMMA FinishKeeps == ASSUME TypeInv, RoomInv, LoadingInv, FinishLoad PROVE LoadInv'
<1> DEFINE n == Len(all)
<1>1. /\ pc = "load" /\ file = <<>> /\ pc' = "ready"
      /\ UNCHANGED <<all, file, syms_cap, strs, strs_sz, strs_cap, base>>
  BY DEF FinishLoad
<1>2. Len(syms) = n /\ n \in 0 .. MaxLines /\ DOMAIN syms = 1 .. n /\ base \in Nat
  BY <1>1, ConstantsAssumption DEF LoadingInv, TypeInv
<1>3. /\ Strings(n) /\ \A i \in 1 .. n : syms[i] = Symb(i, 0)
  BY <1>1, <1>2 DEF LoadingInv
<1>4. PICK p \in Orders[Len(syms)] :
         /\ Sorted([i \in DOMAIN syms |-> Adjust(syms[p[i]])])
         /\ syms' = [i \in DOMAIN syms |-> Adjust(syms[p[i]])]
  BY DEF FinishLoad
<1>5. p \in Bijection(1 .. n, 1 .. n)
  BY <1>2, <1>4 DEF Orders
<1>6. p \in [1 .. n -> 1 .. n]
  BY <1>5 DEF Bijection, Injection
<1> HIDE DEF n
<1>7. ASSUME NEW i \in 1 .. n
      PROVE  syms'[i] = Symb(p[i], base) /\ syms'[i] \in Symbol
  <2>1. p[i] \in 1 .. n /\ syms[p[i]] = Symb(p[i], 0) /\ syms[p[i]] \in Symbol
    BY <1>2, <1>3, <1>6, Element DEF TypeInv
  <2>2. syms'[i] = Adjust(syms[p[i]])
    BY <1>2, <1>4
  <2>3. Symb(p[i], 0) \in Symbol /\ syms'[i] = Adjust(Symb(p[i], 0))
    BY <2>1, <2>2
  <2>4. /\ Symb(p[i], 0).addr = all[p[i]].addr /\ Symb(p[i], 0).name.base = 0
        /\ Symb(p[i], 0).name.off = strs[p[i]].off
    BY DEF Symb
  <2>5. all[p[i]].addr \in Nat /\ strs[p[i]].off \in Nat
    BY <2>3, <2>4 DEF Symbol
  <2>6. 0 + base = base
    BY <1>2
  <2> QED BY <1>2, <2>3, <2>4, <2>5, <2>6 DEF Symb, Adjust, Symbol
<1>8. syms' \in Seq(Symbol) /\ Len(syms') = n
  <2>1. syms' = [i \in 1 .. n |-> syms'[i]]
    BY <1>2, <1>4
  <2>2. syms' \in [1 .. n -> Symbol] /\ n \in Nat
    BY <1>2, <1>7, <2>1
  <2> QED BY <2>2
<1>9. TypeInv' /\ RoomInv' /\ LoadingInv'
  BY <1>1, <1>2, <1>8 DEF TypeInv, RoomInv, LoadingInv
<1>10. Strings(Len(all))'
  BY <1>1, <1>3 DEF Strings, n
<1>11. Arranged(p)'
  BY <1>1, <1>7, <1>8 DEF Arranged, Symb, n
<1>12. Sorted(syms)'
  <2>1. Sorted(syms')
    BY <1>4
  <2> QED BY <1>1, <2>1 DEF Sorted, ksym_cmp, Deref
<1>13. p \in Bijection(1 .. Len(all), 1 .. Len(all))'
  BY <1>1, <1>5 DEF n
<1>14. ReadyInv'
  BY <1>10, <1>11, <1>12, <1>13 DEF ReadyInv
<1> QED BY <1>9, <1>14 DEF LoadInv

LEMMA LoadStep == LoadInv /\ [Next]_vars => LoadInv'
<1> SUFFICES ASSUME LoadInv, [Next]_vars PROVE LoadInv'
  OBVIOUS
<1> USE DEF LoadInv
<1>1. CASE AddSymbol
  <2>1. all' = all
    BY <1>1 DEF AddSymbol
  <2>2. /\ RoomInv' /\ LoadingInv' /\ syms' \in Seq(Symbol) /\ pc' = "load"
        /\ strs_cap' \in Nat /\ syms_cap' \in Nat /\ strs_sz' \in Nat /\ base' \in Nat
    BY <1>1, AddKeepsRoom, AddKeepsStrings
  <2>3. TypeInv'
    BY <2>1, <2>2 DEF TypeInv
  <2>4. ReadyInv'
    BY <2>2 DEF ReadyInv
  <2> QED BY <2>2, <2>3, <2>4
<1>2. CASE LoadFails \/ ksyms__free
  <2>1. /\ pc' = "freed" /\ syms' = <<>>
        /\ UNCHANGED <<all, syms_cap, strs_sz, strs_cap, base>>
    BY <1>2 DEF LoadFails, ksyms__free
  <2>2. TypeInv' /\ RoomInv'
    BY <2>1 DEF TypeInv, RoomInv
  <2> QED BY <2>1, <2>2 DEF LoadingInv, ReadyInv
<1>3. CASE FinishLoad
  BY <1>3, FinishKeeps
<1>4. CASE UNCHANGED vars
  <2>1. UNCHANGED <<all, file, syms, syms_cap, strs, strs_sz, strs_cap, base, pc>>
    BY <1>4 DEF vars
  <2>2. TypeInv' /\ RoomInv'
    BY <2>1 DEF TypeInv, RoomInv
  <2>3. LoadingInv'
    BY <2>1 DEF LoadingInv, Strings, Symb
  <2>4. ReadyInv'
    BY <2>1 DEF ReadyInv, Strings, Arranged, Symb, Sorted, ksym_cmp, Deref
  <2> QED BY <2>2, <2>3, <2>4
<1> QED BY <1>1, <1>2, <1>3, <1>4 DEF Next

-----------------------------------------------------------------------------
(* A loaded table.                                                         *)

(* A name pointer of a loaded symbol leads to the name of its line alone:  *)
(* no two strings are at the same offset.                                  *)
LEMMA PointersLead ==
  ASSUME Strings(Len(all)), Len(all) \in Nat, NEW i \in 1 .. Len(all)
  PROVE  Deref(Symb(i, base).name) = {all[i].name}
<1>1. /\ DOMAIN strs = 1 .. Len(all) /\ strs[i].name = all[i].name
      /\ Symb(i, base).name.base = base /\ Symb(i, base).name.off = strs[i].off
  BY DEF Strings, Symb
<1>2. ASSUME NEW j \in 1 .. Len(all), strs[j].off = strs[i].off PROVE j = i
  <2>1. \A k \in 1 .. Len(all) : strs[k].off \in Nat
    <3> TAKE k \in 1 .. Len(all)
    <3>1. strs[k] \in [off : Nat, name : Names]
      BY Element DEF Strings
    <3> QED BY <3>1
  <2>2. ~(i < j) /\ ~(j < i)
    BY <1>2, <2>1 DEF Strings
  <2> QED BY <2>2
<1>3. {j \in DOMAIN strs : Symb(i, base).name.base = base /\ strs[j].off = Symb(i, base).name.off} = {i}
  BY <1>1, <1>2
<1> QED BY <1>1, <1>3 DEF Deref

LEMMA Loaded ==
  ASSUME LoadInv, pc = "ready"
  PROVE  /\ Len(all) \in Nat /\ DOMAIN syms = 1 .. Len(all) /\ DOMAIN all = 1 .. Len(all)
         /\ Len(syms) = Len(all) /\ Sorted(syms)
         /\ \A i \in 1 .. Len(all) : all[i] \in Line
         /\ \E p \in Bijection(1 .. Len(all), 1 .. Len(all)) :
              \A i \in 1 .. Len(all) : /\ syms[i].addr = all[p[i]].addr
                                       /\ Deref(syms[i].name) = {all[p[i]].name}
<1>1. /\ Strings(Len(all)) /\ Sorted(syms) /\ Len(all) \in Nat
      /\ syms \in Seq(Symbol) /\ all \in Seq(Lines)
  BY DEF LoadInv, ReadyInv, TypeInv
<1>2. PICK p \in Bijection(1 .. Len(all), 1 .. Len(all)) : Arranged(p)
  BY DEF LoadInv, ReadyInv
<1>3. Len(syms) = Len(all) /\ DOMAIN syms = 1 .. Len(all) /\ DOMAIN all = 1 .. Len(all)
  BY <1>1, <1>2 DEF Arranged
<1>4. ASSUME NEW i \in 1 .. Len(all)
      PROVE  syms[i].addr = all[p[i]].addr /\ Deref(syms[i].name) = {all[p[i]].name}
  <2>1. p[i] \in 1 .. Len(all)
    BY <1>2 DEF Bijection, Injection
  <2>2. syms[i] = Symb(p[i], base)
    BY <1>2 DEF Arranged
  <2>3. Deref(Symb(p[i], base).name) = {all[p[i]].name}
    BY <1>1, <2>1, PointersLead
  <2>4. Symb(p[i], base).addr = all[p[i]].addr
    BY DEF Symb
  <2> QED BY <2>2, <2>3, <2>4
<1>5. \A i \in 1 .. Len(all) : all[i] \in Line
  BY <1>1 DEF Strings
<1> QED BY <1>1, <1>2, <1>3, <1>4, <1>5

(* As many symbols as lines: p matches them up.                            *)
LEMMA SameNumber ==
  ASSUME NEW n \in Nat, NEW p \in Bijection(1 .. n, 1 .. n), NEW T, T \subseteq 1 .. n
  PROVE  Cardinality({i \in 1 .. n : p[i] \in T}) = Cardinality(T)
<1> DEFINE S == {i \in 1 .. n : p[i] \in T}
           f == [i \in S |-> p[i]]
<1>1. /\ p \in [1 .. n -> 1 .. n] /\ \A i, j \in 1 .. n : p[i] = p[j] => i = j
      /\ \A t \in 1 .. n : \E s \in 1 .. n : p[s] = t
  BY DEF Bijection, Injection, Surjection, IsInjective
<1>2. f \in [S -> T] /\ \A i, j \in S : f[i] = f[j] => i = j
  BY <1>1
<1>3. \A t \in T : \E s \in S : f[s] = t
  BY <1>1
<1> HIDE DEF f
<1>4. f \in Bijection(S, T)
  <2> HIDE DEF S
  <2> QED BY <1>2, <1>3 DEF Bijection, Injection, Surjection, IsInjective
<1>5. IsFiniteSet(S)
  <2>1. IsFiniteSet(1 .. n) /\ S \subseteq 1 .. n
    BY FS_Interval
  <2> QED BY <2>1, FS_Subset
<1> HIDE DEF S
<1>6. ExistsBijection(S, T)
  BY <1>4 DEF ExistsBijection
<1>7. Cardinality(T) = Cardinality(S)
  BY <1>5, <1>6, FS_Bijection
<1> QED BY <1>7 DEF S

(* Each line is in the table as often as in the file.                      *)
LEMMA LinesKept ==
  ASSUME LoadInv, pc = "ready", NEW ln \in Line
  PROVE  Cardinality({i \in DOMAIN syms : syms[i].addr = ln.addr /\ Deref(syms[i].name) = {ln.name}})
         = Cardinality({i \in DOMAIN all : all[i] = ln})
<1> DEFINE n == Len(all)
           T == {i \in 1 .. n : all[i] = ln}
<1>1. /\ n \in Nat /\ DOMAIN syms = 1 .. n /\ DOMAIN all = 1 .. n
      /\ \A i \in 1 .. n : all[i] \in Line
  BY Loaded
<1>2. PICK p \in Bijection(1 .. n, 1 .. n) :
        \A i \in 1 .. n : syms[i].addr = all[p[i]].addr /\ Deref(syms[i].name) = {all[p[i]].name}
  BY Loaded
<1> HIDE DEF n
<1>3. ASSUME NEW i \in 1 .. n
      PROVE  (syms[i].addr = ln.addr /\ Deref(syms[i].name) = {ln.name}) <=> p[i] \in T
  <2>1. p[i] \in 1 .. n
    BY <1>2 DEF Bijection, Injection
  <2>2. all[p[i]] \in Line /\ ln \in Line
    BY <1>1, <2>1
  <2>3. all[p[i]] = ln <=> all[p[i]].addr = ln.addr /\ all[p[i]].name = ln.name
    BY <2>2 DEF Line
  <2> QED BY <1>2, <2>1, <2>3
<1>4. {i \in DOMAIN syms : syms[i].addr = ln.addr /\ Deref(syms[i].name) = {ln.name}}
      = {i \in 1 .. n : p[i] \in T}
  BY <1>1, <1>3
<1>5. T \subseteq 1 .. n /\ T = {i \in DOMAIN all : all[i] = ln}
  BY <1>1
<1> HIDE DEF T
<1>6. Cardinality({i \in 1 .. n : p[i] \in T}) = Cardinality(T)
  BY <1>1, <1>5, SameNumber
<1> QED BY <1>4, <1>5, <1>6, Zenon

(* Every nonempty set of natural numbers has a least element.              *)
LEMMA Least ==
  ASSUME NEW S, S \subseteq Nat, S # {}
  PROVE  \E i \in S : \A j \in S : i <= j
<1>1. IsWellFoundedOn(OpToRel(<, Nat), Nat)
  BY NatLessThanWellFounded
<1>2. PICK i \in S : \A j \in S : ~(<<j, i>> \in OpToRel(<, Nat))
  BY <1>1, WFMin
<1>3. \A j \in S : ~(j < i)
  BY <1>2 DEF OpToRel
<1> QED BY <1>3

(* ksyms__get_symbol finds a name if a line has it, at its lowest address. *)
LEMMA NameFound ==
  ASSUME LoadInv, pc = "ready", NEW x \in Names
  PROVE  IF get_symbol(x) = 0 THEN \A i \in DOMAIN all : all[i].name # x
         ELSE \A i \in DOMAIN all :
                 all[i].name = x => syms[get_symbol(x)].addr <= all[i].addr
<1> DEFINE n == Len(all)
           hits == {i \in DOMAIN syms : x \in Deref(syms[i].name)}
<1>1. /\ n \in Nat /\ DOMAIN syms = 1 .. n /\ DOMAIN all = 1 .. n
      /\ Sorted(syms) /\ \A i \in 1 .. n : all[i] \in Line
  BY Loaded
<1>2. PICK p \in Bijection(1 .. n, 1 .. n) :
        \A i \in 1 .. n : syms[i].addr = all[p[i]].addr /\ Deref(syms[i].name) = {all[p[i]].name}
  BY Loaded
<1> HIDE DEF n
<1>3. ASSUME NEW i \in 1 .. n, all[i].name = x
      PROVE  \E j \in hits : syms[j].addr = all[i].addr
  <2>1. PICK j \in 1 .. n : p[j] = i
    BY <1>2 DEF Bijection, Surjection
  <2> QED BY <1>1, <1>2, <1>3, <2>1
<1>4. get_symbol(x) = IF hits = {} THEN 0 ELSE CHOOSE i \in hits : \A j \in hits : i <= j
  BY DEF get_symbol
<1>5. hits \subseteq 1 .. n
  BY <1>1
<1> HIDE DEF hits
<1>6. CASE hits = {}
  BY <1>1, <1>3, <1>4, <1>6
<1>7. CASE hits # {}
  <2>1. get_symbol(x) \in hits /\ \A j \in hits : get_symbol(x) <= j
    <3>1. hits \subseteq Nat
      BY <1>1, <1>5
    <3>2. \E i \in hits : \A j \in hits : i <= j
      BY <1>7, <3>1, Least
    <3> QED BY <1>4, <1>7, <3>2
  <2> DEFINE g == get_symbol(x)
  <2> HIDE DEF g
  <2>2. g \in 1 .. n /\ g # 0
    <3>1. g \in hits
      BY <2>1 DEF g
    <3>2. g \in 1 .. n
      BY <1>5, <3>1
    <3> QED BY <1>1, <3>2
  <2>3. ASSUME NEW i \in 1 .. n, all[i].name = x PROVE syms[g].addr <= all[i].addr
    <3>1. PICK j \in hits : syms[j].addr = all[i].addr
      BY <1>3, <2>3
    <3>2. j \in 1 .. n /\ (g = j \/ g < j)
      BY <1>1, <1>5, <2>1, <2>2 DEF g
    <3>3. syms[g].addr \in Nat /\ syms[j].addr \in Nat
      <4>1. syms \in Seq(Symbol) /\ Len(syms) = n
        BY Loaded DEF LoadInv, TypeInv, n
      <4>2. syms[g] \in Symbol /\ syms[j] \in Symbol
        BY <2>2, <3>2, <4>1, Element
      <4> QED BY <4>2 DEF Symbol
    <3>4. g < j => ~(syms[j].addr < syms[g].addr)
      BY <1>1, <2>2, <3>2 DEF Sorted, ksym_cmp
    <3> QED BY <3>1, <3>2, <3>3, <3>4
  <2> QED BY <1>1, <2>2, <2>3 DEF g
<1> QED BY <1>6, <1>7

(* What ksyms__map_addr takes for granted ksyms__load provides: a loaded   *)
(* table, whatever the file, is a sorted array of addresses.               *)
LEMMA LoadedTableIsSearchable ==
  ASSUME LoadInv, pc = "ready"
  PROVE  /\ Len(syms) \in Nat /\ LoadedAddrs \in [0 .. Len(syms) - 1 -> Nat]
         /\ Ordered(LoadedAddrs, Len(syms))
<1> DEFINE n == Len(syms)
<1>1. n \in Nat /\ DOMAIN syms = 1 .. n /\ Sorted(syms) /\ syms \in Seq(Symbol)
  BY Loaded DEF LoadInv, TypeInv
<1>2. \A i \in 1 .. n : syms[i].addr \in Nat
  <2> TAKE i \in 1 .. n
  <2>1. syms[i] \in Symbol
    BY <1>1, Element
  <2> QED BY <2>1 DEF Symbol
<1> HIDE DEF n
<1>3. LoadedAddrs = [i \in 0 .. n - 1 |-> syms[i + 1].addr]
  BY DEF LoadedAddrs, n
<1>4. \A i \in 0 .. n - 1 : i + 1 \in 1 .. n /\ syms[i + 1].addr \in Nat
  BY <1>1, <1>2
<1>5. ASSUME NEW i \in 0 .. n - 1, NEW j \in 0 .. n - 1, i <= j
      PROVE  LoadedAddrs[i] <= LoadedAddrs[j]
  <2>1. LoadedAddrs[i] = syms[i + 1].addr /\ LoadedAddrs[j] = syms[j + 1].addr
    BY <1>3
  <2>2. i + 1 < j + 1 => ~(syms[j + 1].addr < syms[i + 1].addr)
    BY <1>1, <1>4 DEF Sorted, ksym_cmp
  <2>3. i = j \/ i + 1 < j + 1
    BY <1>1, <1>5
  <2> QED BY <1>4, <2>1, <2>2, <2>3
<1> QED BY <1>1, <1>3, <1>4, <1>5 DEF Ordered, n

-----------------------------------------------------------------------------
(* Loading and looking up together.                                        *)

LookupInv == LoadInv /\ Window /\ LargestBelow

(* A search starts with a window around the whole of a sorted array.       *)
LEMMA BeginWindow ==
  ASSUME LoadInv, NEW a \in Addresses, ksyms__map_addr(a)
  PROVE  Window' /\ LargestBelow'
<1> DEFINE n == Len(syms)
<1>1. /\ pc = "ready" /\ array_sz' = n /\ array' = LoadedAddrs /\ addr' = a
      /\ start' = 0 /\ end' = n - 1 /\ at' = "loop"
  BY DEF ksyms__map_addr, Begin
<1>2. n \in Nat /\ LoadedAddrs \in [0 .. n - 1 -> Nat] /\ Ordered(LoadedAddrs, n)
  BY <1>1, LoadedTableIsSearchable
<1>3. a \in Nat
  BY AddrsAssumption
<1> HIDE DEF n
<1>4. array' \in [0 .. array_sz' - 1 -> Nat] /\ Ordered(array', array_sz')
  BY ONLY <1>1, <1>2
<1>5. Window'
  BY ONLY <1>1, <1>2, <1>3, <1>4 DEF Window, Ordered
<1>6. LargestBelow'
  BY <1>1 DEF LargestBelow
<1> QED BY <1>5, <1>6

LEMMA LookupInitial == LookupInit => LookupInv
  BY LoadInit, WindowInit DEF LookupInit, LookupInv

LEMMA LookupStep == LookupInv /\ [LookupNext]_allVars => LookupInv'
<1> SUFFICES ASSUME LookupInv, [LookupNext]_allVars PROVE LookupInv'
  OBVIOUS
<1>1. LoadInv'
  <2>1. [Next]_vars
    BY DEF LookupNext, Manage, ksyms__map_addr, Search, allVars
  <2> QED BY <2>1, LoadStep DEF LookupInv
<1>2. ASSUME [SearchNext]_searchVars PROVE Window' /\ LargestBelow'
  BY <1>2, WindowStep, FoundStep DEF LookupInv
<1>3. (\E a \in Addresses : ksyms__map_addr(a)) => Window' /\ LargestBelow'
  BY BeginWindow DEF LookupInv
<1>4. (\E a \in Addresses : ksyms__map_addr(a)) \/ [SearchNext]_searchVars
  BY DEF LookupNext, Manage, Search, allVars
<1> QED BY <1>1, <1>2, <1>3, <1>4 DEF LookupInv

LEMMA LookupAlways == LookupSpec => []LookupInv
  BY LookupInitial, LookupStep, PTL DEF LookupSpec

(* However many symbols and however long their names, neither array that   *)
(* ksyms__add_symbol grows is ever used beyond what was allocated for it.  *)
THEOREM ArraysFit == LookupSpec => []FitsCapacity
<1>1. LookupInv => FitsCapacity
  BY DEF LookupInv, LoadInv, RoomInv, FitsCapacity
<1> QED BY <1>1, LookupAlways, PTL

(* For every file, wherever the buffer moves to while it is read and in    *)
(* whatever order qsort leaves equal symbols: the table holds the lines of *)
(* the file, sorted, every name pointer good, and a name is found at its   *)
(* lowest address.                                                         *)
THEOREM LoadedTableIsFile == LookupSpec => []TableIsFile
<1>1. LookupInv => TableIsFile
  <2> SUFFICES ASSUME LoadInv, pc = "ready" PROVE TableIsFile
    BY DEF TableIsFile, LookupInv
  <2> QED BY Loaded, LinesKept, NameFound DEF TableIsFile
<1> QED BY <1>1, LookupAlways, PTL

(* The loop invariant of the binary search, in every table that loading    *)
(* can give, for every address.                                            *)
THEOREM WindowKept == LookupSpec => []Window
<1>1. LookupInv => Window
  BY DEF LookupInv
<1> QED BY <1>1, LookupAlways, PTL

(* The symbol ksyms__map_addr returns is the last one at or below the      *)
(* address.                                                                *)
THEOREM SearchCorrect == LookupSpec => []LargestBelow
<1>1. LookupInv => LargestBelow
  BY DEF LookupInv
<1> QED BY <1>1, LookupAlways, PTL

(* Every turn of the search reads inside the table and shrinks the window, *)
(* so there are at most as many turns as symbols.                          *)
THEOREM SearchShrinks == LookupSpec => Shrinks
<1>1. LookupInv => [Halve => Mid \in 0 .. array_sz - 1
                             /\ end' - start' < end - start]_searchVars
  <2> SUFFICES ASSUME Window, Halve
               PROVE  Mid \in 0 .. array_sz - 1 /\ end' - start' < end - start
    BY DEF LookupInv
  <2>1. Mid \in Nat /\ start < Mid /\ Mid <= end
    BY MidBounds DEF Window, Halve
  <2> QED BY <2>1 DEF Window, Halve
<1> QED BY <1>1, LookupAlways, PTL DEF Shrinks
=============================================================================
