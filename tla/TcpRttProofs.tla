---------------------------- MODULE TcpRttProofs ----------------------------
(***************************************************************************)
(* Proofs about TcpRtt, for any CPUs, connections, addresses, elements,    *)
(* options and round-trip times.                                           *)
(***************************************************************************)
EXTENDS TcpRtt, WellFoundedInduction, TLAPS

CPU == [pc : {"idle", "lookup", "init", "relookup", "slot", "latency", "cnt"},
        key : Keys, elem : Elems \cup {NoElem}, srtt : Nat, gone : BOOLEAN]

Holding == {"slot", "latency", "cnt"}

LEMMA NoElemOut == NoElem \notin Elems /\ NoElem \notin Keys
  BY ConstantsAssumption

LEMMA ZeroType == /\ zero \in Hist /\ zero.cnt = 0 /\ zero.from = {} /\ ~zero.shown
                  /\ zero.slots \in [Slots -> Nat] /\ nothing \in [Keys -> [Slots -> Nat]]
<1>1. zero \in Hist /\ zero.cnt = 0 /\ zero.from = {} /\ ~zero.shown
  BY DEF zero, Hist
<1>2. zero.slots \in [Slots -> Nat]
  BY <1>1 DEF Hist
<1> QED BY <1>1, <1>2 DEF nothing

LEMMA IdleType == /\ IdleCpu \in CPU /\ IdleCpu.pc = "idle" /\ IdleCpu.elem = NoElem
                  /\ ~IdleCpu.gone
  BY ConstantsAssumption DEF IdleCpu, CPU

LEMMA SrttType == \A us \in Nat : Srtt(us) \in Nat
  BY DEF Srtt

LEMMA Least ==
  ASSUME NEW T, T \subseteq Nat, T # {}
  PROVE  \E m \in T : \A n \in T : m <= n
<1>1. PICK m \in T : \A n \in T : <<n, m>> \notin OpToRel(<, Nat)
  BY NatLessThanWellFounded, WFMin
<1>2. \A n \in T : ~(n < m)
  BY <1>1 DEF OpToRel
<1> QED BY <1>2

(* A key's place in the order of bpf_map_get_next_key.                     *)
LEMMA PosType ==
  /\ \A k \in Keys : Pos(k) \in Nat
  /\ \A k, l \in Keys : Pos(k) = Pos(l) => k = l
<1>1. \A k \in Keys : \E i \in DOMAIN keyOrder : keyOrder[i] = k
  BY DEF Keys, Range
<1>2. \A k \in Keys : Pos(k) \in DOMAIN keyOrder /\ keyOrder[Pos(k)] = k
  BY <1>1 DEF Pos
<1>3. DOMAIN keyOrder \subseteq Nat
  BY ConstantsAssumption
<1> QED BY <1>2, <1>3

(* The key visited next is linked and comes first among those to come; and *)
(* the walk ends only when none is to come.                                *)
LEMMA NextKeysFirst ==
  ASSUME NEW k, NEW x \in NextKeys(k)
  PROVE  /\ x \in Linked /\ x \in Keys /\ elemOf[x] # NoElem
         /\ k \in Linked => Pos(x) > Pos(k)
         /\ \A y \in Later(k) : Pos(x) <= Pos(y)
  BY DEF NextKeys, Later, Linked

LEMMA NextKeysEnd == ASSUME NEW k, NextKeys(k) = {} PROVE Later(k) = {}
<1> SUFFICES ASSUME Later(k) # {} PROVE FALSE
  OBVIOUS
<1> DEFINE P == {Pos(x) : x \in Later(k)}
<1>1. P \subseteq Nat /\ P # {}
  BY PosType DEF Later, Linked
<1>2. PICK m \in P : \A n \in P : m <= n
  BY <1>1, Least
<1>3. PICK x \in Later(k) : m = Pos(x)
  BY <1>2
<1>4. x \in NextKeys(k)
  BY <1>2, <1>3 DEF NextKeys
<1> QED BY <1>4

-----------------------------------------------------------------------------
(* Types.                                                                  *)

LEMMA InitType == Init => TypeOK
<1> SUFFICES ASSUME Init PROVE TypeOK
  OBVIOUS
<1>1. hist \in [Elems -> Hist] /\ elemOf \in [Keys -> Elems \cup {NoElem}]
  BY ZeroType DEF Init
<1>2. cpu \in [CPUs -> CPU] /\ \A c \in CPUs : cpu[c].pc = "idle"
  BY IdleType DEF Init
<1>3. exiting \in BOOLEAN /\ main = "start" /\ cursor = NoElem
      /\ rounds = 0 /\ samples = 0 /\ added = nothing
  BY DEF Init
<1> QED BY <1>1, <1>2, <1>3, ZeroType DEF TypeOK, CPU

(* A probe is in a state, and holds an element when it is about to write.  *)
CpusOK == /\ cpu \in [CPUs -> CPU]
          /\ \A c \in CPUs : cpu[c].pc \in Holding => cpu[c].elem # NoElem

LEMMA CpuMoves ==
  ASSUME CpusOK, NEW c \in CPUs, NEW w \in CPU, w.pc \in Holding => w.elem # NoElem,
         cpu' = [cpu EXCEPT ![c] = w]
  PROVE  CpusOK' /\ cpu'[c] = w /\ \A d \in CPUs \ {c} : cpu'[d] = cpu[d]
  BY DEF CpusOK

LEMMA CpuSetsPc ==
  ASSUME CpusOK, NEW c \in CPUs,
         NEW pc \in {"idle", "lookup", "init", "relookup", "slot", "latency", "cnt"},
         pc \in Holding => cpu[c].elem # NoElem,
         cpu' = [cpu EXCEPT ![c].pc = pc]
  PROVE  /\ CpusOK' /\ cpu'[c].pc = pc /\ cpu'[c].key = cpu[c].key
         /\ cpu'[c].elem = cpu[c].elem /\ cpu'[c].gone = cpu[c].gone
         /\ \A d \in CPUs \ {c} : cpu'[d] = cpu[d]
<1>1. /\ cpu'[c] = [cpu[c] EXCEPT !.pc = pc] /\ cpu[c] \in CPU
      /\ \A d \in CPUs \ {c} : cpu'[d] = cpu[d] /\ cpu[d] \in CPU
  BY DEF CpusOK
<1>2. /\ cpu'[c] \in CPU /\ cpu'[c].pc = pc /\ cpu'[c].key = cpu[c].key
      /\ cpu'[c].elem = cpu[c].elem /\ cpu'[c].gone = cpu[c].gone
  BY <1>1 DEF CPU
<1>3. cpu' \in [CPUs -> CPU]
  BY <1>1, <1>2 DEF CpusOK
<1> QED BY <1>1, <1>2, <1>3 DEF CpusOK

(* What each step of a probe does to its CPU; the others stay as they are. *)
Same(c) == /\ cpu'[c].key = cpu[c].key /\ cpu'[c].elem = cpu[c].elem
           /\ cpu'[c].gone = cpu[c].gone
Others(c) == \A d \in CPUs \ {c} : cpu'[d] = cpu[d]

LEMMA CpuType ==
  ASSUME TypeOK
  PROVE  /\ CpusOK
         /\ \A c \in CPUs : /\ cpu[c] \in CPU /\ cpu[c].key \in Keys
                            /\ elemOf[cpu[c].key] \in Elems \cup {NoElem}
<1>1. CpusOK
  BY DEF TypeOK, CpusOK, CPU, Holding
<1> QED BY <1>1 DEF CpusOK, CPU, TypeOK

LEMMA RcvMoves ==
  ASSUME TypeOK, NEW c \in CPUs, NEW f \in Flows, NEW us \in SrttUs, tcp_rcv(c, f, us)
  PROVE  /\ CpusOK' /\ Others(c) /\ cpu'[c].pc = "lookup" /\ cpu'[c].elem = NoElem
         /\ ~cpu'[c].gone
<1>1. KeyOf(f) \in Keys /\ Srtt(us) \in Nat
  BY ConstantsAssumption, SrttType DEF KeyOf
<1> DEFINE w == [pc |-> "lookup", key |-> KeyOf(f), elem |-> NoElem, srtt |-> Srtt(us),
                 gone |-> FALSE]
<1>2. w \in CPU /\ w.pc = "lookup" /\ w.elem = NoElem /\ ~w.gone
  BY <1>1 DEF CPU
<1>3. cpu' = [cpu EXCEPT ![c] = w]
  BY DEF tcp_rcv
<1> HIDE DEF w
<1> QED BY CpuType, <1>2, <1>3, CpuMoves DEF Holding, Others

LEMMA LookupMoves ==
  ASSUME TypeOK, NEW c \in CPUs, Lookup(c)
  PROVE  /\ CpusOK' /\ Others(c)
         /\ cpu'[c].key = cpu[c].key /\ cpu'[c].elem = elemOf[cpu[c].key]
         /\ cpu'[c].gone = cpu[c].gone
         /\ cpu'[c].pc = IF elemOf[cpu[c].key] = NoElem THEN "init" ELSE "slot"
<1> DEFINE e == elemOf[cpu[c].key]
           w == [cpu[c] EXCEPT !.elem = e, !.pc = IF e = NoElem THEN "init" ELSE "slot"]
<1>1. cpu[c] \in CPU /\ e \in Elems \cup {NoElem}
  BY CpuType
<1>2. /\ w \in CPU /\ (w.pc \in Holding => w.elem # NoElem) /\ w.key = cpu[c].key
      /\ w.elem = e /\ w.gone = cpu[c].gone /\ w.pc = IF e = NoElem THEN "init" ELSE "slot"
  BY <1>1 DEF CPU, Holding
<1>3. cpu' = [cpu EXCEPT ![c] = w]
  BY <1>1, CpuType DEF Lookup, CpusOK, CPU
<1> HIDE DEF w
<1> QED BY CpuType, <1>2, <1>3, CpuMoves DEF Others

LEMMA TryInitMoves ==
  ASSUME TypeOK, NEW c \in CPUs, TryInit(c)
  PROVE  CpusOK' /\ Others(c) /\ Same(c) /\ cpu'[c].pc = "relookup"
  BY CpuType, CpuSetsPc DEF TryInit, Others, Same, Holding

LEMMA BackToIdle ==
  ASSUME TypeOK, NEW c \in CPUs, cpu' = [cpu EXCEPT ![c] = IdleCpu]
  PROVE  /\ CpusOK' /\ Others(c) /\ cpu'[c].pc = "idle" /\ cpu'[c].elem = NoElem
         /\ ~cpu'[c].gone
  BY CpuType, IdleType, CpuMoves DEF Others, Holding

LEMMA RelookupMoves ==
  ASSUME TypeOK, NEW c \in CPUs, Relookup(c), elemOf[cpu[c].key] # NoElem
  PROVE  /\ CpusOK' /\ Others(c) /\ cpu'[c].pc = "slot"
         /\ cpu'[c].key = cpu[c].key /\ cpu'[c].elem = elemOf[cpu[c].key]
         /\ cpu'[c].gone = cpu[c].gone
<1> DEFINE w == [cpu[c] EXCEPT !.elem = elemOf[cpu[c].key], !.pc = "slot"]
<1>1. /\ w \in CPU /\ w.elem # NoElem /\ w.pc = "slot" /\ w.key = cpu[c].key
      /\ w.elem = elemOf[cpu[c].key] /\ w.gone = cpu[c].gone
  BY CpuType DEF CPU
<1>2. cpu' = [cpu EXCEPT ![c] = w]
  BY CpuType DEF Relookup, CpusOK, CPU
<1> HIDE DEF w
<1> QED BY CpuType, <1>1, <1>2, CpuMoves DEF Others

LEMMA AddMoves ==
  ASSUME TypeOK, NEW c \in CPUs
  PROVE  /\ AddSlot(c) /\ extended =>
              CpusOK' /\ Others(c) /\ Same(c) /\ cpu'[c].pc = "latency"
         /\ AddLatency(c) => CpusOK' /\ Others(c) /\ Same(c) /\ cpu'[c].pc = "cnt"
<1>1. ASSUME AddSlot(c), extended
      PROVE  CpusOK' /\ Others(c) /\ Same(c) /\ cpu'[c].pc = "latency"
  <2>1. cpu[c].elem # NoElem
    BY <1>1, CpuType DEF AddSlot, CpusOK, Holding
  <2> QED BY <1>1, <2>1, CpuType, CpuSetsPc DEF AddSlot, Others, Same
<1>2. ASSUME AddLatency(c)
      PROVE  CpusOK' /\ Others(c) /\ Same(c) /\ cpu'[c].pc = "cnt"
  <2>1. cpu[c].elem # NoElem
    BY <1>2, CpuType DEF AddLatency, CpusOK, Holding
  <2> QED BY <1>2, <2>1, CpuType, CpuSetsPc DEF AddLatency, Others, Same
<1> QED BY <1>1, <1>2

(* The second loop deletes a key: every probe that holds its element is    *)
(* marked, and nothing else about the probes changes.                      *)
LEMMA DeleteMoves ==
  ASSUME TypeOK, NEW k \in Keys,
         cpu' = [c \in CPUs |-> [cpu[c] EXCEPT !.gone = @ \/ cpu[c].elem = elemOf[k]]]
  PROVE  /\ CpusOK'
         /\ \A c \in CPUs : /\ cpu'[c].pc = cpu[c].pc /\ cpu'[c].key = cpu[c].key
                            /\ cpu'[c].elem = cpu[c].elem
                            /\ ~cpu'[c].gone => ~cpu[c].gone /\ cpu[c].elem # elemOf[k]
<1>1. ASSUME NEW c \in CPUs
      PROVE  /\ cpu'[c] \in CPU
             /\ cpu'[c].pc = cpu[c].pc /\ cpu'[c].key = cpu[c].key
             /\ cpu'[c].elem = cpu[c].elem
             /\ ~cpu'[c].gone => ~cpu[c].gone /\ cpu[c].elem # elemOf[k]
  <2> DEFINE g == cpu[c].gone \/ cpu[c].elem = elemOf[k]
  <2>1. cpu[c] \in CPU
    BY CpuType
  <2>2. cpu'[c] = [cpu[c] EXCEPT !.gone = g]
    BY <2>1 DEF CPU
  <2>3. g \in BOOLEAN
    OBVIOUS
  <2> HIDE DEF g
  <2>4. /\ cpu'[c] \in CPU /\ cpu'[c].gone = g
        /\ cpu'[c].pc = cpu[c].pc /\ cpu'[c].key = cpu[c].key
        /\ cpu'[c].elem = cpu[c].elem
    BY <2>1, <2>2, <2>3 DEF CPU
  <2> QED BY <2>4 DEF g
<1>2. cpu' \in [CPUs -> CPU]
  BY <1>1
<1> QED BY <1>1, <1>2, CpuType DEF CpusOK

(* One element's histogram is written.                                     *)
LEMMA Writes ==
  ASSUME hist \in [Elems -> Hist], NEW e \in Elems, NEW w \in Hist,
         hist' = [hist EXCEPT ![e] = w]
  PROVE  /\ hist' \in [Elems -> Hist] /\ hist'[e] = w
         /\ \A x \in Elems \ {e} : hist'[x] = hist[x]
  OBVIOUS

(* An increment of a slot; one outside the array is not modelled.          *)
Bump(g, s) == [g EXCEPT ![s] = g[s] + 1]

LEMMA Counted ==
  ASSUME NEW g \in [Slots -> Nat], NEW s
  PROVE  Bump(g, s) \in [Slots -> Nat]
<1> USE DEF Bump
<1>1. CASE s \in Slots
  <2>1. g[s] + 1 \in Nat
    BY <1>1
  <2> QED BY <2>1
<1>2. CASE s \notin Slots
  <2>1. Bump(g, s) = g
    BY <1>2
  <2> QED BY <2>1
<1> QED BY <1>1, <1>2

(* tcp_rcv's three updates of an element, and what each leaves alone.      *)
LEMMA AddSlotWrites ==
  ASSUME TypeOK, NEW c \in CPUs, AddSlot(c)
  PROVE  LET e == cpu[c].elem
         IN  /\ e \in Elems /\ hist' \in [Elems -> Hist]
             /\ \A x \in Elems \ {e} : hist'[x] = hist[x]
             /\ hist'[e].cnt = hist[e].cnt /\ hist'[e].shown = hist[e].shown
             /\ hist'[e].slots = Bump(hist[e].slots, Slot(cpu[c].srtt))
             /\ hist'[e].from = IF cpu[c].gone THEN hist[e].from
                                ELSE hist[e].from \cup {cpu[c].key}
<1> DEFINE e == cpu[c].elem
           s == Slot(cpu[c].srtt)
           F == IF cpu[c].gone THEN hist[e].from ELSE hist[e].from \cup {cpu[c].key}
           g == Bump(hist[e].slots, s)
           w == [hist[e] EXCEPT !.slots = g, !.from = F]
<1>1. e \in Elems /\ cpu[c].key \in Keys
  BY DEF TypeOK, AddSlot
<1>2. hist[e] \in Hist
  BY <1>1 DEF TypeOK
<1>3. F \in SUBSET Keys
  BY <1>1, <1>2 DEF Hist
<1>4. hist' = [hist EXCEPT ![e] = w]
  BY <1>1, <1>2 DEF TypeOK, AddSlot, Hist, Bump
<1> HIDE DEF F, s
<1>5. g \in [Slots -> Nat]
  BY <1>2, Counted DEF Hist
<1> HIDE DEF g
<1>6. /\ w \in Hist /\ w.cnt = hist[e].cnt /\ w.shown = hist[e].shown /\ w.from = F
      /\ w.slots = g
  BY <1>5, <1>2, <1>3 DEF Hist
<1> HIDE DEF w, e
<1>7. /\ hist' \in [Elems -> Hist] /\ hist'[e] = w
      /\ \A x \in Elems \ {e} : hist'[x] = hist[x]
  BY <1>1, <1>4, <1>6, Writes DEF TypeOK
<1> QED BY <1>1, <1>6, <1>7 DEF F, e, g, s

LEMMA AddLatencyWrites ==
  ASSUME TypeOK, NEW c \in CPUs, AddLatency(c)
  PROVE  LET e == cpu[c].elem
         IN  /\ e \in Elems /\ hist' \in [Elems -> Hist]
             /\ \A x \in Elems \ {e} : hist'[x] = hist[x]
             /\ hist'[e].cnt = hist[e].cnt /\ hist'[e].shown = hist[e].shown
             /\ hist'[e].from = hist[e].from /\ hist'[e].slots = hist[e].slots
<1> DEFINE e == cpu[c].elem
           w == [hist[e] EXCEPT !.latency = @ + cpu[c].srtt]
<1>1. e \in Elems /\ cpu[c].srtt \in Nat
  BY DEF TypeOK, AddLatency
<1>2. hist[e] \in Hist
  BY <1>1 DEF TypeOK
<1>3. /\ w \in Hist /\ w.cnt = hist[e].cnt /\ w.shown = hist[e].shown
      /\ w.from = hist[e].from /\ w.slots = hist[e].slots
  BY <1>1, <1>2 DEF Hist
<1>4. hist' = [hist EXCEPT ![e] = w]
  BY <1>1, <1>2 DEF TypeOK, AddLatency, Hist
<1> HIDE DEF w
<1> QED BY <1>1, <1>3, <1>4, Writes DEF TypeOK

LEMMA AddCntWrites ==
  ASSUME TypeOK, NEW c \in CPUs, AddCnt(c)
  PROVE  LET e == cpu[c].elem
         IN  /\ e \in Elems /\ hist' \in [Elems -> Hist]
             /\ \A x \in Elems \ {e} : hist'[x] = hist[x]
             /\ hist'[e].cnt = hist[e].cnt + 1 /\ hist'[e].shown = hist[e].shown
             /\ hist'[e].from = hist[e].from /\ hist'[e].slots = hist[e].slots
<1> DEFINE e == cpu[c].elem
           w == [hist[e] EXCEPT !.cnt = @ + 1]
<1>1. e \in Elems
  BY DEF TypeOK, AddCnt
<1>2. hist[e] \in Hist
  BY <1>1 DEF TypeOK
<1>3. /\ w \in Hist /\ w.cnt = hist[e].cnt + 1 /\ w.shown = hist[e].shown
      /\ w.from = hist[e].from /\ w.slots = hist[e].slots
  BY <1>2 DEF Hist
<1>4. hist' = [hist EXCEPT ![e] = w]
  BY <1>1, <1>2 DEF TypeOK, AddCnt, Hist
<1> HIDE DEF w
<1> QED BY <1>1, <1>3, <1>4, Writes DEF TypeOK

(* A histogram is shown: its history flag alone is set.                    *)
LEMMA ShowWrites ==
  ASSUME hist \in [Elems -> Hist], NEW e \in Elems,
         hist' = [hist EXCEPT ![e].shown = TRUE]
  PROVE  /\ hist' \in [Elems -> Hist]
         /\ \A x \in Elems \ {e} : hist'[x] = hist[x]
         /\ hist'[e].cnt = hist[e].cnt /\ hist'[e].from = hist[e].from
         /\ hist'[e].slots = hist[e].slots
<1> DEFINE w == [hist[e] EXCEPT !.shown = TRUE]
<1>1. /\ w \in Hist /\ w.cnt = hist[e].cnt /\ w.from = hist[e].from
      /\ w.slots = hist[e].slots
  BY DEF Hist
<1>2. hist' = [hist EXCEPT ![e] = w]
  BY DEF Hist
<1> HIDE DEF w
<1> QED BY <1>1, <1>2, Writes

(* A key is linked to a cleared element that was free, or the map is left  *)
(* as it was.                                                              *)
LinksFree(k) ==
  \E e \in FreeElems : /\ elemOf[k] = NoElem /\ elemOf' = [elemOf EXCEPT ![k] = e]
                       /\ hist' = [hist EXCEPT ![e] = zero]

LEMMA LinkWrites ==
  ASSUME TypeOK, NEW k \in Keys, LinksFree(k)
  PROVE  /\ elemOf' \in [Keys -> Elems \cup {NoElem}] /\ hist' \in [Elems -> Hist]
         /\ elemOf[k] = NoElem /\ elemOf'[k] \in Elems /\ hist'[elemOf'[k]] = zero
         /\ \A l \in Keys \ {k} : elemOf'[l] = elemOf[l]
         /\ \A l \in Linked : elemOf[l] # elemOf'[k] /\ hist'[elemOf[l]] = hist[elemOf[l]]
<1>1. PICK e \in FreeElems : /\ elemOf[k] = NoElem /\ elemOf' = [elemOf EXCEPT ![k] = e]
                             /\ hist' = [hist EXCEPT ![e] = zero]
  BY DEF LinksFree
<1>2. e \in Elems /\ \A l \in Linked : elemOf[l] # e /\ elemOf[l] \in Elems
  BY DEF FreeElems, TypeOK, Linked
<1>3. /\ hist' \in [Elems -> Hist] /\ hist'[e] = zero
      /\ \A x \in Elems \ {e} : hist'[x] = hist[x]
  BY <1>1, <1>2, ZeroType, Writes DEF TypeOK
<1>4. elemOf' \in [Keys -> Elems \cup {NoElem}] /\ elemOf'[k] = e
      /\ \A l \in Keys \ {k} : elemOf'[l] = elemOf[l]
  BY <1>1, <1>2 DEF TypeOK
<1> QED BY <1>1, <1>2, <1>3, <1>4

MapOK  == elemOf \in [Keys -> Elems \cup {NoElem}] /\ hist \in [Elems -> Hist]
UserOK == /\ main \in {"start", "sleep", "print", "delete", "check", "done", "crashed"}
          /\ cursor \in Keys \cup {NoElem}
          /\ exiting \in BOOLEAN
          /\ {rounds, samples} \subseteq Nat

AddedOK == added \in [Keys -> [Slots -> Nat]]

LEMMA TypeParts == /\ TypeOK => MapOK /\ CpusOK /\ UserOK /\ AddedOK
                   /\ MapOK' /\ CpusOK' /\ UserOK' /\ AddedOK' => TypeOK'
  BY DEF TypeOK, MapOK, CpusOK, UserOK, AddedOK, CPU, Holding

(* The history of the first interval.                                      *)
LEMMA AddSlotRecords ==
  ASSUME TypeOK, NEW c \in CPUs, AddSlot(c)
  PROVE  /\ AddedOK'
         /\ FirstInterval => /\ added'[cpu[c].key] = Bump(added[cpu[c].key], Slot(cpu[c].srtt))
                             /\ \A k \in Keys \ {cpu[c].key} : added'[k] = added[k]
<1> DEFINE k == cpu[c].key
           s == Slot(cpu[c].srtt)
           g == Bump(added[k], s)
<1>1. k \in Keys /\ added \in [Keys -> [Slots -> Nat]]
  BY CpuType DEF TypeOK
<1>2. g \in [Slots -> Nat]
  BY <1>1, Counted
<1>3. FirstInterval => added' = [added EXCEPT ![k] = g]
  BY <1>1 DEF AddSlot, Bump
<1>4. ~FirstInterval => added' = added
  BY DEF AddSlot
<1> HIDE DEF g, k
<1>5. FirstInterval => /\ AddedOK' /\ added'[k] = g
                       /\ \A l \in Keys \ {k} : added'[l] = added[l]
  BY <1>1, <1>2, <1>3 DEF AddedOK
<1> QED BY <1>1, <1>4, <1>5 DEF AddedOK, g, k

LEMMA TryInitLinks ==
  ASSUME NEW c \in CPUs, TryInit(c)
  PROVE  LinksFree(cpu[c].key) \/ UNCHANGED mapVars
  BY DEF TryInit, LinksFree

LEMMA TypeStep == TypeOK /\ [Next]_vars => TypeOK'
<1> SUFFICES ASSUME TypeOK, [Next]_vars PROVE TypeOK'
  OBVIOUS
<1>0. MapOK /\ CpusOK /\ UserOK /\ AddedOK
  BY TypeParts
<1> USE DEF mapVars, userVars, probeVars
<1>1. ASSUME NEW c \in CPUs, Probe(c) PROVE TypeOK'
  <2>1. UserOK'
    <3>1. UNCHANGED userVars
      BY <1>1 DEF Probe, tcp_rcv, Lookup, TryInit, TryInitFails, Relookup, AddSlot,
                  AddLatency, AddCnt
    <3>2. samples' = samples \/ samples' = samples + 1
      BY <1>1 DEF Probe, tcp_rcv, Lookup, TryInit, TryInitFails, Relookup, AddSlot,
                  AddLatency, AddCnt
    <3>3. samples \in Nat /\ rounds \in Nat
      BY <1>0 DEF UserOK
    <3>4. samples' \in Nat
      BY ONLY <3>2, <3>3
    <3> QED BY ONLY <1>0, <3>1, <3>4 DEF UserOK, userVars
  <2>11. AddedOK'
    <3>1. CASE AddSlot(c)
      BY <3>1, AddSlotRecords
    <3>2. CASE ~AddSlot(c)
      <4>1. added' = added
        BY <1>1, <3>2 DEF Probe, tcp_rcv, Lookup, TryInit, TryInitFails, Relookup, AddLatency,
                          AddCnt
      <4> QED BY <1>0, <4>1 DEF AddedOK
    <3> QED BY <3>1, <3>2
  <2>2. ASSUME NEW f \in Flows, NEW us \in SrttUs, tcp_rcv(c, f, us) PROVE MapOK' /\ CpusOK'
    BY <1>0, <2>2, RcvMoves DEF tcp_rcv, MapOK
  <2>3. CASE Lookup(c)
    BY <1>0, <2>1, <2>3, LookupMoves, <2>11, TypeParts DEF Lookup, MapOK
  <2>4. CASE TryInit(c)
    <3>1. CpusOK'
      BY <2>4, TryInitMoves
    <3>2. CASE UNCHANGED mapVars
      BY <1>0, <2>1, <2>11, <3>1, <3>2, TypeParts DEF MapOK
    <3>3. CASE LinksFree(cpu[c].key)
      BY <2>1, <3>1, <3>3, <2>11, CpuType, LinkWrites, TypeParts DEF MapOK
    <3> QED BY <2>4, <3>2, <3>3, TryInitLinks
  <2>5. CASE TryInitFails(c)
    BY <1>0, <2>1, <2>5, <2>11, BackToIdle, TypeParts DEF TryInitFails, MapOK
  <2>6. CASE Relookup(c)
    <3>1. CpusOK'
      BY <2>6, BackToIdle, RelookupMoves DEF Relookup
    <3> QED BY <1>0, <2>1, <2>6, <3>1, <2>11, TypeParts DEF Relookup, MapOK
  <2>7. CASE AddSlot(c)
    <3>1. CpusOK'
      BY <2>7, BackToIdle, AddMoves DEF AddSlot
    <3>2. MapOK'
      BY <1>0, <2>7, AddSlotWrites DEF AddSlot, MapOK
    <3> QED BY <2>1, <2>11, <3>1, <3>2, TypeParts
  <2>8. CASE AddLatency(c)
    <3>1. MapOK'
      BY <1>0, <2>8, AddLatencyWrites DEF AddLatency, MapOK
    <3> QED BY <2>1, <2>8, <3>1, <2>11, AddMoves, TypeParts
  <2>9. CASE AddCnt(c)
    <3>1. MapOK'
      BY <1>0, <2>9, AddCntWrites DEF AddCnt, MapOK
    <3>2. CpusOK'
      BY <2>9, BackToIdle DEF AddCnt
    <3> QED BY <2>1, <2>11, <3>1, <3>2, TypeParts
  <2> QED BY <1>1, <2>1, <2>2, <2>3, <2>4, <2>5, <2>6, <2>7, <2>8, <2>9, <2>11, TypeParts DEF Probe
<1>2. CASE PrintOne
  <2>1. PICK k \in NextKeys(cursor) :
           \/ main' = "crashed" /\ UNCHANGED <<cursor, hist>>
           \/ /\ hist' = [hist EXCEPT ![elemOf[k]].shown = TRUE]
              /\ cursor' = k /\ UNCHANGED main
    BY <1>2 DEF PrintOne
  <2>2. k \in Keys /\ elemOf[k] \in Elems
    BY <1>0, NextKeysFirst DEF MapOK
  <2>3. hist' \in [Elems -> Hist]
    BY <1>0, <2>1, <2>2, ShowWrites DEF MapOK
  <2> QED BY <1>0, <1>2, <2>1, <2>2, <2>3, TypeParts DEF PrintOne, MapOK, CpusOK, UserOK, AddedOK
<1>3. CASE DeleteOne
  <2>1. PICK k \in NextKeys(cursor) :
           /\ elemOf' = [elemOf EXCEPT ![k] = NoElem]
           /\ cpu' = [c \in CPUs |-> [cpu[c] EXCEPT !.gone = @ \/ cpu[c].elem = elemOf[k]]]
           /\ cursor' = k
    BY <1>3 DEF DeleteOne
  <2>2. k \in Keys
    BY NextKeysFirst
  <2>3. CpusOK'
    BY <2>1, <2>2, DeleteMoves
  <2> QED BY <1>0, <1>3, <2>1, <2>2, <2>3, TypeParts DEF DeleteOne, MapOK, UserOK, AddedOK
<1>4. CASE Start \/ Wake \/ PrintEnd \/ DeleteEnd \/ Leave \/ PrintMapFails \/ Again \/ sig_handler
  <2>1. UNCHANGED <<mapVars, cpu>>
    BY <1>4 DEF Start, Wake, PrintEnd, DeleteEnd, Leave, PrintMapFails, Again, sig_handler
  <2>2. UserOK'
    <3>1. exiting' = TRUE \/ UNCHANGED exiting
      BY <1>4 DEF Start, Wake, PrintEnd, DeleteEnd, Leave, PrintMapFails, Again, sig_handler
    <3>2. CASE Start \/ Wake \/ PrintEnd \/ DeleteEnd
      BY <1>0, <3>1, <3>2 DEF Start, Wake, PrintEnd, DeleteEnd, UserOK
    <3>3. CASE Leave \/ PrintMapFails \/ Again \/ sig_handler
      BY <1>0, <3>1, <3>3 DEF Leave, PrintMapFails, Again, sig_handler, UserOK
    <3> QED BY <1>4, <3>2, <3>3
  <2>3. added' = added \/ added' = nothing
    BY <1>4 DEF Start, Wake, PrintEnd, DeleteEnd, Leave, PrintMapFails, Again, sig_handler
  <2> QED BY <1>0, <2>1, <2>2, <2>3, ZeroType, TypeParts DEF MapOK, CpusOK, AddedOK
<1>5. CASE UNCHANGED vars
  BY <1>0, <1>5, TypeParts DEF vars, MapOK, CpusOK, UserOK, AddedOK
<1> QED BY <1>1, <1>2, <1>3, <1>4, <1>5 DEF Next, User

(* Every step keeps every variable in its type and no probe ever writes    *)
(* through a histp it has not checked.                                     *)
THEOREM TypeCorrect == Spec => []TypeOK
  BY InitType, TypeStep, PTL DEF Spec

-----------------------------------------------------------------------------
(* Whose samples a histogram holds, and how often they are shown.          *)

(* No element is linked to two keys.                                       *)
Apart == \A k, l \in Linked : elemOf[k] = elemOf[l] => k = l

(* A probe holds an element only while it writes to it, and then the one   *)
(* its key is linked to unless print_map deleted that under it.            *)
HeldInv == \A c \in CPUs :
  /\ cpu[c].pc \notin Holding => cpu[c].elem = NoElem
  /\ cpu[c].pc \in Holding /\ ~cpu[c].gone => cpu[c].elem = elemOf[cpu[c].key]

(* The two loops of print_map: what is to be shown was not, and what was   *)
(* shown is to be deleted.                                                 *)
ShownInv ==
  /\ main \in {"start", "sleep", "check"} => \A k \in Linked : ~hist[elemOf[k]].shown
  /\ main = "print" => /\ cursor \in Linked \cup {NoElem}
                       /\ \A k \in Later(cursor) : ~hist[elemOf[k]].shown
  /\ main = "delete" => \A k \in Linked : hist[elemOf[k]].shown =>
                           cursor = NoElem \/ Pos(k) > Pos(cursor)

MapInv == /\ TypeOK /\ Apart /\ HeldInv
          /\ OwnSamples /\ CntZeroOnlyInFlight /\ ShownInv

LEMMA InitMap == Init => MapInv
<1> SUFFICES ASSUME Init PROVE MapInv
  OBVIOUS
<1>1. Linked = {} /\ main = "start"
  BY DEF Init, Linked
<1>2. \A c \in CPUs : cpu[c].pc = "idle" /\ cpu[c].elem = NoElem
  BY IdleType DEF Init
<1>3. Apart /\ HeldInv
  BY <1>1, <1>2 DEF Apart, HeldInv, Holding
<1>4. OwnSamples /\ CntZeroOnlyInFlight /\ ShownInv
  BY <1>1 DEF OwnSamples, CntZeroOnlyInFlight, ShownInv
<1> QED BY <1>3, <1>4, InitType DEF MapInv

LEMMA MapUnchanged ==
  ASSUME MapInv, UNCHANGED <<mapVars, userVars>>
  PROVE  Apart' /\ OwnSamples' /\ ShownInv'
<1>1. Linked' = Linked /\ Later(cursor)' = Later(cursor)
  BY DEF Linked, Later, mapVars, userVars
<1> QED BY <1>1 DEF MapInv, Apart, OwnSamples, ShownInv, mapVars, userVars

LEMMA LinkKeeps ==
  ASSUME MapInv, NEW k \in Keys, LinksFree(k), UNCHANGED userVars
  PROVE  Apart' /\ OwnSamples' /\ ShownInv'
<1>1. /\ elemOf[k] = NoElem /\ elemOf'[k] \in Elems /\ hist'[elemOf'[k]] = zero
      /\ \A l \in Keys \ {k} : elemOf'[l] = elemOf[l]
      /\ \A l \in Linked : elemOf[l] # elemOf'[k] /\ hist'[elemOf[l]] = hist[elemOf[l]]
  BY LinkWrites DEF MapInv
<1>2. Linked' = Linked \cup {k} /\ k \notin Linked
  BY <1>1, NoElemOut DEF Linked
<1>3. \A l \in Linked : elemOf'[l] = elemOf[l] /\ hist'[elemOf'[l]] = hist[elemOf[l]]
  BY <1>1, <1>2 DEF Linked
<1>4. Apart'
  BY <1>1, <1>2, <1>3 DEF MapInv, Apart
<1>5. OwnSamples'
  BY <1>1, <1>2, <1>3, ZeroType DEF MapInv, OwnSamples
<1>6. ~hist'[elemOf'[k]].shown
  BY <1>1, ZeroType
<1>7. ShownInv'
  <2>1. CASE main = "print"
    <3>1. cursor' \in Linked' \cup {NoElem}
      BY <1>2, <2>1 DEF MapInv, ShownInv, userVars
    <3>2. ASSUME NEW l \in Later(cursor)' PROVE ~hist'[elemOf'[l]].shown
      <4>1. CASE l = k
        BY <1>6, <4>1
      <4>2. CASE l # k
        <5>1. l \in Later(cursor)
          BY <1>2, <3>2, <4>2 DEF Later, userVars
        <5> QED BY <1>3, <2>1, <5>1 DEF MapInv, ShownInv, Later
      <4> QED BY <4>1, <4>2
    <3> QED BY <2>1, <3>1, <3>2 DEF ShownInv, userVars
  <2>2. CASE main \in {"start", "sleep", "check"}
    BY <1>2, <1>3, <1>6, <2>2 DEF MapInv, ShownInv, userVars
  <2>3. CASE main = "delete"
    BY <1>2, <1>3, <1>6, <2>3 DEF MapInv, ShownInv, userVars
  <2> QED BY <2>1, <2>2, <2>3 DEF ShownInv, userVars
<1> QED BY <1>4, <1>5, <1>7

LEMMA WriteKeeps ==
  ASSUME MapInv, NEW e \in Elems, UNCHANGED <<elemOf, userVars>>,
         \A x \in Elems \ {e} : hist'[x] = hist[x],
         hist'[e].shown = hist[e].shown,
         \A k \in Linked : elemOf[k] = e => hist'[e].from \subseteq hist[e].from \cup {k}
  PROVE  Apart' /\ OwnSamples' /\ ShownInv'
<1>1. Linked' = Linked /\ Later(cursor)' = Later(cursor)
  BY DEF Linked, Later, userVars
<1>2. \A k \in Linked : elemOf[k] \in Elems /\ elemOf'[k] = elemOf[k]
  BY DEF MapInv, TypeOK, Linked
<1>3. \A k \in Linked : hist'[elemOf'[k]].shown = hist[elemOf[k]].shown
  BY <1>2
<1>4. \A k \in Linked : hist'[elemOf'[k]].from \subseteq hist[elemOf[k]].from \cup {k}
  BY <1>2
<1>5. Apart'
  BY <1>1, <1>2 DEF MapInv, Apart
<1>6. OwnSamples'
  BY <1>1, <1>4 DEF MapInv, OwnSamples
<1>7. ShownInv'
  BY <1>1, <1>3 DEF MapInv, ShownInv, userVars, Later
<1> QED BY <1>5, <1>6, <1>7

(* What the probes do to each other.                                       *)
LEMMA ProbeKeepsMap ==
  ASSUME MapInv, NEW c \in CPUs, Probe(c)
  PROVE  Apart' /\ OwnSamples' /\ ShownInv'
<1>0. TypeOK
  BY DEF MapInv
<1>1. UNCHANGED userVars
  BY DEF Probe, tcp_rcv, Lookup, TryInit, TryInitFails, Relookup, AddSlot, AddLatency,
         AddCnt
<1>2. CASE UNCHANGED mapVars
  BY <1>1, <1>2, MapUnchanged DEF mapVars, userVars
<1>3. CASE TryInit(c)
  BY <1>0, <1>1, <1>2, <1>3, TryInitLinks, LinkKeeps, CpuType
<1>4. CASE AddSlot(c)
  <2> DEFINE e == cpu[c].elem
  <2>1. /\ e \in Elems /\ \A x \in Elems \ {e} : hist'[x] = hist[x]
        /\ hist'[e].shown = hist[e].shown
        /\ hist'[e].from = IF cpu[c].gone THEN hist[e].from
                           ELSE hist[e].from \cup {cpu[c].key}
    BY <1>0, <1>4, AddSlotWrites
  <2>2. ~cpu[c].gone => e = elemOf[cpu[c].key] /\ cpu[c].key \in Linked
    BY <1>0, <1>4, <2>1, CpuType, NoElemOut DEF AddSlot, MapInv, HeldInv, Holding, Linked
  <2>3. \A k \in Linked : elemOf[k] = e => hist'[e].from \subseteq hist[e].from \cup {k}
    BY <2>1, <2>2 DEF MapInv, Apart
  <2>4. UNCHANGED <<elemOf, userVars>>
    BY <1>1, <1>4 DEF AddSlot
  <2> HIDE DEF e
  <2> QED BY <2>1, <2>3, <2>4, WriteKeeps
<1>5. CASE AddLatency(c)
  <2>1. UNCHANGED <<elemOf, userVars>>
    BY <1>5 DEF AddLatency
  <2> QED BY <1>0, <1>5, <2>1, AddLatencyWrites, WriteKeeps
<1>6. CASE AddCnt(c)
  <2>1. UNCHANGED <<elemOf, userVars>>
    BY <1>6 DEF AddCnt
  <2> QED BY <1>0, <1>6, <2>1, AddCntWrites, WriteKeeps
<1> QED BY <1>2, <1>3, <1>4, <1>5, <1>6 DEF Probe, tcp_rcv, Lookup, TryInitFails, Relookup

(* An element stays linked to its key while probes run.                    *)
LEMMA LinksStay ==
  ASSUME TypeOK, NEW c \in CPUs, Probe(c)
  PROVE  \A k \in Keys : elemOf[k] # NoElem => elemOf'[k] = elemOf[k]
<1>1. CASE TryInit(c)
  BY <1>1, TryInitLinks, LinkWrites, CpuType DEF mapVars
<1>2. CASE ~TryInit(c)
  BY <1>2 DEF Probe, tcp_rcv, Lookup, TryInitFails, Relookup, AddSlot, AddLatency, AddCnt,
              mapVars
<1> QED BY <1>1, <1>2

(* The probe's own step leaves it without an element, or with its key's.   *)
Settled(c) == /\ cpu'[c].pc \notin Holding => cpu'[c].elem = NoElem
              /\ cpu'[c].pc \in Holding /\ ~cpu'[c].gone =>
                    cpu'[c].elem = elemOf'[cpu'[c].key]

LEMMA ProbeKeepsHeld ==
  ASSUME MapInv, NEW c \in CPUs, Probe(c)
  PROVE  Others(c) /\ HeldInv'
<1>0. TypeOK /\ HeldInv
  BY DEF MapInv
<1>1. Others(c) /\ Settled(c)
  <2> USE DEF Settled, Holding
  <2>1. ASSUME NEW f \in Flows, NEW us \in SrttUs, tcp_rcv(c, f, us)
        PROVE  Others(c) /\ Settled(c)
    BY <1>0, <2>1, RcvMoves
  <2>2. CASE Lookup(c)
    BY <1>0, <2>2, LookupMoves DEF Lookup, mapVars
  <2>3. CASE TryInit(c)
    BY <1>0, <2>3, TryInitMoves DEF TryInit, Same, HeldInv
  <2>4. CASE TryInitFails(c)
    BY <1>0, <2>4, BackToIdle DEF TryInitFails
  <2>5. CASE Relookup(c)
    <3>1. CASE elemOf[cpu[c].key] = NoElem
      BY <1>0, <2>5, <3>1, BackToIdle DEF Relookup
    <3>2. CASE elemOf[cpu[c].key] # NoElem
      BY <1>0, <2>5, <3>2, RelookupMoves DEF Relookup, mapVars
    <3> QED BY <3>1, <3>2
  <2>6. CASE AddSlot(c)
    <3>1. CASE extended
      BY <1>0, <2>6, <3>1, AddMoves DEF AddSlot, Same, HeldInv
    <3>2. CASE ~extended
      BY <1>0, <2>6, <3>2, BackToIdle DEF AddSlot
    <3> QED BY <3>1, <3>2
  <2>7. CASE AddLatency(c)
    BY <1>0, <2>7, AddMoves DEF AddLatency, Same, HeldInv
  <2>8. CASE AddCnt(c)
    BY <1>0, <2>8, BackToIdle DEF AddCnt
  <2> QED BY <2>1, <2>2, <2>3, <2>4, <2>5, <2>6, <2>7, <2>8 DEF Probe
<1>2. ASSUME NEW d \in CPUs, d # c
      PROVE  /\ cpu'[d].pc \notin Holding => cpu'[d].elem = NoElem
             /\ cpu'[d].pc \in Holding /\ ~cpu'[d].gone =>
                   cpu'[d].elem = elemOf'[cpu'[d].key]
  <2>1. cpu'[d] = cpu[d] /\ cpu[d].key \in Keys
    BY <1>0, <1>1, <1>2, CpuType DEF Others
  <2>2. cpu[d].pc \in Holding => cpu[d].elem # NoElem
    BY <1>0, CpuType DEF CpusOK
  <2> QED BY <1>0, <2>1, <2>2, LinksStay DEF HeldInv
<1> QED BY <1>1, <1>2 DEF HeldInv, Settled

(* The probe that answers for a histogram without a count.                 *)
InFlight(c, k) == \/ cpu[c].pc = "relookup" /\ cpu[c].key = k
                  \/ cpu[c].elem = elemOf[k] /\ cpu[c].pc \in Holding

LEMMA ProbeKeepsCnt ==
  ASSUME MapInv, NEW c \in CPUs, Probe(c), extended
  PROVE  CntZeroOnlyInFlight'
<1>0. TypeOK
  BY DEF MapInv
<1>1. Others(c)
  BY ProbeKeepsHeld
<1>2. SUFFICES ASSUME NEW k \in Linked', hist'[elemOf'[k]].cnt = 0
               PROVE  \E d \in CPUs : \/ cpu'[d].pc = "relookup" /\ cpu'[d].key = k
                                      \/ cpu'[d].elem = elemOf'[k] /\ cpu'[d].pc \in Holding
  BY DEF CntZeroOnlyInFlight, Holding
<1>3. CASE k \notin Linked
  <2>1. k \in Keys /\ elemOf[k] # elemOf'[k]
    BY <1>2, <1>3 DEF Linked
  <2>2. TryInit(c) /\ ~UNCHANGED mapVars
    BY <2>1 DEF Probe, tcp_rcv, Lookup, TryInit, TryInitFails, Relookup, AddSlot, AddLatency,
                AddCnt, mapVars
  <2>3. k = cpu[c].key
    BY <1>0, <2>1, <2>2, TryInitLinks, LinkWrites, CpuType
  <2> QED BY <1>0, <2>2, <2>3, TryInitMoves DEF Same
<1>4. CASE k \in Linked
  <2>1. k \in Keys /\ elemOf'[k] = elemOf[k] /\ elemOf[k] # NoElem /\ elemOf[k] \in Elems
    BY <1>0, <1>4, LinksStay DEF Linked, TypeOK
  <2>2. hist[elemOf[k]].cnt = 0
    <3>1. CASE TryInit(c)
      BY <1>0, <1>2, <1>4, <2>1, <3>1, TryInitLinks, LinkWrites, CpuType DEF mapVars
    <3>2. CASE AddSlot(c)
      BY <1>0, <1>2, <2>1, <3>2, AddSlotWrites
    <3>3. CASE AddLatency(c)
      BY <1>0, <1>2, <2>1, <3>3, AddLatencyWrites
    <3>4. CASE AddCnt(c)
      <4>1. hist[cpu[c].elem].cnt \in Nat
        BY <1>0, <3>4, AddCntWrites DEF TypeOK, Hist
      <4> QED BY <1>0, <1>2, <2>1, <3>4, <4>1, AddCntWrites
    <3> QED BY <1>2, <2>1, <3>1, <3>2, <3>3, <3>4
            DEF Probe, tcp_rcv, Lookup, TryInitFails, Relookup, mapVars
  <2>3. PICK d \in CPUs : InFlight(d, k)
    BY <1>4, <2>2 DEF MapInv, CntZeroOnlyInFlight, InFlight, Holding
  <2>4. CASE d # c
    BY <1>1, <2>1, <2>3, <2>4 DEF Others, InFlight
  <2>5. CASE d = c
    <3>1. CASE Relookup(c)
      <4>1. cpu[c].key = k
        BY <2>3, <2>5, <3>1 DEF InFlight, Relookup, Holding
      <4> QED BY <1>0, <2>1, <3>1, <4>1, RelookupMoves DEF Holding
    <3>2. CASE AddSlot(c)
      <4>1. cpu[c].elem = elemOf[k]
        BY <2>3, <2>5, <3>2 DEF InFlight, AddSlot
      <4> QED BY <1>0, <2>1, <3>2, <4>1, AddMoves DEF Holding, Same
    <3>3. CASE AddLatency(c)
      <4>1. cpu[c].elem = elemOf[k]
        BY <2>3, <2>5, <3>3 DEF InFlight, AddLatency
      <4> QED BY <1>0, <2>1, <3>3, <4>1, AddMoves DEF Holding, Same
    <3>4. CASE AddCnt(c)
      <4>1. cpu[c].elem = elemOf[k]
        BY <2>3, <2>5, <3>4 DEF InFlight, AddCnt
      <4>2. hist[cpu[c].elem].cnt \in Nat
        BY <1>0, <3>4, AddCntWrites DEF TypeOK, Hist
      <4> QED BY <1>0, <1>2, <2>1, <3>4, <4>1, <4>2, AddCntWrites
    <3>5. CASE cpu[c].pc \in {"idle", "lookup", "init"}
      BY <2>3, <2>5, <3>5 DEF InFlight, Holding
    <3> QED BY <3>1, <3>2, <3>3, <3>4, <3>5 DEF Probe, tcp_rcv, Lookup, TryInit, TryInitFails
  <2> QED BY <2>4, <2>5
<1> QED BY <1>3, <1>4

(* What print_map does while the probes go on.                             *)
LEMMA PrintKeeps == ASSUME MapInv, PrintOne PROVE MapInv'
<1>0. TypeOK /\ TypeOK'
  BY TypeStep DEF MapInv, Next, User
<1>1. UNCHANGED <<elemOf, cpu>> /\ main = "print"
  BY DEF PrintOne, probeVars
<1>2. PICK k \in NextKeys(cursor) :
         \/ main' = "crashed" /\ UNCHANGED <<cursor, hist>>
         \/ /\ hist' = [hist EXCEPT ![elemOf[k]].shown = TRUE]
            /\ cursor' = k /\ UNCHANGED main
  BY DEF PrintOne
<1>3. /\ k \in Linked /\ elemOf[k] \in Elems
      /\ cursor \in Linked => Pos(k) > Pos(cursor)
  BY <1>0, NextKeysFirst DEF TypeOK
<1>4. Linked' = Linked
  BY <1>1 DEF Linked
<1>5. /\ \A x \in Elems : hist'[x].cnt = hist[x].cnt /\ hist'[x].from = hist[x].from
      /\ \A x \in Elems \ {elemOf[k]} : hist'[x] = hist[x]
  BY <1>0, <1>2, <1>3, ShowWrites DEF TypeOK
<1>6. \A l \in Linked : elemOf[l] \in Elems /\ elemOf'[l] = elemOf[l]
  BY <1>0, <1>1 DEF Linked, TypeOK
<1>7. Apart' /\ HeldInv'
  BY <1>1, <1>4 DEF MapInv, Apart, HeldInv
<1>8. OwnSamples'
  BY <1>4, <1>5, <1>6 DEF MapInv, OwnSamples
<1>9. CntZeroOnlyInFlight'
  BY <1>1, <1>4, <1>5, <1>6 DEF MapInv, CntZeroOnlyInFlight
<1>10. ShownInv'
  <2>1. CASE main' = "crashed"
    BY <2>1 DEF ShownInv
  <2>2. CASE cursor' = k /\ main' = "print"
    <3>1. ASSUME NEW l \in Linked, Pos(l) > Pos(k) PROVE ~hist'[elemOf'[l]].shown
      <4>1. Pos(l) \in Nat /\ Pos(k) \in Nat /\ (cursor \in Linked => Pos(cursor) \in Nat)
        BY <1>3, PosType DEF Linked
      <4>2. l \in Later(cursor) /\ l # k
        BY <1>3, <3>1, <4>1 DEF Later
      <4>3. elemOf[l] # elemOf[k]
        BY <1>3, <4>2 DEF MapInv, Apart
      <4> QED BY <1>1, <1>5, <1>6, <4>2, <4>3 DEF MapInv, ShownInv
    <3> QED BY <1>3, <1>4, <2>2, <3>1 DEF ShownInv, Later
  <2> QED BY <1>1, <1>2, <2>1, <2>2
<1> QED BY <1>0, <1>7, <1>8, <1>9, <1>10 DEF MapInv

LEMMA DeleteKeeps == ASSUME MapInv, DeleteOne PROVE MapInv'
<1>0. TypeOK /\ TypeOK'
  BY TypeStep DEF MapInv, Next, User
<1>1. UNCHANGED <<hist, main>> /\ main = "delete"
  BY DEF DeleteOne
<1>2. PICK k \in NextKeys(cursor) :
         /\ elemOf' = [elemOf EXCEPT ![k] = NoElem]
         /\ cpu' = [c \in CPUs |-> [cpu[c] EXCEPT !.gone = @ \/ cpu[c].elem = elemOf[k]]]
         /\ cursor' = k
  BY DEF DeleteOne
<1>3. /\ k \in Linked /\ k \in Keys /\ elemOf[k] # NoElem
      /\ cursor \in Linked => Pos(k) > Pos(cursor)
      /\ \A l \in Later(cursor) : Pos(k) <= Pos(l)
  BY NextKeysFirst
<1>4. /\ elemOf'[k] = NoElem /\ \A l \in Keys \ {k} : elemOf'[l] = elemOf[l]
  BY <1>0, <1>2, <1>3 DEF TypeOK
<1>5. Linked' = Linked \ {k}
  BY <1>4 DEF Linked
<1>6. \A l \in Linked' : l \in Linked /\ elemOf'[l] = elemOf[l]
  BY <1>4, <1>5 DEF Linked
<1>7. \A c \in CPUs : /\ cpu'[c].pc = cpu[c].pc /\ cpu'[c].key = cpu[c].key
                      /\ cpu'[c].elem = cpu[c].elem
                      /\ ~cpu'[c].gone => ~cpu[c].gone /\ cpu[c].elem # elemOf[k]
  BY <1>0, <1>2, <1>3, DeleteMoves
<1>8. Apart'
  BY <1>6 DEF MapInv, Apart
<1>9. HeldInv'
  <2>1. ASSUME NEW c \in CPUs, cpu'[c].pc \in Holding, ~cpu'[c].gone
        PROVE  cpu'[c].elem = elemOf'[cpu'[c].key]
    <3>1. cpu[c].elem = elemOf[cpu[c].key] /\ cpu[c].key # k /\ cpu[c].key \in Keys
      BY <1>0, <1>7, <2>1, CpuType DEF MapInv, HeldInv
    <3> QED BY <1>4, <1>7, <3>1
  <2> QED BY <1>7, <2>1 DEF MapInv, HeldInv
<1>10. OwnSamples'
  BY <1>1, <1>6 DEF MapInv, OwnSamples
<1>11. CntZeroOnlyInFlight'
  BY <1>1, <1>6, <1>7 DEF MapInv, CntZeroOnlyInFlight
<1>12. ShownInv'
  <2>1. ASSUME NEW l \in Linked', hist'[elemOf'[l]].shown PROVE Pos(l) > Pos(k)
    <3>1. l \in Linked /\ l \in Keys /\ l # k /\ hist[elemOf[l]].shown
      BY <1>1, <1>5, <1>6, <2>1 DEF Linked
    <3>2. cursor = NoElem \/ Pos(l) > Pos(cursor)
      BY <1>1, <3>1 DEF MapInv, ShownInv
    <3>3. NoElem \notin Linked
      BY NoElemOut DEF Linked
    <3>4. l \in Later(cursor)
      BY <3>1, <3>2, <3>3 DEF Later
    <3>5. Pos(l) \in Nat /\ Pos(k) \in Nat /\ Pos(l) # Pos(k)
      BY <1>3, <3>1, PosType
    <3> QED BY <1>3, <3>4, <3>5
  <2> QED BY <1>1, <1>2, <2>1 DEF ShownInv
<1> QED BY <1>0, <1>8, <1>9, <1>10, <1>11, <1>12 DEF MapInv

LEMMA MapStep == MapInv /\ [Next]_vars => MapInv'
<1> SUFFICES ASSUME MapInv, [Next]_vars PROVE MapInv'
  OBVIOUS
<1>0. TypeOK /\ TypeOK'
  BY TypeStep DEF MapInv
<1>1. ASSUME NEW c \in CPUs, Probe(c) PROVE MapInv'
  <2>1. CntZeroOnlyInFlight'
    BY <1>1, ProbeKeepsCnt DEF CntZeroOnlyInFlight
  <2> QED BY <1>0, <1>1, <2>1, ProbeKeepsMap, ProbeKeepsHeld DEF MapInv
<1>2. CASE PrintOne
  BY <1>2, PrintKeeps
<1>3. CASE DeleteOne
  BY <1>3, DeleteKeeps
<1>4. ASSUME UNCHANGED <<mapVars, cpu>>, ShownInv' PROVE MapInv'
  <2>1. Linked' = Linked
    BY <1>4 DEF Linked, mapVars
  <2> QED BY <1>0, <1>4, <2>1 DEF MapInv, Apart, HeldInv, OwnSamples, CntZeroOnlyInFlight,
                                  mapVars
<1>5. CASE Start \/ Wake \/ PrintEnd \/ DeleteEnd \/ Leave \/ PrintMapFails \/ Again \/ sig_handler
  <2>1. UNCHANGED <<mapVars, cpu>>
    BY <1>5 DEF Start, Wake, PrintEnd, DeleteEnd, Leave, PrintMapFails, Again, sig_handler,
                probeVars
  <2>2. Linked' = Linked /\ \A k \in Linked : hist'[elemOf'[k]] = hist[elemOf[k]]
    BY <2>1 DEF Linked, mapVars
  <2>3. ShownInv'
    <3>1. CASE Start \/ Again \/ Leave \/ PrintMapFails
      BY <2>2, <3>1 DEF Start, Again, Leave, PrintMapFails, MapInv, ShownInv
    <3>2. CASE Wake
      BY <2>2, <3>2 DEF Wake, MapInv, ShownInv, Later
    <3>3. CASE PrintEnd
      BY <2>2, <3>3 DEF PrintEnd, MapInv, ShownInv
    <3>4. CASE DeleteEnd
      <4>1. Later(cursor) = {}
        BY <3>4, NextKeysEnd DEF DeleteEnd
      <4>2. NoElem \notin Linked
        BY NoElemOut DEF Linked
      <4>3. \A k \in Linked : ~hist[elemOf[k]].shown
        BY <3>4, <4>1, <4>2 DEF DeleteEnd, MapInv, ShownInv, Later
      <4> QED BY <2>2, <3>4, <4>3 DEF DeleteEnd, ShownInv
    <3>5. CASE sig_handler
      BY <2>1, <2>2, <3>5 DEF sig_handler, MapInv, ShownInv, Later
    <3> QED BY <1>5, <3>1, <3>2, <3>3, <3>4, <3>5
  <2> QED BY <1>4, <2>1, <2>3
<1>6. CASE UNCHANGED vars
  <2>1. ShownInv'
    BY <1>6, MapUnchanged DEF vars, mapVars, userVars
  <2> QED BY <1>4, <1>6, <2>1 DEF vars, mapVars
<1> QED BY <1>1, <1>2, <1>3, <1>5, <1>6 DEF Next, User

LEMMA MapHolds == Spec => []MapInv
  BY InitMap, MapStep, PTL DEF Spec

(* -b and -B: what the probes do to each other, also in a full map, never  *)
(* puts a sample in another address's histogram.                           *)
THEOREM OwnSamplesHold == Spec => []OwnSamples
<1>1. MapInv => OwnSamples
  BY DEF MapInv
<1> QED BY <1>1, MapHolds, PTL

(* -e: print_map divides by zero only where a probe is still on its way to *)
(* the first cnt increment.                                                *)
THEOREM DividesOnlyInFlight == Spec => []CntZeroOnlyInFlight
<1>1. MapInv => CntZeroOnlyInFlight
  BY DEF MapInv
<1> QED BY <1>1, MapHolds, PTL

(* print_map never shows a sample twice, whatever it deletes and whatever  *)
(* is linked again behind its back.                                        *)
THEOREM ShownOnce == Spec => []SamplesOnce
<1>1. MapInv => SamplesOnce
  BY DEF MapInv, ShownInv, SamplesOnce
<1> QED BY <1>1, MapHolds, PTL

-----------------------------------------------------------------------------
(* Until the first deletion nothing is lost.                               *)

(* ... because no probe's element was taken from it; and a round that was  *)
(* not counted has not come to its check.                                  *)
Exact(k) == added[k] = IF k \in Linked THEN hist[elemOf[k]].slots ELSE zero.slots

FirstInv == /\ FirstInterval => /\ \A k \in Keys : Exact(k)
                                /\ \A c \in CPUs : ~cpu[c].gone
            /\ main = "check" => rounds > 0

LEMMA ProbeKeepsGone ==
  ASSUME TypeOK, NEW c \in CPUs, Probe(c), ~cpu[c].gone
  PROVE  ~cpu'[c].gone
<1>1. ASSUME NEW f \in Flows, NEW us \in SrttUs, tcp_rcv(c, f, us) PROVE ~cpu'[c].gone
  BY <1>1, RcvMoves
<1>2. CASE Lookup(c)
  BY <1>2, LookupMoves
<1>3. CASE TryInit(c)
  BY <1>3, TryInitMoves DEF Same
<1>4. CASE TryInitFails(c)
  BY <1>4, BackToIdle DEF TryInitFails
<1>5. CASE Relookup(c)
  BY <1>5, BackToIdle, RelookupMoves DEF Relookup
<1>6. CASE AddSlot(c)
  BY <1>6, BackToIdle, AddMoves DEF AddSlot, Same
<1>7. CASE AddLatency(c)
  BY <1>7, AddMoves DEF Same
<1>8. CASE AddCnt(c)
  BY <1>8, BackToIdle DEF AddCnt
<1> QED BY <1>1, <1>2, <1>3, <1>4, <1>5, <1>6, <1>7, <1>8 DEF Probe

LEMMA ProbeKeepsExact ==
  ASSUME MapInv, FirstInv, FirstInterval, NEW c \in CPUs, Probe(c), NEW k \in Keys
  PROVE  Exact(k)'
<1>0. TypeOK /\ HeldInv /\ Apart /\ Exact(k) /\ ~cpu[c].gone
  BY DEF MapInv, FirstInv
<1>1. cpu[c].key \in Keys
  BY <1>0, CpuType
<1>2. CASE UNCHANGED <<mapVars, added>>
  BY <1>0, <1>2 DEF Exact, Linked, mapVars
<1>3. CASE TryInit(c) /\ LinksFree(cpu[c].key)
  <2>1. added' = added
    BY <1>3 DEF TryInit
  <2>2. /\ elemOf[cpu[c].key] = NoElem /\ elemOf'[cpu[c].key] # NoElem
        /\ hist'[elemOf'[cpu[c].key]] = zero
        /\ \A l \in Keys \ {cpu[c].key} : elemOf'[l] = elemOf[l]
        /\ \A l \in Linked : hist'[elemOf[l]] = hist[elemOf[l]]
    BY <1>0, <1>1, <1>3, LinkWrites, NoElemOut
  <2>3. CASE k = cpu[c].key
    BY <1>0, <1>1, <2>1, <2>2, <2>3 DEF Exact, Linked
  <2>4. CASE k # cpu[c].key
    BY <1>0, <2>1, <2>2, <2>4 DEF Exact, Linked
  <2> QED BY <2>3, <2>4
<1>4. CASE AddSlot(c)
  <2>0. cpu[c].pc = "slot" /\ elemOf' = elemOf
    BY <1>4 DEF AddSlot
  <2>1. /\ elemOf' = elemOf /\ cpu[c].elem = elemOf[cpu[c].key] /\ cpu[c].elem \in Elems
        /\ cpu[c].key \in Linked
    <3>1. cpu[c].elem = elemOf[cpu[c].key]
      BY <1>0, <2>0 DEF HeldInv, Holding
    <3>2. cpu[c].elem \in Elems
      BY <1>0, <1>4, AddSlotWrites
    <3> QED BY <1>1, <2>0, <3>1, <3>2, NoElemOut DEF Linked
  <2>2. Linked' = Linked
    BY <2>1 DEF Linked
  <2>3. CASE k = cpu[c].key
    <3>1. added'[k] = Bump(added[k], Slot(cpu[c].srtt))
      BY <1>0, <1>4, <2>3, AddSlotRecords
    <3>2. hist'[elemOf[k]].slots = Bump(hist[elemOf[k]].slots, Slot(cpu[c].srtt))
      BY <1>0, <1>4, <2>1, <2>3, AddSlotWrites
    <3>3. added[k] = hist[elemOf[k]].slots
      BY <1>0, <2>1, <2>3 DEF Exact
    <3> QED BY <2>1, <2>2, <2>3, <3>1, <3>2, <3>3 DEF Exact
  <2>4. CASE k # cpu[c].key /\ k \in Linked
    <3>1. elemOf[k] \in Elems \ {cpu[c].elem}
      BY <1>0, <2>1, <2>4 DEF Apart, Linked, TypeOK
    <3> QED BY <1>0, <1>4, <2>1, <2>2, <2>4, <3>1, AddSlotWrites, AddSlotRecords DEF Exact
  <2>5. CASE k # cpu[c].key /\ k \notin Linked
    BY <1>0, <1>4, <2>2, <2>5, AddSlotRecords DEF Exact
  <2> QED BY <2>3, <2>4, <2>5
<1>5. CASE AddLatency(c) \/ AddCnt(c)
  <2>1. elemOf' = elemOf /\ added' = added
    BY <1>5 DEF AddLatency, AddCnt
  <2>2. Linked' = Linked
    BY <2>1 DEF Linked
  <2>3. \A x \in Elems : hist'[x].slots = hist[x].slots
    BY <1>0, <1>5, AddLatencyWrites, AddCntWrites
  <2>4. k \in Linked => elemOf[k] \in Elems
    BY <1>0 DEF Linked, TypeOK
  <2> QED BY <1>0, <2>1, <2>2, <2>3, <2>4 DEF Exact
<1> QED BY <1>2, <1>3, <1>4, <1>5, TryInitLinks
        DEF Probe, tcp_rcv, Lookup, TryInit, TryInitFails, Relookup

LEMMA FirstStep == MapInv /\ FirstInv /\ [Next]_vars => FirstInv'
<1> SUFFICES ASSUME MapInv, FirstInv, [Next]_vars PROVE FirstInv'
  OBVIOUS
<1>0. TypeOK /\ rounds \in Nat
  BY DEF MapInv, TypeOK
<1>1. ASSUME NEW c \in CPUs, Probe(c) PROVE FirstInv'
  <2>1. UNCHANGED userVars
    BY <1>1 DEF Probe, tcp_rcv, Lookup, TryInit, TryInitFails, Relookup, AddSlot, AddLatency,
                AddCnt
  <2>2. FirstInterval' = FirstInterval
    BY <2>1 DEF FirstInterval, userVars
  <2>3. ASSUME FirstInterval PROVE \A d \in CPUs : ~cpu'[d].gone
    BY <1>0, <1>1, <2>3, ProbeKeepsGone, ProbeKeepsHeld DEF FirstInv, Others
  <2> QED BY <1>1, <2>1, <2>2, <2>3, ProbeKeepsExact DEF FirstInv, userVars
<1>2. ASSUME UNCHANGED <<elemOf, cpu, added>>, FirstInterval' => FirstInterval,
             main' = "check" => rounds' > 0,
             \A x \in Elems : hist'[x].slots = hist[x].slots
      PROVE  FirstInv'
  <2>1. Linked' = Linked /\ \A k \in Linked : elemOf[k] \in Elems
    BY <1>0, <1>2 DEF Linked, TypeOK
  <2>2. \A k \in Keys : Exact(k) => Exact(k)'
    BY <1>2, <2>1 DEF Exact
  <2> QED BY <1>2, <2>2 DEF FirstInv
<1>3. CASE PrintOne
  <2>1. PICK k \in NextKeys(cursor) :
           \/ main' = "crashed" /\ UNCHANGED <<cursor, hist>>
           \/ /\ hist' = [hist EXCEPT ![elemOf[k]].shown = TRUE]
              /\ cursor' = k /\ UNCHANGED main
    BY <1>3 DEF PrintOne
  <2>2. elemOf[k] \in Elems
    BY <1>0, NextKeysFirst DEF TypeOK
  <2>3. \A x \in Elems : hist'[x].slots = hist[x].slots
    BY <1>0, <2>1, <2>2, ShowWrites DEF TypeOK
  <2>4. /\ UNCHANGED <<elemOf, cpu, added, rounds>> /\ main = "print"
        /\ main' \in {"print", "crashed"}
    BY <1>3, <2>1 DEF PrintOne, probeVars
  <2> QED BY <1>2, <2>3, <2>4 DEF FirstInterval
<1>4. CASE PrintEnd \/ DeleteOne \/ Leave \/ PrintMapFails
  BY <1>4 DEF PrintEnd, DeleteOne, Leave, PrintMapFails, FirstInv, FirstInterval
<1>5. CASE DeleteEnd
  BY <1>0, <1>5 DEF DeleteEnd, FirstInv, FirstInterval
<1>6. CASE Again
  <2>1. rounds > 0
    BY <1>6 DEF Again, FirstInv
  <2> QED BY <1>0, <1>6, <2>1 DEF Again, FirstInv, FirstInterval
<1>7. CASE Start \/ Wake \/ sig_handler
  <2>1. UNCHANGED <<elemOf, cpu, added, hist, rounds>>
    BY <1>7 DEF Start, Wake, sig_handler, mapVars, probeVars
  <2>2. (FirstInterval' => FirstInterval) /\ (main' = "check" => main = "check")
    BY <1>7, <2>1 DEF Start, Wake, sig_handler, FirstInterval
  <2> QED BY <1>2, <2>1, <2>2 DEF FirstInv
<1>8. CASE UNCHANGED vars
  BY <1>2, <1>8 DEF vars, mapVars, userVars, FirstInv, FirstInterval
<1> QED BY <1>1, <1>3, <1>4, <1>5, <1>6, <1>7, <1>8 DEF Next, User

LEMMA InitFirst == Init => FirstInv
<1> SUFFICES ASSUME Init PROVE FirstInv
  OBVIOUS
<1>1. Linked = {} /\ main = "start"
  BY DEF Init, Linked
<1>2. \A k \in Keys : Exact(k)
  BY <1>1 DEF Init, Exact, nothing
<1>3. \A c \in CPUs : ~cpu[c].gone
  BY IdleType DEF Init
<1> QED BY <1>1, <1>2, <1>3 DEF FirstInv

(* Until print_map first deletes something, every slot of every address    *)
(* holds exactly the increments the probes made for it, for any number of  *)
(* CPUs that race to create the same histogram.                            *)
THEOREM NothingLostAtFirst == Spec => []FirstIntervalExact
<1>1. FirstInv => FirstIntervalExact
  BY DEF FirstInv, FirstIntervalExact, Exact
<1> QED BY <1>1, InitFirst, FirstStep, InitMap, MapStep, PTL DEF Spec

-----------------------------------------------------------------------------
(* The port filters.                                                       *)

LEMMA PairZero ==
  ASSUME NEW a, NEW b, \A i \in 1 .. Len(<<a, b>>) : <<a, b>>[i] = 0
  PROVE  a = 0 /\ b = 0
<1>1. Len(<<a, b>>) = 2 /\ <<a, b>>[1] = a /\ <<a, b>>[2] = b
  OBVIOUS
<1> QED BY <1>1

LEMMA htonsInjective ==
  ASSUME NEW p \in Nat, NEW q \in Nat, p < 65536, q < 65536, Passes(htons(p), htons(q))
  PROVE  p # 0 => p = q
<1> DEFINE hi(n) == (n % 65536) \div 256
           lo(n) == n % 256
<1>1. \A n \in Nat : n < 65536 => hi(n) = n \div 256
  OBVIOUS
<1>2. \A n \in Nat : n = 256 * (n \div 256) + lo(n)
  OBVIOUS
<1>3. htons(p) = <<hi(p), lo(p)>> /\ htons(q) = <<hi(q), lo(q)>>
  BY DEF htons
<1> HIDE DEF hi, lo
<1>4. CASE htons(p) = htons(q)
  <2>1. hi(p) = hi(q) /\ lo(p) = lo(q)
    BY <1>3, <1>4
  <2> QED BY <1>1, <1>2, <2>1
<1>5. CASE \A i \in 1 .. Len(htons(p)) : htons(p)[i] = 0
  <2>1. hi(p) = 0 /\ lo(p) = 0
    BY <1>3, <1>5, PairZero
  <2> QED BY <1>1, <1>2, <2>1
<1> QED BY <1>4, <1>5 DEF Passes

(* -p and -P select exactly the ports asked for, if those are port numbers *)
(* (parse_arg cuts any other number to 16 bits).                           *)
THEOREM PortsSelected ==
  ASSUME opt_p \in Nat, opt_p < 65536, opt_P \in Nat, opt_P < 65536
  PROVE  Spec => OnlyPort
<1> DEFINE Sampled == \A c \in CPUs, f \in Flows, us \in SrttUs :
                         tcp_rcv(c, f, us) => /\ opt_p # 0 => f.sport = opt_p
                                              /\ opt_P # 0 => f.dport = opt_P
<1>1. Sampled
  <2> SUFFICES ASSUME NEW c \in CPUs, NEW f \in Flows, NEW us \in SrttUs,
                      tcp_rcv(c, f, us)
               PROVE  (opt_p # 0 => f.sport = opt_p) /\ (opt_P # 0 => f.dport = opt_P)
    OBVIOUS
  <2>1. Passes(htons(opt_p), htons(f.sport)) /\ Passes(htons(opt_P), htons(f.dport))
    BY DEF tcp_rcv, Selected, Port
  <2>2. /\ f.sport \in Nat /\ f.sport < 65536
        /\ f.dport \in Nat /\ f.dport < 65536
    BY ConstantsAssumption
  <2> QED BY <2>1, <2>2, htonsInjective
<1> HIDE DEF Sampled
<1>2. Spec => [][Sampled]_vars
  BY <1>1, PTL
<1> QED BY <1>2 DEF OnlyPort, Sampled

-----------------------------------------------------------------------------
(* The bars of print_stars.                                                *)

LEMMA MinIs ==
  ASSUME NEW S, S \subseteq Nat, S # {}
  PROVE  Min(S) \in S /\ \A y \in S : Min(S) <= y
<1>1. \E x \in S : \A y \in S : x <= y
  BY Least
<1> QED BY <1>1 DEF Min

LEMMA MaxIs ==
  ASSUME NEW S, S \subseteq Nat, S # {}, NEW b \in Nat, \A y \in S : y <= b
  PROVE  Max(S) \in S /\ \A y \in S : Max(S) >= y
<1> DEFINE T == {b - y : y \in S}
<1>1. T \subseteq Nat /\ T # {}
  OBVIOUS
<1>2. PICK m \in T : \A n \in T : m <= n
  BY <1>1, Least
<1>3. PICK x \in S : m = b - x
  BY <1>2
<1>4. ASSUME NEW y \in S PROVE x >= y
  <2>1. b - y \in T
    OBVIOUS
  <2>2. b - x <= b - y
    BY <1>2, <1>3, <2>1
  <2> QED BY <2>2
<1>5. \E z \in S : \A y \in S : z >= y
  BY <1>4
<1> QED BY <1>5 DEF Max

LEMMA Product ==
  ASSUME NEW a \in Nat, NEW b \in Nat, NEW w \in Nat, a <= b
  PROVE  a * w \in Nat /\ a * w <= b * w
  OBVIOUS

LEMMA Remainder ==
  ASSUME NEW a \in Nat, NEW u \in Nat, u > 0
  PROVE  a % u \in Nat /\ a % u <= a
  OBVIOUS

LEMMA Quotient ==
  ASSUME NEW r \in Nat, NEW b \in Nat, b > 0, NEW w \in Nat, r <= b * w
  PROVE  r \div b <= w
  OBVIOUS

(* A product that wraps only makes a bar shorter.                          *)
LEMMA StarsBound ==
  ASSUME NEW val \in Nat, NEW max \in Nat, max > 0
  PROVE  Stars(val, max) <= Width
<1> DEFINE m == Min({val, max})
<1>1. m \in Nat /\ m <= max
  <2>1. {val, max} \subseteq Nat /\ {val, max} # {} /\ max \in {val, max}
    OBVIOUS
  <2>2. m \in {val, max} /\ \A y \in {val, max} : m <= y
    BY <2>1, MinIs
  <2> QED BY <2>1, <2>2
<1>2. Width \in Nat /\ UIntMod \in Nat /\ UIntMod > 0
  BY HistAssumption
<1> HIDE DEF m
<1>3. m * Width \in Nat /\ m * Width <= max * Width
  BY <1>1, <1>2, Product
<1>4. (m * Width) % UIntMod \in Nat /\ (m * Width) % UIntMod <= m * Width
  BY <1>2, <1>3, Remainder
<1>5. (m * Width) % UIntMod <= max * Width
  <2>1. max * Width \in Nat
    BY <1>2
  <2> QED BY <1>3, <1>4, <2>1
<1>6. ((m * Width) % UIntMod) \div max <= Width
  BY <1>2, <1>4, <1>5, Quotient
<1> QED BY <1>6 DEF Stars, m

LEMMA BarsBounded == StarsFit
<1> SUFFICES ASSUME NEW i \in SlotIdx, NEW j \in SlotIdx, NEW x \in Counts, NEW y \in Counts
             PROVE  LET v == [k \in SlotIdx |-> IF k = i THEN x ELSE IF k = j THEN y ELSE 0]
                    IN  \A k \in Shown(v) : Stars(v[k], ValMax(v)) <= Width
  BY DEF StarsFit
<1> DEFINE v == [k \in SlotIdx |-> IF k = i THEN x ELSE IF k = j THEN y ELSE 0]
           S == {v[k] : k \in SlotIdx} \cup {0}
<1>1. x \in Nat /\ y \in Nat
  BY HistAssumption
<1>2. S # {} /\ S \subseteq {x, y, 0} /\ \A k \in SlotIdx : v[k] \in S /\ v[k] \in Nat
  BY <1>1
<1> HIDE DEF S, v
<1>3. Max(S) \in S /\ \A z \in S : Max(S) >= z
  <2>1. S \subseteq Nat /\ x + y \in Nat /\ \A z \in S : z <= x + y
    BY <1>1, <1>2
  <2> QED BY <1>2, <2>1, MaxIs
<1>4. Max(S) \in Nat
  <2>1. {x, y, 0} \subseteq Nat
    BY <1>1
  <2> QED BY <1>2, <1>3, <2>1
<1>5. ASSUME NEW k \in Shown(v) PROVE Stars(v[k], ValMax(v)) <= Width
  <2>1. k \in SlotIdx /\ \E l \in SlotIdx : v[l] > 0
    BY <1>5 DEF Shown
  <2>2. Max(S) > 0
    BY <1>2, <1>3, <1>4, <2>1
  <2>3. Stars(v[k], Max(S)) <= Width
    BY <1>2, <1>4, <2>1, <2>2, StarsBound
  <2> QED BY <2>3 DEF ValMax, S
<1> QED BY <1>5 DEF v

(* No bar is wider than its column and none divides by zero, for any       *)
(* counts, widths of the column and of unsigned int.                       *)
THEOREM BarsInColumn == Spec => []BarsFit
<1>1. BarsFit
  BY BarsBounded DEF BarsFit
<1> QED BY <1>1, PTL

-----------------------------------------------------------------------------
(* The rows of print_log2_hist.                                            *)

(* Induction over the numbers, as a fact about sets.                       *)
LEMMA Induction ==
  ASSUME NEW S, 0 \in S, \A n \in Nat : n \in S => n + 1 \in S
  PROVE  Nat \subseteq S
<1> SUFFICES ASSUME Nat \ S # {} PROVE FALSE
  OBVIOUS
<1>1. PICK m \in Nat \ S : \A n \in Nat \ S : m <= n
  <2>1. Nat \ S \subseteq Nat
    OBVIOUS
  <2> QED BY <2>1, Least
<1>2. m # 0 /\ m - 1 \in Nat /\ m - 1 \in S
  BY <1>1
<1>3. (m - 1) + 1 \in S
  BY <1>2
<1> QED BY <1>1, <1>3

(* The powers of two up to the n-th, as a table.                           *)
Powers(g, n) == /\ g \in [0 .. n -> Nat] /\ g[0] = 1
                /\ \A i \in 0 .. n : i > 0 => g[i] = 2 * g[i - 1]

LEMMA PowersExist == \A n \in Nat : \E g : Powers(g, n)
<1> DEFINE S == {n \in Nat : \E g : Powers(g, n)}
<1>1. 0 \in S
  <2>1. Powers([i \in 0 .. 0 |-> 1], 0)
    BY DEF Powers
  <2> QED BY <2>1
<1>2. ASSUME NEW n \in Nat, n \in S PROVE n + 1 \in S
  <2>1. PICK g : Powers(g, n)
    BY <1>2
  <2> DEFINE h == [i \in 0 .. n + 1 |-> IF i <= n THEN g[i] ELSE 2 * g[n]]
  <2>2. Powers(h, n + 1)
    <3>1. g[n] \in Nat /\ h \in [0 .. n + 1 -> Nat]
      BY <2>1 DEF Powers
    <3>2. h[0] = 1
      BY <2>1 DEF Powers
    <3>3. ASSUME NEW i \in 0 .. n + 1, i > 0 PROVE h[i] = 2 * h[i - 1]
      <4>1. i - 1 \in 0 .. n + 1 /\ i - 1 <= n
        BY <3>3
      <4>2. CASE i <= n
        BY <2>1, <3>3, <4>1, <4>2 DEF Powers
      <4>3. CASE i = n + 1
        BY <3>3, <4>1, <4>3
      <4> QED BY <3>3, <4>2, <4>3
    <3> QED BY <3>1, <3>2, <3>3 DEF Powers
  <2> QED BY <2>2
<1> HIDE DEF S
<1>3. Nat \subseteq S
  BY <1>1, <1>2, Induction
<1> QED BY <1>3 DEF S

LEMMA PowersAgree ==
  ASSUME NEW m \in Nat, NEW n \in Nat, m <= n, NEW g, NEW h, Powers(g, m), Powers(h, n)
  PROVE  \A i \in 0 .. m : g[i] = h[i]
<1> DEFINE S == {i \in Nat : i <= m => g[i] = h[i]}
<1>1. 0 \in S
  BY DEF Powers
<1>2. ASSUME NEW i \in Nat, i \in S PROVE i + 1 \in S
  <2>1. CASE i + 1 <= m
    <3>1. i + 1 \in 0 .. m /\ i + 1 \in 0 .. n /\ i + 1 > 0 /\ (i + 1) - 1 = i /\ i <= m
      BY <2>1
    <3>2. g[i + 1] = 2 * g[i] /\ h[i + 1] = 2 * h[i]
      BY <3>1 DEF Powers
    <3> QED BY <1>2, <3>1, <3>2
  <2> QED BY <2>1
<1> HIDE DEF S
<1>3. Nat \subseteq S
  BY <1>1, <1>2, Induction
<1> QED BY <1>3 DEF S

(* ... so 1 << n is defined for every n.                                   *)
LEMMA Pow2Def ==
  /\ Pow2[0] = 1
  /\ \A n \in Nat : Pow2[n] \in Nat /\ Pow2[n + 1] = 2 * Pow2[n]
<1> DEFINE T(n) == CHOOSE g : Powers(g, n)
           G == [n \in Nat |-> T(n)[n]]
           F(g) == [n \in Nat |-> IF n = 0 THEN 1 ELSE 2 * g[n - 1]]
<1>1. \A n \in Nat : Powers(T(n), n)
  BY PowersExist
<1> HIDE DEF T
<1>2. ASSUME NEW n \in Nat PROVE G[n] = IF n = 0 THEN 1 ELSE 2 * G[n - 1]
  <2>1. CASE n = 0
    BY <1>1, <2>1 DEF Powers
  <2>2. CASE n > 0
    <3>1. n - 1 \in Nat /\ n - 1 <= n /\ n - 1 \in 0 .. n - 1 /\ n \in 0 .. n
      BY <2>2
    <3>2. T(n)[n] = 2 * T(n)[n - 1]
      BY <1>1, <2>2, <3>1 DEF Powers
    <3>3. T(n - 1)[n - 1] = T(n)[n - 1]
      BY <1>1, <3>1, PowersAgree
    <3> QED BY <2>2, <3>1, <3>2, <3>3
  <2> QED BY <2>1, <2>2
<1>3. \A n \in Nat : G[n] \in Nat
  BY <1>1 DEF Powers
<1>4. G = F(G)
  BY <1>2
<1> HIDE DEF G
<1>5. Pow2 = CHOOSE g : g = F(g)
  BY DEF Pow2
<1>6. Pow2 = F(Pow2)
  BY <1>4, <1>5
<1> HIDE DEF F
<1>7. Pow2[0] = 1 /\ \A n \in Nat : Pow2[n + 1] = 2 * Pow2[n]
  <2>1. \A n \in Nat : F(Pow2)[n] = IF n = 0 THEN 1 ELSE 2 * Pow2[n - 1]
    BY DEF F
  <2>2. ASSUME NEW n \in Nat PROVE Pow2[n + 1] = 2 * Pow2[n]
    <3>1. n + 1 \in Nat /\ n + 1 # 0 /\ (n + 1) - 1 = n
      OBVIOUS
    <3> QED BY <1>6, <2>1, <3>1
  <2> QED BY <1>6, <2>1, <2>2
<1> DEFINE S == {n \in Nat : Pow2[n] \in Nat}
<1>8. 0 \in S /\ \A n \in Nat : n \in S => n + 1 \in S
  BY <1>7
<1> HIDE DEF S
<1>9. Nat \subseteq S
  BY <1>8, Induction
<1> QED BY <1>7, <1>9 DEF S

LEMMA Pow2Positive == \A n \in Nat : Pow2[n] \in Nat /\ Pow2[n] > 0
<1> DEFINE S == {n \in Nat : Pow2[n] > 0}
<1>1. 0 \in S /\ \A n \in Nat : n \in S => n + 1 \in S
  BY Pow2Def
<1> HIDE DEF S
<1>2. Nat \subseteq S
  BY <1>1, Induction
<1> QED BY <1>2, Pow2Def DEF S

LEMMA Pow2Grows ==
  ASSUME NEW i \in Nat, NEW j \in Nat, i < j
  PROVE  Pow2[i + 1] <= Pow2[j]
<1> DEFINE S == {d \in Nat : Pow2[i + 1] <= Pow2[(i + 1) + d]}
<1>1. 0 \in S
  <2>1. (i + 1) + 0 = i + 1 /\ Pow2[i + 1] \in Nat
    BY Pow2Def
  <2> QED BY <2>1
<1>2. ASSUME NEW d \in Nat, d \in S PROVE d + 1 \in S
  <2> DEFINE a == (i + 1) + d
  <2>1. a \in Nat /\ (i + 1) + (d + 1) = a + 1 /\ i + 1 \in Nat
    OBVIOUS
  <2>2. Pow2[i + 1] <= Pow2[a]
    BY <1>2
  <2> HIDE DEF a
  <2>3. Pow2[a + 1] = 2 * Pow2[a] /\ Pow2[a] \in Nat /\ Pow2[i + 1] \in Nat
    BY <2>1, Pow2Def
  <2> QED BY <2>1, <2>2, <2>3
<1> HIDE DEF S
<1>3. Nat \subseteq S
  BY <1>1, <1>2, Induction
<1>4. j - (i + 1) \in Nat /\ (i + 1) + (j - (i + 1)) = j
  OBVIOUS
<1>5. j - (i + 1) \in S
  BY <1>3, <1>4
<1> QED BY <1>4, <1>5 DEF S

LEMMA Pow2Jumps ==
  ASSUME NEW r \in Nat
  PROVE  /\ Pow2[r + 2] = 4 * Pow2[r] /\ Pow2[r + 4] = 16 * Pow2[r]
         /\ Pow2[r + 8] = 256 * Pow2[r] /\ Pow2[r + 16] = 65536 * Pow2[r]
<1>1. \A n \in Nat : Pow2[n + 2] = 4 * Pow2[n]
  <2> SUFFICES ASSUME NEW n \in Nat PROVE Pow2[n + 2] = 4 * Pow2[n]
    OBVIOUS
  <2>1. n + 1 \in Nat /\ (n + 1) + 1 = n + 2
    OBVIOUS
  <2> QED BY <2>1, Pow2Def
<1>2. \A n \in Nat : Pow2[n + 4] = 16 * Pow2[n]
  <2> SUFFICES ASSUME NEW n \in Nat PROVE Pow2[n + 4] = 16 * Pow2[n]
    OBVIOUS
  <2>1. n + 2 \in Nat /\ (n + 2) + 2 = n + 4 /\ Pow2[n] \in Nat
    BY Pow2Def
  <2> QED BY <1>1, <2>1
<1>3. \A n \in Nat : Pow2[n + 8] = 256 * Pow2[n]
  <2> SUFFICES ASSUME NEW n \in Nat PROVE Pow2[n + 8] = 256 * Pow2[n]
    OBVIOUS
  <2>1. n + 4 \in Nat /\ (n + 4) + 4 = n + 8 /\ Pow2[n] \in Nat
    BY Pow2Def
  <2> QED BY <1>2, <2>1
<1>4. Pow2[r + 16] = 65536 * Pow2[r]
  <2>1. r + 8 \in Nat /\ (r + 8) + 8 = r + 16 /\ Pow2[r] \in Nat
    BY Pow2Def
  <2> QED BY <1>3, <2>1
<1> QED BY <1>1, <1>2, <1>3, <1>4

(* What is left of t after r of its bits were shifted out.                 *)
Left(t, r, w) == /\ r \in Nat /\ w \in Nat
                 /\ w * Pow2[r] <= t /\ t < (w + 1) * Pow2[r]

LEMMA LeftShift ==
  ASSUME NEW t \in Nat, NEW r, NEW w, Left(t, r, w), NEW n \in Nat, NEW K \in Nat, K > 0,
         Pow2[r + n] = K * Pow2[r], NEW u \in Nat, u * K <= w, w < (u + 1) * K
  PROVE  Left(t, r + n, u)
<1> DEFINE p == Pow2[r]
<1>1. r \in Nat /\ w \in Nat /\ p \in Nat
  BY Pow2Def DEF Left
<1>2. w * p <= t /\ t < (w + 1) * p
  BY DEF Left
<1> HIDE DEF p
<1>3. u * K \in Nat /\ (u + 1) * K \in Nat
  OBVIOUS
<1>4. w + 1 <= (u + 1) * K
  BY <1>1, <1>3
<1>5. (u * K) * p <= w * p
  BY <1>1, <1>3, Product
<1>6. (w + 1) * p <= ((u + 1) * K) * p
  BY <1>1, <1>3, <1>4, Product
<1>7. (u * K) * p = u * (K * p) /\ ((u + 1) * K) * p = (u + 1) * (K * p)
  BY <1>1
<1>8. /\ w * p \in Nat /\ (w + 1) * p \in Nat /\ (u * K) * p \in Nat
      /\ ((u + 1) * K) * p \in Nat
  BY <1>1, <1>3
<1>9. (u * K) * p <= t /\ t < ((u + 1) * K) * p
  BY <1>2, <1>5, <1>6, <1>8
<1>10. u * (K * p) <= t /\ t < (u + 1) * (K * p)
  BY <1>7, <1>9
<1> QED BY <1>1, <1>10 DEF Left, p

(* One comparison of log2: it shifts n bits out, or none.                  *)
StageOf(w, limit, n, s, u) == s = Shift(w, limit, n) /\ u = w \div Pow2[s]

(* n bits are the digits below K.                                          *)
Bits(n, K, limit) == /\ n \in Nat /\ K \in Nat /\ K > 0 /\ limit = K - 1
                     /\ \A q \in Nat : Pow2[q + n] = K * Pow2[q]

LEMMA BitsOfLog2 == /\ Bits(16, 65536, 65535) /\ Bits(8, 256, 255)
                    /\ Bits(4, 16, 15) /\ Bits(2, 4, 3)
  BY Pow2Jumps DEF Bits

(* The part of t that is left has at most twice those bits, or just those. *)
Below(w, K)  == w \in Nat /\ w > 0 /\ w \div K < K
Within(w, K) == w \in Nat /\ w > 0 /\ w < K

LEMMA Halved == /\ \A w : Within(w, 65536) => Below(w, 256)
                /\ \A w : Within(w, 256) => Below(w, 16)
                /\ \A w : Within(w, 16) => Below(w, 4)
  BY DEF Within, Below

LEMMA Stage ==
  ASSUME NEW t \in Nat, NEW r, NEW w, Left(t, r, w), NEW n, NEW K, NEW limit,
         Bits(n, K, limit), Below(w, K), NEW s, NEW u, StageOf(w, limit, n, s, u)
  PROVE  s \in Nat /\ Left(t, r + s, u) /\ Within(u, K)
<1> USE DEF Below, Within
<1>b. /\ n \in Nat /\ K \in Nat /\ K > 0 /\ limit = K - 1
      /\ \A q \in Nat : Pow2[q + n] = K * Pow2[q]
  BY DEF Bits
<1>0. s = Shift(w, limit, n) /\ u = w \div Pow2[s]
  BY DEF StageOf
<1>1. r \in Nat /\ w \in Nat
  BY DEF Left
<1>2. CASE w > K - 1
  <2>1. s = n
    BY <1>b, <1>0, <1>2 DEF Shift
  <2>2. Pow2[s] = K
    <3>1. 0 + n = n /\ Pow2[0] = 1 /\ K * 1 = K
      BY <1>b, Pow2Def
    <3> QED BY <1>b, <2>1, <3>1
  <2>3. u = w \div K
    BY <1>b, <1>0, <2>2
  <2>4. u \in Nat /\ u * K <= w /\ w < (u + 1) * K
    BY <1>b, <1>1, <2>3
  <2>5. u > 0
    BY <1>b, <1>1, <1>2, <2>3
  <2>6. Left(t, r + n, u)
    BY <1>b, <1>1, <2>4, LeftShift
  <2> QED BY <1>b, <2>1, <2>3, <2>4, <2>5, <2>6
<1>3. CASE ~(w > K - 1)
  <2>1. s = 0
    BY <1>b, <1>0, <1>3 DEF Shift
  <2>2. u = w /\ r + s = r
    BY <1>b, <1>0, <1>1, <2>1, Pow2Def
  <2> QED BY <1>b, <1>1, <1>3, <2>1, <2>2
<1> QED BY <1>b, <1>2, <1>3

LEMMA StageZero ==
  ASSUME NEW limit \in Nat, NEW n, NEW s, NEW u, StageOf(0, limit, n, s, u)
  PROVE  s = 0 /\ u = 0
  BY Pow2Def DEF StageOf, Shift

(* The four comparisons of log2, and what they leave to the last shift.    *)
LEMMA StagesZero ==
  ASSUME NEW t, t = 0,
         NEW r16, NEW v16, StageOf(t, 65535, 16, r16, v16),
         NEW r8, NEW v8, StageOf(v16, 255, 8, r8, v8),
         NEW r4, NEW v4, StageOf(v8, 15, 4, r4, v4),
         NEW r2, NEW v2, StageOf(v4, 3, 2, r2, v2)
  PROVE  r16 = 0 /\ r8 = 0 /\ r4 = 0 /\ r2 = 0 /\ v2 = 0
<1>1. r16 = 0 /\ v16 = 0
  BY StageZero
<1>2. r8 = 0 /\ v8 = 0
  BY <1>1, StageZero
<1>3. r4 = 0 /\ v4 = 0
  BY <1>2, StageZero
<1> QED BY <1>1, <1>2, <1>3, StageZero

LEMMA Stages ==
  ASSUME NEW t \in Nat, t > 0, t \div 65536 < 65536,
         NEW r16, NEW v16, StageOf(t, 65535, 16, r16, v16),
         NEW r8, NEW v8, StageOf(v16, 255, 8, r8, v8),
         NEW r4, NEW v4, StageOf(v8, 15, 4, r4, v4),
         NEW r2, NEW v2, StageOf(v4, 3, 2, r2, v2)
  PROVE  /\ r16 \in Nat /\ r8 \in Nat /\ r4 \in Nat /\ r2 \in Nat
         /\ Left(t, ((r16 + r8) + r4) + r2, v2) /\ Within(v2, 4)
<1>0. Left(t, 0, t) /\ Below(t, 65536)
  BY Pow2Def DEF Left, Below
<1>1. r16 \in Nat /\ Left(t, 0 + r16, v16) /\ Within(v16, 65536)
  BY <1>0, BitsOfLog2, Stage
<1>2. Left(t, r16, v16) /\ Below(v16, 256)
  <2>1. 0 + r16 = r16
    BY <1>1
  <2> QED BY <1>1, <2>1, Halved
<1>3. r8 \in Nat /\ Left(t, r16 + r8, v8) /\ Within(v8, 256)
  BY <1>2, BitsOfLog2, Stage
<1>4. Below(v8, 16)
  BY <1>3, Halved
<1>5. r4 \in Nat /\ Left(t, (r16 + r8) + r4, v4) /\ Within(v4, 16)
  BY <1>3, <1>4, BitsOfLog2, Stage
<1>6. Below(v4, 4)
  BY <1>5, Halved
<1>7. r2 \in Nat /\ Left(t, ((r16 + r8) + r4) + r2, v2) /\ Within(v2, 4)
  BY <1>5, <1>6, BitsOfLog2, Stage
<1> QED BY <1>1, <1>3, <1>5, <1>7

(* The last shift.                                                         *)
LEMMA LastShift ==
  ASSUME NEW t \in Nat, t > 0, NEW r, NEW w, Left(t, r, w), w < 4, w > 0
  PROVE  /\ r + w \div 2 \in Nat
         /\ Pow2[r + w \div 2] <= t /\ t < Pow2[(r + w \div 2) + 1]
<1>1. /\ r \in Nat /\ w \in Nat /\ w * Pow2[r] <= t /\ t < (w + 1) * Pow2[r]
      /\ Pow2[r] \in Nat
  BY Pow2Def DEF Left
<1>2. Pow2[r + 1] = 2 * Pow2[r] /\ Pow2[r + 2] = 4 * Pow2[r]
  BY <1>1, Pow2Def, Pow2Jumps
<1>3. CASE w = 1
  <2>1. r + w \div 2 = r
    BY <1>1, <1>3
  <2>2. Pow2[r] <= t /\ t < 2 * Pow2[r]
    BY <1>1, <1>3
  <2> QED BY <1>1, <1>2, <2>1, <2>2
<1>4. CASE w = 2 \/ w = 3
  <2>1. r + w \div 2 = r + 1 /\ (r + 1) + 1 = r + 2
    BY <1>1, <1>4
  <2>2. 2 * Pow2[r] <= t /\ t < 4 * Pow2[r]
    BY <1>1, <1>4
  <2> QED BY <1>1, <1>2, <2>1, <2>2
<1> QED BY <1>1, <1>3, <1>4

(* log2 is the logarithm, rounded down; of zero it is zero.                *)
LEMMA Log2Correct ==
  ASSUME NEW t \in Nat, t \div 65536 < 65536
  PROVE  /\ log2(t) \in Nat
         /\ t > 0 => Pow2[log2(t)] <= t /\ t < Pow2[log2(t) + 1]
         /\ t = 0 => log2(t) = 0
<1> DEFINE r16 == Shift(t, 65535, 16)  v16 == t \div Pow2[r16]
           r8  == Shift(v16, 255, 8)   v8  == v16 \div Pow2[r8]
           r4  == Shift(v8, 15, 4)     v4  == v8 \div Pow2[r4]
           r2  == Shift(v4, 3, 2)      v2  == v4 \div Pow2[r2]
<1>1. log2(t) = (((r16 + r8) + r4) + r2) + v2 \div 2
  BY DEF log2
<1>2. StageOf(t, 65535, 16, r16, v16)
  BY DEF StageOf
<1> HIDE DEF r16, v16
<1>3. StageOf(v16, 255, 8, r8, v8)
  BY DEF StageOf
<1> HIDE DEF r8, v8
<1>4. StageOf(v8, 15, 4, r4, v4)
  BY DEF StageOf
<1> HIDE DEF r4, v4
<1>5. StageOf(v4, 3, 2, r2, v2)
  BY DEF StageOf
<1> HIDE DEF r2, v2
<1>6. CASE t = 0
  <2>1. r16 = 0 /\ r8 = 0 /\ r4 = 0 /\ r2 = 0 /\ v2 = 0
    BY <1>2, <1>3, <1>4, <1>5, <1>6, StagesZero
  <2> QED BY <1>1, <1>6, <2>1
<1>7. CASE t > 0
  <2>1. Left(t, ((r16 + r8) + r4) + r2, v2) /\ v2 < 4 /\ v2 > 0
    BY <1>2, <1>3, <1>4, <1>5, <1>7, Stages DEF Within
  <2> QED BY <1>1, <1>7, <2>1, LastShift
<1> QED BY <1>6, <1>7

LEMMA RowBounds ==
  ASSUME NEW i \in Nat
  PROVE  /\ High(i) = Pow2[i + 1] - 1
         /\ Low(i) = IF i = 0 THEN 0 ELSE Pow2[i]
<1>1. Pow2[i + 1] = 2 * Pow2[i] /\ Pow2[i] \in Nat /\ Pow2[i] > 0
  BY Pow2Def, Pow2Positive
<1>2. i = 0 => Pow2[i] = 1
  BY Pow2Def
<1>3. i > 0 => Pow2[i] >= 2
  <2>1. CASE i > 0
    <3>1. 0 \in Nat /\ 0 < i /\ Pow2[0 + 1] <= Pow2[i]
      BY <2>1, Pow2Grows
    <3>2. Pow2[0 + 1] = 2
      BY Pow2Def
    <3> QED BY <3>1, <3>2
  <2> QED BY <2>1
<1>4. Pow2[i + 1] \div 2 = Pow2[i]
  BY <1>1
<1> QED BY <1>1, <1>2, <1>3, <1>4 DEF High, Low

LEMMA LabelsAgree == LabelsMatch
<1> SUFFICES ASSUME NEW t \in Times
             PROVE  LET rows == {i \in SlotIdx : Low(i) <= t /\ t <= High(i)}
                    IN  rows = {Slot(t)} \/ (rows = {} /\ Slot(t) = MAX_SLOTS - 1
                                                       /\ t > High(MAX_SLOTS - 1))
  BY DEF LabelsMatch
<1> DEFINE L == log2(t)
           rows == {i \in SlotIdx : Low(i) <= t /\ t <= High(i)}
<1>1. t \in Nat /\ t \div 65536 < 65536 /\ MAX_SLOTS \in Nat /\ MAX_SLOTS > 0
  BY HistAssumption
<1>2. /\ L \in Nat
      /\ t > 0 => Pow2[L] <= t /\ t < Pow2[L + 1]
      /\ t = 0 => L = 0
  BY <1>1, Log2Correct
<1>3. Slot(t) = IF L >= MAX_SLOTS THEN MAX_SLOTS - 1 ELSE L
  BY DEF Slot
<1> HIDE DEF L
<1>4. ASSUME NEW i \in Nat PROVE (Low(i) <= t /\ t <= High(i)) <=> i = L
  <2>1. High(i) = Pow2[i + 1] - 1 /\ Low(i) = IF i = 0 THEN 0 ELSE Pow2[i]
    BY RowBounds
  <2>2. /\ Pow2[i] \in Nat /\ Pow2[i] > 0 /\ Pow2[L] \in Nat
        /\ Pow2[i + 1] \in Nat /\ Pow2[L + 1] \in Nat /\ Pow2[i + 1] = 2 * Pow2[i]
    BY <1>2, Pow2Def, Pow2Positive
  <2>3. CASE i = L
    BY <1>1, <1>2, <2>1, <2>2, <2>3
  <2>4. CASE i < L
    <3>1. t > 0 /\ Pow2[i + 1] <= Pow2[L]
      BY <1>1, <1>2, <2>4, Pow2Grows
    <3> QED BY <1>1, <1>2, <2>1, <2>2, <2>4, <3>1
  <2>5. CASE i > L
    <3>1. Pow2[L + 1] <= Pow2[i] /\ i # 0
      BY <1>2, <2>5, Pow2Grows
    <3>2. t < Pow2[i]
      BY <1>1, <1>2, <2>2, <3>1
    <3> QED BY <1>1, <2>1, <2>2, <2>5, <3>1, <3>2
  <2> QED BY <1>2, <2>3, <2>4, <2>5
<1>5. rows = {i \in SlotIdx : i = L}
  BY <1>1, <1>4 DEF SlotIdx
<1>6. CASE L < MAX_SLOTS
  <2>1. L \in SlotIdx
    BY <1>1, <1>2, <1>6 DEF SlotIdx
  <2> QED BY <1>2, <1>1, <1>3, <1>5, <1>6, <2>1
<1>7. CASE L >= MAX_SLOTS
  <2>1. L \notin SlotIdx
    BY <1>1, <1>2, <1>7 DEF SlotIdx
  <2>2. MAX_SLOTS - 1 \in Nat /\ MAX_SLOTS - 1 < L /\ t > 0
    BY <1>1, <1>2, <1>7
  <2>3. Pow2[(MAX_SLOTS - 1) + 1] <= Pow2[L]
    BY <1>2, <2>2, Pow2Grows
  <2>4. High(MAX_SLOTS - 1) = Pow2[(MAX_SLOTS - 1) + 1] - 1
    BY <2>2, RowBounds
  <2>5. Pow2[(MAX_SLOTS - 1) + 1] \in Nat /\ Pow2[L] \in Nat
    BY <1>1, <1>2, Pow2Def
  <2>6. t > High(MAX_SLOTS - 1)
    BY <1>1, <1>2, <2>2, <2>3, <2>4, <2>5
  <2> QED BY <1>3, <1>5, <1>7, <2>1, <2>6
<1> QED BY <1>1, <1>2, <1>6, <1>7

(* Every 32-bit time is counted in the one row whose printed range         *)
(* contains it, for any number of slots; the last row takes the rest.      *)
THEOREM RowsContainTimes == Spec => []RowContainsTime
<1>1. RowContainsTime
  BY LabelsAgree DEF RowContainsTime
<1> QED BY <1>1, PTL
=============================================================================
