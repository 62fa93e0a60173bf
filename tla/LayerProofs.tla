---------------------------- MODULE LayerProofs -----------------------------
(***************************************************************************)
(* Proofs about Layer, for any CPUs, any processes, any option, any order  *)
(* of probes and any size of the ring buffer.                              *)
(***************************************************************************)
EXTENDS Layer, TLAPS

CPUState == [pc : {"idle", "reserve", "fill", "stamp"},
             probe : RecordProbes \cup {"none"}, pid : Nat]

Types ==
    /\ pidfor_user \in Nat
    /\ cpu \in [CPUs -> CPUState]
    /\ strays \in [CPUs -> 0 .. 2]

(* The filter is stored once, by the end of the start; until then nobody   *)
(* has strayed.                                                            *)
StoredOnce ==
    /\ main = "attach" => pidfor_user = 0
    /\ pidfor_user = 0 => \A c \in CPUs : strays[c] = 0

(* A CPU about to reserve a foreign record passed the filter before it was *)
(* stored, so it has not strayed yet.                                      *)
About(c) == cpu[c].pc = "reserve" /\ Foreign(cpu[c].pid)
NotYet == \A c \in CPUs : strays[c] <= 1 /\ (About(c) => strays[c] = 0)

StrayInv == Types /\ StoredOnce /\ NotYet

LEMMA IdleType == Idle \in CPUState /\ Idle.pc = "idle"
  BY DEF Idle, CPUState

LEMMA AfterSubmitType ==
  ASSUME Types, NEW c \in CPUs
  PROVE  /\ AfterSubmit(c) \in [CPUs -> CPUState]
         /\ AfterSubmit(c)[c].pc # "reserve"
         /\ \A d \in CPUs \ {c} : AfterSubmit(c)[d] = cpu[d]
  BY IdleType DEF Types, AfterSubmit, CPUState

LEMMA StoredType == Stored \subseteq Nat
  BY ConstantsAssumption DEF Stored

(* Steps of one CPU that leave the filter and the history alone keep the   *)
(* invariant unless they bring the CPU to a foreign reservation.           *)
LEMMA StrayMove ==
  ASSUME StrayInv, UNCHANGED <<pidfor_user, main, strays>>,
         cpu' \in [CPUs -> CPUState],
         \A c \in CPUs : cpu'[c] = cpu[c] \/ ~About(c)'
  PROVE  StrayInv'
  BY DEF StrayInv, Types, StoredOnce, NotYet, About, Foreign

(* The filter changes only when nobody has strayed.                        *)
LEMMA StrayStore ==
  ASSUME StrayInv, UNCHANGED <<cpu, strays>>,
         \/ main = "attach" /\ pidfor_user' \in Stored
         \/ pidfor_user' = pidfor_user,
         main' # "attach"
  PROVE  StrayInv'
<1>1. pidfor_user' = pidfor_user \/ pidfor_user = 0
  BY DEF StrayInv, StoredOnce
<1>2. Types'
  BY StoredType DEF StrayInv, Types
<1>3. CASE pidfor_user' = pidfor_user
  BY <1>2, <1>3 DEF StrayInv, StoredOnce, NotYet, About, Foreign
<1>4. CASE pidfor_user = 0
  <2>1. \A c \in CPUs : strays'[c] = 0
    BY <1>4 DEF StrayInv, StoredOnce
  <2> QED BY <1>2, <2>1 DEF StrayInv, StoredOnce, NotYet
<1> QED BY <1>1, <1>3, <1>4

(* A CPU that reserves a foreign record had not strayed, and is no longer  *)
(* about to.                                                               *)
LEMMA StrayReserve ==
  ASSUME StrayInv, NEW c \in CPUs, Reserve(c)
  PROVE  StrayInv'
<1>1. /\ cpu[c].pc = "reserve" /\ UNCHANGED <<pidfor_user, main>>
      /\ cpu' \in [CPUs -> CPUState] /\ cpu'[c].pc # "reserve"
      /\ \A d \in CPUs \ {c} : cpu'[d] = cpu[d]
  <2>1. /\ cpu[c].pc = "reserve" /\ UNCHANGED <<pidfor_user, main>>
        /\ \/ cpu' = [cpu EXCEPT ![c].pc = "fill"]
           \/ cpu' = [cpu EXCEPT ![c] = Idle]
    BY DEF Reserve
  <2>2. cpu \in [CPUs -> CPUState]
    BY DEF StrayInv, Types
  <2>3. CASE cpu' = [cpu EXCEPT ![c].pc = "fill"]
    BY <2>1, <2>2, <2>3 DEF CPUState
  <2>4. CASE cpu' = [cpu EXCEPT ![c] = Idle]
    BY <2>1, <2>2, <2>4, IdleType
  <2> QED BY <2>1, <2>3, <2>4
<1>2. CASE strays' = strays
  BY <1>1, <1>2, StrayMove DEF About
<1>3. CASE Foreign(cpu[c].pid) /\ strays' = [strays EXCEPT ![c] = strays[c] + 1]
  <2>1. strays[c] = 0
    BY <1>1, <1>3 DEF StrayInv, NotYet, About
  <2>2. /\ strays' \in [CPUs -> 0 .. 2] /\ strays'[c] = 1
        /\ \A d \in CPUs \ {c} : strays'[d] = strays[d]
    BY <1>3, <2>1 DEF StrayInv, Types
  <2>3. Types' /\ StoredOnce'
    BY <1>1, <1>3, <2>2 DEF StrayInv, Types, StoredOnce, Foreign
  <2>4. NotYet'
    BY <1>1, <2>2 DEF StrayInv, NotYet, About, Foreign
  <2> QED BY <2>3, <2>4 DEF StrayInv
<1> QED BY <1>2, <1>3 DEF Reserve

(* StrayInv is inductive.                                                  *)
LEMMA StrayStep == StrayInv /\ [Next]_vars => StrayInv'
<1> SUFFICES ASSUME StrayInv, [Next]_vars PROVE StrayInv'
  OBVIOUS
<1>1. CASE Attach \/ Read
  <2>1. UNCHANGED <<pidfor_user, main, strays, cpu>>
    BY <1>1 DEF Attach, Read
  <2> QED BY <2>1, StrayMove DEF StrayInv, Types
<1>2. CASE SetPid
  BY <1>2, StrayStore DEF SetPid
<1>3. CASE Fatal
  BY <1>3, StrayStore DEF Fatal
<1>4. ASSUME NEW c \in CPUs, Stamp(c) PROVE StrayInv'
  BY <1>4, StrayMove DEF Stamp, StrayInv, Types
<1>5. ASSUME NEW c \in CPUs, NEW p \in RecordProbes, NEW x \in Pids, Enter(c, p, x)
      PROVE  StrayInv'
  <2>1. /\ cpu' \in [CPUs -> CPUState] /\ cpu'[c].pid = x
        /\ \A d \in CPUs \ {c} : cpu'[d] = cpu[d]
    BY <1>5, ConstantsAssumption DEF Enter, StrayInv, Types, CPUState
  <2>2. UNCHANGED <<pidfor_user, main, strays>> /\ Passes(x)
    BY <1>5 DEF Enter
  <2>3. ~About(c)'
    BY <2>1, <2>2 DEF About, Foreign, Passes
  <2> QED BY <2>1, <2>2, <2>3, StrayMove
<1>6. ASSUME NEW c \in CPUs, Reserve(c) PROVE StrayInv'
  BY <1>6, StrayReserve
<1>7. ASSUME NEW c \in CPUs, Submit(c) PROVE StrayInv'
  <2>1. /\ cpu' \in [CPUs -> CPUState] /\ cpu'[c].pc # "reserve"
        /\ \A d \in CPUs \ {c} : cpu'[d] = cpu[d]
    BY <1>7, AfterSubmitType DEF Submit, StrayInv
  <2> QED BY <1>7, <2>1, StrayMove DEF Submit, About
<1>8. ASSUME NEW c \in CPUs, Restamp(c) PROVE StrayInv'
  <2>1. /\ cpu' \in [CPUs -> CPUState] /\ cpu'[c].pc # "reserve"
        /\ \A d \in CPUs \ {c} : cpu'[d] = cpu[d]
    BY <1>8, IdleType DEF Restamp, StrayInv, Types
  <2> QED BY <1>8, <2>1, StrayMove DEF Restamp, About
<1>9. CASE UNCHANGED vars
  BY <1>9, StrayMove DEF vars, StrayInv, Types
<1> QED BY <1>1, <1>2, <1>3, <1>4, <1>5, <1>6, <1>7, <1>8, <1>9
        DEF Next, Main, Probe, Running

(* Storing the filter while the probes run lets through at most one record *)
(* of another process per CPU: the probe that had already compared.        *)
THEOREM StraysOnce == Spec => []StrayOnce
<1>1. Init => StrayInv
  BY IdleType DEF Init, StrayInv, Types, StoredOnce, NotYet, About
<1>2. StrayInv => StrayOnce
  BY DEF StrayInv, NotYet, StrayOnce
<1> QED BY <1>1, <1>2, StrayStep, PTL DEF Spec
=============================================================================
