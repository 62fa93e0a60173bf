-------------------------- MODULE InterruptProofs ---------------------------
(***************************************************************************)
(* Proofs about Interrupt, for any CPUs, stacks, hash of stacks, sizes of  *)
(* the stack map and the ring buffer, and any symbol tables.               *)
(***************************************************************************)
EXTENDS Interrupt, FiniteSetTheorems, TLAPS

Record == [ready : BOOLEAN, n : Nat, own : Stacks, stack_id : Int,
           words : [1 .. 2 * Depth + 1 -> Nat]]
CPUState == [pc : {"idle", "fill", "exchange", "submit"}, stack : Stacks \cup {NoStack},
             n : Nat]

(* A bucket has an element, its own or the one a lookup has out, and the   *)
(* element holds stack s.                                                  *)
Kept(b) == stack_traces[b] # NoStack \/ Out(b)
Stored(b, s) == stack_traces[b] = s \/ (Out(b) /\ ip = s)

(* The stack id of a record: not there yet, refused, or a bucket with an   *)
(* element, which holds the stack of this record's trap unless probes and  *)
(* lookups raced for the bucket.                                           *)
IdSound(r) ==
  \/ r.stack_id = UNSET
  \/ r.stack_id = FAILED /\ idFailed
  \/ /\ r.stack_id = bucketOf[r.own] /\ Kept(r.stack_id)
     /\ r.stack_id \notin raced => Stored(r.stack_id, r.own)

Filled(r) == tool = "interrupt" => r.stack_id # UNSET

Types ==
  /\ stack_traces \in [Ids -> Stacks \cup {NoStack}]
  /\ cpu \in [CPUs -> CPUState]
  /\ idFailed \in BOOLEAN /\ traps \in Nat
  /\ events \in Seq(Record)

(* What holds of every record in the buffer, and of a record and the CPU   *)
(* that is still writing it.                                               *)
BufferInv ==
  \A i \in 1 .. Len(events) :
     /\ events[i].n <= traps
     /\ IdSound(events[i])
     /\ events[i].ready => Filled(events[i])

WriterInv ==
  \A c \in CPUs : cpu[c].pc # "idle" =>
     /\ cpu[c].stack \in Stacks /\ cpu[c].n <= traps
     /\ \A i \in 1 .. Len(events) : events[i].n = cpu[c].n =>
           /\ events[i].own = cpu[c].stack
           /\ cpu[c].pc = "submit" => Filled(events[i])

(* A bucket that a probe is about to fill is still as it found it.         *)
StoreInv ==
  \A c \in CPUs : cpu[c].pc = "exchange" =>
     LET b == bucketOf[cpu[c].stack]
     IN  tool = "interrupt" /\ (b \notin raced => stack_traces[b] = NoStack /\ ~Out(b))

LookupInv ==
  /\ reader \in {"lookup", "name"} =>
        /\ tool = "interrupt" /\ event \in Record /\ ip \in Stacks
        /\ event.stack_id = bucketOf[event.own]
        /\ event.stack_id \notin raced => ip = event.own
  /\ reader = "lookup" /\ event.stack_id \notin raced =>
        stack_traces[event.stack_id] = NoStack

ReaderInv ==
  /\ reader = "record" => event \in Record /\ IdSound(event) /\ Filled(event)
  /\ LookupInv /\ OwnStack /\ PanicsOnlyWithCause

StackInv == Types /\ BufferInv /\ WriterInv /\ StoreInv /\ ReaderInv

LEMMA IdleType == Idle \in CPUState /\ Idle.pc = "idle"
  BY DEF Idle, CPUState

LEMMA BucketType == \A s \in Stacks : /\ bucketOf[s] \in Ids /\ bucketOf[s] \in Nat
                                      /\ bucketOf[s] # FAILED /\ bucketOf[s] # UNSET
  BY ConstantsAssumption DEF Ids, FAILED, UNSET

(* What no step does to the map: take an element from a bucket for good,   *)
(* or replace its stack, unless there is a race for the bucket.            *)
MapStep ==
  /\ raced \subseteq raced' /\ (idFailed => idFailed')
  /\ \A b \in Ids : /\ Kept(b) => Kept(b)'
                    /\ b \notin raced' => \A s \in Stacks : Stored(b, s) => Stored(b, s)'

LEMMA IdKept ==
  ASSUME NEW r \in Record, IdSound(r), MapStep
  PROVE  IdSound(r)'
<1>1. r.own \in Stacks /\ bucketOf[r.own] \in Ids
  BY BucketType DEF Record
<1>2. CASE r.stack_id = UNSET
  BY <1>2 DEF IdSound
<1>3. CASE r.stack_id = FAILED /\ idFailed
  BY <1>3 DEF IdSound, MapStep
<1>4. CASE /\ r.stack_id = bucketOf[r.own] /\ Kept(r.stack_id)
           /\ r.stack_id \notin raced => Stored(r.stack_id, r.own)
  <2>1. PICK b \in Ids, s \in Stacks : b = r.stack_id /\ s = r.own
    BY <1>1, <1>4
  <2>2. Kept(b) /\ (b \notin raced => Stored(b, s)) /\ raced \subseteq raced'
    BY <1>4, <2>1 DEF MapStep
  <2>3. Kept(b)' /\ (b \notin raced' => Stored(b, s)')
    BY <2>2 DEF MapStep
  <2> QED BY <1>4, <2>1, <2>3 DEF IdSound
<1> QED BY <1>2, <1>3, <1>4 DEF IdSound

LEMMA BufferKept ==
  ASSUME StackInv, UNCHANGED <<tool, traps, events>>, MapStep
  PROVE  BufferInv'
<1> SUFFICES ASSUME NEW i \in 1 .. Len(events)
             PROVE  (/\ events[i].n <= traps /\ IdSound(events[i])
                     /\ events[i].ready => Filled(events[i]))'
  BY DEF BufferInv
<1>1. /\ events[i].n <= traps /\ (events[i].ready => Filled(events[i]))
  BY DEF StackInv, BufferInv
<1>2. PICK r \in Record : r = events[i] /\ IdSound(r) /\ r = events'[i]
  BY DEF StackInv, Types, BufferInv
<1>3. IdSound(r)'
  BY <1>2, IdKept
<1>4. IdSound(events[i])'
  BY <1>2, <1>3 DEF IdSound
<1> QED BY <1>1, <1>4 DEF Filled

LEMMA MapStays ==
  ASSUME UNCHANGED <<stack_traces, readerVars, idFailed, raced>>
  PROVE  MapStep /\ \A b : Out(b)' <=> Out(b)
  BY DEF MapStep, Kept, Stored, Out, readerVars

(* A step of a probe that leaves the reader alone.                         *)
LEMMA ReaderKept ==
  ASSUME StackInv, UNCHANGED <<tool, readerVars>>, MapStep,
         reader = "lookup" /\ event.stack_id \notin raced' =>
            stack_traces'[event.stack_id] = NoStack
  PROVE  ReaderInv'
<1>1. reader' = "record" => event' \in Record /\ IdSound(event)' /\ Filled(event)'
  <2> SUFFICES ASSUME reader = "record"
               PROVE  event' \in Record /\ IdSound(event)' /\ Filled(event)'
    BY DEF readerVars
  <2>1. event' = event /\ tool' = tool
    BY DEF readerVars
  <2>2. PICK r \in Record : r = event /\ IdSound(r) /\ Filled(r)
    BY DEF StackInv, ReaderInv
  <2>3. IdSound(r)'
    BY <2>2, IdKept
  <2> QED BY <2>1, <2>2, <2>3 DEF Filled, IdSound
<1>2. LookupInv'
  BY DEF StackInv, ReaderInv, LookupInv, MapStep, readerVars
<1>3. OwnStack'
  BY DEF StackInv, ReaderInv, OwnStack, MapStep, readerVars
<1>4. PanicsOnlyWithCause'
  BY DEF StackInv, ReaderInv, PanicsOnlyWithCause, MapStep, readerVars
<1> QED BY <1>1, <1>2, <1>3, <1>4 DEF ReaderInv

LEMMA Reserved ==
  ASSUME StackInv, NEW c \in CPUs, NEW s \in Stacks, Reserve(c, s)
  PROVE  StackInv'
<1> USE ConstantsAssumption
<1> DEFINE r == [ready |-> ReservedState, n |-> traps', own |-> s, stack_id |-> UNSET,
                 words |-> [i \in 1 .. 2 * Depth + 1 |-> 0]]
<1>1. r \in Record /\ r.n = traps + 1 /\ r.stack_id = UNSET /\ ~r.ready /\ r.own = s
  BY DEF StackInv, Types, Reserve, Record, UNSET, ReservedState
<1>2. events' = Append(events, r)
  BY DEF Reserve
<1> HIDE DEF r
<1>3. /\ Len(events') = Len(events) + 1 /\ Len(events) \in Nat
      /\ events' \in Seq(Record)
      /\ events'[Len(events) + 1] = r
      /\ \A i \in 1 .. Len(events) : events'[i] = events[i] /\ events[i] \in Record
  BY <1>1, <1>2 DEF StackInv, Types
<1>4. /\ traps' = traps + 1 /\ traps \in Nat
      /\ cpu' \in [CPUs -> CPUState]
      /\ cpu'[c].pc = "fill" /\ cpu'[c].stack = s /\ cpu'[c].n = traps + 1
      /\ \A d \in CPUs \ {c} : cpu'[d] = cpu[d] /\ cpu[d] \in CPUState
      /\ UNCHANGED <<tool, stack_traces, readerVars, idFailed, raced>>
  BY DEF StackInv, Types, Reserve, CPUState
<1>s. MapStep /\ \A b : Out(b)' <=> Out(b)
  BY <1>4, MapStays
<1>5. Types'
  BY <1>3, <1>4 DEF StackInv, Types
<1>6. BufferInv'
  <2> SUFFICES ASSUME NEW i \in 1 .. Len(events')
               PROVE  (/\ events[i].n <= traps /\ IdSound(events[i])
                       /\ events[i].ready => Filled(events[i]))'
    BY DEF BufferInv
  <2>1. CASE i = Len(events) + 1
    BY <2>1, <1>1, <1>3, <1>4 DEF IdSound
  <2>2. CASE i \in 1 .. Len(events)
    <3>1. /\ events'[i] = events[i] /\ events[i].n <= traps /\ events[i].n \in Nat
          /\ IdSound(events[i]) /\ (events[i].ready => Filled(events[i]))
      BY <2>2, <1>3 DEF StackInv, BufferInv, Record
    <3>2. PICK x \in Record : x = events[i] /\ x = events'[i]
      BY <1>3, <2>2
    <3>3. IdSound(x)'
      BY <1>s, <3>1, <3>2, IdKept
    <3>4. IdSound(events[i])'
      BY <3>2, <3>3 DEF IdSound
    <3> QED BY <3>1, <3>4, <1>4 DEF Filled
  <2> QED BY <1>3, <2>1, <2>2
<1>7. WriterInv'
  <2> SUFFICES ASSUME NEW d \in CPUs, cpu'[d].pc # "idle"
               PROVE  (/\ cpu[d].stack \in Stacks /\ cpu[d].n <= traps
                       /\ \A i \in 1 .. Len(events) : events[i].n = cpu[d].n =>
                            /\ events[i].own = cpu[d].stack
                            /\ cpu[d].pc = "submit" => Filled(events[i]))'
    BY DEF WriterInv
  <2>0. \A i \in 1 .. Len(events') : \/ i = Len(events) + 1 /\ events'[i] = r
                                     \/ /\ i \in 1 .. Len(events) /\ events'[i] = events[i]
                                        /\ events[i].n <= traps /\ events[i].n \in Nat
    <3>1. \A i \in 1 .. Len(events) : events[i].n <= traps /\ events[i].n \in Nat
      BY <1>3 DEF StackInv, BufferInv, Record
    <3> QED BY <1>3, <3>1
  <2>1. CASE d = c
    BY <2>0, <2>1, <1>1, <1>4
  <2>2. CASE d # c
    <3>1. /\ cpu'[d] = cpu[d] /\ cpu[d].n \in Nat /\ cpu[d].n <= traps
          /\ cpu[d].stack \in Stacks
          /\ \A i \in 1 .. Len(events) : events[i].n = cpu[d].n =>
                /\ events[i].own = cpu[d].stack
                /\ cpu[d].pc = "submit" => Filled(events[i])
      BY <2>2, <1>4 DEF StackInv, WriterInv, CPUState
    <3>2. ASSUME NEW i \in 1 .. Len(events'), events'[i].n = cpu[d].n
          PROVE  i \in 1 .. Len(events) /\ events'[i] = events[i]
      <4>1. r.n = traps + 1 /\ traps \in Nat
        BY <1>1, <1>4
      <4>2. r.n # cpu[d].n
        BY <3>1, <4>1
      <4> QED BY <2>0, <3>2, <4>2
    <3>3. UNCHANGED tool
      BY <1>4
    <3>4. cpu'[d].n <= traps'
      BY <3>1, <1>4
    <3> QED BY <3>1, <3>2, <3>3, <3>4 DEF Filled
  <2> QED BY <2>1, <2>2
<1>8. StoreInv'
  <2>1. \A d \in CPUs : cpu'[d].pc = "exchange" => d # c /\ cpu'[d] = cpu[d]
    BY <1>4
  <2> QED BY <1>4, <1>s, <2>1 DEF StackInv, StoreInv
<1>9. reader = "lookup" /\ event.stack_id \notin raced' => stack_traces'[event.stack_id] = NoStack
  BY <1>4 DEF StackInv, ReaderInv, LookupInv
<1>10. ReaderInv'
  BY <1>4, <1>s, <1>9, ReaderKept
<1> QED BY <1>5, <1>6, <1>7, <1>8, <1>10 DEF StackInv

(* What a CPU's write leaves alone: the number and the trap of every       *)
(* record, and everything of the records that are not its own.             *)
Rewritten(c) ==
  /\ events' \in Seq(Record) /\ Len(events') = Len(events) /\ Len(events) \in Nat
  /\ \A i \in 1 .. Len(events) :
        /\ events'[i].n = events[i].n /\ events'[i].own = events[i].own
        /\ events[i].n # cpu[c].n => events'[i] = events[i]

(* The end of the probe, FillStackId or FillStack followed by Submit, for  *)
(* both tools: the record and the CPU that writes it agree at every step.  *)
LEMMA WriterStep ==
  ASSUME StackInv, NEW c \in CPUs, cpu[c].pc # "idle", Rewritten(c),
         UNCHANGED <<tool, traps>>, cpu' \in [CPUs -> CPUState],
         \A d \in CPUs \ {c} : cpu'[d] = cpu[d],
         cpu'[c].pc # "idle" => cpu'[c].stack = cpu[c].stack /\ cpu'[c].n = cpu[c].n,
         \A i \in 1 .. Len(events) : events[i].n = cpu[c].n =>
            /\ Filled(events[i]) => Filled(events[i])'
            /\ cpu'[c].pc = "submit" => Filled(events[i])'
  PROVE  WriterInv'
<1> SUFFICES ASSUME NEW d \in CPUs, cpu'[d].pc # "idle"
             PROVE  (/\ cpu[d].stack \in Stacks /\ cpu[d].n <= traps
                     /\ \A i \in 1 .. Len(events) : events[i].n = cpu[d].n =>
                          /\ events[i].own = cpu[d].stack
                          /\ cpu[d].pc = "submit" => Filled(events[i]))'
  BY DEF WriterInv
<1>1. CASE d = c
  BY <1>1 DEF StackInv, WriterInv, Rewritten
<1>2. CASE d # c
  <2>1. /\ cpu'[d] = cpu[d] /\ cpu[d].stack \in Stacks /\ cpu[d].n <= traps
        /\ \A i \in 1 .. Len(events) : events[i].n = cpu[d].n =>
              /\ events[i].own = cpu[d].stack
              /\ cpu[d].pc = "submit" => Filled(events[i])
    BY <1>2 DEF StackInv, WriterInv
  <2>2. \A i \in 1 .. Len(events) : Filled(events[i]) => Filled(events[i])'
    BY DEF Rewritten, Filled
  <2> QED BY <2>1, <2>2 DEF Rewritten
<1> QED BY <1>1, <1>2

(* The buffer after a step in which CPU c gives its record the stack id    *)
(* "id", or leaves it without one.                                         *)
LEMMA IdWritten ==
  ASSUME StackInv, NEW c \in CPUs, NEW id \in Int, cpu[c].pc # "idle",
         Write(c, LAMBDA r : [r EXCEPT !.stack_id = id])
  PROVE  /\ Rewritten(c)
         /\ \A i \in 1 .. Len(events) :
               /\ events'[i].ready = events[i].ready
               /\ events[i].n = cpu[c].n => events'[i].stack_id = id
<1>1. events' = [i \in DOMAIN events |-> IF events[i].n = cpu[c].n
                                          THEN [events[i] EXCEPT !.stack_id = id]
                                          ELSE events[i]]
  BY DEF Write
<1>2. events \in Seq(Record) /\ Len(events) \in Nat /\ DOMAIN events = 1 .. Len(events)
  BY DEF StackInv, Types
<1>3. ASSUME NEW i \in 1 .. Len(events)
      PROVE  /\ events'[i] \in Record /\ events'[i].n = events[i].n
             /\ events'[i].own = events[i].own /\ events'[i].ready = events[i].ready
             /\ events[i].n # cpu[c].n => events'[i] = events[i]
             /\ events[i].n = cpu[c].n => events'[i].stack_id = id
  <2>1. events[i] \in Record
    BY <1>2
  <2> QED BY <1>1, <1>2, <2>1 DEF Record
<1>4. events' \in Seq(Record) /\ Len(events') = Len(events)
  BY <1>1, <1>2, <1>3
<1> QED BY <1>2, <1>3, <1>4 DEF Rewritten

(* Such a step keeps the records sound if the id is sound for the CPU's    *)
(* own trap.                                                               *)
LEMMA IdsStaySound ==
  ASSUME StackInv, NEW c \in CPUs, NEW id \in Int, NEW s, s = cpu[c].stack,
         cpu[c].pc # "idle", MapStep, Rewritten(c), UNCHANGED <<tool, traps>>, id # UNSET,
         \A i \in 1 .. Len(events) :
            /\ events'[i].ready = events[i].ready
            /\ events[i].n = cpu[c].n => events'[i].stack_id = id,
         \/ id = FAILED /\ idFailed'
         \/ id = bucketOf[s] /\ Kept(id)' /\ (id \notin raced' => Stored(id, s)')
  PROVE  BufferInv'
<1> SUFFICES ASSUME NEW i \in 1 .. Len(events)
             PROVE  (/\ events[i].n <= traps /\ IdSound(events[i])
                     /\ events[i].ready => Filled(events[i]))'
  BY DEF BufferInv, Rewritten
<1>1. /\ events[i] \in Record /\ events[i].n <= traps /\ IdSound(events[i])
      /\ (events[i].ready => Filled(events[i]))
  BY DEF StackInv, Types, BufferInv
<1>2. events'[i].n <= traps'
  BY <1>1 DEF Rewritten
<1>3. CASE events[i].n = cpu[c].n
  <2>1. events'[i].own = s /\ events'[i].stack_id = id
    BY <1>3 DEF StackInv, WriterInv, Rewritten
  <2>2. PICK r : r = events'[i]
    OBVIOUS
  <2>3. IdSound(r)'
    BY <2>1, <2>2 DEF IdSound
  <2>4. IdSound(events[i])'
    BY <2>2, <2>3 DEF IdSound
  <2>5. events'[i].ready => Filled(events[i])'
    BY <1>3, <2>1 DEF Filled
  <2> QED BY <1>2, <2>4, <2>5
<1>4. CASE events[i].n # cpu[c].n
  <2>1. PICK r \in Record : r = events[i] /\ r = events'[i]
    BY <1>1, <1>4 DEF Rewritten
  <2>2. IdSound(r)'
    BY <1>1, <2>1, IdKept
  <2>3. IdSound(events[i])'
    BY <2>1, <2>2 DEF IdSound
  <2> QED BY <1>1, <1>2, <2>1, <2>3 DEF Filled
<1> QED BY <1>3, <1>4

(* bpf_get_stackid's look at the bucket.                                   *)
LEMMA FilledWithId ==
  ASSUME StackInv, NEW c \in CPUs, FillStackId(c)
  PROVE  StackInv'
<1>1. PICK s \in Stacks : s = cpu[c].stack /\ bucketOf[s] \in Ids
  BY BucketType DEF StackInv, Types, WriterInv, FillStackId
<1>2. PICK b, id : b = bucketOf[s] /\ id = bpf_get_stackid(s)
  OBVIOUS
<1>3. /\ tool = "interrupt" /\ UNCHANGED <<tool, stack_traces, readerVars, traps>>
      /\ cpu[c] \in CPUState /\ cpu[c].pc = "fill"
      /\ idFailed' = (idFailed \/ id = FAILED)
      /\ raced' = IF id = UNSET /\ Out(b) THEN raced \cup {b} ELSE raced
      /\ IF id = UNSET THEN UNCHANGED events
         ELSE Write(c, LAMBDA r : [r EXCEPT !.stack_id = id])
      /\ cpu' = [cpu EXCEPT ![c].pc = IF id = UNSET THEN "exchange" ELSE "submit"]
  BY <1>1, <1>2 DEF FillStackId, StackInv, Types
<1>4. \/ id = b /\ stack_traces[b] = s
      \/ id = FAILED
      \/ id = UNSET /\ stack_traces[b] = NoStack
  BY <1>1, <1>2 DEF bpf_get_stackid
<1>5. id \in Int /\ b \in Ids /\ b # UNSET /\ FAILED # UNSET
  BY <1>1, <1>2, <1>4, BucketType DEF FAILED, UNSET
<1>6. /\ (\A x : Out(x)' <=> Out(x)) /\ raced \subseteq raced' /\ (idFailed => idFailed')
      /\ id = FAILED => idFailed'
  BY <1>3 DEF Out, readerVars
<1>7. MapStep
  BY <1>3, <1>6 DEF MapStep, Kept, Stored, readerVars
<1>8. /\ cpu' \in [CPUs -> CPUState] /\ \A d \in CPUs \ {c} : cpu'[d] = cpu[d]
      /\ cpu'[c].pc = (IF id = UNSET THEN "exchange" ELSE "submit")
      /\ cpu'[c].stack = s /\ cpu'[c].n = cpu[c].n
  BY <1>1, <1>3 DEF StackInv, Types, CPUState
<1>9. id # UNSET => /\ Rewritten(c)
                    /\ \A i \in 1 .. Len(events) :
                          /\ events'[i].ready = events[i].ready
                          /\ events[i].n = cpu[c].n => events'[i].stack_id = id
  BY <1>3, <1>5, IdWritten
<1>10. Rewritten(c)
  <2>1. CASE id = UNSET
    BY <1>3, <2>1 DEF Rewritten, StackInv, Types
  <2> QED BY <1>9, <2>1
<1>11. Types'
  BY <1>3, <1>6, <1>8, <1>10 DEF StackInv, Types, Rewritten
<1>12. BufferInv'
  <2>1. CASE id = UNSET
    BY <1>3, <1>7, <2>1, BufferKept
  <2>2. CASE id = b /\ stack_traces[b] = s
    <3>1. stack_traces'[id] = s /\ s # NoStack
      BY <1>1, <1>3, <2>2, ConstantsAssumption
    <3>2. Kept(id)' /\ Stored(id, s)'
      BY <3>1 DEF Kept, Stored
    <3> QED BY <1>1, <1>2, <1>3, <1>5, <1>7, <1>9, <2>2, <3>2, IdsStaySound
  <2>3. CASE id = FAILED
    BY <1>1, <1>3, <1>5, <1>6, <1>7, <1>9, <2>3, IdsStaySound
  <2> QED BY <1>4, <2>1, <2>2, <2>3
<1>13. WriterInv'
  <2>1. ASSUME NEW i \in 1 .. Len(events), events[i].n = cpu[c].n
        PROVE  /\ Filled(events[i]) => Filled(events[i])'
               /\ cpu'[c].pc = "submit" => Filled(events[i])'
    <3>1. CASE id = UNSET
      BY <1>3, <1>8, <3>1 DEF Filled
    <3>2. CASE id # UNSET
      BY <1>9, <2>1, <3>2 DEF Filled
    <3> QED BY <3>1, <3>2
  <2> QED BY <1>1, <1>3, <1>8, <1>10, <2>1, WriterStep
<1>14. StoreInv'
  <2> SUFFICES ASSUME NEW d \in CPUs, cpu'[d].pc = "exchange"
               PROVE  /\ tool' = "interrupt"
                      /\ bucketOf[cpu'[d].stack] \notin raced' =>
                            /\ stack_traces'[bucketOf[cpu'[d].stack]] = NoStack
                            /\ ~Out(bucketOf[cpu'[d].stack])
    BY <1>3 DEF StoreInv, Out, readerVars
  <2>1. CASE d = c
    <3>1. id = UNSET
      BY <1>8, <2>1
    <3>2. stack_traces[b] = NoStack
      BY <1>4, <1>5, <3>1
    <3>3. b \notin raced' => ~Out(b)
      BY <1>3, <3>1
    <3> QED BY <1>2, <1>3, <1>8, <2>1, <3>2, <3>3
  <2>2. CASE d # c
    BY <1>3, <1>6, <1>8, <2>2 DEF StackInv, StoreInv
  <2> QED BY <2>1, <2>2
<1>15. reader = "lookup" /\ event.stack_id \notin raced' =>
          stack_traces'[event.stack_id] = NoStack
  BY <1>3, <1>6 DEF StackInv, ReaderInv, LookupInv
<1>16. ReaderInv'
  BY <1>3, <1>7, <1>15, ReaderKept
<1> QED BY <1>11, <1>12, <1>13, <1>14, <1>16 DEF StackInv

(* The new element goes into the bucket.                                   *)
LEMMA Exchanged ==
  ASSUME StackInv, NEW c \in CPUs, Exchange(c)
  PROVE  StackInv'
<1>1. PICK s \in Stacks : s = cpu[c].stack
  BY DEF StackInv, Types, WriterInv, Exchange
<1>2. PICK b : b = bucketOf[s]
  OBVIOUS
<1>3. /\ UNCHANGED <<tool, readerVars, traps, idFailed>>
      /\ cpu[c] \in CPUState /\ cpu[c].pc = "exchange"
      /\ stack_traces' = [stack_traces EXCEPT ![b] = s]
      /\ raced' = IF \E d \in CPUs \ {c} : Storing(d, b) THEN raced \cup {b} ELSE raced
      /\ Write(c, LAMBDA r : [r EXCEPT !.stack_id = b])
      /\ cpu' = [cpu EXCEPT ![c].pc = "submit"]
  BY <1>1, <1>2 DEF Exchange, StackInv, Types
<1>4. /\ tool = "interrupt" /\ b \in Ids /\ b \in Int /\ b # UNSET /\ s # NoStack
      /\ b \notin raced => stack_traces[b] = NoStack /\ ~Out(b)
  BY <1>1, <1>2, <1>3, BucketType, ConstantsAssumption DEF StackInv, StoreInv
<1>5. /\ Rewritten(c)
      /\ \A i \in 1 .. Len(events) : /\ events'[i].ready = events[i].ready
                                     /\ events[i].n = cpu[c].n => events'[i].stack_id = b
  BY <1>3, <1>4, IdWritten
<1>6. (\A x : Out(x)' <=> Out(x)) /\ raced \subseteq raced' /\ ip' = ip
  BY <1>3 DEF Out, readerVars
<1>7. /\ stack_traces' \in [Ids -> Stacks \cup {NoStack}] /\ stack_traces'[b] = s
      /\ \A x \in Ids \ {b} : stack_traces'[x] = stack_traces[x]
  BY <1>3, <1>4 DEF StackInv, Types
<1>8. MapStep
  <2> SUFFICES ASSUME NEW x \in Ids
               PROVE  /\ Kept(x) => Kept(x)'
                      /\ x \notin raced' => \A y \in Stacks : Stored(x, y) => Stored(x, y)'
    BY <1>3, <1>6 DEF MapStep
  <2>1. CASE x = b
    <3>1. Kept(b)'
      BY <1>4, <1>7 DEF Kept
    <3>2. b \notin raced' => \A y \in Stacks : ~Stored(b, y)
      BY <1>4, <1>6, ConstantsAssumption DEF Stored
    <3> QED BY <2>1, <3>1, <3>2
  <2>2. CASE x # b
    BY <1>6, <1>7, <2>2 DEF Kept, Stored
  <2> QED BY <2>1, <2>2
<1>9. /\ cpu' \in [CPUs -> CPUState] /\ \A d \in CPUs \ {c} : cpu'[d] = cpu[d]
      /\ cpu'[c].pc = "submit" /\ cpu'[c].stack = s /\ cpu'[c].n = cpu[c].n
  BY <1>1, <1>3 DEF StackInv, Types, CPUState
<1>10. Types'
  BY <1>3, <1>5, <1>7, <1>9 DEF StackInv, Types, Rewritten
<1>11. BufferInv'
  <2>1. Kept(b)' /\ Stored(b, s)'
    BY <1>4, <1>7 DEF Kept, Stored
  <2> QED BY <1>1, <1>2, <1>3, <1>4, <1>5, <1>8, <2>1, IdsStaySound
<1>12. WriterInv'
  <2>1. \A i \in 1 .. Len(events) : events[i].n = cpu[c].n => Filled(events[i])'
    BY <1>4, <1>5 DEF Filled
  <2> QED BY <1>1, <1>3, <1>5, <1>9, <2>1, WriterStep
<1>13. StoreInv'
  <2> SUFFICES ASSUME NEW d \in CPUs, cpu'[d].pc = "exchange",
                      bucketOf[cpu'[d].stack] \notin raced'
               PROVE  /\ stack_traces'[bucketOf[cpu'[d].stack]] = NoStack
                      /\ ~Out(bucketOf[cpu'[d].stack])
    BY <1>3, <1>4 DEF StoreInv, Out, readerVars
  <2>1. d # c /\ cpu'[d] = cpu[d] /\ cpu[d].pc = "exchange" /\ cpu[d].stack \in Stacks
    BY <1>9 DEF StackInv, WriterInv
  <2>2. PICK x \in Ids : x = bucketOf[cpu[d].stack]
    BY <2>1, BucketType
  <2>3. x # b
    BY <1>3, <2>1, <2>2 DEF Storing
  <2>4. stack_traces[x] = NoStack /\ ~Out(x)
    BY <1>6, <2>1, <2>2 DEF StackInv, StoreInv
  <2> QED BY <1>7, <2>1, <2>2, <2>3, <2>4
<1>14. reader = "lookup" /\ event.stack_id \notin raced' =>
          stack_traces'[event.stack_id] = NoStack
  <2> SUFFICES ASSUME reader = "lookup", event.stack_id \notin raced'
               PROVE  stack_traces'[event.stack_id] = NoStack
    OBVIOUS
  <2>1. event.stack_id # b
    BY <1>4, <1>6 DEF Out
  <2>2. event.stack_id \in Ids /\ stack_traces[event.stack_id] = NoStack
    BY <1>6, BucketType DEF StackInv, ReaderInv, LookupInv, Record
  <2> QED BY <1>7, <2>1, <2>2
<1>15. ReaderInv'
  BY <1>3, <1>8, <1>14, ReaderKept
<1> QED BY <1>10, <1>11, <1>12, <1>13, <1>15 DEF StackInv

(* FillStack and Submit leave every stack id as it is, and only records    *)
(* that are filled become ready.                                           *)
LEMMA SameIds ==
  ASSUME StackInv, NEW c \in CPUs, cpu[c].pc # "idle", Rewritten(c),
         UNCHANGED <<tool, stack_traces, readerVars, traps, idFailed, raced>>,
         cpu' \in [CPUs -> CPUState], \A d \in CPUs \ {c} : cpu'[d] = cpu[d],
         \/ cpu'[c].pc = "idle"
         \/ /\ tool = "stack" /\ cpu'[c].stack = cpu[c].stack /\ cpu'[c].n = cpu[c].n
            /\ cpu'[c].pc = "submit",
         \A i \in 1 .. Len(events) :
            /\ events'[i].stack_id = events[i].stack_id
            /\ events'[i].ready => events[i].ready \/ Filled(events[i])
  PROVE  StackInv'
<1>1. Types'
  BY DEF StackInv, Types, Rewritten
<1>2. MapStep /\ \A b : Out(b)' <=> Out(b)
  BY MapStays
<1>3. BufferInv'
  <2> SUFFICES ASSUME NEW i \in 1 .. Len(events)
               PROVE  (/\ events[i].n <= traps /\ IdSound(events[i])
                       /\ events[i].ready => Filled(events[i]))'
    BY DEF BufferInv, Rewritten
  <2>1. /\ events[i] \in Record /\ events[i].n <= traps /\ IdSound(events[i])
        /\ (events[i].ready => Filled(events[i]))
    BY DEF StackInv, Types, BufferInv
  <2>2. /\ events'[i].n = events[i].n /\ events'[i].own = events[i].own
        /\ events'[i].stack_id = events[i].stack_id
    BY DEF Rewritten
  <2>3. PICK r \in Record : r = events[i]
    BY <2>1
  <2>4. IdSound(r)'
    BY <1>2, <2>1, <2>3, IdKept
  <2>5. IdSound(events[i])'
    BY <2>2, <2>3, <2>4 DEF IdSound, Kept, Stored, Out
  <2>6. events'[i].ready => Filled(events[i])'
    BY <2>1 DEF Filled
  <2> QED BY <2>1, <2>2, <2>5, <2>6
<1>4. WriterInv'
  <2>1. \A i \in 1 .. Len(events) : /\ Filled(events[i]) => Filled(events[i])'
                                    /\ cpu'[c].pc = "submit" => Filled(events[i])'
    BY DEF Filled
  <2> QED BY <2>1, WriterStep
<1>5. StoreInv'
  <2>1. \A d \in CPUs : cpu'[d].pc = "exchange" => d # c /\ cpu'[d] = cpu[d]
    OBVIOUS
  <2> QED BY <1>2, <2>1 DEF StackInv, StoreInv
<1>6. reader = "lookup" /\ event.stack_id \notin raced' => stack_traces'[event.stack_id] = NoStack
  BY DEF StackInv, ReaderInv, LookupInv
<1>7. ReaderInv'
  BY <1>2, <1>6, ReaderKept
<1> QED BY <1>1, <1>3, <1>4, <1>5, <1>7 DEF StackInv

(* The words of the stack tool's record are numbers again.                 *)
LEMMA AfterPidType ==
  ASSUME NEW s \in Stacks, NEW w \in {0, Word - 1}
  PROVE  AfterPid(s, w) \in [1 .. 2 * Depth + 1 -> Nat]
<1> SUFFICES ASSUME NEW i \in 1 .. 2 * Depth + 1
             PROVE  (IF i = 1 THEN w ELSE IF i % 2 = 0 THEN Lo(s[i \div 2])
                                     ELSE Hi(s[i \div 2])) \in Nat
  BY DEF AfterPid
<1>1. Depth \in Nat /\ Word \in Nat \ {0} /\ s \in [1 .. Depth -> Nat] /\ w \in Nat
  BY ConstantsAssumption
<1>2. CASE i # 1
  <2>1. i \div 2 \in 1 .. Depth
    BY <1>1, <1>2
  <2>2. s[i \div 2] \in Nat
    BY <1>1, <2>1
  <2>3. \A a \in Nat : a % Word \in Nat /\ a \div Word \in Nat
    BY <1>1
  <2> QED BY <1>1, <2>2, <2>3 DEF Lo, Hi
<1> QED BY <1>1, <1>2

LEMMA FilledWithStack ==
  ASSUME StackInv, NEW c \in CPUs, NEW w \in {0, Word - 1}, FillStack(c, w)
  PROVE  StackInv'
<1>1. cpu[c] \in CPUState /\ cpu[c].pc = "fill" /\ cpu[c].stack \in Stacks
  BY DEF StackInv, Types, WriterInv, FillStack
<1> DEFINE words == AfterPid(cpu[c].stack, w)
<1>2. words \in [1 .. 2 * Depth + 1 -> Nat]
  BY <1>1, AfterPidType
<1>3. events' = [i \in DOMAIN events |-> IF events[i].n = cpu[c].n
                                          THEN [events[i] EXCEPT !.words = words]
                                          ELSE events[i]]
  BY DEF FillStack, Write
<1> HIDE DEF words
<1>4. events \in Seq(Record) /\ Len(events) \in Nat /\ DOMAIN events = 1 .. Len(events)
  BY DEF StackInv, Types
<1>5. ASSUME NEW i \in 1 .. Len(events)
      PROVE  /\ events'[i] \in Record /\ events'[i].n = events[i].n
             /\ events'[i].own = events[i].own /\ events'[i].ready = events[i].ready
             /\ events[i].n # cpu[c].n => events'[i] = events[i]
             /\ events'[i].stack_id = events[i].stack_id
  <2>1. events[i] \in Record
    BY <1>4
  <2> QED BY <1>2, <1>3, <1>4, <2>1 DEF Record
<1>6. events' \in Seq(Record) /\ Len(events') = Len(events)
  BY <1>3, <1>4, <1>5
<1>7. Rewritten(c)
  BY <1>4, <1>5, <1>6 DEF Rewritten
<1>8. /\ cpu' \in [CPUs -> CPUState] /\ \A d \in CPUs \ {c} : cpu'[d] = cpu[d]
      /\ cpu'[c].stack = cpu[c].stack /\ cpu'[c].n = cpu[c].n /\ cpu'[c].pc = "submit"
  BY DEF FillStack, StackInv, Types, CPUState
<1> QED BY <1>1, <1>5, <1>7, <1>8, SameIds DEF FillStack

LEMMA Submitted ==
  ASSUME StackInv, NEW c \in CPUs, Submit(c)
  PROVE  StackInv'
<1>1. cpu[c].pc = "submit"
  BY DEF Submit
<1>2. events' = [i \in DOMAIN events |-> IF events[i].n = cpu[c].n
                                          THEN [events[i] EXCEPT !.ready = TRUE]
                                          ELSE events[i]]
  BY DEF Submit, Write
<1>3. events \in Seq(Record) /\ Len(events) \in Nat /\ DOMAIN events = 1 .. Len(events)
  BY DEF StackInv, Types
<1>4. ASSUME NEW i \in 1 .. Len(events)
      PROVE  /\ events'[i] \in Record /\ events'[i].n = events[i].n
             /\ events'[i].own = events[i].own
             /\ events[i].n # cpu[c].n => events'[i] = events[i]
             /\ events'[i].stack_id = events[i].stack_id
  <2>1. events[i] \in Record
    BY <1>3
  <2> QED BY <1>2, <1>3, <2>1 DEF Record
<1>5. events' \in Seq(Record) /\ Len(events') = Len(events)
  BY <1>2, <1>3, <1>4
<1>6. Rewritten(c)
  BY <1>3, <1>4, <1>5 DEF Rewritten
<1>7. \A i \in 1 .. Len(events) : events[i].n = cpu[c].n => Filled(events[i])
  BY <1>1 DEF StackInv, WriterInv
<1>8. /\ cpu' \in [CPUs -> CPUState] /\ \A d \in CPUs \ {c} : cpu'[d] = cpu[d]
      /\ cpu'[c].pc = "idle"
  BY IdleType DEF Submit, StackInv, Types
<1> QED BY <1>1, <1>4, <1>6, <1>7, <1>8, SameIds DEF Submit

(* A step of main() keeps the buffer if it keeps the ids good.             *)
LEMMA MainKeeps ==
  ASSUME StackInv, UNCHANGED <<probeVars, events>>, MapStep, StoreInv', ReaderInv',
         stack_traces' \in [Ids -> Stacks \cup {NoStack}]
  PROVE  StackInv'
<1>1. Types'
  BY DEF StackInv, Types, probeVars
<1>2. BufferInv'
  BY BufferKept DEF probeVars
<1>3. WriterInv'
  BY DEF StackInv, WriterInv, Filled, probeVars
<1> QED BY <1>1, <1>2, <1>3 DEF StackInv

(* Steps of main() before and after the lookup.                            *)
LEMMA NoLookup ==
  ASSUME StackInv, UNCHANGED <<probeVars, stack_traces, events>>, reader # "lookup",
         reader' # "lookup", ReaderInv'
  PROVE  StackInv'
<1>1. \A b : ~Out(b) /\ ~Out(b)'
  BY DEF Out
<1>2. MapStep
  BY <1>1 DEF MapStep, Kept, Stored, probeVars
<1>3. StoreInv'
  BY <1>1 DEF StackInv, StoreInv, probeVars
<1> QED BY <1>2, <1>3, MainKeeps DEF StackInv, Types

LEMMA RecordRead == ASSUME StackInv, Read PROVE StackInv'
<1>1. /\ events \in Seq(Record) /\ Len(events) \in Nat \ {0}
      /\ event' = events[1] /\ events' = Tail(events) /\ events[1].ready
      /\ reader = "tick" /\ reader' = "record"
      /\ UNCHANGED <<probeVars, stack_traces, ip, why, shown>>
  BY DEF Read, StackInv, Types
<1>2. /\ events' \in Seq(Record) /\ Len(events') = Len(events) - 1
      /\ \A i \in 1 .. Len(events') : /\ i + 1 \in 1 .. Len(events)
                                      /\ events'[i] = events[i + 1]
  BY <1>1
<1>3. \A b : ~Out(b) /\ ~Out(b)'
  BY <1>1 DEF Out
<1>4. MapStep
  BY <1>1, <1>3 DEF MapStep, Kept, Stored, probeVars
<1>5. ASSUME NEW i \in 1 .. Len(events), NEW r, r = events[i]
      PROVE  r \in Record /\ r.n <= traps /\ IdSound(r)' /\ (r.ready => Filled(r)')
  <2>1. r \in Record /\ r.n <= traps /\ IdSound(r) /\ (r.ready => Filled(r))
    BY <1>1, <1>5 DEF StackInv, BufferInv
  <2>2. IdSound(r)'
    BY <1>4, <2>1, IdKept
  <2> QED BY <1>1, <2>1, <2>2 DEF Filled, probeVars
<1>6. BufferInv'
  <2> SUFFICES ASSUME NEW i \in 1 .. Len(events')
               PROVE  (/\ events[i].n <= traps /\ IdSound(events[i])
                       /\ events[i].ready => Filled(events[i]))'
    BY DEF BufferInv
  <2>1. PICK r : r = events'[i] /\ r = events[i + 1] /\ i + 1 \in 1 .. Len(events)
    BY <1>2
  <2>2. r \in Record /\ r.n <= traps /\ IdSound(r)' /\ (r.ready => Filled(r)')
    BY <1>5, <2>1
  <2>3. IdSound(events[i])' /\ (events'[i].ready => Filled(events[i])')
    BY <2>1, <2>2 DEF IdSound, Filled
  <2> QED BY <1>1, <2>1, <2>2, <2>3 DEF probeVars
<1>7. WriterInv'
  BY <1>1, <1>2 DEF StackInv, WriterInv, Filled, probeVars
<1>8. Types'
  BY <1>1, <1>2 DEF StackInv, Types, probeVars
<1>9. StoreInv'
  BY <1>1, <1>3 DEF StackInv, StoreInv, probeVars
<1>10. event' \in Record /\ IdSound(event)' /\ Filled(event)'
  <2>1. PICK r : r = event' /\ r = events[1] /\ 1 \in 1 .. Len(events)
    BY <1>1
  <2>2. r \in Record /\ IdSound(r)' /\ Filled(r)'
    BY <1>1, <1>5, <2>1
  <2> QED BY <2>1, <2>2 DEF IdSound, Filled
<1>11. ReaderInv'
  <2>1. OwnStack' /\ PanicsOnlyWithCause'
    BY <1>1 DEF StackInv, ReaderInv, OwnStack, PanicsOnlyWithCause, probeVars
  <2> QED BY <1>1, <1>10, <2>1 DEF ReaderInv, LookupInv
<1> QED BY <1>6, <1>7, <1>8, <1>9, <1>11 DEF StackInv

(* The bucket of a record that is looked up has an element: it is taken    *)
(* out and put back, and nothing comes between unless there is a race.     *)
LEMMA TakenOut == ASSUME StackInv, TakeOut PROVE StackInv'
<1> DEFINE b == event.stack_id
<1>1. /\ tool = "interrupt" /\ reader = "record" /\ b \in Ids /\ stack_traces[b] # NoStack
      /\ ip' = stack_traces[b] /\ reader' = "lookup"
      /\ stack_traces' = [stack_traces EXCEPT ![b] = NoStack]
      /\ UNCHANGED <<probeVars, events, event, why, shown>>
  BY DEF TakeOut, LookupFails
<1>2. event \in Record /\ IdSound(event)
  BY <1>1 DEF StackInv, ReaderInv
<1>3. \A x : ~Out(x) /\ (Out(x)' <=> x = b)
  BY <1>1 DEF Out
<1>4. FAILED \notin Ids /\ UNSET \notin Ids
  BY BucketType DEF Ids
<1>5. b = bucketOf[event.own] /\ (b \notin raced => stack_traces[b] = event.own)
  BY <1>1, <1>2, <1>3, <1>4 DEF IdSound, Stored
<1> HIDE DEF b
<1>6. /\ stack_traces' \in [Ids -> Stacks \cup {NoStack}] /\ stack_traces'[b] = NoStack
      /\ \A x \in Ids \ {b} : stack_traces'[x] = stack_traces[x]
      /\ ip' \in Stacks
  BY <1>1 DEF StackInv, Types
<1>7. MapStep
  <2> SUFFICES ASSUME NEW x \in Ids
               PROVE  /\ Kept(x) => Kept(x)'
                      /\ \A y \in Stacks : Stored(x, y) => Stored(x, y)'
    BY <1>1 DEF MapStep, probeVars
  <2>1. CASE x = b
    BY <1>1, <1>3, <2>1 DEF Kept, Stored
  <2>2. CASE x # b
    BY <1>3, <1>6, <2>2 DEF Kept, Stored
  <2> QED BY <2>1, <2>2
<1>8. StoreInv'
  <2> SUFFICES ASSUME NEW d \in CPUs, cpu[d].pc = "exchange", bucketOf[cpu[d].stack] \notin raced
               PROVE  /\ stack_traces'[bucketOf[cpu[d].stack]] = NoStack
                      /\ bucketOf[cpu[d].stack] # b
    BY <1>1, <1>3 DEF StoreInv, probeVars
  <2>1. bucketOf[cpu[d].stack] \in Ids /\ stack_traces[bucketOf[cpu[d].stack]] = NoStack
    BY BucketType DEF StackInv, WriterInv, StoreInv
  <2> QED BY <1>1, <1>6, <2>1
<1>9. LookupInv'
  BY <1>1, <1>2, <1>5, <1>6 DEF LookupInv, probeVars, b
<1>10. ReaderInv'
  BY <1>1, <1>9 DEF StackInv, ReaderInv, OwnStack, PanicsOnlyWithCause, probeVars
<1> QED BY <1>1, <1>6, <1>7, <1>8, <1>10, MainKeeps

LEMMA WasPutBack == ASSUME StackInv, PutBack PROVE StackInv'
<1> DEFINE b == event.stack_id
<1>1. /\ reader = "lookup" /\ reader' = "name"
      /\ stack_traces' = [stack_traces EXCEPT ![b] = ip]
      /\ UNCHANGED <<probeVars, events, event, ip, why, shown>>
  BY DEF PutBack
<1>2. /\ tool = "interrupt" /\ event \in Record /\ ip \in Stacks /\ b = bucketOf[event.own]
      /\ b \notin raced => ip = event.own /\ stack_traces[b] = NoStack
  BY <1>1 DEF StackInv, ReaderInv, LookupInv
<1>3. b \in Ids /\ ip # NoStack
  BY <1>2, BucketType, ConstantsAssumption DEF Record
<1>4. \A x : ~Out(x)' /\ (Out(x) <=> x = b)
  BY <1>1 DEF Out
<1> HIDE DEF b
<1>5. /\ stack_traces' \in [Ids -> Stacks \cup {NoStack}] /\ stack_traces'[b] = ip
      /\ \A x \in Ids \ {b} : stack_traces'[x] = stack_traces[x]
  BY <1>1, <1>2, <1>3 DEF StackInv, Types
<1>6. MapStep
  <2> SUFFICES ASSUME NEW x \in Ids
               PROVE  /\ Kept(x) => Kept(x)'
                      /\ x \notin raced => \A y \in Stacks : Stored(x, y) => Stored(x, y)'
    BY <1>1 DEF MapStep, probeVars
  <2>1. CASE x = b
    BY <1>2, <1>3, <1>4, <1>5, <2>1, ConstantsAssumption DEF Kept, Stored
  <2>2. CASE x # b
    BY <1>4, <1>5, <2>2 DEF Kept, Stored
  <2> QED BY <2>1, <2>2
<1>7. StoreInv'
  <2> SUFFICES ASSUME NEW d \in CPUs, cpu[d].pc = "exchange", bucketOf[cpu[d].stack] \notin raced
               PROVE  stack_traces'[bucketOf[cpu[d].stack]] = NoStack
    BY <1>1, <1>2, <1>4 DEF StoreInv, probeVars
  <2>1. /\ bucketOf[cpu[d].stack] \in Ids /\ stack_traces[bucketOf[cpu[d].stack]] = NoStack
        /\ bucketOf[cpu[d].stack] # b
    BY <1>4, BucketType DEF StackInv, WriterInv, StoreInv
  <2> QED BY <1>5, <2>1
<1>8. ReaderInv'
  <2>1. LookupInv'
    BY <1>1, <1>2 DEF LookupInv, probeVars, b
  <2> QED BY <1>1, <2>1 DEF StackInv, ReaderInv, OwnStack, PanicsOnlyWithCause, probeVars
<1> QED BY <1>1, <1>5, <1>6, <1>7, <1>8, MainKeeps

LEMMA MainStep ==
  ASSUME StackInv, Main \/ SystemFails
  PROVE  StackInv'
<1>1. CASE Start \/ SystemFails
  <2>1. /\ UNCHANGED <<probeVars, stack_traces, events, event, ip, shown>>
        /\ reader # "lookup" /\ reader' \in {"tick", "dead"}
        /\ why' = "lookup" => why = "lookup"
    BY <1>1 DEF Start, SystemFails, Die
  <2>2. ReaderInv'
    BY <2>1 DEF StackInv, ReaderInv, LookupInv, OwnStack, PanicsOnlyWithCause, probeVars
  <2> QED BY <2>1, <2>2, NoLookup
<1>2. CASE PanicOnLookup
  <2>1. /\ UNCHANGED <<probeVars, stack_traces, events, event, ip, shown>>
        /\ tool = "interrupt" /\ reader = "record" /\ reader' = "dead"
        /\ event.stack_id \notin {b \in Ids : stack_traces[b] # NoStack}
    BY <1>2 DEF PanicOnLookup, LookupFails, Die
  <2>2. event \in Record /\ IdSound(event) /\ Filled(event)
    BY <2>1 DEF StackInv, ReaderInv
  <2>3. idFailed
    BY <2>1, <2>2, BucketType DEF IdSound, Filled, Record, Kept, Out
  <2>4. ReaderInv'
    BY <2>1, <2>3 DEF StackInv, ReaderInv, LookupInv, OwnStack, PanicsOnlyWithCause, probeVars
  <2> QED BY <2>1, <2>4, NoLookup
<1>3. ASSUME NEW table \in Tables, NameFrames(table) PROVE StackInv'
  <2>1. /\ UNCHANGED <<probeVars, stack_traces, events, event, ip>>
        /\ reader = (IF tool = "interrupt" THEN "name" ELSE "record")
        /\ reader' \in {"tick", "dead"} /\ (why' = "lookup" => why = "lookup")
        /\ shown'.frames = Frames /\ shown'.own = event.own
        /\ shown'.stack_id = event.stack_id
    BY <1>3 DEF NameFrames, Die
  <2>2. tool = "interrupt" /\ event.stack_id \notin raced => ip = event.own
    BY <2>1 DEF StackInv, ReaderInv, LookupInv
  <2>3. OwnStack'
    BY <2>1, <2>2 DEF OwnStack, Frames, probeVars
  <2>4. ReaderInv'
    BY <2>1, <2>3 DEF StackInv, ReaderInv, LookupInv, PanicsOnlyWithCause, probeVars
  <2> QED BY <2>1, <2>4, NoLookup
<1> QED BY <1>1, <1>2, <1>3, RecordRead, TakenOut, WasPutBack DEF Main

LEMMA StackInit == Init => StackInv
<1> SUFFICES ASSUME Init PROVE StackInv
  OBVIOUS
<1>1. Types
  <2>0. events = <<>> /\ traps = 0 /\ idFailed = FALSE
    BY DEF Init
  <2>1. events \in Seq(Record) /\ traps \in Nat /\ idFailed \in BOOLEAN
    <3>1. <<>> \in Seq(Record)
      OBVIOUS
    <3> QED BY <2>0, <3>1
  <2>2. cpu \in [CPUs -> CPUState] /\ stack_traces \in [Ids -> Stacks \cup {NoStack}]
    BY IdleType DEF Init
  <2> QED BY <2>1, <2>2 DEF Types
<1>2. BufferInv /\ WriterInv
  <2>0. events = <<>>
    BY DEF Init
  <2>1. 1 .. Len(events) = {}
    BY <2>0
  <2>2. \A c \in CPUs : cpu[c].pc = "idle"
    BY IdleType DEF Init
  <2> QED BY <2>1, <2>2 DEF BufferInv, WriterInv
<1>3. Range(<<>>) = {}
  BY DEF Range
<1>4. ReaderInv
  BY <1>3 DEF Init, ReaderInv, LookupInv, OwnStack, PanicsOnlyWithCause, Nothing
<1>5. StoreInv
  BY IdleType DEF Init, StoreInv
<1> QED BY <1>1, <1>2, <1>4, <1>5 DEF StackInv

(* StackInv is inductive.                                                  *)
LEMMA StackStep == StackInv /\ [Next]_vars => StackInv'
<1> SUFFICES ASSUME StackInv, [Next]_vars PROVE StackInv'
  OBVIOUS
<1>1. ASSUME NEW c \in CPUs, ReserveFails(c) PROVE StackInv'
  <2>1. /\ UNCHANGED <<tool, stack_traces, cpu, events, readerVars, idFailed, raced>>
        /\ traps' = traps + 1 /\ traps \in Nat
    BY <1>1 DEF ReserveFails, StackInv, Types
  <2>2. Types'
    BY <2>1 DEF StackInv, Types
  <2>3. BufferInv'
    <3>0. events \in Seq(Record)
      BY DEF StackInv, Types
    <3>1. ASSUME NEW i \in 1 .. Len(events) PROVE events[i].n \in Nat
      <4>1. events[i] \in Record
        BY <3>0
      <4> QED BY <4>1 DEF Record
    <3> QED BY <2>1, <3>1 DEF StackInv, BufferInv, IdSound, Kept, Stored, Out, Filled,
                              readerVars
  <2>4. WriterInv'
    BY <2>1 DEF StackInv, Types, WriterInv, Filled, CPUState
  <2>5. StoreInv'
    BY <2>1 DEF StackInv, StoreInv, Out, readerVars
  <2>6. MapStep /\ (reader = "lookup" /\ event.stack_id \notin raced' =>
                       stack_traces'[event.stack_id] = NoStack)
    BY <2>1, MapStays DEF StackInv, ReaderInv, LookupInv
  <2>7. ReaderInv'
    BY <2>1, <2>6, ReaderKept
  <2> QED BY <2>2, <2>3, <2>4, <2>5, <2>7 DEF StackInv
<1>2. ASSUME NEW c \in CPUs, Probe(c) PROVE StackInv'
  BY <1>1, <1>2, Reserved, FilledWithId, Exchanged, FilledWithStack, Submitted DEF Probe
<1>3. CASE UNCHANGED vars
  <2>1. UNCHANGED <<tool, stack_traces, cpu, events, readerVars, traps, idFailed, raced>>
    BY <1>3 DEF vars
  <2>2. Types' /\ WriterInv'
    BY <2>1 DEF StackInv, Types, WriterInv, Filled
  <2>3. BufferInv'
    BY <2>1 DEF StackInv, BufferInv, IdSound, Kept, Stored, Out, Filled, readerVars
  <2>4. StoreInv'
    BY <2>1 DEF StackInv, StoreInv, Out, readerVars
  <2>5. MapStep /\ (reader = "lookup" /\ event.stack_id \notin raced' =>
                       stack_traces'[event.stack_id] = NoStack)
    BY <2>1, MapStays DEF StackInv, ReaderInv, LookupInv
  <2>6. ReaderInv'
    BY <2>1, <2>5, ReaderKept
  <2> QED BY <2>2, <2>3, <2>4, <2>6 DEF StackInv
<1> QED BY <1>2, <1>3, MainStep DEF Next

(* The interrupt tool shows for a trap the stack of that trap, however     *)
(* long its id waits in the ring buffer and whatever stacks share its      *)
(* bucket, unless two probes filled the bucket at a time or one filled it  *)
(* while a lookup had its element out.                                     *)
THEOREM OwnStackHolds == Spec => []OwnStack
<1>1. StackInv => OwnStack
  BY DEF StackInv, ReaderInv
<1> QED BY <1>1, StackInit, StackStep, PTL DEF Spec

(* The reader never meets a record that is not filled in or a stack that   *)
(* has left the map: a lookup fails only after bpf_get_stackid has failed. *)
THEOREM PanicsOnlyWithCauseHolds == Spec => []PanicsOnlyWithCause
<1>1. StackInv => PanicsOnlyWithCause
  BY DEF StackInv, ReaderInv
<1> QED BY <1>1, StackInit, StackStep, PTL DEF Spec

-----------------------------------------------------------------------------
(* Induction and iteration over the numbers, as facts about sets.          *)

LEMMA Least ==
  ASSUME NEW T, T \subseteq Nat, T # {}
  PROVE  \E m \in T : \A n \in T : m <= n
<1>1. PICK m \in T : \A n \in T : <<n, m>> \notin OpToRel(<, Nat)
  BY NatLessThanWellFounded, WFMin
<1>2. \A n \in T : ~(n < m)
  BY <1>1 DEF OpToRel
<1> QED BY <1>2

LEMMA Induction ==
  ASSUME NEW S, 0 \in S, \A n \in Nat : n \in S => n + 1 \in S
  PROVE  Nat \subseteq S
<1> SUFFICES ASSUME Nat \ S # {} PROVE FALSE
  OBVIOUS
<1>1. PICK m \in Nat \ S : \A n \in Nat \ S : m <= n
  <2>1. Nat \ S \subseteq Nat
    OBVIOUS
  <2> QED BY <2>1, Least
<1>2. m # 0 /\ m - 1 \in Nat /\ m - 1 \in S
  BY <1>1
<1>3. (m - 1) + 1 \in S
  BY <1>2
<1> QED BY <1>1, <1>3

(* The first n turns of a loop, as a table.                                *)
Turns(W, w, F, g, n) == /\ g \in [0 .. n -> W] /\ g[0] = w
                        /\ \A i \in 0 .. n : i > 0 => g[i] = F[g[i - 1]]

LEMMA TurnsExist ==
  ASSUME NEW W, NEW w \in W, NEW F \in [W -> W]
  PROVE  \A n \in Nat : \E g : Turns(W, w, F, g, n)
<1> DEFINE S == {n \in Nat : \E g : Turns(W, w, F, g, n)}
<1>1. 0 \in S
  <2>1. Turns(W, w, F, [i \in 0 .. 0 |-> w], 0)
    BY DEF Turns
  <2> QED BY <2>1
<1>2. ASSUME NEW n \in Nat, n \in S PROVE n + 1 \in S
  <2>1. PICK g : Turns(W, w, F, g, n)
    BY <1>2
  <2> DEFINE h == [i \in 0 .. n + 1 |-> IF i <= n THEN g[i] ELSE F[g[n]]]
  <2>2. Turns(W, w, F, h, n + 1)
    <3>1. h \in [0 .. n + 1 -> W]
      BY <2>1 DEF Turns
    <3>2. h[0] = w
      BY <2>1 DEF Turns
    <3>3. ASSUME NEW i \in 0 .. n + 1, i > 0 PROVE h[i] = F[h[i - 1]]
      <4>1. i - 1 \in 0 .. n + 1 /\ i - 1 <= n
        BY <3>3
      <4>2. CASE i <= n
        BY <2>1, <3>3, <4>1, <4>2 DEF Turns
      <4>3. CASE i = n + 1
        BY <3>3, <4>1, <4>3
      <4> QED BY <3>3, <4>2, <4>3
    <3> QED BY <3>1, <3>2, <3>3 DEF Turns
  <2> QED BY <2>2
<1> HIDE DEF S
<1>3. Nat \subseteq S
  BY <1>1, <1>2, Induction
<1> QED BY <1>3 DEF S

LEMMA TurnsAgree ==
  ASSUME NEW W, NEW w, NEW F, NEW m \in Nat, NEW n \in Nat, m <= n, NEW g, NEW h,
         Turns(W, w, F, g, m), Turns(W, w, F, h, n)
  PROVE  \A i \in 0 .. m : g[i] = h[i]
<1> DEFINE S == {i \in Nat : i <= m => g[i] = h[i]}
<1>1. 0 \in S
  BY DEF Turns
<1>2. ASSUME NEW i \in Nat, i \in S PROVE i + 1 \in S
  <2>1. CASE i + 1 <= m
    <3>1. i + 1 \in 0 .. m /\ i + 1 \in 0 .. n /\ i + 1 > 0 /\ (i + 1) - 1 = i /\ i <= m
      BY <2>1
    <3>2. g[i + 1] = F[g[i]] /\ h[i + 1] = F[h[i]]
      BY <3>1 DEF Turns
    <3> QED BY <1>2, <3>1, <3>2
  <2> QED BY <2>1
<1> HIDE DEF S
<1>3. Nat \subseteq S
  BY <1>1, <1>2, Induction
<1> QED BY <1>3 DEF S

Iterates(W, w, F, f) == /\ f \in [Nat -> W] /\ f[0] = w
                        /\ \A n \in Nat : f[n + 1] = F[f[n]]

LEMMA Iteration ==
  ASSUME NEW W, NEW w \in W, NEW F \in [W -> W]
  PROVE  \E f : Iterates(W, w, F, f)
<1> DEFINE T(n) == CHOOSE g : Turns(W, w, F, g, n)
           f == [n \in Nat |-> T(n)[n]]
<1>1. \A n \in Nat : Turns(W, w, F, T(n), n)
  BY TurnsExist
<1> HIDE DEF T
<1>2. f \in [Nat -> W] /\ f[0] = w
  BY <1>1 DEF Turns
<1>3. ASSUME NEW n \in Nat PROVE f[n + 1] = F[f[n]]
  <2>1. n + 1 \in Nat /\ n <= n + 1 /\ n + 1 \in 0 .. n + 1 /\ (n + 1) - 1 = n /\ n \in 0 .. n
    OBVIOUS
  <2>2. T(n + 1)[n + 1] = F[T(n + 1)[n]]
    BY <1>1, <2>1 DEF Turns
  <2>3. T(n)[n] = T(n + 1)[n]
    BY <1>1, <2>1, TurnsAgree
  <2> QED BY <2>1, <2>2, <2>3
<1> HIDE DEF f
<1> QED BY <1>2, <1>3 DEF Iterates

-----------------------------------------------------------------------------
(* bin_search.                                                             *)

Windows == [start : Int, end : Int]

LEMMA NarrowType ==
  ASSUME NEW arr, NEW x, NEW w \in Windows
  PROVE  Mid(w) \in Int /\ Narrow(arr, x, w) \in Windows
<1>1. Mid(w) \in Int
  BY DEF Mid, Windows
<1> QED BY <1>1 DEF Narrow, Windows

(* The loop's windows, turn by turn.                                       *)
Loop(arr, x, g) == /\ g[0] = [start |-> 0, end |-> Len(arr) - 1]
                   /\ \A n \in Nat : g[n + 1] = Narrow(arr, x, g[n])

LEMMA LoopRuns ==
  ASSUME NEW arr, Len(arr) \in Nat, NEW x
  PROVE  \E g : Loop(arr, x, g) /\ bin_search(arr, x) = Found(arr, x, g[Len(arr)])
<1> DEFINE w0 == [start |-> 0, end |-> Len(arr) - 1]
           F == [w \in Windows |-> Narrow(arr, x, w)]
           B(g) == [i \in Nat |-> IF i = 0 THEN w0 ELSE Narrow(arr, x, g[i - 1])]
           G == CHOOSE g : g = B(g)
<1>1. w0 \in Windows /\ F \in [Windows -> Windows]
  BY NarrowType DEF Windows
<1> HIDE DEF w0, F
<1>2. PICK f : Iterates(Windows, w0, F, f)
  BY <1>1, Iteration
<1>3. /\ f \in [Nat -> Windows] /\ f[0] = w0
      /\ \A n \in Nat : f[n + 1] = Narrow(arr, x, f[n])
  BY <1>2 DEF F, Iterates
<1>4. f = B(f)
  <2>1. ASSUME NEW i \in Nat PROVE f[i] = IF i = 0 THEN w0 ELSE Narrow(arr, x, f[i - 1])
    <3>1. CASE i > 0
      <4>1. i - 1 \in Nat /\ (i - 1) + 1 = i
        BY <3>1
      <4> QED BY <1>3, <3>1, <4>1
    <3> QED BY <1>3, <3>1
  <2> QED BY <1>3, <2>1
<1>5. G = B(G)
  BY <1>4
<1>6. bin_search(arr, x) = Found(arr, x, G[Len(arr)])
  BY DEF bin_search, w0
<1> HIDE DEF G
<1>7. Loop(arr, x, G)
  <2>1. \A i \in Nat : B(G)[i] = IF i = 0 THEN w0 ELSE Narrow(arr, x, G[i - 1])
    OBVIOUS
  <2>2. G[0] = w0
    BY <1>5, <2>1
  <2>3. ASSUME NEW n \in Nat PROVE G[n + 1] = Narrow(arr, x, G[n])
    <3>1. n + 1 \in Nat /\ n + 1 # 0 /\ (n + 1) - 1 = n
      OBVIOUS
    <3> HIDE DEF B
    <3> QED BY <1>5, <2>1, <3>1
  <2> QED BY <2>2, <2>3 DEF Loop, w0
<1> QED BY <1>6, <1>7

Increasing(arr) == \A i, j \in 1 .. Len(arr) : i <= j => arr[i] <= arr[j]

(* What lies before the window is smaller than x; what lies from its end   *)
(* on is larger, once the end has moved.                                   *)
WindowInv(arr, x, w) ==
  /\ w \in Windows /\ 0 <= w.start /\ w.start <= w.end /\ w.end <= Len(arr) - 1
  /\ \A i \in 1 .. w.start : arr[i] < x
  /\ w.end < Len(arr) - 1 => \A i \in w.end + 1 .. Len(arr) : arr[i] > x

LEMMA NarrowKeeps ==
  ASSUME NEW arr \in Seq(Nat), Increasing(arr), NEW x \in Nat, NEW w, WindowInv(arr, x, w)
  PROVE  LET v == Narrow(arr, x, w)
         IN  /\ WindowInv(arr, x, v)
             /\ Over(arr, x, w) => v = w
             /\ ~Over(arr, x, w) => v.end - v.start < w.end - w.start
<1> DEFINE m == Mid(w)
<1>0. /\ w.start \in Int /\ w.end \in Int /\ Len(arr) \in Nat
      /\ \A i \in 1 .. Len(arr) : arr[i] \in Nat
      /\ 0 <= w.start /\ w.start <= w.end /\ w.end <= Len(arr) - 1
  BY DEF WindowInv, Windows
<1>1. CASE Over(arr, x, w)
  BY <1>1 DEF Narrow
<1>2. CASE ~Over(arr, x, w)
  <2>1. m \in Int /\ w.start <= m /\ m < w.end /\ m + 1 \in 1 .. Len(arr) /\ x # arr[m + 1]
    <3>1. m = (w.start + w.end) \div 2 /\ w.start < w.end /\ x # arr[m + 1]
      BY <1>0, <1>2 DEF Mid, Over
    <3> HIDE DEF m
    <3>2. m \in Int /\ w.start <= m /\ m < w.end
      BY <1>0, <3>1
    <3> QED BY <1>0, <3>1, <3>2
  <2> HIDE DEF m
  <2>2. CASE x < arr[m + 1]
    <3>1. Narrow(arr, x, w) = [w EXCEPT !.end = m]
      BY <1>2, <2>2 DEF Narrow, m
    <3> DEFINE v == [w EXCEPT !.end = m]
    <3>2. v \in Windows /\ v.start = w.start /\ v.end = m
      BY <2>1 DEF WindowInv, Windows
    <3> HIDE DEF v
    <3>3. \A i \in m + 1 .. Len(arr) : arr[i] > x
      <4> SUFFICES ASSUME NEW i \in m + 1 .. Len(arr) PROVE arr[i] > x
        OBVIOUS
      <4>1. i \in 1 .. Len(arr) /\ m + 1 <= i
        BY <1>0, <2>1
      <4>2. arr[m + 1] <= arr[i] /\ arr[i] \in Nat /\ arr[m + 1] \in Nat
        BY <1>0, <2>1, <4>1 DEF Increasing
      <4> QED BY <2>2, <4>2
    <3>4. WindowInv(arr, x, v)
      BY <1>0, <2>1, <3>2, <3>3 DEF WindowInv
    <3>5. v.end - v.start < w.end - w.start
      BY <1>0, <2>1, <3>2
    <3> QED BY <1>2, <3>1, <3>4, <3>5 DEF v
  <2>3. CASE x > arr[m + 1]
    <3>1. Narrow(arr, x, w) = [w EXCEPT !.start = m + 1]
      BY <1>0, <1>2, <2>1, <2>3 DEF Narrow, m
    <3> DEFINE v == [w EXCEPT !.start = m + 1]
    <3>2. v \in Windows /\ v.start = m + 1 /\ v.end = w.end
      BY <2>1 DEF WindowInv, Windows
    <3> HIDE DEF v
    <3>3. \A i \in 1 .. m + 1 : arr[i] < x
      <4> SUFFICES ASSUME NEW i \in 1 .. m + 1 PROVE arr[i] < x
        OBVIOUS
      <4>1. i \in 1 .. Len(arr) /\ i <= m + 1
        BY <1>0, <2>1
      <4>2. arr[i] <= arr[m + 1] /\ arr[i] \in Nat /\ arr[m + 1] \in Nat
        BY <1>0, <2>1, <4>1 DEF Increasing
      <4> QED BY <2>3, <4>2
    <3>4. WindowInv(arr, x, v)
      BY <1>0, <2>1, <3>2, <3>3 DEF WindowInv
    <3>5. v.end - v.start < w.end - w.start
      BY <1>0, <2>1, <3>2
    <3> QED BY <1>2, <3>1, <3>4, <3>5 DEF v
  <2>4. arr[m + 1] \in Nat
    BY <1>0, <2>1
  <2> QED BY <2>1, <2>2, <2>3, <2>4
<1> QED BY <1>1, <1>2

(* After as many turns as there are addresses the loop is over.            *)
LEMMA LoopEnds ==
  ASSUME NEW arr \in Seq(Nat), Increasing(arr), Len(arr) > 0, NEW x \in Nat, NEW g,
         Loop(arr, x, g)
  PROVE  WindowInv(arr, x, g[Len(arr)]) /\ Over(arr, x, g[Len(arr)])
<1> DEFINE S == {n \in Nat : /\ WindowInv(arr, x, g[n])
                             /\ \/ Over(arr, x, g[n])
                                \/ (g[n].end - g[n].start) + n <= Len(arr) - 1}
<1>0. Len(arr) \in Nat
  OBVIOUS
<1>1. 0 \in S
  <2> DEFINE w == [start |-> 0, end |-> Len(arr) - 1]
  <2>1. w \in Windows /\ w.start = 0 /\ w.end = Len(arr) - 1
    BY <1>0 DEF Windows
  <2>2. g[0] = w
    BY DEF Loop
  <2> HIDE DEF w
  <2>3. WindowInv(arr, x, g[0])
    BY <1>0, <2>1, <2>2 DEF WindowInv
  <2>4. (g[0].end - g[0].start) + 0 <= Len(arr) - 1
    BY <1>0, <2>1, <2>2
  <2> QED BY <2>3, <2>4
<1>2. ASSUME NEW n \in Nat, n \in S PROVE n + 1 \in S
  <2>1. g[n + 1] = Narrow(arr, x, g[n])
    BY DEF Loop
  <2>2. WindowInv(arr, x, g[n])
    BY <1>2
  <2>3. /\ WindowInv(arr, x, g[n + 1])
        /\ Over(arr, x, g[n]) => g[n + 1] = g[n]
        /\ ~Over(arr, x, g[n]) => g[n + 1].end - g[n + 1].start < g[n].end - g[n].start
    BY <2>1, <2>2, NarrowKeeps
  <2>4. CASE Over(arr, x, g[n])
    BY <2>3, <2>4
  <2>5. CASE ~Over(arr, x, g[n])
    <3>1. /\ g[n].end \in Int /\ g[n].start \in Int
          /\ g[n + 1].end \in Int /\ g[n + 1].start \in Int
      BY <2>2, <2>3 DEF WindowInv, Windows
    <3>2. (g[n].end - g[n].start) + n <= Len(arr) - 1
      BY <1>2, <2>5
    <3>3. (g[n + 1].end - g[n + 1].start) + (n + 1) <= Len(arr) - 1
      <4> HIDE DEF S
      <4>1. g[n + 1].end - g[n + 1].start < g[n].end - g[n].start
        BY ONLY <2>3, <2>5
      <4> DEFINE d == g[n + 1].end - g[n + 1].start
                 e == g[n].end - g[n].start
      <4>2. d \in Int /\ e \in Int
        BY ONLY <3>1
      <4>3. d < e
        BY ONLY <4>1
      <4>4. e + n <= Len(arr) - 1
        BY ONLY <3>2
      <4> HIDE DEF d, e
      <4>5. d + (n + 1) <= Len(arr) - 1
        BY ONLY <1>0, <4>2, <4>3, <4>4, n \in Nat
      <4> QED BY <4>5 DEF d
    <3> QED BY <2>3, <3>3
  <2> QED BY <2>4, <2>5
<1> HIDE DEF S
<1>3. Len(arr) \in S
  BY <1>0, <1>1, <1>2, Induction
<1>4. WindowInv(arr, x, g[Len(arr)])
  BY <1>3 DEF S
<1>5. g[Len(arr)].end \in Int /\ g[Len(arr)].start \in Int /\ g[Len(arr)].start <= g[Len(arr)].end
  BY <1>4 DEF WindowInv, Windows
<1>6. Over(arr, x, g[Len(arr)])
  BY <1>0, <1>3, <1>5 DEF S
<1> QED BY <1>4, <1>6

(* What bin_search finds in a sorted array: the largest address at or      *)
(* below x, or 0; and not 0 for an x strictly between two of them.         *)
LEMMA SearchFinds ==
  ASSUME NEW arr \in Seq(Nat), Increasing(arr), NEW x \in Nat
  PROVE  LET r == bin_search(arr, x)
         IN  /\ r # 0 => \E i \in 1 .. Len(arr) :
                            /\ arr[i] = r /\ r <= x
                            /\ \A j \in 1 .. Len(arr) : arr[j] <= x => arr[j] <= r
             /\ /\ \E i \in 1 .. Len(arr) : 0 < arr[i] /\ arr[i] < x
                /\ \E i \in 1 .. Len(arr) : arr[i] > x
                /\ \A i \in 1 .. Len(arr) : arr[i] # x
                => r # 0
<1> DEFINE r == bin_search(arr, x)
           n == Len(arr)
<1>0. n \in Nat /\ \A i \in 1 .. n : arr[i] \in Nat
  OBVIOUS
<1>1. PICK g : Loop(arr, x, g) /\ r = Found(arr, x, g[n])
  BY <1>0, LoopRuns
<1> HIDE DEF r
<1>4. g[0].start = 0 /\ g[0].end = n - 1
  BY <1>1 DEF Loop
<1> HIDE DEF n
<1>2. CASE n = 0
  <2>2. r = 0
    BY <1>1, <1>2, <1>4 DEF Found
  <2> QED BY <1>2, <2>2 DEF r, n
<1>3. CASE n > 0
  <2> DEFINE w == g[n]
             a == w.start
             b == w.end
  <2>1. WindowInv(arr, x, w) /\ Over(arr, x, w)
    BY <1>1, <1>3, LoopEnds DEF n
  <2>2. /\ a \in Int /\ b \in Int /\ 0 <= a /\ a <= b /\ b <= n - 1
        /\ \A i \in 1 .. a : arr[i] < x
        /\ b < n - 1 => \A i \in b + 1 .. n : arr[i] > x
    BY <2>1 DEF WindowInv, Windows, n
  <2>3. r = IF a < b THEN arr[Mid(w) + 1]
            ELSE IF a >= 1 /\ arr[a] < x /\ x < arr[a + 1] THEN arr[a] ELSE 0
    BY <1>1 DEF Found
  <2>4. a < b => Mid(w) + 1 \in 1 .. n /\ x = arr[Mid(w) + 1]
    <3>1. a < b => x = arr[Mid(w) + 1]
      BY <2>1, <2>2 DEF Over
    <3>2. Mid(w) = (a + b) \div 2
      BY DEF Mid
    <3> HIDE DEF a, b
    <3>3. a < b => (a + b) \div 2 + 1 \in 1 .. n
      BY <1>0, <2>2
    <3> QED BY <3>1, <3>2, <3>3
  <2> HIDE DEF w, a, b
  <2>5. ASSUME r # 0
        PROVE  \E i \in 1 .. n : /\ arr[i] = r /\ r <= x
                                 /\ \A j \in 1 .. n : arr[j] <= x => arr[j] <= r
    <3>1. CASE a < b
      <4>1. r = x /\ arr[Mid(w) + 1] = r
        BY <2>3, <2>4, <3>1
      <4> QED BY <1>0, <2>4, <3>1, <4>1
    <3>2. CASE ~(a < b)
      <4>1. a >= 1 /\ arr[a] < x /\ x < arr[a + 1] /\ r = arr[a]
        BY <2>3, <2>5, <3>2
      <4>2. a \in 1 .. n /\ a + 1 \in 1 .. n
        BY <1>0, <2>2, <4>1
      <4>3. ASSUME NEW j \in 1 .. n, arr[j] <= x PROVE arr[j] <= r
        <5>1. arr[j] \in Nat /\ arr[a] \in Nat /\ arr[a + 1] \in Nat
          BY <1>0, <4>2
        <5>2. ~(a + 1 <= j)
          BY <4>1, <4>2, <4>3, <5>1 DEF Increasing, n
        <5>3. j <= a
          BY <1>0, <2>2, <5>2
        <5> QED BY <4>1, <4>2, <5>3 DEF Increasing, n
      <4>4. arr[a] \in Nat
        BY <1>0, <4>2
      <4> QED BY <4>1, <4>2, <4>3, <4>4
    <3> QED BY <3>1, <3>2
  <2>6. ASSUME \E i \in 1 .. n : 0 < arr[i] /\ arr[i] < x,
               \E i \in 1 .. n : arr[i] > x,
               \A i \in 1 .. n : arr[i] # x
        PROVE  r # 0
    <3>1. PICK i \in 1 .. n : 0 < arr[i] /\ arr[i] < x
      BY <2>6
    <3>2. PICK k \in 1 .. n : arr[k] > x
      BY <2>6
    <3>3. a = b
      BY <2>2, <2>4, <2>6
    <3>4. a + 1 \in 1 .. n /\ arr[a + 1] \in Nat /\ arr[i] \in Nat /\ arr[k] \in Nat
      BY <1>0, <2>2, <3>3
    <3>5. x < arr[a + 1]
      <4>1. CASE b < n - 1
        BY <1>0, <2>2, <3>3, <3>4, <4>1
      <4>2. CASE b = n - 1
        <5>1. a + 1 = n /\ k <= n
          BY <1>0, <2>2, <3>3, <4>2
        <5>2. arr[k] <= arr[a + 1]
          BY <3>4, <5>1 DEF Increasing, n
        <5> QED BY <3>2, <3>4, <5>2
      <4> QED BY <1>0, <2>2, <4>1, <4>2
    <3>6. i <= a
      <4>1. ~(a + 1 <= i)
        BY <3>1, <3>4, <3>5 DEF Increasing, n
      <4> QED BY <2>2, <4>1
    <3>7. a \in 1 .. n /\ a \in 1 .. a
      BY <1>0, <2>2, <3>1, <3>6
    <3>8. arr[a] < x /\ arr[a] \in Nat /\ arr[i] <= arr[a]
      BY <1>0, <2>2, <3>1, <3>6, <3>7 DEF Increasing, n
    <3>9. r = arr[a]
      BY <2>2, <2>3, <3>3, <3>5, <3>7, <3>8
    <3> QED BY <3>1, <3>4, <3>8, <3>9
  <2> QED BY <2>5, <2>6 DEF r, n
<1> QED BY <1>0, <1>2, <1>3

-----------------------------------------------------------------------------
(* The sorted addresses of a symbol table.                                 *)

LEMMA MinIs ==
  ASSUME NEW S, S \subseteq Nat, S # {}
  PROVE  Min(S) \in S /\ \A y \in S : Min(S) <= y
<1>1. \E x \in S : \A y \in S : x <= y
  BY Least
<1> QED BY <1>1 DEF Min

LEMMA MaxIs ==
  ASSUME NEW S, S \subseteq Nat, S # {}, NEW b \in Nat, \A y \in S : y <= b
  PROVE  Max(S) \in S /\ \A y \in S : Max(S) >= y
<1> DEFINE T == {b - y : y \in S}
<1>1. T \subseteq Nat /\ T # {}
  OBVIOUS
<1>2. PICK m \in T : \A n \in T : m <= n
  BY <1>1, Least
<1>3. PICK x \in S : m = b - x
  BY <1>2
<1>4. ASSUME NEW y \in S PROVE x >= y
  <2>1. b - y \in T
    OBVIOUS
  <2>2. b - x <= b - y
    BY <1>2, <1>3, <2>1
  <2> QED BY <2>2
<1>5. \E z \in S : \A y \in S : z >= y
  BY <1>4
<1> QED BY <1>5 DEF Max

(* A finite table has a largest address.                                   *)
LEMMA Bounded ==
  ASSUME NEW table, IsFiniteSet(table), \A s \in table : s.addr \in Nat
  PROVE  \E b \in Nat : \A s \in table : s.addr <= b
<1> DEFINE n == Cardinality(table)
<1>1. n \in Nat /\ ExistsBijection(1 .. n, table)
  BY FS_CardinalityType
<1>2. PICK f \in [1 .. n -> table] : \A s \in table : \E i \in 1 .. n : f[i] = s
  BY <1>1 DEF ExistsBijection, Bijection, Surjection
<1> DEFINE B(k) == \E b \in Nat : \A i \in 1 .. k : f[i].addr <= b
           S == {k \in Nat : k <= n => B(k)}
<1> HIDE DEF n
<1>3. 0 \in S
  OBVIOUS
<1> HIDE DEF B
<1>4. ASSUME NEW k \in Nat, k \in S PROVE k + 1 \in S
  <2>1. CASE k + 1 <= n
    <3>1. PICK b \in Nat : \A i \in 1 .. k : f[i].addr <= b
      BY <1>1, <1>4, <2>1 DEF B
    <3>2. k + 1 \in 1 .. n /\ f[k + 1] \in table
      BY <1>1, <1>2, <2>1
    <3>3. PICK c \in Nat : c = f[k + 1].addr
      BY <3>2
    <3>4. \A i \in 1 .. k : f[i].addr \in Nat
      BY <1>1, <1>2, <2>1
    <3>5. ASSUME NEW i \in 1 .. k + 1 PROVE f[i].addr <= b + c
      <4>1. CASE i = k + 1
        BY <3>3, <4>1
      <4>2. CASE i \in 1 .. k
        BY <3>1, <3>4, <4>2
      <4> QED BY <4>1, <4>2
    <3>6. b + c \in Nat
      OBVIOUS
    <3>7. B(k + 1)
      BY <3>5, <3>6 DEF B
    <3> QED BY <3>7
  <2> QED BY <2>1
<1> HIDE DEF S
<1>5. n \in S
  BY <1>1, <1>3, <1>4, Induction
<1>6. PICK b \in Nat : \A i \in 1 .. n : f[i].addr <= b
  BY <1>1, <1>5 DEF S, B
<1> QED BY <1>2, <1>6

Addrs(table) == {s.addr : s \in table}
Upto(table, a) == Cardinality({s \in table : s.addr <= a})
Reach(table, i) == {a \in Addrs(table) : Upto(table, a) >= i}

LEMMA UptoType ==
  ASSUME NEW table, IsFiniteSet(table), NEW a
  PROVE  Upto(table, a) \in Nat /\ Upto(table, a) <= Cardinality(table)
<1>1. {s \in table : s.addr <= a} \in SUBSET table
  OBVIOUS
<1> QED BY <1>1, FS_Subset, FS_CardinalityType DEF Upto

LEMMA SortedIs ==
  ASSUME NEW table, IsFiniteSet(table), \A s \in table : s.addr \in Nat
  PROVE  /\ Sorted(table) \in Seq(Nat) /\ Increasing(Sorted(table))
         /\ \A i \in 1 .. Len(Sorted(table)) : Sorted(table)[i] \in Addrs(table)
         /\ \A a \in Addrs(table) : \E i \in 1 .. Len(Sorted(table)) : Sorted(table)[i] = a
<1> DEFINE n == Cardinality(table)
           arr == Sorted(table)
<1>0. n \in Nat /\ Addrs(table) \subseteq Nat
  BY FS_CardinalityType DEF Addrs
<1>1. arr = [i \in 1 .. n |-> Min(Reach(table, i))]
  BY DEF Sorted, Reach, Addrs, Upto
<1> HIDE DEF arr, n
<1>2. ASSUME NEW i \in 1 .. n PROVE Reach(table, i) # {}
  <2>1. table # {}
    BY <1>0, <1>2, FS_EmptySet DEF n
  <2>2. PICK b \in Nat : \A s \in table : s.addr <= b
    BY Bounded
  <2> DEFINE M == Addrs(table)
  <2>3. M \subseteq Nat /\ M # {} /\ \A y \in M : y <= b
    BY <1>0, <2>1, <2>2 DEF Addrs
  <2> HIDE DEF M
  <2>4. Max(M) \in M /\ \A y \in M : Max(M) >= y
    BY <2>3, MaxIs
  <2>5. \A s \in table : s.addr \in M
    BY DEF M, Addrs
  <2>6. {s \in table : s.addr <= Max(M)} = table
    BY <2>3, <2>4, <2>5
  <2>7. Upto(table, Max(M)) = n
    BY <2>6 DEF Upto, n
  <2>8. Max(M) \in Reach(table, i)
    BY <1>0, <2>4, <2>7 DEF Reach, M
  <2> QED BY <2>8
<1>3. \A i \in 1 .. n : Reach(table, i) \subseteq Nat
  BY <1>0 DEF Reach
<1>4. \A i \in 1 .. n : arr[i] \in Reach(table, i) /\ \A y \in Reach(table, i) : arr[i] <= y
  BY <1>1, <1>2, <1>3, MinIs
<1>5. \A i \in 1 .. n : arr[i] \in Addrs(table) /\ arr[i] \in Nat
  BY <1>3, <1>4 DEF Reach
<1>6. arr \in Seq(Nat) /\ Len(arr) = n
  BY <1>0, <1>1, <1>5
<1>7. ASSUME NEW i \in 1 .. n, NEW j \in 1 .. n, i <= j PROVE arr[i] <= arr[j]
  <2>1. arr[j] \in Addrs(table) /\ Upto(table, arr[j]) >= j
    BY <1>4 DEF Reach
  <2>2. Upto(table, arr[j]) >= i
    BY <1>0, <1>7, <2>1, UptoType
  <2>3. arr[j] \in Reach(table, i)
    BY <2>1, <2>2 DEF Reach
  <2> QED BY <1>4, <2>3
<1>8. ASSUME NEW s \in table PROVE \E i \in 1 .. n : arr[i] = s.addr
  <2> DEFINE U == {u \in table : u.addr <= s.addr}
             i == Upto(table, s.addr)
  <2>1. IsFiniteSet(U) /\ s \in U /\ i = Cardinality(U)
    <3>1. U \in SUBSET table /\ s.addr \in Nat
      OBVIOUS
    <3> QED BY <3>1, FS_Subset DEF Upto
  <2>2. i \in 1 .. n
    <3>1. i \in Nat /\ i <= n
      BY UptoType DEF n
    <3>2. i # 0
      BY <2>1, FS_EmptySet
    <3> HIDE DEF i
    <3> QED BY <1>0, <3>1, <3>2
  <2>3. s.addr \in Nat /\ s.addr \in Reach(table, i)
    BY <2>2 DEF Reach, Addrs
  <2>4. ASSUME NEW a \in Reach(table, i), a < s.addr PROVE FALSE
    <3> DEFINE A == {u \in table : u.addr <= a}
    <3>1. a \in Nat /\ Cardinality(A) >= i
      BY <1>3, <2>2 DEF Reach, Upto
    <3>2. A \in SUBSET U /\ s \notin A
      BY <2>3, <2>4, <3>1
    <3> HIDE DEF A, U, i
    <3>3. /\ Cardinality(A) <= Cardinality(U) /\ IsFiniteSet(A)
          /\ Cardinality(U) = Cardinality(A) => U = A
      BY <2>1, <3>2, FS_Subset
    <3>4. Cardinality(A) \in Nat /\ Cardinality(U) \in Nat
      BY <2>1, <3>3, FS_CardinalityType
    <3> QED BY <2>1, <3>1, <3>2, <3>3, <3>4
  <2> HIDE DEF i
  <2>5. arr[i] \in Reach(table, i) /\ arr[i] <= s.addr /\ arr[i] \in Nat
    BY <1>4, <1>5, <2>2, <2>3
  <2>6. arr[i] = s.addr
    BY <2>3, <2>4, <2>5
  <2> QED BY <2>2, <2>6
<1>9. Increasing(arr)
  BY <1>6, <1>7 DEF Increasing
<1>10. \A a \in Addrs(table) : \E i \in 1 .. n : arr[i] = a
  BY <1>8 DEF Addrs
<1> QED BY <1>5, <1>6, <1>9, <1>10 DEF arr

-----------------------------------------------------------------------------
(* The symbols named.                                                      *)

SymbolTable(table) == IsFiniteSet(table) /\ \A s \in table : s.addr \in Nat

(* One lookup, as NearestBelow states it.                                  *)
NamedRight(table, a) ==
  LET syms == GetSymbolByAddr(table, a)
      below == {s.addr : s \in {t \in table : t.addr <= a}}
  IN  /\ Between(a, table) => syms # {}
      /\ \A s \in syms : s.addr = Max(below) \/ (s.addr = 0 /\ ~Between(a, table))

LEMMA Lookups ==
  ASSUME NEW table, SymbolTable(table), NEW a \in Nat
  PROVE  /\ NamedRight(table, a)
         /\ Between(a, table) => ~Fatal(table, a)
<1> DEFINE arr == Sorted(table)
           r == bin_search(arr, a)
           below == {s.addr : s \in {t \in table : t.addr <= a}}
<1>1. /\ arr \in Seq(Nat) /\ Increasing(arr)
      /\ \A i \in 1 .. Len(arr) : arr[i] \in Addrs(table)
      /\ \A x \in Addrs(table) : \E i \in 1 .. Len(arr) : arr[i] = x
  BY SortedIs DEF SymbolTable
<1>2. GetSymbolByAddr(table, a) = {s \in table : s.addr = r}
  BY DEF GetSymbolByAddr
<1> HIDE DEF arr
<1>3. /\ r # 0 => \E i \in 1 .. Len(arr) :
                     /\ arr[i] = r /\ r <= a
                     /\ \A j \in 1 .. Len(arr) : arr[j] <= a => arr[j] <= r
      /\ /\ \E i \in 1 .. Len(arr) : 0 < arr[i] /\ arr[i] < a
         /\ \E i \in 1 .. Len(arr) : arr[i] > a
         /\ \A i \in 1 .. Len(arr) : arr[i] # a
         => r # 0
  BY <1>1, SearchFinds
<1> HIDE DEF r
<1>4. \A s \in table : s.addr \in Nat /\ s.addr \in Addrs(table)
  BY DEF SymbolTable, Addrs
<1>5. Between(a, table) => r # 0
  <2> SUFFICES ASSUME Between(a, table) PROVE r # 0
    OBVIOUS
  <2>1. \E i \in 1 .. Len(arr) : 0 < arr[i] /\ arr[i] < a
    BY <1>1, <1>4 DEF Between
  <2>2. \E i \in 1 .. Len(arr) : arr[i] > a
    BY <1>1, <1>4 DEF Between
  <2>3. \A i \in 1 .. Len(arr) : arr[i] # a
    BY <1>1 DEF Between, Addrs
  <2> QED BY <1>3, <2>1, <2>2, <2>3
<1>6. ASSUME r # 0
      PROVE  r \in Addrs(table) /\ r <= a /\ \A s \in table : s.addr <= a => s.addr <= r
  <2>1. PICK i \in 1 .. Len(arr) :
           /\ arr[i] = r /\ r <= a
           /\ \A j \in 1 .. Len(arr) : arr[j] <= a => arr[j] <= r
    BY <1>3, <1>6
  <2>2. ASSUME NEW s \in table, s.addr <= a PROVE s.addr <= r
    <3>1. PICK j \in 1 .. Len(arr) : arr[j] = s.addr
      BY <1>1, <1>4
    <3> QED BY <2>1, <2>2, <3>1
  <2> QED BY <1>1, <2>1, <2>2
<1>7. ASSUME r # 0 PROVE r = Max(below)
  <2>1. r \in Nat /\ r \in below
    BY <1>4, <1>6, <1>7 DEF Addrs
  <2>2. below \subseteq Nat /\ below # {} /\ \A y \in below : y <= r
    BY <1>4, <1>6, <1>7, <2>1
  <2> HIDE DEF below
  <2>3. Max(below) \in below /\ \A y \in below : Max(below) >= y
    BY <2>1, <2>2, MaxIs
  <2>4. Max(below) \in Nat /\ Max(below) <= r
    BY <2>2, <2>3
  <2>5. Max(below) >= r
    BY <2>1, <2>3
  <2> QED BY <2>1, <2>4, <2>5
<1>8. Between(a, table) => \E s \in table : s.addr = r
  BY <1>5, <1>6 DEF Addrs
<1>9. NamedRight(table, a)
  <2>1. Between(a, table) => GetSymbolByAddr(table, a) # {}
    BY <1>2, <1>8
  <2>2. ASSUME NEW s \in GetSymbolByAddr(table, a)
        PROVE  s.addr = Max(below) \/ (s.addr = 0 /\ ~Between(a, table))
    BY <1>2, <1>5, <1>7
  <2> QED BY <2>1, <2>2 DEF NamedRight
<1>10. Between(a, table) => ~Fatal(table, a)
  BY <1>2, <1>5, <1>8 DEF Fatal
<1> QED BY <1>9, <1>10

(* The frames of a record are addresses.                                   *)
LEMMA FramesType ==
  ASSUME StackInv, tool \in {"interrupt", "stack"},
         reader = IF tool = "interrupt" THEN "name" ELSE "record"
  PROVE  Frames \subseteq Nat
<1>1. event \in Record
  BY DEF StackInv, ReaderInv, LookupInv
<1>2. CASE tool = "stack"
  <2>1. /\ event.words \in [1 .. 2 * Depth + 1 -> Nat] /\ Word \in Nat /\ Depth \in Nat
    BY <1>1, ConstantsAssumption DEF Record
  <2>2. ASSUME NEW i \in 1 .. Depth PROVE event.words[2 * i - 1] + Word * event.words[2 * i] \in Nat
    <3>1. 2 * i - 1 \in 1 .. 2 * Depth + 1 /\ 2 * i \in 1 .. 2 * Depth + 1
      BY <2>1
    <3>2. event.words[2 * i - 1] \in Nat /\ event.words[2 * i] \in Nat
      BY <2>1, <3>1
    <3>3. Word * event.words[2 * i] \in Nat
      BY <2>1, <3>2
    <3> QED BY <3>2, <3>3
  <2>3. Decoded(event.words) \in [1 .. Depth -> Nat]
    BY <2>2 DEF Decoded
  <2> QED BY <1>2, <2>3 DEF Frames, Range
<1>3. CASE tool = "interrupt"
  <2>1. Frames = Range(ip) \ {0}
    BY <1>3 DEF Frames
  <2>2. ip \in [1 .. Depth -> Nat]
    BY <1>3, ConstantsAssumption DEF StackInv, ReaderInv, LookupInv
  <2> QED BY <2>1, <2>2 DEF Range
<1> QED BY <1>2, <1>3

(* What was shown was looked up in a table, at addresses; a tool that died *)
(* of a symbol is dead.                                                    *)
NamingInv ==
  /\ SymbolTable(shown.table) /\ shown.frames \subseteq Nat
  /\ why = "symbol" => /\ reader = "dead"
                       /\ \E a \in shown.frames : ~Between(a, shown.table)
  /\ tool \in {"interrupt", "stack"}

LEMMA NamingStep == StackInv /\ NamingInv /\ [Next]_vars => NamingInv'
<1> SUFFICES ASSUME StackInv, NamingInv, [Next]_vars PROVE NamingInv'
  OBVIOUS
<1>1. ASSUME NEW table \in Tables, NameFrames(table) PROVE NamingInv'
  <2>1. /\ shown'.frames = Frames /\ shown'.table = table /\ tool' = tool
        /\ IF \E a \in Frames : Fatal(table, a)
              THEN Die("symbol") ELSE reader' = "tick" /\ UNCHANGED why
        /\ reader = (IF tool = "interrupt" THEN "name" ELSE "record")
    BY <1>1 DEF NameFrames, probeVars
  <2>2. Frames \subseteq Nat
    BY <2>1, FramesType DEF NamingInv
  <2>3. SymbolTable(table)
    BY ConstantsAssumption DEF SymbolTable
  <2>4. why # "symbol"
    BY <2>1 DEF NamingInv
  <2>5. ASSUME why' = "symbol"
        PROVE  reader' = "dead" /\ \E a \in Frames : ~Between(a, table)
    <3>1. PICK a \in Frames : Fatal(table, a)
      BY <2>1, <2>4, <2>5
    <3>2. reader' = "dead"
      BY <2>1, <3>1 DEF Die
    <3> QED BY <2>2, <2>3, <3>1, <3>2, Lookups
  <2> QED BY <2>1, <2>2, <2>3, <2>5 DEF NamingInv
<1>2. CASE Start \/ Read \/ PanicOnLookup \/ TakeOut \/ PutBack \/ SystemFails
  <2>1. shown' = shown /\ tool' = tool
    BY <1>2 DEF Start, Read, PanicOnLookup, TakeOut, PutBack, SystemFails, probeVars
  <2>2. why' = "symbol" => why = "symbol" /\ reader # "dead"
    BY <1>2 DEF Start, Read, PanicOnLookup, TakeOut, PutBack, SystemFails, Die
  <2> QED BY <2>1, <2>2 DEF NamingInv
<1>3. ASSUME NEW c \in CPUs, Probe(c) PROVE NamingInv'
  <2>1. UNCHANGED <<tool, readerVars>>
    BY <1>3 DEF Probe, Reserve, ReserveFails, FillStackId, Exchange, FillStack, Submit
  <2> QED BY <2>1 DEF NamingInv, readerVars
<1>4. CASE UNCHANGED vars
  BY <1>4 DEF vars, readerVars, NamingInv
<1> QED BY <1>1, <1>2, <1>3, <1>4 DEF Next, Main

LEMMA NamingInit == Init => NamingInv
<1> SUFFICES ASSUME Init PROVE NamingInv
  OBVIOUS
<1>1. shown.table = {} /\ shown.frames = {} /\ why = "" /\ tool \in {"interrupt", "stack"}
  BY DEF Init, Nothing
<1>2. SymbolTable({})
  BY FS_EmptySet DEF SymbolTable
<1> QED BY <1>1, <1>2 DEF NamingInv

(* Every frame is named after the nearest symbol below it, by the binary   *)
(* search of kernel_symbols.go over the sorted addresses of any symbol     *)
(* table; a frame strictly between two symbols never ends the tool.        *)
THEOREM NearestBelowHolds == Spec => []NearestBelow
<1>1. NamingInv => NearestBelow
  <2> SUFFICES ASSUME NamingInv PROVE NearestBelow
    OBVIOUS
  <2>1. \A a \in shown.frames : NamedRight(shown.table, a)
    BY Lookups DEF NamingInv
  <2> QED BY <2>1 DEF NamingInv, NearestBelow, NamedRight
<1> QED BY <1>1, NamingInit, NamingStep, StackInit, StackStep, PTL DEF Spec
=============================================================================
