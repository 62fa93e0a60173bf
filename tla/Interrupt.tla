----------------------------- MODULE Interrupt ------------------------------
(***************************************************************************)
(* Two tools that show the kernel stack of every error trap:               *)
(* plugin/ciliumebpf/interrupt, whose probe submits the id of a stack kept *)
(* in the map stack_traces, and plugin/ciliumebpf/stack, whose probe       *)
(* submits the stack itself.  Each is a kprobe on every CPU, a ring buffer *)
(* and a reader that takes one record per tick and names its frames with   *)
(* GetSymbolByAddr and bin_search of vendor/.../helpers/kernel_symbols.go, *)
(* which the project has changed.                                          *)
(*                                                                         *)
(* An address is a number of two words of Word values each.                *)
(***************************************************************************)
EXTENDS Integers, Sequences, FiniteSets, SequencesExt

CONSTANTS
    CPUs,
    Stacks,         \* kernel stacks: sequences of Depth addresses, padded with 0
    Depth,
    bucketOf,       \* bucketOf[s]: the bucket of stack s in stack_traces
    NoStack,
    MaxStacks,      \* max_entries of stack_traces
    RingCap,        \* records that fit in the ring buffer
    Tables,         \* what /proc/kallsyms may hold: sets of records addr, name
    Word,           \* 2^32 in the code: the width of a word
    MaxTraps        \* bound: traps

ASSUME ConstantsAssumption ==
    /\ Stacks \subseteq [1 .. Depth -> Nat] /\ NoStack \notin Stacks
    /\ bucketOf \in [Stacks -> Nat]
    /\ \A table \in Tables : IsFiniteSet(table) /\ \A s \in table : s.addr \in Nat
    /\ {Depth, MaxStacks, RingCap, MaxTraps} \subseteq Nat /\ Word \in Nat \ {0}

VARIABLES
    tool,           \* "interrupt" or "stack"
    stack_traces,   \* the map: bucket |-> stack or NoStack
    cpu,            \* cpu[c]: where CPU c's probe is, and its trap's stack
    events,         \* the ring buffer: records in the order of reservation
    reader,         \* where main() is
    event,          \* the record it works on
    ip,             \* the stack its lookup copied
    why,            \* why it died
    shown,          \* the addresses it looked up last, in which table, for
                    \* which id, and (history) the stack of the trap
    traps,
    idFailed,       \* history: a bpf_get_stackid failed
    raced           \* history: buckets filled while another probe was filling
                    \* them too, or while a lookup had them out

readerVars == <<reader, event, ip, why, shown>>
vars == <<tool, stack_traces, cpu, events, readerVars, traps, idFailed, raced>>

Ids == {bucketOf[s] : s \in Stacks}
FAILED == -1        \* a negative errno stored in an unsigned field
UNSET == -2         \* whatever the ring buffer held before; no id yet
Idle == [pc |-> "idle", stack |-> NoStack, n |-> 0]
NoRecord == [own |-> NoStack]
Nothing == [frames |-> {}, table |-> {}, stack_id |-> UNSET, own |-> <<>>]

Init == /\ tool \in {"interrupt", "stack"}
        /\ stack_traces = [b \in Ids |-> NoStack]
        /\ cpu = [c \in CPUs |-> Idle]
        /\ events = <<>>
        /\ reader = "start" /\ event = NoRecord /\ ip = NoStack
        /\ why = "" /\ shown = Nothing
        /\ traps = 0 /\ idFailed = FALSE /\ raced = {}

-----------------------------------------------------------------------------
(* The probe.                                                              *)

Attached == reader \notin {"start", "dead"}

\* Fault: the record is submitted before it is filled in.
ReservedReady == TRUE

ReservedState == FALSE

(* A trap; bpf_ringbuf_reserve finds room.                                 *)
Reserve(c, s) ==
    /\ Attached /\ cpu[c].pc = "idle" /\ traps < MaxTraps
    /\ Len(events) < RingCap
    /\ traps' = traps + 1
    /\ cpu' = [cpu EXCEPT ![c] = [pc |-> "fill", stack |-> s, n |-> traps']]
    /\ events' = Append(events, [ready |-> ReservedState, n |-> traps', own |-> s,
                                 stack_id |-> UNSET,
                                 words |-> [i \in 1 .. 2 * Depth + 1 |-> 0]])
    /\ UNCHANGED <<tool, stack_traces, readerVars, idFailed, raced>>

(* ... or not, and the trap goes unseen.                                   *)
ReserveFails(c) ==
    /\ Attached /\ cpu[c].pc = "idle" /\ traps < MaxTraps
    /\ Len(events) >= RingCap
    /\ traps' = traps + 1
    /\ UNCHANGED <<tool, stack_traces, cpu, events, readerVars, idFailed, raced>>

(* bpf_get_stackid with no flags (external) first looks at the bucket: its *)
(* stack is kept if it is another one, and a new stack needs a free        *)
(* element.  Elements are in the buckets, or with a probe about to store   *)
(* one or the lookup that has one out.                                     *)
Storing(c, b) == cpu[c].pc = "exchange" /\ bucketOf[cpu[c].stack] = b
Out(b) == reader = "lookup" /\ event.stack_id = b
Free == MaxStacks > Cardinality({b \in Ids : stack_traces[b] # NoStack \/ Out(b)})
                    + Cardinality({c \in CPUs : cpu[c].pc = "exchange"})

\* Fault: BPF_F_REUSE_STACKID.
bpf_get_stackid_reuse(s) ==
    IF stack_traces[bucketOf[s]] = s THEN bucketOf[s]
    ELSE IF ~Free THEN FAILED ELSE UNSET

bpf_get_stackid(s) ==
    IF stack_traces[bucketOf[s]] = s THEN bucketOf[s]
    ELSE IF stack_traces[bucketOf[s]] # NoStack \/ ~Free THEN FAILED ELSE UNSET

(* struct intr_message of the stack tool from its padding on: the compiler *)
(* aligns the stack, so a word nobody writes follows the pid.              *)
Lo(a) == a % Word
Hi(a) == a \div Word
AfterPid(s, padding) ==
    [i \in 1 .. 2 * Depth + 1 |-> IF i = 1 THEN padding
                                ELSE IF i % 2 = 0 THEN Lo(s[i \div 2]) ELSE Hi(s[i \div 2])]

(* CPU c writes its record in the ring buffer.                             *)
Write(c, New(_)) ==
    events' = [i \in DOMAIN events |-> IF events[i].n = cpu[c].n THEN New(events[i])
                                                               ELSE events[i]]

FillStackId(c) ==
    /\ tool = "interrupt" /\ cpu[c].pc = "fill"
    /\ LET id == bpf_get_stackid(cpu[c].stack)
           b == bucketOf[cpu[c].stack]
       IN  /\ idFailed' = (idFailed \/ id = FAILED)
           /\ raced' = IF id = UNSET /\ Out(b) THEN raced \cup {b} ELSE raced
           /\ IF id = UNSET THEN UNCHANGED events
              ELSE Write(c, LAMBDA r : [r EXCEPT !.stack_id = id])
           /\ cpu' = [cpu EXCEPT ![c].pc = IF id = UNSET THEN "exchange" ELSE "submit"]
    /\ UNCHANGED <<tool, stack_traces, readerVars, traps>>

(* Then it puts the new element into the bucket, whatever is there by now; *)
(* an element that was there is free again.                                *)
Exchange(c) ==
    /\ cpu[c].pc = "exchange"
    /\ LET b == bucketOf[cpu[c].stack]
       IN  /\ stack_traces' = [stack_traces EXCEPT ![b] = cpu[c].stack]
           /\ raced' = IF \E d \in CPUs \ {c} : Storing(d, b) THEN raced \cup {b} ELSE raced
           /\ Write(c, LAMBDA r : [r EXCEPT !.stack_id = b])
    /\ cpu' = [cpu EXCEPT ![c].pc = "submit"]
    /\ UNCHANGED <<tool, readerVars, traps, idFailed>>

FillStack(c, padding) ==
    /\ tool = "stack" /\ cpu[c].pc = "fill"
    /\ Write(c, LAMBDA r : [r EXCEPT !.words = AfterPid(cpu[c].stack, padding)])
    /\ cpu' = [cpu EXCEPT ![c].pc = "submit"]
    /\ UNCHANGED <<tool, stack_traces, readerVars, traps, idFailed, raced>>

\* Fault: a record without a stack is given up without being submitted.
SubmitIfFilled(c) ==
    /\ cpu[c].pc = "submit"
    /\ Write(c, LAMBDA r : [r EXCEPT !.ready = (r.stack_id # FAILED)])
    /\ cpu' = [cpu EXCEPT ![c] = Idle]
    /\ UNCHANGED <<tool, stack_traces, readerVars, traps, idFailed, raced>>

Submit(c) ==
    /\ cpu[c].pc = "submit"
    /\ Write(c, LAMBDA r : [r EXCEPT !.ready = TRUE])
    /\ cpu' = [cpu EXCEPT ![c] = Idle]
    /\ UNCHANGED <<tool, stack_traces, readerVars, traps, idFailed, raced>>

-----------------------------------------------------------------------------
(* kernel_symbols.go.                                                      *)

(* One turn of bin_search's loop; it leaves alone the window of a loop     *)
(* that is over.  arr[i] of the code is arr[i + 1] here.                   *)
Mid(w) == (w.start + w.end) \div 2
Over(arr, x, w) == w.start >= w.end \/ x = arr[Mid(w) + 1]

\* Fault: the window's end is put before the middle.
NarrowShort(arr, x, w) ==
    IF Over(arr, x, w) THEN w
    ELSE IF x < arr[Mid(w) + 1] THEN [w EXCEPT !.end = Mid(w) - 1]
                                ELSE [w EXCEPT !.start = Mid(w) + 1]

Narrow(arr, x, w) ==
    IF Over(arr, x, w) THEN w
    ELSE IF x < arr[Mid(w) + 1] THEN [w EXCEPT !.end = Mid(w)]
                                ELSE [w EXCEPT !.start = Mid(w) + 1]

(* What the loop returns from the middle, and after it from the window     *)
(* that is closed.                                                         *)
Found(arr, x, w) ==
    IF w.start < w.end THEN arr[Mid(w) + 1]
    ELSE IF w.start >= 1 /\ arr[w.start] < x /\ x < arr[w.start + 1] THEN arr[w.start]
    ELSE 0

(* Every turn shrinks the window, so as many turns as there are addresses  *)
(* are enough.                                                             *)
bin_search(arr, x) ==
    LET window[i \in Nat] == IF i = 0 THEN [start |-> 0, end |-> Len(arr) - 1]
                                      ELSE Narrow(arr, x, window[i - 1])
    IN  Found(arr, x, window[Len(arr)])

(* The addresses of all symbols, sorted, and any symbol at the one found:  *)
(* for 0, which is how bin_search says "none", a symbol whose address is 0. *)
Sorted(table) ==
    LET upTo(a) == Cardinality({s \in table : s.addr <= a})
    IN  [i \in 1 .. Cardinality(table) |-> Min({a \in {s.addr : s \in table} : upTo(a) >= i})]

GetSymbolByAddr(table, a) == {s \in table : s.addr = bin_search(Sorted(table), a)}

-----------------------------------------------------------------------------
(* main().                                                                 *)

probeVars == <<tool, cpu, traps, idFailed, raced>>

Die(reason) == reader' = "dead" /\ why' = reason

(* Load, attach, open the ring buffer; a failure ends the tool.            *)
Start == /\ reader = "start"
         /\ \/ reader' = "tick" /\ UNCHANGED why
            \/ Die("system")
         /\ UNCHANGED <<probeVars, stack_traces, events, event, ip, shown>>

(* One record per tick: rd.Read() waits while the oldest record is not     *)
(* submitted, newer ones or not.                                           *)
Read == /\ reader = "tick" /\ events # <<>> /\ Head(events).ready
        /\ event' = Head(events)
        /\ events' = Tail(events)
        /\ reader' = "record"
        /\ UNCHANGED <<probeVars, stack_traces, ip, why, shown>>

(* The addresses of the record, as decoded: the interrupt tool's record    *)
(* has no padding; binary.Read takes the stack tool's to have none either. *)
Decoded(words) == [i \in 1 .. Depth |-> words[2 * i - 1] + Word * words[2 * i]]

Frames == IF tool = "stack" THEN Range(Decoded(event.words)) ELSE Range(ip) \ {0}

LookupFails == event.stack_id \notin {b \in Ids : stack_traces[b] # NoStack}

(* StackTraces.Lookup fails: panic.                                        *)
PanicOnLookup ==
    /\ tool = "interrupt" /\ reader = "record" /\ LookupFails
    /\ Die("lookup")
    /\ UNCHANGED <<probeVars, stack_traces, events, event, ip, shown>>

(* The kernel takes the element out of its bucket, copies the stack, and   *)
(* puts the element back over what a probe has stored meanwhile.           *)
TakeOut ==
    /\ tool = "interrupt" /\ reader = "record" /\ ~LookupFails
    /\ ip' = stack_traces[event.stack_id]
    /\ stack_traces' = [stack_traces EXCEPT ![event.stack_id] = NoStack]
    /\ reader' = "lookup"
    /\ UNCHANGED <<probeVars, events, event, why, shown>>

PutBack ==
    /\ reader = "lookup"
    /\ stack_traces' = [stack_traces EXCEPT ![event.stack_id] = ip]
    /\ reader' = "name"
    /\ UNCHANGED <<probeVars, events, event, ip, why, shown>>

(* A frame that ends the tool: interrupt exits when the symbol found has   *)
(* address 0, stack dereferences the nil it gets with an error.            *)
Fatal(table, a) == LET syms == GetSymbolByAddr(table, a)
                   IN  IF tool = "interrupt" THEN \E s \in syms : s.addr = 0 ELSE syms = {}

(* kallsyms is read anew for every record and the frames are named.        *)
NameFrames(table) ==
    /\ reader = IF tool = "interrupt" THEN "name" ELSE "record"
    /\ shown' = [frames |-> Frames, table |-> table, stack_id |-> event.stack_id,
                 own |-> event.own]
    /\ IF \E a \in Frames : Fatal(table, a)
          THEN Die("symbol") ELSE reader' = "tick" /\ UNCHANGED why
    /\ UNCHANGED <<probeVars, stack_traces, events, event, ip>>

(* rd.Read() or the lookup fails, or kallsyms cannot be opened: the tool   *)
(* ends.                                                                   *)
SystemFails ==
    /\ reader \in {"tick", "record", "name"}
    /\ Die("system")
    /\ UNCHANGED <<probeVars, stack_traces, events, event, ip, shown>>

-----------------------------------------------------------------------------
Probe(c) == \/ \E s \in Stacks : Reserve(c, s)
            \/ ReserveFails(c)
            \/ FillStackId(c) \/ Exchange(c) \/ \E w \in {0, Word - 1} : FillStack(c, w)
            \/ Submit(c)

Main == \/ Start \/ Read \/ PanicOnLookup \/ TakeOut \/ PutBack
        \/ \E table \in Tables : NameFrames(table)

Next == Main \/ SystemFails \/ \E c \in CPUs : Probe(c)

(* A probe that has begun runs to its end, and main() is scheduled.        *)
Spec == /\ Init /\ [][Next]_vars
        /\ WF_vars(Main)
        /\ \A c \in CPUs : WF_vars(cpu[c].pc # "idle" /\ Probe(c))

-----------------------------------------------------------------------------
(* Properties.                                                             *)

(* The stack shown for a trap is the stack of that trap, although its id   *)
(* is looked up long after it was stored and buckets are shared: only if   *)
(* two probes fill one bucket at a time, or one fills it while a lookup    *)
(* has its element out, can it be another's.                               *)
OwnStack ==
    tool = "interrupt" /\ shown.stack_id \notin raced =>
        shown.frames = Range(shown.own) \ {0}

(* An address strictly between a symbol that is not at 0 and another one.  *)
Between(a, table) == /\ \E s \in table : 0 < s.addr /\ s.addr < a
                     /\ \E s \in table : s.addr > a
                     /\ \A s \in table : s.addr # a

(* A frame is named after the nearest symbol below it; one with no symbol  *)
(* below or above is an error or gets a symbol at address 0, and only such *)
(* a frame ends the tool.                                                  *)
NearestBelow ==
    /\ \A a \in shown.frames :
        LET syms == GetSymbolByAddr(shown.table, a)
            below == {s.addr : s \in {t \in shown.table : t.addr <= a}}
        IN  /\ Between(a, shown.table) => syms # {}
            /\ \A s \in syms : s.addr = Max(below) \/ (s.addr = 0 /\ ~Between(a, shown.table))
    /\ why = "symbol" => \E a \in shown.frames : ~Between(a, shown.table)

(* The lookup of a stack fails, and the tool panics, only if bpf_get_stackid *)
(* failed for some trap: never because a record was read before it was     *)
(* filled or because its stack has gone from the map.                      *)
PanicsOnlyWithCause == why = "lookup" => idFailed

(* The stack tool names frames of the trap's stack: "Data is padded with 0 *)
(* for alignment" and decoded accordingly.                                 *)
StackDecoded == tool = "stack" => shown.frames \subseteq Range(shown.own)

(* Every record reserved is read in the end, unless the tool dies: no      *)
(* record is left unsubmitted in front of the others.                      *)
RecordsRead == events # <<>> ~> (events = <<>> \/ reader = "dead")
=============================================================================
