------------------------------- MODULE Layer --------------------------------
(***************************************************************************)
(* The packet path tracer plugin/ciliumebpf/layer (tr_package is a copy):  *)
(* ten kprobes of layer.c along the send and receive paths, four that      *)
(* stamp the map current_time and six that put a record into a ring buffer *)
(* for the process asked for, and main.go, which attaches them one by one, *)
(* then sets the process filter, and prints one record per second.         *)
(*                                                                         *)
(* Of a record the model keeps the process it is about.  A reserved record *)
(* belongs to its CPU until it is submitted; the reader stops at one that  *)
(* is not.                                                                 *)
(***************************************************************************)
EXTENDS Naturals, Sequences, FiniteSets, Functions

CONSTANTS
    CPUs,
    NoCPU,          \* owner of a submitted record
    Pids,           \* processes, positive numbers
    pid,            \* the option -pid, 0 if not given
    PidMod,         \* 2^32: the filter is stored as a uint32
    attachOrder,    \* the probes, in the order main() attaches them
    MaxRecords      \* records that fit into the ring buffer

(* The probes that only stamp, with the entry of current_time they write.  *)
stampKey == [tcp_transmit_skb |-> 0, eth_type_trans |-> 2,
             ip_local_deliver_finish |-> 3, tcp_rcv_established |-> 4]

(* The probes that submit a record; two of them stamp as well, afterwards. *)
RecordProbes == {"ip_queue_xmit", "ip_local_out", "dev_queue_xmit", "ip_rcv",
                 "ip_protocol_deliver_rcu", "tcp_data_queue"}
restampKey == [ip_queue_xmit |-> 0, ip_rcv |-> 3]

ASSUME ConstantsAssumption ==
    /\ NoCPU \notin CPUs
    /\ PidMod \in Nat \ {0}
    /\ Pids \subseteq 1 .. PidMod - 1 /\ pid \in Nat
    /\ Range(attachOrder) \subseteq RecordProbes \cup DOMAIN stampKey
    /\ MaxRecords \in Nat \ {0}

VARIABLES
    pidfor_user,    \* the filter in the map, 0 for none
    current_time,   \* current_time[k]: entry k was stamped
    events,         \* the ring buffer: records owner, pid, oldest first
    cpu,            \* where each CPU's probe is
    attached,       \* number of probes attached so far
    main,           \* where main() is
    strays          \* history: records of other processes each CPU has put
                    \* in since the filter was stored, counted up to 2

vars == <<pidfor_user, current_time, events, cpu, attached, main, strays>>

Idle == [pc |-> "idle", probe |-> "none", pid |-> 0]

Init ==
    /\ pidfor_user = 0
    /\ current_time = [k \in 0 .. 5 |-> FALSE]
    /\ events = <<>>
    /\ cpu = [c \in CPUs |-> Idle]
    /\ attached = 0
    /\ main = "attach"
    /\ strays = [c \in CPUs |-> 0]

-----------------------------------------------------------------------------
(* The probes.                                                             *)

Attached == {attachOrder[i] : i \in 1 .. attached}

Stamp(c) ==
    /\ cpu[c].pc = "idle"
    /\ \E p \in Attached \cap DOMAIN stampKey :
          current_time' = [current_time EXCEPT ![stampKey[p]] = TRUE]
    /\ UNCHANGED <<pidfor_user, events, cpu, attached, main, strays>>

\* Fault: the filter is looked up and not compared.
PassesAll(x) == TRUE

Passes(x) == pidfor_user = 0 \/ x = pidfor_user

(* A function with a record probe runs in process x and passes the filter, *)
(* which may be stored before the probe goes on.                           *)
Enter(c, p, x) ==
    /\ cpu[c].pc = "idle" /\ p \in Attached
    /\ Passes(x)
    /\ cpu' = [cpu EXCEPT ![c] = [pc |-> "reserve", probe |-> p, pid |-> x]]
    /\ UNCHANGED <<pidfor_user, current_time, events, attached, main, strays>>

Foreign(x) == pidfor_user # 0 /\ x # pidfor_user

(* bpf_ringbuf_reserve, which fails when the buffer is full.               *)
Reserve(c) ==
    /\ cpu[c].pc = "reserve"
    /\ IF Len(events) < MaxRecords
          THEN /\ events' = Append(events, [owner |-> c, pid |-> cpu[c].pid])
               /\ cpu' = [cpu EXCEPT ![c].pc = "fill"]
               /\ strays' = IF Foreign(cpu[c].pid) /\ strays[c] < 2
                               THEN [strays EXCEPT ![c] = strays[c] + 1] ELSE strays
          ELSE cpu' = [cpu EXCEPT ![c] = Idle] /\ UNCHANGED <<events, strays>>
    /\ UNCHANGED <<pidfor_user, current_time, attached, main>>

AfterSubmit(c) == IF cpu[c].probe \in DOMAIN restampKey
                     THEN [cpu EXCEPT ![c].pc = "stamp"]
                     ELSE [cpu EXCEPT ![c] = Idle]

\* Fault: a probe that finds no time stamp returns without submitting.
SubmitIfStamped(c) ==
    /\ cpu[c].pc = "fill"
    /\ IF current_time[0]
          THEN /\ events' = [i \in DOMAIN events |->
                              IF events[i].owner = c THEN [events[i] EXCEPT !.owner = NoCPU]
                                                     ELSE events[i]]
               /\ cpu' = AfterSubmit(c)
          ELSE cpu' = [cpu EXCEPT ![c] = Idle] /\ UNCHANGED events
    /\ UNCHANGED <<pidfor_user, current_time, attached, main, strays>>

(* The record is filled and submitted.                                     *)
Submit(c) ==
    /\ cpu[c].pc = "fill"
    /\ events' = [i \in DOMAIN events |->
                    IF events[i].owner = c THEN [events[i] EXCEPT !.owner = NoCPU]
                                           ELSE events[i]]
    /\ cpu' = AfterSubmit(c)
    /\ UNCHANGED <<pidfor_user, current_time, attached, main, strays>>

(* The update of current_time after the submission.                        *)
Restamp(c) ==
    /\ cpu[c].pc = "stamp"
    /\ current_time' = [current_time EXCEPT ![restampKey[cpu[c].probe]] = TRUE]
    /\ cpu' = [cpu EXCEPT ![c] = Idle]
    /\ UNCHANGED <<pidfor_user, events, attached, main, strays>>

-----------------------------------------------------------------------------
(* main.go.                                                                *)

(* link.Kprobe for the next probe; the last one leads to the filter.       *)
Attach ==
    /\ main = "attach" /\ attached < Len(attachOrder)
    /\ attached' = attached + 1
    /\ UNCHANGED <<pidfor_user, current_time, events, cpu, main, strays>>

(* What the map may hold after the update: the option cut to a uint32, or  *)
(* still nothing, for the error of Update is not looked at.                *)
Stored == IF pid = 0 THEN {0} ELSE {0, pid % PidMod}

(* All are attached: the filter is stored and the reader opened.           *)
SetPid ==
    /\ main = "attach" /\ attached = Len(attachOrder)
    /\ pidfor_user' \in Stored
    /\ main' = "read"
    /\ UNCHANGED <<current_time, events, cpu, attached, strays>>

(* log.Fatalf or panic: a step of the start fails, or opening the reader,  *)
(* or later a rd.Read; the process ends and every link with it.            *)
Fatal ==
    /\ main \in {"attach", "read"}
    /\ main' = "exited" /\ attached' = 0
    /\ pidfor_user' \in IF main = "attach" /\ attached = Len(attachOrder)
                          THEN Stored ELSE {pidfor_user}
    /\ UNCHANGED <<current_time, events, cpu, strays>>

(* A tick: rd.Read returns the oldest record once it is submitted, and it  *)
(* is printed.                                                             *)
Read ==
    /\ main = "read"
    /\ events # <<>> /\ Head(events).owner = NoCPU
    /\ events' = Tail(events)
    /\ UNCHANGED <<pidfor_user, current_time, cpu, attached, main, strays>>

-----------------------------------------------------------------------------
Running(c) == Reserve(c) \/ Submit(c) \/ Restamp(c)
Probe(c) == Stamp(c) \/ Running(c) \/ \E p \in RecordProbes, x \in Pids : Enter(c, p, x)
Main == Attach \/ SetPid \/ Fatal \/ Read

Next == Main \/ \E c \in CPUs : Probe(c)

Spec == Init /\ [][Next]_vars

(* A probe that has started runs on, and main() is scheduled, without      *)
(* having to fail; nothing forces traffic.                                 *)
FairSpec == Spec /\ WF_vars(Attach \/ SetPid \/ Read)
                 /\ \A c \in CPUs : WF_vars(Running(c))

-----------------------------------------------------------------------------
(* Properties.                                                             *)

(* The filter is looked at before the record is reserved, and main()       *)
(* stores it while probes run: each CPU may put in one record of another   *)
(* process after the filter is stored, the one it was about to reserve,    *)
(* and never a second.                                                     *)
StrayOnce == \A c \in CPUs : strays[c] <= 1

(* The reader never waits for ever behind a reserved record: whenever it   *)
(* runs, the oldest record is at some time submitted, or there is none.    *)
Drains == (main = "read") ~> (events = <<>> \/ Head(events).owner = NoCPU)

(* Whatever was recorded while the filter was not set yet is printed and   *)
(* gone at some time: if the filter was stored, from then on only the      *)
(* process asked for is shown.                                             *)
FilterSettles ==
    <>[][Read /\ pidfor_user # 0 => Head(events).pid = pidfor_user]_vars
=============================================================================
