----------------------------- MODULE TcpConnect -----------------------------
(***************************************************************************)
(* The tcpconnect tool: plugin/libbpf-test/okk/tcpconnect.bpf.c (kprobes   *)
(* and kretprobes on tcp_v4_connect and tcp_v6_connect) and                *)
(* plugin/libbpf-test/okk/tcpconnect.c (its user-space half).              *)
(*                                                                         *)
(* A thread's connect() is a stack of kernel calls: tcp_v4_connect, or     *)
(* tcp_v6_connect, which for a v4-mapped address calls tcp_v4_connect on   *)
(* the same socket.  The entry probes remember the socket in the map       *)
(* `sockets' under the thread id, the return probes consume it and either  *)
(* emit a perf event or bump a per-flow counter.                           *)
(***************************************************************************)
EXTENDS Naturals, Sequences, FiniteSets, Functions

CONSTANTS
    Threads,          \* thread ids (keys of the map sockets)
    Idents,           \* process identities, records with fields pid and uid
    Socks, NoSock,    \* struct sock pointers
    Missing,          \* "no such key" in a count map
    Flows,            \* (saddr, daddr, dport) triples
    flowOf,           \* flowOf[s]: the flow key read from socket s
    portOf,           \* portOf[s]: skc_dport of socket s
    CPUs,
    filter_pid, filter_uid, NoUid, filter_ports, do_count,  \* .rodata
    print_timestamp,  \* env.print_timestamp
    MaxSockets,       \* max_entries of sockets
    MaxFlows,         \* max_entries of ipv4_count and of ipv6_count
    PerfCap,          \* records that fit in one CPU's perf buffer
    TsMod,            \* 2^64 in the code: the width of ts_us
    MaxConnects,      \* bound: connect() calls per thread
    MissedReturns,    \* may a kretprobe not fire for a call (maxactive
                      \* exceeded, or attached after the call began)?
    IdentityChanges,  \* may a thread id come back with another pid or uid?
    AllocFails        \* may a non-preallocated map fail to allocate?

Vers == {4, 6}
Keys == Vers \X Flows
ZeroKey == <<0, NoSock>>                  \* an all-zero row of static keys[]

ASSUME ConstantsAssumption ==
    /\ NoSock \notin Socks
    /\ Missing \notin Nat
    /\ Flows # {}
    /\ flowOf \in [Socks -> Flows]
    /\ MaxSockets \in Nat /\ MaxFlows \in Nat /\ PerfCap \in Nat
    /\ MaxConnects \in Nat
    /\ TsMod \in Nat \ {0}
    /\ {MissedReturns, IdentityChanges, AllocFails} \subseteq BOOLEAN
    /\ {do_count, print_timestamp} \subseteq BOOLEAN

VARIABLES
    who,        \* who[t]: current identity behind thread id t
    sk,         \* sk[t]: socket of the connect() in progress, or NoSock
    frames,     \* frames[t]: kernel calls open in it, outermost first
    ret,        \* ret[t]: "none" until the innermost call has returned
    connects,   \* connects[t]: connect() calls made so far
    sockets,    \* the map: sockets[t] \in Socks, or NoSock when absent
    step,       \* step[t]: where t's return probe is inside count_v4/v6
    counts,     \* ipv4_count and ipv6_count, by (version, flow)
    perf,       \* perf[c]: records in CPU c's buffer
    lost,       \* lost[c]: records CPU c had no room for
    clock,      \* bpf_ktime_get_ns() / 1000
    phase,      \* where main() is
    exiting,    \* the flag set by sig_int
    start_ts,   \* static in handle_event
    elapsed,    \* the TIME(s) field printed last
    timed,      \* history: the CPUs of the first record timed and of the last,
                \* or <<>>
    table,      \* the rows print_count printed: a set of (key, count)
    reported,   \* history: sockets reported for the connect() in progress
    added,      \* history: increments completed, by (version, flow)
    refused     \* history: keys whose increment was given up

kernelVars == <<who, sk, frames, ret, connects>>
userVars   == <<phase, exiting, start_ts, elapsed, timed, table>>
histVars   == <<reported, added, refused>>
vars == <<kernelVars, sockets, step, counts, perf, lost, clock, userVars,
          histVars>>

Frame == [ver : Vers, hooked : BOOLEAN]
Event == [sk : Socks, ver : Vers, who : Idents, ts : Nat]
Step  == [pc : {"none", "lookup", "init", "add"}, key : Keys]
NoStep == [pc |-> "none", key |-> <<4, CHOOSE f \in Flows : TRUE>>]

TypeOK ==
    /\ who \in [Threads -> Idents]
    /\ sk \in [Threads -> Socks \cup {NoSock}]
    /\ frames \in [Threads -> Seq(Frame)]
    /\ ret \in [Threads -> {"none", "ok", "err"}]
    /\ connects \in [Threads -> Nat]
    /\ sockets \in [Threads -> Socks \cup {NoSock}]
    /\ step \in [Threads -> Step]
    /\ counts \in [Keys -> Nat \cup {Missing}]
    /\ perf \in [CPUs -> Seq(Event)]
    /\ lost \in [CPUs -> Nat]
    /\ clock \in Nat /\ start_ts \in Nat /\ elapsed \in Nat
    /\ timed \in {<<>>} \cup CPUs \X CPUs
    /\ phase \in {"start", "attached", "ready", "poll", "check", "tested", "pause",
                 "done"}
    /\ exiting \in BOOLEAN
    /\ table \in SUBSET ((Keys \cup {ZeroKey}) \X Nat)
    /\ reported \in [Threads -> Seq(Socks)]
    /\ added \in [Keys -> Nat]
    /\ refused \in SUBSET Keys

Init ==
    /\ who \in [Threads -> Idents]
    /\ sk = [t \in Threads |-> NoSock]
    /\ frames = [t \in Threads |-> <<>>]
    /\ ret = [t \in Threads |-> "none"]
    /\ connects = [t \in Threads |-> 0]
    /\ sockets = [t \in Threads |-> NoSock]
    /\ step = [t \in Threads |-> NoStep]
    /\ counts = [k \in Keys |-> Missing]
    /\ perf = [c \in CPUs |-> <<>>]
    /\ lost = [c \in CPUs |-> 0]
    /\ clock = 1 /\ start_ts = 0 /\ elapsed = 0 /\ timed = <<>>
    /\ phase = "start"
    /\ exiting = FALSE
    /\ table = {}
    /\ reported = [t \in Threads |-> <<>>]
    /\ added = [k \in Keys |-> 0]
    /\ refused = {}

-----------------------------------------------------------------------------
(* The BPF maps (external: the kernel's hash map).                         *)

InSockets == {t \in Threads : sockets[t] # NoSock}
InCounts(ver) == {f \in Flows : counts[<<ver, f>>] # Missing}

(* The outcomes of bpf_map_update_elem(&sockets, &tid, &s, 0): a new key    *)
(* needs room, and any update may fail to allocate.                        *)
SocketsAfterUpdate(t, s) ==
    (IF sockets[t] # NoSock \/ Cardinality(InSockets) < MaxSockets
        THEN {[sockets EXCEPT ![t] = s]} ELSE {sockets})
    \cup (IF AllocFails THEN {sockets} ELSE {})

(* bpf_perf_event_output on CPU c: dropped when user space has no buffer   *)
(* open, counted as lost when the buffer is full.                          *)
PerfOutput(c, e) ==
    /\ perf' = IF phase = "poll" /\ Len(perf[c]) < PerfCap
                  THEN [perf EXCEPT ![c] = Append(@, e)] ELSE perf
    /\ lost' = IF phase = "poll" /\ Len(perf[c]) >= PerfCap
                  THEN [lost EXCEPT ![c] = @ + 1] ELSE lost

-----------------------------------------------------------------------------
(* The BPF programs.                                                       *)

Attached == phase \in {"attached", "ready", "poll", "check", "tested", "pause"}

(* enter_tcp_connect's two early returns.                                  *)
EntryPasses(id) == /\ filter_pid = 0 \/ id.pid = filter_pid
                   /\ filter_uid = NoUid \/ id.uid = filter_uid

(* TRUE when the port must be left out; an empty list filters nothing.     *)
filter_port(port) == filter_ports # {} /\ port \notin filter_ports

\* Fault: the entry probe forgets its filters.
EnterUnfiltered(t, s) == \E m \in SocketsAfterUpdate(t, s) : sockets' = m

enter_tcp_connect(t, s) ==
    IF EntryPasses(who[t])
       THEN \E m \in SocketsAfterUpdate(t, s) : sockets' = m
       ELSE UNCHANGED sockets

(* Pop thread t's innermost kernel call, which returned r.                 *)
PopFrame(t, r) == /\ frames' = [frames EXCEPT ![t] = SubSeq(@, 1, Len(@) - 1)]
                  /\ ret' = [ret EXCEPT ![t] = r]

\* Fault: the return probe forgets to delete the entry.
KeepSocket(t) == t \in Threads /\ UNCHANGED sockets

DeleteSocket(t) == sockets' = [sockets EXCEPT ![t] = NoSock]

(* What the return of thread t's innermost call may be: tcp_v6_connect     *)
(* hands on the result of the tcp_v4_connect it called.                    *)
Results(t) == IF ret[t] = "none" THEN {"ok", "err"} ELSE {ret[t]}

Innermost(t) == frames[t][Len(frames[t])]

Returning(t) == sk[t] # NoSock /\ frames[t] # <<>> /\ step[t].pc = "none"

(* A thread calls connect(): tcp_v4_connect or tcp_v6_connect is entered   *)
(* and its entry probe runs.                                               *)
EnterConnect(t, ver, s, hooked) ==
    /\ Attached
    /\ sk[t] = NoSock /\ connects[t] < MaxConnects
    /\ hooked \/ MissedReturns
    /\ sk' = [sk EXCEPT ![t] = s]
    /\ frames' = [frames EXCEPT ![t] = <<[ver |-> ver, hooked |-> hooked]>>]
    /\ ret' = [ret EXCEPT ![t] = "none"]
    /\ connects' = [connects EXCEPT ![t] = @ + 1]
    /\ reported' = [reported EXCEPT ![t] = <<>>]
    /\ enter_tcp_connect(t, s)
    /\ UNCHANGED <<who, step, counts, perf, lost, clock, userVars, added, refused>>

(* tcp_v6_connect meets a v4-mapped address and calls tcp_v4_connect.      *)
EnterMapped(t, hooked) ==
    /\ Attached
    /\ Returning(t) /\ ret[t] = "none"
    /\ Len(frames[t]) = 1 /\ Innermost(t).ver = 6
    /\ hooked \/ MissedReturns
    /\ frames' = [frames EXCEPT ![t] = Append(@, [ver |-> 4, hooked |-> hooked])]
    /\ enter_tcp_connect(t, sk[t])
    /\ UNCHANGED <<who, sk, ret, connects, step, counts, perf, lost, clock,
                   userVars, histVars>>

(* A call returns with no return probe on it.                              *)
ReturnUnseen(t) ==
    /\ Returning(t)
    /\ ~Innermost(t).hooked \/ ~Attached
    /\ \E r \in Results(t) : PopFrame(t, r)
    /\ UNCHANGED <<who, sk, connects, sockets, step, counts, perf, lost, clock,
                   userVars, histVars>>

(* exit_tcp_connect finds nothing under this thread id.                    *)
ExitNotFound(t) ==
    /\ Attached /\ Returning(t) /\ Innermost(t).hooked
    /\ sockets[t] = NoSock
    /\ \E r \in Results(t) : PopFrame(t, r)
    /\ UNCHANGED <<who, sk, connects, sockets, step, counts, perf, lost, clock,
                   userVars, histVars>>

(* exit_tcp_connect jumps to `end': the call failed or its port is left    *)
(* out.                                                                    *)
ExitSkip(t) ==
    /\ Attached /\ Returning(t) /\ Innermost(t).hooked
    /\ sockets[t] # NoSock
    /\ \E r \in Results(t) :
          /\ r = "err" \/ filter_port(portOf[sockets[t]])
          /\ PopFrame(t, r)
    /\ DeleteSocket(t)
    /\ UNCHANGED <<who, sk, connects, step, counts, perf, lost, clock, userVars,
                   histVars>>

\* Fault: the null check of skpp is missing.
ReturnsCountedUnchecked(t) ==
    /\ Attached /\ Returning(t) /\ Innermost(t).hooked
    /\ "ok" \in Results(t)
    /\ sockets[t] = NoSock \/ ~filter_port(portOf[sockets[t]])

ReturnsCounted(t) ==
    /\ Attached /\ Returning(t) /\ Innermost(t).hooked
    /\ sockets[t] # NoSock
    /\ "ok" \in Results(t)
    /\ ~filter_port(portOf[sockets[t]])

(* exit_tcp_connect with do_count unset: trace_v4 or trace_v6, then the    *)
(* map entry is deleted.                                                   *)
ExitTrace(t, c) ==
    /\ ReturnsCounted(t) /\ ~do_count
    /\ PerfOutput(c, [sk |-> sockets[t], ver |-> Innermost(t).ver,
                      who |-> who[t], ts |-> clock])
    /\ clock' = clock + 1
    /\ reported' = [reported EXCEPT ![t] = Append(@, sockets[t])]
    /\ PopFrame(t, "ok")
    /\ DeleteSocket(t)
    /\ UNCHANGED <<who, sk, connects, step, counts, userVars, added, refused>>

(* exit_tcp_connect with do_count set: count_v4 or count_v6 begins; other  *)
(* threads' probes run between its map operations.                         *)
ExitCount(t) ==
    /\ ReturnsCounted(t) /\ do_count
    /\ step' = [step EXCEPT ![t] =
                  [pc |-> "lookup", key |-> <<Innermost(t).ver, flowOf[sockets[t]]>>]]
    /\ UNCHANGED <<kernelVars, sockets, counts, perf, lost, clock, userVars, histVars>>

(* The first lookup of bpf_map_lookup_or_try_init.                         *)
CountLookup(t) ==
    /\ step[t].pc = "lookup"
    /\ step' = [step EXCEPT ![t].pc = IF counts[step[t].key] = Missing
                                         THEN "init" ELSE "add"]
    /\ UNCHANGED <<kernelVars, sockets, counts, perf, lost, clock, userVars, histVars>>

(* exit_tcp_connect's label `end' after counting.                          *)
CountEnd(t) == /\ step' = [step EXCEPT ![t] = NoStep]
               /\ PopFrame(t, "ok")
               /\ DeleteSocket(t)

\* Fault: the update is made without BPF_NOEXIST.
CountInitOverwrites(t) ==
    /\ step[t].pc = "init"
    /\ counts' = [counts EXCEPT ![step[t].key] = 0]
    /\ \/ counts[step[t].key] # Missing
       \/ Cardinality(InCounts(step[t].key[1])) < MaxFlows
    /\ step' = [step EXCEPT ![t].pc = "add"]
    /\ UNCHANGED <<kernelVars, sockets, perf, lost, clock, userVars, histVars>>

(* The update with BPF_NOEXIST and the second lookup: an existing key is   *)
(* left alone (-EEXIST), a new one is set to zero.                         *)
CountInit(t) ==
    /\ step[t].pc = "init"
    /\ counts' = [counts EXCEPT ![step[t].key] = IF @ = Missing THEN 0 ELSE @]
    /\ \/ counts[step[t].key] # Missing
       \/ Cardinality(InCounts(step[t].key[1])) < MaxFlows
    /\ step' = [step EXCEPT ![t].pc = "add"]
    /\ UNCHANGED <<kernelVars, sockets, perf, lost, clock, userVars, histVars>>

(* The update fails (map full, or no memory): the connect goes uncounted.  *)
CountInitFails(t) ==
    /\ step[t].pc = "init"
    /\ counts[step[t].key] = Missing
    /\ AllocFails \/ Cardinality(InCounts(step[t].key[1])) >= MaxFlows
    /\ refused' = refused \cup {step[t].key}
    /\ CountEnd(t)
    /\ UNCHANGED <<who, sk, connects, counts, perf, lost, clock, userVars,
                   reported, added>>

(* __atomic_add_fetch(val, 1) and the deletion of the sockets entry.       *)
CountAdd(t) ==
    /\ step[t].pc = "add"
    /\ counts' = [counts EXCEPT ![step[t].key] = @ + 1]
    /\ added' = [added EXCEPT ![step[t].key] = @ + 1]
    /\ reported' = [reported EXCEPT ![t] = Append(@, sockets[t])]
    /\ CountEnd(t)
    /\ UNCHANGED <<who, sk, connects, perf, lost, clock, userVars, refused>>

(* connect() returns to user space.                                        *)
SyscallReturn(t) ==
    /\ sk[t] # NoSock /\ frames[t] = <<>>
    /\ sk' = [sk EXCEPT ![t] = NoSock]
    /\ UNCHANGED <<who, frames, ret, connects, sockets, step, counts, perf, lost,
                   clock, userVars, histVars>>

(* Between connects: setuid, or exit and reuse of the thread id.           *)
ChangeIdentity(t, id) ==
    /\ IdentityChanges
    /\ sk[t] = NoSock /\ id # who[t]
    /\ who' = [who EXCEPT ![t] = id]
    /\ UNCHANGED <<sk, frames, ret, connects, sockets, step, counts, perf, lost,
                   clock, userVars, histVars>>

-----------------------------------------------------------------------------
(* User space.                                                             *)

bpfVars == <<kernelVars, sockets, step, counts, lost, clock, histVars>>

(* tcpconnect_bpf__load and __attach; a failure goes to cleanup.           *)
LoadAndAttach ==
    /\ phase = "start"
    /\ phase' \in {"attached", "done"}
    /\ UNCHANGED <<bpfVars, perf, exiting, start_ts, elapsed, timed, table>>

(* signal(SIGINT, sig_int); a failure goes to cleanup.                     *)
InstallHandler ==
    /\ phase = "attached"
    /\ phase' \in {"ready", "done"}
    /\ UNCHANGED <<bpfVars, perf, exiting, start_ts, elapsed, timed, table>>

(* print_count begins to wait, or print_events opens the perf buffers.     *)
StartOutput ==
    /\ phase = "ready"
    /\ IF do_count THEN phase' = "check" ELSE phase' \in {"poll", "done"}
    /\ UNCHANGED <<bpfVars, perf, exiting, start_ts, elapsed, timed, table>>

(* SIGINT is delivered: its default action kills the process until         *)
(* sig_int is installed; afterwards the handler sets the flag and a        *)
(* pause() in progress returns.                                            *)
sig_int ==
    /\ phase # "done"
    /\ IF phase \in {"start", "attached"}
          THEN phase' = "done" /\ UNCHANGED exiting
          ELSE /\ exiting' = TRUE
               /\ phase' = IF phase = "pause" THEN "check" ELSE phase
    /\ UNCHANGED <<bpfVars, perf, start_ts, elapsed, timed, table>>

\* Fault: the subtraction is the wrong way round.
handle_event_swapped(c) ==
    /\ phase = "poll" /\ perf[c] # <<>>
    /\ perf' = [perf EXCEPT ![c] = Tail(@)]
    /\ start_ts' = IF start_ts = 0 THEN Head(perf[c]).ts ELSE start_ts
    /\ elapsed' = (start_ts' + TsMod - Head(perf[c]).ts) % TsMod
    /\ timed' = IF timed = <<>> THEN <<c, c>> ELSE <<timed[1], c>>
    /\ UNCHANGED <<bpfVars, phase, exiting, table>>

(* perf_buffer__poll hands one record of CPU c's buffer to handle_event,   *)
(* whose time column is unsigned arithmetic relative to the first record.  *)
handle_event(c) ==
    /\ phase = "poll" /\ perf[c] # <<>>
    /\ perf' = [perf EXCEPT ![c] = Tail(@)]
    /\ IF print_timestamp
          THEN /\ start_ts' = IF start_ts = 0 THEN Head(perf[c]).ts ELSE start_ts
               /\ elapsed' = (Head(perf[c]).ts + TsMod - start_ts') % TsMod
               /\ timed' = IF timed = <<>> THEN <<c, c>> ELSE <<timed[1], c>>
          ELSE UNCHANGED <<start_ts, elapsed, timed>>
    /\ UNCHANGED <<bpfVars, phase, exiting, table>>

ClosePerf == /\ phase' = "done"
             /\ perf' = [c \in CPUs |-> <<>>]
             /\ UNCHANGED <<bpfVars, exiting, start_ts, elapsed, timed, table>>

(* print_events leaves its loop because the flag is set, or because        *)
(* polling failed; records still buffered go with the buffers.             *)
StopPolling == phase = "poll" /\ exiting /\ ClosePerf
PollFails   == phase = "poll" /\ ClosePerf

\* Fault: pause() is called whatever the flag says.
TestFlagIgnored ==
    /\ phase = "check"
    /\ phase' = "tested"
    /\ UNCHANGED <<bpfVars, perf, exiting, start_ts, elapsed, timed, table>>

(* print_count tests the flag and calls pause(): two steps, so a signal    *)
(* between them sets the flag and ends no pause.                           *)
TestFlag ==
    /\ phase = "check" /\ ~exiting
    /\ phase' = "tested"
    /\ UNCHANGED <<bpfVars, perf, exiting, start_ts, elapsed, timed, table>>

Pause ==
    /\ phase = "tested"
    /\ phase' = "pause"
    /\ UNCHANGED <<bpfVars, perf, exiting, start_ts, elapsed, timed, table>>

(* print_count_ipv4 and print_count_ipv6: nothing fills the static arrays  *)
(* keys and counts, so every row they print is zero.                       *)
PrintCount ==
    /\ phase = "check" /\ exiting
    /\ table' = {<<ZeroKey, 0>>}
    /\ phase' = "done"
    /\ UNCHANGED <<bpfVars, perf, exiting, start_ts, elapsed, timed>>

-----------------------------------------------------------------------------
Probes(t) ==
    \/ \E ver \in Vers, s \in Socks, h \in BOOLEAN : EnterConnect(t, ver, s, h)
    \/ \E h \in BOOLEAN : EnterMapped(t, h)
    \/ ReturnUnseen(t)
    \/ ExitNotFound(t)
    \/ ExitSkip(t)
    \/ \E c \in CPUs : ExitTrace(t, c)
    \/ ExitCount(t)
    \/ CountLookup(t)
    \/ CountInit(t)
    \/ CountInitFails(t)
    \/ CountAdd(t)
    \/ SyscallReturn(t)
    \/ \E id \in Idents : ChangeIdentity(t, id)

Tool ==
    \/ LoadAndAttach
    \/ InstallHandler
    \/ StartOutput
    \/ sig_int
    \/ \E c \in CPUs : handle_event(c)
    \/ StopPolling
    \/ PollFails
    \/ TestFlag
    \/ Pause
    \/ PrintCount

Next == Tool \/ \E t \in Threads : Probes(t)

Spec == Init /\ [][Next]_vars

(* The process is scheduled.  Nobody has to send a signal, or another one. *)
Fairness ==
    /\ WF_vars(StopPolling) /\ WF_vars(StartOutput)
    /\ WF_vars(TestFlag) /\ WF_vars(Pause) /\ WF_vars(PrintCount)

FairSpec == Spec /\ Fairness

-----------------------------------------------------------------------------
(* Properties.                                                             *)

(* The probes keep the promise of ConnectReporting: nested v6/v4 calls     *)
(* yield one report, and it names the socket of the call it is made for.   *)
Reporting == INSTANCE ConnectReporting
             WITH Threads <- Threads, Socks <- Socks, NoSock <- NoSock,
                  sk <- sk, reported <- reported
RefinesConnectReporting == Reporting!Spec

(* A sockets entry exists only inside the call that made it, names that    *)
(* call's socket and belongs to a thread the filters let through; so a     *)
(* return probe never consumes what an earlier call left behind.           *)
EntryLive ==
    phase # "done" => \A t \in Threads : sockets[t] # NoSock =>
        /\ frames[t] # <<>>
        /\ sockets[t] = sk[t]
        /\ EntryPasses(who[t])
        /\ reported[t] = <<>>

(* -p, -u and -P: every event emitted is of a process, a user and a port   *)
(* the filters select.                                                     *)
OnlySelected ==
    \A c \in CPUs : \A i \in 1 .. Len(perf[c]) :
        /\ EntryPasses(perf[c][i].who)
        /\ ~filter_port(portOf[perf[c][i].sk])

(* Racing first connects of one flow lose no increment: a counter is       *)
(* exactly the number of increments completed, and an increment is given   *)
(* up only because its flow found the map full; such a flow never gets a   *)
(* counter afterwards.                                                     *)
CountsExact ==
    /\ \A k \in Keys : IF counts[k] = Missing THEN added[k] = 0
                                              ELSE counts[k] = added[k]
    /\ \A k \in refused : /\ counts[k] = Missing
                          /\ Cardinality(InCounts(k[1])) = MaxFlows

(* The time column exceeds the time that has passed only where the buffers *)
(* of two CPUs meet: the difference to the first record timed wraps for a  *)
(* record of another CPU, older than it, and never for one of its own.     *)
ElapsedSane == elapsed > clock => timed[1] # timed[2]

(* Once sig_int has run the tool ends, unless the signal fell between the  *)
(* test of the flag and pause().                                           *)
StopsWhenAsked == exiting /\ phase \notin {"tested", "pause"} ~> phase = "done"

(* With -c, whoever asks the tool to stop is shown its table.              *)
CountsShown == exiting ~> table # {}

=============================================================================
