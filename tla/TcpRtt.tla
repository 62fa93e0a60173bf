------------------------------- MODULE TcpRtt -------------------------------
(***************************************************************************)
(* The tcprtt tool: plugin/libbpf-test/tcprtt.bpf.c, which runs on every   *)
(* CPU at every received TCP segment and adds its round-trip time to a     *)
(* histogram per address, and plugin/libbpf-test/tcprtt.c, which prints    *)
(* and deletes the histograms once per interval while the probes go on.    *)
(*                                                                         *)
(* The map `hists' is preallocated: deleting a key returns its element to  *)
(* the free list at once, although a probe on another CPU may still hold   *)
(* a pointer to it.                                                        *)
(***************************************************************************)
EXTENDS Log2Hist, Sequences, Functions

CONSTANTS
    CPUs,
    Flows,          \* connections: records sport, dport (port numbers) and
                    \* saddr, daddr (bytes in memory order)
    Elems,          \* the preallocated elements (MAX_ENTRIES of them)
    NoElem,           \* "no element"
    keyOrder,       \* the keys in the order bpf_map_get_next_key visits them
    AnyKey,         \* key 0: one histogram for all addresses
    SrttUs,         \* values of tcp_sock.srtt_us
    opt_p, opt_P,   \* the numbers given with -p and -P, or 0
    opt_a, opt_A,   \* the addresses given with -a and -A, or NoAddr
    NoAddr,
    laddr_hist, raddr_hist, extended,       \* -b, -B, -e
    MaxSamples,     \* bound: segments received
    MaxRounds       \* bound: intervals printed

Keys == Range(keyOrder)
Slots == {Slot(Srtt(us)) : us \in SrttUs}    \* the slots[] that can be hit

ASSUME ConstantsAssumption ==
    /\ NoElem \notin Elems \cup Keys
    /\ keyOrder \in Seq(Keys) /\ AnyKey \in Keys
    /\ \A f \in Flows : /\ {f.saddr, f.daddr} \subseteq Keys
                        /\ f.sport \in Nat /\ f.sport < 65536
                        /\ f.dport \in Nat /\ f.dport < 65536
    /\ SrttUs \subseteq Nat /\ IsFiniteSet(SrttUs)
    /\ MaxSamples \in Nat /\ MaxRounds \in Nat
    /\ {laddr_hist, raddr_hist, extended} \subseteq BOOLEAN

VARIABLES
    elemOf,     \* the map hists: elemOf[k] \in Elems, or NoElem
    hist,       \* contents of the elements, linked or free
    cpu,        \* where each CPU's tcp_rcv is
    main,       \* where main() is
    cursor,     \* lookup_key in print_map, or NoElem for -1
    exiting,
    rounds,     \* intervals printed so far
    samples,    \* history: segments that passed the filters
    added       \* history: per key and slot, the increments of the first
                \* interval, forgotten when print_map starts to delete

mapVars  == <<elemOf, hist>>
userVars == <<main, cursor, exiting, rounds>>
vars == <<mapVars, cpu, userVars, samples, added>>

(* struct hist, with two histories: the keys whose samples it holds, and   *)
(* whether it was printed since it was cleared.                            *)
Hist == [slots : [Slots -> Nat], latency : Nat, cnt : Nat, from : SUBSET Keys,
         shown : BOOLEAN]
zero == [slots |-> [s \in Slots |-> 0], latency |-> 0, cnt |-> 0, from |-> {},
         shown |-> FALSE]

nothing == [k \in Keys |-> zero.slots]

IdleCpu == [pc |-> "idle", key |-> AnyKey, elem |-> NoElem, srtt |-> 0,
            gone |-> FALSE]

TypeOK ==
    /\ elemOf \in [Keys -> Elems \cup {NoElem}]
    /\ hist \in [Elems -> Hist]
    /\ cpu \in [CPUs -> [pc : {"idle", "lookup", "init", "relookup", "slot",
                               "latency", "cnt"},
                         key : Keys, elem : Elems \cup {NoElem}, srtt : Nat,
                         gone : BOOLEAN]]   \* history: elem was deleted
    /\ \A c \in CPUs : cpu[c].pc \in {"slot", "latency", "cnt"} =>
                        cpu[c].elem # NoElem        \* histp is not NULL
    /\ main \in {"start", "sleep", "print", "delete", "check", "done", "crashed"}
    /\ cursor \in Keys \cup {NoElem}
    /\ exiting \in BOOLEAN
    /\ {rounds, samples} \subseteq Nat
    /\ added \in [Keys -> [Slots -> Nat]]

Init ==
    /\ elemOf = [k \in Keys |-> NoElem]
    /\ hist = [e \in Elems |-> zero]
    /\ cpu = [c \in CPUs |-> IdleCpu]
    /\ main = "start"
    /\ cursor = NoElem
    /\ exiting = FALSE
    /\ rounds = 0 /\ samples = 0
    /\ added = nothing

-----------------------------------------------------------------------------
(* Options: what parse_arg leaves in the .rodata filters, as bytes in      *)
(* memory.  strtoul fills a 16-bit field, htons stores it in network       *)
(* order; inet_aton already yields network order, and htonl reverses it    *)
(* on the little-endian machines the tool is built for.                    *)
htons(port) == <<(port % 65536) \div 256, port % 256>>
htonl(bytes) == [i \in 1 .. Len(bytes) |-> bytes[Len(bytes) + 1 - i]]

Port(p) == htons(p)
Addr(a) == IF a = NoAddr THEN <<0, 0>> ELSE htonl(a)

(* A zero in .rodata switches a filter off.                                *)
Passes(targ, bytes) == (\A i \in 1 .. Len(targ) : targ[i] = 0) \/ targ = bytes

\* Fault: the port filter compares with the number in host byte order.
SelectedHostOrder(f) == /\ Passes(htonl(Port(opt_p)), htons(f.sport))
                        /\ Passes(htonl(Port(opt_P)), htons(f.dport))
                        /\ Passes(Addr(opt_a), f.saddr)
                        /\ Passes(Addr(opt_A), f.daddr)

(* The four filters of tcp_rcv; the socket holds network byte order.       *)
Selected(f) == /\ Passes(Port(opt_p), htons(f.sport))
               /\ Passes(Port(opt_P), htons(f.dport))
               /\ Passes(Addr(opt_a), f.saddr)
               /\ Passes(Addr(opt_A), f.daddr)

KeyOf(f) == IF laddr_hist THEN f.saddr
            ELSE IF raddr_hist THEN f.daddr ELSE AnyKey

-----------------------------------------------------------------------------
(* The map (external: the kernel's preallocated hash map).                 *)

Linked == {k \in Keys : elemOf[k] # NoElem}
FreeElems == Elems \ {elemOf[k] : k \in Linked}

(* bpf_map_get_next_key: the successor of a linked key, the first key when *)
(* the given one is not linked, none at the end.                           *)
Pos(k) == CHOOSE i \in DOMAIN keyOrder : keyOrder[i] = k
Later(k) == {x \in Linked : k \in Linked => Pos(x) > Pos(k)}
NextKeys(k) == {x \in Later(k) : \A y \in Later(k) : Pos(x) <= Pos(y)}

-----------------------------------------------------------------------------
(* fentry/tcp_rcv_established, one step per access to shared memory.       *)

Attached == main \notin {"start", "done", "crashed"}

(* Nothing has been deleted yet.                                           *)
FirstInterval == rounds = 0 /\ main \in {"start", "sleep", "print"}

(* The filters pass, the key is chosen and srtt_us is read.                *)
tcp_rcv(c, f, us) ==
    /\ Attached /\ cpu[c].pc = "idle" /\ samples < MaxSamples
    /\ Selected(f)
    /\ cpu' = [cpu EXCEPT ![c] = [pc |-> "lookup", key |-> KeyOf(f),
                                  elem |-> NoElem, srtt |-> Srtt(us),
                                  gone |-> FALSE]]
    /\ samples' = samples + 1
    /\ UNCHANGED <<mapVars, userVars, added>>

(* bpf_map_lookup_or_try_init: the first lookup.                           *)
Lookup(c) ==
    /\ cpu[c].pc = "lookup"
    /\ cpu' = [cpu EXCEPT ![c].elem = elemOf[cpu[c].key],
                          ![c].pc = IF elemOf[cpu[c].key] = NoElem
                                       THEN "init" ELSE "slot"]
    /\ UNCHANGED <<mapVars, userVars, samples, added>>

\* Fault: the update is made without BPF_NOEXIST and clears a racing counter.
TryInitOverwrites(c) ==
    /\ cpu[c].pc = "init"
    /\ IF elemOf[cpu[c].key] # NoElem
          THEN /\ hist' = [hist EXCEPT ![elemOf[cpu[c].key]] = zero]
               /\ UNCHANGED elemOf
          ELSE \E e \in FreeElems : /\ hist' = [hist EXCEPT ![e] = zero]
                                    /\ elemOf' = [elemOf EXCEPT ![cpu[c].key] = e]
    /\ cpu' = [cpu EXCEPT ![c].pc = "relookup"]
    /\ UNCHANGED <<userVars, samples, added>>

\* Fault: a full map evicts a histogram (BPF_MAP_TYPE_LRU_HASH).
TryInitEvicts(c) ==
    /\ cpu[c].pc = "init"
    /\ IF elemOf[cpu[c].key] # NoElem
          THEN UNCHANGED mapVars
          ELSE \E e \in IF FreeElems = {} THEN Elems ELSE FreeElems :
                  /\ hist' = [hist EXCEPT ![e] = zero]
                  /\ elemOf' = [k \in Keys |-> IF k = cpu[c].key THEN e
                                  ELSE IF elemOf[k] = e THEN NoElem ELSE elemOf[k]]
    /\ cpu' = [cpu EXCEPT ![c].pc = "relookup"]
    /\ UNCHANGED <<userVars, samples, added>>

(* The update with BPF_NOEXIST: a free element is cleared and linked, or   *)
(* the key is there already (-EEXIST).                                     *)
TryInit(c) ==
    /\ cpu[c].pc = "init"
    /\ IF elemOf[cpu[c].key] # NoElem
          THEN UNCHANGED mapVars
          ELSE \E e \in FreeElems : /\ hist' = [hist EXCEPT ![e] = zero]
                                    /\ elemOf' = [elemOf EXCEPT ![cpu[c].key] = e]
    /\ cpu' = [cpu EXCEPT ![c].pc = "relookup"]
    /\ UNCHANGED <<userVars, samples, added>>

(* The update fails: no element is free, the sample is dropped.            *)
TryInitFails(c) ==
    /\ cpu[c].pc = "init"
    /\ elemOf[cpu[c].key] = NoElem /\ FreeElems = {}
    /\ cpu' = [cpu EXCEPT ![c] = IdleCpu]
    /\ UNCHANGED <<mapVars, userVars, samples, added>>

\* Fault: the result of the second lookup is not checked.
RelookupUnchecked(c) ==
    /\ cpu[c].pc = "relookup"
    /\ cpu' = [cpu EXCEPT ![c].elem = elemOf[cpu[c].key],
                          ![c].pc = "slot"]
    /\ UNCHANGED <<mapVars, userVars, samples, added>>

(* The second lookup: print_map may have deleted the key meanwhile.        *)
Relookup(c) ==
    /\ cpu[c].pc = "relookup"
    /\ cpu' = IF elemOf[cpu[c].key] = NoElem
                 THEN [cpu EXCEPT ![c] = IdleCpu]
                 ELSE [cpu EXCEPT ![c].elem = elemOf[cpu[c].key], ![c].pc = "slot"]
    /\ UNCHANGED <<mapVars, userVars, samples, added>>

(* __sync_fetch_and_add(&histp->slots[slot], 1).                           *)
AddSlot(c) ==
    /\ cpu[c].pc = "slot"
    /\ hist' = [hist EXCEPT ![cpu[c].elem].slots[Slot(cpu[c].srtt)] = @ + 1,
                            ![cpu[c].elem].from = IF cpu[c].gone THEN @
                                                  ELSE @ \cup {cpu[c].key}]
    /\ added' = IF FirstInterval
                  THEN [added EXCEPT ![cpu[c].key][Slot(cpu[c].srtt)] = @ + 1]
                  ELSE added
    /\ cpu' = IF extended THEN [cpu EXCEPT ![c].pc = "latency"]
                          ELSE [cpu EXCEPT ![c] = IdleCpu]
    /\ UNCHANGED <<elemOf, userVars, samples>>

(* targ_show_ext: the sum of the round-trip times, then their number.      *)
AddLatency(c) ==
    /\ cpu[c].pc = "latency"
    /\ hist' = [hist EXCEPT ![cpu[c].elem].latency = @ + cpu[c].srtt]
    /\ cpu' = [cpu EXCEPT ![c].pc = "cnt"]
    /\ UNCHANGED <<elemOf, userVars, samples, added>>

\* Fault: the number of samples is not kept.
AddCntForgotten(c) ==
    /\ cpu[c].pc = "cnt"
    /\ cpu' = [cpu EXCEPT ![c] = IdleCpu]
    /\ UNCHANGED <<mapVars, userVars, samples, added>>

AddCnt(c) ==
    /\ cpu[c].pc = "cnt"
    /\ hist' = [hist EXCEPT ![cpu[c].elem].cnt = @ + 1]
    /\ cpu' = [cpu EXCEPT ![c] = IdleCpu]
    /\ UNCHANGED <<elemOf, userVars, samples, added>>

-----------------------------------------------------------------------------
(* main() and print_map.                                                   *)

probeVars == <<cpu, samples, added>>

(* Load, attach and install the handler; a failure goes to cleanup.        *)
Start == /\ main = "start"
         /\ main' \in {"sleep", "done"}
         /\ UNCHANGED <<mapVars, probeVars, cursor, exiting, rounds>>

(* SIGINT: fatal until sig_handler is installed, then it sets the flag     *)
(* (and cuts sleep() short).                                               *)
sig_handler ==
    /\ main \notin {"done", "crashed"} /\ ~exiting
    /\ IF main = "start" THEN main' = "done" /\ UNCHANGED exiting
                         ELSE exiting' = TRUE /\ UNCHANGED main
    /\ UNCHANGED <<mapVars, probeVars, cursor, rounds>>

(* sleep(env.interval) returns.                                            *)
Wake == /\ main = "sleep" /\ (rounds < MaxRounds \/ exiting)
        /\ main' = "print" /\ cursor' = NoElem
        /\ UNCHANGED <<mapVars, probeVars, exiting, rounds>>

(* The first loop of print_map: one histogram is copied and printed; its   *)
(* average divides by cnt.                                                 *)
PrintOne ==
    /\ main = "print"
    /\ \E k \in NextKeys(cursor) :
          IF extended /\ hist[elemOf[k]].cnt = 0
             THEN main' = "crashed" /\ UNCHANGED <<cursor, hist>>
             ELSE /\ hist' = [hist EXCEPT ![elemOf[k]].shown = TRUE]
                  /\ cursor' = k
                  /\ UNCHANGED main
    /\ UNCHANGED <<elemOf, probeVars, exiting, rounds>>

PrintEnd == /\ main = "print" /\ NextKeys(cursor) = {}
            /\ main' = "delete" /\ cursor' = NoElem /\ added' = nothing
            /\ UNCHANGED <<mapVars, cpu, samples, exiting, rounds>>

\* Fault: the keys are visited but not deleted.
DeleteNothing ==
    /\ main = "delete"
    /\ \E k \in NextKeys(cursor) : cursor' = k
    /\ UNCHANGED <<mapVars, probeVars, main, exiting, rounds>>

(* The second loop: every key found is deleted; its element is free at     *)
(* once, also while probes hold it.                                        *)
DeleteOne ==
    /\ main = "delete"
    /\ \E k \in NextKeys(cursor) :
          /\ elemOf' = [elemOf EXCEPT ![k] = NoElem]
          /\ cpu' = [c \in CPUs |-> [cpu[c] EXCEPT !.gone = @ \/ cpu[c].elem = elemOf[k]]]
          /\ cursor' = k
    /\ UNCHANGED <<hist, samples, added, main, exiting, rounds>>

(* A lookup or a delete fails: print_map returns -1 and the loop is left.  *)
PrintMapFails == /\ main \in {"print", "delete"} /\ NextKeys(cursor) # {}
                 /\ main' = "done"
                 /\ UNCHANGED <<mapVars, probeVars, cursor, exiting, rounds>>

DeleteEnd == /\ main = "delete" /\ NextKeys(cursor) = {}
             /\ main' = "check" /\ rounds' = rounds + 1
             /\ UNCHANGED <<mapVars, probeVars, cursor, exiting>>

\* Fault: the flag is never looked at.
LeaveOnDurationOnly ==
    /\ main = "check" /\ ~exiting
    /\ main' = "done"
    /\ UNCHANGED <<mapVars, probeVars, cursor, exiting, rounds>>

(* The end of the loop body: the flag is set, or the duration is over.     *)
Leave == /\ main = "check"
         /\ main' = "done"
         /\ UNCHANGED <<mapVars, probeVars, cursor, exiting, rounds>>

Again == /\ main = "check" /\ ~exiting
         /\ main' = "sleep"
         /\ UNCHANGED <<mapVars, probeVars, cursor, exiting, rounds>>

-----------------------------------------------------------------------------
User == \/ Start \/ Wake \/ PrintOne \/ PrintEnd \/ DeleteOne \/ DeleteEnd
        \/ PrintMapFails \/ Leave \/ Again

Probe(c) == \/ \E f \in Flows, us \in SrttUs : tcp_rcv(c, f, us)
            \/ Lookup(c) \/ TryInit(c) \/ TryInitFails(c) \/ Relookup(c)
            \/ AddSlot(c) \/ AddLatency(c) \/ AddCnt(c)

Next == User \/ sig_handler \/ \E c \in CPUs : Probe(c)

Spec == Init /\ [][Next]_vars

(* The tool's one thread is scheduled.                                     *)
FairSpec == Spec /\ WF_vars(User)

-----------------------------------------------------------------------------
(* Properties.                                                             *)

(* No sample is ever shown twice: no histogram that print_map is still to  *)
(* show, in this round or the next, was shown since it was cleared,        *)
(* whatever it deletes and whatever elements are recycled under the        *)
(* probes' feet.                                                           *)
SamplesOnce ==
    /\ main \in {"sleep", "check"} => \A k \in Linked : ~hist[elemOf[k]].shown
    /\ main = "print" => \A k \in Later(cursor) : ~hist[elemOf[k]].shown

(* Until print_map first deletes something, racing probes lose nothing and *)
(* misplace nothing: every slot of every address holds exactly the         *)
(* increments made for it.                                                 *)
FirstIntervalExact ==
    FirstInterval =>
        \A k \in Keys : added[k] = IF k \in Linked THEN hist[elemOf[k]].slots
                                                  ELSE zero.slots

(* -p and -P: only segments of the ports asked for are sampled.            *)
OnlyPort == [][\A c \in CPUs, f \in Flows, us \in SrttUs :
                  tcp_rcv(c, f, us) => /\ opt_p # 0 => f.sport = opt_p
                                       /\ opt_P # 0 => f.dport = opt_P]_vars

(* SIGINT ends the tool: neither loop of print_map can run forever once    *)
(* traffic pauses.                                                         *)
StopsWhenAsked == exiting ~> main \in {"done", "crashed"}

(* -b and -B: a histogram holds a sample of another address only when      *)
(* print_map deleted the element under the probe that added it; what the   *)
(* probes do to each other, also in a full map, never mixes addresses.     *)
OwnSamples == \A k \in Linked : hist[elemOf[k]].from \subseteq {k}

(* A histogram that print_map would divide by zero for was created by a    *)
(* probe that is still on its way to the first cnt increment: no deletion, *)
(* recycling or lost race leaves one behind.                               *)
CntZeroOnlyInFlight ==
    extended => \A k \in Linked : hist[elemOf[k]].cnt = 0 =>
        \E c \in CPUs :
           \/ cpu[c].pc = "relookup" /\ cpu[c].key = k
           \/ cpu[c].elem = elemOf[k] /\ cpu[c].pc \in {"slot", "latency", "cnt"}

(* Whenever print_map shows a histogram, every time the probes can have    *)
(* counted is in the one row whose printed range contains it.              *)
RowContainsTime == main = "print" => LabelsMatch

(* ... and every bar fits its column, whatever the counts, even where the  *)
(* unsigned product wraps.                                                 *)
BarsFit == main = "print" => StarsFit
=============================================================================
