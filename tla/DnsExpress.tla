----------------------------- MODULE DnsExpress -----------------------------
(***************************************************************************)
(* The XDP name server: plugin/ciliumebpf/dnsExpress/dnsExpress.c, which   *)
(* runs on every CPU at every received packet and answers A queries from   *)
(* the map xdns_a_records by turning the packet into its own reply;        *)
(* main.go beside it, which loads and attaches the program; and            *)
(* plugin/libbpf-test/okk/dnscache.c, which edits the map.                 *)
(*                                                                         *)
(* A packet's DNS body is a sequence of symbols: the question (name        *)
(* symbols, 0, type, class), then what follows it.  An answer is two       *)
(* symbols, its ttl and its address, which is how far its 16 bytes are     *)
(* torn by an access from another CPU.                                     *)
(***************************************************************************)
EXTENDS Integers, Sequences, FiniteSets

CONSTANTS
    CPUs,
    Elems,              \* the map's preallocated elements: max_elem and a spare,
                        \* which replacing the value of a key needs
    NoElem,
    Names,              \* names, sequences of nonzero symbols
    Records,            \* values of the map: records ip, ttl
    Packets,            \* what the network card may receive
    MAX_DNS_NAME_LENGTH,
    WordMod,            \* 2^w for the width w of a checksum word (2^16)
    MaxQueries,         \* bound: queries processed
    MaxChanges          \* bound: changes of the map

A_RECORD_TYPE == 1
DNS_CLASS_IN == 1
HeaderLen == 3          \* eth, ip and udp headers up to the DNS body
AnswerLen == 2
OptLen == 1             \* an authority or additional (OPT) record of a query

(* The fields of a packet the program reads or writes; pairs are source    *)
(* and destination.                                                        *)
Word == 0 .. WordMod - 1
Packet == [proto : STRING, mac : STRING \X STRING, ip : Word \X Word,
           tot_len : Nat, check : Nat, port : Nat \X Nat, udp_len : Nat,
           qr : Nat, opcode : Nat, ra : Nat, q_count : Nat, ans_count : Nat,
           auth_count : Nat, add_count : Nat, body : Seq(Nat)]
Record == [ip : Nat, ttl : Nat]

ASSUME ConstantsAssumption ==
    /\ NoElem \notin Elems /\ IsFiniteSet(Elems)
    /\ Names \subseteq Seq(Nat \ {0})
    /\ Packets \subseteq Packet
    /\ Records \subseteq Record /\ Records # {}
    /\ MAX_DNS_NAME_LENGTH \in Nat /\ WordMod \in Nat
    /\ HeaderLen + MAX_DNS_NAME_LENGTH + 2 + AnswerLen < WordMod   \* tot_len fits
    /\ MaxQueries \in Nat /\ MaxChanges \in Nat

VARIABLES
    elemOf,             \* xdns_a_records: elemOf[n] \in Elems, or NoElem
    value,              \* contents of the elements, linked or free
    dns_buffer,         \* the one static buffer: <<ttl, ip>>
    cpu,                \* where each CPU's xdp_dns is
    out,                \* the packet that left the program last
    loader,             \* where main() of main.go is
    queries, changes    \* counters for the bounds

mapVars == <<elemOf, value, changes>>
vars == <<mapVars, dns_buffer, cpu, out, loader, queries>>

AnyRecord == CHOOSE r \in Records : TRUE
NoOut == [verdict |-> "none"]
Idle == [pc |-> "idle"]

Linked == {n \in Names : elemOf[n] # NoElem}
max_elem == Cardinality(Elems) - 1
FreeElems == Elems \ {elemOf[n] : n \in Linked}

Init ==
    /\ elemOf = [n \in Names |-> NoElem]
    /\ value = [e \in Elems |-> AnyRecord]
    /\ dns_buffer = <<0, 0>>
    /\ cpu = [c \in CPUs |-> Idle]
    /\ out = NoOut
    /\ loader = "start"
    /\ queries = 0 /\ changes = 0

-----------------------------------------------------------------------------
(* parse_query: the name is copied up to its zero; type and class are read *)
(* only if they are inside the packet, and stay 0 otherwise, while the     *)
(* length returned counts them in any case.                                *)
NamePos(body) == CHOOSE i \in 0 .. Len(body) :
    /\ i < Len(body) => body[i + 1] = 0
    /\ \A j \in 1 .. i : body[j] # 0

NoQuery == [length |-> -1]

\* Fault: type and class are taken for granted.
parse_query_unchecked(body) ==
    LET z == NamePos(body) IN
    IF z = Len(body) \/ z >= MAX_DNS_NAME_LENGTH THEN NoQuery
    ELSE [length |-> z + 3, name |-> SubSeq(body, 1, z),
          record_type |-> A_RECORD_TYPE, class |-> DNS_CLASS_IN]

parse_query(body) ==
    LET z == NamePos(body)
        inside == z + 3 <= Len(body)
    IN  IF z = Len(body) \/ z >= MAX_DNS_NAME_LENGTH THEN NoQuery
        ELSE [length |-> z + 3, name |-> SubSeq(body, 1, z),
              record_type |-> IF inside THEN body[z + 2] ELSE 0,
              class |-> IF inside THEN body[z + 3] ELSE 0]

(* The checks of xdp_dns before parsing: protocol, ports, lengths, and a   *)
(* standard query.                                                         *)
IsQuery(p) == p.proto = "udp" /\ p.port[2] = 53 /\ p.qr = 0 /\ p.opcode = 0

Leaves(c, verdict, pkt) ==
    /\ out' = [verdict |-> verdict, in |-> cpu[c].in, pkt |-> pkt,
               want |-> cpu[c].want, disturbed |-> cpu[c].disturbed]
    /\ cpu' = [cpu EXCEPT ![c] = Idle]

(* A packet arrives that is not a query, or cannot be parsed: XDP_PASS.    *)
PassOther(c, p) ==
    /\ loader = "attached" /\ cpu[c].pc = "idle"
    /\ ~IsQuery(p) \/ parse_query(p.body).length < 1
    /\ out' = [verdict |-> "XDP_PASS", in |-> p, pkt |-> p]
    /\ UNCHANGED <<mapVars, dns_buffer, cpu, loader, queries>>

(* A query arrives and is parsed.                                          *)
xdp_dns(c, p) ==
    /\ loader = "attached" /\ cpu[c].pc = "idle"
    /\ IsQuery(p) /\ parse_query(p.body).length >= 1
    /\ queries < MaxQueries /\ queries' = queries + 1
    /\ cpu' = [cpu EXCEPT ![c] = [pc |-> "match", in |-> p, pkt |-> p,
                                  q |-> parse_query(p.body),
                                  elem |-> NoElem, a |-> AnyRecord,
                                  want |-> AnyRecord, disturbed |-> FALSE]]
    /\ UNCHANGED <<mapVars, dns_buffer, out, loader>>

(* The key holds type and class too, and the tool stores A and IN only.    *)
Found(q) == q.record_type = A_RECORD_TYPE /\ q.class = DNS_CLASS_IN /\ q.name \in Linked

(* History: another actor wrote what these CPUs have yet to read.          *)
Disturb(cpus, state) ==
    [c \in CPUs |-> IF c \in cpus THEN [state[c] EXCEPT !.disturbed = TRUE] ELSE state[c]]

At(labels) == {c \in CPUs : cpu[c].pc \in labels}

(* match_a_records: the lookup, then the two fields one after the other.   *)
match_a_records(c) ==
    /\ cpu[c].pc = "match"
    /\ IF Found(cpu[c].q)
          THEN /\ cpu' = [cpu EXCEPT ![c].pc = "ip", ![c].elem = elemOf[cpu[c].q.name],
                                     ![c].want = value[elemOf[cpu[c].q.name]]]
               /\ UNCHANGED out
          ELSE Leaves(c, "XDP_PASS", cpu[c].pkt)
    /\ UNCHANGED <<mapVars, dns_buffer, loader, queries>>

ReadIp(c) ==
    /\ cpu[c].pc = "ip"
    /\ cpu' = [cpu EXCEPT ![c].pc = "ttl", ![c].a.ip = value[cpu[c].elem].ip]
    /\ UNCHANGED <<mapVars, dns_buffer, out, loader, queries>>

ReadTtl(c) ==
    /\ cpu[c].pc = "ttl"
    /\ cpu' = [cpu EXCEPT ![c].pc = "response", ![c].a.ttl = value[cpu[c].elem].ttl]
    /\ UNCHANGED <<mapVars, dns_buffer, out, loader, queries>>

(* modify_dns_header_response, then create_query_response up to the ttl.   *)
modify_dns_header_response(p) == [p EXCEPT !.qr = 1, !.ra = 1, !.ans_count = 1]

create_query_response(c) ==
    /\ cpu[c].pc = "response"
    /\ cpu' = Disturb(At({"address", "adjust", "copyTtl"}),
                      [cpu EXCEPT ![c].pc = "address",
                                  ![c].pkt = modify_dns_header_response(@)])
    /\ dns_buffer' = [dns_buffer EXCEPT ![1] = cpu[c].a.ttl]
    /\ UNCHANGED <<mapVars, out, loader, queries>>

(* "Copy IP address".                                                      *)
CopyAddress(c) ==
    /\ cpu[c].pc = "address"
    /\ cpu' = Disturb(At({"adjust", "copyTtl", "copyIp"}), [cpu EXCEPT ![c].pc = "adjust"])
    /\ dns_buffer' = [dns_buffer EXCEPT ![2] = cpu[c].a.ip]
    /\ UNCHANGED <<mapVars, out, loader, queries>>

(* bpf_xdp_adjust_tail: the packet now ends where the answer will; bytes   *)
(* gained are zero (external).                                             *)
AdjustTail(c) ==
    /\ cpu[c].pc = "adjust"
    /\ LET want == cpu[c].q.length + AnswerLen
           zeros == [i \in 1 .. want |-> 0]
       IN  cpu' = [cpu EXCEPT ![c].pc = "copyTtl",
                              ![c].pkt.body = SubSeq(@ \o zeros, 1, want)]
    /\ UNCHANGED <<mapVars, dns_buffer, out, loader, queries>>

(* ... or there is no room: the packet goes up the stack as it is now.     *)
AdjustTailFails(c) ==
    /\ cpu[c].pc = "adjust"
    /\ cpu[c].q.length + AnswerLen > Len(cpu[c].pkt.body)
    /\ Leaves(c, "XDP_PASS", cpu[c].pkt)
    /\ UNCHANGED <<mapVars, dns_buffer, loader, queries>>

(* copy_to_pkt_buf: the buffer is read back in two accesses.               *)
CopyTtl(c) ==
    /\ cpu[c].pc = "copyTtl"
    /\ cpu' = [cpu EXCEPT ![c].pc = "copyIp",
                          ![c].pkt.body[cpu[c].q.length + 1] = dns_buffer[1]]
    /\ UNCHANGED <<mapVars, dns_buffer, out, loader, queries>>

CopyIp(c) ==
    /\ cpu[c].pc = "copyIp"
    /\ cpu' = [cpu EXCEPT ![c].pc = "finish",
                          ![c].pkt.body[cpu[c].q.length + 2] = dns_buffer[2]]
    /\ UNCHANGED <<mapVars, dns_buffer, out, loader, queries>>

Swap(pair) == <<pair[2], pair[1]>>

(* update_ip_checksum: the one's complement sum of the header's other      *)
(* words, folded twice and inverted.  Of the words those that change are   *)
(* kept.                                                                   *)
SumOf(words) == words[1] + words[2] + words[3]
Words(p) == <<p.tot_len, p.ip[1], p.ip[2]>>

\* Fault: the carry of the first folding is lost.
FoldedOnce(acc) == ((acc % WordMod) + (acc \div WordMod)) % WordMod

Folded(acc) == LET once == (acc % WordMod) + (acc \div WordMod)
               IN  (once + once \div WordMod) % WordMod

update_ip_checksum(p) == [p EXCEPT !.check = WordMod - 1 - Folded(SumOf(Words(p)))]

(* Lengths, addresses and ports of the reply.                              *)
Reply(p) == [p EXCEPT !.tot_len = HeaderLen + Len(p.body),
                      !.udp_len = HeaderLen - 2 + Len(p.body),
                      !.mac = Swap(@), !.ip = Swap(@), !.port = Swap(@)]

Transmit(c) ==
    /\ cpu[c].pc = "finish"
    /\ Leaves(c, "XDP_TX", update_ip_checksum(Reply(cpu[c].pkt)))
    /\ UNCHANGED <<mapVars, dns_buffer, loader, queries>>

-----------------------------------------------------------------------------
(* main.go: load, attach, return; the deferred calls detach.               *)
Attach == /\ loader = "start"
          /\ loader' \in {"attached", "failed"}
          /\ UNCHANGED <<mapVars, dns_buffer, cpu, out, queries>>

Return == /\ loader = "attached"
          /\ loader' = "exited"
          /\ UNCHANGED <<mapVars, dns_buffer, cpu, out, queries>>

-----------------------------------------------------------------------------
CanEdit == loader \in {"attached", "exited"} /\ changes < MaxChanges

\* Fault: the record is overwritten where it is.
AddInPlace(n, r) ==
    /\ CanEdit /\ (n \in Linked \/ Cardinality(Linked) < max_elem)
    /\ \E e \in IF n \in Linked THEN {elemOf[n]} ELSE FreeElems :
          /\ value' = [value EXCEPT ![e] = r]
          /\ elemOf' = [elemOf EXCEPT ![n] = e]
    /\ changes' = changes + 1
    /\ UNCHANGED <<dns_buffer, cpu, out, loader, queries>>

(* dnscache add: the element is written before it is linked, one that was  *)
(* linked under the name is freed, and the result of the update is not     *)
(* looked at.                                                              *)
Add(n, r) ==
    /\ CanEdit /\ (n \in Linked \/ Cardinality(Linked) < max_elem)
    /\ \E e \in FreeElems :
          /\ value' = [value EXCEPT ![e] = r]
          /\ elemOf' = [elemOf EXCEPT ![n] = e]
          /\ cpu' = Disturb({c \in At({"ip", "ttl"}) : cpu[c].elem = e}, cpu)
    /\ changes' = changes + 1
    /\ UNCHANGED <<dns_buffer, out, loader, queries>>

AddToFull(n) ==
    /\ CanEdit /\ n \notin Linked /\ Cardinality(Linked) >= max_elem
    /\ changes' = changes + 1
    /\ UNCHANGED <<elemOf, value, dns_buffer, cpu, out, loader, queries>>

Remove(n) ==
    /\ CanEdit /\ n \in Linked
    /\ elemOf' = [elemOf EXCEPT ![n] = NoElem]
    /\ changes' = changes + 1
    /\ UNCHANGED <<value, dns_buffer, cpu, out, loader, queries>>

-----------------------------------------------------------------------------
Xdp(c) == \/ \E p \in Packets : PassOther(c, p) \/ xdp_dns(c, p)
          \/ match_a_records(c) \/ ReadIp(c) \/ ReadTtl(c)
          \/ create_query_response(c) \/ CopyAddress(c)
          \/ AdjustTail(c) \/ AdjustTailFails(c)
          \/ CopyTtl(c) \/ CopyIp(c) \/ Transmit(c)

Cli == \E n \in Names : (\E r \in Records : Add(n, r)) \/ AddToFull(n) \/ Remove(n)

Next == Attach \/ Return \/ Cli \/ \E c \in CPUs : Xdp(c)

Spec == Init /\ [][Next]_vars

-----------------------------------------------------------------------------
(* Properties.                                                             *)

(* What follows the first question in a body, by the counts of the header. *)
Counted(p) == p.ans_count * AnswerLen + (p.auth_count + p.add_count) * OptLen

(* One question and nothing else.                                          *)
OneQuestion(p) == p.q_count = 1 /\ p.auth_count = 0 /\ p.add_count = 0

(* A packet sent back is a reply to a whole A/IN question, addressed to    *)
(* who asked, with the question intact, lengths that are its own and, if   *)
(* the query held one question and no further record, exactly the records  *)
(* its header counts.  The counts of further questions, of authority and   *)
(* of additional records are sent back as received, without the records.   *)
ReplyWellFormed ==
    out.verdict = "XDP_TX" =>
        LET q == parse_query(out.in.body)
            ql == q.length
        IN  /\ ql <= Len(out.in.body)
            /\ SubSeq(out.pkt.body, 1, ql) = SubSeq(out.in.body, 1, ql)
            /\ out.in.body[ql] = DNS_CLASS_IN /\ out.in.body[ql - 1] = A_RECORD_TYPE
            /\ OneQuestion(out.in) =>
                  /\ OneQuestion(out.pkt)
                  /\ Len(out.pkt.body) = ql + Counted(out.pkt)
            /\ out.pkt.tot_len = out.pkt.udp_len + 2
            /\ out.pkt.udp_len = Len(out.pkt.body) + 1
            /\ \A f \in {"mac", "ip", "port"} : out.pkt[f] = Swap(out.in[f])

(* The receiver's check of the IP header succeeds: the sum of its words,   *)
(* checksum included, is all ones (a positive multiple of 2^w - 1).        *)
ReceiverAccepts ==
    out.verdict = "XDP_TX" =>
        LET total == SumOf(Words(out.pkt)) + out.pkt.check
        IN  total > 0 /\ total % (WordMod - 1) = 0

(* The answer sent is the record the name had when it was looked up,       *)
(* although the tool replaces and removes records all the while; the two   *)
(* ways out are another CPU writing the shared dns_buffer before it is     *)
(* read back, and the element recycled before both its fields are read.    *)
AnswerOwn ==
    out.verdict = "XDP_TX" /\ ~out.disturbed =>
        LET n == Len(out.pkt.body) IN
        out.pkt.body[n - 1] = out.want.ttl /\ out.pkt.body[n] = out.want.ip

=============================================================================
