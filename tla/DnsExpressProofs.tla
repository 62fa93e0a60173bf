-------------------------- MODULE DnsExpressProofs ---------------------------
(***************************************************************************)
(* Proofs about DnsExpress, for any CPUs, elements, names, records and     *)
(* packets, and any width of a checksum word that holds the lengths.       *)
(***************************************************************************)
EXTENDS DnsExpress, WellFoundedInduction, TLAPS

(* Parsing.                                                                *)

LEMMA Least ==
  ASSUME NEW T, T \subseteq Nat, T # {}
  PROVE  \E m \in T : \A x \in T : m <= x
<1>1. PICK m \in T : \A x \in T : <<x, m>> \notin OpToRel(<, Nat)
  BY NatLessThanWellFounded, WFMin
<1>2. \A x \in T : ~(x < m)
  BY <1>1 DEF OpToRel
<1> QED BY <1>2

(* The name ends at its first zero, or nowhere in the packet.              *)
LEMMA NamePosType ==
  ASSUME NEW body \in Seq(Nat)
  PROVE  NamePos(body) \in 0 .. Len(body)
<1> DEFINE T == {i \in 0 .. Len(body) : i < Len(body) => body[i + 1] = 0}
<1>1. Len(body) \in T /\ T \subseteq Nat
  OBVIOUS
<1>2. PICK m \in T : \A x \in T : m <= x
  BY <1>1, Least
<1>3. ASSUME NEW j \in 1 .. m PROVE body[j] # 0
  <2>1. j - 1 \in 0 .. Len(body) /\ j - 1 < m /\ (j - 1) + 1 = j
    BY <1>2, <1>3
  <2>2. ASSUME j - 1 \in T PROVE FALSE
    <3>1. m <= j - 1
      BY <1>2, <2>2
    <3> QED BY <1>1, <1>2, <2>1, <3>1
  <2> QED BY <2>1, <2>2
<1>4. \E i \in 0 .. Len(body) : /\ i < Len(body) => body[i + 1] = 0
                                /\ \A j \in 1 .. i : body[j] # 0
  BY <1>2, <1>3
<1> QED BY <1>4 DEF NamePos

QueryType == [length : Nat, name : Seq(Nat), record_type : Nat, class : Nat]

(* A parsed query has a length that a reply has room for; an A/IN query is *)
(* inside its packet.                                                      *)
LEMMA ParseQuery ==
  ASSUME NEW body \in Seq(Nat), parse_query(body).length >= 1
  PROVE  LET q == parse_query(body)
         IN  /\ q \in QueryType /\ q.length >= 3 /\ q.length <= MAX_DNS_NAME_LENGTH + 2
             /\ q.record_type = A_RECORD_TYPE =>
                   /\ q.length <= Len(body)
                   /\ body[q.length] = q.class /\ body[q.length - 1] = A_RECORD_TYPE
<1> DEFINE z == NamePos(body)
           inside == z + 3 <= Len(body)
           q == [length |-> z + 3, name |-> SubSeq(body, 1, z),
                 record_type |-> IF inside THEN body[z + 2] ELSE 0,
                 class |-> IF inside THEN body[z + 3] ELSE 0]
<1>1. z \in 0 .. Len(body) /\ Len(body) \in Nat
  BY NamePosType
<1>2. parse_query(body) = NoQuery \/ (parse_query(body) = q /\ z < MAX_DNS_NAME_LENGTH)
  BY <1>1, ConstantsAssumption DEF parse_query
<1>3. NoQuery.length = -1
  BY DEF NoQuery
<1>4. parse_query(body) = q /\ z < MAX_DNS_NAME_LENGTH
  BY <1>2, <1>3
<1> HIDE DEF z
<1>5. /\ inside => body[z + 2] \in Nat /\ body[z + 3] \in Nat
      /\ SubSeq(body, 1, z) \in Seq(Nat)
  BY <1>1
<1>6. q \in QueryType /\ q.length = z + 3
  BY <1>1, <1>5 DEF QueryType
<1>7. q.record_type = A_RECORD_TYPE =>
         inside /\ body[z + 2] = A_RECORD_TYPE /\ q.class = body[z + 3]
  BY DEF A_RECORD_TYPE
<1>8. (z + 3) - 1 = z + 2 /\ z + 3 >= 3 /\ z + 3 <= MAX_DNS_NAME_LENGTH + 2
  BY <1>1, <1>4, ConstantsAssumption
<1> QED BY <1>4, <1>6, <1>7, <1>8

-----------------------------------------------------------------------------
(* The checksum.                                                           *)

LEMMA DivMod ==
  ASSUME NEW b \in Nat, NEW r \in Nat, r < b
  PROVE  /\ r \div b = 0 /\ r % b = r
         /\ (b + r) \div b = 1 /\ (b + r) % b = r
         /\ (2 * b + r) \div b = 2 /\ (2 * b + r) % b = r
  OBVIOUS

(* Two foldings make one word of the sum of three, without changing it     *)
(* modulo 2^w - 1.                                                         *)
LEMMA FoldedSum ==
  ASSUME NEW W \in Nat, W = WordMod, W > 3, NEW acc \in Nat, acc < 3 * W
  PROVE  /\ Folded(acc) \in 0 .. W - 1
         /\ \E k \in 1 .. 4 : acc + (W - 1 - Folded(acc)) = k * (W - 1)
<1>1. PICK q \in 0 .. 2, r \in Nat : r < W /\ acc = q * W + r
  <2>1. CASE acc < W
    <3>1. acc = 0 * W + acc
      OBVIOUS
    <3> QED BY <2>1, <3>1
  <2>2. CASE acc >= W /\ acc < 2 * W
    <3>1. acc = 1 * W + (acc - W) /\ acc - W \in Nat /\ acc - W < W
      BY <2>2
    <3> QED BY <3>1
  <2>3. CASE acc >= 2 * W
    <3>1. acc = 2 * W + (acc - 2 * W) /\ acc - 2 * W \in Nat /\ acc - 2 * W < W
      BY <2>3
    <3> QED BY <3>1
  <2> QED BY <2>1, <2>2, <2>3
<1>2. acc \div W = q /\ acc % W = r
  <2>1. CASE q = 0
    BY <1>1, <2>1, DivMod
  <2>2. CASE q = 1
    BY <1>1, <2>2, DivMod
  <2>3. CASE q = 2
    BY <1>1, <2>3, DivMod
  <2> QED BY <2>1, <2>2, <2>3
<1> DEFINE once == r + q
<1>3. Folded(acc) = (once + (once \div W)) % W
  BY <1>2 DEF Folded
<1>4. CASE once < W
  <2>1. once \in Nat /\ once \div W = 0 /\ once % W = once
    BY <1>1, <1>4, DivMod
  <2> HIDE DEF once
  <2>2. Folded(acc) = once
    BY <1>3, <2>1
  <2>3. acc + (W - 1 - Folded(acc)) = (q + 1) * (W - 1)
    <3>1. acc + (W - 1 - (r + q)) = (q * W) - q + (W - 1)
      BY <1>1
    <3>2. \A x \in 0 .. 2 : (x * W) - x + (W - 1) = (x + 1) * (W - 1)
      OBVIOUS
    <3> QED BY <1>1, <2>2, <3>1, <3>2 DEF once
  <2>4. q + 1 \in 1 .. 4 /\ once \in 0 .. W - 1
    BY <1>1, <1>4, <2>1
  <2> QED BY <2>2, <2>3, <2>4
<1>5. CASE once >= W
  <2>1. PICK t \in Nat : once = W + t /\ t <= 1
    <3>1. once - W \in Nat /\ once - W <= 1 /\ once = W + (once - W)
      BY <1>1, <1>5
    <3> QED BY <3>1
  <2>2. once \div W = 1
    BY <2>1, DivMod
  <2>3. once + 1 = W + (t + 1) /\ t + 1 \in Nat /\ t + 1 < W
    BY <2>1
  <2>4. (W + (t + 1)) % W = t + 1
    BY <2>3, DivMod
  <2>5. Folded(acc) = t + 1
    BY <1>3, <2>2, <2>3, <2>4
  <2>6. acc + (W - 1 - Folded(acc)) = (q + 2) * (W - 1)
    <3>1. r + q = W + t
      BY <2>1
    <3>2. acc + (W - 1 - (t + 1)) = (q * W) - q + (W - 1) + (W - 1)
      BY <1>1, <3>1
    <3>3. \A x \in 0 .. 2 : (x * W) - x + (W - 1) + (W - 1) = (x + 2) * (W - 1)
      OBVIOUS
    <3> QED BY <1>1, <2>5, <3>2, <3>3
  <2>7. q + 2 \in 1 .. 4 /\ t + 1 \in 0 .. W - 1
    BY <1>1, <2>3
  <2> QED BY <2>5, <2>6, <2>7
<1> QED BY <1>1, <1>4, <1>5

LEMMA Multiple ==
  ASSUME NEW b \in Nat, b > 0, NEW k \in 1 .. 4
  PROVE  k * b > 0 /\ (k * b) % b = 0
<1>1. CASE k = 1
  BY <1>1
<1>2. CASE k = 2
  BY <1>2
<1>3. CASE k = 3
  BY <1>3
<1>4. CASE k = 4
  BY <1>4
<1> QED BY <1>1, <1>2, <1>3, <1>4

(* The receiver's sum over a packet whose checksum was just updated.       *)
LEMMA ChecksumRight ==
  ASSUME NEW p \in Packet, p.tot_len \in Word
  PROVE  LET s == update_ip_checksum(p)
             total == SumOf(Words(s)) + s.check
         IN  total > 0 /\ total % (WordMod - 1) = 0
<1> DEFINE acc == p.tot_len + p.ip[1] + p.ip[2]
           s == update_ip_checksum(p)
<1>1. WordMod \in Nat /\ WordMod > 3
  BY ConstantsAssumption DEF HeaderLen, AnswerLen
<1>2. p.ip[1] \in Word /\ p.ip[2] \in Word
  BY DEF Packet
<1>3. acc \in Nat /\ acc < 3 * WordMod
  BY <1>1, <1>2 DEF Word
<1>4. SumOf(Words(p)) = acc
  BY DEF SumOf, Words
<1>5. s.tot_len = p.tot_len /\ s.ip = p.ip /\ s.check = WordMod - 1 - Folded(acc)
  BY <1>4 DEF update_ip_checksum, Packet
<1>6. SumOf(Words(s)) = acc
  BY <1>5 DEF SumOf, Words
<1> HIDE DEF acc, s
<1>7. PICK k \in 1 .. 4 : acc + (WordMod - 1 - Folded(acc)) = k * (WordMod - 1)
  BY <1>1, <1>3, FoldedSum
<1>8. WordMod - 1 \in Nat /\ WordMod - 1 > 0
  BY <1>1
<1>9. k * (WordMod - 1) > 0 /\ (k * (WordMod - 1)) % (WordMod - 1) = 0
  BY <1>8, Multiple
<1> QED BY <1>5, <1>6, <1>7, <1>9 DEF s

-----------------------------------------------------------------------------
(* A query on its way through xdp_dns.                                     *)

Flight == [pc : {"match", "ip", "ttl", "response", "address", "adjust", "copyTtl", "copyIp",
                 "finish"},
           in : Packets, pkt : Packet, q : QueryType, elem : Elems \cup {NoElem},
           a : Record, want : Record, disturbed : BOOLEAN]

(* Its question was looked up as it is in the packet, and the packet is    *)
(* the one received but for what the steps so far changed.                 *)
Intact(r) ==
  /\ r.q = parse_query(r.in.body) /\ r.q.length >= 1
  /\ r.pc # "match" => /\ r.elem \in Elems
                       /\ r.q.record_type = A_RECORD_TYPE /\ r.q.class = DNS_CLASS_IN
  /\ r.pc \in {"match", "ip", "ttl", "response"} => r.pkt = r.in
  /\ r.pc \in {"address", "adjust"} => r.pkt = modify_dns_header_response(r.in)
  /\ r.pc \in {"copyTtl", "copyIp", "finish"} =>
        /\ r.pkt = [modify_dns_header_response(r.in) EXCEPT !.body = r.pkt.body]
        /\ Len(r.pkt.body) = r.q.length + AnswerLen
        /\ \A i \in 1 .. r.q.length : r.pkt.body[i] = r.in.body[i]

(* The record of the name is where this query left it: in the element, in  *)
(* its copy, in the shared buffer, in the packet.                          *)
Own(r, v, b) ==
  /\ r.pc \in {"ip", "ttl"} => v[r.elem] = r.want
  /\ r.pc \notin {"match", "ip"} => r.a.ip = r.want.ip
  /\ r.pc \notin {"match", "ip", "ttl"} => r.a.ttl = r.want.ttl
  /\ r.pc \in {"address", "adjust", "copyTtl"} => b[1] = r.want.ttl
  /\ r.pc \in {"adjust", "copyTtl", "copyIp"} => b[2] = r.want.ip
  /\ r.pc \in {"copyIp", "finish"} => r.pkt.body[r.q.length + 1] = r.want.ttl
  /\ r.pc = "finish" => r.pkt.body[r.q.length + 2] = r.want.ip

Good(r, v, b) == r \in Flight /\ Intact(r) /\ (~r.disturbed => Own(r, v, b))

Types == /\ elemOf \in [Names -> Elems \cup {NoElem}]
         /\ value \in [Elems -> Record]
         /\ dns_buffer \in Nat \X Nat

Flights == /\ cpu \in [CPUs -> {Idle} \cup Flight]
           /\ \A c \in CPUs : cpu[c] # Idle => Good(cpu[c], value, dns_buffer)

DnsInv == /\ Types /\ Flights
          /\ ReplyWellFormed /\ ReceiverAccepts /\ AnswerOwn

(* What other CPUs and the command line tool do to it.                     *)
LEMMA Disturbed ==
  ASSUME NEW r, NEW v, NEW b, NEW v2, NEW b2, Good(r, v, b)
  PROVE  Good([r EXCEPT !.disturbed = TRUE], v2, b2)
<1> DEFINE s == [r EXCEPT !.disturbed = TRUE]
<1>1. r \in Flight /\ Intact(r)
  BY DEF Good
<1>2. /\ s \in Flight /\ s.disturbed = TRUE /\ s.pc = r.pc /\ s.q = r.q /\ s.in = r.in
      /\ s.pkt = r.pkt /\ s.elem = r.elem
  BY <1>1 DEF Flight
<1> HIDE DEF s
<1>3. Intact(s)
  BY <1>1, <1>2 DEF Intact
<1> QED BY <1>2, <1>3 DEF Good, s

LEMMA Undisturbed ==
  ASSUME NEW r, NEW v, NEW b, NEW v2, NEW b2, Good(r, v, b),
         r.pc \in {"ip", "ttl"} => v2[r.elem] = v[r.elem],
         r.pc \in {"address", "adjust", "copyTtl"} => b2[1] = b[1],
         r.pc \in {"adjust", "copyTtl", "copyIp"} => b2[2] = b[2]
  PROVE  Good(r, v2, b2)
  BY DEF Good, Own

(* Its own steps.                                                          *)
LEMMA HeaderType ==
  ASSUME NEW p \in Packet
  PROVE  LET m == modify_dns_header_response(p)
         IN  /\ m \in Packet /\ m.body = p.body /\ m.ans_count = 1
             /\ OneQuestion(p) => OneQuestion(m)
             /\ m.mac = p.mac /\ m.ip = p.ip /\ m.port = p.port
  BY DEF modify_dns_header_response, Packet, OneQuestion

LEMMA PacketsType == Packets \subseteq Packet /\ \A p \in Packets : p.body \in Seq(Nat)
  BY ConstantsAssumption DEF Packet

LEMMA RecordType ==
  /\ AnyRecord \in Record
  /\ \A r \in Record : r.ip \in Nat /\ r.ttl \in Nat
  /\ \A r \in Record, x \in Nat : LET s == [r EXCEPT !.ip = x]
                                  IN  s \in Record /\ s.ip = x /\ s.ttl = r.ttl
  /\ \A r \in Record, x \in Nat : LET s == [r EXCEPT !.ttl = x]
                                  IN  s \in Record /\ s.ttl = x /\ s.ip = r.ip
<1>1. AnyRecord \in Record
  BY ConstantsAssumption DEF AnyRecord
<1> QED BY <1>1 DEF Record

LEMMA NewQuery ==
  ASSUME NEW p \in Packets, parse_query(p.body).length >= 1, NEW v, NEW b
  PROVE  Good([pc |-> "match", in |-> p, pkt |-> p, q |-> parse_query(p.body),
               elem |-> NoElem, a |-> AnyRecord, want |-> AnyRecord,
               disturbed |-> FALSE], v, b)
<1> DEFINE r == [pc |-> "match", in |-> p, pkt |-> p, q |-> parse_query(p.body),
                 elem |-> NoElem, a |-> AnyRecord, want |-> AnyRecord, disturbed |-> FALSE]
<1>1. p.body \in Seq(Nat) /\ p \in Packet
  BY PacketsType
<1>2. parse_query(p.body) \in QueryType
  BY <1>1, ParseQuery
<1>3. r \in Flight
  BY <1>1, <1>2, RecordType DEF Flight
<1>4. Intact(r)
  BY DEF Intact
<1>5. Own(r, v, b)
  BY DEF Own
<1> HIDE DEF r
<1> QED BY <1>3, <1>4, <1>5 DEF Good, r

LEMMA Matched ==
  ASSUME NEW r, NEW v \in [Elems -> Record], NEW b, NEW e \in Elems, Good(r, v, b),
         r.pc = "match", r.q.record_type = A_RECORD_TYPE, r.q.class = DNS_CLASS_IN
  PROVE  Good([r EXCEPT !.pc = "ip", !.elem = e, !.want = v[e]], v, b)
<1> DEFINE s == [r EXCEPT !.pc = "ip", !.elem = e, !.want = v[e]]
<1>1. r \in Flight /\ Intact(r) /\ v[e] \in Record
  BY DEF Good
<1>2. /\ s \in Flight /\ s.pc = "ip" /\ s.elem = e /\ s.want = v[e] /\ s.q = r.q
      /\ s.in = r.in /\ s.pkt = r.pkt
  BY <1>1 DEF Flight
<1> HIDE DEF s
<1>3. Intact(s)
  BY <1>1, <1>2 DEF Intact
<1>4. Own(s, v, b)
  BY <1>2 DEF Own
<1> QED BY <1>2, <1>3, <1>4 DEF Good, s

LEMMA IpRead ==
  ASSUME NEW r, NEW v \in [Elems -> Record], NEW b, Good(r, v, b), r.pc = "ip"
  PROVE  Good([r EXCEPT !.pc = "ttl", !.a = [r.a EXCEPT !.ip = v[r.elem].ip]], v, b)
<1> DEFINE w == [r.a EXCEPT !.ip = v[r.elem].ip]
           s == [r EXCEPT !.pc = "ttl", !.a = w]
<1>1. r \in Flight /\ Intact(r) /\ r.elem \in Elems /\ r.a \in Record
  BY DEF Good, Intact, Flight
<1>2. w \in Record /\ w.ip = v[r.elem].ip
  BY <1>1, RecordType
<1> HIDE DEF w
<1>3. /\ s \in Flight /\ s.pc = "ttl" /\ s.elem = r.elem /\ s.want = r.want /\ s.q = r.q
      /\ s.in = r.in /\ s.pkt = r.pkt /\ s.a = w /\ s.disturbed = r.disturbed
  BY <1>1, <1>2 DEF Flight
<1> HIDE DEF s
<1>4. Intact(s)
  BY <1>1, <1>3 DEF Intact
<1>5. ~s.disturbed => Own(s, v, b)
  BY <1>2, <1>3 DEF Own, Good
<1> QED BY <1>3, <1>4, <1>5 DEF Good, s, w

LEMMA TtlRead ==
  ASSUME NEW r, NEW v \in [Elems -> Record], NEW b, Good(r, v, b), r.pc = "ttl"
  PROVE  Good([r EXCEPT !.pc = "response", !.a = [r.a EXCEPT !.ttl = v[r.elem].ttl]], v, b)
<1> DEFINE w == [r.a EXCEPT !.ttl = v[r.elem].ttl]
           s == [r EXCEPT !.pc = "response", !.a = w]
<1>1. r \in Flight /\ Intact(r) /\ r.elem \in Elems /\ r.a \in Record
  BY DEF Good, Intact, Flight
<1>2. w \in Record /\ w.ip = r.a.ip /\ w.ttl = v[r.elem].ttl
  BY <1>1, RecordType
<1> HIDE DEF w
<1>3. /\ s \in Flight /\ s.pc = "response" /\ s.elem = r.elem /\ s.want = r.want /\ s.q = r.q
      /\ s.in = r.in /\ s.pkt = r.pkt /\ s.a = w /\ s.disturbed = r.disturbed
  BY <1>1, <1>2 DEF Flight
<1> HIDE DEF s
<1>4. Intact(s)
  BY <1>1, <1>3 DEF Intact
<1>5. ~s.disturbed => Own(s, v, b)
  BY <1>2, <1>3 DEF Own, Good
<1> QED BY <1>3, <1>4, <1>5 DEF Good, s, w

LEMMA BufferWrites ==
  ASSUME NEW b \in Nat \X Nat, NEW x \in Nat
  PROVE  /\ [b EXCEPT ![1] = x] \in Nat \X Nat /\ [b EXCEPT ![2] = x] \in Nat \X Nat
         /\ [b EXCEPT ![1] = x][1] = x /\ [b EXCEPT ![1] = x][2] = b[2]
         /\ [b EXCEPT ![2] = x][2] = x /\ [b EXCEPT ![2] = x][1] = b[1]
  OBVIOUS

LEMMA ResponseBegun ==
  ASSUME NEW r, NEW v, NEW b \in Nat \X Nat, Good(r, v, b), r.pc = "response"
  PROVE  Good([r EXCEPT !.pc = "address", !.pkt = modify_dns_header_response(r.pkt)],
              v, [b EXCEPT ![1] = r.a.ttl])
<1> DEFINE m == modify_dns_header_response(r.pkt)
           s == [r EXCEPT !.pc = "address", !.pkt = m]
           b2 == [b EXCEPT ![1] = r.a.ttl]
<1>1. r \in Flight /\ Intact(r) /\ r.pkt \in Packet /\ r.a \in Record
  BY DEF Good, Intact, Flight
<1>2. m \in Packet /\ b2[1] = r.a.ttl
  BY <1>1, HeaderType, RecordType, BufferWrites
<1> HIDE DEF m, b2
<1>3. /\ s \in Flight /\ s.pc = "address" /\ s.elem = r.elem /\ s.want = r.want /\ s.q = r.q
      /\ s.in = r.in /\ s.pkt = m /\ s.a = r.a /\ s.disturbed = r.disturbed
  BY <1>1, <1>2 DEF Flight
<1> HIDE DEF s
<1>4. Intact(s)
  BY <1>1, <1>3 DEF Intact, m
<1>5. ~s.disturbed => Own(s, v, b2)
  BY <1>2, <1>3 DEF Own, Good
<1> QED BY <1>3, <1>4, <1>5 DEF Good, s, m, b2

LEMMA AddressCopied ==
  ASSUME NEW r, NEW v, NEW b \in Nat \X Nat, Good(r, v, b), r.pc = "address"
  PROVE  Good([r EXCEPT !.pc = "adjust"], v, [b EXCEPT ![2] = r.a.ip])
<1> DEFINE s == [r EXCEPT !.pc = "adjust"]
           b2 == [b EXCEPT ![2] = r.a.ip]
<1>1. r \in Flight /\ Intact(r) /\ r.a \in Record
  BY DEF Good, Flight
<1>2. b2[2] = r.a.ip /\ b2[1] = b[1]
  BY <1>1, RecordType, BufferWrites
<1> HIDE DEF b2
<1>3. /\ s \in Flight /\ s.pc = "adjust" /\ s.elem = r.elem /\ s.want = r.want /\ s.q = r.q
      /\ s.in = r.in /\ s.pkt = r.pkt /\ s.a = r.a /\ s.disturbed = r.disturbed
  BY <1>1 DEF Flight
<1> HIDE DEF s
<1>4. Intact(s)
  BY <1>1, <1>3 DEF Intact
<1>5. ~s.disturbed => Own(s, v, b2)
  BY <1>2, <1>3 DEF Own, Good
<1> QED BY <1>3, <1>4, <1>5 DEF Good, s, b2

(* The question is inside the packet received.                             *)
LEMMA WholeQuestion ==
  ASSUME NEW r, NEW v, NEW b, Good(r, v, b), r.pc # "match"
  PROVE  /\ r.in \in Packet /\ r.in.body \in Seq(Nat)
         /\ r.q.length \in Nat /\ r.q.length >= 3 /\ r.q.length <= Len(r.in.body)
         /\ r.q.length <= MAX_DNS_NAME_LENGTH + 2
         /\ r.in.body[r.q.length] = DNS_CLASS_IN
         /\ r.in.body[r.q.length - 1] = A_RECORD_TYPE
<1>1. /\ r.in \in Packets /\ r.q \in QueryType /\ r.q = parse_query(r.in.body)
      /\ r.q.length >= 1 /\ r.q.record_type = A_RECORD_TYPE /\ r.q.class = DNS_CLASS_IN
  BY DEF Good, Flight, Intact
<1>2. r.in \in Packet /\ r.in.body \in Seq(Nat)
  BY <1>1, PacketsType
<1>3. /\ r.q.length >= 3 /\ r.q.length <= MAX_DNS_NAME_LENGTH + 2 /\ r.q.length <= Len(r.in.body)
      /\ r.in.body[r.q.length] = r.q.class /\ r.in.body[r.q.length - 1] = A_RECORD_TYPE
  BY <1>1, <1>2, ParseQuery
<1>4. r.q.length \in Nat
  BY <1>1 DEF QueryType
<1> QED BY <1>1, <1>2, <1>3, <1>4

LEMMA BodyReplaced ==
  ASSUME NEW p \in Packet, NEW x \in Seq(Nat), NEW s, s = [p EXCEPT !.body = x]
  PROVE  s \in Packet /\ s.body = x /\ s = [p EXCEPT !.body = s.body]
  BY DEF Packet

LEMMA BodyReplacedAgain ==
  ASSUME NEW p \in Packet, NEW x \in Seq(Nat), NEW y \in Seq(Nat),
         NEW s, s = [p EXCEPT !.body = x], NEW t, t = [s EXCEPT !.body = y]
  PROVE  t = [p EXCEPT !.body = y]
  BY DEF Packet

LEMMA Joined ==
  ASSUME NEW x \in Seq(Nat), NEW y \in Seq(Nat)
  PROVE  /\ x \o y \in Seq(Nat) /\ Len(x \o y) = Len(x) + Len(y)
         /\ \A i \in 1 .. Len(x) : (x \o y)[i] = x[i]
  OBVIOUS

LEMMA Prefix ==
  ASSUME NEW x \in Seq(Nat), NEW m \in Nat, m <= Len(x)
  PROVE  /\ SubSeq(x, 1, m) \in Seq(Nat) /\ Len(SubSeq(x, 1, m)) = m
         /\ \A i \in 1 .. m : SubSeq(x, 1, m)[i] = x[i]
  OBVIOUS

LEMMA TailAdjusted ==
  ASSUME NEW r, NEW v, NEW b, Good(r, v, b), r.pc = "adjust"
  PROVE  LET want == r.q.length + AnswerLen
             body == SubSeq(r.pkt.body \o [i \in 1 .. want |-> 0], 1, want)
         IN  Good([r EXCEPT !.pc = "copyTtl", !.pkt = [r.pkt EXCEPT !.body = body]], v, b)
<1> DEFINE want == r.q.length + AnswerLen
           zeros == [i \in 1 .. want |-> 0]
           long == r.pkt.body \o zeros
           body == SubSeq(long, 1, want)
           k == [r.pkt EXCEPT !.body = body]
           s == [r EXCEPT !.pc = "copyTtl", !.pkt = k]
<1>1. /\ r \in Flight /\ Intact(r) /\ r.pkt = modify_dns_header_response(r.in)
      /\ r.q.length \in Nat /\ r.q.length <= Len(r.in.body) /\ r.in.body \in Seq(Nat)
      /\ r.pkt \in Packet
  BY WholeQuestion DEF Good, Intact, Flight
<1>2. r.pkt.body = r.in.body
  BY <1>1, PacketsType, HeaderType DEF Flight
<1>3. want \in Nat /\ want = r.q.length + 2
  BY <1>1 DEF AnswerLen
<1>4. zeros \in Seq(Nat) /\ Len(zeros) = want
  BY <1>3
<1> HIDE DEF zeros, want
<1>5. /\ long \in Seq(Nat) /\ Len(long) = Len(r.in.body) + want
      /\ \A i \in 1 .. Len(r.in.body) : long[i] = r.in.body[i]
  <2>1. r.pkt.body \in Seq(Nat)
    BY <1>1, <1>2
  <2>2. /\ r.pkt.body \o zeros \in Seq(Nat)
        /\ Len(r.pkt.body \o zeros) = Len(r.pkt.body) + Len(zeros)
        /\ \A i \in 1 .. Len(r.pkt.body) : (r.pkt.body \o zeros)[i] = r.pkt.body[i]
    BY <1>4, <2>1, Joined
  <2> QED BY <1>2, <1>4, <2>2
<1> HIDE DEF long
<1>6. /\ body \in Seq(Nat) /\ Len(body) = want
      /\ \A i \in 1 .. want : body[i] = long[i]
  <2>1. want <= Len(long)
    BY <1>1, <1>3, <1>5
  <2> QED BY <1>3, <1>5, <2>1, Prefix
<1>7. \A i \in 1 .. r.q.length : body[i] = r.in.body[i]
  BY <1>1, <1>3, <1>5, <1>6
<1> HIDE DEF body
<1>8. k \in Packet /\ k.body = body /\ k = [modify_dns_header_response(r.in) EXCEPT !.body = k.body]
  <2>1. /\ modify_dns_header_response(r.in) \in Packet
        /\ k = [modify_dns_header_response(r.in) EXCEPT !.body = body]
    BY <1>1
  <2> HIDE DEF k
  <2> QED BY <1>6, <2>1, BodyReplaced
<1> HIDE DEF k
<1>9. /\ s \in Flight /\ s.pc = "copyTtl" /\ s.elem = r.elem /\ s.want = r.want /\ s.q = r.q
      /\ s.in = r.in /\ s.pkt = k /\ s.a = r.a /\ s.disturbed = r.disturbed
  BY <1>1, <1>8 DEF Flight
<1> HIDE DEF s
<1>10. Intact(s)
  BY <1>1, <1>6, <1>7, <1>8, <1>9 DEF Intact, want
<1>11. ~s.disturbed => Own(s, v, b)
  BY <1>9 DEF Own, Good
<1>12. Good(s, v, b)
  BY <1>9, <1>10, <1>11 DEF Good
<1> QED BY <1>12 DEF s, k, body, long, zeros, want

(* One symbol of the answer is stored behind the question.                 *)
Stored(r, d, x) == [r.pkt EXCEPT !.body = [r.pkt.body EXCEPT ![r.q.length + d] = x]]

LEMMA AnswerStored ==
  ASSUME NEW r, NEW v, NEW b, Good(r, v, b), r.pc \in {"copyTtl", "copyIp"},
         NEW d \in {1, 2}, NEW x \in Nat, NEW k, k = Stored(r, d, x)
  PROVE  /\ k \in Packet /\ k = [modify_dns_header_response(r.in) EXCEPT !.body = k.body]
         /\ Len(k.body) = r.q.length + AnswerLen /\ k.body[r.q.length + d] = x
         /\ \A i \in 1 .. r.q.length : k.body[i] = r.in.body[i]
         /\ d = 2 => k.body[r.q.length + 1] = r.pkt.body[r.q.length + 1]
<1> DEFINE body == [r.pkt.body EXCEPT ![r.q.length + d] = x]
           m == modify_dns_header_response(r.in)
<1>1. /\ r.pkt \in Packet /\ r.pkt = [m EXCEPT !.body = r.pkt.body]
      /\ Len(r.pkt.body) = r.q.length + 2 /\ r.q.length \in Nat
      /\ \A i \in 1 .. r.q.length : r.pkt.body[i] = r.in.body[i]
      /\ r.in \in Packet
  BY WholeQuestion DEF Good, Intact, Flight, AnswerLen
<1>2. r.pkt.body \in Seq(Nat)
  BY <1>1 DEF Packet
<1>3. r.q.length + d \in 1 .. Len(r.pkt.body)
  BY <1>1
<1>4. /\ body \in Seq(Nat) /\ Len(body) = Len(r.pkt.body) /\ body[r.q.length + d] = x
      /\ \A i \in 1 .. Len(r.pkt.body) : i # r.q.length + d => body[i] = r.pkt.body[i]
  BY <1>2, <1>3
<1>5. m \in Packet /\ k = [r.pkt EXCEPT !.body = body]
  BY <1>1, HeaderType DEF Stored
<1> HIDE DEF body, m
<1>6. k \in Packet /\ k.body = body /\ k = [m EXCEPT !.body = k.body]
  <2>1. k = [m EXCEPT !.body = body]
    BY <1>1, <1>2, <1>4, <1>5, BodyReplacedAgain
  <2> QED BY <1>4, <1>5, <2>1, BodyReplaced
<1>7. \A i \in 1 .. r.q.length : i \in 1 .. Len(r.pkt.body) /\ i # r.q.length + d
  BY <1>1
<1>8. \A i \in 1 .. r.q.length : body[i] = r.in.body[i]
  BY <1>1, <1>4, <1>7
<1>9. ASSUME d = 2 PROVE body[r.q.length + 1] = r.pkt.body[r.q.length + 1]
  <2>1. r.q.length + 1 \in 1 .. Len(r.pkt.body) /\ r.q.length + 1 # r.q.length + d
    BY <1>1, <1>9
  <2> QED BY <1>4, <2>1
<1> QED BY <1>1, <1>4, <1>6, <1>8, <1>9 DEF m, AnswerLen

LEMMA TtlCopied ==
  ASSUME NEW r, NEW v, NEW b \in Nat \X Nat, Good(r, v, b), r.pc = "copyTtl"
  PROVE  Good([r EXCEPT !.pc = "copyIp", !.pkt = Stored(r, 1, b[1])], v, b)
<1> DEFINE k == Stored(r, 1, b[1])
           s == [r EXCEPT !.pc = "copyIp", !.pkt = k]
<1>1. r \in Flight /\ Intact(r) /\ b[1] \in Nat /\ 1 \in {1, 2}
  BY DEF Good
<1>2. /\ k \in Packet /\ k = [modify_dns_header_response(r.in) EXCEPT !.body = k.body]
      /\ Len(k.body) = r.q.length + AnswerLen /\ k.body[r.q.length + 1] = b[1]
      /\ \A i \in 1 .. r.q.length : k.body[i] = r.in.body[i]
  BY <1>1, AnswerStored
<1> HIDE DEF k
<1>3. /\ s \in Flight /\ s.pc = "copyIp" /\ s.elem = r.elem /\ s.want = r.want /\ s.q = r.q
      /\ s.in = r.in /\ s.pkt = k /\ s.a = r.a /\ s.disturbed = r.disturbed
  BY <1>1, <1>2 DEF Flight
<1> HIDE DEF s
<1>4. Intact(s)
  BY <1>1, <1>2, <1>3 DEF Intact
<1>5. ~s.disturbed => Own(s, v, b)
  BY <1>2, <1>3 DEF Own, Good
<1>6. Good(s, v, b)
  BY <1>3, <1>4, <1>5 DEF Good
<1> QED BY <1>6 DEF s, k

LEMMA IpCopied ==
  ASSUME NEW r, NEW v, NEW b \in Nat \X Nat, Good(r, v, b), r.pc = "copyIp"
  PROVE  Good([r EXCEPT !.pc = "finish", !.pkt = Stored(r, 2, b[2])], v, b)
<1> DEFINE k == Stored(r, 2, b[2])
           s == [r EXCEPT !.pc = "finish", !.pkt = k]
<1>1. r \in Flight /\ Intact(r) /\ b[2] \in Nat /\ 2 \in {1, 2}
  BY DEF Good
<1>2. /\ k \in Packet /\ k = [modify_dns_header_response(r.in) EXCEPT !.body = k.body]
      /\ Len(k.body) = r.q.length + AnswerLen /\ k.body[r.q.length + 2] = b[2]
      /\ \A i \in 1 .. r.q.length : k.body[i] = r.in.body[i]
      /\ k.body[r.q.length + 1] = r.pkt.body[r.q.length + 1]
  BY <1>1, AnswerStored
<1> HIDE DEF k
<1>3. /\ s \in Flight /\ s.pc = "finish" /\ s.elem = r.elem /\ s.want = r.want /\ s.q = r.q
      /\ s.in = r.in /\ s.pkt = k /\ s.a = r.a /\ s.disturbed = r.disturbed
  BY <1>1, <1>2 DEF Flight
<1> HIDE DEF s
<1>4. Intact(s)
  BY <1>1, <1>2, <1>3 DEF Intact
<1>5. ~s.disturbed => Own(s, v, b)
  BY <1>2, <1>3 DEF Own, Good
<1>6. Good(s, v, b)
  BY <1>3, <1>4, <1>5 DEF Good
<1> QED BY <1>6 DEF s, k

(* What leaves the program as a reply.                                     *)
LEMMA Replied ==
  ASSUME NEW p \in Packet, NEW k, k = update_ip_checksum(Reply(p))
  PROVE  /\ k.body = p.body /\ k.ans_count = p.ans_count /\ (OneQuestion(p) => OneQuestion(k))
         /\ k.tot_len = k.udp_len + 2 /\ k.udp_len = Len(p.body) + 1
         /\ k.mac = Swap(p.mac) /\ k.ip = Swap(p.ip) /\ k.port = Swap(p.port)
         /\ HeaderLen + Len(p.body) \in Word =>
               LET total == SumOf(Words(k)) + k.check
               IN  total > 0 /\ total % (WordMod - 1) = 0
<1> DEFINE s == Reply(p)
<1>1. Len(p.body) \in Nat
  BY DEF Packet
<1>2. /\ Swap(p.mac) \in STRING \X STRING /\ Swap(p.ip) \in Word \X Word
      /\ Swap(p.port) \in Nat \X Nat
  BY DEF Packet, Swap
<1>3. HeaderLen + Len(p.body) \in Nat /\ HeaderLen - 2 + Len(p.body) \in Nat
  BY <1>1 DEF HeaderLen
<1>4. /\ s \in Packet /\ s.body = p.body /\ s.ans_count = p.ans_count
      /\ (OneQuestion(p) => OneQuestion(s)) /\ s.tot_len = HeaderLen + Len(p.body)
      /\ s.udp_len = HeaderLen - 2 + Len(p.body)
      /\ s.mac = Swap(p.mac) /\ s.ip = Swap(p.ip) /\ s.port = Swap(p.port)
  BY <1>2, <1>3 DEF Reply, Packet, OneQuestion
<1>5. k = update_ip_checksum(s)
  OBVIOUS
<1> HIDE DEF s
<1>6. /\ k.body = s.body /\ k.ans_count = s.ans_count /\ (OneQuestion(s) => OneQuestion(k))
      /\ k.tot_len = s.tot_len /\ k.udp_len = s.udp_len
      /\ k.mac = s.mac /\ k.ip = s.ip /\ k.port = s.port
  BY <1>4, <1>5 DEF update_ip_checksum, Packet, OneQuestion
<1>7. k.tot_len = k.udp_len + 2 /\ k.udp_len = Len(p.body) + 1
  BY <1>1, <1>4, <1>6 DEF HeaderLen
<1>8. ASSUME HeaderLen + Len(p.body) \in Word
      PROVE  LET total == SumOf(Words(k)) + k.check
             IN  total > 0 /\ total % (WordMod - 1) = 0
  BY <1>4, <1>5, <1>8, ChecksumRight
<1> QED BY <1>4, <1>6, <1>7, <1>8

LEMMA SamePrefix ==
  ASSUME NEW x \in Seq(Nat), NEW y \in Seq(Nat), NEW m \in Nat, m <= Len(x), m <= Len(y),
         \A i \in 1 .. m : x[i] = y[i]
  PROVE  SubSeq(x, 1, m) = SubSeq(y, 1, m)
<1>1. SubSeq(x, 1, m) = [i \in 1 .. m |-> x[i]] /\ SubSeq(y, 1, m) = [i \in 1 .. m |-> y[i]]
  OBVIOUS
<1> QED BY <1>1

LEMMA Sent ==
  ASSUME NEW r, NEW v, NEW b, Good(r, v, b), r.pc = "finish",
         NEW k, k = update_ip_checksum(Reply(r.pkt))
  PROVE  /\ SubSeq(k.body, 1, r.q.length) = SubSeq(r.in.body, 1, r.q.length)
         /\ Len(k.body) = r.q.length + 2 /\ k.ans_count = 1
         /\ OneQuestion(r.in) => OneQuestion(k)
         /\ k.tot_len = k.udp_len + 2 /\ k.udp_len = Len(k.body) + 1
         /\ k.mac = Swap(r.in.mac) /\ k.ip = Swap(r.in.ip) /\ k.port = Swap(r.in.port)
         /\ LET total == SumOf(Words(k)) + k.check
            IN  total > 0 /\ total % (WordMod - 1) = 0
         /\ ~r.disturbed => /\ k.body[r.q.length + 1] = r.want.ttl
                            /\ k.body[r.q.length + 2] = r.want.ip
<1> DEFINE m == modify_dns_header_response(r.in)
<1>1. /\ r.pkt \in Packet /\ r.pkt = [m EXCEPT !.body = r.pkt.body]
      /\ Len(r.pkt.body) = r.q.length + 2
      /\ \A i \in 1 .. r.q.length : r.pkt.body[i] = r.in.body[i]
  BY DEF Good, Intact, Flight, AnswerLen
<1>2. /\ r.q.length \in Nat /\ r.in \in Packet /\ r.in.body \in Seq(Nat)
      /\ r.q.length <= Len(r.in.body) /\ r.q.length <= MAX_DNS_NAME_LENGTH + 2
  BY WholeQuestion
<1>3. /\ m \in Packet /\ m.ans_count = 1 /\ (OneQuestion(r.in) => OneQuestion(m))
      /\ m.mac = r.in.mac /\ m.ip = r.in.ip /\ m.port = r.in.port
  BY <1>2, HeaderType
<1> HIDE DEF m
<1>4. /\ r.pkt.ans_count = 1 /\ (OneQuestion(r.in) => OneQuestion(r.pkt))
      /\ r.pkt.mac = r.in.mac /\ r.pkt.ip = r.in.ip /\ r.pkt.port = r.in.port
      /\ r.pkt.body \in Seq(Nat)
  BY <1>1, <1>3 DEF Packet, OneQuestion
<1>5. HeaderLen + Len(r.pkt.body) \in Word
  <2>1. WordMod \in Nat /\ MAX_DNS_NAME_LENGTH \in Nat /\ MAX_DNS_NAME_LENGTH + 7 < WordMod
    BY ConstantsAssumption DEF HeaderLen, AnswerLen
  <2>2. /\ 3 + (r.q.length + 2) \in Nat
        /\ 3 + (r.q.length + 2) <= WordMod - 1
    BY <1>2, <2>1
  <2> QED BY <1>1, <2>1, <2>2 DEF Word, HeaderLen
<1>6. /\ k.body = r.pkt.body /\ k.ans_count = r.pkt.ans_count
      /\ OneQuestion(r.pkt) => OneQuestion(k)
      /\ k.tot_len = k.udp_len + 2 /\ k.udp_len = Len(r.pkt.body) + 1
      /\ k.mac = Swap(r.pkt.mac) /\ k.ip = Swap(r.pkt.ip) /\ k.port = Swap(r.pkt.port)
      /\ LET total == SumOf(Words(k)) + k.check
         IN  total > 0 /\ total % (WordMod - 1) = 0
  BY <1>1, <1>5, Replied
<1>7. SubSeq(r.pkt.body, 1, r.q.length) = SubSeq(r.in.body, 1, r.q.length)
  <2>1. r.q.length <= Len(r.pkt.body)
    BY <1>1, <1>2
  <2> QED BY <1>1, <1>2, <1>4, <2>1, SamePrefix
<1>8. ~r.disturbed => /\ r.pkt.body[r.q.length + 1] = r.want.ttl
                      /\ r.pkt.body[r.q.length + 2] = r.want.ip
  BY DEF Good, Own
<1> QED BY <1>1, <1>4, <1>6, <1>7, <1>8

-----------------------------------------------------------------------------
(* The steps.                                                              *)

LEMMA NotIdle ==
  /\ Idle.pc = "idle" /\ Idle \notin Flight
  /\ \A r, v, b : Good(r, v, b) => r \in Flight /\ r # Idle
<1>1. Idle.pc = "idle" /\ \A r \in Flight : r.pc # "idle"
  BY DEF Idle, Flight
<1> QED BY <1>1 DEF Good

LEMMA Running ==
  ASSUME DnsInv, NEW c \in CPUs, cpu[c].pc # "idle"
  PROVE  cpu[c] \in Flight /\ Good(cpu[c], value, dns_buffer)
  BY NotIdle DEF DnsInv, Flights

(* No reply leaves.                                                        *)
LEMMA NothingSent ==
  ASSUME ReplyWellFormed /\ ReceiverAccepts /\ AnswerOwn, out' = out \/ out'.verdict # "XDP_TX"
  PROVE  ReplyWellFormed' /\ ReceiverAccepts' /\ AnswerOwn'
<1>1. CASE out' = out
  BY <1>1 DEF ReplyWellFormed, ReceiverAccepts, AnswerOwn
<1>2. CASE out'.verdict # "XDP_TX"
  BY <1>2 DEF ReplyWellFormed, ReceiverAccepts, AnswerOwn
<1> QED BY <1>1, <1>2

(* One CPU moves and the map and the buffer stay.                          *)
LEMMA Alone ==
  ASSUME DnsInv, NEW c \in CPUs, NEW s, cpu' = [cpu EXCEPT ![c] = s],
         s = Idle \/ Good(s, value, dns_buffer), UNCHANGED <<elemOf, value, dns_buffer>>
  PROVE  Types' /\ Flights'
<1>1. Types'
  BY DEF DnsInv, Types
<1>2. s \in {Idle} \cup Flight
  BY NotIdle
<1>3. cpu' \in [CPUs -> {Idle} \cup Flight]
  BY <1>2 DEF DnsInv, Flights
<1>4. ASSUME NEW d \in CPUs, cpu'[d] # Idle PROVE Good(cpu'[d], value', dns_buffer')
  <2>1. CASE d = c
    <3>1. cpu'[d] = s
      BY <2>1 DEF DnsInv, Flights
    <3> QED BY <1>4, <3>1
  <2>2. CASE d # c
    <3>1. cpu'[d] = cpu[d]
      BY <2>2 DEF DnsInv, Flights
    <3> QED BY <1>4, <3>1 DEF DnsInv, Flights
  <2> QED BY <2>1, <2>2
<1> QED BY <1>1, <1>3, <1>4 DEF Flights

LEMMA LoaderStep ==
  ASSUME DnsInv, UNCHANGED <<elemOf, value, dns_buffer, cpu, out>>
  PROVE  DnsInv'
<1>1. Types' /\ Flights'
  BY DEF DnsInv, Types, Flights
<1>2. ReplyWellFormed' /\ ReceiverAccepts' /\ AnswerOwn'
  BY NothingSent DEF DnsInv
<1> QED BY <1>1, <1>2 DEF DnsInv

LEMMA PassStep ==
  ASSUME DnsInv, NEW c \in CPUs, NEW p \in Packets, PassOther(c, p)
  PROVE  DnsInv'
<1>1. UNCHANGED <<elemOf, value, dns_buffer, cpu>> /\ out'.verdict # "XDP_TX"
  BY DEF PassOther, mapVars
<1>2. Types' /\ Flights'
  BY <1>1 DEF DnsInv, Types, Flights
<1>3. ReplyWellFormed' /\ ReceiverAccepts' /\ AnswerOwn'
  BY <1>1, NothingSent DEF DnsInv
<1> QED BY <1>2, <1>3 DEF DnsInv

LEMMA QueryStep ==
  ASSUME DnsInv, NEW c \in CPUs, NEW p \in Packets, xdp_dns(c, p)
  PROVE  DnsInv'
<1> DEFINE s == [pc |-> "match", in |-> p, pkt |-> p, q |-> parse_query(p.body),
                 elem |-> NoElem, a |-> AnyRecord, want |-> AnyRecord, disturbed |-> FALSE]
<1>1. /\ UNCHANGED <<elemOf, value, dns_buffer>> /\ out' = out
      /\ parse_query(p.body).length >= 1 /\ cpu' = [cpu EXCEPT ![c] = s]
  BY DEF xdp_dns, mapVars
<1>2. Good(s, value, dns_buffer)
  BY <1>1, NewQuery
<1> HIDE DEF s
<1>3. Types' /\ Flights'
  BY <1>1, <1>2, Alone
<1>4. ReplyWellFormed' /\ ReceiverAccepts' /\ AnswerOwn'
  BY <1>1, NothingSent DEF DnsInv
<1> QED BY <1>3, <1>4 DEF DnsInv

LEMMA LeavesStep ==
  ASSUME DnsInv, NEW c \in CPUs, NEW k, Leaves(c, "XDP_PASS", k),
         UNCHANGED <<elemOf, value, dns_buffer>>
  PROVE  DnsInv'
<1>1. cpu' = [cpu EXCEPT ![c] = Idle] /\ out'.verdict # "XDP_TX"
  BY DEF Leaves
<1>2. Types' /\ Flights'
  BY <1>1, Alone
<1>3. ReplyWellFormed' /\ ReceiverAccepts' /\ AnswerOwn'
  BY <1>1, NothingSent DEF DnsInv
<1> QED BY <1>2, <1>3 DEF DnsInv

LEMMA MatchStep ==
  ASSUME DnsInv, NEW c \in CPUs, match_a_records(c)
  PROVE  DnsInv'
<1> DEFINE r == cpu[c]
           e == elemOf[r.q.name]
           s == [r EXCEPT !.pc = "ip", !.elem = e, !.want = value[e]]
<1>1. r.pc = "match" /\ UNCHANGED <<elemOf, value, dns_buffer>>
  BY DEF match_a_records, mapVars
<1>2. r \in Flight /\ Good(r, value, dns_buffer)
  BY <1>1, Running
<1>3. CASE Found(r.q)
  <2>1. /\ cpu' = [cpu EXCEPT ![c].pc = "ip", ![c].elem = e, ![c].want = value[e]]
        /\ out' = out
    BY <1>3 DEF match_a_records
  <2>2. cpu' = [cpu EXCEPT ![c] = s]
    BY <1>2, <2>1 DEF DnsInv, Flights, Flight
  <2>3. /\ r.q.record_type = A_RECORD_TYPE /\ r.q.class = DNS_CLASS_IN
        /\ r.q.name \in Names /\ e # NoElem
    BY <1>3 DEF Found, Linked
  <2>4. e \in Elems /\ value \in [Elems -> Record]
    BY <2>3 DEF DnsInv, Types
  <2> HIDE DEF e, r
  <2>5. Good(s, value, dns_buffer)
    BY <1>1, <1>2, <2>3, <2>4, Matched
  <2> HIDE DEF s
  <2>6. Types' /\ Flights'
    BY <1>1, <2>2, <2>5, Alone
  <2>7. ReplyWellFormed' /\ ReceiverAccepts' /\ AnswerOwn'
    BY <2>1, NothingSent DEF DnsInv
  <2> QED BY <2>6, <2>7 DEF DnsInv
<1>4. CASE ~Found(r.q)
  BY <1>1, <1>4, LeavesStep DEF match_a_records
<1> QED BY <1>3, <1>4

LEMMA ReadIpStep ==
  ASSUME DnsInv, NEW c \in CPUs, ReadIp(c)
  PROVE  DnsInv'
<1> DEFINE r == cpu[c]
           s == [r EXCEPT !.pc = "ttl", !.a = [r.a EXCEPT !.ip = value[r.elem].ip]]
<1>1. /\ r.pc = "ip" /\ UNCHANGED <<elemOf, value, dns_buffer>> /\ out' = out
      /\ cpu' = [cpu EXCEPT ![c].pc = "ttl", ![c].a.ip = value[r.elem].ip]
  BY DEF ReadIp, mapVars
<1>2. r \in Flight /\ Good(r, value, dns_buffer)
  BY <1>1, Running
<1>3. cpu' = [cpu EXCEPT ![c] = s]
  BY <1>1, <1>2 DEF DnsInv, Flights, Flight
<1>4. value \in [Elems -> Record]
  BY DEF DnsInv, Types
<1> HIDE DEF r
<1>5. Good(s, value, dns_buffer)
  BY <1>1, <1>2, <1>4, IpRead
<1> HIDE DEF s
<1>6. Types' /\ Flights'
  BY <1>1, <1>3, <1>5, Alone
<1>7. ReplyWellFormed' /\ ReceiverAccepts' /\ AnswerOwn'
  BY <1>1, NothingSent DEF DnsInv
<1> QED BY <1>6, <1>7 DEF DnsInv

LEMMA ReadTtlStep ==
  ASSUME DnsInv, NEW c \in CPUs, ReadTtl(c)
  PROVE  DnsInv'
<1> DEFINE r == cpu[c]
           s == [r EXCEPT !.pc = "response", !.a = [r.a EXCEPT !.ttl = value[r.elem].ttl]]
<1>1. /\ r.pc = "ttl" /\ UNCHANGED <<elemOf, value, dns_buffer>> /\ out' = out
      /\ cpu' = [cpu EXCEPT ![c].pc = "response", ![c].a.ttl = value[r.elem].ttl]
  BY DEF ReadTtl, mapVars
<1>2. r \in Flight /\ Good(r, value, dns_buffer)
  BY <1>1, Running
<1>3. cpu' = [cpu EXCEPT ![c] = s]
  BY <1>1, <1>2 DEF DnsInv, Flights, Flight
<1>4. value \in [Elems -> Record]
  BY DEF DnsInv, Types
<1> HIDE DEF r
<1>5. Good(s, value, dns_buffer)
  BY <1>1, <1>2, <1>4, TtlRead
<1> HIDE DEF s
<1>6. Types' /\ Flights'
  BY <1>1, <1>3, <1>5, Alone
<1>7. ReplyWellFormed' /\ ReceiverAccepts' /\ AnswerOwn'
  BY <1>1, NothingSent DEF DnsInv
<1> QED BY <1>6, <1>7 DEF DnsInv

LEMMA AdjustStep ==
  ASSUME DnsInv, NEW c \in CPUs, AdjustTail(c)
  PROVE  DnsInv'
<1> DEFINE r == cpu[c]
           want == r.q.length + AnswerLen
           body == SubSeq(r.pkt.body \o [i \in 1 .. want |-> 0], 1, want)
           s == [r EXCEPT !.pc = "copyTtl", !.pkt = [r.pkt EXCEPT !.body = body]]
<1>1. /\ r.pc = "adjust" /\ UNCHANGED <<elemOf, value, dns_buffer>> /\ out' = out
      /\ cpu' = [cpu EXCEPT ![c].pc = "copyTtl", ![c].pkt.body = body]
  BY DEF AdjustTail, mapVars
<1>2. r \in Flight /\ Good(r, value, dns_buffer)
  BY <1>1, Running
<1>3. cpu' = [cpu EXCEPT ![c] = s]
  BY <1>1, <1>2 DEF DnsInv, Flights, Flight, Stored
<1>4. dns_buffer \in Nat \X Nat
  BY DEF DnsInv, Types
<1> HIDE DEF r
<1>5. Good(s, value, dns_buffer)
  BY <1>1, <1>2, <1>4, TailAdjusted
<1> HIDE DEF s
<1>6. Types' /\ Flights'
  BY <1>1, <1>3, <1>5, Alone
<1>7. ReplyWellFormed' /\ ReceiverAccepts' /\ AnswerOwn'
  BY <1>1, NothingSent DEF DnsInv
<1> QED BY <1>6, <1>7 DEF DnsInv

LEMMA CopyTtlStep ==
  ASSUME DnsInv, NEW c \in CPUs, CopyTtl(c)
  PROVE  DnsInv'
<1> DEFINE r == cpu[c]
           s == [r EXCEPT !.pc = "copyIp", !.pkt = Stored(r, 1, dns_buffer[1])]
<1>1. /\ r.pc = "copyTtl" /\ UNCHANGED <<elemOf, value, dns_buffer>> /\ out' = out
      /\ cpu' = [cpu EXCEPT ![c].pc = "copyIp",
                          ![c].pkt.body[r.q.length + 1] = dns_buffer[1]]
  BY DEF CopyTtl, mapVars
<1>2. r \in Flight /\ Good(r, value, dns_buffer)
  BY <1>1, Running
<1>3. cpu' = [cpu EXCEPT ![c] = s]
  BY <1>1, <1>2 DEF DnsInv, Flights, Flight, Stored
<1>4. dns_buffer \in Nat \X Nat
  BY DEF DnsInv, Types
<1> HIDE DEF r
<1>5. Good(s, value, dns_buffer)
  BY <1>1, <1>2, <1>4, TtlCopied
<1> HIDE DEF s
<1>6. Types' /\ Flights'
  BY <1>1, <1>3, <1>5, Alone
<1>7. ReplyWellFormed' /\ ReceiverAccepts' /\ AnswerOwn'
  BY <1>1, NothingSent DEF DnsInv
<1> QED BY <1>6, <1>7 DEF DnsInv

LEMMA CopyIpStep ==
  ASSUME DnsInv, NEW c \in CPUs, CopyIp(c)
  PROVE  DnsInv'
<1> DEFINE r == cpu[c]
           s == [r EXCEPT !.pc = "finish", !.pkt = Stored(r, 2, dns_buffer[2])]
<1>1. /\ r.pc = "copyIp" /\ UNCHANGED <<elemOf, value, dns_buffer>> /\ out' = out
      /\ cpu' = [cpu EXCEPT ![c].pc = "finish",
                          ![c].pkt.body[r.q.length + 2] = dns_buffer[2]]
  BY DEF CopyIp, mapVars
<1>2. r \in Flight /\ Good(r, value, dns_buffer)
  BY <1>1, Running
<1>3. cpu' = [cpu EXCEPT ![c] = s]
  BY <1>1, <1>2 DEF DnsInv, Flights, Flight, Stored
<1>4. dns_buffer \in Nat \X Nat
  BY DEF DnsInv, Types
<1> HIDE DEF r
<1>5. Good(s, value, dns_buffer)
  BY <1>1, <1>2, <1>4, IpCopied
<1> HIDE DEF s
<1>6. Types' /\ Flights'
  BY <1>1, <1>3, <1>5, Alone
<1>7. ReplyWellFormed' /\ ReceiverAccepts' /\ AnswerOwn'
  BY <1>1, NothingSent DEF DnsInv
<1> QED BY <1>6, <1>7 DEF DnsInv

LEMMA AdjustFailsStep ==
  ASSUME DnsInv, NEW c \in CPUs, AdjustTailFails(c)
  PROVE  DnsInv'
  BY LeavesStep DEF AdjustTailFails, mapVars

(* One CPU moves, others may lose what they have in the buffer or in the   *)
(* element they are reading.                                               *)
LEMMA Disturbing ==
  ASSUME DnsInv, NEW c \in CPUs, NEW s, NEW cpus, cpu' = Disturb(cpus, [cpu EXCEPT ![c] = s]),
         c \notin cpus, Types', Good(s, value', dns_buffer'),
         \A d \in CPUs \ {c} : cpu[d].pc # "idle" =>
            \/ d \in cpus
            \/ /\ cpu[d].pc \in {"ip", "ttl"} => value'[cpu[d].elem] = value[cpu[d].elem]
               /\ cpu[d].pc \in {"address", "adjust", "copyTtl"} => dns_buffer'[1] = dns_buffer[1]
               /\ cpu[d].pc \in {"adjust", "copyTtl", "copyIp"} => dns_buffer'[2] = dns_buffer[2],
         \A d \in cpus : d \in CPUs /\ cpu[d].pc # "idle"
  PROVE  Flights'
<1>1. /\ \A d \in CPUs : cpu'[d] = IF d \in cpus
                                       THEN [([cpu EXCEPT ![c] = s])[d] EXCEPT !.disturbed = TRUE]
                                       ELSE ([cpu EXCEPT ![c] = s])[d]
      /\ cpu' = [d \in CPUs |-> cpu'[d]]
  BY DEF Disturb
<1>2. cpu'[c] = s
  BY <1>1 DEF DnsInv, Flights
<1>3. \A d \in CPUs \ {c} : /\ d \in cpus => cpu'[d] = [cpu[d] EXCEPT !.disturbed = TRUE]
                            /\ d \notin cpus => cpu'[d] = cpu[d]
  BY <1>1 DEF DnsInv, Flights
<1>4. ASSUME NEW d \in CPUs PROVE cpu'[d] = Idle \/ Good(cpu'[d], value', dns_buffer')
  <2>1. CASE d = c
    BY <1>2, <2>1
  <2>2. CASE d # c /\ d \in cpus
    <3>1. Good(cpu[d], value, dns_buffer)
      BY <2>2, Running
    <3>2. Good([cpu[d] EXCEPT !.disturbed = TRUE], value', dns_buffer')
      BY <3>1, Disturbed
    <3> QED BY <1>3, <2>2, <3>2
  <2>3. CASE d # c /\ d \notin cpus /\ cpu[d] # Idle
    <3>1. cpu[d].pc # "idle"
      BY <2>3, NotIdle DEF DnsInv, Flights, Flight
    <3>2. Good(cpu[d], value, dns_buffer)
      BY <3>1, Running
    <3>3. Good(cpu[d], value', dns_buffer')
      BY <2>3, <3>1, <3>2, Undisturbed
    <3> QED BY <1>3, <2>3, <3>3
  <2>4. CASE d # c /\ d \notin cpus /\ cpu[d] = Idle
    BY <1>3, <2>4
  <2> QED BY <2>1, <2>2, <2>3, <2>4
<1>5. \A d \in CPUs : cpu'[d] \in {Idle} \cup Flight
  BY <1>4, NotIdle
<1>6. cpu' \in [CPUs -> {Idle} \cup Flight]
  BY <1>1, <1>5
<1> QED BY <1>4, <1>6 DEF Flights

LEMMA ResponseStep ==
  ASSUME DnsInv, NEW c \in CPUs, create_query_response(c)
  PROVE  DnsInv'
<1> DEFINE r == cpu[c]
           s == [r EXCEPT !.pc = "address", !.pkt = modify_dns_header_response(r.pkt)]
           late == At({"address", "adjust", "copyTtl"})
           state == [cpu EXCEPT ![c].pc = "address", ![c].pkt = modify_dns_header_response(@)]
<1>1. /\ r.pc = "response" /\ UNCHANGED <<elemOf, value>> /\ out' = out
      /\ cpu' = Disturb(late, state) /\ dns_buffer' = [dns_buffer EXCEPT ![1] = r.a.ttl]
  BY DEF create_query_response, mapVars
<1>2. r \in Flight /\ Good(r, value, dns_buffer) /\ dns_buffer \in Nat \X Nat
  BY <1>1, Running DEF DnsInv, Types
<1>3. state = [cpu EXCEPT ![c] = s]
  BY <1>1, <1>2 DEF DnsInv, Flights, Flight
<1>4. r.a.ttl \in Nat
  BY <1>2 DEF Flight, Record
<1>5. dns_buffer' \in Nat \X Nat /\ dns_buffer'[2] = dns_buffer[2]
  BY <1>1, <1>2, <1>4, BufferWrites
<1>6. Types'
  BY <1>1, <1>5 DEF DnsInv, Types
<1>7. c \notin late /\ \A d \in late : d \in CPUs /\ cpu[d].pc # "idle"
  BY <1>1 DEF At
<1>8. \A d \in CPUs : d \in late \/ cpu[d].pc \notin {"address", "adjust", "copyTtl"}
  BY DEF At
<1>9. Good(s, value', dns_buffer')
  <2> HIDE DEF r, s
  <2>1. Good(s, value, [dns_buffer EXCEPT ![1] = r.a.ttl])
    BY <1>1, <1>2, ResponseBegun DEF s
  <2> QED BY <1>1, <2>1
<1> HIDE DEF s, late, state
<1>10. Flights'
  BY <1>1, <1>3, <1>5, <1>6, <1>7, <1>8, <1>9, Disturbing
<1>11. ReplyWellFormed' /\ ReceiverAccepts' /\ AnswerOwn'
  BY <1>1, NothingSent DEF DnsInv
<1> QED BY <1>6, <1>10, <1>11 DEF DnsInv

LEMMA AddressStep ==
  ASSUME DnsInv, NEW c \in CPUs, CopyAddress(c)
  PROVE  DnsInv'
<1> DEFINE r == cpu[c]
           s == [r EXCEPT !.pc = "adjust"]
           late == At({"adjust", "copyTtl", "copyIp"})
           state == [cpu EXCEPT ![c].pc = "adjust"]
<1>1. /\ r.pc = "address" /\ UNCHANGED <<elemOf, value>> /\ out' = out
      /\ cpu' = Disturb(late, state) /\ dns_buffer' = [dns_buffer EXCEPT ![2] = r.a.ip]
  BY DEF CopyAddress, mapVars
<1>2. r \in Flight /\ Good(r, value, dns_buffer) /\ dns_buffer \in Nat \X Nat
  BY <1>1, Running DEF DnsInv, Types
<1>3. state = [cpu EXCEPT ![c] = s]
  BY <1>1, <1>2 DEF DnsInv, Flights, Flight
<1>4. r.a.ip \in Nat
  BY <1>2 DEF Flight, Record
<1>5. dns_buffer' \in Nat \X Nat /\ dns_buffer'[1] = dns_buffer[1]
  BY <1>1, <1>2, <1>4, BufferWrites
<1>6. Types'
  BY <1>1, <1>5 DEF DnsInv, Types
<1>7. c \notin late /\ \A d \in late : d \in CPUs /\ cpu[d].pc # "idle"
  BY <1>1 DEF At
<1>8. \A d \in CPUs : d \in late \/ cpu[d].pc \notin {"adjust", "copyTtl", "copyIp"}
  BY DEF At
<1>9. Good(s, value', dns_buffer')
  <2> HIDE DEF r, s
  <2>1. Good(s, value, [dns_buffer EXCEPT ![2] = r.a.ip])
    BY <1>1, <1>2, AddressCopied DEF s
  <2> QED BY <1>1, <2>1
<1> HIDE DEF s, late, state
<1>10. Flights'
  BY <1>1, <1>3, <1>5, <1>6, <1>7, <1>8, <1>9, Disturbing
<1>11. ReplyWellFormed' /\ ReceiverAccepts' /\ AnswerOwn'
  BY <1>1, NothingSent DEF DnsInv
<1> QED BY <1>6, <1>10, <1>11 DEF DnsInv

LEMMA TransmitStep ==
  ASSUME DnsInv, NEW c \in CPUs, Transmit(c)
  PROVE  DnsInv'
<1> DEFINE r == cpu[c]
           k == update_ip_checksum(Reply(r.pkt))
           o == [verdict |-> "XDP_TX", in |-> r.in, pkt |-> k, want |-> r.want,
                 disturbed |-> r.disturbed]
<1>1. /\ r.pc = "finish" /\ UNCHANGED <<elemOf, value, dns_buffer>>
      /\ cpu' = [cpu EXCEPT ![c] = Idle] /\ out' = o
  BY DEF Transmit, Leaves, mapVars
<1>2. Good(r, value, dns_buffer)
  BY <1>1, Running
<1>3. Types' /\ Flights'
  BY <1>1, Alone
<1>4. r.q = parse_query(r.in.body)
  BY <1>2 DEF Good, Intact
<1> HIDE DEF r, k
<1>5. /\ out'.in = r.in /\ out'.pkt = k /\ out'.want = r.want
      /\ (~out'.disturbed => ~r.disturbed)
  BY <1>1
<1>6. /\ r.q.length \in Nat /\ r.q.length <= Len(r.in.body)
      /\ r.in.body[r.q.length] = DNS_CLASS_IN /\ r.in.body[r.q.length - 1] = A_RECORD_TYPE
  BY <1>1, <1>2, WholeQuestion
<1>7. /\ SubSeq(k.body, 1, r.q.length) = SubSeq(r.in.body, 1, r.q.length)
      /\ Len(k.body) = r.q.length + 2 /\ k.ans_count = 1
      /\ OneQuestion(r.in) => OneQuestion(k)
      /\ k.tot_len = k.udp_len + 2 /\ k.udp_len = Len(k.body) + 1
      /\ k.mac = Swap(r.in.mac) /\ k.ip = Swap(r.in.ip) /\ k.port = Swap(r.in.port)
      /\ LET total == SumOf(Words(k)) + k.check
         IN  total > 0 /\ total % (WordMod - 1) = 0
      /\ ~r.disturbed => /\ k.body[r.q.length + 1] = r.want.ttl
                         /\ k.body[r.q.length + 2] = r.want.ip
  BY <1>1, <1>2, Sent DEF k
<1> HIDE DEF o
<1>8. ReplyWellFormed'
  <2>1. OneQuestion(r.in) => OneQuestion(k) /\ Len(k.body) = r.q.length + Counted(k)
    BY <1>6, <1>7 DEF Counted, OneQuestion, AnswerLen, OptLen
  <2>2. \A f \in {"mac", "ip", "port"} : k[f] = Swap(r.in[f])
    BY <1>7
  <2>3. LET q == parse_query(out'.in.body)
            ql == q.length
        IN  /\ ql <= Len(out'.in.body)
            /\ SubSeq(out'.pkt.body, 1, ql) = SubSeq(out'.in.body, 1, ql)
            /\ out'.in.body[ql] = DNS_CLASS_IN /\ out'.in.body[ql - 1] = A_RECORD_TYPE
            /\ OneQuestion(out'.in) =>
                  /\ OneQuestion(out'.pkt)
                  /\ Len(out'.pkt.body) = ql + Counted(out'.pkt)
            /\ out'.pkt.tot_len = out'.pkt.udp_len + 2
            /\ out'.pkt.udp_len = Len(out'.pkt.body) + 1
            /\ \A f \in {"mac", "ip", "port"} : out'.pkt[f] = Swap(out'.in[f])
    BY <1>4, <1>5, <1>6, <1>7, <2>1, <2>2
  <2> QED BY <2>3 DEF ReplyWellFormed
<1>9. ReceiverAccepts'
  BY <1>5, <1>7 DEF ReceiverAccepts
<1>10. AnswerOwn'
  <2>1. Len(k.body) - 1 = r.q.length + 1
    BY <1>6, <1>7
  <2> QED BY <1>5, <1>7, <2>1 DEF AnswerOwn
<1> QED BY <1>3, <1>8, <1>9, <1>10 DEF DnsInv

(* The tool may write a free element that a query is still reading: that   *)
(* query is disturbed, no other sees a change.                             *)
LEMMA AddStep ==
  ASSUME DnsInv, NEW n \in Names, NEW x \in Records, Add(n, x)
  PROVE  DnsInv'
<1>1. PICK e \in FreeElems :
         /\ value' = [value EXCEPT ![e] = x]
         /\ elemOf' = [elemOf EXCEPT ![n] = e]
         /\ cpu' = Disturb({c \in At({"ip", "ttl"}) : cpu[c].elem = e}, cpu)
  BY DEF Add
<1>2. dns_buffer' = dns_buffer /\ out' = out
  BY DEF Add
<1>3. e \in Elems /\ x \in Record
  BY <1>1, ConstantsAssumption DEF FreeElems
<1>4. Types'
  BY <1>1, <1>2, <1>3 DEF DnsInv, Types
<1>5. \A d \in CPUs : /\ cpu[d].pc \in {"ip", "ttl"} /\ cpu[d].elem = e =>
                            cpu'[d] = [cpu[d] EXCEPT !.disturbed = TRUE]
                      /\ ~(cpu[d].pc \in {"ip", "ttl"} /\ cpu[d].elem = e) => cpu'[d] = cpu[d]
  BY <1>1 DEF Disturb, At
<1>6. cpu' = [d \in CPUs |-> cpu'[d]]
  BY <1>1 DEF Disturb
<1>7. ASSUME NEW d \in CPUs PROVE cpu'[d] = Idle \/ Good(cpu'[d], value', dns_buffer')
  <2>1. CASE cpu[d] = Idle
    BY <1>5, <2>1, NotIdle
  <2>2. CASE cpu[d] # Idle
    <3>1. Good(cpu[d], value, dns_buffer) /\ cpu[d] \in Flight
      BY <2>2, NotIdle DEF DnsInv, Flights
    <3>2. CASE cpu[d].pc \in {"ip", "ttl"} /\ cpu[d].elem = e
      <4>1. Good([cpu[d] EXCEPT !.disturbed = TRUE], value', dns_buffer')
        BY <3>1, Disturbed
      <4> QED BY <1>5, <3>2, <4>1
    <3>3. CASE ~(cpu[d].pc \in {"ip", "ttl"} /\ cpu[d].elem = e)
      <4>1. cpu[d].pc \in {"ip", "ttl"} => value'[cpu[d].elem] = value[cpu[d].elem]
        <5>1. cpu[d].pc \in {"ip", "ttl"} => cpu[d].elem \in Elems /\ cpu[d].elem # e
          BY <3>1, <3>3 DEF Good, Intact
        <5> QED BY <1>1, <5>1 DEF DnsInv, Types
      <4>2. Good(cpu[d], value', dns_buffer')
        BY <1>2, <3>1, <4>1, Undisturbed
      <4> QED BY <1>5, <3>3, <4>2
    <3> QED BY <3>2, <3>3
  <2> QED BY <2>1, <2>2
<1>8. \A d \in CPUs : cpu'[d] \in {Idle} \cup Flight
  BY <1>7, NotIdle
<1>9. cpu' \in [CPUs -> {Idle} \cup Flight]
  BY <1>6, <1>8
<1>10. Flights'
  BY <1>7, <1>9 DEF Flights
<1>11. ReplyWellFormed' /\ ReceiverAccepts' /\ AnswerOwn'
  BY <1>2, NothingSent DEF DnsInv
<1> QED BY <1>4, <1>10, <1>11 DEF DnsInv

(* A record removed stays in its element, where a query may still read it. *)
LEMMA RemoveStep ==
  ASSUME DnsInv, NEW n \in Names, Remove(n)
  PROVE  DnsInv'
<1>1. /\ UNCHANGED <<value, dns_buffer, cpu, out>> /\ elemOf' = [elemOf EXCEPT ![n] = NoElem]
  BY DEF Remove
<1>2. Types' /\ Flights'
  BY <1>1 DEF DnsInv, Types, Flights
<1>3. ReplyWellFormed' /\ ReceiverAccepts' /\ AnswerOwn'
  BY <1>1, NothingSent DEF DnsInv
<1> QED BY <1>2, <1>3 DEF DnsInv

-----------------------------------------------------------------------------
(* The theorems.                                                           *)

LEMMA InitDns == Init => DnsInv
<1> SUFFICES ASSUME Init PROVE DnsInv
  OBVIOUS
<1>1. Types
  BY RecordType DEF Init, Types
<1>2. Flights
  BY DEF Init, Flights
<1>3. out.verdict # "XDP_TX"
  BY DEF Init, NoOut
<1>4. ReplyWellFormed /\ ReceiverAccepts /\ AnswerOwn
  BY <1>3 DEF ReplyWellFormed, ReceiverAccepts, AnswerOwn
<1> QED BY <1>1, <1>2, <1>4 DEF DnsInv

LEMMA DnsStep == DnsInv /\ [Next]_vars => DnsInv'
<1> SUFFICES ASSUME DnsInv, [Next]_vars PROVE DnsInv'
  OBVIOUS
<1>1. CASE Attach \/ Return
  BY <1>1, LoaderStep DEF Attach, Return, mapVars
<1>2. CASE Cli
  <2>1. ASSUME NEW n \in Names, NEW x \in Records, Add(n, x) PROVE DnsInv'
    BY <2>1, AddStep
  <2>2. ASSUME NEW n \in Names, AddToFull(n) PROVE DnsInv'
    BY <2>2, LoaderStep DEF AddToFull
  <2>3. ASSUME NEW n \in Names, Remove(n) PROVE DnsInv'
    BY <2>3, RemoveStep
  <2> QED BY <1>2, <2>1, <2>2, <2>3 DEF Cli
<1>3. ASSUME NEW c \in CPUs, Xdp(c) PROVE DnsInv'
  <2>1. ASSUME NEW p \in Packets, PassOther(c, p) \/ xdp_dns(c, p) PROVE DnsInv'
    BY <2>1, PassStep, QueryStep
  <2>2. CASE match_a_records(c) \/ ReadIp(c) \/ ReadTtl(c)
    BY <2>2, MatchStep, ReadIpStep, ReadTtlStep
  <2>3. CASE create_query_response(c) \/ CopyAddress(c)
    BY <2>3, ResponseStep, AddressStep
  <2>4. CASE AdjustTail(c) \/ AdjustTailFails(c)
    BY <2>4, AdjustStep, AdjustFailsStep
  <2>5. CASE CopyTtl(c) \/ CopyIp(c) \/ Transmit(c)
    BY <2>5, CopyTtlStep, CopyIpStep, TransmitStep
  <2> QED BY <1>3, <2>1, <2>2, <2>3, <2>4, <2>5 DEF Xdp
<1>4. CASE UNCHANGED vars
  BY <1>4, LoaderStep DEF vars, mapVars
<1> QED BY <1>1, <1>2, <1>3, <1>4 DEF Next

LEMMA DnsInvariant == Spec => []DnsInv
  BY InitDns, DnsStep, PTL DEF Spec

(* Every packet xdp_dns sends back answers a whole A/IN question, keeps    *)
(* it, counts its records and lengths right and goes to who asked.         *)
THEOREM RepliesWellFormed == Spec => []ReplyWellFormed
<1>1. DnsInv => ReplyWellFormed
  BY DEF DnsInv
<1> QED BY <1>1, DnsInvariant, PTL

(* Folding the sum twice is enough: the checksum that update_ip_checksum   *)
(* stores is accepted, for any addresses and any width of a word.          *)
THEOREM ChecksumsAccepted == Spec => []ReceiverAccepts
<1>1. DnsInv => ReceiverAccepts
  BY DEF DnsInv
<1> QED BY <1>1, DnsInvariant, PTL

(* A query that no other CPU and no recycled element disturbed is answered *)
(* with the record its name had when match_a_records looked it up.         *)
THEOREM AnswersOwn == Spec => []AnswerOwn
<1>1. DnsInv => AnswerOwn
  BY DEF DnsInv
<1> QED BY <1>1, DnsInvariant, PTL
=============================================================================
