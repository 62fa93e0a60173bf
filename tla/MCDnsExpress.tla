---------------------------- MODULE MCDnsExpress ----------------------------
EXTENDS DnsExpress, TLC

Symmetry == Permutations(Elems) \cup Permutations(CPUs)

n1 == <<7>>
n2 == <<7, 8>>
MCNames == {n1, n2}
MCRecords == {[ip |-> 11, ttl |-> 21], [ip |-> 12, ttl |-> 22]}

(* A query for a name, followed by an OPT record or not, from one client.  *)
Query(question, opt) ==
    [proto |-> "udp", port |-> <<1024, 53>>, qr |-> 0, opcode |-> 0, ra |-> 0,
     q_count |-> 1, ans_count |-> 0, auth_count |-> 0, add_count |-> opt,
     body |-> question \o (IF opt = 1 THEN <<41>> ELSE <<>>),
     tot_len |-> HeaderLen + Len(question) + opt,
     udp_len |-> HeaderLen - 2 + Len(question) + opt,
     mac |-> <<"client", "server">>, ip |-> <<10, 12>>, check |-> 0]

Whole(n) == n \o <<0, A_RECORD_TYPE, DNS_CLASS_IN>>

Plain == {Query(Whole(n1), 0), Query(Whole(n2), 0)}

(* Packets that are no query, or no whole question.                        *)
Odd == {Query(<<7>>, 0), Query(<<7, 0>>, 0), Query(<<7, 0, 1>>, 0),
        Query(<<7, 0, 28, 1>>, 0), Query(<<7, 7, 7, 0, 1, 1>>, 0),
        Query(<<0, 1, 1>>, 0),
        [Query(Whole(n1), 0) EXCEPT !.qr = 1],
        [Query(Whole(n1), 0) EXCEPT !.proto = "tcp"],
        [Query(Whole(n1), 0) EXCEPT !.port = <<53, 1024>>]}

(* A second question, and an authority record; a query with an OPT record. *)
More == {[Query(Whole(n1) \o Whole(n2), 0) EXCEPT !.q_count = 2],
         [Query(Whole(n1) \o <<6>>, 0) EXCEPT !.auth_count = 1],
         Query(Whole(n1), 1)}

AllPackets == Plain \cup More \cup Odd
=============================================================================
