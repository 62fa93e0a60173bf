------------------------------ MODULE MCTcpRtt ------------------------------
(* Instances of TcpRtt: two local addresses that are each other's bytes    *)
(* reversed, ports 80 and 20480 (80 with its bytes swapped).               *)
EXTENDS TcpRtt, TLC

A1 == <<10, 1>>
A2 == <<1, 10>>
A3 == <<9, 9>>
MCAnyKey == <<0, 0>>
MCFlows == {[sport |-> 80, dport |-> 443, saddr |-> A1, daddr |-> A2],
            [sport |-> 80, dport |-> 443, saddr |-> A2, daddr |-> A1],
            [sport |-> 80, dport |-> 443, saddr |-> A3, daddr |-> A1],
            [sport |-> 20480, dport |-> 443, saddr |-> A2, daddr |-> A1]}
MCKeyOrder == <<MCAnyKey, A2, A3, A1>>

(* Times on and around every power of two that TLC's integers hold.        *)
MCTimes == 0 .. 40 \cup UNION {{2^k - 1, 2^k, 2^k + 1} : k \in 0 .. 30}
=============================================================================
