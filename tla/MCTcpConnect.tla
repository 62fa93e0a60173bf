---------------------------- MODULE MCTcpConnect ----------------------------
(* Instances of TcpConnect: two threads, two sockets, identities of a      *)
(* selected and of another process.                                        *)
EXTENDS TcpConnect, TLC

CONSTANTS t1, t2, s1, s2

MCThreads == {t1, t2}
MCOneThread == {t1}
MCSocks   == {s1, s2}
MCFlows   == {"f1", "f2"}
MCFlowOf  == s1 :> "f1" @@ s2 :> "f2"
MCPortOf  == s1 :> 80 @@ s2 :> 22
MCOneIdent == {[pid |-> 181, uid |-> 0]}
MCIdents  == {[pid |-> 181, uid |-> 0], [pid |-> 7, uid |-> 0]}
=============================================================================
