-------------------------- MODULE ConnectReporting --------------------------
(***************************************************************************)
(* What a connect tracer promises about one thread's connect() calls,      *)
(* whatever probes it uses: while a call is open it is reported at most    *)
(* once, and the report names the socket that call was made on.  A call    *)
(* may also end without a report (it failed, it was filtered out, or some  *)
(* resource ran out).                                                      *)
(***************************************************************************)
CONSTANTS Threads,   \* thread ids
          Socks,     \* sockets
          NoSock     \* "no call open"

VARIABLES
    sk,              \* sk[t]: socket of the connect() thread t is in, or NoSock
    reported         \* reported[t]: the reports made for that connect()

absVars == <<sk, reported>>

Init == /\ sk = [t \in Threads |-> NoSock]
        /\ reported = [t \in Threads |-> <<>>]

Begin(t, s) == /\ sk[t] = NoSock
               /\ sk' = [sk EXCEPT ![t] = s]
               /\ reported' = [reported EXCEPT ![t] = <<>>]

Report(t) == /\ sk[t] # NoSock
             /\ reported[t] = <<>>
             /\ reported' = [reported EXCEPT ![t] = <<sk[t]>>]
             /\ UNCHANGED sk

End(t) == /\ sk[t] # NoSock
          /\ sk' = [sk EXCEPT ![t] = NoSock]
          /\ UNCHANGED reported

Next == \E t \in Threads : \/ \E s \in Socks : Begin(t, s)
                           \/ Report(t)
                           \/ End(t)

Spec == Init /\ [][Next]_absVars
=============================================================================
