---------------------------- MODULE MCInterrupt -----------------------------
(* Four stacks, two of them in one bucket, for two elements; symbol tables *)
(* with and without symbols of address 0 and of equal addresses.           *)
EXTENDS Interrupt

S1 == <<6, 9>>
S2 == <<10, 0>>
S3 == <<9, 13>>
S4 == <<7, 1>>
MCStacks == {S1, S2, S3, S4}
MCBucketOf == S1 :> 1 @@ S2 :> 2 @@ S3 :> 1 @@ S4 :> 3

Table(addrs) == {[addr |-> a, name |-> <<a, 1>>] : a \in addrs}
T1 == Table({5, 8, 11, 14})
T2 == Table({0, 5, 8, 11, 12}) \cup {[addr |-> 8, name |-> <<8, 2>>]}
T3 == Table({0, 2, 6, 9})
MCTables == {T1, T2, T3, {}}
=============================================================================
