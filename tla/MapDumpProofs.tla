---------------------------- MODULE MapDumpProofs ----------------------------
(***************************************************************************)
(* Proofs about MapDump, for any map, values, rooms and number of changes  *)
(* made to the map while dump_hash runs.                                   *)
(***************************************************************************)
EXTENDS MapDump, FiniteSetTheorems, TLAPS

(* Counting.                                                               *)

LEMMA Least ==
  ASSUME NEW T, T \subseteq Nat, T # {}
  PROVE  \E m \in T : \A x \in T : m <= x
<1>1. PICK m \in T : \A x \in T : <<x, m>> \notin OpToRel(<, Nat)
  BY NatLessThanWellFounded, WFMin
<1>2. \A x \in T : ~(x < m)
  BY <1>1 DEF OpToRel
<1> QED BY <1>2

LEMMA DistinctCount ==
  ASSUME NEW m \in Nat, NEW f, \A i, j \in 1 .. m : i < j => f[i] # f[j]
  PROVE  LET R == {f[i] : i \in 1 .. m} IN IsFiniteSet(R) /\ Cardinality(R) = m
<1> DEFINE R == {f[i] : i \in 1 .. m}
           g == [i \in 1 .. m |-> f[i]]
<1>1. g \in [1 .. m -> R] /\ (\A i \in 1 .. m : g[i] = f[i]) /\ \A r \in R : \E i \in 1 .. m : g[i] = r
  OBVIOUS
<1>2. \A i, j \in 1 .. m : i # j => f[i] # f[j]
  OBVIOUS
<1> HIDE DEF g, R
<1>3. g \in Bijection(1 .. m, R)
  BY <1>1, <1>2 DEF Bijection, Injection, Surjection, IsInjective
<1>4. ExistsBijection(1 .. m, R)
  BY <1>3 DEF ExistsBijection
<1>5. IsFiniteSet(1 .. m) /\ Cardinality(1 .. m) = m
  BY FS_Interval
<1>6. IsFiniteSet(R) /\ Cardinality(R) = m
  BY <1>4, <1>5, FS_Bijection
<1> QED BY <1>6 DEF R

LEMMA KeysFinite == IsFiniteSet(Keys) /\ \A S : S \subseteq Keys => IsFiniteSet(S)
  BY ConstantsAssumption, FS_Subset

-----------------------------------------------------------------------------
(* The inductive invariant.                                                *)

Shown(m) == {keys[i] : i \in 1 .. m}

(* The first m keys were in the map: each is still there or was deleted.   *)
Alive(m) == \A i \in 1 .. m : /\ keys[i] \in Keys
                              /\ keys[i] \in deleted \/ map[keys[i]] # NoValue

(* A key still to be looked up is gone: the call will fail.                *)
Dead(l, m) == \E i \in l + 1 .. m : map[keys[i]] = NoValue
Distinct(m) == \A i, j \in 1 .. m : i < j => keys[i] # keys[j]

(* The keys listed so far are not ahead of the cursor.                     *)
Passed == \A l \in Shown(n) : l # key => Before(l, key)

Types ==
  /\ map \in [Keys -> Values \cup {NoValue}]
  /\ ops \in Nat /\ linked_at \in [Keys -> Int]
  /\ \A k, l \in Keys : /\ linked_at[k] <= ops
                        /\ linked_at[k] = linked_at[l] => k = l
  /\ pc \in {"batch", "keys", "values", "done"}
  /\ {room, count, n, found, batch} \subseteq Nat /\ count <= room
  /\ DOMAIN keys = 1 .. room /\ DOMAIN values = 1 .. room
  /\ pc # "done" => ret = NULL

(* The histories of what the other programs do.                            *)
OthersInv ==
  /\ \A k \in Keys : map[k] # NoValue => <<k, map[k]>> \in during
  /\ ~crowded => Cardinality(Present(map)) <= room

BatchInv == pc = "batch" =>
  /\ count = room /\ n <= count /\ key = NULL /\ (~supported => n = 0)
  /\ Alive(n) /\ Distinct(n) /\ \A i \in 1 .. n : bucketOf[keys[i]] < batch
  /\ inserted = {} => \A k \in Present(map) : bucketOf[k] < batch => k \in Shown(n)

WalkInv == pc = "keys" =>
  /\ n <= count /\ key = (IF n = 0 THEN NULL ELSE keys[n])
  /\ Alive(n)
  /\ ~relisted => Dead(0, n) \/ (Distinct(n) /\ Passed)
  /\ inserted = {} => Dead(0, n) \/ \A k \in Present(map) \ moved :
                         n > 0 /\ (k = key \/ Before(k, key)) => k \in Shown(n)
  /\ inserted = {} /\ ~crowded => Cardinality(Present(map)) <= count

ReadInv == pc = "values" =>
  /\ n <= found /\ found <= count
  /\ Alive(found)
  /\ \A i \in 1 .. n : <<keys[i], values[i]>> \in during
  /\ ~relisted => Dead(n, found) \/ Distinct(found)
  /\ inserted = {} /\ ~crowded /\ ~relisted =>
        Dead(n, found) \/ Present(map) \ moved \subseteq Shown(found)

DoneInv == ret = 0 =>
  /\ Alive(count)
  /\ \A i \in 1 .. count : <<keys[i], values[i]>> \in during
  /\ ~relisted => Distinct(count)
  /\ inserted = {} /\ ~crowded /\ ~relisted =>
        Present(map) \ moved \subseteq Shown(count)

DumpInv == /\ Types /\ OthersInv /\ BatchInv /\ WalkInv /\ ReadInv /\ DoneInv
           /\ FailsOnlyWithCause

LEMMA NullOut == NULL # 0 /\ NULL # -1 /\ NULL \notin Keys
  BY ConstantsAssumption

LEMMA PresentFinite ==
  ASSUME NEW m
  PROVE  IsFiniteSet(Present(m)) /\ Cardinality(Present(m)) \in Nat
  BY KeysFinite, FS_CardinalityType DEF Present

(* The walk's order is a strict total order of the keys.                   *)
LEMMA Order ==
  ASSUME Types
  PROVE  /\ \A x, y \in Keys : /\ x = y \/ Before(x, y) \/ Before(y, x)
                               /\ Before(x, y) => ~Before(y, x) /\ x # y
         /\ \A x, y, z \in Keys : Before(x, y) /\ Before(y, z) => Before(x, z)
<1>1. \A x \in Keys : bucketOf[x] \in Int /\ linked_at[x] \in Int
  BY ConstantsAssumption DEF Types
<1>2. \A x, y \in Keys : linked_at[x] = linked_at[y] => x = y
  BY DEF Types
<1> QED BY <1>1, <1>2 DEF Before

(* bpf_map_get_next_key returns the first key to come, if there is one.    *)
LEMMA NextKeyFirst ==
  ASSUME Types, After(key) # {}
  PROVE  next_key \in After(key) /\ \A y \in After(key) \ {next_key} : Before(next_key, y)
<1> DEFINE B == {bucketOf[x] : x \in After(key)}
<1>1. /\ After(key) \subseteq Keys /\ ops \in Nat
      /\ \A x \in Keys : bucketOf[x] \in Nat /\ linked_at[x] \in Int /\ ops - linked_at[x] \in Nat
  <2>1. After(key) \subseteq Keys
    BY DEF After, Present
  <2>2. \A x \in Keys : bucketOf[x] \in Nat
    BY ConstantsAssumption
  <2>3. ops \in Nat /\ \A x \in Keys : linked_at[x] \in Int /\ linked_at[x] <= ops
    BY DEF Types
  <2>4. \A x \in Keys : ops - linked_at[x] \in Nat
    BY ONLY <2>3
  <2> QED BY <2>1, <2>2, <2>3, <2>4
<1>2. B \subseteq Nat /\ B # {}
  BY <1>1
<1>3. PICK b \in B : \A c \in B : b <= c
  BY ONLY <1>2, Least
<1> DEFINE S == {x \in After(key) : bucketOf[x] = b}
           L == {ops - linked_at[x] : x \in S}
<1>4. L \subseteq Nat /\ L # {}
  BY <1>1
<1>5. PICK d \in L : \A c \in L : d <= c
  BY ONLY <1>4, Least
<1>6. PICK x \in S : d = ops - linked_at[x]
  OBVIOUS
<1>7. ASSUME NEW y \in After(key) \ {x} PROVE Before(x, y)
  <2>1. x \in Keys /\ y \in Keys /\ x # y /\ bucketOf[x] = b /\ b <= bucketOf[y]
    BY <1>1, <1>3, <1>6
  <2>2. CASE bucketOf[y] = b
    <3>1. ops - linked_at[y] \in L
      BY <1>7, <2>2
    <3>2. ops - linked_at[x] <= ops - linked_at[y]
      BY <1>5, <1>6, <3>1
    <3>3. linked_at[x] # linked_at[y]
      BY <2>1 DEF Types
    <3>4. linked_at[x] > linked_at[y]
      BY ONLY <1>1, <2>1, <3>2, <3>3
    <3> QED BY <2>1, <2>2, <3>4 DEF Before
  <2>3. CASE bucketOf[y] # b
    <3>1. bucketOf[x] \in Nat /\ bucketOf[y] \in Nat /\ bucketOf[x] <= bucketOf[y]
      BY <1>1, <2>1
    <3>2. bucketOf[x] # bucketOf[y]
      BY <2>1, <2>3
    <3>3. bucketOf[x] < bucketOf[y]
      BY ONLY <3>1, <3>2
    <3> QED BY <3>3 DEF Before
  <2> QED BY <2>2, <2>3
<1>8. \E z \in After(key) : \A y \in After(key) \ {z} : Before(z, y)
  BY <1>6, <1>7
<1> HIDE DEF S, L, B
<1> QED BY <1>8 DEF next_key

LEMMA InitDump == Init => DumpInv
<1> SUFFICES ASSUME Init PROVE DumpInv
  OBVIOUS
<1>1. Types
  BY ConstantsAssumption DEF Init, Types
<1>2. OthersInv
  <2>1. /\ during = Pairs(map)
        /\ crowded = (Cardinality(Present(map)) > room) /\ room \in Nat
    BY ConstantsAssumption DEF Init
  <2>2. ~crowded => ~(Cardinality(Present(map)) > room)
    BY <2>1, Zenon
  <2>3. ~crowded => Cardinality(Present(map)) <= room
    BY <2>1, <2>2, PresentFinite
  <2>5. \A k \in Keys : map[k] # NoValue => <<k, map[k]>> \in during
    BY <2>1 DEF Pairs, Present
  <2> QED BY <2>3, <2>5 DEF OthersInv
<1>3. BatchInv
  <2>1. count = room /\ room \in Nat /\ n = 0 /\ key = NULL /\ batch = 1
    BY ConstantsAssumption DEF Init
  <2>2. \A k \in Keys : ~(bucketOf[k] < 1)
    BY ConstantsAssumption
  <2> QED BY <2>1, <2>2 DEF BatchInv, Alive, Distinct, Present
<1>4. pc = "batch" /\ ret = NULL
  BY DEF Init
<1> QED BY <1>1, <1>2, <1>3, <1>4, NullOut
        DEF DumpInv, WalkInv, ReadInv, DoneInv, FailsOnlyWithCause

(* A step of the call leaves the map and its histories alone.              *)
LEMMA OthersUnchanged ==
  ASSUME OthersInv, UNCHANGED <<map, room, histVars>>
  PROVE  OthersInv'
  BY DEF OthersInv, histVars, Present

(* dump_hash gives up, with a cause.                                       *)
LEMMA GivesUp ==
  ASSUME DumpInv, pc' = "done", ret' = -1, UNCHANGED <<map, room, keys, values, histVars>>,
         Types', failed' \/ ~invalid_key' \/ deleted' # {} \/ crowded'
  PROVE  DumpInv'
<1>1. OthersInv'
  BY OthersUnchanged DEF DumpInv
<1> QED BY <1>1 DEF DumpInv, BatchInv, WalkInv, ReadInv, DoneInv, FailsOnlyWithCause

-----------------------------------------------------------------------------
(* The batch pass.                                                         *)

LEMMA BucketFinite ==
  ASSUME NEW b
  PROVE  IsFiniteSet(InBucket(b)) /\ Cardinality(InBucket(b)) \in Nat
  BY KeysFinite, FS_CardinalityType DEF InBucket, Present

LEMMA BatchBucketKeeps == ASSUME DumpInv, BatchBucket PROVE DumpInv'
<1> DEFINE S == InBucket(batch)
           c == Cardinality(S)
<1>1. /\ Types /\ OthersInv /\ pc = "batch" /\ supported /\ pc' = pc /\ ret' = ret
      /\ batch' = batch + 1 /\ n' = n + c /\ n + c <= count
      /\ UNCHANGED <<map, linked_at, ops, supported, invalid_key, room, key, found, histVars,
                     count, failed>>
  BY DEF BatchBucket, DumpInv, Reading, Fits, frame
<1>2. PICK new \in SetToSeqs(S) :
         /\ keys' = Overwrite(keys, n, new)
         /\ values' = Overwrite(values, n, [i \in DOMAIN new |-> map[new[i]]])
  BY DEF BatchBucket
<1>3. S \subseteq Keys /\ IsFiniteSet(S) /\ c \in Nat
  BY BucketFinite DEF InBucket, Present
<1> HIDE DEF c
<1>4. new \in [1 .. c -> S] /\ \A i, j \in 1 .. c : i # j => new[i] # new[j]
  BY <1>2 DEF SetToSeqs, c
<1>5. S = {new[i] : i \in 1 .. c}
  <2> DEFINE R == {new[i] : i \in 1 .. c}
  <2>1. \A i, j \in 1 .. c : i < j => new[i] # new[j]
    BY <1>3, <1>4
  <2>2. Cardinality(R) = c
    BY <1>3, <2>1, DistinctCount
  <2>3. R \in SUBSET S
    BY <1>4
  <2> HIDE DEF R, S
  <2>4. S = R
    BY <1>3, <2>2, <2>3, FS_Subset DEF c
  <2> QED BY <2>4 DEF R
<1>6. Len(new) = c
  BY <1>3, <1>4
<1>7. DOMAIN keys' = 1 .. room /\ DOMAIN values' = 1 .. room
  BY <1>1, <1>2 DEF Overwrite, Types
<1>8. /\ n \in Nat /\ count = room /\ room \in Nat /\ batch \in Nat /\ key = NULL
      /\ Alive(n) /\ Distinct(n) /\ \A i \in 1 .. n : bucketOf[keys[i]] < batch
      /\ inserted = {} => \A k \in Present(map) : bucketOf[k] < batch => k \in Shown(n)
  BY <1>1 DEF DumpInv, BatchInv, Types
<1>9. /\ \A i \in 1 .. n : keys'[i] = keys[i]
      /\ \A i \in n + 1 .. n + c : keys'[i] = new[i - n] /\ i - n \in 1 .. c
  BY <1>1, <1>2, <1>3, <1>6, <1>8 DEF Overwrite, Types
<1>10. \A i \in 1 .. c : new[i] \in Keys /\ map[new[i]] # NoValue /\ bucketOf[new[i]] = batch
  BY <1>4 DEF InBucket, Present
<1>11. \A k \in Keys : bucketOf[k] \in Nat
  BY ConstantsAssumption
<1> HIDE DEF S
<1>12. \A i \in 1 .. n + c : i \in 1 .. n \/ i \in n + 1 .. n + c
  BY <1>3, <1>8
<1>13. Alive(n)'
  BY <1>1, <1>8, <1>9, <1>10, <1>12 DEF Alive, histVars
<1>14. ASSUME NEW i \in 1 .. n + c, NEW j \in 1 .. n + c, i < j PROVE keys'[i] # keys'[j]
  <2>1. CASE j \in 1 .. n
    <3>1. i \in 1 .. n
      BY <1>3, <1>8, <1>14, <2>1
    <3> QED BY <1>8, <1>9, <1>14, <2>1, <3>1 DEF Distinct
  <2>2. CASE i \in 1 .. n /\ j \in n + 1 .. n + c
    <3>1. keys[i] \in Keys /\ bucketOf[keys[i]] < batch
      BY <1>8, <2>2 DEF Alive
    <3>2. bucketOf[keys'[j]] = batch
      BY <1>9, <1>10, <2>2
    <3> QED BY <1>8, <1>9, <1>11, <2>2, <3>1, <3>2
  <2>3. CASE i \in n + 1 .. n + c /\ j \in n + 1 .. n + c
    <3>1. i - n # j - n
      BY <1>3, <1>8, <1>14, <2>3
    <3> QED BY <1>4, <1>9, <2>3, <3>1
  <2> QED BY <1>12, <1>14, <2>1, <2>2, <2>3
<1>15. ASSUME NEW i \in 1 .. n + c PROVE bucketOf[keys'[i]] < batch + 1
  <2>1. CASE i \in 1 .. n
    BY <1>8, <1>9, <1>11, <2>1 DEF Alive
  <2>2. CASE i \in n + 1 .. n + c
    BY <1>8, <1>9, <1>10, <2>2
  <2> QED BY <1>12, <1>15, <2>1, <2>2
<1>16. ASSUME inserted = {}, NEW k \in Present(map), bucketOf[k] < batch + 1
       PROVE  \E i \in 1 .. n + c : keys'[i] = k
  <2>1. k \in Keys /\ bucketOf[k] \in Nat
    BY <1>11 DEF Present
  <2>2. CASE bucketOf[k] < batch
    <3>1. PICK i \in 1 .. n : keys[i] = k
      BY <1>8, <1>16, <2>2 DEF Shown
    <3> QED BY <1>3, <1>8, <1>9, <3>1
  <2>3. CASE bucketOf[k] = batch
    <3>1. PICK i \in 1 .. c : new[i] = k
      BY <1>5, <1>16, <2>3 DEF S, InBucket
    <3>2. n + i \in n + 1 .. n + c /\ n + i \in 1 .. n + c /\ (n + i) - n = i
      BY <1>3, <1>8
    <3> QED BY <1>9, <3>1, <3>2
  <2> QED BY <1>8, <1>16, <2>1, <2>2, <2>3
<1>17. BatchInv'
  <2>1. Distinct(n)' /\ \A i \in 1 .. n' : bucketOf[keys'[i]] < batch'
    BY <1>1, <1>14, <1>15 DEF Distinct
  <2>2. inserted' = {} => \A k \in Present(map)' : bucketOf[k] < batch' => k \in Shown(n)'
    BY <1>1, <1>16 DEF histVars, Present, Shown
  <2> QED BY <1>1, <1>8, <1>13, <2>1, <2>2 DEF BatchInv
<1>18. Types' /\ OthersInv'
  BY <1>1, <1>3, <1>7, <1>8, OthersUnchanged DEF Types
<1>19. ret' = NULL
  BY <1>1 DEF Types
<1> QED BY <1>1, <1>17, <1>18, <1>19, NullOut
        DEF DumpInv, WalkInv, ReadInv, DoneInv, FailsOnlyWithCause

(* The walk may start: nothing is read yet, and there is room for every    *)
(* key of a map that only shrank.                                          *)
LEMMA WalkStarts ==
  ASSUME DumpInv, pc' = "keys", n' = 0, key' = NULL, count' \in Nat, count' <= room,
         UNCHANGED <<map, linked_at, ops, room, found, keys, values, batch, ret, histVars>>,
         ret = NULL,
         inserted = {} /\ ~crowded => Cardinality(Present(map)) <= count'
  PROVE  DumpInv'
<1>1. Types' /\ OthersInv'
  BY OthersUnchanged DEF DumpInv, Types
<1>2. inserted' = inserted /\ crowded' = crowded /\ Present(map)' = Present(map)
  BY DEF histVars, Present
<1>3. WalkInv'
  BY <1>2 DEF WalkInv, Alive, Distinct, Passed, Shown
<1> QED BY <1>1, <1>3, NullOut
        DEF DumpInv, BatchInv, ReadInv, DoneInv, FailsOnlyWithCause

LEMMA BatchDoneKeeps == ASSUME DumpInv, BatchDone PROVE DumpInv'
<1>1. /\ Types /\ OthersInv /\ pc = "batch" /\ count' = n /\ n' = 0 /\ ret = NULL
      /\ batch > NBuckets \/ count = 0 \/ n = count
      /\ UNCHANGED <<map, linked_at, ops, room, key, found, invalid_key, keys, values, batch,
                     histVars, failed>>
      /\ IF invalid_key THEN pc' = "keys" /\ UNCHANGED ret ELSE Return(-1)
  BY DEF BatchDone, BatchEnds, BatchResult, DumpInv, frame, Types
<1>2. /\ n \in Nat /\ n <= room /\ count = room /\ room \in Nat /\ key = NULL /\ batch \in Nat
      /\ Distinct(n)
      /\ inserted = {} => \A k \in Present(map) : bucketOf[k] < batch => k \in Shown(n)
  BY <1>1 DEF DumpInv, BatchInv, Types
<1>3. CASE ~invalid_key
  <2>1. Types'
    BY <1>1, <1>2, <1>3 DEF Types, Return
  <2> QED BY <1>1, <1>3, <2>1, GivesUp DEF Return
<1>4. ASSUME inserted = {}, ~crowded PROVE Cardinality(Present(map)) <= n
  <2>1. Cardinality(Present(map)) <= room /\ Cardinality(Present(map)) \in Nat
    BY <1>1, <1>4, PresentFinite DEF OthersInv
  <2>2. CASE batch > NBuckets
    <3>1. \A k \in Present(map) : bucketOf[k] < batch
      BY <1>2, <2>2, ConstantsAssumption DEF Present
    <3>2. Present(map) \in SUBSET Shown(n)
      BY <1>2, <1>4, <3>1
    <3>3. IsFiniteSet(Shown(n)) /\ Cardinality(Shown(n)) = n
      BY <1>2, DistinctCount DEF Shown, Distinct
    <3> QED BY <3>2, <3>3, FS_Subset
  <2>3. CASE count = 0 \/ n = count
    BY <1>2, <2>1, <2>3
  <2> QED BY <1>1, <2>2, <2>3
<1>5. CASE invalid_key
  BY <1>1, <1>2, <1>4, <1>5, WalkStarts
<1> QED BY <1>3, <1>5

LEMMA BatchUnsupportedKeeps == ASSUME DumpInv, BatchUnsupported PROVE DumpInv'
<1>1. /\ Types /\ OthersInv /\ pc = "batch" /\ ~supported /\ ret = NULL
      /\ UNCHANGED <<map, linked_at, ops, room, key, found, invalid_key, count, keys, values,
                     n, batch, histVars, failed>>
      /\ IF invalid_key THEN pc' = "keys" /\ UNCHANGED ret ELSE Return(-1)
  BY DEF BatchUnsupported, DumpInv, frame, Types
<1>2. n = 0 /\ count = room /\ room \in Nat /\ key = NULL
  BY <1>1 DEF DumpInv, BatchInv, Types
<1>3. CASE ~invalid_key
  <2>1. Types'
    BY <1>1, <1>2, <1>3 DEF Types, Return
  <2> QED BY <1>1, <1>3, <2>1, GivesUp DEF Return
<1>4. CASE invalid_key
  BY <1>1, <1>2, <1>4, WalkStarts DEF OthersInv
<1> QED BY <1>3, <1>4

LEMMA BatchAgainKeeps == ASSUME DumpInv, BatchAgain PROVE DumpInv'
<1>1. UNCHANGED <<map, linked_at, ops, pc, supported, invalid_key, room, count, keys, values, n, batch, key,
                  found, ret, histVars, failed>>
  BY DEF BatchAgain, frame
<1> QED BY <1>1 DEF DumpInv, Types, OthersInv, BatchInv, WalkInv, ReadInv, DoneInv,
                    FailsOnlyWithCause, Alive, Dead, Distinct, Passed, Before, Shown, Present,
                    histVars

(* A bucket that never fits is in a map with more keys than room, unless   *)
(* keys that were read are gone.                                           *)
LEMMA BatchNoSpaceKeeps == ASSUME DumpInv, BatchNoSpace PROVE DumpInv'
<1>1. /\ Types /\ OthersInv /\ pc = "batch" /\ ~Fits /\ pc' = "done" /\ ret' = -1
      /\ UNCHANGED <<map, linked_at, ops, room, key, found, invalid_key, count, keys, values,
                     n, batch, histVars, failed>>
  BY DEF BatchNoSpace, Reading, Return, DumpInv, frame
<1>2. Types'
  BY <1>1 DEF Types
<1>3. ASSUME deleted = {}, ~crowded PROVE FALSE
  <2>1. /\ n \in Nat /\ count = room /\ room \in Nat /\ Alive(n) /\ Distinct(n)
        /\ \A i \in 1 .. n : bucketOf[keys[i]] < batch
    BY <1>1 DEF DumpInv, BatchInv, Types
  <2>2. IsFiniteSet(Shown(n)) /\ Cardinality(Shown(n)) = n
    BY <2>1, DistinctCount DEF Shown, Distinct
  <2>3. Shown(n) \subseteq Present(map) /\ InBucket(batch) \subseteq Present(map)
    BY <1>3, <2>1 DEF Shown, Alive, Present, InBucket
  <2>4. \A k \in Shown(n) : bucketOf[k] < batch
    BY <2>1 DEF Shown
  <2>5. Shown(n) \cap InBucket(batch) = {}
    <3>1. \A k \in InBucket(batch) : bucketOf[k] = batch /\ ~(batch < batch)
      BY <1>1 DEF InBucket, Types
    <3> QED BY <2>4, <3>1
  <2>6. IsFiniteSet(InBucket(batch)) /\ Cardinality(InBucket(batch)) \in Nat
    BY BucketFinite
  <2>7. Cardinality(Shown(n) \cup InBucket(batch)) = n + Cardinality(InBucket(batch))
    BY <2>1, <2>2, <2>5, <2>6, FS_Union, FS_EmptySet
  <2>8. Cardinality(Shown(n) \cup InBucket(batch)) <= Cardinality(Present(map))
    BY <2>3, PresentFinite, FS_Subset
  <2>9. Cardinality(Present(map)) <= room /\ Cardinality(Present(map)) \in Nat
    BY <1>1, <1>3, PresentFinite DEF OthersInv
  <2> QED BY <1>1, <2>1, <2>6, <2>7, <2>8, <2>9 DEF Fits
<1>4. deleted' # {} \/ crowded'
  BY <1>1, <1>3 DEF histVars
<1> QED BY <1>1, <1>2, <1>4, GivesUp

LEMMA FailsKeeps == ASSUME DumpInv, Fails PROVE DumpInv'
<1>1. /\ Types /\ pc' = "done" /\ ret' = -1 /\ failed'
      /\ UNCHANGED <<map, linked_at, ops, room, found, count, keys, values, n, batch, histVars>>
  BY DEF Fails, Return, DumpInv, frame
<1>2. Types'
  BY <1>1 DEF Types
<1> QED BY <1>1, <1>2, GivesUp

-----------------------------------------------------------------------------
(* The walk.                                                               *)

LEMMA GetKeyKeeps == ASSUME DumpInv, GetKey PROVE DumpInv'
<1> DEFINE x == next_key
<1>1. /\ Types /\ OthersInv /\ pc = "keys" /\ n < count /\ key' = x /\ n' = n + 1
      /\ keys' = [keys EXCEPT ![n + 1] = x] /\ pc' = pc /\ ret' = ret
      /\ UNCHANGED <<map, linked_at, ops, room, found, count, values, batch, histVars>>
  BY DEF GetKey, Cursor, DumpInv
<1>2. /\ x \in After(key) /\ \A y \in After(key) \ {x} : Before(x, y)
  BY <1>1, NextKeyFirst DEF GetKey
<1>3. /\ x \in Present(map) /\ x \in Keys /\ map[x] # NoValue
      /\ key \in Present(map) => Before(key, x)
  BY <1>2 DEF After, Present
<1> HIDE DEF x
<1>4. /\ n \in Nat /\ count \in Nat /\ room \in Nat /\ count <= room /\ n + 1 \in 1 .. room
      /\ 1 .. n + 1 = 1 .. n \cup {n + 1}
  BY <1>1 DEF Types
<1>5. keys'[n + 1] = x /\ DOMAIN keys' = 1 .. room /\ \A i \in 1 .. n : keys'[i] = keys[i]
  BY <1>1, <1>4 DEF Types
<1>6. /\ key = (IF n = 0 THEN NULL ELSE keys[n]) /\ Alive(n)
      /\ ~relisted => Dead(0, n) \/ (Distinct(n) /\ Passed)
      /\ inserted = {} => Dead(0, n) \/ \A k \in Present(map) \ moved :
                             n > 0 /\ (k = key \/ Before(k, key)) => k \in Shown(n)
      /\ inserted = {} /\ ~crowded => Cardinality(Present(map)) <= count
  BY <1>1 DEF DumpInv, WalkInv
<1>7. /\ Present(map)' = Present(map) /\ inserted' = inserted /\ crowded' = crowded
      /\ relisted' = relisted /\ moved' = moved /\ deleted' = deleted
      /\ \A k, l : Before(k, l)' <=> Before(k, l)
  BY <1>1 DEF Present, histVars, Before
<1>8. Alive(n)'
  BY <1>1, <1>3, <1>4, <1>5, <1>6, <1>7 DEF Alive
<1>9. Dead(0, n) => Dead(0, n)'
  BY <1>1, <1>4, <1>5, <1>7 DEF Dead
<1>10. n > 0 /\ ~Dead(0, n) => key = keys[n] /\ key \in Keys /\ key \in Present(map)
  BY <1>4, <1>6 DEF Alive, Dead, Present
<1>11. ASSUME ~Dead(0, n), Distinct(n), Passed PROVE Distinct(n)' /\ Passed'
  <2>1. ASSUME NEW i \in 1 .. n PROVE Before(keys[i], x)
    <3>1. n > 0 /\ n \in 1 .. n
      BY <1>4
    <3>2. keys[i] \in Keys /\ key \in Keys /\ key \in Present(map)
      BY <1>6, <1>10, <1>11, <3>1 DEF Alive
    <3>3. keys[i] = key \/ Before(keys[i], key)
      BY <1>11 DEF Passed, Shown
    <3> QED BY <1>1, <1>3, <3>2, <3>3, Order
  <2>2. \A i \in 1 .. n : keys[i] \in Keys /\ keys[i] # x
    BY <1>1, <1>3, <1>6, <2>1, Order DEF Alive
  <2>3. \A i, j \in 1 .. n + 1 : i < j => i \in 1 .. n
    BY <1>4
  <2>4. Distinct(n)'
    BY <1>1, <1>4, <1>5, <1>11, <2>2, <2>3 DEF Distinct
  <2>5. Passed'
    BY <1>1, <1>4, <1>5, <1>7, <2>1 DEF Passed, Shown
  <2> QED BY <2>4, <2>5
<1>12. ASSUME inserted = {}, ~Dead(0, n), NEW k \in Present(map) \ moved,
              k = x \/ Before(k, x)
       PROVE  \E i \in 1 .. n + 1 : keys'[i] = k
  <2>1. k \in Keys /\ n + 1 \in 1 .. n + 1
    BY <1>4 DEF Present
  <2>2. CASE k \in After(key)
    <3>1. k = x
      BY <1>1, <1>2, <1>3, <1>12, <2>1, <2>2, Order
    <3> QED BY <1>5, <2>1, <3>1
  <2>3. CASE k \notin After(key)
    <3>1. key \in Present(map) /\ ~Before(key, k) /\ key \in Keys
      BY <2>3 DEF After, Present
    <3>2. n > 0
      BY <1>4, <1>6, <3>1, NullOut
    <3>3. k = key \/ Before(k, key)
      BY <1>1, <2>1, <3>1, Order
    <3>4. k \in Shown(n)
      BY <1>6, <1>12, <3>2, <3>3
    <3> QED BY <1>4, <1>5, <3>4 DEF Shown
  <2> QED BY <2>2, <2>3
<1>13. WalkInv'
  <2>1. ~relisted' => Dead(0, n)' \/ (Distinct(n)' /\ Passed')
    BY <1>6, <1>7, <1>9, <1>11
  <2>2. inserted' = {} => Dead(0, n)' \/ \A k \in (Present(map) \ moved)' :
                n' > 0 /\ (k = key' \/ Before(k, key)') => k \in Shown(n)'
    <3>1. \A k : Before(k, key)' => Before(k, x)
      BY <1>1 DEF Before
    <3> QED BY <1>1, <1>7, <1>9, <1>12, <3>1 DEF Shown
  <2>3. n' <= count' /\ key' = (IF n' = 0 THEN NULL ELSE keys'[n'])
    BY <1>1, <1>4, <1>5
  <2> QED BY <1>1, <1>6, <1>7, <1>8, <2>1, <2>2, <2>3 DEF WalkInv
<1>14. Types' /\ OthersInv'
  BY <1>1, <1>4, <1>5, OthersUnchanged DEF Types
<1>15. ret' = NULL
  BY <1>1 DEF Types
<1> QED BY <1>1, <1>13, <1>14, <1>15, NullOut
        DEF DumpInv, BatchInv, ReadInv, DoneInv, FailsOnlyWithCause

LEMMA KeysEndKeeps == ASSUME DumpInv, KeysEnd PROVE DumpInv'
<1>1. /\ Types /\ OthersInv /\ pc = "keys" /\ pc' = "values" /\ found' = n /\ n' = 0
      /\ n = count \/ After(key) = {}
      /\ ret' = ret
      /\ UNCHANGED <<map, linked_at, ops, room, key, count, keys, values, batch, histVars>>
  BY DEF KeysEnd, DumpInv
<1>2. /\ n \in Nat /\ count \in Nat /\ n <= count
      /\ key = (IF n = 0 THEN NULL ELSE keys[n]) /\ Alive(n)
      /\ ~relisted => Dead(0, n) \/ Distinct(n)
      /\ inserted = {} => Dead(0, n) \/ \A k \in Present(map) \ moved :
                             n > 0 /\ (k = key \/ Before(k, key)) => k \in Shown(n)
      /\ inserted = {} /\ ~crowded => Cardinality(Present(map)) <= count
  BY <1>1 DEF DumpInv, WalkInv, Types
<1>3. /\ Present(map)' = Present(map) /\ inserted' = inserted /\ crowded' = crowded
      /\ relisted' = relisted /\ moved' = moved /\ deleted' = deleted
  BY <1>1 DEF Present, histVars
<1>4. ASSUME inserted = {}, ~crowded, ~relisted, ~Dead(0, n)
      PROVE  Present(map) \ moved \subseteq Shown(n)
  <2>1. \A i \in 1 .. n : keys[i] \in Present(map)
    BY <1>2, <1>4 DEF Alive, Dead, Present
  <2>2. CASE After(key) = {}
    <3>1. CASE n = 0
      BY <1>2, <2>2, <3>1, NullOut DEF After, Present
    <3>2. CASE n > 0
      <4>1. key \in Present(map) /\ key \in Keys
        BY <1>2, <2>1, <3>2 DEF Present
      <4>2. \A k \in Present(map) : k \in Keys /\ ~Before(key, k)
        BY <2>2, <4>1 DEF After, Present
      <4>3. \A k \in Present(map) : k = key \/ Before(k, key)
        BY <1>1, <4>1, <4>2, Order
      <4> QED BY <1>2, <1>4, <3>2, <4>3
    <3> QED BY <1>2, <3>1, <3>2
  <2>3. CASE n = count
    <3>1. \A i, j \in 1 .. n : i < j => keys[i] # keys[j]
      BY <1>2, <1>4 DEF Distinct
    <3>2. IsFiniteSet(Shown(n)) /\ Cardinality(Shown(n)) = n
      BY <1>2, <3>1, DistinctCount DEF Shown
    <3>3. Shown(n) \in SUBSET Present(map)
      BY <2>1 DEF Shown
    <3>4. /\ Cardinality(Shown(n)) <= Cardinality(Present(map))
          /\ Cardinality(Present(map)) = Cardinality(Shown(n)) => Present(map) = Shown(n)
      BY <3>3, PresentFinite, FS_Subset
    <3>5. Cardinality(Present(map)) = n
      BY <1>2, <1>4, <2>3, <3>2, <3>4, PresentFinite
    <3> QED BY <3>2, <3>4, <3>5
  <2> QED BY <1>1, <2>2, <2>3
<1>5. /\ Alive(found)' /\ (Dead(0, n) => Dead(n, found)') /\ (Distinct(n) => Distinct(found)')
      /\ Present(map) \ moved \subseteq Shown(n) =>
            (Present(map) \ moved \subseteq Shown(found))'
  BY <1>1, <1>2, <1>3 DEF Alive, Dead, Distinct, Shown
<1>6. ReadInv'
  <2>1. ~relisted' => Dead(n, found)' \/ Distinct(found)'
    BY <1>2, <1>3, <1>5
  <2>2. inserted' = {} /\ ~crowded' /\ ~relisted' =>
           Dead(n, found)' \/ (Present(map) \ moved \subseteq Shown(found))'
    BY <1>3, <1>4, <1>5
  <2>3. n' <= found' /\ found' <= count' /\ 1 .. n' = {}
    BY <1>1, <1>2
  <2> QED BY <1>5, <2>1, <2>2, <2>3 DEF ReadInv
<1>7. Types' /\ OthersInv'
  BY <1>1, OthersUnchanged DEF Types
<1>8. ret' = NULL
  BY <1>1 DEF Types
<1> QED BY <1>1, <1>6, <1>7, <1>8, NullOut
        DEF DumpInv, BatchInv, WalkInv, DoneInv, FailsOnlyWithCause

-----------------------------------------------------------------------------
(* Reading the values.                                                     *)

LEMMA GetValueKeeps == ASSUME DumpInv, GetValue PROVE DumpInv'
<1>1. /\ Types /\ OthersInv /\ pc = "values" /\ n < found /\ map[keys[n + 1]] # NoValue
      /\ values' = [values EXCEPT ![n + 1] = map[keys[n + 1]]] /\ n' = n + 1
      /\ UNCHANGED <<map, linked_at, ops, room, found, pc, count, keys, batch, ret, histVars>>
  BY DEF GetValue, DumpInv, frame
<1>2. /\ n \in Nat /\ found \in Nat /\ room \in Nat /\ found <= count /\ count <= room
      /\ n + 1 \in 1 .. found /\ n + 1 \in 1 .. room /\ count \in Nat
      /\ Alive(found) /\ \A i \in 1 .. n : <<keys[i], values[i]>> \in during
      /\ ~relisted => Dead(n, found) \/ Distinct(found)
      /\ inserted = {} /\ ~crowded /\ ~relisted =>
            Dead(n, found) \/ Present(map) \ moved \subseteq Shown(found)
  BY <1>1 DEF DumpInv, ReadInv, Types
<1>3. /\ Present(map)' = Present(map) /\ inserted' = inserted /\ crowded' = crowded
      /\ relisted' = relisted /\ moved' = moved /\ deleted' = deleted /\ during' = during
  BY <1>1 DEF Present, histVars
<1>4. /\ values'[n + 1] = map[keys[n + 1]] /\ DOMAIN values' = 1 .. room
      /\ \A i \in 1 .. n : values'[i] = values[i]
  BY <1>1, <1>2 DEF Types
<1>5. <<keys[n + 1], map[keys[n + 1]]>> \in during
  BY <1>1, <1>2 DEF OthersInv, Alive
<1>6. \A i \in 1 .. n' : <<keys'[i], values'[i]>> \in during'
  <2>1. \A i \in 1 .. n + 1 : i \in 1 .. n \/ i = n + 1
    BY <1>2
  <2> QED BY <1>1, <1>2, <1>3, <1>4, <1>5, <2>1
<1>7. Dead(n, found) => Dead(n, found)'
  <2>1. \A i \in n + 1 .. found : i = n + 1 \/ i \in (n + 1) + 1 .. found
    BY <1>2
  <2> QED BY <1>1, <2>1 DEF Dead
<1>8. /\ Alive(found)' /\ (Distinct(found) => Distinct(found)')
      /\ Present(map) \ moved \subseteq Shown(found) =>
            (Present(map) \ moved \subseteq Shown(found))'
  BY <1>1, <1>2, <1>3 DEF Alive, Distinct, Shown
<1>9. ReadInv'
  <2>1. ~relisted' => Dead(n, found)' \/ Distinct(found)'
    BY <1>2, <1>3, <1>7, <1>8
  <2>2. inserted' = {} /\ ~crowded' /\ ~relisted' =>
           Dead(n, found)' \/ (Present(map) \ moved \subseteq Shown(found))'
    BY <1>2, <1>3, <1>7, <1>8
  <2>3. n' <= found' /\ found' <= count'
    BY <1>1, <1>2
  <2> QED BY <1>6, <1>8, <2>1, <2>2, <2>3 DEF ReadInv
<1>10. Types' /\ OthersInv'
  BY <1>1, <1>4, OthersUnchanged DEF Types
<1>11. ret' = NULL
  BY <1>1 DEF Types
<1> QED BY <1>1, <1>9, <1>10, <1>11, NullOut
        DEF DumpInv, BatchInv, WalkInv, DoneInv, FailsOnlyWithCause

LEMMA ValueGoneKeeps == ASSUME DumpInv, ValueGone PROVE DumpInv'
<1>1. /\ Types /\ pc = "values" /\ n < found /\ map[keys[n + 1]] = NoValue
      /\ pc' = "done" /\ ret' = -1
      /\ UNCHANGED <<map, linked_at, ops, room, found, count, keys, values, n, batch, histVars>>
  BY DEF ValueGone, Return, DumpInv, frame
<1>2. n + 1 \in 1 .. found /\ Alive(found)
  BY <1>1 DEF DumpInv, ReadInv, Types
<1>3. deleted' # {}
  BY <1>1, <1>2 DEF Alive, histVars
<1>4. Types'
  BY <1>1 DEF Types
<1> QED BY <1>1, <1>3, <1>4, GivesUp

LEMMA ValuesEndKeeps == ASSUME DumpInv, ValuesEnd PROVE DumpInv'
<1>1. /\ Types /\ OthersInv /\ pc = "values" /\ n = found /\ pc' = "done" /\ ret' = 0
      /\ count' = found
      /\ UNCHANGED <<map, linked_at, ops, room, found, keys, values, n, batch, histVars>>
  BY DEF ValuesEnd, Return, DumpInv, frame
<1>2. /\ found \in Nat /\ found <= count /\ count <= room /\ count \in Nat /\ room \in Nat
      /\ Alive(found) /\ \A i \in 1 .. found : <<keys[i], values[i]>> \in during
      /\ ~relisted => Dead(found, found) \/ Distinct(found)
      /\ inserted = {} /\ ~crowded /\ ~relisted =>
            Dead(found, found) \/ Present(map) \ moved \subseteq Shown(found)
  BY <1>1 DEF DumpInv, ReadInv, Types
<1>3. ~Dead(found, found)
  BY <1>2 DEF Dead
<1>4. DoneInv'
  BY <1>1, <1>2, <1>3 DEF DoneInv, Alive, Distinct, Shown, Present, histVars
<1>5. Types' /\ OthersInv'
  BY <1>1, <1>2, OthersUnchanged DEF Types
<1> QED BY <1>1, <1>4, <1>5 DEF DumpInv, BatchInv, WalkInv, ReadInv, FailsOnlyWithCause

-----------------------------------------------------------------------------
(* The other programs.  What they do to the map is harmless to every phase *)
(* of the call as long as a key leaves the map only by being deleted, and  *)
(* comes only by being inserted.                                           *)

LEMMA PhasesKept ==
  ASSUME Types, BatchInv, WalkInv, ReadInv, UNCHANGED callVars,
         deleted \subseteq deleted', during \subseteq during', moved \subseteq moved',
         \A k \in Keys : map[k] # NoValue => map'[k] # NoValue \/ k \in deleted',
         ~relisted' => ~relisted, ~crowded' => ~crowded,
         ~relisted' => \A l \in Listed : map[l] = NoValue => map'[l] = NoValue,
         inserted' = {} => inserted = {} /\ Present(map)' \subseteq Present(map),
         ~relisted' /\ pc = "keys" /\ key \in Present(map) =>
            \A l \in Listed : l \in Keys /\ l # key /\ Before(l, key) => Before(l, key)',
         inserted' = {} /\ pc = "keys" /\ key \in Present(map) =>
            \A l \in (Present(map) \ moved)' : Before(l, key)' => Before(l, key)
  PROVE  BatchInv' /\ WalkInv' /\ ReadInv'
<1> USE DEF callVars
<1>1. /\ Alive(n) => Alive(n)'
      /\ Alive(found) => Alive(found)'
  BY DEF Alive
<1>2. /\ pc = "keys" => Listed = Shown(n)
      /\ pc = "values" => Listed = Shown(found)
  BY DEF Listed, Shown
<1>3. /\ Distinct(n)' = Distinct(n) /\ Distinct(found)' = Distinct(found)
      /\ Shown(n)' = Shown(n) /\ Shown(found)' = Shown(found)
  BY DEF Distinct, Shown
<1>4. inserted' = {} => Cardinality(Present(map)') <= Cardinality(Present(map))
  BY PresentFinite, FS_Subset
<1>5. Cardinality(Present(map)) \in Nat /\ Cardinality(Present(map)') \in Nat
  BY PresentFinite
<1>6. inserted' = {} => \A l \in Keys : map[l] = NoValue => map'[l] = NoValue
  BY DEF Present
<1>7. BatchInv'
  BY <1>1, <1>3 DEF BatchInv
<1>8. WalkInv'
  <2> SUFFICES ASSUME pc = "keys" PROVE WalkInv'
    BY DEF WalkInv
  <2>1. /\ n <= count /\ key = (IF n = 0 THEN NULL ELSE keys[n]) /\ Alive(n) /\ n \in Nat
        /\ ~relisted => Dead(0, n) \/ (Distinct(n) /\ Passed)
        /\ inserted = {} => Dead(0, n) \/ \A k \in Present(map) \ moved :
                               n > 0 /\ (k = key \/ Before(k, key)) => k \in Shown(n)
        /\ inserted = {} /\ ~crowded => Cardinality(Present(map)) <= count
    BY DEF WalkInv, Types
  <2>2. ~relisted' \/ inserted' = {} => (Dead(0, n) => Dead(0, n)')
    <3>1. \A i \in 1 .. n : keys[i] \in Keys /\ keys[i] \in Listed
      BY <1>2, <2>1 DEF Alive, Shown
    <3> QED BY <1>6, <3>1 DEF Dead
  <2>3. n > 0 /\ ~Dead(0, n) => key \in Present(map)
    BY <2>1 DEF Dead, Alive, Present
  <2>4. ASSUME ~relisted', ~Dead(0, n)' PROVE Distinct(n)' /\ Passed'
    <3>1. ~Dead(0, n) /\ Distinct(n) /\ Passed
      BY <2>1, <2>2, <2>4
    <3>2. ASSUME NEW l \in Shown(n), l # key PROVE Before(l, key)'
      <4>1. n > 0 /\ l \in Keys /\ Before(l, key)
        BY <2>1, <3>1, <3>2 DEF Shown, Alive, Passed
      <4> QED BY <1>2, <2>3, <2>4, <3>1, <3>2, <4>1
    <3> QED BY <1>3, <3>1, <3>2 DEF Passed
  <2>5. ASSUME inserted' = {}, ~Dead(0, n)', NEW k \in (Present(map) \ moved)', n > 0,
               k = key \/ Before(k, key)'
        PROVE  k \in Shown(n)
    <3>1. ~Dead(0, n) /\ inserted = {} /\ k \in Present(map) \ moved /\ key \in Present(map)
      BY <2>2, <2>3, <2>5
    <3>2. k = key \/ Before(k, key)
      BY <2>5, <3>1
    <3> QED BY <2>1, <2>5, <3>1, <3>2
  <2>6. inserted' = {} /\ ~crowded' => Cardinality(Present(map)') <= count'
    BY <1>4, <1>5, <2>1 DEF Types
  <2>7. inserted' = {} => Dead(0, n)' \/ \A k \in (Present(map) \ moved)' :
                n' > 0 /\ (k = key' \/ Before(k, key)') => k \in Shown(n)'
    BY <1>3, <2>5
  <2>8. n' <= count' /\ key' = (IF n' = 0 THEN NULL ELSE keys'[n']) /\ Alive(n)'
    BY <1>1, <2>1
  <2> QED BY <2>4, <2>6, <2>7, <2>8 DEF WalkInv
<1>9. ReadInv'
  <2> SUFFICES ASSUME pc = "values" PROVE ReadInv'
    BY DEF ReadInv
  <2>1. /\ n <= found /\ found <= count /\ Alive(found) /\ n \in Nat
        /\ \A i \in 1 .. n : <<keys[i], values[i]>> \in during
        /\ ~relisted => Dead(n, found) \/ Distinct(found)
        /\ inserted = {} /\ ~crowded /\ ~relisted =>
              Dead(n, found) \/ Present(map) \ moved \subseteq Shown(found)
    BY DEF ReadInv, Types
  <2>2. ~relisted' => (Dead(n, found) => Dead(n, found)')
    <3>1. \A i \in n + 1 .. found : i \in 1 .. found
      BY <2>1
    <3>2. \A i \in n + 1 .. found : keys[i] \in Listed
      BY <1>2, <3>1 DEF Shown
    <3> QED BY <3>2 DEF Dead
  <2>3. ~relisted' => Dead(n, found)' \/ Distinct(found)'
    BY <1>3, <2>1, <2>2
  <2>4. inserted' = {} /\ ~crowded' /\ ~relisted' =>
           Dead(n, found)' \/ (Present(map) \ moved \subseteq Shown(found))'
    BY <1>3, <2>1, <2>2
  <2> QED BY <1>1, <2>1, <2>3, <2>4 DEF ReadInv
<1> QED BY <1>7, <1>8, <1>9

LEMMA UpdateKeeps ==
  ASSUME DumpInv, NEW k \in Keys, NEW v \in Values, Update(k, v)
  PROVE  DumpInv'
<1>1. /\ Types /\ OthersInv /\ pc # "done" /\ map' = [map EXCEPT ![k] = v]
      /\ linked_at' = [linked_at EXCEPT ![k] = ops + 1] /\ ops' = ops + 1
      /\ during' = during \cup {<<k, v>>} /\ deleted' = deleted
      /\ inserted' = IF map[k] = NoValue THEN inserted \cup {k} ELSE inserted
      /\ moved' = IF Overtakes(k) THEN moved \cup {k} ELSE moved
      /\ UNCHANGED <<callVars, failed>>
  BY DEF Update, DumpInv
<1>2. /\ ~relisted' => ~relisted /\ ~Relists(k)
      /\ ~crowded' => ~crowded /\ ~(Cardinality(Present(map')) > room)
  BY Zenon DEF Update
<1>3. /\ map' \in [Keys -> Values \cup {NoValue}] /\ map'[k] = v /\ v # NoValue
      /\ \A l \in Keys \ {k} : map'[l] = map[l]
  BY <1>1, ConstantsAssumption DEF Types
<1>4. /\ ops \in Nat /\ linked_at \in [Keys -> Int] /\ linked_at' \in [Keys -> Int]
      /\ linked_at'[k] = ops + 1
      /\ \A l \in Keys : linked_at[l] \in Int /\ linked_at[l] <= ops
      /\ \A l \in Keys \ {k} : linked_at'[l] = linked_at[l]
  BY <1>1 DEF Types
<1>5. inserted' = {} => inserted = {} /\ map[k] # NoValue
  BY <1>1
<1>6. Types' /\ ret' = NULL
  <2>1. \A l, x \in Keys : /\ linked_at'[l] <= ops'
                           /\ linked_at'[l] = linked_at'[x] => l = x
    <3>1. \A l, x \in Keys : linked_at[l] = linked_at[x] => l = x
      BY <1>1 DEF Types
    <3>2. \A l \in Keys \ {k} : linked_at'[l] # ops + 1
      BY <1>4
    <3> QED BY <1>1, <1>4, <3>1, <3>2
  <2> QED BY <1>1, <1>3, <1>4, <2>1 DEF Types, callVars
<1>7. OthersInv'
  <2>1. \A l \in Keys : map'[l] # NoValue => <<l, map'[l]>> \in during'
    BY <1>1, <1>3 DEF OthersInv
  <2>2. Present(map') = Present(map)'
    BY DEF Present
  <2>3. ~crowded' => Cardinality(Present(map)') <= room'
    BY <1>1, <1>2, <2>2, PresentFinite DEF Types, callVars
  <2> QED BY <2>1, <2>3 DEF OthersInv
<1>8. \A l \in Keys : map[l] # NoValue => map'[l] # NoValue
  BY <1>3
<1>9. inserted' = {} => Present(map)' \subseteq Present(map)
  BY <1>3, <1>5 DEF Present
<1>10. ASSUME ~relisted', NEW l \in Listed, map[l] = NoValue PROVE map'[l] = NoValue
  <2>1. l # k
    BY <1>2, <1>10 DEF Relists
  <2> QED BY <1>1, <1>10, <2>1 DEF Types
<1>11. ASSUME ~relisted', pc = "keys", key \in Present(map), NEW l \in Listed, l \in Keys,
              l # key, Before(l, key)
       PROVE  Before(l, key)'
  <2>1. key \in Keys /\ key' = key
    BY <1>1, <1>11 DEF Present, callVars
  <2>2. CASE k = key
    BY <1>2, <1>11, <2>1, <2>2 DEF Relists, Before
  <2>3. CASE k = l
    BY <1>4, <1>11, <2>1, <2>3 DEF Before
  <2>4. CASE k \notin {key, l}
    BY <1>4, <1>11, <2>1, <2>4 DEF Before
  <2> QED BY <2>2, <2>3, <2>4
<1>12. ASSUME inserted' = {}, pc = "keys", key \in Present(map),
              NEW l \in (Present(map) \ moved)', Before(l, key)'
       PROVE  Before(l, key)
  <2>1. key \in Keys /\ key' = key /\ l \in Present(map) /\ l \in Keys
    BY <1>1, <1>9, <1>12 DEF Present, callVars
  <2>2. CASE bucketOf[l] # bucketOf[key]
    BY <1>12, <2>1, <2>2 DEF Before
  <2>3. CASE bucketOf[l] = bucketOf[key] /\ k = key
    BY <1>4, <1>12, <2>1, <2>3, ConstantsAssumption DEF Before
  <2>4. CASE bucketOf[l] = bucketOf[key] /\ k = l /\ k # key
    <3>1. ~Overtakes(l)
      BY <1>1, <1>12, <2>4
    <3>2. ~Before(key, l)
      BY <1>12, <2>1, <2>4, <3>1 DEF Overtakes, After
    <3> QED BY <1>1, <2>1, <2>4, <3>2, Order
  <2>5. CASE k \notin {key, l}
    BY <1>4, <1>12, <2>1, <2>5 DEF Before
  <2> QED BY <2>2, <2>3, <2>4, <2>5
<1>13. BatchInv' /\ WalkInv' /\ ReadInv'
  <2>1. deleted \subseteq deleted' /\ during \subseteq during' /\ moved \subseteq moved'
    BY <1>1
  <2> QED BY <1>1, <1>2, <1>5, <1>8, <1>9, <1>10, <1>11, <1>12, <2>1, PhasesKept DEF DumpInv
<1> QED BY <1>6, <1>7, <1>13, NullOut DEF DumpInv, DoneInv, FailsOnlyWithCause

(* A store and a deletion change no place in a bucket.                     *)
LEMMA StoreKeeps ==
  ASSUME DumpInv, NEW k \in Keys, NEW v \in Values, Store(k, v)
  PROVE  DumpInv'
<1>1. /\ Types /\ OthersInv /\ pc # "done" /\ map' = [map EXCEPT ![k] = v]
      /\ map[k] # NoValue /\ ops' = ops + 1 /\ during' = during \cup {<<k, v>>}
      /\ UNCHANGED <<linked_at, callVars, inserted, deleted, moved, relisted, crowded, failed>>
  BY DEF Store, DumpInv
<1>2. /\ map' \in [Keys -> Values \cup {NoValue}] /\ map'[k] = v /\ v # NoValue
      /\ \A l \in Keys \ {k} : map'[l] = map[l]
  BY <1>1, ConstantsAssumption DEF Types
<1>3. Present(map)' = Present(map)
  BY <1>1, <1>2 DEF Present
<1>4. Types' /\ ret' = NULL
  BY <1>1, <1>2 DEF Types, callVars
<1>5. OthersInv'
  BY <1>1, <1>2, <1>3 DEF OthersInv, callVars
<1>6. \A l : map[l] = NoValue => map'[l] = NoValue
  BY <1>1 DEF Types
<1>7. BatchInv' /\ WalkInv' /\ ReadInv'
  <2>1. key' = key
    BY <1>1 DEF callVars
  <2>2. \A l : Before(l, key)' <=> Before(l, key)
    BY <1>1, <2>1 DEF Before
  <2> QED BY <1>1, <1>2, <1>3, <1>6, <2>2, PhasesKept DEF DumpInv
<1> QED BY <1>4, <1>5, <1>7, NullOut DEF DumpInv, DoneInv, FailsOnlyWithCause

LEMMA DeleteKeeps == ASSUME DumpInv, NEW k \in Keys, Delete(k) PROVE DumpInv'
<1>1. /\ Types /\ OthersInv /\ pc # "done" /\ map' = [map EXCEPT ![k] = NoValue]
      /\ deleted' = deleted \cup {k} /\ ops' = ops + 1
      /\ UNCHANGED <<linked_at, callVars, during, inserted, moved, relisted, crowded, failed>>
  BY DEF Delete, DumpInv
<1>2. /\ map' \in [Keys -> Values \cup {NoValue}] /\ map'[k] = NoValue
      /\ \A l \in Keys \ {k} : map'[l] = map[l]
  BY <1>1 DEF Types
<1>3. Present(map)' \subseteq Present(map)
  BY <1>2 DEF Present
<1>4. Types' /\ ret' = NULL
  BY <1>1, <1>2 DEF Types, callVars
<1>5. OthersInv'
  <2>1. \A l \in Keys : map'[l] # NoValue => <<l, map'[l]>> \in during'
    BY <1>1, <1>2 DEF OthersInv
  <2>2. Cardinality(Present(map)') <= Cardinality(Present(map))
    BY <1>3, PresentFinite, FS_Subset
  <2>3. ~crowded' => Cardinality(Present(map)') <= room'
    BY <1>1, <2>2, PresentFinite DEF OthersInv, Types, callVars
  <2> QED BY <2>1, <2>3 DEF OthersInv
<1>6. \A l \in Keys : map[l] # NoValue => map'[l] # NoValue \/ l \in deleted'
  BY <1>1, <1>2
<1>7. \A l : map[l] = NoValue => map'[l] = NoValue
  BY <1>1 DEF Types
<1>8. BatchInv' /\ WalkInv' /\ ReadInv'
  <2>1. key' = key
    BY <1>1 DEF callVars
  <2>2. \A l : Before(l, key)' <=> Before(l, key)
    BY <1>1, <2>1 DEF Before
  <2> QED BY <1>1, <1>3, <1>6, <1>7, <2>2, PhasesKept DEF DumpInv
<1> QED BY <1>4, <1>5, <1>8, NullOut DEF DumpInv, DoneInv, FailsOnlyWithCause

LEMMA DumpStep == DumpInv /\ [Next]_vars => DumpInv'
<1> SUFFICES ASSUME DumpInv, [Next]_vars PROVE DumpInv'
  OBVIOUS
<1>1. CASE BatchBucket \/ BatchDone \/ BatchAgain \/ BatchNoSpace \/ BatchUnsupported
  BY <1>1, BatchBucketKeeps, BatchDoneKeeps, BatchAgainKeeps, BatchNoSpaceKeeps,
     BatchUnsupportedKeeps
<1>2. CASE GetKey \/ KeysEnd
  BY <1>2, GetKeyKeeps, KeysEndKeeps
<1>3. CASE GetValue \/ ValueGone \/ ValuesEnd
  BY <1>3, GetValueKeeps, ValueGoneKeeps, ValuesEndKeeps
<1>4. CASE Fails
  BY <1>4, FailsKeeps
<1>5. CASE \E k \in Keys : Delete(k) \/ \E v \in Values : Update(k, v) \/ Store(k, v)
  BY <1>5, DeleteKeeps, UpdateKeeps, StoreKeeps
<1>6. CASE UNCHANGED vars
  <2>1. UNCHANGED <<map, linked_at, ops, pc, supported, invalid_key, room, count, keys, values,
                    n, batch, key, found, ret, during, inserted, deleted, moved, relisted,
                    crowded, failed>>
    BY <1>6 DEF vars, callVars, histVars
  <2>2. Types' /\ OthersInv' /\ FailsOnlyWithCause'
    BY <2>1 DEF DumpInv, Types, OthersInv, Present, FailsOnlyWithCause
  <2>3. BatchInv'
    BY <2>1 DEF DumpInv, BatchInv, Alive, Distinct, Shown, Present
  <2>4. WalkInv'
    BY <2>1 DEF DumpInv, WalkInv, Alive, Dead, Distinct, Passed, Before, Shown, Present
  <2>5. ReadInv' /\ DoneInv'
    BY <2>1 DEF DumpInv, ReadInv, DoneInv, Alive, Dead, Distinct, Shown, Present
  <2> QED BY <2>2, <2>3, <2>4, <2>5 DEF DumpInv
<1> QED BY <1>1, <1>2, <1>3, <1>4, <1>5, <1>6 DEF Next, dump_hash

LEMMA DumpHolds == Spec => []DumpInv
  BY InitDump, DumpStep, PTL DEF Spec

-----------------------------------------------------------------------------
(* What dump_hash promises, whatever happens to the map meanwhile.         *)

(* Every pair it returns was in the map during the call, and no more of    *)
(* them than the caller has room for.                                      *)
THEOREM PairsHold == Spec => []PairsWereThere
<1>1. DumpInv => PairsWereThere
  BY DEF DumpInv, DoneInv, Types, PairsWereThere, Result
<1> QED BY <1>1, DumpHolds, PTL

(* It shows a key twice only if an update or an insertion put listed keys  *)
(* ahead of the walk again.                                                *)
THEOREM TwiceHasCause == Spec => []TwiceOnlyAfterRelisting
<1>1. ASSUME DumpInv PROVE TwiceOnlyAfterRelisting
  <2> SUFFICES ASSUME ret = 0, ~relisted, NEW i \in 1 .. count, NEW j \in 1 .. count,
                      keys[i] = keys[j]
               PROVE  i = j
    BY DEF TwiceOnlyAfterRelisting
  <2>1. Distinct(count) /\ count \in Nat
    BY <1>1 DEF DumpInv, DoneInv, Types
  <2>2. ~(i < j) /\ ~(j < i)
    BY <2>1 DEF Distinct
  <2> QED BY <2>1, <2>2
<1> QED BY <1>1, DumpHolds, PTL

(* It misses no key that was there all the time and that no update took    *)
(* past the cursor, if there was room, nothing was inserted and nothing    *)
(* was listed twice.                                                       *)
THEOREM StableKeysHold == Spec => []StableKeysShown
<1>1. DumpInv => StableKeysShown
  BY DEF DumpInv, DoneInv, StableKeysShown, Shown
<1> QED BY <1>1, DumpHolds, PTL

(* It fails only with one of the four causes.                              *)
THEOREM FailureHasCause == Spec => []FailsOnlyWithCause
<1>1. DumpInv => FailsOnlyWithCause
  BY DEF DumpInv
<1> QED BY <1>1, DumpHolds, PTL
=============================================================================
