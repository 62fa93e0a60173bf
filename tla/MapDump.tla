------------------------------ MODULE MapDump -------------------------------
(***************************************************************************)
(* dump_hash of plugin/libbpf-test/map_helpers.c: the contents of a BPF    *)
(* hash map copied into the caller's arrays while BPF programs go on       *)
(* updating and deleting.  A batch pass over the buckets comes first; what *)
(* follows it, also when it succeeded, is a walk from key to key, limited  *)
(* to as many keys as the batch pass found.                                *)
(***************************************************************************)
EXTENDS Integers, Sequences, FiniteSets, SequencesExt

CONSTANTS
    Keys,
    NBuckets, bucketOf,     \* the map's buckets, and the one each key is in
    firstLinks,     \* linked_at at the call
    Values,
    NoValue,        \* "no such key"
    NULL,
    Rooms,          \* values of *count: entries the caller's arrays hold
    MaxOps          \* bound: updates and deletions during the call

ASSUME ConstantsAssumption ==
    /\ NoValue \notin Values /\ NULL \notin Keys \cup {0, -1}
    /\ Rooms \subseteq Nat /\ MaxOps \in Nat
    /\ NBuckets \in Nat /\ bucketOf \in [Keys -> 1 .. NBuckets]
    /\ IsFiniteSet(Keys) /\ firstLinks \in [Keys -> Int]
    /\ \A k, l \in Keys : /\ firstLinks[k] <= 0
                          /\ firstLinks[k] = firstLinks[l] => k = l

VARIABLES
    map,            \* map[k] \in Values, or NoValue
    linked_at,      \* when k's element was linked at the head of its bucket
    pc,             \* where dump_hash is; "done" once it has returned
    supported,      \* does the kernel know batch operations?
    invalid_key,    \* is the caller's invalid_key given?
    room,           \* the caller's *count at the call
    count,          \* *count
    keys, values,   \* the arrays, NULL where nothing was written
    n,              \* entries done in the current pass (n_read, n or i)
    batch,          \* the bucket the batch pass is at
    total,          \* entries the current bpf_map_lookup_batch has copied
    key,            \* the cursor of the walk, NULL for invalid_key
    found,          \* n of dump_hash_iter once its walk is over
    ret,
    ops,
    during,         \* history: the pairs in the map at some time in the call
    inserted, deleted,      \* history: keys that came and went since
    moved,          \* history: keys an update took past the walk's cursor
    relisted,       \* history: a key already listed is ahead of the walk again
    crowded, failed \* history: more keys than room; a system call failed

callVars == <<pc, supported, invalid_key, room, count, keys, values, n, batch,
              total, key, found, ret>>
histVars == <<during, inserted, deleted, moved, relisted, crowded>>
vars == <<map, linked_at, callVars, ops, histVars, failed>>

Present(m) == {k \in Keys : m[k] # NoValue}
Pairs(m) == {<<k, m[k]>> : k \in Present(m)}

(* dump_hash is called on a map in use.                                    *)
Init ==
    /\ map \in [Keys -> Values \cup {NoValue}] /\ linked_at = firstLinks
    /\ pc = "batch"
    /\ supported \in BOOLEAN /\ invalid_key \in BOOLEAN
    /\ room \in Rooms /\ count = room
    /\ keys = [i \in 1 .. room |-> NULL] /\ values = [i \in 1 .. room |-> NULL]
    /\ n = 0 /\ batch = 1 /\ total = 0 /\ key = NULL /\ found = 0
    /\ ret = NULL /\ ops = 0
    /\ during = Pairs(map)
    /\ inserted = {} /\ deleted = {} /\ moved = {} /\ relisted = FALSE
    /\ crowded = (Cardinality(Present(map)) > room)
    /\ failed = FALSE

Return(r) == pc' = "done" /\ ret' = r

-----------------------------------------------------------------------------
(* dump_hash_batch.  The kernel copies one bucket at a time, whole, under  *)
(* its lock, in any order (external).                                      *)

InBucket(b) == {k \in Present(map) : bucketOf[k] = b}
Overwrite(array, from, new) ==
    [i \in DOMAIN array |->
        IF i \in from + 1 .. from + Len(new) THEN new[i - from] ELSE array[i]]

\* Fault: the entries of the call that ended with -ENOENT are not counted.
BatchResultBefore == IF batch > NBuckets THEN n - total ELSE n

BatchResult == n

\* Fault: -ENOENT, which says that all was read, is taken for a failure.
BatchEndsFailed ==
    /\ Return(-1)
    /\ UNCHANGED <<count, keys, values, n, batch, total>>

(* The pass is over: *count is what it read, and dump_hash goes on to the  *)
(* walk, or gives up without an invalid_key to start it from.              *)
BatchEnds ==
    /\ count' = BatchResult
    /\ IF invalid_key THEN pc' = "keys" /\ UNCHANGED ret ELSE Return(-1)
    /\ n' = 0
    /\ UNCHANGED <<keys, values, batch, total>>

Reading == pc = "batch" /\ supported /\ batch <= NBuckets
Fits == n + Cardinality(InBucket(batch)) <= count
frame == <<map, linked_at, supported, invalid_key, room, key, found, ops, histVars>>

BatchBucket ==
    /\ Reading /\ count > 0 /\ Fits
    /\ \E new \in SetToSeqs(InBucket(batch)) :
          /\ keys' = Overwrite(keys, n, new)
          /\ values' = Overwrite(values, n, [i \in DOMAIN new |-> map[new[i]]])
    /\ n' = n + Cardinality(InBucket(batch))
    /\ total' = total + Cardinality(InBucket(batch))
    /\ batch' = batch + 1
    /\ UNCHANGED <<frame, pc, count, ret, failed>>

(* All buckets were read (-ENOENT), or the room is used up exactly.        *)
BatchDone ==
    /\ pc = "batch" /\ supported
    /\ \/ batch > NBuckets \/ count = 0
       \/ Reading /\ n = count /\ ~Fits
    /\ BatchEnds
    /\ UNCHANGED <<frame, failed>>

(* The bucket does not fit: a call that copied something returns, and the  *)
(* loop makes another one.                                                 *)
BatchAgain ==
    /\ Reading /\ ~Fits /\ n < count /\ total > 0
    /\ total' = 0
    /\ UNCHANGED <<frame, pc, count, keys, values, n, batch, ret, failed>>

\* Fault: -ENOSPC ends neither the pass nor the call.
BatchNoSpaceRetried ==
    /\ Reading /\ ~Fits /\ n < count /\ total = 0
    /\ UNCHANGED <<frame, pc, count, keys, values, n, batch, total, ret, failed>>

(* One that copied nothing fails with -ENOSPC, and so does dump_hash.      *)
BatchNoSpace ==
    /\ Reading /\ ~Fits /\ n < count /\ total = 0
    /\ Return(-1)
    /\ UNCHANGED <<frame, count, keys, values, n, batch, total, failed>>

(* Any system call may fail for another reason.                            *)
Fails ==
    /\ \/ (Reading \/ pc = "keys") /\ n < count
       \/ pc = "values" /\ n < found
    /\ Return(-1) /\ failed' = TRUE
    /\ UNCHANGED <<frame, count, keys, values, n, batch, total>>

(* EINVAL: no batch operations; *count is as it was, and so is             *)
(* batch_map_ops, whose reset comes after a return.                        *)
BatchUnsupported ==
    /\ pc = "batch" /\ ~supported
    /\ IF invalid_key THEN pc' = "keys" /\ UNCHANGED ret ELSE Return(-1)
    /\ UNCHANGED <<frame, count, keys, values, n, batch, total, failed>>

-----------------------------------------------------------------------------
(* dump_hash_iter.                                                         *)

(* bpf_map_get_next_key (external) goes from bucket to bucket, and within  *)
(* one from the element linked last to the first; from a key that is not   *)
(* in the map the walk starts again.                                       *)
Before(x, y) == \/ bucketOf[x] < bucketOf[y]
                \/ bucketOf[x] = bucketOf[y] /\ linked_at[x] > linked_at[y]
After(k) == {x \in Present(map) : k \in Present(map) => Before(k, x)}

next_key == CHOOSE x \in After(key) : \A y \in After(key) \ {x} : Before(x, y)

\* Fault: the cursor is not moved on.
CursorLeft == key

Cursor == next_key

GetKey ==
    /\ pc = "keys" /\ n < count /\ After(key) # {}
    /\ key' = Cursor
    /\ keys' = [keys EXCEPT ![n + 1] = next_key]
    /\ n' = n + 1
    /\ UNCHANGED <<map, linked_at, supported, invalid_key, room, found, pc, count,
                   values, batch, total, ret, ops, histVars, failed>>

(* The keys are there, n of them (-ENOENT, or no room for more).           *)
KeysEnd ==
    /\ pc = "keys" /\ (n = count \/ After(key) = {})
    /\ pc' = "values" /\ found' = n /\ n' = 0
    /\ UNCHANGED <<map, linked_at, supported, invalid_key, room, key, count, keys,
                   values, batch, total, ret, ops, histVars, failed>>

GetValue ==
    /\ pc = "values" /\ n < found /\ map[keys[n + 1]] # NoValue
    /\ values' = [values EXCEPT ![n + 1] = map[keys[n + 1]]]
    /\ n' = n + 1
    /\ UNCHANGED <<frame, pc, count, keys, batch, total, ret, failed>>

\* Fault: a key that is gone is passed over.
ValueSkipped ==
    /\ pc = "values" /\ n < found /\ map[keys[n + 1]] = NoValue
    /\ n' = n + 1
    /\ UNCHANGED <<frame, pc, count, keys, values, batch, total, ret, failed>>

(* A key that is gone fails the whole dump.                                *)
ValueGone ==
    /\ pc = "values" /\ n < found /\ map[keys[n + 1]] = NoValue
    /\ Return(-1)
    /\ UNCHANGED <<frame, count, keys, values, n, batch, total, failed>>

ValuesEnd ==
    /\ pc = "values" /\ n = found
    /\ Return(0) /\ count' = found
    /\ UNCHANGED <<frame, keys, values, n, batch, total, failed>>

-----------------------------------------------------------------------------
(* The BPF programs that own the map.                                      *)

(* The keys the walk has listed (found is 0 before its end).               *)
Listed == {keys[i] : i \in 1 .. IF pc = "keys" THEN n ELSE found}

(* Linking k again takes it from behind the cursor to before it ...        *)
Overtakes(k) ==
    /\ pc = "keys" /\ key \in Present(map) /\ k \in After(key)
    /\ bucketOf[k] = bucketOf[key]

(* ... or puts listed keys behind the cursor k, or revives a listed key.   *)
Relists(k) ==
    \/ pc = "keys" /\ k = key /\ \E l \in Listed \ {k} : bucketOf[l] = bucketOf[k]
    \/ map[k] = NoValue /\ k \in Listed

(* bpf_map_update_elem puts a new element at the head of the bucket, also  *)
(* in place of one that is there.                                          *)
Update(k, v) ==
    /\ pc # "done" /\ ops < MaxOps
    /\ map' = [map EXCEPT ![k] = v]
    /\ linked_at' = [linked_at EXCEPT ![k] = ops + 1]
    /\ ops' = ops + 1
    /\ during' = during \cup {<<k, v>>}
    /\ inserted' = IF map[k] = NoValue THEN inserted \cup {k} ELSE inserted
    /\ moved' = IF Overtakes(k) THEN moved \cup {k} ELSE moved
    /\ relisted' = (relisted \/ Relists(k))
    /\ crowded' = (crowded \/ Cardinality(Present(map')) > room)
    /\ UNCHANGED <<callVars, deleted, failed>>

(* A program writes through the pointer bpf_map_lookup_elem gave it.       *)
Store(k, v) ==
    /\ pc # "done" /\ ops < MaxOps /\ map[k] \notin {NoValue, v}
    /\ map' = [map EXCEPT ![k] = v]
    /\ ops' = ops + 1
    /\ during' = during \cup {<<k, v>>}
    /\ UNCHANGED <<linked_at, callVars, inserted, deleted, moved, relisted, crowded,
                   failed>>

Delete(k) ==
    /\ pc # "done" /\ ops < MaxOps /\ map[k] # NoValue
    /\ map' = [map EXCEPT ![k] = NoValue]
    /\ ops' = ops + 1
    /\ deleted' = deleted \cup {k}
    /\ UNCHANGED <<linked_at, callVars, during, inserted, moved, relisted, crowded,
                   failed>>

-----------------------------------------------------------------------------
dump_hash == \/ BatchBucket \/ BatchDone \/ BatchAgain \/ BatchNoSpace
             \/ BatchUnsupported
             \/ GetKey \/ KeysEnd \/ GetValue \/ ValueGone \/ ValuesEnd

Next == \/ dump_hash \/ Fails
        \/ \E k \in Keys : Delete(k) \/ \E v \in Values : Update(k, v) \/ Store(k, v)

(* The calling thread is scheduled; nothing makes a system call fail.      *)
Spec == Init /\ [][Next]_vars /\ WF_vars(dump_hash)

-----------------------------------------------------------------------------
(* Properties.                                                             *)

Result == {<<keys[i], values[i]>> : i \in 1 .. count}

(* Every pair dump_hash returns was in the map at some time in the call:   *)
(* key and value belong together although they are read apart, and nothing *)
(* the batch pass left in the arrays shows through.                        *)
PairsWereThere == ret = 0 => count <= room /\ Result \subseteq during

(* A key appears twice only if the walk's cursor was updated with listed   *)
(* keys in its bucket, or a listed key was deleted and inserted again: a   *)
(* deleted cursor alone sends the walk back to the start, but then the     *)
(* read of its value fails the call.                                       *)
TwiceOnlyAfterRelisting ==
    ret = 0 /\ ~relisted => \A i, j \in 1 .. count : keys[i] = keys[j] => i = j

(* A key that was in the map all the time is missed only if an update took *)
(* it past the cursor, if there was room, nothing was inserted and no room *)
(* was spent on keys listed twice: deletions, other updates and stores     *)
(* cannot hide it.                                                         *)
StableKeysShown ==
    ret = 0 /\ inserted = {} /\ ~crowded /\ ~relisted =>
        Present(map) \ moved \subseteq {keys[i] : i \in 1 .. count}

(* dump_hash fails only with a reason: a failing system call, no           *)
(* invalid_key, a key deleted meanwhile, or more keys than room.           *)
FailsOnlyWithCause ==
    ret = -1 => failed \/ ~invalid_key \/ deleted # {} \/ crowded

(* dump_hash returns, whatever happens to the map.                         *)
Returns == <>(pc = "done")
=============================================================================
