------------------------------ MODULE HashTable ------------------------------
(* hash_table.c: an array of buckets, each a list of entries, and the list   *)
(* of the buckets that are not empty.  A walk (foreach_hash, or an iterator) *)
(* calls a function for every entry, and the function may change the table:  *)
(* age_contexts and its like delete the entry they are called with, and      *)
(* others insert entries.  The walk holds two pointers across the call, to   *)
(* the next entry of the bucket and to the next bucket of the list.          *)
(*                                                                           *)
(* An entry is identified by its key: the table holds a key once.            *)
EXTENDS Integers, Sequences, SequencesExt

CONSTANTS
    Keys,              \* natural numbers; the hash of a key is the key
    number_of_buckets,
    HashValues

NoKey == -1

VARIABLES
    buckets,   \* the lists of keys, newest first; <<>> is a NULL bucket
    nonempty_bucket_index,
    hash_values,    \* key -> value of the entries
    hash_length,
    stored,    \* what the calls so far should have left
    walk     \* the walk: on, element, next_bucket, seen and the keys due

hashvars == <<buckets, nonempty_bucket_index, hash_values, hash_length, stored, walk>>

get_bucket_index(k) == k % number_of_buckets

HashEntries == UNION {Range(buckets[i]) : i \in DOMAIN buckets}
NoWalk == [on |-> FALSE, element |-> NoKey, next_bucket |-> NoKey, seen |-> {}, due |-> {}]
WithKey(f, k, v) == [x \in DOMAIN f \cup {k} |-> IF x = k THEN v ELSE f[x]]
WithoutKey(f, k) == [x \in DOMAIN f \ {k} |-> f[x]]

create_hash ==
    /\ buckets = [i \in 0 .. number_of_buckets - 1 |-> <<>>]
    /\ nonempty_bucket_index = <<>>
    /\ hash_values = <<>> /\ stored = <<>> /\ hash_length = 0
    /\ walk = NoWalk

delete_bucket(index, bucket, i) == IF bucket = <<>> THEN SelectSeq(index, LAMBDA j : j # i) ELSE index
TableWithout(t, k) ==
    LET i == get_bucket_index(k)
        rest == SelectSeq(t.buckets[i], LAMBDA x : x # k)
    IN  [buckets |-> [t.buckets EXCEPT ![i] = rest],
         index |-> delete_bucket(t.index, rest, i),
         length |-> t.length - Len(t.buckets[i]) + Len(rest)]

HashTableNow == [buckets |-> buckets, index |-> nonempty_bucket_index, length |-> hash_length]

new_bucket(t, i) == IF t.buckets[i] = <<>> THEN <<i>> \o t.index ELSE t.index

PutTable(t) == buckets' = t.buckets /\ nonempty_bucket_index' = t.index /\ hash_length' = t.length

(* An old entry with the key is deleted first; the new one goes to the front.*)
insert_hash_entry(k, v) ==
    LET i == get_bucket_index(k)
        t == IF k \in HashEntries THEN TableWithout(HashTableNow, k) ELSE HashTableNow
    IN  /\ PutTable([buckets |-> [t.buckets EXCEPT ![i] = <<k>> \o @],
                index |-> new_bucket(t, i), length |-> t.length + 1])
        /\ hash_values' = WithKey(hash_values, k, v)
        /\ stored' = WithKey(stored, k, v)

(* NULL when the bucket does not exist or has no such key.                   *)
lookup_hash_entry(k) ==
    IF k \in Range(buckets[get_bucket_index(k)]) THEN hash_values[k] ELSE NoKey

delete_hash_entry(k) ==
    /\ PutTable(TableWithout(HashTableNow, k))
    /\ hash_values' = WithoutKey(hash_values, k)
    /\ stored' = WithoutKey(stored, k)

(* What the walk reads next: it enters the bucket i of the list and takes    *)
(* both pointers before any function is called.                              *)
Following(s, x) ==
    LET p == {j \in DOMAIN s : s[j] = x}
    IN  IF p = {} \/ Len(s) \in p THEN NoKey ELSE s[(CHOOSE j \in p : TRUE) + 1]

init_hash_iterator ==
    /\ ~walk.on
    /\ walk' = [on |-> TRUE, seen |-> {}, due |-> DOMAIN stored,
                  element |-> IF nonempty_bucket_index = <<>> THEN NoKey
                              ELSE Head(buckets[Head(nonempty_bucket_index)]),
                  next_bucket |-> IF nonempty_bucket_index = <<>> THEN NoKey
                                  ELSE Following(nonempty_bucket_index, Head(nonempty_bucket_index))]
    /\ UNCHANGED <<buckets, nonempty_bucket_index, hash_values, hash_length, stored>>

(* The function is called for k, with the walk already past it.            *)
WalkCalled(k) ==
    walk' = [walk EXCEPT !.element = Following(buckets[get_bucket_index(k)], k),
                             !.seen = @ \cup {k}]

iterate_hash_next ==
    /\ walk.on /\ walk.element # NoKey
    /\ LET k == walk.element
       IN  /\ k \in HashEntries
           /\ WalkCalled(k)
           /\ \/ UNCHANGED <<buckets, nonempty_bucket_index, hash_values, hash_length, stored>>
              \/ delete_hash_entry(k)
              \/ \E other \in Keys \ HashEntries, v \in HashValues : insert_hash_entry(other, v)

(* At the end of a bucket the walk goes on to the next one.                  *)
NextBucket ==
    /\ walk.on /\ walk.element = NoKey
    /\ walk' = IF walk.next_bucket = NoKey THEN NoWalk
                 ELSE [walk EXCEPT !.element = Head(buckets[walk.next_bucket]),
                                     !.next_bucket = Following(nonempty_bucket_index, walk.next_bucket)]
    /\ UNCHANGED <<buckets, nonempty_bucket_index, hash_values, hash_length, stored>>

HashInsert(k, v) == ~walk.on /\ insert_hash_entry(k, v) /\ UNCHANGED walk
HashDelete(k) == ~walk.on /\ delete_hash_entry(k) /\ UNCHANGED walk

HashNext ==
    \/ \E k \in Keys, v \in HashValues : HashInsert(k, v)
    \/ \E k \in Keys : HashDelete(k)
    \/ init_hash_iterator \/ iterate_hash_next \/ NextBucket

-----------------------------------------------------------------------------
(* The table is the map that its calls describe: every key is found with the *)
(* value last stored for it and no other is, hash_length counts them, and    *)
(* the list that foreach_hash and delete_hash go by names the buckets with   *)
(* entries, each once.                                                       *)
HashIsMap ==
    /\ \A k \in Keys : lookup_hash_entry(k) = IF k \in DOMAIN stored THEN stored[k] ELSE NoKey
    /\ hash_length = Len(FlattenSeq([i \in 1 .. number_of_buckets |-> buckets[i - 1]]))
    /\ Range(nonempty_bucket_index) = {i \in DOMAIN buckets : buckets[i] # <<>>}
    /\ IsInjective(nonempty_bucket_index)

(* A walk whose functions delete the entry they are called with, or insert   *)
(* others, never stands on a freed entry or bucket, and calls its function   *)
(* for every entry that was there when it began.                             *)
WalkIsSafe ==
    walk.on =>
        /\ walk.element # NoKey => walk.element \in HashEntries \ walk.seen
        /\ walk.next_bucket # NoKey => buckets[walk.next_bucket] # <<>>
        /\ walk.element = NoKey /\ walk.next_bucket = NoKey => walk.due \subseteq walk.seen
=============================================================================
