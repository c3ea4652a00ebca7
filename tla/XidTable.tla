------------------------------ MODULE XidTable ------------------------------
(***************************************************************************)
(* The transaction table of a switch daemon (src/switch_manager/           *)
(* xid_table.c).  A request of an application is sent to the switch under  *)
(* a transaction id of the daemon's own; the table remembers which         *)
(* application sent it and under which id, so that the reply can be handed *)
(* back.  The table is a ring of XID_MAX_ENTRIES slots beside a hash       *)
(* indexed by transaction id; inserting into an occupied slot evicts its   *)
(* occupant.                                                               *)
(*                                                                         *)
(* inserts and born are history variables: the number of insertions so     *)
(* far, and the insertion at which the occupant of each slot came in.      *)
(***************************************************************************)
EXTENDS Integers

CONSTANTS
    MaxXid,        \* UINT32_MAX
    MaxEntries,    \* XID_MAX_ENTRIES
    Services,      \* names of the applications
    OriginalXids,  \* transaction ids the applications choose
    NoEntry,       \* the NULL of an empty slot and of a failed lookup
    MaxInserts     \* bound on the history variable inserts

Xid == 0 .. MaxXid
Slot == 0 .. MaxEntries - 1
XidEntry == [xid : Xid, original_xid : OriginalXids, service_name : Services, index : Slot]

ASSUME XidConstants ==
    /\ MaxXid \in Nat
    /\ MaxEntries \in 1 .. MaxXid
    /\ MaxInserts \in Nat
    /\ NoEntry \notin XidEntry

VARIABLES
    transaction_id,
    entries,       \* the ring: slot -> entry or NoEntry
    hash,          \* transaction id -> entry, for the ids in the table
    next_index,
    inserts,
    born

xidVars == <<transaction_id, entries, hash, next_index, inserts, born>>

lookup_xid_entry(table, x) == IF x \in DOMAIN table THEN table[x] ELSE NoEntry

-----------------------------------------------------------------------------
(* generate_xid walks from the successor of the last id to the first id    *)
(* that is not in the table.  At the top of the range the walk starts at   *)
(* MaxXid itself although the value that makes it give up is 0.            *)

initial_value == IF transaction_id # MaxXid THEN transaction_id + 1 ELSE 0
WalkStart == IF transaction_id # MaxXid THEN transaction_id + 1 ELSE transaction_id
WalkUnwrapped(k) == WalkStart + k
Walk(k) == IF WalkStart + k <= MaxXid THEN WalkStart + k ELSE WalkStart + k - (MaxXid + 1)
GivesUp(k) == k > 0 /\ Walk(k) = initial_value
Stops(table, k) == GivesUp(k) \/ lookup_xid_entry(table, Walk(k)) = NoEntry

Steps(table) ==
    CHOOSE k \in 0 .. MaxXid + 1 :
        /\ Stops(table, k)
        /\ \A j \in 0 .. k - 1 : ~Stops(table, j)

generate_xid(table) == IF GivesUp(Steps(table)) THEN 0 ELSE Walk(Steps(table))

-----------------------------------------------------------------------------
XidInit ==
    /\ transaction_id = 0
    /\ entries = [i \in Slot |-> NoEntry]
    /\ hash = [x \in {} |-> NoEntry]
    /\ next_index = 0
    /\ inserts = 0
    /\ born = [i \in Slot |-> 0]

HashWithout(e) == [x \in DOMAIN hash \ {e.xid} |-> hash[x]]
EntriesKept(e) == entries
EntriesWithout(e) ==
    IF e.xid \in DOMAIN hash THEN [entries EXCEPT ![hash[e.xid].index] = NoEntry] ELSE entries

delete_xid_entry(e) ==
    /\ hash' = HashWithout(e)
    /\ entries' = EntriesWithout(e)
    /\ UNCHANGED <<transaction_id, next_index, inserts, born>>

NextSlotOneShort == IF next_index >= MaxEntries - 1 THEN 0 ELSE next_index
NextSlot == IF next_index >= MaxEntries THEN 0 ELSE next_index

insert_xid_entry(original_xid, service_name) ==
    LET slot == NextSlot
        victim == entries[slot]
        table == IF victim = NoEntry THEN hash ELSE HashWithout(victim)
        ring == IF victim = NoEntry THEN entries ELSE EntriesWithout(victim)
        xid == generate_xid(table)
        entry == [xid |-> xid, original_xid |-> original_xid,
                  service_name |-> service_name, index |-> slot]
        old == lookup_xid_entry(table, xid)
    IN  /\ inserts < MaxInserts
        /\ transaction_id' = xid
        /\ hash' = [x \in DOMAIN table \cup {xid} |-> IF x = xid THEN entry ELSE table[x]]
        /\ entries' = [i \in Slot |->
                          IF i = slot THEN entry
                          ELSE IF old # NoEntry /\ i = old.index THEN NoEntry ELSE ring[i]]
        /\ next_index' = slot + 1
        /\ inserts' = inserts + 1
        /\ born' = [born EXCEPT ![slot] = inserts]

(* An id taken for a message of the daemon itself (hello, echo request)    *)
(* is not entered into the table.                                          *)
GenerateOnly ==
    /\ transaction_id' = generate_xid(hash)
    /\ UNCHANGED <<entries, hash, next_index, inserts, born>>

XidNext ==
    \/ \E o \in OriginalXids, s \in Services : insert_xid_entry(o, s)
    \/ \E x \in DOMAIN hash : delete_xid_entry(hash[x])
    \/ GenerateOnly

XidSpec == XidInit /\ [][XidNext]_xidVars

-----------------------------------------------------------------------------
(* Every field of the table stays in its range.                            *)
XidTypeOK ==
    /\ transaction_id \in Xid
    /\ entries \in [Slot -> XidEntry \cup {NoEntry}]
    /\ DOMAIN hash \subseteq Xid
    /\ \A x \in DOMAIN hash : hash[x] \in XidEntry
    /\ next_index \in 0 .. MaxEntries
    /\ inserts \in Nat
    /\ born \in [Slot -> Nat]

(* The ring and the hash hold the same entries: an id in the hash leads to *)
(* an entry that sits in the slot it names, and the occupant of a slot is  *)
(* found under its id.  Otherwise delete_xid_entry frees an entry a slot   *)
(* still points to, or a reply is handed to the wrong application.         *)
TableConsistent ==
    /\ \A x \in DOMAIN hash : hash[x].xid = x /\ entries[hash[x].index] = hash[x]
    /\ \A i \in Slot : entries[i] # NoEntry =>
          /\ entries[i].index = i
          /\ entries[i].xid \in DOMAIN hash
          /\ hash[entries[i].xid] = entries[i]

(* The slot about to be reused always holds the oldest entry: an occupant  *)
(* came in as many insertions ago as its distance behind next_index.       *)
OldestIsNext ==
    \A i \in Slot : entries[i] # NoEntry =>
        born[i] = IF i < next_index THEN inserts - next_index + i
                                    ELSE inserts - next_index + i - MaxEntries

=============================================================================
