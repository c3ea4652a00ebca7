--------------------------- MODULE XidTableProofs ---------------------------
(***************************************************************************)
(* The transaction table stays consistent, and evicts its oldest entry,    *)
(* for every size of the table and every range of transaction ids.         *)
(***************************************************************************)
EXTENDS XidTable, WellFoundedInduction, TLAPS

(* A non-empty set of natural numbers has a least element. *)
LEMMA LeastNatural ==
    ASSUME NEW T \in SUBSET Nat, T # {}
    PROVE  \E n \in T : \A m \in T : n <= m
<1>1. IsWellFoundedOn(OpToRel(<, Nat), Nat)
  BY NatLessThanWellFounded
<1>2. \E n \in T : \A m \in T : ~(<<m, n>> \in OpToRel(<, Nat))
  BY <1>1, WFMin
<1>3. PICK n \in T : \A m \in T : ~(<<m, n>> \in OpToRel(<, Nat))
  BY <1>2
<1>4. ASSUME NEW m \in T PROVE n <= m
  <2>1. ~(m < n)
    BY <1>3, m \in Nat, n \in Nat DEF OpToRel
  <2>2. QED
    BY <2>1, m \in Nat, n \in Nat
<1>5. QED
  BY <1>4

(* generate_xid always returns an id of the range, and its walk stops      *)
(* either at an id that is not in the table or where it gives up.          *)
LEMMA GenerateInRange ==
    ASSUME NEW table, transaction_id \in Xid
    PROVE  /\ generate_xid(table) \in Xid
           /\ generate_xid(table) = 0 \/ lookup_xid_entry(table, generate_xid(table)) = NoEntry
<1> DEFINE T == {k \in 0 .. MaxXid + 1 : Stops(table, k)}
<1> USE XidConstants
<1>1. Walk(MaxXid + 1) = WalkStart
  BY DEF Walk, WalkStart, Xid
<1>2. \E k \in 0 .. MaxXid + 1 : GivesUp(k)
  <2>1. CASE transaction_id # MaxXid
    BY <1>1, <2>1 DEF GivesUp, initial_value, WalkStart, Xid
  <2>2. CASE transaction_id = MaxXid
    <3>1. Walk(1) = 0
      BY <2>2 DEF Walk, WalkStart
    <3>2. QED
      BY <2>2, <3>1 DEF GivesUp, initial_value
  <2>3. QED
    BY <2>1, <2>2
<1>3. T # {} /\ T \subseteq Nat
  BY <1>2 DEF Stops
<1>4. PICK n \in T : \A m \in T : n <= m
  BY <1>3, LeastNatural
<1>5. n \in 0 .. MaxXid + 1 /\ Stops(table, n) /\ \A j \in 0 .. n - 1 : ~Stops(table, j)
  BY <1>4
<1>6. Steps(table) \in 0 .. MaxXid + 1 /\ Stops(table, Steps(table))
  BY <1>5 DEF Steps
<1>7. Walk(Steps(table)) \in Xid
  BY <1>6 DEF Walk, WalkStart, Xid
<1>8. QED
  BY <1>6, <1>7 DEF generate_xid, Stops, Xid

-----------------------------------------------------------------------------
XidInv == XidTypeOK /\ TableConsistent /\ OldestIsNext

(* init_xid_table establishes the invariant. *)
LEMMA XidInitInv == XidInit => XidInv
BY XidConstants DEF XidInit, XidInv, XidTypeOK, TableConsistent, OldestIsNext, Xid, Slot

(* Dropping an entry of the table from the ring and from the hash keeps    *)
(* the two in step.                                                        *)
LEMMA DropKeepsConsistent ==
    ASSUME XidTypeOK, TableConsistent, NEW i \in Slot, entries[i] # NoEntry
    PROVE  /\ EntriesWithout(entries[i]) = [entries EXCEPT ![i] = NoEntry]
           /\ DOMAIN HashWithout(entries[i]) = DOMAIN hash \ {entries[i].xid}
           /\ \A x \in DOMAIN HashWithout(entries[i]) :
                 HashWithout(entries[i])[x] = hash[x] /\ hash[x].index # i
           /\ \A j \in Slot : j # i /\ entries[j] # NoEntry =>
                 entries[j].xid \in DOMAIN HashWithout(entries[i])
<1>1. entries[i].xid \in DOMAIN hash /\ hash[entries[i].xid] = entries[i] /\ entries[i].index = i
  BY DEF TableConsistent
<1>2. EntriesWithout(entries[i]) = [entries EXCEPT ![i] = NoEntry]
  BY <1>1 DEF EntriesWithout
<1>3. \A x \in DOMAIN hash : hash[x].index = i => x = entries[i].xid
  BY DEF TableConsistent
<1>4. \A j \in Slot : j # i /\ entries[j] # NoEntry => entries[j].xid # entries[i].xid
  BY <1>1 DEF TableConsistent
<1>5. QED
  BY <1>1, <1>2, <1>3, <1>4 DEF HashWithout, TableConsistent

(* delete_xid_entry keeps the invariant. *)
LEMMA DeleteKeepsInv ==
    ASSUME XidInv, NEW x \in DOMAIN hash, delete_xid_entry(hash[x])
    PROVE  XidInv'
<1> USE XidConstants DEF XidInv
<1>1. hash[x] \in XidEntry /\ hash[x].index \in Slot
  BY DEF XidTypeOK, XidEntry
<1>2. PICK i \in Slot : entries[i] = hash[x] /\ entries[i] # NoEntry
  BY <1>1 DEF TableConsistent
<1>3. /\ entries' = [entries EXCEPT ![i] = NoEntry]
      /\ DOMAIN hash' = DOMAIN hash \ {entries[i].xid}
      /\ \A y \in DOMAIN hash' : hash'[y] = hash[y] /\ hash[y].index # i
      /\ \A j \in Slot : j # i /\ entries[j] # NoEntry => entries[j].xid \in DOMAIN hash'
  <2>1. hash' = HashWithout(entries[i]) /\ entries' = EntriesWithout(entries[i])
    BY <1>2 DEF delete_xid_entry
  <2>2. /\ EntriesWithout(entries[i]) = [entries EXCEPT ![i] = NoEntry]
        /\ DOMAIN HashWithout(entries[i]) = DOMAIN hash \ {entries[i].xid}
        /\ \A y \in DOMAIN HashWithout(entries[i]) :
              HashWithout(entries[i])[y] = hash[y] /\ hash[y].index # i
        /\ \A j \in Slot : j # i /\ entries[j] # NoEntry =>
              entries[j].xid \in DOMAIN HashWithout(entries[i])
    BY <1>2, DropKeepsConsistent
  <2>3. QED
    BY <2>1, <2>2
<1>4. UNCHANGED <<transaction_id, next_index, inserts, born>>
  BY DEF delete_xid_entry
<1>5. XidTypeOK'
  BY <1>3, <1>4 DEF XidTypeOK
<1>6. TableConsistent'
  BY <1>3, <1>5 DEF TableConsistent, XidTypeOK, XidEntry
<1>7. OldestIsNext'
  BY <1>3, <1>4, <1>5 DEF OldestIsNext, XidTypeOK
<1>8. QED
  BY <1>5, <1>6, <1>7

(* insert_xid_entry keeps the invariant, whether or not it evicts. *)
LEMMA InsertKeepsInv ==
    ASSUME XidInv, NEW o \in OriginalXids, NEW s \in Services, insert_xid_entry(o, s)
    PROVE  XidInv'
<1> DEFINE slot == NextSlot
           victim == entries[slot]
           table == IF victim = NoEntry THEN hash ELSE HashWithout(victim)
           ring == IF victim = NoEntry THEN entries ELSE EntriesWithout(victim)
           xid == generate_xid(table)
           entry == [xid |-> xid, original_xid |-> o, service_name |-> s, index |-> slot]
           old == lookup_xid_entry(table, xid)
<1> USE XidConstants DEF XidInv
<1>1. slot \in Slot
  BY DEF XidTypeOK, Slot, NextSlot
<1>2. /\ DOMAIN table \subseteq DOMAIN hash
      /\ \A x \in DOMAIN table : table[x] = hash[x] /\ hash[x].index # slot
      /\ \A j \in Slot : j # slot /\ entries[j] # NoEntry => entries[j].xid \in DOMAIN table
      /\ \A j \in Slot : j # slot => ring[j] = entries[j]
  <2>1. CASE victim = NoEntry
    BY <2>1, <1>1 DEF TableConsistent, XidTypeOK
  <2>2. CASE victim # NoEntry
    <3>1. table = HashWithout(entries[slot]) /\ ring = EntriesWithout(entries[slot])
      BY <2>2
    <3> HIDE DEF slot, table, ring
    <3>2. /\ EntriesWithout(entries[slot]) = [entries EXCEPT ![slot] = NoEntry]
          /\ DOMAIN HashWithout(entries[slot]) = DOMAIN hash \ {entries[slot].xid}
          /\ \A y \in DOMAIN HashWithout(entries[slot]) :
                HashWithout(entries[slot])[y] = hash[y] /\ hash[y].index # slot
          /\ \A j \in Slot : j # slot /\ entries[j] # NoEntry =>
                entries[j].xid \in DOMAIN HashWithout(entries[slot])
      BY <1>1, <2>2, DropKeepsConsistent DEF victim
    <3>3. QED
      BY <1>1, <3>1, <3>2 DEF XidTypeOK
  <2>3. QED
    BY <2>1, <2>2
<1>3. xid \in Xid /\ entry \in XidEntry
  <2>1. xid \in Xid
    BY GenerateInRange DEF XidTypeOK
  <2>2. QED
    BY <1>1, <2>1 DEF XidEntry
<1>4. /\ transaction_id' = xid
      /\ hash' = [x \in DOMAIN table \cup {xid} |-> IF x = xid THEN entry ELSE table[x]]
      /\ entries' = [i \in Slot |->
                        IF i = slot THEN entry
                        ELSE IF old # NoEntry /\ i = old.index THEN NoEntry ELSE ring[i]]
      /\ next_index' = slot + 1
      /\ inserts' = inserts + 1
      /\ born' = [born EXCEPT ![slot] = inserts]
  BY DEF insert_xid_entry
<1>5. old = IF xid \in DOMAIN table THEN table[xid] ELSE NoEntry
  BY DEF lookup_xid_entry
<1>6. entry.xid = xid /\ entry.index = slot
  OBVIOUS
<1> HIDE DEF slot, victim, table, ring, xid, entry, old
<1>7. XidTypeOK'
  <2>1. entries' \in [Slot -> XidEntry \cup {NoEntry}]
    BY <1>2, <1>3, <1>4 DEF XidTypeOK
  <2>2. DOMAIN hash' \subseteq Xid /\ \A x \in DOMAIN hash' : hash'[x] \in XidEntry
    BY <1>2, <1>3, <1>4 DEF XidTypeOK
  <2>3. transaction_id' \in Xid /\ next_index' \in 0 .. MaxEntries /\ inserts' \in Nat
    BY <1>1, <1>3, <1>4 DEF XidTypeOK, Slot
  <2>4. born' \in [Slot -> Nat]
    BY <1>1, <1>4 DEF XidTypeOK
  <2>5. QED
    BY <2>1, <2>2, <2>3, <2>4 DEF XidTypeOK
<1>8. TableConsistent'
  <2>1. ASSUME NEW x \in DOMAIN hash'
        PROVE  hash'[x].xid = x /\ entries'[hash'[x].index] = hash'[x]
    <3>1. CASE x = xid
      BY <1>1, <1>4, <1>6, <3>1
    <3>2. CASE x # xid
      <4>1. x \in DOMAIN table /\ hash'[x] = hash[x] /\ hash[x].index \in Slot \ {slot}
        BY <1>2, <1>4, <3>2 DEF XidTypeOK, XidEntry
      <4>2. hash[x].xid = x /\ entries[hash[x].index] = hash[x]
        BY <1>2, <4>1 DEF TableConsistent
      <4>3. ~(old # NoEntry /\ hash[x].index = old.index)
        BY <1>2, <1>5, <3>2, <4>1 DEF TableConsistent
      <4>4. QED
        BY <1>2, <1>4, <4>1, <4>2, <4>3
    <3>3. QED
      BY <3>1, <3>2
  <2>2. ASSUME NEW i \in Slot, entries'[i] # NoEntry
        PROVE  /\ entries'[i].index = i
               /\ entries'[i].xid \in DOMAIN hash'
               /\ hash'[entries'[i].xid] = entries'[i]
    <3>1. CASE i = slot
      BY <1>4, <1>6, <3>1
    <3>2. CASE i # slot
      <4>1. entries'[i] = entries[i] /\ entries[i] # NoEntry /\ entries[i].xid \in DOMAIN table
        BY <1>2, <1>4, <2>2, <3>2
      <4>2. entries[i].index = i /\ hash[entries[i].xid] = entries[i]
        BY <4>1 DEF TableConsistent
      <4>3. entries[i].xid # xid
        BY <1>2, <1>3, <1>4, <1>5, <2>2, <3>2, <4>1, <4>2 DEF XidTypeOK
      <4>4. QED
        BY <1>2, <1>4, <4>1, <4>2, <4>3
    <3>3. QED
      BY <3>1, <3>2
  <2>3. QED
    BY <2>1, <2>2 DEF TableConsistent
<1>9. OldestIsNext'
  <2> SUFFICES ASSUME NEW i \in Slot, entries'[i] # NoEntry
               PROVE  born'[i] = IF i < next_index' THEN inserts' - next_index' + i
                                 ELSE inserts' - next_index' + i - MaxEntries
    BY DEF OldestIsNext
  <2>1. CASE i = slot
    BY <1>1, <1>4, <2>1 DEF XidTypeOK, Slot
  <2>2. CASE i # slot
    <3>1. entries[i] # NoEntry /\ born'[i] = born[i]
      BY <1>1, <1>2, <1>4, <2>2 DEF XidTypeOK
    <3>2. born[i] = IF i < next_index THEN inserts - next_index + i
                    ELSE inserts - next_index + i - MaxEntries
      BY <3>1 DEF OldestIsNext
    <3>3. slot = IF next_index >= MaxEntries THEN 0 ELSE next_index
      BY DEF slot, NextSlot
    <3>4. next_index' = slot + 1 /\ inserts' = inserts + 1
      BY <1>4
    <3>5. CASE next_index >= MaxEntries
      BY <2>2, <3>1, <3>2, <3>3, <3>4, <3>5 DEF XidTypeOK, Slot
    <3>6. CASE next_index < MaxEntries
      BY <2>2, <3>1, <3>2, <3>3, <3>4, <3>6 DEF XidTypeOK, Slot
    <3>7. QED
      BY <3>5, <3>6 DEF XidTypeOK
  <2>3. QED
    BY <2>1, <2>2
<1>10. QED
  BY <1>7, <1>8, <1>9

(* Every reachable state of the table satisfies the inductive invariant. *)
LEMMA XidInvariant == XidSpec => []XidInv
<1>1. XidInv /\ [XidNext]_xidVars => XidInv'
  <2> SUFFICES ASSUME XidInv, [XidNext]_xidVars PROVE XidInv'
    OBVIOUS
  <2>1. CASE \E o \in OriginalXids, s \in Services : insert_xid_entry(o, s)
    BY <2>1, InsertKeepsInv
  <2>2. CASE \E x \in DOMAIN hash : delete_xid_entry(hash[x])
    BY <2>2, DeleteKeepsInv
  <2>3. CASE GenerateOnly
    <3>1. generate_xid(hash) \in Xid
      BY GenerateInRange DEF XidInv, XidTypeOK
    <3>2. QED
      BY <2>3, <3>1 DEF GenerateOnly, XidInv, XidTypeOK, TableConsistent, OldestIsNext
  <2>4. CASE UNCHANGED xidVars
    BY <2>4 DEF xidVars, XidInv, XidTypeOK, TableConsistent, OldestIsNext
  <2>5. QED
    BY <2>1, <2>2, <2>3, <2>4 DEF XidNext
<1>2. QED
  BY XidInitInv, <1>1, PTL DEF XidSpec

(* The table of a switch daemon never gets out of step: at every point the *)
(* ring and the hash of xid_table.c hold the same entries.                 *)
THEOREM XidTableConsistent == XidSpec => []TableConsistent
<1>1. XidInv => TableConsistent
  BY DEF XidInv
<1>2. QED
  BY XidInvariant, <1>1, PTL

(* insert_xid_entry evicts in order of age: the slot it is about to reuse  *)
(* holds the entry that came in MaxEntries insertions ago.                 *)
THEOREM XidEvictsOldest == XidSpec => []OldestIsNext
<1>1. XidInv => OldestIsNext
  BY DEF XidInv
<1>2. QED
  BY XidInvariant, <1>1, PTL

=============================================================================
