-------------------------- MODULE DoublyLinkedList --------------------------
(* doubly_linked_list.c: the elements of a list, their prev and next         *)
(* pointers, and the callers' habit of deleting single elements while they   *)
(* hold pointers to others.  Every operation takes the list's mutex, so each *)
(* is one step.                                                              *)
EXTENDS Integers, Sequences, SequencesExt, FiniteSets, TLC

CONSTANT Elements      \* the addresses xmalloc may return

NULL == 0

VARIABLES
    prev, next,        \* the pointers of the allocated elements
    order              \* the list as its callers see it

dlistvars == <<prev, next, order>>

Allocated == DOMAIN next
Set(f, x, v) == [y \in DOMAIN f \cup {x} |-> IF y = x THEN v ELSE f[y]]
SetIf(f, x, v) == IF x = NULL THEN f ELSE Set(f, x, v)
IndexIn(s, x) == CHOOSE i \in DOMAIN s : s[i] = x

create_dlist(new) ==
    /\ prev' = (new :> NULL) /\ next' = (new :> NULL)
    /\ order' = <<new>>

DListInit == prev = <<>> /\ next = <<>> /\ order = <<>>

OldPrevKept(e, new) == next
OldPrevLinked(e, new) == SetIf(next, prev[e], new)

insert_before_dlist(e, new) ==
    /\ next' = Set(OldPrevLinked(e, new), new, e)
    /\ prev' = Set(Set(prev, new, prev[e]), e, new)
    /\ order' = InsertAt(order, IndexIn(order, e), new)

insert_after_dlist(e, new) ==
    /\ prev' = Set(SetIf(prev, next[e], new), new, e)
    /\ next' = Set(Set(next, new, next[e]), e, new)
    /\ order' = InsertAt(order, IndexIn(order, e) + 1, new)

delete_dlist_element(e) ==
    LET p == SetIf(prev, next[e], prev[e])
        n == SetIf(next, prev[e], next[e])
    IN  /\ prev' = [x \in Allocated \ {e} |-> p[x]]
        /\ next' = [x \in Allocated \ {e} |-> n[x]]
        /\ order' = SelectSeq(order, LAMBDA x : x # e)

(* Following one pointer from e until it is NULL; the walk cannot be longer  *)
(* than the list.                                                            *)
Chain(f, e) ==
    LET step[k \in Nat] == IF k = 0 THEN e ELSE IF step[k - 1] = NULL THEN NULL ELSE f[step[k - 1]]
    IN  SelectSeq([k \in 1 .. Cardinality(Allocated) + 1 |-> step[k - 1]], LAMBDA x : x # NULL)

get_first_element(e) == Last(Chain(prev, e))
get_last_element(e) == Last(Chain(next, e))

(* Forwards from e first, then backwards.                                    *)
find_element(e, data) ==
    LET found == SelectSeq(Chain(next, e) \o Tail(Chain(prev, e)), LAMBDA x : x = data)
    IN  IF found = <<>> THEN NULL ELSE Head(found)

(* delete_dlist may be given any element: it goes to the first.              *)
Freed(e) == Range(Chain(next, get_first_element(e)))
delete_dlist(e) ==
    /\ prev' = [x \in Allocated \ Freed(e) |-> prev[x]]
    /\ next' = [x \in Allocated \ Freed(e) |-> next[x]]
    /\ order' = <<>>

DListNext ==
    \/ order = <<>> /\ \E new \in Elements : create_dlist(new)
    \/ \E e \in Range(order), new \in Elements \ Allocated :
          insert_before_dlist(e, new) \/ insert_after_dlist(e, new)
    \/ \E e \in Range(order) : delete_dlist_element(e) \/ delete_dlist(e)

(* From every element the two chains of pointers give the list that the      *)
(* calls describe, and delete_dlist has freed every element: so a walk that  *)
(* follows next, and the hash tables that walk their buckets, see each       *)
(* element once and never a freed one.                                       *)
ListWellLinked ==
    /\ Range(order) = Allocated
    /\ \A e \in Allocated :
          /\ get_first_element(e) = Head(order) /\ get_last_element(e) = Last(order)
          /\ Chain(next, Head(order)) = order
          /\ find_element(e, Head(order)) = Head(order)
=============================================================================
