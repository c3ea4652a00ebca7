----------------------------- MODULE LinkedList -----------------------------
(* The singly linked list of linked_list.c.  A list is the sequence of its   *)
(* data pointers, the empty sequence is the NULL head, and an operation that *)
(* dereferences a NULL head is said to die.                                  *)
EXTENDS Integers, Sequences, SequencesExt

create_list == <<>>

insert_in_front(list, data) == <<data>> \o list

(* The search starts at the second element: a sibling at the head is not     *)
(* found, and the list stays as it is.                                       *)
insert_before(list, sibling, data) ==
    LET found == {i \in 2 .. Len(list) : list[i] = sibling}
    IN  IF found = {} THEN list
        ELSE InsertAt(list, CHOOSE i \in found : \A j \in found : i <= j, data)

append_to_tail(list, data) == Append(list, data)

list_length_of(list) == Len(list)

(* The elements that the function holds for, the wanted ones, of which the   *)
(* code returns the first; on an empty list it dies, which callers have to rule out.          *)
find_list_custom(list, wanted) == SelectSeq(list, LAMBDA x : x \in wanted)

(* Only the first element with the data goes.                                *)
delete_element(list, data) ==
    LET found == {i \in DOMAIN list : list[i] = data}
    IN  IF found = {} THEN list
        ELSE RemoveAt(list, CHOOSE i \in found : \A j \in found : i <= j)
=============================================================================
