-------------------------------- MODULE Buffer --------------------------------
(* buffer.c: a byte buffer that grows at either end.  data points into an    *)
(* allocation of real_length bytes at top; removing from the front moves     *)
(* data on, and the room before it is never used again.  A duplicate copies  *)
(* the allocation and shares the user data, which only the original frees.   *)
EXTENDS Integers, Sequences, FiniteSets

CONSTANTS
    Handles,      \* the buffers
    MaxBytes,     \* bound on real_length
    Marks,        \* the values callers write
    Infos         \* the addresses of user data

Zero == "zero"
Garbage == "garbage"
NoInfo == "none"
NotAllocated == [top |-> <<>>, front |-> 0, length |-> 0, user_data |-> NoInfo, frees |-> FALSE]

VARIABLES
    live,         \* the buffers that exist
    pbuf,         \* [top, front, length, user_data, frees]; top is the allocation
    written,      \* the bytes the callers put in and did not remove
    infos         \* the user data that is allocated

bytevars == <<live, pbuf, written, infos>>

front_length_of(b) == pbuf[b].front
real_length(b) == Len(pbuf[b].top)
DataOf(b) == SubSeq(pbuf[b].top, pbuf[b].front + 1, pbuf[b].front + pbuf[b].length)
Fill(n, x) == [i \in 1 .. n |-> x]

already_allocated(b, n) == real_length(b) >= front_length_of(b) + pbuf[b].length + n

BufferInit ==
    /\ live = {} /\ pbuf = [b \in Handles |-> NotAllocated]
    /\ written = [b \in Handles |-> <<>>] /\ infos = {}

alloc_buffer(b) ==
    /\ b \notin live /\ live' = live \cup {b}
    /\ pbuf' = [pbuf EXCEPT ![b] = NotAllocated]
    /\ written' = [written EXCEPT ![b] = <<>>]
    /\ UNCHANGED infos

alloc_buffer_with_length(b, n) ==
    /\ b \notin live /\ live' = live \cup {b}
    /\ pbuf' = [pbuf EXCEPT ![b] = [NotAllocated EXCEPT !.top = Fill(n, Garbage)]]
    /\ written' = [written EXCEPT ![b] = <<>>]
    /\ UNCHANGED infos

(* The allocation with n new bytes before the data: a first allocation, the  *)
(* data moved back within what there is, or a larger allocation with the     *)
(* same room in front.                                                       *)
alloc_new_data(n) == Fill(n, Garbage)
append_front(b, n) ==
    Fill(front_length_of(b), Garbage) \o Fill(n, Garbage) \o DataOf(b)
MovedBack(b, n) ==
    LET top == pbuf[b].top
        end == front_length_of(b) + pbuf[b].length + n
    IN  SubSeq(top, 1, front_length_of(b)) \o Fill(n, Zero) \o DataOf(b) \o SubSeq(top, end + 1, Len(top))
WithFront(b, n) ==
    IF pbuf[b].top = <<>> THEN alloc_new_data(n)
    ELSE IF already_allocated(b, n) THEN MovedBack(b, n) ELSE append_front(b, n)

(* The caller fills the new bytes with x at once.                            *)
Overwrite(top, from, n, x) == [i \in 1 .. Len(top) |-> IF i > from /\ i <= from + n THEN x ELSE top[i]]

append_front_buffer(b, n, x) ==
    /\ b \in live /\ front_length_of(b) + pbuf[b].length + n <= MaxBytes
    /\ pbuf' = [pbuf EXCEPT ![b].top = Overwrite(WithFront(b, n), front_length_of(b), n, x),
                            ![b].length = @ + n]
    /\ written' = [written EXCEPT ![b] = Fill(n, x) \o @]
    /\ UNCHANGED <<live, infos>>

(* The assertion on the length is the caller's duty.                         *)
remove_front_buffer(b, n) ==
    /\ b \in live /\ pbuf[b].length >= n
    /\ pbuf' = [pbuf EXCEPT ![b].front = @ + n, ![b].length = @ - n]
    /\ written' = [written EXCEPT ![b] = SubSeq(@, n + 1, Len(@))]
    /\ UNCHANGED <<live, infos>>

append_back(b, n) == Fill(front_length_of(b), Garbage) \o DataOf(b) \o Fill(n, Garbage)
WithBack(b, n) ==
    IF pbuf[b].top = <<>> THEN alloc_new_data(n)
    ELSE IF already_allocated(b, n) THEN pbuf[b].top ELSE append_back(b, n)

append_back_buffer(b, n, x) ==
    /\ b \in live /\ front_length_of(b) + pbuf[b].length + n <= MaxBytes
    /\ pbuf' = [pbuf EXCEPT ![b].top = Overwrite(WithBack(b, n), front_length_of(b) + pbuf[b].length, n, x),
                            ![b].length = @ + n]
    /\ written' = [written EXCEPT ![b] = @ \o Fill(n, x)]
    /\ UNCHANGED <<live, infos>>

(* A buffer without an allocation is duplicated without its user data.       *)
SharesFree(b) == pbuf[b]
Copy(b) == IF real_length(b) = 0 THEN NotAllocated ELSE [pbuf[b] EXCEPT !.frees = FALSE]
duplicate_buffer(b, c) ==
    /\ b \in live /\ c \notin live /\ live' = live \cup {c}
    /\ pbuf' = [pbuf EXCEPT ![c] = Copy(b)]
    /\ written' = [written EXCEPT ![c] = written[b]]
    /\ UNCHANGED infos

(* parse_packet hangs a packet_info on a buffer with data; the callers give  *)
(* it one that has none of its own.                                          *)
AttachInfo(b, info) ==
    /\ b \in live /\ real_length(b) > 0 /\ ~pbuf[b].frees /\ info \notin infos
    /\ pbuf' = [pbuf EXCEPT ![b].user_data = info, ![b].frees = TRUE]
    /\ infos' = infos \cup {info}
    /\ UNCHANGED <<live, written>>

free_buffer(b) ==
    /\ b \in live /\ live' = live \ {b}
    /\ infos' = IF pbuf[b].frees THEN infos \ {pbuf[b].user_data} ELSE infos
    /\ pbuf' = [pbuf EXCEPT ![b] = NotAllocated]
    /\ written' = [written EXCEPT ![b] = <<>>]

BufferStep ==
    \E b \in Handles :
        \/ alloc_buffer(b) \/ free_buffer(b)
        \/ \E n \in 1 .. 2 : alloc_buffer_with_length(b, n) \/ remove_front_buffer(b, n)
        \/ \E n \in 1 .. 2, x \in Marks : append_front_buffer(b, n, x) \/ append_back_buffer(b, n, x)
        \/ \E c \in Handles : duplicate_buffer(b, c)
        \/ \E info \in Infos : AttachInfo(b, info)

-----------------------------------------------------------------------------
(* Whatever is allocated, moved and copied on the way, the data of a buffer  *)
(* is the bytes its callers put in and did not remove, inside its allocation.*)
BufferHoldsWritten ==
    \A b \in live :
        /\ pbuf[b].front + pbuf[b].length <= real_length(b)
        /\ DataOf(b) = written[b]

(* User data is freed once: each one that is allocated has exactly one       *)
(* buffer that frees it, however often it was duplicated, and a buffer       *)
(* refers to freed user data only as a duplicate that outlived its original. *)
UserDataFreedOnce ==
    /\ \A info \in infos : Cardinality({b \in live : pbuf[b].frees /\ pbuf[b].user_data = info}) = 1
    /\ \A b \in live : pbuf[b].frees => pbuf[b].user_data \in infos
=============================================================================
