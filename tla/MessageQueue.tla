---------------------------- MODULE MessageQueue ----------------------------
(* message_queue.c: a list with a divider.  The elements up to the divider   *)
(* are already taken, and are freed only when the next message is put in, so *)
(* that whoever puts and whoever takes touch different ends.                 *)
EXTENDS Integers, Sequences, SequencesExt

CONSTANTS
    QueueMessages,   \* the messages
    MaxElements      \* bound on the elements of the list

NoData == 0

VARIABLES
    elements,        \* data of the elements from head to tail
    divider,         \* index of the divider in elements
    queue_length,
    queued           \* the messages put in and not yet taken out

queuevars == <<elements, divider, queue_length, queued>>

create_message_queue ==
    /\ elements = <<NoData>> /\ divider = 1 /\ queue_length = 0
    /\ queued = <<>>

IsEmpty == divider = Len(elements)

(* collect_garbage frees the elements before the divider, not their data.    *)
CollectAll(list, d) == SubSeq(list, d + 1, Len(list))
collect_garbage(list, d) == SubSeq(list, d, Len(list))

enqueue_message(m) ==
    /\ Len(elements) < MaxElements
    /\ elements' = collect_garbage(Append(elements, m), divider)
    /\ divider' = 1
    /\ queue_length' = queue_length + 1
    /\ queued' = Append(queued, m)

peek_message == IF IsEmpty THEN NoData ELSE elements[divider + 1]

(* The data is the caller's now: the element forgets it.                     *)
dequeue_message ==
    /\ ~IsEmpty
    /\ elements' = [elements EXCEPT ![divider + 1] = NoData]
    /\ divider' = divider + 1
    /\ queue_length' = queue_length - 1
    /\ queued' = Tail(queued)

foreach_message_queue == SubSeq(elements, divider + 1, Len(elements))

(* Every message an element still has is freed with the queue, and another   *)
(* queue is created.                                                         *)
delete_message_queue ==
    /\ elements' = <<NoData>> /\ divider' = 1 /\ queue_length' = 0
    /\ queued' = <<>>

MessageQueueNext ==
    \/ \E m \in QueueMessages : enqueue_message(m)
    \/ dequeue_message
    \/ delete_message_queue

(* The queue holds exactly the messages that were put in and not taken out,  *)
(* in their order, wherever the divider stands; an element that was passed   *)
(* has no data, so that delete_message_queue frees no message it gave away.  *)
QueueHoldsUntaken ==
    /\ foreach_message_queue = queued
    /\ peek_message = IF queued = <<>> THEN NoData ELSE Head(queued)
    /\ queue_length = Len(queued)
    /\ \A i \in 1 .. divider : elements[i] = NoData
=============================================================================
