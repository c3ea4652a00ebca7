---------------------------- MODULE CaptureQueue ----------------------------
(* packet_capture of tremashark: a thread that captures packets and the      *)
(* timer of the main loop that sends them to the dump service share a queue  *)
(* (tremashark/queue.c) without a lock.  One step is one access to memory    *)
(* that the other thread reads or writes.  Stores become visible in program  *)
(* order, as on the processors the code is built for.                        *)
EXTENDS Integers, Sequences

CONSTANT MaxPackets  \* bound on the packets that are captured

Dummy == 1
Cells == Dummy .. MaxPackets + 1
NULL == 0

VARIABLES
    packet_queue,       \* "none", "created", or "deleted": freed, but still pointed to
    next, data,         \* the elements: cell -> cell, cell -> packet
    allocated,          \* the elements that are not freed
    head, divider, tail, length,
    capture_pc,         \* the capture thread
    flush_pc, peeked,   \* flush_packet_buffer and its variable packet
    captured, dumped,   \* history: the packets that were captured, and those sent
    crashed             \* freed memory was used

queuecells == <<next, data, allocated>>
capturevars == <<packet_queue, queuecells, head, divider, tail, length,
                 capture_pc, flush_pc, peeked, captured, dumped, crashed>>

CaptureInit ==
    /\ packet_queue = "none"
    /\ next = [c \in Cells |-> NULL] /\ data = [c \in Cells |-> NULL] /\ allocated = {}
    /\ head = NULL /\ divider = NULL /\ tail = NULL /\ length = 0
    /\ capture_pc = "start" /\ flush_pc = "idle" /\ peeked = NULL
    /\ captured = 0 /\ dumped = <<>> /\ crashed = FALSE

---------------------------------------------------------------------------
(* The capture thread.                                                       *)

create_queue ==
    /\ capture_pc = "start" /\ capture_pc' = "open" /\ packet_queue' = "created"
    /\ allocated' = {Dummy} /\ head' = Dummy /\ divider' = Dummy /\ tail' = Dummy /\ length' = 0
    /\ UNCHANGED <<next, data, flush_pc, peeked, captured, dumped, crashed>>

(* The interface is opened, and its filter set, or not.                      *)
capture_main ==
    /\ capture_pc = "open" /\ capture_pc' \in {"pcap_loop", "error"}
    /\ UNCHANGED <<packet_queue, queuecells, head, divider, tail, length, flush_pc, peeked, captured, dumped, crashed>>

(* pcap_loop returns, too, when the interface fails.                         *)
LoopFails ==
    /\ capture_pc = "pcap_loop" /\ capture_pc' = "error"
    /\ UNCHANGED <<packet_queue, queuecells, head, divider, tail, length, flush_pc, peeked, captured, dumped, crashed>>

(* delete_queue frees every element and the queue, and packet_queue still    *)
(* points to it.                                                             *)
delete_queue ==
    /\ capture_pc = "error" /\ capture_pc' = "ended"
    /\ packet_queue' = "deleted" /\ allocated' = {}
    /\ UNCHANGED <<next, data, head, divider, tail, length, flush_pc, peeked, captured, dumped, crashed>>

(* handle_packet, and enqueue up to the link from the old tail ...           *)
handle_packet ==
    LET new == captured + 2
    IN  /\ capture_pc = "pcap_loop" /\ captured < MaxPackets /\ capture_pc' = "linked"
        /\ captured' = captured + 1 /\ allocated' = allocated \cup {new}
        /\ data' = [data EXCEPT ![new] = captured'] /\ next' = [next EXCEPT ![tail] = new]
        /\ UNCHANGED <<packet_queue, head, divider, tail, length, flush_pc, peeked, dumped, crashed>>

(* ... then the tail is moved, and the element counted.                      *)
MoveTail ==
    /\ capture_pc = "linked" /\ capture_pc' = "moved" /\ tail' = next[tail]
    /\ UNCHANGED <<packet_queue, queuecells, head, divider, length, flush_pc, peeked, captured, dumped, crashed>>
CountUp ==
    /\ capture_pc = "moved" /\ capture_pc' = "collect" /\ length' = length + 1
    /\ UNCHANGED <<packet_queue, queuecells, head, divider, tail, flush_pc, peeked, captured, dumped, crashed>>

(* One round of collect_garbage (and the mistake of going on to the tail).   *)
UpToTail == head = tail
GarbageCollected == head = divider
collect_garbage ==
    /\ capture_pc = "collect"
    /\ IF GarbageCollected
       THEN capture_pc' = "pcap_loop" /\ UNCHANGED <<head, allocated>>
       ELSE head' = next[head] /\ allocated' = allocated \ {head} /\ UNCHANGED capture_pc
    /\ UNCHANGED <<packet_queue, next, data, divider, tail, length, flush_pc, peeked, captured, dumped, crashed>>

---------------------------------------------------------------------------
(* The timer of the main loop.                                               *)

flush_packet_buffer ==
    /\ packet_queue = "created" /\ flush_pc = "idle" /\ length # 0 /\ flush_pc' = "peek"
    /\ UNCHANGED <<packet_queue, queuecells, head, divider, tail, length, capture_pc, peeked, captured, dumped, crashed>>

(* peek, which reads the data that the divider's successor has.              *)
peek ==
    /\ packet_queue = "created" /\ flush_pc = "peek"
    /\ peeked' = IF divider = tail THEN NULL ELSE data[next[divider]]
    /\ flush_pc' = IF divider = tail THEN "idle" ELSE "send"
    /\ UNCHANGED <<packet_queue, queuecells, head, divider, tail, length, capture_pc, captured, dumped, crashed>>

(* send_message: a packet that is not sent stays where it is.                *)
send_message ==
    /\ packet_queue = "created" /\ flush_pc = "send"
    /\ \/ flush_pc' = "dequeue" /\ dumped' = Append(dumped, peeked) /\ UNCHANGED peeked
       \/ flush_pc' = "idle" /\ peeked' = NULL /\ UNCHANGED dumped
    /\ UNCHANGED <<packet_queue, queuecells, head, divider, tail, length, capture_pc, captured, crashed>>

(* dequeue: the data is taken, the divider moves, then the length counts     *)
(* down; the packet is freed.                                                *)
dequeue ==
    /\ packet_queue = "created" /\ flush_pc = "dequeue" /\ flush_pc' = "divide"
    /\ peeked' = data[next[divider]] /\ data' = [data EXCEPT ![next[divider]] = NULL]
    /\ UNCHANGED <<packet_queue, next, allocated, head, divider, tail, length, capture_pc, captured, dumped, crashed>>
MoveDivider ==
    /\ packet_queue = "created" /\ flush_pc = "divide" /\ flush_pc' = "count" /\ divider' = next[divider]
    /\ UNCHANGED <<packet_queue, queuecells, head, tail, length, capture_pc, peeked, captured, dumped, crashed>>
CountDown ==
    /\ packet_queue = "created" /\ flush_pc = "count" /\ flush_pc' = "peek" /\ peeked' = NULL /\ length' = length - 1
    /\ UNCHANGED <<packet_queue, queuecells, head, divider, tail, capture_pc, captured, dumped, crashed>>

(* The timer goes on with a queue that is freed: the memory may look like an *)
(* empty queue, or end the process.                                          *)
FlushDeleted ==
    /\ packet_queue = "deleted" /\ ~crashed
    /\ flush_pc' = "idle" /\ peeked' = NULL /\ crashed' \in BOOLEAN
    /\ UNCHANGED <<packet_queue, queuecells, head, divider, tail, length, capture_pc, captured, dumped>>

CaptureNext ==
    \/ create_queue \/ capture_main \/ LoopFails \/ delete_queue
    \/ handle_packet \/ MoveTail \/ CountUp \/ collect_garbage
    \/ flush_packet_buffer \/ peek \/ send_message \/ dequeue \/ MoveDivider \/ CountDown \/ FlushDeleted

---------------------------------------------------------------------------
Waiting == {c \in Cells : c > divider /\ c <= captured + 1}

(* The two threads need no lock while the capture goes on: neither uses an   *)
(* element that the other freed, every captured packet is sent once and in   *)
(* order or still waits behind the divider, and the length is right up to    *)
(* the step that either thread has still to count.  Only the end of the      *)
(* capture, which frees the queue under the timer, can crash the process.    *)
CaptureIsSafe ==
    /\ crashed => packet_queue = "deleted"
    /\ packet_queue = "created" =>
          /\ \A i \in DOMAIN dumped : dumped[i] = i
          /\ flush_pc \notin {"dequeue", "divide"} =>
                {data[c] : c \in Waiting} = (Len(dumped) + 1) .. captured
          /\ {head, divider, tail} \cup Waiting \subseteq allocated
          /\ length = captured - (divider - 1) + (IF flush_pc = "count" THEN 1 ELSE 0)
                      - (IF capture_pc \in {"linked", "moved"} THEN 1 ELSE 0)
=============================================================================
