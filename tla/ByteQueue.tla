----------------------------- MODULE ByteQueue -----------------------------
(***************************************************************************)
(* What a message_buffer of src/lib/messenger.c promises: a first-in       *)
(* first-out queue of at most Size bytes.  A write that does not fit is    *)
(* refused as a whole, and a truncation takes at most what is there.       *)
(***************************************************************************)
EXTENDS Naturals, Sequences

CONSTANTS Size, Bytes, MaxWrite

VARIABLE queue

QInit == queue = <<>>

\* The data of a write, and what is left after n bytes are taken away.
Data == UNION {[1 .. n -> Bytes] : n \in 0 .. MaxWrite}
Rest(n) == SubSeq(queue, n + 1, Len(queue))

QWrite ==
  \E data \in Data : /\ Len(queue) + Len(data) <= Size
                     /\ queue' = queue \o data

QTruncate == \E n \in 0 .. Len(queue) : queue' = Rest(n)

QNext == QWrite \/ QTruncate

QSpec == QInit /\ [][QNext]_queue
=============================================================================
