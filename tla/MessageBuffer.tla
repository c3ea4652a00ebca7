--------------------------- MODULE MessageBuffer ---------------------------
(***************************************************************************)
(* message_buffer of src/lib/messenger.c: the bytes of a send queue or a   *)
(* receive queue, kept in an array of fixed size from head_offset on.      *)
(* Writing past the end of the array first moves the data to its front.    *)
(***************************************************************************)
EXTENDS Naturals, Sequences

CONSTANTS Size,      \* buf->size
          Bytes,     \* the values of a byte
          MaxWrite,  \* the longest data written, the largest truncation
          Unset      \* a byte of the array that was never written

ASSUME BufferConstants == Size \in Nat /\ MaxWrite \in Nat /\ Unset \notin Bytes

VARIABLES buffer, data_length, head_offset

bufferVars == <<buffer, data_length, head_offset>>

Offsets == 0 .. Size - 1

create_message_buffer ==
  /\ buffer = [i \in Offsets |-> Unset]
  /\ data_length = 0
  /\ head_offset = 0

message_buffer_remain_bytes == Size - data_length

\* memcpy( to + at, data, len )
Copied(to, at, data) ==
  [i \in Offsets |-> IF at <= i /\ i < at + Len(data) THEN data[i - at + 1] ELSE to[i]]

\* Mutant of Moved: the data stays where it is.
NotMoved(from, len) == buffer

\* memmove( buffer, buffer + from, len )
Moved(from, len) ==
  [i \in Offsets |-> IF i < len THEN buffer[from + i] ELSE buffer[i]]

\* Mutant of Fits: the offset is forgotten.
FitsFromFront(len) == data_length + len <= Size

Fits(len) == head_offset + data_length + len <= Size

\* Returns false, and writes nothing, when the data does not fit.
write_message_buffer(data) ==
  /\ message_buffer_remain_bytes >= Len(data)
  /\ IF Fits(Len(data))
     THEN /\ buffer' = Copied(buffer, head_offset + data_length, data)
          /\ UNCHANGED head_offset
     ELSE /\ buffer' = Copied(Moved(head_offset, data_length), data_length, data)
          /\ head_offset' = 0
  /\ data_length' = data_length + Len(data)

Taken(len) == IF len > data_length THEN data_length ELSE len

truncate_message_buffer(len) ==
  /\ len # 0 /\ data_length # 0
  /\ IF head_offset + Taken(len) <= Size
     THEN /\ head_offset' = head_offset + Taken(len)
          /\ UNCHANGED buffer
     ELSE /\ buffer' = Moved(head_offset + Taken(len), data_length - Taken(len))
          /\ head_offset' = 0
  /\ data_length' = data_length - Taken(len)

\* clear_send_queue
ClearBuffer == head_offset' = 0 /\ data_length' = 0 /\ UNCHANGED buffer

BufferNext ==
  \/ \E n \in 0 .. MaxWrite : \E data \in [1 .. n -> Bytes] : write_message_buffer(data)
  \/ \E len \in 0 .. MaxWrite : truncate_message_buffer(len)
  \/ ClearBuffer

BufferSpec == create_message_buffer /\ [][BufferNext]_bufferVars

-----------------------------------------------------------------------------
BufferTypeOK ==
  /\ buffer \in [Offsets -> Bytes \cup {Unset}]
  /\ data_length \in 0 .. Size
  /\ head_offset \in 0 .. Size

(***************************************************************************)
(* The data lies inside the array and every byte of it was written: no     *)
(* mixture of writes, moves and truncations makes a reader see a byte of   *)
(* uninitialised memory or one past the end.                               *)
(***************************************************************************)
DataInside ==
  /\ head_offset + data_length <= Size
  /\ \A i \in 0 .. data_length - 1 : buffer[head_offset + i] \in Bytes

\* The data as a reader sees it, from get_message_buffer_head on.
contents == [i \in 1 .. data_length |-> buffer[head_offset + i - 1]]

(***************************************************************************)
(* The buffer implements the byte queue: bytes leave in the order they     *)
(* came, none is lost, repeated or altered by the moves to the front.      *)
(***************************************************************************)
Queue == INSTANCE ByteQueue WITH queue <- contents
ImplementsByteQueue == Queue!QSpec
=============================================================================
