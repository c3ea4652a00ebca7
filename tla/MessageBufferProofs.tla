------------------------ MODULE MessageBufferProofs ------------------------
(***************************************************************************)
(* message_buffer keeps its data inside the array and implements the byte  *)
(* queue, for every size, every set of bytes and every length of write.    *)
(***************************************************************************)
EXTENDS MessageBuffer, SequenceTheorems, TLAPS

BufferInv == BufferTypeOK /\ DataInside

\* Arithmetic on lengths and offsets.
LEMMA SumBounds == \A a, b, c \in Nat : a + b <= c => b \in 0 .. c
OBVIOUS

\* Moving an index by an offset and back.
LEMMA ShiftIndex ==
  \A d, h \in Nat : \A i \in 1 .. d : i - 1 \in 0 .. d - 1 /\ h + i - 1 = h + (i - 1)
OBVIOUS

\* create_message_buffer establishes the invariant.
LEMMA CreateInv == create_message_buffer => BufferInv
BY BufferConstants DEF create_message_buffer, BufferInv, BufferTypeOK, DataInside, Offsets

\* What a reader sees after write_message_buffer: the old data, then the new.
LEMMA WriteAppends ==
  ASSUME NEW n \in Nat, NEW data \in [1 .. n -> Bytes],
         BufferInv, write_message_buffer(data)
  PROVE  /\ data_length' = data_length + n
         /\ head_offset' + data_length' <= Size
         /\ head_offset' \in 0 .. Size
         /\ buffer' \in [Offsets -> Bytes \cup {Unset}]
         /\ \A i \in 0 .. data_length + n - 1 :
              buffer'[head_offset' + i] =
                IF i < data_length THEN buffer[head_offset + i]
                ELSE data[i - data_length + 1]
<1>1. Len(data) = n
  OBVIOUS
<1>2. /\ data_length \in Nat /\ head_offset \in Nat /\ Size \in Nat
      /\ head_offset + data_length <= Size
      /\ data_length + n <= Size
      /\ buffer \in [Offsets -> Bytes \cup {Unset}]
      /\ data_length' = data_length + n
  BY <1>1, BufferConstants
     DEF BufferInv, BufferTypeOK, DataInside, write_message_buffer,
         message_buffer_remain_bytes
<1>3. CASE Fits(n)
  <2>1. /\ head_offset' = head_offset
        /\ buffer' = [i \in Offsets |->
                        IF head_offset + data_length <= i /\ i < head_offset + data_length + n
                        THEN data[i - (head_offset + data_length) + 1] ELSE buffer[i]]
    BY <1>1, <1>3 DEF write_message_buffer, Copied
  <2>2. head_offset + data_length + n <= Size
    BY <1>3 DEF Fits
  <2>3. buffer' \in [Offsets -> Bytes \cup {Unset}]
    BY <1>2, <2>1 DEF Offsets
  <2>4. ASSUME NEW i \in 0 .. data_length + n - 1
        PROVE  buffer'[head_offset' + i] =
                 IF i < data_length THEN buffer[head_offset + i]
                 ELSE data[i - data_length + 1]
    <3> DEFINE j == head_offset + i
    <3>1. /\ j \in Offsets /\ j - (head_offset + data_length) + 1 = i - data_length + 1
          /\ j < head_offset + data_length + n
          /\ head_offset + data_length <= j <=> ~(i < data_length)
      BY <1>2, <2>2 DEF Offsets
    <3> HIDE DEF j
    <3>2. buffer'[j] =
            IF head_offset + data_length <= j /\ j < head_offset + data_length + n
            THEN data[j - (head_offset + data_length) + 1] ELSE buffer[j]
      BY <2>1, <3>1
    <3>3. buffer'[j] = IF i < data_length THEN buffer[j] ELSE data[i - data_length + 1]
      BY <3>1, <3>2
    <3> QED BY <2>1, <3>3 DEF j
  <2>5. head_offset' = head_offset
    BY <2>1
  <2>6. head_offset' + data_length' <= Size /\ head_offset' \in 0 .. Size
    BY <1>2, <2>2, <2>5
  <2> QED BY <1>2, <2>3, <2>4, <2>6
<1>4. CASE ~Fits(n)
  <2>1. /\ head_offset' = 0
        /\ buffer' = [i \in Offsets |->
                        IF data_length <= i /\ i < data_length + n
                        THEN data[i - data_length + 1]
                        ELSE Moved(head_offset, data_length)[i]]
    BY <1>1, <1>4 DEF write_message_buffer, Copied
  <2>2. Moved(head_offset, data_length) =
          [i \in Offsets |-> IF i < data_length THEN buffer[head_offset + i] ELSE buffer[i]]
    BY DEF Moved
  <2>3. buffer' \in [Offsets -> Bytes \cup {Unset}]
    BY <1>2, <2>1, <2>2 DEF Offsets
  <2>4. ASSUME NEW i \in 0 .. data_length + n - 1
        PROVE  buffer'[head_offset' + i] =
                 IF i < data_length THEN buffer[head_offset + i]
                 ELSE data[i - data_length + 1]
    <3>1. i \in Offsets /\ head_offset' + i = i
      BY <1>2, <2>1 DEF Offsets
    <3> QED BY <1>2, <2>1, <2>2, <3>1
  <2> QED BY <1>2, <2>1, <2>3, <2>4
<1> QED BY <1>3, <1>4

\* What a reader sees after truncate_message_buffer: the first bytes are gone,
\* and the branch that moves the data is never needed.
LEMMA TruncateDrops ==
  ASSUME NEW len \in Nat, BufferInv, truncate_message_buffer(len)
  PROVE  /\ Taken(len) \in 0 .. data_length
         /\ head_offset' = head_offset + Taken(len)
         /\ data_length' = data_length - Taken(len)
         /\ buffer' = buffer
BY BufferConstants
   DEF BufferInv, BufferTypeOK, DataInside, truncate_message_buffer, Taken

\* Every operation keeps the data inside the array.
LEMMA StepKeepsInv == BufferInv /\ [BufferNext]_bufferVars => BufferInv'
<1> SUFFICES ASSUME BufferInv, [BufferNext]_bufferVars PROVE BufferInv'
  OBVIOUS
<1>1. ASSUME NEW n \in 0 .. MaxWrite, NEW data \in [1 .. n -> Bytes],
             write_message_buffer(data)
      PROVE  BufferInv'
  <2>1. n \in Nat
    BY BufferConstants
  <2>2. /\ data_length' = data_length + n
        /\ head_offset' + data_length' <= Size
        /\ head_offset' \in 0 .. Size
        /\ buffer' \in [Offsets -> Bytes \cup {Unset}]
        /\ \A i \in 0 .. data_length + n - 1 :
             buffer'[head_offset' + i] =
               IF i < data_length THEN buffer[head_offset + i]
               ELSE data[i - data_length + 1]
    BY <1>1, <2>1, WriteAppends
  <2>3. /\ data_length \in Nat /\ Size \in Nat
        /\ \A i \in 0 .. data_length - 1 : buffer[head_offset + i] \in Bytes
    BY BufferConstants DEF BufferInv, BufferTypeOK, DataInside
  <2>4. ASSUME NEW i \in 0 .. data_length' - 1
        PROVE  buffer'[head_offset' + i] \in Bytes
    <3>1. CASE i < data_length
      BY <2>1, <2>2, <2>3, <3>1
    <3>2. CASE ~(i < data_length)
      <4>1. i - data_length + 1 \in 1 .. n
        BY <2>1, <2>2, <2>3, <3>2
      <4> QED BY <2>1, <2>2, <2>3, <3>2, <4>1
    <3> QED BY <3>1, <3>2
  <2>5. data_length' \in 0 .. Size
    <3>1. /\ data_length' = data_length + n
          /\ head_offset' + data_length' <= Size /\ head_offset' \in 0 .. Size
      BY <2>2
    <3>2. data_length \in Nat /\ Size \in Nat
      BY <2>3
    <3>3. data_length' \in Nat
      BY <2>1, <3>1, <3>2
    <3>4. head_offset' \in Nat
      BY <3>1, <3>2
    <3>5. head_offset' + data_length' <= Size
      BY <3>1
    <3> QED BY <3>2, <3>3, <3>4, <3>5, SumBounds
  <2>6. BufferTypeOK'
    BY <2>2, <2>5 DEF BufferTypeOK
  <2> QED BY <2>2, <2>4, <2>6 DEF BufferInv, DataInside
<1>2. ASSUME NEW len \in 0 .. MaxWrite, truncate_message_buffer(len)
      PROVE  BufferInv'
  <2>1. /\ Taken(len) \in 0 .. data_length
        /\ head_offset' = head_offset + Taken(len)
        /\ data_length' = data_length - Taken(len)
        /\ buffer' = buffer
    BY <1>2, BufferConstants, TruncateDrops
  <2>2. \A i \in 0 .. data_length - 1 : buffer[head_offset + i] \in Bytes
    BY DEF BufferInv, DataInside
  <2>3. ASSUME NEW i \in 0 .. data_length' - 1
        PROVE  buffer'[head_offset' + i] \in Bytes
    <3>1. /\ Taken(len) + i \in 0 .. data_length - 1
          /\ head_offset' + i = head_offset + (Taken(len) + i)
      BY <2>1, BufferConstants DEF BufferInv, BufferTypeOK
    <3> QED BY <2>1, <2>2, <3>1
  <2>4. BufferTypeOK' /\ head_offset' + data_length' <= Size
    BY <2>1, BufferConstants DEF BufferInv, BufferTypeOK, DataInside, Offsets
  <2> QED BY <2>3, <2>4 DEF BufferInv, DataInside
<1>3. CASE ClearBuffer
  BY <1>3, BufferConstants DEF ClearBuffer, BufferInv, BufferTypeOK, DataInside, Offsets
<1>4. CASE UNCHANGED bufferVars
  BY <1>4 DEF bufferVars, BufferInv, BufferTypeOK, DataInside, Offsets
<1> QED BY <1>1, <1>2, <1>3, <1>4 DEF BufferNext

\* Every reachable state of the buffer satisfies the inductive invariant.
LEMMA BufferInvariant == BufferSpec => []BufferInv
BY CreateInv, StepKeepsInv, PTL DEF BufferSpec

(***************************************************************************)
(* The data of a message_buffer always lies inside its array and consists  *)
(* of bytes that were written.                                             *)
(***************************************************************************)
THEOREM BufferDataInside == BufferSpec => []DataInside
<1>1. BufferInv => DataInside
  BY DEF BufferInv
<1> QED BY <1>1, BufferInvariant, PTL
-----------------------------------------------------------------------------
\* The data a reader sees is a sequence of data_length bytes.
LEMMA ContentsIsSeq ==
  ASSUME BufferInv
  PROVE  contents \in Seq(Bytes) /\ Len(contents) = data_length
<1>1. /\ data_length \in Nat /\ head_offset \in Nat
      /\ \A i \in 0 .. data_length - 1 : buffer[head_offset + i] \in Bytes
  BY BufferConstants DEF BufferInv, BufferTypeOK, DataInside
<1>2. ASSUME NEW i \in 1 .. data_length
      PROVE  buffer[head_offset + i - 1] \in Bytes
  <2>1. i - 1 \in 0 .. data_length - 1 /\ head_offset + i - 1 = head_offset + (i - 1)
    BY <1>1
  <2> QED BY <1>1, <2>1
<1>3. contents \in [1 .. data_length -> Bytes]
  BY <1>2 DEF contents
<1> QED BY <1>1, <1>3, SeqDef

\* The same for the state after a step.
LEMMA NextContentsIsSeq ==
  ASSUME BufferInv'
  PROVE  contents' \in Seq(Bytes) /\ Len(contents') = data_length'
<1>1. data_length' \in 0 .. Size /\ head_offset' \in 0 .. Size
  BY DEF BufferInv, BufferTypeOK
<1>2. \A i \in 0 .. data_length' - 1 : buffer'[head_offset' + i] \in Bytes
  BY DEF BufferInv, DataInside
<1>3. data_length' \in Nat /\ head_offset' \in Nat
  BY <1>1, BufferConstants
<1>4. contents' = [i \in 1 .. data_length' |-> buffer'[head_offset' + i - 1]]
  BY DEF contents
<1>5. ASSUME NEW i \in 1 .. data_length'
      PROVE  buffer'[head_offset' + i - 1] \in Bytes
  <2>1. i - 1 \in 0 .. data_length' - 1 /\ head_offset' + i - 1 = head_offset' + (i - 1)
    BY <1>3, ShiftIndex
  <2> QED BY <1>2, <2>1
<1>6. contents' \in [1 .. data_length' -> Bytes]
  BY <1>4, <1>5
<1> QED BY <1>3, <1>6, SeqDef

\* A write appends the data to the abstract queue.
LEMMA WriteRefines ==
  ASSUME NEW n \in 0 .. MaxWrite, NEW data \in [1 .. n -> Bytes],
         BufferInv, BufferInv', write_message_buffer(data)
  PROVE  Queue!QWrite
<1>1. n \in Nat /\ data_length \in Nat /\ head_offset \in Nat /\ Size \in Nat
  BY BufferConstants DEF BufferInv, BufferTypeOK
<1>2. /\ data_length' = data_length + n
      /\ head_offset' + data_length' <= Size
      /\ head_offset' \in Nat
      /\ \A i \in 0 .. data_length + n - 1 :
           buffer'[head_offset' + i] =
             IF i < data_length THEN buffer[head_offset + i]
             ELSE data[i - data_length + 1]
  BY <1>1, WriteAppends
<1>3. data \in Seq(Bytes) /\ Len(data) = n
  BY <1>1, SeqDef
<1>4. contents \in Seq(Bytes) /\ Len(contents) = data_length
  BY ContentsIsSeq
<1>5. contents' \in Seq(Bytes) /\ Len(contents') = data_length + n
  <2>1. contents' \in Seq(Bytes) /\ Len(contents') = data_length'
    BY NextContentsIsSeq
  <2> QED BY <1>2, <2>1
<1>6. /\ contents \o data \in Seq(Bytes)
      /\ Len(contents \o data) = data_length + n
      /\ \A i \in 1 .. data_length + n :
           (contents \o data)[i] = IF i <= data_length THEN contents[i]
                                  ELSE data[i - data_length]
  BY <1>3, <1>4, ConcatProperties
<1>7. ASSUME NEW i \in 1 .. data_length + n
      PROVE  contents'[i] = (contents \o data)[i]
  <2>1. /\ i \in 1 .. data_length'
        /\ head_offset' + i - 1 = head_offset' + (i - 1)
        /\ i - 1 \in 0 .. data_length + n - 1
        /\ i - 1 < data_length <=> i <= data_length
        /\ head_offset + (i - 1) = head_offset + i - 1
        /\ i - 1 - data_length + 1 = i - data_length
    BY <1>1, <1>2
  <2>2. contents'[i] = buffer'[head_offset' + (i - 1)]
    BY <2>1 DEF contents
  <2>3. contents'[i] = IF i <= data_length THEN buffer[head_offset + i - 1]
                       ELSE data[i - data_length]
    BY <1>2, <2>1, <2>2
  <2>4. i <= data_length => contents[i] = buffer[head_offset + i - 1]
    BY <1>1 DEF contents
  <2> QED BY <1>6, <2>3, <2>4
<1>8. contents' = contents \o data
  BY <1>5, <1>6, <1>7, SeqEqual
<1>9. Len(contents) + Len(data) <= Size
  BY <1>1, <1>2, <1>3, <1>4
<1>10. data \in Queue!Data
  BY DEF Queue!Data
<1> QED BY <1>8, <1>9, <1>10 DEF Queue!QWrite

\* Taking bytes away, from the front or all of them, truncates the queue.
LEMMA TruncateRefines ==
  ASSUME NEW n \in 0 .. data_length, BufferInv, BufferInv',
         data_length' = data_length - n,
         \A i \in 1 .. data_length - n :
           buffer'[head_offset' + i - 1] = buffer[head_offset + n + i - 1]
  PROVE  Queue!QTruncate
<1>1. data_length \in Nat /\ head_offset \in Nat
  BY BufferConstants DEF BufferInv, BufferTypeOK
<1>2. contents \in Seq(Bytes) /\ Len(contents) = data_length
  BY ContentsIsSeq
<1>3. contents' \in Seq(Bytes) /\ Len(contents') = data_length - n
  <2>1. contents' \in Seq(Bytes) /\ Len(contents') = data_length'
    BY NextContentsIsSeq
  <2> QED BY <2>1
<1>4. \A i \in n + 1 .. data_length : contents[i] \in Bytes
  BY <1>1, <1>2, ElementOfSeq
<1>5. /\ Queue!Rest(n) \in Seq(Bytes)
      /\ Len(Queue!Rest(n)) = data_length - n
      /\ \A i \in 1 .. data_length - n : Queue!Rest(n)[i] = contents[n + i]
  <2>1. n + 1 \in Int /\ data_length \in Int
    BY <1>1
  <2>2. /\ SubSeq(contents, n + 1, data_length) \in Seq(Bytes)
        /\ Len(SubSeq(contents, n + 1, data_length)) =
             IF n + 1 <= data_length THEN data_length - (n + 1) + 1 ELSE 0
        /\ \A i \in 1 .. data_length - (n + 1) + 1 :
             SubSeq(contents, n + 1, data_length)[i] = contents[n + 1 + i - 1]
    BY <1>4, <2>1, SubSeqProperties
  <2>3. Queue!Rest(n) = SubSeq(contents, n + 1, data_length)
    BY <1>2 DEF Queue!Rest
  <2>4. data_length - (n + 1) + 1 = data_length - n
    BY <1>1
  <2>5. \A i \in 1 .. data_length - n : n + 1 + i - 1 = n + i
    BY <1>1
  <2>6. (IF n + 1 <= data_length THEN data_length - n ELSE 0) = data_length - n
    BY <1>1
  <2> QED BY <2>2, <2>3, <2>4, <2>5, <2>6
<1>6. ASSUME NEW i \in 1 .. data_length - n
      PROVE  contents'[i] = Queue!Rest(n)[i]
  <2>1. contents'[i] = buffer'[head_offset' + i - 1]
    BY DEF contents
  <2>2. n + i \in 1 .. data_length /\ head_offset + (n + i) - 1 = head_offset + n + i - 1
    BY <1>1
  <2>3. contents[n + i] = buffer[head_offset + (n + i) - 1]
    BY <2>2 DEF contents
  <2> QED BY <1>5, <2>1, <2>2, <2>3
<1>7. contents' = Queue!Rest(n)
  BY <1>3, <1>5, <1>6, SeqEqual
<1> QED BY <1>2, <1>7 DEF Queue!QTruncate

(***************************************************************************)
(* message_buffer implements the byte queue, for every size: every step of *)
(* write_message_buffer, truncate_message_buffer and clear_send_queue is a *)
(* step of the queue, under the mapping that reads data_length bytes from  *)
(* head_offset on.                                                         *)
(***************************************************************************)
THEOREM BufferRefinesQueue == BufferSpec => ImplementsByteQueue
<1>1. create_message_buffer => Queue!QInit
  BY DEF create_message_buffer, Queue!QInit, contents
<1>2. BufferInv /\ BufferInv' /\ [BufferNext]_bufferVars => [Queue!QNext]_contents
  <2> SUFFICES ASSUME BufferInv, BufferInv', [BufferNext]_bufferVars
               PROVE  [Queue!QNext]_contents
    OBVIOUS
  <2>1. ASSUME NEW n \in 0 .. MaxWrite, NEW data \in [1 .. n -> Bytes],
               write_message_buffer(data)
        PROVE  Queue!QNext
    BY <2>1, WriteRefines DEF Queue!QNext
  <2>2. ASSUME NEW len \in 0 .. MaxWrite, truncate_message_buffer(len)
        PROVE  Queue!QNext
    <3> DEFINE n == Taken(len)
    <3>1. /\ n \in 0 .. data_length
          /\ head_offset' = head_offset + n
          /\ data_length' = data_length - n
          /\ buffer' = buffer
      BY <2>2, BufferConstants, TruncateDrops
    <3> HIDE DEF n
    <3>2. \A i \in 1 .. data_length - n :
            buffer'[head_offset' + i - 1] = buffer[head_offset + n + i - 1]
      BY <3>1
    <3> QED BY <3>1, <3>2, TruncateRefines DEF Queue!QNext
  <2>3. CASE ClearBuffer
    <3>1. /\ data_length \in 0 .. data_length
          /\ data_length' = data_length - data_length
          /\ data_length - data_length = 0
      BY <2>3, BufferConstants DEF ClearBuffer, BufferInv, BufferTypeOK
    <3>2. \A i \in 1 .. data_length - data_length :
            buffer'[head_offset' + i - 1] = buffer[head_offset + data_length + i - 1]
      BY <3>1
    <3> QED BY <3>1, <3>2, TruncateRefines DEF Queue!QNext
  <2>4. CASE UNCHANGED bufferVars
    BY <2>4 DEF bufferVars, contents
  <2> QED BY <2>1, <2>2, <2>3, <2>4 DEF BufferNext
<1> QED BY <1>1, <1>2, BufferInvariant, PTL DEF BufferSpec, ImplementsByteQueue, Queue!QSpec
=============================================================================
