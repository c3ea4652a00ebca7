--------------------------- MODULE SecureChannel ---------------------------
(***************************************************************************)
(* The TCP connection between a switch daemon and its switch               *)
(* (src/switch_manager/secure_channel_sender.c, secure_channel_receiver.c) *)
(* with the message queues on either side of it (src/lib/message_queue.c). *)
(* OpenFlow messages are queued, written with writev as far as the socket  *)
(* takes them, and what is left waits until the socket is writable again;  *)
(* in the other direction bytes are collected in fragment_buf and cut into *)
(* messages by the length in their header.                                 *)
(*                                                                         *)
(* A byte is the message it belongs to, its place and the message's        *)
(* length; the header is the first byte.  History: accepted and emitted    *)
(* are the messages given to the daemon's and to the switch's side,        *)
(* written the bytes the socket took, delivered the messages handled.      *)
(***************************************************************************)
EXTENDS Integers, SequencesExt

CONSTANTS
    Lengths,        \* lengths of messages
    BufferSize,     \* RECEIVE_BUFFFER_SIZE
    IovMax,         \* IOV_MAX
    MaxSent,        \* bound on the messages the daemon sends
    MaxEmitted      \* bound on the messages the switch sends

ASSUME SecureChannelConstants ==
    /\ Lengths \subseteq Nat \ {0}
    /\ \A n \in Lengths : n < BufferSize
    /\ IovMax \in Nat \ {0}

VARIABLES
    open, send_queue, writable, accepted, written,
    stream, fragment_buf, recv_queue, emitted, delivered

sendVars == <<send_queue, writable, accepted, written>>
recvVars == <<stream, fragment_buf, recv_queue, emitted, delivered>>
channelvars == <<open, sendVars, recvVars>>

Bytes(id, length) == [i \in 1 .. length |-> [id |-> id, place |-> i, length |-> length]]
Drop(bytes, n) == SubSeq(bytes, n + 1, Len(bytes))

ChannelInit ==
    /\ open = TRUE
    /\ send_queue = <<>> /\ writable = FALSE /\ accepted = <<>> /\ written = <<>>
    /\ stream = <<>> /\ fragment_buf = <<>> /\ recv_queue = <<>>
    /\ emitted = <<>> /\ delivered = <<>>

-----------------------------------------------------------------------------
(* secure_channel_sender.c                                                 *)

send_to_secure_channel(length) ==
    LET message == Bytes(Len(accepted) + 1, length)
    IN  /\ open /\ Len(accepted) < MaxSent
        /\ accepted' = Append(accepted, message)
        /\ send_queue' = Append(send_queue, message)
        /\ writable' = TRUE
        /\ UNCHANGED <<open, written, recvVars>>

(* The messages one writev is given.                                       *)
writev_args == SubSeq(send_queue, 1, IF Len(send_queue) < IovMax THEN Len(send_queue) ELSE IovMax)

(* What is left of the queue when writev took n bytes: whole messages are  *)
(* dequeued, the front of the next is removed.                             *)
FirstBytes(queue) == [k \in 0 .. Len(queue) |-> Len(FlattenSeq(SubSeq(queue, 1, k)))]
WholeLess(queue, n) == Max({0} \cup {k \in 1 .. Len(queue) : FirstBytes(queue)[k] < n})
Whole(queue, n) == Max({k \in 0 .. Len(queue) : FirstBytes(queue)[k] <= n})
CutKept(queue, n) == Drop(queue, Whole(queue, n))
Remaining(queue, n) ==
    LET k == Whole(queue, n)
        cut == n - FirstBytes(queue)[k]
    IN  IF cut = 0 THEN Drop(queue, k) ELSE <<Drop(queue[k + 1], cut)>> \o Drop(queue, k + 1)

(* Whether the loop over the queue ends with the socket watched.           *)
WatchedIfCut(queue) == queue # <<>> /\ Head(queue)[1].place > 1
WatchedIfLeft(queue) == queue # <<>>

Written(n) ==
    LET bytes == SubSeq(FlattenSeq(writev_args), 1, n)
        queue == Remaining(send_queue, n)
    IN  /\ written' = written \o bytes
        /\ send_queue' = queue
        /\ writable' = WatchedIfLeft(queue)

flush_secure_channel ==
    /\ open /\ writable /\ send_queue # <<>>
    /\ \E n \in 1 .. Len(FlattenSeq(writev_args)) : Written(n)
    /\ UNCHANGED <<open, accepted, recvVars>>

(* EAGAIN or EINTR; and any other error, which ends the connection.        *)
WriteInterrupted ==
    /\ open /\ writable /\ send_queue # <<>>
    /\ writable' = TRUE
    /\ UNCHANGED <<open, send_queue, accepted, written, recvVars>>

WriteFails ==
    /\ open /\ writable /\ send_queue # <<>>
    /\ open' = FALSE /\ writable' = FALSE
    /\ UNCHANGED <<send_queue, accepted, written, recvVars>>

-----------------------------------------------------------------------------
(* secure_channel_receiver.c                                               *)

SwitchSends(length) ==
    LET message == Bytes(Len(emitted) + 1, length)
    IN  /\ Len(emitted) < MaxEmitted
        /\ emitted' = Append(emitted, message)
        /\ stream' = stream \o message
        /\ UNCHANGED <<open, sendVars, fragment_buf, recv_queue, delivered>>

(* The whole messages at the front of the bytes collected.                 *)
FirstMessage(bytes) ==
    IF bytes = <<>> \/ bytes[1].length > Len(bytes) THEN <<>> ELSE <<SubSeq(bytes, 1, bytes[1].length)>>
Messages(bytes) ==
    LET from[n \in 0 .. Len(bytes)] ==
            LET first == FirstMessage(Drop(bytes, n))
            IN  IF first = <<>> THEN <<>> ELSE first \o from[n + Len(first[1])]
    IN  from[0]

LeftAfterFirst(bytes, messages) == Drop(bytes, IF messages = <<>> THEN 0 ELSE Len(messages[1]))
LeftAfter(bytes, messages) == Drop(bytes, Len(FlattenSeq(messages)))

recv_from_secure_channel ==
    /\ open /\ stream # <<>>
    /\ recv_queue = <<>>
    /\ \E n \in 1 .. Len(stream) :
          LET collected == fragment_buf \o SubSeq(stream, 1, n)
              messages == Messages(collected)
          IN  /\ Len(collected) <= BufferSize
              /\ stream' = Drop(stream, n)
              /\ recv_queue' = messages
              /\ fragment_buf' = LeftAfter(collected, messages)
    /\ UNCHANGED <<open, sendVars, emitted, delivered>>

handle_messages_from_secure_channel ==
    /\ recv_queue # <<>>
    /\ delivered' = delivered \o recv_queue
    /\ recv_queue' = <<>>
    /\ UNCHANGED <<open, sendVars, stream, fragment_buf, emitted>>

(* The peer closes the connection, or read fails.                          *)
ReadFails ==
    /\ open /\ recv_queue = <<>>
    /\ open' = FALSE /\ writable' = FALSE
    /\ UNCHANGED <<send_queue, accepted, written, recvVars>>

ChannelNext ==
    \/ \E n \in Lengths : send_to_secure_channel(n)
    \/ flush_secure_channel \/ WriteInterrupted \/ WriteFails
    \/ \E n \in Lengths : SwitchSends(n)
    \/ recv_from_secure_channel \/ handle_messages_from_secure_channel \/ ReadFails

ChannelSpec == ChannelInit /\ [][ChannelNext]_channelvars

-----------------------------------------------------------------------------
(* Every queued message still has bytes to write, as send_to_secure_channel*)
(* asserts when it queues it, and what is collected fits the buffer with   *)
(* room for the next read (read into no room returns 0, which would be     *)
(* taken for the end of the connection).                                   *)
ChannelTypeOK ==
    /\ {open, writable} \subseteq BOOLEAN
    /\ \A i \in DOMAIN send_queue : send_queue[i] # <<>>
    /\ Len(fragment_buf) < BufferSize

(* However the writes are cut, the socket is given the bytes of the        *)
(* messages in order, none lost, none twice.                               *)
BytesInOrder == written \o FlattenSeq(send_queue) = FlattenSeq(accepted)

(* However the stream is cut into reads, the messages handled are those    *)
(* the switch sent, in order, and a whole message is never left in         *)
(* fragment_buf, where it would wait until the switch sends more.          *)
MessagesInOrder ==
    /\ IsPrefix(delivered \o recv_queue, emitted)
    /\ FlattenSeq(delivered \o recv_queue) \o fragment_buf \o stream = FlattenSeq(emitted)
    /\ fragment_buf # <<>> => fragment_buf[1].length > Len(fragment_buf)

(* Every message given to the daemon is written, unless the connection     *)
(* ends: flush_secure_channel stops watching the socket before it writes,  *)
(* and every path that leaves bytes behind watches it again.               *)
EverythingWritten == [](send_queue # <<>> => <>(send_queue = <<>> \/ ~open))

=============================================================================
