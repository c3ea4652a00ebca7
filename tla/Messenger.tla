----------------------------- MODULE Messenger -----------------------------
(***************************************************************************)
(* The message path of src/lib/messenger.c from one process to the service *)
(* of another: a send queue, its connection, its reconnect timer, and the  *)
(* receive queue with the sockets it has accepted.                         *)
(*                                                                         *)
(* A message of length n is a run of n units, each carrying the message's  *)
(* id, its position and n; the unit at position 1 is the header.  So a     *)
(* buffer, a packet and a truncated packet are sequences of units and      *)
(* lengths are lengths.  Buffer sizes are multiples of RecvBuffer, as in   *)
(* the source.  The service may exit and start again at any time.          *)
(***************************************************************************)
EXTENDS Integers, Sequences, FiniteSets

CONSTANTS
  RecvBuffer,     \* MESSENGER_RECV_BUFFER
  Lengths,        \* lengths of the messages sent, header included
  MaxMessages,    \* messages sent in a behaviour
  MaxQueues,      \* send queues created in a behaviour
  MaxConnections, \* connections opened in a behaviour
  MaxExits,       \* exits of the service in a behaviour
  SocketPackets,  \* packets a socket holds before send reports EAGAIN
  Failures        \* subset of {"socket", "ENOBUFS", "stop_dump"}: what else happens

ASSUME MessengerConstants ==
  /\ RecvBuffer \in Nat \ {0} /\ Lengths \subseteq Nat \ {0}
  /\ Failures \subseteq {"socket", "ENOBUFS", "stop_dump"}

messenger_send_queue_length == RecvBuffer * 4
messenger_send_length_for_flush == RecvBuffer
messenger_bucket_size == RecvBuffer
messenger_recv_queue_length == RecvBuffer * 2
messenger_recv_queue_reserved == RecvBuffer

VARIABLES
  sq,         \* the send queue; sq.id = 0 when there is none
  queues,     \* send queues created so far; a queue's id is its number
  timers,     \* timers[q]: reconnect timers armed for queue q
  conn,       \* conn[c]: the connection with that number
  connections,\* connections opened so far
  up,         \* the service has its receive queue (it listens)
  exits,      \* exits of the service so far
  rbuffer,    \* rq->buffer
  delivered,  \* what was handed to the service's callbacks, in order
  sent,       \* messages sent so far; a message's id is its number
  dropped     \* ids of the messages the code has dropped on purpose

sender == <<sq, queues, timers>>
network == <<conn, connections>>
service == <<up, exits, rbuffer, delivered>>
messengervars == <<sender, network, service, sent, dropped>>

QueueIds == 1 .. MaxQueues
ConnectionIds == 1 .. MaxConnections

NoQueue == [id |-> 0, server_socket |-> 0, refused_count |-> 0,
            reconnect_interval |-> 0, running_timer |-> FALSE,
            buffer |-> <<>>, writable |-> FALSE]

\* accepted, open: the service's end; the sender's end is open as long as it
\* is the queue's server_socket.  beside: the service still had an earlier
\* connection of the sender when this one was made.
NoConnection == [accepted |-> FALSE, open |-> FALSE, beside |-> FALSE, packets |-> <<>>]

\* from: the connection a unit has been received on, 0 before that.
Message(id, len) ==
  [pos \in 1 .. len |-> [id |-> id, pos |-> pos, len |-> len, from |-> 0]]
IdsIn(units) == {units[i].id : i \in DOMAIN units}
InPackets(c) == UNION {IdsIn(conn[c].packets[i]) : i \in DOMAIN conn[c].packets}

MessengerInit ==
  /\ sq = NoQueue /\ queues = 0 /\ timers = [q \in QueueIds |-> 0]
  /\ conn = [c \in ConnectionIds |-> NoConnection] /\ connections = 0
  /\ up \in BOOLEAN /\ exits = 0 /\ rbuffer = <<>> /\ delivered = <<>>
  /\ sent = 0 /\ dropped = {}

-----------------------------------------------------------------------------
(* Connecting.  q is the queue as it is when the attempt is made, t the     *)
(* timers armed then; q is not connected and none of t is its own.          *)

\* 1 << ( refused_count > 4 ? 4 : refused_count - 1 ); counts above 5 are
\* not told apart.
Backoff(refused_count) == 2 ^ (IF refused_count > 4 THEN 4 ELSE refused_count - 1)

\* Mutant of Refused: only the first refusal arms the timer.
RefusedOnce(q, t) ==
  /\ ~up
  /\ LET refused == IF q.refused_count < 5 THEN q.refused_count + 1 ELSE 5
     IN /\ sq' = [q EXCEPT !.refused_count = refused, !.running_timer = TRUE,
                           !.reconnect_interval = Backoff(refused), !.writable = FALSE]
        /\ timers' = IF refused = 1 THEN [t EXCEPT ![q.id] = @ + 1] ELSE t
  /\ UNCHANGED network

\* connect is refused: try again later.
Refused(q, t) ==
  /\ ~up
  /\ LET refused == IF q.refused_count < 5 THEN q.refused_count + 1 ELSE 5
     IN sq' = [q EXCEPT !.refused_count = refused, !.running_timer = TRUE,
                        !.reconnect_interval = Backoff(refused), !.writable = FALSE]
  /\ timers' = [t EXCEPT ![q.id] = @ + 1]
  /\ UNCHANGED network

\* connect succeeds, before the service has accepted.
Connected(q, t) ==
  /\ up /\ connections < MaxConnections
  /\ connections' = connections + 1
  /\ conn' = [conn EXCEPT ![connections'] =
               [NoConnection EXCEPT !.open = TRUE,
                                    !.beside = \E c \in ConnectionIds : conn[c].open]]
  /\ sq' = [q EXCEPT !.server_socket = connections', !.refused_count = 0,
                     !.running_timer = FALSE, !.reconnect_interval = 0]
  /\ timers' = t

\* socket, setsockopt or fcntl fails: the queue is never connected again.
SocketFails(q, t) ==
  /\ "socket" \in Failures
  /\ sq' = [q EXCEPT !.running_timer = FALSE, !.reconnect_interval = -1, !.writable = FALSE]
  /\ timers' = t
  /\ UNCHANGED network

\* A socket that gets connected is written to if data waits.
WatchedIfData(q) == [q EXCEPT !.writable = q.buffer # <<>>]

send_queue_try_connect(q, t) ==
  IF q.reconnect_interval # 0
  THEN sq' = [q EXCEPT !.writable = FALSE] /\ timers' = t /\ UNCHANGED network
  ELSE Refused(q, t) \/ Connected(q, t) \/ SocketFails(q, t)

\* The timer of the queue fires.
send_queue_connect_timeout ==
  /\ sq.id # 0
  /\ timers[sq.id] > 0
  /\ LET t == [timers EXCEPT ![sq.id] = @ - 1]
         q == WatchedIfData([sq EXCEPT !.running_timer = FALSE])
     IN IF sq.server_socket # 0
        THEN sq' = [sq EXCEPT !.running_timer = FALSE] /\ timers' = t /\ UNCHANGED network
        ELSE Refused(q, t) \/ Connected(q, t) \/ SocketFails(q, t)
  /\ UNCHANGED <<queues, service, sent, dropped>>

-----------------------------------------------------------------------------
(* Sending.                                                                 *)

\* Mutant of Overflow: one unit too many is let in.
OverflowLate(len) == Len(sq.buffer) + len > messenger_send_queue_length + 1

Overflow(len) == Len(sq.buffer) + len > messenger_send_queue_length

\* push_message_to_send_queue.  A queue that is created is connected at once;
\* failing to create its socket aborts the process and is left out.  When
\* more than messenger_send_length_for_flush is buffered, on_send_write is
\* called directly: on_send_write below, which is then enabled.
push_message_to_send_queue(len) ==
  /\ sent < MaxMessages
  /\ sent' = sent + 1
  /\ LET pushed == sq.buffer \o Message(sent', len)
     IN CASE sq.id = 0 ->
               /\ queues < MaxQueues
               /\ queues' = queues + 1
               /\ LET q == WatchedIfData([NoQueue EXCEPT !.id = queues', !.buffer = pushed])
                  IN Refused(q, timers) \/ Connected(q, timers)
               /\ UNCHANGED dropped
          [] sq.id # 0 /\ Overflow(len) ->
               dropped' = dropped \cup {sent'} /\ UNCHANGED <<sender, network>>
          [] sq.id # 0 /\ ~Overflow(len) /\ sq.server_socket = 0 ->
               /\ send_queue_try_connect(WatchedIfData([sq EXCEPT !.buffer = pushed]), timers)
               /\ UNCHANGED <<queues, dropped>>
          [] sq.id # 0 /\ ~Overflow(len) /\ sq.server_socket # 0 ->
               /\ sq' = [sq EXCEPT !.buffer = pushed, !.writable = TRUE]
               /\ UNCHANGED <<queues, timers, network, dropped>>
  /\ UNCHANGED service


\* MessageEnd(units)[k]: where the k-th message of units ends, as told by the
\* lengths in the headers; constant once no complete message is left.
MessageEnd(units) ==
  LET end[k \in 0 .. Len(units)] ==
        IF k = 0 THEN 0
        ELSE LET e == end[k - 1]
             IN IF e < Len(units) /\ e + units[e + 1].len <= Len(units)
                THEN e + units[e + 1].len ELSE e
  IN end

\* Mutant of get_send_data: a bucket is filled up with part of a message.
SendDataCut(bucket_size) ==
  IF Len(sq.buffer) < bucket_size THEN Len(sq.buffer) ELSE bucket_size

\* The bytes of the next packet: whole messages only, as many as fit into the
\* bucket, but at least one.
get_send_data(bucket_size) ==
  LET ends == {MessageEnd(sq.buffer)[k] : k \in 1 .. Len(sq.buffer)}
      fitting == {e \in ends : e <= bucket_size}
  IN IF fitting = {} THEN MessageEnd(sq.buffer)[1]
     ELSE CHOOSE e \in fitting : \A f \in fitting : f <= e

\* Mutant of PacketSent: what was sent is truncated only with the last packet.
PacketSentKept(bucket_size) ==
  LET c == sq.server_socket
      n == get_send_data(bucket_size)
      rest == SubSeq(sq.buffer, n + 1, Len(sq.buffer))
  IN /\ sq.buffer # <<>>
     /\ conn[c].open
     /\ Len(conn[c].packets) < SocketPackets
     /\ conn' = [conn EXCEPT ![c].packets = Append(@, SubSeq(sq.buffer, 1, n))]
     /\ sq' = IF rest = <<>> THEN [sq EXCEPT !.buffer = rest, !.writable = FALSE] ELSE sq
     /\ UNCHANGED <<queues, timers, connections, dropped>>

\* One packet leaves.  The loop of on_send_write may stop after any packet
\* with EAGAIN, so a step sends one; the bucket shrinks as the socket fills.
PacketSent(bucket_size) ==
  LET c == sq.server_socket
      n == get_send_data(bucket_size)
      rest == SubSeq(sq.buffer, n + 1, Len(sq.buffer))
  IN /\ sq.buffer # <<>>
     /\ conn[c].open
     /\ Len(conn[c].packets) < SocketPackets
     /\ conn' = [conn EXCEPT ![c].packets = Append(@, SubSeq(sq.buffer, 1, n))]
     /\ sq' = [sq EXCEPT !.buffer = rest, !.writable = rest # <<>>]
     /\ UNCHANGED <<queues, timers, connections, dropped>>

\* send fails: the service has closed its end, or the kernel has no buffers.
\* The queue is connected again, and in the second case emptied after that.
SendFails(errno) ==
  LET again == WatchedIfData([sq EXCEPT !.server_socket = 0, !.refused_count = 0])
      q == IF errno = "ENOBUFS" THEN [again EXCEPT !.buffer = <<>>] ELSE again
  IN /\ sq.buffer # <<>>
     /\ IF errno = "EPIPE" THEN ~conn[sq.server_socket].open ELSE errno \in Failures
     /\ send_queue_try_connect(q, timers)
     /\ dropped' = dropped \cup (IdsIn(sq.buffer) \ IdsIn(q.buffer))
     /\ UNCHANGED queues

\* The socket is writable.
on_send_write ==
  /\ sq.server_socket # 0
  /\ sq.writable
  /\ \/ /\ sq.buffer = <<>>
        /\ sq' = [sq EXCEPT !.writable = FALSE]
        /\ UNCHANGED <<queues, timers, network, dropped>>
     \/ \E bucket_size \in {1, messenger_bucket_size} : PacketSent(bucket_size)
     \/ \E errno \in {"EPIPE", "ENOBUFS"} : SendFails(errno)
  /\ UNCHANGED <<service, sent>>

\* The service has closed the connection: connect again, or delete the queue
\* if it is empty.
on_send_read ==
  /\ sq.server_socket # 0
  /\ ~conn[sq.server_socket].open
  /\ IF sq.buffer # <<>>
     THEN send_queue_try_connect(WatchedIfData([sq EXCEPT !.server_socket = 0]), timers)
     ELSE sq' = NoQueue /\ UNCHANGED <<timers, network>>
  /\ UNCHANGED <<queues, service, sent, dropped>>

clear_send_queue ==
  /\ sq.buffer # <<>>
  /\ sq' = [sq EXCEPT !.buffer = <<>>, !.writable = FALSE]
  /\ dropped' = dropped \cup IdsIn(sq.buffer)
  /\ UNCHANGED <<queues, timers, network, service, sent>>

\* delete_send_queue for the queue to the dump service.
stop_messenger_dump ==
  /\ "stop_dump" \in Failures
  /\ sq.id # 0
  /\ sq' = NoQueue
  /\ dropped' = dropped \cup IdsIn(sq.buffer)
  /\ UNCHANGED <<queues, timers, network, service, sent>>

-----------------------------------------------------------------------------
(* The service.                                                             *)

create_receive_queue ==
  /\ ~up
  /\ up' = TRUE
  /\ UNCHANGED <<exits, rbuffer, delivered, sender, network, sent, dropped>>

\* The service exits, or deletes its last callback: delete_receive_queue.
\* What was not read is lost with the sockets.
delete_receive_queue ==
  /\ up /\ exits < MaxExits
  /\ up' = FALSE /\ exits' = exits + 1 /\ rbuffer' = <<>>
  /\ conn' = [c \in ConnectionIds |-> [conn[c] EXCEPT !.open = FALSE, !.packets = <<>>]]
  /\ dropped' = dropped \cup IdsIn(rbuffer) \cup UNION {InPackets(c) : c \in ConnectionIds}
  /\ UNCHANGED <<delivered, sender, connections, sent>>

on_accept(c) ==
  /\ conn[c].open /\ ~conn[c].accepted
  /\ conn' = [conn EXCEPT ![c].accepted = TRUE]
  /\ UNCHANGED <<sender, connections, service, sent, dropped>>

\* setsockopt or fcntl fails on the accepted socket, which is closed.
AcceptFails(c) ==
  /\ "socket" \in Failures
  /\ conn[c].open /\ ~conn[c].accepted
  /\ conn' = [conn EXCEPT ![c].open = FALSE, ![c].packets = <<>>]
  /\ dropped' = dropped \cup InPackets(c)
  /\ UNCHANGED <<sender, connections, service, sent>>

\* A packet longer than the buffer given to recv is cut.
Received(packet, c) ==
  [i \in 1 .. (IF Len(packet) < RecvBuffer THEN Len(packet) ELSE RecvBuffer) |->
     [packet[i] EXCEPT !.from = c]]

\* Filled(c)[k]: rq->buffer after the first k packets of c; a packet that
\* does not fit is discarded.
Filled(c) ==
  LET filled[k \in 0 .. Len(conn[c].packets)] ==
        IF k = 0 THEN rbuffer
        ELSE LET data == Received(conn[c].packets[k], c)
             IN IF Len(filled[k - 1]) + Len(data) <= messenger_recv_queue_length
                THEN filled[k - 1] \o data ELSE filled[k - 1]
  IN filled

RoomToRead(units) ==
  messenger_recv_queue_length - Len(units) > messenger_recv_queue_reserved

\* The packets read by one call of on_recv: until the socket is empty or the
\* buffer has no room left.
PacketsRead(c) ==
  CHOOSE k \in 0 .. Len(conn[c].packets) :
    /\ \A j \in 0 .. k - 1 : RoomToRead(Filled(c)[j])
    /\ k < Len(conn[c].packets) => ~RoomToRead(Filled(c)[k])

\* The messages pull_from_recv_queue takes from units, one after the other.
Pulled(units) ==
  LET end == MessageEnd(units)
      count == Cardinality({k \in 1 .. Len(units) : end[k - 1] < end[k]})
      taken(k) == SubSeq(units, end[k - 1] + 1, end[k])
  IN [k \in 1 .. count |->
        [id |-> taken(k)[1].id, from |-> taken(k)[1].from,
         whole |-> /\ Len(taken(k)) = taken(k)[1].len
                   /\ \A i \in DOMAIN taken(k) :
                        taken(k)[i] = [taken(k)[1] EXCEPT !.pos = i]]]

\* At the end of the stream the socket is closed; then the callbacks run.
on_recv(c) ==
  LET k == PacketsRead(c)
      units == Filled(c)[k]
      packets == conn[c].packets
      eof == k = Len(packets) /\ RoomToRead(units) /\ sq.server_socket # c
  IN /\ conn[c].accepted /\ conn[c].open
     /\ packets # <<>> \/ sq.server_socket # c
     /\ conn' = [conn EXCEPT ![c].packets = SubSeq(packets, k + 1, Len(packets)),
                             ![c].open = ~eof]
     /\ delivered' = delivered \o Pulled(units)
     /\ rbuffer' = SubSeq(units, MessageEnd(units)[Len(units)] + 1, Len(units))
     /\ UNCHANGED <<sender, connections, up, exits, sent, dropped>>

-----------------------------------------------------------------------------
MessengerNext ==
  \/ \E len \in Lengths : push_message_to_send_queue(len)
  \/ send_queue_connect_timeout
  \/ on_send_write \/ on_send_read
  \/ clear_send_queue \/ stop_messenger_dump
  \/ create_receive_queue \/ delete_receive_queue
  \/ \E c \in ConnectionIds : on_accept(c) \/ AcceptFails(c) \/ on_recv(c)

MessengerSpec == MessengerInit /\ [][MessengerNext]_messengervars

-----------------------------------------------------------------------------
Unit == [id : 1 .. MaxMessages, pos : Nat, len : Lengths, from : 0 .. MaxConnections]

MessengerTypeOK ==
  /\ sq.id \in 0 .. queues /\ queues \in 0 .. MaxQueues
  /\ sq.server_socket \in 0 .. connections /\ connections \in 0 .. MaxConnections
  /\ sq.refused_count \in 0 .. 5 /\ sq.reconnect_interval \in {-1, 0, 1, 2, 4, 8, 16}
  /\ sq.buffer \in Seq(Unit) /\ Len(sq.buffer) <= messenger_send_queue_length
  /\ rbuffer \in Seq(Unit) /\ Len(rbuffer) <= messenger_recv_queue_length
  /\ dropped \subseteq 1 .. sent

(***************************************************************************)
(* Every message handed to send_message is in exactly one place: buffered, *)
(* in a packet, in the receive buffer, delivered, or dropped where the     *)
(* code says so (overflow, ENOBUFS, clear, or the exit of the service).    *)
(* Reconnecting neither loses nor repeats what is buffered, and on_recv    *)
(* stops reading before a packet could be refused by a full buffer.        *)
(***************************************************************************)
EachMessageInOnePlace ==
  \A id \in 1 .. sent :
    Cardinality({c \in ConnectionIds : id \in InPackets(c)})
    + Cardinality({i \in DOMAIN delivered : delivered[i].id = id})
    + Cardinality({p \in {"buffer", "rbuffer", "dropped"} :
                     id \in CASE p = "buffer" -> IdsIn(sq.buffer)
                              [] p = "rbuffer" -> IdsIn(rbuffer)
                              [] p = "dropped" -> dropped}) = 1

(***************************************************************************)
(* Messages are delivered in the order they were sent, across reconnects   *)
(* and restarts of the service.  A message may overtake another only over  *)
(* a connection on_send_write or stop_messenger_dump made the sender open  *)
(* while the service was still reading an earlier one.                     *)
(***************************************************************************)
DeliveredInOrder ==
  \A i, j \in DOMAIN delivered :
    i < j /\ delivered[i].id >= delivered[j].id =>
      delivered[i].from > delivered[j].from /\ conn[delivered[i].from].beside

(***************************************************************************)
(* What pull_from_recv_queue takes for a message is one: get_send_data     *)
(* puts whole messages into a packet, so packets of several connections    *)
(* may be mixed in the one receive buffer.                                 *)
(***************************************************************************)
DeliveredWhole == \A i \in DOMAIN delivered : delivered[i].whole

(***************************************************************************)
(* The receive queue never stops reading: no incomplete message is left in *)
(* its buffer that would take the room on_recv keeps in reserve, whatever  *)
(* mixture of messages get_send_data lets through.                         *)
(***************************************************************************)
ReceiverKeepsReading == RoomToRead(rbuffer)

(***************************************************************************)
(* A queue that holds data always has something that will wake it up: a    *)
(* connected one is waiting to be written, none of the paths that connect, *)
(* send, refill or clear it forgets set_writable; one that is not          *)
(* connected has exactly one reconnect timer, unless its socket could not  *)
(* be created.  A connected queue has no timer, and its count of refusals  *)
(* is 0, so that flush_messenger counts it as sending.                     *)
(***************************************************************************)
QueueWillWake ==
  sq.id # 0 =>
    /\ sq.running_timer <=> timers[sq.id] = 1
    /\ timers[sq.id] <= 1
    /\ sq.server_socket # 0 =>
         /\ ~sq.running_timer /\ sq.reconnect_interval = 0 /\ sq.refused_count = 0
         /\ sq.buffer # <<>> => sq.writable
    /\ sq.server_socket = 0 => sq.running_timer \/ sq.reconnect_interval = -1

(***************************************************************************)
(* "Remember to clean up timer if we delete the send_queue": no reconnect  *)
(* timer refers to a queue that has been deleted.                          *)
(***************************************************************************)
TimerOfLiveQueue == \A q \in QueueIds : timers[q] # 0 => sq.id = q

(***************************************************************************)
(* What is buffered leaves the queue, although the service may be down     *)
(* when the queue connects, exit while it sends, or read too slowly; only  *)
(* a queue whose socket could not be created keeps its data, or one that   *)
(* would need a connection beyond the bound of the run.                    *)
(***************************************************************************)
QueueDrains ==
  sq.buffer # <<>>
    ~> \/ sq.buffer = <<>> \/ sq.reconnect_interval = -1
       \/ /\ connections = MaxConnections
          /\ sq.server_socket # 0 => ~conn[sq.server_socket].open
=============================================================================
