------------------------ MODULE ControllerConnection ------------------------
(* lib/secure_channel.c: the connection of a switch built on libchibach to   *)
(* its controller.  The switch connects, checks the outcome when the socket  *)
(* gets writable, tries again after a backoff, cuts what it reads into       *)
(* messages and writes what is queued.                                       *)
(*                                                                           *)
(* A message is two units, its header and its body; a unit names the         *)
(* connection and the message it belongs to.  Of an outgoing message only    *)
(* the number of units still to be written is kept.  A read that fails       *)
(* changes nothing and is left out.                                          *)
EXTENDS Integers, Sequences

CONSTANTS
    MaxConnections, \* bound on the connections made
    MaxPeer,        \* bound on the messages the controller sends
    MaxQueue        \* bound on the messages in the send queue

VARIABLES
    up,          \* secure_channel_initialized
    conn,        \* connection.state
    fd,          \* connection.fd: "none" (-1), "open", or "stale": closed but kept
    watch,       \* the handler of fd: "none", "check" (check_connected), "io"
    wants_write, \* set_writable of fd
    retry_timer, \* backoff has armed the timer of reconnect
    out_queue,   \* send_queue: units left of each message
    incoming,    \* units in the socket
    sending,     \* the controller's: units of the message it is writing, still to come
    fragment,    \* fragment_buf
    handled,     \* messages given to handle_secure_channel_message on this connection
    made,        \* connections made so far
    peer_sent,   \* messages the controller began on this connection
    gave_up,     \* an error after which the code does not try again
    stalled,     \* the queue was not empty when the connection came up, or a write failed
    cut          \* a connection was lost in the middle of a message

ccvars == <<up, conn, fd, watch, wants_write, retry_timer, out_queue, incoming, sending, fragment,
            handled, made, peer_sent, gave_up, stalled, cut>>
history == <<made, peer_sent, stalled, cut, handled>>
reading == <<incoming, sending, fragment>>

ConnectionInit ==
    /\ up = FALSE /\ conn = "INIT" /\ fd = "none" /\ watch = "none" /\ wants_write = FALSE
    /\ retry_timer = FALSE /\ out_queue = <<>> /\ incoming = <<>> /\ sending = <<>>
    /\ fragment = <<>> /\ handled = <<>> /\ made = 0 /\ peer_sent = 0
    /\ gave_up = FALSE /\ stalled = FALSE /\ cut = FALSE

---------------------------------------------------------------------------
(* transit_state leaves the state alone on a transition it does not know.    *)
transit_state(from, to) ==
    CASE from = "INIT" /\ to = "CONNECTING" -> to
      [] from = "CONNECTING" /\ to \in {"CONNECTED", "CONNECTING"} -> to
      [] from = "CONNECTED" /\ to \in {"DISCONNECTED", "INIT"} -> to
      [] from = "DISCONNECTED" /\ to = "CONNECTED" -> to
      [] OTHER -> from

clear_connection ==
    /\ fd' = "none" /\ conn' = "INIT" /\ watch' = "none" /\ wants_write' = FALSE

(* A backoff that leaves the timer alone.                                    *)
NoTimer == /\ fd' = "stale" /\ watch' = "none" /\ wants_write' = FALSE /\ UNCHANGED retry_timer
(* The descriptor is closed; its number stays in connection.fd.              *)
backoff == /\ retry_timer' = TRUE /\ fd' = "stale" /\ watch' = "none" /\ wants_write' = FALSE

(* try_connect: no socket or an address that cannot be reached at all, in    *)
(* which case the caller clears the connection; one that cannot be reached   *)
(* now; or a connection under way.                                           *)
try_connect(from) ==
    \/ /\ clear_connection /\ gave_up' = TRUE /\ retry_timer' = FALSE
    \/ /\ backoff /\ conn' = transit_state(from, "CONNECTING")
       /\ UNCHANGED gave_up
    \/ /\ fd' = "open" /\ watch' = "check" /\ wants_write' = TRUE
       /\ conn' = transit_state(from, "CONNECTING") /\ retry_timer' = FALSE
       /\ UNCHANGED gave_up

init_secure_channel ==
    /\ ~up /\ made < MaxConnections /\ try_connect(conn)
    /\ up' = ~gave_up' /\ out_queue' = <<>>
    /\ UNCHANGED <<history, reading>>

reconnect ==
    /\ up /\ retry_timer /\ try_connect(conn)
    /\ UNCHANGED <<up, out_queue, history, reading>>

(* connected: the handlers are installed, and writing waits for a message.   *)
connected ==
    /\ made < MaxConnections /\ made' = made + 1
    /\ conn' = transit_state(conn, "CONNECTED") /\ watch' = "io" /\ wants_write' = FALSE
    /\ stalled' = (out_queue # <<>>)
    /\ peer_sent' = 0 /\ handled' = <<>>
    /\ UNCHANGED <<fd, retry_timer, gave_up, cut>>

(* The outcome of the connection: there, refused for now, still under way,   *)
(* an error that ends it, or no answer at all (getsockopt fails), after      *)
(* which nothing watches the socket.                                         *)
check_connected ==
    /\ up /\ watch = "check" /\ wants_write
    /\ \/ connected
       \/ backoff /\ UNCHANGED <<conn, gave_up, history>>
       \/ UNCHANGED <<fd, conn, watch, wants_write, retry_timer, gave_up, history>>
       \/ clear_connection /\ gave_up' = TRUE /\ UNCHANGED <<retry_timer, history>>
       \/ /\ watch' = "none" /\ wants_write' = FALSE /\ gave_up' = TRUE
          /\ UNCHANGED <<fd, conn, retry_timer, history>>
    /\ UNCHANGED <<up, out_queue, reading>>

(* The controller writes a message, whole or in two writes, and may close.   *)
PeerWrites ==
    /\ conn = "CONNECTED"
    /\ \/ /\ sending = <<>> /\ peer_sent < MaxPeer /\ peer_sent' = peer_sent + 1
          /\ LET m == <<made, peer_sent + 1>>
             IN  \/ incoming' = incoming \o <<Append(m, 1), Append(m, 2)>> /\ sending' = <<>>
                 \/ incoming' = Append(incoming, Append(m, 1)) /\ sending' = <<Append(m, 2)>>
       \/ /\ sending # <<>> /\ incoming' = incoming \o sending /\ sending' = <<>>
          /\ UNCHANGED peer_sent
    /\ UNCHANGED <<up, conn, fd, watch, wants_write, retry_timer, out_queue, fragment, handled, made,
                   gave_up, stalled, cut>>

(* fragment_buf is cut into messages by the length in each header.           *)
WholePart(units) == SubSeq(units, 1, 2 * (Len(units) \div 2))
Forgets(units) == <<>>
Remainder(units) == SubSeq(units, 2 * (Len(units) \div 2) + 1, Len(units))
Messages(units) == [i \in 1..(Len(units) \div 2) |-> <<units[2 * i - 1], units[2 * i]>>]

recv_from_secure_channel ==
    /\ up /\ watch = "io" /\ incoming # <<>>
    /\ \E n \in 1..Len(incoming) :
          LET units == fragment \o SubSeq(incoming, 1, n)
          IN  /\ incoming' = SubSeq(incoming, n + 1, Len(incoming))
              /\ fragment' = Remainder(units)
              /\ handled' = handled \o Messages(WholePart(units))
    /\ UNCHANGED <<up, conn, fd, watch, wants_write, retry_timer, out_queue, sending, made, peer_sent,
                   gave_up, stalled, cut>>

(* read returns 0: disconnected, then reconnect.  fragment_buf and the queue *)
(* keep what they have.                                                      *)
disconnected ==
    /\ up /\ watch = "io" /\ incoming = <<>>
    /\ try_connect("INIT")
    /\ sending' = <<>> /\ cut' = (cut \/ fragment # <<>>)
    /\ UNCHANGED <<up, out_queue, incoming, fragment, made, peer_sent, stalled, handled>>

(* write takes a message, a part of it, nothing for now, or fails.           *)
WriteBlocked == wants_write' = TRUE /\ UNCHANGED stalled
WriteFailed == wants_write' = FALSE /\ stalled' = TRUE

flush_send_queue ==
    /\ up /\ watch = "io" /\ wants_write
    /\ \E n \in 0..Len(out_queue) :
          LET left == SubSeq(out_queue, n + 1, Len(out_queue))
          IN  \/ left = <<>> /\ out_queue' = left /\ wants_write' = FALSE /\ UNCHANGED stalled
              \/ left # <<>> /\ out_queue' = left /\ WriteBlocked
              \/ left # <<>> /\ Head(left) = 2 /\ out_queue' = [left EXCEPT ![1] = 1] /\ WriteBlocked
              \/ left # <<>> /\ out_queue' = left /\ WriteFailed
    /\ UNCHANGED <<up, conn, fd, watch, retry_timer, reading, made, peer_sent, handled, gave_up, cut>>

(* Only the first message of an empty queue asks for writing.                *)
AskIfWaiting == wants_write' = (wants_write \/ out_queue # <<>>)
AskIfFirst == wants_write' = (wants_write \/ out_queue = <<>>)

send_message_to_secure_channel ==
    /\ up /\ conn = "CONNECTED" /\ Len(out_queue) < MaxQueue
    /\ AskIfFirst /\ out_queue' = Append(out_queue, 2)
    /\ UNCHANGED <<up, conn, fd, watch, retry_timer, reading, history, gave_up>>

(* The process ends with it: no timer runs any more.                         *)
finalize_secure_channel ==
    /\ up /\ up' = FALSE /\ clear_connection /\ out_queue' = <<>>
    /\ retry_timer' = FALSE /\ gave_up' = TRUE
    /\ UNCHANGED <<history, reading>>

ConnectionNext ==
    \/ init_secure_channel /\ ~gave_up
    \/ reconnect \/ check_connected \/ PeerWrites \/ recv_from_secure_channel \/ disconnected
    \/ flush_send_queue \/ send_message_to_secure_channel \/ finalize_secure_channel

---------------------------------------------------------------------------
(* Until an error that the code does not retry, a switch that is not         *)
(* connected is on its way to be: the socket is watched by check_connected   *)
(* and asked for writing, or the timer of backoff is armed.  And what is     *)
(* queued on a connection gets written, unless messages were left over from  *)
(* the connection before, or a write failed.                                 *)
ConnectionKeepsGoing ==
    /\ up /\ conn # "CONNECTED" /\ ~gave_up => (watch = "check" /\ wants_write) \/ retry_timer
    /\ up /\ conn = "CONNECTED" /\ out_queue # <<>> /\ ~stalled => wants_write

(* Messages are handled whole, once and in order, unless a connection was    *)
(* lost in the middle of one: fragment_buf then begins the next connection   *)
(* with half a message of the last.                                          *)
HandledWhole ==
    ~cut => handled = [i \in 1..Len(handled) |-> <<<<made, i, 1>>, <<made, i, 2>>>>]
=============================================================================
