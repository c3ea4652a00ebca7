---------------------------- MODULE SwitchDaemon ----------------------------
(***************************************************************************)
(* The life of a switch daemon (src/switch_manager/switch.c): the OpenFlow *)
(* handshake, the confirmation that the switch manager knows the switch,   *)
(* the keep-alive, and the end of the connection.  Everything runs in the  *)
(* event loop of one process, but switch_event_disconnected calls          *)
(* flush_messenger, which runs passes of the loop of its own until the     *)
(* send queues are empty: messages and signals are handled inside it, and  *)
(* may enter switch_event_disconnected again.  flushing counts the calls   *)
(* on the stack; pass says whether the innermost one is in a pass of the   *)
(* loop (those below it are).                                              *)
(*                                                                         *)
(* The switch, the signals, the switch manager's answers and the speed of  *)
(* the controllers are the environment.  History: told is what was sent to *)
(* the controllers on the state list, echo what became of the last         *)
(* keep-alive.                                                             *)
(***************************************************************************)
EXTENDS Integers, Sequences

CONSTANTS
    Kinds,      \* kinds of message the switch sends
    MaxBatch,   \* bound on the messages of one read
    MaxDepth,   \* bound on nested calls of switch_event_disconnected
    Signals     \* whether SIGTERM or SIGINT is sent

ASSUME DaemonConstants ==
    /\ Kinds \subseteq {"hello", "features_reply", "echo_reply", "error", "other", "bad"}
    /\ MaxBatch \in Nat /\ MaxDepth \in Nat
    /\ Signals \in BOOLEAN

VARIABLES
    state, datapath_id, running_timer,
    timers,         \* how many timer events of each name are pending
    channel,        \* secure_channel_fd is open and its handlers are set
    queues,         \* send_queue and recv_queue exist
    listed,         \* the service name lists have not been freed
    request,        \* the switch list request: none, queued, sent, or its answer due
    reading,        \* recv_queue of the read in progress
    errors,         \* a message of that read failed
    sending,        \* a connected send queue of the messenger holds data
    external,       \* external_callback is set
    flushing, pass, stopped, exited,
    told, echo

connectionVars == <<channel, queues, listed>>
readVars == <<reading, errors>>
loopVars == <<external, flushing, pass, stopped, exited>>
vars == <<state, datapath_id, running_timer, timers, connectionVars, request, readVars,
          sending, loopVars, told, echo>>

Timers == {"hello", "features_reply", "echo_reply", "echo_request"}
Only(name) == [t \in Timers |-> IF t = name THEN 1 ELSE 0]
Started(pending, name) == [pending EXCEPT ![name] = @ + 1]
Deleted(pending, name) == [pending EXCEPT ![name] = IF @ > 0 THEN @ - 1 ELSE 0]

(* main, up to start_trema: the channel is set up, the controllers are     *)
(* told, hello is sent and its timer started.                              *)
Init ==
    /\ state = "WAIT_HELLO" /\ datapath_id = 0
    /\ running_timer = TRUE /\ timers = Only("hello")
    /\ channel = TRUE /\ queues = TRUE /\ listed = TRUE
    /\ request = "none"
    /\ reading = <<>> /\ errors = FALSE
    /\ sending \in BOOLEAN
    /\ external = FALSE /\ flushing = 0 /\ pass = FALSE /\ stopped = FALSE /\ exited = FALSE
    /\ told = <<"CONNECTED">> /\ echo = "none"

-----------------------------------------------------------------------------
(* Where the loop is.  Callbacks run to their end; only flush_messenger    *)
(* lets others in, and it runs no timers.                                  *)
Dispatches == ~exited /\ reading = <<>> /\ (flushing = 0 \/ pass)
RunsTimers == Dispatches /\ flushing = 0 /\ ~stopped

(* service_send_state.  The receiver may be connected or not.              *)
service_send_state(tag) ==
    IF listed THEN told' = Append(told, tag) /\ sending' \in {sending, TRUE}
              ELSE UNCHANGED <<told, sending>>

(* switch_set_timeout and switch_unset_timeout share one flag among the    *)
(* three timeouts of the daemon.                                           *)
SetNothing(pending, name) == timers' = pending /\ running_timer' = TRUE
switch_set_timeout(pending, name) == timers' = Started(pending, name) /\ running_timer' = TRUE
UnsetNothing(name) == timers
Unset(name) == IF running_timer THEN Deleted(timers, name) ELSE timers
switch_unset_timeout(name) == timers' = Unset(name) /\ running_timer' = FALSE

-----------------------------------------------------------------------------
(* The end of the connection, up to and with the notification; then        *)
(* flush_messenger, and the rest in FlushReturns.                          *)
FarewellAlike == "FAILD_TO_CONNECT"
Farewell == IF state = "COMPLETED" THEN "DISCONNECTED" ELSE "FAILD_TO_CONNECT"
PendingAfterLoss(pending) == IF state = "COMPLETED" THEN Deleted(pending, "echo_request") ELSE pending
StateAfterLoss == "DISCONNECTED"
ChannelKept == channel
ChannelAfterLoss == FALSE

switch_event_disconnected(pending) ==
    /\ flushing < MaxDepth
    /\ state' = StateAfterLoss
    /\ timers' = PendingAfterLoss(pending)
    /\ queues' = FALSE
    /\ channel' = ChannelAfterLoss
    /\ service_send_state(Farewell)
    /\ flushing' = flushing + 1 /\ pass' = FALSE
    /\ UNCHANGED <<datapath_id, listed, request, readVars, stopped, exited, echo>>

(* flush_messenger runs a pass of the loop while a connected queue holds   *)
(* data, and looks again when the pass is over.  What a pass handles was   *)
(* there when it began: a request sent in it is not answered in it.        *)
FlushPass ==
    /\ ~exited /\ flushing > 0
    /\ pass \/ sending
    /\ reading = <<>>
    /\ pass' = ~pass
    /\ request' = IF ~pass /\ request = "sent" THEN "due" ELSE request
    /\ UNCHANGED <<state, datapath_id, running_timer, timers, connectionVars, readVars, sending,
                   external, flushing, stopped, exited, told, echo>>

StoppedKept == stopped
StoppedAfterFlush == TRUE

FlushReturns ==
    /\ ~exited /\ flushing > 0 /\ ~pass /\ ~sending
    /\ listed' = FALSE
    /\ stopped' = StoppedAfterFlush
    /\ flushing' = flushing - 1
    /\ pass' = (flushing > 1)
    /\ UNCHANGED <<state, datapath_id, running_timer, timers, channel, queues, request, readVars,
                   sending, external, exited, told, echo>>

-----------------------------------------------------------------------------
(* secure_channel_read and secure_channel_write: the peer closed the       *)
(* connection, an error, or a message of another version.                  *)
ChannelLost ==
    /\ Dispatches /\ channel
    /\ switch_event_disconnected(timers)
    /\ UNCHANGED <<running_timer, external>>

(* A read brings whole messages into recv_queue.  A keep-alive is answered *)
(* only once it was sent.  The pass in which a message failed is the last, *)
(* and does not come back to the secure channel.                           *)
recv_from_secure_channel ==
    /\ Dispatches /\ channel /\ ~errors
    /\ \E n \in 1 .. MaxBatch : \E batch \in [1 .. n -> Kinds] :
          /\ \A i \in 1 .. n : batch[i] = "echo_reply" => echo # "none"
          /\ reading' = batch
    /\ UNCHANGED <<state, datapath_id, running_timer, timers, connectionVars, request, errors,
                   sending, loopVars, told, echo>>

Unhandled == UNCHANGED <<state, datapath_id, running_timer, timers, request, sending, told, echo>>
Fails == errors' = TRUE
Succeeds == UNCHANGED errors

ExpectsHelloAlways == TRUE
ExpectsHello == state = "WAIT_HELLO"

switch_event_recv_hello ==
    /\ Head(reading) = "hello"
    /\ Succeeds
    /\ IF ExpectsHello
       THEN /\ state' = "WAIT_FEATURES_REPLY"
            /\ switch_set_timeout(Unset("hello"), "features_reply")
            /\ UNCHANGED <<datapath_id, request, sending, told, echo>>
       ELSE Unhandled

(* The daemon takes the name of its switch, ends a daemon that has it (or  *)
(* fails to), resets the switch, tells the switch manager and asks it for  *)
(* its list of switches (or fails to).                                     *)
switch_event_recv_featuresreply ==
    /\ Head(reading) = "features_reply"
    /\ \/ /\ state = "WAIT_FEATURES_REPLY"
          /\ state' = "COMPLETED"
          /\ datapath_id' = 1
          /\ switch_unset_timeout("features_reply")
          /\ \/ Fails /\ UNCHANGED <<request, sending>>
             \/ Fails /\ sending' = TRUE /\ UNCHANGED request
             \/ Succeeds /\ sending' = TRUE /\ request' = "queued"
          /\ UNCHANGED <<told, echo>>
       \/ state = "COMPLETED" /\ Succeeds /\ Unhandled
       \/ state \notin {"WAIT_FEATURES_REPLY", "COMPLETED"} /\ Fails /\ Unhandled

switch_event_recv_echoreply ==
    /\ Head(reading) = "echo_reply"
    /\ Succeeds
    /\ switch_unset_timeout("echo_reply")
    /\ echo' = "answered"
    /\ UNCHANGED <<state, datapath_id, request, sending, told>>

switch_event_recv_error ==
    /\ Head(reading) = "error"
    /\ IF state = "COMPLETED" THEN Succeeds ELSE Fails
    /\ Unhandled

(* A message the daemon answers or passes on without a change of its own,  *)
(* or one whose handler fails.                                             *)
OtherMessage ==
    /\ \/ Head(reading) = "other" /\ Succeeds
       \/ Head(reading) = "bad" /\ Fails
    /\ Unhandled

(* handle_messages_from_secure_channel handles every message that was      *)
(* read; one that failed stops the daemon afterwards.                      *)
handle_messages_from_secure_channel ==
    /\ reading # <<>>
    /\ \/ switch_event_recv_hello
       \/ switch_event_recv_featuresreply
       \/ switch_event_recv_echoreply
       \/ switch_event_recv_error
       \/ OtherMessage
    /\ reading' = Tail(reading)
    /\ stopped' = (stopped \/ (Len(reading) = 1 /\ errors'))
    /\ UNCHANGED <<connectionVars, external, flushing, pass, exited>>

-----------------------------------------------------------------------------
(* Timers.  ECHO_REPLY_TIMEOUT is shorter than ECHO_REQUEST_INTERVAL, so   *)
(* the next keep-alive is not due while the timeout of the last is         *)
(* pending.                                                                *)
TimeoutHello ==
    /\ RunsTimers /\ timers["hello"] > 0
    /\ running_timer' = (running_timer /\ state # "WAIT_HELLO")
    /\ IF state = "WAIT_HELLO"
       THEN switch_event_disconnected(Deleted(timers, "hello")) /\ UNCHANGED external
       ELSE /\ timers' = Deleted(timers, "hello")
            /\ UNCHANGED <<state, datapath_id, connectionVars, request, readVars, sending,
                           loopVars, told, echo>>

TimeoutFeaturesReply ==
    /\ RunsTimers /\ timers["features_reply"] > 0
    /\ running_timer' = (running_timer /\ state # "WAIT_FEATURES_REPLY")
    /\ IF state = "WAIT_FEATURES_REPLY"
       THEN switch_event_disconnected(Deleted(timers, "features_reply")) /\ UNCHANGED external
       ELSE /\ timers' = Deleted(timers, "features_reply")
            /\ UNCHANGED <<state, datapath_id, connectionVars, request, readVars, sending,
                           loopVars, told, echo>>

echo_reply_timeout ==
    /\ RunsTimers /\ timers["echo_reply"] > 0
    /\ switch_event_disconnected(Deleted(timers, "echo_reply"))
    /\ UNCHANGED <<running_timer, external>>

echo_request_interval ==
    /\ RunsTimers /\ timers["echo_request"] > 0 /\ timers["echo_reply"] = 0
    /\ IF queues
       THEN /\ switch_set_timeout(timers, "echo_reply")
            /\ echo' = "outstanding"
            /\ UNCHANGED <<state, datapath_id, connectionVars, request, readVars, sending,
                           loopVars, told>>
       ELSE switch_event_disconnected(timers) /\ UNCHANGED <<running_timer, external>>

-----------------------------------------------------------------------------
(* The switch manager's answer.  The daemon asks again until it finds      *)
(* itself in the list, then tells the controllers and starts to keep the   *)
(* connection alive.  Its state is not asked.  Asking again may fail.      *)
notify_state_to_controllers ==
    /\ request' = "none"
    /\ service_send_state("READY")
    /\ timers' = Started(timers, "echo_request")

confirm_self_dpid_is_registered ==
    /\ Dispatches
    /\ request = "due" \/ (flushing = 0 /\ request = "sent")
    /\ \/ notify_state_to_controllers
       \/ request' = "queued" /\ sending' = TRUE /\ UNCHANGED <<told, timers>>
       \/ request' = "none" /\ UNCHANGED <<told, timers, sending>>
    /\ UNCHANGED <<state, datapath_id, running_timer, connectionVars, readVars, loopVars, echo>>

(* A controller asks for the connection to be closed.                      *)
switch_event_disconnect_request ==
    /\ Dispatches /\ datapath_id # 0
    /\ switch_event_disconnected(timers)
    /\ UNCHANGED <<running_timer, external>>

(* A signal leaves a callback for the next pass of the loop; when the last *)
(* one has not been called yet it stops the daemon on the spot.            *)
handle_sigterm ==
    /\ Signals /\ ~exited
    /\ external' = TRUE
    /\ stopped' = (stopped \/ external)
    /\ UNCHANGED <<state, datapath_id, running_timer, timers, connectionVars, request, readVars,
                   sending, flushing, pass, exited, told, echo>>

stop_switch_daemon ==
    /\ Dispatches /\ external
    /\ external' = FALSE
    /\ switch_event_disconnected(timers)
    /\ UNCHANGED running_timer

(* The messenger writes out what its queues hold.                          *)
MessengerSends ==
    /\ Dispatches /\ sending
    /\ sending' = FALSE
    /\ request' = IF request = "queued" THEN "sent" ELSE request
    /\ UNCHANGED <<state, datapath_id, running_timer, timers, connectionVars, readVars, loopVars,
                   told, echo>>

LoopExits ==
    /\ Dispatches /\ flushing = 0 /\ stopped
    /\ exited' = TRUE
    /\ UNCHANGED <<state, datapath_id, running_timer, timers, connectionVars, request, readVars,
                   sending, external, flushing, pass, stopped, told, echo>>

Next ==
    \/ FlushPass \/ FlushReturns \/ ChannelLost
    \/ recv_from_secure_channel \/ handle_messages_from_secure_channel
    \/ TimeoutHello \/ TimeoutFeaturesReply \/ echo_reply_timeout \/ echo_request_interval
    \/ confirm_self_dpid_is_registered \/ switch_event_disconnect_request
    \/ handle_sigterm \/ stop_switch_daemon
    \/ MessengerSends \/ LoopExits

Spec == Init /\ [][Next]_vars

-----------------------------------------------------------------------------
Tags == {"CONNECTED", "READY", "DISCONNECTED", "FAILD_TO_CONNECT"}
Sent(tag) == {i \in DOMAIN told : told[i] = tag}

(* Every variable of the daemon keeps to its range; no timer event is ever *)
(* pending twice, of which delete_timer_event would cancel only one.       *)
DaemonTypeOK ==
    /\ state \in {"WAIT_HELLO", "WAIT_FEATURES_REPLY", "COMPLETED", "DISCONNECTED"}
    /\ datapath_id \in 0 .. 1
    /\ {running_timer, channel, queues, listed, errors, sending, external, pass, stopped, exited}
          \subseteq BOOLEAN
    /\ request \in {"none", "queued", "sent", "due"}
    /\ timers \in [Timers -> 0 .. 1]
    /\ flushing \in 0 .. MaxDepth
    /\ \A i \in DOMAIN reading : reading[i] \in Kinds
    /\ \A i \in DOMAIN told : told[i] \in Tags
    /\ echo \in {"none", "outstanding", "answered"}

(* The handlers of the secure channel, which assert that the message       *)
(* queues exist, are never called after switch_event_disconnected freed    *)
(* them, not even by the passes of the loop inside flush_messenger.        *)
ChannelHasQueues == channel \/ reading # <<>> => queues

(* While the daemon waits for hello or for the features reply, the timeout *)
(* of what it waits for is pending, and no other; the timeout of a         *)
(* keep-alive is pending only while it is unanswered, so that a switch     *)
(* that answers in time is never given up, although one flag says for all  *)
(* three timeouts whether there is one to cancel.                          *)
TimeoutsFitState ==
    /\ state = "WAIT_HELLO" => timers = Only("hello") /\ running_timer
    /\ state = "WAIT_FEATURES_REPLY" => timers = Only("features_reply") /\ running_timer
    /\ timers["echo_reply"] > 0 => echo = "outstanding"

(* However often switch_event_disconnected is entered again inside its own *)
(* flush, the controllers are told at most once that the switch is ready   *)
(* and at most once that it is disconnected.  A daemon that told them the  *)
(* one has told them the other before it ends, unless a message of the     *)
(* switch could not be handled, after which secure_channel_read just       *)
(* stops, or a second signal came before the callback of the first was     *)
(* called.                                                                 *)
NoticesOnce ==
    /\ \A tag \in {"READY", "DISCONNECTED"} : \A i, j \in Sent(tag) : i = j
    /\ exited /\ Sent("READY") # {} => Sent("DISCONNECTED") # {} \/ errors \/ external

(* The controllers are told that a switch is ready only while it is        *)
(* connected, never after they were told that the connection is gone.      *)
ReadyOnlyWhileConnected ==
    \A i \in Sent("READY"), j \in Sent("DISCONNECTED") \cup Sent("FAILD_TO_CONNECT") : i < j

(* The handshake ends: with the features reply, or by its timeouts.        *)
HandshakeEnds ==
    state \in {"WAIT_HELLO", "WAIT_FEATURES_REPLY"} ~>
        state \in {"COMPLETED", "DISCONNECTED"} \/ stopped

(* Every keep-alive is answered or leads to the end of the connection.     *)
SilenceIsNoticed == echo = "outstanding" ~> echo = "answered" \/ ~channel \/ stopped

(* Once the connection is gone the daemon ends, as long as the controllers *)
(* it still has messages for read them.                                    *)
EndsOnceDisconnected == state = "DISCONNECTED" ~> exited

=============================================================================
