-------------------------- MODULE SwitchInterface --------------------------
(* openflow_switch_interface.c: what a switch built on libchibach does with  *)
(* the messages of its controller, which come over the secure channel, and   *)
(* of programs on its own host, which come over the messenger.  Each message *)
(* is remembered in a context under its transaction id, so that an answer    *)
(* finds its way back; a timer forgets contexts after CONTEXT_LIFETIME.      *)
EXTENDS OpenFlowMessage

CONSTANTS
    SwitchXids,    \* transaction ids
    LocalServices, \* programs that talk to the switch over the messenger
    Arrivals,      \* the messages that arrive
    MaxPending,    \* bound on the requests the callbacks still have to answer
    MaxClock       \* bound on the time, in seconds

CONTEXT_LIFETIME == 5
Channel == "secure channel"

NoCall == [type |-> "NONE"]

---------------------------------------------------------------------------
(* The handlers: the arguments of the callback, taken out of message m.      *)
(* "data" is the number of payload bytes handed over (none is a NULL), parts *)
(* the actions.                                                              *)

Arguments(m, data, parts) == [m EXCEPT !.data = data, !.parts = parts]

AfterFixed(m) == m.length - FixedSize[m.type]

(* A loop "while length > 0" that takes off parts: it ends only if the parts *)
(* end where the length does.                                                *)
TakeParts(parts, length) ==
    LET n == CHOOSE k \in 0..Len(parts) : \/ Bytes(SubSeq(parts, 1, k)) = length
                                          \/ k = Len(parts)
    IN  IF Bytes(SubSeq(parts, 1, n)) = length THEN SubSeq(parts, 1, n) ELSE <<"LOST">>

switch_handle_hello(m) == Arguments(m, 0, <<>>)
switch_handle_error(m) == Arguments(m, AfterFixed(m), <<>>)
switch_handle_echo(m) == Arguments(m, AfterFixed(m), <<>>)
switch_handle_vendor(m) == Arguments(m, AfterFixed(m) % U16, <<>>)
handle_features_or_get_config_request(m) == Arguments(m, 0, <<>>)
handle_set_config(m) == Arguments(m, 0, <<>>)

(* What is left of the message after its actions is the frame.               *)
FrameWithActions(m) == Arguments(m, AfterFixed(m), TakeParts(m.parts, m.actions_len))
handle_packet_out(m) ==
    Arguments(m, AfterFixed(m) - m.actions_len, TakeParts(m.parts, m.actions_len))

handle_flow_mod(m) == Arguments(m, 0, TakeParts(m.parts, AfterFixed(m)))

handle_port_mod(m) == Arguments(m, 0, <<>>)

(* The body is converted to host order for flows, aggregates, ports and      *)
(* vendors; the port of a request for queues stays in network order.         *)
handle_stats_request(m) ==
    LET swapped == (m.port % 256) * 256 + m.port \div 256
    IN  [Arguments(m, AfterFixed(m), <<>>) EXCEPT
            !.port = IF m.stats = "QUEUE" THEN swapped ELSE m.port]

handle_barrier_or_queue_get_config_request(m) == Arguments(m, 0, <<>>)

(* handle_openflow_message: the call it makes, given the callbacks that are  *)
(* set.  An invalid message, and one that only a switch sends, is dropped    *)
(* without an answer.                                                        *)
CallOf(m, handlers) ==
    IF validate_openflow_message(m) # <<>> \/ m.type \notin handlers THEN NoCall
    ELSE CASE m.type = "HELLO" -> switch_handle_hello(m)
           [] m.type = "ERROR" -> switch_handle_error(m)
           [] m.type \in {"ECHO_REQUEST", "ECHO_REPLY"} -> switch_handle_echo(m)
           [] m.type = "VENDOR" -> switch_handle_vendor(m)
           [] m.type \in {"FEATURES_REQUEST", "GET_CONFIG_REQUEST"} ->
                 handle_features_or_get_config_request(m)
           [] m.type = "SET_CONFIG" -> handle_set_config(m)
           [] m.type = "PACKET_OUT" -> handle_packet_out(m)
           [] m.type = "FLOW_MOD" -> handle_flow_mod(m)
           [] m.type = "PORT_MOD" -> handle_port_mod(m)
           [] m.type = "STATS_REQUEST" -> handle_stats_request(m)
           [] m.type \in {"BARRIER_REQUEST", "QUEUE_GET_CONFIG_REQUEST"} ->
                 handle_barrier_or_queue_get_config_request(m)
           [] OTHER -> NoCall

SymmetricTypes == {"HELLO", "ERROR", "ECHO_REQUEST", "ECHO_REPLY", "VENDOR"}
RequestTypes == {"FEATURES_REQUEST", "GET_CONFIG_REQUEST", "SET_CONFIG", "PACKET_OUT", "FLOW_MOD",
                 "PORT_MOD", "STATS_REQUEST", "BARRIER_REQUEST", "QUEUE_GET_CONFIG_REQUEST"}
---------------------------------------------------------------------------
VARIABLES
    interface_up,    \* openflow_switch_interface_initialized
    switch_handlers, \* the types whose callback is set in event_handlers
    contexts,        \* transaction id -> [message, to, created_at], where there is one
    time_now,        \* time( NULL )
    next_ageing,     \* when age_contexts is due
    pending,         \* requests handed to a callback that has not answered yet
    last_sent        \* the answer sent last: its request, where it went, what it quotes

swvars == <<interface_up, switch_handlers, contexts, time_now, next_ageing, pending, last_sent>>

NoAnswer == [kind |-> "none"]

SwitchInit ==
    /\ interface_up = FALSE /\ switch_handlers = {} /\ contexts = <<>>
    /\ time_now = 0 /\ next_ageing = 0 /\ pending = {} /\ last_sent = NoAnswer

init_openflow_switch_interface ==
    /\ ~interface_up /\ interface_up' = TRUE
    /\ switch_handlers' = {} /\ contexts' = <<>> /\ next_ageing' = time_now + 5
    /\ UNCHANGED <<time_now, pending, last_sent>>

finalize_openflow_switch_interface ==
    /\ interface_up /\ interface_up' = FALSE
    /\ contexts' = <<>> /\ pending' = {} /\ last_sent' = NoAnswer
    /\ UNCHANGED <<switch_handlers, time_now, next_ageing>>

(* The setters of event_handlers, by the type of message they are for.       *)
set_symmetric_handler(t) ==
    /\ interface_up /\ t \in SymmetricTypes /\ switch_handlers' = switch_handlers \cup {t}
    /\ UNCHANGED <<interface_up, contexts, time_now, next_ageing, pending, last_sent>>

set_request_handler(t) ==
    /\ interface_up /\ t \in RequestTypes /\ switch_handlers' = switch_handlers \cup {t}
    /\ UNCHANGED <<interface_up, contexts, time_now, next_ageing, pending, last_sent>>

lookup_context(xid) == IF xid \in DOMAIN contexts THEN contexts[xid]
                       ELSE [message |-> NoCall, to |-> Channel, created_at |-> 0]

(* A context that is there already stays as it is.                           *)
SaveAnyway(xid, m, to) ==
    contexts' = (xid :> [message |-> m, to |-> to, created_at |-> time_now]) @@ contexts
save_context(xid, m, to) ==
    contexts' = IF xid \in DOMAIN contexts THEN contexts
                ELSE (xid :> [message |-> m, to |-> to, created_at |-> time_now]) @@ contexts

delete_context(kept) == contexts' = [x \in kept |-> contexts[x]]

(* fresh: no earlier message still occupied the transaction id.              *)
Receive(xid, m, from) ==
    LET call == CallOf(m, switch_handlers)
        request == [xid |-> xid, message |-> m, from |-> from, since |-> time_now,
                    fresh |-> xid \notin DOMAIN contexts]
    IN  /\ interface_up /\ Cardinality(pending) < MaxPending
        /\ save_context(xid, m, from)
        /\ pending' = IF call = NoCall THEN pending ELSE pending \cup {request}
        /\ last_sent' = NoAnswer
        /\ UNCHANGED <<interface_up, switch_handlers, time_now, next_ageing>>

handle_secure_channel_message == \E x \in SwitchXids, m \in Arrivals : Receive(x, m, Channel)

handle_local_message ==
    \E x \in SwitchXids, m \in Arrivals, s \in LocalServices : Receive(x, m, s)

(* The callback answers r, at once or later.                                 *)
switch_send_openflow_message(r) ==
    /\ r \in pending /\ pending' = pending \ {r}
    /\ last_sent' = [kind |-> "answer", request |-> r, to |-> lookup_context(r.xid).to,
                     quotes |-> NoCall]
    /\ UNCHANGED <<interface_up, switch_handlers, contexts, time_now, next_ageing>>

get_openflow_message(xid) == lookup_context(xid).message

(* An error quotes the request (up to 64 bytes of it), except a failed hello,*)
(* which has a text.                                                         *)
send_error_message(r) ==
    /\ r \in pending /\ pending' = pending \ {r}
    /\ \E type \in {"HELLO_FAILED", "BAD_REQUEST"} :
          last_sent' = [kind |-> type, request |-> r, to |-> lookup_context(r.xid).to,
                        quotes |-> IF type = "HELLO_FAILED" THEN NoCall
                                   ELSE get_openflow_message(r.xid)]
    /\ UNCHANGED <<interface_up, switch_handlers, contexts, time_now, next_ageing>>

age_contexts ==
    /\ interface_up /\ next_ageing <= time_now /\ next_ageing' = next_ageing + 5
    /\ delete_context({x \in DOMAIN contexts :
                          contexts[x].created_at + CONTEXT_LIFETIME > time_now})
    /\ last_sent' = NoAnswer
    /\ UNCHANGED <<interface_up, switch_handlers, time_now, pending>>

SwitchTick ==
    /\ time_now < MaxClock /\ time_now' = time_now + 1 /\ last_sent' = NoAnswer
    /\ UNCHANGED <<interface_up, switch_handlers, contexts, next_ageing, pending>>

SwitchNext ==
    \/ init_openflow_switch_interface \/ finalize_openflow_switch_interface
    \/ \E m \in Arrivals : set_symmetric_handler(m.type) \/ set_request_handler(m.type)
    \/ handle_secure_channel_message \/ handle_local_message
    \/ \E r \in pending : switch_send_openflow_message(r) \/ send_error_message(r)
    \/ age_contexts \/ SwitchTick

(* An answer given within CONTEXT_LIFETIME goes to where its request came    *)
(* from, and an error quotes that request, whatever other requests and       *)
(* ageing did meanwhile, unless the transaction id was in use already when   *)
(* the request came: save_context keeps the older context then.              *)
AnswerGoesBack ==
    (/\ last_sent # NoAnswer /\ last_sent.request.fresh
     /\ time_now < last_sent.request.since + CONTEXT_LIFETIME)
    => /\ last_sent.to = last_sent.request.from
       /\ last_sent.kind = "BAD_REQUEST" => last_sent.quotes = last_sent.request.message
=============================================================================
