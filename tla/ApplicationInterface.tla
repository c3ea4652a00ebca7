------------------------ MODULE ApplicationInterface ------------------------
(* openflow_application_interface.c: how a controller application gets the   *)
(* messages of the switches.  handle_openflow_message validates a message    *)
(* and its handler takes out the arguments of the application's callback.    *)
EXTENDS OpenFlowMessage

CONSTANT ParseOk(_)  \* external: parse_packet accepts a frame of that many bytes

NotCalled == [type |-> "NONE"]

---------------------------------------------------------------------------
(* The handlers, as functions of message m.  "parts" are the ports, flows,   *)
(* tables or queues of the list or body that the callback gets.              *)

Given(m, data, parts) == [m EXCEPT !.data = data, !.parts = parts]

Rest(m) == (m.length - FixedSize[m.type]) % U16

(* A loop "while length > 0" with a 16-bit length over parts that say their  *)
(* own lengths: it ends only where parts and length end together.            *)
WalkParts(parts, length) ==
    LET n == CHOOSE k \in 0..Len(parts) : \/ Bytes(SubSeq(parts, 1, k)) = length
                                          \/ k = Len(parts)
    IN  IF Bytes(SubSeq(parts, 1, n)) = length THEN SubSeq(parts, 1, n) ELSE <<"LOST">>

(* Parts of one size: their number is computed, or counted down to zero.     *)
CountParts(parts, length, size) ==
    IF length % size = 0 /\ length \div size <= Len(parts)
    THEN SubSeq(parts, 1, length \div size) ELSE <<"LOST">>

handle_error(m) == Given(m, Rest(m), <<>>)
handle_echo_reply(m) == Given(m, Rest(m), <<>>)
handle_vendor(m) == Given(m, Rest(m), <<>>)

OnePortMore(m) == Given(m, 0, CountParts(m.parts, Rest(m) + PartSize.PHY_PORT, PartSize.PHY_PORT))
handle_features_reply(m) == Given(m, 0, CountParts(m.parts, Rest(m), PartSize.PHY_PORT))

handle_get_config_reply(m) == Given(m, 0, <<>>)

(* A frame that does not parse is dropped; a packet-in without one is not.   *)
handle_packet_in(m) ==
    IF Rest(m) > 0 /\ ~ParseOk(Rest(m)) THEN NotCalled ELSE Given(m, Rest(m), <<>>)

handle_flow_removed(m) == Given(m, 0, <<>>)

handle_port_status(m) == Given(m, 0, SubSeq(m.parts, 1, 1))

(* The body in host order.  A flow says its own length, the other parts have *)
(* one size; an empty body is a NULL whatever the type.                      *)
handle_stats_reply(m) ==
    Given(m, Rest(m),
          CASE Rest(m) = 0 -> <<>>
            [] m.stats = "FLOW" -> WalkParts(m.parts, Rest(m))
            [] m.stats = "TABLE" -> CountParts(m.parts, Rest(m), PartSize.TABLE_STATS)
            [] m.stats = "PORT" -> CountParts(m.parts, Rest(m), PartSize.PORT_STATS)
            [] m.stats = "QUEUE" -> CountParts(m.parts, Rest(m), PartSize.QUEUE_STATS)
            [] OTHER -> <<>>)

handle_barrier_reply(m) == Given(m, 0, <<>>)

handle_queue_get_config_reply(m) == Given(m, 0, WalkParts(m.parts, Rest(m)))

(* handle_openflow_message: the call that is made, given the callbacks set.  *)
(* A message that the validators refuse is dropped and not counted.          *)
CallbackOf(m, handlers) ==
    IF validate_openflow_message(m) # <<>> \/ m.type \notin handlers THEN NotCalled
    ELSE CASE m.type = "ERROR" -> handle_error(m)
           [] m.type = "ECHO_REPLY" -> handle_echo_reply(m)
           [] m.type = "VENDOR" -> handle_vendor(m)
           [] m.type = "FEATURES_REPLY" -> handle_features_reply(m)
           [] m.type = "GET_CONFIG_REPLY" -> handle_get_config_reply(m)
           [] m.type = "PACKET_IN" -> handle_packet_in(m)
           [] m.type = "FLOW_REMOVED" -> handle_flow_removed(m)
           [] m.type = "PORT_STATUS" -> handle_port_status(m)
           [] m.type = "STATS_REPLY" -> handle_stats_reply(m)
           [] m.type = "BARRIER_REPLY" -> handle_barrier_reply(m)
           [] m.type = "QUEUE_GET_CONFIG_REPLY" -> handle_queue_get_config_reply(m)
           [] OTHER -> NotCalled

EventTypes == {"ERROR", "ECHO_REPLY", "VENDOR", "FEATURES_REPLY", "GET_CONFIG_REPLY"}
ReplyTypes == {"PACKET_IN", "FLOW_REMOVED", "PORT_STATUS", "STATS_REPLY", "BARRIER_REPLY",
               "QUEUE_GET_CONFIG_REPLY"}

(* update_openflow_stats: the counter of a message; a type that OpenFlow 1.0 *)
(* does not have is counted as undefined.                                    *)
StatKey(type, direction, result) ==
    <<IF type \in DOMAIN FixedSize THEN type ELSE "undefined_message_type", direction, result>>

(* increment_stat: a counter is added when it is first counted.              *)
increment_stat(table, key) ==
    IF key \in DOMAIN table THEN [table EXCEPT ![key] = @ + 1] ELSE (key :> 1) @@ table

---------------------------------------------------------------------------
VARIABLES
    app_handlers,   \* the types whose callback is set in event_handlers
    called,         \* the arguments of the last call of a callback
    app_stats       \* counters of messages

appvars == <<app_handlers, called, app_stats>>

AppInit == app_handlers = {} /\ called = NotCalled /\ app_stats = <<>>

(* The setters, each of which first initializes the interface if need be.    *)
set_event_handler(t) ==
    /\ t \in EventTypes /\ app_handlers' = app_handlers \cup {t}
    /\ UNCHANGED <<called, app_stats>>

set_reply_handler(t) ==
    /\ t \in ReplyTypes /\ app_handlers' = app_handlers \cup {t}
    /\ UNCHANGED <<called, app_stats>>

handle_openflow_message(m) ==
    /\ called' = CallbackOf(m, app_handlers)
    /\ app_stats' = IF validate_openflow_message(m) # <<>> THEN app_stats
                    ELSE increment_stat(app_stats, StatKey(m.type, "receive", "succeeded"))
    /\ UNCHANGED app_handlers
=============================================================================
