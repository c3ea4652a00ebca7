--------------------------- MODULE OpenFlowMessage ---------------------------
(* openflow_message.c: the functions that build OpenFlow 1.0 messages and    *)
(* the ones that validate them, the table from a validation error to the     *)
(* error message that answers it.                                            *)
(*                                                                           *)
(* A message is a record: the header's type, version and length, the number  *)
(* of bytes of its buffer (size), the fields some check reads, and its       *)
(* parts (actions, ports, flows, tables, queues) in order, each with the     *)
(* length it declares.  "data" is the number of payload bytes.  The build    *)
(* functions take the same record as their arguments and fill in the header. *)
EXTENDS Match, Sequences, SequencesExt, FiniteSetsExt

CONSTANTS
    Calls,       \* the calls of the build functions: their argument records
    Arriving(_)  \* what may arrive where a built message was expected

U16 == 65536
OFPP_MAX == 65280
OFPP_IN_PORT == 65528
OFPP_LOCAL == 65534
OFPP_NONE == 65535

HeaderOnly == {"HELLO", "FEATURES_REQUEST", "GET_CONFIG_REQUEST",
               "BARRIER_REQUEST", "BARRIER_REPLY"}
StatsTypes == {"DESC", "FLOW", "AGGREGATE", "TABLE", "PORT", "QUEUE", "VENDOR"}

(* The sizes of the structures of openflow.h: what precedes the payload.     *)
FixedSize ==
    [t \in HeaderOnly \cup {"ECHO_REQUEST", "ECHO_REPLY"} |-> 8] @@
    [ERROR |-> 12, VENDOR |-> 12, FEATURES_REPLY |-> 32, GET_CONFIG_REPLY |-> 12,
     SET_CONFIG |-> 12, PACKET_IN |-> 18, FLOW_REMOVED |-> 88, PORT_STATUS |-> 64,
     PACKET_OUT |-> 16, FLOW_MOD |-> 72, PORT_MOD |-> 32, STATS_REQUEST |-> 12,
     STATS_REPLY |-> 12, QUEUE_GET_CONFIG_REQUEST |-> 12, QUEUE_GET_CONFIG_REPLY |-> 16]
RequestBody == [DESC |-> 0, FLOW |-> 44, AGGREGATE |-> 44, TABLE |-> 0, PORT |-> 8,
                QUEUE |-> 8, VENDOR |-> 4]
ReplyBody == [DESC |-> 1056, FLOW |-> 0, AGGREGATE |-> 24, TABLE |-> 0, PORT |-> 0,
              QUEUE |-> 0, VENDOR |-> 4]
PartSize == [PHY_PORT |-> 48, FLOW_STATS |-> 88, TABLE_STATS |-> 64, PORT_STATS |-> 104,
             QUEUE_STATS |-> 32, PACKET_QUEUE |-> 8]
ActionSize == [OUTPUT |-> 8, SET_VLAN_VID |-> 8, SET_VLAN_PCP |-> 8, STRIP_VLAN |-> 8,
               SET_DL_SRC |-> 16, SET_DL_DST |-> 16, SET_NW_SRC |-> 8, SET_NW_DST |-> 8,
               SET_NW_TOS |-> 8, SET_TP_SRC |-> 8, SET_TP_DST |-> 8, ENQUEUE |-> 16,
               VENDOR |-> 8]

(* The bytes that a sequence of parts declares.                              *)
Bytes(parts) == FoldSeq(LAMBDA part, sum : part.len + sum, 0, parts)

---------------------------------------------------------------------------
(* Building messages.  "dies" marks a failed assertion or die(); "written"   *)
(* is the number of bytes the function writes, and the buffer has only the   *)
(* length modulo 2^16 that was asked of create_header.                       *)

create_header(a, type, length) ==
    [a EXCEPT !.type = type, !.version = 1, !.length = length % U16,
              !.size = length % U16, !.written = length,
              !.dies = a.dies \/ length % U16 < 8]

(* body->length, cut to 16 bits.                                             *)
Payload(a) == a.data % U16

create_error(a) == create_header(a, "ERROR", FixedSize.ERROR + a.data)

create_hello_or_echo(a) ==
    create_header(a, a.type, IF a.type = "HELLO" THEN 8 ELSE 8 + Payload(a))

create_vendor(a) == create_header(a, "VENDOR", FixedSize.VENDOR + Payload(a))

create_features_reply(a) ==
    create_header(a, "FEATURES_REPLY",
                  FixedSize.FEATURES_REPLY + PartSize.PHY_PORT * Len(a.parts))

create_switch_config(a) == create_header(a, a.type, FixedSize.SET_CONFIG)

create_packet_in(a) == create_header(a, "PACKET_IN", FixedSize.PACKET_IN + Payload(a))

create_flow_removed_or_port_status(a) == create_header(a, a.type, FixedSize[a.type])

(* Only the action types of OpenFlow 1.0 have a length, and it must fit.     *)
get_actions_length(actions) ==
    IF (\A i \in DOMAIN actions : actions[i].kind \in DOMAIN ActionSize) /\ Bytes(actions) < U16
    THEN Bytes(actions) ELSE -1

(* Some append_action function was given an argument outside its mask.       *)
Refused(actions) == \E i \in DOMAIN actions : actions[i].dies

(* Without a buffer on the switch the packet itself must come along, and be  *)
(* an Ethernet frame of at least 64 bytes with its checksum.                 *)
create_packet_out(a) ==
    LET actions == get_actions_length(a.parts)
        noFrame == ~a.buffered /\ a.data + 4 < 64
    IN  [create_header([a EXCEPT !.dies = noFrame \/ actions = -1 \/ Refused(a.parts)], "PACKET_OUT",
                       FixedSize.PACKET_OUT + actions + Payload(a))
         EXCEPT !.actions_len = actions]

create_flow_mod(a) ==
    LET actions == get_actions_length(a.parts)
    IN  [create_header([a EXCEPT !.dies = actions = -1 \/ Refused(a.parts)], "FLOW_MOD", FixedSize.FLOW_MOD + actions)
         EXCEPT !.actions_len = actions]

create_port_mod(a) == create_header(a, "PORT_MOD", FixedSize.PORT_MOD)

create_stats_request(a) ==
    create_header(a, "STATS_REQUEST", FixedSize.STATS_REQUEST + RequestBody[a.stats])

create_vendor_stats_request(a) ==
    create_header(a, "STATS_REQUEST",
                  FixedSize.STATS_REQUEST + RequestBody.VENDOR + Payload(a))

create_stats_reply(a, body) == create_header(a, "STATS_REPLY", FixedSize.STATS_REPLY + body)

(* The lengths of the flows are the ones their entries declare.              *)
create_flow_stats_reply(a) ==
    create_stats_reply(a, Bytes(a.parts))

create_aggregate_stats_reply(a) == create_stats_reply(a, ReplyBody.AGGREGATE)

create_table_or_port_stats_reply(a) ==
    create_stats_reply(a, Len(a.parts) * PartSize[IF a.stats = "TABLE" THEN "TABLE_STATS" ELSE "PORT_STATS"])

create_queue_or_vendor_stats_reply(a) ==
    create_stats_reply(a, IF a.stats = "QUEUE" THEN Len(a.parts) * PartSize.QUEUE_STATS
                          ELSE ReplyBody.VENDOR + Payload(a))

create_queue_get_config_request(a) ==
    create_header(a, a.type, FixedSize[a.type])

create_queue_get_config_reply(a) ==
    create_header([a EXCEPT !.dies = a.parts = <<>>], "QUEUE_GET_CONFIG_REPLY",
                  FixedSize.QUEUE_GET_CONFIG_REPLY + Bytes(a.parts))

(* The append_action functions: an action of the structure's length and,     *)
(* for a vendor action, its body; a value outside its mask is refused.       *)
append_action_link(kind, arg) ==
    [kind |-> kind, len |-> ActionSize[kind], arg |-> arg,
     dies |-> \/ kind = "SET_VLAN_VID" /\ MaskVid(arg) # arg
              \/ kind = "SET_VLAN_PCP" /\ MaskPcp(arg) # arg]

append_action_network(kind, arg) ==
    [kind |-> kind, len |-> ActionSize[kind], arg |-> arg,
     dies |-> kind = "SET_NW_TOS" /\ MaskTos(arg) # arg]

append_action_transport(kind, arg, body) ==
    [kind |-> kind, len |-> (ActionSize[kind] + IF kind = "VENDOR" THEN body ELSE 0) % U16,
     arg |-> arg, dies |-> kind = "VENDOR" /\ body % 8 # 0]

Create(a) ==
    CASE a.type = "ERROR" -> create_error(a)
      [] a.type \in {"HELLO", "ECHO_REQUEST", "ECHO_REPLY"} -> create_hello_or_echo(a)
      [] a.type = "VENDOR" -> create_vendor(a)
      [] a.type = "FEATURES_REPLY" -> create_features_reply(a)
      [] a.type \in {"GET_CONFIG_REPLY", "SET_CONFIG"} -> create_switch_config(a)
      [] a.type = "PACKET_IN" -> create_packet_in(a)
      [] a.type \in {"FLOW_REMOVED", "PORT_STATUS"} -> create_flow_removed_or_port_status(a)
      [] a.type = "PACKET_OUT" -> create_packet_out(a)
      [] a.type = "FLOW_MOD" -> create_flow_mod(a)
      [] a.type = "PORT_MOD" -> create_port_mod(a)
      [] a.type = "STATS_REQUEST" /\ a.stats # "VENDOR" -> create_stats_request(a)
      [] a.type = "STATS_REQUEST" /\ a.stats = "VENDOR" -> create_vendor_stats_request(a)
      [] a.type = "STATS_REPLY" /\ a.stats = "DESC" -> create_stats_reply(a, ReplyBody.DESC)
      [] a.type = "STATS_REPLY" /\ a.stats = "AGGREGATE" -> create_aggregate_stats_reply(a)
      [] a.type = "STATS_REPLY" /\ a.stats = "FLOW" -> create_flow_stats_reply(a)
      [] a.type = "STATS_REPLY" /\ a.stats \in {"TABLE", "PORT"} ->
            create_table_or_port_stats_reply(a)
      [] a.type = "STATS_REPLY" /\ a.stats \in {"QUEUE", "VENDOR"} ->
            create_queue_or_vendor_stats_reply(a)
      [] a.type = "QUEUE_GET_CONFIG_REPLY" -> create_queue_get_config_reply(a)
      [] OTHER -> create_queue_get_config_request(a)
---------------------------------------------------------------------------
(* Validating messages.  A validator is the sequence of its checks in the    *)
(* order of the code, each with the error it returns; the first that fails   *)
(* decides.  validate_x with nested validators is their concatenation.       *)

FirstError(checks) ==
    LET failed == {i \in DOMAIN checks : ~checks[i][1]}
    IN  IF failed = {} THEN <<>> ELSE checks[Min(failed)][2]

EachPart(check(_), parts) == FlattenSeq([i \in DOMAIN parts |-> check(parts[i])])

(* A loop "while offset < length" over variable-length parts.  A walk that   *)
(* runs out of parts reads whatever follows them: "BEYOND".                  *)
CheckParts(check(_), parts, length) ==
    LET reached == {i \in DOMAIN parts : Bytes(SubSeq(parts, 1, i - 1)) < length}
    IN  EachPart(check, SubSeq(parts, 1, Cardinality(reached)))
        \o << <<Bytes(parts) >= length, <<"BEYOND">> >> >>

valid_message_version(type, version) ==
    IF type = "HELLO" THEN version \in 1..4 ELSE version = 1

(* The type needs no check: the caller chose the validator by it.            *)
validate_header(m, min, max) ==
    << <<m.size >= 8, <<"TOO_SHORT_MESSAGE">> >>,
       <<valid_message_version(m.type, m.version), <<"UNSUPPORTED_VERSION">> >>,
       <<m.length <= max, <<"TOO_LONG_MESSAGE">> >>,
       <<m.length >= min, <<"TOO_SHORT_MESSAGE">> >>,
       <<m.length >= m.size, <<"TOO_LONG_MESSAGE">> >>,
       <<m.length <= m.size, <<"TOO_SHORT_MESSAGE">> >> >>

validate_fixed(m) == validate_header(m, FixedSize[m.type], FixedSize[m.type])

(* Hello has no body; error, echo and vendor messages end where they like.   *)
validate_symmetric(m) ==
    IF m.type = "HELLO" THEN validate_fixed(m)
    ELSE validate_header(m, FixedSize[m.type], U16 - 1)

PortNoBelowMax(n) ==
    << <<n # 0 /\ ~(n >= OFPP_MAX /\ n < OFPP_IN_PORT), <<"INVALID_PORT_NO">> >> >>
validate_phy_port_no(n) ==
    << <<n # 0 /\ ~(n > OFPP_MAX /\ n < OFPP_IN_PORT), <<"INVALID_PORT_NO">> >> >>

PortConfig(word) == word < 128
PortFeatures(word) == word < 4096
PortState(word) == word = (word % 2) + 256 * ((word \div 256) % 4)

validate_phy_port(p) ==
    validate_phy_port_no(p.port_no)
    \o << <<PortConfig(p.config), <<"INVALID_PORT_CONFIG">> >>,
          <<PortState(p.state), <<"INVALID_PORT_STATE">> >>,
          <<PortFeatures(p.features), <<"INVALID_PORT_FEATURES">> >> >>

validate_features_reply(m) ==
    validate_header(m, FixedSize.FEATURES_REPLY, U16 - 1)
    \o << <<m.n_tables # 0, <<"NO_TABLE_AVAILABLE">> >>,
          <<(m.length - FixedSize.FEATURES_REPLY) % PartSize.PHY_PORT = 0, <<"INVALID_LENGTH">> >> >>
    \o EachPart(validate_phy_port, m.parts)

validate_switch_config(m) ==
    validate_fixed(m) \o << <<m.flags <= 3, <<"INVALID_SWITCH_CONFIG">> >> >>

validate_packet_in(m) ==
    validate_header(m, FixedSize.PACKET_IN, U16 - 1) \o validate_phy_port_no(m.port)
    \o << <<m.reason <= 1, <<"INVALID_PACKET_IN_REASON">> >> >>

(* An exact match has the highest priority.                                  *)
validate_priority(match, priority) ==
    << <<IsExact(match) => priority = U16 - 1, <<"INVALID_FLOW_PRIORITY">> >> >>

validate_flow_removed(m) ==
    validate_fixed(m) \o validate_match(m.match) \o validate_priority(m.match, m.priority)
    \o << <<m.reason <= 2, <<"INVALID_FLOW_REMOVED_REASON">> >> >>

validate_port_status(m) ==
    validate_fixed(m) \o << <<m.reason <= 2, <<"INVALID_PORT_STATUS_REASON">> >> >>
    \o EachPart(validate_phy_port, m.parts)

(* Every action type has one length (the vendor's a multiple of 8), and some *)
(* an argument that is judged.                                               *)
ActionLength(a) ==
    << <<a.len >= ActionSize[a.kind], <<"TOO_SHORT_ACTION", a.kind>> >>,
       <<a.len <= ActionSize[a.kind], <<"TOO_LONG_ACTION", a.kind>> >> >>

validate_action_link(a) ==
    ActionLength(a) \o
    CASE a.kind = "OUTPUT" -> validate_phy_port_no(a.arg)
      [] a.kind = "SET_VLAN_VID" ->
            << <<a.arg = NoVlan \/ MaskVid(a.arg) = a.arg, <<"INVALID_VLAN_VID">> >> >>
      [] a.kind = "SET_VLAN_PCP" -> << <<MaskPcp(a.arg) = a.arg, <<"INVALID_VLAN_PCP">> >> >>
      [] a.kind = "STRIP_VLAN" -> <<>>

validate_action_addr(a) == ActionLength(a)

validate_action_transport(a) ==
    CASE a.kind = "SET_NW_TOS" ->
            ActionLength(a) \o << <<MaskTos(a.arg) = a.arg, <<"INVALID_NW_TOS">> >> >>
      [] a.kind \in {"SET_TP_SRC", "SET_TP_DST"} -> ActionLength(a)
      [] a.kind = "ENQUEUE" -> ActionLength(a) \o validate_phy_port_no(a.arg)
      [] a.kind = "VENDOR" ->
            << <<a.len >= ActionSize.VENDOR, <<"TOO_SHORT_ACTION", "VENDOR">> >>,
               <<a.len % 8 = 0, <<"INVALID_LENGTH_ACTION", "VENDOR">> >> >>

validate_action(a) ==
    << <<a.len >= 8, <<"TOO_SHORT_ACTION">> >> >> \o
    CASE a.kind \in {"OUTPUT", "SET_VLAN_VID", "SET_VLAN_PCP", "STRIP_VLAN"} -> validate_action_link(a)
      [] a.kind \in {"SET_DL_SRC", "SET_DL_DST", "SET_NW_SRC", "SET_NW_DST"} -> validate_action_addr(a)
      [] a.kind \in {"SET_NW_TOS", "SET_TP_SRC", "SET_TP_DST", "ENQUEUE", "VENDOR"} ->
            validate_action_transport(a)
      [] OTHER -> << <<FALSE, <<"UNDEFINED_ACTION_TYPE">> >> >>

validate_actions(actions, length) == CheckParts(validate_action, actions, length)

(* The length of the actions comes with the message, and what is left after  *)
(* them is the packet.                                                       *)
validate_packet_out(m) ==
    validate_header(m, FixedSize.PACKET_OUT, U16 - 1) \o validate_phy_port_no(m.port)
    \o validate_actions(m.parts, m.actions_len)

(* Commands 3 and 4 are DELETE and DELETE_STRICT, which may name a port.     *)
validate_flow_mod(m) ==
    validate_header(m, FixedSize.FLOW_MOD, U16 - 1) \o validate_match(m.match)
    \o << <<m.command <= 4, <<"UNDEFINED_FLOW_MOD_COMMAND">> >> >>
    \o validate_priority(m.match, m.priority)
    \o (IF m.command \in {3, 4} /\ m.port # OFPP_NONE THEN validate_phy_port_no(m.port) ELSE <<>>)
    \o << <<m.flags <= 7, <<"INVALID_FLOW_MOD_FLAGS">> >> >>
    \o validate_actions(m.parts, m.length - FixedSize.FLOW_MOD)

validate_port_mod(m) ==
    validate_fixed(m) \o validate_phy_port_no(m.port)
    \o << <<m.port <= OFPP_MAX \/ m.port = OFPP_LOCAL, <<"INVALID_PORT_NO">> >>,
          <<PortConfig(m.config), <<"INVALID_PORT_CONFIG">> >>,
          <<PortConfig(m.mask), <<"INVALID_PORT_MASK">> >>,
          <<PortFeatures(m.features), <<"INVALID_PORT_FEATURES">> >> >>
---------------------------------------------------------------------------
(* Statistics and queues.                                                    *)

StatsHeader(m, min, max) ==
    validate_header(m, FixedSize.STATS_REQUEST + min, FixedSize.STATS_REQUEST + max)

NoFlags(m) == << <<m.flags = 0, <<"INVALID_STATS_REQUEST_FLAGS">> >> >>

(* Descriptions and tables are asked for without a body.                     *)
validate_desc_stats_request(m) == StatsHeader(m, 0, 0) \o NoFlags(m)
validate_table_stats_request(m) == StatsHeader(m, 0, 0) \o NoFlags(m)

validate_flow_or_aggregate_stats_request(m) ==
    StatsHeader(m, RequestBody.FLOW, RequestBody.FLOW) \o NoFlags(m)
    \o validate_match(m.match) \o validate_phy_port_no(m.port)

validate_port_stats_request(m) ==
    StatsHeader(m, RequestBody.PORT, RequestBody.PORT) \o NoFlags(m)
    \o validate_phy_port_no(m.port)
    \o << <<m.port <= OFPP_MAX \/ m.port \in {OFPP_NONE, OFPP_LOCAL}, <<"INVALID_PORT_NO">> >> >>

validate_queue_or_vendor_stats_request(m) ==
    IF m.stats = "QUEUE"
    THEN StatsHeader(m, RequestBody.QUEUE, RequestBody.QUEUE) \o NoFlags(m)
         \o validate_phy_port_no(m.port)
    ELSE StatsHeader(m, RequestBody.VENDOR, U16) \o NoFlags(m)

validate_stats_request(m) ==
    CASE m.stats = "DESC" -> validate_desc_stats_request(m)
      [] m.stats = "TABLE" -> validate_table_stats_request(m)
      [] m.stats \in {"FLOW", "AGGREGATE"} -> validate_flow_or_aggregate_stats_request(m)
      [] m.stats = "PORT" -> validate_port_stats_request(m)
      [] m.stats \in {"QUEUE", "VENDOR"} -> validate_queue_or_vendor_stats_request(m)
      [] OTHER -> << <<FALSE, <<"UNSUPPORTED_STATS_TYPE">> >> >>

(* A reply may be one of several: flag 1 says that more follow.              *)
ReplyFlags(m, max) == << <<m.flags <= max, <<"INVALID_STATS_REPLY_FLAGS">> >> >>

validate_desc_stats_reply(m) == StatsHeader(m, 0, ReplyBody.DESC) \o ReplyFlags(m, 0)

(* The flows and, in each, its actions.                                      *)
validate_flow_stats_reply(m) ==
    LET validate_flow(f) ==
            validate_match(f.match)
            \o << <<IsExact(f.match) => f.priority = U16 - 1, <<"INVALID_FLOW_PRIORITY">> >> >>
            \o validate_actions(f.actions, (f.len - PartSize.FLOW_STATS) % U16)
    IN  StatsHeader(m, 0, U16) \o ReplyFlags(m, 1)
        \o CheckParts(validate_flow, m.parts, m.length - FixedSize.STATS_REPLY)

validate_aggregate_stats_reply(m) == StatsHeader(m, 0, ReplyBody.AGGREGATE) \o ReplyFlags(m, 0)

(* Parts of one size must fill the body.                                     *)
Tiled(m, size) ==
    << <<(m.length - FixedSize.STATS_REPLY) % size = 0, <<"INVALID_LENGTH">> >> >>

validate_table_stats_reply(m) ==
    LET check(t) == << <<"UNDEFINED" \notin t.wild, <<"INVALID_WILDCARDS">> >> >>
    IN  StatsHeader(m, 0, U16) \o ReplyFlags(m, 1) \o Tiled(m, PartSize.TABLE_STATS)
        \o EachPart(check, m.parts)

validate_port_or_queue_stats_reply(m) ==
    LET check(p) == validate_phy_port_no(p.port_no)
    IN  StatsHeader(m, 0, U16) \o ReplyFlags(m, 1)
        \o Tiled(m, PartSize[IF m.stats = "PORT" THEN "PORT_STATS" ELSE "QUEUE_STATS"])
        \o EachPart(check, m.parts)

validate_vendor_stats_reply(m) == StatsHeader(m, 0, U16) \o ReplyFlags(m, 1)

validate_stats_reply(m) ==
    CASE m.stats = "DESC" -> validate_desc_stats_reply(m)
      [] m.stats = "FLOW" -> validate_flow_stats_reply(m)
      [] m.stats = "AGGREGATE" -> validate_aggregate_stats_reply(m)
      [] m.stats = "TABLE" -> validate_table_stats_reply(m)
      [] m.stats \in {"PORT", "QUEUE"} -> validate_port_or_queue_stats_reply(m)
      [] m.stats = "VENDOR" -> validate_vendor_stats_reply(m)
      [] OTHER -> << <<FALSE, <<"UNSUPPORTED_STATS_TYPE">> >> >>

validate_queue_get_config_request(m) == validate_fixed(m) \o validate_phy_port_no(m.port)

validate_queue_property(p) ==
    LET size == IF p.kind = "MIN_RATE" THEN 16 ELSE 8
    IN  << <<p.len >= 8, <<"TOO_SHORT_QUEUE_PROPERTY">> >>,
           <<p.kind \in {"NONE", "MIN_RATE"}, <<"UNDEFINED_QUEUE_PROPERTY">> >>,
           <<p.len >= size, <<"TOO_SHORT_QUEUE_PROPERTY">> >>,
           <<p.len <= size, <<"TOO_LONG_QUEUE_PROPERTY">> >> >>

(* A queue has at least one property.                                        *)
validate_packet_queue(q) ==
    << <<q.len >= PartSize.PACKET_QUEUE + 8, <<"TOO_SHORT_QUEUE_DESCRIPTION">> >> >>
    \o CheckParts(validate_queue_property, q.properties, q.len - PartSize.PACKET_QUEUE)

(* The queues are counted first: while more than a queue's header is left,   *)
(* one more is taken off, and nothing must remain.                           *)
validate_queue_get_config_reply(m) ==
    validate_header(m, FixedSize.QUEUE_GET_CONFIG_REPLY + PartSize.PACKET_QUEUE, U16 - 1)
    \o validate_phy_port_no(m.port)
    \o << <<m.length - FixedSize.QUEUE_GET_CONFIG_REPLY = Bytes(m.parts), <<"INVALID_LENGTH">> >> >>
    \o EachPart(validate_packet_queue, m.parts)

validate_openflow_message(m) ==
    FirstError(
        CASE m.type \in {"HELLO", "ERROR", "ECHO_REQUEST", "ECHO_REPLY", "VENDOR"} -> validate_symmetric(m)
          [] m.type \in {"FEATURES_REQUEST", "GET_CONFIG_REQUEST", "BARRIER_REQUEST", "BARRIER_REPLY"} ->
                validate_fixed(m)
          [] m.type = "FEATURES_REPLY" -> validate_features_reply(m)
          [] m.type \in {"GET_CONFIG_REPLY", "SET_CONFIG"} -> validate_switch_config(m)
          [] m.type = "PACKET_IN" -> validate_packet_in(m)
          [] m.type = "FLOW_REMOVED" -> validate_flow_removed(m)
          [] m.type = "PORT_STATUS" -> validate_port_status(m)
          [] m.type = "PACKET_OUT" -> validate_packet_out(m)
          [] m.type = "FLOW_MOD" -> validate_flow_mod(m)
          [] m.type = "PORT_MOD" -> validate_port_mod(m)
          [] m.type = "STATS_REQUEST" -> validate_stats_request(m)
          [] m.type = "STATS_REPLY" -> validate_stats_reply(m)
          [] m.type = "QUEUE_GET_CONFIG_REQUEST" -> validate_queue_get_config_request(m)
          [] m.type = "QUEUE_GET_CONFIG_REPLY" -> validate_queue_get_config_reply(m)
          [] OTHER -> << <<FALSE, <<"UNDEFINED_TYPE">> >> >>)
---------------------------------------------------------------------------
(* error_maps: the error type and code that answers a validation error, for  *)
(* each type of message.  An error that is in no row is not answered by its  *)
(* own code.                                                                 *)

BadRequest(code, errors) == [e \in errors |-> <<"BAD_REQUEST", code>>]

HeaderErrors ==
    BadRequest("BAD_VERSION", { <<"UNSUPPORTED_VERSION">> })
    @@ BadRequest("BAD_LEN", { <<"TOO_SHORT_MESSAGE">>, <<"TOO_LONG_MESSAGE">> })
    @@ BadRequest("BAD_TYPE", { <<"UNDEFINED_TYPE">>, <<"INVALID_TYPE">> })

HelloErrors == (<<"UNSUPPORTED_VERSION">> :> <<"HELLO_FAILED", "INCOMPATIBLE">>) @@ HeaderErrors

ActionErrors ==
    [e \in { <<"TOO_SHORT_ACTION", k>> : k \in DOMAIN ActionSize }
            \cup { <<"TOO_LONG_ACTION", k>> : k \in DOMAIN ActionSize \ {"VENDOR"} }
            \cup { <<"INVALID_LENGTH_ACTION", "VENDOR">> } |-> <<"BAD_ACTION", "BAD_LEN">>]
    @@ [e \in { <<"INVALID_ACTION_TYPE">>, <<"UNDEFINED_ACTION_TYPE">> } |-> <<"BAD_ACTION", "BAD_TYPE">>]
    @@ [e \in { <<"INVALID_VLAN_VID">>, <<"INVALID_VLAN_PCP">> } |-> <<"BAD_ACTION", "BAD_ARGUMENT">>]
    @@ (<<"INVALID_PORT_NO">> :> <<"BAD_ACTION", "BAD_OUT_PORT">>)

FlowModWithoutCommand ==
    [e \in { <<"INVALID_WILDCARDS">>, <<"INVALID_FLOW_PRIORITY">>, <<"INVALID_FLOW_MOD_FLAGS">> }
     |-> <<"FLOW_MOD_FAILED", "EPERM">>]
FlowModErrors ==
    (<<"UNDEFINED_FLOW_MOD_COMMAND">> :> <<"FLOW_MOD_FAILED", "BAD_COMMAND">>)
    @@ [e \in { <<"INVALID_WILDCARDS">>, <<"INVALID_FLOW_PRIORITY">>, <<"INVALID_FLOW_MOD_FLAGS">> }
        |-> <<"FLOW_MOD_FAILED", "EPERM">>]

EventErrors(type) ==
    BadRequest("EPERM",
        CASE type = "SET_CONFIG" -> { <<"INVALID_SWITCH_CONFIG">> }
          [] type = "PACKET_IN" -> { <<"INVALID_PACKET_IN_REASON">> }
          [] type = "FLOW_REMOVED" -> { <<"INVALID_FLOW_PRIORITY">>, <<"INVALID_FLOW_REMOVED_REASON">> }
          [] type = "PORT_STATUS" -> { <<"INVALID_PORT_STATUS_REASON">> })

PortModErrors ==
    (<<"INVALID_PORT_NO">> :> <<"PORT_MOD_FAILED", "BAD_PORT">>)
    @@ BadRequest("EPERM", { <<"INVALID_PORT_CONFIG">>, <<"INVALID_PORT_MASK">>,
                             <<"INVALID_PORT_FEATURES">> })

StatsErrors ==
    BadRequest("BAD_STAT", { <<"UNSUPPORTED_STATS_TYPE">>, <<"INVALID_STATS_TYPE">> })
    @@ BadRequest("EPERM", { <<"INVALID_STATS_REQUEST_FLAGS">>, <<"INVALID_PORT_NO">>,
                             <<"INVALID_WILDCARDS">>, <<"INVALID_VLAN_VID">>,
                             <<"INVALID_VLAN_PCP">>, <<"INVALID_NW_TOS">> })

QueueErrors == (<<"INVALID_PORT_NO">> :> <<"QUEUE_OP_FAILED", "BAD_PORT">>)

error_maps(type) ==
    CASE type = "HELLO" -> HelloErrors
      [] type \in {"SET_CONFIG", "PACKET_IN", "FLOW_REMOVED", "PORT_STATUS"} ->
            HeaderErrors @@ EventErrors(type)
      [] type = "PACKET_OUT" -> HeaderErrors @@ ActionErrors
      [] type = "FLOW_MOD" -> HeaderErrors @@ ActionErrors @@ FlowModErrors
      [] type = "PORT_MOD" -> HeaderErrors @@ PortModErrors
      [] type = "STATS_REQUEST" -> HeaderErrors @@ StatsErrors
      [] type = "QUEUE_GET_CONFIG_REQUEST" -> HeaderErrors @@ QueueErrors
      [] OTHER -> HeaderErrors

(* A type that OpenFlow 1.0 does not have is answered whatever the error;    *)
(* <<>> says that the error has no row.                                      *)
get_error_type_and_code(type, error) ==
    IF type \notin DOMAIN FixedSize THEN <<"BAD_REQUEST", "BAD_TYPE">>
    ELSE IF error \in DOMAIN error_maps(type) THEN error_maps(type)[error]
    ELSE <<>>

(* ofpmsg_recv answers a message it refuses, by default with BAD_TYPE.       *)
AnswerTo(m, error) ==
    LET own == get_error_type_and_code(m.type, error)
    IN  IF own = <<>> THEN <<"BAD_REQUEST", "BAD_TYPE">> ELSE own

---------------------------------------------------------------------------
VARIABLES
    message,     \* the message under way
    stage,       \* "idle", "built", "taken" unchanged, "arrived", "judged"
    verdict,     \* the error of validate_openflow_message, or <<>>
    answer       \* the type and code of the error message sent back, or <<>>

msgvars == <<message, stage, verdict, answer>>

MsgInit == /\ message \in Calls /\ stage = "idle" /\ verdict = <<>> /\ answer = <<>>

Build == /\ stage = "idle" /\ stage' = "built"
         /\ message' = Create(message)
         /\ UNCHANGED <<verdict, answer>>

Arrive == /\ stage = "built" /\ ~message.dies /\ message.written <= message.size
          /\ message' \in Arriving(message)
          /\ stage' = "arrived"
          /\ UNCHANGED <<verdict, answer>>

JudgeMessage ==
    /\ stage \in {"built", "arrived"} /\ ~message.dies
    /\ message.written <= message.size
    /\ verdict' = validate_openflow_message(message)
    /\ answer' = IF verdict' = <<>> THEN <<>> ELSE AnswerTo(message, verdict')
    /\ stage' = IF stage = "built" THEN "taken" ELSE "judged"
    /\ UNCHANGED message

MsgNext == Build \/ Arrive \/ JudgeMessage

(* What the build functions make of arguments that OpenFlow 1.0 allows (the  *)
(* field legal of a call) stays within its buffer, and the validators take   *)
(* it as it is: the two halves of the file agree on every length and limit.  *)
BuiltIsAccepted ==
    message.legal /\ stage \in {"built", "taken"} =>
        /\ ~message.dies /\ message.written = message.size
        /\ verdict = <<>>

(* A refused request of a controller has its own row in error_maps, so that  *)
(* the answer names what is wrong, except for an action shorter than its     *)
(* header and for a type of service, which packet-out and flow-mod lack.     *)
RefusalHasItsRow ==
    (/\ stage = "judged" /\ verdict # <<>>
     /\ message.type \in {"HELLO", "ECHO_REQUEST", "VENDOR", "FEATURES_REQUEST", "GET_CONFIG_REQUEST",
                          "SET_CONFIG", "PACKET_OUT", "FLOW_MOD", "PORT_MOD", "STATS_REQUEST",
                          "BARRIER_REQUEST", "QUEUE_GET_CONFIG_REQUEST"})
    => \/ answer = get_error_type_and_code(message.type, verdict)
       \/ /\ message.type \in {"PACKET_OUT", "FLOW_MOD"}
          /\ verdict \in { <<"TOO_SHORT_ACTION">>, <<"INVALID_NW_TOS">> }

===========================================================================
