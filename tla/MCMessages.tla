----------------------------- MODULE MCMessages -----------------------------
(* OpenFlow messages: how they are built, checked and handed to callbacks,   *)
(* the matches in them, the requests that a switch has not answered, and the *)
(* transaction ids and cookies that a switch daemon translates.  Each is     *)
(* explored on its own: which one is chosen by the initial state.            *)
EXTENDS SwitchInterface, ApplicationInterface, MCTransactions

(* The match of every message: one field is wildcarded, or none.             *)
SomeMatch == [wild |-> {"tp_dst"}, nw_src_len |-> 0, nw_dst_len |-> 0, in_port |-> 1,
              dl_src |-> 1, dl_dst |-> 2, dl_vlan |-> NoVlan, dl_vlan_pcp |-> 0, dl_type |-> IPV4,
              nw_tos |-> 4, nw_proto |-> TCP, nw_src |-> 1, nw_dst |-> 2, tp_src |-> 80, tp_dst |-> 0]
Exact == [SomeMatch EXCEPT !.wild = {}]
BadMatches == {[SomeMatch EXCEPT !.wild = {"UNDEFINED"}], [SomeMatch EXCEPT !.dl_vlan = 4096],
               [SomeMatch EXCEPT !.dl_vlan_pcp = 8], [SomeMatch EXCEPT !.nw_tos = 1]}

Blank == [type |-> "HELLO", version |-> 0, length |-> 0, size |-> 0, written |-> 0, dies |-> FALSE,
          legal |-> TRUE, data |-> 0, stats |-> "NONE", flags |-> 0, port |-> 1, config |-> 0,
          mask |-> 0, features |-> 0, reason |-> 0, command |-> 0, priority |-> 65535,
          match |-> SomeMatch, parts |-> <<>>, actions_len |-> 0, n_tables |-> 1, buffered |-> TRUE]

Of(types) == {[Blank EXCEPT !.type = t] : t \in types}
WithData(calls) == {[c EXCEPT !.data = d] : c \in calls, d \in {0, 1, 65000}}
WithPorts(calls) == {[c EXCEPT !.port = p] : c \in calls, p \in {1, OFPP_MAX, OFPP_LOCAL}}
WithMatches(calls) == {[c EXCEPT !.match = m] : c \in calls, m \in {SomeMatch, Exact}}
WithParts(calls, sets) == {[c EXCEPT !.parts = s] : c \in calls, s \in sets}
Upto2(S) == {<<>>} \cup {<<x>> : x \in S} \cup {<<x, y>> : x, y \in S}

PhyPorts == {[kind |-> "PHY_PORT", len |-> 48, port_no |-> n, config |-> 127, state |-> s, features |-> 4095] :
             n \in {1, OFPP_MAX, OFPP_LOCAL}, s \in {0, 769}}
Actions == {append_action_link("OUTPUT", p) : p \in {1, OFPP_MAX, OFPP_IN_PORT}}
           \cup {append_action_link("SET_VLAN_VID", 4095), append_action_link("SET_VLAN_PCP", 7),
                 append_action_link("STRIP_VLAN", 0), append_action_network("SET_NW_TOS", 252),
                 append_action_transport("ENQUEUE", 1, 0)}
           \cup {append_action_network(k, 1) : k \in {"SET_DL_SRC", "SET_DL_DST", "SET_NW_SRC", "SET_NW_DST"}}
           \cup {append_action_transport(k, 65535, 0) : k \in {"SET_TP_SRC", "SET_TP_DST"}}
           \cup {append_action_transport("VENDOR", 0, b) : b \in {0, 8, 65520}}
ActionLists == {s \in Upto2(Actions) : Bytes(s) < 65000}
FlowParts == {[kind |-> "FLOW_STATS", len |-> 88 + Bytes(a), match |-> SomeMatch, priority |-> 1, actions |-> a] :
          a \in {<<>>, <<append_action_link("OUTPUT", 1), append_action_network("SET_DL_SRC", 1)>>}}
StatsPart(k) == {[kind |-> k, len |-> PartSize[k], port_no |-> p, wild |-> {"in_port"}] : p \in {1, OFPP_MAX}}
MinRate == [kind |-> "MIN_RATE", len |-> 16]
NoRate == [kind |-> "NONE", len |-> 8]
Queues == {[kind |-> "PACKET_QUEUE", len |-> 8 + Bytes(s), properties |-> s] :
           s \in {<<NoRate>>, <<MinRate>>, <<MinRate, NoRate>>}}
StatsCalls(type, stats) == {[Blank EXCEPT !.type = type, !.stats = stats]}

LegalCalls ==
    UNION {Of(HeaderOnly), WithData(Of({"ERROR", "ECHO_REQUEST", "ECHO_REPLY", "VENDOR"})),
           WithParts(Of({"FEATURES_REPLY"}), Upto2(PhyPorts)), Of({"GET_CONFIG_REPLY", "SET_CONFIG"}),
           WithData(WithPorts(Of({"PACKET_IN"}))), WithMatches(Of({"FLOW_REMOVED"})),
           WithParts(Of({"PORT_STATUS"}), {<<p>> : p \in PhyPorts}),
           WithParts(WithPorts(Of({"PACKET_OUT"})), ActionLists),
           {[c EXCEPT !.buffered = FALSE, !.data = 60] : c \in Of({"PACKET_OUT"})},
           WithParts(WithMatches({[c EXCEPT !.command = k] : c \in Of({"FLOW_MOD"}), k \in {0, 4}}), ActionLists),
           WithPorts(Of({"PORT_MOD", "QUEUE_GET_CONFIG_REQUEST"})),
           UNION {WithPorts(StatsCalls("STATS_REQUEST", s)) : s \in StatsTypes},
           WithData(StatsCalls("STATS_REQUEST", "VENDOR")), WithData(StatsCalls("STATS_REPLY", "VENDOR")),
           StatsCalls("STATS_REPLY", "DESC"), StatsCalls("STATS_REPLY", "AGGREGATE"),
           WithParts(StatsCalls("STATS_REPLY", "FLOW"), Upto2(FlowParts)),
           WithParts(StatsCalls("STATS_REPLY", "TABLE"), Upto2(StatsPart("TABLE_STATS"))),
           WithParts(StatsCalls("STATS_REPLY", "PORT"), Upto2(StatsPart("PORT_STATS"))),
           WithParts(StatsCalls("STATS_REPLY", "QUEUE"), Upto2(StatsPart("QUEUE_STATS"))),
           WithParts(Of({"QUEUE_GET_CONFIG_REPLY"}), Upto2(Queues) \ {<<>>})}

(* Arguments that assertions refuse, or that 16 bits of length do not hold.  *)
OddCalls ==
    {[c EXCEPT !.legal = FALSE] :
        c \in {[x EXCEPT !.data = 65530] : x \in Of({"ECHO_REQUEST", "PACKET_IN"})}
             \cup {[x EXCEPT !.buffered = FALSE, !.data = 59] : x \in Of({"PACKET_OUT"})}
             \cup WithParts(Of({"FLOW_MOD"}), {<<[kind |-> "UNDEFINED", len |-> 8, arg |-> 0, dies |-> FALSE]>>,
                                              <<append_action_link("SET_VLAN_VID", 4096)>>,
                                              <<append_action_network("SET_NW_TOS", 1)>>,
                                              <<append_action_transport("VENDOR", 0, 65520),
                                                append_action_link("OUTPUT", 1)>>})
             \cup Of({"QUEUE_GET_CONFIG_REPLY"})}

MCCalls == LegalCalls \cup OddCalls

(* A peer's message differs in one field or one action from a legal one.     *)
MCArriving(m) ==
    UNION {{[m EXCEPT !.version = v] : v \in {0, 4, 5}}, {[m EXCEPT !.type = "UNDEFINED"]},
           {[m EXCEPT !.length = n] : n \in {m.length - 1, m.length + 8}},
           {[m EXCEPT !.size = m.size - 8]},
           {[m EXCEPT !.stats = "UNDEFINED"]}, {[m EXCEPT !.flags = 8], [m EXCEPT !.port = 0]},
           {[m EXCEPT !.port = 65281], [m EXCEPT !.port = OFPP_IN_PORT]},
           {[m EXCEPT !.config = 128], [m EXCEPT !.mask = 128], [m EXCEPT !.features = 4096]},
           {[m EXCEPT !.reason = 3], [m EXCEPT !.command = 5], [m EXCEPT !.priority = 1]},
           {[m EXCEPT !.match = b] : b \in BadMatches \cup {Exact}},
           IF m.type \in {"PACKET_OUT", "FLOW_MOD"} /\ m.parts # <<>>
           THEN {[m EXCEPT !.parts[1].len = n] : n \in {4, m.parts[1].len + 4}}
                \cup {[m EXCEPT !.parts[1].kind = "UNDEFINED"]}
                \cup {[m EXCEPT !.parts[1].arg = v] : v \in {0, 4096, 65281}}
           ELSE {}}

---------------------------------------------------------------------------
(* Matches: a subject that normalize_match rewrites, and the packets.        *)

Subjects ==
    {[SomeMatch EXCEPT !.wild = w, !.dl_vlan = v, !.dl_vlan_pcp = c, !.dl_type = t] :
        w \in SUBSET {"in_port", "dl_vlan", "dl_vlan_pcp", "dl_type", "UNDEFINED"},
        v \in {1, 4097, NoVlan}, c \in {0, 1, 9}, t \in {IPV4, 9}}
    \cup
    {[SomeMatch EXCEPT !.wild = w, !.dl_type = t, !.nw_tos = s, !.nw_proto = p, !.nw_src_len = n,
                       !.nw_src = 3, !.tp_src = q, !.tp_dst = q] :
        w \in SUBSET {"dl_type", "nw_tos", "nw_proto", "tp_src", "tp_dst"}, t \in {IPV4, ARP, 9},
        s \in {0, 5}, p \in {ICMP, TCP, 47}, n \in {0, 1, 63}, q \in {0, 264}}

Packets ==
    {[in_port |-> 1, eth_macsa |-> 1, eth_macda |-> 2, vtag |-> g, vlan_vid |-> 1, vlan_prio |-> 1,
      eth_type |-> t, ipv4_tos |-> 5, ipv4_protocol |-> p, arp_ar_op |-> 1, saddr |-> a, daddr |-> 2,
      tp_src |-> q, tp_dst |-> q] :
        g \in BOOLEAN, t \in {IPV4, ARP, 9}, p \in {ICMP, TCP, 47}, a \in {1, 3}, q \in {0, 8}}

(* The switch interface: a request with a callback, one that is dropped.     *)
MCArrivals == {Create([Blank EXCEPT !.type = "FEATURES_REQUEST"]),
               [Blank EXCEPT !.type = "ECHO_REQUEST", !.size = 8, !.length = 7]}

MCParseOk(length) == length >= 14

VARIABLES exercised, subject

formatvars == <<msgvars, swvars, appvars, subject>>
vars == <<formatvars, allVars, exercised>>

Normalize == /\ exercised = "match" /\ subject' = normalize_match(subject)
             /\ UNCHANGED <<msgvars, swvars, appvars>>

Message == /\ exercised = "message" /\ MsgNext
           /\ UNCHANGED <<swvars, appvars, subject>>

(* A message that was built here arrives at the interface on the other side. *)
UpAndSet == /\ exercised = "message" /\ stage = "taken"
            /\ \/ /\ \/ init_openflow_switch_interface
                     \/ set_symmetric_handler(message.type)
                     \/ set_request_handler(message.type)
                  /\ UNCHANGED appvars
               \/ /\ set_event_handler(message.type) \/ set_reply_handler(message.type)
                  /\ UNCHANGED swvars
            /\ UNCHANGED <<msgvars, subject>>

AtSwitch == /\ exercised = "message" /\ stage = "taken" /\ interface_up
            /\ called' = CallOf(message, switch_handlers) /\ stage' = "at switch"
            /\ UNCHANGED <<message, verdict, answer, swvars, app_handlers, app_stats, subject>>

AtApplication == /\ exercised = "message" /\ stage \in {"taken", "judged"}
                 /\ handle_openflow_message(message) /\ stage' = "at application"
                 /\ UNCHANGED <<message, verdict, answer, swvars, subject>>

Contexts == /\ exercised = "contexts" /\ SwitchNext
            /\ UNCHANGED <<msgvars, appvars, subject>>

Translation == exercised = "transactions" /\ Next /\ UNCHANGED formatvars

MCInit ==
    /\ exercised \in {"message", "match", "contexts", "transactions"}
    /\ MsgInit /\ SwitchInit /\ AppInit /\ Init
    /\ exercised # "message" => message = Blank
    /\ IF exercised = "match" THEN subject \in Subjects ELSE subject = SomeMatch
    /\ exercised # "transactions" => regime = Owners

Formats == Normalize \/ Message \/ UpAndSet \/ AtSwitch \/ AtApplication \/ Contexts

MCNext == ((Formats /\ UNCHANGED allVars) \/ Translation) /\ UNCHANGED exercised

MCSpec == MCInit /\ [][MCNext]_vars

(* What a callback gets is what the other side gave to the function that     *)
(* built the message: all its actions, ports, flows or queues, and as much   *)
(* payload.  Only the port of a request for queue statistics reaches the     *)
(* switch in network order.  And a callback that is set is called, unless    *)
(* the frame of a packet-in does not parse.                                  *)
CallbackGetsWhatWasBuilt ==
    LET body == message.data + CASE message.type = "STATS_REQUEST" -> RequestBody[message.stats]
                                 [] message.type = "STATS_REPLY" ->
                                       ReplyBody[message.stats] + Bytes(message.parts)
                                 [] OTHER -> 0
        wanted == IF stage = "at switch" THEN message.type \in switch_handlers
                  ELSE message.type \in app_handlers
    IN  message.legal /\ verdict = <<>> /\ stage \in {"at switch", "at application"} =>
            IF called = NoCall
            THEN wanted => message.type = "PACKET_IN" /\ message.data > 0 /\ ~ParseOk(message.data)
            ELSE /\ called.data = body /\ called.parts = message.parts
                 /\ called.port # message.port =>
                       message.type = "STATS_REQUEST" /\ message.stats = "QUEUE"

(* normalize_match only rewrites a match: it loses no packet that the match  *)
(* had, leaves a match that a switch accepts, and has nothing more to do on  *)
(* its own result, so that two forms of one flow are found to be the same.   *)
NormalFormKeepsPackets ==
    exercised = "match" =>
        LET normal == normalize_match(subject)
        IN  /\ FirstError(validate_match(normal)) = <<>>
            /\ normalize_match(normal) = normal
            /\ \A p \in Packets : compare_match(subject, ExactMatch(p))
                                    => compare_match(normal, ExactMatch(p))

(* The match that set_match_from_packet makes of a packet, normalized, is    *)
(* one of that packet, whatever the caller leaves wild; a caller that leaves *)
(* the protocol wild must leave the ports wild as well.                      *)
OwnPacketMatches ==
    exercised = "match" =>
        \A p \in Packets :
            ("nw_proto" \in subject.wild => {"tp_src", "tp_dst"} \subseteq subject.wild)
            => compare_match(normalize_match(set_match_from_packet(p, subject.wild \ {"UNDEFINED"},
                                                                   subject.nw_src_len, subject.nw_dst_len)),
                             ExactMatch(p))

(* A message that is built of what OpenFlow 1.0 allows is accepted as it is, *)
(* and one that is refused is answered with what is wrong with it.           *)
BuildersAndValidatorsAgree == BuiltIsAccepted /\ RefusalHasItsRow

(* Matches keep their packets when they are normalized, and the match made   *)
(* of a packet is one of that packet.                                        *)
MatchesKeepPackets == OwnPacketMatches /\ NormalFormKeepsPackets

(* The cookies that a switch daemon hands out outlive the flows that carry   *)
(* them, and lead back to the application's own cookie.                      *)
CookiesLeadBack == ReferencesCoverFlows /\ CookiesTranslatedBack
=============================================================================
