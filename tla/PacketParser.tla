---------------------------- MODULE PacketParser ----------------------------
(* packet_parser.c: a frame is parsed layer by layer into a packet_info,     *)
(* which notes where each header starts and what kinds of headers were found *)
(* (format); packet_info.c answers what kind of packet it is by that.        *)
(*                                                                           *)
(* A frame is its length, the number of its VLAN tags and the fields that    *)
(* decide how it is read on; offsets count from its first byte, and -1 is    *)
(* the NULL of a header that was not found.                                  *)
EXTENDS Integers, TLC

CONSTANT Frames   \* records [len, tags, type, ihl, fragment, protocol, offset, op]

TPID == 33024
ETH_MTU == 1500
NULL_OFFSET == -1

HeaderSize == [ether |-> 14, vlantag |-> 4, snap |-> 8, arp |-> 28, ipv4 |-> 20, ipv6 |-> 40,
               icmp |-> 8, igmp |-> 8, udp |-> 8, tcp |-> 20, etherip |-> 2]

L3Types == [t \in {2048, 2054, 32821, 34525, 35020} |->
               CASE t = 2048 -> "NW_IPV4" [] t = 2054 -> "NW_ARP" [] t = 32821 -> "NW_RARP"
                 [] t = 34525 -> "NW_IPV6" [] t = 35020 -> "NW_LLDP"]
L4Protocols == (1 :> "NW_ICMPV4") @@ (2 :> "NW_IGMP") @@ (6 :> "TP_TCP") @@ (17 :> "TP_UDP")
               @@ (97 :> "TP_ETHERIP")

VARIABLES
    frame,
    packet_info,   \* eth_type, format, the headers' extents and the payloads
    layer          \* "ether", "network", "transport", "parsed", or "died" in an assertion

parservars == <<frame, packet_info, layer>>

Blank_info == [eth_type |-> 0, format |-> {}, reads |-> <<0, 0>>,
               l2_payload |-> NULL_OFFSET, l3_payload |-> NULL_OFFSET, l4_payload |-> NULL_OFFSET,
               etherip_offset |-> 0]

(* The payload starts at ptr if anything is left there.                      *)
PayloadAt(ptr) == IF frame.len > ptr THEN ptr ELSE NULL_OFFSET

(* A header of the given kind from ptr up to end was read.                   *)
Read(info, kind, ptr, end) == [info EXCEPT !.format = @ \cup kind, !.reads = <<ptr, end>>]

calloc_packet_info == packet_info = Blank_info

(* The tags that are there whole are read; the first gives the frame its     *)
(* 802.1Q mark.  A type up to ETH_MTU is a length, and a SNAP header follows. *)
parse_ether ==
    LET ptr == HeaderSize.ether + HeaderSize.vlantag * frame.tags
        tagged == IF frame.tags > 0 /\ frame.len >= HeaderSize.ether + HeaderSize.vlantag
                  THEN {"ETH_8021Q"} ELSE {}
        snap == ptr + HeaderSize.snap
    IN  CASE frame.len < HeaderSize.ether -> Blank_info
          [] frame.len >= HeaderSize.ether /\ frame.len < ptr ->
                [Blank_info EXCEPT !.eth_type = TPID, !.format = tagged]
          [] frame.len >= ptr /\ frame.type > ETH_MTU ->
                [Read(Blank_info, tagged \cup {"ETH_DIX"}, 0, ptr)
                 EXCEPT !.eth_type = frame.type, !.l2_payload = PayloadAt(ptr)]
          [] frame.len >= ptr /\ frame.type <= ETH_MTU /\ frame.len < snap ->
                [Blank_info EXCEPT !.eth_type = frame.type, !.format = tagged]
          [] OTHER -> [Read(Blank_info, tagged \cup {"ETH_8023_SNAP"}, 0, snap)
                       EXCEPT !.eth_type = frame.type, !.l2_payload = PayloadAt(snap)]

ParseEther ==
    /\ layer = "ether" /\ layer' = "network"
    /\ packet_info' = parse_ether
    /\ UNCHANGED frame

(* A header of fixed size at ptr: nothing is noted of one that is cut short. *)
ParseFixed(ptr, size, format) ==
    IF frame.len - ptr < size THEN packet_info
    ELSE Read(packet_info, {format}, ptr, ptr + size)

parse_arp(ptr, format) == ParseFixed(ptr, HeaderSize.arp, format)
parse_ipv6(ptr) == ParseFixed(ptr, HeaderSize.ipv6, "NW_IPV6")

(* The header with its options must be there whole.                          *)
Ipv4WithoutOptions(ptr) == frame.len - ptr >= HeaderSize.ipv4 /\ frame.ihl >= 5
Ipv4Whole(ptr) ==
    /\ frame.len - ptr >= HeaderSize.ipv4
    /\ frame.ihl >= 5
    /\ frame.len - ptr >= frame.ihl * 4
parse_ipv4(ptr) ==
    IF ~Ipv4Whole(ptr) THEN packet_info
    ELSE [Read(packet_info, {"NW_IPV4"}, ptr, ptr + frame.ihl * 4)
          EXCEPT !.l3_payload = PayloadAt(ptr + frame.ihl * 4)]

parse_lldp(ptr) == [packet_info EXCEPT !.format = @ \cup {"NW_LLDP"}, !.l3_payload = PayloadAt(ptr)]

(* The header of a known type must exist: parse_x asserts that it does.      *)
ParseNetwork ==
    LET ptr == packet_info.l2_payload
        known == packet_info.eth_type \in DOMAIN L3Types
        kind == L3Types[packet_info.eth_type]
    IN  /\ layer = "network" /\ UNCHANGED frame
        /\ IF known /\ ptr = NULL_OFFSET THEN layer' = "died" /\ UNCHANGED packet_info
           ELSE /\ packet_info' = IF ~known THEN packet_info
                                  ELSE CASE kind \in {"NW_ARP", "NW_RARP"} -> parse_arp(ptr, kind)
                                         [] kind = "NW_IPV4" -> parse_ipv4(ptr)
                                         [] kind = "NW_IPV6" -> parse_ipv6(ptr)
                                         [] kind = "NW_LLDP" -> parse_lldp(ptr)
                /\ layer' = IF known /\ "NW_IPV4" \in packet_info'.format /\ ~frame.fragment
                            THEN "transport" ELSE "parsed"

parse_icmp(ptr) ==
    LET end == ptr + HeaderSize.icmp
    IN  [ParseFixed(ptr, HeaderSize.icmp, "NW_ICMPV4")
         EXCEPT !.l4_payload = IF frame.len - ptr < HeaderSize.icmp THEN @ ELSE PayloadAt(end)]
parse_udp(ptr) ==
    LET end == ptr + HeaderSize.udp
    IN  [ParseFixed(ptr, HeaderSize.udp, "TP_UDP")
         EXCEPT !.l4_payload = IF frame.len - ptr < HeaderSize.udp THEN @ ELSE PayloadAt(end)]
parse_tcp(ptr) ==
    IF \/ frame.len - ptr < HeaderSize.tcp
       \/ frame.offset < 5
       \/ frame.len - ptr < frame.offset * 4
    THEN packet_info
    ELSE [Read(packet_info, {"TP_TCP"}, ptr, ptr + frame.offset * 4)
          EXCEPT !.l4_payload = PayloadAt(ptr + frame.offset * 4)]
parse_igmp(ptr) == ParseFixed(ptr, HeaderSize.igmp, "NW_IGMP")
parse_etherip(ptr) ==
    LET end == ptr + HeaderSize.etherip
    IN  IF frame.len - ptr < HeaderSize.etherip THEN packet_info
        ELSE [Read(packet_info, {"TP_ETHERIP"}, ptr, end)
              EXCEPT !.l4_payload = PayloadAt(end),
                     !.etherip_offset = IF PayloadAt(end) = NULL_OFFSET THEN 0 ELSE end]

ParseTransport ==
    LET ptr == packet_info.l3_payload
        known == frame.protocol \in DOMAIN L4Protocols
        kind == L4Protocols[frame.protocol]
    IN  /\ layer = "transport" /\ UNCHANGED frame
        /\ IF known /\ ptr = NULL_OFFSET THEN layer' = "died" /\ UNCHANGED packet_info
           ELSE /\ layer' = "parsed"
                /\ packet_info' = IF ~known THEN packet_info
                                  ELSE CASE kind = "NW_ICMPV4" -> parse_icmp(ptr)
                                         [] kind = "NW_IGMP" -> parse_igmp(ptr)
                                         [] kind = "TP_TCP" -> parse_tcp(ptr)
                                         [] kind = "TP_UDP" -> parse_udp(ptr)
                                         [] kind = "TP_ETHERIP" -> parse_etherip(ptr)

ParserInit == frame \in Frames /\ calloc_packet_info /\ layer = "ether"
ParserNext == ParseEther \/ ParseNetwork \/ ParseTransport

-----------------------------------------------------------------------------
(* packet_info.c: the kinds of packet, by the bits of format they need, and  *)
(* for the last group by the opcode or type of the header as well.           *)
if_packet_type(bits) == bits \subseteq packet_info.format
packet_type_ether ==
    \E bit \in {"ETH_DIX", "ETH_8023_RAW", "ETH_8023_LLC", "ETH_8023_SNAP"} : if_packet_type({bit})
packet_type_of(kind) ==
    if_packet_type(CASE kind \in {"ipv4_tcp", "ipv4_udp", "ipv4_etherip"} ->
                            {"NW_IPV4", (("ipv4_tcp" :> "TP_TCP") @@ ("ipv4_udp" :> "TP_UDP")
                                         @@ ("ipv4_etherip" :> "TP_ETHERIP"))[kind]}
                     [] kind = "ipv6_tcp" -> {"NW_IPV6", "TP_TCP"}
                     [] kind = "ipv6_udp" -> {"NW_IPV6", "TP_UDP"}
                     [] kind = "arp" -> {"NW_ARP"} [] kind = "rarp" -> {"NW_RARP"}
                     [] kind = "icmpv4" -> {"NW_ICMPV4"} [] kind = "igmp" -> {"NW_IGMP"}
                     [] kind = "lldp" -> {"NW_LLDP"})
packet_type_with_op(kind, op) == packet_type_of(kind) /\ frame.op = op

(* No header is read beyond the end of the frame, and no payload starts      *)
(* there, whatever lengths the headers declare.                              *)
HeadersInside ==
    /\ packet_info.reads[2] <= frame.len
    /\ {packet_info.l2_payload, packet_info.l3_payload, packet_info.l4_payload,
        packet_info.etherip_offset} \subseteq -1 .. frame.len - 1 \cup {0}

(* What the kinds promise to their callers: a packet is of at most one       *)
(* transport kind, one of those is an unfragmented IPv4 packet in Ethernet   *)
(* II framing, and IPv6 packets have none.  A parse is cut off by an         *)
(* assertion only when the frame ends where a known next header should begin.*)
KindsAreConsistent ==
    LET transport == {k \in {"icmpv4", "igmp", "ipv4_tcp", "ipv4_udp", "ipv4_etherip"} : packet_type_of(k)}
    IN  /\ \A x, y \in transport : x = y
        /\ transport # {} => /\ if_packet_type({"NW_IPV4", "ETH_DIX"}) /\ packet_type_ether
                             /\ ~frame.fragment
        /\ ~packet_type_of("ipv6_tcp") /\ ~packet_type_of("ipv6_udp")
        /\ \A op \in {1, 2} : packet_type_with_op("arp", op) => ~packet_type_with_op("rarp", op)
        /\ layer = "died" => packet_info.reads[2] = frame.len
=============================================================================
