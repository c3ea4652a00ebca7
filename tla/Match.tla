------------------------------- MODULE Match -------------------------------
(* The flow match of OpenFlow 1.0 as trema handles it: set_match_from_packet *)
(* builds one from a parsed packet, normalize_match rewrites one to the form *)
(* a switch stores, validate_match judges one, and the comparisons of        *)
(* match.h and match_table.c decide what matches what.                       *)
(*                                                                           *)
(* A match keeps the twelve fields of struct ofp_match.  Its wildcards word  *)
(* is the set "wild" of the one-bit flags that are set ("UNDEFINED" stands   *)
(* for the bits outside OFPFW_ALL) and the two six-bit counts of wildcarded  *)
(* address bits, nw_src_len and nw_dst_len.  Numeric fields keep their       *)
(* widths; an address has AddrBits bits where the code has 32.               *)
EXTENDS Integers, FiniteSets

CONSTANT AddrBits    \* the width of a network address

NoVlan == 65535      \* UINT16_MAX: the packet carries no tag
IPV4 == 2048
ARP == 2054
ICMP == 1
TCP == 6
UDP == 17

(* The wildcard flags of one bit each, every one named after its field.      *)
FlagFields == {"in_port", "dl_vlan", "dl_vlan_pcp", "dl_src", "dl_dst",
               "dl_type", "nw_tos", "nw_proto", "tp_src", "tp_dst"}

(* The masks of openflow_message.c: 12 bits of VLAN id, 3 of priority, the   *)
(* upper 6 of the type of service, 8 of an ICMP type or code.                *)
MaskVid(v) == v % 4096
MaskPcp(v) == v % 8
MaskTos(v) == (v \div 4) * 4
MaskIcmp(v) == v % 256

(* create_nw_src_mask and create_nw_dst_mask: an address under the mask that *)
(* leaves out its len low bits; all of them from AddrBits on.                *)
Prefix(addr, len) ==
    IF len >= AddrBits THEN 0 ELSE (addr \div 2^len) * 2^len

---------------------------------------------------------------------------
(* What a match says of a packet, and of another match.                      *)

IsExact(m) == m.wild \cap FlagFields = {} /\ m.nw_src_len = 0 /\ m.nw_dst_len = 0

(* Every field outside w agrees, and the addresses agree in the bits that    *)
(* both prefixes keep.                                                       *)
AgreeOutside(x, y, w, srcLen, dstLen) ==
    /\ \A f \in FlagFields \ w : x[f] = y[f]
    /\ Prefix(x.nw_src, srcLen) = Prefix(y.nw_src, srcLen)
    /\ Prefix(x.nw_dst, dstLen) = Prefix(y.nw_dst, dstLen)

Shorter(a, b) == IF a > b THEN b ELSE a
Longer(a, b) == IF a > b THEN a ELSE b

compare_match(x, y) ==
    AgreeOutside(x, y, x.wild \cup y.wild, Longer(x.nw_src_len, y.nw_src_len),
                 Longer(x.nw_dst_len, y.nw_dst_len))

compare_match_strict(x, y) ==
    /\ x.wild \cap FlagFields = y.wild \cap FlagFields
    /\ x.nw_src_len = y.nw_src_len /\ x.nw_dst_len = y.nw_dst_len
    /\ compare_match(x, y)

(* x, the criterion of a non-strict request, covers the entry y: y wildcards *)
(* nothing that x does not, its prefixes are no shorter, and they agree in   *)
(* what x looks at.                                                          *)
compare_filter_match(x, y) ==
    LET Len(n) == IF n >= AddrBits THEN AddrBits ELSE n
    IN  /\ y.wild \cap FlagFields \subseteq x.wild
        /\ Len(x.nw_src_len) >= Len(y.nw_src_len)
        /\ Len(x.nw_dst_len) >= Len(y.nw_dst_len)
        /\ AgreeOutside(x, y, x.wild, x.nw_src_len, x.nw_dst_len)

---------------------------------------------------------------------------
(* set_match_from_packet: the match of packet p received on its in_port,     *)
(* with the wildcards the caller gives.  A field that is wildcarded, or that *)
(* the packet's protocols do not have, stays zero.  The switch is on         *)
(* match->nw_proto, which is zero when the protocol is wildcarded.           *)
set_match_from_packet(p, wild, srcLen, dstLen) ==
    LET Unless(f, value) == IF f \in wild THEN 0 ELSE value
        dl_type == Unless("dl_type", p.eth_type)
        ip == dl_type = IPV4
        arp == dl_type = ARP
        nw_proto == IF ip THEN Unless("nw_proto", p.ipv4_protocol)
                    ELSE IF arp THEN Unless("nw_proto", p.arp_ar_op % 256) ELSE 0
        ports == ip /\ nw_proto \in {ICMP, TCP, UDP}
    IN  [wild |-> wild, nw_src_len |-> srcLen, nw_dst_len |-> dstLen,
         in_port |-> Unless("in_port", p.in_port),
         dl_src |-> Unless("dl_src", p.eth_macsa),
         dl_dst |-> Unless("dl_dst", p.eth_macda),
         dl_vlan |-> Unless("dl_vlan", IF p.vtag THEN MaskVid(p.vlan_vid) ELSE NoVlan),
         dl_vlan_pcp |-> Unless("dl_vlan_pcp", IF p.vtag THEN MaskPcp(p.vlan_prio) ELSE 0),
         dl_type |-> dl_type,
         nw_tos |-> IF ip THEN Unless("nw_tos", MaskTos(p.ipv4_tos)) ELSE 0,
         nw_proto |-> nw_proto,
         nw_src |-> IF ip \/ arp THEN Prefix(p.saddr, srcLen) ELSE 0,
         nw_dst |-> IF ip \/ arp THEN Prefix(p.daddr, dstLen) ELSE 0,
         tp_src |-> IF ports THEN Unless("tp_src", p.tp_src) ELSE 0,
         tp_dst |-> IF ports THEN Unless("tp_dst", p.tp_dst) ELSE 0]

ExactMatch(p) == set_match_from_packet(p, {}, 0, 0)

---------------------------------------------------------------------------
(* normalize_match, in the two halves of the code: first the wildcards that  *)
(* other fields imply, then the values under them.                           *)

(* The flags after the implications of the tag, the Ethernet type and the    *)
(* protocol; the prefixes are wildcarded whole where the type has none.      *)
ImpliedWildcards(m) ==
    LET known == m.wild \cap FlagFields
        noTag == IF "dl_vlan" \notin known /\ m.dl_vlan = NoVlan
                 THEN {"dl_vlan_pcp"} ELSE {}
        ip == "dl_type" \notin known /\ m.dl_type = IPV4
        arp == "dl_type" \notin known /\ m.dl_type = ARP
        ofType == IF ip THEN {}
                  ELSE IF arp THEN {"nw_tos", "tp_src", "tp_dst"}
                  ELSE {"nw_tos", "nw_proto", "tp_src", "tp_dst"}
        proto == known \cup ofType
        ofProto == IF \/ "nw_proto" \in proto /\ ~ip
                      \/ "nw_proto" \notin proto /\ ip /\ m.nw_proto \notin {ICMP, TCP, UDP}
                   THEN {"tp_src", "tp_dst"} ELSE {}
    IN  [wild |-> known \cup noTag \cup ofType \cup ofProto, addressed |-> ip \/ arp]

(* OFP_VLAN_NONE is no VLAN id and stays as it is.                           *)
NormalVlanMasked(v) == MaskVid(v)
NormalVlan(v) == IF v = NoVlan THEN NoVlan ELSE MaskVid(v)

normalize_match(m) ==
    LET implied == ImpliedWildcards(m)
        Unless(f, value) == IF f \in implied.wild THEN 0 ELSE value
        Len(n) == IF ~implied.addressed \/ n >= AddrBits THEN AddrBits ELSE n
        nw_proto == Unless("nw_proto", IF m.dl_type = ARP THEN m.nw_proto % 256 ELSE m.nw_proto)
        Port(v) == IF nw_proto = ICMP THEN MaskIcmp(v) ELSE v
    IN  [wild |-> implied.wild,
         nw_src_len |-> Len(m.nw_src_len), nw_dst_len |-> Len(m.nw_dst_len),
         in_port |-> Unless("in_port", m.in_port),
         dl_src |-> Unless("dl_src", m.dl_src),
         dl_dst |-> Unless("dl_dst", m.dl_dst),
         dl_vlan |-> Unless("dl_vlan", NormalVlan(m.dl_vlan)),
         dl_vlan_pcp |-> Unless("dl_vlan_pcp", MaskPcp(m.dl_vlan_pcp)),
         dl_type |-> Unless("dl_type", m.dl_type),
         nw_tos |-> Unless("nw_tos", MaskTos(m.nw_tos)),
         nw_proto |-> nw_proto,
         nw_src |-> Prefix(m.nw_src, Len(m.nw_src_len)),
         nw_dst |-> Prefix(m.nw_dst, Len(m.nw_dst_len)),
         tp_src |-> Unless("tp_src", Port(m.tp_src)),
         tp_dst |-> Unless("tp_dst", Port(m.tp_dst))]

(* The checks of validate_match in their order, each with its error.         *)
validate_match(m) ==
    << <<"UNDEFINED" \notin m.wild, <<"INVALID_WILDCARDS">> >>,
       <<m.dl_vlan = NoVlan \/ MaskVid(m.dl_vlan) = m.dl_vlan, <<"INVALID_VLAN_VID">> >>,
       <<MaskPcp(m.dl_vlan_pcp) = m.dl_vlan_pcp, <<"INVALID_VLAN_PCP">> >>,
       <<MaskTos(m.nw_tos) = m.nw_tos, <<"INVALID_NW_TOS">> >> >>
===========================================================================
