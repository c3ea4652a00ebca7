------------------------------ MODULE ByteOrder ------------------------------
(* byteorder.c: structures of OpenFlow messages between network and host     *)
(* byte order.  A structure of fixed size is its layout: numbers are         *)
(* reversed, byte arrays copied, padding zeroed, and the same function       *)
(* serves both directions.  Flow statistics and packet queues have parts of  *)
(* variable length, found by walking over lengths that are being converted.  *)
EXTENDS Integers, Sequences, SequencesExt

CONSTANT Structures   \* [what, length, parts] in host order

(* Fields of a layout: <<"number" or "bytes" or "pad", width>>.              *)
N(width) == <<"number", width>>
B(width) == <<"bytes", width>>
P(width) == <<"pad", width>>

match_layout == <<N(4), N(2), B(6), B(6), N(2), B(1), P(1), N(2), B(1), B(1), P(2), N(4), N(4), N(2), N(2)>>
phy_port_layout == <<N(2), B(6), B(16), N(4), N(4), N(4), N(4), N(4), N(4)>>
action_output_layout == <<N(2), N(2), N(2), N(2)>>
action_vlan_vid_layout == <<N(2), N(2), N(2), P(2)>>
action_vlan_pcp_layout == <<N(2), N(2), B(1), P(3)>>
action_strip_vlan_layout == <<N(2), N(2), P(4)>>
action_dl_addr_layout == <<N(2), N(2), B(6), P(6)>>
action_nw_addr_layout == <<N(2), N(2), N(4)>>
action_nw_tos_layout == <<N(2), N(2), B(1), P(3)>>
action_tp_port_layout == <<N(2), N(2), N(2), P(2)>>
action_enqueue_layout == <<N(2), N(2), N(2), P(6), N(4)>>
aggregate_stats_layout == <<N(8), N(8), N(4), P(4)>>
table_stats_layout == <<B(1), P(3), B(32), N(4), N(4), N(4), N(8), N(8)>>
port_stats_layout == <<N(2), P(6)>> \o [i \in 1 .. 12 |-> N(8)]
queue_stats_layout == <<N(2), P(2), N(4), N(8), N(8), N(8)>>

(* Each with the size of the structure in openflow.h.                        *)
Layouts == {<<match_layout, 40>>, <<phy_port_layout, 48>>, <<action_output_layout, 8>>,
            <<action_vlan_vid_layout, 8>>, <<action_vlan_pcp_layout, 8>>,
            <<action_strip_vlan_layout, 8>>, <<action_dl_addr_layout, 16>>,
            <<action_nw_addr_layout, 8>>, <<action_nw_tos_layout, 8>>,
            <<action_tp_port_layout, 8>>, <<action_enqueue_layout, 16>>,
            <<aggregate_stats_layout, 24>>, <<table_stats_layout, 64>>,
            <<port_stats_layout, 104>>, <<queue_stats_layout, 32>>}

(* The bytes of a structure, field by field.                                 *)
Convert(layout, fields) ==
    [i \in DOMAIN layout |->
        CASE layout[i][1] = "number" -> Reverse(fields[i])
          [] layout[i][1] = "bytes" -> fields[i]
          [] layout[i][1] = "pad" -> [j \in 1 .. layout[i][2] |-> 0]]

Numbered(layout) == [i \in DOMAIN layout |-> [j \in 1 .. layout[i][2] |-> IF layout[i][1] = "pad" THEN 0 ELSE j]]

-----------------------------------------------------------------------------
(* Structures of variable length, as the 16-bit words a little-endian host   *)
(* reads: swap16 is ntohs and htons.                                         *)
U16Range == 65536
swap16(v) == (v % 256) * 256 + (v \div 256)
HeaderLength == [flow |-> 88, queue |-> 8]
PartHeader == 8
OFPQT_MIN_RATE == 1

VARIABLES
    memory,      \* the structure as it is stored
    copy,        \* fs or pq: what the conversion reads
    walker,      \* direction, in_place, offset and length left of the walk
    form         \* "host", "converting", "network" or "host again"

ordervars == <<memory, copy, walker, form>>

Resting == [direction |-> "none", in_place |-> FALSE, offset |-> 0, left |-> 0, lost |-> FALSE]

OrderInit == /\ memory \in Structures /\ copy = memory
             /\ walker = Resting /\ form = "host"

InHostOrder(direction, word) == IF direction = "hton" THEN word ELSE swap16(word)

(* The header is converted and the length of the parts read: by              *)
(* hton_packet_queue from src, which is dst already when it works in place.  *)
PartsLength(direction, in_place) ==
    LET stored == IF direction = "hton" /\ in_place /\ memory.what = "queue"
                  THEN swap16(memory.length) ELSE InHostOrder(direction, memory.length)
    IN  (stored - HeaderLength[memory.what]) % U16Range

Begin(direction, in_place) ==
    /\ form = IF direction = "hton" THEN "host" ELSE "network"
    /\ copy' = memory
    /\ memory' = [memory EXCEPT !.length = swap16(@)]
    /\ walker' = [direction |-> direction, in_place |-> in_place, offset |-> 0, lost |-> FALSE,
                  left |-> PartsLength(direction, in_place)]
    /\ form' = "converting"

ntoh_or_hton_action(part) == [part EXCEPT !.type = swap16(@), !.len = swap16(@), !.value = swap16(@)]

(* Only the property with a rate has a third number.                         *)
ntoh_queue_property(part) ==
    [part EXCEPT !.type = swap16(@), !.len = swap16(@),
                 !.value = IF swap16(part.type) = OFPQT_MIN_RATE THEN swap16(@) ELSE @]
hton_queue_property(part) ==
    [part EXCEPT !.type = swap16(@), !.len = swap16(@),
                 !.value = IF part.type = OFPQT_MIN_RATE THEN swap16(@) ELSE @]
ConvertPart(part) ==
    IF memory.what = "flow" THEN ntoh_or_hton_action(part)
    ELSE IF walker.direction = "hton" THEN hton_queue_property(part) ELSE ntoh_queue_property(part)

(* Where the parts of the copy really start.                                 *)
StartOf(i) ==
    LET sum[k \in 0 .. Len(copy.parts)] ==
            IF k = 0 THEN 0 ELSE sum[k - 1] + InHostOrder(walker.direction, copy.parts[k].len)
    IN  sum[i - 1]

(* The length by which the walk goes on is a host-order one: that of dst     *)
(* after ntoh, of the copied src before hton.                                *)
StepOfSource(i) == copy.parts[i].len
StepLength(i) ==
    IF walker.direction = "ntoh" THEN ConvertPart(copy.parts[i]).len ELSE copy.parts[i].len

ConvertNext ==
    /\ form = "converting" /\ walker.left >= PartHeader /\ ~walker.lost
    /\ LET here == {i \in DOMAIN copy.parts : StartOf(i) = walker.offset}
           i == CHOOSE j \in here : TRUE
       IN  IF here = {} THEN /\ walker' = [walker EXCEPT !.lost = TRUE]
                             /\ UNCHANGED memory
           ELSE /\ memory' = [memory EXCEPT !.parts[i] = ConvertPart(copy.parts[i])]
                /\ walker' = [walker EXCEPT !.offset = @ + StepLength(i),
                                            !.left = (@ - StepLength(i)) % U16Range]
    /\ UNCHANGED <<copy, form>>

Finish ==
    /\ form = "converting" /\ walker.left < PartHeader
    /\ form' = IF walker.direction = "hton" THEN "network" ELSE "host again"
    /\ walker' = Resting
    /\ UNCHANGED <<memory, copy>>

OrderNext ==
    \/ \E direction \in {"hton", "ntoh"}, in_place \in BOOLEAN : Begin(direction, in_place)
    \/ ConvertNext \/ Finish

-----------------------------------------------------------------------------
(* A walk finds every part at its place and only there, so a structure that  *)
(* goes to the network and back is the one that was sent, and each number of *)
(* it was swapped once on the way.  hton_packet_queue is the exception when  *)
(* it converts in place: it reads the length it has just swapped.            *)
WalkConvertsEachPart ==
    /\ walker.lost => walker.direction = "hton" /\ walker.in_place /\ memory.what = "queue"
    /\ form = "network" =>
          /\ swap16(memory.length) = copy.length
          /\ \A i \in DOMAIN memory.parts : swap16(memory.parts[i].len) = copy.parts[i].len
    /\ form = "host again" => memory \in Structures

(* A conversion of a structure of fixed size writes every byte of it, and    *)
(* its own result gives the structure back with its padding cleared.         *)
LayoutsAreWhole ==
    form = "host again" => \A layout \in Layouts :
        LET fields == Numbered(layout[1])
        IN  /\ Len(FlattenSeq(fields)) = layout[2]
            /\ Convert(layout[1], Convert(layout[1], fields)) = fields
=============================================================================
