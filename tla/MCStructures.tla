---------------------------- MODULE MCStructures ----------------------------
(* Small instances of the data structures of the library, of the messenger   *)
(* and of a switch daemon, and of the packet-in filter.  They share no       *)
(* state, so each behaviour exercises one of them and leaves the others as   *)
(* they are created.                                                         *)
EXTENDS HashTable, DoublyLinkedList, MessageQueue, PacketParser, Buffer, ByteOrder, PacketinFilter,
        XidTable, CookieTable, MessageBuffer

VARIABLE exercised

MCFrames ==
    {[len |-> n, tags |-> g, type |-> t, ihl |-> i, fragment |-> f, protocol |-> p, offset |-> o, op |-> 1] :
        n \in {13, 14, 18, 22, 33, 34, 38, 41, 42, 54, 60, 82}, g \in 0 .. 1,
        t \in {100, 2048, 2054, 34525, 35020, 9}, i \in {4, 5, 6, 15}, f \in BOOLEAN,
        p \in {1, 2, 6, 17, 97, 99}, o \in {5, 6}}

Part(kind, length, v) == [type |-> kind, len |-> length, value |-> v]
MCStructs ==
    {[what |-> w, parts |-> s, length |-> HeaderLength[w] + FoldSeq(LAMBDA x, sum : x.len + sum, 0, s)] :
        w \in {"flow", "queue"},
        s \in UNION {[1 .. n -> {Part(0, 8, 5), Part(1, 16, 300)}] : n \in 0 .. 3}}
    \cup {[what |-> "flow", length |-> 88 + 272, parts |-> <<Part(65535, 264, 1), Part(0, 8, 2)>>]}

All == [wild |-> FlagFields, nw_src_len |-> 63, nw_dst_len |-> 63, in_port |-> 0,
        dl_src |-> 0, dl_dst |-> 0, dl_vlan |-> 0, dl_vlan_pcp |-> 0, dl_type |-> 0,
        nw_tos |-> 0, nw_proto |-> 0, nw_src |-> 0, nw_dst |-> 0, tp_src |-> 0, tp_dst |-> 0]
Lldp == [All EXCEPT !.wild = FlagFields \ {"dl_type"}, !.dl_type = 35020]
Port1 == [All EXCEPT !.wild = FlagFields \ {"in_port"}, !.in_port = 1, !.dl_type = 9]
Exactly(port, type) == [All EXCEPT !.wild = {}, !.nw_src_len = 0, !.nw_dst_len = 0,
                                   !.in_port = port, !.dl_type = type]
MCBuiltIn == {[match |-> Lldp, priority |-> 32768]}
MCFilters == {[match |-> All, priority |-> 0], [match |-> Port1, priority |-> 32768],
              [match |-> Exactly(1, 35020), priority |-> 7]}
MCPackets == {Exactly(1, 35020), Exactly(2, 35020), Exactly(1, 2048)}

tablevars == <<xidVars, cookieVars, bufferVars>>
packetvars == <<parservars, bytevars, ordervars, filtervars>>
containervars == <<hashvars, dlistvars, queuevars>>
structvars == <<exercised, containervars, packetvars, tablevars>>

StructInit ==
    /\ exercised \in {"hash", "dlist", "queue", "parser", "buffer", "order", "filter", "xid", "cookie", "ring"}
    /\ create_hash /\ DListInit /\ create_message_queue /\ BufferInit /\ FilterInit
    /\ XidInit /\ CookieInit /\ create_message_buffer
    /\ calloc_packet_info /\ layer = "ether"
    /\ frame \in IF exercised = "parser" THEN Frames ELSE {CHOOSE f \in Frames : TRUE}
    /\ memory \in IF exercised = "order" THEN Structures ELSE {CHOOSE x \in Structures : TRUE}
    /\ copy = memory /\ walker = Resting /\ form = "host"

Containers ==
    /\ \/ exercised = "hash" /\ HashNext /\ UNCHANGED <<dlistvars, queuevars>>
       \/ exercised = "dlist" /\ DListNext /\ UNCHANGED <<hashvars, queuevars>>
       \/ exercised = "queue" /\ MessageQueueNext /\ UNCHANGED <<hashvars, dlistvars>>
    /\ UNCHANGED <<exercised, packetvars, tablevars>>

OnPackets ==
    /\ \/ exercised = "parser" /\ ParserNext /\ UNCHANGED <<bytevars, ordervars, filtervars>>
       \/ exercised = "buffer" /\ BufferStep /\ UNCHANGED <<parservars, ordervars, filtervars>>
       \/ exercised = "order" /\ OrderNext /\ UNCHANGED <<parservars, bytevars, filtervars>>
       \/ exercised = "filter" /\ FilterNext /\ UNCHANGED <<parservars, bytevars, ordervars>>
    /\ UNCHANGED <<exercised, containervars, tablevars>>

Tables ==
    /\ \/ exercised = "xid" /\ XidNext /\ UNCHANGED <<cookieVars, bufferVars>>
       \/ exercised = "cookie" /\ CookieNext /\ UNCHANGED <<xidVars, bufferVars>>
       \/ exercised = "ring" /\ BufferNext /\ UNCHANGED <<xidVars, cookieVars>>
    /\ UNCHANGED <<exercised, containervars, packetvars>>

StructSpec == StructInit /\ [][Containers \/ OnPackets \/ Tables]_structvars


(* Buffers hold the bytes written to them inside their allocation, however   *)
(* often they are moved, and user data is freed once.                        *)
BuffersKeepData == BufferHoldsWritten /\ UserDataFreedOnce /\ BufferTypeOK /\ DataInside

(* The parser reads no byte beyond the frame and gives it one kind.          *)
ParserStaysInside == HeadersInside /\ KindsAreConsistent

(* Conversions of byte order reach every field of a message once, and the    *)
(* way back gives the message that was sent.                                 *)
ConversionsAreWhole == WalkConvertsEachPart /\ LayoutsAreWhole

(* The packet-in filter keeps every registration, sends a packet to the best *)
(* of them and tells the truth about what it did.                            *)
FilteringIsRight == FiltersAreRegistered /\ PacketGoesToBest /\ RepliesAreTrue

(* The transaction table gives up its oldest entry first, and the two tables *)
(* of cookies agree, at the ends of the ranges of ids and cookies, too.      *)
TablesTrackRequests == XidTypeOK /\ OldestIsNext /\ CookieTypeOK /\ CookieTablesAgree
=============================================================================
