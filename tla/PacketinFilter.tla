--------------------------- MODULE PacketinFilter ---------------------------
(* packetin_filter.c, the process that hands packet-in messages to the       *)
(* applications that asked for them, and packetin_filter_interface.c, the    *)
(* library side of an application.  A filter is a match, a priority and the  *)
(* services that want its packets, in the order they asked.                  *)
EXTENDS MatchTable

CONSTANTS
    Filters,         \* [match, priority] of the requests
    FilterServices,
    BuiltIn,         \* the filters that main's arguments may register
    Packets_in,      \* the exact matches of arriving packets (of the inner one for EtherIP)
    DumpFits,        \* entries that the 2048 bytes of a dump reply hold
    MaxOutstanding   \* bound on requests without a reply

VARIABLES
    registered,      \* the [match, priority, service] asked for and not deleted
    requests,        \* requests on their way, oldest first
    filter_replies,  \* replies on their way
    handler_data,    \* requests whose handler_data is allocated
    last_packet      \* the packet-in just handled, who got it, and whether a send failed

filtervars == <<exact_table, wildcards_table, registered, requests, filter_replies, handler_data, last_packet>>

(* The priority of an exact match is not kept.                               *)
KeyOf(filter) == [match |-> filter.match, priority |-> IF IsExact(filter.match) THEN 0 ELSE filter.priority]
SameKey(x, y) == compare_match_strict(x.match, y.match) /\ x.priority = y.priority
Triple(filter, service) == [match |-> KeyOf(filter).match, priority |-> KeyOf(filter).priority, service |-> service]
Covered(criteria) == {t \in registered : compare_filter_match(criteria, t.match)}
Same(filter, service) == {t \in registered : SameKey(t, KeyOf(filter)) /\ t.service = service}

NoPacket == [match |-> <<>>, services |-> <<>>, failed |-> FALSE]

FilterInit ==
    /\ init_match_table /\ registered = {}
    /\ requests = <<>> /\ filter_replies = <<>> /\ handler_data = {}
    /\ last_packet = NoPacket

(* A service is added once to the services of an entry.                      *)
add_packetin_match_entry(filter, service) ==
    LET services == lookup_match_strict_entry(filter.match, filter.priority)
        ret == service \notin Range(services)
    IN  /\ IF ~ret THEN UNCHANGED matchtablevars
           ELSE IF services = NoEntryData
           THEN insert_match_entry(filter.match, filter.priority, append_to_tail(services, service))
           ELSE update_match_entry(filter.match, filter.priority, append_to_tail(services, service))
        /\ registered' = IF ret THEN registered \cup {Triple(filter, service)} ELSE registered

(* main: lldp:: and packet_in:: arguments register filters before any        *)
(* request is handled.                                                       *)
set_match_type(filter, service) ==
    /\ filter \in BuiltIn /\ registered = {} /\ requests = <<>> /\ filter_replies = <<>>
    /\ add_packetin_match_entry(filter, service)
    /\ UNCHANGED <<requests, filter_replies, handler_data>> /\ last_packet' = NoPacket

(* The entry is taken out and, with the services that remain, put back: it   *)
(* is behind the other entries of its priority then.                         *)
NoPutBack(filter, service) ==
    delete_match_strict_entry(filter.match, filter.priority)
delete_packetin_match_entry(filter, service) ==
    LET services == lookup_match_strict_entry(filter.match, filter.priority)
        remaining == SelectSeq(services, LAMBDA s : s # service)
        rest == delete_wildcards_match_strict_entry(filter.match, filter.priority)
    IN  IF remaining = <<>> THEN delete_match_strict_entry(filter.match, filter.priority)
        ELSE IF IsExact(filter.match) THEN update_match_entry(filter.match, filter.priority, remaining)
        ELSE /\ wildcards_table' = PlaceOf(rest, allocate_match_entry(filter.match, filter.priority, remaining))
             /\ UNCHANGED exact_table

-----------------------------------------------------------------------------
(* The application's side: requests with handler_data until the reply comes. *)
Ask(op, filter, service, strict) ==
    LET id == 1 + Max(handler_data \cup {0})
    IN  /\ Len(requests) + Len(filter_replies) < MaxOutstanding
        /\ Max(handler_data \cup {0}) < MaxOutstanding
        /\ requests' = Append(requests, [op |-> op, filter |-> filter, service |-> service,
                                         strict |-> strict, id |-> id])
        /\ handler_data' = handler_data \cup {id}
        /\ UNCHANGED <<exact_table, wildcards_table, registered, filter_replies>> /\ last_packet' = NoPacket

add_packetin_filter(filter, service) == Ask("add", filter, service, TRUE)
delete_packetin_filter(filter, service, strict) == Ask("delete", filter, service, strict)
dump_packetin_filter(filter, service, strict) == Ask("dump", filter, service, strict)

Count(entries) == FoldSeq(LAMBDA e, sum : Len(e.data) + sum, 0, entries)

(* The number in a reply and the one that the filters asked for would give.  *)
ReplyTo(r, n, expected) ==
    /\ requests' = Tail(requests)
    /\ filter_replies' = Append(filter_replies, [op |-> r.op, id |-> r.id, n |-> n, expected |-> expected])
    /\ UNCHANGED handler_data /\ last_packet' = NoPacket

handle_add_filter_request ==
    /\ requests # <<>> /\ Head(requests).op = "add"
    /\ LET r == Head(requests)
       IN  /\ add_packetin_match_entry(r.filter, r.service)
           /\ ReplyTo(r, IF registered' # registered THEN 1 ELSE 0,
                      IF Same(r.filter, r.service) = {} THEN 1 ELSE 0)

(* Without STRICT, the walker deletes every entry that the criteria cover,   *)
(* whatever the service: the walks have taken the next entry before.         *)
handle_delete_filter_request ==
    /\ requests # <<>> /\ Head(requests).op = "delete"
    /\ LET r == Head(requests)
           gone == map_match_table(r.filter.match)
           services == lookup_match_strict_entry(r.filter.match, r.filter.priority)
           deleted == IF r.strict THEN Same(r.filter, r.service) ELSE Covered(r.filter.match)
       IN  /\ IF r.strict THEN delete_packetin_match_entry(r.filter, r.service)
              ELSE /\ exact_table' = [m \in {x \in DOMAIN exact_table : ~compare_filter_match(r.filter.match, x)}
                                        |-> exact_table[m]]
                   /\ wildcards_table' = SelectSeq(wildcards_table,
                                                   LAMBDA e : ~compare_filter_match(r.filter.match, e.match))
           /\ registered' = registered \ deleted
           /\ ReplyTo(r, IF r.strict THEN Len(SelectSeq(services, LAMBDA s : s = r.service)) ELSE Count(gone),
                      Cardinality(deleted))

(* The pointer to the reply's count is taken before the entries are          *)
(* appended: when they outgrow the buffer the count that is sent is not the  *)
(* number of entries.                                                        *)
Garbled == -1
CountSent(n) == IF n > DumpFits THEN Garbled ELSE n

handle_dump_filter_request ==
    /\ requests # <<>> /\ Head(requests).op = "dump"
    /\ LET r == Head(requests)
           services == lookup_match_strict_entry(r.filter.match, r.filter.priority)
           n == IF r.strict THEN Len(SelectSeq(services, LAMBDA s : s = r.service))
                ELSE Count(map_match_table(r.filter.match))
       IN  ReplyTo(r, CountSent(n),
                   Cardinality(IF r.strict THEN Same(r.filter, r.service) ELSE Covered(r.filter.match)))
    /\ UNCHANGED <<exact_table, wildcards_table, registered>>

(* handle_reply calls the handler and frees its data; a dump reply whose     *)
(* count does not fit its length is dropped.                                 *)
handle_reply ==
    /\ filter_replies # <<>>
    /\ filter_replies' = Tail(filter_replies)
    /\ handler_data' = IF Head(filter_replies).n = Garbled THEN handler_data
                       ELSE handler_data \ {Head(filter_replies).id}
    /\ UNCHANGED <<exact_table, wildcards_table, registered, requests>> /\ last_packet' = NoPacket

(* The services of the entry get the packet in their order, up to the first  *)
(* that cannot be sent to.                                                   *)
handle_packet_in(match) ==
    LET services == lookup_match_entry(match)
    IN  /\ \E sent \in 0 .. Len(services) :
              last_packet' = [match |-> match, services |-> SubSeq(services, 1, sent), failed |-> sent < Len(services)]
        /\ UNCHANGED <<exact_table, wildcards_table, registered, requests, filter_replies, handler_data>>

FilterNext ==
    \/ \E f \in BuiltIn, s \in FilterServices : set_match_type(f, s)
    \/ \E f \in Filters, s \in FilterServices :
          \/ add_packetin_filter(f, s)
          \/ \E strict \in BOOLEAN : delete_packetin_filter(f, s, strict) \/ dump_packetin_filter(f, s, strict)
    \/ handle_add_filter_request \/ handle_delete_filter_request \/ handle_dump_filter_request
    \/ handle_reply
    \/ \E m \in Packets_in : handle_packet_in(m)
-----------------------------------------------------------------------------
Entries == [i \in DOMAIN wildcards_table |-> wildcards_table[i]]
           \o SetToSeq({allocate_match_entry(m, 0, exact_table[m]) : m \in DOMAIN exact_table})

(* The tables hold each service of each filter that was asked for and not    *)
(* deleted, once, under one entry for its match and priority, also after     *)
(* entries were taken out and put back; no entry is left without services.   *)
FiltersAreRegistered ==
    LET entries == Entries
    IN  /\ \A t \in registered :
              \E i \in DOMAIN entries : SameKey(entries[i], t) /\ t.service \in Range(entries[i].data)
        /\ Count(entries) = Cardinality(registered)
        /\ \A i, j \in DOMAIN entries : entries[i].data # <<>> /\ (SameKey(entries[i], entries[j]) => i = j)

(* A packet goes to the services of one filter: an exact one if there is     *)
(* one, else one that no filter of a higher priority matches as well.  It    *)
(* goes to each of them once, unless sending to one of them failed; and a    *)
(* packet that no filter matches goes nowhere (handle_packet_in).            *)
PacketGoesToBest ==
    LET got == last_packet.services
        hits == {t \in registered : compare_match(t.match, last_packet.match)}
        exact == {t \in hits : IsExact(t.match)}
        best == IF exact # {} THEN exact
                ELSE {t \in hits : \A u \in hits : u.priority <= t.priority}
    IN  last_packet.match # <<>> =>
            IF hits = {} THEN got = <<>> /\ ~last_packet.failed
            ELSE /\ IsInjective(got)
                 /\ \E t \in best :
                       LET entitled == {u.service : u \in {x \in best : SameKey(x, t)}}
                       IN  IF last_packet.failed THEN Range(got) \subseteq entitled /\ Range(got) # entitled
                           ELSE Range(got) = entitled

(* Every reply tells what the request did to the filters or found of them,   *)
(* and finds its handler_data still there; the exception is a dump of more   *)
(* entries than its buffer was allocated for.                                *)
RepliesAreTrue ==
    \A i \in DOMAIN filter_replies :
        LET r == filter_replies[i]
        IN  /\ r.id \in handler_data
            /\ r.n = r.expected \/ (r.n = Garbled /\ r.op = "dump" /\ r.expected > DumpFits)
=============================================================================
