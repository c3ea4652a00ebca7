---------------------------- MODULE SwitchEvents ----------------------------
(* A switch that connects, leaves and comes back, as a controller            *)
(* application sees it: the switch events of openflow_application_           *)
(* interface.c, the messages it sends to the name of the switch, and what    *)
(* the daemons do with them (service_interface.c).  Each connection has a    *)
(* daemon of its own; the events of one daemon arrive in order, those of two *)
(* daemons in any order.                                                     *)
EXTENDS LinkedList, FiniteSets, TLC

CONSTANTS
    MaxReconnects,  \* bound on the times the switch connects
    MaxSends        \* bound on the messages of the application

VARIABLES
    connections,    \* the daemons: [up, events |-> on their way to the application,
                    \* inbox |-> message types in the daemon's socket]
    app_queue,      \* the application's send queue of the switch's name
    app_sends,      \* history: message -> [heard |-> heard_gone then, meant |-> the
                    \* connections that were up and had no earlier one left to hear of]
    heard_gone,     \* history: daemons whose DISCONNECTED the application handled
    received        \* history: the messages written to a socket:
                    \* [id |-> message, by |-> daemon, heard |-> heard_gone then]

switcheventvars == <<connections, app_queue, app_sends, heard_gone, received>>

SwitchEventsInit ==
    connections = <<>> /\ app_queue = <<>> /\ app_sends = <<>> /\ heard_gone = {} /\ received = {}

---------------------------------------------------------------------------
(* The daemons.                                                              *)

(* service_send_to_application: one message to each service of the list; the *)
(* application is one, and a switch event carries the datapath id only.      *)
service_send_to_application(d, type) == [connections EXCEPT ![d].events = Append(@, type)]

SwitchConnects ==
    /\ Len(connections) < MaxReconnects
    /\ connections' = Append(connections, [up |-> TRUE, events |-> <<"READY">>, inbox |-> <<>>])
    /\ UNCHANGED <<app_queue, app_sends, heard_gone, received>>

Disconnected(d) == [service_send_to_application(d, "DISCONNECTED") EXCEPT ![d].up = FALSE, ![d].inbox = <<>>]
SwitchLeaves(d) ==
    /\ connections[d].up /\ connections' = Disconnected(d)
    /\ UNCHANGED <<app_queue, app_sends, heard_gone, received>>

(* The messenger writes to the socket of the daemon it is connected to.      *)
Written(d) ==
    /\ connections[d].up /\ app_queue # <<>> /\ app_queue' = Tail(app_queue)
    /\ received' = received \cup {[id |-> Head(app_queue).id, by |-> d, heard |-> heard_gone]}
    /\ connections' = [connections EXCEPT ![d].inbox = Append(@, Head(app_queue).type)]
    /\ UNCHANGED <<app_sends, heard_gone>>

(* A message goes to the switch, a request to disconnect ends the daemon.    *)
service_recv_from_application(d) ==
    /\ connections[d].up /\ connections[d].inbox # <<>>
    /\ connections' = IF Head(connections[d].inbox) = "DISCONNECT_REQUEST" THEN Disconnected(d)
                      ELSE [connections EXCEPT ![d].inbox = Tail(@)]
    /\ UNCHANGED <<app_queue, app_sends, heard_gone, received>>

---------------------------------------------------------------------------
(* The application.                                                          *)

Send(type) ==
    LET meant == {d \in DOMAIN connections : connections[d].up /\ 1 .. d - 1 \subseteq heard_gone}
    IN  /\ Len(app_sends) < MaxSends
        /\ app_sends' = Append(app_sends, [heard |-> heard_gone, meant |-> meant])
        /\ app_queue' = Append(app_queue, [type |-> type, id |-> Len(app_sends) + 1])
        /\ UNCHANGED <<connections, heard_gone, received>>
send_openflow_message == Send("MESSAGE")
disconnect_switch == Send("DISCONNECT_REQUEST")

(* What was queued for the switch that left does not reach the next one.     *)
KeepsMessages(queue) == queue
delete_openflow_messages(queue) == <<>>

handle_messenger_openflow_disconnected(d) ==
    app_queue' = delete_openflow_messages(app_queue) /\ heard_gone' = heard_gone \cup {d}
app_handle_switch_ready(d) == UNCHANGED <<app_queue, heard_gone>>

(* handle_message, handle_switch_events: by the type of the event.           *)
handle_switch_events(d) ==
    /\ connections[d].events # <<>>
    /\ connections' = [connections EXCEPT ![d].events = Tail(@)]
    /\ \/ Head(connections[d].events) = "READY" /\ app_handle_switch_ready(d)
       \/ Head(connections[d].events) = "DISCONNECTED" /\ handle_messenger_openflow_disconnected(d)
    /\ UNCHANGED <<app_sends, received>>

(* insert_dpid: before the first id that is not smaller.                     *)
insert_dpid(list, dpid) ==
    LET bigger == SelectSeq(list, LAMBDA x : dpid <= x)
    IN  IF bigger = <<>> THEN append_to_tail(list, dpid)
        ELSE IF bigger[1] = list[1] THEN insert_in_front(list, dpid)
        ELSE insert_before(list, bigger[1], dpid)

(* handle_list_switches_reply: the ids of a reply in ascending order.        *)
handle_list_switches_reply(dpids) == FoldLeft(insert_dpid, create_list, dpids)

SwitchEventsNext ==
    \/ SwitchConnects
    \/ send_openflow_message
    \/ disconnect_switch
    \/ \E d \in DOMAIN connections :
          SwitchLeaves(d) \/ Written(d) \/ service_recv_from_application(d) \/ handle_switch_events(d)

---------------------------------------------------------------------------
(* A message does not outlive the connection it was meant for: what is       *)
(* written to a daemon was sent after the application heard of every end it  *)
(* has heard of by now (delete_openflow_messages).  And a message that was sent when   *)
(* the ends of all earlier connections were known is not thrown away while   *)
(* that connection is the latest and up: only a DISCONNECTED that an older   *)
(* daemon sent late removes messages for a connected switch.                 *)
MessagesMeetTheirConnection ==
    /\ \A r \in received : \A e \in r.heard : e < r.by => e \in app_sends[r.id].heard
    /\ \A id \in DOMAIN app_sends : \A d \in app_sends[id].meant :
          connections[d].up /\ d = Len(connections) =>
             \/ \E i \in DOMAIN app_queue : app_queue[i].id = id
             \/ \E r \in received : r.id = id /\ r.by = d

(* The list of switches that the application gets is sorted and complete     *)
(* whatever the order in the manager's hash table (insert_dpid).             *)
SwitchListIsSorted ==
    \A dpids \in UNION {[1 .. n -> 1 .. 3] : n \in 0 .. 3} :
        LET list == handle_list_switches_reply(dpids)
        IN  /\ \A i \in 2 .. Len(list) : list[i - 1] <= list[i]
            /\ \A x \in 1 .. 3 : Len(SelectSeq(list, LAMBDA y : y = x)) = Len(SelectSeq(dpids, LAMBDA y : y = x))
=============================================================================
