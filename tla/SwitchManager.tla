--------------------------- MODULE SwitchManager ---------------------------
(* The switch manager, the switch daemons it forks and an application that   *)
(* changes the event forwarding entries: switch_manager.c, dpid_table.c,     *)
(* secure_channel_listener.c and the registration and management parts of    *)
(* switch.c.  The list of services is that of state_notify, the one that     *)
(* decides who hears of a disconnection.                                     *)
(*                                                                           *)
(* A daemon takes the name of its switch once it knows the datapath id; the  *)
(* name owns a socket and a pid file.  Notices (READY, DISCONNECTED) and     *)
(* requests for the list travel in different queues to the manager.          *)
EXTENDS EventForward

CONSTANT MaxDaemons \* bound on the connections that are accepted

SWITCH_MANAGER == "switch_manager"
NoDpid == "no dpid"

VARIABLES
    dpid_table,     \* the datapath ids the manager lists
    manager_up,     \* the manager's process runs
    manager_list,   \* listener_info.state_service_name_list
    daemons,        \* the daemons in the order they were forked
    socket,         \* dpid -> the daemon that bound the socket of the name, or 0
    pid_file,       \* dpid -> the daemon whose pid the name's file holds, or 0
    snapshots       \* history: operation -> [forked |-> daemons forked when the manager
                    \* applied it, listed |-> those listed when the list was read]

managervars == <<dpid_table, manager_up, manager_list, daemons, socket, pid_file, snapshots>>

SwitchManagerInit ==
    /\ EventForwardInit
    /\ dpid_table = {} /\ daemons = <<>> /\ snapshots = <<>>
    /\ manager_up = TRUE /\ manager_list \in {<<>>} \cup {<<s>> : s \in EventServices}
    /\ socket = [d \in Dpids |-> 0] /\ pid_file = [d \in Dpids |-> 0]

Running(d) == daemons[d].phase \in {"handshake", "completed", "ending"}
OfSwitch(dpid) == {d \in DOMAIN daemons : daemons[d].dpid = dpid}

---------------------------------------------------------------------------
(* The manager.                                                              *)

(* The services in the arguments of a daemon (and the mistake of passing     *)
(* none).                                                                    *)
NoServices == <<>>
make_switch_daemon_args == manager_list

(* secure_channel_accept: the child gets the manager's lists as arguments.   *)
(* A failing accept or fork changes nothing.                                 *)
secure_channel_accept ==
    /\ manager_up /\ Len(daemons) < MaxDaemons
    /\ daemons' = Append(daemons,
          [phase |-> "handshake", dpid |-> NoDpid, list |-> make_switch_daemon_args, notices |-> <<>>,
           asked |-> "no", registered |-> FALSE, alone |-> TRUE, told |-> FALSE])
    /\ UNCHANGED <<efivars, dpid_table, manager_up, manager_list, socket, pid_file, snapshots>>

insert_dpid_entry(dpid) == dpid_table' = dpid_table \cup {dpid}
delete_dpid_entry(dpid) == dpid_table' = dpid_table \ {dpid}
get_switches == dpid_table

handle_switch_ready(d) ==
    Head(daemons[d].notices) = "READY" /\ insert_dpid_entry(daemons[d].dpid)
handle_switch_disconnected(d) ==
    Head(daemons[d].notices) = "DISCONNECTED" /\ delete_dpid_entry(daemons[d].dpid)

HandleNotice(d) ==
    /\ manager_up /\ daemons[d].notices # <<>> /\ daemons' = [daemons EXCEPT ![d].notices = Tail(@)]
    /\ handle_switch_ready(d) \/ handle_switch_disconnected(d)
    /\ UNCHANGED <<efivars, manager_up, manager_list, socket, pid_file, snapshots>>

(* EFI_GET_SWLIST of a daemon that looks for itself.                         *)
AnyListWillDo(d) == "listed"
AnswerFor(d) == IF daemons[d].dpid \in get_switches THEN "listed" ELSE "not listed"
AnswerDaemon(d) ==
    /\ manager_up /\ daemons[d].asked = "request"
    /\ daemons' = [daemons EXCEPT ![d].asked = AnswerFor(d)]
    /\ UNCHANGED <<efivars, dpid_table, manager_up, manager_list, socket, pid_file, snapshots>>

(* management_recv of the manager: the list or one of the entry operations.  *)
management_recv ==
    LET request == Head(efi_out[Manager])
        list == management_event_forward_entry_operation(manager_list, request)
    IN  /\ manager_up /\ efi_out[Manager] # <<>> /\ ~EntryOperationDies(manager_list, request)
        /\ efi_out' = [efi_out EXCEPT ![Manager] = Tail(@)]
        /\ IF request.command = "LIST"
           THEN /\ efi_in' = efi_in \cup {[create_event_forward_operation_reply(request, Manager, <<>>)
                                              EXCEPT !.dpids = get_switches]}
                /\ snapshots' = [snapshots EXCEPT ![request.op].listed =
                                    {d \in DOMAIN daemons : daemons[d].phase = "completed" /\ daemons[d].dpid \in get_switches}]
                /\ UNCHANGED manager_list
           ELSE /\ manager_list' = list
                /\ efi_in' = efi_in \cup {create_event_forward_operation_reply(request, Manager, list)}
                /\ snapshots' = (request.op :> [forked |-> Len(daemons), listed |-> {}]) @@ snapshots
        /\ UNCHANGED <<operations, efi_timers, dpid_table, manager_up, daemons, socket, pid_file>>

(* The manager dies of an entry operation on an empty list.                  *)
ManagerDies ==
    /\ manager_up /\ efi_out[Manager] # <<>> /\ EntryOperationDies(manager_list, Head(efi_out[Manager]))
    /\ manager_up' = FALSE
    /\ UNCHANGED <<efivars, dpid_table, manager_list, daemons, socket, pid_file, snapshots>>

---------------------------------------------------------------------------
(* A switch daemon.                                                          *)

(* A daemon was started under the name of its peer's address, and read_pid   *)
(* compares the name it looks for with the executable and the --name of the  *)
(* process that the file points to.                                          *)
CommandLineName(d) == <<"switch", "address", d>>
RunningUnder(dpid) ==
    LET d == pid_file[dpid]
    IN  IF d # 0 /\ Running(d) /\ CommandLineName(d) = <<"switch", dpid>> THEN d ELSE 0

(* switch_event_recv_featuresreply: the daemon takes the name of the switch  *)
(* (socket, pid file), tells the manager and looks for itself in its list.   *)
(* alone: no daemon of the switch is left, and no notice of one, until a     *)
(* later daemon takes the name.                                              *)
TakesName(d, dpid) == socket' = [socket EXCEPT ![dpid] = d] /\ pid_file' = [pid_file EXCEPT ![dpid] = d]

switch_event_recv_featuresreply(d, dpid) ==
    LET others == {e \in OfSwitch(dpid) : Running(e) \/ daemons[e].notices # <<>>}
    IN  /\ daemons[d].phase = "handshake" /\ RunningUnder(dpid) = 0
        /\ daemons' = [e \in DOMAIN daemons |->
               IF e = d THEN [daemons[e] EXCEPT !.phase = "completed", !.dpid = dpid, !.notices = <<"READY">>,
                                                !.asked = "request", !.alone = others = {}]
               ELSE [daemons[e] EXCEPT !.alone = @ /\ daemons[e].dpid # dpid]]
        /\ TakesName(d, dpid)
        /\ UNCHANGED <<efivars, dpid_table, manager_up, manager_list, snapshots>>

AsksAgain(d) == IF daemons[d].asked = "listed" THEN "no" ELSE "request"
confirm_self_dpid_is_registerd(d) ==
    /\ daemons[d].phase = "completed" /\ daemons[d].asked \in {"listed", "not listed"}
    /\ daemons' = [daemons EXCEPT ![d].asked = AsksAgain(d),
                                  ![d].registered = @ \/ daemons[d].asked = "listed"]
    /\ UNCHANGED <<efivars, dpid_table, manager_up, manager_list, socket, pid_file, snapshots>>

(* The services of the list are told once the switch was known; the list is  *)
(* freed.  told is history: whether the manager was among them.              *)
TellsManager(d) ==
    /\ daemons[d].phase = "completed"
    /\ Contains(daemons[d].list, SWITCH_MANAGER)
switch_event_disconnected(d) ==
    /\ daemons[d].phase \in {"handshake", "completed"}
    /\ daemons' = [daemons EXCEPT ![d].phase = "ending", ![d].list = <<>>, ![d].told = TellsManager(d),
                                  ![d].notices = IF TellsManager(d) THEN Append(@, "DISCONNECTED") ELSE @]
    /\ UNCHANGED <<efivars, dpid_table, manager_up, manager_list, socket, pid_file, snapshots>>

(* finalize_trema unlinks the socket and the pid file of the name,           *)
(* whoever they belong to by now.                                            *)
Ended(d, phase) ==
    daemons' = [daemons EXCEPT ![d].phase = phase, ![d].asked = "no", ![d].list = <<>>,
                               ![d].registered = FALSE, ![d].alone = TRUE]
DaemonEnds(d) ==
    LET Unlinked(file) == [n \in Dpids |-> IF n = daemons[d].dpid THEN 0 ELSE file[n]]
    IN  /\ daemons[d].phase = "ending" /\ Ended(d, "gone")
        /\ socket' = Unlinked(socket) /\ pid_file' = Unlinked(pid_file)
        /\ UNCHANGED <<efivars, dpid_table, manager_up, manager_list, snapshots>>

(* A daemon that is killed leaves its files; what it wrote still arrives.    *)
Killed(d) ==
    /\ Running(d) /\ Ended(d, "gone")
    /\ UNCHANGED <<efivars, dpid_table, manager_up, manager_list, socket, pid_file, snapshots>>

(* management_recv of a daemon: the entry operations.  What was sent to the  *)
(* name waits for a daemon that has it.                                      *)
daemon_management_recv(d) ==
    LET dpid == daemons[d].dpid
        request == Head(efi_out[dpid])
        list == management_event_forward_entry_operation(daemons[d].list, request)
    IN  /\ daemons[d].phase = "completed" /\ efi_out[dpid] # <<>> /\ ~EntryOperationDies(daemons[d].list, request)
        /\ efi_out' = [efi_out EXCEPT ![dpid] = Tail(@)]
        /\ daemons' = [daemons EXCEPT ![d].list = list]
        /\ efi_in' = efi_in \cup {create_event_forward_operation_reply(request, dpid, list)}
        /\ UNCHANGED <<operations, efi_timers, dpid_table, manager_up, manager_list, socket, pid_file, snapshots>>

(* A daemon, too, dies of an entry operation on an empty list.               *)
DaemonDies(d) ==
    /\ daemons[d].phase = "completed" /\ efi_out[daemons[d].dpid] # <<>>
    /\ EntryOperationDies(daemons[d].list, Head(efi_out[daemons[d].dpid]))
    /\ Ended(d, "gone") /\ efi_out' = [efi_out EXCEPT ![daemons[d].dpid] = Tail(@)]
    /\ UNCHANGED <<operations, efi_in, efi_timers, dpid_table, manager_up, manager_list, socket, pid_file, snapshots>>

(* The manager and the daemons read what arrives; the application's loop     *)
(* reads replies and runs timers.  Nothing makes switches come or go.        *)
Replies == (\E r \in efi_in : handle_efi_reply(r)) /\ UNCHANGED managervars
Timeouts == (\E t \in efi_timers : _switch_response_timeout(t)) /\ UNCHANGED managervars
SwitchManagerFairness ==
    /\ WF_<<efivars, managervars>>(management_recv \/ ManagerDies)
    /\ \A d \in 1 .. MaxDaemons :
          /\ WF_<<efivars, managervars>>(d \in DOMAIN daemons /\ HandleNotice(d))
          /\ WF_<<efivars, managervars>>(d \in DOMAIN daemons /\ AnswerDaemon(d))
          /\ WF_<<efivars, managervars>>(d \in DOMAIN daemons /\ confirm_self_dpid_is_registerd(d))
    /\ WF_<<efivars, managervars>>(Replies)
    /\ WF_<<efivars, managervars>>(Timeouts)

SwitchManagerNext ==
    \/ EventForwardNext /\ UNCHANGED managervars
    \/ secure_channel_accept
    \/ management_recv
    \/ ManagerDies
    \/ \E d \in DOMAIN daemons :
          \/ HandleNotice(d)
          \/ AnswerDaemon(d)
          \/ confirm_self_dpid_is_registerd(d)
          \/ \E dpid \in Dpids : switch_event_recv_featuresreply(d, dpid)
          \/ switch_event_disconnected(d)
          \/ DaemonEnds(d)
          \/ Killed(d)
          \/ daemon_management_recv(d)
          \/ DaemonDies(d)

SwitchManagerSpec == SwitchManagerInit /\ [][SwitchManagerNext]_<<efivars, managervars>>

---------------------------------------------------------------------------
(* The controllers hear of a switch only when the manager lists it: they can *)
(* look it up, and an operation on all switches reaches it.  The switch that *)
(* came back while a notice of its older daemon was still on its way is the  *)
(* exception, for that notice may remove it again (handle_switch_            *)
(* disconnected, insert_dpid_entry).  Such a daemon is also found by its     *)
(* name: the socket and the pid file are its own.                            *)
ReadyIsListed ==
    \A d \in DOMAIN daemons : daemons[d].phase = "completed" /\ daemons[d].alone =>
        /\ daemons[d].registered => daemons[d].dpid \in dpid_table
        /\ socket[daemons[d].dpid] = d /\ pid_file[daemons[d].dpid] = d

(* The manager forgets a switch whose daemons are all gone, once it read     *)
(* their notices in whatever order, if those daemons had it among the        *)
(* services of state_notify and were not killed (delete_dpid_entry).         *)
GoneIsForgotten ==
    \A dpid \in dpid_table : \E d \in OfSwitch(dpid) :
        daemons[d].phase = "completed" \/ daemons[d].notices # <<>> \/ ~daemons[d].told

(* The list of switches holds connected switches only, once the notices were *)
(* read: "the datapath IDs of connected OpenFlow switches"                   *)
(* (ruby/trema/controller.rb).                                               *)
ListedIsConnected ==
    \A dpid \in dpid_table : \E d \in OfSwitch(dpid) :
        daemons[d].phase = "completed" \/ daemons[d].notices # <<>>

(* An operation on all switches that began after all others had ended and    *)
(* reported success is in force in the manager and in every daemon of a      *)
(* connected switch, also in those that were forked since.  Missed is only a *)
(* daemon that was forked before the manager applied it and was not listed   *)
(* when the list was read, or whose switch answers through another daemon    *)
(* too.                                                                      *)
InForce(o, list) == (o.command = "ADD") = Contains(list, o.names[1])
SucceededIsInForce ==
    operations # <<>> =>
    LET op == Len(operations)
        o == operations[op]
    IN  o.calls = <<SUCCEEDED>> /\ o.to = "all" /\ o.quiet =>
        /\ InForce(o, manager_list)
        /\ \A d \in DOMAIN daemons :
              \/ InForce(o, daemons[d].list)
              \/ daemons[d].phase # "completed" \/ ~daemons[d].alone
              \/ d <= snapshots[op].forked /\ d \notin snapshots[op].listed

(* An operation on a list of services ends neither the manager nor a daemon: *)
(* it can "Add/Remove a controller on a running network setup"               *)
(* (features/switch_event/README.md), and a search of a list returns "NULL   *)
(* if it is not found" (find_list_custom).                                   *)
OperationsEndNobody ==
    /\ manager_up
    /\ \A d \in DOMAIN daemons : daemons[d].phase = "completed" /\ efi_out[daemons[d].dpid] # <<>> =>
          ~EntryOperationDies(daemons[d].list, Head(efi_out[daemons[d].dpid]))


(* An operation is answered although switches may never reply, for their     *)
(* timers end it (_switch_response_timeout).  Only the manager's end leaves  *)
(* one without answer: no timer covers the two requests to the manager.      *)
OperationIsAnswered ==
    \A op \in 1 .. MaxOperations :
        (op \in DOMAIN operations /\ operations[op].stage \in {"manager", "list", "switches"})
        ~> (op \in DOMAIN operations /\ (operations[op].stage = "ended" \/ ~manager_up))
=============================================================================
