---------------------------- MODULE EventForward ----------------------------
(* event_forward_interface.c: the requests that change which services the    *)
(* switch manager and the switch daemons forward events to, and the          *)
(* transactions that change it everywhere: first in the manager, then in the *)
(* switches that the manager lists, each with a timeout of its own.          *)
(* event_forward_entry_manipulation.c is what the servers do with a list.    *)
(*                                                                           *)
(* A request is known by the operation it belongs to; operations on all      *)
(* switches take their number as transaction id.                             *)
EXTENDS LinkedList, FiniteSets, TLC

CONSTANTS
    Dpids,         \* datapath ids
    EventServices, \* names of services
    MaxOperations  \* bound on the operations of the application

Manager == "switch_manager.m"
SUCCEEDED == "SUCCEEDED"
FAILED == "FAILED"

VARIABLES
    operations,  \* the operations so far: [command, names, valid, to,
                 \* stage, waiting, result, calls, quiet]
    efi_out,     \* server -> the requests on their way to it
    efi_in,      \* the replies on their way back
    efi_timers   \* armed timers of _switch_response_timeout: <<operation, dpid>>

efivars == <<operations, efi_out, efi_in, efi_timers>>

EventForwardInit ==
    /\ operations = <<>> /\ efi_in = {} /\ efi_timers = {}
    /\ efi_out = [s \in {Manager} \cup Dpids |-> <<>>]

---------------------------------------------------------------------------
(* What the servers do with a list of service names.                         *)

(* Only the first name counts, and a name is not added twice.                *)
management_event_forward_entry_add(list, names) ==
    IF names = <<>> \/ find_list_custom(list, {names[1]}) # <<>> THEN list
    ELSE append_to_tail(list, names[1])

management_event_forward_entry_delete(list, names) ==
    IF names = <<>> THEN list ELSE delete_element(list, names[1])

management_event_forward_entries_set(list, names) == names

(* A type of event that does not exist is refused and changes nothing.       *)
management_event_forward_entry_operation(list, request) ==
    CASE ~request.valid -> list
      [] request.valid /\ request.command = "ADD" -> management_event_forward_entry_add(list, request.names)
      [] request.valid /\ request.command = "DELETE" -> management_event_forward_entry_delete(list, request.names)
      [] request.valid /\ request.command = "SET" -> management_event_forward_entries_set(list, request.names)
      [] OTHER -> list

(* find_list_custom does not take an empty list: adding to one, or deleting  *)
(* from one, ends the server.                                                *)
EntryOperationDies(list, request) ==
    request.valid /\ request.command \in {"ADD", "DELETE"} /\ request.names # <<>> /\ list = <<>>

create_event_forward_operation_reply(request, server, list) ==
    [op |-> request.op, from |-> server, command |-> request.command,
     result |-> IF request.valid THEN SUCCEEDED ELSE FAILED,
     services |-> IF request.valid THEN list ELSE <<>>, dpids |-> {}]

---------------------------------------------------------------------------
(* The library in the application's process.                                 *)

create_event_forward_operation_request(op, command, names, valid) ==
    [op |-> op, command |-> command, names |-> names, valid |-> valid]

Sent(out, server, request) == [out EXCEPT ![server] = Append(@, request)]
(* quiet is history: no earlier operation, nor request of one, was left.      *)
NewOperation(command, names, valid, to, stage) ==
    operations' = Append(operations,
        [command |-> command, names |-> names, valid |-> valid, to |-> to, stage |-> stage,
         waiting |-> {}, result |-> SUCCEEDED, calls |-> <<>>,
         quiet |-> /\ \A op \in DOMAIN operations : operations[op].stage = "ended"
                   /\ \A server \in DOMAIN efi_out : efi_out[server] = <<>>])

(* The operations of the low level API, on one server.  Nothing remains of   *)
(* one that cannot be sent.                                                  *)
send_efi_event_config_request(server, command, names, valid) ==
    LET op == Len(operations) + 1
    IN  /\ op <= MaxOperations
        /\ NewOperation(command, names, valid, server, "single")
        /\ efi_out' = Sent(efi_out, server, create_event_forward_operation_request(op, command, names, valid))
        /\ UNCHANGED <<efi_in, efi_timers>>

set_event_forward_entries(server, names) == send_efi_event_config_request(server, "SET", names, TRUE)
add_event_forward_entry(server, name) == send_efi_event_config_request(server, "ADD", <<name>>, TRUE)
delete_event_forward_entry(server, name) == send_efi_event_config_request(server, "DELETE", <<name>>, TRUE)
dump_event_forward_entries(server) == send_efi_event_config_request(server, "DUMP", <<>>, TRUE)

(* The high level API: the manager's entry comes first.                      *)
ToAllSwitches(command, name, valid) ==
    LET op == Len(operations) + 1
    IN  /\ op <= MaxOperations
        /\ NewOperation(command, <<name>>, valid, "all", "manager")
        /\ efi_out' = Sent(efi_out, Manager, create_event_forward_operation_request(op, command, <<name>>, valid))
        /\ UNCHANGED <<efi_in, efi_timers>>

add_event_forward_entry_to_all_switches(name, valid) == ToAllSwitches("ADD", name, valid)
delete_event_forward_entry_to_all_switches(name, valid) == ToAllSwitches("DELETE", name, valid)

(* The operation's callback is called, and what it kept is freed.            *)
Respond(o, result) ==
    [o EXCEPT !.stage = "ended", !.waiting = {}, !.result = result, !.calls = Append(@, result)]

(* A failure ends the transaction at once.                                   *)
check_tx_result_and_respond(o) == IF o.result = FAILED THEN Respond(o, FAILED) ELSE o

handle_event_forward_operation_reply(r) ==
    /\ operations' = [operations EXCEPT ![r.op] = Respond(@, r.result)]
    /\ UNCHANGED <<efi_out, efi_timers>>

_get_switch_list_after_swm_succ(r, sent) ==
    IF r.result = SUCCEEDED /\ sent
    THEN /\ operations' = [operations EXCEPT ![r.op].stage = "list"]
         /\ efi_out' = Sent(efi_out, Manager, create_event_forward_operation_request(r.op, "LIST", <<>>, TRUE))
         /\ UNCHANGED efi_timers
    ELSE /\ operations' = [operations EXCEPT ![r.op] = Respond(@, FAILED)]
         /\ UNCHANGED <<efi_out, efi_timers>>

(* The timers of the switches that are waited for (and the slip of adding    *)
(* none).                                                                    *)
NoTimers(op, dpids) == {}
TimersOf(op, dpids) == {op} \X dpids

(* Each listed switch gets a request and then a timer, and either may fail.  *)
(* A failure ends the transaction, but only after all switches were tried; a *)
(* switch without a timer is not waited for.                                 *)
_dispatch_to_all_switch(r, outcome) ==
    LET o == operations[r.op]
        reached == {s \in r.dpids : outcome[s] # "unsent"}
        timed == {s \in r.dpids : outcome[s] = "timed"}
        tx == [o EXCEPT !.stage = "switches", !.waiting = timed,
                        !.result = IF timed = r.dpids THEN SUCCEEDED ELSE FAILED]
        request == create_event_forward_operation_request(r.op, o.command, o.names, o.valid)
    IN  /\ operations' = [operations EXCEPT ![r.op] =
                             IF r.dpids = {} THEN Respond(tx, tx.result) ELSE check_tx_result_and_respond(tx)]
        /\ efi_out' = [s \in DOMAIN efi_out |-> IF s \in reached THEN Append(efi_out[s], request) ELSE efi_out[s]]
        /\ efi_timers' = efi_timers \cup TimersOf(r.op, timed)

(* A transaction that ended does not wait for anyone any more.               *)
LateReplyCounts(o, dpid) == o.stage \in {"switches", "ended"}
Awaited(o, dpid) == o.stage = "switches" /\ dpid \in o.waiting

_switch_response_handler(r) ==
    LET o == operations[r.op]
        tx == check_tx_result_and_respond(
                  [o EXCEPT !.waiting = @ \ {r.from}, !.result = IF r.result = FAILED THEN FAILED ELSE @])
    IN  /\ efi_timers' = efi_timers \ {<<r.op, r.from>>}
        /\ operations' = IF ~Awaited(o, r.from) THEN operations
                         ELSE [operations EXCEPT ![r.op] =
                                  IF tx.stage = "switches" /\ tx.waiting = {} THEN Respond(tx, tx.result) ELSE tx]
        /\ UNCHANGED efi_out

_switch_response_timeout(t) ==
    LET o == operations[t[1]]
    IN  /\ t \in efi_timers /\ efi_timers' = efi_timers \ {t}
        /\ operations' = IF ~Awaited(o, t[2]) THEN operations
                         ELSE [operations EXCEPT ![t[1]] =
                                  check_tx_result_and_respond([o EXCEPT !.waiting = @ \ {t[2]}, !.result = FAILED])]
        /\ UNCHANGED <<efi_out, efi_in>>

(* handle_efi_reply: by the command of the reply and what it was asked for.  *)
handle_efi_reply(r) ==
    /\ r \in efi_in /\ efi_in' = efi_in \ {r}
    /\ \/ r.from \in Dpids /\ operations[r.op].stage # "single" /\ _switch_response_handler(r)
       \/ operations[r.op].stage = "single" /\ handle_event_forward_operation_reply(r)
       \/ operations[r.op].stage = "manager" /\ \E sent \in BOOLEAN : _get_switch_list_after_swm_succ(r, sent)
       \/ operations[r.op].stage = "list" /\ 
          \E outcome \in [r.dpids -> {"unsent", "untimed", "timed"}] : _dispatch_to_all_switch(r, outcome)

EventForwardNext ==
    \/ \E name \in EventServices, valid \in BOOLEAN :
          \/ add_event_forward_entry_to_all_switches(name, valid)
          \/ delete_event_forward_entry_to_all_switches(name, valid)
    \/ \E server \in DOMAIN efi_out :
          \/ \E names \in {<<>>} \cup {<<s>> : s \in EventServices} : set_event_forward_entries(server, names)
          \/ \E name \in EventServices :
                add_event_forward_entry(server, name) \/ delete_event_forward_entry(server, name)
          \/ dump_event_forward_entries(server)
    \/ \E r \in efi_in : handle_efi_reply(r)
    \/ \E t \in efi_timers : _switch_response_timeout(t)

---------------------------------------------------------------------------
(* The application gets one answer to an operation and no second one,        *)
(* whatever late replies, timeouts and switches that could not be asked      *)
(* still come after it; and a transaction that waits for a switch has that   *)
(* switch's timer running, so that silence ends it.                          *)
OneAnswer ==
    \A op \in DOMAIN operations :
        LET o == operations[op]
        IN  /\ Len(o.calls) = IF o.stage = "ended" THEN 1 ELSE 0
            /\ o.stage = "switches" => /\ o.waiting # {} /\ o.result = SUCCEEDED
                                       /\ {op} \X o.waiting \subseteq efi_timers
=============================================================================
