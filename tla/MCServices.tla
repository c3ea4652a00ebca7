----------------------------- MODULE MCServices -----------------------------
(* Instances of the services that processes offer each other, each explored  *)
(* on its own: which one is chosen by the initial state.                     *)
EXTENDS ControllerConnection, SwitchManager, SwitchEvents, Management, CaptureQueue, Tremashark

CONSTANT MaxTotal  \* bound on daemons and operations together

VARIABLE exercised
allvars == <<exercised, ccvars, efivars, managervars, switcheventvars, mgmtvars,
             capturevars, tremasharkvars>>
dumpvars == <<capturevars, tremasharkvars>>

MCLevels == [warn |-> 4, WARNING |-> 4, debug |-> 7]
Switches == Permutations(Dpids)

Init ==
    /\ exercised \in {"connection", "manager", "events", "management",
                     "capture", "dump", "stdin"}
    /\ ConnectionInit /\ SwitchEventsInit
    /\ CaptureInit /\ TremasharkInit
    /\ exercised # "stdin" => typed = <<>>
    /\ exercised # "dump" => ~output_to_pcap_file /\ trust_remote_clocks
    /\ IF exercised = "management" THEN ManagementInit ELSE ManagementInit /\ level = LOG_INFO
    /\ IF exercised = "manager" THEN SwitchManagerInit ELSE SwitchManagerInit /\ manager_list = <<>>

Connection ==
    /\ exercised = "connection" /\ ConnectionNext
    /\ UNCHANGED <<exercised, efivars, managervars, switcheventvars, mgmtvars, dumpvars>>
TheManager ==
    /\ exercised = "manager" /\ SwitchManagerNext /\ Len(daemons') + Len(operations') <= MaxTotal
    /\ UNCHANGED <<exercised, ccvars, switcheventvars, mgmtvars, dumpvars>>
Events ==
    /\ exercised = "events" /\ SwitchEventsNext
    /\ UNCHANGED <<exercised, ccvars, efivars, managervars, mgmtvars, dumpvars>>
TheManagement ==
    /\ exercised = "management" /\ ManagementNext
    /\ UNCHANGED <<exercised, ccvars, efivars, managervars, switcheventvars, dumpvars>>

Capture ==
    /\ exercised = "capture" /\ CaptureNext
    /\ UNCHANGED <<exercised, ccvars, efivars, managervars, switcheventvars, mgmtvars, tremasharkvars>>
Dump ==
    /\ \/ exercised = "dump" /\ TremasharkNext
       \/ exercised = "stdin" /\ StdinNext
    /\ UNCHANGED <<exercised, ccvars, efivars, managervars, switcheventvars, mgmtvars, capturevars>>

Next == Connection \/ TheManager \/ Events \/ TheManagement \/ Capture \/ Dump
Spec == Init /\ [][Next]_allvars

(* The services keep what they promise: the switch keeps connecting and      *)
(* handles messages whole.                                                   *)
ConnectionWorks == ConnectionKeepsGoing /\ HandledWhole


(* An operation on the services of switch events is answered once, and what  *)
(* it reported to have done is in force.                                     *)
OperationsAreTrue == OneAnswer /\ SucceededIsInForce

(* Messages and lists that the application gets fit the switch's connections. *)
EventsFitConnections == MessagesMeetTheirConnection /\ (exercised = "events" => SwitchListIsSorted)

=============================================================================
