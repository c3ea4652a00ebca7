--------------------------- MODULE MCSwitchDaemon ---------------------------
(* The switch daemon with a switch that sends every kind of message at any *)
(* time, and the switch manager with the daemons of a switch.  Each is     *)
(* explored on its own: which one is chosen by the initial state.          *)
EXTENDS SwitchDaemon

MCKinds == {"hello", "features_reply", "echo_reply", "error", "other", "bad"}

CONSTANTS Dpids, EventServices, MaxOperations, MaxDaemons,
          MaxTotal  \* bound on daemons and operations together

VARIABLES operations, efi_out, efi_in, efi_timers,
          dpid_table, manager_up, manager_list, daemons, socket, pid_file, snapshots

Manager == INSTANCE SwitchManager

VARIABLE exercised
managementvars == <<operations, efi_out, efi_in, efi_timers,
                    dpid_table, manager_up, manager_list, daemons, socket, pid_file, snapshots>>
allvars == <<exercised, vars, managementvars>>

MCInit ==
    /\ exercised \in {"daemon", "manager"}
    /\ Init /\ Manager!SwitchManagerInit
    /\ IF exercised = "daemon" THEN manager_list = <<>> ELSE ~sending

OfDaemon(A) == exercised = "daemon" /\ A /\ UNCHANGED <<exercised, managementvars>>
OfManager(A) ==
    /\ exercised = "manager" /\ A /\ Len(daemons') + Len(operations') <= MaxTotal
    /\ UNCHANGED <<exercised, vars>>

(* The loop runs the due timers before every pass, however many messages   *)
(* come, and goes on until it is told to stop, and the controllers read    *)
(* what they are sent.  (In the manager nothing that fairness is about is  *)
(* enabled while it is not explored.)                                      *)
FairSpec ==
    /\ MCInit /\ [][OfDaemon(Next) \/ OfManager(Manager!SwitchManagerNext)]_allvars
    /\ WF_allvars(OfDaemon(handle_messages_from_secure_channel))
    /\ SF_allvars(OfDaemon(TimeoutHello)) /\ SF_allvars(OfDaemon(TimeoutFeaturesReply))
    /\ SF_allvars(OfDaemon(echo_reply_timeout)) /\ SF_allvars(OfDaemon(echo_request_interval))
    /\ SF_allvars(OfDaemon(MessengerSends)) /\ SF_allvars(OfDaemon(FlushPass))
    /\ SF_allvars(OfDaemon(FlushReturns)) /\ SF_allvars(OfDaemon(LoopExits))
    /\ Manager!SwitchManagerFairness

(* What the daemon holds fits the state of its connection: queues exist    *)
(* while they are used, the timeout of the state and no other is pending,  *)
(* and READY and DISCONNECTED are told once.                               *)
DaemonFitsState == DaemonTypeOK /\ ChannelHasQueues /\ TimeoutsFitState /\ NoticesOnce

(* The daemon does not hang: the handshake ends, a switch that does not    *)
(* answer is given up, and a daemon whose switch left exits.               *)
DaemonProceeds ==
    exercised = "daemon" => HandshakeEnds /\ SilenceIsNoticed /\ EndsOnceDisconnected


(* Every operation on the services of switch events ends, although         *)
(* switches may never answer (event_forward_interface.c).                  *)
OperationIsAnswered == Manager!OperationIsAnswered
=============================================================================
