------------------------------- MODULE MCIpc --------------------------------
(* What the processes of one machine share and exchange: the event loop of  *)
(* a process with callbacks that run nested passes, a sender and a service  *)
(* that exchange messages, the contexts of requests, and the files that     *)
(* processes find each other by.  Each is explored on its own: which one is *)
(* chosen by the initial state.                                             *)
EXTENDS EventHandler, Messenger, RequestContexts, LifeCycle

VARIABLE exercised
allvars == <<exercised, loopvars, messengervars, requestvars, lifevars>>

MCCallbackTypes == [a |-> "REPLY", b |-> "NOTIFY"]
MCPidLength(pid) == IF pid < 10 THEN 1 ELSE 2

Init ==
  /\ exercised \in {"loop", "messenger", "requests", "processes"}
  /\ init_event_handler /\ RequestsInit /\ LifeCycleInit
  /\ IF exercised = "messenger" THEN MessengerInit ELSE MessengerInit /\ up

TheLoop == exercised = "loop" /\ EventHandlerNext
           /\ UNCHANGED <<exercised, messengervars, requestvars, lifevars>>
TheMessenger == exercised = "messenger" /\ MessengerNext
                /\ UNCHANGED <<exercised, loopvars, requestvars, lifevars>>
TheRequests == exercised = "requests" /\ RequestsNext
               /\ UNCHANGED <<exercised, loopvars, messengervars, lifevars>>
TheProcesses == exercised = "processes" /\ LifeCycleNext
                /\ UNCHANGED <<exercised, loopvars, messengervars, requestvars>>

Spec == Init /\ [][TheLoop \/ TheMessenger \/ TheRequests \/ TheProcesses]_allvars

(* The three tables of the loop describe one set of handlers, whatever      *)
(* callbacks add and delete while a pass is under way.                      *)
HandlersAgree == TypeOK /\ TablesAgree

(* Messages of one connection are delivered whole and in the order in which *)
(* they were sent; only a connection that the receive side had not read to  *)
(* its end when the next one was accepted can be overtaken (on_accept).     *)
DeliveredAsSent == DeliveredInOrder /\ DeliveredWhole

=============================================================================
