----------------------------- MODULE MCDelivery -----------------------------
(* What makes messages move: a send queue whose service exits and comes      *)
(* back, and the timers of a process.  Each is explored on its own: which    *)
(* one is chosen by the initial state.                                       *)
EXTENDS Messenger, Timer

VARIABLE exercised
allvars == <<exercised, messengervars, timervars>>

Init ==
    /\ exercised \in {"messenger", "timers"} /\ init_timer
    /\ IF exercised = "messenger" THEN MessengerInit ELSE MessengerInit /\ up

OfMessenger(A) == exercised = "messenger" /\ A /\ UNCHANGED <<exercised, timervars>>
OfTimers(A) == exercised = "timers" /\ A /\ UNCHANGED <<exercised, messengervars>>

Spec == Init /\ [][OfMessenger(MessengerNext) \/ OfTimers(TimerNext)]_allvars

(* Both event loops run, the reconnect timer fires, and a service that       *)
(* exited is started again; the main loop walks the timers, their functions  *)
(* return and time passes.                                                   *)
FairSpec ==
    /\ Spec
    /\ WF_allvars(OfMessenger(send_queue_connect_timeout \/ on_send_write \/ on_send_read))
    /\ WF_allvars(OfMessenger(create_receive_queue))
    /\ WF_allvars(OfMessenger(\E c \in ConnectionIds : on_accept(c) \/ on_recv(c)))
    /\ WF_allvars(OfTimers(StartWalk)) /\ WF_allvars(OfTimers(CallFunction))
    /\ WF_allvars(OfTimers(DropDeleted)) /\ WF_allvars(OfTimers(FunctionReturns))
    /\ WF_allvars(OfTimers(EndWalk)) /\ WF_allvars(OfTimers(Tick))

(* The timers that are walked are there and in order of expiry, none that    *)
(* was deleted or is not due is called, none that is due is left behind by a *)
(* walk, and select sleeps no longer than until the next one.                *)
TimersInTime ==
    /\ [](TimerTypeOK /\ CursorInList /\ LiveSorted)
    /\ WalkLeavesNothingDue /\ CalledInTime
=============================================================================
