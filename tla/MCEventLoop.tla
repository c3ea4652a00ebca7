---------------------------- MODULE MCEventLoop -----------------------------
(* The event loop of a process, with a signal that asks it to stop, and the  *)
(* secure channel whose callbacks it runs.  Each is explored on its own:     *)
(* which one is chosen by the initial state.                                 *)
EXTENDS EventHandler, SecureChannel

MCLengths == 1 .. 3

VARIABLE exercised
allvars == <<exercised, loopvars, channelvars>>

Init == exercised \in {"loop", "channel"} /\ init_event_handler /\ ChannelInit

OfLoop(A) == exercised = "loop" /\ A /\ UNCHANGED <<exercised, channelvars>>
OfChannel(A) == exercised = "channel" /\ A /\ UNCHANGED <<exercised, loopvars>>

(* The two directions of the channel share only that it is open: it is       *)
(* enough that one of them is used.                                          *)
OneDirection == accepted' = <<>> \/ emitted' = <<>>

Spec == Init /\ [][OfLoop(EventHandlerNext) \/ OfChannel(ChannelNext /\ OneDirection)]_allvars

(* The process is scheduled, callbacks return, however often they flush, and *)
(* select is not interrupted by a signal for ever; a socket that stays       *)
(* writable takes bytes in the end.                                          *)
FairSpec ==
    /\ Spec
    /\ SF_allvars(OfLoop(run_external_callback))
    /\ SF_allvars(OfLoop(SelectReady \/ SelectTimesOut))
    /\ WF_allvars(OfLoop(CallWrite)) /\ WF_allvars(OfLoop(CallRead))
    /\ SF_allvars(OfLoop(CallbackReturns)) /\ WF_allvars(OfLoop(Advance))
    /\ SF_allvars(OfChannel(flush_secure_channel))


(* Neither direction of the secure channel loses, repeats or reorders a      *)
(* byte, wherever reads, writes and messages end.                            *)
StreamsKept == ChannelTypeOK /\ BytesInOrder /\ MessagesInOrder
=============================================================================
