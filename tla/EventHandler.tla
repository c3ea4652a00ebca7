---------------------------- MODULE EventHandler ----------------------------
(***************************************************************************)
(* The select loop every Trema process runs (src/lib/event_handler.c).     *)
(*                                                                         *)
(* event_list is the array of registered handlers, event_fd_set the index  *)
(* from a descriptor to its slot (0 stands for NULL).  A callback may      *)
(* register and delete any handler, and may run the loop again inside      *)
(* itself: flush_messenger calls run_event_handler_once from the switch    *)
(* daemon's disconnect handler.  The four fd_sets are globals, so the      *)
(* inner pass overwrites what the outer pass is still iterating over;      *)
(* `frames' holds the locals of the passes that wait for an inner one.     *)
(***************************************************************************)
EXTENDS Integers, Sequences, FiniteSets

CONSTANTS MaxFd,     \* descriptors are 0 .. MaxFd (FD_SETSIZE - 1)
          MaxDepth,  \* how many passes may be nested in callbacks
          Writes,    \* whether handlers are registered with a write callback
          Requests,  \* what signal handlers and callbacks request of the loop
          NoEvent    \* current_event before a pass has read a slot

ASSUME EventHandlerConstants ==
  /\ MaxFd \in Nat /\ MaxDepth \in Nat
  /\ Writes \subseteq BOOLEAN
  /\ Requests \subseteq {"stop", "other"}

Fds == 0 .. MaxFd

\* A handler: its descriptor, whether it has a write callback, and which of
\* two successive registrations of the descriptor it is.
Handler == [fd : Fds, write : BOOLEAN, owner : {0, 1}]

VARIABLES
  event_list, event_fd_set, fd_set_size,
  event_read_set, event_write_set,      \* what the owners asked to watch
  current_read_set, current_write_set,  \* what select last reported
  external_callback,                    \* "none", "stop" or "other"
  stop,                                 \* EVENT_HANDLER_STOP
  pc, event_itr, current_event,         \* locals of the running pass
  frames,                               \* locals of the suspended passes
  owner,                                \* owner[fd]: last registration of fd
  reported_to,                          \* depth of the pass select last reported to
  pending                               \* descriptors with unread input

tables == <<event_list, event_fd_set, fd_set_size, owner>>
watches == <<event_read_set, event_write_set>>
results == <<current_read_set, current_write_set, reported_to>>
pass == <<pc, event_itr, current_event>>
loopvars == <<tables, watches, results, external_callback, stop, pass, frames,
          pending>>

Registered == {event_list[i].fd : i \in DOMAIN event_list}

\* event_itr->fd; a slot past event_last was vacated and holds -1.
SlotFd(i) == IF i \in DOMAIN event_list THEN event_list[i].fd ELSE -1

init_event_handler ==
  /\ event_list = <<>>
  /\ event_fd_set = [fd \in Fds |-> 0]
  /\ fd_set_size = 0
  /\ event_read_set = {} /\ event_write_set = {}
  /\ current_read_set = {} /\ current_write_set = {} /\ reported_to = 0
  /\ external_callback = "none"
  /\ stop = FALSE
  /\ pc = "idle" /\ event_itr = 1 /\ current_event = NoEvent
  /\ frames = <<>>
  /\ owner = [fd \in Fds |-> 0]
  /\ pending = {}

-----------------------------------------------------------------------------
(* The operations a callback may perform on the table.                      *)

\* Callbacks of descriptors, and of timers, which run between two passes.
InCallback == pc \in {"in_write", "in_read"} \/ (pc = "idle" /\ frames = <<>>)

set_fd_handler(fd, write) ==
  /\ event_fd_set[fd] = 0
  /\ owner' = [owner EXCEPT ![fd] = 1 - @]
  /\ event_list' =
       Append(event_list, [fd |-> fd, write |-> write, owner |-> owner'[fd]])
  /\ event_fd_set' = [event_fd_set EXCEPT ![fd] = Len(event_list')]
  /\ fd_set_size' = IF fd >= fd_set_size THEN fd + 1 ELSE fd_set_size
  /\ UNCHANGED <<watches, results>>

\* Mutant of SizeWithout: the highest descriptor left, not one more.
SizeOneShort(fd) ==
  LET rest == {i \in Fds : i <= fd_set_size - 2 /\ event_fd_set'[i] # 0}
  IN IF rest = {} THEN -1 ELSE CHOOSE i \in rest : \A j \in rest : j <= i

\* fd_set_size after fd, the highest descriptor, has been deleted.
SizeWithout(fd) ==
  LET rest == {i \in Fds : i <= fd_set_size - 2 /\ event_fd_set'[i] # 0}
  IN IF rest = {} THEN 0 ELSE 1 + CHOOSE i \in rest : \A j \in rest : j <= i

\* Mutant of IndexWithout: the moved handler keeps its old slot number.
IndexNotMoved(fd) == [event_fd_set EXCEPT ![fd] = 0]

IndexWithout(fd) ==
  LET last == event_list[Len(event_list)].fd
  IN IF last = fd THEN [event_fd_set EXCEPT ![fd] = 0]
                  ELSE [event_fd_set EXCEPT ![last] = event_fd_set[fd], ![fd] = 0]

\* Mutant of StillReported: what select reported is left alone.
ReportKept(set, fd) == set

\* FD_CLR on the sets of the running pass.
StillReported(set, fd) == set \ {fd}

\* The last handler moves into the slot that is freed.
delete_fd_handler(fd) ==
  /\ event_fd_set[fd] # 0
  /\ event_read_set' = event_read_set \ {fd}
  /\ event_write_set' = event_write_set \ {fd}
  /\ current_read_set' = StillReported(current_read_set, fd)
  /\ current_write_set' = StillReported(current_write_set, fd)
  /\ event_list' =
       SubSeq([event_list EXCEPT ![event_fd_set[fd]] = event_list[Len(event_list)]],
              1, Len(event_list) - 1)
  /\ event_fd_set' = IndexWithout(fd)
  /\ fd_set_size' = IF fd = fd_set_size - 1 THEN SizeWithout(fd) ELSE fd_set_size
  /\ UNCHANGED <<owner, reported_to>>

set_readable(fd, state) ==
  /\ event_fd_set[fd] # 0
  /\ IF state
     THEN /\ event_read_set' = event_read_set \cup {fd}
          /\ UNCHANGED current_read_set
     ELSE /\ event_read_set' = event_read_set \ {fd}
          /\ current_read_set' = StillReported(current_read_set, fd)
  /\ UNCHANGED <<tables, event_write_set, current_write_set, reported_to>>

set_writable(fd, state) ==
  /\ event_fd_set[fd] # 0
  /\ event_list[event_fd_set[fd]].write
  /\ IF state
     THEN /\ event_write_set' = event_write_set \cup {fd}
          /\ UNCHANGED current_write_set
     ELSE /\ event_write_set' = event_write_set \ {fd}
          /\ current_write_set' = StillReported(current_write_set, fd)
  /\ UNCHANGED <<tables, event_read_set, current_read_set, reported_to>>

Operation ==
  /\ InCallback
  /\ \E fd \in Fds :
       \/ \E write \in Writes :
            set_fd_handler(fd, write) /\ UNCHANGED pending
       \/ delete_fd_handler(fd) /\ pending' = pending \ {fd}
       \/ \E state \in BOOLEAN : set_readable(fd, state) /\ UNCHANGED pending
       \/ \E state \in BOOLEAN : set_writable(fd, state) /\ UNCHANGED pending
  /\ UNCHANGED <<external_callback, stop, pass, frames>>

-----------------------------------------------------------------------------
(* run_event_handler_once.                                                  *)


\* The pending external callback runs first.  Only the outermost loop, in
\* start_event_handler, looks at EVENT_HANDLER_STOP.
run_external_callback ==
  /\ pc = "idle"
  /\ frames = <<>> => ~stop
  /\ stop' = (stop \/ external_callback = "stop")
  /\ external_callback' = "none"
  /\ pc' = "select"
  /\ UNCHANGED <<tables, watches, results, event_itr, current_event, frames,
                 pending>>

\* The bits select looks at.
Watched(set) == {fd \in set : fd < fd_set_size}

SelectReady ==
  /\ pc = "select"
  /\ current_read_set' = Watched(event_read_set) \cap pending
  /\ reported_to' = Len(frames)
  /\ current_write_set' \in SUBSET Watched(event_write_set)
  /\ current_read_set' \cup current_write_set' # {}
  /\ pc' = "write" /\ event_itr' = 1 /\ current_event' = event_list[1]
  /\ UNCHANGED <<tables, watches, external_callback, stop, frames, pending>>

SelectTimesOut ==
  /\ pc = "select"
  /\ Watched(event_read_set) \cap pending = {}
  /\ current_read_set' = {} /\ current_write_set' = {} /\ reported_to' = Len(frames)
  /\ pc' = "idle"
  /\ UNCHANGED <<tables, watches, external_callback, stop, event_itr,
                 current_event, frames, pending>>

\* EINTR: select leaves the copies of the watched sets as they are.
SelectInterrupted ==
  /\ pc = "select"
  /\ current_read_set' = event_read_set
  /\ current_write_set' = event_write_set
  /\ reported_to' = Len(frames)
  /\ pc' = "idle"
  /\ UNCHANGED <<tables, watches, external_callback, stop, event_itr,
                 current_event, frames, pending>>

CallWrite ==
  /\ pc = "write"
  /\ pc' = IF current_event.fd \in current_write_set THEN "in_write" ELSE "read"
  /\ UNCHANGED <<tables, watches, results, external_callback, stop, event_itr,
                 current_event, frames, pending>>

CallRead ==
  /\ pc = "read"
  /\ IF current_event.fd \in current_read_set
     THEN pc' = "in_read" /\ pending' = pending \ {current_event.fd}
     ELSE pc' = "next" /\ UNCHANGED pending
  /\ UNCHANGED <<tables, watches, results, external_callback, stop, event_itr,
                 current_event, frames>>

CallbackReturns ==
  /\ pc \in {"in_write", "in_read"}
  /\ pc' = IF pc = "in_write" THEN "read" ELSE "next"
  /\ UNCHANGED <<tables, watches, results, external_callback, stop, event_itr,
                 current_event, frames, pending>>

\* A slot whose handler changed is looked at again.
NextSlot ==
  IF current_event.fd = SlotFd(event_itr) THEN event_itr + 1 ELSE event_itr

Advance ==
  /\ pc = "next"
  /\ IF NextSlot \in DOMAIN event_list
     THEN /\ pc' = "write" /\ event_itr' = NextSlot
          /\ current_event' = event_list[NextSlot]
     ELSE pc' = "idle" /\ event_itr' = 1 /\ current_event' = NoEvent
  /\ UNCHANGED <<tables, watches, results, external_callback, stop, frames,
                 pending>>

-----------------------------------------------------------------------------
(* Callers and environment.                                                 *)

\* A callback calls flush_messenger, which runs passes of its own ...
FlushBegins ==
  /\ InCallback
  /\ Len(frames) < MaxDepth
  /\ frames' = Append(frames, [pc |-> pc, itr |-> event_itr, event |-> current_event])
  /\ pc' = "idle" /\ event_itr' = 1 /\ current_event' = NoEvent
  /\ UNCHANGED <<tables, watches, results, external_callback, stop, pending>>

\* ... until no send queue has data left.
FlushEnds ==
  /\ pc = "idle"
  /\ frames # <<>>
  /\ LET top == frames[Len(frames)]
     IN pc' = top.pc /\ event_itr' = top.itr /\ current_event' = top.event
  /\ frames' = SubSeq(frames, 1, Len(frames) - 1)
  /\ UNCHANGED <<tables, watches, results, external_callback, stop, pending>>

\* A signal handler, at any time.  The slot holds one request.
set_external_callback(callback) ==
  /\ external_callback = "none"
  /\ external_callback' = callback
  /\ UNCHANGED <<tables, watches, results, stop, pass, frames, pending>>

stop_event_handler ==
  /\ "stop" \in Requests
  /\ InCallback
  /\ stop' = TRUE
  /\ UNCHANGED <<tables, watches, results, external_callback, pass, frames,
                 pending>>

InputArrives ==
  /\ \E fd \in Registered \ pending : pending' = pending \cup {fd}
  /\ UNCHANGED <<tables, watches, results, external_callback, stop, pass, frames>>

Loop == \/ run_external_callback \/ SelectReady \/ SelectTimesOut
        \/ CallWrite \/ CallRead \/ CallbackReturns \/ Advance \/ FlushEnds

EventHandlerNext ==
  \/ Loop \/ SelectInterrupted \/ Operation \/ FlushBegins
  \/ \E callback \in Requests : set_external_callback(callback)
  \/ stop_event_handler
  \/ InputArrives

EventHandlerSpec == init_event_handler /\ [][EventHandlerNext]_loopvars

-----------------------------------------------------------------------------
TypeOK ==
  /\ event_list \in Seq(Handler)
  /\ event_fd_set \in [Fds -> 0 .. MaxFd + 1]
  /\ fd_set_size \in 0 .. MaxFd + 1
  /\ event_read_set \subseteq Fds /\ event_write_set \subseteq Fds
  /\ current_read_set \subseteq Fds /\ current_write_set \subseteq Fds
  /\ external_callback \in {"none", "stop", "other"}
  /\ stop \in BOOLEAN
  /\ pc \in {"idle", "select", "write", "in_write", "read", "in_read", "next"}
  /\ event_itr \in 1 .. MaxFd + 2
  /\ current_event \in Handler \cup {NoEvent}
  /\ Len(frames) <= MaxDepth /\ reported_to \in 0 .. MaxDepth
  /\ owner \in [Fds -> {0, 1}]
  /\ pending \subseteq Fds

(***************************************************************************)
(* The array and the index agree: event_fd_set[fd] is the slot of fd's     *)
(* handler, no descriptor has two handlers, only registered descriptors    *)
(* are watched, and fd_set_size is just large enough for select to see     *)
(* all of them, whatever order delete_fd_handler's moves come in.          *)
(***************************************************************************)
TablesAgree ==
  /\ \A fd \in Fds :
       event_fd_set[fd] # 0 => /\ event_fd_set[fd] <= Len(event_list)
                               /\ event_list[event_fd_set[fd]].fd = fd
  /\ \A i \in DOMAIN event_list : event_fd_set[event_list[i].fd] = i
  /\ event_read_set \cup event_write_set \subseteq Registered
  /\ \A fd \in Registered : fd < fd_set_size
  /\ fd_set_size # 0 => fd_set_size - 1 \in Registered

(***************************************************************************)
(* When run_event_handler_once is about to call a callback of the handler  *)
(* it copied from the slot, that very registration is still in the table:  *)
(* the handler a callback deleted is not called for the rest of the pass,  *)
(* even if its descriptor has been closed, reused and registered again.    *)
(* Once a pass nested in a callback has refilled the sets the outer pass   *)
(* tests, the outer pass may take the new registration of a descriptor for *)
(* the old one, but never serves a descriptor that nobody has registered.  *)
(***************************************************************************)
OnlyRegisteredCalled ==
  \/ pc = "write" /\ current_event.fd \in current_write_set
  \/ pc = "read" /\ current_event.fd \in current_read_set
  => IF reported_to = Len(frames)
     THEN \E i \in DOMAIN event_list : event_list[i] = current_event
     ELSE current_event.fd \in Registered

(***************************************************************************)
(* No descriptor starves: input on a watched descriptor is read, or its    *)
(* owner stops watching it, or the loop is stopped, although deletions     *)
(* move the handler to slots the current pass has already left behind.     *)
(***************************************************************************)
InputIsRead ==
  \A fd \in Fds :
    fd \in pending /\ fd \in event_read_set
      ~> fd \notin pending \/ fd \notin event_read_set \/ stop

(***************************************************************************)
(* A request accepted by set_external_callback is run: a process that a    *)
(* signal asks to stop does stop, although the one slot is emptied before  *)
(* the callback is called and signals come at any time.                    *)
(***************************************************************************)
ExternalCallbackRuns == external_callback = "stop" ~> stop
=============================================================================
