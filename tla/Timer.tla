------------------------------- MODULE Timer -------------------------------
(***************************************************************************)
(* The timer list of a Trema process (src/lib/timer.c).                    *)
(*                                                                         *)
(* timer_callbacks is a list sorted by expiry.  execute_timer_events walks *)
(* it with a cursor it has read before it calls a callback, while the      *)
(* callback may add and delete timers, its own included.  Elements are     *)
(* identified by `id', as the code identifies them by address; a deleted   *)
(* element stays in the list, with no function, until the walk reaches it. *)
(***************************************************************************)
EXTENDS Integers, Sequences, FiniteSets

CONSTANTS Callbacks,  \* pairs of a timer function and its user_data
          Intervals,  \* intervals of periodic timers (0: one-shot) ...
          Values,     \* ... and initial expirations, in clock ticks
          MaxId,      \* ids of list elements are 1 .. MaxId
          MaxClock,   \* the clock stops here
          MaxTimeout, \* the longest select timeout, INT_MAX / 1000000
          NoFunction  \* function = NULL

ASSUME TimerConstants ==
  /\ Intervals \subseteq Nat /\ Values \subseteq Nat
  /\ MaxId \in Nat /\ MaxClock \in Nat /\ MaxTimeout \in Nat
  /\ NoFunction \notin Callbacks

VARIABLES
  clock,            \* CLOCK_MONOTONIC
  timer_callbacks,  \* the list
  now,              \* the clock as execute_timer_events read it
  element,          \* id of the element being executed, 0 if none
  element_next,     \* id of the element to visit next, 0 for NULL
  timer_pc,         \* "loop" (the rest of the main loop), "walk", "callback"
  next_timeout,     \* result of the last walk
  cancelled         \* ids for which delete_timer_event returned true

timervars == <<clock, timer_callbacks, now, element, element_next, timer_pc,
          next_timeout, cancelled>>

Ids == {timer_callbacks[i].id : i \in DOMAIN timer_callbacks}
At(id) == CHOOSE i \in DOMAIN timer_callbacks : timer_callbacks[i].id = id
Live(cb) == cb.function # NoFunction

init_timer ==
  /\ clock = 1 /\ now = 1
  /\ timer_callbacks = <<>>
  /\ element = 0 /\ element_next = 0
  /\ timer_pc = "loop"
  /\ next_timeout = 0
  /\ cancelled = {}

-----------------------------------------------------------------------------
InsertAt(list, i, cb) == SubSeq(list, 1, i - 1) \o <<cb>> \o SubSeq(list, i, Len(list))
Without(list, i) == SubSeq(list, 1, i - 1) \o SubSeq(list, i + 1, Len(list))

\* Mutant of insert_timer_callback: always at the end of the list.
InsertLast(list, cb) == Append(list, cb)

\* Before the first element that expires later.
insert_timer_callback(list, cb) ==
  LET later == {i \in DOMAIN list : cb.expires_at < list[i].expires_at}
  IN IF later = {} THEN Append(list, cb)
     ELSE InsertAt(list, CHOOSE i \in later : \A j \in later : i <= j, cb)

\* Any code of the process may call it: a timer callback or the main loop.
add_timer_event_callback(callback, value, interval) ==
  /\ timer_pc # "walk"
  /\ value # 0 \/ interval # 0
  /\ \E id \in 1 .. MaxId :
       /\ id \notin Ids /\ 1 .. id - 1 \subseteq Ids
       /\ timer_callbacks' =
            insert_timer_callback(timer_callbacks,
              [id |-> id, function |-> callback, interval |-> interval,
               expires_at |-> clock + IF value # 0 THEN value ELSE interval])
       /\ cancelled' = cancelled \ {id}
  /\ UNCHANGED <<clock, now, element, element_next, timer_pc, next_timeout>>

Deleted(cb) == [cb EXCEPT !.function = NoFunction, !.expires_at = 0, !.interval = 0]

\* Mutant of ListAfterDelete: the element is unlinked and freed at once.
Unlinked(i) == Without(timer_callbacks, i)

ListAfterDelete(i) == [timer_callbacks EXCEPT ![i] = Deleted(@)]

\* The first element with this function and user_data is marked.
delete_timer_event(callback) ==
  LET matching == {i \in DOMAIN timer_callbacks : timer_callbacks[i].function = callback}
  IN /\ timer_pc # "walk"
     /\ matching # {}
     /\ \E i \in matching :
          /\ \A j \in matching : i <= j
          /\ cancelled' = cancelled \cup {timer_callbacks[i].id}
          /\ timer_callbacks' = ListAfterDelete(i)
     /\ UNCHANGED <<clock, now, element, element_next, timer_pc, next_timeout>>

-----------------------------------------------------------------------------
(* execute_timer_events.                                                    *)

IdAt(i) == IF i \in DOMAIN timer_callbacks THEN timer_callbacks[i].id ELSE 0

StartWalk ==
  /\ timer_pc = "loop"
  /\ now' = clock
  /\ element_next' = IdAt(1)
  /\ timer_pc' = "walk"
  /\ UNCHANGED <<clock, timer_callbacks, element, next_timeout, cancelled>>

\* Mutant of Due: a timer that expires in the next tick is due.
DueEarly(cb) == cb.expires_at <= now + 1

Due(cb) == cb.expires_at <= now

\* The next element is live and due: on_timer calls its function.
CallFunction ==
  /\ timer_pc = "walk" /\ element_next # 0
  /\ Live(timer_callbacks[At(element_next)])
  /\ Due(timer_callbacks[At(element_next)])
  /\ element' = element_next
  /\ element_next' = IdAt(At(element_next) + 1)
  /\ timer_pc' = "callback"
  /\ UNCHANGED <<clock, timer_callbacks, now, next_timeout, cancelled>>

\* The next element was deleted: it is unlinked and freed.
DropDeleted ==
  /\ timer_pc = "walk" /\ element_next # 0
  /\ ~Live(timer_callbacks[At(element_next)])
  /\ element_next' = IdAt(At(element_next) + 1)
  /\ timer_callbacks' = Without(timer_callbacks, At(element_next))
  /\ UNCHANGED <<clock, now, element, timer_pc, next_timeout, cancelled>>

\* A late periodic timer is not allowed to fall behind.
NextExpiry(cb) ==
  IF cb.expires_at + cb.interval < now THEN now ELSE cb.expires_at + cb.interval

\* The function returns: the rest of on_timer, and the element is freed, or
\* put back into the list if it is periodic and was not deleted meanwhile.
FunctionReturns ==
  LET cb == timer_callbacks[At(element)]
      rest == Without(timer_callbacks, At(element))
  IN /\ timer_pc = "callback"
     /\ timer_callbacks' =
          IF Live(cb) /\ cb.interval # 0
          THEN insert_timer_callback(rest, [cb EXCEPT !.expires_at = NextExpiry(cb)])
          ELSE rest
     /\ element' = 0
     /\ timer_pc' = "walk"
     /\ UNCHANGED <<clock, now, element_next, next_timeout, cancelled>>

\* Mutant of SelectTimeout: measured from the expiry of the last element.
SelectTimeoutOfLast ==
  IF timer_callbacks = <<>> THEN MaxTimeout
  ELSE LET left == timer_callbacks[Len(timer_callbacks)].expires_at - now
       IN IF left < 0 THEN 0 ELSE IF left < MaxTimeout THEN left ELSE MaxTimeout

\* Mutant of SelectTimeout: a timer that is overdue, or deleted, gives a
\* negative timeout.
SelectTimeoutUnclamped ==
  IF timer_callbacks = <<>> THEN MaxTimeout
  ELSE LET left == timer_callbacks[1].expires_at - now
       IN IF left < MaxTimeout THEN left ELSE MaxTimeout

SelectTimeout ==
  IF timer_callbacks = <<>> THEN MaxTimeout
  ELSE LET left == timer_callbacks[1].expires_at - now
       IN IF left < 0 THEN 0 ELSE IF left < MaxTimeout THEN left ELSE MaxTimeout

\* The end of the list, or a live element that is not due.
EndWalk ==
  /\ timer_pc = "walk"
  /\ element_next # 0 => /\ Live(timer_callbacks[At(element_next)])
                         /\ ~Due(timer_callbacks[At(element_next)])
  /\ next_timeout' = SelectTimeout
  /\ element_next' = 0
  /\ timer_pc' = "loop"
  /\ UNCHANGED <<clock, timer_callbacks, now, element, cancelled>>

Tick ==
  /\ clock < MaxClock
  /\ clock' = clock + 1
  /\ UNCHANGED <<timer_callbacks, now, element, element_next, timer_pc, next_timeout,
                 cancelled>>

TimerNext ==
  \/ \E callback \in Callbacks, value \in Values, interval \in Intervals :
       add_timer_event_callback(callback, value, interval)
  \/ \E callback \in Callbacks : delete_timer_event(callback)
  \/ StartWalk \/ CallFunction \/ DropDeleted \/ FunctionReturns \/ EndWalk
  \/ Tick

TimerSpec == init_timer /\ [][TimerNext]_timervars

-----------------------------------------------------------------------------
TimerTypeOK ==
  /\ clock \in 1 .. MaxClock /\ now \in 1 .. clock
  /\ \A i \in DOMAIN timer_callbacks :
       timer_callbacks[i] \in [id : 1 .. MaxId, function : Callbacks \cup {NoFunction},
                               interval : Nat, expires_at : Nat]
  /\ \A i, j \in DOMAIN timer_callbacks :
       timer_callbacks[i].id = timer_callbacks[j].id => i = j
  /\ timer_pc \in {"loop", "walk", "callback"}
  /\ next_timeout \in 0 .. MaxTimeout
  /\ cancelled \subseteq 1 .. MaxId

(***************************************************************************)
(* The cursors of execute_timer_events never dangle: the element whose     *)
(* function is running and the one saved to be visited next are in the     *)
(* list, whatever the running function deletes.                            *)
(***************************************************************************)
CursorInList ==
  /\ element # 0 => element \in Ids
  /\ element_next # 0 => element_next \in Ids

(***************************************************************************)
(* The live timers are in order of expiry at every moment a callback can   *)
(* observe, deleted elements between them notwithstanding; the walk relies *)
(* on it when it stops at the first timer that is not due.                 *)
(***************************************************************************)
LiveSorted ==
  \A i, j \in DOMAIN timer_callbacks :
    i < j /\ Live(timer_callbacks[i]) /\ Live(timer_callbacks[j])
      => timer_callbacks[i].expires_at <= timer_callbacks[j].expires_at

(***************************************************************************)
(* A walk leaves nothing behind that was due when it started, and the      *)
(* timeout it returns lets select sleep no longer than until the next      *)
(* live timer expires.                                                     *)
(***************************************************************************)
WalkLeavesNothingDue ==
  [][EndWalk => \A i \in DOMAIN timer_callbacks :
       Live(timer_callbacks[i])
         => /\ timer_callbacks[i].expires_at >= now
            /\ next_timeout' <= timer_callbacks[i].expires_at - now]_timervars

(***************************************************************************)
(* A timer function is not called before its time, nor in an order other   *)
(* than that of the expiries, nor after delete_timer_event has returned    *)
(* true for it.                                                            *)
(***************************************************************************)
CalledInTime ==
  [][CallFunction =>
       LET cb == timer_callbacks[At(element_next)]
       IN /\ cb.expires_at <= clock
          /\ cb.id \notin cancelled
          /\ \A i \in DOMAIN timer_callbacks :
               Live(timer_callbacks[i]) => cb.expires_at <= timer_callbacks[i].expires_at]_timervars

(***************************************************************************)
(* Every timer that expires while the clock runs is called or deleted:     *)
(* no insertion in front of it and no late periodic timer, put back in at  *)
(* `now', makes execute_timer_events miss it.                              *)
(***************************************************************************)
TimerFires ==
  \A id \in 1 .. MaxId :
    (\E i \in DOMAIN timer_callbacks :
       /\ timer_callbacks[i].id = id /\ Live(timer_callbacks[i])
       /\ timer_callbacks[i].expires_at <= MaxClock)
      ~> (element = id \/ id \notin Ids \/ ~Live(timer_callbacks[At(id)]))
=============================================================================
