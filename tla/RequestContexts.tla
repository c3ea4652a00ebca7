-------------------------- MODULE RequestContexts --------------------------
(* messenger.c: requests and their replies.  A request leaves a context      *)
(* under a transaction id, and the reply finds the caller's user data        *)
(* through it.  Contexts age: a periodic timer removes those whose life is   *)
(* over.  Ids have IdWidth bits and wrap.  The callbacks of a service sit in *)
(* its receive queue, which a rename moves to another name.                  *)
EXTENDS Integers, Sequences, SequencesExt, FiniteSets, TLC

CONSTANTS
    IdWidth,         \* bits of a transaction id (32)
    LifeCount,       \* context->life_count of a new context (10)
    MaxRequests,     \* bound on the requests
    ServiceNames,    \* names of the caller's services
    CallbackTypes    \* [callback -> message type] of the callbacks that may be added

VARIABLES
    last_transaction_id,
    context_db,      \* transaction id -> [life_count, user_data]
    requests,        \* the requests sent: [id, from, at, calls, aged, replaced]
    receive_queues   \* service name -> its callbacks

requestvars == <<last_transaction_id, context_db, requests, receive_queues>>

RequestsInit ==
    /\ last_transaction_id = 0 /\ context_db = <<>> /\ requests = <<>> /\ receive_queues = <<>>

Without(db, ids) == [id \in DOMAIN db \ ids |-> db[id]]

(* An old context under the id is deleted by its id, and the new one with    *)
(* it.                                                                       *)
OldContextStays(id, user_data) ==
    context_db' = context_db @@ (id :> [life_count |-> LifeCount, user_data |-> user_data])
insert_context(id, user_data) ==
    context_db' = IF id \in DOMAIN context_db THEN Without(context_db, {id})
                  ELSE context_db @@ (id :> [life_count |-> LifeCount, user_data |-> user_data])

(* The context is there before the message is queued, and stays if it cannot *)
(* be.  History: calls are the replies that the request's callback got, aged *)
(* says that its context died of age, replaced that its id was taken again,  *)
(* or still had a context or a reply to come when it took it.                *)
_send_request_message(name, sent) ==
    LET id == (last_transaction_id + 1) % 2^IdWidth
        r == Len(requests) + 1
    IN  /\ r <= MaxRequests
        /\ last_transaction_id' = id /\ insert_context(id, r)
        /\ requests' = Append([e \in DOMAIN requests |->
                                  [requests[e] EXCEPT !.replaced = @ \/ requests[e].id = id]],
               [id |-> id, from |-> name, at |-> IF sent THEN "server" ELSE "lost",
                calls |-> <<>>, aged |-> FALSE,
                replaced |-> \/ id \in DOMAIN context_db
                             \/ \E e \in DOMAIN requests : requests[e].id = id /\ requests[e].at \in {"server", "back"}])
        /\ UNCHANGED receive_queues

(* The reply carries the id of the handle and nothing else of the request.   *)
_send_reply_message(r) ==
    /\ requests[r].at = "server" /\ requests' = [requests EXCEPT ![r].at = "back"]
    /\ UNCHANGED <<last_transaction_id, context_db, receive_queues>>

CallbacksOf(name, type) ==
    IF name \in DOMAIN receive_queues THEN SelectSeq(receive_queues[name], LAMBDA c : CallbackTypes[c] = type) ELSE <<>>

(* call_message_callbacks for a reply: the context found by the id decides   *)
(* whose user data the callback gets, and is deleted after it.               *)
get_context(id) == IF id \in DOMAIN context_db THEN {context_db[id].user_data} ELSE {}
call_message_callbacks(r) ==
    LET found == get_context(requests[r].id)
        heard == CallbacksOf(requests[r].from, "REPLY") # <<>>
    IN  /\ requests[r].at = "back"
        /\ requests' = [e \in DOMAIN requests |->
               [requests[e] EXCEPT !.at = IF e = r THEN (IF heard THEN "heard" ELSE "unheard") ELSE @,
                                   !.calls = IF heard /\ e \in found THEN Append(@, r) ELSE @]]
        /\ context_db' = IF heard THEN Without(context_db, {requests[r].id}) ELSE context_db
        /\ UNCHANGED <<last_transaction_id, receive_queues>>

(* age_context_db: each context loses one of its lives, and goes with the    *)
(* last.                                                                     *)
_age_context(context) == [context EXCEPT !.life_count = @ - 1]
age_context_db ==
    LET aged == [id \in DOMAIN context_db |-> _age_context(context_db[id])]
        over == {id \in DOMAIN aged : aged[id].life_count <= 0}
    IN  /\ context_db # <<>> /\ context_db' = Without(aged, over)
        /\ requests' = [r \in DOMAIN requests |->
               [requests[r] EXCEPT !.aged = @ \/ \E id \in over : context_db[id].user_data = r]]
        /\ UNCHANGED <<last_transaction_id, receive_queues>>

(* The callbacks of a name; the first of a name creates its receive queue.   *)
add_message_callback(name, c) ==
    /\ name \in DOMAIN receive_queues => c \notin Range(receive_queues[name])
    /\ receive_queues' = IF name \in DOMAIN receive_queues
                         THEN [receive_queues EXCEPT ![name] = <<c>> \o @]
                         ELSE receive_queues @@ (name :> <<c>>)
    /\ UNCHANGED <<last_transaction_id, context_db, requests>>

(* The queue goes with its last callback.                                    *)
delete_message_callback(name, c) ==
    /\ name \in DOMAIN receive_queues /\ c \in Range(receive_queues[name])
    /\ receive_queues' = IF receive_queues[name] = <<c>> THEN Without(receive_queues, {name})
                         ELSE [receive_queues EXCEPT ![name] = Remove(@, c)]
    /\ UNCHANGED <<last_transaction_id, context_db, requests>>

(* A rename adds the callbacks one by one, so that their order turns round,  *)
(* and then deletes the old queue: requests must carry the new name from     *)
(* then on.  It is refused if the new name has a queue.                      *)
rename_message_callback(old, new) ==
    /\ old \in DOMAIN receive_queues /\ new \notin DOMAIN receive_queues
    /\ receive_queues' = Without(receive_queues, {old}) @@ (new :> Reverse(receive_queues[old]))
    /\ UNCHANGED <<last_transaction_id, context_db, requests>>

RequestsNext ==
    \/ \E name \in ServiceNames, sent \in BOOLEAN : _send_request_message(name, sent)
    \/ \E r \in DOMAIN requests : _send_reply_message(r) \/ call_message_callbacks(r)
    \/ age_context_db
    \/ \E name \in ServiceNames, c \in DOMAIN CallbackTypes :
          add_message_callback(name, c) \/ delete_message_callback(name, c)
    \/ \E old, new \in ServiceNames : rename_message_callback(old, new)

---------------------------------------------------------------------------
(* A callback hears of its request once and gets the user data of no other:  *)
(* a reply that finds its service's callback is delivered unless the context *)
(* died of age, or the ids wrapped onto one that still waited, which loses   *)
(* both (insert_context).  Only a reply that comes after its context died    *)
(* and its id was taken again can meet a stranger's context.                 *)
ReplyMeetsItsRequest ==
    \A r \in DOMAIN requests :
        /\ Len(requests[r].calls) <= 1
        /\ requests[r].at = "heard" /\ ~requests[r].aged /\ ~requests[r].replaced => requests[r].calls = <<r>>
        /\ \A q \in Range(requests[r].calls) : q = r \/ (requests[q].aged /\ requests[r].replaced /\ q < r)
=============================================================================
