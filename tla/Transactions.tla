---------------------------- MODULE Transactions ----------------------------
(***************************************************************************)
(* A switch daemon between its applications and its switch                 *)
(* (src/switch_manager/ofpmsg_send.c, ofpmsg_recv.c), composed of the      *)
(* transaction table and the cookie table.  Requests go to the switch      *)
(* under the daemon's own transaction id and cookie; what comes back is    *)
(* translated and handed to the application it belongs to.  The switch is  *)
(* external: an OpenFlow 1.0 switch, reached over two ordered channels.    *)
(*                                                                         *)
(* History: origin in a message is the request it answers (who, under      *)
(* which id, and at which insertion); owner and asked in a flow are the    *)
(* pair that set it up and whether it asked for a flow removed message.    *)
(* handed is what the last step handed to an application.                  *)
(***************************************************************************)
EXTENDS XidTable, CookieTable, Sequences, FiniteSets

CONSTANTS
    Regimes,     \* what the applications do, and how the daemon is set up
    Cookies,     \* cookies the applications choose
    MaxWire,     \* bound on a channel's length
    MaxOwn,      \* bound on the daemon's own requests
    NoOne,       \* no application
    Nothing      \* no message handed over

(* A regime: the kinds of request the applications send, the commands and  *)
(* matches of their flow_mods, how many requests they send (at most        *)
(* MaxInserts), and whether cookie aging is switched on.                   *)
Regime ==
    [requests : SUBSET {"stats", "barrier", "echo", "flow_mod"},
     commands : SUBSET {"ADD", "MODIFY", "DELETE"},
     matches : SUBSET {"m", "n"}, sends : 0 .. MaxInserts, aging : BOOLEAN]

ASSUME TransactionConstants ==
    /\ Regimes \subseteq Regime
    /\ Pairs = [service_name : Services, cookie : Cookies]
    /\ NoOne \notin Services

VARIABLES
    to_switch, from_switch,
    flows,       \* the switch: match -> flow
    running,     \* the daemon's event loop
    handed,      \* what the last step handed to an application
    regime

wireVars == <<to_switch, from_switch, flows>>
allVars == <<xidVars, cookieVars, wireVars, running, handed, regime>>

Init ==
    /\ XidInit
    /\ CookieInit
    /\ to_switch = <<>>
    /\ from_switch = <<>>
    /\ flows = [m \in {} |-> m]
    /\ running = TRUE
    /\ handed = Nothing
    /\ regime \in Regimes

Origin(o, s) == [service_name |-> s, original_xid |-> o, at |-> inserts]
Own == [service_name |-> NoOne, original_xid |-> NoOne, at |-> inserts]

-----------------------------------------------------------------------------
(* ofpmsg_send.c                                                           *)

(* The cookie a flow_mod leaves with, and what that does to the table.     *)
OutgoingCookie(command, p) ==
    IF command = "DELETE" /\ p \notin DOMAIN application THEN RESERVED_COOKIE ELSE InsertedCookie(p)

TakesReference(command, p) ==
    command = "ADD" \/ (command = "MODIFY" /\ p \notin DOMAIN application)

update_flowmod_cookie(command, p, flags) ==
    IF TakesReference(command, p) THEN insert_cookie_entry(p, flags) ELSE UNCHANGED cookieVars

Enqueue(type, origin, body) ==
    /\ Len(to_switch) < MaxWire
    /\ to_switch' = Append(to_switch, [type |-> type, xid |-> transaction_id',
                                       origin |-> origin, body |-> body])
    /\ handed' = Nothing
    /\ UNCHANGED <<from_switch, flows, running>>

ofpmsg_send(type, o, s) ==
    /\ running
    /\ insert_xid_entry(o, s)
    /\ Enqueue(type, Origin(o, s), Nothing)
    /\ UNCHANGED cookieVars

ofpmsg_send_flow_mod(o, p, command, m, flags) ==
    /\ running
    /\ insert_xid_entry(o, p.service_name)
    /\ update_flowmod_cookie(command, p, flags)
    /\ Enqueue("flow_mod", Origin(o, p.service_name),
               [command |-> command, match |-> m, cookie |-> OutgoingCookie(command, p),
                owner |-> p, asked |-> flags])

(* The daemon's own keep-alive.  It sends none before the last is answered *)
(* or the connection given up.                                             *)
ofpmsg_send_echorequest ==
    /\ running
    /\ transaction_id - inserts < MaxOwn
    /\ \A i \in DOMAIN to_switch : to_switch[i].origin.service_name # NoOne
    /\ \A i \in DOMAIN from_switch :
          from_switch[i].type = "echo_reply" => from_switch[i].origin.service_name # NoOne
    /\ GenerateOnly
    /\ Enqueue("echo", Own, Nothing)
    /\ UNCHANGED cookieVars

-----------------------------------------------------------------------------
(* The switch, external.  Every flow_mod it gets has OFPFF_SEND_FLOW_REM   *)
(* set.  The error that refuses a flow_mod quotes it when its type is      *)
(* OFPET_FLOW_MOD_FAILED; of any other error the quotation is not read.    *)

Reply(type, request, body) ==
    [type |-> type, xid |-> request.xid, origin |-> request.origin, body |-> body]
FlowOf(body) == [cookie |-> body.cookie, owner |-> body.owner, asked |-> body.asked]
Removed(flow) == [type |-> "flow_removed", xid |-> 0, origin |-> Own, body |-> flow]
Reported == {flows[m] : m \in DOMAIN flows}

SwitchSends(messages) ==
    /\ Len(from_switch) + Len(messages) <= MaxWire
    /\ from_switch' = from_switch \o messages
    /\ handed' = Nothing
    /\ UNCHANGED <<xidVars, cookieVars, running>>

(* An ADD replaces a flow of the same match and says nothing of it; a      *)
(* MODIFY leaves the cookie of such a flow, and adds one where there is    *)
(* none.                                                                   *)
SwitchSetsFlow(body) ==
    /\ body.command \in {"ADD", "MODIFY"}
    /\ flows' = IF body.command = "MODIFY" /\ body.match \in DOMAIN flows THEN flows
                ELSE With(flows, body.match, FlowOf(body))
    /\ SwitchSends(<<>>)

SwitchDeletesFlow(body) ==
    /\ body.command = "DELETE"
    /\ flows' = Without(flows, {body.match})
    /\ SwitchSends(IF body.match \in DOMAIN flows THEN <<Removed(flows[body.match])>> ELSE <<>>)

SwitchAnswers(request) ==
    /\ UNCHANGED flows
    /\ \/ request.type = "stats" /\ \E parts \in 1 .. 2 :
             SwitchSends([i \in 1 .. parts |->
                 Reply("stats_reply", request, [more |-> i < parts, flows |-> Reported])])
       \/ request.type = "barrier" /\ SwitchSends(<<Reply("barrier_reply", request, Nothing)>>)
       \/ request.type = "echo" /\ SwitchSends(<<Reply("echo_reply", request, Nothing)>>)
       \/ request.type # "echo" /\ \E body \in {request.body, Nothing} :
             SwitchSends(<<Reply("error", request, body)>>)

SwitchStep ==
    /\ to_switch # <<>>
    /\ to_switch' = Tail(to_switch)
    /\ LET request == Head(to_switch)
       IN  \/ SwitchAnswers(request)
           \/ request.type = "flow_mod" /\ SwitchSetsFlow(request.body)
           \/ request.type = "flow_mod" /\ SwitchDeletesFlow(request.body)

FlowExpires(m) ==
    /\ flows' = Without(flows, {m})
    /\ SwitchSends(<<Removed(flows[m])>>)
    /\ UNCHANGED to_switch

-----------------------------------------------------------------------------
(* ofpmsg_recv.c                                                           *)

HandOver(message, to, shown) ==
    handed' = [type |-> message.type, to |-> to, shown |-> shown,
               origin |-> message.origin, body |-> message.body]

(* The transaction id an answer carries back to the application.           *)
WireXid(entry) == entry.xid
TranslatedXid(entry) == entry.original_xid

send_transaction_reply(message) ==
    LET entry == lookup_xid_entry(hash, message.xid)
    IN  IF entry = NoEntry
        THEN HandOver(message, NoOne, NoOne) /\ UNCHANGED xidVars
        ELSE /\ HandOver(message, entry.service_name, TranslatedXid(entry))
             /\ delete_xid_entry(entry)

ofpmsg_recv_reply(message) ==
    /\ message.type \in {"barrier_reply", "echo_reply"}
    /\ send_transaction_reply(message)
    /\ UNCHANGED <<cookieVars, running>>

(* An error that answers a flow_mod gives back the reference an ADD took;  *)
(* one for a flow_mod under RESERVED_COOKIE is dropped, and its            *)
(* transaction stays in the table.                                         *)
ReturnsReference(body) == body.command = "ADD" /\ body.cookie \in DOMAIN global

ofpmsg_recv_error(message) ==
    /\ message.type = "error"
    /\ LET body == message.body
       IN  \/ /\ body = Nothing
              /\ send_transaction_reply(message)
              /\ UNCHANGED cookieVars
           \/ /\ body # Nothing /\ body.cookie = RESERVED_COOKIE
              /\ HandOver(message, NoOne, NoOne)
              /\ UNCHANGED <<xidVars, cookieVars>>
           \/ /\ body # Nothing /\ body.cookie # RESERVED_COOKIE
              /\ IF ReturnsReference(body) THEN delete_cookie_entry(global[body.cookie])
                                           ELSE UNCHANGED cookieVars
              /\ send_transaction_reply(message)
    /\ UNCHANGED running

(* A flow removed message goes to the application that owns the cookie,    *)
(* if the flags of the cookie's entry ask for it, and gives back a         *)
(* reference.                                                              *)
ofpmsg_recv_flowremoved(message) ==
    /\ message.type = "flow_removed"
    /\ LET cookie == message.body.cookie
       IN  IF cookie = RESERVED_COOKIE \/ cookie \notin DOMAIN global
           THEN HandOver(message, NoOne, NoOne) /\ UNCHANGED cookieVars
           ELSE LET p == global[cookie]
                IN  /\ IF application[p].flags THEN HandOver(message, p.service_name, p.cookie)
                                               ELSE HandOver(message, NoOne, NoOne)
                    /\ delete_cookie_entry(p)
    /\ UNCHANGED <<xidVars, running>>

(* The flows of a statistics reply with the cookies the application sees.  *)
TranslatedFlows(body) ==
    {[cookie |-> IF f.cookie \in DOMAIN global THEN global[f.cookie].cookie ELSE f.cookie,
      owner |-> f.owner] : f \in body.flows}

(* A statistics reply that belongs to no transaction makes the handler     *)
(* fail, and with it the daemon stops.                                     *)
EveryPartIsLast(body) == TRUE
LastPart(body) == ~body.more

ofpmsg_recv_statsreply(message) ==
    /\ message.type = "stats_reply"
    /\ LET entry == lookup_xid_entry(hash, message.xid)
           translated == [message EXCEPT !.body = TranslatedFlows(message.body)]
       IN  \/ /\ entry = NoEntry
              /\ running' = FALSE
              /\ HandOver(translated, NoOne, NoOne)
              /\ UNCHANGED xidVars
           \/ /\ entry # NoEntry
              /\ HandOver(translated, entry.service_name, TranslatedXid(entry))
              /\ IF LastPart(message.body) THEN delete_xid_entry(entry) ELSE UNCHANGED xidVars
              /\ UNCHANGED running
    /\ UNCHANGED cookieVars

ofpmsg_recv ==
    /\ running /\ from_switch # <<>>
    /\ from_switch' = Tail(from_switch)
    /\ UNCHANGED <<to_switch, flows>>
    /\ LET message == Head(from_switch)
       IN  \/ ofpmsg_recv_reply(message)
           \/ ofpmsg_recv_error(message)
           \/ ofpmsg_recv_flowremoved(message)
           \/ ofpmsg_recv_statsreply(message)

-----------------------------------------------------------------------------
(* The cookie aging timer of the daemon, once it is switched on.           *)
CookiesAge ==
    /\ running /\ regime.aging
    /\ \/ \E p \in DOMAIN application : Expire(p)
       \/ age_cookie_table
    /\ handed' = Nothing
    /\ UNCHANGED <<xidVars, wireVars, running>>

ApplicationRequests ==
    /\ inserts < regime.sends
    /\ \/ \E type \in regime.requests \ {"flow_mod"}, o \in OriginalXids, s \in Services :
             ofpmsg_send(type, o, s)
       \/ "flow_mod" \in regime.requests /\
             \E o \in OriginalXids, p \in Pairs, command \in regime.commands,
                m \in regime.matches, flags \in BOOLEAN :
                   ofpmsg_send_flow_mod(o, p, command, m, flags)

Next ==
    /\ \/ ApplicationRequests
       \/ "echo" \in regime.requests /\ ofpmsg_send_echorequest
       \/ SwitchStep
       \/ \E m \in DOMAIN flows : FlowExpires(m)
       \/ ofpmsg_recv
       \/ CookiesAge
    /\ UNCHANGED regime

Spec == Init /\ [][Next]_allVars

-----------------------------------------------------------------------------
(* A reply or an error that ofpmsg_recv hands to an application answers a  *)
(* request of that application, and carries the transaction id it chose;   *)
(* the answer to the daemon's own echo request is handed to no one.        *)
ReplyToRequester ==
    handed # Nothing /\ handed.type # "flow_removed" /\ handed.to # NoOne =>
        /\ handed.to = handed.origin.service_name
        /\ handed.shown = handed.origin.original_xid

(* The handler of statistics replies fails, and stops the daemon, only     *)
(* when at least as many requests as the transaction table holds have been *)
(* sent since the one it answers: an entry is given up before the last     *)
(* part of its reply for no other reason.                                  *)
StopsOnlyByEviction ==
    [][running /\ ~running' => inserts - handed'.origin.at > MaxEntries]_allVars

(* What carries a cookie: the flows of the switch, the ADDs on their way   *)
(* there, and the refusals of ADDs and removals of flows on their way      *)
(* back.                                                                   *)
Carriers(c) ==
    LET Adds(message) == message.body # Nothing /\ message.body.command = "ADD"
                         /\ message.body.cookie = c
        Refuses(message) == message.type = "error" /\ Adds(message)
        Removes(message) == message.type = "flow_removed" /\ message.body.cookie = c
    IN  {<<"flow", m>> : m \in {m \in DOMAIN flows : flows[m].cookie = c}}
        \cup {<<"to", i>> : i \in {i \in DOMAIN to_switch : Adds(to_switch[i])}}
        \cup {<<"from", i>> : i \in {i \in DOMAIN from_switch :
                                       Refuses(from_switch[i]) \/ Removes(from_switch[i])}}

(* What the cookie table can keep up with: no MODIFY, for which            *)
(* update_flowmod_cookie counts no flow, and no aging.                     *)
Disciplined == ~regime.aging /\ "MODIFY" \notin regime.commands

(* In a disciplined system the reference count of an entry covers          *)
(* everything that carries its cookie, and a cookie that something carries *)
(* has an entry: otherwise ofpmsg_recv_flowremoved finds no entry and the  *)
(* message is lost.                                                        *)
ReferencesCoverFlows ==
    Disciplined => \A c \in 1 .. MaxCookie :
        LET carriers == Carriers(c)
        IN  carriers # {} =>
                /\ c \in DOMAIN global
                /\ Cardinality(carriers) <= application[global[c]].reference_count

(* A flow removed message is handed only to the application that set the   *)
(* flow up, with the cookie that application gave it: the cookies of two   *)
(* applications are never confused, however entries come and go.  In a     *)
(* disciplined system a statistics reply, too, shows the cookies that      *)
(* applications gave their flows, never one of the daemon's.               *)
CookiesTranslatedBack ==
    /\ handed # Nothing /\ handed.type = "flow_removed" /\ handed.to # NoOne =>
          /\ handed.to = handed.body.owner.service_name
          /\ handed.shown = handed.body.owner.cookie
    /\ Disciplined /\ handed # Nothing /\ handed.type = "stats_reply" =>
          \A f \in handed.body : f.cookie = f.owner.cookie

(* A flow removed message of a flow that was set up with                   *)
(* OFPFF_SEND_FLOW_REM reaches the application that set it up.             *)
FlowRemovedIfAsked ==
    handed # Nothing /\ handed.type = "flow_removed" /\ handed.body.asked =>
        handed.to = handed.body.owner.service_name

(* The same in a disciplined system: the table never forgets a cookie, nor *)
(* the flags given with it, while ofpmsg_recv_flowremoved will need them.  *)
DisciplinedFlowRemoved == Disciplined => FlowRemovedIfAsked

=============================================================================
