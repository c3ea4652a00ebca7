----------------------------- MODULE Management -----------------------------
(* What a Trema process tells about itself and lets others change: the       *)
(* counters of stat.c, the logging level of log.c and the management         *)
(* requests of management_interface.c that read or set them.  The counters   *)
(* are updated by the application, in any thread, between two requests; the  *)
(* mutex of the table makes each operation one step.                         *)
EXTENDS Integers, Sequences, FiniteSets, TLC

CONSTANTS
    StatKeys,       \* keys of counters that fit into an entry
    Levels,         \* name of a logging level, in any spelling -> its value
    InvalidLevel,   \* a name that is no level
    MaxEntries,     \* n_max_entries, the entries that a reply can hold
    MaxUpdates,     \* bound on the updates of counters
    MaxAsked        \* bound on the requests

LOG_INFO == 6
NoLevel == -1

VARIABLES
    stats,        \* key -> counter, of the keys that have an entry
    level,        \* the logging level
    app_handler,  \* an application specific request handler is set
    updates,      \* counter updates so far
    counted,      \* history: key -> increments since the last reset
    asked,        \* requests on their way
    answers       \* history: the replies, each with what was counted by then

mgmtvars == <<stats, level, app_handler, updates, counted, asked, answers>>

(* init_stat; init_log: a level that was set before counts, and that of the  *)
(* environment counts more.                                                  *)
init_log_level(option, env) ==
    IF env # NoLevel THEN env ELSE IF option # NoLevel THEN option ELSE LOG_INFO
ManagementInit ==
    /\ counted = [k \in StatKeys |-> 0] /\ stats = <<>> /\ app_handler = FALSE /\ updates = 0 /\ asked = <<>> /\ answers = <<>>
    /\ \E option, env \in {NoLevel} \cup {Levels[l] : l \in DOMAIN Levels} : level = init_log_level(option, env)

---------------------------------------------------------------------------
(* stat.c                                                                    *)

add_stat_entry(key) == stats' = stats @@ (key :> 0)
increment_stat(key) ==
    stats' = IF key \in DOMAIN stats THEN [stats EXCEPT ![key] = @ + 1] ELSE stats @@ (key :> 1)
reset_stats == stats' = <<>>
foreach_stat == stats

Update(step, count) ==
    /\ updates < MaxUpdates /\ updates' = updates + 1 /\ step /\ counted' = count
    /\ UNCHANGED <<level, app_handler, asked, answers>>

---------------------------------------------------------------------------
(* management_interface.c                                                    *)

valid_logging_level(name) == name \in DOMAIN Levels
set_logging_level(name) == level' = Levels[name]

set_management_application_request_handler ==
    app_handler' = TRUE /\ UNCHANGED <<stats, level, updates, counted, asked, answers>>

Reply(request, status, entries) ==
    Append(answers, [request |-> request, status |-> status, entries |-> entries, counted |-> counted])

handle_echo_request(request, clock) ==
    /\ request.type = "ECHO"
    /\ answers' = Reply(request, IF clock THEN "SUCCEEDED" ELSE "FAILED", <<>>)
    /\ UNCHANGED level

handle_set_logging_level_request(request) ==
    /\ request.type = "SET_LOGGING_LEVEL"
    /\ IF valid_logging_level(request.name) THEN set_logging_level(request.name) ELSE UNCHANGED level
    /\ answers' = Reply(request, IF valid_logging_level(request.name) THEN "SUCCEEDED" ELSE "FAILED", <<>>)

(* Too many entries for one message: a reply without any.                    *)
handle_show_stats_request(request) ==
    /\ request.type = "SHOW_STATS" /\ UNCHANGED level
    /\ answers' = IF Cardinality(DOMAIN foreach_stat) <= MaxEntries THEN Reply(request, "SUCCEEDED", foreach_stat)
                  ELSE Reply(request, "FAILED", <<>>)

(* With a handler, the reply is the application's affair.                    *)
handle_application_request(request) ==
    /\ request.type = "APPLICATION" /\ UNCHANGED level
    /\ answers' = IF app_handler THEN answers ELSE Reply(request, "FAILED", <<>>)

(* Requests of the wrong length or of another type get no reply.             *)
handle_management_request(request) ==
    \/ request.well_formed /\ (\/ \E clock \in BOOLEAN : handle_echo_request(request, clock)
                               \/ handle_set_logging_level_request(request)
                               \/ handle_show_stats_request(request)
                               \/ handle_application_request(request))
    \/ ~request.well_formed /\ UNCHANGED <<level, answers>>

handle_request ==
    /\ asked # <<>> /\ asked' = Tail(asked) /\ handle_management_request(Head(asked))
    /\ UNCHANGED <<stats, app_handler, updates, counted>>

Requests ==
    [type : {"ECHO", "SHOW_STATS", "APPLICATION"}, name : {InvalidLevel}, well_formed : {TRUE}]
    \cup [type : {"SET_LOGGING_LEVEL"}, name : {InvalidLevel} \cup DOMAIN Levels, well_formed : {TRUE}]
    \cup [type : {"SET_LOGGING_LEVEL"}, name : {InvalidLevel}, well_formed : {FALSE}]
Ask(request) ==
    /\ Len(asked) + Len(answers) < MaxAsked /\ asked' = Append(asked, request)
    /\ UNCHANGED <<stats, level, app_handler, updates, counted, answers>>

ManagementNext ==
    \/ \E key \in StatKeys :
          \/ Update(add_stat_entry(key), counted)
          \/ Update(increment_stat(key), [counted EXCEPT ![key] = @ + 1])
    \/ Update(reset_stats, [key \in StatKeys |-> 0])
    \/ set_management_application_request_handler
    \/ \E request \in Requests : Ask(request)
    \/ handle_request

---------------------------------------------------------------------------
=============================================================================
