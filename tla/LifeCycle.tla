----------------------------- MODULE LifeCycle -----------------------------
(* Processes of one or more Trema applications that share a directory of pid *)
(* files and one of log files: the start, renaming and end of a process      *)
(* (trema.c), its pid file (daemon.c) and its log file (log.c).              *)
(*                                                                           *)
(* A directory maps a name to the file it links, 0 for none; a process keeps *)
(* the files it opened whatever happens to their names.  A pid file holds    *)
(* the pid that was written last and the length that earlier writers gave    *)
(* it, for nobody truncates it.                                              *)
EXTENDS Integers, Sequences, FiniteSets

CONSTANTS
    Names,         \* service names
    Executable,    \* the name of the executable, one of Names
    Pids,          \* process ids, which are used again
    PidLength(_),  \* number of digits of a pid
    MaxProcesses   \* bound on the processes that are started

Files == 1 .. MaxProcesses + 1

VARIABLES
    processes,  \* in the order of their start: [phase, pid, argv, name, fd, holds, log]
    pid_dir,    \* name -> pid file
    pid_text,   \* pid file -> [pid, length]
    log_dir,    \* name -> log file
    disturbed   \* history: names whose files another process took or moved

lifevars == <<processes, pid_dir, pid_text, log_dir, disturbed>>

LifeCycleInit ==
    /\ processes = <<>> /\ disturbed = {}
    /\ pid_dir = [n \in Names |-> 0] /\ log_dir = [n \in Names |-> 0]
    /\ pid_text = [f \in Files |-> [pid |-> 0, length |-> 0]]

Alive(p) == processes[p].phase # "gone"
Live == {p \in DOMAIN processes : Alive(p)}
Range0(f) == {f[n] : n \in DOMAIN f}

(* A file that no name links and no process has open.                        *)
FreshFile(dir, opened) == CHOOSE f \in Files : f \notin Range0(dir) \cup opened
OpenLogs == {processes[p].log : p \in Live}
OpenPids == {processes[p].fd : p \in Live}

(* What is left of a process that died or was killed; its files stay.        *)
Dead == [phase |-> "gone", pid |-> 0, argv |-> Executable, name |-> Executable,
         fd |-> 0, holds |-> FALSE, log |-> 0]

---------------------------------------------------------------------------
(* log.c                                                                     *)

(* Appending or not, the file of the name is opened and made if needed.      *)
open_log_file(name) == IF log_dir[name] # 0 THEN log_dir[name] ELSE FreshFile(log_dir, OpenLogs)
init_log(name) == [log_dir EXCEPT ![name] = open_log_file(name)]
restart_log(name) == [log_dir EXCEPT ![name] = open_log_file(name)]

(* rename_log: what the new name linked is lost.                             *)
rename_log(old, new) == [log_dir EXCEPT ![old] = 0, ![new] = IF old = new THEN 0 ELSE log_dir[old]]

---------------------------------------------------------------------------
(* daemon.c                                                                  *)

(* write_pid in three steps: open, lock and write.                           *)
Opened(name) == IF pid_dir[name] # 0 THEN pid_dir[name] ELSE FreshFile(pid_dir, OpenPids)
write_pid_open(p) ==
    LET name == processes[p].name
    IN  /\ processes[p].phase = "initialized"
        /\ processes' = [processes EXCEPT ![p].phase = "opened", ![p].fd = Opened(name)]
        /\ pid_dir' = [pid_dir EXCEPT ![name] = Opened(name)]
        /\ pid_text' = IF pid_dir[name] # 0 THEN pid_text
                       ELSE [pid_text EXCEPT ![Opened(name)] = [pid |-> 0, length |-> 0]]
        /\ UNCHANGED <<log_dir, disturbed>>

LockAcquired(p) == ~\E q \in Live \ {p} : processes[q].holds /\ processes[q].fd = processes[p].fd
write_pid_lock(p) ==
    /\ processes[p].phase = "opened"
    /\ processes' = [processes EXCEPT ![p] =
                        IF LockAcquired(p) THEN [@ EXCEPT !.phase = "locked", !.holds = TRUE] ELSE Dead]
    /\ UNCHANGED <<pid_dir, pid_text, log_dir, disturbed>>

write_pid(p) ==
    LET name == processes[p].name
        fd == processes[p].fd
        length == PidLength(processes[p].pid)
    IN  /\ processes[p].phase = "locked"
        /\ processes' = [processes EXCEPT ![p].phase = "running"]
        /\ pid_text' = [pid_text EXCEPT ![fd] =
                           [pid |-> processes[p].pid, length |-> IF @.length > length THEN @.length ELSE length]]
        /\ disturbed' = disturbed \cup IF pid_dir[name] = fd /\ log_dir[name] = processes[p].log THEN {} ELSE {name}
        /\ UNCHANGED <<pid_dir, log_dir>>

(* The process that the file of the name leads to, 0 for none: the pid has   *)
(* to be well-formed and alive, and its executable or its name option match. *)
WithPid(pid) == {p \in Live : processes[p].pid = pid}
read_pid(name) ==
    LET text == pid_text[pid_dir[name]]
        found == {p \in WithPid(text.pid) : name \in {Executable, processes[p].argv}}
    IN  IF pid_dir[name] = 0 \/ text.length # PidLength(text.pid) \/ found = {} THEN 0
        ELSE CHOOSE p \in found : TRUE
(* A well-formed pid that no process has: the file is removed.               *)
StalePid(name) ==
    LET text == pid_text[pid_dir[name]]
    IN  pid_dir[name] # 0 /\ text.length # 0 /\ text.length = PidLength(text.pid) /\ WithPid(text.pid) = {}

unlink_pid(name) == [pid_dir EXCEPT ![name] = 0]

(* rename_pid: what the new name linked is lost.                             *)
rename_pid(old, new) == [pid_dir EXCEPT ![old] = 0, ![new] = IF old = new THEN 0 ELSE pid_dir[old]]

---------------------------------------------------------------------------
(* trema.c                                                                   *)

(* parse_argv: the name option, or the name of the executable without it.    *)
parse_argv(option) == IF option = "" THEN Executable ELSE option

init_trema(pid, option) ==
    LET name == parse_argv(option)
    IN  /\ Len(processes) < MaxProcesses /\ \A p \in Live : processes[p].pid # pid
        /\ log_dir' = init_log(name)
        /\ processes' = Append(processes, [phase |-> "initialized", pid |-> pid, argv |-> name, name |-> name,
                                           fd |-> 0, holds |-> FALSE, log |-> log_dir'[name]])
        /\ UNCHANGED <<pid_dir, pid_text, disturbed>>

(* set_trema_name: before the start only the log moves on.                   *)
RenamedBeforeStart(p, new) ==
    /\ processes[p].phase = "initialized" /\ log_dir' = restart_log(new)
    /\ processes' = [processes EXCEPT ![p].name = new, ![p].log = log_dir'[new]]
    /\ UNCHANGED <<pid_dir, pid_text, disturbed>>

(* After the start the files are renamed, and a file that is missing under   *)
(* the old name (which includes the new name being the old one) ends the     *)
(* process.                                                                  *)
RenamedAfterStart(p, new) ==
    LET old == processes[p].name
        pidgone == pid_dir[old] = 0 \/ old = new
    IN  /\ processes[p].phase = "running"
        /\ pid_dir' = rename_pid(old, new)
        /\ log_dir' = IF pidgone THEN log_dir ELSE rename_log(old, new)
        /\ processes' = [processes EXCEPT ![p] =
                            IF pidgone \/ log_dir[old] = 0 THEN Dead
                            ELSE [@ EXCEPT !.name = new, !.log = log_dir'[new]]]
        /\ disturbed' = disturbed \cup
               (IF old \in disturbed \/ \E q \in Live : processes[q].name = new THEN {new} ELSE {})
        /\ UNCHANGED pid_text
set_trema_name(p, new) == RenamedBeforeStart(p, new) \/ RenamedAfterStart(p, new)

(* get_pid_by_trema_name in process p.  Closing its own pid file gives up    *)
(* the lock.                                                                 *)
get_pid_by_trema_name(p, name) ==
    /\ processes[p].phase = "running"
    /\ processes' = [processes EXCEPT ![p].holds = @ /\ pid_dir[name] # processes[p].fd]
    /\ pid_dir' = IF StalePid(name) THEN unlink_pid(name) ELSE pid_dir
    /\ disturbed' = disturbed \cup IF pid_dir[name] = processes[p].fd THEN {name} ELSE {}
    /\ UNCHANGED <<pid_text, log_dir>>

(* start_trema leaves its loop when SIGINT or SIGTERM stops it, which may be *)
(* at any time; unlink_pid dies when the file is gone, which ends the        *)
(* process as well.                                                          *)
finalize_trema(p) ==
    /\ processes[p].phase = "running"
    /\ processes' = [processes EXCEPT ![p] = Dead]
    /\ pid_dir' = unlink_pid(processes[p].name)
    /\ UNCHANGED <<pid_text, log_dir, disturbed>>

start_trema(p) == write_pid_open(p) \/ write_pid_lock(p) \/ write_pid(p) \/ finalize_trema(p)

KilledProcess(p) ==
    /\ Alive(p) /\ processes' = [processes EXCEPT ![p] = Dead]
    /\ UNCHANGED <<pid_dir, pid_text, log_dir, disturbed>>

LifeCycleNext ==
    \/ \E pid \in Pids, option \in {""} \cup (Names \ {Executable}) : init_trema(pid, option)
    \/ \E p \in DOMAIN processes :
          \/ start_trema(p)
          \/ KilledProcess(p)
          \/ \E name \in Names : set_trema_name(p, name) \/ get_pid_by_trema_name(p, name)

---------------------------------------------------------------------------
=============================================================================
