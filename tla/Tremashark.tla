----------------------------- MODULE Tremashark -----------------------------
(* tremashark: programs relay what they see (system log, standard input) to  *)
(* the dump service, which holds the messages for a while, sorts them by     *)
(* time and writes them to a file or to the pipe of a packet analyser.       *)
EXTENDS Integers, Sequences, SequencesExt, FiniteSets

CONSTANTS
    MESSAGE_BUFFER_LENGTH,  \* ticks that a message is held
    QUEUE_LIMIT,            \* pcap_queue.c, or the argument of -c
    MaxClock, MaxRelayed, MaxTyped  \* bounds on the clock, the messages and the typed characters

LF == 0
Letter == 1

VARIABLES
    output_to_pcap_file, use_circular_buffer, trust_remote_clocks,  \* the options
    clock,
    syslog_up,                  \* the handler of the system log's socket
    underway,                   \* the messages to the dump service: [id, sent]
    pcap_queue,                 \* [id, ts, late, cut]
    outfile_open, output,       \* the file or pipe: the packets written
    lost, total,
    ended,                      \* an assertion failed
    typed, stdin_read_buffer, relayed,  \* standard input: unread, kept, and sent by line
    entered,                    \* history: the input that was read
    happened                    \* [relays, short |-> writes cut short, dumps |-> write_circular_buffer]

queuevars == <<pcap_queue, outfile_open, output, lost, total, ended, happened>>
optionvars == <<output_to_pcap_file, use_circular_buffer, trust_remote_clocks>>
stdinvars == <<typed, stdin_read_buffer, relayed, entered>>
tremasharkvars == <<optionvars, clock, syslog_up, underway, queuevars, stdinvars>>

(* parse_options: -c needs -w.                                               *)
parse_options ==
    /\ output_to_pcap_file \in BOOLEAN /\ trust_remote_clocks \in BOOLEAN
    /\ use_circular_buffer \in {FALSE, output_to_pcap_file}

TremasharkInit ==
    /\ parse_options /\ clock = 0 /\ syslog_up = TRUE /\ underway = {}
    /\ pcap_queue = <<>> /\ outfile_open = TRUE /\ output = <<>> /\ lost = 0 /\ total = 0 /\ ended = FALSE
    /\ typed \in UNION {[1 .. n -> {LF, Letter}] : n \in 0 .. MaxTyped}
    /\ stdin_read_buffer = <<>> /\ relayed = <<>> /\ entered = <<>>
    /\ happened = [relays |-> 0, short |-> 0, dumps |-> 0]

---------------------------------------------------------------------------
(* The relays.                                                               *)

(* relay_syslog_message: the message is stamped and sent, or not sent.       *)
relay_syslog_message ==
    /\ happened' = [happened EXCEPT !.relays = @ + 1]
    /\ underway' \in {underway, underway \cup {[id |-> happened.relays + 1, sent |-> clock]}}

(* recv_syslog_message: an error ends the relay.                             *)
recv_syslog_message ==
    /\ syslog_up /\ happened.relays < MaxRelayed
    /\ \/ relay_syslog_message /\ UNCHANGED syslog_up
       \/ syslog_up' = FALSE /\ UNCHANGED <<underway, happened>>
    /\ UNCHANGED <<optionvars, clock, pcap_queue, outfile_open, output, lost, total, ended, stdinvars>>

find_character(string, c) == SelectInSeq(string, LAMBDA x : x = c)

(* One line of the buffer after another; an empty one is not relayed.        *)
DropsShort(s, lf) == IF lf > 2 THEN <<SubSeq(s, 1, lf - 1)>> ELSE <<>>
relay_string(s, lf) == IF lf > 1 THEN <<SubSeq(s, 1, lf - 1)>> ELSE <<>>
SplitLines(buffer) ==
    LET split[s \in UNION {[1 .. n -> {LF, Letter}] : n \in 0 .. MaxTyped}] ==
            LET lf == find_character(s, LF)
                more == split[SubSeq(s, lf + 1, Len(s))]
            IN  IF lf = 0 THEN [lines |-> <<>>, rest |-> s]
                ELSE [more EXCEPT !.lines = relay_string(s, lf) \o @]
    IN  split[buffer]

read_stdin(n) ==
    LET split == SplitLines(stdin_read_buffer \o SubSeq(typed, 1, n))
    IN  /\ typed' = SubSeq(typed, n + 1, Len(typed))
        /\ entered' = entered \o SubSeq(typed, 1, n) /\ stdin_read_buffer' = split.rest /\ relayed' = relayed \o split.lines
        /\ UNCHANGED <<optionvars, clock, syslog_up, underway, queuevars>>

---------------------------------------------------------------------------
(* The dump service.                                                         *)

DropOldest(queue) ==
    IF use_circular_buffer /\ Len(queue) >= QUEUE_LIMIT THEN SubSeq(queue, Len(queue) - QUEUE_LIMIT + 2, Len(queue)) ELSE queue

(* create_pcap_packet: the packet has the time stamp of the relay, or one of *)
(* this process.                                                             *)
create_pcap_packet(m) ==
    LET ts == IF trust_remote_clocks THEN m.sent ELSE clock
    IN  [id |-> m.id, ts |-> ts, late |-> clock - ts > MESSAGE_BUFFER_LENGTH, cut |-> FALSE]

enqueue_pcap_packet(queue, packet) ==
    IF Len(queue) >= QUEUE_LIMIT
    THEN pcap_queue' = queue /\ lost' = lost + 1
    ELSE pcap_queue' = Append(queue, packet) /\ UNCHANGED lost

dump_message(m) ==
    /\ ~ended /\ underway' = underway \ {m}
    /\ enqueue_pcap_packet(DropOldest(pcap_queue), create_pcap_packet(m)) /\ total' = total + 1
    /\ UNCHANGED <<optionvars, clock, syslog_up, outfile_open, output, ended, happened, stdinvars>>

(* sort_pcap_queue: an insertion sort by compare_timestamp.                  *)
compare_timestamp(x, y) == x.ts > y.ts
InsertPacket(sorted, packet) ==
    LET after == SelectLastInSeq(sorted, LAMBDA x : ~compare_timestamp(x, packet))
    IN  InsertAt(sorted, after + 1, packet)
sort_pcap_queue(queue) == FoldLeft(InsertPacket, <<>>, queue)

(* What write_pcap_packet may write: what is old enough.                     *)
OldEnough(queue) ==
    LET young == {i \in DOMAIN queue : queue[i].ts > clock - MESSAGE_BUFFER_LENGTH}
    IN  IF young = {} THEN Len(queue) ELSE Min(young) - 1

(* write_to_file of the first n packets of the sorted queue succeeds.  The   *)
(* next one is refused, or cut short: then the packet starts in its middle,  *)
(* where compare_timestamp finds any number.                                 *)
write_to_file(queue, n) ==
    /\ output' = output \o SubSeq(queue, 1, n)
    /\ pcap_queue' = SubSeq(queue, n + 1, Len(queue))
    /\ UNCHANGED happened
WriteCutShort(queue, n) ==
    /\ ~queue[n + 1].cut
    /\ output' = output \o SubSeq(queue, 1, n) \o <<[queue[n + 1] EXCEPT !.cut = TRUE]>>
    /\ \E garbage \in 0 .. MaxClock :
          pcap_queue' = <<[queue[n + 1] EXCEPT !.cut = TRUE, !.ts = garbage]>> \o SubSeq(queue, n + 2, Len(queue))
    /\ happened' = [happened EXCEPT !.short = @ + 1]

(* The timer of set_timer_event, which there is for no circular buffer.  The *)
(* file that write_circular_buffer closed is missed.                         *)
write_pcap_packet ==
    LET queue == sort_pcap_queue(pcap_queue)  last == OldEnough(queue)
    IN  /\ ~ended /\ ~use_circular_buffer /\ pcap_queue # <<>>
        /\ IF last > 0 /\ ~outfile_open
           THEN ended' = TRUE /\ pcap_queue' = queue /\ UNCHANGED <<output, happened>>
           ELSE /\ UNCHANGED ended
                /\ \/ write_to_file(queue, last)
                   \/ \E n \in 0 .. last - 1 :
                         ~output_to_pcap_file /\ (write_to_file(queue, n) \/ WriteCutShort(queue, n))
        /\ UNCHANGED <<optionvars, clock, syslog_up, underway, outfile_open, lost, total, stdinvars>>

(* write_circular_buffer on SIGUSR2: init_pcap empties a file that was       *)
(* closed, finalize_pcap closes it.                                          *)
init_pcap == IF outfile_open THEN output ELSE <<>>
write_circular_buffer ==
    /\ ~ended /\ output_to_pcap_file /\ happened.dumps < 2
    /\ pcap_queue' = sort_pcap_queue(pcap_queue)
    /\ output' = init_pcap \o pcap_queue' /\ outfile_open' = FALSE
    /\ happened' = [happened EXCEPT !.dumps = @ + 1]
    /\ UNCHANGED <<optionvars, clock, syslog_up, underway, lost, total, ended, stdinvars>>

Tick ==
    /\ clock < MaxClock /\ clock' = clock + 1
    /\ UNCHANGED <<optionvars, syslog_up, underway, queuevars, stdinvars>>

TremasharkNext ==
    \/ recv_syslog_message \/ write_pcap_packet \/ write_circular_buffer \/ Tick
    \/ \E m \in underway : dump_message(m)
StdinNext == \E n \in 1 .. Len(typed) : read_stdin(n)

---------------------------------------------------------------------------
Ids(queue) == {queue[i].id : i \in DOMAIN queue}

(* What the dump service writes is in the order of time, but for packets     *)
(* that came later than the buffer waits: a packet is held until nothing     *)
(* older can come any more (write_pcap_packet).  No packet is written twice, *)
(* and none is missing that was not counted as lost.  A pipe that cuts a     *)
(* packet short, and a signal that makes a second copy, are the exceptions.  *)
DumpIsInOrder ==
    /\ happened.short = 0 /\ happened.dumps = 0 =>
          /\ \A i, j \in DOMAIN output : i < j => output[j].late \/ output[i].ts <= output[j].ts
          /\ IsInjective([i \in DOMAIN output |-> output[i].id])
          /\ ~use_circular_buffer => Ids(output) \cap Ids(pcap_queue) = {}
          /\ ~use_circular_buffer => Cardinality(Ids(output) \cup Ids(pcap_queue)) = total - lost
    /\ \A i \in DOMAIN output : output[i].cut => ~output_to_pcap_file

(* A circular buffer loses only the oldest: nothing is refused, and as many  *)
(* packets are kept as it has room for.  What a signal writes is sorted, and *)
(* only a dump that is no circular buffer is ended by it.                    *)
CircularBufferKeeps ==
    /\ use_circular_buffer => lost = 0 /\ Len(pcap_queue) = IF total < QUEUE_LIMIT THEN total ELSE QUEUE_LIMIT
    /\ use_circular_buffer => \A i \in 2 .. Len(output) : output[i - 1].ts <= output[i].ts
    /\ ended => ~use_circular_buffer /\ happened.dumps > 0

(* Every line that is typed is relayed once, in order and whole, whatever    *)
(* pieces read returns (stdin_read_buffer keeps the beginning of a line).    *)
LinesAreRelayed ==
    LET Squeezed == FoldLeft(LAMBDA s, c : IF c = LF /\ (s = <<>> \/ Last(s) = LF) THEN s ELSE Append(s, c), <<>>, entered)
    IN  FoldLeft(LAMBDA s, l : s \o Append(l, LF), <<>>, relayed) \o stdin_read_buffer = Squeezed
=============================================================================
