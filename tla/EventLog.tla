------------------------------ MODULE EventLog ------------------------------
(***************************************************************************)
(* The event logs of an agent's instances: agent/event_log.rs, and the     *)
(* parts of agent/runtime.rs that number events, load the logs at start    *)
(* and read their tails for `logs`.                                        *)
(*                                                                         *)
(* A log is a file of lines, one record each, appended by a writer task    *)
(* from a bounded queue.  On the way to the disk a record is three tokens: *)
(* the first part of its text, the rest, and the newline.  A write may     *)
(* stop after any token, because it failed or because the server died.     *)
(*                                                                         *)
(* Windows: inspect_sequence looks at the last 64 KiB and doubles that up  *)
(* to 8 MiB; here the window is the file.                                  *)
(***************************************************************************)
EXTENDS Integers, Sequences, FiniteSets, FiniteSetsExt

CONSTANTS
    Logs,            \* instances, in the order load visits them: 1 .. n
    WriteCapacity,   \* EVENT_LOG_WRITE_CAPACITY
    MaxSequence,     \* events numbered before the model stops
    ChunkTokens      \* LOG_TAIL_CHUNK_BYTES

VARIABLES
    file,       \* the log on disk
    logServer,  \* "down", "repair", "up", "refused"
    counter,    \* event_sequence of each instance
    records,    \* the writer's queue
    writing,    \* the tokens of the batch being appended
    repairs,    \* the SequencePlans load has still to apply
    logFailed   \* ghost: an append has failed

logVars == <<file, logServer, counter, records, writing, repairs, logFailed>>

NL == <<"nl", 0>>
Record(n) == << <<"head", n>>, <<"rest", n>>, NL >>

\* The tokens of a batch, in order.
Tokens(ns) == [i \in 1 .. 3 * Len(ns) |-> Record(ns[(i + 2) \div 3])[((i - 1) % 3) + 1]]

\* A line that parses as a SequenceRecord.
Parses(line) == Len(line) = 2 /\ line[1][1] = "head" /\ line[2] = <<"rest", line[1][2]>>
SequenceOf(line) == line[1][2]

Greatest(S) == IF S = {} THEN 0 ELSE Max(S)

LogInit ==
    /\ file = [l \in Logs |-> <<>>]
    /\ logServer = "down"
    /\ counter = [l \in Logs |-> 0]
    /\ records = [l \in Logs |-> <<>>]
    /\ writing = [l \in Logs |-> <<>>]
    /\ repairs = <<>>
    /\ logFailed = FALSE

-----------------------------------------------------------------------------
(* Loading *)

\* The last line that is not blank in f[1 .. limit]: where it ends, its text,
\* whether a newline follows it, and the newline before it.
LastLine(f, limit) ==
    LET end == Greatest({i \in 1 .. limit : f[i] # NL})
        delimiter == Greatest({i \in 1 .. end : f[i] = NL})
    IN [end |-> end, text |-> SubSeq(f, delimiter + 1, end),
        terminated |-> end < limit, delimiter |-> delimiter]

Unchanged(next) == [next |-> next, keep |-> -1, terminate |-> FALSE]
Truncate(next, len, terminate) == [next |-> next, keep |-> len, terminate |-> terminate]
Corrupt == Unchanged(0)

\* inspect_sequence: what to do with the file, and the next number.  A torn
\* last line is cut off, a whole one without its newline is terminated, and a
\* line that is terminated and does not parse is corruption.
InspectSequence(f) ==
    LET last == LastLine(f, Len(f))
        before == LastLine(f, last.delimiter)
    IN CASE last.end = 0 -> Unchanged(1)
         [] Parses(last.text) /\ last.terminated -> Unchanged(SequenceOf(last.text) + 1)
         [] Parses(last.text) /\ ~last.terminated -> Truncate(SequenceOf(last.text) + 1, last.end, TRUE)
         [] ~Parses(last.text) /\ last.terminated -> Corrupt
         [] OTHER ->
              CASE before.end = 0 -> Truncate(1, 0, FALSE)
                [] Parses(before.text) -> Truncate(SequenceOf(before.text) + 1, before.end, TRUE)
                [] OTHER -> Corrupt

\* inspect_instance_states: every log is looked at before any is touched, and
\* one that is corrupt keeps the agent from loading.
Inspect ==
    /\ logServer = "down"
    /\ LET plan == [l \in Logs |-> InspectSequence(file[l])]
       IN IF \E l \in Logs : plan[l].next = 0
          THEN logServer' = "refused" /\ UNCHANGED <<repairs, counter>>
          ELSE /\ logServer' = "repair"
               /\ repairs' = [l \in Logs |-> plan[l]]
               /\ counter' = [l \in Logs |-> plan[l].next]
    /\ UNCHANGED <<file, records, writing, logFailed>>

\* apply_instance_event_repairs, log by log; SequencePlan::apply cuts the file
\* and then, in a second write, ends its last line.
ApplyRepair ==
    /\ logServer = "repair"
    /\ \E l \in Logs :
         /\ \A k \in Logs : k < l => repairs[k] = Unchanged(repairs[k].next)
         /\ repairs[l] # Unchanged(repairs[l].next)
         /\ IF repairs[l].keep >= 0
            THEN /\ file' = [file EXCEPT ![l] = SubSeq(@, 1, repairs[l].keep)]
                 /\ repairs' = [repairs EXCEPT ![l].keep = -1]
            ELSE /\ file' = [file EXCEPT ![l] = Append(@, NL)]
                 /\ repairs' = [repairs EXCEPT ![l].terminate = FALSE]
    /\ UNCHANGED <<logServer, counter, records, writing, logFailed>>

\* start_instance_states
StartInstances ==
    /\ logServer = "repair"
    /\ \A l \in Logs : repairs[l] = Unchanged(repairs[l].next)
    /\ logServer' = "up"
    /\ repairs' = <<>>
    /\ UNCHANGED <<file, counter, records, writing, logFailed>>

-----------------------------------------------------------------------------
(* Writing *)

\* next_instance_event_sequence and EventLogWriter::append: the number is spent
\* whether or not the queue takes the record.
AppendEvent(l) ==
    /\ logServer = "up"
    /\ counter[l] <= MaxSequence
    /\ counter' = [counter EXCEPT ![l] = @ + 1]
    /\ \/ Len(records[l]) < WriteCapacity /\ records' = [records EXCEPT ![l] = Append(@, counter[l])]
       \/ Len(records[l]) = WriteCapacity /\ UNCHANGED records    \* QueueFull
    /\ UNCHANGED <<file, logServer, writing, repairs, logFailed>>

\* run_event_log_writer takes everything that is queued as one batch.
TakeBatch(l) ==
    /\ logServer = "up"
    /\ writing[l] = <<>> /\ records[l] # <<>>
    /\ writing' = [writing EXCEPT ![l] = Tokens(records[l])]
    /\ records' = [records EXCEPT ![l] = <<>>]
    /\ UNCHANGED <<file, logServer, counter, repairs, logFailed>>

\* EventLogFile::open keeps one file open for appending; write_all and flush
\* send the batch to it.
WriteToken(l) ==
    /\ logServer = "up"
    /\ writing[l] # <<>>
    /\ file' = [file EXCEPT ![l] = Append(@, Head(writing[l]))]
    /\ writing' = [writing EXCEPT ![l] = Tail(@)]
    /\ UNCHANGED <<logServer, counter, records, repairs, logFailed>>

\* A failed append is logged and the rest of the batch dropped; the next batch
\* follows what did reach the file.  A writer whose file does not open stops,
\* which loses every batch whole.
AppendFails(l) ==
    /\ logServer = "up"
    /\ writing[l] # <<>>
    /\ writing' = [writing EXCEPT ![l] = <<>>]
    /\ logFailed' = TRUE
    /\ UNCHANGED <<file, logServer, counter, records, repairs>>

\* The server dies; a refused agent is looked at again at the next start.
LogCrash ==
    /\ logServer # "down"
    /\ logServer' = "down"
    /\ counter' = [l \in Logs |-> 0]
    /\ records' = [l \in Logs |-> <<>>]
    /\ writing' = [l \in Logs |-> <<>>]
    /\ repairs' = <<>>
    /\ UNCHANGED <<file, logFailed>>

LogNext ==
    \/ Inspect
    \/ ApplyRepair
    \/ StartInstances
    \/ \E l \in Logs : AppendEvent(l) \/ TakeBatch(l) \/ WriteToken(l) \/ AppendFails(l)
    \/ LogCrash

-----------------------------------------------------------------------------
(* Reading: pure functions of the file, which only grows while it is read *)

Newlines(f, from, to) == Cardinality({i \in from .. to : f[i] = NL})

\* The offset reading stops at: chunks are read from the end until more than
\* `lines` newlines have been seen.
ChunkStarts(f) == {0} \cup {k \in 1 .. Len(f) : (Len(f) - k) % ChunkTokens = 0}
ReadFrom(f, lines) ==
    Greatest({k \in ChunkStarts(f) : Newlines(f, k + 1, Len(f)) > lines} \ {Len(f)})

\* tail_start: after the newline that has `lines` lines behind it; a newline
\* that ends the file is not counted.
TailStart(f, lines) ==
    Greatest({i \in 1 .. Len(f) - 1 : f[i] = NL /\ Newlines(f, i, Len(f) - 1) = lines})

\* read_log_tail
ReadLogTail(f, lines) ==
    LET read == SubSeq(f, ReadFrom(f, lines) + 1, Len(f))
    IN SubSeq(read, TailStart(read, lines) + 1, Len(read))

\* The whole lines of a file, and what is left after its last newline.
LineEnds(f) == {i \in 1 .. Len(f) : f[i] = NL}
LineAt(f, i) == SubSeq(f, Greatest({k \in LineEnds(f) : k < i}) + 1, i - 1)
WholeLines(f) == {LineAt(f, i) : i \in LineEnds(f)} \ {<<>>}

\* network_event_line_matches; every second event is a network event.
Matches(line) == SequenceOf(line) % 2 = 0

\* read_network_event_log_tail goes through the lines from the end, the one
\* still without its newline included, until `lines` of them match: the places
\* it looks at, and whether one of them does not parse.
Pieces(f) == {i \in LineEnds(f) \cup {Len(f) + 1} : LineAt(f, i) # <<>>}
Examined(f, lines) ==
    {i \in Pieces(f) :
        Cardinality({k \in Pieces(f) : k > i /\ Parses(LineAt(f, k)) /\ Matches(LineAt(f, k))}) < lines}
NetworkTailFails(f, lines) == \E i \in Examined(f, lines) : ~Parses(LineAt(f, i))

-----------------------------------------------------------------------------

LogTypeOK ==
    /\ logServer \in {"down", "repair", "up", "refused"}
    /\ counter \in [Logs -> 0 .. MaxSequence + 1]
    /\ \A l \in Logs : Len(records[l]) <= WriteCapacity
    /\ logFailed \in BOOLEAN

\* What a log keeps across crashes, torn writes and repairs: its records carry
\* growing numbers, the next number is larger than all of them, and a log whose
\* every append succeeded always loads and, with no write under way, can be read
\* (inspect_sequence, SequencePlan::apply, read_network_event_log_tail).
LogSound ==
    /\ \A l \in Logs :
         /\ \A i, k \in LineEnds(file[l]) :
              i < k /\ Parses(LineAt(file[l], i)) /\ Parses(LineAt(file[l], k))
                => SequenceOf(LineAt(file[l], i)) < SequenceOf(LineAt(file[l], k))
         /\ logServer = "up" => \A line \in WholeLines(file[l]) : Parses(line) => SequenceOf(line) < counter[l]
         /\ logServer = "up" /\ ~logFailed /\ writing[l] = <<>> => ~NetworkTailFails(file[l], MaxSequence)
    /\ logServer = "refused" => logFailed

\* `logs --lines n` shows the last n lines, a last line that is still being
\* written included, wherever the chunks it reads happen to begin
\* (read_log_tail, tail_start).
TailExact ==
    \A l \in Logs : \A lines \in 1 .. 2 :
        LET f == file[l]
            starts == {0} \cup {i \in LineEnds(f) : i < Len(f)}
            start == Greatest({k \in starts : Cardinality({j \in starts : j >= k}) >= lines})
        IN ReadLogTail(f, lines) = SubSeq(f, start + 1, Len(f))
=============================================================================
