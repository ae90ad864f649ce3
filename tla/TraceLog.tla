------------------------------ MODULE TraceLog ------------------------------
(***************************************************************************)
(* The trace of Log.c: a ring of the last entries in memory, and a trace   *)
(* file that is renamed to a backup when it has max_lines_per_file lines.  *)
(* Log and Log_stackTrace run under log_mutex.  Log_initialize,            *)
(* Log_terminate and Log_setTraceLevel take no lock: here no other thread  *)
(* traces meanwhile, and the rename of a full trace file succeeds.  A      *)
(* trace callback sees what is output and has no state here; the entry's   *)
(* text is its number.                                                     *)
(***************************************************************************)
EXTENDS Integers, Sequences

CONSTANTS MaxEntries,     \* trace_settings.max_trace_entries, which nothing changes
          MaxLines,       \* max_lines_per_file
          HeaderLines,    \* lines Log_initialize writes
          Levels,         \* the levels messages and settings have
          MaxLogged       \* bound on the number of messages

ASSUME TraceConstants ==
  MaxEntries \in Nat \ {0} /\ MaxLines \in Nat \ {0} /\ HeaderLines \in Nat

VARIABLES ring,       \* trace_queue with start_index and next_index
          output,     \* trace_destination, lines_written and the two files
          levels,     \* trace_settings.trace_level and trace_output_level
          logged,     \* ghost: the entries made since Log_initialize
          printed     \* ghost: the lines sent to the trace file since it was opened

traceVars == <<ring, output, levels, logged, printed>>

TRACE_MINIMUM == 3
LOG_ERROR == 5
INVALID_LEVEL == -1

NoRing == [queue |-> <<>>, start |-> -1, next |-> 0]
HasRing == ring.queue # <<>>
Banner(n) == [i \in 1..n |-> 0]

TraceInit ==
  /\ ring = NoRing
  /\ output = [dest |-> "none", written |-> 0, file |-> <<>>, backup |-> <<>>, rotated |-> FALSE]
  /\ levels = [trace |-> TRACE_MINIMUM, out |-> INVALID_LEVEL]
  /\ logged = <<>> /\ printed = <<>>

(***************************************************************************)
(* Log_output for one line.  At the limit the file becomes the backup and  *)
(* is opened again, which may fail.                                        *)
(***************************************************************************)
\* A rotation that leaves the old backup in place.
RotateKeepsBackup(o, reopened) ==
  [o EXCEPT !.file = <<>>, !.written = 0, !.rotated = TRUE, !.dest = IF reopened THEN "file" ELSE "stdout"]

Rotate(o, reopened) ==
  [o EXCEPT !.backup = o.file, !.file = <<>>, !.written = 0, !.rotated = TRUE,
            !.dest = IF reopened THEN "file" ELSE "stdout"]

Log_output(o, line, reopened) ==
  IF o.dest # "file" THEN o
  ELSE LET w == [o EXCEPT !.file = Append(o.file, line), !.written = o.written + 1]
       IN IF w.written >= MaxLines THEN Rotate(w, reopened) ELSE w

\* the output after n lines of the banner
Headed(opened, reopened) ==
  LET after[n \in 0..HeaderLines] == IF n = 0 THEN opened ELSE Log_output(after[n - 1], 0, reopened)
  IN after[HeaderLines]

\* MQTT_C_CLIENT_TRACE_LEVEL is one of the two levels or is not set
LevelFrom(level) ==
  IF level <= TRACE_MINIMUM THEN [levels EXCEPT !.trace = level] ELSE [levels EXCEPT !.out = level]

\* lines_written is not reset: what an earlier trace file had counts
Log_initialize(dest, reopened) ==
  /\ ~HasRing
  /\ ring' = [NoRing EXCEPT !.queue = [i \in 1..MaxEntries |-> 0]]
  /\ output' = Headed([output EXCEPT !.dest = dest, !.file = IF dest = "file" THEN <<>> ELSE output.file,
                                     !.rotated = FALSE], reopened)
  /\ printed' = IF dest = "file" THEN Banner(HeaderLines) ELSE <<>>
  /\ logged' = <<>>
  /\ levels' \in {levels} \cup {LevelFrom(level) : level \in Levels}

Log_terminate ==
  /\ HasRing
  /\ ring' = NoRing
  /\ output' = [output EXCEPT !.dest = "none"]
  /\ levels' = [levels EXCEPT !.out = INVALID_LEVEL]
  /\ logged' = <<>> /\ printed' = <<>>

Log_setTraceLevel(level) ==
  /\ levels' = [trace |-> IF level < LOG_ERROR THEN level ELSE levels.trace, out |-> level]
  /\ UNCHANGED <<ring, output, logged, printed>>

Advance(index) == IF index + 1 = MaxEntries THEN 0 ELSE index + 1

\* next_index counts from 0; the slots of queue from 1
Log_pretrace(entry) ==
  [queue |-> [ring.queue EXCEPT ![ring.next + 1] = entry],
   start |-> IF ring.next = ring.start THEN Advance(ring.start)     \* the ring is full
             ELSE IF ring.start = -1 THEN 0 ELSE ring.start,
   next |-> Advance(ring.next)]

Printed(level) == level >= (IF levels.out = INVALID_LEVEL THEN levels.trace ELSE levels.out)

\* Log and Log_stackTrace
Log(level, reopened) ==
  /\ HasRing /\ level >= levels.trace
  /\ Len(logged) < MaxLogged
  /\ LET entry == Len(logged) + 1
     IN /\ ring' = Log_pretrace(entry)
        /\ logged' = Append(logged, entry)
        /\ IF Printed(level)
           THEN /\ output' = Log_output(output, entry, reopened)
                /\ printed' = IF output.dest = "file" THEN Append(printed, entry) ELSE printed
           ELSE UNCHANGED <<output, printed>>
  /\ UNCHANGED levels

TraceNext ==
  \/ \E dest \in {"none", "stdout", "file"}, reopened \in BOOLEAN : Log_initialize(dest, reopened)
  \/ Log_terminate
  \/ \E level \in Levels : Log_setTraceLevel(level)
  \/ \E level \in Levels, reopened \in BOOLEAN : Log(level, reopened)

TraceSpec == TraceInit /\ [][TraceNext]_traceVars

(***************************************************************************)
(* What must hold.                                                         *)
(***************************************************************************)
\* The entries a walk of the ring from start_index meets.
Slot(k) == (IF k < MaxEntries THEN k ELSE k - MaxEntries) + 1
Held == IF ring.start = ring.next THEN MaxEntries
        ELSE IF ring.start < ring.next THEN ring.next - ring.start ELSE MaxEntries - (ring.start - ring.next)
Recorded == IF ring.start = -1 THEN <<>> ELSE [i \in 1..Held |-> ring.queue[Slot(ring.start + i - 1)]]

LastOf(n, s) == SubSeq(s, Len(s) - n + 1, Len(s))
EndsWith(s, t) == Len(t) <= Len(s) /\ LastOf(Len(t), s) = t

\* Over wrapping, rotation (the rename of Log.c:363 succeeding), a trace file that
\* cannot be opened again and any number of restarts of the trace, the ring holds
\* exactly the last entries in order (Log.c:301-310), and the trace file preceded by
\* its backup, once there is one, ends with the last lines printed, with no line
\* missing between the two files, and never has more than max_lines_per_file lines
\* (Log.c:352-375).
TraceKept ==
  /\ HasRing => Recorded = LastOf(IF Len(logged) < MaxEntries THEN Len(logged) ELSE MaxEntries, logged)
  /\ Len(output.file) < MaxLines
  /\ output.dest = "file" =>
       LET kept == IF output.rotated THEN output.backup \o output.file ELSE output.file
       IN /\ Len(output.file) <= output.written
          /\ IF output.rotated THEN output.backup # <<>> /\ EndsWith(printed, kept) ELSE kept = printed
=============================================================================
