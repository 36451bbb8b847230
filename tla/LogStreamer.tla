----------------------------- MODULE LogStreamer -----------------------------
(***************************************************************************)
(* The log streamer of a run (logging/log-streamer.ts), the executor that  *)
(* pushes lines into it and shuts it down, and the handler that stores the *)
(* batches (api/runner/jobs/[runId]/logs/route.ts).  A call that fails at  *)
(* the runner may have a handler that is still at work: it inserts its     *)
(* batch later, or never.  Lines are numbered in the order they are pushed *)
(* in.                                                                     *)
(***************************************************************************)
EXTENDS Integers, Sequences, Functions

CONSTANTS
  LOG_BATCH_MAX_LINES, \* the streamer's maxBatchSize
  MaxEntries,          \* what BatchLogSchema accepts in a batch
  MaxLines             \* bound on the lines of a run

ASSUME LinesAssumption == MaxLines \in Nat

VARIABLES
  pushed,      \* how many lines were pushed
  buffer,
  sending,     \* the batches of the calls of sendLogs that have not returned
  isFlushing,
  ticking,     \* is the timer set?
  executor,    \* "running", "closing" (awaits shutdown) or "closed"
  adrift,        \* the batches of the calls that failed, with a handler at work
  overdue,     \* history: the lines of such batches
  run_logs     \* the table

table == <<adrift, overdue, run_logs>>
logVars == <<pushed, buffer, sending, isFlushing, ticking, executor, table>>

LogTypeOK ==
  /\ pushed \in 0 .. MaxLines
  /\ buffer \in Seq(1 .. MaxLines) /\ run_logs \in Seq(1 .. MaxLines)
  /\ sending \in SUBSET Seq(1 .. MaxLines) /\ adrift \in SUBSET Seq(1 .. MaxLines)
  /\ overdue \subseteq 1 .. MaxLines
  /\ isFlushing \in BOOLEAN /\ ticking \in BOOLEAN
  /\ executor \in {"running", "closing", "closed"}

LogInit ==
  /\ pushed = 0 /\ buffer = <<>> /\ sending = {} /\ run_logs = <<>>
  /\ adrift = {} /\ overdue = {}
  /\ isFlushing = FALSE /\ ticking = TRUE
  /\ executor = "running"

\* Mutant of Flush: it does not look at isFlushing.
Flush_Always(lines) ==
  IF lines = <<>>
  THEN buffer' = lines /\ UNCHANGED <<sending, isFlushing>>
  ELSE buffer' = <<>> /\ sending' = sending \cup {lines} /\ isFlushing' = TRUE

\* flush: the whole buffer is sent, unless a batch is on its way already.
Flush(lines) ==
  IF isFlushing \/ lines = <<>>
  THEN buffer' = lines /\ UNCHANGED <<sending, isFlushing>>
  ELSE buffer' = <<>> /\ sending' = sending \cup {lines} /\ isFlushing' = TRUE

Line == Append(buffer, pushed + 1)

Push ==
  /\ executor = "running" /\ pushed < MaxLines
  /\ pushed' = pushed + 1
  /\ IF Len(Line) >= LOG_BATCH_MAX_LINES
     THEN Flush(Line)
     ELSE buffer' = Line /\ UNCHANGED <<sending, isFlushing>>
  /\ UNCHANGED <<ticking, executor, table>>

Interval ==
  /\ ticking
  /\ Flush(buffer)
  /\ UNCHANGED <<pushed, ticking, executor, table>>

\* The handler inserts a batch that the schema accepts.
Insert(batch) == Len(batch) <= MaxEntries /\ run_logs' = run_logs \o batch

\* A call of sendLogs returns, or throws: its batch is stored; or never will be;
\* or its handler is still at work.  It is not sent again in any case, and the
\* next one may be sent.
EndSend(batch) ==
  /\ sending' = sending \ {batch}
  /\ isFlushing' = FALSE
  /\ \/ Insert(batch) /\ UNCHANGED <<adrift, overdue>>
     \/ UNCHANGED table
     \/ /\ adrift' = adrift \cup {batch} /\ overdue' = overdue \cup Range(batch)
        /\ UNCHANGED run_logs
  /\ executor' = IF executor = "closing" THEN "closed" ELSE executor
  /\ UNCHANGED <<pushed, buffer, ticking>>

LateInsert(batch) ==
  /\ Insert(batch)
  /\ adrift' = adrift \ {batch}
  /\ UNCHANGED <<pushed, buffer, sending, isFlushing, ticking, executor, overdue>>

\* shutdown awaits the flush it starts, if it starts one; the executor calls
\* it when the tasks are over, and again after a line on what failed then.
Shutdown(lines) ==
  /\ ticking' = FALSE
  /\ Flush(lines)
  /\ executor' = IF lines # <<>> /\ ~isFlushing THEN "closing" ELSE "closed"
  /\ UNCHANGED table

Close == executor = "running" /\ Shutdown(buffer) /\ UNCHANGED pushed

CloseAgain ==
  /\ executor = "closed" /\ pushed < MaxLines
  /\ pushed' = pushed + 1
  /\ Shutdown(Line)

Logging ==
  \/ Push \/ Interval \/ Close \/ CloseAgain
  \/ \E batch \in sending : EndSend(batch)
  \/ \E batch \in adrift : LateInsert(batch)

LogSpec == LogInit /\ [][Logging]_logVars

-----------------------------------------------------------------------------
(* Properties. *)

\* Lines are stored in the order they were pushed in, none of them twice,
\* although the timer, full buffers and shutdown all start flushes; what is
\* stored behind a later line was in a batch whose call had failed.
LogsInOrder ==
  \A i, j \in DOMAIN run_logs : i < j =>
     \/ run_logs[i] < run_logs[j]
     \/ run_logs[j] < run_logs[i] /\ run_logs[j] \in overdue
=============================================================================
