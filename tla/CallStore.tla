----------------------------- MODULE CallStore -----------------------------
(***************************************************************************)
(* Call persistence: vaani/db/repository.py, class CallRepository.         *)
(*                                                                         *)
(* The calls of one process share a bounded queue of turn rows, which one  *)
(* background task writes to the database in batches.  A call creates its  *)
(* row when it connects, queues two turn rows for each exchange without    *)
(* waiting, and when it is over waits for the queue to be written before   *)
(* it completes its row.  Calls, the writer, the retention sweep and the   *)
(* shutdown interleave at their awaits; the process may crash.             *)
(***************************************************************************)
EXTENDS Naturals, Sequences, FiniteSets

CONSTANTS
  Calls,      \* the calls placed, over the lifetime of the database
  Exchanges,  \* bound on the exchanges of one call
  QueueMax,   \* _QUEUE_MAX, 2000 in the code
  BatchMax,   \* _BATCH_MAX, 64 in the code
  Enforced,   \* the database enforces foreign keys: PostgreSQL does, SQLite does not
  Recorded,   \* record_calls: the caller's audio is kept in a file
  Faults      \* what may go wrong, some of AllFaults

\* A transaction fails that creates a row, writes a batch or completes a row;
\* a call is cancelled as it finishes; the process crashes.
AllFaults == {"create", "batch", "update", "cut", "crash"}

ASSUME ExchangesAssumption == Exchanges \in Nat
ASSUME BoundsAssumption == QueueMax \in Nat \ {0} /\ BatchMax \in Nat \ {0}
ASSUME ModeAssumption == Enforced \in BOOLEAN /\ Recorded \in BOOLEAN
ASSUME FaultsAssumption == Faults \subseteq AllFaults

\* The turn rows of call c, the caller's side and the agent's of each exchange.
Row(c, i)  == <<c, i>>
TurnRow    == Calls \X (0..(2 * Exchanges))
Said(c, n) == {Row(c, i) : i \in {j \in 0..(2 * Exchanges) : j < 2 * n}}

VARIABLES
  stage,      \* where each call is: see Stage
  said,       \* exchanges of each call so far
  queue, unfinished, batch,   \* _queue, its count of unfinished tasks, the writer's batch
  rows,       \* the database: each call's row ...
  turns,      \* ... and the turn rows
  files,      \* the calls with a recording on disk
  missing,    \* turn rows dropped from a full queue or lost with a failed batch
  old,        \* the calls whose start is past the retention window
  process     \* "up", shutting down, or "down"

vars == <<stage, said, queue, unfinished, batch, rows, turns, files, missing, old, process>>

Stage   == {"idle", "creating", "live", "flushing", "flushed", "closed", "lost"}
Over    == {"closed", "lost"}
Process == {"up", "flushing", "flushed", "down"}

Init ==
  /\ stage = [c \in Calls |-> "idle"]
  /\ said = [c \in Calls |-> 0]
  /\ queue = <<>> /\ unfinished = 0 /\ batch = <<>>
  /\ rows = [c \in Calls |-> "none"]
  /\ turns = {} /\ files = {} /\ missing = {} /\ old = {}
  /\ process = "up"

-----------------------------------------------------------------------------
(* A call.                                                                 *)

CallConnects(c) ==
  /\ process = "up" /\ stage[c] = "idle"
  /\ stage' = [stage EXCEPT ![c] = "creating"]
  /\ UNCHANGED <<said, queue, unfinished, batch, rows, turns, files, missing, old, process>>

\* create_call, whose failure the session suppresses: the call goes on.
CreateCall(c) ==
  /\ process # "down" /\ stage[c] = "creating"
  /\ stage' = [stage EXCEPT ![c] = "live"]
  /\ \/ rows' = [rows EXCEPT ![c] = "open"]
     \/ "create" \in Faults /\ UNCHANGED rows
  /\ UNCHANGED <<said, queue, unfinished, batch, turns, files, missing, old, process>>

\* append_turn, twice without an await between: each row takes a place in the
\* queue, or is dropped when there is none.
AppendTurns(c) ==
  /\ process # "down" /\ stage[c] = "live" /\ said[c] < Exchanges
  /\ said' = [said EXCEPT ![c] = @ + 1]
  /\ LET caller == Row(c, 2 * said[c])
         agent  == Row(c, 2 * said[c] + 1)
         room   == QueueMax - Len(queue)
     IN  \/ /\ room >= 2
            /\ queue' = queue \o <<caller, agent>> /\ unfinished' = unfinished + 2
            /\ UNCHANGED missing
         \/ /\ room = 1
            /\ queue' = Append(queue, caller) /\ unfinished' = unfinished + 1
            /\ missing' = missing \cup {agent}
         \/ /\ room <= 0
            /\ missing' = missing \cup {caller, agent}
            /\ UNCHANGED <<queue, unfinished>>
  /\ UNCHANGED <<stage, batch, rows, turns, files, old, process>>

\* Mutant: the row is completed without waiting for the turns.
FinishAtOnce(c) ==
  /\ process # "down" /\ stage[c] = "live"
  /\ files' = IF Recorded THEN files \cup {c} ELSE files
  /\ stage' = [stage EXCEPT ![c] = "flushed"]
  /\ UNCHANGED <<said, queue, unfinished, batch, rows, turns, missing, old, process>>

\* The call is over: its recording is saved, then finish_call waits in flush(),
\* if there is anything to wait for.
FinishCall(c) ==
  /\ process # "down" /\ stage[c] = "live"
  /\ files' = IF Recorded THEN files \cup {c} ELSE files
  /\ stage' = [stage EXCEPT ![c] = IF unfinished = 0 THEN "flushed" ELSE "flushing"]
  /\ UNCHANGED <<said, queue, unfinished, batch, rows, turns, missing, old, process>>

\* The rest of finish_call: a call without a row has none to complete.
CompleteRow(c) ==
  /\ process # "down" /\ stage[c] = "flushed"
  /\ \/ /\ rows' = [rows EXCEPT ![c] = IF @ = "none" THEN @ ELSE "complete"]
        /\ stage' = [stage EXCEPT ![c] = "closed"]
     \/ /\ "update" \in Faults
        /\ stage' = [stage EXCEPT ![c] = "lost"]
        /\ UNCHANGED rows
  /\ UNCHANGED <<said, queue, unfinished, batch, turns, files, missing, old, process>>

\* The transport's patience ends and the session is cancelled.
CutShort(c) ==
  /\ "cut" \in Faults
  /\ stage[c] \in {"creating", "flushing", "flushed"}
  /\ stage' = [stage EXCEPT ![c] = "lost"]
  /\ UNCHANGED <<said, queue, unfinished, batch, rows, turns, files, missing, old, process>>

-----------------------------------------------------------------------------
(* The writer, _drain().                                                   *)

Items(q) == {q[i] : i \in 1..Len(q)}
Least(m, n) == IF m < n THEN m ELSE n

\* Mutant: the batch is taken from the end that was filled last.
WriterTakesLast ==
  /\ process # "down"
  /\ batch = <<>> /\ queue # <<>>
  /\ LET n == Least(Len(queue), BatchMax)
     IN  /\ batch' = SubSeq(queue, Len(queue) - n + 1, Len(queue))
         /\ queue' = SubSeq(queue, 1, Len(queue) - n)
  /\ UNCHANGED <<stage, said, unfinished, rows, turns, files, missing, old, process>>

WriterTakes ==
  /\ process # "down"
  /\ batch = <<>> /\ queue # <<>>
  /\ LET n == Least(Len(queue), BatchMax)
     IN  /\ batch' = SubSeq(queue, 1, n)
         /\ queue' = SubSeq(queue, n + 1, Len(queue))
  /\ UNCHANGED <<stage, said, unfinished, rows, turns, files, missing, old, process>>

\* Mutant: task_done() is forgotten.
BatchNotDone ==
  /\ batch' = <<>>
  /\ UNCHANGED <<unfinished, stage, process>>

\* task_done() for each row of the batch: those who wait in flush() are woken
\* when nothing is left unfinished.
BatchDone ==
  /\ batch' = <<>>
  /\ unfinished' = unfinished - Len(batch)
  /\ LET flushed == unfinished = Len(batch)
     IN  /\ stage' = [c \in Calls |->
                        IF flushed /\ stage[c] = "flushing" THEN "flushed" ELSE stage[c]]
         /\ process' = IF flushed /\ process = "flushing" THEN "flushed" ELSE process

Orphaned == Enforced /\ \E r \in Items(batch) : rows[r[1]] = "none"

WriterCommits ==
  /\ batch # <<>> /\ process # "down" /\ ~Orphaned
  /\ turns' = turns \cup Items(batch)
  /\ BatchDone
  /\ UNCHANGED <<said, queue, rows, files, missing, old>>

\* The exception is logged and the batch is gone, other calls' rows with it.
WriterFails ==
  /\ batch # <<>> /\ process # "down"
  /\ Orphaned \/ "batch" \in Faults
  /\ missing' = missing \cup Items(batch)
  /\ BatchDone
  /\ UNCHANGED <<said, queue, rows, turns, files, old>>

-----------------------------------------------------------------------------
(* Retention, shutdown and crash.                                          *)

\* The retention window is at least a day: no call lasts that long, and no row of
\* one waits that long to be written.
GrowsOld(c) ==
  /\ stage[c] \in Over /\ c \notin old
  /\ \A r \in Items(queue) \cup Items(batch) : r[1] # c
  /\ old' = old \cup {c}
  /\ UNCHANGED <<stage, said, queue, unfinished, batch, rows, turns, files, missing, process>>

Stale == {c \in old : rows[c] # "none"}

\* The path of its recording in a call's row: CallRecord has no such field, so
\* finish_call always stores None.
RecordingPath(c) == {}

\* purge_older_than: turns and rows in one transaction, then the files their
\* rows name.
Purge ==
  /\ process = "up" /\ Stale # {}
  /\ turns' = {r \in turns : r[1] \notin Stale}
  /\ rows' = [c \in Calls |-> IF c \in Stale THEN "none" ELSE rows[c]]
  /\ files' = files \ UNION {RecordingPath(c) : c \in Stale}
  /\ UNCHANGED <<stage, said, queue, unfinished, batch, missing, old, process>>

\* close(): flush, then cancel the writer and dispose of the engine.
Close ==
  /\ process = "up"
  /\ process' = IF unfinished = 0 THEN "flushed" ELSE "flushing"
  /\ UNCHANGED <<stage, said, queue, unfinished, batch, rows, turns, files, missing, old>>

\* The process is gone, and what it had not written with it.
Gone ==
  /\ process' = "down"
  /\ queue' = <<>> /\ batch' = <<>> /\ unfinished' = 0
  /\ stage' = [c \in Calls |-> IF stage[c] \in {"idle"} \cup Over THEN stage[c] ELSE "lost"]
  /\ UNCHANGED <<said, rows, turns, files, missing, old>>

WriterStops == process = "flushed" /\ Gone
Crash       == "crash" \in Faults /\ process # "down" /\ Gone

Restart ==
  /\ process = "down"
  /\ process' = "up"
  /\ UNCHANGED <<stage, said, queue, unfinished, batch, rows, turns, files, missing, old>>

-----------------------------------------------------------------------------
CallStep(c) ==
  \/ CallConnects(c) \/ CreateCall(c) \/ AppendTurns(c)
  \/ FinishCall(c) \/ CompleteRow(c) \/ CutShort(c) \/ GrowsOld(c)

WriterStep == WriterTakes \/ WriterCommits \/ WriterFails

Next ==
  \/ \E c \in Calls : CallStep(c)
  \/ WriterStep
  \/ Purge \/ Close \/ WriterStops \/ Crash \/ Restart

Spec == Init /\ [][Next]_vars

\* The writer is never blocked for good: its transactions end, one way or the
\* other, and the loop it runs on turns.
FairSpec == Spec /\ WF_vars(WriterStep)

-----------------------------------------------------------------------------
TypeOK ==
  /\ stage \in [Calls -> Stage]
  /\ said \in [Calls -> 0..Exchanges]
  /\ queue \in Seq(TurnRow)
  /\ unfinished \in Nat
  /\ batch \in Seq(TurnRow)
  /\ rows \in [Calls -> {"none", "open", "complete"}]
  /\ turns \subseteq TurnRow /\ missing \subseteq TurnRow
  /\ files \subseteq Calls /\ old \subseteq Calls
  /\ process \in Process

\* A completed call has its conversation: when finish_call completes a row,
\* every turn of the call is in the database, save those that a full queue or a
\* failed batch lost, whatever the other calls and the writer were doing.
CompleteHasTurns == \A c \in Calls :
  rows[c] = "complete" => Said(c, said[c]) \subseteq turns \cup missing

\* What is stored of a conversation has no holes but the rows known to be
\* missing: a crash, a full queue or a failed batch leaves a beginning, never an
\* answer without its question.
StoredInOrder == \A c \in Calls : \A i, j \in 0..(2 * Exchanges) :
  i < j /\ Row(c, j) \in turns => Row(c, i) \in turns \cup missing

\* What the database has of a conversation can be read: it is a beginning of it, and
\* all of it once the call is completed, but for rows known to be missing.
StoredWhole == CompleteHasTurns /\ StoredInOrder

\* The turns of a call that the database has.
Stored(c) == {r \in turns : r[1] = c}

\* "Wait for queued turns to land": nothing of a call is still on its way when its row is
\* completed, so that what is read of it then is all that there will ever be, until a
\* sweep takes the row and the turns at once.
CompleteIsFinal ==
  [][\A c \in Calls : rows[c] = "complete" =>
       \/ rows'[c] = "complete" /\ Stored(c)' = Stored(c)
       \/ rows'[c] = "none" /\ Stored(c)' = {}]_vars

\* finish_call never waits forever for the turns of others.
FlushEnds == \A c \in Calls : stage[c] = "flushing" ~> stage[c] # "flushing"
=============================================================================
