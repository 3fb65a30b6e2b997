---------------------------- MODULE EventTracker ----------------------------
(***************************************************************************)
(* platform_core/events/tracker.py in one process, with the writes of      *)
(* platform_core/db/supabase_client.py it leads to: events are put into a  *)
(* queue, a loop collects them into batches of its own and writes them,    *)
(* and a report flushes the queue before it reads.  A write is one query   *)
(* for the batch and, when that fails, one or two for each event, the last *)
(* resort being a list in the memory of the process.  Each query is a step *)
(* that may fail, or take effect and lose its reply.                       *)
(***************************************************************************)
EXTENDS Naturals, Sequences, FiniteSets, SequencesExt

CONSTANTS MaxEvents,  \* bound: events this process tracks
          MaxForeign, \* bound: rows of other processes
          Report,     \* tasks that run get_metrics_summary, each once
          Loop,       \* the task analytics_event_flush_loop
          Closer,     \* the task that shuts the server down
          Schemas,    \* what the database may be: the insertions that it accepts
          BatchSize,  \* BATCH_SIZE
          MaxFaults   \* bound: queries that go wrong

(* The events are numbered in the order in which they are tracked.         *)
Event == 1..MaxEvents
Foreign == (MaxEvents + 1)..(MaxEvents + MaxForeign)

Table == {"events", "bot_events"}

(* The inserts into "events", that of track_event into "bot_events", which *)
(* sends no id, and the "records" of other processes, which send one: a    *)
(* database that takes these takes the second too.                         *)
Insertion == Table \cup {"records"}

Task == {Loop, Closer} \cup Report

ASSUME TrackerAssumption ==
  /\ Loop \notin Report /\ Closer \notin Report /\ Loop # Closer
  /\ Schemas \subseteq SUBSET Insertion
  /\ \A s \in Schemas : "records" \in s => "bot_events" \in s
  /\ BatchSize \in Nat \ {0}
  /\ MaxEvents \in Nat /\ MaxForeign \in Nat /\ MaxFaults \in Nat

VARIABLES
  usable,   \* the insertions that are accepted; {} also stands for no database
  queue,    \* _event_queue
  loop,     \* what the flush loop awaits
  batch,    \* the flush loop's batch
  stage,    \* stage[t]: the query of task t in track_events_batch or in its report
  todo,     \* todo[t]: the events it still has to write
  rows,     \* rows[t]: the events of a table
  logs,     \* generation_logs
  memory,   \* _in_memory_events
  shown,    \* shown[r]: the rows report r has read
  stop,     \* how far the process has come in ending
  \* bookkeeping of the model
  tracked,    \* how many events were given to track
  unanswered, \* unanswered[e]: writes of e that took effect and lost their reply
  rewritten,  \* events the loop was cancelled over while writing them
  dropped,    \* events of a flush that was cancelled
  due,        \* due[r]: the last event tracked before report r began
  held,       \* held[r]: those other tasks held then
  faults

reports == <<shown, due, held>>
history == <<tracked, unanswered, rewritten, dropped>>
vars == <<usable, queue, loop, batch, stage, todo, rows, logs, memory, stop, reports, history, faults>>

TypeOK ==
  /\ usable \in Schemas
  /\ queue \in Seq(Event) /\ batch \in Seq(Event)
  /\ loop \in {"off", "get", "collect", "write", "last", "ended"}
  /\ stage \in [Task -> {"idle", "bulk", "single", "legacy", "read", "logs"}]
  /\ \A t \in {Loop, Closer} : stage[t] \notin {"read", "logs"}
  /\ todo \in [Task -> Seq(Event)]
  /\ rows \in [Table -> Seq(Event \cup Foreign)] /\ memory \in Seq(Event)
  /\ logs \in Seq(Foreign)
  /\ shown \in [Report -> [events : Seq(Event \cup Foreign), gens : Seq(Foreign),
                           from : {"nowhere", "database", "memory"}]]
  /\ stop \in {"up", "flushing", "quitting", "ending", "down"}
  /\ tracked \in 0..MaxEvents /\ unanswered \in [Event -> Nat]
  /\ rewritten \subseteq Event /\ dropped \subseteq Event
  /\ due \in [Report -> 0..MaxEvents] /\ held \in [Report -> SUBSET Event]
  /\ faults \in 0..MaxFaults

Unread == [events |-> <<>>, gens |-> <<>>, from |-> "nowhere"]

Init ==
  /\ usable \in Schemas
  /\ queue = <<>> /\ loop = "off" /\ batch = <<>>
  /\ stage = [t \in Task |-> "idle"] /\ todo = [t \in Task |-> <<>>]
  /\ rows = [t \in Table |-> <<>>] /\ logs = <<>> /\ memory = <<>>
  /\ shown = [r \in Report |-> Unread] /\ stop = "up"
  /\ tracked = 0 /\ unanswered = [e \in Event |-> 0] /\ rewritten = {} /\ dropped = {}
  /\ due = [r \in Report |-> 0] /\ held = [r \in Report |-> {}]
  /\ faults = 0

-----------------------------------------------------------------------------
(* A query is answered, takes effect with its reply lost, or fails.  An    *)
(* insert into a table that is not usable always fails.                    *)
Reply == {"ok", "lost", "refused"}

Charged(reply) == \/ reply = "ok" /\ UNCHANGED faults
                  \/ reply # "ok" /\ faults < MaxFaults /\ faults' = faults + 1

Insert(table, new, reply) ==
  IF table \in usable
  THEN /\ Charged(reply)
       /\ rows' = IF reply = "refused" THEN rows ELSE [rows EXCEPT ![table] = @ \o new]
       /\ unanswered' = IF reply = "lost"
                        THEN [e \in Event |-> unanswered[e] + IF e \in ToSet(new) THEN 1 ELSE 0]
                        ELSE unanswered
  ELSE reply = "refused" /\ UNCHANGED <<rows, unanswered, faults>>

(* Variant for mutation: every flush goes on like that of a report.        *)
AfterFlushRead(t) == "read"

(* After its flush a report goes on to its reads.                          *)
AfterFlush(t) == IF t \in Report THEN "read" ELSE "idle"

(* track_events_batch is called with b; with no events _flush_batch        *)
(* returns at once.                                                        *)
Flush(t, b) == /\ stage' = [stage EXCEPT ![t] = IF b = <<>> THEN AfterFlush(t) ELSE "bulk"]
               /\ todo' = [todo EXCEPT ![t] = b]

(* Cancelled tasks only run their handlers of CancelledError.              *)
Running(t) == CASE t = Loop -> stop \in {"up", "flushing", "ending"}
                [] t = Closer -> stop = "flushing"
                [] OTHER -> stop = "up"

InsertBatch(t) ==
  /\ Running(t) /\ stage[t] = "bulk"
  /\ \E reply \in Reply :
       /\ Insert("events", todo[t], reply)
       /\ IF reply = "ok"
          THEN /\ stage' = [stage EXCEPT ![t] = AfterFlush(t)]
               /\ todo' = [todo EXCEPT ![t] = <<>>]
          ELSE stage' = [stage EXCEPT ![t] = "single"] /\ UNCHANGED todo
  /\ UNCHANGED <<usable, queue, loop, batch, logs, memory, stop, reports, tracked, rewritten, dropped>>

(* The loop over the events ends after the last one.                       *)
NextEvent(t) ==
  /\ todo' = [todo EXCEPT ![t] = Tail(@)]
  /\ stage' = [stage EXCEPT ![t] = IF Len(todo[t]) = 1 THEN AfterFlush(t) ELSE "single"]

InsertOne(t) ==
  /\ Running(t) /\ stage[t] = "single"
  /\ \E reply \in Reply :
       /\ Insert("events", <<Head(todo[t])>>, reply)
       /\ IF reply = "ok" THEN NextEvent(t)
          ELSE stage' = [stage EXCEPT ![t] = "legacy"] /\ UNCHANGED todo
  /\ UNCHANGED <<usable, queue, loop, batch, logs, memory, stop, reports, tracked, rewritten, dropped>>

(* Variant for mutation: after a failed insert into both tables the event  *)
(* is only logged.                                                         *)
InsertLegacyOrForget(t) ==
  /\ Running(t) /\ stage[t] = "legacy"
  /\ \E reply \in Reply : Insert("bot_events", <<Head(todo[t])>>, reply)
  /\ NextEvent(t)
  /\ UNCHANGED <<usable, queue, loop, batch, logs, memory, stop, reports, tracked, rewritten, dropped>>

InsertLegacy(t) ==
  /\ Running(t) /\ stage[t] = "legacy"
  /\ \E reply \in Reply :
       /\ Insert("bot_events", <<Head(todo[t])>>, reply)
       /\ memory' = IF reply = "ok" THEN memory ELSE Append(memory, Head(todo[t]))
  /\ NextEvent(t)
  /\ UNCHANGED <<usable, queue, loop, batch, logs, stop, reports, tracked, rewritten, dropped>>

-----------------------------------------------------------------------------
(* track: no await between the look at the flush task and the put.         *)
Track ==
  /\ stop = "up" /\ tracked < MaxEvents
  /\ tracked' = tracked + 1
  /\ queue' = Append(queue, tracked')
  /\ loop' = IF loop = "off" THEN "get" ELSE loop
  /\ UNCHANGED <<usable, batch, stage, todo, rows, logs, memory, stop, reports,
                 unanswered, rewritten, dropped, faults>>

(* The flush loop.  It takes what the queue holds, then waits up to        *)
(* FLUSH_INTERVAL for more.                                                *)
Take(n) ==
  /\ batch' = batch \o SubSeq(queue, 1, n)
  /\ queue' = SubSeq(queue, n + 1, Len(queue))
  /\ IF Len(batch') >= BatchSize
     THEN loop' = "write" /\ Flush(Loop, batch')
     ELSE loop' = "collect" /\ UNCHANGED <<stage, todo>>

GetFirst ==
  /\ loop = "get" /\ queue # <<>> /\ Running(Loop)
  /\ Take(IF Len(queue) < BatchSize THEN Len(queue) ELSE BatchSize)
  /\ UNCHANGED <<usable, rows, logs, memory, stop, reports, history, faults>>

GetMore ==
  /\ loop = "collect" /\ queue # <<>> /\ Running(Loop)
  /\ Take(1)
  /\ UNCHANGED <<usable, rows, logs, memory, stop, reports, history, faults>>

(* Variant for mutation: only a full batch is written.                     *)
IntervalOverIfFull ==
  /\ loop = "collect" /\ Running(Loop) /\ Len(batch) >= BatchSize
  /\ loop' = "write" /\ Flush(Loop, batch)
  /\ UNCHANGED <<usable, queue, batch, rows, logs, memory, stop, reports, history, faults>>

IntervalOver ==
  /\ loop = "collect" /\ Running(Loop)
  /\ loop' = "write" /\ Flush(Loop, batch)
  /\ UNCHANGED <<usable, queue, batch, rows, logs, memory, stop, reports, history, faults>>

(* Variant for mutation: the batch is not emptied.                         *)
FlushedKeepingBatch ==
  /\ loop \in {"write", "last"} /\ stage[Loop] = "idle" /\ Running(Loop)
  /\ loop' = IF loop = "last" THEN "ended" ELSE "get"
  /\ UNCHANGED <<usable, queue, batch, stage, todo, rows, logs, memory, stop, reports, history, faults>>

(* _flush_batch returns: only now the batch is forgotten.                  *)
Flushed ==
  /\ loop \in {"write", "last"} /\ stage[Loop] = "idle" /\ Running(Loop)
  /\ loop' = IF loop = "last" THEN "ended" ELSE "get"
  /\ batch' = <<>>
  /\ UNCHANGED <<usable, queue, stage, todo, rows, logs, memory, stop, reports, history, faults>>

-----------------------------------------------------------------------------
(* Variant for mutation: no flush before a report.                         *)
FlushNothing(t) == UNCHANGED queue /\ Flush(t, <<>>)

(* flush_events empties the queue in one step.                             *)
FlushEvents(t) == queue' = <<>> /\ Flush(t, queue)

(* The events that tasks other than t are writing or collecting.           *)
Held(t) == ToSet(batch) \cup UNION {ToSet(todo[u]) : u \in Task \ {t}}

BeginReport(r) ==
  /\ stop = "up" /\ stage[r] = "idle" /\ shown[r] = Unread
  /\ FlushEvents(r)
  /\ due' = [due EXCEPT ![r] = tracked]
  /\ held' = [held EXCEPT ![r] = Held(r)]
  /\ UNCHANGED <<usable, loop, batch, rows, logs, memory, stop, shown, history, faults>>

(* The read of bot_events; after an exception the memory is used for all.  *)
ReadEvents(r) ==
  /\ Running(r) /\ stage[r] = "read"
  /\ \E reply \in {"ok", "refused"} :
       /\ IF usable = {} THEN reply = "refused" /\ UNCHANGED faults ELSE Charged(reply)
       /\ IF reply = "ok"
          THEN /\ stage' = [stage EXCEPT ![r] = "logs"]
               /\ shown' = [shown EXCEPT ![r].events = rows["bot_events"], ![r].from = "database"]
          ELSE /\ stage' = [stage EXCEPT ![r] = "idle"]
               /\ shown' = [shown EXCEPT ![r].events = memory, ![r].from = "memory"]
  /\ UNCHANGED <<usable, queue, loop, batch, todo, rows, logs, memory, stop, due, held, history>>

ReadLogs(r) ==
  /\ Running(r) /\ stage[r] = "logs"
  /\ \E reply \in {"ok", "refused"} :
       /\ Charged(reply)
       /\ shown' = IF reply = "ok" THEN [shown EXCEPT ![r].gens = logs]
                   ELSE [shown EXCEPT ![r].events = memory, ![r].from = "memory"]
  /\ stage' = [stage EXCEPT ![r] = "idle"]
  /\ UNCHANGED <<usable, queue, loop, batch, todo, rows, logs, memory, stop, due, held, history>>

(* What other processes write, as far as it reaches the database: an event *)
(* of another bot, by the same fallback insert or by the record_event of a *)
(* worker, and, in a call of its own, the log_generation of a worker.      *)
(* What is refused stays in the memory of its process.                     *)
RecordElsewhere(e) ==
  /\ stop = "up" /\ "bot_events" \in usable /\ e \notin ToSet(rows["bot_events"])
  /\ rows' = [rows EXCEPT !["bot_events"] = Append(@, e)]
  /\ UNCHANGED <<usable, queue, loop, batch, stage, todo, logs, memory, stop, reports, history, faults>>

LogElsewhere(e) ==
  /\ stop = "up" /\ "records" \in usable /\ e \notin ToSet(logs)
  /\ logs' = Append(logs, e)
  /\ UNCHANGED <<usable, queue, loop, batch, stage, todo, rows, memory, stop, reports, history, faults>>

-----------------------------------------------------------------------------
(* The server's shutdown_event_tracker, once the requests are answered.    *)
Shutdown ==
  /\ stop = "up" /\ \A r \in Report : stage[r] = "idle"
  /\ stop' = "flushing"
  /\ FlushEvents(Closer)
  /\ UNCHANGED <<usable, loop, batch, rows, logs, memory, reports, history, faults>>

(* A polling bot ends: asyncio.run cancels every task.                     *)
Quit ==
  /\ stop = "up" /\ stop' = "quitting"
  /\ UNCHANGED <<usable, queue, loop, batch, stage, todo, rows, logs, memory, reports, history, faults>>

(* The worker thread of a cancelled task's query runs on: the insert takes *)
(* effect or does not.                                                     *)
InFlight(t) == CASE stage[t] = "bulk" -> <<"events", todo[t]>>
                 [] stage[t] = "single" -> <<"events", <<Head(todo[t])>>>>
                 [] stage[t] = "legacy" -> <<"bot_events", <<Head(todo[t])>>>>
                 [] OTHER -> <<"bot_events", <<>>>>

CutShort(t) == \/ UNCHANGED rows
               \/ /\ InFlight(t)[1] \in usable
                  /\ rows' = [rows EXCEPT ![InFlight(t)[1]] = @ \o InFlight(t)[2]]

CancelReport(r) ==
  /\ stop = "quitting" /\ stage[r] # "idle"
  /\ CutShort(r)
  /\ dropped' = dropped \cup ToSet(todo[r])
  /\ stage' = [stage EXCEPT ![r] = "idle"] /\ todo' = [todo EXCEPT ![r] = <<>>]
  /\ UNCHANGED <<usable, queue, loop, batch, logs, memory, stop, reports,
                 tracked, unanswered, rewritten, faults>>

(* Variant for mutation: the handler writes what is left in the queue and  *)
(* leaves the batch to the write that was cut short.                       *)
CancelLoopLosingBatch ==
  /\ \/ stop = "flushing" /\ stage[Closer] = "idle"
     \/ stop = "quitting" /\ \A r \in Report : stage[r] = "idle"
  /\ stop' = "ending"
  /\ IF loop = "off" THEN UNCHANGED <<queue, loop, batch, stage, todo, rows, rewritten>>
     ELSE /\ CutShort(Loop)
          /\ rewritten' = IF loop = "write" THEN ToSet(batch) ELSE {}
          /\ batch' = queue /\ queue' = <<>>
          /\ loop' = "last" /\ Flush(Loop, batch')
  /\ UNCHANGED <<usable, logs, memory, reports, tracked, unanswered, dropped, faults>>

(* The loop is cancelled: its handler adds what the queue still holds to   *)
(* the batch and writes all of it, also what was being written.            *)
CancelLoop ==
  /\ \/ stop = "flushing" /\ stage[Closer] = "idle"
     \/ stop = "quitting" /\ \A r \in Report : stage[r] = "idle"
  /\ stop' = "ending"
  /\ IF loop = "off" THEN UNCHANGED <<queue, loop, batch, stage, todo, rows, rewritten>>
     ELSE /\ CutShort(Loop)
          /\ rewritten' = IF loop = "write" THEN ToSet(batch) ELSE {}
          /\ batch' = batch \o queue /\ queue' = <<>>
          /\ loop' = "last" /\ Flush(Loop, batch')
  /\ UNCHANGED <<usable, logs, memory, reports, tracked, unanswered, dropped, faults>>

(* The process ends, and its memory with it.                               *)
Exit ==
  /\ stop = "ending" /\ loop \in {"off", "ended"}
  /\ stop' = "down"
  /\ UNCHANGED <<usable, queue, loop, batch, stage, todo, rows, logs, memory, reports, history, faults>>

Over == stop = "down" /\ UNCHANGED vars

-----------------------------------------------------------------------------
Write(t) == InsertBatch(t) \/ InsertOne(t) \/ InsertLegacy(t)

LoopStep == GetFirst \/ GetMore \/ IntervalOver \/ Flushed \/ Write(Loop)

ReportStep(r) == Write(r) \/ ReadEvents(r) \/ ReadLogs(r)

Next ==
  \/ Track
  \/ \E e \in Foreign : RecordElsewhere(e) \/ LogElsewhere(e)
  \/ LoopStep
  \/ \E r \in Report : BeginReport(r) \/ ReportStep(r) \/ CancelReport(r)
  \/ Shutdown \/ Write(Closer) \/ Quit \/ CancelLoop \/ Exit \/ Over

Spec == Init /\ [][Next]_vars

(* The event loop runs a task that is ready, the deadline passes, and a    *)
(* query returns.  Nothing makes a process end.                            *)
Fairness ==
  /\ WF_vars(LoopStep)
  /\ \A r \in Report : WF_vars(ReportStep(r))

FairSpec == Spec /\ Fairness

-----------------------------------------------------------------------------
Count(seq, e) == Cardinality({i \in DOMAIN seq : seq[i] = e})

Copies(e) == Count(rows["events"], e) + Count(rows["bot_events"], e) + Count(memory, e)

InTables(e) == e \in ToSet(rows["events"]) \cup ToSet(rows["bot_events"])

Stored(e) == InTables(e) \/ e \in ToSet(memory)

(* An event is stored once, and once more for each write of it that took   *)
(* effect without an answer (the insert of the batch is followed by one    *)
(* per event, supabase_client.py:490-499), and once more when the loop was *)
(* cancelled in the middle of writing it (tracker.py:105-115).             *)
StoredOnce ==
  \A e \in Event : Copies(e) <= 1 + unanswered[e] + IF e \in rewritten THEN 1 ELSE 0

(* An event handed to track waits in the queue or in a batch, or is        *)
(* stored, unless the report that was flushing it was cancelled: no        *)
(* sequence of failing queries, full batches and flushes loses it.         *)
NoEventLost ==
  \A e \in 1..tracked :
    \/ e \in ToSet(queue) \cup ToSet(batch) \cup dropped
    \/ \E t \in Task : e \in ToSet(todo[t])
    \/ Stored(e)

(* Once a process has ended in order, each event is in the database,       *)
(* unless a query failed or a report's flush was cut short: neither the    *)
(* batch the loop was collecting nor the one it was writing is left behind *)
(* (shutdown_event_tracker, and asyncio.run for polling bots).             *)
ShutdownPersists ==
  stop = "down" /\ usable # {} /\ faults = 0 => \A e \in 1..tracked \ dropped : InTables(e)

(* A report shows every event tracked before it began, but those another   *)
(* task was collecting or writing at that moment, which flush_events does  *)
(* not wait for; rows of the table events, which it does not read; and,    *)
(* when a query failed, what is on the other side of the failure.          *)
ReportMissesOnlyHeld ==
  \A r \in Report :
    stage[r] = "idle" /\ shown[r].from # "nowhere" =>
      \A e \in 1..due[r] \ (ToSet(shown[r].events) \cup held[r]) :
        \/ e \in ToSet(rows["events"])
        \/ faults > 0

(* As long as nothing ends the process, a tracked event is stored in the   *)
(* end, also when no other event follows it to fill the batch              *)
(* (FLUSH_INTERVAL, tracker.py:87-98).                                     *)
TrackedIsStored ==
  \A e \in Event : e <= tracked ~> Stored(e) \/ stop # "up"
=============================================================================
