------------------------- MODULE MetricsAccumulator -------------------------
(***************************************************************************)
(* The metrics of platform_core/metrics/prometheus.py.  Each process adds  *)
(* what it records to counters of its own; its flusher, a daemon thread,   *)
(* and its event loop, before a scrape and at the shutdown, swap them out  *)
(* under a lock and add them to the hashes all processes share in Redis,   *)
(* in a pipeline that is no transaction.  Of the seven metrics the model   *)
(* keeps the number of events, the histogram of the durations (one bucket  *)
(* stands for all below +Inf, and its sum and count go with the events)    *)
(* and the queue gauge; generations and stars are counted like events.     *)
(***************************************************************************)
EXTENDS Naturals, FiniteSets, FiniteSetsExt

CONSTANTS Process,
          Servers,    \* the processes Prometheus scrapes
          MaxRecords, \* bound: records of all processes
          MaxScrapes, \* bound: scrapes
          MaxFaults   \* bound: calls to Redis that fail, and processes killed

ASSUME MetricsAssumption ==
  /\ IsFiniteSet(Process) /\ Servers \subseteq Process
  /\ MaxRecords \in Nat /\ MaxScrapes \in Nat /\ MaxFaults \in Nat

Counter == {"events", "fast", "inf"}
Who == {"loop", "flusher"}
None == [k \in Counter |-> 0]

(* The accumulated metrics: n[k] of each counter, whether +Inf entered the *)
(* dict of the buckets first, and the queue length (0: None).              *)
Batch == [n : [Counter -> Nat], infFirst : BOOLEAN, queue : 0..MaxScrapes]
Empty == [n |-> None, infFirst |-> FALSE, queue |-> 0]

VARIABLES
  recorded, \* recorded[a]: the registry of the process, in memory
  pending,  \* pending[a]: _pending_events and its siblings
  batch,    \* batch[a][w]: what the loop or the flusher still has to send
  flusher,  \* flusher[a]: "none", "waits" or "sends"
  stop,     \* stop[a]: _flusher_stop_event
  pc,       \* pc[a]: what the event loop does
  seen,     \* seen[a]: what a scrape has read
  hash,     \* hash[k]: the fields of the hashes in Redis, for all processes
  queue,    \* metrics:queue_pending, the number of the scrape that set it
  sent,     \* bookkeeping of the model: sent[a], the part of hash that is a's
  scrapes,  \* ... how many began
  held,     \* ... held[a]: what the flusher had when a scrape flushed
  lost,     \* ... lost[a]: what was taken or pending and will not be sent
  why,      \* ... why[a]: what went wrong with a process
  faults

vars == <<recorded, pending, batch, flusher, stop, pc, seen, sent, hash,
          queue, scrapes, held, lost, why, faults>>

Plus(f, g) == [k \in Counter |-> f[k] + g[k]]
Unseen == [events |-> 0, queue |-> 0, fast |-> 0, inf |-> 0]

Init ==
  /\ recorded = [a \in Process |-> None] /\ pending = [a \in Process |-> Empty]
  /\ batch = [a \in Process |-> [w \in Who |-> Empty]]
  /\ flusher = [a \in Process |-> "none"] /\ stop = [a \in Process |-> FALSE]
  /\ pc = [a \in Process |-> "idle"] /\ seen = [a \in Process |-> Unseen]
  /\ sent = [a \in Process |-> None] /\ hash = None /\ queue = 0
  /\ scrapes = 0 /\ held = [a \in Process |-> None]
  /\ lost = [a \in Process |-> None] /\ why = [a \in Process |-> {}] /\ faults = 0

Fault(a, what) == faults < MaxFaults /\ faults' = faults + 1 /\ why' = [why EXCEPT ![a] = @ \cup {what}]
Lose(a, f) == lost' = [lost EXCEPT ![a] = Plus(@, f)]

-----------------------------------------------------------------------------
(* Recording.                                                              *)

(* _ensure_flusher_thread_started: nothing while the thread is alive, even *)
(* when it has been told to stop.                                          *)
EnsureFlusher(a) ==
  IF flusher[a] # "none" THEN UNCHANGED <<flusher, stop>>
  ELSE flusher' = [flusher EXCEPT ![a] = "waits"] /\ stop' = [stop EXCEPT ![a] = FALSE]

Counts == [fast |-> {"events", "fast", "inf"}, slow |-> {"events", "inf"}]

Records == MapThenSumSet(LAMBDA a : recorded[a]["events"], Process)

(* record_prometheus_event; _generation and _stars do alike.               *)
Record(a, kind) ==
  /\ pc[a] = "idle" /\ Records < MaxRecords
  /\ LET one == [k \in Counter |-> IF k \in Counts[kind] THEN 1 ELSE 0]
     IN  /\ recorded' = [recorded EXCEPT ![a] = Plus(@, one)]
         /\ pending' = [pending EXCEPT ![a].n = Plus(@, one),
                          ![a].infFirst = @ \/ (kind = "slow" /\ pending[a].n["inf"] = 0)]
  /\ EnsureFlusher(a)
  /\ UNCHANGED <<batch, pc, seen, sent, hash, queue, scrapes, held, lost, why, faults>>

-----------------------------------------------------------------------------
(* flush_metrics_to_redis, by the loop or by the flusher.                  *)

(* Variant for mutation: the counters are not reset.                       *)
TakeKeeping(a, w) ==
  batch' = [batch EXCEPT ![a][w] = pending[a]] /\ pending' = [pending EXCEPT ![a].queue = 0]

(* Under the lock: the counters are swapped for new ones.                  *)
Take(a, w) ==
  batch' = [batch EXCEPT ![a][w] = pending[a]] /\ pending' = [pending EXCEPT ![a] = Empty]

(* The commands of a pipeline are sent in the order of the dicts.          *)
Place == [events |-> 1, fast |-> 2, inf |-> 3]
Rank(b, k) == IF b.infFirst /\ k \in {"fast", "inf"} THEN 5 - Place[k] ELSE Place[k]
First(b) == {k \in Counter : b.n[k] > 0 /\ \A j \in Counter : b.n[j] > 0 => Rank(b, k) <= Rank(b, j)}

(* Redis carries out the next HINCRBY, or the SET at the end.              *)
Apply(a, w) ==
  LET b == batch[a][w]
  IN  \/ \E k \in First(b) :
           /\ hash' = [hash EXCEPT ![k] = @ + b.n[k]]
           /\ sent' = [sent EXCEPT ![a][k] = @ + b.n[k]]
           /\ batch' = [batch EXCEPT ![a][w].n[k] = 0] /\ UNCHANGED queue
      \/ /\ b.n = None /\ b.queue # 0
         /\ queue' = b.queue /\ batch' = [batch EXCEPT ![a][w].queue = 0]
         /\ UNCHANGED <<sent, hash>>

(* The connection fails: the rest is gone, the exception is swallowed.     *)
Drop(a, w) ==
  /\ Fault(a, "send failed") /\ Lose(a, batch[a][w].n)
  /\ batch' = [batch EXCEPT ![a][w] = Empty]

Idle(b) == b.n = None /\ b.queue = 0

-----------------------------------------------------------------------------
(* _flusher_worker.                                                        *)
FlusherTakes(a) ==
  /\ flusher[a] = "waits" /\ ~stop[a] /\ ~Idle(pending[a])
  /\ flusher' = [flusher EXCEPT ![a] = "sends"] /\ Take(a, "flusher")
  /\ UNCHANGED <<recorded, stop, pc, seen, sent, hash, queue, scrapes, held, lost, why, faults>>

FlusherApplies(a) ==
  /\ flusher[a] = "sends" /\ Apply(a, "flusher")
  /\ UNCHANGED <<recorded, pending, flusher, stop, pc, seen, scrapes, held, lost, why, faults>>

(* Variant for mutation: a failed pipeline ends the thread.                *)
FlusherDies(a) ==
  /\ flusher[a] = "sends" /\ Drop(a, "flusher") /\ flusher' = [flusher EXCEPT ![a] = "none"]
  /\ UNCHANGED <<recorded, pending, stop, pc, seen, sent, hash, queue, scrapes, held>>

FlusherFails(a) ==
  /\ flusher[a] = "sends" /\ ~Idle(batch[a]["flusher"]) /\ Drop(a, "flusher")
  /\ UNCHANGED <<recorded, pending, flusher, stop, pc, seen, sent, hash, queue, scrapes, held>>

FlusherWaits(a) ==
  /\ flusher[a] = "sends" /\ Idle(batch[a]["flusher"])
  /\ flusher' = [flusher EXCEPT ![a] = "waits"]
  /\ UNCHANGED <<recorded, pending, batch, stop, pc, seen, sent, hash, queue,
                 scrapes, held, lost, why, faults>>

FlusherStops(a) ==
  /\ flusher[a] = "waits" /\ stop[a] /\ flusher' = [flusher EXCEPT ![a] = "none"]
  /\ UNCHANGED <<recorded, pending, batch, stop, pc, seen, sent, hash, queue,
                 scrapes, held, lost, why, faults>>

-----------------------------------------------------------------------------
(* The event loop: /metrics, and the shutdown.  Nothing else runs in it    *)
(* while it flushes and reads: the calls to Redis block.                   *)

(* metrics(): update_prometheus_queue, after the length has been awaited.  *)
BeginScrape(a) ==
  /\ a \in Servers /\ pc[a] = "idle" /\ scrapes < MaxScrapes
  /\ scrapes' = scrapes + 1
  /\ pending' = [pending EXCEPT ![a].queue = scrapes'] /\ EnsureFlusher(a)
  /\ pc' = [pc EXCEPT ![a] = "scrape"]
  /\ UNCHANGED <<recorded, batch, seen, sent, hash, queue, held, lost, why, faults>>

(* Variant for mutation: a scrape does not flush.                          *)
LoopTakesAtClose(a) ==
  /\ pc[a] \in {"scrape", "close"}
  /\ IF pc[a] = "close" THEN Take(a, "loop") ELSE UNCHANGED <<pending, batch>>
  /\ pc' = [pc EXCEPT ![a] = IF @ = "scrape" THEN "scrape sends" ELSE "close sends"]
  /\ held' = [held EXCEPT ![a] = batch[a]["flusher"].n]
  /\ UNCHANGED <<recorded, flusher, stop, seen, sent, hash, queue, scrapes, lost, why, faults>>

LoopTakes(a) ==
  /\ pc[a] \in {"scrape", "close"} /\ Take(a, "loop")
  /\ pc' = [pc EXCEPT ![a] = IF @ = "scrape" THEN "scrape sends" ELSE "close sends"]
  /\ held' = [held EXCEPT ![a] = batch[a]["flusher"].n]
  /\ UNCHANGED <<recorded, flusher, stop, seen, sent, hash, queue, scrapes, lost, why, faults>>

Sending(a) == pc[a] \in {"scrape sends", "close sends"}

LoopApplies(a) ==
  /\ Sending(a) /\ Apply(a, "loop")
  /\ UNCHANGED <<recorded, pending, flusher, stop, pc, seen, scrapes, held, lost, why, faults>>

LoopFails(a) ==
  /\ Sending(a) /\ ~Idle(batch[a]["loop"]) /\ Drop(a, "loop")
  /\ UNCHANGED <<recorded, pending, flusher, stop, pc, seen, sent, hash, queue, scrapes, held>>

LoopSent(a) ==
  /\ Sending(a) /\ Idle(batch[a]["loop"])
  /\ pc' = [pc EXCEPT ![a] = IF @ = "scrape sends" THEN "events" ELSE "closed"]
  /\ UNCHANGED <<recorded, pending, batch, flusher, stop, seen, sent, hash,
                 queue, scrapes, held, lost, why, faults>>

(* get_prometheus_metrics reads the hashes one after the other.  With no   *)
(* event and no queue length there it shows its own registry.              *)
Reads == [events |-> "queue", queue |-> "buckets", buckets |-> "shown"]

Read(a) ==
  /\ pc[a] \in DOMAIN Reads
  /\ seen' = [seen EXCEPT ![a] =
       CASE pc[a] = "events" -> [@ EXCEPT !.events = hash["events"]]
         [] pc[a] = "queue" -> [@ EXCEPT !.queue = queue]
         [] pc[a] = "buckets" -> [@ EXCEPT !.fast = hash["fast"], !.inf = hash["inf"]]]
  /\ pc' = [pc EXCEPT ![a] =
       IF @ = "buckets" /\ seen[a].events = 0 /\ seen[a].queue = 0 THEN "own" ELSE Reads[@]]
  /\ UNCHANGED <<recorded, pending, batch, flusher, stop, sent, hash, queue,
                 scrapes, held, lost, why, faults>>

(* A read fails: the registry of the process is shown.                     *)
ReadFails(a) ==
  /\ pc[a] \in DOMAIN Reads /\ Fault(a, "read failed") /\ pc' = [pc EXCEPT ![a] = "own"]
  /\ UNCHANGED <<recorded, pending, batch, flusher, stop, seen, sent, hash,
                 queue, scrapes, held, lost>>

Answer(a) ==
  /\ pc[a] \in {"shown", "own"} /\ pc' = [pc EXCEPT ![a] = "idle"]
  /\ seen' = [seen EXCEPT ![a] = Unseen] /\ held' = [held EXCEPT ![a] = None]
  /\ UNCHANGED <<recorded, pending, batch, flusher, stop, sent, hash, queue,
                 scrapes, lost, why, faults>>

(* Variant for mutation: shutdown_metrics only stops the flusher.          *)
CloseUnflushed(a) ==
  /\ pc[a] = "idle" /\ pc' = [pc EXCEPT ![a] = "closed"] /\ stop' = [stop EXCEPT ![a] = TRUE]
  /\ UNCHANGED <<recorded, pending, batch, flusher, seen, sent, hash, queue,
                 scrapes, held, lost, why, faults>>

(* shutdown_metrics, at the end of the server and, by atexit, of every     *)
(* process.  It does not wait for the flusher.                             *)
Close(a) ==
  /\ pc[a] = "idle" /\ pc' = [pc EXCEPT ![a] = "close"] /\ stop' = [stop EXCEPT ![a] = TRUE]
  /\ UNCHANGED <<recorded, pending, batch, flusher, seen, sent, hash, queue,
                 scrapes, held, lost, why, faults>>

Held(a) == Plus(pending[a].n, Plus(batch[a]["loop"].n, batch[a]["flusher"].n))
Gone(a) ==
  /\ pc' = [pc EXCEPT ![a] = "down"] /\ flusher' = [flusher EXCEPT ![a] = "none"]
  /\ pending' = [pending EXCEPT ![a] = Empty]
  /\ batch' = [batch EXCEPT ![a] = [w \in Who |-> Empty]]
  /\ seen' = [seen EXCEPT ![a] = Unseen] /\ held' = [held EXCEPT ![a] = None]
  /\ Lose(a, Held(a))
  /\ UNCHANGED <<recorded, stop, sent, hash, queue, scrapes>>

(* The process ends, and its daemon thread wherever it is.                 *)
Exit(a) ==
  /\ pc[a] = "closed" /\ Gone(a) /\ UNCHANGED faults
  /\ why' = [why EXCEPT ![a] = IF flusher[a] = "sends" THEN @ \cup {"cut short"} ELSE @]

(* The process is killed.                                                  *)
Kill(a) == pc[a] # "down" /\ Fault(a, "killed") /\ Gone(a)

-----------------------------------------------------------------------------
Flusher(a) ==
  FlusherTakes(a) \/ FlusherApplies(a) \/ FlusherFails(a) \/ FlusherWaits(a) \/ FlusherStops(a)
Flush(a) == LoopTakes(a) \/ LoopApplies(a) \/ LoopFails(a) \/ LoopSent(a)
Scrape(a) == BeginScrape(a) \/ Read(a) \/ ReadFails(a) \/ Answer(a)

Next ==
  \E a \in Process :
    \/ \E kind \in DOMAIN Counts : Record(a, kind)
    \/ Flusher(a) \/ Flush(a) \/ Scrape(a) \/ Close(a) \/ Exit(a) \/ Kill(a)

(* The thread and the loop go on; nobody has to record, scrape or close.   *)
Fairness == \A a \in Process : WF_vars(Flusher(a)) /\ WF_vars(Flush(a))
Spec == Init /\ [][Next]_vars /\ Fairness

-----------------------------------------------------------------------------
TypeOK ==
  /\ recorded \in [Process -> [Counter -> Nat]] /\ sent \in [Process -> [Counter -> Nat]]
  /\ lost \in [Process -> [Counter -> Nat]] /\ held \in [Process -> [Counter -> Nat]]
  /\ pending \in [Process -> Batch] /\ batch \in [Process -> [Who -> Batch]]
  /\ hash \in [Counter -> Nat] /\ scrapes \in 0..MaxScrapes /\ queue \in 0..MaxScrapes

(* Whatever a process recorded is counted in Redis once, or pending, or in *)
(* the hands of its loop or its flusher, or lost (prometheus.py:125-180).  *)
Accounted ==
  \A a \in Process : recorded[a] = Plus(sent[a], Plus(Held(a), lost[a]))

(* Nothing is lost but in a pipeline that failed, with a process that was  *)
(* killed, or in the flusher's hands when the process ended after its      *)
(* shutdown_metrics (prometheus.py:183-189).                               *)
LossHasCause ==
  \A a \in Process : lost[a] # None => why[a] \cap {"send failed", "killed", "cut short"} # {}

(* A scrape answered from Redis counts all its own process has recorded,   *)
(* but what the flusher held when the scrape flushed and what was lost     *)
(* (prometheus.py:301-316); the loop records nothing in between.           *)
ScrapeCountsOwn ==
  \A a \in Process : pc[a] = "shown" =>
    \A k \in Counter : seen[a][k] + held[a][k] + lost[a][k] >= recorded[a][k]

(* What is recorded does not stay pending: the flusher is alive while      *)
(* something is, whatever failed, and a shutdown flushes (prometheus.py:   *)
(* 102-122).                                                               *)
RecordedIsSent == <>[](\A a \in Process : Idle(pending[a]))
=============================================================================
