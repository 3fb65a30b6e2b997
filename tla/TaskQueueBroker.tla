-------------------------- MODULE TaskQueueBroker --------------------------
(***************************************************************************)
(* TaskQueueBroker of platform_core/queue/broker.py: the Redis stream with *)
(* its consumer group and dead-letter stream, and, in every process, the   *)
(* in-memory queue the broker falls back to.  Each await on Redis is a     *)
(* step of its own, so the calls of several workers interleave, and each   *)
(* may succeed, fail, or take effect and lose its reply.                   *)
(***************************************************************************)
EXTENDS Naturals, Sequences, FiniteSets

CONSTANTS Job,         \* generation jobs
          NoJob,       \* "no job"
          Corrupt,     \* jobs whose payload GenerationJob.from_json rejects
          Process,     \* operating-system processes, each with its own broker
          Producer,    \* the processes that run the bots and enqueue jobs
          Worker,      \* worker loops
          ProcOf,      \* the process a worker loop runs in
          ClaimBatch,  \* XAUTOCLAIM's count (10 in the code)
          MaxAttempts, \* deliveries that make a job a poison pill (3)
          MaxFaults    \* bound: Redis calls that may go wrong in one behaviour

ASSUME BrokerAssumption ==
  /\ NoJob \notin Job /\ IsFiniteSet(Job) /\ IsFiniteSet(Worker)
  /\ Corrupt \subseteq Job
  /\ Producer \subseteq Process
  /\ ProcOf \in [Worker -> Process]
  /\ ClaimBatch \in Nat \ {0}
  /\ MaxAttempts \in Nat \ {0, 1}
  /\ MaxFaults \in Nat

VARIABLES
  \* Redis
  id,        \* id[j]: the job's entry id, 0 when it never was in the stream
  lastAdded, \* the id of the newest entry
  lastRead,  \* the group's last-delivered id
  entries,   \* jobs whose entry has not been deleted (what XLEN counts)
  times,     \* times[j]: deliveries in the pending list, 0 when not pending
  idle,      \* pending jobs nobody was handed for 60 s
  dlq,       \* dlq[j]: the job's entries in the dead-letter stream
  \* one broker object a process
  fallback,  \* fallback[p]: _use_fallback
  local,     \* local[p]: _fallback_queue
  \* the dequeue_job or process_job call of each worker
  pc,        \* where the worker loop is
  claimed,   \* claimed[w]: entries of the XAUTOCLAIM reply still to look at
  job,       \* the job at hand
  viaStream, \* whether it has a stream_message_id
  \* bookkeeping of the model
  submitted, \* jobs given to enqueue_job
  attempts,  \* attempts[j]: times a job was handed to process_job
  blind,     \* blind[j]: of those, the ones no delivery count was seen for
  faults     \* Redis calls that went wrong so far

redis == <<id, lastAdded, lastRead, entries, times, idle, dlq>>
counts == <<submitted, attempts, blind>>
brokerVars == <<redis, fallback, local, pc, claimed, job, viaStream, counts, faults>>

Unread == {j \in entries : id[j] > lastRead}
Pending == {j \in Job : times[j] > 0}

Oldest(j, S) == j \in S /\ \A k \in S : id[j] <= id[k]

-----------------------------------------------------------------------------
(* A Redis call is answered ("ok"), takes effect with its reply lost       *)
(* ("lost"), or does not take effect ("refused").                          *)
Reply == {"ok", "lost", "refused"}
Applied(r) == r # "refused"

Charge(r) == \/ r = "ok" /\ UNCHANGED faults
             \/ r # "ok" /\ faults < MaxFaults /\ faults' = faults + 1

XAdd(j) == /\ lastAdded' = lastAdded + 1
           /\ id' = [id EXCEPT ![j] = lastAdded + 1]
           /\ entries' = entries \cup {j}
           /\ UNCHANGED <<lastRead, times, idle, dlq>>

(* Variant for mutation: XREADGROUP with a count above 1, of which only    *)
(* the first entry is looked at.                                           *)
XReadNewDropsRest(j) ==
  /\ lastRead' = lastAdded
  /\ times' = [k \in Job |-> IF k \in Unread THEN 1 ELSE times[k]]
  /\ UNCHANGED <<id, lastAdded, entries, idle, dlq>>

XReadNew(j) == /\ lastRead' = id[j]
               /\ times' = [times EXCEPT ![j] = 1]
               /\ UNCHANGED <<id, lastAdded, entries, idle, dlq>>

XAck(j) == /\ times' = [times EXCEPT ![j] = 0]
           /\ idle' = idle \ {j}
           /\ UNCHANGED <<id, lastAdded, lastRead, entries, dlq>>

XDel(j) == /\ entries' = entries \ {j}
           /\ UNCHANGED <<id, lastAdded, lastRead, times, idle, dlq>>

XAddDlq(j) == /\ dlq' = [dlq EXCEPT ![j] = @ + 1]
              /\ UNCHANGED <<id, lastAdded, lastRead, entries, times, idle>>

(* Variant for mutation: XAUTOCLAIM with min_idle_time 0.                  *)
IsBatchOfBusy(B) ==
  /\ B \subseteq Pending
  /\ Cardinality(B) = IF Cardinality(Pending) < ClaimBatch
                      THEN Cardinality(Pending) ELSE ClaimBatch
  /\ \A j \in B, k \in Pending \ B : id[j] < id[k]

(* The oldest ClaimBatch of the entries that have been idle for 60 s.      *)
IsBatch(B) ==
  /\ B \subseteq idle
  /\ Cardinality(B) = IF Cardinality(idle) < ClaimBatch
                      THEN Cardinality(idle) ELSE ClaimBatch
  /\ \A j \in B, k \in idle \ B : id[j] < id[k]

(* Claiming counts as a delivery of every entry of the batch.              *)
XAutoClaim(B) == /\ times' = [j \in Job |-> IF j \in B THEN times[j] + 1 ELSE times[j]]
                 /\ idle' = idle \ B
                 /\ UNCHANGED <<id, lastAdded, lastRead, entries, dlq>>

(* Sixty seconds pass since the entry was last handed to a consumer.       *)
IdleElapses(j) == /\ j \in Pending \ idle
                  /\ idle' = idle \cup {j}
                  /\ UNCHANGED <<id, lastAdded, lastRead, entries, times, dlq>>

-----------------------------------------------------------------------------
(* enqueue_job: XADD, or, once the process has fallen back, its own memory. *)
EnqueueJob(p, j) ==
  /\ p \in Producer
  /\ j \notin submitted
  /\ submitted' = submitted \cup {j}
  /\ \/ /\ fallback[p]
        /\ local' = [local EXCEPT ![p] = Append(@, j)]
        /\ UNCHANGED <<redis, fallback, faults>>
     \/ /\ ~fallback[p]
        /\ \E r \in Reply :
             /\ Charge(r)
             /\ IF Applied(r) THEN XAdd(j) ELSE UNCHANGED redis
             /\ IF r = "ok"
                THEN UNCHANGED <<fallback, local>>
                ELSE /\ fallback' = [fallback EXCEPT ![p] = TRUE]
                     /\ local' = [local EXCEPT ![p] = Append(@, j)]
  /\ UNCHANGED <<pc, claimed, job, viaStream, attempts, blind>>

(* dequeue_job returns j to its worker loop, which starts on it at once.   *)
(* Entries of the claimed batch after j are dropped.                       *)
Return(w, j, fromStream, counted) ==
  /\ pc' = [pc EXCEPT ![w] = "start"]
  /\ job' = [job EXCEPT ![w] = j]
  /\ viaStream' = [viaStream EXCEPT ![w] = fromStream]
  /\ claimed' = [claimed EXCEPT ![w] = {}]
  /\ attempts' = [attempts EXCEPT ![j] = @ + 1]
  /\ blind' = IF counted THEN blind ELSE [blind EXCEPT ![j] = @ + 1]
  /\ UNCHANGED submitted

ReturnNone(w) == /\ pc' = [pc EXCEPT ![w] = "idle"]
                 /\ UNCHANGED <<claimed, job, viaStream, counts>>

(* After one entry of the batch: the next one, or on to XREADGROUP.        *)
NextEntry(w) == /\ pc' = [pc EXCEPT ![w] = IF claimed[w] = {} THEN "read" ELSE "inspect"]
                /\ job' = [job EXCEPT ![w] = NoJob]
                /\ UNCHANGED <<claimed, viaStream, counts>>

(* Variant for mutation: abandoned entries are never claimed.              *)
ClaimNothing(w) ==
  /\ pc[w] = "idle"
  /\ ~fallback[ProcOf[w]]
  /\ pc' = [pc EXCEPT ![w] = "read"]
  /\ UNCHANGED <<redis, fallback, local, claimed, job, viaStream, counts, faults>>

(* Phase 1 of dequeue_job.  Whatever goes wrong in it is suppressed.       *)
Claim(w) ==
  /\ pc[w] = "idle"
  /\ ~fallback[ProcOf[w]]
  /\ \E r \in Reply, B \in SUBSET Job :
       /\ IsBatch(B)
       /\ Charge(r)
       /\ IF Applied(r) THEN XAutoClaim(B) ELSE UNCHANGED redis
       /\ claimed' = [claimed EXCEPT ![w] = IF r = "ok" THEN B ELSE {}]
       /\ pc' = [pc EXCEPT ![w] = IF r = "ok" /\ B # {} THEN "inspect" ELSE "read"]
  /\ UNCHANGED <<fallback, local, job, viaStream, counts>>

(* Variants for mutation: the job to bury is not remembered; it is removed *)
(* without having been added to the dead-letter stream.                    *)
ToDlqOfNothing(w, j) == /\ pc' = [pc EXCEPT ![w] = "dlqAdd"]
                        /\ claimed' = [claimed EXCEPT ![w] = @ \ {j}]
                        /\ UNCHANGED <<job, viaStream, counts>>

ToDlqUnburied(w, j) == /\ pc' = [pc EXCEPT ![w] = "dlqAck"]
                       /\ job' = [job EXCEPT ![w] = j]
                       /\ claimed' = [claimed EXCEPT ![w] = @ \ {j}]
                       /\ UNCHANGED <<viaStream, counts>>

ToDlq(w, j) == /\ pc' = [pc EXCEPT ![w] = "dlqAdd"]
               /\ job' = [job EXCEPT ![w] = j]
               /\ claimed' = [claimed EXCEPT ![w] = @ \ {j}]
               /\ UNCHANGED <<viaStream, counts>>

(* Variant for mutation: the poison-pill limit is off by one.              *)
InspectOffByOne(w) ==
  /\ pc[w] = "inspect"
  /\ \E j \in claimed[w], r \in {"ok", "refused"} :
       /\ Oldest(j, claimed[w])
       /\ LET seen == r = "ok" /\ j \in Pending
              deliveries == IF seen THEN times[j] ELSE 1
          IN  /\ Charge(r)
              /\ IF deliveries > MaxAttempts
                 THEN ToDlq(w, j)
                 ELSE Return(w, j, TRUE, seen)
  /\ UNCHANGED <<redis, fallback, local>>

(* The oldest entry of the batch: a corrupted one goes to the dead-letter  *)
(* stream, and so does one XPENDING reports MaxAttempts deliveries of;     *)
(* when the lookup fails, or finds the entry acknowledged meanwhile, the   *)
(* count is taken to be the payload's own, which is never rewritten: 1.    *)
Inspect(w) ==
  /\ pc[w] = "inspect"
  /\ \E j \in claimed[w], r \in {"ok", "refused"} :
       /\ Oldest(j, claimed[w])
       /\ LET seen == r = "ok" /\ j \in Pending
              deliveries == IF seen THEN times[j] ELSE 1
          IN  IF j \in Corrupt
              THEN r = "ok" /\ UNCHANGED faults /\ ToDlq(w, j)
              ELSE /\ Charge(r)
                   /\ IF deliveries >= MaxAttempts
                      THEN ToDlq(w, j)
                      ELSE Return(w, j, TRUE, seen)
  /\ UNCHANGED <<redis, fallback, local>>

(* Variant for mutation: a failed XADD does not keep the XACK from coming. *)
DlqAddUnchecked(w) ==
  /\ pc[w] = "dlqAdd"
  /\ \E r \in Reply : /\ Charge(r)
                      /\ IF Applied(r) THEN XAddDlq(job[w]) ELSE UNCHANGED redis
  /\ pc' = [pc EXCEPT ![w] = "dlqAck"]
  /\ UNCHANGED <<fallback, local, claimed, job, viaStream, counts>>

(* XADD to the dead-letter stream, XACK, XDEL: the first that fails skips  *)
(* the rest.                                                               *)
DlqAdd(w) ==
  /\ pc[w] = "dlqAdd"
  /\ \E r \in Reply :
       /\ Charge(r)
       /\ IF Applied(r) THEN XAddDlq(job[w]) ELSE UNCHANGED redis
       /\ IF r = "ok"
          THEN pc' = [pc EXCEPT ![w] = "dlqAck"] /\ UNCHANGED <<claimed, job, viaStream, counts>>
          ELSE NextEntry(w)
  /\ UNCHANGED <<fallback, local>>

DlqAck(w) ==
  /\ pc[w] = "dlqAck"
  /\ \E r \in Reply :
       /\ Charge(r)
       /\ IF Applied(r) THEN XAck(job[w]) ELSE UNCHANGED redis
       /\ IF r = "ok"
          THEN pc' = [pc EXCEPT ![w] = "dlqDel"] /\ UNCHANGED <<claimed, job, viaStream, counts>>
          ELSE NextEntry(w)
  /\ UNCHANGED <<fallback, local>>

DlqDel(w) ==
  /\ pc[w] = "dlqDel"
  /\ \E r \in Reply :
       /\ Charge(r)
       /\ IF Applied(r) THEN XDel(job[w]) ELSE UNCHANGED redis
  /\ NextEntry(w)
  /\ UNCHANGED <<fallback, local>>

-----------------------------------------------------------------------------
FallBack(p) == fallback' = [fallback EXCEPT ![p] = TRUE]

(* Phase 2: XREADGROUP hands over the oldest unread entry, or nothing.     *)
(* An exception, the one a corrupted payload raises included, sends the    *)
(* whole process to its in-memory queue.                                   *)
ReadNew(w) ==
  /\ pc[w] = "read"
  /\ \/ /\ Unread = {}
        /\ \E r \in {"ok", "refused"} :
             /\ Charge(r)
             /\ IF r = "ok" THEN UNCHANGED fallback ELSE FallBack(ProcOf[w])
        /\ ReturnNone(w)
        /\ UNCHANGED redis
     \/ \E j \in Unread, r \in Reply :
          /\ Oldest(j, Unread)
          /\ Charge(r)
          /\ IF Applied(r) THEN XReadNew(j) ELSE UNCHANGED redis
          /\ IF r = "ok" /\ j \notin Corrupt
             THEN Return(w, j, TRUE, TRUE) /\ UNCHANGED fallback
             ELSE ReturnNone(w) /\ FallBack(ProcOf[w])
  /\ UNCHANGED local

(* After a fallback dequeue_job only ever polls the process's own memory.  *)
ReadLocal(w) ==
  LET p == ProcOf[w]
  IN  /\ pc[w] = "idle"
      /\ fallback[p]
      /\ IF local[p] = << >>
         THEN ReturnNone(w) /\ UNCHANGED local
         ELSE /\ local' = [local EXCEPT ![p] = Tail(@)]
              /\ Return(w, Head(local[p]), FALSE, FALSE)
      /\ UNCHANGED <<redis, fallback, faults>>

-----------------------------------------------------------------------------
Finish(w) == /\ pc' = [pc EXCEPT ![w] = "idle"]
             /\ job' = [job EXCEPT ![w] = NoJob]
             /\ viaStream' = [viaStream EXCEPT ![w] = FALSE]

(* Variant for mutation: the acknowledged entry is left in the stream.     *)
AckJobKeepsEntry(w) ==
  /\ pc[w] = "ack"
  /\ IF fallback[ProcOf[w]] \/ ~viaStream[w]
     THEN UNCHANGED <<redis, faults>>
     ELSE \E r \in Reply :
            /\ Charge(r)
            /\ IF Applied(r) THEN XAck(job[w]) ELSE UNCHANGED redis
  /\ Finish(w)
  /\ UNCHANGED <<fallback, local, claimed, counts>>

(* ack_job: XACK, then XDEL.  A process that has fallen back since it took *)
(* the job skips both and still reports success.                           *)
AckJob(w) ==
  /\ pc[w] = "ack"
  /\ IF fallback[ProcOf[w]] \/ ~viaStream[w]
     THEN Finish(w) /\ UNCHANGED <<redis, faults>>
     ELSE \E r \in Reply :
            /\ Charge(r)
            /\ IF Applied(r) THEN XAck(job[w]) ELSE UNCHANGED redis
            /\ IF r = "ok"
               THEN pc' = [pc EXCEPT ![w] = "del"] /\ UNCHANGED <<job, viaStream>>
               ELSE Finish(w)
  /\ UNCHANGED <<fallback, local, claimed, counts>>

DeleteEntry(w) ==
  /\ pc[w] = "del"
  /\ \E r \in Reply :
       /\ Charge(r)
       /\ IF Applied(r) THEN XDel(job[w]) ELSE UNCHANGED redis
  /\ Finish(w)
  /\ UNCHANGED <<fallback, local, claimed, counts>>
=============================================================================
