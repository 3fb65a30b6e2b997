----------------------------- MODULE WorkerPool -----------------------------
(***************************************************************************)
(* AIWorkerPool of platform_core/queue/worker.py on top of the broker: the *)
(* worker loops, process_job, SIGINT (cli.py cancels the loops), and the   *)
(* death and restart of a process (SIGTERM, OOM, "restart: unless-stopped" *)
(* in docker-compose.yml).                                                 *)
(***************************************************************************)
EXTENDS TaskQueueBroker

CONSTANTS NoToken,      \* NoToken[p]: jobs whose bot's token resolve_bot_token
                        \* does not find in the environment and files of p
          BadToken,     \* BadToken[p]: jobs for which it finds one Bot() refuses
          MaxDeaths,    \* bound: crashes and SIGINTs in one behaviour
          MaxInterrupts \* bound: SIGINTs among them

ASSUME PoolAssumption == /\ NoToken \in [Process -> SUBSET Job]
                         /\ BadToken \in [Process -> SUBSET Job]
                         /\ \A p \in Process : NoToken[p] \cap BadToken[p] = {}
                         /\ MaxDeaths \in Nat
                         /\ MaxInterrupts \in Nat

VARIABLES
  stopping,   \* processes whose loops SIGINT has cancelled
  delivered,  \* delivered[j]: media messages Telegram accepted for the job
  refunded,   \* refunded[j]: refunds requested for it
  lostSends,  \* lostSends[j]: of the accepted messages, those whose reply was lost
  overran,    \* jobs that were idle for 60 s while a live worker held them
  cancelled,  \* jobs SIGINT cut short inside process_job's try
  crashes,    \* process deaths so far
  interrupts  \* SIGINTs so far

outcome == <<delivered, refunded, lostSends>>
lifecycle == <<stopping, crashes, interrupts>>
vars == <<brokerVars, outcome, overran, lifecycle, cancelled>>

PCs == {"idle", "inspect", "dlqAdd", "dlqAck", "dlqDel", "read", "start",
        "refund", "ack", "del"}

RedisTypeOK ==
  /\ id \in [Job -> Nat] /\ lastAdded \in Nat /\ lastRead \in Nat
  /\ entries \subseteq Job /\ times \in [Job -> Nat] /\ idle \subseteq Job
  /\ dlq \in [Job -> Nat]

MemoryTypeOK ==
  /\ fallback \in [Process -> BOOLEAN] /\ local \in [Process -> Seq(Job)]
  /\ stopping \subseteq Process

WorkerTypeOK ==
  /\ pc \in [Worker -> PCs] /\ claimed \in [Worker -> SUBSET Job]
  /\ job \in [Worker -> Job \cup {NoJob}] /\ viaStream \in [Worker -> BOOLEAN]
  /\ \A w \in Worker : pc[w] \notin {"idle", "inspect", "read"} => job[w] \in Job

CountTypeOK ==
  /\ submitted \subseteq Job /\ attempts \in [Job -> Nat] /\ blind \in [Job -> Nat]

OutcomeTypeOK ==
  /\ delivered \in [Job -> Nat] /\ refunded \in [Job -> Nat]
  /\ lostSends \in [Job -> Nat] /\ overran \subseteq Job /\ cancelled \subseteq Job
  /\ faults \in Nat /\ crashes \in Nat /\ interrupts \in Nat

TypeOK == RedisTypeOK /\ MemoryTypeOK /\ WorkerTypeOK /\ CountTypeOK /\ OutcomeTypeOK

Init ==
  /\ id = [j \in Job |-> 0] /\ lastAdded = 0 /\ lastRead = 0
  /\ entries = {} /\ times = [j \in Job |-> 0] /\ idle = {}
  /\ dlq = [j \in Job |-> 0]
  /\ fallback = [p \in Process |-> FALSE] /\ local = [p \in Process |-> << >>]
  /\ pc = [w \in Worker |-> "idle"] /\ claimed = [w \in Worker |-> {}]
  /\ job = [w \in Worker |-> NoJob] /\ viaStream = [w \in Worker |-> FALSE]
  /\ submitted = {} /\ attempts = [j \in Job |-> 0] /\ blind = [j \in Job |-> 0]
  /\ faults = 0
  /\ stopping = {}
  /\ delivered = [j \in Job |-> 0] /\ refunded = [j \in Job |-> 0]
  /\ lostSends = [j \in Job |-> 0] /\ overran = {} /\ cancelled = {}
  /\ crashes = 0 /\ interrupts = 0

-----------------------------------------------------------------------------
(* process_job.  Its result is recorded in three places a crash can come   *)
(* between: Telegram, the balance, the stream.                             *)
Goto(w, label) == pc' = [pc EXCEPT ![w] = label]

atHand == <<redis, fallback, local, claimed, job, viaStream, counts, faults>>

NoBot(w) == job[w] \in NoToken[ProcOf[w]]
HasBot(w) == job[w] \notin NoToken[ProcOf[w]] \cup BadToken[ProcOf[w]]

Send(w) == delivered' = [delivered EXCEPT ![job[w]] = @ + 1]

(* Variant for mutation: an exception is logged and nothing is refunded.   *)
GenerateOrForget(w) ==
  /\ pc[w] = "start"
  /\ HasBot(w)
  /\ Send(w) \/ UNCHANGED delivered
  /\ Goto(w, "ack")
  /\ UNCHANGED <<atHand, refunded, lostSends>>

(* Generate, and send what came out; in between nothing is recorded.  A    *)
(* failed result, an exception of the generator and one of send_photo all  *)
(* end in the same refund, and send_photo raises also when Telegram took   *)
(* the message and only its answer was lost.                               *)
GenerateAndSend(w) ==
  /\ pc[w] = "start"
  /\ HasBot(w)
  /\ \/ Send(w) /\ Goto(w, "ack") /\ UNCHANGED lostSends
     \/ /\ Send(w)
        /\ lostSends' = [lostSends EXCEPT ![job[w]] = @ + 1]
        /\ Goto(w, "refund")
     \/ Goto(w, "refund") /\ UNCHANGED <<delivered, lostSends>>
  /\ UNCHANGED <<atHand, refunded>>

(* Variant for mutation: after the refund for the missing token            *)
(* process_job goes on and refunds again.                                  *)
RefundJobTwice(w) ==
  /\ pc[w] = "refund" \/ (pc[w] = "start" /\ NoBot(w))
  /\ refunded' = [refunded EXCEPT ![job[w]] = @ + 1]
  /\ Goto(w, IF pc[w] = "start" THEN "refund" ELSE "ack")
  /\ UNCHANGED <<atHand, delivered, lostSends>>

(* A job whose bot has no token is refunded outside the try.               *)
RefundJob(w) ==
  /\ pc[w] = "refund" \/ (pc[w] = "start" /\ NoBot(w))
  /\ refunded' = [refunded EXCEPT ![job[w]] = @ + 1]
  /\ Goto(w, "ack")
  /\ UNCHANGED <<atHand, delivered, lostSends>>

(* get_bot raises for a malformed token, before the try is entered: nobody *)
(* is answered, nothing is acknowledged, and the loop goes on.             *)
RefuseToken(w) ==
  /\ pc[w] = "start"
  /\ job[w] \in BadToken[ProcOf[w]]
  /\ Finish(w)
  /\ UNCHANGED <<redis, fallback, local, claimed, counts, faults, outcome>>

-----------------------------------------------------------------------------
Holds(w, j) == job[w] = j \/ j \in claimed[w]

(* The loop starts no new job once it has been cancelled.                  *)
WorkerStep(w) ==
  /\ ProcOf[w] \in stopping => pc[w] # "idle"
  /\ \/ /\ Claim(w) \/ Inspect(w) \/ DlqAdd(w) \/ DlqAck(w) \/ DlqDel(w)
           \/ ReadNew(w) \/ ReadLocal(w) \/ AckJob(w) \/ DeleteEntry(w)
        /\ UNCHANGED outcome
     \/ GenerateAndSend(w) \/ RefundJob(w) \/ RefuseToken(w)
  /\ UNCHANGED <<overran, cancelled, lifecycle>>

Enqueue(p, j) == /\ p \notin stopping
                 /\ EnqueueJob(p, j)
                 /\ UNCHANGED <<outcome, overran, cancelled, lifecycle>>

Elapse(j) ==
  /\ IdleElapses(j)
  /\ overran' = IF \E w \in Worker : Holds(w, j) THEN overran \cup {j} ELSE overran
  /\ UNCHANGED <<fallback, local, pc, claimed, job, viaStream, counts, faults>>
  /\ UNCHANGED <<outcome, cancelled, lifecycle>>

In(p) == {w \in Worker : ProcOf[w] = p}

(* The process ends, with all it keeps in memory, and Docker starts it     *)
(* again.  Until then the others see what they would see of a process that *)
(* takes no step, so the restart is part of the end.                       *)
Renew(p) ==
  /\ pc' = [w \in Worker |-> IF w \in In(p) THEN "idle" ELSE pc[w]]
  /\ job' = [w \in Worker |-> IF w \in In(p) THEN NoJob ELSE job[w]]
  /\ viaStream' = [w \in Worker |-> w \notin In(p) /\ viaStream[w]]
  /\ claimed' = [w \in Worker |-> IF w \in In(p) THEN {} ELSE claimed[w]]
  /\ local' = [local EXCEPT ![p] = << >>]
  /\ fallback' = [fallback EXCEPT ![p] = FALSE]
  /\ stopping' = stopping \ {p}
  /\ UNCHANGED <<redis, counts, faults, outcome, overran, cancelled>>

Crash(p) ==
  /\ crashes + interrupts < MaxDeaths
  /\ crashes' = crashes + 1
  /\ Renew(p)
  /\ UNCHANGED interrupts

(* A cancelled process exits once its loops have ended.                    *)
Exit(p) ==
  /\ p \in stopping
  /\ \A w \in In(p) : pc[w] = "idle"
  /\ Renew(p)
  /\ UNCHANGED <<crashes, interrupts>>

(* SIGINT cancels every loop of the process at its current await.  Within  *)
(* process_job's try the finally clause still acknowledges the job; what   *)
(* was in flight (inFlight) may have taken effect.  Anywhere else the job  *)
(* at hand is dropped.                                                     *)
Interrupt(p) ==
  /\ p \notin stopping
  /\ In(p) # {}
  /\ interrupts < MaxInterrupts
  /\ crashes + interrupts < MaxDeaths
  /\ interrupts' = interrupts + 1
  /\ stopping' = stopping \cup {p}
  /\ LET inTry == {w \in In(p) : \/ pc[w] = "refund"
                                 \/ /\ pc[w] = "start"
                                    /\ HasBot(w)}
         At(label, j) == {w \in inTry : pc[w] = label /\ job[w] = j}
     IN  /\ pc' = [w \in Worker |-> IF w \in inTry THEN "ack"
                                    ELSE IF w \in In(p) THEN "idle" ELSE pc[w]]
         /\ job' = [w \in Worker |-> IF w \in In(p) \ inTry THEN NoJob ELSE job[w]]
         /\ viaStream' = [w \in Worker |-> w \notin In(p) \ inTry /\ viaStream[w]]
         /\ cancelled' = cancelled \cup {job[w] : w \in inTry}
         /\ \E inFlight \in SUBSET inTry :
              /\ delivered' = [j \in Job |-> delivered[j]
                                 + Cardinality(inFlight \cap At("start", j))]
              /\ refunded' = [j \in Job |-> refunded[j]
                                 + Cardinality(inFlight \cap At("refund", j))]
  /\ claimed' = [w \in Worker |-> IF w \in In(p) THEN {} ELSE claimed[w]]
  /\ UNCHANGED <<redis, fallback, local, counts, faults>>
  /\ UNCHANGED <<lostSends, overran, crashes>>

-----------------------------------------------------------------------------
Next == \/ \E p \in Process, j \in Job : Enqueue(p, j)
        \/ \E w \in Worker : WorkerStep(w)
        \/ \E j \in Job : Elapse(j)
        \/ \E p \in Process : Crash(p) \/ Exit(p) \/ Interrupt(p)

Spec == Init /\ [][Next]_vars

(* Loops run when the event loop is free and every await ends (clients and *)
(* generators have timeouts); the clock advances; Docker restarts what     *)
(* exits.  Nothing forces a user to submit a job, nor a process to die.    *)
Fairness == /\ \A w \in Worker : WF_vars(WorkerStep(w))
            /\ \A j \in Job : WF_vars(Elapse(j))
            /\ \A p \in Process : WF_vars(Exit(p))

FairSpec == Spec /\ Fairness
-----------------------------------------------------------------------------
Answered(j) == delivered[j] + refunded[j] > 0
InStream(j) == id[j] > 0
Gone == {j \in Job : InStream(j)} \ (Unread \cup Pending)

(* A job that Redis took and no longer holds for any worker has been       *)
(* answered or dead-lettered: neither a crash, nor a second worker's claim, *)
(* nor an acknowledgement or its loss makes it vanish; only SIGINT does.   *)
NoJobLost == \A j \in Gone : Answered(j) \/ dlq[j] > 0 \/ j \in cancelled

(* ack_job "acknowledges and removes processed job" (broker.py:249): what  *)
(* it removed has been answered or dead-lettered.                          *)
OnlyProcessedJobsAcked == \A j \in Gone : Answered(j) \/ dlq[j] > 0

(* The poison-pill limit: a job is started at most MaxAttempts - 1 times,  *)
(* however its claims interleave, plus the starts for which the broker saw *)
(* no delivery count (broker.py suppresses a failed XPENDING and takes an  *)
(* empty answer for a first delivery; the in-memory queue keeps none).     *)
AttemptBound == \A j \in Job : attempts[j] < MaxAttempts + blind[j]

(* The user hears at most once per start, save for a message Telegram took *)
(* without answering: that one is delivered and refunded.                  *)
OneAnswerPerAttempt ==
  \A j \in Job : delivered[j] + refunded[j] <= attempts[j] + lostSends[j]

(* Nothing died or failed, and no process fell back, which a corrupted     *)
(* payload makes it do although no call failed.                            *)
Undisturbed == /\ crashes + interrupts + faults = 0
               /\ \A p \in Process : ~fallback[p]

Refusable(j) == \E p \in Process : j \in BadToken[p]

(* A job is started again only after a process died or was interrupted, a  *)
(* Redis call failed, a process fell back (its loops then acknowledge      *)
(* nothing), a start took longer than the 60 s a claim waits, or the token *)
(* of its bot is malformed in some process, which acknowledges nothing.    *)
RetryHasCause ==
  \A j \in Job : attempts[j] > 1 => ~Undisturbed \/ j \in overran \/ Refusable(j)

(* A job is dead-lettered without ever having been started only if the     *)
(* reply that first handed it over was lost, or its payload is corrupted.  *)
DeadJobsWereStarted ==
  \A j \in Job : dlq[j] > 0 /\ attempts[j] = 0 => faults > 0 \/ j \in Corrupt

(* XLEN, which get_queue_length reports, counts no job that is neither     *)
(* unread nor pending, unless a worker is about to delete its entry, or    *)
(* the XDEL after its XACK failed or never came.                           *)
NoLeakedEntry ==
  \A j \in entries \ (Unread \cup Pending) :
    \/ \E w \in Worker : pc[w] \in {"del", "dlqDel"} /\ job[w] = j
    \/ crashes + interrupts + faults > 0

(* The queue implements the at-least-once contract of JobContract.         *)
Contract == INSTANCE JobContract WITH
              accepted  <- {j \in Job : InStream(j)},
              answered  <- {j \in Job : InStream(j) /\ Answered(j)},
              dead      <- {j \in Job : dlq[j] > 0},
              abandoned <- {j \in cancelled : InStream(j)},
              closed    <- Gone

ImplementsContract == Contract!Spec

Settled(j) == Answered(j) \/ dlq[j] > 0

(* While some worker process still reads Redis, every job Redis took is    *)
(* answered or dead-lettered in the end, whoever crashes on the way; but   *)
(* for the job SIGINT cancels.                                             *)
JobsSettleUnlessAllFellBack ==
  \A j \in Job :
    InStream(j) ~> \/ Settled(j) \/ j \in cancelled
                   \/ \A w \in Worker : fallback[ProcOf[w]]

Kept(p, j) == \E i \in DOMAIN local[p] : local[p][i] = j

(* "transparent in-memory fallback" (broker.py:54): a job that enqueue_job *)
(* put in the memory of its process, because Redis did not take it, is     *)
(* answered or dead-lettered in the end.                                   *)
FallbackJobsSettle ==
  \A p \in Process, j \in Job : Kept(p, j) ~> Settled(j)
=============================================================================
