------------------------- MODULE GenerationPipeline -------------------------
(***************************************************************************)
(* A generation from the user's update to the answer: the handlers of      *)
(* ChatFlow, the run_generation_job they end in (bot/handlers/common.py),  *)
(* the job queue as JobContract promises it, the broker's fallback memory  *)
(* in the gateway, and the gateway's death.  A job is known by the update  *)
(* that asked for it.  Whether there is a credit to deduct, and whether a  *)
(* refund is credited, is up to the other calls for the user and to the    *)
(* database: CreditStore has both, query by query.                         *)
(***************************************************************************)
EXTENDS ChatFlow

VARIABLES
  charged,    \* generations a credit was deducted for
  repaid,     \* jobs whose refund was credited
  fallback,   \* the gateway's broker has given up Redis
  local,      \* jobs in its memory
  accepted, answered, dead, abandoned, closed, \* the queue: see JobContract
  deaf,       \* every worker process has given up Redis
  \* bookkeeping of the model
  delivered,  \* jobs whose media was sent
  unpaid,     \* jobs with a refund that added nothing to the balance
  unseen,     \* deductions whose reply was lost
  lost        \* jobs that were in local when the gateway died

queue == <<accepted, answered, dead, abandoned, closed>>
account == <<charged, repaid>>
broker == <<fallback, local>>
fates == <<delivered, unpaid, unseen, lost>>
Rest == <<account, broker, queue, deaf, fates>>
vars == <<chatVars, Rest>>

Queue == INSTANCE JobContract WITH Job <- Update

Init ==
  /\ ChatInit /\ Queue!Init
  /\ charged = {} /\ repaid = {}
  /\ fallback = FALSE /\ local = {} /\ deaf = FALSE
  /\ delivered = {} /\ unpaid = {} /\ unseen = {} /\ lost = {}

-----------------------------------------------------------------------------
(* run_generation_job.                                                     *)
Calls(u, label) ==
  /\ pc[u] = label
  /\ UNCHANGED <<chat, arrived, what, seen, got, asked, made, met>>

Fault == faults < MaxFaults /\ faults' = faults + 1

(* Variant for mutation: a query that fails counts as paid.                *)
DeductOrNot(u) ==
  /\ Calls(u, "deduct") /\ Fault /\ Goto(u, "status")
  /\ UNCHANGED <<Rest, failed>>

(* deduct_user_credit: a credit is taken, or there is none to take.  What  *)
(* the database raises it catches and answers False, also when the credit  *)
(* was taken and the reply lost.                                           *)
Deduct(u) ==
  /\ Calls(u, "deduct")
  /\ UNCHANGED <<repaid, broker, queue, deaf, delivered, unpaid, lost, failed>>
  /\ LET Spend == charged' = charged \cup {u}
     IN  \/ Spend /\ Goto(u, "status") /\ UNCHANGED <<unseen, faults>>
         \/ Goto(u, "end") /\ UNCHANGED <<charged, unseen, faults>>
         \/ Fault /\ Spend /\ Goto(u, "end") /\ unseen' = unseen \cup {u}

(* The status message is sent, the photo is saved, the job is made.        *)
SendStatus(u) ==
  /\ Calls(u, "status")
  /\ Goto(u, "enqueue")
  /\ UNCHANGED <<Rest, failed, faults>>

(* Variants for mutation: while Redis is away a job is dropped, or waits.  *)
EnqueueOrDrop(u) ==
  /\ Calls(u, "enqueue") /\ Goto(u, "end")
  /\ UNCHANGED <<account, deaf, fates, failed, broker, faults>>
  /\ (~fallback /\ Queue!Accept(u)) \/ (fallback /\ UNCHANGED queue)

EnqueueOrWait(u) ==
  /\ Calls(u, "enqueue") /\ Goto(u, "end")
  /\ UNCHANGED <<account, deaf, fates, failed, broker, faults>>
  /\ ~fallback /\ Queue!Accept(u)

(* enqueue_job never raises: what Redis does not take, or takes without an *)
(* answer, goes into the memory of the gateway, now and ever after.        *)
EnqueueJob(u) ==
  /\ Calls(u, "enqueue") /\ Goto(u, "end")
  /\ UNCHANGED <<account, deaf, fates, failed>>
  /\ LET Keep == fallback' = TRUE /\ local' = local \cup {u}
     IN  \/ ~fallback /\ Queue!Accept(u) /\ UNCHANGED <<broker, faults>>
         \/ ~fallback /\ Fault /\ Keep /\ (Queue!Accept(u) \/ UNCHANGED queue)
         \/ fallback /\ Keep /\ UNCHANGED <<queue, faults>>

GenerationStep(u) == Deduct(u) \/ SendStatus(u) \/ EnqueueJob(u)

-----------------------------------------------------------------------------
(* The workers, as the contract of the queue has it.                       *)
Works == /\ UNCHANGED <<chat, arrived, what, handler, failed, met>>
         /\ UNCHANGED <<charged, broker, unseen, lost>>

Sent(u) == delivered' = delivered \cup {u} /\ UNCHANGED <<repaid, unpaid>>

(* add_user_credits answers whatever becomes of its queries.  Every refund *)
(* has the charge id "refund": one at most is ever credited, and not even  *)
(* that one when the record is refused or a query fails.                   *)
Refunded(u) ==
  /\ UNCHANGED delivered
  /\ \/ repaid = {} /\ repaid' = {u} /\ UNCHANGED unpaid
     \/ unpaid' = unpaid \cup {u} /\ UNCHANGED repaid

(* A job that has had an outcome gets another one when a worker died, was  *)
(* too slow or lost a reply.                                               *)
Outcome(u) == /\ Works /\ UNCHANGED deaf
              /\ IF u \in answered \cup dead \cup abandoned THEN Fault ELSE UNCHANGED faults

Deliver(u) == Outcome(u) /\ Queue!Answer(u) /\ Sent(u)

Refund(u) == Outcome(u) /\ Queue!Answer(u) /\ Refunded(u)

GiveUp(u) == Outcome(u) /\ Queue!Bury(u) /\ UNCHANGED <<delivered, repaid, unpaid>>

(* Variant for mutation: a job is removed before it has had an outcome.    *)
LeaveUnfinished(u) ==
  /\ Works /\ UNCHANGED <<faults, deaf, delivered, repaid, unpaid>>
  /\ u \in accepted \ closed
  /\ closed' = closed \cup {u} /\ UNCHANGED <<accepted, answered, dead, abandoned>>

Leave(u) == Works /\ UNCHANGED <<faults, deaf, delivered, repaid, unpaid>> /\ Queue!Close(u)

(* SIGINT cuts a job short; its answer may just have taken effect.         *)
Interrupt(u) ==
  /\ Works /\ Fault /\ UNCHANGED deaf
  /\ Queue!Abandon({u})
  /\ \/ UNCHANGED <<answered, delivered, repaid, unpaid>>
     \/ answered' = answered \cup {u} /\ (Sent(u) \/ Refunded(u))

(* The last worker process that still read Redis falls back, and nobody    *)
(* restarts one; what they have in hand they may still answer.             *)
FallBack == /\ ~deaf /\ deaf' = TRUE /\ Fault
            /\ Works /\ UNCHANGED <<queue, delivered, repaid, unpaid>>

(* The gateway dies and is started again: its handlers and its memory are  *)
(* gone, the state of the chat is in Redis, updates that were waiting are  *)
(* dropped by set_webhook(drop_pending_updates=True).                      *)
Crash ==
  /\ Fault
  /\ failed' = failed \cup Running
  /\ pc' = [u \in Update |-> IF u \in Running THEN "end" ELSE pc[u]]
  /\ fallback' = FALSE /\ local' = {} /\ lost' = lost \cup local
  /\ UNCHANGED <<chat, arrived, what, seen, got, asked, made, met,
                 account, queue, deaf, delivered, unpaid, unseen>>

(* A deduction never raises, and after the status message only the saving  *)
(* of a photo may.                                                         *)
Fail(u) ==
  /\ pc[u] # "deduct" /\ (pc[u] = "enqueue" => made[u].photo # NoUpdate)
  /\ Raise(u)

Next ==
  \/ \E k \in Kind : Arrive(k) /\ UNCHANGED Rest
  \/ \E u \in Update :
       \/ (HandlerStep(u) \/ Fail(u)) /\ UNCHANGED Rest
       \/ GenerationStep(u)
       \/ Deliver(u) \/ Refund(u) \/ GiveUp(u) \/ Leave(u) \/ Interrupt(u)
  \/ FallBack \/ Crash

Spec == Init /\ [][Next]_vars

(* The event loop runs as long as a handler can go on.  Every job that     *)
(* Redis took is answered, dead-lettered or cut short in the end while one *)
(* worker process still reads Redis (JobsSettleUnlessAllFellBack of        *)
(* WorkerPool).                                                            *)
HandlersRun == \E u \in Update : (HandlerStep(u) /\ UNCHANGED Rest) \/ GenerationStep(u)
WorkersRun == /\ ~deaf
              /\ \E u \in accepted \ (answered \cup dead \cup abandoned) :
                   Deliver(u) \/ Refund(u) \/ GiveUp(u)

Fairness == WF_vars(HandlersRun) /\ WF_vars(WorkersRun)

FairSpec == Spec /\ Fairness

-----------------------------------------------------------------------------
TypeOK ==
  /\ fsm \in {"none", "selecting", "waiting", "custom"} /\ data \in Data
  /\ arrived \in 0..MaxUpdates /\ what \in [Update -> Kind]
  /\ pc \in [Update -> ChatPC] /\ seen \in [Update -> {"none", "selecting", "waiting", "custom"}]
  /\ got \in [Update -> Data] /\ made \in [Update -> Data]
  /\ asked \cup failed \subseteq Update /\ met \in [Update -> SUBSET Update] /\ faults \in 0..MaxFaults
  /\ charged \subseteq Update /\ repaid \subseteq Update /\ deaf \in BOOLEAN
  /\ fallback \in BOOLEAN /\ local \subseteq Update
  /\ accepted \subseteq Update /\ answered \subseteq accepted /\ dead \subseteq accepted
  /\ abandoned \subseteq accepted /\ closed \subseteq answered \cup dead \cup abandoned
  /\ delivered \cup unpaid \cup unseen \cup lost \subseteq Update

(* What became of a generation that was charged for.                       *)
Owed == charged \ (delivered \cup repaid)
InWork(u) == pc[u] \in {"status", "enqueue"} \/ u \in (accepted \ closed) \cup local
Forfeit == unseen \cup failed \cup lost \cup unpaid \cup dead \cup abandoned

(* Nobody pays for nothing: a generation that was charged for, and whose   *)
(* user has neither the media nor the credit back, is being worked on; or  *)
(* the reply to its deduction was lost, its handler raised or died after   *)
(* the charge (common.py:89-134), the gateway died with it in its memory,  *)
(* its refund added nothing (worker.py:264-318 acks the job all the same), *)
(* it is in the dead-letter stream or was cut short.                       *)
NoChargeForgotten == \A u \in Owed : InWork(u) \/ u \in Forfeit

(* One choice, one charge: two generations that were charged for with the  *)
(* same choice of a preset were handled at the same time (photo.py:36-53:  *)
(* the state is read, and cleared several awaits later).  So were two with *)
(* the same photo, or the first one met a choice of a preset that read the *)
(* state before it was cleared and wrote it back (presets.py:107).         *)
OneChargePerChoice ==
  \A u, v \in charged :
    u < v => /\ made[u].preset = made[v].preset /\ made[u].preset # NoUpdate => v \in met[u]
             /\ made[u].photo = made[v].photo /\ made[u].photo # NoUpdate =>
                  v \in met[u] \/ \E w \in met[u] : what[w] = "preset"

(* Nothing is for free either: a job in the queue or in the memory of the  *)
(* gateway, media that was sent and a credit that was given back belong to *)
(* a generation its own handler was charged for, and one refund at most    *)
(* was credited.                                                           *)
EveryJobPaid ==
  /\ accepted \cup local \cup lost \subseteq charged
  /\ delivered \cup repaid \subseteq charged
  /\ \A u, v \in repaid : u = v

(* When the updates stop, every handler comes to an end, and what was      *)
(* charged for is delivered, repaid or forfeited, or strands in the memory *)
(* of the gateway, which no worker reads (broker.py:124-130); or every     *)
(* worker has given up Redis and nobody restarts one.                      *)
EveryRequestSettles ==
  <>[](Running = {} /\ (deaf \/ Owed \subseteq Forfeit \cup local))
=============================================================================
