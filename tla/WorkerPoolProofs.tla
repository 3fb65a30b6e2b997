-------------------------- MODULE WorkerPoolProofs --------------------------
(***************************************************************************)
(* Theorems about WorkerPool, for every set of jobs, processes and worker  *)
(* loops, every claim batch and poison-pill limit, and any number of       *)
(* faults, crashes and interrupts.                                         *)
(***************************************************************************)
EXTENDS WorkerPool, FiniteSetTheorems, TLAPS

-----------------------------------------------------------------------------
(* Type correctness, one lemma for each building block of the actions.     *)

(* What a Redis call does to Redis, if it takes effect at all.             *)
RedisCall == \/ \E j \in Job : XAdd(j) \/ XReadNew(j) \/ XAck(j) \/ XDel(j) \/ XAddDlq(j)
             \/ \E B \in SUBSET Job : XAutoClaim(B)
             \/ UNCHANGED redis

LEMMA RedisCallType ==
  ASSUME RedisTypeOK, RedisCall
  PROVE  RedisTypeOK'
<1> USE DEF RedisTypeOK
<1>1. CASE \E j \in Job : XAdd(j)
  BY <1>1 DEF XAdd
<1>2. CASE \E j \in Job : XReadNew(j)
  BY <1>2 DEF XReadNew
<1>3. CASE \E j \in Job : XAck(j)
  BY <1>3 DEF XAck
<1>4. CASE \E j \in Job : XDel(j)
  BY <1>4 DEF XDel
<1>5. CASE \E j \in Job : XAddDlq(j)
  BY <1>5 DEF XAddDlq
<1>6. CASE \E B \in SUBSET Job : XAutoClaim(B)
  BY <1>6 DEF XAutoClaim
<1>7. CASE UNCHANGED redis
  BY <1>7 DEF redis
<1>. QED
  BY <1>1, <1>2, <1>3, <1>4, <1>5, <1>6, <1>7 DEF RedisCall

LEMMA ChargeType ==
  ASSUME faults \in Nat, NEW r, Charge(r)
  PROVE  faults' \in Nat
BY DEF Charge

LEMMA ReturnType ==
  ASSUME WorkerTypeOK, CountTypeOK, NEW w \in Worker, NEW j \in Job,
         NEW fromStream \in BOOLEAN, NEW counted, Return(w, j, fromStream, counted)
  PROVE  WorkerTypeOK' /\ CountTypeOK'
<1>1. WorkerTypeOK'
  BY DEF WorkerTypeOK, PCs, Return
<1>2. CountTypeOK'
  BY DEF CountTypeOK, Return
<1>. QED
  BY <1>1, <1>2

LEMMA ReturnNoneType ==
  ASSUME WorkerTypeOK, CountTypeOK, NEW w \in Worker, ReturnNone(w)
  PROVE  WorkerTypeOK' /\ CountTypeOK'
BY DEF WorkerTypeOK, CountTypeOK, PCs, ReturnNone, counts

LEMMA NextEntryType ==
  ASSUME WorkerTypeOK, CountTypeOK, NEW w \in Worker, NextEntry(w)
  PROVE  WorkerTypeOK' /\ CountTypeOK'
BY DEF WorkerTypeOK, CountTypeOK, PCs, NextEntry, counts

LEMMA ToDlqType ==
  ASSUME WorkerTypeOK, CountTypeOK, NEW w \in Worker, NEW j \in Job, ToDlq(w, j)
  PROVE  WorkerTypeOK' /\ CountTypeOK'
BY DEF WorkerTypeOK, CountTypeOK, PCs, ToDlq, counts

LEMMA FinishType ==
  ASSUME WorkerTypeOK, CountTypeOK, NEW w \in Worker, Finish(w),
         UNCHANGED <<claimed, counts>>
  PROVE  WorkerTypeOK' /\ CountTypeOK'
BY DEF WorkerTypeOK, CountTypeOK, PCs, Finish, counts

(* A worker that only moves on with the job it has at hand.                *)
LEMMA GotoType ==
  ASSUME WorkerTypeOK, NEW w \in Worker, job[w] \in Job, NEW label \in PCs,
         Goto(w, label), UNCHANGED <<claimed, job, viaStream>>
  PROVE  WorkerTypeOK'
BY DEF WorkerTypeOK, Goto
-----------------------------------------------------------------------------
(* Type correctness of each action.                                        *)

poolVars == <<outcome, overran, cancelled, lifecycle>>

(* An action that touches the variables of one component only through the  *)
(* blocks above keeps the types of the rest.                               *)
LEMMA PoolUnchangedType ==
  ASSUME TypeOK, UNCHANGED poolVars, faults' \in Nat, RedisTypeOK',
         fallback' \in [Process -> BOOLEAN], local' \in [Process -> Seq(Job)],
         WorkerTypeOK', CountTypeOK'
  PROVE  TypeOK'
BY DEF TypeOK, MemoryTypeOK, OutcomeTypeOK, poolVars, outcome, lifecycle

LEMMA ClaimType ==
  ASSUME TypeOK, NEW w \in Worker, Claim(w), UNCHANGED poolVars
  PROVE  TypeOK'
<1>1. PICK r \in Reply, B \in SUBSET Job :
        /\ Charge(r)
        /\ IF Applied(r) THEN XAutoClaim(B) ELSE UNCHANGED redis
        /\ claimed' = [claimed EXCEPT ![w] = IF r = "ok" THEN B ELSE {}]
        /\ pc' = [pc EXCEPT ![w] = IF r = "ok" /\ B # {} THEN "inspect" ELSE "read"]
        /\ UNCHANGED <<fallback, local, job, viaStream, counts>>
  BY DEF Claim
<1>2. RedisTypeOK'
  BY <1>1, RedisCallType DEF RedisCall, TypeOK
<1>3. faults' \in Nat
  BY <1>1, ChargeType DEF TypeOK, OutcomeTypeOK
<1>4. WorkerTypeOK'
  BY <1>1 DEF TypeOK, WorkerTypeOK, PCs
<1>5. CountTypeOK' /\ UNCHANGED <<fallback, local>>
  BY <1>1 DEF TypeOK, CountTypeOK, counts
<1>. QED
  BY <1>2, <1>3, <1>4, <1>5, PoolUnchangedType DEF TypeOK, MemoryTypeOK

LEMMA InspectType ==
  ASSUME TypeOK, NEW w \in Worker, Inspect(w), UNCHANGED poolVars
  PROVE  TypeOK'
<1>1. PICK j \in claimed[w], r \in {"ok", "refused"} :
        /\ Charge(r) \/ UNCHANGED faults
        /\ ToDlq(w, j) \/ \E seen \in BOOLEAN : Return(w, j, TRUE, seen)
        /\ UNCHANGED <<redis, fallback, local>>
  BY DEF Inspect
<1>2. j \in Job
  BY DEF TypeOK, WorkerTypeOK
<1>3. RedisTypeOK' /\ faults' \in Nat
  BY <1>1, RedisCallType, ChargeType DEF RedisCall, TypeOK, OutcomeTypeOK
<1>4. WorkerTypeOK' /\ CountTypeOK'
  BY <1>1, <1>2, ToDlqType, ReturnType DEF TypeOK
<1>. QED
  BY <1>1, <1>3, <1>4, PoolUnchangedType DEF TypeOK, MemoryTypeOK

LEMMA DlqType ==
  ASSUME TypeOK, NEW w \in Worker, DlqAdd(w) \/ DlqAck(w) \/ DlqDel(w),
         UNCHANGED poolVars
  PROVE  TypeOK'
<1>1. job[w] \in Job
  BY DEF TypeOK, WorkerTypeOK, DlqAdd, DlqAck, DlqDel
<1>2. /\ \E r \in Reply : Charge(r)
      /\ XAddDlq(job[w]) \/ XAck(job[w]) \/ XDel(job[w]) \/ UNCHANGED redis
      /\ \/ NextEntry(w)
         \/ \E label \in {"dlqAck", "dlqDel"} :
              pc' = [pc EXCEPT ![w] = label] /\ UNCHANGED <<claimed, job, viaStream, counts>>
      /\ UNCHANGED <<fallback, local>>
  BY DEF DlqAdd, DlqAck, DlqDel
<1>3. RedisTypeOK' /\ faults' \in Nat
  BY <1>1, <1>2, RedisCallType, ChargeType DEF RedisCall, TypeOK, OutcomeTypeOK
<1>4. WorkerTypeOK' /\ CountTypeOK'
  <2>1. CASE NextEntry(w)
    BY <2>1, NextEntryType DEF TypeOK
  <2>2. ASSUME NEW label \in {"dlqAck", "dlqDel"}, pc' = [pc EXCEPT ![w] = label],
               UNCHANGED <<claimed, job, viaStream, counts>>
        PROVE  WorkerTypeOK' /\ CountTypeOK'
    BY <1>1, <2>2, GotoType DEF TypeOK, CountTypeOK, counts, Goto, PCs
  <2>. QED
    BY <1>2, <2>1, <2>2
<1>. QED
  BY <1>2, <1>3, <1>4, PoolUnchangedType DEF TypeOK, MemoryTypeOK

LEMMA ReadNewType ==
  ASSUME TypeOK, NEW w \in Worker, ReadNew(w), UNCHANGED poolVars
  PROVE  TypeOK'
<1>1. /\ \E r : Charge(r)
      /\ \/ ReturnNone(w) /\ UNCHANGED redis
         \/ \E j \in Unread : /\ XReadNew(j) \/ UNCHANGED redis
                              /\ ReturnNone(w) \/ Return(w, j, TRUE, TRUE)
      /\ UNCHANGED fallback \/ FallBack(ProcOf[w])
      /\ UNCHANGED local
  BY DEF ReadNew
<1>2. Unread \subseteq Job
  BY DEF Unread, TypeOK, RedisTypeOK
<1>3. RedisTypeOK' /\ faults' \in Nat
  BY <1>1, <1>2, RedisCallType, ChargeType DEF RedisCall, TypeOK, OutcomeTypeOK
<1>4. WorkerTypeOK' /\ CountTypeOK'
  BY <1>1, <1>2, ReturnNoneType, ReturnType DEF TypeOK
<1>5. fallback' \in [Process -> BOOLEAN]
  BY <1>1, BrokerAssumption DEF FallBack, TypeOK, MemoryTypeOK
<1>. QED
  BY <1>1, <1>3, <1>4, <1>5, PoolUnchangedType DEF TypeOK, MemoryTypeOK

LEMMA ReadLocalType ==
  ASSUME TypeOK, NEW w \in Worker, ReadLocal(w), UNCHANGED poolVars
  PROVE  TypeOK'
<1> DEFINE p == ProcOf[w]
<1>1. p \in Process /\ local[p] \in Seq(Job)
  BY BrokerAssumption DEF TypeOK, MemoryTypeOK
<1>2. RedisTypeOK' /\ faults' \in Nat /\ UNCHANGED fallback
  BY RedisCallType DEF RedisCall, ReadLocal, TypeOK, OutcomeTypeOK
<1>3. CASE local[p] = << >>
  <2>1. ReturnNone(w) /\ UNCHANGED local
    BY <1>3 DEF ReadLocal
  <2>. QED
    BY <1>2, <2>1, ReturnNoneType, PoolUnchangedType DEF TypeOK, MemoryTypeOK
<1>4. CASE local[p] # << >>
  <2>1. local' = [local EXCEPT ![p] = Tail(@)] /\ Return(w, Head(local[p]), FALSE, FALSE)
    BY <1>4 DEF ReadLocal
  <2>2. Head(local[p]) \in Job /\ Tail(local[p]) \in Seq(Job)
    BY <1>1, <1>4
  <2>3. local' \in [Process -> Seq(Job)]
    BY <2>1, <2>2 DEF TypeOK, MemoryTypeOK
  <2>4. WorkerTypeOK' /\ CountTypeOK'
    BY <2>1, <2>2, ReturnType DEF TypeOK
  <2>. QED
    BY <1>2, <2>3, <2>4, PoolUnchangedType DEF TypeOK, MemoryTypeOK
<1>. QED
  BY <1>3, <1>4

LEMMA AckType ==
  ASSUME TypeOK, NEW w \in Worker, AckJob(w) \/ DeleteEntry(w), UNCHANGED poolVars
  PROVE  TypeOK'
<1>1. job[w] \in Job
  BY DEF TypeOK, WorkerTypeOK, AckJob, DeleteEntry
<1>2. /\ UNCHANGED faults \/ \E r \in Reply : Charge(r)
      /\ XAck(job[w]) \/ XDel(job[w]) \/ UNCHANGED redis
      /\ Finish(w) \/ (pc' = [pc EXCEPT ![w] = "del"] /\ UNCHANGED <<job, viaStream>>)
      /\ UNCHANGED <<fallback, local, claimed, counts>>
  BY DEF AckJob, DeleteEntry
<1>3. RedisTypeOK' /\ faults' \in Nat
  BY <1>1, <1>2, RedisCallType, ChargeType DEF RedisCall, TypeOK, OutcomeTypeOK
<1>4. WorkerTypeOK' /\ CountTypeOK'
  <2>1. CASE Finish(w)
    BY <1>2, <2>1, FinishType DEF TypeOK
  <2>2. CASE pc' = [pc EXCEPT ![w] = "del"] /\ UNCHANGED <<job, viaStream>>
    BY <1>1, <1>2, <2>2, GotoType DEF TypeOK, CountTypeOK, counts, Goto, PCs
  <2>. QED
    BY <1>2, <2>1, <2>2
<1>. QED
  BY <1>2, <1>3, <1>4, PoolUnchangedType DEF TypeOK, MemoryTypeOK

LEMMA GenerateAndSendType ==
  ASSUME TypeOK, NEW w \in Worker, GenerateAndSend(w),
         UNCHANGED <<overran, cancelled, lifecycle>>
  PROVE  TypeOK'
<1>1. job[w] \in Job
  BY DEF TypeOK, WorkerTypeOK, GenerateAndSend
<1>2. /\ UNCHANGED atHand /\ UNCHANGED refunded
      /\ Send(w) \/ UNCHANGED delivered
      /\ lostSends' = [lostSends EXCEPT ![job[w]] = @ + 1] \/ UNCHANGED lostSends
      /\ Goto(w, "ack") \/ Goto(w, "refund")
  BY DEF GenerateAndSend
<1>3. WorkerTypeOK'
  BY <1>1, <1>2, GotoType DEF TypeOK, atHand, PCs
<1>4. RedisTypeOK' /\ MemoryTypeOK' /\ CountTypeOK'
  BY <1>2, RedisCallType DEF RedisCall, TypeOK, MemoryTypeOK, CountTypeOK, atHand,
                             counts, lifecycle
<1>5. OutcomeTypeOK'
  BY <1>1, <1>2 DEF TypeOK, OutcomeTypeOK, Send, atHand, lifecycle
<1>. QED
  BY <1>3, <1>4, <1>5 DEF TypeOK

LEMMA RefundJobType ==
  ASSUME TypeOK, NEW w \in Worker, RefundJob(w),
         UNCHANGED <<overran, cancelled, lifecycle>>
  PROVE  TypeOK'
<1>1. job[w] \in Job
  BY DEF TypeOK, WorkerTypeOK, RefundJob
<1>2. /\ UNCHANGED atHand /\ UNCHANGED <<delivered, lostSends>>
      /\ refunded' = [refunded EXCEPT ![job[w]] = @ + 1]
      /\ Goto(w, "ack")
  BY DEF RefundJob
<1>3. WorkerTypeOK'
  BY <1>1, <1>2, GotoType DEF TypeOK, atHand, PCs
<1>4. RedisTypeOK' /\ MemoryTypeOK' /\ CountTypeOK'
  BY <1>2, RedisCallType DEF RedisCall, TypeOK, MemoryTypeOK, CountTypeOK, atHand,
                             counts, lifecycle
<1>5. OutcomeTypeOK'
  BY <1>1, <1>2 DEF TypeOK, OutcomeTypeOK, atHand, lifecycle
<1>. QED
  BY <1>3, <1>4, <1>5 DEF TypeOK

LEMMA RefuseTokenType ==
  ASSUME TypeOK, NEW w \in Worker, RefuseToken(w), UNCHANGED poolVars
  PROVE  TypeOK'
<1>1. WorkerTypeOK' /\ CountTypeOK'
  BY FinishType DEF RefuseToken, TypeOK
<1>2. RedisTypeOK' /\ faults' \in Nat
  BY RedisCallType DEF RefuseToken, RedisCall, TypeOK, OutcomeTypeOK
<1>. QED
  BY <1>1, <1>2, PoolUnchangedType DEF RefuseToken, TypeOK, MemoryTypeOK

LEMMA WorkerStepType ==
  ASSUME TypeOK, NEW w \in Worker, WorkerStep(w)
  PROVE  TypeOK'
<1>1. CASE /\ \/ Claim(w) \/ Inspect(w) \/ DlqAdd(w) \/ DlqAck(w) \/ DlqDel(w)
              \/ ReadNew(w) \/ ReadLocal(w) \/ AckJob(w) \/ DeleteEntry(w)
           /\ UNCHANGED outcome
  <2>1. UNCHANGED poolVars
    BY <1>1 DEF WorkerStep, poolVars, outcome
  <2>. QED
    BY <1>1, <2>1, ClaimType, InspectType, DlqType, ReadNewType, ReadLocalType, AckType
<1>2. CASE GenerateAndSend(w) \/ RefundJob(w)
  BY <1>2, GenerateAndSendType, RefundJobType DEF WorkerStep
<1>3. CASE RefuseToken(w)
  BY <1>3, RefuseTokenType DEF WorkerStep, RefuseToken, poolVars
<1>. QED
  BY <1>1, <1>2, <1>3 DEF WorkerStep

LEMMA EnqueueType ==
  ASSUME TypeOK, NEW p \in Process, NEW j \in Job, Enqueue(p, j)
  PROVE  TypeOK'
<1>1. /\ UNCHANGED faults \/ \E r \in Reply : Charge(r)
      /\ XAdd(j) \/ UNCHANGED redis
      /\ UNCHANGED fallback \/ fallback' = [fallback EXCEPT ![p] = TRUE]
      /\ UNCHANGED local \/ local' = [local EXCEPT ![p] = Append(@, j)]
      /\ submitted' = submitted \cup {j}
      /\ UNCHANGED <<pc, claimed, job, viaStream, attempts, blind>>
      /\ UNCHANGED poolVars
  BY DEF Enqueue, EnqueueJob, poolVars, outcome
<1>2. RedisTypeOK' /\ faults' \in Nat
  BY <1>1, RedisCallType, ChargeType DEF RedisCall, TypeOK, OutcomeTypeOK
<1>3. fallback' \in [Process -> BOOLEAN]
  BY <1>1 DEF TypeOK, MemoryTypeOK
<1>4. local' \in [Process -> Seq(Job)]
  <2>1. local \in [Process -> Seq(Job)] /\ Append(local[p], j) \in Seq(Job)
    BY DEF TypeOK, MemoryTypeOK
  <2>. QED
    BY <1>1, <2>1
<1>5. WorkerTypeOK' /\ CountTypeOK'
  BY <1>1 DEF TypeOK, WorkerTypeOK, CountTypeOK
<1>. QED
  BY <1>1, <1>2, <1>3, <1>4, <1>5, PoolUnchangedType

LEMMA ElapseType ==
  ASSUME TypeOK, NEW j \in Job, Elapse(j)
  PROVE  TypeOK'
<1>1. RedisTypeOK'
  BY DEF Elapse, IdleElapses, TypeOK, RedisTypeOK, Pending
<1>2. MemoryTypeOK' /\ WorkerTypeOK' /\ CountTypeOK'
  BY DEF Elapse, TypeOK, MemoryTypeOK, WorkerTypeOK, CountTypeOK, counts, lifecycle
<1>3. OutcomeTypeOK'
  BY DEF Elapse, TypeOK, OutcomeTypeOK, outcome, lifecycle
<1>. QED
  BY <1>1, <1>2, <1>3 DEF TypeOK

LEMMA RenewType ==
  ASSUME TypeOK, NEW p \in Process, Crash(p) \/ Exit(p)
  PROVE  TypeOK'
<1>1. Renew(p) /\ crashes' \in Nat /\ UNCHANGED interrupts
  BY DEF Crash, Exit, TypeOK, OutcomeTypeOK
<1>2. RedisTypeOK' /\ CountTypeOK'
  BY <1>1, RedisCallType DEF RedisCall, Renew, TypeOK, CountTypeOK, counts
<1>3. MemoryTypeOK'
  <2>1. << >> \in Seq(Job)
    OBVIOUS
  <2>. QED
    BY <1>1, <2>1 DEF Renew, TypeOK, MemoryTypeOK
<1>4. WorkerTypeOK'
  BY <1>1 DEF Renew, TypeOK, WorkerTypeOK, PCs
<1>5. OutcomeTypeOK'
  BY <1>1 DEF Renew, TypeOK, OutcomeTypeOK, outcome
<1>. QED
  BY <1>2, <1>3, <1>4, <1>5 DEF TypeOK

(* How many of finitely many loops were cut short is a natural number.     *)
LEMMA SomeWorkersCount ==
  ASSUME NEW S, S \subseteq Worker
  PROVE  Cardinality(S) \in Nat
<1>1. IsFiniteSet(S)
  BY FS_Subset, BrokerAssumption
<1>. QED
  BY <1>1, FS_CardinalityType

LEMMA InterruptType ==
  ASSUME TypeOK, NEW p \in Process, Interrupt(p)
  PROVE  TypeOK'
<1> DEFINE inTry == {w \in In(p) : \/ pc[w] = "refund"
                                   \/ /\ pc[w] = "start"
                                      /\ HasBot(w)}
           At(label, j) == {w \in inTry : pc[w] = label /\ job[w] = j}
<1>1. inTry \subseteq Worker /\ \A w \in inTry : job[w] \in Job
  BY DEF In, TypeOK, WorkerTypeOK
<1>2. /\ pc' = [w \in Worker |-> IF w \in inTry THEN "ack"
                                  ELSE IF w \in In(p) THEN "idle" ELSE pc[w]]
      /\ job' = [w \in Worker |-> IF w \in In(p) \ inTry THEN NoJob ELSE job[w]]
      /\ viaStream' = [w \in Worker |-> w \notin In(p) \ inTry /\ viaStream[w]]
      /\ cancelled' = cancelled \cup {job[w] : w \in inTry}
      /\ claimed' = [w \in Worker |-> IF w \in In(p) THEN {} ELSE claimed[w]]
  BY DEF Interrupt
<1>3. RedisTypeOK' /\ CountTypeOK' /\ MemoryTypeOK'
  BY RedisCallType DEF RedisCall, Interrupt, TypeOK, CountTypeOK, MemoryTypeOK, counts
<1>4. WorkerTypeOK'
  BY <1>1, <1>2 DEF TypeOK, WorkerTypeOK, PCs
<1>5. delivered' \in [Job -> Nat] /\ refunded' \in [Job -> Nat]
  <2>1. PICK inFlight \in SUBSET inTry :
          /\ delivered' = [j \in Job |-> delivered[j]
                                 + Cardinality(inFlight \cap At("start", j))]
          /\ refunded' = [j \in Job |-> refunded[j]
                                 + Cardinality(inFlight \cap At("refund", j))]
    BY DEF Interrupt
  <2> DEFINE sent(j) == Cardinality(inFlight \cap At("start", j))
             repaid(j) == Cardinality(inFlight \cap At("refund", j))
  <2>2. \A j \in Job : sent(j) \in Nat /\ repaid(j) \in Nat
    BY <1>1, SomeWorkersCount
  <2>3. /\ delivered' = [j \in Job |-> delivered[j] + sent(j)]
        /\ refunded' = [j \in Job |-> refunded[j] + repaid(j)]
    BY <2>1
  <2> HIDE DEF sent, repaid
  <2>. QED
    BY <2>2, <2>3 DEF TypeOK, OutcomeTypeOK
<1>6. OutcomeTypeOK'
  BY <1>1, <1>2, <1>5 DEF Interrupt, TypeOK, OutcomeTypeOK
<1>. QED
  BY <1>3, <1>4, <1>6 DEF TypeOK

LEMMA InitType == Init => TypeOK
BY DEF Init, TypeOK, RedisTypeOK, MemoryTypeOK, WorkerTypeOK, CountTypeOK,
       OutcomeTypeOK, PCs

LEMMA NextType == TypeOK /\ [Next]_vars => TypeOK'
<1> SUFFICES ASSUME TypeOK, [Next]_vars
             PROVE  TypeOK'
  OBVIOUS
<1>1. CASE Next
  BY <1>1, EnqueueType, WorkerStepType, ElapseType, RenewType, InterruptType DEF Next
<1>2. CASE UNCHANGED vars
  BY <1>2 DEF vars, brokerVars, redis, counts, outcome, lifecycle, TypeOK, RedisTypeOK,
              MemoryTypeOK, WorkerTypeOK, CountTypeOK, OutcomeTypeOK
<1>. QED
  BY <1>1, <1>2

(* Every variable keeps its type, in every instance of the model.          *)
THEOREM TypeCorrect == Spec => []TypeOK
BY InitType, NextType, PTL DEF Spec
-----------------------------------------------------------------------------
(***************************************************************************)
(* The poison-pill limit of the broker holds however claims, crashes and   *)
(* failures interleave.  The limit is not inductive: a worker decides on   *)
(* the delivery count it reads when it inspects an entry, possibly long    *)
(* after it claimed it.  What is inductive is that every start the broker  *)
(* counted, and every claim still to be inspected, was paid for by one     *)
(* delivery of its own.                                                    *)
(***************************************************************************)

(* The loops that still have to look at their claim of j.                  *)
Claimers(j) == {w \in Worker : j \in claimed[w]}

Delivered(j) == id[j] > 0 /\ id[j] <= lastRead

(* What Redis never handed out is neither pending nor claimed.             *)
HandedOutFirst ==
  /\ lastRead <= lastAdded
  /\ \A j \in Job : id[j] <= lastAdded /\ (id[j] > 0 => j \in submitted)
  /\ \A j \in Job : ~Delivered(j) => times[j] = 0 /\ Claimers(j) = {}
  /\ idle \subseteq Pending

StartsPaid ==
  \A j \in Job :
    /\ ~Delivered(j) => attempts[j] <= blind[j]
    /\ times[j] > 0 => attempts[j] + Cardinality(Claimers(j)) <= blind[j] + times[j]
    /\ attempts[j] < MaxAttempts + blind[j]

DeliveryInv == TypeOK /\ HandedOutFirst /\ StartsPaid

-----------------------------------------------------------------------------
LEMMA ClaimersCount ==
  ASSUME NEW j \in Job
  PROVE  /\ Cardinality(Claimers(j)) \in Nat
         /\ Cardinality(Claimers(j)') \in Nat
         /\ IsFiniteSet(Claimers(j)) /\ IsFiniteSet(Claimers(j)')
<1>1. Claimers(j) \subseteq Worker /\ Claimers(j)' \subseteq Worker
  BY DEF Claimers
<1>2. IsFiniteSet(Claimers(j)) /\ IsFiniteSet(Claimers(j)')
  BY <1>1, FS_Subset, BrokerAssumption
<1>. QED
  BY <1>2, FS_CardinalityType

NoNewClaim == \A w \in Worker : claimed'[w] \subseteq claimed[w]

LEMMA FewerClaimers ==
  ASSUME NEW j \in Job, NoNewClaim
  PROVE  /\ Claimers(j)' \subseteq Claimers(j)
         /\ Cardinality(Claimers(j)') <= Cardinality(Claimers(j))
<1>1. Claimers(j)' \subseteq Claimers(j)
  BY DEF Claimers, NoNewClaim
<1>. QED
  BY <1>1, ClaimersCount, FS_Subset

(* A loop that gives up its claim of j leaves one claimer less.            *)
LEMMA OneClaimerLess ==
  ASSUME NEW j \in Job, NoNewClaim, NEW w \in Worker, j \in claimed[w], j \notin claimed'[w]
  PROVE  Cardinality(Claimers(j)') < Cardinality(Claimers(j))
<1>1. Claimers(j)' \subseteq Claimers(j) /\ w \in Claimers(j) /\ w \notin Claimers(j)'
  BY FewerClaimers DEF Claimers
<1>. QED
  BY <1>1, ClaimersCount, FS_Subset

(* A loop that claims a batch adds at most itself.                         *)
LEMMA OneClaimerMore ==
  ASSUME NEW j \in Job, NEW w \in Worker,
         \A v \in Worker \ {w} : claimed'[v] = claimed[v]
  PROVE  Cardinality(Claimers(j)') <= Cardinality(Claimers(j)) + 1
<1>1. Claimers(j)' \subseteq Claimers(j) \cup {w}
  BY DEF Claimers
<1>2. /\ IsFiniteSet(Claimers(j) \cup {w})
      /\ \/ Cardinality(Claimers(j) \cup {w}) = Cardinality(Claimers(j)) + 1
         \/ Cardinality(Claimers(j) \cup {w}) = Cardinality(Claimers(j))
  BY ClaimersCount, FS_AddElement
<1>3. Cardinality(Claimers(j)') <= Cardinality(Claimers(j) \cup {w})
  BY <1>1, <1>2, FS_Subset
<1>. QED
  BY <1>2, <1>3, ClaimersCount
-----------------------------------------------------------------------------
(* Steps that start no job and deliver nothing.                            *)
Quiet == /\ NoNewClaim
         /\ UNCHANGED <<attempts, blind>>
         /\ submitted \subseteq submitted'
         /\ \/ \E j \in Job : XAck(j) \/ XDel(j) \/ XAddDlq(j)
            \/ \E j \in Pending : /\ idle' = idle \cup {j}
                                  /\ UNCHANGED <<id, lastAdded, lastRead, entries, times, dlq>>
            \/ UNCHANGED redis

LEMMA QuietKeeps ==
  ASSUME DeliveryInv, Quiet
  PROVE  HandedOutFirst' /\ StartsPaid'
<1>1. /\ UNCHANGED <<id, lastAdded, lastRead>>
      /\ \A j \in Job : times'[j] = times[j] \/ times'[j] = 0
  BY DEF Quiet, XAck, XDel, XAddDlq, redis, DeliveryInv, TypeOK, RedisTypeOK
<1>2. idle' \subseteq Pending'
  BY DEF Quiet, XAck, XDel, XAddDlq, redis, DeliveryInv, TypeOK, RedisTypeOK,
         HandedOutFirst, Pending
<1>3. \A j \in Job : /\ Claimers(j)' \subseteq Claimers(j)
                     /\ Cardinality(Claimers(j)') <= Cardinality(Claimers(j))
                     /\ Cardinality(Claimers(j)) \in Nat /\ Cardinality(Claimers(j)') \in Nat
  BY FewerClaimers, ClaimersCount DEF Quiet
<1>4. HandedOutFirst'
  <2>1. \A j \in Job : Delivered(j)' <=> Delivered(j)
    BY <1>1 DEF Delivered
  <2>2. \A j \in Job : ~Delivered(j)' => times'[j] = 0 /\ Claimers(j)' = {}
    BY <1>1, <1>3, <2>1 DEF DeliveryInv, HandedOutFirst
  <2>. QED
    BY <1>1, <1>2, <2>2 DEF DeliveryInv, HandedOutFirst, Quiet
<1>5. StartsPaid'
  <2> SUFFICES ASSUME NEW j \in Job
               PROVE  /\ ~Delivered(j)' => attempts'[j] <= blind'[j]
                      /\ times'[j] > 0 => attempts'[j] + Cardinality(Claimers(j)')
                                            <= blind'[j] + times'[j]
                      /\ attempts'[j] < MaxAttempts + blind'[j]
    BY DEF StartsPaid
  <2>1. Delivered(j)' <=> Delivered(j)
    BY <1>1 DEF Delivered
  <2>2. attempts'[j] = attempts[j] /\ blind'[j] = blind[j]
    BY DEF Quiet
  <2>3. attempts[j] \in Nat /\ blind[j] \in Nat /\ times[j] \in Nat
    BY DEF DeliveryInv, TypeOK, CountTypeOK, RedisTypeOK
  <2>. QED
    BY <1>1, <1>3, <2>1, <2>2, <2>3 DEF DeliveryInv, StartsPaid
<1>. QED
  BY <1>4, <1>5
-----------------------------------------------------------------------------
LEMMA ReturnDropsBatch ==
  ASSUME DeliveryInv, NEW w \in Worker, NEW j, NEW fromStream, NEW counted,
         Return(w, j, fromStream, counted)
  PROVE  NoNewClaim /\ claimed'[w] = {}
BY DEF Return, NoNewClaim, DeliveryInv, TypeOK, WorkerTypeOK

(* A start that Redis handed over nothing for: of an entry whose count is  *)
(* not known, of a job of the process's own queue, or of a claimed entry   *)
(* below the limit, which spends the claim.                                *)
LEMMA ReturnKeeps ==
  ASSUME DeliveryInv, NEW w \in Worker, NEW j \in Job, NEW fromStream,
         NEW counted \in BOOLEAN, Return(w, j, fromStream, counted), UNCHANGED redis,
         counted => j \in claimed[w] /\ times[j] > 0 /\ times[j] < MaxAttempts
  PROVE  HandedOutFirst' /\ StartsPaid'
<1>1. NoNewClaim /\ claimed'[w] = {}
  BY ReturnDropsBatch
<1>2. UNCHANGED <<id, lastAdded, lastRead, times, idle, submitted>>
  BY DEF redis, Return
<1>3. \A k \in Job : /\ Claimers(k)' \subseteq Claimers(k)
                     /\ Cardinality(Claimers(k)') <= Cardinality(Claimers(k))
                     /\ Cardinality(Claimers(k)) \in Nat /\ Cardinality(Claimers(k)') \in Nat
  BY <1>1, FewerClaimers, ClaimersCount
<1>4. \A k \in Job : Delivered(k)' <=> Delivered(k)
  BY <1>2 DEF Delivered
<1>5. HandedOutFirst'
  BY <1>2, <1>3, <1>4 DEF DeliveryInv, HandedOutFirst, Pending
<1>6. StartsPaid'
  <2> SUFFICES ASSUME NEW k \in Job
               PROVE  /\ ~Delivered(k)' => attempts'[k] <= blind'[k]
                      /\ times'[k] > 0 => attempts'[k] + Cardinality(Claimers(k)')
                                            <= blind'[k] + times'[k]
                      /\ attempts'[k] < MaxAttempts + blind'[k]
    BY DEF StartsPaid
  <2>1. /\ attempts[k] \in Nat /\ blind[k] \in Nat /\ times[k] \in Nat
        /\ attempts \in [Job -> Nat] /\ blind \in [Job -> Nat]
    BY DEF DeliveryInv, TypeOK, CountTypeOK, RedisTypeOK
  <2>2. /\ ~Delivered(k) => attempts[k] <= blind[k]
        /\ times[k] > 0 => attempts[k] + Cardinality(Claimers(k)) <= blind[k] + times[k]
        /\ attempts[k] < MaxAttempts + blind[k]
    BY DEF DeliveryInv, StartsPaid
  <2>3. MaxAttempts \in Nat
    BY BrokerAssumption
  <2>4. CASE k # j
    <3>1. attempts'[k] = attempts[k] /\ blind'[k] = blind[k]
      BY <2>1, <2>4 DEF Return
    <3>. QED
      BY <1>2, <1>3, <1>4, <2>1, <2>2, <2>3, <3>1
  <2>5. CASE k = j /\ ~counted
    <3>1. attempts'[k] = attempts[k] + 1 /\ blind'[k] = blind[k] + 1
      BY <2>1, <2>5 DEF Return
    <3>. QED
      BY <1>2, <1>3, <1>4, <2>1, <2>2, <2>3, <3>1
  <2>6. CASE k = j /\ counted
    <3>1. attempts'[k] = attempts[k] + 1 /\ blind'[k] = blind[k]
      BY <2>1, <2>6 DEF Return
    <3>2. Cardinality(Claimers(k)') < Cardinality(Claimers(k))
      BY <1>1, <2>6, OneClaimerLess
    <3>3. Delivered(k)
      BY <2>6 DEF DeliveryInv, HandedOutFirst
    <3>. QED
      BY <1>2, <1>3, <1>4, <2>1, <2>2, <2>3, <2>6, <3>1, <3>2, <3>3
  <2>. QED
    BY <2>4, <2>5, <2>6
<1>. QED
  BY <1>5, <1>6

LEMMA InspectKeeps ==
  ASSUME DeliveryInv, NEW w \in Worker, Inspect(w)
  PROVE  HandedOutFirst' /\ StartsPaid'
<1>1. PICK j \in claimed[w], r \in {"ok", "refused"} :
        LET seen == r = "ok" /\ j \in Pending
            deliveries == IF seen THEN times[j] ELSE 1
        IN  IF j \in Corrupt
            THEN r = "ok" /\ UNCHANGED faults /\ ToDlq(w, j)
            ELSE /\ Charge(r)
                 /\ IF deliveries >= MaxAttempts
                    THEN ToDlq(w, j)
                    ELSE Return(w, j, TRUE, seen)
  BY DEF Inspect
<1>2. j \in Job /\ UNCHANGED redis
  BY DEF Inspect, DeliveryInv, TypeOK, WorkerTypeOK
<1>3. CASE ToDlq(w, j)
  <2>1. Quiet
    BY <1>2, <1>3 DEF ToDlq, Quiet, NoNewClaim, counts, DeliveryInv, TypeOK, WorkerTypeOK
  <2>. QED
    BY <2>1, QuietKeeps
<1>4. ASSUME NEW seen \in BOOLEAN, seen => j \in Pending /\ ~(times[j] >= MaxAttempts),
             Return(w, j, TRUE, seen)
      PROVE  HandedOutFirst' /\ StartsPaid'
  <2>1. seen => times[j] > 0 /\ times[j] < MaxAttempts
    BY <1>2, <1>4, BrokerAssumption DEF Pending, DeliveryInv, TypeOK, RedisTypeOK
  <2>. QED
    BY <1>2, <1>4, <2>1, ReturnKeeps
<1>5. CASE r = "ok" /\ j \in Pending
  BY <1>1, <1>3, <1>4, <1>5
<1>6. CASE ~(r = "ok" /\ j \in Pending)
  BY <1>1, <1>3, <1>4, <1>6
<1>. QED
  BY <1>5, <1>6

LEMMA ReadLocalKeeps ==
  ASSUME DeliveryInv, NEW w \in Worker, ReadLocal(w)
  PROVE  HandedOutFirst' /\ StartsPaid'
<1> DEFINE p == ProcOf[w]
<1>1. CASE local[p] = << >>
  <2>1. Quiet
    BY <1>1 DEF ReadLocal, ReturnNone, counts, Quiet, NoNewClaim
  <2>. QED
    BY <2>1, QuietKeeps
<1>2. CASE local[p] # << >>
  <2>1. Return(w, Head(local[p]), FALSE, FALSE) /\ UNCHANGED redis
    BY <1>2 DEF ReadLocal
  <2>2. local[p] \in Seq(Job)
    BY BrokerAssumption DEF DeliveryInv, TypeOK, MemoryTypeOK
  <2>3. Head(local[p]) \in Job
    BY <1>2, <2>2
  <2>. QED
    BY <2>1, <2>3, ReturnKeeps
<1>. QED
  BY <1>1, <1>2

(* Claiming a batch pays one delivery for each entry of it.                *)
LEMMA ClaimKeeps ==
  ASSUME DeliveryInv, NEW w \in Worker, Claim(w)
  PROVE  HandedOutFirst' /\ StartsPaid'
<1>1. PICK r \in Reply, B \in SUBSET Job :
        /\ IsBatch(B)
        /\ IF Applied(r) THEN XAutoClaim(B) ELSE UNCHANGED redis
        /\ claimed' = [claimed EXCEPT ![w] = IF r = "ok" THEN B ELSE {}]
        /\ UNCHANGED counts
  BY DEF Claim
<1>2. claimed \in [Worker -> SUBSET Job]
  BY DEF DeliveryInv, TypeOK, WorkerTypeOK
<1>3. CASE ~Applied(r)
  <2>1. Quiet
    BY <1>1, <1>2, <1>3 DEF Applied, Quiet, NoNewClaim, counts
  <2>. QED
    BY <2>1, QuietKeeps
<1>4. CASE Applied(r)
  <2>1. XAutoClaim(B) /\ B \subseteq idle
    BY <1>1, <1>4 DEF IsBatch
  <2>2. UNCHANGED <<id, lastAdded, lastRead, submitted, attempts, blind>>
    BY <1>1, <2>1 DEF XAutoClaim, counts
  <2>3. \A k \in Job : Delivered(k)' <=> Delivered(k)
    BY <2>2 DEF Delivered
  <2>4. \A k \in B : times[k] > 0 /\ Delivered(k)
    BY <2>1, <1>1 DEF DeliveryInv, HandedOutFirst, Pending
  <2>5. times \in [Job -> Nat] /\ \A k \in Job : times'[k] = IF k \in B THEN times[k] + 1 ELSE times[k]
    BY <2>1 DEF XAutoClaim, DeliveryInv, TypeOK, RedisTypeOK
  <2>6. \A k \in Job \ B : Claimers(k)' \subseteq Claimers(k)
    BY <1>1, <1>2 DEF Claimers
  <2>7. HandedOutFirst'
    <3>1. \A k \in Job : ~Delivered(k)' => times'[k] = 0 /\ Claimers(k)' = {}
      BY <2>3, <2>4, <2>5, <2>6 DEF DeliveryInv, HandedOutFirst
    <3>2. idle' \subseteq Pending'
      BY <2>1, <2>5 DEF XAutoClaim, DeliveryInv, HandedOutFirst, Pending
    <3>. QED
      BY <2>2, <3>1, <3>2 DEF DeliveryInv, HandedOutFirst
  <2>8. StartsPaid'
    <3> SUFFICES ASSUME NEW k \in Job
                 PROVE  /\ ~Delivered(k)' => attempts'[k] <= blind'[k]
                        /\ times'[k] > 0 => attempts'[k] + Cardinality(Claimers(k)')
                                              <= blind'[k] + times'[k]
                        /\ attempts'[k] < MaxAttempts + blind'[k]
      BY DEF StartsPaid
    <3>1. /\ attempts[k] \in Nat /\ blind[k] \in Nat /\ times[k] \in Nat
          /\ Cardinality(Claimers(k)) \in Nat /\ Cardinality(Claimers(k)') \in Nat
      BY ClaimersCount DEF DeliveryInv, TypeOK, CountTypeOK, RedisTypeOK
    <3>2. /\ ~Delivered(k) => attempts[k] <= blind[k]
          /\ times[k] > 0 => attempts[k] + Cardinality(Claimers(k)) <= blind[k] + times[k]
          /\ attempts[k] < MaxAttempts + blind[k]
      BY DEF DeliveryInv, StartsPaid
    <3>3. CASE k \in B
      <4>1. Cardinality(Claimers(k)') <= Cardinality(Claimers(k)) + 1
        BY <1>1, <1>2, OneClaimerMore
      <4>. QED
        BY <2>2, <2>3, <2>4, <2>5, <3>1, <3>2, <3>3, <4>1
    <3>4. CASE k \notin B
      <4>1. Cardinality(Claimers(k)') <= Cardinality(Claimers(k))
        BY <2>6, <3>4, ClaimersCount, FS_Subset
      <4>. QED
        BY <2>2, <2>3, <2>5, <3>1, <3>2, <3>4, <4>1
    <3>. QED
      BY <3>3, <3>4
  <2>. QED
    BY <2>7, <2>8
<1>. QED
  BY <1>3, <1>4

(* XREADGROUP hands over an entry nobody had: its first delivery.          *)
LEMMA ReadNewKeeps ==
  ASSUME DeliveryInv, NEW w \in Worker, ReadNew(w)
  PROVE  HandedOutFirst' /\ StartsPaid'
<1>1. CASE ReturnNone(w) /\ UNCHANGED redis
  <2>1. Quiet
    BY <1>1 DEF ReturnNone, counts, Quiet, NoNewClaim
  <2>. QED
    BY <2>1, QuietKeeps
<1>2. ASSUME NEW j \in Unread, XReadNew(j), ReturnNone(w) \/ Return(w, j, TRUE, TRUE)
      PROVE  HandedOutFirst' /\ StartsPaid'
  <2>1. j \in Job /\ ~Delivered(j) /\ id[j] \in Nat /\ id[j] > lastRead /\ lastRead \in Nat
    BY DEF Unread, DeliveryInv, TypeOK, RedisTypeOK, Delivered
  <2>2. /\ lastRead' = id[j] /\ times' = [times EXCEPT ![j] = 1]
        /\ UNCHANGED <<id, lastAdded, entries, idle>>
    BY <1>2 DEF XReadNew
  <2>3. NoNewClaim /\ UNCHANGED submitted
    BY <1>2, ReturnDropsBatch DEF ReturnNone, Return, counts, NoNewClaim
  <2>4. \A k \in Job : /\ Claimers(k)' \subseteq Claimers(k)
                       /\ Cardinality(Claimers(k)') <= Cardinality(Claimers(k))
                       /\ Cardinality(Claimers(k)) \in Nat /\ Cardinality(Claimers(k)') \in Nat
    BY <2>3, FewerClaimers, ClaimersCount
  <2>5. \A k \in Job : id[k] \in Nat /\ (Delivered(k) => Delivered(k)')
    BY <2>1, <2>2 DEF Delivered, DeliveryInv, TypeOK, RedisTypeOK
  <2>6. HandedOutFirst'
    <3>1. Delivered(j)'
      BY <2>1, <2>2 DEF Delivered
    <3>2. \A k \in Job : ~Delivered(k)' => times'[k] = 0 /\ Claimers(k)' = {}
      BY <2>2, <2>4, <2>5, <3>1 DEF DeliveryInv, HandedOutFirst, TypeOK, RedisTypeOK
    <3>3. idle' \subseteq Pending'
      BY <2>1, <2>2 DEF Pending, DeliveryInv, HandedOutFirst, TypeOK, RedisTypeOK
    <3>. QED
      BY <2>1, <2>2, <2>3, <3>2, <3>3 DEF DeliveryInv, HandedOutFirst
  <2>7. StartsPaid'
    <3> SUFFICES ASSUME NEW k \in Job
                 PROVE  /\ ~Delivered(k)' => attempts'[k] <= blind'[k]
                        /\ times'[k] > 0 => attempts'[k] + Cardinality(Claimers(k)')
                                              <= blind'[k] + times'[k]
                        /\ attempts'[k] < MaxAttempts + blind'[k]
      BY DEF StartsPaid
    <3>1. /\ attempts \in [Job -> Nat] /\ blind \in [Job -> Nat] /\ times \in [Job -> Nat]
          /\ MaxAttempts \in Nat /\ MaxAttempts > 1
      BY BrokerAssumption DEF DeliveryInv, TypeOK, CountTypeOK, RedisTypeOK
    <3>2. /\ ~Delivered(k) => attempts[k] <= blind[k]
          /\ times[k] > 0 => attempts[k] + Cardinality(Claimers(k)) <= blind[k] + times[k]
          /\ attempts[k] < MaxAttempts + blind[k]
      BY DEF DeliveryInv, StartsPaid
    <3>3. CASE k = j
      <4>1. Claimers(k) = {}
        BY <2>1, <3>3 DEF DeliveryInv, HandedOutFirst
      <4>2. Cardinality(Claimers(k)') = 0 /\ times'[k] = 1
        BY <2>1, <2>2, <2>4, <3>1, <3>3, <4>1, FS_EmptySet
      <4>3. blind'[k] = blind[k] /\ attempts'[k] \in {attempts[k], attempts[k] + 1}
        BY <1>2, <3>1, <3>3 DEF ReturnNone, Return, counts
      <4>4. Delivered(k)'
        BY <2>1, <2>2, <3>3 DEF Delivered
      <4>. QED
        BY <2>1, <3>1, <3>2, <3>3, <4>2, <4>3, <4>4
    <3>4. CASE k # j
      <4>1. blind'[k] = blind[k] /\ attempts'[k] = attempts[k] /\ times'[k] = times[k]
        BY <1>2, <2>2, <3>1, <3>4 DEF ReturnNone, Return, counts
      <4>. QED
        BY <2>4, <2>5, <3>1, <3>2, <4>1
    <3>. QED
      BY <3>3, <3>4
  <2>. QED
    BY <2>6, <2>7
<1>3. ASSUME NEW j \in Unread, NEW r \in Reply, ~Applied(r), UNCHANGED redis,
             IF r = "ok" /\ j \notin Corrupt
             THEN Return(w, j, TRUE, TRUE) /\ UNCHANGED fallback
             ELSE ReturnNone(w) /\ FallBack(ProcOf[w])
      PROVE  ReturnNone(w)
  BY <1>3 DEF Applied
<1>. QED
  BY <1>1, <1>2, <1>3 DEF ReadNew

(* XADD adds an entry no consumer has seen yet.                            *)
LEMMA EnqueueKeeps ==
  ASSUME DeliveryInv, NEW p \in Process, NEW j \in Job, Enqueue(p, j)
  PROVE  HandedOutFirst' /\ StartsPaid'
<1>1. /\ j \notin submitted
      /\ submitted' = submitted \cup {j}
      /\ XAdd(j) \/ UNCHANGED redis
      /\ UNCHANGED <<claimed, attempts, blind>>
  BY DEF Enqueue, EnqueueJob
<1>2. CASE UNCHANGED redis
  <2>1. Quiet
    BY <1>1, <1>2 DEF Quiet, NoNewClaim
  <2>. QED
    BY <2>1, QuietKeeps
<1>3. CASE XAdd(j)
  <2>1. /\ lastAdded' = lastAdded + 1 /\ id' = [id EXCEPT ![j] = lastAdded + 1]
        /\ UNCHANGED <<lastRead, times, idle>>
    BY <1>3 DEF XAdd
  <2>2. /\ id \in [Job -> Nat] /\ lastAdded \in Nat /\ lastRead \in Nat
        /\ lastRead <= lastAdded /\ id[j] = 0
    BY <1>1 DEF DeliveryInv, HandedOutFirst, TypeOK, RedisTypeOK
  <2>3. \A k \in Job : Delivered(k)' <=> Delivered(k)
    BY <2>1, <2>2 DEF Delivered
  <2>4. \A k \in Job : Claimers(k)' = Claimers(k)
    BY <1>1 DEF Claimers
  <2>5. HandedOutFirst'
    <3>1. lastRead' <= lastAdded' /\ \A k \in Job : id'[k] <= lastAdded'
      BY <2>1, <2>2 DEF DeliveryInv, HandedOutFirst
    <3>2. \A k \in Job : id'[k] > 0 => k \in submitted'
      BY <1>1, <2>1, <2>2 DEF DeliveryInv, HandedOutFirst
    <3>. QED
      BY <2>1, <2>3, <2>4, <3>1, <3>2 DEF DeliveryInv, HandedOutFirst, Pending
  <2>6. StartsPaid'
    BY <1>1, <2>1, <2>3, <2>4 DEF DeliveryInv, StartsPaid
  <2>. QED
    BY <2>5, <2>6
<1>. QED
  BY <1>1, <1>2, <1>3

-----------------------------------------------------------------------------
LEMMA WorkerStepKeeps ==
  ASSUME DeliveryInv, NEW w \in Worker, WorkerStep(w)
  PROVE  HandedOutFirst' /\ StartsPaid'
<1>1. CASE DlqAdd(w) \/ DlqAck(w) \/ DlqDel(w) \/ AckJob(w) \/ DeleteEntry(w)
  <2>1. job[w] \in Job
    BY <1>1 DEF DeliveryInv, TypeOK, WorkerTypeOK, DlqAdd, DlqAck, DlqDel, AckJob, DeleteEntry
  <2>2. Quiet
    BY <1>1, <2>1 DEF DlqAdd, DlqAck, DlqDel, AckJob, DeleteEntry, NextEntry, Quiet,
                      NoNewClaim, counts
  <2>. QED
    BY <2>2, QuietKeeps
<1>2. CASE GenerateAndSend(w) \/ RefundJob(w)
  <2>1. Quiet
    BY <1>2 DEF GenerateAndSend, RefundJob, atHand, Quiet, NoNewClaim, counts
  <2>. QED
    BY <2>1, QuietKeeps
<1>3. CASE RefuseToken(w)
  <2>1. Quiet
    BY <1>3 DEF RefuseToken, Finish, Quiet, NoNewClaim, counts
  <2>. QED
    BY <2>1, QuietKeeps
<1>. QED
  BY <1>1, <1>2, <1>3, ClaimKeeps, InspectKeeps, ReadNewKeeps, ReadLocalKeeps DEF WorkerStep

LEMMA EnvironmentKeeps ==
  ASSUME DeliveryInv,
         \/ \E j \in Job : Elapse(j)
         \/ \E p \in Process : Crash(p) \/ Exit(p) \/ Interrupt(p)
         \/ UNCHANGED vars
  PROVE  HandedOutFirst' /\ StartsPaid'
<1>1. CASE \E j \in Job : Elapse(j)
  <2>1. Quiet
    BY <1>1 DEF Elapse, IdleElapses, Quiet, NoNewClaim, counts
  <2>. QED
    BY <2>1, QuietKeeps
<1>2. ASSUME NEW p \in Process, Crash(p) \/ Exit(p) \/ Interrupt(p)
      PROVE  HandedOutFirst' /\ StartsPaid'
  <2>1. /\ claimed' = [w \in Worker |-> IF w \in In(p) THEN {} ELSE claimed[w]]
        /\ UNCHANGED <<redis, counts>>
    BY <1>2 DEF Crash, Exit, Interrupt, Renew
  <2>2. Quiet
    BY <2>1 DEF Quiet, NoNewClaim, counts
  <2>. QED
    BY <2>2, QuietKeeps
<1>3. CASE UNCHANGED vars
  <2>1. Quiet
    BY <1>3 DEF vars, brokerVars, Quiet, NoNewClaim, counts
  <2>. QED
    BY <2>1, QuietKeeps
<1>. QED
  BY <1>1, <1>2, <1>3

LEMMA DeliveryInvInductive ==
  /\ Init => DeliveryInv
  /\ DeliveryInv /\ [Next]_vars => DeliveryInv'
<1>1. Init => DeliveryInv
  <2> SUFFICES ASSUME Init
               PROVE  DeliveryInv
    OBVIOUS
  <2>1. HandedOutFirst
    BY DEF Init, HandedOutFirst, Claimers, Pending
  <2>2. StartsPaid
    BY BrokerAssumption DEF Init, StartsPaid
  <2>. QED
    BY <2>1, <2>2, InitType DEF DeliveryInv
<1>2. ASSUME DeliveryInv, [Next]_vars
      PROVE  DeliveryInv'
  <2>1. HandedOutFirst' /\ StartsPaid'
    BY <1>2, EnqueueKeeps, WorkerStepKeeps, EnvironmentKeeps DEF Next
  <2>. QED
    BY <1>2, <2>1, NextType DEF DeliveryInv
<1>. QED
  BY <1>1, <1>2

THEOREM DeliveriesAccounted == Spec => []DeliveryInv
BY DeliveryInvInductive, PTL DEF Spec

(* No job is started more than MaxAttempts - 1 times, the starts the       *)
(* broker saw no delivery count for aside, whatever the number of worker   *)
(* processes that claim it from one another.                               *)
THEOREM AttemptsBounded == Spec => []AttemptBound
<1>1. DeliveryInv => AttemptBound
  BY DEF DeliveryInv, StartsPaid, AttemptBound
<1>. QED
  BY <1>1, DeliveriesAccounted, PTL
-----------------------------------------------------------------------------
(***************************************************************************)
(* No start is answered twice.  Beside the answers given, the invariant    *)
(* counts the loops that still owe one: a loop at work on j was started    *)
(* once and answers once, however many of them work on j at a time.        *)
(***************************************************************************)

(* The loops that are to answer for j.                                     *)
Owing(j) == {w \in Worker : job[w] = j /\ pc[w] \in {"start", "refund"}}

AnswersPaid ==
  \A j \in Job :
    delivered[j] + refunded[j] + Cardinality(Owing(j)) <= attempts[j] + lostSends[j]

LEMMA OwingCount ==
  ASSUME NEW j \in Job
  PROVE  /\ Owing(j) \subseteq Worker /\ Owing(j)' \subseteq Worker
         /\ IsFiniteSet(Owing(j)) /\ IsFiniteSet(Owing(j)')
         /\ Cardinality(Owing(j)) \in Nat /\ Cardinality(Owing(j)') \in Nat
<1>1. Owing(j) \subseteq Worker /\ Owing(j)' \subseteq Worker
  BY DEF Owing
<1>2. IsFiniteSet(Owing(j)) /\ IsFiniteSet(Owing(j)')
  BY <1>1, FS_Subset, BrokerAssumption
<1>. QED
  BY <1>1, <1>2, FS_CardinalityType

LEMMA CountsNat ==
  ASSUME TypeOK, NEW j \in Job
  PROVE  /\ delivered[j] \in Nat /\ refunded[j] \in Nat /\ lostSends[j] \in Nat
         /\ attempts[j] \in Nat
BY DEF TypeOK, OutcomeTypeOK, CountTypeOK

(* Steps that neither start nor answer, and after which nobody owes more.  *)
LEMMA SilentKeeps ==
  ASSUME TypeOK, AnswersPaid, UNCHANGED <<outcome, attempts>>,
         \A j \in Job : Owing(j)' \subseteq Owing(j)
  PROVE  AnswersPaid'
<1> SUFFICES ASSUME NEW j \in Job
             PROVE  delivered'[j] + refunded'[j] + Cardinality(Owing(j)')
                      <= attempts'[j] + lostSends'[j]
  BY DEF AnswersPaid
<1>1. Cardinality(Owing(j)') <= Cardinality(Owing(j))
  BY OwingCount, FS_Subset
<1>. QED
  BY <1>1, OwingCount, CountsNat DEF AnswersPaid, outcome

(* Loop w is not about to answer after the step, and no other loop moves.  *)
StepsAside(w) == /\ pc'[w] \notin {"start", "refund"}
                 /\ \A v \in Worker \ {w} : pc'[v] = pc[v] /\ job'[v] = job[v]

LEMMA StepsAsideKeeps ==
  ASSUME TypeOK, AnswersPaid, NEW w \in Worker, StepsAside(w),
         UNCHANGED <<outcome, attempts>>
  PROVE  AnswersPaid'
<1>1. \A j \in Job : Owing(j)' \subseteq Owing(j)
  BY DEF Owing, StepsAside
<1>. QED
  BY <1>1, SilentKeeps

(* A loop that starts on a job owes the answer this start allows.          *)
LEMMA ReturnPays ==
  ASSUME TypeOK, AnswersPaid, NEW w \in Worker, NEW j \in Job, NEW fromStream, NEW counted,
         Return(w, j, fromStream, counted), pc[w] \notin {"start", "refund"},
         UNCHANGED outcome
  PROVE  AnswersPaid'
<1>1. /\ \A v \in Worker \ {w} : pc'[v] = pc[v] /\ job'[v] = job[v]
      /\ job'[w] = j
      /\ attempts' = [attempts EXCEPT ![j] = @ + 1] /\ attempts \in [Job -> Nat]
  BY DEF Return, TypeOK, WorkerTypeOK, CountTypeOK
<1> SUFFICES ASSUME NEW k \in Job
             PROVE  delivered'[k] + refunded'[k] + Cardinality(Owing(k)')
                      <= attempts'[k] + lostSends'[k]
  BY DEF AnswersPaid
<1>2. CASE k = j
  <2>1. Owing(k)' \subseteq Owing(k) \cup {w} /\ w \notin Owing(k)
    BY <1>1 DEF Owing
  <2>2. /\ IsFiniteSet(Owing(k) \cup {w})
        /\ Cardinality(Owing(k) \cup {w}) = Cardinality(Owing(k)) + 1
    BY <2>1, OwingCount, FS_AddElement
  <2>3. Cardinality(Owing(k)') <= Cardinality(Owing(k)) + 1
    BY <2>1, <2>2, FS_Subset
  <2>4. attempts'[k] = attempts[k] + 1
    BY <1>1, <1>2
  <2>. QED
    BY <2>3, <2>4, OwingCount, CountsNat DEF AnswersPaid, outcome
<1>3. CASE k # j
  <2>1. Owing(k)' \subseteq Owing(k)
    BY <1>1, <1>3 DEF Owing
  <2>2. Cardinality(Owing(k)') <= Cardinality(Owing(k))
    BY <2>1, OwingCount, FS_Subset
  <2>3. attempts'[k] = attempts[k]
    BY <1>1, <1>3
  <2>. QED
    BY <2>2, <2>3, OwingCount, CountsNat DEF AnswersPaid, outcome
<1>. QED
  BY <1>2, <1>3

LEMMA DequeuePays ==
  ASSUME TypeOK, AnswersPaid, NEW w \in Worker,
         \/ Claim(w) \/ Inspect(w) \/ DlqAdd(w) \/ DlqAck(w) \/ DlqDel(w)
         \/ ReadNew(w) \/ ReadLocal(w) \/ AckJob(w) \/ DeleteEntry(w),
         UNCHANGED outcome
  PROVE  AnswersPaid'
<1> USE DEF counts
<1>1. pc \in [Worker -> PCs] /\ job \in [Worker -> Job \cup {NoJob}]
  BY DEF TypeOK, WorkerTypeOK
<1>2. CASE Claim(w)
  <2>1. /\ pc' = [pc EXCEPT ![w] = "inspect"] \/ pc' = [pc EXCEPT ![w] = "read"]
        /\ UNCHANGED <<job, attempts>>
    BY <1>2 DEF Claim
  <2>. QED
    BY <1>1, <2>1, StepsAsideKeeps DEF StepsAside
<1>3. CASE Inspect(w)
  <2>1. PICK j \in claimed[w] : ToDlq(w, j) \/ \E seen : Return(w, j, TRUE, seen)
    BY <1>3 DEF Inspect
  <2>2. j \in Job /\ pc[w] = "inspect"
    BY <1>3 DEF Inspect, TypeOK, WorkerTypeOK
  <2>3. CASE ToDlq(w, j)
    BY <1>1, <2>3, StepsAsideKeeps DEF ToDlq, StepsAside
  <2>. QED
    BY <2>1, <2>2, <2>3, ReturnPays
<1>4. CASE DlqAdd(w) \/ DlqAck(w) \/ DlqDel(w)
  <2>1. \/ NextEntry(w)
        \/ \E label \in {"dlqAck", "dlqDel"} :
             pc' = [pc EXCEPT ![w] = label] /\ UNCHANGED <<job, attempts>>
    BY <1>4 DEF DlqAdd, DlqAck, DlqDel
  <2>2. CASE NextEntry(w)
    BY <1>1, <2>2, StepsAsideKeeps DEF NextEntry, StepsAside
  <2>3. ASSUME NEW label \in {"dlqAck", "dlqDel"}, pc' = [pc EXCEPT ![w] = label],
               UNCHANGED <<job, attempts>>
        PROVE  AnswersPaid'
    BY <1>1, <2>3, StepsAsideKeeps DEF StepsAside
  <2>. QED
    BY <2>1, <2>2, <2>3
<1>5. CASE ReadNew(w)
  <2>1. pc[w] = "read" /\ (ReturnNone(w) \/ \E j \in Unread : Return(w, j, TRUE, TRUE))
    BY <1>5 DEF ReadNew
  <2>2. Unread \subseteq Job
    BY DEF Unread, TypeOK, RedisTypeOK
  <2>3. CASE ReturnNone(w)
    BY <1>1, <2>3, StepsAsideKeeps DEF ReturnNone, StepsAside
  <2>. QED
    BY <2>1, <2>2, <2>3, ReturnPays
<1>6. CASE ReadLocal(w)
  <2>1. /\ pc[w] = "idle"
        /\ IF local[ProcOf[w]] = << >> THEN ReturnNone(w)
           ELSE Return(w, Head(local[ProcOf[w]]), FALSE, FALSE)
    BY <1>6 DEF ReadLocal
  <2>2. local[ProcOf[w]] \in Seq(Job)
    BY BrokerAssumption DEF TypeOK, MemoryTypeOK
  <2>3. CASE ReturnNone(w)
    BY <1>1, <2>3, StepsAsideKeeps DEF ReturnNone, StepsAside
  <2>4. CASE local[ProcOf[w]] # << >>
    <3>1. Head(local[ProcOf[w]]) \in Job
      BY <2>2, <2>4
    <3>. QED
      BY <2>1, <2>4, <3>1, ReturnPays
  <2>. QED
    BY <2>1, <2>3, <2>4
<1>7. CASE AckJob(w) \/ DeleteEntry(w)
  <2>1. /\ UNCHANGED attempts
        /\ Finish(w) \/ (pc' = [pc EXCEPT ![w] = "del"] /\ UNCHANGED job)
    BY <1>7 DEF AckJob, DeleteEntry
  <2>2. CASE Finish(w)
    BY <1>1, <2>1, <2>2, StepsAsideKeeps DEF Finish, StepsAside
  <2>3. CASE pc' = [pc EXCEPT ![w] = "del"] /\ UNCHANGED job
    BY <1>1, <2>1, <2>3, StepsAsideKeeps DEF StepsAside
  <2>. QED
    BY <2>1, <2>2, <2>3
<1>. QED
  BY <1>2, <1>3, <1>4, <1>5, <1>6, <1>7

(* A loop that answers for j owes it no more, save after a message whose   *)
(* reply was lost, which lostSends counts.                                 *)
LEMMA ProcessPays ==
  ASSUME TypeOK, AnswersPaid, NEW w \in Worker, GenerateAndSend(w) \/ RefundJob(w)
  PROVE  AnswersPaid'
<1> DEFINE j == job[w]
<1>1. /\ j \in Job /\ pc[w] \in {"start", "refund"} /\ pc \in [Worker -> PCs]
      /\ UNCHANGED <<job, attempts>>
  BY DEF GenerateAndSend, RefundJob, atHand, counts, TypeOK, WorkerTypeOK
<1>2. w \in Owing(j)
  BY <1>1 DEF Owing
<1>3. /\ delivered \in [Job -> Nat] /\ refunded \in [Job -> Nat]
      /\ lostSends \in [Job -> Nat] /\ attempts \in [Job -> Nat]
  BY DEF TypeOK, OutcomeTypeOK, CountTypeOK
<1>4. ASSUME Goto(w, "refund")
      PROVE  \A k \in Job : Owing(k)' = Owing(k)
  BY <1>1, <1>4 DEF Goto, Owing
<1>5. ASSUME Goto(w, "ack"), NEW k \in Job
      PROVE  Owing(k)' = IF k = j THEN Owing(k) \ {w} ELSE Owing(k)
  BY <1>1, <1>5 DEF Goto, Owing
<1>6. ASSUME Goto(w, "ack"), NEW k \in Job, k = j
      PROVE  Cardinality(Owing(k)') = Cardinality(Owing(k)) - 1
  <2>1. Owing(k)' = Owing(k) \ {w} /\ w \in Owing(k)
    BY <1>2, <1>5, <1>6
  <2>. QED
    BY <2>1, OwingCount, FS_RemoveElement
<1> SUFFICES ASSUME NEW k \in Job
             PROVE  delivered'[k] + refunded'[k] + Cardinality(Owing(k)')
                      <= attempts'[k] + lostSends'[k]
  BY DEF AnswersPaid
<1>7. delivered[k] + refunded[k] + Cardinality(Owing(k)) <= attempts[k] + lostSends[k]
  BY DEF AnswersPaid
<1>8. CASE Send(w) /\ Goto(w, "ack") /\ UNCHANGED <<refunded, lostSends>>
  <2>1. CASE k = j
    <3>1. delivered'[k] = delivered[k] + 1
      BY <1>3, <1>8, <2>1 DEF Send
    <3>2. Cardinality(Owing(k)') = Cardinality(Owing(k)) - 1
      BY <1>6, <1>8, <2>1
    <3>. QED
      BY <1>1, <1>7, <1>8, <3>1, <3>2, OwingCount, CountsNat
  <2>2. CASE k # j
    <3>1. delivered'[k] = delivered[k] /\ Owing(k)' = Owing(k)
      BY <1>3, <1>5, <1>8, <2>2 DEF Send
    <3>. QED
      BY <1>1, <1>7, <1>8, <3>1
  <2>. QED
    BY <2>1, <2>2
<1>9. CASE /\ Send(w) /\ Goto(w, "refund") /\ UNCHANGED refunded
           /\ lostSends' = [lostSends EXCEPT ![j] = @ + 1]
  <2>1. Owing(k)' = Owing(k)
    BY <1>4, <1>9
  <2>2. \/ delivered'[k] = delivered[k] /\ lostSends'[k] = lostSends[k]
        \/ delivered'[k] = delivered[k] + 1 /\ lostSends'[k] = lostSends[k] + 1
    BY <1>3, <1>9 DEF Send
  <2>. QED
    BY <1>1, <1>7, <1>9, <2>1, <2>2, OwingCount, CountsNat
<1>10. CASE Goto(w, "refund") /\ UNCHANGED <<delivered, refunded, lostSends>>
  <2>1. Owing(k)' = Owing(k)
    BY <1>4, <1>10
  <2>. QED
    BY <1>1, <1>7, <1>10, <2>1
<1>11. CASE /\ refunded' = [refunded EXCEPT ![j] = @ + 1] /\ Goto(w, "ack")
            /\ UNCHANGED <<delivered, lostSends>>
  <2>1. CASE k = j
    <3>1. refunded'[k] = refunded[k] + 1
      BY <1>3, <1>11, <2>1
    <3>2. Cardinality(Owing(k)') = Cardinality(Owing(k)) - 1
      BY <1>6, <1>11, <2>1
    <3>. QED
      BY <1>1, <1>7, <1>11, <3>1, <3>2, OwingCount, CountsNat
  <2>2. CASE k # j
    <3>1. refunded'[k] = refunded[k] /\ Owing(k)' = Owing(k)
      BY <1>3, <1>5, <1>11, <2>2
    <3>. QED
      BY <1>1, <1>7, <1>11, <3>1
  <2>. QED
    BY <2>1, <2>2
<1>12. \/ Send(w) /\ Goto(w, "ack") /\ UNCHANGED <<refunded, lostSends>>
       \/ /\ Send(w) /\ Goto(w, "refund") /\ UNCHANGED refunded
          /\ lostSends' = [lostSends EXCEPT ![j] = @ + 1]
       \/ Goto(w, "refund") /\ UNCHANGED <<delivered, refunded, lostSends>>
       \/ /\ refunded' = [refunded EXCEPT ![j] = @ + 1] /\ Goto(w, "ack")
          /\ UNCHANGED <<delivered, lostSends>>
  BY DEF GenerateAndSend, RefundJob
<1>. QED
  BY <1>8, <1>9, <1>10, <1>11, <1>12

(* A refused token answers nobody, and nobody is owed any more.            *)
LEMMA RefusePays ==
  ASSUME TypeOK, AnswersPaid, NEW w \in Worker, RefuseToken(w)
  PROVE  AnswersPaid'
<1>1. StepsAside(w) /\ UNCHANGED <<outcome, attempts>>
  BY DEF RefuseToken, Finish, StepsAside, TypeOK, WorkerTypeOK, counts
<1>. QED
  BY <1>1, StepsAsideKeeps

(* What was in flight when SIGINT came answers for loops that then are     *)
(* past their answer.                                                      *)
LEMMA InterruptPays ==
  ASSUME TypeOK, AnswersPaid, NEW p \in Process, Interrupt(p)
  PROVE  AnswersPaid'
<1> DEFINE inTry == {w \in In(p) : \/ pc[w] = "refund"
                                   \/ /\ pc[w] = "start"
                                      /\ HasBot(w)}
           At(label, j) == {w \in inTry : pc[w] = label /\ job[w] = j}
<1>1. PICK inFlight \in SUBSET inTry :
        /\ delivered' = [j \in Job |-> delivered[j]
                               + Cardinality(inFlight \cap At("start", j))]
        /\ refunded' = [j \in Job |-> refunded[j]
                               + Cardinality(inFlight \cap At("refund", j))]
  BY DEF Interrupt
<1> SUFFICES ASSUME NEW k \in Job
             PROVE  delivered'[k] + refunded'[k] + Cardinality(Owing(k)')
                      <= attempts'[k] + lostSends'[k]
  BY DEF AnswersPaid
<1> DEFINE sent == inFlight \cap At("start", k)
           repaid == inFlight \cap At("refund", k)
           left == Owing(k)'
<1>2. /\ delivered'[k] = delivered[k] + Cardinality(sent)
      /\ refunded'[k] = refunded[k] + Cardinality(repaid)
      /\ UNCHANGED <<attempts, lostSends>>
  BY <1>1 DEF Interrupt, counts
<1>3. \A w \in Worker : pc'[w] = IF w \in inTry THEN "ack"
                                 ELSE IF w \in In(p) THEN "idle" ELSE pc[w]
  BY DEF Interrupt
<1>4. \A w \in Worker \ In(p) : job'[w] = job[w]
  BY DEF Interrupt
<1>5. inTry \subseteq In(p) /\ In(p) \subseteq Worker
  BY DEF In
<1>6. /\ sent \subseteq Owing(k) /\ repaid \subseteq Owing(k) /\ left \subseteq Owing(k)
      /\ sent \cap repaid = {} /\ (sent \cup repaid) \cap left = {}
  <2>1. sent \subseteq Owing(k) /\ repaid \subseteq Owing(k) /\ sent \cap repaid = {}
    BY <1>5 DEF Owing
  <2>2. \A w \in left : w \in Worker /\ w \notin In(p)
    BY <1>3, <1>5 DEF Owing
  <2>3. left \subseteq Owing(k)
    BY <1>3, <1>4, <1>5, <2>2 DEF Owing
  <2>4. (sent \cup repaid) \cap left = {}
    BY <1>5, <2>2
  <2>. QED
    BY <2>1, <2>3, <2>4
<1> HIDE DEF sent, repaid, left
<1>7. /\ IsFiniteSet(sent) /\ IsFiniteSet(repaid) /\ IsFiniteSet(left)
      /\ IsFiniteSet(sent \cup repaid) /\ IsFiniteSet((sent \cup repaid) \cup left)
  BY <1>6, OwingCount, FS_Subset, FS_Union
<1>8. /\ Cardinality(sent \cup repaid) = Cardinality(sent) + Cardinality(repaid)
      /\ Cardinality((sent \cup repaid) \cup left) = Cardinality(sent \cup repaid) + Cardinality(left)
  <2>1. Cardinality(sent \cap repaid) = 0 /\ Cardinality((sent \cup repaid) \cap left) = 0
    BY <1>6, FS_EmptySet
  <2>2. /\ Cardinality(sent) \in Nat /\ Cardinality(repaid) \in Nat
        /\ Cardinality(left) \in Nat /\ Cardinality(sent \cup repaid) \in Nat
    BY <1>7, FS_CardinalityType
  <2>3. Cardinality(sent \cup repaid)
          = Cardinality(sent) + Cardinality(repaid) - Cardinality(sent \cap repaid)
    BY <1>7, FS_Union
  <2>4. Cardinality((sent \cup repaid) \cup left)
          = Cardinality(sent \cup repaid) + Cardinality(left)
              - Cardinality((sent \cup repaid) \cap left)
    BY <1>7, FS_Union
  <2>. QED
    BY <2>1, <2>2, <2>3, <2>4
<1>9. Cardinality((sent \cup repaid) \cup left) <= Cardinality(Owing(k))
  BY <1>6, OwingCount, FS_Subset
<1>10. /\ Cardinality(sent) \in Nat /\ Cardinality(repaid) \in Nat /\ Cardinality(left) \in Nat
       /\ Cardinality(Owing(k)) \in Nat
  BY <1>7, OwingCount, FS_CardinalityType
<1>11. delivered[k] + refunded[k] + Cardinality(Owing(k)) <= attempts[k] + lostSends[k]
  BY DEF AnswersPaid
<1>12. Cardinality(Owing(k)') = Cardinality(left)
  BY DEF left
<1>. QED
  BY <1>2, <1>8, <1>9, <1>10, <1>11, <1>12, CountsNat

LEMMA EndPays ==
  ASSUME TypeOK, AnswersPaid, NEW p \in Process, Crash(p) \/ Exit(p)
  PROVE  AnswersPaid'
<1>1. Renew(p)
  BY DEF Crash, Exit
<1>2. UNCHANGED <<outcome, attempts>>
  BY <1>1 DEF Renew, counts
<1>3. \A j \in Job : Owing(j)' \subseteq Owing(j)
  <2>1. \A w \in Worker : \/ pc'[w] = "idle"
                          \/ pc'[w] = pc[w] /\ job'[w] = job[w]
    BY <1>1 DEF Renew
  <2>. QED
    BY <2>1 DEF Owing
<1>. QED
  BY <1>2, <1>3, SilentKeeps

LEMMA AnswersPaidInductive ==
  /\ Init => AnswersPaid
  /\ TypeOK /\ AnswersPaid /\ [Next]_vars => AnswersPaid'
<1>1. Init => AnswersPaid
  <2> SUFFICES ASSUME Init, NEW j \in Job
               PROVE  delivered[j] + refunded[j] + Cardinality(Owing(j))
                        <= attempts[j] + lostSends[j]
    BY DEF AnswersPaid
  <2>1. Owing(j) = {}
    BY DEF Init, Owing
  <2>2. Cardinality(Owing(j)) = 0
    BY <2>1, FS_EmptySet
  <2>. QED
    BY <2>2 DEF Init
<1>2. ASSUME TypeOK, AnswersPaid, [Next]_vars
      PROVE  AnswersPaid'
  <2>1. ASSUME NEW w \in Worker, WorkerStep(w)
        PROVE  AnswersPaid'
    <3>1. CASE RefuseToken(w)
      BY <1>2, <3>1, RefusePays
    <3>. QED
      BY <1>2, <2>1, <3>1, DequeuePays, ProcessPays DEF WorkerStep
  <2>2. CASE \/ \E p \in Process, j \in Job : Enqueue(p, j)
             \/ \E j \in Job : Elapse(j)
             \/ UNCHANGED vars
    <3>1. UNCHANGED <<outcome, attempts, pc, job>>
      BY <2>2 DEF Enqueue, EnqueueJob, Elapse, counts, vars, brokerVars
    <3>2. \A j \in Job : Owing(j)' = Owing(j)
      BY <3>1 DEF Owing
    <3>. QED
      BY <1>2, <3>1, <3>2, SilentKeeps
  <2>3. CASE \E p \in Process : Crash(p) \/ Exit(p) \/ Interrupt(p)
    BY <1>2, <2>3, EndPays, InterruptPays
  <2>. QED
    BY <1>2, <2>1, <2>2, <2>3 DEF Next
<1>. QED
  BY <1>1, <1>2

(* The user hears at most once per start, however many loops hold the job, *)
(* and whatever SIGINT cuts short; only a message Telegram took without    *)
(* answering is refunded as well.                                          *)
THEOREM AnswersBounded == Spec => []OneAnswerPerAttempt
<1>1. Init => TypeOK /\ AnswersPaid
  BY InitType, AnswersPaidInductive
<1>2. TypeOK /\ AnswersPaid /\ [Next]_vars => (TypeOK /\ AnswersPaid)'
  BY NextType, AnswersPaidInductive
<1>3. TypeOK /\ AnswersPaid => OneAnswerPerAttempt
  <2> SUFFICES ASSUME TypeOK, AnswersPaid, NEW j \in Job
               PROVE  delivered[j] + refunded[j] <= attempts[j] + lostSends[j]
    BY DEF OneAnswerPerAttempt
  <2>. QED
    BY OwingCount, CountsNat DEF AnswersPaid
<1>. QED
  BY <1>1, <1>2, <1>3, PTL DEF Spec

-----------------------------------------------------------------------------
(***************************************************************************)
(* The worker pool implements JobContract, and so loses no job.  Every     *)
(* step of the pool is one step of the contract, or none: the invariants   *)
(* say which job a step is about.                                          *)
(***************************************************************************)
(* The stream hands its entries over in the order of distinct ids.         *)
StreamInv ==
  /\ lastRead <= lastAdded
  /\ \A j \in Job : id[j] <= lastAdded
  /\ \A j, k \in Job : InStream(j) /\ id[j] = id[k] => j = k
  /\ \A j \in Job : times[j] > 0 => InStream(j)
  /\ idle \subseteq Pending

Accepted == {j \in Job : InStream(j)}
Touched == {j \in Job : InStream(j) \/ Answered(j)} \cup cancelled

(* Only jobs given to enqueue_job leave a trace, and only jobs of the      *)
(* stream are dead-lettered.                                               *)
StoreInv ==
  /\ Touched \subseteq submitted
  /\ \A j \in Job : dlq[j] > 0 => InStream(j)
  /\ \A p \in Process : local[p] \in Seq(submitted)

(* What a loop claims or buries came from the stream, and it removes only  *)
(* what it has answered, buried, or been cut short on.                     *)
LoopInv(w) ==
  /\ claimed[w] \subseteq Accepted
  /\ job[w] \in submitted \cup {NoJob}
  /\ pc[w] \in {"dlqAdd", "dlqAck", "dlqDel"} => job[w] \in Accepted
  /\ pc[w] \in {"dlqAck", "dlqDel"} => dlq[job[w]] > 0
  /\ pc[w] \in {"ack", "del"} => Answered(job[w]) \/ job[w] \in cancelled

PoolInv == TypeOK /\ StreamInv /\ StoreInv /\ \A w \in Worker : LoopInv(w)

-----------------------------------------------------------------------------
(* What the calls on Redis do to the jobs it has taken and no longer holds. *)

LEMMA AddEffect ==
  ASSUME PoolInv, NEW j \in Job, j \notin submitted, XAdd(j)
  PROVE  /\ StreamInv'
         /\ Gone' = Gone
         /\ Accepted' = Accepted \cup {j} /\ j \notin Accepted
         /\ UNCHANGED dlq
<1>1. /\ id \in [Job -> Nat] /\ lastAdded \in Nat /\ lastRead \in Nat
      /\ entries \subseteq Job /\ times \in [Job -> Nat] /\ id[j] = 0
  BY DEF PoolInv, TypeOK, RedisTypeOK, StoreInv, Touched, InStream
<1>2. /\ lastAdded' = lastAdded + 1 /\ id' = [id EXCEPT ![j] = lastAdded + 1]
      /\ entries' = entries \cup {j} /\ UNCHANGED <<lastRead, times, idle, dlq>>
  BY DEF XAdd
<1>3. lastRead <= lastAdded /\ \A k \in Job : id[k] <= lastAdded
  BY DEF PoolInv, StreamInv
<1>4. Accepted' = Accepted \cup {j} /\ j \notin Accepted
  BY <1>1, <1>2 DEF Accepted, InStream
<1>5. Unread' = Unread \cup {j} /\ Pending' = Pending
  BY <1>1, <1>2, <1>3 DEF Unread, Pending
<1>6. Gone' = Gone
  BY <1>1, <1>4, <1>5 DEF Gone, Accepted, Pending, PoolInv, StreamInv
<1>7. StreamInv'
  <2>1. \A k, l \in Job : InStream(k)' /\ id'[k] = id'[l] => k = l
    BY <1>1, <1>2, <1>3 DEF InStream, PoolInv, StreamInv
  <2>. QED
    BY <1>1, <1>2, <1>3, <1>5, <2>1 DEF PoolInv, StreamInv, InStream
<1>. QED
  BY <1>2, <1>4, <1>6, <1>7

(* Deliveries, and calls that do nothing, keep what Redis holds.           *)
Delivers == \/ \E j \in Unread : Oldest(j, Unread) /\ XReadNew(j)
            \/ \E B \in SUBSET idle : XAutoClaim(B)
            \/ \E j \in Pending : /\ idle' = idle \cup {j}
                                  /\ UNCHANGED <<id, lastAdded, lastRead, entries, times, dlq>>
            \/ UNCHANGED redis

LEMMA DeliverEffect ==
  ASSUME PoolInv, Delivers
  PROVE  StreamInv' /\ Gone' = Gone /\ UNCHANGED <<id, dlq>>
<1>1. /\ id \in [Job -> Nat] /\ lastAdded \in Nat /\ lastRead \in Nat
      /\ entries \subseteq Job /\ times \in [Job -> Nat] /\ idle \subseteq Pending
  BY DEF PoolInv, TypeOK, RedisTypeOK, StreamInv
<1>2. UNCHANGED <<id, dlq, lastAdded, entries>>
  BY DEF Delivers, XReadNew, XAutoClaim, redis
<1>3. ASSUME NEW j \in Unread, Oldest(j, Unread), XReadNew(j)
      PROVE  /\ Pending' = Pending \cup {j} /\ Unread' = Unread \ {j}
             /\ lastRead' <= lastAdded' /\ idle' \subseteq Pending'
             /\ j \in Job /\ InStream(j)
  <2>1. /\ lastRead' = id[j] /\ times' = [times EXCEPT ![j] = 1] /\ UNCHANGED idle
        /\ j \in Job /\ id[j] > lastRead
    BY <1>1, <1>3 DEF XReadNew, Unread
  <2>2. Pending' = Pending \cup {j}
    BY <1>1, <2>1 DEF Pending
  <2>3. Unread' = Unread \ {j}
    <3>1. \A k \in Unread : id[j] <= id[k] /\ (id[j] = id[k] => j = k)
      BY <1>1, <1>3, <2>1 DEF Oldest, Unread, PoolInv, StreamInv, InStream
    <3>. QED
      BY <1>1, <1>2, <2>1, <3>1 DEF Unread
  <2>. QED
    BY <1>1, <1>2, <2>1, <2>2, <2>3 DEF PoolInv, StreamInv, InStream
<1>4. ASSUME NEW B \in SUBSET idle, XAutoClaim(B)
      PROVE  Pending' = Pending /\ Unread' = Unread /\ UNCHANGED lastRead /\ idle' \subseteq Pending'
  BY <1>1, <1>2, <1>4 DEF XAutoClaim, Pending, Unread
<1>5. ASSUME NEW j \in Pending, idle' = idle \cup {j},
             UNCHANGED <<id, lastAdded, lastRead, entries, times, dlq>>
      PROVE  Pending' = Pending /\ Unread' = Unread /\ UNCHANGED lastRead /\ idle' \subseteq Pending'
  BY <1>1, <1>5 DEF Pending, Unread
<1>6. ASSUME UNCHANGED redis
      PROVE  Pending' = Pending /\ Unread' = Unread /\ UNCHANGED lastRead /\ idle' \subseteq Pending'
  BY <1>1, <1>6 DEF Pending, Unread, redis
<1>7. /\ Unread' \cup Pending' = Unread \cup Pending
      /\ lastRead' <= lastAdded' /\ idle' \subseteq Pending'
      /\ \A j \in Pending' : j \in Job /\ InStream(j)
  <2>1. \A j \in Pending : j \in Job /\ InStream(j)
    BY DEF Pending, PoolInv, StreamInv
  <2>2. lastRead <= lastAdded
    BY DEF PoolInv, StreamInv
  <2>. QED
    BY <1>2, <1>3, <1>4, <1>5, <1>6, <2>1, <2>2 DEF Delivers
<1>8. Gone' = Gone
  BY <1>2, <1>7 DEF Gone, InStream
<1>9. StreamInv'
  <2>1. \A j \in Job : times'[j] > 0 => InStream(j)'
    BY <1>2, <1>7 DEF Pending, InStream
  <2>. QED
    BY <1>2, <1>7, <2>1 DEF PoolInv, StreamInv, InStream
<1>. QED
  BY <1>2, <1>8, <1>9

LEMMA RemoveEffect ==
  ASSUME PoolInv, NEW j \in Job, XAck(j) \/ XDel(j)
  PROVE  /\ StreamInv' /\ UNCHANGED <<id, dlq>>
         /\ Gone \subseteq Gone' /\ Gone' \subseteq Gone \cup {j}
<1>1. /\ id \in [Job -> Nat] /\ times \in [Job -> Nat] /\ UNCHANGED <<id, dlq, lastAdded, lastRead>>
  BY DEF PoolInv, TypeOK, RedisTypeOK, XAck, XDel
<1>2. /\ Pending \ {j} \subseteq Pending' /\ Pending' \subseteq Pending
      /\ Unread \ {j} \subseteq Unread' /\ Unread' \subseteq Unread
      /\ idle' \subseteq Pending'
  BY <1>1 DEF XAck, XDel, Pending, Unread, PoolInv, StreamInv
<1>3. StreamInv'
  <2>1. \A k \in Job : times'[k] > 0 => InStream(k)'
    BY <1>1, <1>2 DEF Pending, InStream, PoolInv, StreamInv
  <2>. QED
    BY <1>1, <1>2, <2>1 DEF PoolInv, StreamInv, InStream
<1>. QED
  BY <1>1, <1>2, <1>3 DEF Gone, InStream

LEMMA BuryEffect ==
  ASSUME PoolInv, NEW j \in Job, XAddDlq(j)
  PROVE  /\ StreamInv' /\ UNCHANGED id /\ Gone' = Gone
         /\ dlq' = [dlq EXCEPT ![j] = @ + 1]
BY DEF XAddDlq, PoolInv, StreamInv, Gone, Unread, Pending, InStream
-----------------------------------------------------------------------------
(* The same calls as steps of the contract.                                *)
ContractStep == [Contract!Next]_(Contract!vars)

Monotone ==
  /\ Accepted \subseteq Accepted' /\ submitted \subseteq submitted'
  /\ cancelled \subseteq cancelled'
  /\ \A j \in Job : /\ Answered(j) => Answered(j)'
                    /\ dlq[j] > 0 => dlq'[j] > 0

Effect == StreamInv' /\ StoreInv' /\ Monotone /\ ContractStep

unanswered == <<delivered, refunded, cancelled>>

LEMMA DeliverStep ==
  ASSUME PoolInv, Delivers, UNCHANGED unanswered, UNCHANGED submitted,
         \A p \in Process : local'[p] \in Seq(submitted)
  PROVE  Effect
<1>1. StreamInv' /\ Gone' = Gone /\ UNCHANGED <<id, dlq>>
  BY DeliverEffect
<1>2. Monotone /\ StoreInv'
  BY <1>1 DEF unanswered, PoolInv, StoreInv, Monotone, Touched, Accepted, InStream, Answered
<1>3. UNCHANGED Contract!vars
  BY <1>1 DEF unanswered, Contract!vars, InStream, Answered
<1>. QED
  BY <1>1, <1>2, <1>3 DEF Effect, ContractStep

LEMMA RemoveStep ==
  ASSUME PoolInv, NEW j \in Job, XAck(j) \/ XDel(j), UNCHANGED unanswered,
         UNCHANGED <<submitted, local>>, Answered(j) \/ j \in cancelled \/ dlq[j] > 0
  PROVE  Effect
<1>1. /\ StreamInv' /\ UNCHANGED <<id, dlq>>
      /\ Gone \subseteq Gone' /\ Gone' \subseteq Gone \cup {j}
  BY RemoveEffect
<1>2. Monotone /\ StoreInv'
  BY <1>1 DEF unanswered, PoolInv, StoreInv, Monotone, Touched, Accepted, InStream, Answered
<1>3. CASE Gone' = Gone
  <2>1. UNCHANGED Contract!vars
    BY <1>1, <1>3 DEF unanswered, Contract!vars, InStream, Answered
  <2>. QED
    BY <1>1, <1>2, <2>1 DEF Effect, ContractStep
<1>4. CASE Gone' = Gone \cup {j} /\ j \notin Gone
  <2>1. InStream(j)
    BY <1>1, <1>4 DEF Gone, InStream
  <2>2. Contract!Close(j)
    BY <1>1, <1>4, <2>1 DEF unanswered, Contract!Close, InStream, Answered
  <2>3. Contract!Next
    BY <2>2 DEF Contract!Next
  <2>. QED
    BY <1>1, <1>2, <2>3 DEF Effect, ContractStep
<1>. QED
  BY <1>1, <1>3, <1>4

LEMMA BuryStep ==
  ASSUME PoolInv, NEW j \in Accepted, XAddDlq(j), UNCHANGED unanswered,
         UNCHANGED <<submitted, local>>
  PROVE  Effect /\ dlq'[j] > 0
<1>1. /\ StreamInv' /\ UNCHANGED id /\ Gone' = Gone
      /\ dlq' = [dlq EXCEPT ![j] = @ + 1] /\ j \in Job /\ InStream(j)
  BY BuryEffect DEF Accepted
<1>2. dlq \in [Job -> Nat]
  BY DEF PoolInv, TypeOK, RedisTypeOK
<1>3. \A k \in Job : dlq'[k] > 0 <=> dlq[k] > 0 \/ k = j
  BY <1>1, <1>2
<1>4. Monotone /\ StoreInv'
  BY <1>1, <1>3 DEF unanswered, PoolInv, StoreInv, Monotone, Touched, Accepted, InStream, Answered
<1>5. Contract!Bury(j)
  BY <1>1, <1>3 DEF unanswered, Contract!Bury, InStream, Answered
<1>6. Contract!Next
  BY <1>1, <1>5 DEF Contract!Next
<1>. QED
  BY <1>1, <1>3, <1>4, <1>6 DEF Effect, ContractStep

LEMMA AddStep ==
  ASSUME PoolInv, NEW j \in Job, j \notin submitted, XAdd(j), UNCHANGED unanswered,
         submitted' = submitted \cup {j},
         \A p \in Process : local'[p] \in Seq(submitted')
  PROVE  Effect
<1>1. /\ StreamInv' /\ Gone' = Gone /\ UNCHANGED dlq
      /\ Accepted' = Accepted \cup {j} /\ j \notin Accepted
  BY AddEffect
<1>2. ~Answered(j) /\ j \notin cancelled /\ ~(dlq[j] > 0)
  BY DEF PoolInv, StoreInv, Touched, InStream
<1>3. \A k \in Job : /\ Answered(k)' <=> Answered(k)
                     /\ InStream(k)' <=> InStream(k) \/ k = j
  BY <1>1 DEF unanswered, Answered, Accepted
<1>4. Monotone /\ StoreInv'
  BY <1>1, <1>3 DEF unanswered, PoolInv, StoreInv, Monotone, Touched
<1>5. Contract!Accept(j)
  <2>1. {k \in Job : InStream(k) /\ Answered(k)}' = {k \in Job : InStream(k) /\ Answered(k)}
    BY <1>2, <1>3
  <2>2. {k \in Job : dlq[k] > 0}' = {k \in Job : dlq[k] > 0}
    BY <1>1
  <2>3. {k \in cancelled : InStream(k)}' = {k \in cancelled : InStream(k)}
    BY <1>2, <1>3 DEF unanswered, PoolInv, TypeOK, OutcomeTypeOK
  <2>. QED
    BY <1>1, <2>1, <2>2, <2>3 DEF Contract!Accept, Accepted
<1>6. Contract!Next
  BY <1>5 DEF Contract!Next
<1>. QED
  BY <1>1, <1>4, <1>6 DEF Effect, ContractStep

-----------------------------------------------------------------------------
(* A step of one loop leaves the others as they were.                      *)
OthersKeep(w) == \A v \in Worker \ {w} :
                   pc'[v] = pc[v] /\ job'[v] = job[v] /\ claimed'[v] = claimed[v]

LEMMA LoopKept ==
  ASSUME PoolInv, Monotone, NEW v \in Worker, pc'[v] = pc[v], job'[v] = job[v],
         claimed'[v] \subseteq claimed[v]
  PROVE  LoopInv(v)'
<1>1. pc[v] \notin {"idle", "inspect", "read"} => job[v] \in Job
  BY DEF PoolInv, TypeOK, WorkerTypeOK
<1>. QED
  BY <1>1 DEF PoolInv, LoopInv, Monotone

LEMMA LoopsKept ==
  ASSUME PoolInv, Monotone, NEW w \in Worker, OthersKeep(w), LoopInv(w)'
  PROVE  \A v \in Worker : LoopInv(v)'
BY LoopKept DEF OthersKeep

LEMMA AcceptedSubmitted ==
  ASSUME PoolInv
  PROVE  Accepted \subseteq submitted /\ Accepted \subseteq Job
BY DEF PoolInv, StoreInv, Touched, Accepted

LEMMA ReturnLoop ==
  ASSUME PoolInv, Monotone, NEW w \in Worker, NEW j \in submitted, NEW fromStream, NEW counted,
         Return(w, j, fromStream, counted)
  PROVE  OthersKeep(w) /\ LoopInv(w)'
BY DEF Return, OthersKeep, LoopInv, Monotone, PoolInv, TypeOK, WorkerTypeOK

LEMMA ReturnNoneLoop ==
  ASSUME PoolInv, Monotone, NEW w \in Worker, ReturnNone(w)
  PROVE  OthersKeep(w) /\ LoopInv(w)'
BY DEF ReturnNone, counts, OthersKeep, LoopInv, Monotone, PoolInv, TypeOK, WorkerTypeOK

LEMMA NextEntryLoop ==
  ASSUME PoolInv, Monotone, NEW w \in Worker, NextEntry(w)
  PROVE  OthersKeep(w) /\ LoopInv(w)'
BY DEF NextEntry, counts, OthersKeep, LoopInv, Monotone, PoolInv, TypeOK, WorkerTypeOK

LEMMA FinishLoop ==
  ASSUME PoolInv, Monotone, NEW w \in Worker, Finish(w), UNCHANGED claimed
  PROVE  OthersKeep(w) /\ LoopInv(w)'
BY DEF Finish, OthersKeep, LoopInv, Monotone, PoolInv, TypeOK, WorkerTypeOK
-----------------------------------------------------------------------------
(* Each action of a worker loop.                                           *)

Preserved == Effect /\ \A v \in Worker : LoopInv(v)'

LEMMA SameLocal ==
  ASSUME PoolInv, UNCHANGED <<local, submitted>>
  PROVE  \A p \in Process : local'[p] \in Seq(submitted)
BY DEF PoolInv, StoreInv

LEMMA ClaimPreserves ==
  ASSUME PoolInv, NEW w \in Worker, Claim(w), UNCHANGED unanswered
  PROVE  Preserved
<1>1. PICK r \in Reply, B \in SUBSET Job :
        /\ B \subseteq idle
        /\ XAutoClaim(B) \/ UNCHANGED redis
        /\ claimed' = [claimed EXCEPT ![w] = IF r = "ok" THEN B ELSE {}]
        /\ pc' = [pc EXCEPT ![w] = IF r = "ok" /\ B # {} THEN "inspect" ELSE "read"]
        /\ UNCHANGED <<fallback, local, job, viaStream, counts>>
  BY DEF Claim, IsBatch
<1>2. Delivers /\ UNCHANGED <<local, submitted>>
  BY <1>1 DEF Delivers, counts
<1>3. Effect
  BY <1>2, SameLocal, DeliverStep
<1>4. B \subseteq Accepted
  BY <1>1 DEF PoolInv, StreamInv, Pending, Accepted
<1>5. OthersKeep(w) /\ LoopInv(w)'
  BY <1>1, <1>3, <1>4 DEF OthersKeep, LoopInv, Effect, Monotone, PoolInv, TypeOK, WorkerTypeOK
<1>. QED
  BY <1>3, <1>5, LoopsKept DEF Preserved, Effect

LEMMA InspectPreserves ==
  ASSUME PoolInv, NEW w \in Worker, Inspect(w), UNCHANGED unanswered
  PROVE  Preserved
<1>1. PICK j \in claimed[w] : /\ ToDlq(w, j) \/ \E seen : Return(w, j, TRUE, seen)
                              /\ UNCHANGED <<redis, fallback, local>>
  BY DEF Inspect
<1>2. j \in Accepted /\ j \in submitted
  BY AcceptedSubmitted DEF PoolInv, LoopInv
<1>3. Delivers /\ UNCHANGED <<local, submitted>>
  BY <1>1 DEF Delivers, ToDlq, Return, counts
<1>4. Effect
  BY <1>3, SameLocal, DeliverStep
<1>5. OthersKeep(w) /\ LoopInv(w)'
  <2>1. CASE ToDlq(w, j)
    BY <1>2, <1>4, <2>1 DEF ToDlq, OthersKeep, LoopInv, Effect, Monotone, PoolInv, TypeOK,
                            WorkerTypeOK
  <2>. QED
    BY <1>1, <1>2, <1>4, <2>1, ReturnLoop DEF Effect
<1>. QED
  BY <1>4, <1>5, LoopsKept DEF Preserved, Effect

LEMMA DlqPreserves ==
  ASSUME PoolInv, NEW w \in Worker, DlqAdd(w) \/ DlqAck(w) \/ DlqDel(w), UNCHANGED unanswered
  PROVE  Preserved
<1> DEFINE j == job[w]
           Advance(label) == /\ pc' = [pc EXCEPT ![w] = label]
                             /\ UNCHANGED <<claimed, job, viaStream, counts>>
<1>1. /\ j \in Accepted /\ j \in Job
      /\ pc[w] \in {"dlqAck", "dlqDel"} => dlq[j] > 0
  BY AcceptedSubmitted DEF DlqAdd, DlqAck, DlqDel, PoolInv, LoopInv
<1>2. UNCHANGED <<submitted, local>>
  BY DEF DlqAdd, DlqAck, DlqDel, NextEntry, counts
<1>3. ASSUME UNCHANGED redis, NextEntry(w)
      PROVE  Preserved
  <2>1. Effect
    BY <1>2, <1>3, SameLocal, DeliverStep DEF Delivers
  <2>. QED
    BY <1>3, <2>1, NextEntryLoop, LoopsKept DEF Preserved, Effect
<1>4. ASSUME XAddDlq(j), NextEntry(w) \/ Advance("dlqAck")
      PROVE  Preserved
  <2>1. Effect /\ dlq'[j] > 0
    BY <1>1, <1>2, <1>4, BuryStep
  <2>2. CASE NextEntry(w)
    BY <2>1, <2>2, NextEntryLoop, LoopsKept DEF Preserved, Effect
  <2>3. CASE Advance("dlqAck")
    <3>1. OthersKeep(w) /\ LoopInv(w)'
      BY <1>1, <2>1, <2>3 DEF OthersKeep, LoopInv, Effect, Monotone, PoolInv, TypeOK, WorkerTypeOK
    <3>. QED
      BY <2>1, <3>1, LoopsKept DEF Preserved, Effect
  <2>. QED
    BY <1>4, <2>2, <2>3
<1>5. ASSUME pc[w] \in {"dlqAck", "dlqDel"}, XAck(j) \/ XDel(j),
             NextEntry(w) \/ Advance("dlqDel")
      PROVE  Preserved
  <2>1. Effect
    BY <1>1, <1>2, <1>5, RemoveStep
  <2>2. CASE NextEntry(w)
    BY <2>1, <2>2, NextEntryLoop, LoopsKept DEF Preserved, Effect
  <2>3. CASE Advance("dlqDel")
    <3>1. OthersKeep(w) /\ LoopInv(w)'
      BY <1>1, <1>5, <2>1, <2>3 DEF OthersKeep, LoopInv, Effect, Monotone, PoolInv, TypeOK,
                                    WorkerTypeOK
    <3>. QED
      BY <2>1, <3>1, LoopsKept DEF Preserved, Effect
  <2>. QED
    BY <1>5, <2>2, <2>3
<1>6. \/ UNCHANGED redis /\ NextEntry(w)
      \/ XAddDlq(j) /\ (NextEntry(w) \/ Advance("dlqAck"))
      \/ /\ pc[w] \in {"dlqAck", "dlqDel"} /\ (XAck(j) \/ XDel(j))
         /\ NextEntry(w) \/ Advance("dlqDel")
  BY DEF DlqAdd, DlqAck, DlqDel, Reply, Applied
<1>. QED
  BY <1>3, <1>4, <1>5, <1>6

LEMMA ReadNewPreserves ==
  ASSUME PoolInv, NEW w \in Worker, ReadNew(w), UNCHANGED unanswered
  PROVE  Preserved
<1>1. /\ \/ ReturnNone(w) /\ UNCHANGED redis
         \/ \E j \in Unread : /\ Oldest(j, Unread)
                              /\ XReadNew(j) \/ UNCHANGED redis
                              /\ ReturnNone(w) \/ Return(w, j, TRUE, TRUE)
      /\ UNCHANGED local
  BY DEF ReadNew
<1>2. Unread \subseteq submitted
  BY AcceptedSubmitted DEF Unread, Accepted, InStream, PoolInv, TypeOK, RedisTypeOK
<1>3. Delivers /\ UNCHANGED <<local, submitted>>
  BY <1>1 DEF Delivers, ReturnNone, Return, counts
<1>4. Effect
  BY <1>3, SameLocal, DeliverStep
<1>5. OthersKeep(w) /\ LoopInv(w)'
  BY <1>1, <1>2, <1>4, ReturnLoop, ReturnNoneLoop DEF Effect
<1>. QED
  BY <1>4, <1>5, LoopsKept DEF Preserved, Effect

LEMMA ReadLocalPreserves ==
  ASSUME PoolInv, NEW w \in Worker, ReadLocal(w), UNCHANGED unanswered
  PROVE  Preserved
<1> DEFINE p == ProcOf[w]
<1>1. p \in Process /\ local[p] \in Seq(submitted) /\ UNCHANGED redis
  BY BrokerAssumption DEF PoolInv, StoreInv, ReadLocal
<1>2. CASE local[p] = << >>
  <2>1. ReturnNone(w) /\ UNCHANGED <<local, submitted>>
    BY <1>2 DEF ReadLocal, ReturnNone, counts
  <2>2. Effect
    BY <1>1, <2>1, SameLocal, DeliverStep DEF Delivers
  <2>. QED
    BY <2>1, <2>2, ReturnNoneLoop, LoopsKept DEF Preserved, Effect
<1>3. CASE local[p] # << >>
  <2>1. /\ local' = [local EXCEPT ![p] = Tail(@)] /\ UNCHANGED submitted
        /\ Return(w, Head(local[p]), FALSE, FALSE)
    BY <1>3 DEF ReadLocal, Return
  <2>2. Head(local[p]) \in submitted /\ Tail(local[p]) \in Seq(submitted)
    BY <1>1, <1>3
  <2>3. \A q \in Process : local'[q] \in Seq(submitted)
    BY <2>1, <2>2 DEF PoolInv, StoreInv, TypeOK, MemoryTypeOK
  <2>4. Effect
    BY <1>1, <2>1, <2>3, DeliverStep DEF Delivers
  <2>. QED
    BY <2>1, <2>2, <2>4, ReturnLoop, LoopsKept DEF Preserved, Effect
<1>. QED
  BY <1>2, <1>3

LEMMA AckPreserves ==
  ASSUME PoolInv, NEW w \in Worker, AckJob(w) \/ DeleteEntry(w), UNCHANGED unanswered
  PROVE  Preserved
<1> DEFINE j == job[w]
<1>1. j \in Job /\ pc[w] \in {"ack", "del"} /\ (Answered(j) \/ j \in cancelled)
  BY DEF AckJob, DeleteEntry, PoolInv, TypeOK, WorkerTypeOK, LoopInv
<1>2. /\ XAck(j) \/ XDel(j) \/ UNCHANGED redis
      /\ Finish(w) \/ (pc' = [pc EXCEPT ![w] = "del"] /\ UNCHANGED job)
      /\ UNCHANGED <<local, claimed, counts>>
  BY DEF AckJob, DeleteEntry
<1>3. Effect
  <2>1. CASE UNCHANGED redis
    BY <1>2, <2>1, SameLocal, DeliverStep DEF Delivers, counts
  <2>2. CASE XAck(j) \/ XDel(j)
    BY <1>1, <1>2, <2>2, RemoveStep DEF counts
  <2>. QED
    BY <1>2, <2>1, <2>2
<1>4. OthersKeep(w) /\ LoopInv(w)'
  <2>1. CASE Finish(w)
    BY <1>2, <1>3, <2>1, FinishLoop DEF Effect
  <2>2. CASE pc' = [pc EXCEPT ![w] = "del"] /\ UNCHANGED job
    BY <1>1, <1>2, <1>3, <2>2 DEF OthersKeep, LoopInv, Effect, Monotone, PoolInv, TypeOK,
                                  WorkerTypeOK
  <2>. QED
    BY <1>2, <2>1, <2>2
<1>. QED
  BY <1>3, <1>4, LoopsKept DEF Preserved, Effect

(* The media or the refund reaches the user.                               *)
AnswersNow(j) == \A k \in Job : Answered(k)' <=> Answered(k) \/ k = j

LEMMA AnswerStep ==
  ASSUME PoolInv, NEW j \in Job, j \in submitted, AnswersNow(j),
         UNCHANGED <<redis, cancelled, submitted, local>>
  PROVE  Effect
<1>1. StreamInv' /\ Gone' = Gone /\ UNCHANGED <<id, dlq>>
  BY DeliverEffect DEF Delivers
<1>2. Monotone /\ StoreInv'
  BY <1>1 DEF AnswersNow, PoolInv, StoreInv, Monotone, Touched, Accepted, InStream
<1>3. CASE InStream(j)
  <2>1. Contract!Answer(j)
    BY <1>1, <1>3 DEF AnswersNow, Contract!Answer, InStream
  <2>2. Contract!Next
    BY <2>1 DEF Contract!Next
  <2>. QED
    BY <1>1, <1>2, <2>2 DEF Effect, ContractStep
<1>4. CASE ~InStream(j)
  <2>1. UNCHANGED Contract!vars
    BY <1>1, <1>4 DEF AnswersNow, Contract!vars, InStream
  <2>. QED
    BY <1>1, <1>2, <2>1 DEF Effect, ContractStep
<1>. QED
  BY <1>3, <1>4

LEMMA ProcessPreserves ==
  ASSUME PoolInv, NEW w \in Worker, GenerateAndSend(w) \/ RefundJob(w), UNCHANGED cancelled
  PROVE  Preserved
<1> DEFINE j == job[w]
<1>1. j \in Job /\ j \in submitted
  BY BrokerAssumption DEF GenerateAndSend, RefundJob, PoolInv, TypeOK, WorkerTypeOK, LoopInv
<1>2. /\ UNCHANGED <<redis, local, submitted, claimed, job>>
      /\ delivered \in [Job -> Nat] /\ refunded \in [Job -> Nat]
  BY DEF GenerateAndSend, RefundJob, atHand, counts, PoolInv, TypeOK, OutcomeTypeOK
<1>3. ASSUME NEW label \in {"ack", "refund"}, Goto(w, label), Effect,
             label = "ack" => Answered(j)'
      PROVE  Preserved
  <2>1. OthersKeep(w) /\ LoopInv(w)'
    BY <1>1, <1>2, <1>3 DEF Goto, OthersKeep, LoopInv, Effect, Monotone, PoolInv, TypeOK,
                            WorkerTypeOK
  <2>. QED
    BY <1>3, <2>1, LoopsKept DEF Preserved, Effect
<1>4. CASE AnswersNow(j)
  <2>1. Effect
    BY <1>1, <1>2, <1>4, AnswerStep
  <2>2. Goto(w, "ack") \/ Goto(w, "refund")
    BY DEF GenerateAndSend, RefundJob
  <2>3. Answered(j)'
    BY <1>1, <1>2, <1>4 DEF AnswersNow, Answered
  <2>4. ASSUME NEW label \in {"ack", "refund"}, Goto(w, label)
        PROVE  Preserved
    BY <1>3, <2>1, <2>3, <2>4
  <2>. QED
    BY <2>2, <2>4
<1>5. CASE UNCHANGED unanswered /\ Goto(w, "refund")
  <2>1. Effect
    BY <1>2, <1>5, SameLocal, DeliverStep DEF Delivers
  <2>. QED
    BY <1>3, <1>5, <2>1
<1>6. \/ Send(w) /\ UNCHANGED refunded
      \/ refunded' = [refunded EXCEPT ![j] = @ + 1] /\ UNCHANGED delivered
      \/ UNCHANGED unanswered /\ Goto(w, "refund")
  BY DEF GenerateAndSend, RefundJob, unanswered
<1>7. (Send(w) /\ UNCHANGED refunded) => AnswersNow(j)
  BY <1>1, <1>2 DEF Send, AnswersNow, Answered
<1>8. (refunded' = [refunded EXCEPT ![j] = @ + 1] /\ UNCHANGED delivered) => AnswersNow(j)
  BY <1>1, <1>2 DEF AnswersNow, Answered
<1>. QED
  BY <1>4, <1>5, <1>6, <1>7, <1>8

LEMMA RefusePreserves ==
  ASSUME PoolInv, NEW w \in Worker, RefuseToken(w), UNCHANGED unanswered
  PROVE  Preserved
<1>1. Effect
  BY SameLocal, DeliverStep DEF RefuseToken, Delivers, counts
<1>2. OthersKeep(w) /\ LoopInv(w)'
  BY <1>1, FinishLoop DEF RefuseToken, Effect
<1>. QED
  BY <1>1, <1>2, LoopsKept DEF Preserved, Effect

LEMMA WorkerStepPreserves ==
  ASSUME PoolInv, NEW w \in Worker, WorkerStep(w)
  PROVE  Preserved
<1>1. CASE GenerateAndSend(w) \/ RefundJob(w)
  BY <1>1, ProcessPreserves DEF WorkerStep
<1>2. CASE /\ \/ Claim(w) \/ Inspect(w) \/ DlqAdd(w) \/ DlqAck(w) \/ DlqDel(w)
              \/ ReadNew(w) \/ ReadLocal(w) \/ AckJob(w) \/ DeleteEntry(w)
           /\ UNCHANGED unanswered
  BY <1>2, ClaimPreserves, InspectPreserves, DlqPreserves, ReadNewPreserves,
     ReadLocalPreserves, AckPreserves
<1>3. CASE RefuseToken(w) /\ UNCHANGED unanswered
  BY <1>3, RefusePreserves
<1>. QED
  BY <1>1, <1>2, <1>3 DEF WorkerStep, RefuseToken, outcome, unanswered
-----------------------------------------------------------------------------
(* The actions of everyone else.                                           *)

LEMMA EnqueuePreserves ==
  ASSUME PoolInv, NEW p \in Process, NEW j \in Job, Enqueue(p, j)
  PROVE  Preserved
<1>1. /\ j \notin submitted /\ submitted' = submitted \cup {j}
      /\ XAdd(j) \/ UNCHANGED redis
      /\ local' = local \/ local' = [local EXCEPT ![p] = Append(@, j)]
      /\ UNCHANGED <<pc, claimed, job>> /\ UNCHANGED unanswered
  BY DEF Enqueue, EnqueueJob, outcome, unanswered
<1>2. \A q \in Process : local'[q] \in Seq(submitted')
  <2>1. \A q \in Process : local[q] \in Seq(submitted)
    BY DEF PoolInv, StoreInv
  <2>2. \A q \in Process : local[q] \in Seq(submitted')
    BY <1>1, <2>1
  <2>3. Append(local[p], j) \in Seq(submitted')
    BY <1>1, <2>2
  <2>. QED
    BY <1>1, <2>2, <2>3 DEF PoolInv, TypeOK, MemoryTypeOK
<1>3. Effect
  <2>1. CASE XAdd(j)
    BY <1>1, <1>2, <2>1, AddStep
  <2>2. CASE UNCHANGED redis
    <3>1. StreamInv' /\ Gone' = Gone /\ UNCHANGED <<id, dlq>>
      BY <2>2, DeliverEffect DEF Delivers
    <3>2. Monotone /\ StoreInv'
      BY <1>1, <1>2, <3>1 DEF unanswered, PoolInv, StoreInv, Monotone, Touched, Accepted,
                              InStream, Answered
    <3>3. UNCHANGED Contract!vars
      BY <1>1, <3>1 DEF unanswered, Contract!vars, InStream, Answered
    <3>. QED
      BY <3>1, <3>2, <3>3 DEF Effect, ContractStep
  <2>. QED
    BY <1>1, <2>1, <2>2
<1>4. \A v \in Worker : LoopInv(v)'
  BY <1>1, <1>3, LoopKept DEF Effect
<1>. QED
  BY <1>3, <1>4 DEF Preserved

LEMMA ElapsePreserves ==
  ASSUME PoolInv, NEW j \in Job, Elapse(j)
  PROVE  Preserved
<1>1. /\ Delivers /\ UNCHANGED unanswered /\ UNCHANGED <<local, submitted>>
      /\ UNCHANGED <<pc, job, claimed>>
  BY DEF Elapse, IdleElapses, Delivers, outcome, unanswered, counts
<1>2. Effect
  BY <1>1, SameLocal, DeliverStep
<1>3. \A v \in Worker : LoopInv(v)'
  BY <1>1, <1>2, LoopKept DEF Effect
<1>. QED
  BY <1>2, <1>3 DEF Preserved

LEMMA RenewPreserves ==
  ASSUME PoolInv, NEW p \in Process, Crash(p) \/ Exit(p)
  PROVE  Preserved
<1>1. Renew(p)
  BY DEF Crash, Exit
<1>2. /\ Delivers /\ UNCHANGED unanswered /\ UNCHANGED submitted
      /\ local' = [local EXCEPT ![p] = << >>]
  BY <1>1 DEF Renew, Delivers, outcome, unanswered, counts
<1>3. \A q \in Process : local'[q] \in Seq(submitted)
  <2>1. << >> \in Seq(submitted)
    OBVIOUS
  <2>. QED
    BY <1>2, <2>1 DEF PoolInv, StoreInv, TypeOK, MemoryTypeOK
<1>4. Effect
  BY <1>2, <1>3, DeliverStep
<1>5. ASSUME NEW v \in Worker
      PROVE  LoopInv(v)'
  <2>1. CASE v \in In(p)
    <3>1. pc'[v] = "idle" /\ job'[v] = NoJob /\ claimed'[v] = {}
      BY <1>1, <2>1 DEF Renew
    <3>. QED
      BY <3>1 DEF LoopInv
  <2>2. CASE v \notin In(p)
    <3>1. pc'[v] = pc[v] /\ job'[v] = job[v] /\ claimed'[v] = claimed[v]
      BY <1>1, <2>2 DEF Renew
    <3>. QED
      BY <1>4, <3>1, LoopKept DEF Effect
  <2>. QED
    BY <2>1, <2>2
<1>. QED
  BY <1>4, <1>5 DEF Preserved

(* A cancelled loop answers no other job than the one it abandons.         *)
LEMMA AbandonStep ==
  ASSUME PoolInv, NEW J \in SUBSET submitted, cancelled' = cancelled \cup J,
         \A k \in Job : Answered(k) => Answered(k)',
         \A k \in Job : Answered(k)' => Answered(k) \/ k \in J,
         UNCHANGED <<redis, submitted, local>>
  PROVE  Effect
<1>1. StreamInv' /\ Gone' = Gone /\ UNCHANGED <<id, dlq>>
  BY DeliverEffect DEF Delivers
<1>2. Monotone /\ StoreInv'
  BY <1>1 DEF PoolInv, StoreInv, Monotone, Touched, Accepted, InStream
<1>3. J \subseteq Job
  BY DEF PoolInv, TypeOK, CountTypeOK
<1> DEFINE S == {k \in J : InStream(k)}
           A == {k \in S : Answered(k)'}
<1>4. Contract!Abandon(S)
  <2>1. {k \in Job : InStream(k) /\ Answered(k)}'
          = {k \in Job : InStream(k) /\ Answered(k)} \cup A
    BY <1>1, <1>3 DEF InStream
  <2>2. {k \in cancelled : InStream(k)}' = {k \in cancelled : InStream(k)} \cup S
    BY <1>1 DEF InStream
  <2>3. {k \in Job : InStream(k)}' = {k \in Job : InStream(k)}
    BY <1>1 DEF InStream
  <2>. QED
    BY <1>1, <1>3, <2>1, <2>2, <2>3 DEF Contract!Abandon
<1>5. Contract!Next
  BY <1>3, <1>4 DEF Contract!Next
<1>. QED
  BY <1>1, <1>2, <1>5 DEF Effect, ContractStep

LEMMA InterruptPreserves ==
  ASSUME PoolInv, NEW p \in Process, Interrupt(p)
  PROVE  Preserved
<1> DEFINE inTry == {w \in In(p) : \/ pc[w] = "refund"
                                   \/ /\ pc[w] = "start"
                                      /\ HasBot(w)}
           At(label, j) == {w \in inTry : pc[w] = label /\ job[w] = j}
           J == {job[w] : w \in inTry}
<1>1. inTry \subseteq Worker /\ J \subseteq submitted
  BY BrokerAssumption DEF In, PoolInv, LoopInv, TypeOK, WorkerTypeOK
<1>2. /\ pc' = [w \in Worker |-> IF w \in inTry THEN "ack"
                                  ELSE IF w \in In(p) THEN "idle" ELSE pc[w]]
      /\ job' = [w \in Worker |-> IF w \in In(p) \ inTry THEN NoJob ELSE job[w]]
      /\ claimed' = [w \in Worker |-> IF w \in In(p) THEN {} ELSE claimed[w]]
      /\ cancelled' = cancelled \cup J
      /\ UNCHANGED <<redis, submitted, local>>
  BY DEF Interrupt, counts
<1>3. /\ \A k \in Job : Answered(k) => Answered(k)'
      /\ \A k \in Job : Answered(k)' => Answered(k) \/ k \in J
  <2>1. PICK inFlight \in SUBSET inTry :
          /\ delivered' = [j \in Job |-> delivered[j]
                                 + Cardinality(inFlight \cap At("start", j))]
          /\ refunded' = [j \in Job |-> refunded[j]
                                 + Cardinality(inFlight \cap At("refund", j))]
    BY DEF Interrupt
  <2> DEFINE sent(j) == Cardinality(inFlight \cap At("start", j))
             repaid(j) == Cardinality(inFlight \cap At("refund", j))
  <2>2. \A k \in Job : sent(k) \in Nat /\ repaid(k) \in Nat
    BY <1>1, SomeWorkersCount
  <2>3. ASSUME NEW k \in Job, k \notin J
        PROVE  sent(k) = 0 /\ repaid(k) = 0
    <3>1. inFlight \cap At("start", k) = {} /\ inFlight \cap At("refund", k) = {}
      BY <2>3
    <3>. QED
      BY <3>1, FS_EmptySet
  <2>4. /\ delivered' = [j \in Job |-> delivered[j] + sent(j)]
        /\ refunded' = [j \in Job |-> refunded[j] + repaid(j)]
    BY <2>1
  <2>5. delivered \in [Job -> Nat] /\ refunded \in [Job -> Nat]
    BY DEF PoolInv, TypeOK, OutcomeTypeOK
  <2> HIDE DEF sent, repaid, J
  <2>. QED
    BY <2>2, <2>3, <2>4, <2>5 DEF Answered
<1>4. Effect
  BY <1>1, <1>2, <1>3, AbandonStep
<1>5. ASSUME NEW v \in Worker
      PROVE  LoopInv(v)'
  <2>1. CASE v \in inTry
    <3>1. pc'[v] = "ack" /\ job'[v] = job[v] /\ claimed'[v] = {} /\ job[v] \in cancelled'
      BY <1>2, <2>1
    <3>2. job'[v] \in submitted'
      BY <1>1, <1>2, <2>1, <3>1
    <3>. QED
      BY <3>1, <3>2 DEF LoopInv
  <2>2. CASE v \in In(p) \ inTry
    <3>1. pc'[v] = "idle" /\ job'[v] = NoJob /\ claimed'[v] = {}
      BY <1>2, <2>2
    <3>. QED
      BY <3>1 DEF LoopInv
  <2>3. CASE v \notin In(p)
    <3>1. pc'[v] = pc[v] /\ job'[v] = job[v] /\ claimed'[v] = claimed[v]
      BY <1>2, <2>3
    <3>. QED
      BY <1>4, <3>1, LoopKept DEF Effect
  <2>. QED
    BY <2>1, <2>2, <2>3
<1>. QED
  BY <1>4, <1>5 DEF Preserved

-----------------------------------------------------------------------------
LEMMA InitContract == Init => PoolInv /\ Contract!Init
<1> SUFFICES ASSUME Init
             PROVE  PoolInv /\ Contract!Init
  OBVIOUS
<1>1. \A j \in Job : ~InStream(j) /\ ~Answered(j) /\ ~(dlq[j] > 0)
  BY DEF Init, InStream, Answered
<1>2. StreamInv
  BY <1>1 DEF Init, StreamInv
<1>3. StoreInv
  <2>1. << >> \in Seq(submitted)
    OBVIOUS
  <2>. QED
    BY <1>1, <2>1 DEF Init, StoreInv, Touched
<1>4. \A w \in Worker : LoopInv(w)
  BY DEF Init, LoopInv
<1>5. Contract!Init
  BY <1>1 DEF Init, Contract!Init, Gone
<1>. QED
  BY <1>2, <1>3, <1>4, <1>5, InitType DEF PoolInv

LEMMA NextContract == PoolInv /\ [Next]_vars => PoolInv' /\ ContractStep
<1> SUFFICES ASSUME PoolInv, [Next]_vars
             PROVE  PoolInv' /\ ContractStep
  OBVIOUS
<1>1. TypeOK'
  BY NextType DEF PoolInv
<1>2. CASE Next
  BY <1>1, <1>2, EnqueuePreserves, WorkerStepPreserves, ElapsePreserves, RenewPreserves,
     InterruptPreserves DEF Next, Preserved, Effect, PoolInv
<1>3. CASE UNCHANGED vars
  <2>1. /\ Delivers /\ UNCHANGED unanswered /\ UNCHANGED <<local, submitted, pc, job, claimed>>
    BY <1>3 DEF vars, brokerVars, counts, outcome, Delivers, unanswered
  <2>2. Effect
    BY <2>1, SameLocal, DeliverStep
  <2>3. \A v \in Worker : LoopInv(v)'
    BY <2>1, <2>2, LoopKept DEF Effect
  <2>. QED
    BY <1>1, <2>2, <2>3 DEF Effect, PoolInv
<1>. QED
  BY <1>2, <1>3

(* The queue and its workers implement the at-least-once contract.         *)
THEOREM QueueImplementsContract == Spec => ImplementsContract
<1>1. Init => PoolInv /\ Contract!Init
  BY InitContract
<1>2. PoolInv /\ [Next]_vars => PoolInv' /\ [Contract!Next]_(Contract!vars)
  BY NextContract DEF ContractStep
<1>. QED
  BY <1>1, <1>2, PTL DEF Spec, ImplementsContract, Contract!Spec

(* A job Redis took and no worker will see again was answered, buried or   *)
(* cut short by SIGINT.  It is what the contract says of a closed job.     *)
THEOREM JobsNotLost == Spec => []NoJobLost
<1>1. Init => PoolInv /\ NoJobLost
  BY InitContract DEF Init, NoJobLost, Gone, InStream
<1>2. PoolInv /\ NoJobLost /\ [Next]_vars => PoolInv' /\ NoJobLost'
  <2> SUFFICES ASSUME PoolInv, NoJobLost, [Next]_vars
               PROVE  PoolInv' /\ NoJobLost'
    OBVIOUS
  <2> DEFINE answered  == {j \in Job : InStream(j) /\ Answered(j)}
             dead      == {j \in Job : dlq[j] > 0}
             abandoned == {j \in cancelled : InStream(j)}
  <2>1. PoolInv' /\ ContractStep
    BY NextContract
  <2>2. Gone \subseteq answered \cup dead \cup abandoned
    BY DEF NoJobLost, Gone, InStream
  <2>3. Gone' \subseteq (answered \cup dead \cup abandoned)'
    BY <2>1, <2>2 DEF ContractStep, Contract!Next, Contract!vars, Contract!Accept,
                      Contract!Answer, Contract!Bury, Contract!Abandon, Contract!Close
  <2>. QED
    BY <2>1, <2>3 DEF NoJobLost, Gone, InStream
<1>. QED
  BY <1>1, <1>2, PTL DEF Spec
-----------------------------------------------------------------------------
(* What only grows, and which loop a step is about.                        *)

Growing == /\ \A j \in Job : attempts[j] <= attempts'[j]
           /\ faults <= faults' /\ crashes <= crashes' /\ interrupts <= interrupts'
           /\ overran \subseteq overran'

LEMMA ReturnGrows ==
  ASSUME TypeOK, NEW w, NEW j \in Job, NEW fromStream, NEW counted,
         Return(w, j, fromStream, counted)
  PROVE  \A k \in Job : attempts[k] <= attempts'[k]
<1>1. attempts \in [Job -> Nat]
  BY DEF TypeOK, CountTypeOK
<1>. QED
  BY <1>1 DEF Return

LEMMA WorkerStepGrows ==
  ASSUME TypeOK, NEW w \in Worker, WorkerStep(w)
  PROVE  Growing /\ UNCHANGED <<crashes, interrupts, overran>>
<1> USE DEF counts
<1>1. UNCHANGED <<crashes, interrupts, overran>>
  BY DEF WorkerStep, lifecycle
<1>2. faults \in Nat /\ crashes \in Nat /\ interrupts \in Nat /\ attempts \in [Job -> Nat]
  BY DEF TypeOK, OutcomeTypeOK, CountTypeOK
<1>3. faults <= faults'
  <2>1. UNCHANGED faults \/ \E r : Charge(r)
    BY DEF WorkerStep, Claim, Inspect, DlqAdd, DlqAck, DlqDel, ReadNew, ReadLocal, AckJob,
           DeleteEntry, GenerateAndSend, RefundJob, RefuseToken, atHand
  <2>. QED
    BY <1>2, <2>1 DEF Charge
<1>4. \/ UNCHANGED attempts
      \/ \E j \in Job : \E fromStream, counted : Return(w, j, fromStream, counted)
  <2>1. CASE Inspect(w)
    BY <2>1 DEF Inspect, ToDlq, TypeOK, WorkerTypeOK
  <2>2. CASE ReadNew(w)
    BY <2>2 DEF ReadNew, ReturnNone, Unread, TypeOK, RedisTypeOK
  <2>3. CASE ReadLocal(w)
    <3>1. CASE local[ProcOf[w]] = << >>
      BY <2>3, <3>1 DEF ReadLocal, ReturnNone
    <3>2. CASE local[ProcOf[w]] # << >>
      <4>1. local[ProcOf[w]] \in Seq(Job)
        BY BrokerAssumption DEF TypeOK, MemoryTypeOK
      <4>2. Head(local[ProcOf[w]]) \in Job
        BY <3>2, <4>1
      <4>. QED
        BY <2>3, <3>2, <4>2 DEF ReadLocal
    <3>. QED
      BY <3>1, <3>2
  <2>4. CASE Claim(w) \/ DlqAdd(w) \/ DlqAck(w) \/ DlqDel(w) \/ AckJob(w) \/ DeleteEntry(w)
    BY <2>4 DEF Claim, DlqAdd, DlqAck, DlqDel, NextEntry, AckJob, DeleteEntry
  <2>5. CASE GenerateAndSend(w) \/ RefundJob(w)
    BY <2>5 DEF GenerateAndSend, RefundJob, atHand
  <2>6. CASE RefuseToken(w)
    BY <2>6 DEF RefuseToken
  <2>. QED
    BY <2>1, <2>2, <2>3, <2>4, <2>5, <2>6 DEF WorkerStep
<1>5. \A j \in Job : attempts[j] <= attempts'[j]
  BY <1>2, <1>4, ReturnGrows
<1>. QED
  BY <1>1, <1>2, <1>3, <1>5 DEF Growing

LEMMA NextGrows ==
  ASSUME TypeOK, [Next]_vars
  PROVE  Growing
<1>1. faults \in Nat /\ crashes \in Nat /\ interrupts \in Nat /\ attempts \in [Job -> Nat]
  BY DEF TypeOK, OutcomeTypeOK, CountTypeOK
<1>2. ASSUME NEW p \in Process, NEW j \in Job, Enqueue(p, j)
      PROVE  Growing
  <2>1. UNCHANGED <<attempts, crashes, interrupts, overran>>
    BY <1>2 DEF Enqueue, EnqueueJob, lifecycle
  <2>2. UNCHANGED faults \/ \E r : Charge(r)
    BY <1>2 DEF Enqueue, EnqueueJob
  <2>. QED
    BY <1>1, <2>1, <2>2 DEF Growing, Charge
<1>3. ASSUME NEW j \in Job, Elapse(j)
      PROVE  Growing
  BY <1>1, <1>3 DEF Elapse, counts, lifecycle, Growing
<1>4. ASSUME NEW p \in Process, Crash(p) \/ Exit(p) \/ Interrupt(p)
      PROVE  Growing
  <2>1. UNCHANGED <<attempts, faults, overran>>
    BY <1>4 DEF Crash, Exit, Interrupt, Renew, counts
  <2>2. crashes <= crashes' /\ interrupts <= interrupts'
    BY <1>1, <1>4 DEF Crash, Exit, Interrupt
  <2>. QED
    BY <1>1, <2>1, <2>2 DEF Growing
<1>5. CASE UNCHANGED vars
  BY <1>1, <1>5 DEF vars, brokerVars, counts, lifecycle, Growing
<1>. QED
  BY <1>2, <1>3, <1>4, <1>5, WorkerStepGrows DEF Next

LEMMA WorkerStepOthers ==
  ASSUME TypeOK, NEW w \in Worker, WorkerStep(w)
  PROVE  OthersKeep(w)
<1>1. CASE Claim(w) \/ Inspect(w)
  BY <1>1 DEF Claim, Inspect, ToDlq, Return, OthersKeep, TypeOK, WorkerTypeOK
<1>2. CASE DlqAdd(w) \/ DlqAck(w) \/ DlqDel(w)
  BY <1>2 DEF DlqAdd, DlqAck, DlqDel, NextEntry, OthersKeep, TypeOK, WorkerTypeOK
<1>3. CASE ReadNew(w) \/ ReadLocal(w)
  BY <1>3 DEF ReadNew, ReadLocal, ReturnNone, Return, OthersKeep, TypeOK, WorkerTypeOK
<1>4. CASE AckJob(w) \/ DeleteEntry(w)
  BY <1>4 DEF AckJob, DeleteEntry, Finish, OthersKeep, TypeOK, WorkerTypeOK
<1>5. CASE GenerateAndSend(w) \/ RefundJob(w)
  BY <1>5 DEF GenerateAndSend, RefundJob, Goto, atHand, OthersKeep, TypeOK, WorkerTypeOK
<1>6. CASE RefuseToken(w)
  BY <1>6 DEF RefuseToken, Finish, OthersKeep, TypeOK, WorkerTypeOK
<1>. QED
  BY <1>1, <1>2, <1>3, <1>4, <1>5, <1>6 DEF WorkerStep
-----------------------------------------------------------------------------
(***************************************************************************)
(* A job that went to the dead-letter stream had been started: it was      *)
(* pending before it was buried, and what XREADGROUP hands over is         *)
(* started, unless its reply is lost or its payload is corrupted.          *)
(***************************************************************************)
Begun(j) == attempts[j] > 0 \/ j \in Corrupt \/ faults > 0

BegunFirst ==
  /\ \A j \in Job : times[j] > 0 \/ dlq[j] > 0 => Begun(j)
  /\ \A w \in Worker : \A j \in claimed[w] : Begun(j)
  /\ \A w \in Worker : pc[w] \in {"dlqAdd", "dlqAck", "dlqDel"} => Begun(job[w])

LEMMA BegunStays ==
  ASSUME TypeOK, [Next]_vars, NEW j \in Job, Begun(j)
  PROVE  Begun(j)'
<1>1. faults \in Nat /\ faults' \in Nat /\ attempts[j] \in Nat /\ attempts'[j] \in Nat
  BY NextType DEF TypeOK, OutcomeTypeOK, CountTypeOK
<1>. QED
  BY <1>1, NextGrows DEF Begun, Growing

(* What a step may add to: pending and buried jobs, claims, and burials.   *)
BegunAdds(w) ==
  /\ \A j \in Job : times'[j] > 0 => times[j] > 0 \/ Begun(j)'
  /\ \A j \in Job : dlq'[j] > 0 => dlq[j] > 0 \/ Begun(j)
  /\ \A j \in claimed'[w] : j \in Job /\ (times[j] > 0 \/ j \in claimed[w])
  /\ pc'[w] \in {"dlqAdd", "dlqAck", "dlqDel"} =>
       job'[w] \in Job /\ Begun(job'[w])

LEMMA BegunKept ==
  ASSUME TypeOK, [Next]_vars, BegunFirst, NEW w \in Worker, OthersKeep(w), BegunAdds(w)
  PROVE  BegunFirst'
<1>1. \A j \in Job : Begun(j) => Begun(j)'
  BY BegunStays
<1>2. \A j \in Job : times'[j] > 0 \/ dlq'[j] > 0 => Begun(j)'
  BY <1>1 DEF BegunFirst, BegunAdds
<1>3. \A v \in Worker : claimed[v] \subseteq Job
  BY DEF TypeOK, WorkerTypeOK
<1>4. \A v \in Worker : \A j \in claimed'[v] : Begun(j)'
  <2> SUFFICES ASSUME NEW v \in Worker, NEW j \in claimed'[v]
               PROVE  Begun(j)'
    OBVIOUS
  <2>1. CASE v = w
    BY <1>1, <1>3, <2>1 DEF BegunFirst, BegunAdds
  <2>2. CASE v # w
    BY <1>1, <1>3, <2>2 DEF BegunFirst, OthersKeep
  <2>. QED
    BY <2>1, <2>2
<1>5. \A v \in Worker : pc'[v] \in {"dlqAdd", "dlqAck", "dlqDel"} => Begun(job[v])'
  <2> SUFFICES ASSUME NEW v \in Worker, pc'[v] \in {"dlqAdd", "dlqAck", "dlqDel"}
               PROVE  Begun(job[v])'
    OBVIOUS
  <2>1. CASE v = w
    <3>1. PICK j \in Job : j = job'[w] /\ Begun(j)
      BY <2>1 DEF BegunAdds
    <3>2. Begun(j)'
      BY <1>1, <3>1
    <3>. QED
      BY <2>1, <3>1, <3>2 DEF Begun
  <2>2. CASE v # w
    <3>1. job[v] \in Job /\ Begun(job[v]) /\ job'[v] = job[v]
      BY <2>2 DEF OthersKeep, BegunFirst, TypeOK, WorkerTypeOK
    <3>2. PICK j \in Job : j = job'[v] /\ Begun(j)
      BY <3>1
    <3>3. Begun(j)'
      BY <1>1, <3>2
    <3>. QED
      BY <3>2, <3>3 DEF Begun
  <2>. QED
    BY <2>1, <2>2
<1>. QED
  BY <1>2, <1>4, <1>5 DEF BegunFirst

LEMMA DequeueBegins ==
  ASSUME PoolInv, BegunFirst, NEW w \in Worker, WorkerStep(w)
  PROVE  BegunAdds(w)
<1> USE DEF counts
<1>1. /\ times \in [Job -> Nat] /\ dlq \in [Job -> Nat] /\ attempts \in [Job -> Nat]
      /\ faults \in Nat /\ pc \in [Worker -> PCs] /\ claimed \in [Worker -> SUBSET Job]
      /\ job \in [Worker -> Job \cup {NoJob}]
      /\ pc[w] \notin {"idle", "inspect", "read"} => job[w] \in Job
      /\ \A j \in idle : j \in Job /\ times[j] > 0
  BY DEF PoolInv, TypeOK, RedisTypeOK, WorkerTypeOK, CountTypeOK, OutcomeTypeOK, StreamInv,
         Pending
<1>2. CASE Claim(w)
  <2>1. PICK B \in SUBSET idle :
          /\ XAutoClaim(B) \/ UNCHANGED redis
          /\ claimed'[w] \subseteq B
          /\ pc'[w] \in {"inspect", "read"}
    BY <1>1, <1>2 DEF Claim, IsBatch
  <2>2. UNCHANGED dlq /\ \A j \in Job : times'[j] > 0 => times[j] > 0
    BY <1>1, <2>1 DEF XAutoClaim, redis
  <2>. QED
    BY <1>1, <2>1, <2>2 DEF BegunAdds
<1>3. CASE Inspect(w)
  <2>1. PICK j \in claimed[w] : ToDlq(w, j) \/ \E seen : Return(w, j, TRUE, seen)
    BY <1>3 DEF Inspect
  <2>2. UNCHANGED <<times, dlq>>
    BY <1>3 DEF Inspect, redis
  <2>3. claimed'[w] \subseteq claimed[w]
    BY <1>1, <2>1 DEF ToDlq, Return
  <2>4. j \in Job /\ Begun(j)
    BY <1>1 DEF BegunFirst
  <2>5. pc'[w] = "start" \/ job'[w] = j
    BY <1>1, <2>1 DEF ToDlq, Return
  <2>. QED
    BY <1>1, <2>2, <2>3, <2>4, <2>5 DEF BegunAdds
<1>4. CASE DlqAdd(w) \/ DlqAck(w) \/ DlqDel(w)
  <2>1. /\ XAddDlq(job[w]) \/ XAck(job[w]) \/ XDel(job[w]) \/ UNCHANGED redis
        /\ claimed'[w] \subseteq claimed[w]
        /\ pc'[w] \in {"read", "inspect"} \/ job'[w] = job[w]
    BY <1>1, <1>4 DEF DlqAdd, DlqAck, DlqDel, NextEntry
  <2>2. job[w] \in Job /\ Begun(job[w])
    BY <1>1, <1>4 DEF DlqAdd, DlqAck, DlqDel, BegunFirst
  <2>3. \A j \in Job : /\ times'[j] > 0 => times[j] > 0
                       /\ dlq'[j] > 0 => dlq[j] > 0 \/ j = job[w]
    BY <1>1, <2>1, <2>2 DEF XAddDlq, XAck, XDel, redis
  <2>. QED
    BY <1>1, <2>1, <2>2, <2>3 DEF BegunAdds
<1>5. CASE ReadNew(w)
  <2>1. claimed'[w] \subseteq claimed[w] /\ pc'[w] \in {"idle", "start"}
    BY <1>1, <1>5 DEF ReadNew, ReturnNone, Return
  <2>2. CASE UNCHANGED redis
    BY <1>1, <2>1, <2>2 DEF redis, BegunAdds
  <2>3. CASE ~UNCHANGED redis
    <3>1. PICK j \in Unread, r \in Reply :
            /\ Charge(r) /\ XReadNew(j)
            /\ r = "ok" /\ j \notin Corrupt => Return(w, j, TRUE, TRUE)
      BY <1>5, <2>3 DEF ReadNew
    <3>2. j \in Job
      BY DEF Unread, PoolInv, TypeOK, RedisTypeOK
    <3>3. Begun(j)'
      BY <1>1, <3>1, <3>2 DEF Begun, Charge, Return
    <3>4. UNCHANGED dlq /\ \A k \in Job : times'[k] > 0 => times[k] > 0 \/ k = j
      BY <1>1, <3>1 DEF XReadNew
    <3>. QED
      BY <1>1, <2>1, <3>3, <3>4 DEF BegunAdds
  <2>. QED
    BY <2>2, <2>3
<1>6. CASE ReadLocal(w)
  <2>1. /\ UNCHANGED <<times, dlq>> /\ claimed'[w] \subseteq claimed[w]
        /\ pc'[w] \in {"idle", "start"}
    BY <1>1, <1>6 DEF ReadLocal, ReturnNone, Return, redis
  <2>. QED
    BY <1>1, <2>1 DEF BegunAdds
<1>7. CASE AckJob(w) \/ DeleteEntry(w)
  <2>1. /\ XAck(job[w]) \/ XDel(job[w]) \/ UNCHANGED redis
        /\ UNCHANGED claimed /\ pc'[w] \in {"idle", "del"}
    BY <1>1, <1>7 DEF AckJob, DeleteEntry, Finish
  <2>2. UNCHANGED dlq /\ \A j \in Job : times'[j] > 0 => times[j] > 0
    BY <1>1, <2>1 DEF XAck, XDel, redis
  <2>. QED
    BY <1>1, <2>1, <2>2 DEF BegunAdds
<1>8. CASE GenerateAndSend(w) \/ RefundJob(w)
  <2>1. UNCHANGED <<times, dlq, claimed>> /\ pc'[w] \in {"refund", "ack"}
    BY <1>1, <1>8 DEF GenerateAndSend, RefundJob, atHand, redis, Goto
  <2>. QED
    BY <1>1, <2>1 DEF BegunAdds
<1>9. CASE RefuseToken(w)
  <2>1. UNCHANGED <<times, dlq, claimed>> /\ pc'[w] = "idle"
    BY <1>1, <1>9 DEF RefuseToken, Finish, redis
  <2>. QED
    BY <1>1, <2>1 DEF BegunAdds
<1>. QED
  BY <1>2, <1>3, <1>4, <1>5, <1>6, <1>7, <1>8, <1>9 DEF WorkerStep

(* Everyone else delivers, claims and buries nothing.                      *)
LEMMA BegunQuiet ==
  ASSUME PoolInv, BegunFirst, [Next]_vars,
         \A j \in Job : /\ times'[j] > 0 => times[j] > 0
                        /\ dlq'[j] > 0 => dlq[j] > 0,
         \A v \in Worker : /\ claimed'[v] \subseteq claimed[v]
                           /\ \/ pc'[v] = pc[v] /\ job'[v] = job[v]
                              \/ pc'[v] \in {"idle", "ack"}
  PROVE  BegunFirst'
<1>1. \A j \in Job : Begun(j) => Begun(j)'
  BY BegunStays DEF PoolInv
<1>2. \A v \in Worker : claimed[v] \subseteq Job
  BY DEF PoolInv, TypeOK, WorkerTypeOK
<1>3. ASSUME NEW v \in Worker, pc'[v] \in {"dlqAdd", "dlqAck", "dlqDel"}
      PROVE  Begun(job[v])'
  <2>1. pc'[v] = pc[v] /\ job'[v] = job[v]
    BY <1>3
  <2>2. PICK j \in Job : j = job'[v] /\ Begun(j)
    BY <1>3, <2>1 DEF BegunFirst, PoolInv, TypeOK, WorkerTypeOK
  <2>3. Begun(j)'
    BY <1>1, <2>2
  <2>. QED
    BY <2>2, <2>3 DEF Begun
<1>. QED
  BY <1>1, <1>2, <1>3 DEF BegunFirst

LEMMA BegunInductive ==
  /\ Init => BegunFirst
  /\ PoolInv /\ BegunFirst /\ [Next]_vars => BegunFirst'
<1>1. Init => BegunFirst
  BY DEF Init, BegunFirst
<1>2. ASSUME PoolInv, BegunFirst, [Next]_vars
      PROVE  BegunFirst'
  <2>1. TypeOK /\ times \in [Job -> Nat] /\ dlq \in [Job -> Nat]
    BY <1>2 DEF PoolInv, TypeOK, RedisTypeOK
  <2>2. ASSUME NEW w \in Worker, WorkerStep(w)
        PROVE  BegunFirst'
    BY <1>2, <2>1, <2>2, DequeueBegins, WorkerStepOthers, BegunKept
  <2>3. CASE \E p \in Process, j \in Job : Enqueue(p, j)
    <3>1. UNCHANGED <<times, dlq, claimed, pc, job>>
      BY <2>3 DEF Enqueue, EnqueueJob, XAdd, redis
    <3>. QED
      BY <1>2, <3>1, BegunQuiet
  <2>4. CASE (\E j \in Job : Elapse(j)) \/ UNCHANGED vars
    <3>1. UNCHANGED <<times, dlq, claimed, pc, job>>
      BY <2>4 DEF Elapse, IdleElapses, vars, brokerVars, redis
    <3>. QED
      BY <1>2, <3>1, BegunQuiet
  <2>5. ASSUME NEW p \in Process, Crash(p) \/ Exit(p)
        PROVE  BegunFirst'
    <3>1. Renew(p)
      BY <2>5 DEF Crash, Exit
    <3>2. UNCHANGED <<times, dlq>>
      BY <3>1 DEF Renew, redis
    <3>3. \A v \in Worker : /\ claimed'[v] \subseteq claimed[v]
                            /\ \/ pc'[v] = pc[v] /\ job'[v] = job[v]
                               \/ pc'[v] \in {"idle", "ack"}
      BY <3>1 DEF Renew
    <3>. QED
      BY <1>2, <3>2, <3>3, BegunQuiet
  <2>6. ASSUME NEW p \in Process, Interrupt(p)
        PROVE  BegunFirst'
    <3>1. UNCHANGED <<times, dlq>>
      BY <2>6 DEF Interrupt, redis
    <3>2. \A v \in Worker : /\ claimed'[v] \subseteq claimed[v]
                            /\ \/ pc'[v] = pc[v] /\ job'[v] = job[v]
                               \/ pc'[v] \in {"idle", "ack"}
      BY <2>6 DEF Interrupt
    <3>. QED
      BY <1>2, <3>1, <3>2, BegunQuiet
  <2>. QED
    BY <1>2, <2>2, <2>3, <2>4, <2>5, <2>6 DEF Next
<1>. QED
  BY <1>1, <1>2

LEMMA PoolInvInductive == /\ Init => PoolInv
                          /\ PoolInv /\ [Next]_vars => PoolInv'
BY InitContract, NextContract

(* A job is dead-lettered unstarted only if the reply that first handed it *)
(* over was lost, or its payload is corrupted.                             *)
THEOREM DeadWereStarted == Spec => []DeadJobsWereStarted
<1>1. Init => PoolInv /\ BegunFirst
  BY PoolInvInductive, BegunInductive
<1>2. PoolInv /\ BegunFirst /\ [Next]_vars => (PoolInv /\ BegunFirst)'
  BY PoolInvInductive, BegunInductive
<1>3. PoolInv /\ BegunFirst => DeadJobsWereStarted
  BY DEF PoolInv, TypeOK, CountTypeOK, BegunFirst, Begun, DeadJobsWereStarted
<1>. QED
  BY <1>1, <1>2, <1>3, PTL DEF Spec
-----------------------------------------------------------------------------
(***************************************************************************)
(* Without a death and without a failed call, an entry that is neither     *)
(* unread nor pending has a loop that is about to delete it: the one whose *)
(* XACK it followed.                                                       *)
(***************************************************************************)
Eventless == crashes + interrupts + faults = 0
Leftover == entries \ (Unread \cup Pending)
Deleting(w, j) == pc[w] \in {"del", "dlqDel"} /\ job[w] = j

NoLeak == Eventless => \A j \in Leftover : \E w \in Worker : Deleting(w, j)

LEMMA ZeroSum ==
  ASSUME NEW a \in Nat, NEW b \in Nat, NEW c \in Nat
  PROVE  a + b + c = 0 <=> a = 0 /\ b = 0 /\ c = 0
OBVIOUS

LEMMA EventlessBefore ==
  ASSUME TypeOK, [Next]_vars, Eventless'
  PROVE  Eventless /\ UNCHANGED <<crashes, interrupts, faults>>
<1>1. /\ faults \in Nat /\ crashes \in Nat /\ interrupts \in Nat
      /\ faults' \in Nat /\ crashes' \in Nat /\ interrupts' \in Nat
  BY NextType DEF TypeOK, OutcomeTypeOK
<1>2. faults <= faults' /\ crashes <= crashes' /\ interrupts <= interrupts'
  BY NextGrows DEF Growing
<1>3. crashes' + interrupts' + faults' = 0
  BY DEF Eventless
<1>4. /\ crashes = 0 /\ interrupts = 0 /\ faults = 0
      /\ crashes' = 0 /\ interrupts' = 0 /\ faults' = 0
  <2>1. crashes' = 0 /\ interrupts' = 0 /\ faults' = 0
    BY <1>1, <1>3, ZeroSum
  <2>. QED
    BY <1>1, <1>2, <2>1
<1>5. crashes + interrupts + faults = 0
  BY <1>1, <1>4, ZeroSum
<1>6. crashes' = crashes /\ interrupts' = interrupts /\ faults' = faults
  BY <1>1, <1>4
<1>. QED
  BY <1>5, <1>6 DEF Eventless

(* A step of w leaves over only what was left over before and is not its   *)
(* own to delete, or what it is about to delete now.                       *)
LEMMA LeakStep ==
  ASSUME \A j \in Leftover : \E v \in Worker : Deleting(v, j), NEW w \in Worker, OthersKeep(w),
         \A j \in Leftover' : \/ j \in Leftover /\ ~Deleting(w, j)
                              \/ Deleting(w, j)'
  PROVE  \A j \in Leftover' : \E v \in Worker : Deleting(v, j)'
<1> SUFFICES ASSUME NEW j \in Leftover'
             PROVE  \E v \in Worker : Deleting(v, j)'
  OBVIOUS
<1>1. CASE Deleting(w, j)'
  BY <1>1
<1>2. CASE j \in Leftover /\ ~Deleting(w, j)
  <2>1. PICK v \in Worker : Deleting(v, j)
    BY <1>2
  <2>2. v # w /\ Deleting(v, j)'
    BY <1>2, <2>1 DEF Deleting, OthersKeep
  <2>. QED
    BY <2>2
<1>. QED
  BY <1>1, <1>2

LEMMA OnlyTheOldestRead ==
  ASSUME PoolInv, NEW j \in Unread, Oldest(j, Unread), XReadNew(j)
  PROVE  Leftover' = Leftover
<1>1. /\ id \in [Job -> Nat] /\ lastRead \in Nat /\ entries \subseteq Job
      /\ times \in [Job -> Nat] /\ j \in Job /\ id[j] > lastRead
  BY DEF PoolInv, TypeOK, RedisTypeOK, Unread
<1>2. /\ lastRead' = id[j] /\ times' = [times EXCEPT ![j] = 1]
      /\ UNCHANGED <<id, entries>>
  BY DEF XReadNew
<1>3. Pending' = Pending \cup {j}
  BY <1>1, <1>2 DEF Pending
<1>4. \A k \in Unread : id[j] <= id[k] /\ (id[j] = id[k] => j = k)
  BY <1>1 DEF Oldest, Unread, PoolInv, StreamInv, InStream
<1>5. Unread' = Unread \ {j}
  BY <1>1, <1>2, <1>4 DEF Unread
<1>. QED
  BY <1>2, <1>3, <1>5 DEF Leftover

LEMMA WorkerStepLeaks ==
  ASSUME PoolInv, NEW w \in Worker, WorkerStep(w), UNCHANGED faults
  PROVE  \A j \in Leftover' : \/ j \in Leftover /\ ~Deleting(w, j)
                              \/ Deleting(w, j)'
<1> USE DEF counts
<1>1. /\ times \in [Job -> Nat] /\ id \in [Job -> Nat] /\ lastRead \in Nat
      /\ faults \in Nat /\ pc \in [Worker -> PCs]
      /\ job \in [Worker -> Job \cup {NoJob}] /\ entries \subseteq Job
      /\ pc[w] \notin {"idle", "inspect", "read"} => job[w] \in Job
  BY DEF PoolInv, TypeOK, RedisTypeOK, WorkerTypeOK, OutcomeTypeOK
<1>2. \A r : Charge(r) => r = "ok"
  BY <1>1 DEF Charge
<1>3. UNCHANGED redis => Leftover' = Leftover
  BY DEF redis, Leftover, Unread, Pending
<1>4. CASE Claim(w)
  <2>1. PICK B : (XAutoClaim(B) \/ UNCHANGED redis) /\ pc[w] = "idle"
    BY <1>4 DEF Claim
  <2>2. Leftover' \subseteq Leftover
    BY <1>1, <1>3, <2>1 DEF XAutoClaim, Leftover, Unread, Pending
  <2>. QED
    BY <2>1, <2>2 DEF Deleting
<1>5. CASE \/ Inspect(w) \/ ReadLocal(w) \/ GenerateAndSend(w) \/ RefundJob(w)
           \/ RefuseToken(w)
  <2>1. UNCHANGED redis /\ pc[w] \notin {"del", "dlqDel"}
    BY <1>5 DEF Inspect, ReadLocal, GenerateAndSend, RefundJob, RefuseToken, atHand
  <2>. QED
    BY <1>3, <2>1 DEF Deleting
<1>6. CASE DlqAdd(w)
  <2>1. pc[w] = "dlqAdd" /\ (XAddDlq(job[w]) \/ UNCHANGED redis)
    BY <1>6 DEF DlqAdd
  <2>2. Leftover' = Leftover
    BY <1>3, <2>1 DEF XAddDlq, Leftover, Unread, Pending
  <2>. QED
    BY <2>1, <2>2 DEF Deleting
<1>7. CASE ReadNew(w)
  <2>1. /\ pc[w] = "read"
        /\ UNCHANGED redis \/ \E j \in Unread : Oldest(j, Unread) /\ XReadNew(j)
    BY <1>7 DEF ReadNew
  <2>2. Leftover' = Leftover
    BY <1>3, <2>1, OnlyTheOldestRead
  <2>. QED
    BY <2>1, <2>2 DEF Deleting
<1>8. CASE DlqAck(w) \/ (AckJob(w) /\ ~UNCHANGED redis)
  <2>1. /\ pc[w] \in {"dlqAck", "ack"} /\ XAck(job[w])
        /\ pc'[w] \in {"dlqDel", "del"} /\ job'[w] = job[w]
    BY <1>1, <1>2, <1>8 DEF DlqAck, AckJob, Applied
  <2>2. \A j \in Leftover' : j \in Leftover \/ j = job[w]
    BY <1>1, <2>1 DEF XAck, Leftover, Unread, Pending
  <2>. QED
    BY <2>1, <2>2 DEF Deleting
<1>9. CASE AckJob(w) /\ UNCHANGED redis
  BY <1>3, <1>9 DEF AckJob, Deleting
<1>10. CASE DlqDel(w) \/ DeleteEntry(w)
  <2>1. XDel(job[w])
    BY <1>2, <1>10 DEF DlqDel, DeleteEntry, Applied
  <2>2. \A j \in Leftover' : j \in Leftover /\ j # job[w]
    BY <1>1, <2>1 DEF XDel, Leftover, Unread, Pending
  <2>. QED
    BY <2>2 DEF Deleting
<1>. QED
  BY <1>4, <1>5, <1>6, <1>7, <1>8, <1>9, <1>10 DEF WorkerStep

LEMMA NoLeakInductive ==
  /\ Init => NoLeak
  /\ PoolInv /\ NoLeak /\ [Next]_vars => NoLeak'
<1>1. Init => NoLeak
  BY DEF Init, NoLeak, Leftover
<1>2. ASSUME PoolInv, NoLeak, [Next]_vars, Eventless'
      PROVE  \A j \in Leftover' : \E v \in Worker : Deleting(v, j)'
  <2>1. /\ UNCHANGED <<crashes, interrupts, faults>> /\ TypeOK
        /\ \A j \in Leftover : \E v \in Worker : Deleting(v, j)
    BY <1>2, EventlessBefore DEF NoLeak, PoolInv
  <2>2. ASSUME NEW w \in Worker, WorkerStep(w)
        PROVE  \A j \in Leftover' : \E v \in Worker : Deleting(v, j)'
    BY <1>2, <2>1, <2>2, WorkerStepLeaks, WorkerStepOthers, LeakStep
  <2>3. ASSUME Leftover' \subseteq Leftover, \A v \in Worker : \A j \in Job :
                                               Deleting(v, j) => Deleting(v, j)'
        PROVE  \A j \in Leftover' : \E v \in Worker : Deleting(v, j)'
    BY <2>1, <2>3 DEF Leftover, TypeOK, RedisTypeOK
  <2>4. ASSUME NEW p \in Process, NEW j \in Job, Enqueue(p, j)
        PROVE  \A k \in Leftover' : \E v \in Worker : Deleting(v, k)'
    <3>1. UNCHANGED <<pc, job>> /\ (XAdd(j) \/ UNCHANGED redis)
      BY <2>4 DEF Enqueue, EnqueueJob
    <3>2. /\ id \in [Job -> Nat] /\ lastRead <= lastAdded /\ lastRead \in Nat
          /\ lastAdded \in Nat /\ entries \subseteq Job
      BY <1>2 DEF PoolInv, TypeOK, RedisTypeOK, StreamInv
    <3>3. Leftover' \subseteq Leftover
      BY <3>1, <3>2 DEF XAdd, redis, Leftover, Unread, Pending
    <3>. QED
      BY <2>3, <3>1, <3>3 DEF Deleting
  <2>5. CASE (\E j \in Job : Elapse(j)) \/ UNCHANGED vars
    <3>1. UNCHANGED <<pc, job, id, lastRead, entries, times>>
      BY <2>5 DEF Elapse, IdleElapses, vars, brokerVars, redis
    <3>. QED
      BY <2>3, <3>1 DEF Deleting, Leftover, Unread, Pending
  <2>6. ASSUME NEW p \in Process, Crash(p) \/ Exit(p) \/ Interrupt(p)
        PROVE  \A j \in Leftover' : \E v \in Worker : Deleting(v, j)'
    <3>1. crashes \in Nat /\ interrupts \in Nat
      BY <2>1 DEF TypeOK, OutcomeTypeOK
    <3>2. Exit(p)
      BY <2>1, <2>6, <3>1 DEF Crash, Interrupt
    <3>3. UNCHANGED redis /\ \A v \in Worker : \/ pc[v] = "idle"
                                               \/ pc'[v] = pc[v] /\ job'[v] = job[v]
      BY <3>2 DEF Exit, Renew
    <3>. QED
      BY <2>3, <3>3 DEF redis, Deleting, Leftover, Unread, Pending
  <2>. QED
    BY <1>2, <2>2, <2>4, <2>5, <2>6 DEF Next
<1>. QED
  BY <1>1, <1>2 DEF NoLeak

(* XLEN counts no entry that nobody will read, unless something failed or  *)
(* died between the XACK and the XDEL of a job.                            *)
THEOREM EntriesNotLeaked == Spec => []NoLeakedEntry
<1>1. Init => PoolInv /\ NoLeak
  BY PoolInvInductive, NoLeakInductive
<1>2. PoolInv /\ NoLeak /\ [Next]_vars => (PoolInv /\ NoLeak)'
  BY PoolInvInductive, NoLeakInductive
<1>3. PoolInv /\ NoLeak => NoLeakedEntry
  BY DEF PoolInv, TypeOK, OutcomeTypeOK, NoLeak, Eventless, Leftover, Deleting, NoLeakedEntry
<1>. QED
  BY <1>1, <1>2, <1>3, PTL DEF Spec
-----------------------------------------------------------------------------
(***************************************************************************)
(* While nothing dies or fails and no process falls back, a job is started *)
(* once: as long as it is pending, the loop that was handed it holds it,   *)
(* so that it becomes idle, and is claimed, only once it has overrun.      *)
(***************************************************************************)
Working(w, j) == job[w] = j /\ pc[w] \in {"start", "refund", "ack"}

Once(j) ==
  /\ attempts[j] <= 1
  /\ attempts[j] > 0 => 0 < id[j] /\ id[j] <= lastRead
  /\ times[j] > 0 => \E w \in Worker : Working(w, j)
  /\ j \notin idle
  /\ \A w \in Worker : j \notin claimed[w]

(* The jobs that may be started again although nothing went wrong.         *)
Excused == overran \cup {j \in Job : Refusable(j)}

Orderly ==
  /\ \A p \in Process : local[p] = << >>
  /\ \A w \in Worker : pc[w] \in {"start", "refund", "ack"} => viaStream[w]
  /\ \A j \in Job \ Excused : Once(j)

StartedOnce == /\ interrupts = 0 => stopping = {}
               /\ Undisturbed => Orderly

(* Only a process that ends leaves its fallback, and it ended for a cause. *)
LEMMA UndisturbedBefore ==
  ASSUME TypeOK, StartedOnce, [Next]_vars, Undisturbed'
  PROVE  /\ Undisturbed /\ UNCHANGED <<faults, fallback, stopping>>
         /\ ~\E p \in Process : Crash(p) \/ Exit(p) \/ Interrupt(p)
<1>1. /\ fallback \in [Process -> BOOLEAN] /\ faults \in Nat /\ crashes \in Nat
      /\ interrupts \in Nat
  BY DEF TypeOK, MemoryTypeOK, OutcomeTypeOK
<1>2. Eventless /\ UNCHANGED <<crashes, interrupts, faults>>
  <2>1. Eventless'
    BY DEF Undisturbed, Eventless
  <2>. QED
    BY <2>1, EventlessBefore
<1>3. stopping = {}
  <2>1. interrupts = 0
    BY <1>1, <1>2, ZeroSum DEF Eventless
  <2>. QED
    BY <2>1 DEF StartedOnce
<1>4. ~\E p \in Process : Crash(p) \/ Exit(p) \/ Interrupt(p)
  BY <1>1, <1>2, <1>3 DEF Crash, Exit, Interrupt
<1>5. UNCHANGED stopping
  BY <1>4 DEF Next, Enqueue, WorkerStep, Elapse, lifecycle, vars
<1>6. UNCHANGED fallback
  <2>1. \A p \in Process : ~fallback'[p]
    BY DEF Undisturbed
  <2>2. UNCHANGED fallback \/ \E q \in Process : FallBack(q)
    <3>1. ASSUME NEW w \in Worker, WorkerStep(w)
          PROVE  UNCHANGED fallback \/ \E q \in Process : FallBack(q)
      <4>1. ProcOf[w] \in Process
        BY BrokerAssumption
      <4>2. UNCHANGED fallback \/ FallBack(ProcOf[w])
        BY <3>1 DEF WorkerStep, Claim, Inspect, DlqAdd, DlqAck, DlqDel, ReadNew, ReadLocal,
                    AckJob, DeleteEntry, GenerateAndSend, RefundJob, RefuseToken, atHand
      <4>. QED
        BY <4>1, <4>2
    <3>2. ASSUME NEW p \in Process, NEW j \in Job, Enqueue(p, j)
          PROVE  UNCHANGED fallback \/ \E q \in Process : FallBack(q)
      BY <3>2 DEF Enqueue, EnqueueJob, FallBack
    <3>3. CASE (\E j \in Job : Elapse(j)) \/ UNCHANGED vars
      BY <3>3 DEF Elapse, vars, brokerVars
    <3>. QED
      BY <1>4, <3>1, <3>2, <3>3 DEF Next
  <2>3. ~\E q \in Process : FallBack(q)
    BY <1>1, <2>1 DEF FallBack
  <2>. QED
    BY <2>2, <2>3
<1>7. Undisturbed
  BY <1>2, <1>6 DEF Undisturbed, Eventless
<1>. QED
  BY <1>2, <1>4, <1>5, <1>6, <1>7

(* What a step of w may do to a job that another loop, or none, works on.  *)
LEMMA OnceKept ==
  ASSUME NEW j \in Job, Once(j), NEW w \in Worker, OthersKeep(w),
         attempts'[j] = attempts[j], id'[j] = id[j],
         id[j] <= lastRead => id[j] <= lastRead',
         times'[j] > 0 => times[j] > 0,
         ~Working(w, j) \/ Working(w, j)' \/ ~(times'[j] > 0),
         j \notin idle', j \notin claimed'[w]
  PROVE  Once(j)'
<1>1. times'[j] > 0 => \E v \in Worker : Working(v, j)'
  <2> SUFFICES ASSUME times'[j] > 0
               PROVE  \E v \in Worker : Working(v, j)'
    OBVIOUS
  <2>1. PICK v \in Worker : Working(v, j)
    BY DEF Once
  <2>2. v # w => Working(v, j)'
    BY <2>1 DEF Working, OthersKeep
  <2>. QED
    BY <2>1, <2>2
<1>2. \A v \in Worker : j \notin claimed'[v]
  BY DEF Once, OthersKeep
<1>. QED
  BY <1>1, <1>2 DEF Once

LEMMA WorkerStepOnce ==
  ASSUME PoolInv, Undisturbed, Orderly, NEW w \in Worker, WorkerStep(w),
         UNCHANGED <<faults, fallback>>, NEW j \in Job \ Excused
  PROVE  Once(j)'
<1> USE DEF counts
<1>1. /\ times \in [Job -> Nat] /\ id \in [Job -> Nat] /\ lastRead \in Nat
      /\ faults \in Nat /\ pc \in [Worker -> PCs] /\ claimed \in [Worker -> SUBSET Job]
      /\ job \in [Worker -> Job \cup {NoJob}] /\ attempts \in [Job -> Nat]
      /\ pc[w] \notin {"idle", "inspect", "read"} => job[w] \in Job
      /\ ProcOf[w] \in Process /\ fallback \in [Process -> BOOLEAN]
      /\ entries \subseteq Job
  BY BrokerAssumption DEF PoolInv, TypeOK, RedisTypeOK, WorkerTypeOK, CountTypeOK,
                          OutcomeTypeOK, MemoryTypeOK
<1>2. \A r : Charge(r) => r = "ok"
  BY <1>1 DEF Charge
<1>3. Once(j) /\ OthersKeep(w) /\ j \in Job /\ ~fallback[ProcOf[w]]
  BY <1>1, WorkerStepOthers DEF Orderly, PoolInv, Undisturbed
<1>4. j \notin idle /\ j \notin claimed[w]
  BY <1>3 DEF Once
<1>5. CASE Claim(w)
  <2>1. PICK B \in SUBSET idle :
          /\ XAutoClaim(B) \/ UNCHANGED redis
          /\ claimed'[w] \subseteq B /\ pc[w] = "idle" /\ UNCHANGED attempts
    BY <1>1, <1>5 DEF Claim, IsBatch
  <2>2. /\ UNCHANGED <<id, lastRead>> /\ times'[j] = times[j] /\ idle' \subseteq idle
    BY <1>1, <1>3, <1>4, <2>1 DEF XAutoClaim, redis
  <2>3. ~Working(w, j)
    BY <2>1 DEF Working
  <2>. QED
    BY <1>3, <1>4, <2>1, <2>2, <2>3, OnceKept
<1>6. CASE Inspect(w)
  <2>1. PICK k \in claimed[w] : ToDlq(w, k) \/ \E seen : Return(w, k, TRUE, seen)
    BY <1>6 DEF Inspect
  <2>2. k # j /\ UNCHANGED redis /\ pc[w] = "inspect"
    BY <1>4, <1>6 DEF Inspect
  <2>3. attempts'[j] = attempts[j] /\ claimed'[w] \subseteq claimed[w]
    BY <1>1, <1>3, <2>1, <2>2 DEF ToDlq, Return
  <2>4. ~Working(w, j)
    BY <2>2 DEF Working
  <2>. QED
    BY <1>3, <1>4, <2>2, <2>3, <2>4, OnceKept DEF redis
<1>7. CASE DlqAdd(w) \/ DlqAck(w) \/ DlqDel(w) \/ DeleteEntry(w)
  <2>1. /\ XAddDlq(job[w]) \/ XAck(job[w]) \/ XDel(job[w]) \/ UNCHANGED redis
        /\ pc[w] \in {"dlqAdd", "dlqAck", "dlqDel", "del"}
        /\ UNCHANGED <<attempts, claimed>>
    BY <1>7 DEF DlqAdd, DlqAck, DlqDel, NextEntry, DeleteEntry
  <2>2. /\ UNCHANGED <<id, lastRead>> /\ idle' \subseteq idle
        /\ times'[j] > 0 => times[j] > 0
    BY <1>1, <1>3, <2>1 DEF XAddDlq, XAck, XDel, redis
  <2>3. ~Working(w, j)
    BY <2>1 DEF Working
  <2>. QED
    BY <1>3, <1>4, <2>1, <2>2, <2>3, OnceKept
<1>8. CASE ReadNew(w) /\ Unread = {}
  <2>1. UNCHANGED redis /\ UNCHANGED <<attempts, claimed>> /\ pc[w] = "read"
    BY <1>8 DEF ReadNew, ReturnNone
  <2>2. ~Working(w, j)
    BY <2>1 DEF Working
  <2>. QED
    BY <1>3, <1>4, <2>1, <2>2, OnceKept DEF redis
<1>9. CASE ReadNew(w) /\ Unread # {}
  <2>1. PICK k \in Unread :
          /\ XReadNew(k) /\ pc[w] = "read"
          /\ Return(w, k, TRUE, TRUE) \/ FallBack(ProcOf[w])
    BY <1>2, <1>9 DEF ReadNew, Applied
  <2>2. ~FallBack(ProcOf[w])
    BY <1>1, <1>3 DEF FallBack
  <2>3. /\ k \in Job /\ id[k] > lastRead /\ claimed'[w] = {}
        /\ times' = [times EXCEPT ![k] = 1] /\ lastRead' = id[k] /\ UNCHANGED <<id, idle>>
        /\ attempts' = [attempts EXCEPT ![k] = @ + 1]
        /\ job'[w] = k /\ pc'[w] = "start"
    BY <1>1, <2>1, <2>2 DEF Unread, XReadNew, Return
  <2>4. CASE k = j
    <3>1. attempts[j] = 0
      BY <1>1, <1>3, <2>3, <2>4 DEF Once
    <3>2. attempts'[j] = 1 /\ 0 < id'[j] /\ id'[j] <= lastRead'
      BY <1>1, <2>3, <2>4, <3>1
    <3>3. Working(w, j)'
      BY <2>3, <2>4 DEF Working
    <3>4. \A v \in Worker : j \notin claimed'[v]
      BY <1>3, <2>3 DEF OthersKeep, Once
    <3>. QED
      BY <1>4, <2>3, <3>2, <3>3, <3>4 DEF Once
  <2>5. CASE k # j
    <3>1. attempts'[j] = attempts[j] /\ times'[j] = times[j] /\ ~Working(w, j)
      BY <1>1, <1>3, <2>1, <2>3, <2>5 DEF Working
    <3>2. id[j] <= lastRead => id[j] <= lastRead'
      BY <1>1, <1>3, <2>3
    <3>. QED
      BY <1>3, <1>4, <2>3, <3>1, <3>2, OnceKept
  <2>. QED
    BY <2>4, <2>5
<1>10. CASE ReadLocal(w)
  BY <1>3, <1>10 DEF ReadLocal
<1>11. CASE AckJob(w)
  <2>1. pc[w] = "ack" /\ viaStream[w]
    BY <1>11 DEF AckJob, Orderly
  <2>2. XAck(job[w]) /\ UNCHANGED <<attempts, claimed>>
    BY <1>2, <1>3, <1>11, <2>1 DEF AckJob, Applied
  <2>3. /\ UNCHANGED <<id, lastRead>> /\ idle' \subseteq idle
        /\ times'[j] > 0 => times[j] > 0 /\ job[w] # j
    BY <1>1, <1>3, <2>2 DEF XAck
  <2>4. ~Working(w, j) \/ ~(times'[j] > 0)
    BY <2>3 DEF Working
  <2>. QED
    BY <1>3, <1>4, <2>2, <2>3, <2>4, OnceKept
<1>12. CASE GenerateAndSend(w) \/ RefundJob(w)
  <2>1. /\ UNCHANGED redis /\ UNCHANGED <<attempts, claimed, job>>
        /\ pc'[w] \in {"refund", "ack"}
    BY <1>1, <1>12 DEF GenerateAndSend, RefundJob, atHand, Goto
  <2>2. ~Working(w, j) \/ Working(w, j)'
    BY <2>1 DEF Working
  <2>. QED
    BY <1>3, <1>4, <2>1, <2>2, OnceKept DEF redis
<1>13. CASE RefuseToken(w)
  <2>1. /\ UNCHANGED redis /\ UNCHANGED <<attempts, claimed>>
        /\ job[w] \in BadToken[ProcOf[w]]
    BY <1>13 DEF RefuseToken
  <2>2. ~Working(w, j)
    BY <1>1, <2>1 DEF Working, Excused, Refusable
  <2>. QED
    BY <1>3, <1>4, <2>1, <2>2, OnceKept DEF redis
<1>. QED
  BY <1>5, <1>6, <1>7, <1>8, <1>9, <1>10, <1>11, <1>12, <1>13 DEF WorkerStep

LEMMA WorkerStepOrderly ==
  ASSUME PoolInv, Undisturbed, Orderly, NEW w \in Worker, WorkerStep(w),
         UNCHANGED <<faults, fallback>>
  PROVE  Orderly'
<1>1. /\ pc \in [Worker -> PCs] /\ viaStream \in [Worker -> BOOLEAN]
      /\ ~fallback[ProcOf[w]]
  BY BrokerAssumption DEF PoolInv, TypeOK, WorkerTypeOK, Undisturbed
<1>2. ~ReadLocal(w)
  BY <1>1 DEF ReadLocal
<1>3. UNCHANGED local
  BY <1>2 DEF WorkerStep, Claim, Inspect, DlqAdd, DlqAck, DlqDel, ReadNew, AckJob,
              DeleteEntry, GenerateAndSend, RefundJob, RefuseToken, atHand
<1>4. pc'[w] \in {"start", "refund", "ack"} => viaStream'[w]
  <2>1. CASE Claim(w) \/ DlqAdd(w) \/ DlqAck(w) \/ DlqDel(w) \/ AckJob(w) \/ DeleteEntry(w)
    <3>1. pc'[w] \notin {"start", "refund", "ack"}
      BY <1>1, <2>1 DEF Claim, DlqAdd, DlqAck, DlqDel, NextEntry, AckJob, DeleteEntry, Finish
    <3>. QED
      BY <3>1
  <2>2. CASE Inspect(w)
    <3>1. pc'[w] = "dlqAdd" \/ viaStream'[w]
      BY <1>1, <2>2 DEF Inspect, ToDlq, Return
    <3>. QED
      BY <3>1
  <2>3. CASE ReadNew(w)
    <3>1. pc'[w] = "idle" \/ viaStream'[w]
      BY <1>1, <2>3 DEF ReadNew, ReturnNone, Return
    <3>. QED
      BY <3>1
  <2>4. CASE GenerateAndSend(w) \/ RefundJob(w)
    <3>1. pc[w] \in {"start", "refund"} /\ UNCHANGED viaStream
      BY <2>4 DEF GenerateAndSend, RefundJob, atHand
    <3>. QED
      BY <3>1 DEF Orderly
  <2>5. CASE RefuseToken(w)
    <3>1. pc'[w] = "idle"
      BY <1>1, <2>5 DEF RefuseToken, Finish
    <3>. QED
      BY <3>1
  <2>. QED
    BY <1>2, <2>1, <2>2, <2>3, <2>4, <2>5 DEF WorkerStep
<1>5. \A v \in Worker \ {w} : viaStream'[v] = viaStream[v] /\ pc'[v] = pc[v]
  <2>1. \A v \in Worker \ {w} : pc'[v] = pc[v]
    BY WorkerStepOthers DEF OthersKeep, PoolInv
  <2>2. \A v \in Worker \ {w} : viaStream'[v] = viaStream[v]
    BY <1>1, <1>2 DEF WorkerStep, Claim, Inspect, ToDlq, Return, DlqAdd, DlqAck, DlqDel, NextEntry,
                      ReadNew, ReturnNone, AckJob, DeleteEntry, Finish, GenerateAndSend,
                      RefundJob, RefuseToken, atHand
  <2>. QED
    BY <2>1, <2>2
<1>6. \A j \in Job \ Excused' : Once(j)'
  BY WorkerStepOnce, WorkerStepGrows DEF PoolInv, Excused, Refusable
<1>. QED
  BY <1>3, <1>4, <1>5, <1>6 DEF Orderly

(* A step that is no loop's, and changes at most the ids, what is idle and *)
(* what has overrun.                                                       *)
LEMMA OrderlyQuiet ==
  ASSUME Orderly, UNCHANGED <<local, pc, job, viaStream, claimed, attempts, times, lastRead>>,
         \A j \in Job \ Excused' : /\ j \notin overran
                                   /\ attempts[j] > 0 => id'[j] = id[j]
                                   /\ j \in idle' => j \in idle
  PROVE  Orderly'
<1>1. \A j \in Job \ Excused' : Once(j)'
  BY DEF Orderly, Once, Working, Excused, Refusable
<1>. QED
  BY <1>1 DEF Orderly

LEMMA StartedOnceInductive ==
  /\ Init => StartedOnce
  /\ PoolInv /\ StartedOnce /\ [Next]_vars => StartedOnce'
<1>1. Init => StartedOnce
  BY DEF Init, StartedOnce, Orderly, Once
<1>2. ASSUME PoolInv, StartedOnce, [Next]_vars
      PROVE  interrupts' = 0 => stopping' = {}
  <2>1. interrupts \in Nat
    BY <1>2 DEF PoolInv, TypeOK, OutcomeTypeOK
  <2>2. CASE UNCHANGED <<stopping, interrupts>>
    BY <1>2, <2>2 DEF StartedOnce
  <2>3. ASSUME NEW p \in Process, Crash(p) \/ Exit(p)
        PROVE  interrupts' = 0 => stopping' = {}
    BY <1>2, <2>3 DEF Crash, Exit, Renew, StartedOnce
  <2>4. ASSUME NEW p \in Process, Interrupt(p)
        PROVE  interrupts' # 0
    BY <2>1, <2>4 DEF Interrupt
  <2>5. UNCHANGED <<stopping, interrupts>> \/ \E p \in Process : Crash(p) \/ Exit(p) \/ Interrupt(p)
    BY <1>2 DEF Next, Enqueue, WorkerStep, Elapse, lifecycle, vars
  <2>. QED
    BY <2>2, <2>3, <2>4, <2>5
<1>3. ASSUME PoolInv, StartedOnce, [Next]_vars, Undisturbed'
      PROVE  Orderly'
  <2>1. /\ Undisturbed /\ Orderly /\ UNCHANGED <<faults, fallback>>
        /\ ~\E p \in Process : Crash(p) \/ Exit(p) \/ Interrupt(p)
    BY <1>3, UndisturbedBefore DEF PoolInv, StartedOnce
  <2>2. ASSUME NEW p \in Process, NEW j \in Job, Enqueue(p, j)
        PROVE  Orderly'
    <3>1. /\ id \in [Job -> Nat] /\ ~(id[j] > 0)
          /\ ~fallback[p] /\ fallback \in [Process -> BOOLEAN]
      BY <1>3, <2>1, <2>2 DEF Enqueue, EnqueueJob, PoolInv, TypeOK, RedisTypeOK, StoreInv,
                              MemoryTypeOK, Touched, InStream, Undisturbed
    <3>2. /\ UNCHANGED local /\ (XAdd(j) \/ UNCHANGED redis)
          /\ UNCHANGED <<pc, job, viaStream, claimed, attempts, overran>>
      BY <2>1, <2>2, <3>1 DEF Enqueue, EnqueueJob
    <3>3. /\ UNCHANGED <<times, lastRead, idle>>
          /\ \A k \in Job : k # j => id'[k] = id[k]
      BY <3>1, <3>2 DEF XAdd, redis
    <3>4. j \notin Excused => ~(attempts[j] > 0)
      BY <2>1, <3>1 DEF Orderly, Once
    <3>5. Excused' = Excused
      BY <3>2 DEF Excused, Refusable
    <3>. QED
      BY <2>1, <3>2, <3>3, <3>4, <3>5, OrderlyQuiet DEF Excused
  <2>3. ASSUME NEW j \in Job, Elapse(j)
        PROVE  Orderly'
    <3>1. /\ times[j] > 0 /\ idle' = idle \cup {j}
          /\ UNCHANGED <<local, pc, job, viaStream, claimed, attempts, times, lastRead, id>>
      BY <2>3 DEF Elapse, IdleElapses, Pending, counts
    <3>2. overran \subseteq overran'
      BY <2>3 DEF Elapse
    <3>3. j \in Excused'
      <4> SUFFICES ASSUME ~Refusable(j)
                   PROVE  j \in overran'
        BY DEF Excused, Refusable
      <4>1. j \in overran \/ \E w \in Worker : Working(w, j)
        BY <2>1, <3>1 DEF Orderly, Once, Excused
      <4>. QED
        BY <2>3, <3>2, <4>1 DEF Elapse, Holds, Working
    <3>. QED
      BY <2>1, <3>1, <3>2, <3>3, OrderlyQuiet DEF Excused
  <2>4. CASE UNCHANGED vars
    <3>1. UNCHANGED <<local, pc, job, viaStream, claimed, attempts, times, lastRead, id, idle, overran>>
      BY <2>4 DEF vars, brokerVars, redis, counts
    <3>. QED
      BY <2>1, <3>1, OrderlyQuiet DEF Excused, Refusable
  <2>. QED
    BY <1>3, <2>1, <2>2, <2>3, <2>4, WorkerStepOrderly DEF Next
<1>. QED
  BY <1>1, <1>2, <1>3 DEF StartedOnce

(* A job is started again only after a death, an interrupt, a failed call, *)
(* a fallback, a start that took longer than a claim waits, or if a worker *)
(* may find a malformed token for it.                                      *)
THEOREM RetriesHaveCause == Spec => []RetryHasCause
<1>1. Init => PoolInv /\ StartedOnce
  BY PoolInvInductive, StartedOnceInductive
<1>2. PoolInv /\ StartedOnce /\ [Next]_vars => (PoolInv /\ StartedOnce)'
  BY PoolInvInductive, StartedOnceInductive
<1>3. PoolInv /\ StartedOnce => RetryHasCause
  BY DEF PoolInv, TypeOK, CountTypeOK, StartedOnce, Orderly, Once, Excused, RetryHasCause
<1>. QED
  BY <1>1, <1>2, <1>3, PTL DEF Spec
=============================================================================
