--------------------------- MODULE PipelineProofs ---------------------------
(***************************************************************************)
(* Theorems about GenerationPipeline, for any number of updates handled at *)
(* the same time, and any number of faults and crashes.                    *)
(***************************************************************************)
EXTENDS GenerationPipeline, TLAPS

(* The parts of the state that decide what a charge comes to.              *)
ChatTypeOK ==
  /\ fsm \in {"none", "selecting", "waiting", "custom"} /\ data \in Data
  /\ arrived \in 0..MaxUpdates /\ what \in [Update -> Kind]
  /\ pc \in [Update -> ChatPC] /\ seen \in [Update -> {"none", "selecting", "waiting", "custom"}]
  /\ got \in [Update -> Data] /\ made \in [Update -> Data]
  /\ asked \cup failed \subseteq Update /\ met \in [Update -> SUBSET Update]
  /\ faults \in 0..MaxFaults

MoneyTypeOK ==
  /\ charged \subseteq Update /\ repaid \subseteq Update /\ deaf \in BOOLEAN
  /\ fallback \in BOOLEAN /\ local \subseteq Update
  /\ accepted \subseteq Update /\ answered \subseteq accepted /\ dead \subseteq accepted
  /\ abandoned \subseteq accepted /\ closed \subseteq answered \cup dead \cup abandoned
  /\ delivered \cup unpaid \cup unseen \cup lost \subseteq Update

(* An update that has not arrived has not begun; one is at the status      *)
(* message or at the queue only when it was charged, and one that was      *)
(* charged is there, or over.                                              *)
Order ==
  /\ \A u \in Update : u > arrived => pc[u] = "new"
  /\ \A u \in Update : pc[u] \in {"status", "enqueue"} => u \in charged
  /\ \A u \in charged : pc[u] \in {"status", "enqueue", "end"}

(* Every charge is on its way, in the queue or in the memory of the        *)
(* gateway, or has a cause to be lost; an answer is the media or a refund, *)
(* credited or not.                                                        *)
Kept ==
  /\ \A u \in charged : \/ pc[u] \in {"status", "enqueue"}
                        \/ u \in accepted \cup local \cup lost \cup unseen \cup failed
  /\ answered \subseteq delivered \cup repaid \cup unpaid

Books ==
  /\ accepted \cup local \cup lost \subseteq charged
  /\ delivered \cup repaid \subseteq accepted
  /\ \A u, v \in repaid : u = v

IInv == ChatTypeOK /\ MoneyTypeOK /\ Order /\ Kept /\ Books

LEMMA IInvType == IInv => TypeOK
BY DEF IInv, ChatTypeOK, MoneyTypeOK, TypeOK

LEMMA IInvKept == IInv => NoChargeForgotten
BY DEF IInv, MoneyTypeOK, Order, Kept, NoChargeForgotten, Owed, InWork, Forfeit

LEMMA IInvPaid == IInv => EveryJobPaid
BY DEF IInv, Books, EveryJobPaid

-----------------------------------------------------------------------------
LEMMA InitIInv == Init => IInv
<1>. SUFFICES ASSUME Init PROVE IInv
  OBVIOUS
<1>. USE ChatAssumption DEF Init, ChatInit, Queue!Init
<1>1. ChatTypeOK
  BY DEF ChatTypeOK, Data, NoData, Update, NoUpdate, Kind, ChatPC
<1>2. MoneyTypeOK
  BY DEF MoneyTypeOK
<1>3. Order
  BY DEF Order
<1>4. Kept
  BY DEF Kept
<1>5. Books
  BY DEF Books
<1>. QED
  BY <1>1, <1>2, <1>3, <1>4, <1>5 DEF IInv

-----------------------------------------------------------------------------
(* A step of ChatFlow: an update arrives, or its handler goes on, from     *)
(* before the charge to before the charge or to its end.                   *)
Label == ChatPC \ {"new", "status", "enqueue"}

Moves(u) == \E label \in Label : /\ pc[u] \notin {"new", "deduct", "status", "enqueue", "end"}
                                 /\ pc' = [pc EXCEPT ![u] = label]

LEMMA ArriveType ==
  ASSUME ChatTypeOK, NEW k \in Kind, Arrive(k)
  PROVE  /\ ChatTypeOK' /\ failed' = failed
         /\ arrived' \in Update /\ arrived < arrived'
         /\ \E label \in Label : pc' = [pc EXCEPT ![arrived'] = label]
<1>1. arrived' \in Update /\ arrived' = arrived + 1 /\ arrived < arrived'
  BY ChatAssumption DEF ChatTypeOK, Arrive, Update
<1>2. what' = [what EXCEPT ![arrived'] = k]
  BY DEF Arrive
<1>3. PICK label \in {"clear", "first", "decide"} : pc' = [pc EXCEPT ![arrived'] = label]
  <2>. DEFINE label == CASE k = "cancel" -> "clear"
                         [] k \in Photos \cup {"text"} -> "first"
                         [] OTHER -> "decide"
  <2>1. pc' = [pc EXCEPT ![arrived'] = label]
    BY DEF Arrive, Goto
  <2>2. label \in {"clear", "first", "decide"}
    BY DEF Photos
  <2>. QED
    BY <2>1, <2>2
<1>4. met' \in [Update -> SUBSET Update]
  BY <1>1 DEF ChatTypeOK, Arrive, Running
<1>5. UNCHANGED <<chat, seen, got, asked, made, failed, faults>>
  BY DEF Arrive
<1>6. ChatTypeOK'
  BY <1>1, <1>2, <1>3, <1>4, <1>5 DEF ChatTypeOK, chat, ChatPC, Update
<1>7. label \in Label
  BY DEF ChatPC, Label
<1>. QED
  BY <1>1, <1>3, <1>5, <1>6, <1>7

LEMMA GenerateType ==
  ASSUME ChatTypeOK, NEW u \in Update, NEW photo \in Update \cup {NoUpdate},
         NEW preset \in Update \cup {NoUpdate}, Generate(u, photo, preset)
  PROVE  /\ asked' \subseteq Update /\ made' \in [Update -> Data]
         /\ pc' = [pc EXCEPT ![u] = "clear"]
<1>1. [photo |-> photo, preset |-> preset] \in Data
  BY DEF Data
<1>. QED
  BY <1>1 DEF ChatTypeOK, Generate, Goto

LEMMA HandlerType ==
  ASSUME ChatTypeOK, NEW u \in Update, HandlerStep(u)
  PROVE  ChatTypeOK' /\ Moves(u) /\ UNCHANGED <<arrived, failed>>
<1>. USE DEF ChatTypeOK, Moves, Goto, Proceed, Decides, ChatPC, Label, chat, Data
<1>1. CASE FirstRead(u)
  BY <1>1 DEF FirstRead
<1>2. CASE PhotoUploaded(u)
  <2>1. NoData \in Data /\ got[u].preset \in Update \cup {NoUpdate}
    BY DEF NoData
  <2>2. CASE \E preset \in {got[u].preset, NoUpdate} : Generate(u, u, preset) /\ UNCHANGED seen
    BY <1>2, <2>1, <2>2, GenerateType DEF PhotoUploaded
  <2>3. CASE Proceed(u, "read") /\ seen' = [seen EXCEPT ![u] = fsm]
    BY <1>2, <2>1, <2>3 DEF PhotoUploaded
  <2>. QED
    BY <1>2, <2>2, <2>3 DEF PhotoUploaded
<1>3. CASE PresetSelected(u)
  <2>1. CASE Generate(u, data.photo, u)
    BY <1>3, <2>1, GenerateType DEF PresetSelected
  <2>2. CASE Proceed(u, "end")
    BY <1>3, <2>2 DEF PresetSelected
  <2>3. CASE Proceed(u, "read")
    BY <1>3, <2>3 DEF PresetSelected
  <2>. QED
    BY <1>3, <2>1, <2>2, <2>3 DEF PresetSelected
<1>4. CASE CustomSelected(u)
  BY <1>4 DEF CustomSelected
<1>5. CASE TextSent(u)
  <2>1. data.photo \in Update \cup {NoUpdate} /\ NoUpdate \in Update \cup {NoUpdate}
    OBVIOUS
  <2>2. CASE Generate(u, data.photo, NoUpdate)
    BY <1>5, <2>1, <2>2, GenerateType DEF TextSent
  <2>3. CASE Proceed(u, "end")
    BY <1>5, <2>3 DEF TextSent
  <2>. QED
    BY <1>5, <2>2, <2>3 DEF TextSent
<1>6. CASE ClearState(u)
  BY <1>6 DEF ClearState
<1>7. CASE ClearData(u)
  BY <1>7 DEF ClearData, NoData
<1>8. CASE ReadForUpdate(u)
  BY <1>8 DEF ReadForUpdate, Updated
<1>9. CASE WriteData(u)
  BY <1>9 DEF WriteData, NoData
<1>10. CASE SetState(u)
  BY <1>10 DEF SetState
<1>. QED
  BY <1>1, <1>2, <1>3, <1>4, <1>5, <1>6, <1>7, <1>8, <1>9, <1>10 DEF HandlerStep

LEMMA ArriveKeeps ==
  ASSUME IInv, NEW k \in Kind, Arrive(k), UNCHANGED Rest
  PROVE  IInv'
<1>. USE DEF IInv
<1>1. ChatTypeOK' /\ failed' = failed /\ arrived' \in Update /\ arrived < arrived'
  BY ArriveType
<1>2. PICK label \in Label : pc' = [pc EXCEPT ![arrived'] = label]
  BY ArriveType
<1>3. UNCHANGED <<account, broker, queue, deaf, fates>>
  BY DEF Rest
<1>4. pc[arrived'] = "new" /\ arrived' \notin charged /\ pc \in [Update -> ChatPC]
  BY <1>1 DEF Order, ChatTypeOK
<1>5. MoneyTypeOK' /\ Books'
  BY <1>3 DEF MoneyTypeOK, Books, account, broker, queue, fates
<1>6. Order'
  <2>1. \A u \in Update : u > arrived' => u > arrived /\ u # arrived'
    BY <1>1 DEF ChatTypeOK, Update
  <2>. QED
    BY <1>2, <1>3, <1>4, <2>1 DEF Order, MoneyTypeOK, Label, account
<1>7. Kept'
  BY <1>1, <1>2, <1>3, <1>4 DEF Kept, MoneyTypeOK, account, broker, queue, fates
<1>. QED
  BY <1>1, <1>5, <1>6, <1>7

LEMMA HandlerKeeps ==
  ASSUME IInv, NEW u \in Update, HandlerStep(u), UNCHANGED Rest
  PROVE  IInv'
<1>. USE DEF IInv
<1>1. ChatTypeOK' /\ Moves(u) /\ UNCHANGED <<arrived, failed>>
  BY HandlerType
<1>2. PICK label \in Label : pc' = [pc EXCEPT ![u] = label]
  BY <1>1 DEF Moves
<1>3. UNCHANGED <<account, broker, queue, deaf, fates>>
  BY DEF Rest
<1>4. u \notin charged /\ pc \in [Update -> ChatPC]
  BY <1>1 DEF Moves, Order, ChatTypeOK
<1>5. MoneyTypeOK' /\ Books'
  BY <1>3 DEF MoneyTypeOK, Books, account, broker, queue, fates
<1>6. Order'
  BY <1>1, <1>2, <1>3, <1>4 DEF Order, MoneyTypeOK, Moves, Label, account
<1>7. Kept'
  BY <1>1, <1>2, <1>3, <1>4 DEF Kept, MoneyTypeOK, account, broker, queue, fates
<1>. QED
  BY <1>1, <1>5, <1>6, <1>7

-----------------------------------------------------------------------------
LEMMA RaiseKeeps ==
  ASSUME IInv, NEW u \in Update, Fail(u), UNCHANGED Rest
  PROVE  IInv'
<1>. USE DEF IInv
<1>1. /\ pc[u] \notin {"new", "deduct", "end"} /\ pc' = [pc EXCEPT ![u] = "end"]
      /\ failed' = failed \cup {u} /\ pc \in [Update -> ChatPC] /\ arrived' = arrived
  BY DEF Fail, Raise, Running, Goto, ChatTypeOK
<1>2. UNCHANGED <<account, broker, queue, deaf, fates>>
  BY DEF Rest
<1>3. ChatTypeOK'
  BY <1>1, ChatAssumption DEF Fail, Raise, ChatTypeOK, ChatPC, chat
<1>4. MoneyTypeOK' /\ Books'
  BY <1>2 DEF MoneyTypeOK, Books, account, broker, queue, fates
<1>5. Order'
  BY <1>1, <1>2 DEF Order, MoneyTypeOK, account
<1>6. Kept'
  BY <1>1, <1>2 DEF Kept, MoneyTypeOK, account, broker, queue, fates
<1>. QED
  BY <1>3, <1>4, <1>5, <1>6

LEMMA CrashKeeps ==
  ASSUME IInv, Crash
  PROVE  IInv'
<1>. USE DEF IInv
<1>1. /\ failed' = failed \cup Running /\ faults' \in 0..MaxFaults
      /\ pc' = [u \in Update |-> IF u \in Running THEN "end" ELSE pc[u]]
      /\ fallback' = FALSE /\ local' = {} /\ lost' = lost \cup local
      /\ UNCHANGED <<fsm, data, arrived, what, seen, got, asked, made, met,
                     account, queue, deaf, delivered, unpaid, unseen>>
  BY ChatAssumption DEF Crash, Fault, ChatTypeOK, chat
<1>2. ChatTypeOK'
  BY <1>1 DEF ChatTypeOK, ChatPC, Running
<1>3. MoneyTypeOK' /\ Books'
  BY <1>1 DEF MoneyTypeOK, Books, account, queue
<1>4. Order'
  BY <1>1 DEF Order, MoneyTypeOK, Running, account
<1>5. Kept'
  BY <1>1 DEF Kept, Order, MoneyTypeOK, Running, account, queue
<1>. QED
  BY <1>2, <1>3, <1>4, <1>5

LEMMA SendStatusKeeps ==
  ASSUME IInv, NEW u \in Update, SendStatus(u)
  PROVE  IInv'
<1>. USE DEF IInv
<1>1. /\ pc[u] = "status" /\ pc' = [pc EXCEPT ![u] = "enqueue"] /\ pc \in [Update -> ChatPC]
      /\ UNCHANGED <<fsm, data, arrived, what, seen, got, asked, made, met,
                     failed, faults, account, broker, queue, deaf, fates>>
  BY DEF SendStatus, Calls, Goto, ChatTypeOK, chat, Rest
<1>2. ChatTypeOK'
  BY <1>1 DEF ChatTypeOK, ChatPC
<1>3. MoneyTypeOK' /\ Books'
  BY <1>1 DEF MoneyTypeOK, Books, account, broker, queue, fates
<1>4. Order' /\ Kept'
  BY <1>1 DEF Order, Kept, MoneyTypeOK, account, broker, queue, fates
<1>. QED
  BY <1>2, <1>3, <1>4

LEMMA DeductKeeps ==
  ASSUME IInv, NEW u \in Update, Deduct(u)
  PROVE  IInv'
<1>. USE DEF IInv
<1>1. /\ pc[u] = "deduct" /\ pc \in [Update -> ChatPC]
      /\ UNCHANGED <<fsm, data, arrived, what, seen, got, asked, made, met,
                     failed, repaid, broker, queue, deaf, delivered, unpaid, lost>>
  BY DEF Deduct, Calls, ChatTypeOK, chat
<1>2. faults' \in 0..MaxFaults
  BY ChatAssumption DEF Deduct, Fault, ChatTypeOK
<1>3. u \notin charged
  BY <1>1 DEF Order
<1>4. PICK label \in {"status", "end"} : pc' = [pc EXCEPT ![u] = label]
  BY DEF Deduct, Goto
<1>5. ChatTypeOK'
  BY <1>1, <1>2, <1>4 DEF ChatTypeOK, ChatPC
<1>6. CASE /\ UNCHANGED <<charged, unseen>>
           /\ pc' = [pc EXCEPT ![u] = "end"]
  <2>1. MoneyTypeOK' /\ Books'
    BY <1>1, <1>6 DEF MoneyTypeOK, Books, broker, queue
  <2>2. Order' /\ Kept'
    BY <1>1, <1>3, <1>6 DEF Order, Kept, MoneyTypeOK, broker, queue
  <2>. QED
    BY <1>5, <2>1, <2>2
<1>7. CASE /\ charged' = charged \cup {u}
           /\ \/ pc' = [pc EXCEPT ![u] = "status"] /\ unseen' = unseen
              \/ pc' = [pc EXCEPT ![u] = "end"] /\ unseen' = unseen \cup {u}
  <2>1. MoneyTypeOK' /\ Books'
    BY <1>1, <1>7 DEF MoneyTypeOK, Books, broker, queue
  <2>2. Order' /\ Kept'
    BY <1>1, <1>3, <1>7 DEF Order, Kept, MoneyTypeOK, broker, queue
  <2>. QED
    BY <1>5, <2>1, <2>2
<1>. QED
  BY <1>6, <1>7 DEF Deduct, Goto

LEMMA EnqueueKeeps ==
  ASSUME IInv, NEW u \in Update, EnqueueJob(u)
  PROVE  IInv'
<1>. USE DEF IInv
<1>1. /\ pc[u] = "enqueue" /\ pc' = [pc EXCEPT ![u] = "end"] /\ pc \in [Update -> ChatPC]
      /\ UNCHANGED <<fsm, data, arrived, what, seen, got, asked, made, met,
                     failed, account, deaf, fates>>
  BY DEF EnqueueJob, Calls, Goto, ChatTypeOK, chat
<1>2. faults' \in 0..MaxFaults
  BY ChatAssumption DEF EnqueueJob, Fault, ChatTypeOK
<1>3. u \in charged
  BY <1>1 DEF Order
<1>4. /\ accepted' \in {accepted, accepted \cup {u}} /\ local' \in {local, local \cup {u}}
      /\ u \in accepted' \cup local' /\ fallback' \in BOOLEAN
      /\ UNCHANGED <<answered, dead, abandoned, closed>>
  BY DEF EnqueueJob, Queue!Accept, MoneyTypeOK, broker, queue
<1>5. ChatTypeOK'
  BY <1>1, <1>2 DEF ChatTypeOK, ChatPC
<1>6. MoneyTypeOK' /\ Books'
  BY <1>1, <1>3, <1>4 DEF MoneyTypeOK, Books, account, fates
<1>7. Order' /\ Kept'
  BY <1>1, <1>4 DEF Order, Kept, MoneyTypeOK, account, fates
<1>. QED
  BY <1>5, <1>6, <1>7

-----------------------------------------------------------------------------
Chatter == <<fsm, data, arrived, what, seen, got, asked, made, met>>

WorkStep(u) == Deliver(u) \/ Refund(u) \/ GiveUp(u) \/ Leave(u) \/ Interrupt(u)

LEMMA WorkType ==
  ASSUME IInv, (\E u \in Update : WorkStep(u)) \/ FallBack
  PROVE  /\ ChatTypeOK' /\ Order' /\ deaf' \in BOOLEAN
         /\ UNCHANGED <<Chatter, pc, failed>>
         /\ UNCHANGED <<charged, fallback, local, unseen, lost, accepted>>
<1>. USE DEF IInv
<1>1. /\ UNCHANGED <<fsm, data, arrived, what, pc, seen, got, asked, made, failed, met>>
      /\ UNCHANGED <<charged, fallback, local, unseen, lost, accepted>>
  BY DEF WorkStep, FallBack, Deliver, Refund, GiveUp, Leave, Interrupt, Outcome, Works, chat, handler,
         broker, queue, Queue!Answer, Queue!Bury, Queue!Close, Queue!Abandon
<1>2. faults' \in 0..MaxFaults /\ deaf' \in BOOLEAN
  <2>1. (faults' = faults \/ Fault) /\ (deaf' = deaf \/ deaf' = TRUE)
    BY DEF WorkStep, FallBack, Deliver, Refund, GiveUp, Leave, Interrupt, Outcome
  <2>2. Fault => faults' \in 0..MaxFaults
    BY ChatAssumption DEF Fault, ChatTypeOK
  <2>. QED
    BY <2>1, <2>2 DEF ChatTypeOK, MoneyTypeOK
<1>3. ChatTypeOK' /\ Order'
  BY <1>1, <1>2 DEF ChatTypeOK, Order
<1>. QED
  BY <1>1, <1>2, <1>3 DEF Chatter

(* What an answer adds to the books.                                       *)
LEMMA AnswerKeeps ==
  ASSUME MoneyTypeOK, Books, NEW u \in accepted, Sent(u) \/ Refunded(u)
  PROVE  /\ delivered' \subseteq delivered \cup {u} /\ repaid' \subseteq repaid \cup {u}
         /\ unpaid' \subseteq unpaid \cup {u}
         /\ delivered \cup repaid \cup unpaid \cup {u} \subseteq (delivered \cup repaid \cup unpaid)'
         /\ \A v, w \in repaid' : v = w
BY DEF MoneyTypeOK, Books, Sent, Refunded

LEMMA WorkKeeps ==
  ASSUME IInv, NEW u \in Update, WorkStep(u)
  PROVE  IInv'
<1>. USE DEF IInv
<1>1. /\ ChatTypeOK' /\ Order' /\ deaf' \in BOOLEAN /\ UNCHANGED <<pc, failed>>
      /\ UNCHANGED <<charged, fallback, local, unseen, lost, accepted>>
  BY WorkType DEF Chatter
<1>2. CASE Deliver(u) \/ Refund(u)
  <2>1. /\ u \in accepted /\ answered' = answered \cup {u} /\ (Sent(u) \/ Refunded(u))
        /\ UNCHANGED <<dead, abandoned, closed>>
    BY <1>2 DEF Deliver, Refund, Queue!Answer
  <2>. QED
    BY <1>1, <2>1, AnswerKeeps DEF MoneyTypeOK, Kept, Books
<1>3. CASE Interrupt(u)
  <2>1. /\ u \in accepted /\ abandoned' = abandoned \cup {u} /\ UNCHANGED <<dead, closed>>
        /\ \/ UNCHANGED <<answered, delivered, repaid, unpaid>>
           \/ answered' = answered \cup {u} /\ (Sent(u) \/ Refunded(u))
    BY <1>3 DEF Interrupt, Queue!Abandon
  <2>2. CASE UNCHANGED <<answered, delivered, repaid, unpaid>>
    BY <1>1, <2>1, <2>2 DEF MoneyTypeOK, Kept, Books
  <2>3. CASE answered' = answered \cup {u} /\ (Sent(u) \/ Refunded(u))
    BY <1>1, <2>1, <2>3, AnswerKeeps DEF MoneyTypeOK, Kept, Books
  <2>. QED
    BY <2>1, <2>2, <2>3
<1>4. CASE GiveUp(u)
  BY <1>1, <1>4 DEF GiveUp, Queue!Bury, MoneyTypeOK, Kept, Books
<1>5. CASE Leave(u)
  BY <1>1, <1>5 DEF Leave, Queue!Close, MoneyTypeOK, Kept, Books
<1>. QED
  BY <1>2, <1>3, <1>4, <1>5 DEF WorkStep

LEMMA FallBackKeeps ==
  ASSUME IInv, FallBack
  PROVE  IInv'
<1>. USE DEF IInv
<1>1. /\ ChatTypeOK' /\ Order' /\ deaf' \in BOOLEAN /\ UNCHANGED <<pc, failed>>
      /\ UNCHANGED <<charged, fallback, local, unseen, lost, accepted>>
  BY WorkType DEF Chatter
<1>2. UNCHANGED <<queue, delivered, repaid, unpaid>>
  BY DEF FallBack
<1>. QED
  BY <1>1, <1>2 DEF MoneyTypeOK, Kept, Books, queue

LEMMA NextIInv == IInv /\ [Next]_vars => IInv'
<1>. SUFFICES ASSUME IInv, [Next]_vars PROVE IInv'
  OBVIOUS
<1>1. CASE \E k \in Kind : Arrive(k) /\ UNCHANGED Rest
  BY <1>1, ArriveKeeps
<1>2. CASE \E u \in Update : HandlerStep(u) /\ UNCHANGED Rest
  BY <1>2, HandlerKeeps
<1>3. CASE \E u \in Update : Fail(u) /\ UNCHANGED Rest
  BY <1>3, RaiseKeeps
<1>4. CASE \E u \in Update : GenerationStep(u)
  BY <1>4, DeductKeeps, SendStatusKeeps, EnqueueKeeps DEF GenerationStep
<1>5. CASE \E u \in Update : WorkStep(u)
  BY <1>5, WorkKeeps
<1>6. CASE Crash
  BY <1>6, CrashKeeps
<1>7. CASE UNCHANGED vars
  BY <1>7 DEF vars, chatVars, chat, handler, account, broker, queue, fates, IInv,
              Rest, ChatTypeOK, MoneyTypeOK, Order, Kept, Books
<1>8. CASE FallBack
  BY <1>8, FallBackKeeps
<1>. QED
  BY <1>1, <1>2, <1>3, <1>4, <1>5, <1>6, <1>7, <1>8 DEF Next, WorkStep

-----------------------------------------------------------------------------
LEMMA Inductive == Spec => []IInv
BY InitIInv, NextIInv, PTL DEF Spec

(* Type correctness of the generation pipeline.                            *)
THEOREM TypeCorrect == Spec => []TypeOK
BY Inductive, IInvType, PTL

(* Nobody pays for nothing, whatever the handlers, the queue and the       *)
(* deaths of the gateway do: a generation that was charged for and brought *)
(* neither media nor a credited refund is in work, or is lost for a cause  *)
(* that the invariant names, a refund that added nothing among them        *)
(* (bot/handlers/common.py:84-134, worker.py:264-320).                     *)
THEOREM ChargesAreKept == Spec => []NoChargeForgotten
BY Inductive, IInvKept, PTL

(* No generation is free: a job in the queue or in the memory of the       *)
(* gateway, media and a credited refund belong to a generation that was    *)
(* charged for, and at most one refund was credited                        *)
(* (bot/handlers/common.py:84-106).                                        *)
THEOREM JobsArePaid == Spec => []EveryJobPaid
BY Inductive, IInvPaid, PTL

-----------------------------------------------------------------------------
(***************************************************************************)
(* What the handlers of one chat know of each other, and of the state and  *)
(* the data they share.                                                    *)
(***************************************************************************)

(* The stage a handler is at and what it has decided.                      *)
Stage ==
  /\ charged \subseteq asked
  /\ \A u \in Update :
       /\ pc[u] # "new" <=> u <= arrived
       /\ pc[u] \in {"new", "first", "decide", "read", "write", "turn"} => u \notin asked
       /\ pc[u] \in {"deduct", "status", "enqueue"} => u \in asked
       /\ pc[u] = "wipe" /\ what[u] # "cancel" => u \in asked
       /\ pc[u] = "clear" /\ what[u] # "cancel" => u \in asked
       /\ pc[u] \in {"read", "write"} => what[u] \in {"photo", "preset"}
       /\ pc[u] = "turn" => what[u] \in {"photo", "preset", "custom"}
       /\ u \notin asked => made[u] = NoData

(* A handler that runs has met every update that arrived after its own.    *)
Overlap ==
  /\ \A u, v \in Update : v \in met[u] => u <= arrived /\ v <= arrived
  /\ \A u \in Running, v \in Update : u < v /\ v <= arrived => v \in met[u] /\ u \in met[v]

(* A photo or a preset that is kept, read or used by another handler has   *)
(* been written by its own, which asked for nothing.                       *)
Written(w, kind) == what[w] = kind /\ pc[w] \in {"turn", "end"} /\ w \notin asked

Known(d, u) ==
  \A w \in Update \ {u} : /\ d.photo = w => Written(w, "photo")
                          /\ d.preset = w => Written(w, "preset")

Sources ==
  /\ Known(data, NoUpdate)
  /\ \A u \in Update :
       /\ Known(got[u], u) /\ Known(made[u], u)
       /\ pc[u] = "write" => \/ what[u] = "photo" /\ got[u] = [photo |-> u, preset |-> NoUpdate]
                             \/ what[u] = "preset" /\ got[u].preset = u /\ got[u].photo # u

(* Once a generation has cleared the data, its preset is gone from it for  *)
(* good; its photo comes back only with a preset's handler that had read   *)
(* it.  Who still works with either was at work before.                    *)
Cleared(u) == u \in charged \/ pc[u] \in {"deduct", "status", "enqueue"}

Together(u, v) == v \in met[u] /\ u \in met[v]

MetChoice(u) == \E w \in met[u] : what[w] = "preset"

PresetOnce ==
  \A u \in Update : Cleared(u) /\ made[u].preset # NoUpdate =>
    /\ data.preset # made[u].preset
    /\ \A v \in Update :
         what[v] \in Photos /\ pc[v] = "decide" /\ got[v].preset = made[u].preset => Together(u, v)
    /\ \A v \in asked \ {u} :
         (v \in charged \/ pc[v] # "end") /\ made[v].preset = made[u].preset => Together(u, v)

PhotoOnce ==
  \A u \in Update : Cleared(u) /\ made[u].photo # NoUpdate =>
    /\ data.photo = made[u].photo => MetChoice(u)
    /\ \A w \in Update : pc[w] = "write" /\ got[w].photo = made[u].photo => MetChoice(u)
    /\ \A v \in asked : u < v /\ made[v].photo = made[u].photo => v \in met[u] \/ MetChoice(u)

(* A chat whose updates never overlapped: the one handler at work has seen *)
(* the state and the data as they are, and changed what its stage says.    *)
Match ==
  /\ fsm = "waiting" => data.preset # NoUpdate
  /\ fsm = "selecting" => data.photo # NoUpdate /\ data.preset = NoUpdate
  /\ fsm = "none" => data = NoData

AloneAt(u) ==
  /\ pc[u] \in {"first", "decide", "read", "write", "clear"} => Match
  /\ pc[u] = "decide" /\ what[u] \in Photos => got[u] = data
  /\ pc[u] \in {"read", "write"} /\ what[u] = "photo" => seen[u] = fsm
  /\ pc[u] = "write" => got[u] = Updated(u, data)
  /\ pc[u] = "wipe" => fsm = "none"
  /\ pc[u] \in {"deduct", "status", "enqueue"} => fsm = "none" /\ data = NoData
  /\ pc[u] = "turn" => CASE what[u] = "photo" -> data = [photo |-> u, preset |-> NoUpdate]
                         [] what[u] = "preset" -> data.preset = u
                         [] OTHER -> Match

Quiet == Alone(1, arrived) => /\ Running = {} => Match
                              /\ \A u \in Update : AloneAt(u)

(* Since the preset that is kept was chosen, nothing that is over has      *)
(* cleared or replaced it.                                                 *)
Bystander(v) == what[v] \in {"custom", "lapsed", "text"} /\ v \notin asked

LastChoice ==
  Alone(1, arrived) /\ data.preset # NoUpdate =>
    \A v \in Update : data.preset < v /\ pc[v] = "end" => Bystander(v)

-----------------------------------------------------------------------------
(* What the steps do to all that this invariant speaks of.                 *)

(* An update arrives.                                                      *)
Comes(k, label) ==
  /\ arrived' = arrived + 1 /\ arrived' \in Update
  /\ pc[arrived'] = "new" /\ pc' = [pc EXCEPT ![arrived'] = label]
  /\ label \in {"clear", "first", "decide"} /\ (label = "clear" <=> k = "cancel")
  /\ label = "decide" => k \notin Photos
  /\ what' = [what EXCEPT ![arrived'] = k]
  /\ met' = [u \in Update |-> IF u = arrived' THEN Running
                              ELSE IF u \in Running THEN met[u] \cup {arrived'} ELSE met[u]]
  /\ UNCHANGED <<fsm, data, seen, got, asked, made, failed, charged>>

(* A handler decides: it asks for a generation, or goes on without one.    *)
Others(u) == /\ \A v \in Update \ {u} : seen'[v] = seen[v]
             /\ got' \in {got, [got EXCEPT ![u] = NoData]}
             /\ UNCHANGED <<fsm, data, arrived, what, met, failed, charged>>

Asks(u, m) ==
  /\ pc[u] = "decide" /\ pc' = [pc EXCEPT ![u] = "clear"] /\ Others(u)
  /\ asked' = asked \cup {u} /\ made' = [made EXCEPT ![u] = m] /\ m \in Data
  /\ \/ what[u] \in Photos /\ m.photo = u /\ m.preset \in {got[u].preset, NoUpdate}
     \/ what[u] = "preset" /\ m.photo = data.photo /\ m.preset = u
     \/ what[u] = "text" /\ m.photo = data.photo /\ m.preset = NoUpdate

Passes(u, label) ==
  /\ pc[u] = "decide" /\ pc' = [pc EXCEPT ![u] = label] /\ Others(u)
  /\ UNCHANGED <<asked, made>>
  /\ \/ what[u] = "photo" /\ label = "read" /\ seen'[u] = fsm
     \/ what[u] = "preset" /\ label = "read"
     \/ what[u] = "custom" /\ label = "turn"
     \/ what[u] \in {"lapsed", "text"} /\ label = "end"

(* run_generation_job goes on; handlers raise or die.                      *)
Advances(u, label) ==
  /\ pc[u] \in {"deduct", "status", "enqueue"} /\ pc' = [pc EXCEPT ![u] = label]
  /\ label \in {"status", "enqueue", "end"}
  /\ charged' \in {charged, charged \cup {u}}
  /\ UNCHANGED <<Chatter, failed>>

Stops(S) ==
  /\ S \subseteq Running /\ failed' = failed \cup S
  /\ pc' = [u \in Update |-> IF u \in S THEN "end" ELSE pc[u]]
  /\ UNCHANGED <<Chatter, charged>>

Chats(u) ==
  /\ \/ FirstRead(u) \/ ClearState(u) \/ ClearData(u)
     \/ ReadForUpdate(u) \/ WriteData(u) \/ SetState(u)
  /\ UNCHANGED charged

Effect ==
  \/ \E k \in Kind, label \in ChatPC : Comes(k, label)
  \/ \E u \in Update : \/ Chats(u)
                       \/ \E m \in Data : Asks(u, m)
                       \/ \E label \in ChatPC : Passes(u, label) \/ Advances(u, label)
  \/ \E S \in SUBSET Update : Stops(S)
  \/ UNCHANGED <<Chatter, pc, failed, charged>>

LEMMA Effects ==
  ASSUME IInv, [Next]_vars
  PROVE  Effect
<1>. USE DEF IInv, ChatTypeOK
<1>1. ASSUME NEW k \in Kind, Arrive(k), UNCHANGED Rest
      PROVE  \E label \in ChatPC : Comes(k, label)
  <2>. DEFINE label == CASE k = "cancel" -> "clear"
                         [] k \in Photos \cup {"text"} -> "first"
                         [] OTHER -> "decide"
  <2>1. /\ label \in {"clear", "first", "decide"} /\ (label = "clear" <=> k = "cancel")
        /\ label = "decide" => k \notin Photos
    BY DEF Photos
  <2>2. arrived' \in Update /\ arrived' > arrived
    BY <1>1, ArriveType
  <2>3. pc[arrived'] = "new"
    BY <2>2 DEF Order
  <2>4. pc' = [pc EXCEPT ![arrived'] = label]
    BY <1>1 DEF Arrive, Goto
  <2>5. Comes(k, label)
    <3>. HIDE DEF label
    <3>. QED
      BY <1>1, <2>1, <2>2, <2>3, <2>4 DEF Comes, Arrive, chat, Rest, account
  <2>6. label \in ChatPC
    BY <2>1 DEF ChatPC
  <2>. HIDE DEF label
  <2>. QED
    BY <2>5, <2>6
<1>2. ASSUME NEW u \in Update, HandlerStep(u), UNCHANGED Rest
      PROVE  \/ Chats(u) \/ \E m \in Data : Asks(u, m)
             \/ \E label \in ChatPC : Passes(u, label)
  <2>. USE DEF Others, Data, chat, Proceed, Goto, Decides
  <2>0. charged' = charged
    BY <1>2 DEF Rest, account
  <2>1. CASE PhotoUploaded(u)
    <3>1. ASSUME NEW m \in {got[u].preset, NoUpdate}, Generate(u, u, m), UNCHANGED seen
          PROVE  Asks(u, [photo |-> u, preset |-> m])
      BY <2>0, <2>1, <3>1 DEF Asks, Generate, PhotoUploaded
    <3>2. CASE what[u] = "photo" /\ Proceed(u, "read") /\ seen' = [seen EXCEPT ![u] = fsm]
      BY <2>0, <2>1, <3>2 DEF Passes, PhotoUploaded, ChatPC
    <3>3. ASSUME NEW m \in {got[u].preset, NoUpdate}
          PROVE  [photo |-> u, preset |-> m] \in Data
      OBVIOUS
    <3>. QED
      BY <2>1, <3>1, <3>2, <3>3 DEF PhotoUploaded
  <2>2. CASE PresetSelected(u)
    <3>1. CASE what[u] = "lapsed" /\ Proceed(u, "end")
      BY <2>0, <2>2, <3>1 DEF Passes, PresetSelected, ChatPC
    <3>2. CASE what[u] = "preset" /\ Generate(u, data.photo, u)
      <4>1. Asks(u, [photo |-> data.photo, preset |-> u])
        BY <2>0, <2>2, <3>2 DEF Asks, PresetSelected, Generate
      <4>. QED
        BY <4>1
    <3>3. CASE what[u] = "preset" /\ Proceed(u, "read")
      BY <2>0, <2>2, <3>3 DEF Passes, PresetSelected, ChatPC
    <3>. QED
      BY <2>2, <3>1, <3>2, <3>3 DEF PresetSelected
  <2>3. CASE CustomSelected(u)
    BY <2>0, <2>3 DEF CustomSelected, Passes, ChatPC
  <2>4. CASE TextSent(u)
    <3>1. CASE Generate(u, data.photo, NoUpdate)
      <4>1. Asks(u, [photo |-> data.photo, preset |-> NoUpdate])
        BY <2>0, <2>4, <3>1 DEF Asks, TextSent, Generate
      <4>. QED
        BY <4>1
    <3>2. CASE Proceed(u, "end")
      BY <2>0, <2>4, <3>2 DEF Passes, TextSent, ChatPC
    <3>. QED
      BY <2>4, <3>1, <3>2 DEF TextSent
  <2>. QED
    BY <1>2, <2>0, <2>1, <2>2, <2>3, <2>4 DEF HandlerStep, Chats
<1>3. ASSUME NEW u \in Update, GenerationStep(u)
      PROVE  \E label \in ChatPC : Advances(u, label)
  BY <1>3 DEF GenerationStep, Deduct, SendStatus, EnqueueJob, Calls, Goto, Advances, Chatter,
              chat, account, ChatPC, Rest
<1>4. ASSUME NEW u \in Update, Fail(u), UNCHANGED Rest
      PROVE  Stops({u})
  BY <1>4 DEF Fail, Raise, Running, Goto, Stops, Chatter, chat, Rest, account
<1>5. ASSUME Crash
      PROVE  Stops(Running)
  BY <1>5 DEF Crash, Stops, Chatter, chat, account
<1>6. ASSUME (\E u \in Update : WorkStep(u)) \/ FallBack
      PROVE  UNCHANGED <<Chatter, pc, failed, charged>>
  BY <1>6, WorkType
<1>7. ASSUME UNCHANGED vars
      PROVE  UNCHANGED <<Chatter, pc, failed, charged>>
  BY <1>7 DEF vars, chatVars, chat, handler, account, Chatter, Rest
<1>. QED
  BY <1>1, <1>2, <1>3, <1>4, <1>5, <1>6, <1>7 DEF Next, Effect, Running, WorkStep

-----------------------------------------------------------------------------
LEMMA StageKept ==
  ASSUME ChatTypeOK, Stage, Effect
  PROVE  Stage'
<1>. USE DEF ChatTypeOK, Stage, Chatter, NoData
<1>0. \A u \in Update : u \in Nat /\ arrived \in Nat
  BY ChatAssumption DEF Update
<1>1. ASSUME NEW k \in Kind, NEW label \in ChatPC, Comes(k, label)
      PROVE  Stage'
  BY <1>0, <1>1 DEF Comes
<1>2. ASSUME NEW u \in Update, Chats(u)
      PROVE  Stage'
  <2>. USE DEF Goto, chat
  <2>1. CASE FirstRead(u)
    BY <1>2, <2>1 DEF FirstRead, Chats
  <2>2. CASE ClearState(u)
    BY <1>2, <2>2 DEF ClearState, Chats
  <2>3. CASE ClearData(u)
    BY <1>2, <2>3 DEF ClearData, Chats
  <2>4. CASE ReadForUpdate(u)
    BY <1>2, <2>4 DEF ReadForUpdate, Chats
  <2>5. CASE WriteData(u)
    BY <1>2, <2>5 DEF WriteData, Chats
  <2>6. CASE SetState(u)
    BY <1>2, <2>6 DEF SetState, Chats
  <2>. QED
    BY <1>2, <2>1, <2>2, <2>3, <2>4, <2>5, <2>6 DEF Chats
<1>3. ASSUME NEW u \in Update, NEW m \in Data, Asks(u, m)
      PROVE  Stage'
  BY <1>3 DEF Asks, Others
<1>4. ASSUME NEW u \in Update, NEW label \in ChatPC, Passes(u, label)
      PROVE  Stage'
  BY <1>4 DEF Passes, Others
<1>5. ASSUME NEW u \in Update, NEW label \in ChatPC, Advances(u, label)
      PROVE  Stage'
  BY <1>5 DEF Advances
<1>6. ASSUME NEW S \in SUBSET Update, Stops(S)
      PROVE  Stage'
  BY <1>6 DEF Stops, Running
<1>7. CASE UNCHANGED <<Chatter, pc, failed, charged>>
  BY <1>7
<1>. QED
  BY <1>1, <1>2, <1>3, <1>4, <1>5, <1>6, <1>7 DEF Effect

(* Handlers come and go one at a time.                                     *)
LEMMA OverlapKept ==
  ASSUME ChatTypeOK, Stage, Overlap, Effect
  PROVE  Overlap'
<1>. USE DEF ChatTypeOK, Overlap, Chatter, Running
<1>0. \A u \in Update : u \in Nat /\ arrived \in Nat
  BY ChatAssumption DEF Update
<1>1. ASSUME NEW k \in Kind, NEW label \in ChatPC, Comes(k, label)
      PROVE  Overlap'
  <2>. DEFINE new == arrived'
  <2>1. new \in Update /\ new = arrived + 1 /\ new \notin Running
    BY <1>1 DEF Comes
  <2>2. /\ Running' \subseteq Update /\ Running \subseteq Update
        /\ \A v \in Running' : v \in Running \/ v = new
        /\ \A v \in Running : v <= arrived
    BY <1>1 DEF Comes, Stage
  <2>. HIDE DEF Running
  <2>3. \A v \in Update : /\ v = new => met'[v] = Running
                          /\ v # new /\ v \in Running => met'[v] = met[v] \cup {new}
                          /\ v # new /\ v \notin Running => met'[v] = met[v]
    BY <1>1, <2>1 DEF Comes
  <2>. HIDE DEF new
  <2>4. ASSUME NEW u \in Update, NEW v \in Update, v \in met'[u]
        PROVE  u <= new /\ v <= new
    <3>1. ASSUME u = new PROVE v \in Running
      BY <2>3, <2>4, <3>1
    <3>2. ASSUME u # new PROVE v \in met[u] \/ (u \in Running /\ v = new)
      <4>1. CASE u \in Running
        <5>1. met'[u] = met[u] \cup {new}
          BY <2>3, <3>2, <4>1
        <5>. QED
          BY <2>4, <4>1, <5>1
      <4>2. CASE u \notin Running
        BY <2>3, <2>4, <3>2, <4>2
      <4>. QED
        BY <4>1, <4>2
    <3>3. v \in met[u] => u <= arrived /\ v <= arrived
      OBVIOUS
    <3>4. (u <= arrived \/ u = new) /\ (v <= arrived \/ v = new)
      BY <2>2, <3>1, <3>2, <3>3
    <3>. QED
      BY <1>0, <2>1, <3>4
  <2>5. ASSUME NEW u \in Running', NEW v \in Update, u < v, v <= new
        PROVE  v \in met'[u] /\ u \in met'[v]
    <3>1. u \in Update /\ (u \in Running \/ u = new)
      BY <2>1, <2>2, <2>5
    <3>2. u \in Running /\ u # new
      BY <1>0, <2>1, <2>5, <3>1
    <3>3. CASE v = new
      BY <2>1, <2>3, <3>1, <3>2, <3>3
    <3>4. CASE v # new
      <4>1. v <= arrived
        BY <1>0, <2>1, <2>5, <3>4
      <4>2. v \in met[u] /\ u \in met[v]
        BY <2>5, <3>2, <4>1
      <4>. QED
        BY <2>2, <2>3, <3>1, <3>2, <3>4, <4>2
    <3>. QED
      BY <3>3, <3>4
  <2>. QED
    BY <2>4, <2>5 DEF new
<1>2. ASSUME Running' \subseteq Running, UNCHANGED <<arrived, met>>
      PROVE  Overlap'
  BY <1>2
<1>3. ASSUME NEW u \in Update, Chats(u)
      PROVE  Running' \subseteq Running /\ UNCHANGED <<arrived, met>>
  BY <1>3 DEF Chats, FirstRead, ClearState, ClearData, ReadForUpdate, WriteData, SetState, Goto
<1>4. ASSUME NEW u \in Update, NEW m \in Data, Asks(u, m)
      PROVE  Running' \subseteq Running /\ UNCHANGED <<arrived, met>>
  BY <1>4 DEF Asks, Others
<1>5. ASSUME NEW u \in Update, NEW label \in ChatPC, Passes(u, label) \/ Advances(u, label)
      PROVE  Running' \subseteq Running /\ UNCHANGED <<arrived, met>>
  BY <1>5 DEF Passes, Advances, Others
<1>6. ASSUME NEW S \in SUBSET Update, Stops(S)
      PROVE  Running' \subseteq Running /\ UNCHANGED <<arrived, met>>
  BY <1>6 DEF Stops
<1>7. CASE UNCHANGED <<Chatter, pc, failed, charged>>
  BY <1>7
<1>. QED
  BY <1>1, <1>2, <1>3, <1>4, <1>5, <1>6, <1>7 DEF Effect

(* What is known stays written.                                            *)
LEMMA WrittenStays ==
  ASSUME ChatTypeOK, Stage, Effect, NEW w \in Update, NEW kind \in Kind, Written(w, kind)
  PROVE  Written(w, kind)'
<1>. USE DEF ChatTypeOK, Written, Chatter
<1>1. ASSUME NEW k \in Kind, NEW label \in ChatPC, Comes(k, label)
      PROVE  Written(w, kind)'
  BY <1>1 DEF Comes
<1>2. ASSUME NEW u \in Update, Chats(u)
      PROVE  Written(w, kind)'
  BY <1>2 DEF Chats, FirstRead, ClearState, ClearData, ReadForUpdate, WriteData, SetState, Goto
<1>3. ASSUME NEW u \in Update, NEW m \in Data, Asks(u, m)
      PROVE  Written(w, kind)'
  BY <1>3 DEF Asks, Others
<1>4. ASSUME NEW u \in Update, NEW label \in ChatPC, Passes(u, label)
      PROVE  Written(w, kind)'
  BY <1>4 DEF Passes, Others
<1>5. ASSUME NEW u \in Update, NEW label \in ChatPC, Advances(u, label)
      PROVE  Written(w, kind)'
  BY <1>5 DEF Advances
<1>6. ASSUME NEW S \in SUBSET Update, Stops(S)
      PROVE  Written(w, kind)'
  BY <1>6 DEF Stops
<1>7. CASE UNCHANGED <<Chatter, pc, failed, charged>>
  BY <1>7
<1>. QED
  BY <1>1, <1>2, <1>3, <1>4, <1>5, <1>6, <1>7 DEF Effect

LEMMA MetGrows ==
  ASSUME ChatTypeOK, Stage, Overlap, Effect, NEW u \in Update
  PROVE  met[u] \subseteq met'[u] /\ (MetChoice(u) => MetChoice(u)')
<1>. USE DEF ChatTypeOK, Chatter, MetChoice
<1>1. ASSUME NEW k \in Kind, NEW label \in ChatPC, Comes(k, label)
      PROVE  met[u] \subseteq met'[u] /\ (MetChoice(u) => MetChoice(u)')
  <2>. DEFINE new == arrived'
  <2>1. new \in Update /\ new > arrived /\ pc[new] = "new" /\ what' = [what EXCEPT ![new] = k]
    BY <1>1, ChatAssumption DEF Comes, Update
  <2>2. new # u => met[u] \subseteq met'[u]
    BY <1>1, <2>1 DEF Comes
  <2>3. \A w \in met[u] : w \in Update /\ w # new /\ what'[w] = what[w]
    BY <2>1, ChatAssumption DEF Overlap, Update
  <2>4. new = u => met[u] = {}
    <3>. SUFFICES ASSUME new = u, NEW w \in met[u] PROVE FALSE
      OBVIOUS
    <3>1. w \in Update /\ ~(new <= arrived)
      BY <2>1, ChatAssumption DEF Update
    <3>. QED
      BY <3>1 DEF Overlap
  <2>. QED
    BY <2>2, <2>3, <2>4
<1>2. CASE UNCHANGED <<what, met>>
  BY <1>2
<1>. QED
  BY <1>1, <1>2 DEF Effect, Chats, Asks, Passes, Advances, Stops, Others,
     FirstRead, ClearState, ClearData, ReadForUpdate, WriteData, SetState, chat

(* Two handlers at work met each other.                                    *)
LEMMA RunningTogether ==
  ASSUME ChatTypeOK, Stage, Overlap, NEW u \in Running, NEW v \in Running, u # v
  PROVE  Together(u, v)
<1>1. u \in Update /\ v \in Update /\ u \in Nat /\ v \in Nat
  BY DEF Running, Update
<1>2. u <= arrived /\ v <= arrived
  BY DEF Running, Stage
<1>3. u < v \/ v < u
  BY <1>1
<1>. QED
  BY <1>1, <1>2, <1>3 DEF Overlap, Together

-----------------------------------------------------------------------------
LEMMA KnownStays ==
  ASSUME ChatTypeOK, Stage, Effect
  PROVE  \A d \in Data, u \in Update \cup {NoUpdate} : Known(d, u) => Known(d, u)'
<1>. SUFFICES ASSUME NEW d \in Data, NEW u \in Update \cup {NoUpdate}, Known(d, u),
                     NEW w \in Update \ {u}
              PROVE  /\ d.photo = w => Written(w, "photo")'
                     /\ d.preset = w => Written(w, "preset")'
  BY DEF Known
<1>1. "photo" \in Kind /\ "preset" \in Kind
  BY DEF Kind, Photos, Presets
<1>. QED
  BY <1>1, WrittenStays DEF Known

(* What is kept, read and used keeps to what was written.                  *)
LEMMA SourcesKept ==
  ASSUME ChatTypeOK, Stage, Sources, Effect, ChatTypeOK'
  PROVE  Sources'
<1>. USE DEF ChatTypeOK, Chatter
<1>0. NoUpdate \notin Update /\ NoData.photo \notin Update /\ NoData.preset \notin Update
  BY DEF Update, NoUpdate, NoData
<1>1. /\ \A u \in Update : Known(got[u], u)' \/ got'[u] # got[u]
      /\ \A u \in Update : Known(made[u], u)' \/ made'[u] # made[u]
      /\ Known(data, NoUpdate)' \/ data' # data
  BY KnownStays DEF Sources, Known
<1>2. /\ \A u \in Update : got'[u] = data => Known(got[u], u)'
      /\ \A u \in Update : got'[u] = NoData => Known(got[u], u)'
      /\ data' = NoData => Known(data, NoUpdate)'
  BY <1>0, KnownStays DEF Sources, Known
<1>3. ASSUME NEW k \in Kind, NEW label \in ChatPC, Comes(k, label)
      PROVE  Sources'
  BY <1>1, <1>3 DEF Comes, Sources
<1>4. ASSUME NEW u \in Update, Chats(u)
      PROVE  Sources'
  <2>. USE DEF Goto, chat, Chats
  <2>1. CASE FirstRead(u)
    BY <1>1, <1>2, <1>4, <2>1 DEF FirstRead, Sources
  <2>2. CASE ClearState(u)
    BY <1>1, <1>4, <2>2 DEF ClearState, Sources
  <2>3. CASE ClearData(u)
    BY <1>1, <1>2, <1>4, <2>3 DEF ClearData, Sources
  <2>4. CASE ReadForUpdate(u)
    <3>1. /\ pc[u] = "read" /\ what[u] \in {"photo", "preset"}
          /\ got' = [got EXCEPT ![u] = Updated(u, data)]
      BY <2>4 DEF ReadForUpdate, Stage
    <3>2. data.photo # u
      BY <3>1, <1>0 DEF Sources, Known, Written
    <3>3. \/ what[u] = "photo" /\ got'[u] = [photo |-> u, preset |-> NoUpdate]
          \/ /\ what[u] = "preset" /\ got'[u].preset = u /\ got'[u].photo = data.photo
      BY <3>1 DEF Updated, Data
    <3>4. Known(got[u], u)'
      BY <1>0, <3>2, <3>3, KnownStays DEF Sources, Known
    <3>5. pc' = [pc EXCEPT ![u] = "write"] /\ UNCHANGED <<data, what, made>>
      BY <2>4 DEF ReadForUpdate
    <3>. QED
      BY <1>1, <3>1, <3>2, <3>3, <3>4, <3>5 DEF Sources
  <2>5. CASE WriteData(u)
    <3>1. /\ pc[u] = "write" /\ u \notin asked /\ asked' = asked /\ what' = what
          /\ pc'[u] \in {"turn", "end"} /\ data' = got[u] /\ got' = [got EXCEPT ![u] = NoData]
      BY <2>5 DEF WriteData, Stage
    <3>2. Written(u, what[u])'
      BY <3>1 DEF Written
    <3>3. Known(data, NoUpdate)'
      <4>. SUFFICES ASSUME NEW w \in Update
                    PROVE  /\ got[u].photo = w => Written(w, "photo")'
                           /\ got[u].preset = w => Written(w, "preset")'
        BY <3>1 DEF Known
      <4>1. CASE w = u
        BY <1>0, <3>1, <3>2, <4>1 DEF Sources
      <4>2. CASE w # u
        <5>1. got[u] \in Data /\ Known(got[u], u)
          BY DEF Sources
        <5>2. \A v \in Update \ {u} : /\ got[u].photo = v => Written(v, "photo")'
                                      /\ got[u].preset = v => Written(v, "preset")'
          BY <5>1, KnownStays DEF Known
        <5>. QED
          BY <4>2, <5>2
      <4>. QED
        BY <4>1, <4>2
    <3>4. \A v \in Update : pc'[v] = "write" => v # u /\ pc[v] = "write" /\ got'[v] = got[v]
      BY <2>5, <3>1 DEF WriteData
    <3>5. \A v \in Update : got'[v] = got[v] \/ got'[v] = NoData
      BY <3>1
    <3>6. made' = made
      BY <2>5 DEF WriteData
    <3>. QED
      BY <1>1, <1>2, <3>1, <3>3, <3>4, <3>5, <3>6 DEF Sources
  <2>6. CASE SetState(u)
    BY <1>1, <1>4, <2>6 DEF SetState, Sources
  <2>. QED
    BY <1>4, <2>1, <2>2, <2>3, <2>4, <2>5, <2>6
<1>5. ASSUME NEW u \in Update, NEW m \in Data, Asks(u, m)
      PROVE  Sources'
  <2>1. made' = [made EXCEPT ![u] = m] /\ pc[u] = "decide" /\ pc' = [pc EXCEPT ![u] = "clear"]
    BY <1>5 DEF Asks
  <2>2. Known(m, u)'
    <3>1. \/ m.photo = u \/ m.photo = data.photo
      BY <1>5 DEF Asks
    <3>2. \/ m.preset = u \/ m.preset = NoUpdate \/ m.preset = got[u].preset
      BY <1>5 DEF Asks
    <3>. QED
      BY <1>0, <3>1, <3>2, KnownStays DEF Sources, Known
  <2>3. got' \in {got, [got EXCEPT ![u] = NoData]} /\ UNCHANGED <<data, what>>
    BY <1>5 DEF Asks, Others
  <2>4. \A v \in Update : Known(made[v], v)'
    BY <1>1, <2>1, <2>2 DEF Known
  <2>5. \A v \in Update : got'[v] = got[v] \/ got'[v] = NoData
    BY <2>3
  <2>6. \A v \in Update : pc'[v] = "write" => pc[v] = "write" /\ got'[v] = got[v]
    BY <2>1, <2>3
  <2>. QED
    BY <1>1, <1>2, <2>3, <2>4, <2>5, <2>6 DEF Sources
<1>6. ASSUME NEW u \in Update, NEW label \in ChatPC, Passes(u, label)
      PROVE  Sources'
  <2>1. got' \in {got, [got EXCEPT ![u] = NoData]} /\ UNCHANGED <<data, what, made>>
    BY <1>6 DEF Passes, Others
  <2>2. \A v \in Update : pc'[v] = "write" => pc[v] = "write" /\ got'[v] = got[v]
    BY <1>6, <2>1 DEF Passes
  <2>3. \A v \in Update : got'[v] = got[v] \/ got'[v] = NoData
    BY <2>1
  <2>. QED
    BY <1>1, <1>2, <2>1, <2>2, <2>3 DEF Sources
<1>7. ASSUME NEW u \in Update, NEW label \in ChatPC, Advances(u, label)
      PROVE  Sources'
  BY <1>1, <1>7 DEF Advances, Sources
<1>8. ASSUME NEW S \in SUBSET Update, Stops(S)
      PROVE  Sources'
  BY <1>1, <1>8 DEF Stops, Sources
<1>9. CASE UNCHANGED <<Chatter, pc, failed, charged>>
  BY <1>1, <1>9 DEF Sources
<1>. QED
  BY <1>3, <1>4, <1>5, <1>6, <1>7, <1>8, <1>9 DEF Effect

(* A preset is charged for once, but by handlers at work together.         *)
LEMMA PresetOnceKept ==
  ASSUME ChatTypeOK, Stage, Overlap, Sources, PresetOnce, Effect, ChatTypeOK'
  PROVE  PresetOnce'
<1>. SUFFICES ASSUME NEW u \in Update, Cleared(u)', made'[u].preset # NoUpdate
              PROVE  /\ data'.preset # made'[u].preset
                     /\ \A v \in Update :
                          /\ what'[v] \in Photos /\ pc'[v] = "decide"
                          /\ got'[v].preset = made'[u].preset
                          => Together(u, v)'
                     /\ \A v \in Update \ {u} :
                          /\ v \in asked' /\ (v \in charged' \/ pc'[v] # "end")
                          /\ made'[v].preset = made'[u].preset
                          => Together(u, v)'
  BY DEF PresetOnce, ChatTypeOK
<1>. DEFINE preset == made[u].preset
            Done == /\ data'.preset # preset
                    /\ \A v \in Update :
                         /\ what'[v] \in Photos /\ pc'[v] = "decide" /\ got'[v].preset = preset
                         => Together(u, v)
                    /\ \A v \in Update \ {u} :
                         /\ v \in asked' /\ (v \in charged' \/ pc'[v] # "end")
                         /\ made'[v].preset = preset
                         => Together(u, v)
<1>. USE DEF ChatTypeOK, Chatter
<1>0. NoUpdate \notin Update /\ NoData.preset = NoUpdate
  BY DEF Update, NoUpdate, NoData
<1>1. \A v \in Update : Together(u, v) => Together(u, v)'
  BY MetGrows DEF Together
<1>2. ASSUME Cleared(u), preset # NoUpdate
      PROVE  /\ data.preset # preset
             /\ \A v \in Update : what[v] \in Photos /\ pc[v] = "decide" /\ got[v].preset = preset
                                  => Together(u, v)
             /\ \A v \in Update \ {u} :
                  /\ v \in asked /\ (v \in charged \/ pc[v] # "end") /\ made[v].preset = preset
                  => Together(u, v)
  BY <1>2 DEF PresetOnce
<1>3. ASSUME NEW v \in Update, Cleared(u), preset = v, u # v
      PROVE  pc[v] \in {"turn", "end"} /\ v \notin asked
  BY <1>3 DEF Sources, Known, Written
<1>4. Cleared(u) => u \in asked
  BY DEF Cleared, Stage
<1>5. ASSUME NEW k \in Kind, NEW label \in ChatPC, Comes(k, label)
      PROVE  Done /\ made' = made
  <2>1. Cleared(u) /\ made' = made
    BY <1>5 DEF Comes, Cleared
  <2>2. arrived' \notin asked
    BY <1>5 DEF Comes, Stage
  <2>. QED
    BY <1>2, <1>5, <2>1, <2>2 DEF Comes
<1>6. ASSUME NEW x \in Update, Chats(x)
      PROVE  Done /\ made' = made
  <2>. USE DEF Goto, chat, Chats
  <2>1. CASE FirstRead(x)
    <3>1. Cleared(u) /\ made' = made
      BY <1>6, <2>1 DEF FirstRead, Cleared
    <3>2. \A v \in Update : what[v] \in Photos /\ pc'[v] = "decide" =>
             (pc[v] = "decide" /\ got'[v] = got[v]) \/ got'[v] = data
      BY <2>1 DEF FirstRead, Photos
    <3>3. \A v \in Update : pc'[v] # "end" => pc[v] # "end"
      BY <2>1 DEF FirstRead
    <3>. QED
      BY <1>2, <1>6, <2>1, <3>1, <3>2, <3>3 DEF FirstRead
  <2>2. CASE ClearState(x)
    <3>1. Cleared(u) /\ made' = made
      BY <1>6, <2>2 DEF ClearState, Cleared
    <3>. QED
      BY <1>2, <1>6, <2>2, <3>1 DEF ClearState
  <2>3. CASE ClearData(x)
    <3>1. /\ pc[x] = "wipe" /\ data' = NoData /\ UNCHANGED <<what, got, asked, made, charged>>
          /\ pc' = [pc EXCEPT ![x] = IF what[x] = "cancel" THEN "end" ELSE "deduct"]
      BY <1>6, <2>3 DEF ClearData
    <3>2. CASE Cleared(u)
      BY <1>0, <1>2, <3>1, <3>2
    <3>3. CASE u = x /\ what[x] # "cancel"
      <4>1. x \in asked /\ x \in Running
        BY <3>1, <3>3 DEF Stage, Running
      <4>2. ASSUME NEW v \in Update \ {u}, pc[v] \notin {"new", "end"}
            PROVE  Together(u, v)
        BY <3>3, <4>1, <4>2, RunningTogether DEF Running
      <4>3. ASSUME NEW v \in Update \ {u}, v \in charged, made[v].preset = preset
            PROVE  Together(u, v)
        BY <3>1, <3>3, <4>1, <4>3 DEF PresetOnce, Cleared, Together
      <4>4. \A v \in asked : pc[v] # "new"
        BY DEF Stage
      <4>. QED
        BY <1>0, <3>1, <3>3, <4>2, <4>3, <4>4
    <3>. QED
      BY <3>1, <3>2, <3>3 DEF Cleared
  <2>4. CASE ReadForUpdate(x)
    <3>1. Cleared(u) /\ made' = made
      BY <1>6, <2>4 DEF ReadForUpdate, Cleared
    <3>. QED
      BY <1>2, <1>6, <2>4, <3>1 DEF ReadForUpdate
  <2>5. CASE WriteData(x)
    <3>1. Cleared(u) /\ made' = made
      BY <1>6, <2>5 DEF WriteData, Cleared
    <3>2. pc[x] = "write" /\ data' = got[x] /\ x \notin asked
      BY <2>5 DEF WriteData, Stage
    <3>3. data'.preset \in {NoUpdate, x}
      BY <3>2 DEF Sources
    <3>4. data'.preset # preset
      BY <1>0, <1>3, <1>4, <3>1, <3>2, <3>3
    <3>5. \A v \in Update : /\ pc'[v] = "decide" => pc[v] = "decide" /\ got'[v] = got[v]
                            /\ v \in asked /\ pc'[v] # "end" => pc[v] # "end"
      BY <2>5 DEF WriteData
    <3>. QED
      BY <1>2, <1>6, <2>5, <3>1, <3>4, <3>5 DEF WriteData
  <2>6. CASE SetState(x)
    <3>1. Cleared(u) /\ made' = made
      BY <1>6, <2>6 DEF SetState, Cleared
    <3>. QED
      BY <1>2, <1>6, <2>6, <3>1 DEF SetState
  <2>. QED
    BY <1>6, <2>1, <2>2, <2>3, <2>4, <2>5, <2>6
<1>7. ASSUME NEW x \in Update, NEW m \in Data, Asks(x, m)
      PROVE  Done /\ made'[u] = made[u]
  <2>1. /\ pc[x] = "decide" /\ pc' = [pc EXCEPT ![x] = "clear"] /\ x \notin asked
        /\ asked' = asked \cup {x} /\ made' = [made EXCEPT ![x] = m]
        /\ got' \in {got, [got EXCEPT ![x] = NoData]}
        /\ UNCHANGED <<data, what, charged>>
    BY <1>7 DEF Asks, Others, Stage
  <2>2. Cleared(u) /\ u # x
    BY <2>1 DEF Cleared, Stage
  <2>3. made'[u] = made[u] /\ preset # NoUpdate
    BY <2>1, <2>2
  <2>4. ASSUME m.preset = preset
        PROVE  Together(u, x)
    <3>1. CASE what[x] \in Photos /\ m.preset = got[x].preset
      BY <1>2, <2>1, <2>2, <2>3, <2>4, <3>1
    <3>2. CASE m.preset = x
      BY <1>3, <2>1, <2>2, <2>4, <3>2
    <3>. QED
      BY <1>7, <2>3, <2>4, <3>1, <3>2 DEF Asks
  <2>5. \A v \in Update : pc'[v] = "decide" => pc[v] = "decide" /\ got'[v] = got[v]
    BY <2>1
  <2>6. \A v \in Update \ {x} : pc'[v] = pc[v] /\ made'[v] = made[v]
    BY <2>1
  <2>7. made'[x] = m
    BY <2>1
  <2>. QED
    BY <1>2, <2>1, <2>2, <2>3, <2>4, <2>5, <2>6, <2>7
<1>8. ASSUME NEW x \in Update, NEW label \in ChatPC, Passes(x, label)
      PROVE  Done /\ made' = made
  <2>1. /\ pc[x] = "decide" /\ pc' = [pc EXCEPT ![x] = label]
        /\ label \in {"read", "turn", "end"}
        /\ got' \in {got, [got EXCEPT ![x] = NoData]}
        /\ UNCHANGED <<data, what, charged, asked, made>>
    BY <1>8 DEF Passes, Others
  <2>2. Cleared(u)
    BY <2>1 DEF Cleared
  <2>. QED
    BY <1>2, <2>1, <2>2
<1>9. ASSUME NEW x \in Update, NEW label \in ChatPC, Advances(x, label)
      PROVE  Done /\ made' = made
  <2>1. Cleared(u)
    BY <1>9 DEF Advances, Cleared
  <2>. QED
    BY <1>2, <1>9, <2>1 DEF Advances
<1>10. ASSUME NEW S \in SUBSET Update, Stops(S)
       PROVE  Done /\ made' = made
  <2>1. Cleared(u)
    BY <1>10 DEF Stops, Cleared
  <2>. QED
    BY <1>2, <1>10, <2>1 DEF Stops
<1>11. CASE UNCHANGED <<Chatter, pc, failed, charged>>
  <2>1. Cleared(u)
    BY <1>11 DEF Cleared
  <2>. QED
    BY <1>1, <1>2, <1>11, <2>1
<1>12. (Done /\ made'[u] = made[u]) \/ UNCHANGED <<Chatter, pc, failed, charged>>
  <2>. HIDE DEF Done
  <2>. QED
    BY <1>5, <1>6, <1>7, <1>8, <1>9, <1>10 DEF Effect
<1>. QED
  BY <1>1, <1>11, <1>12

(* A photo is charged for once, but by handlers at work together, or where *)
(* a choice brought it back.                                               *)
LEMMA PhotoOnceKept ==
  ASSUME ChatTypeOK, Stage, Overlap, Sources, PhotoOnce, Effect, ChatTypeOK'
  PROVE  PhotoOnce'
<1>. SUFFICES ASSUME NEW u \in Update, Cleared(u)', made'[u].photo # NoUpdate
              PROVE  /\ data'.photo = made'[u].photo => MetChoice(u)'
                     /\ \A w \in Update :
                          pc'[w] = "write" /\ got'[w].photo = made'[u].photo => MetChoice(u)'
                     /\ \A v \in Update :
                          v \in asked' /\ u < v /\ made'[v].photo = made'[u].photo
                          => v \in met'[u] \/ MetChoice(u)'
  BY DEF PhotoOnce, ChatTypeOK
<1>. DEFINE photo == made[u].photo
            Done == /\ data'.photo = photo => MetChoice(u)
                    /\ \A w \in Update : pc'[w] = "write" /\ got'[w].photo = photo => MetChoice(u)
                    /\ \A v \in Update : v \in asked' /\ u < v /\ made'[v].photo = photo
                                         => v \in met[u] \/ MetChoice(u)
<1>. USE DEF ChatTypeOK, Chatter
<1>0. NoUpdate \notin Update /\ NoData.photo = NoUpdate
  BY DEF Update, NoUpdate, NoData
<1>1. met[u] \subseteq met'[u] /\ (MetChoice(u) => MetChoice(u)')
  BY MetGrows
<1>2. ASSUME Cleared(u), photo # NoUpdate
      PROVE  /\ data.photo = photo => MetChoice(u)
             /\ \A w \in Update : pc[w] = "write" /\ got[w].photo = photo => MetChoice(u)
             /\ \A v \in Update : v \in asked /\ u < v /\ made[v].photo = photo
                                  => v \in met[u] \/ MetChoice(u)
  BY <1>2 DEF PhotoOnce
<1>3. ASSUME NEW v \in Update, photo = v, u # v
      PROVE  pc[v] \in {"turn", "end"} /\ v \notin asked
  BY <1>3 DEF Sources, Known, Written
<1>4. Cleared(u) => u \in asked
  BY DEF Cleared, Stage
<1>5. ASSUME NEW k \in Kind, NEW label \in ChatPC, Comes(k, label)
      PROVE  Done /\ made' = made
  <2>1. Cleared(u) /\ made' = made
    BY <1>5 DEF Comes, Cleared
  <2>. QED
    BY <1>2, <1>5, <2>1 DEF Comes
<1>6. ASSUME NEW x \in Update, Chats(x)
      PROVE  Done /\ made' = made
  <2>. USE DEF Goto, chat, Chats
  <2>1. CASE FirstRead(x)
    <3>1. Cleared(u) /\ made' = made
      BY <1>6, <2>1 DEF FirstRead, Cleared
    <3>2. \A w \in Update : pc'[w] = "write" => pc[w] = "write" /\ got'[w] = got[w]
      BY <2>1 DEF FirstRead
    <3>. QED
      BY <1>2, <1>6, <2>1, <3>1, <3>2 DEF FirstRead
  <2>2. CASE ClearState(x)
    <3>1. Cleared(u) /\ made' = made
      BY <1>6, <2>2 DEF ClearState, Cleared
    <3>. QED
      BY <1>2, <1>6, <2>2, <3>1 DEF ClearState
  <2>3. CASE ClearData(x)
    <3>1. /\ pc[x] = "wipe" /\ data' = NoData /\ UNCHANGED <<what, got, asked, made, charged>>
          /\ pc' = [pc EXCEPT ![x] = IF what[x] = "cancel" THEN "end" ELSE "deduct"]
      BY <1>6, <2>3 DEF ClearData
    <3>2. CASE Cleared(u)
      BY <1>0, <1>2, <3>1, <3>2
    <3>3. CASE u = x /\ what[x] # "cancel"
      <4>1. u \in Running
        BY <3>1, <3>3 DEF Running
      <4>2. ASSUME NEW w \in Update, pc[w] = "write", got[w].photo = photo
            PROVE  MetChoice(u)
        <5>1. w # u /\ w \in Running
          BY <3>1, <3>3, <4>2 DEF Running
        <5>2. w \in met[u]
          BY <4>1, <5>1, RunningTogether DEF Together
        <5>3. photo # w
          BY <1>3, <4>2, <5>1
        <5>4. what[w] = "preset"
          BY <4>2, <5>3 DEF Sources
        <5>. QED
          BY <5>2, <5>4 DEF MetChoice
      <4>3. ASSUME NEW v \in Update, v \in asked, u < v
            PROVE  v \in met[u]
        BY <4>1, <4>3 DEF Stage, Overlap
      <4>. QED
        BY <1>0, <3>1, <3>3, <4>2, <4>3
    <3>. QED
      BY <3>1, <3>2, <3>3 DEF Cleared
  <2>4. CASE ReadForUpdate(x)
    <3>1. Cleared(u) /\ made' = made /\ photo # NoUpdate
      BY <1>6, <2>4 DEF ReadForUpdate, Cleared
    <3>2. /\ pc[x] = "read" /\ what[x] \in {"photo", "preset"} /\ x \notin asked
          /\ got' = [got EXCEPT ![x] = Updated(x, data)]
      BY <2>4 DEF ReadForUpdate, Stage
    <3>3. got'[x].photo \in {x, data.photo}
      BY <3>2 DEF Updated, Data
    <3>4. photo # x
      BY <1>3, <1>4, <3>1, <3>2
    <3>5. \A w \in Update \ {x} : pc'[w] = pc[w] /\ got'[w] = got[w]
      BY <2>4, <3>2 DEF ReadForUpdate
    <3>6. UNCHANGED <<data, asked>>
      BY <2>4 DEF ReadForUpdate
    <3>. QED
      BY <1>2, <3>1, <3>3, <3>4, <3>5, <3>6
  <2>5. CASE WriteData(x)
    <3>1. Cleared(u) /\ made' = made
      BY <1>6, <2>5 DEF WriteData, Cleared
    <3>2. pc[x] = "write" /\ data' = got[x] /\ asked' = asked
      BY <2>5 DEF WriteData
    <3>3. \A w \in Update : pc'[w] = "write" => pc[w] = "write" /\ got'[w] = got[w]
      BY <2>5 DEF WriteData
    <3>. QED
      BY <1>2, <1>6, <3>1, <3>2, <3>3
  <2>6. CASE SetState(x)
    <3>1. Cleared(u) /\ made' = made
      BY <1>6, <2>6 DEF SetState, Cleared
    <3>. QED
      BY <1>2, <1>6, <2>6, <3>1 DEF SetState
  <2>. QED
    BY <1>6, <2>1, <2>2, <2>3, <2>4, <2>5, <2>6
<1>7. ASSUME NEW x \in Update, NEW m \in Data, Asks(x, m)
      PROVE  Done /\ made'[u] = made[u]
  <2>1. /\ pc[x] = "decide" /\ pc' = [pc EXCEPT ![x] = "clear"] /\ x \notin asked
        /\ asked' = asked \cup {x} /\ made' = [made EXCEPT ![x] = m]
        /\ got' \in {got, [got EXCEPT ![x] = NoData]}
        /\ UNCHANGED <<data, charged>>
    BY <1>7 DEF Asks, Others, Stage
  <2>2. Cleared(u) /\ u # x
    BY <2>1 DEF Cleared, Stage
  <2>3. made'[u] = made[u] /\ photo # NoUpdate
    BY <2>1, <2>2
  <2>4. ASSUME m.photo = photo
        PROVE  MetChoice(u)
    <3>1. m.photo \in {x, data.photo}
      BY <1>7 DEF Asks
    <3>. QED
      BY <1>2, <1>3, <2>1, <2>2, <2>3, <2>4, <3>1
  <2>5. \A w \in Update : pc'[w] = "write" => pc[w] = "write" /\ got'[w] = got[w]
    BY <2>1
  <2>6. \A v \in Update \ {x} : (v \in asked' => v \in asked) /\ made'[v] = made[v]
    BY <2>1
  <2>7. made'[x] = m
    BY <2>1
  <2>. QED
    BY <1>2, <2>1, <2>2, <2>3, <2>4, <2>5, <2>6, <2>7
<1>8. ASSUME NEW x \in Update, NEW label \in ChatPC, Passes(x, label)
      PROVE  Done /\ made' = made
  <2>1. /\ pc[x] = "decide" /\ pc' = [pc EXCEPT ![x] = label]
        /\ label \in {"read", "turn", "end"}
        /\ got' \in {got, [got EXCEPT ![x] = NoData]}
        /\ UNCHANGED <<data, charged, asked, made>>
    BY <1>8 DEF Passes, Others
  <2>2. Cleared(u)
    BY <2>1 DEF Cleared
  <2>. QED
    BY <1>2, <2>1, <2>2
<1>9. ASSUME NEW x \in Update, NEW label \in ChatPC, Advances(x, label)
      PROVE  Done /\ made' = made
  <2>1. Cleared(u)
    BY <1>9 DEF Advances, Cleared
  <2>. QED
    BY <1>2, <1>9, <2>1 DEF Advances
<1>10. ASSUME NEW S \in SUBSET Update, Stops(S)
       PROVE  Done /\ made' = made
  <2>1. Cleared(u)
    BY <1>10 DEF Stops, Cleared
  <2>. QED
    BY <1>2, <1>10, <2>1 DEF Stops
<1>11. CASE UNCHANGED <<Chatter, pc, failed, charged>>
  <2>1. Cleared(u)
    BY <1>11 DEF Cleared
  <2>. QED
    BY <1>1, <1>2, <1>11, <2>1
<1>12. (Done /\ made'[u] = made[u]) \/ UNCHANGED <<Chatter, pc, failed, charged>>
  <2>. HIDE DEF Done
  <2>. QED
    BY <1>5, <1>6, <1>7, <1>8, <1>9, <1>10 DEF Effect
<1>. QED
  BY <1>1, <1>11, <1>12

-----------------------------------------------------------------------------
(* In a chat whose updates never overlapped one handler runs at a time, it *)
(* is the last one, and nobody stops it.                                   *)
LEMMA AloneBefore ==
  ASSUME ChatTypeOK, Stage, Overlap, Effect, NEW u \in Update, Alone(1, u)',
         NEW v \in Update, v <= u
  PROVE  met[v] = {} /\ v \notin failed /\ v \notin failed'
<1>1. v \in 1..u
  BY DEF Update
<1>2. met'[v] = {} /\ v \notin failed'
  BY <1>1 DEF Alone
<1>3. met[v] \subseteq met'[v]
  BY MetGrows
<1>4. failed \subseteq failed'
  BY DEF Effect, Comes, Chats, Asks, Passes, Advances, Stops, Others, FirstRead, ClearState,
         ClearData, ReadForUpdate, WriteData, SetState
<1>. QED
  BY <1>2, <1>3, <1>4

LEMMA StillAlone ==
  ASSUME ChatTypeOK, ChatTypeOK', Stage, Overlap, Effect, Alone(1, arrived)'
  PROVE  Alone(1, arrived)
<1>1. arrived \in Nat /\ arrived' \in Nat /\ arrived <= arrived' /\ 1..arrived \subseteq Update
  <2>1. arrived' = arrived \/ arrived' = arrived + 1
    BY DEF Effect, Comes, Chats, Asks, Passes, Advances, Stops, Others, Chatter, FirstRead,
           ClearState, ClearData, ReadForUpdate, WriteData, SetState
  <2>. QED
    BY <2>1, ChatAssumption DEF ChatTypeOK, Update
<1>. SUFFICES ASSUME NEW v \in 1..arrived PROVE met[v] = {} /\ v \notin failed
  BY DEF Alone
<1>2. arrived' \in Update /\ v \in Update /\ v <= arrived'
  BY <1>1, ChatAssumption DEF Update, ChatTypeOK
<1>3. v \in 1..arrived'
  BY <1>1
<1>4. met'[v] = {} /\ v \notin failed'
  BY <1>3 DEF Alone
<1>5. met[v] \subseteq met'[v]
  BY <1>2, MetGrows
<1>6. failed \subseteq failed'
  BY DEF Effect, Comes, Chats, Asks, Passes, Advances, Stops, Others, FirstRead, ClearState,
         ClearData, ReadForUpdate, WriteData, SetState
<1>. QED
  BY <1>4, <1>5, <1>6

LEMMA OneRuns ==
  ASSUME ChatTypeOK, Stage, Overlap, NEW u \in Running, NEW v \in Update, met[u] = {}
  PROVE  /\ v \in Running => v = u
         /\ v # u => pc[v] \in {"new", "end"}
         /\ u < v => pc[v] = "new"
<1>1. u \in Update /\ u \in Nat /\ v \in Nat /\ arrived \in Nat
  BY ChatAssumption DEF Running, Update, ChatTypeOK
<1>2. v \in Running => v = u
  BY RunningTogether DEF Together
<1>3. u < v => ~(v <= arrived)
  BY DEF Overlap
<1>. QED
  BY <1>1, <1>2, <1>3 DEF Running, Stage

LEMMA QuietKept ==
  ASSUME ChatTypeOK, ChatTypeOK', Stage, Stage', Overlap, Quiet, Effect
  PROVE  Quiet'
<1>. SUFFICES ASSUME Alone(1, arrived)'
              PROVE  (Running = {} => Match)' /\ \A v \in Update : AloneAt(v)'
  BY DEF Quiet
<1>. USE DEF ChatTypeOK, Chatter
<1>1. Alone(1, arrived)
  BY StillAlone
<1>2. /\ Running = {} => Match
      /\ \A v \in Update : AloneAt(v)
  BY <1>1 DEF Quiet
<1>3. ASSUME NEW x \in Running
      PROVE  x \in Update /\ \A v \in Update \ {x} : pc[v] \in {"new", "end"}
  <2>1. x \in Update /\ x \in 1..arrived
    BY ChatAssumption DEF Running, Stage, Update
  <2>2. met[x] = {}
    BY <1>1, <2>1 DEF Alone
  <2>. QED
    BY <2>1, <2>2, OneRuns
<1>4. ASSUME NEW x \in Running, \A v \in Update \ {x} : pc'[v] = pc[v],
             AloneAt(x)', pc'[x] = "end" => Match', pc'[x] # "new"
      PROVE  (Running = {} => Match)' /\ \A v \in Update : AloneAt(v)'
  <2>1. ASSUME NEW v \in Update, v # x
        PROVE  AloneAt(v)'
    <3>1. pc'[v] \in {"new", "end"}
      BY <1>3, <1>4, <2>1
    <3>. QED
      BY <3>1 DEF AloneAt
  <2>2. x \in Update /\ (Running' = {} => pc'[x] = "end")
    BY <1>3, <1>4 DEF Running
  <2>. QED
    BY <1>4, <2>1, <2>2
<1>5. ASSUME NEW k \in Kind, NEW label \in ChatPC, Comes(k, label)
      PROVE  (Running = {} => Match)' /\ \A v \in Update : AloneAt(v)'
  <2>1. arrived' \in Update /\ arrived' \in 1..arrived'
    BY <1>5 DEF Comes, Update
  <2>2. met'[arrived'] = Running
    BY <1>5, <2>1 DEF Comes
  <2>3. Running = {}
    BY <2>1, <2>2 DEF Alone
  <2>4. Match'
    BY <1>2, <1>5, <2>3 DEF Match, Comes
  <2>5. ASSUME NEW v \in Update
        PROVE  AloneAt(v)'
    <3>1. CASE v = arrived'
      <4>1. /\ pc'[v] \in {"clear", "first", "decide"}
            /\ pc'[v] = "decide" => what'[v] \notin Photos
        BY <1>5, <3>1 DEF Comes
      <4>. QED
        BY <2>4, <4>1 DEF AloneAt
    <3>2. CASE v # arrived'
      <4>1. pc'[v] \in {"new", "end"}
        BY <1>5, <2>3, <3>2 DEF Comes, Running
      <4>. QED
        BY <4>1 DEF AloneAt
    <3>. QED
      BY <3>1, <3>2
  <2>. QED
    BY <2>4, <2>5
<1>6. ASSUME NEW x \in Update, Chats(x)
      PROVE  /\ x \in Running /\ \A v \in Update \ {x} : pc'[v] = pc[v]
             /\ AloneAt(x)' /\ (pc'[x] = "end" => Match') /\ pc'[x] # "new"
  <2>. USE DEF Goto, chat, Chats, Running
  <2>0. AloneAt(x) /\ NoData = [photo |-> NoUpdate, preset |-> NoUpdate] /\ x # NoUpdate
    BY <1>2 DEF Update, NoUpdate, NoData
  <2>1. CASE FirstRead(x)
    BY <2>0, <2>1 DEF FirstRead, AloneAt, Match, Photos
  <2>2. CASE ClearState(x)
    BY <2>0, <2>2 DEF ClearState, AloneAt
  <2>3. CASE ClearData(x)
    BY <2>0, <2>3 DEF ClearData, AloneAt, Match
  <2>4. CASE ReadForUpdate(x)
    <3>1. /\ pc[x] = "read" /\ pc' = [pc EXCEPT ![x] = "write"]
          /\ got'[x] = Updated(x, data) /\ UNCHANGED <<fsm, data, what, seen>>
      BY <2>4 DEF ReadForUpdate
    <3>2. Updated(x, data)' = Updated(x, data)
      BY <3>1 DEF Updated
    <3>. QED
      BY <2>0, <3>1, <3>2 DEF AloneAt, Match
  <2>5. CASE WriteData(x)
    <3>1. /\ pc[x] = "write" /\ data' = Updated(x, data) /\ UNCHANGED <<fsm, what>>
          /\ pc' = [pc EXCEPT ![x] = IF what[x] = "photo" /\ seen[x] = "custom"
                                     THEN "end" ELSE "turn"]
      BY <2>0, <2>5 DEF WriteData, AloneAt
    <3>2. CASE what[x] = "photo"
      <4>1. data' = [photo |-> x, preset |-> NoUpdate] /\ seen[x] = fsm
        BY <2>0, <3>1, <3>2 DEF Updated, AloneAt
      <4>. QED
        BY <3>1, <3>2, <4>1 DEF AloneAt, Match
    <3>3. CASE what[x] = "preset"
      <4>1. data'.preset = x /\ pc'[x] = "turn"
        BY <3>1, <3>3 DEF Updated, Data
      <4>. QED
        BY <3>1, <3>3, <4>1 DEF AloneAt
    <3>. QED
      BY <3>1, <3>2, <3>3 DEF Stage
  <2>6. CASE SetState(x)
    <3>1. /\ pc[x] = "turn" /\ pc' = [pc EXCEPT ![x] = "end"] /\ data' = data
          /\ what[x] \in {"photo", "preset", "custom"}
      BY <2>6 DEF SetState, Stage
    <3>2. CASE what[x] = "photo"
      <4>1. fsm' = "selecting" /\ data = [photo |-> x, preset |-> NoUpdate]
        BY <2>0, <2>6, <3>1, <3>2 DEF SetState, AloneAt
      <4>. QED
        BY <2>0, <3>1, <4>1 DEF AloneAt, Match
    <3>3. CASE what[x] = "preset"
      <4>1. fsm' = "waiting" /\ data.preset = x
        BY <2>0, <2>6, <3>1, <3>3 DEF SetState, AloneAt
      <4>. QED
        BY <2>0, <3>1, <4>1 DEF AloneAt, Match
    <3>4. CASE what[x] = "custom"
      <4>1. fsm' = "custom"
        BY <2>6, <3>4 DEF SetState
      <4>. QED
        BY <3>1, <4>1 DEF AloneAt, Match
    <3>. QED
      BY <3>1, <3>2, <3>3, <3>4
  <2>. QED
    BY <1>6, <2>1, <2>2, <2>3, <2>4, <2>5, <2>6
<1>7. ASSUME NEW x \in Update, NEW m \in Data, Asks(x, m)
      PROVE  /\ x \in Running /\ \A v \in Update \ {x} : pc'[v] = pc[v]
             /\ AloneAt(x)' /\ (pc'[x] = "end" => Match') /\ pc'[x] # "new"
  BY <1>2, <1>7 DEF Asks, Others, AloneAt, Match, Running
<1>8. ASSUME NEW x \in Update, NEW label \in ChatPC, Passes(x, label)
      PROVE  /\ x \in Running /\ \A v \in Update \ {x} : pc'[v] = pc[v]
             /\ AloneAt(x)' /\ (pc'[x] = "end" => Match') /\ pc'[x] # "new"
  BY <1>2, <1>8 DEF Passes, Others, AloneAt, Match, Running
<1>9. ASSUME NEW x \in Update, NEW label \in ChatPC, Advances(x, label)
      PROVE  /\ x \in Running /\ \A v \in Update \ {x} : pc'[v] = pc[v]
             /\ AloneAt(x)' /\ (pc'[x] = "end" => Match') /\ pc'[x] # "new"
  BY <1>2, <1>9 DEF Advances, AloneAt, Match, Running, NoData
<1>10. ASSUME NEW S \in SUBSET Update, Stops(S)
       PROVE  UNCHANGED <<Chatter, pc>>
  <2>1. \A v \in S : v \in 1..arrived' /\ v \in failed'
    BY <1>10, ChatAssumption DEF Stops, Running, Stage, Update
  <2>2. S = {}
    BY <2>1 DEF Alone
  <2>. QED
    BY <1>10, <2>2 DEF Stops
<1>11. CASE UNCHANGED <<Chatter, pc>>
  <2>1. \A v \in Update : AloneAt(v)' /\ Updated(v, data)' = Updated(v, data)
    BY <1>2, <1>11 DEF AloneAt, Match, Updated
  <2>. QED
    BY <1>2, <1>11, <2>1 DEF Match, Running
<1>. QED
  BY <1>4, <1>5, <1>6, <1>7, <1>8, <1>9, <1>10, <1>11 DEF Effect

(* While a preset is kept, who has come since only stands by.              *)
LEMMA LastChoiceKept ==
  ASSUME ChatTypeOK, ChatTypeOK', Stage, Overlap, Quiet, LastChoice, Effect
  PROVE  LastChoice'
<1>. SUFFICES ASSUME Alone(1, arrived)', data'.preset # NoUpdate,
                     NEW v \in Update, data'.preset < v, pc'[v] = "end"
              PROVE  Bystander(v)'
  BY DEF LastChoice
<1>. USE DEF ChatTypeOK, Chatter
<1>1. Alone(1, arrived)
  BY StillAlone
<1>2. data.preset # NoUpdate /\ data.preset < v /\ pc[v] = "end" => Bystander(v)
  BY <1>1 DEF LastChoice
<1>3. \A x \in Update : AloneAt(x)
  BY <1>1 DEF Quiet
<1>4. NoData.preset = NoUpdate
  BY DEF NoData
<1>5. ASSUME NEW k \in Kind, NEW label \in ChatPC, Comes(k, label)
      PROVE  Bystander(v)'
  BY <1>2, <1>5 DEF Comes, Bystander
<1>6. ASSUME NEW x \in Update, Chats(x)
      PROVE  Bystander(v)'
  <2>. USE DEF Goto, chat, Chats
  <2>1. CASE FirstRead(x)
    BY <1>2, <1>6, <2>1 DEF FirstRead, Bystander
  <2>2. CASE ClearState(x)
    BY <1>2, <1>6, <2>2 DEF ClearState, Bystander
  <2>3. CASE ClearData(x)
    BY <1>4, <1>6, <2>3 DEF ClearData
  <2>4. CASE ReadForUpdate(x)
    BY <1>2, <1>6, <2>4 DEF ReadForUpdate, Bystander
  <2>5. CASE WriteData(x)
    <3>1. /\ pc[x] = "write" /\ data' = Updated(x, data) /\ what[x] \in {"photo", "preset"}
          /\ \A y \in Update \ {x} : pc'[y] = pc[y]
      BY <1>3, <1>6, <2>5 DEF WriteData, AloneAt, Stage
    <3>2. data'.preset = x
      BY <3>1 DEF Updated, Data
    <3>3. x \in Running /\ met[x] = {}
      BY <1>1, <3>1, ChatAssumption DEF Running, Stage, Alone, Update
    <3>4. x < v => pc[v] = "new"
      BY <3>3, OneRuns
    <3>. QED
      BY <3>1, <3>2, <3>4 DEF Update
  <2>6. CASE SetState(x)
    <3>1. /\ pc[x] = "turn" /\ what[x] \in {"photo", "preset", "custom"} /\ x \notin asked
          /\ \A y \in Update \ {x} : pc'[y] = pc[y]
          /\ UNCHANGED <<data, what, asked>>
      BY <1>6, <2>6 DEF SetState, Stage
    <3>2. CASE v = x
      <4>1. what[x] = "photo" => data = [photo |-> x, preset |-> NoUpdate]
        BY <1>3, <3>1 DEF AloneAt
      <4>2. what[x] = "preset" => data.preset = x
        BY <1>3, <3>1 DEF AloneAt
      <4>3. what[x] = "custom"
        BY <3>1, <3>2, <4>1, <4>2 DEF Update
      <4>. QED
        BY <3>1, <3>2, <4>3 DEF Bystander
    <3>3. CASE v # x
      BY <1>2, <3>1, <3>3 DEF Bystander
    <3>. QED
      BY <3>2, <3>3
  <2>. QED
    BY <1>6, <2>1, <2>2, <2>3, <2>4, <2>5, <2>6
<1>7. ASSUME NEW x \in Update, NEW m \in Data, Asks(x, m)
      PROVE  Bystander(v)'
  BY <1>2, <1>7 DEF Asks, Others, Bystander
<1>8. ASSUME NEW x \in Update, NEW label \in ChatPC, Passes(x, label)
      PROVE  Bystander(v)'
  BY <1>2, <1>8 DEF Passes, Others, Bystander, Stage
<1>9. ASSUME NEW x \in Update, NEW label \in ChatPC, Advances(x, label)
      PROVE  Bystander(v)'
  BY <1>3, <1>4, <1>9 DEF Advances, AloneAt
<1>10. ASSUME NEW S \in SUBSET Update, Stops(S)
       PROVE  UNCHANGED <<Chatter, pc>>
  <2>1. \A y \in S : y \in 1..arrived' /\ y \in failed'
    BY <1>10, ChatAssumption DEF Stops, Running, Stage, Update
  <2>2. S = {}
    BY <2>1 DEF Alone
  <2>. QED
    BY <1>10, <2>2 DEF Stops
<1>11. CASE UNCHANGED <<Chatter, pc>>
  BY <1>2, <1>11 DEF Bystander
<1>. QED
  BY <1>5, <1>6, <1>7, <1>8, <1>9, <1>10, <1>11 DEF Effect

LEMMA StillChosenKept ==
  ASSUME ChatTypeOK, ChatTypeOK', Stage, Overlap, Quiet, LastChoice, PresetStillChosen, Effect
  PROVE  PresetStillChosen'
<1>. SUFFICES ASSUME NEW u \in Update, made'[u].preset # NoUpdate, made'[u].preset < u,
                     Alone(1, u)', NEW v \in (made'[u].preset + 1)..(u - 1)
              PROVE  what'[v] \in {"custom", "lapsed", "text"} /\ v \notin asked'
  BY DEF PresetStillChosen
<1>. USE DEF ChatTypeOK, Chatter
<1>0. /\ u \in Nat /\ made'[u].preset \in Update \cup {NoUpdate}
      /\ v \in Update /\ v \in Nat /\ v < u /\ made'[u].preset < v /\ arrived \in Nat
  <2>1. made'[u] \in Data
    OBVIOUS
  <2>2. made'[u].preset \in Nat /\ u \in Nat
    BY <2>1 DEF Data, Update, NoUpdate
  <2>3. v \in Nat /\ v < u /\ made'[u].preset < v /\ v >= 1
    BY <2>2
  <2>. QED
    BY <2>1, <2>2, <2>3, ChatAssumption DEF Data, Update
<1>1. \A y \in Update : y <= u => met[y] = {} /\ y \notin failed
  BY AloneBefore
<1>2. Alone(1, u)
  BY <1>1, ChatAssumption DEF Alone, Update
<1>3. ASSUME made'[u] = made[u]
      PROVE  /\ what[v] \in {"custom", "lapsed", "text"} /\ v \notin asked
             /\ u <= arrived
  <2>1. made[u].preset # NoUpdate /\ made[u].preset < u /\ v \in (made[u].preset + 1)..(u - 1)
    BY <1>3
  <2>2. what[v] \in {"custom", "lapsed", "text"} /\ v \notin asked
    BY <1>2, <2>1 DEF PresetStillChosen
  <2>3. u \in asked
    BY <2>1 DEF Stage, NoData
  <2>. QED
    BY <2>2, <2>3 DEF Stage
<1>4. ASSUME NEW k \in Kind, NEW label \in ChatPC, Comes(k, label)
      PROVE  what'[v] \in {"custom", "lapsed", "text"} /\ v \notin asked'
  <2>1. made'[u] = made[u] /\ arrived' = arrived + 1
    BY <1>4 DEF Comes
  <2>2. v # arrived'
    BY <1>0, <1>3, <2>1
  <2>. QED
    BY <1>0, <1>3, <1>4, <2>1, <2>2 DEF Comes
<1>5. ASSUME NEW x \in Update, NEW m \in Data, Asks(x, m)
      PROVE  what'[v] \in {"custom", "lapsed", "text"} /\ v \notin asked'
  <2>1. /\ pc[x] = "decide" /\ asked' = asked \cup {x} /\ made' = [made EXCEPT ![x] = m]
        /\ what' = what /\ x \in Running /\ x <= arrived
    BY <1>5 DEF Asks, Others, Running, Stage
  <2>2. CASE u = x
    <3>1. met[x] = {}
      BY <1>0, <1>1, <2>2
    <3>2. \A y \in Update : /\ y # x => pc[y] \in {"new", "end"}
                            /\ x < y => pc[y] = "new"
      BY <2>1, <3>1, OneRuns
    <3>3. Alone(1, arrived)
      <4>1. \A y \in Update : y <= arrived => y <= x
        BY <1>0, <2>2, <3>2 DEF Stage, Update
      <4>2. \A y \in 1..arrived : y \in Update
        BY ChatAssumption DEF Update
      <4>. QED
        BY <1>1, <2>2, <4>1, <4>2 DEF Alone
    <3>4. m.preset = made'[u].preset
      BY <2>1, <2>2
    <3>5. what[x] \in Photos /\ m.preset = got[x].preset
      BY <1>0, <1>5, <2>2, <3>4 DEF Asks
    <3>6. got[x] = data
      BY <2>1, <3>3, <3>5 DEF Quiet, AloneAt
    <3>7. pc[v] = "end"
      BY <1>0, <2>1, <2>2, <3>2 DEF Stage
    <3>8. Bystander(v)
      BY <1>0, <3>3, <3>4, <3>5, <3>6, <3>7 DEF LastChoice
    <3>. QED
      BY <1>0, <2>1, <2>2, <3>8 DEF Bystander
  <2>3. CASE u # x
    <3>1. made'[u] = made[u]
      BY <2>1, <2>3
    <3>2. v # x
      BY <1>0, <1>1, <1>3, <2>1, <3>1 DEF Overlap
    <3>. QED
      BY <1>3, <2>1, <3>1, <3>2
  <2>. QED
    BY <2>2, <2>3
<1>6. CASE UNCHANGED <<what, made, asked>>
  BY <1>3, <1>6
<1>. QED
  BY <1>4, <1>5, <1>6 DEF Effect, Chats, Passes, Advances, Stops, Others, FirstRead, ClearState,
     ClearData, ReadForUpdate, WriteData, SetState

-----------------------------------------------------------------------------
ChatInv == /\ IInv /\ Stage /\ Overlap /\ Sources /\ PresetOnce /\ PhotoOnce
           /\ Quiet /\ LastChoice /\ PresetStillChosen

LEMMA InitChatInv == Init => ChatInv
<1>. SUFFICES ASSUME Init PROVE ChatInv
  OBVIOUS
<1>. USE ChatAssumption DEF Init, ChatInit
<1>0. /\ IInv /\ \A u \in Update : u \in Nat /\ u >= 1
      /\ NoData = [photo |-> NoUpdate, preset |-> NoUpdate] /\ NoUpdate \notin Update
  BY InitIInv DEF Update, NoData, NoUpdate
<1>1. Stage
  BY <1>0 DEF Stage
<1>2. Overlap
  BY <1>0 DEF Overlap, Running
<1>3. Sources
  BY <1>0 DEF Sources, Known
<1>4. PresetOnce /\ PhotoOnce
  BY <1>0 DEF PresetOnce, PhotoOnce, Cleared
<1>5. Quiet
  BY <1>0 DEF Quiet, AloneAt, Match
<1>6. LastChoice
  BY <1>0 DEF LastChoice
<1>7. PresetStillChosen
  BY <1>0 DEF PresetStillChosen
<1>. QED
  BY <1>0, <1>1, <1>2, <1>3, <1>4, <1>5, <1>6, <1>7 DEF ChatInv

LEMMA NextChatInv == ChatInv /\ [Next]_vars => ChatInv'
<1>. SUFFICES ASSUME ChatInv, [Next]_vars PROVE ChatInv'
  OBVIOUS
<1>. USE DEF ChatInv
<1>1. IInv' /\ Effect
  BY NextIInv, Effects
<1>2. ChatTypeOK /\ ChatTypeOK'
  BY <1>1 DEF IInv
<1>3. Stage' /\ Overlap'
  BY <1>1, <1>2, StageKept, OverlapKept
<1>4. Sources' /\ PresetOnce' /\ PhotoOnce'
  BY <1>1, <1>2, SourcesKept, PresetOnceKept, PhotoOnceKept
<1>5. Quiet' /\ LastChoice' /\ PresetStillChosen'
  BY <1>1, <1>2, <1>3, QuietKept, LastChoiceKept, StillChosenKept
<1>. QED
  BY <1>1, <1>3, <1>4, <1>5

LEMMA ChatInductive == Spec => []ChatInv
BY InitChatInv, NextChatInv, PTL DEF Spec

LEMMA OnceFromInv == ChatInv => OneChargePerChoice
<1>. SUFFICES ASSUME ChatInv, NEW u \in charged, NEW v \in charged, u < v
              PROVE  /\ made[u].preset = made[v].preset /\ made[u].preset # NoUpdate => v \in met[u]
                     /\ made[u].photo = made[v].photo /\ made[u].photo # NoUpdate =>
                          v \in met[u] \/ MetChoice(u)
  BY DEF OneChargePerChoice, MetChoice
<1>1. u \in Update /\ v \in asked \ {u} /\ Cleared(u)
  BY DEF ChatInv, IInv, MoneyTypeOK, Stage, Cleared, Update
<1>. QED
  BY <1>1 DEF ChatInv, PresetOnce, PhotoOnce, Together

(* A choice is charged for once: a preset by handlers at work together at  *)
(* most, and a photo too, unless a preset's handler that had read the data *)
(* wrote it back (bot/handlers/photo.py:36-53, presets.py:81-107).         *)
THEOREM ChoicesChargedOnce == Spec => []OneChargePerChoice
BY ChatInductive, OnceFromInv, PTL

(* With one update at a time, a preset that is applied to a photo has not  *)
(* been cancelled, used or replaced since it was chosen                    *)
(* (bot/handlers/photo.py:36-77, presets.py:68-107).                       *)
THEOREM AppliedIsChosen == Spec => []PresetStillChosen
<1>1. ChatInv => PresetStillChosen
  BY DEF ChatInv
<1>. QED
  BY <1>1, ChatInductive, PTL

(* With one update at a time, the state of an idle chat says what its data *)
(* holds (bot/handlers/photo.py:119-129, presets.py:106-117).              *)
THEOREM StateFitsData == Spec => []StateMatchesData
<1>1. ChatInv => StateMatchesData
  BY DEF ChatInv, Quiet, Match, StateMatchesData
<1>. QED
  BY <1>1, ChatInductive, PTL
=============================================================================
