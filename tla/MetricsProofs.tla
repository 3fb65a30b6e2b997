---------------------------- MODULE MetricsProofs ----------------------------
(***************************************************************************)
(* Theorems about MetricsAccumulator, for any number of processes, records *)
(* and scrapes, and any number of failures and killed processes.           *)
(***************************************************************************)
EXTENDS MetricsAccumulator, TLAPS

Causes == {"send failed", "read failed", "killed", "cut short"}

ControlOK ==
  /\ pc \in [Process -> {"idle", "scrape", "scrape sends", "close", "close sends", "events",
                         "queue", "buckets", "shown", "own", "closed", "down"}]
  /\ flusher \in [Process -> {"none", "waits", "sends"}]
  /\ why \in [Process -> SUBSET Causes]

(* The books of one process, counter by counter.                           *)
Books(a) ==
  \A k \in Counter :
    recorded[a][k] = sent[a][k] + pending[a].n[k] + batch[a]["loop"].n[k]
                       + batch[a]["flusher"].n[k] + lost[a][k]

(* Whoever is not sending has nothing in hand, and nothing is pending      *)
(* after the flush of the shutdown.                                        *)
Hands(a) ==
  /\ flusher[a] # "sends" => batch[a]["flusher"].n = None
  /\ ~Sending(a) => batch[a]["loop"].n = None
  /\ pc[a] \in {"close sends", "closed"} => pending[a].n = None

Caused(a) == lost[a] # None => why[a] \cap {"send failed", "killed", "cut short"} # {}

Kept(a) == Books(a) /\ Hands(a) /\ Caused(a)

IInv == TypeOK /\ ControlOK /\ \A a \in Process : Kept(a)

LEMMA IInvAccounted == IInv => Accounted
<1>. SUFFICES ASSUME IInv, NEW a \in Process
              PROVE  recorded[a] = Plus(sent[a], Plus(Held(a), lost[a]))
  BY DEF Accounted
<1>1. /\ recorded[a] \in [Counter -> Nat] /\ sent[a] \in [Counter -> Nat]
      /\ lost[a] \in [Counter -> Nat] /\ pending[a].n \in [Counter -> Nat]
      /\ batch[a]["loop"].n \in [Counter -> Nat] /\ batch[a]["flusher"].n \in [Counter -> Nat]
  BY DEF IInv, TypeOK, Batch, Who
<1>2. \A k \in Counter : recorded[a][k] = Plus(sent[a], Plus(Held(a), lost[a]))[k]
  BY <1>1 DEF IInv, Kept, Books, Plus, Held
<1>3. DOMAIN Plus(sent[a], Plus(Held(a), lost[a])) = Counter
  BY DEF Plus
<1>. QED
  BY <1>1, <1>2, <1>3 DEF Plus

LEMMA IInvCaused == IInv => LossHasCause
BY DEF IInv, Kept, Caused, LossHasCause

-----------------------------------------------------------------------------
LEMMA NoneType == None \in [Counter -> Nat] /\ \A k \in Counter : None[k] = 0
BY DEF None

LEMMA EmptyType == Empty \in Batch /\ Empty.n = None
BY NoneType, MetricsAssumption DEF Empty, Batch

LEMMA PlusType ==
  ASSUME NEW f \in [Counter -> Nat], NEW g \in [Counter -> Nat]
  PROVE  /\ Plus(f, g) \in [Counter -> Nat]
         /\ \A k \in Counter : Plus(f, g)[k] = f[k] + g[k]
         /\ f = None => Plus(f, g) = g
BY DEF Plus, None

LEMMA InitIInv == Init => IInv
BY NoneType, EmptyType, MetricsAssumption DEF Init, IInv, TypeOK, ControlOK, Kept, Books,
   Hands, Caused, Sending, Who

(* What a step of process a leaves alone.                                  *)
Others(a) ==
  \A b \in Process \ {a} :
    /\ recorded'[b] = recorded[b] /\ pending'[b] = pending[b] /\ batch'[b] = batch[b]
    /\ sent'[b] = sent[b] /\ lost'[b] = lost[b] /\ flusher'[b] = flusher[b]
    /\ pc'[b] = pc[b] /\ why'[b] = why[b]

LEMMA Local ==
  ASSUME IInv, NEW a \in Process, TypeOK', ControlOK', Others(a), Kept(a)'
  PROVE  IInv'
<1>. SUFFICES ASSUME NEW b \in Process, b # a PROVE Kept(b)'
  BY DEF IInv
<1>1. /\ recorded'[b] = recorded[b] /\ pending'[b] = pending[b] /\ batch'[b] = batch[b]
      /\ sent'[b] = sent[b] /\ lost'[b] = lost[b] /\ flusher'[b] = flusher[b]
      /\ pc'[b] = pc[b] /\ why'[b] = why[b]
  BY DEF Others
<1>2. Kept(b)
  BY DEF IInv
<1>. QED
  BY <1>1, <1>2 DEF Kept, Books, Hands, Caused, Sending

(* The counters of a process, all of them functions to the naturals.       *)
LEMMA CounterTypes ==
  ASSUME IInv, NEW a \in Process
  PROVE  /\ recorded[a] \in [Counter -> Nat] /\ sent[a] \in [Counter -> Nat]
         /\ lost[a] \in [Counter -> Nat] /\ pending[a] \in Batch
         /\ batch[a] \in [Who -> Batch] /\ pending[a].n \in [Counter -> Nat]
         /\ \A w \in Who : batch[a][w].n \in [Counter -> Nat]
BY DEF IInv, TypeOK, Batch

-----------------------------------------------------------------------------
LEMMA RecordKeeps ==
  ASSUME IInv, NEW a \in Process, NEW kind \in DOMAIN Counts, Record(a, kind)
  PROVE  IInv' /\ Others(a)
<1>. DEFINE one == [k \in Counter |-> IF k \in Counts[kind] THEN 1 ELSE 0]
            first == pending[a].infFirst \/ (kind = "slow" /\ pending[a].n["inf"] = 0)
<1>1. /\ pc[a] = "idle" /\ one \in [Counter -> Nat] /\ first \in BOOLEAN
      /\ recorded' = [recorded EXCEPT ![a] = Plus(@, one)]
      /\ pending' = [pending EXCEPT ![a].n = Plus(@, one), ![a].infFirst = first]
      /\ UNCHANGED <<batch, pc, seen, sent, hash, queue, scrapes, held, lost, why, faults>>
  BY DEF Record
<1>2. flusher' = flusher \/ (flusher[a] = "none" /\ flusher' = [flusher EXCEPT ![a] = "waits"])
  BY DEF Record, EnsureFlusher
<1>. HIDE DEF one, first
<1>3. /\ recorded' = [recorded EXCEPT ![a] = Plus(recorded[a], one)]
      /\ Plus(recorded[a], one) \in [Counter -> Nat]
      /\ Plus(pending[a].n, one) \in [Counter -> Nat]
      /\ \A k \in Counter : /\ Plus(recorded[a], one)[k] = recorded[a][k] + one[k]
                            /\ Plus(pending[a].n, one)[k] = pending[a].n[k] + one[k]
                            /\ one[k] \in Nat
  BY <1>1, CounterTypes, PlusType
<1>. DEFINE entry == [pending[a] EXCEPT !.n = Plus(pending[a].n, one), !.infFirst = first]
<1>4. /\ pending' = [pending EXCEPT ![a] = entry]
      /\ entry \in Batch /\ entry.n = Plus(pending[a].n, one)
  <2>1. pending[a] \in Batch /\ pending \in [Process -> Batch]
    BY DEF IInv, TypeOK
  <2>2. entry \in Batch
    BY <1>1, <1>3, <2>1 DEF Batch
  <2>3. entry.n = Plus(pending[a].n, one)
    BY <2>1 DEF Batch
  <2>4. pending' = [pending EXCEPT ![a] = entry]
    BY <1>1, <2>1
  <2>. QED
    BY <2>2, <2>3, <2>4
<1>. HIDE DEF entry
<1>5. TypeOK' /\ ControlOK'
  <2>1. recorded' \in [Process -> [Counter -> Nat]] /\ pending' \in [Process -> Batch]
    BY <1>3, <1>4 DEF IInv, TypeOK
  <2>2. flusher' \in [Process -> {"none", "waits", "sends"}]
    BY <1>2 DEF IInv, ControlOK
  <2>. QED
    BY <1>1, <2>1, <2>2 DEF IInv, TypeOK, ControlOK
<1>6. Others(a)
  BY <1>1, <1>2, <1>3, <1>4 DEF Others, IInv, TypeOK, ControlOK
<1>7. Books(a)'
  BY <1>1, <1>3, <1>4, CounterTypes DEF IInv, Kept, Books, TypeOK, Who
<1>8. Hands(a)' /\ Caused(a)'
  BY <1>1, <1>2 DEF IInv, Kept, Hands, Caused, Sending, ControlOK
<1>. QED
  BY <1>5, <1>6, <1>7, <1>8, Local DEF Kept

(* A batch is taken by hands that were empty.                              *)
LEMMA TakeBooks ==
  ASSUME IInv, NEW a \in Process, NEW w \in Who, Take(a, w), batch[a][w].n = None,
         UNCHANGED <<recorded, sent, lost>>
  PROVE  /\ pending' \in [Process -> Batch] /\ batch' \in [Process -> [Who -> Batch]]
         /\ pending'[a].n = None /\ Books(a)'
         /\ \A b \in Process \ {a} : pending'[b] = pending[b] /\ batch'[b] = batch[b]
         /\ \A v \in Who \ {w} : batch'[a][v] = batch[a][v]
<1>1. /\ batch' = [batch EXCEPT ![a][w] = pending[a]] /\ pending' = [pending EXCEPT ![a] = Empty]
      /\ pending \in [Process -> Batch] /\ batch \in [Process -> [Who -> Batch]]
  BY DEF Take, IInv, TypeOK
<1>2. /\ batch'[a][w].n = pending[a].n /\ pending'[a].n = None
      /\ \A v \in Who \ {w} : batch'[a][v] = batch[a][v]
  BY <1>1, EmptyType
<1>3. Books(a)'
  <2>. SUFFICES ASSUME NEW k \in Counter
                PROVE  recorded[a][k] = sent[a][k] + pending'[a].n[k] + batch'[a]["loop"].n[k]
                         + batch'[a]["flusher"].n[k] + lost[a][k]
    BY DEF Books
  <2>1. recorded[a][k] = sent[a][k] + pending[a].n[k] + batch[a]["loop"].n[k]
                           + batch[a]["flusher"].n[k] + lost[a][k]
    BY DEF IInv, Kept, Books
  <2>2. pending'[a].n[k] = 0 /\ batch[a][w].n[k] = 0 /\ batch'[a][w].n[k] = pending[a].n[k]
    BY <1>2, NoneType
  <2>3. /\ sent[a][k] \in Nat /\ lost[a][k] \in Nat /\ pending[a].n[k] \in Nat
        /\ batch[a]["loop"].n[k] \in Nat /\ batch[a]["flusher"].n[k] \in Nat
    BY CounterTypes DEF Who
  <2>4. CASE w = "loop"
    BY <1>2, <2>1, <2>2, <2>3, <2>4 DEF Who
  <2>5. CASE w = "flusher"
    BY <1>2, <2>1, <2>2, <2>3, <2>5 DEF Who
  <2>. QED
    BY <2>4, <2>5 DEF Who
<1>4. pending' \in [Process -> Batch] /\ batch' \in [Process -> [Who -> Batch]]
  BY <1>1, EmptyType
<1>. QED
  BY <1>1, <1>2, <1>3, <1>4

LEMMA FlusherTakesKeeps ==
  ASSUME IInv, NEW a \in Process, FlusherTakes(a)
  PROVE  IInv' /\ Others(a)
<1>1. /\ flusher[a] = "waits" /\ flusher' = [flusher EXCEPT ![a] = "sends"] /\ Take(a, "flusher")
      /\ UNCHANGED <<recorded, pc, sent, hash, queue, scrapes, held, lost, why>>
  BY DEF FlusherTakes
<1>2. batch[a]["flusher"].n = None /\ "flusher" \in Who
  BY <1>1 DEF IInv, Kept, Hands, Who
<1>3. /\ pending' \in [Process -> Batch] /\ batch' \in [Process -> [Who -> Batch]]
      /\ pending'[a].n = None /\ Books(a)' /\ batch'[a]["loop"] = batch[a]["loop"]
      /\ \A b \in Process \ {a} : pending'[b] = pending[b] /\ batch'[b] = batch[b]
  BY <1>1, <1>2, TakeBooks DEF Who
<1>4. TypeOK' /\ ControlOK' /\ Others(a)
  BY <1>1, <1>3 DEF IInv, TypeOK, ControlOK, Others
<1>5. Hands(a)' /\ Caused(a)'
  BY <1>1, <1>3 DEF IInv, Kept, Hands, Caused, Sending, ControlOK
<1>. QED
  BY <1>3, <1>4, <1>5, Local DEF Kept

LEMMA LoopTakesKeeps ==
  ASSUME IInv, NEW a \in Process, LoopTakes(a)
  PROVE  IInv' /\ Others(a)
<1>1. /\ pc[a] \in {"scrape", "close"} /\ Take(a, "loop")
      /\ pc' = [pc EXCEPT ![a] = IF pc[a] = "scrape" THEN "scrape sends" ELSE "close sends"]
      /\ held' = [held EXCEPT ![a] = batch[a]["flusher"].n]
      /\ UNCHANGED <<recorded, flusher, sent, hash, queue, scrapes, lost, why>>
  BY DEF LoopTakes
<1>2. batch[a]["loop"].n = None /\ "loop" \in Who
  BY <1>1 DEF IInv, Kept, Hands, Sending, Who
<1>3. /\ pending' \in [Process -> Batch] /\ batch' \in [Process -> [Who -> Batch]]
      /\ pending'[a].n = None /\ Books(a)' /\ batch'[a]["flusher"] = batch[a]["flusher"]
      /\ \A b \in Process \ {a} : pending'[b] = pending[b] /\ batch'[b] = batch[b]
  BY <1>1, <1>2, TakeBooks DEF Who
<1>4. held' \in [Process -> [Counter -> Nat]]
  BY <1>1, CounterTypes DEF IInv, TypeOK, Who
<1>5. TypeOK' /\ ControlOK' /\ Others(a)
  BY <1>1, <1>3, <1>4 DEF IInv, TypeOK, ControlOK, Others
<1>6. Hands(a)' /\ Caused(a)'
  BY <1>1, <1>3 DEF IInv, Kept, Hands, Caused, Sending, ControlOK
<1>. QED
  BY <1>3, <1>5, <1>6, Local DEF Kept

-----------------------------------------------------------------------------
(* The next command of a pipeline moves a counter to Redis.                *)
LEMMA ApplyBooks ==
  ASSUME IInv, NEW a \in Process, NEW w \in Who, Apply(a, w), UNCHANGED <<recorded, pending, lost>>
  PROVE  /\ sent' \in [Process -> [Counter -> Nat]] /\ batch' \in [Process -> [Who -> Batch]]
         /\ queue' \in 0..MaxScrapes /\ hash' \in [Counter -> Nat] /\ Books(a)'
         /\ \A b \in Process \ {a} : sent'[b] = sent[b] /\ batch'[b] = batch[b]
         /\ \A v \in Who \ {w} : batch'[a][v] = batch[a][v]
<1>1. /\ sent \in [Process -> [Counter -> Nat]] /\ batch \in [Process -> [Who -> Batch]]
      /\ batch[a][w] \in Batch
  BY DEF IInv, TypeOK
<1>2. CASE /\ queue' = batch[a][w].queue /\ sent' = sent /\ hash' = hash
           /\ batch' = [batch EXCEPT ![a][w].queue = 0]
  <2>1. /\ batch' \in [Process -> [Who -> Batch]] /\ batch'[a][w].n = batch[a][w].n
        /\ \A v \in Who \ {w} : batch'[a][v] = batch[a][v]
        /\ \A b \in Process \ {a} : batch'[b] = batch[b]
    <3>. DEFINE sentQueue == [batch[a][w] EXCEPT !.queue = 0]
    <3>1. sentQueue \in Batch /\ sentQueue.n = batch[a][w].n
      <4>1. 0 \in 0..MaxScrapes
        BY MetricsAssumption
      <4>2. sentQueue \in Batch
        BY <1>1, <4>1 DEF Batch
      <4>. QED
        BY <1>1, <4>2 DEF Batch
    <3>2. batch' = [batch EXCEPT ![a][w] = sentQueue]
      BY <1>1, <1>2
    <3>. HIDE DEF sentQueue
    <3>. QED
      BY <1>1, <3>1, <3>2
  <2>2. \A v \in Who : batch'[a][v].n = batch[a][v].n
    BY <2>1
  <2>3. Books(a)'
    BY <1>2, <2>2 DEF IInv, Kept, Books, Who
  <2>4. queue' \in 0..MaxScrapes /\ hash' \in [Counter -> Nat]
    BY <1>1, <1>2 DEF Batch, IInv, TypeOK
  <2>. QED
    BY <1>1, <1>2, <2>1, <2>3, <2>4
<1>3. CASE \E k \in Counter : /\ hash' = [hash EXCEPT ![k] = @ + batch[a][w].n[k]]
                              /\ sent' = [sent EXCEPT ![a][k] = @ + batch[a][w].n[k]]
                              /\ batch' = [batch EXCEPT ![a][w].n[k] = 0] /\ UNCHANGED queue
  <2>1. PICK k \in Counter : /\ hash' = [hash EXCEPT ![k] = @ + batch[a][w].n[k]]
                             /\ sent' = [sent EXCEPT ![a][k] = @ + batch[a][w].n[k]]
                             /\ batch' = [batch EXCEPT ![a][w].n[k] = 0] /\ UNCHANGED queue
    BY <1>3
  <2>2. batch[a][w].n \in [Counter -> Nat] /\ sent[a][k] + batch[a][w].n[k] \in Nat
    BY <1>1 DEF Batch
  <2>. DEFINE rest == [batch[a][w].n EXCEPT ![k] = 0]
  <2>3. /\ sent' \in [Process -> [Counter -> Nat]] /\ batch' \in [Process -> [Who -> Batch]]
        /\ batch'[a][w].n = rest
        /\ \A v \in Who \ {w} : batch'[a][v] = batch[a][v]
        /\ \A b \in Process \ {a} : sent'[b] = sent[b] /\ batch'[b] = batch[b]
    BY <1>1, <2>1, <2>2 DEF Batch
  <2>4. Books(a)'
    <3>. SUFFICES ASSUME NEW j \in Counter
                  PROVE  recorded[a][j] = sent'[a][j] + pending[a].n[j] + batch'[a]["loop"].n[j]
                           + batch'[a]["flusher"].n[j] + lost[a][j]
      BY DEF Books
    <3>1. recorded[a][j] = sent[a][j] + pending[a].n[j] + batch[a]["loop"].n[j]
                             + batch[a]["flusher"].n[j] + lost[a][j]
      BY DEF IInv, Kept, Books
    <3>2. /\ sent[a][j] \in Nat /\ lost[a][j] \in Nat /\ pending[a].n[j] \in Nat
          /\ batch[a]["loop"].n[j] \in Nat /\ batch[a]["flusher"].n[j] \in Nat
      BY CounterTypes DEF Who
    <3>3. sent'[a][j] + batch'[a][w].n[j] = sent[a][j] + batch[a][w].n[j]
      BY <1>1, <2>1, <2>2, <2>3
    <3>4. batch'[a][w].n[j] \in Nat /\ sent'[a][j] \in Nat
      BY <2>2, <2>3
    <3>. HIDE DEF rest
    <3>5. CASE w = "loop"
      <4>1. batch'[a]["flusher"].n[j] = batch[a]["flusher"].n[j]
        BY <2>3, <3>5 DEF Who
      <4>. QED
        BY <3>1, <3>2, <3>3, <3>4, <3>5, <4>1
    <3>6. CASE w = "flusher"
      <4>1. batch'[a]["loop"].n[j] = batch[a]["loop"].n[j]
        BY <2>3, <3>6 DEF Who
      <4>. QED
        BY <3>1, <3>2, <3>3, <3>4, <3>6, <4>1
    <3>. QED
      BY <3>5, <3>6 DEF Who
  <2>5. queue' \in 0..MaxScrapes /\ hash' \in [Counter -> Nat]
    BY <2>1, <2>2 DEF IInv, TypeOK
  <2>. QED
    BY <2>3, <2>4, <2>5
<1>. QED
  BY <1>2, <1>3 DEF Apply, First

LEMMA FlusherAppliesKeeps ==
  ASSUME IInv, NEW a \in Process, FlusherApplies(a)
  PROVE  IInv' /\ Others(a)
<1>1. /\ flusher[a] = "sends" /\ Apply(a, "flusher")
      /\ UNCHANGED <<recorded, pending, flusher, pc, scrapes, held, lost, why>>
  BY DEF FlusherApplies
<1>2. /\ sent' \in [Process -> [Counter -> Nat]] /\ batch' \in [Process -> [Who -> Batch]]
      /\ queue' \in 0..MaxScrapes /\ hash' \in [Counter -> Nat] /\ Books(a)'
      /\ batch'[a]["loop"] = batch[a]["loop"]
      /\ \A b \in Process \ {a} : sent'[b] = sent[b] /\ batch'[b] = batch[b]
  BY <1>1, ApplyBooks DEF Who
<1>3. TypeOK' /\ ControlOK' /\ Others(a)
  BY <1>1, <1>2 DEF IInv, TypeOK, ControlOK, Others
<1>4. Hands(a)' /\ Caused(a)'
  BY <1>1, <1>2 DEF IInv, Kept, Hands, Caused, Sending
<1>. QED
  BY <1>2, <1>3, <1>4, Local DEF Kept

LEMMA LoopAppliesKeeps ==
  ASSUME IInv, NEW a \in Process, LoopApplies(a)
  PROVE  IInv' /\ Others(a)
<1>1. /\ Sending(a) /\ Apply(a, "loop")
      /\ UNCHANGED <<recorded, pending, flusher, pc, scrapes, held, lost, why>>
  BY DEF LoopApplies
<1>2. /\ sent' \in [Process -> [Counter -> Nat]] /\ batch' \in [Process -> [Who -> Batch]]
      /\ queue' \in 0..MaxScrapes /\ hash' \in [Counter -> Nat] /\ Books(a)'
      /\ batch'[a]["flusher"] = batch[a]["flusher"]
      /\ \A b \in Process \ {a} : sent'[b] = sent[b] /\ batch'[b] = batch[b]
  BY <1>1, ApplyBooks DEF Who
<1>3. TypeOK' /\ ControlOK' /\ Others(a)
  BY <1>1, <1>2 DEF IInv, TypeOK, ControlOK, Others
<1>4. Hands(a)' /\ Caused(a)'
  BY <1>1, <1>2 DEF IInv, Kept, Hands, Caused, Sending
<1>. QED
  BY <1>2, <1>3, <1>4, Local DEF Kept

-----------------------------------------------------------------------------
(* A pipeline that fails moves what is left of a batch to the losses.      *)
LEMMA DropBooks ==
  ASSUME IInv, NEW a \in Process, NEW w \in Who, Drop(a, w), UNCHANGED <<recorded, pending, sent>>
  PROVE  /\ lost' \in [Process -> [Counter -> Nat]] /\ batch' \in [Process -> [Who -> Batch]]
         /\ why' \in [Process -> SUBSET Causes] /\ Books(a)' /\ Caused(a)'
         /\ batch'[a][w].n = None
         /\ \A v \in Who \ {w} : batch'[a][v] = batch[a][v]
         /\ \A b \in Process \ {a} : lost'[b] = lost[b] /\ batch'[b] = batch[b] /\ why'[b] = why[b]
<1>1. /\ why' = [why EXCEPT ![a] = @ \cup {"send failed"}]
      /\ lost' = [lost EXCEPT ![a] = Plus(lost[a], batch[a][w].n)]
      /\ batch' = [batch EXCEPT ![a][w] = Empty]
      /\ why \in [Process -> SUBSET Causes] /\ lost \in [Process -> [Counter -> Nat]]
      /\ batch \in [Process -> [Who -> Batch]]
  BY DEF Drop, Fault, Lose, IInv, TypeOK, ControlOK
<1>2. /\ Plus(lost[a], batch[a][w].n) \in [Counter -> Nat]
      /\ \A k \in Counter : Plus(lost[a], batch[a][w].n)[k] = lost[a][k] + batch[a][w].n[k]
  BY PlusType, CounterTypes
<1>3. /\ batch' \in [Process -> [Who -> Batch]] /\ batch'[a][w].n = None
      /\ \A v \in Who \ {w} : batch'[a][v] = batch[a][v]
  BY <1>1, EmptyType
<1>4. why' \in [Process -> SUBSET Causes] /\ Caused(a)'
  BY <1>1 DEF Causes, Caused
<1>5. Books(a)'
  <2>. SUFFICES ASSUME NEW k \in Counter
                PROVE  recorded[a][k] = sent[a][k] + pending[a].n[k] + batch'[a]["loop"].n[k]
                         + batch'[a]["flusher"].n[k] + lost'[a][k]
    BY DEF Books
  <2>1. recorded[a][k] = sent[a][k] + pending[a].n[k] + batch[a]["loop"].n[k]
                           + batch[a]["flusher"].n[k] + lost[a][k]
    BY DEF IInv, Kept, Books
  <2>2. batch'[a][w].n[k] = 0 /\ lost'[a][k] = lost[a][k] + batch[a][w].n[k]
    BY <1>1, <1>2, <1>3, NoneType
  <2>3. /\ sent[a][k] \in Nat /\ lost[a][k] \in Nat /\ pending[a].n[k] \in Nat
        /\ batch[a]["loop"].n[k] \in Nat /\ batch[a]["flusher"].n[k] \in Nat
    BY CounterTypes DEF Who
  <2>4. CASE w = "loop"
    BY <1>3, <2>1, <2>2, <2>3, <2>4 DEF Who
  <2>5. CASE w = "flusher"
    BY <1>3, <2>1, <2>2, <2>3, <2>5 DEF Who
  <2>. QED
    BY <2>4, <2>5 DEF Who
<1>. QED
  BY <1>1, <1>2, <1>3, <1>4, <1>5

LEMMA FlusherFailsKeeps ==
  ASSUME IInv, NEW a \in Process, FlusherFails(a)
  PROVE  IInv' /\ Others(a)
<1>1. /\ flusher[a] = "sends" /\ Drop(a, "flusher")
      /\ UNCHANGED <<recorded, pending, flusher, pc, sent, hash, queue, scrapes, held>>
  BY DEF FlusherFails
<1>2. /\ lost' \in [Process -> [Counter -> Nat]] /\ batch' \in [Process -> [Who -> Batch]]
      /\ why' \in [Process -> SUBSET Causes] /\ Books(a)' /\ Caused(a)'
      /\ batch'[a]["loop"] = batch[a]["loop"]
      /\ \A b \in Process \ {a} : lost'[b] = lost[b] /\ batch'[b] = batch[b] /\ why'[b] = why[b]
  BY <1>1, DropBooks DEF Who
<1>3. TypeOK' /\ ControlOK' /\ Others(a)
  BY <1>1, <1>2 DEF IInv, TypeOK, ControlOK, Others
<1>4. Hands(a)'
  BY <1>1, <1>2 DEF IInv, Kept, Hands, Sending
<1>. QED
  BY <1>2, <1>3, <1>4, Local DEF Kept

LEMMA LoopFailsKeeps ==
  ASSUME IInv, NEW a \in Process, LoopFails(a)
  PROVE  IInv' /\ Others(a)
<1>1. /\ Sending(a) /\ Drop(a, "loop")
      /\ UNCHANGED <<recorded, pending, flusher, pc, sent, hash, queue, scrapes, held>>
  BY DEF LoopFails
<1>2. /\ lost' \in [Process -> [Counter -> Nat]] /\ batch' \in [Process -> [Who -> Batch]]
      /\ why' \in [Process -> SUBSET Causes] /\ Books(a)' /\ Caused(a)'
      /\ batch'[a]["flusher"] = batch[a]["flusher"]
      /\ \A b \in Process \ {a} : lost'[b] = lost[b] /\ batch'[b] = batch[b] /\ why'[b] = why[b]
  BY <1>1, DropBooks DEF Who
<1>3. TypeOK' /\ ControlOK' /\ Others(a)
  BY <1>1, <1>2 DEF IInv, TypeOK, ControlOK, Others
<1>4. Hands(a)'
  BY <1>1, <1>2 DEF IInv, Kept, Hands, Sending
<1>. QED
  BY <1>2, <1>3, <1>4, Local DEF Kept

-----------------------------------------------------------------------------
(* The steps that move no counter.                                         *)
Quiet(a) ==
  \/ FlusherWaits(a) \/ FlusherStops(a) \/ LoopSent(a) \/ BeginScrape(a)
  \/ Read(a) \/ ReadFails(a) \/ Answer(a) \/ Close(a)

LEMMA QuietCounters ==
  ASSUME IInv, NEW a \in Process, Quiet(a)
  PROVE  /\ UNCHANGED <<recorded, batch, sent, hash, lost>>
         /\ pending' \in [Process -> Batch] /\ \A b \in Process : pending'[b].n = pending[b].n
         /\ \A b \in Process \ {a} : pending'[b] = pending[b]
         /\ queue' \in 0..MaxScrapes /\ scrapes' \in 0..MaxScrapes
         /\ held' \in [Process -> [Counter -> Nat]]
<1>0. /\ pending \in [Process -> Batch] /\ held \in [Process -> [Counter -> Nat]]
      /\ scrapes \in 0..MaxScrapes /\ queue \in 0..MaxScrapes
  BY DEF IInv, TypeOK
<1>1. CASE BeginScrape(a)
  <2>1. /\ scrapes' = scrapes + 1 /\ scrapes' \in 0..MaxScrapes
        /\ pending' = [pending EXCEPT ![a].queue = scrapes']
        /\ UNCHANGED <<recorded, batch, sent, hash, queue, held, lost>>
    BY <1>0, <1>1, MetricsAssumption DEF BeginScrape
  <2>. DEFINE entry == [pending[a] EXCEPT !.queue = scrapes']
  <2>2. entry \in Batch /\ entry.n = pending[a].n
    <3>1. entry \in Batch
      BY <1>0, <2>1 DEF Batch
    <3>. QED
      BY <1>0, <3>1 DEF Batch
  <2>3. pending' = [pending EXCEPT ![a] = entry]
    BY <1>0, <2>1
  <2>. HIDE DEF entry
  <2>. QED
    BY <1>0, <2>1, <2>2, <2>3
<1>2. CASE Answer(a)
  BY <1>0, <1>2, NoneType DEF Answer
<1>3. CASE \/ FlusherWaits(a) \/ FlusherStops(a) \/ LoopSent(a)
           \/ Read(a) \/ ReadFails(a) \/ Close(a)
  BY <1>0, <1>3 DEF FlusherWaits, FlusherStops, LoopSent, Read, ReadFails, Close
<1>. QED
  BY <1>1, <1>2, <1>3 DEF Quiet

LEMMA QuietControl ==
  ASSUME IInv, NEW a \in Process, Quiet(a)
  PROVE  /\ ControlOK' /\ why[a] \subseteq why'[a]
         /\ \A b \in Process \ {a} : flusher'[b] = flusher[b] /\ pc'[b] = pc[b] /\ why'[b] = why[b]
         /\ flusher[a] = "sends" /\ flusher'[a] # "sends" => batch[a]["flusher"].n = None
         /\ Sending(a) /\ ~Sending(a)' => batch[a]["loop"].n = None
         /\ pc'[a] \in {"close sends", "closed"} => pc[a] \in {"close sends", "closed"}
<1>. USE DEF IInv, ControlOK, Causes, Sending
<1>1. CASE FlusherWaits(a)
  BY <1>1 DEF FlusherWaits, Idle
<1>2. CASE FlusherStops(a)
  BY <1>2 DEF FlusherStops
<1>3. CASE LoopSent(a)
  BY <1>3 DEF LoopSent, Idle
<1>4. CASE BeginScrape(a)
  BY <1>4 DEF BeginScrape, EnsureFlusher
<1>5. CASE Read(a)
  <2>1. /\ pc[a] \in {"events", "queue", "buckets"} /\ UNCHANGED <<flusher, why>>
        /\ \E label \in {"queue", "buckets", "shown", "own"} : pc' = [pc EXCEPT ![a] = label]
    <3>1. /\ DOMAIN Reads = {"events", "queue", "buckets"}
          /\ \A label \in DOMAIN Reads : Reads[label] \in {"queue", "buckets", "shown"}
      <4>1. DOMAIN Reads = {"events", "queue", "buckets"}
        BY DEF Reads
      <4>2. Reads["events"] = "queue" /\ Reads["queue"] = "buckets" /\ Reads["buckets"] = "shown"
        BY DEF Reads
      <4>. QED
        BY <4>1, <4>2
    <3>2. /\ pc[a] \in DOMAIN Reads /\ UNCHANGED <<flusher, why>>
          /\ pc' = [pc EXCEPT ![a] =
               IF pc[a] = "buckets" /\ seen[a].events = 0 /\ seen[a].queue = 0
               THEN "own" ELSE Reads[pc[a]]]
      BY <1>5 DEF Read
    <3>. QED
      BY <3>1, <3>2
  <2>. QED
    BY <2>1
<1>6. CASE ReadFails(a)
  BY <1>6 DEF ReadFails, Reads, Fault
<1>7. CASE Answer(a)
  BY <1>7 DEF Answer
<1>8. CASE Close(a)
  BY <1>8 DEF Close
<1>. QED
  BY <1>1, <1>2, <1>3, <1>4, <1>5, <1>6, <1>7, <1>8 DEF Quiet

LEMMA QuietKeeps ==
  ASSUME IInv, NEW a \in Process, Quiet(a)
  PROVE  IInv' /\ Others(a)
<1>1. TypeOK' /\ ControlOK' /\ Others(a)
  BY QuietCounters, QuietControl DEF IInv, TypeOK, Others
<1>2. Books(a)'
  BY QuietCounters DEF IInv, Kept, Books
<1>3. Hands(a)'
  BY QuietCounters, QuietControl DEF IInv, Kept, Hands, Sending
<1>4. Caused(a)'
  BY QuietCounters, QuietControl DEF IInv, Kept, Caused
<1>. QED
  BY <1>1, <1>2, <1>3, <1>4, Local DEF Kept

-----------------------------------------------------------------------------
(* A process that ends loses what it holds.                                *)
LEMMA GoneBooks ==
  ASSUME IInv, NEW a \in Process, Gone(a)
  PROVE  /\ TypeOK' /\ Books(a)' /\ Hands(a)' /\ UNCHANGED <<recorded, sent, hash>>
         /\ pc' = [pc EXCEPT ![a] = "down"] /\ flusher' = [flusher EXCEPT ![a] = "none"]
         /\ lost'[a] = Plus(lost[a], Held(a))
         /\ \A b \in Process \ {a} : lost'[b] = lost[b] /\ batch'[b] = batch[b] /\ pending'[b] = pending[b]
<1>. DEFINE nothing == [w \in Who |-> Empty]
<1>1. /\ pc' = [pc EXCEPT ![a] = "down"] /\ flusher' = [flusher EXCEPT ![a] = "none"]
      /\ pending' = [pending EXCEPT ![a] = Empty] /\ batch' = [batch EXCEPT ![a] = nothing]
      /\ held' = [held EXCEPT ![a] = None] /\ lost' = [lost EXCEPT ![a] = Plus(lost[a], Held(a))]
      /\ UNCHANGED <<recorded, sent, hash, queue, scrapes>>
  BY DEF Gone, Lose
<1>2. /\ Held(a) \in [Counter -> Nat] /\ Plus(lost[a], Held(a)) \in [Counter -> Nat]
      /\ \A k \in Counter : Plus(lost[a], Held(a))[k] =
           lost[a][k] + (pending[a].n[k] + (batch[a]["loop"].n[k] + batch[a]["flusher"].n[k]))
  <2>. DEFINE hands == Plus(batch[a]["loop"].n, batch[a]["flusher"].n)
  <2>1. /\ hands \in [Counter -> Nat]
        /\ \A k \in Counter : hands[k] = batch[a]["loop"].n[k] + batch[a]["flusher"].n[k]
    BY CounterTypes, PlusType DEF Who
  <2>2. Held(a) = Plus(pending[a].n, hands)
    BY DEF Held
  <2>. HIDE DEF hands
  <2>3. /\ Held(a) \in [Counter -> Nat]
        /\ \A k \in Counter : Held(a)[k] = pending[a].n[k] + hands[k]
    BY <2>1, <2>2, CounterTypes, PlusType
  <2>. QED
    BY <2>1, <2>3, CounterTypes, PlusType
<1>3. /\ nothing \in [Who -> Batch] /\ nothing["loop"].n = None /\ nothing["flusher"].n = None
  BY EmptyType DEF Who
<1>. HIDE DEF nothing
<1>4. TypeOK'
  BY <1>1, <1>2, <1>3, EmptyType, NoneType DEF IInv, TypeOK
<1>5. /\ pending'[a].n = None /\ batch'[a]["loop"].n = None /\ batch'[a]["flusher"].n = None
      /\ lost'[a] = Plus(lost[a], Held(a))
  BY <1>1, <1>3, EmptyType DEF IInv, TypeOK
<1>6. Books(a)'
  <2>. SUFFICES ASSUME NEW k \in Counter
                PROVE  recorded[a][k] = sent[a][k] + 0 + 0 + 0 + lost'[a][k]
    BY <1>1, <1>5, NoneType DEF Books
  <2>1. recorded[a][k] = sent[a][k] + pending[a].n[k] + batch[a]["loop"].n[k]
                           + batch[a]["flusher"].n[k] + lost[a][k]
    BY DEF IInv, Kept, Books
  <2>2. /\ sent[a][k] \in Nat /\ lost[a][k] \in Nat /\ pending[a].n[k] \in Nat
        /\ batch[a]["loop"].n[k] \in Nat /\ batch[a]["flusher"].n[k] \in Nat
    BY CounterTypes DEF Who
  <2>. QED
    BY <1>2, <1>5, <2>1, <2>2
<1>7. Hands(a)'
  BY <1>5 DEF Hands
<1>. QED
  BY <1>1, <1>4, <1>5, <1>6, <1>7 DEF IInv, TypeOK

LEMMA GoneOthers ==
  ASSUME IInv, NEW a \in Process, NEW causes, Gone(a), why' = [why EXCEPT ![a] = causes]
  PROVE  Others(a)
<1>. SUFFICES ASSUME NEW b \in Process, b # a
              PROVE  /\ recorded'[b] = recorded[b] /\ pending'[b] = pending[b] /\ batch'[b] = batch[b]
                     /\ sent'[b] = sent[b] /\ lost'[b] = lost[b] /\ flusher'[b] = flusher[b]
                     /\ pc'[b] = pc[b] /\ why'[b] = why[b]
  BY DEF Others
<1>1. /\ recorded' = recorded /\ sent' = sent
      /\ lost'[b] = lost[b] /\ batch'[b] = batch[b] /\ pending'[b] = pending[b]
  BY GoneBooks
<1>2. pc' = [pc EXCEPT ![a] = "down"] /\ flusher' = [flusher EXCEPT ![a] = "none"]
  BY GoneBooks
<1>3. pc'[b] = pc[b] /\ flusher'[b] = flusher[b]
  BY <1>2 DEF IInv, ControlOK
<1>4. why'[b] = why[b]
  BY DEF IInv, ControlOK
<1>. QED
  BY <1>1, <1>3, <1>4

LEMMA ExitKeeps ==
  ASSUME IInv, NEW a \in Process, Exit(a)
  PROVE  IInv' /\ Others(a)
<1>1. /\ pc[a] = "closed" /\ Gone(a)
      /\ why' = [why EXCEPT ![a] = IF flusher[a] = "sends" THEN why[a] \cup {"cut short"} ELSE why[a]]
  BY DEF Exit
<1>2. TypeOK' /\ Books(a)' /\ Hands(a)' /\ ControlOK' /\ Others(a)
  <2>1. ControlOK'
    BY <1>1, GoneBooks DEF IInv, ControlOK, Causes
  <2>2. Others(a)
    BY <1>1, GoneOthers
  <2>. QED
    BY <1>1, <2>1, <2>2, GoneBooks
<1>3. pending[a].n = None /\ batch[a]["loop"].n = None
  BY <1>1 DEF IInv, Kept, Hands, Sending
<1>4. CASE flusher[a] = "sends"
  BY <1>1, <1>2, <1>4, Local DEF IInv, ControlOK, Caused, Kept
<1>5. CASE flusher[a] # "sends"
  <2>1. Held(a) = None
    <3>1. batch[a]["flusher"].n = None
      BY <1>5 DEF IInv, Kept, Hands
    <3>2. Plus(None, None) = None
      BY NoneType, PlusType
    <3>. QED
      BY <1>3, <3>1, <3>2 DEF Held
  <2>2. lost'[a] = lost[a]
    <3>1. lost'[a] = Plus(lost[a], None) /\ lost[a] \in [Counter -> Nat]
      BY <1>1, <2>1, GoneBooks, CounterTypes
    <3>2. Plus(lost[a], None) = lost[a]
      BY <3>1, NoneType DEF Plus
    <3>. QED
      BY <3>1, <3>2
  <2>3. Caused(a)'
    BY <1>1, <1>5, <2>2 DEF IInv, ControlOK, Kept, Caused
  <2>. QED
    BY <1>2, <2>3, Local DEF Kept
<1>. QED
  BY <1>4, <1>5

LEMMA KillKeeps ==
  ASSUME IInv, NEW a \in Process, Kill(a)
  PROVE  IInv' /\ Others(a)
<1>1. Gone(a) /\ why' = [why EXCEPT ![a] = @ \cup {"killed"}]
  BY DEF Kill, Fault
<1>2. TypeOK' /\ Books(a)' /\ Hands(a)' /\ ControlOK' /\ Others(a)
  <2>1. ControlOK'
    BY <1>1, GoneBooks DEF IInv, ControlOK, Causes
  <2>2. Others(a)
    BY <1>1, GoneOthers
  <2>. QED
    BY <1>1, <2>1, <2>2, GoneBooks
<1>3. Caused(a)'
  BY <1>1 DEF IInv, ControlOK, Caused
<1>. QED
  BY <1>2, <1>3, Local DEF Kept

-----------------------------------------------------------------------------
LEMMA NextIInv == IInv /\ [Next]_vars => IInv'
<1>. SUFFICES ASSUME IInv, [Next]_vars PROVE IInv'
  OBVIOUS
<1>1. CASE UNCHANGED vars
  BY <1>1 DEF vars, IInv, TypeOK, ControlOK, Kept, Books, Hands, Caused, Sending
<1>2. CASE \E a \in Process : \E kind \in DOMAIN Counts : Record(a, kind)
  BY <1>2, RecordKeeps
<1>3. CASE \E a \in Process : FlusherTakes(a) \/ FlusherApplies(a) \/ FlusherFails(a)
  BY <1>3, FlusherTakesKeeps, FlusherAppliesKeeps, FlusherFailsKeeps
<1>4. CASE \E a \in Process : LoopTakes(a) \/ LoopApplies(a) \/ LoopFails(a)
  BY <1>4, LoopTakesKeeps, LoopAppliesKeeps, LoopFailsKeeps
<1>5. CASE \E a \in Process : Quiet(a)
  BY <1>5, QuietKeeps
<1>6. CASE \E a \in Process : Exit(a) \/ Kill(a)
  BY <1>6, ExitKeeps, KillKeeps
<1>. QED
  BY <1>1, <1>2, <1>3, <1>4, <1>5, <1>6 DEF Next, Flusher, Flush, Scrape, Quiet

LEMMA Inductive == Spec => []IInv
BY InitIInv, NextIInv, PTL DEF Spec

(* Every event a process recorded is in Redis once, or pending, or in the  *)
(* hands of its loop or its flusher, or lost: no interleaving of the two   *)
(* flushes counts one twice or drops it (prometheus.py:125-180).           *)
THEOREM EventsAccounted == Spec => []Accounted
BY Inductive, IInvAccounted, PTL

(* What is lost has a cause: a pipeline that failed, a process that was    *)
(* killed, or the flusher's batch when the process ended without waiting   *)
(* for it (prometheus.py:183-189).                                         *)
THEOREM LossesCaused == Spec => []LossHasCause
BY Inductive, IInvCaused, PTL

-----------------------------------------------------------------------------
(* What a scrape finds.                                                    *)

(* From its flush to its answer the loop runs nothing else.                *)
Serving(a) == pc[a] \in {"scrape sends", "events", "queue", "buckets", "shown"}

Numbers == [events : Nat, queue : Nat, fast : Nat, inf : Nat]

(* The hashes count at least what they count of one process.               *)
Shared(a) == \A k \in Counter : sent[a][k] <= hash[k]

(* While a scrape is served nothing is pending, and the flusher holds no   *)
(* more than it did when the scrape flushed.                               *)
Behind(a) ==
  Serving(a) => /\ pending[a].n = None
                /\ \A k \in Counter : batch[a]["flusher"].n[k] <= held[a][k]

Counted(a, k) == seen[a][k] + held[a][k] + lost[a][k] >= recorded[a][k]

(* What a scrape has read counts what its process recorded.                *)
Found(a) ==
  /\ pc[a] \in {"queue", "buckets", "shown"} => Counted(a, "events")
  /\ pc[a] = "shown" => Counted(a, "fast") /\ Counted(a, "inf")

ScrapeInv ==
  /\ seen \in [Process -> Numbers]
  /\ \A a \in Process : Shared(a) /\ Behind(a) /\ Found(a)

LEMMA ScrapeInvCounts == ScrapeInv => ScrapeCountsOwn
<1>. SUFFICES ASSUME ScrapeInv, NEW a \in Process, pc[a] = "shown", NEW k \in Counter
              PROVE  Counted(a, k)
  BY DEF ScrapeCountsOwn, Counted
<1>1. Counted(a, "events") /\ Counted(a, "fast") /\ Counted(a, "inf")
  BY DEF ScrapeInv, Found
<1>. QED
  BY <1>1 DEF Counter

LEMMA InitScrape == Init => ScrapeInv
<1>. SUFFICES ASSUME Init PROVE ScrapeInv
  OBVIOUS
<1>1. Unseen \in Numbers
  BY DEF Unseen, Numbers
<1>2. seen \in [Process -> Numbers]
  BY <1>1 DEF Init
<1>3. \A a \in Process : Shared(a)
  BY NoneType DEF Init, Shared
<1>4. \A a \in Process : pc[a] = "idle"
  BY DEF Init
<1>. QED
  BY <1>2, <1>3, <1>4 DEF ScrapeInv, Behind, Found, Serving

(* The numbers of one process.                                             *)
LEMMA NumberTypes ==
  ASSUME IInv, ScrapeInv, NEW a \in Process, NEW k \in Counter
  PROVE  /\ recorded[a][k] \in Nat /\ sent[a][k] \in Nat /\ lost[a][k] \in Nat
         /\ held[a][k] \in Nat /\ hash[k] \in Nat /\ seen[a][k] \in Nat
         /\ pending[a].n[k] \in Nat /\ batch[a]["loop"].n[k] \in Nat
         /\ batch[a]["flusher"].n[k] \in Nat
<1>1. seen[a] \in Numbers /\ held[a] \in [Counter -> Nat] /\ hash \in [Counter -> Nat]
  BY DEF IInv, TypeOK, ScrapeInv
<1>2. seen[a][k] \in Nat
  BY <1>1 DEF Numbers, Counter
<1>. QED
  BY <1>1, <1>2, CounterTypes DEF Who

(* What a step of process a leaves of the scrapes of the others: the       *)
(* hashes may count more.                                                  *)
Aside(a) ==
  /\ \A b \in Process \ {a} : seen'[b] = seen[b] /\ held'[b] = held[b]
  /\ \A b \in Process \ {a} : \A k \in Counter : sent'[b][k] <= hash'[k]

LEMMA ScrapeLocal ==
  ASSUME ScrapeInv, NEW a \in Process, Others(a), Aside(a), seen' \in [Process -> Numbers],
         Shared(a)', Behind(a)', Found(a)'
  PROVE  ScrapeInv'
<1>. SUFFICES ASSUME NEW b \in Process, b # a PROVE Shared(b)' /\ Behind(b)' /\ Found(b)'
  BY DEF ScrapeInv
<1>1. /\ recorded'[b] = recorded[b] /\ pending'[b] = pending[b] /\ batch'[b] = batch[b]
      /\ lost'[b] = lost[b] /\ pc'[b] = pc[b] /\ seen'[b] = seen[b] /\ held'[b] = held[b]
  BY DEF Others, Aside
<1>2. Behind(b) /\ Found(b)
  BY DEF ScrapeInv
<1>3. Shared(b)'
  BY DEF Shared, Aside
<1>4. Behind(b)' /\ Found(b)'
  BY <1>1, <1>2 DEF Behind, Found, Counted, Serving
<1>. QED
  BY <1>3, <1>4

(* The hashes stand still.                                                 *)
LEMMA HashesStay ==
  ASSUME ScrapeInv, NEW a \in Process, UNCHANGED <<sent, hash>>,
         \A b \in Process \ {a} : seen'[b] = seen[b] /\ held'[b] = held[b]
  PROVE  Aside(a) /\ Shared(a)'
BY DEF ScrapeInv, Shared, Aside

-----------------------------------------------------------------------------
LEMMA IdleScrapes ==
  ASSUME IInv, ScrapeInv, NEW a \in Process, Others(a), ~Serving(a)',
         UNCHANGED <<sent, hash>>, seen' \in [Process -> Numbers],
         \A b \in Process \ {a} : seen'[b] = seen[b] /\ held'[b] = held[b]
  PROVE  ScrapeInv'
<1>1. Behind(a)' /\ Found(a)'
  BY DEF Behind, Found, Serving
<1>. QED
  BY <1>1, HashesStay, ScrapeLocal

LEMMA RecordScrapes ==
  ASSUME IInv, ScrapeInv, NEW a \in Process, NEW kind \in DOMAIN Counts, Record(a, kind)
  PROVE  ScrapeInv'
<1>1. pc' = pc /\ pc[a] = "idle" /\ UNCHANGED <<sent, hash, seen, held>>
  BY DEF Record
<1>2. ~Serving(a)' /\ seen' \in [Process -> Numbers]
  BY <1>1 DEF Serving, ScrapeInv
<1>. QED
  BY <1>1, <1>2, RecordKeeps, IdleScrapes

LEMMA FlusherTakesScrapes ==
  ASSUME IInv, ScrapeInv, NEW a \in Process, FlusherTakes(a)
  PROVE  ScrapeInv'
<1>1. UNCHANGED <<recorded, pc, seen, sent, hash, held, lost>> /\ Take(a, "flusher")
  BY DEF FlusherTakes
<1>2. seen' \in [Process -> Numbers] /\ Found(a)'
  BY <1>1 DEF ScrapeInv, Found, Counted
<1>3. Behind(a)'
  <2>. SUFFICES ASSUME Serving(a)
                PROVE  /\ pending'[a].n = None
                       /\ \A k \in Counter : batch'[a]["flusher"].n[k] <= held[a][k]
    BY <1>1 DEF Behind, Serving
  <2>1. pending[a].n = None
    BY DEF ScrapeInv, Behind
  <2>2. batch'[a]["flusher"] = pending[a] /\ pending'[a] = Empty
    BY <1>1 DEF Take, IInv, TypeOK, Who
  <2>3. \A k \in Counter : batch'[a]["flusher"].n[k] = 0
    BY <2>1, <2>2, NoneType
  <2>. QED
    BY <2>2, <2>3, EmptyType, NumberTypes
<1>. QED
  BY <1>1, <1>2, <1>3, FlusherTakesKeeps, HashesStay, ScrapeLocal

(* The next command of a pipeline: what Redis counts for the process and   *)
(* in all grows alike, what the flusher holds does not grow.               *)
LEMMA ApplyScrapes ==
  ASSUME IInv, ScrapeInv, NEW a \in Process, NEW w \in Who, Apply(a, w), Others(a),
         UNCHANGED <<recorded, pending, pc, seen, held, lost>>
  PROVE  ScrapeInv'
<1>1. /\ seen' \in [Process -> Numbers] /\ Found(a)'
      /\ \A b \in Process \ {a} : seen'[b] = seen[b] /\ held'[b] = held[b]
  BY DEF ScrapeInv, Found, Counted
<1>2. /\ batch \in [Process -> [Who -> Batch]] /\ batch[a][w] \in Batch
      /\ sent \in [Process -> [Counter -> Nat]] /\ hash \in [Counter -> Nat]
  BY DEF IInv, TypeOK
<1>3. CASE /\ sent' = sent /\ hash' = hash /\ batch' = [batch EXCEPT ![a][w].queue = 0]
  <2>1. batch'[a]["flusher"].n = batch[a]["flusher"].n
    BY <1>2, <1>3 DEF Who, Batch
  <2>2. Behind(a)'
    BY <2>1 DEF ScrapeInv, Behind, Serving
  <2>. QED
    BY <1>1, <1>3, <2>2, HashesStay, ScrapeLocal
<1>4. CASE \E k \in Counter : /\ hash' = [hash EXCEPT ![k] = @ + batch[a][w].n[k]]
                              /\ sent' = [sent EXCEPT ![a][k] = @ + batch[a][w].n[k]]
                              /\ batch' = [batch EXCEPT ![a][w].n[k] = 0]
  <2>1. PICK k \in Counter : /\ hash' = [hash EXCEPT ![k] = @ + batch[a][w].n[k]]
                             /\ sent' = [sent EXCEPT ![a][k] = @ + batch[a][w].n[k]]
                             /\ batch' = [batch EXCEPT ![a][w].n[k] = 0]
    BY <1>4
  <2>. DEFINE count == batch[a][w].n[k]
  <2>2. count \in Nat
    BY <1>2 DEF Batch
  <2>. HIDE DEF count
  <2>3. /\ hash' = [hash EXCEPT ![k] = hash[k] + count]
        /\ sent' = [sent EXCEPT ![a][k] = sent[a][k] + count]
    BY <2>1 DEF count
  <2>4. \A b \in Process : Shared(b)'
    <3>. SUFFICES ASSUME NEW b \in Process, NEW j \in Counter
                  PROVE  sent'[b][j] <= hash'[j]
      BY DEF Shared
    <3>1. /\ sent[b][j] <= hash[j] /\ sent[b][j] \in Nat /\ hash[j] \in Nat
          /\ sent[b] \in [Counter -> Nat]
      BY <1>2 DEF ScrapeInv, Shared
    <3>2. CASE j # k
      <4>1. sent'[b][j] = sent[b][j] /\ hash'[j] = hash[j]
        BY <1>2, <2>3, <3>2
      <4>. QED
        BY <3>1, <4>1
    <3>3. CASE j = k
      <4>1. hash'[j] = hash[j] + count
        BY <1>2, <2>3, <3>3
      <4>2. sent'[b][j] = sent[b][j] + count \/ sent'[b][j] = sent[b][j]
        BY <1>2, <2>3, <3>3
      <4>. QED
        BY <2>2, <3>1, <4>1, <4>2
    <3>. QED
      BY <3>2, <3>3
  <2>5. Behind(a)'
    <3>. SUFFICES ASSUME Serving(a), NEW j \in Counter
                  PROVE  batch'[a]["flusher"].n[j] <= held[a][j]
      BY DEF ScrapeInv, Behind, Serving
    <3>1. /\ batch[a]["flusher"].n[j] <= held[a][j] /\ batch[a]["flusher"].n[j] \in Nat
          /\ held[a][j] \in Nat
      BY NumberTypes DEF ScrapeInv, Behind
    <3>2. /\ batch[a] \in [Who -> Batch] /\ batch[a]["flusher"].n \in [Counter -> Nat]
          /\ batch[a]["flusher"] \in Batch
      BY <1>2 DEF Who, Batch
    <3>3. CASE w = "flusher"
      <4>1. batch'[a]["flusher"].n = [batch[a]["flusher"].n EXCEPT ![k] = 0]
        BY <1>2, <2>1, <3>2, <3>3 DEF Batch
      <4>2. batch'[a]["flusher"].n[j] \in {0, batch[a]["flusher"].n[j]}
        BY <3>2, <4>1
      <4>. QED
        BY <3>1, <4>2
    <3>4. CASE w = "loop"
      <4>1. batch'[a]["flusher"] = batch[a]["flusher"]
        BY <1>2, <2>1, <3>2, <3>4 DEF Who
      <4>. QED
        BY <3>1, <4>1
    <3>. QED
      BY <3>3, <3>4 DEF Who
  <2>6. Aside(a)
    BY <1>1, <2>4 DEF Aside, Shared
  <2>. QED
    BY <1>1, <2>4, <2>5, <2>6, ScrapeLocal
<1>. QED
  BY <1>3, <1>4 DEF Apply, First

(* A pipeline that fails: what was lost counts for what is missing.        *)
LEMMA DropScrapes ==
  ASSUME IInv, ScrapeInv, NEW a \in Process, NEW w \in Who, Drop(a, w), Others(a),
         UNCHANGED <<recorded, pending, pc, seen, sent, hash, held>>
  PROVE  ScrapeInv'
<1>1. seen' \in [Process -> Numbers] /\ Shared(a)' /\ Aside(a)
  BY HashesStay DEF ScrapeInv
<1>2. /\ lost' = [lost EXCEPT ![a] = Plus(lost[a], batch[a][w].n)]
      /\ batch' = [batch EXCEPT ![a][w] = Empty]
  BY DEF Drop, Lose
<1>3. \A k \in Counter : lost'[a][k] = lost[a][k] + batch[a][w].n[k]
  <2>1. lost'[a] = Plus(lost[a], batch[a][w].n)
    BY <1>2 DEF IInv, TypeOK
  <2>2. lost[a] \in [Counter -> Nat] /\ batch[a][w].n \in [Counter -> Nat]
    BY CounterTypes
  <2>. QED
    BY <2>1, <2>2, PlusType
<1>4. \A k \in Counter : Counted(a, k) => Counted(a, k)'
  <2>. SUFFICES ASSUME NEW k \in Counter, Counted(a, k) PROVE Counted(a, k)'
    OBVIOUS
  <2>1. batch[a][w].n[k] \in Nat
    BY CounterTypes
  <2>. QED
    BY <1>3, <2>1, NumberTypes DEF Counted
<1>5. Found(a)'
  <2>. USE DEF Counter
  <2>. QED
    BY <1>4 DEF ScrapeInv, Found
<1>6. Behind(a)'
  <2>. SUFFICES ASSUME Serving(a), NEW k \in Counter
                PROVE  batch'[a]["flusher"].n[k] <= held[a][k]
    BY DEF ScrapeInv, Behind, Serving
  <2>1. batch'[a]["flusher"] \in {Empty, batch[a]["flusher"]}
    BY <1>2 DEF IInv, TypeOK, Who
  <2>2. batch[a]["flusher"].n[k] <= held[a][k]
    BY DEF ScrapeInv, Behind
  <2>. QED
    BY <2>1, <2>2, EmptyType, NoneType, NumberTypes
<1>. QED
  BY <1>1, <1>5, <1>6, ScrapeLocal

LEMMA LoopTakesScrapes ==
  ASSUME IInv, ScrapeInv, NEW a \in Process, LoopTakes(a)
  PROVE  ScrapeInv'
<1>1. /\ pc[a] \in {"scrape", "close"} /\ Take(a, "loop")
      /\ pc' = [pc EXCEPT ![a] = IF pc[a] = "scrape" THEN "scrape sends" ELSE "close sends"]
      /\ held' = [held EXCEPT ![a] = batch[a]["flusher"].n]
      /\ UNCHANGED <<recorded, seen, sent, hash, lost>>
  BY DEF LoopTakes
<1>2. /\ seen' \in [Process -> Numbers]
      /\ \A b \in Process \ {a} : seen'[b] = seen[b] /\ held'[b] = held[b]
  BY <1>1 DEF IInv, TypeOK, ScrapeInv
<1>3. pc'[a] \in {"scrape sends", "close sends"}
  BY <1>1 DEF IInv, ControlOK
<1>4. Found(a)'
  BY <1>3 DEF Found
<1>5. Behind(a)'
  <2>1. pending'[a] = Empty /\ batch'[a]["flusher"] = batch[a]["flusher"]
    BY <1>1 DEF Take, IInv, TypeOK, Who
  <2>2. held'[a] = batch[a]["flusher"].n
    BY <1>1 DEF IInv, TypeOK
  <2>3. \A k \in Counter : batch'[a]["flusher"].n[k] <= held'[a][k]
    BY <2>1, <2>2, NumberTypes
  <2>. QED
    BY <2>1, <2>3, EmptyType DEF Behind
<1>. QED
  BY <1>1, <1>2, <1>4, <1>5, LoopTakesKeeps, HashesStay, ScrapeLocal

(* Once the flush of a scrape is over, what Redis counts, what the flusher *)
(* held and what was lost are all the process recorded.                    *)
LEMMA NothingElse ==
  ASSUME IInv, ScrapeInv, NEW a \in Process, pc[a] \in {"events", "queue", "buckets"},
         NEW k \in Counter
  PROVE  hash[k] + held[a][k] + lost[a][k] >= recorded[a][k]
<1>1. batch[a]["loop"].n[k] = 0
  BY NoneType DEF IInv, Kept, Hands, Sending
<1>2. pending[a].n[k] = 0 /\ batch[a]["flusher"].n[k] <= held[a][k]
  BY NoneType DEF ScrapeInv, Behind, Serving
<1>3. sent[a][k] <= hash[k]
  BY DEF ScrapeInv, Shared
<1>4. recorded[a][k] = sent[a][k] + pending[a].n[k] + batch[a]["loop"].n[k]
                         + batch[a]["flusher"].n[k] + lost[a][k]
  BY DEF IInv, Kept, Books
<1>. QED
  BY <1>1, <1>2, <1>3, <1>4, NumberTypes

LEMMA LoopSentScrapes ==
  ASSUME IInv, ScrapeInv, NEW a \in Process, LoopSent(a), Others(a)
  PROVE  ScrapeInv'
<1>1. /\ Sending(a) /\ pc' = [pc EXCEPT ![a] = IF pc[a] = "scrape sends" THEN "events" ELSE "closed"]
      /\ UNCHANGED <<recorded, pending, batch, seen, sent, hash, held, lost>>
  BY DEF LoopSent
<1>2. \/ pc[a] = "scrape sends" /\ pc'[a] = "events"
      \/ pc[a] = "close sends" /\ pc'[a] = "closed"
  BY <1>1 DEF Sending, IInv, ControlOK
<1>3. seen' \in [Process -> Numbers] /\ Shared(a)' /\ Aside(a)
  BY <1>1, HashesStay DEF ScrapeInv
<1>4. Behind(a)' /\ Found(a)'
  BY <1>1, <1>2 DEF ScrapeInv, Behind, Found, Serving
<1>. QED
  BY <1>3, <1>4, ScrapeLocal

LEMMA ReadScrapes ==
  ASSUME IInv, ScrapeInv, NEW a \in Process, Read(a), Others(a)
  PROVE  ScrapeInv'
<1>1. /\ pc[a] \in DOMAIN Reads
      /\ UNCHANGED <<recorded, pending, batch, sent, hash, held, lost>>
  BY DEF Read
<1>2. pc[a] \in {"events", "queue", "buckets"} /\ Serving(a)
  BY <1>1 DEF Reads, Serving
<1>3. /\ Reads["events"] = "queue" /\ Reads["queue"] = "buckets" /\ Reads["buckets"] = "shown"
  BY DEF Reads
<1>4. /\ pc[a] = "events" => pc'[a] = "queue"
      /\ pc[a] = "queue" => pc'[a] = "buckets"
      /\ pc[a] = "buckets" => pc'[a] \in {"shown", "own"}
  <2>1. pc' = [pc EXCEPT ![a] =
          IF pc[a] = "buckets" /\ seen[a].events = 0 /\ seen[a].queue = 0
          THEN "own" ELSE Reads[pc[a]]]
    BY DEF Read
  <2>2. pc'[a] = IF pc[a] = "buckets" /\ seen[a].events = 0 /\ seen[a].queue = 0
                 THEN "own" ELSE Reads[pc[a]]
    BY <2>1 DEF IInv, ControlOK
  <2>. QED
    BY <1>3, <2>2
<1>5. seen \in [Process -> Numbers] /\ hash \in [Counter -> Nat] /\ queue \in Nat
  BY MetricsAssumption DEF ScrapeInv, IInv, TypeOK
<1>. DEFINE now == CASE pc[a] = "events" -> [seen[a] EXCEPT !.events = hash["events"]]
                     [] pc[a] = "queue" -> [seen[a] EXCEPT !.queue = queue]
                     [] pc[a] = "buckets" -> [seen[a] EXCEPT !.fast = hash["fast"],
                                                             !.inf = hash["inf"]]
<1>6. seen' = [seen EXCEPT ![a] = now]
  BY DEF Read
<1>7. /\ now \in Numbers
      /\ pc[a] = "events" => now.events = hash["events"]
      /\ pc[a] = "queue" => now.events = seen[a].events
      /\ pc[a] = "buckets" => /\ now.events = seen[a].events
                              /\ now.fast = hash["fast"] /\ now.inf = hash["inf"]
  <2>1. seen[a] \in Numbers /\ hash["events"] \in Nat /\ hash["fast"] \in Nat /\ hash["inf"] \in Nat
    BY <1>5 DEF Counter
  <2>2. CASE pc[a] = "events"
    BY <1>5, <2>1, <2>2 DEF Numbers
  <2>3. CASE pc[a] = "queue"
    BY <1>5, <2>1, <2>3 DEF Numbers
  <2>4. CASE pc[a] = "buckets"
    BY <1>5, <2>1, <2>4 DEF Numbers
  <2>. QED
    BY <1>2, <2>2, <2>3, <2>4
<1>. HIDE DEF now
<1>8. /\ seen' \in [Process -> Numbers] /\ seen'[a] = now
      /\ \A b \in Process \ {a} : seen'[b] = seen[b] /\ held'[b] = held[b]
  BY <1>1, <1>5, <1>6, <1>7
<1>9. Behind(a)'
  BY <1>1, <1>2 DEF ScrapeInv, Behind, Serving
<1>10. /\ pc[a] = "events" => Counted(a, "events")'
       /\ pc[a] \in {"queue", "buckets"} => Counted(a, "events")'
       /\ pc[a] = "buckets" => Counted(a, "fast")' /\ Counted(a, "inf")'
  <2>1. "events" \in Counter /\ "fast" \in Counter /\ "inf" \in Counter
    BY DEF Counter
  <2>2. pc[a] = "events" => Counted(a, "events")'
    BY <1>1, <1>2, <1>7, <1>8, <2>1, NothingElse DEF Counted
  <2>3. pc[a] \in {"queue", "buckets"} => Counted(a, "events")'
    BY <1>1, <1>7, <1>8 DEF ScrapeInv, Found, Counted
  <2>4. pc[a] = "buckets" => Counted(a, "fast")' /\ Counted(a, "inf")'
    BY <1>1, <1>2, <1>7, <1>8, <2>1, NothingElse DEF Counted
  <2>. QED
    BY <2>2, <2>3, <2>4
<1>11. Found(a)'
  BY <1>2, <1>4, <1>10 DEF Found
<1>. QED
  BY <1>1, <1>8, <1>9, <1>11, HashesStay, ScrapeLocal

LEMMA QuietScrapes ==
  ASSUME IInv, ScrapeInv, NEW a \in Process, Quiet(a)
  PROVE  ScrapeInv'
<1>1. Others(a)
  BY QuietKeeps
<1>2. CASE FlusherWaits(a) \/ FlusherStops(a)
  <2>1. UNCHANGED <<recorded, pending, batch, pc, seen, sent, hash, held, lost>>
    BY <1>2 DEF FlusherWaits, FlusherStops
  <2>. QED
    BY <2>1 DEF ScrapeInv, Shared, Behind, Found, Counted, Serving
<1>3. CASE BeginScrape(a) \/ ReadFails(a) \/ Close(a)
  <2>1. UNCHANGED <<sent, hash, seen, held>>
    BY <1>3 DEF BeginScrape, ReadFails, Close
  <2>2. pc'[a] \in {"scrape", "own", "close"}
    BY <1>3 DEF BeginScrape, ReadFails, Close, IInv, ControlOK
  <2>. QED
    BY <1>1, <2>1, <2>2, IdleScrapes DEF Serving, ScrapeInv
<1>4. CASE Answer(a)
  <2>1. /\ UNCHANGED <<sent, hash>> /\ pc' = [pc EXCEPT ![a] = "idle"]
        /\ seen' = [seen EXCEPT ![a] = Unseen] /\ held' = [held EXCEPT ![a] = None]
    BY <1>4 DEF Answer
  <2>2. Unseen \in Numbers
    BY DEF Unseen, Numbers
  <2>3. /\ ~Serving(a)' /\ seen' \in [Process -> Numbers]
        /\ \A b \in Process \ {a} : seen'[b] = seen[b] /\ held'[b] = held[b]
    BY <2>1, <2>2 DEF ScrapeInv, Serving, IInv, TypeOK, ControlOK
  <2>. QED
    BY <1>1, <2>1, <2>3, IdleScrapes
<1>. QED
  BY <1>1, <1>2, <1>3, <1>4, LoopSentScrapes, ReadScrapes DEF Quiet

LEMMA GoneScrapes ==
  ASSUME IInv, ScrapeInv, NEW a \in Process, Gone(a), Others(a)
  PROVE  ScrapeInv'
<1>1. /\ UNCHANGED <<sent, hash>> /\ pc' = [pc EXCEPT ![a] = "down"]
      /\ seen' = [seen EXCEPT ![a] = Unseen] /\ held' = [held EXCEPT ![a] = None]
  BY DEF Gone
<1>2. Unseen \in Numbers
  BY DEF Unseen, Numbers
<1>3. /\ ~Serving(a)' /\ seen' \in [Process -> Numbers]
      /\ \A b \in Process \ {a} : seen'[b] = seen[b] /\ held'[b] = held[b]
  BY <1>1, <1>2 DEF ScrapeInv, Serving, IInv, TypeOK, ControlOK
<1>. QED
  BY <1>1, <1>3, IdleScrapes

LEMMA NextScrapes == IInv /\ ScrapeInv /\ [Next]_vars => ScrapeInv'
<1>. SUFFICES ASSUME IInv, ScrapeInv, [Next]_vars PROVE ScrapeInv'
  OBVIOUS
<1>1. CASE UNCHANGED vars
  BY <1>1 DEF vars, ScrapeInv, Shared, Behind, Found, Counted, Serving
<1>2. CASE \E a \in Process : \E kind \in DOMAIN Counts : Record(a, kind)
  BY <1>2, RecordScrapes
<1>3. CASE \E a \in Process : FlusherTakes(a) \/ LoopTakes(a) \/ Quiet(a)
  BY <1>3, FlusherTakesScrapes, LoopTakesScrapes, QuietScrapes
<1>4. CASE \E a \in Process : FlusherApplies(a) \/ LoopApplies(a)
  <2>1. PICK a \in Process : FlusherApplies(a) \/ LoopApplies(a)
    BY <1>4
  <2>2. Others(a) /\ UNCHANGED <<recorded, pending, pc, seen, held, lost>>
    BY <2>1, FlusherAppliesKeeps, LoopAppliesKeeps DEF FlusherApplies, LoopApplies
  <2>3. Apply(a, "flusher") \/ Apply(a, "loop")
    BY <2>1 DEF FlusherApplies, LoopApplies
  <2>. QED
    BY <2>2, <2>3, ApplyScrapes DEF Who
<1>5. CASE \E a \in Process : FlusherFails(a) \/ LoopFails(a)
  <2>1. PICK a \in Process : FlusherFails(a) \/ LoopFails(a)
    BY <1>5
  <2>2. Others(a) /\ UNCHANGED <<recorded, pending, pc, seen, sent, hash, held>>
    BY <2>1, FlusherFailsKeeps, LoopFailsKeeps DEF FlusherFails, LoopFails
  <2>3. Drop(a, "flusher") \/ Drop(a, "loop")
    BY <2>1 DEF FlusherFails, LoopFails
  <2>. QED
    BY <2>2, <2>3, DropScrapes DEF Who
<1>6. CASE \E a \in Process : Exit(a) \/ Kill(a)
  <2>1. PICK a \in Process : Exit(a) \/ Kill(a)
    BY <1>6
  <2>2. Others(a) /\ Gone(a)
    BY <2>1, ExitKeeps, KillKeeps DEF Exit, Kill
  <2>. QED
    BY <2>2, GoneScrapes
<1>. QED
  BY <1>1, <1>2, <1>3, <1>4, <1>5, <1>6 DEF Next, Flusher, Flush, Scrape, Quiet

(* A scrape answered from Redis counts all its own process recorded, but   *)
(* what the flusher held when the scrape flushed and what was lost, for    *)
(* any number of other processes that flush, fail and die meanwhile        *)
(* (prometheus.py:301-316).                                                *)
THEOREM ScrapesCountOwn == Spec => []ScrapeCountsOwn
<1>1. Init /\ [][IInv /\ IInv' /\ [Next]_vars]_vars => []ScrapeInv
  <2>1. ScrapeInv /\ [IInv /\ IInv' /\ [Next]_vars]_vars => ScrapeInv'
    BY NextScrapes DEF vars, ScrapeInv, Shared, Behind, Found, Counted, Serving
  <2>. QED
    BY InitScrape, <2>1, PTL
<1>. QED
  BY Inductive, <1>1, ScrapeInvCounts, PTL DEF Spec
=============================================================================
